-------------------------- MODULE MCPlacementEngine --------------------------
(* Two layers of three experts: layer 0 planned on the card, layer 1 built *)
(* by the host for the expert it has on the SSD tier.  A ring of Lead + 2  *)
(* slots, the fewest the gate suffices for; the last dispatches are wide.  *)
EXTENDS PlacementEngine, TLC

Tiers == <<"Vram", "Pool", "Pool", "Vram", "Pool", "Ssd">>
TierOf == [i \in Idx |-> Tiers[i + 1]]
Sel(l, a, b, c) == [layer |-> l, counts |-> 0 :> a @@ 1 :> b @@ 2 :> c]
CardRoutes == <<Sel(0, 0, 2, 0), Sel(0, 0, 0, 3), Sel(0, 3, 0, 0), Sel(0, 0, 1, 1),
                Sel(0, 2, 0, 0), Sel(0, 0, 0, 1)>>
HostRoutes == <<Sel(1, 0, 2, 1), Sel(1, 3, 0, 0)>>
LastTwo == (NDispatch - 1)..NDispatch
Half == [n |-> 1, d |-> 2]
FiveFourths == [n |-> 5, d |-> 4]
=============================================================================
