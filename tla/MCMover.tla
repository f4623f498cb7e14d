------------------------------ MODULE MCMover ------------------------------
(* An instance of Mover: one resident expert and two pooled, and two cards *)
(* that drift apart.  Which expert starts in which slot makes no           *)
(* difference, so one placement is taken: symmetry would not be sound      *)
(* under liveness.  The third expert's layer is built by the host.         *)
EXTENDS Mover, TLC

CONSTANTS e1, e2, e3, s1, s2, p1, p2

OnePlacement ==
    /\ MoverInit
    /\ slabOf = (e1 :> s1 @@ e2 :> None @@ e3 :> None)
    /\ poolOf = (e1 :> None @@ e2 :> p1 @@ e3 :> p2)

OnePlacementSpec == OnePlacement /\ [][Next]_vars /\ Fairness
=============================================================================
