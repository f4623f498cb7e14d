----------------------------- MODULE ExpertHeat -----------------------------
(***************************************************************************)
(* Which expert to move (src/engine/expert_heat.cpp): a heat for every     *)
(* (layer, expert), decayed when its layer is dispatched and credited when *)
(* it is selected; the pair of a pooled and a resident expert worth        *)
(* swapping, by rank or by demand.  The object is a record `hs`, and each  *)
(* method an operator of it.  ExpertHeat::busy_ is an argument: the        *)
(* engine's ledger keeps it.                                               *)
(***************************************************************************)
EXTENDS Naturals, Sequences, FiniteSets, FiniteSetsExt

CONSTANTS
  NLayer, NExpert,
  Decay,       \* HeatParams::decay, as a fraction [n, d]
  Hysteresis,  \* HeatParams::hysteresis, as a fraction
  MinGain,     \* HeatParams::min_gain, in the unit of heats
  Credit,      \* the heat of one activation
  Warmup       \* HeatParams::warmup_ticks

ASSUME HeatAssumption ==
  /\ NLayer \in Nat \ {0} /\ NExpert \in Nat \ {0} /\ Warmup \in Nat
  /\ MinGain \in Nat /\ Credit \in Nat \ {0}
  /\ Decay \in [n : Nat, d : Nat \ {0}] /\ Decay.n <= Decay.d
  /\ Hysteresis \in [n : Nat, d : Nat \ {0}] /\ Hysteresis.n >= Hysteresis.d

Idx == 0..(NLayer * NExpert - 1)
LayerOf(i) == i \div NExpert

HeatNew(tier) ==
  [heat |-> [i \in Idx |-> 0], tier |-> tier, ticks |-> 0, demand |-> <<>>,
   res |-> [l \in 0..(NLayer - 1) |-> Cardinality({i \in Idx : LayerOf(i) = l /\ tier[i] = "Vram"})]]

\* An expert that leaves VRAM stays in its layer's count.
SetTierKeepsCount(hs, i, t) ==
  [hs EXCEPT !.tier[i] = t,
             !.res[LayerOf(i)] = IF hs.tier[i] # "Vram" /\ t = "Vram" THEN @ + 1 ELSE @]

SetTier(hs, i, t) ==
  [hs EXCEPT !.tier[i] = t,
             !.res[LayerOf(i)] = IF hs.tier[i] = "Vram" /\ t # "Vram" THEN @ - 1
                                 ELSE IF hs.tier[i] # "Vram" /\ t = "Vram" THEN @ + 1 ELSE @]

Decayed(x) == (x * Decay.n) \div Decay.d

\* The layer's plane decays, then the experts selected are credited.
Observe(hs, l, counts) ==
  [hs EXCEPT !.ticks = @ + 1,
             !.heat = [i \in Idx |-> IF LayerOf(i) = l
                                     THEN Decayed(@[i]) + Credit * counts[i % NExpert] ELSE @[i]]]

(* note_missing: the last dispatch's misses replace whatever was left.     *)
NoteMissing(hs, missing) == [hs EXCEPT !.demand = missing]

-----------------------------------------------------------------------------
Warm(hs) == hs.ticks >= Warmup

\* A transfer in flight does not exclude its expert.
InTierBusy(hs, busy, t) == {i \in Idx : hs.tier[i] = t}

InTier(hs, busy, t) == {i \in Idx : ~busy[i] /\ hs.tier[i] = t}

\* Ties go to the layer with the fewest resident experts, then to the first index.
Hottest(hs, C) ==
  CHOOSE i \in C : \A j \in C :
    LET ri == hs.res[LayerOf(i)]  rj == hs.res[LayerOf(j)] IN
    \/ hs.heat[i] > hs.heat[j]
    \/ hs.heat[i] = hs.heat[j] /\ (ri < rj \/ (ri = rj /\ i <= j))

\* ...and here to the layer with the most.
Coldest(hs, C) ==
  CHOOSE i \in C : \A j \in C :
    LET ri == hs.res[LayerOf(i)]  rj == hs.res[LayerOf(j)] IN
    \/ hs.heat[i] < hs.heat[j]
    \/ hs.heat[i] = hs.heat[j] /\ (ri > rj \/ (ri = rj /\ i <= j))

Worth(hs, up, down) ==
  hs.heat[up] * Hysteresis.d >= hs.heat[down] * Hysteresis.n + MinGain * Hysteresis.d

\* The result of a pick: the pairs it found, one or none, and the object after it.
Found(hs, pairs) == [hs |-> hs, pairs |-> pairs]

Pick(hs, busy) ==
  LET P == InTier(hs, busy, "Pool")
      V == InTier(hs, busy, "Vram")
      up == Hottest(hs, P)
      down == Coldest(hs, V)
  IN Found(hs, IF Warm(hs) /\ P # {} /\ V # {} /\ Worth(hs, up, down)
               THEN {[up |-> up, down |-> down]} ELSE {})

(* pick_demand: the misses are taken from the front, the ones that cannot  *)
(* or need not move passed over; the list keeps what follows.              *)
PickDemand(hs, busy) ==
  LET V == InTier(hs, busy, "Vram")
      P == InTier(hs, busy, "Pool")
      down == Coldest(hs, V)
      stops == {k \in DOMAIN hs.demand :
                  hs.demand[k] \in P /\ (V = {} \/ Worth(hs, hs.demand[k], down))}
  IN IF ~Warm(hs) THEN Found(hs, {})
     ELSE IF stops = {} THEN Found([hs EXCEPT !.demand = <<>>], {})
     ELSE LET k == Min(stops) IN
          Found([hs EXCEPT !.demand = SubSeq(@, k + 1, Len(@))],
                IF V = {} THEN {} ELSE {[up |-> hs.demand[k], down |-> down]})

(* resident_per_layer: the recount the incremental one must agree with.    *)
ResidentPerLayer(hs) ==
  [l \in 0..(NLayer - 1) |-> Cardinality({i \in Idx : LayerOf(i) = l /\ hs.tier[i] = "Vram"})]
=============================================================================
