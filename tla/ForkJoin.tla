------------------------------ MODULE ForkJoin ------------------------------
(***************************************************************************)
(* What a worker pool promises its caller: every party runs its share of a *)
(* region exactly once, and the caller goes on only when all have.         *)
(***************************************************************************)
EXTENDS Naturals

CONSTANTS Party, Regions

VARIABLES region,   \* regions begun
          todo      \* the parties that have not run their share of this one

Init == region = 0 /\ todo = {}

Begin ==
  /\ todo = {} /\ region < Regions
  /\ region' = region + 1 /\ todo' = Party

Run(p) ==
  /\ p \in todo
  /\ todo' = todo \ {p} /\ UNCHANGED region

Next == Begin \/ \E p \in Party : Run(p)

Spec == Init /\ [][Next]_<<region, todo>>
=============================================================================
