----------------------------- MODULE MCServePool -----------------------------
(* An instance of Serve: one connection, at the shipped sizes of the        *)
(* compressor and the draft.                                                *)
EXTENDS Serve, TLC

CONSTANT c1
One == c1 :> {[n |-> 12, budget |-> 8]}
=============================================================================
