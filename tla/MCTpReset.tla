----------------------------- MODULE MCTpReset -----------------------------
(* Two cards, resets between passes of two collectives.                    *)
EXTENDS TpReset

MCCalls == <<1, 1, 2, 2, 1, 1>>
MCCell == 0..1
MCChunk == [nb \in 1..2 |-> [c \in MCCell |-> c \div ((2 + nb - 1) \div nb)]]
=============================================================================
