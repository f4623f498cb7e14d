------------------------------ MODULE TpReset ------------------------------
(***************************************************************************)
(* tp_reset_seq between collectives, as the engine calls it when it serves *)
(* several slots (tools/affinity.cpp 1852, 2434, 2456): the host waits for *)
(* every card, then queues on each card's own stream a memset of its flags *)
(* and one of its counters, and goes on to queue the next collectives.     *)
(* Nothing makes a card wait for the clears of ANOTHER card.               *)
(***************************************************************************)
EXTENDS TpAllReduce

CONSTANTS
  ResetAfter   \* the collectives a reset follows, a subset of 1..NCalls

VARIABLE cleared   \* per rank, memsets done of the reset after call[r]

resetVars == <<tpVars, cleared>>

ResetInit == TpInit /\ cleared = [r \in Rank |-> 0]

\* sync_devices returned: every card has finished the collectives up to k.
Synced(k) ==
  \A q \in Rank : call[q] > k \/ (call[q] = k /\ \A b \in Block : ph[q][b] = "done")

\* A reset of this rank is queued or running.
Pending(r) == call[r] \in ResetAfter /\ cleared[r] < 2

(* The first memset: the flags other ranks release in this rank's memory.  *)
ClearFlags(r) ==
  /\ Pending(r) /\ Synced(call[r]) /\ cleared[r] = 0
  /\ flag' = [flag EXCEPT ![r] = [q \in Rank |-> [b \in Block |-> 0]]]
  /\ cleared' = [cleared EXCEPT ![r] = 1]
  /\ UNCHANGED <<call, ph, seq, scratch>>

(* The second memset: the rank's own counters.                             *)
ClearSeq(r) ==
  /\ Pending(r) /\ cleared[r] = 1
  /\ seq' = [seq EXCEPT ![r] = [b \in Block |-> 0]]
  /\ cleared' = [cleared EXCEPT ![r] = 2]
  /\ UNCHANGED <<call, ph, flag, scratch>>

(* The stream is in order: the next kernel waits for this card's memsets.  *)
StartNext(r) ==
  /\ ~Pending(r)
  /\ Start(r)
  /\ cleared' = [cleared EXCEPT ![r] = 0]

RankStep(r) ==
  \/ ClearFlags(r) \/ ClearSeq(r) \/ StartNext(r)
  \/ \E b \in Block : BlockNext(r, b) /\ UNCHANGED cleared

ResetNext == \E r \in Rank : RankStep(r)

ResetSpec == ResetInit /\ [][ResetNext]_resetVars

-----------------------------------------------------------------------------
\* A release, once made, is there when the peer waits for it: "nothing sets those
\* except those peers' pushes of s" (tp_allreduce.h).  A card that is slow to run
\* its own memset wipes what a faster peer has already released for the next
\* collective, and then waits for it until the spin bound.
ReleaseSurvivesReset == ReleaseIsSeen
=============================================================================
