------------------------------ MODULE SsdStage ------------------------------
(***************************************************************************)
(* A layer dispatch that needs experts whose bytes are only on disk        *)
(* (src/gpu/static_placement.hip: ssd_stage, ssd_stage_arm and the host    *)
(* build of run_batch_device).  The host reads each one into a slot of a   *)
(* small staging ring, the cards stream from the slot while they compute,  *)
(* and the slot may be rewritten when every card is past the dispatch.     *)
(*                                                                         *)
(* Life of a slot: claimed by the dispatch being built, armed with an      *)
(* event on each card's stream once its launches are issued, free when the *)
(* events have signalled.  A card's stream is the queue of its launches;   *)
(* an event is the number of launches it was recorded behind.              *)
(***************************************************************************)
EXTENDS Naturals, Sequences

CONSTANTS
  Expert,        \* the experts on disk of one layer
  None,          \* UINT64_MAX
  NCard,         \* cards, each with half of every expert
  NSlot,         \* stage_slots()
  Dispatches,    \* dispatches of the run
  FetchMayFail,  \* a pread may fail
  GrowMayFail    \* grow_w8a8 may fail

ASSUME StageAssumption ==
  /\ None \notin Expert /\ NCard \in Nat \ {0} /\ NSlot \in Nat \ {0} /\ Dispatches \in Nat
  /\ FetchMayFail \in BOOLEAN /\ GrowMayFail \in BOOLEAN

Card == 1..NCard
StageSlot == 1..NSlot

VARIABLES
  idx, claimed, armed,  \* Impl::stage
  ev,          \* ... and its events: launches of each card they are behind
  bytes,       \* the expert whose bytes are in the slot
  queue,       \* launches of a card that may still read: sets of <<expert, slot>>
  launched, done,
  begun, sel,      \* dispatches begun, and the experts of this one
  hpc, dv,     \* where the host is, and the card it builds for
  todo, took,  \* experts this card's pass has not asked for; tiles it has
  want,        \* <<expert, slot>> being staged
  handled,     \* experts the caller is told were taken
  given,         \* experts each card was given
  failed       \* a read or a growth failed in this dispatch (kept by no variable of the code)

ringVars == <<idx, claimed, armed, ev, bytes>>
cardVars == <<queue, launched, done>>
passVars == <<begun, sel, dv, handled, given, failed>>
stageVars == <<ringVars, cardVars, passVars, hpc, todo, took, want>>

StageInit ==
  /\ idx = [s \in StageSlot |-> None] /\ bytes = [s \in StageSlot |-> None]
  /\ claimed = [s \in StageSlot |-> FALSE] /\ armed = [s \in StageSlot |-> FALSE]
  /\ ev = [s \in StageSlot |-> [c \in Card |-> 0]]
  /\ queue = [c \in Card |-> <<>>]
  /\ launched = [c \in Card |-> 0] /\ done = [c \in Card |-> 0]
  /\ begun = 0 /\ sel = {} /\ hpc = "idle" /\ dv = 1 /\ todo = {} /\ took = {}
  /\ want = <<None, 1>> /\ handled = {} /\ given = [c \in Card |-> {}]
  /\ failed = FALSE

-----------------------------------------------------------------------------
(* ssd_stage.                                                              *)

\* The claim list not consulted.
NoClaims(x) == {s \in StageSlot : FALSE}

Claims(x) == {s \in StageSlot : claimed[s] /\ idx[s] = x}

Signalled(s) == \A c \in Card : done[c] >= ev[s][c]

FreeSlots == {s \in StageSlot : ~claimed[s] /\ (~armed[s] \/ Signalled(s))}
Waitable == {s \in StageSlot : ~claimed[s] /\ armed[s]}
First(S) == CHOOSE s \in S : \A t \in S : s <= t

(* The other card has asked already: the slot holds both halves.           *)
Hit(x) ==
  /\ hpc = "member" /\ x \in todo /\ Claims(x) # {}
  /\ took' = took \cup {<<x, First(Claims(x))>>} /\ todo' = todo \ {x}
  /\ UNCHANGED <<ringVars, cardVars, passVars, hpc, want>>

Pick(x) ==
  /\ hpc = "member" /\ x \in todo /\ Claims(x) = {} /\ FreeSlots # {}
  /\ want' = <<x, First(FreeSlots)>> /\ todo' = todo \ {x} /\ hpc' = "fetch"
  /\ UNCHANGED <<ringVars, cardVars, passVars, took>>

(* Nothing retired yet: wait for the first slot an earlier dispatch owns.  *)
PickWait(x) ==
  /\ hpc = "member" /\ x \in todo /\ Claims(x) = {} /\ FreeSlots = {} /\ Waitable # {}
  /\ want' = <<x, First(Waitable)>> /\ todo' = todo \ {x} /\ hpc' = "wait"
  /\ UNCHANGED <<ringVars, cardVars, passVars, took>>

WaitOver ==
  /\ hpc = "wait" /\ Signalled(want[2])
  /\ hpc' = "fetch"
  /\ UNCHANGED <<ringVars, cardVars, passVars, todo, took, want>>

\* Waiting for a slot of the dispatch that is being built.
DeclineNot(x) ==
  /\ hpc = "member" /\ x \in todo /\ Claims(x) = {} /\ FreeSlots = {} /\ Waitable = {}
  /\ \E s \in StageSlot : ~claimed[s] /\ todo' = todo \ {x}
  /\ UNCHANGED <<ringVars, cardVars, passVars, hpc, took, want>>

(* Every slot belongs to the dispatch being built: waiting cannot help.    *)
Decline(x) ==
  /\ hpc = "member" /\ x \in todo /\ Claims(x) = {} /\ FreeSlots = {} /\ Waitable = {}
  /\ todo' = todo \ {x}
  /\ UNCHANGED <<ringVars, cardVars, passVars, hpc, took, want>>

Fetch ==
  LET x == want[1]  s == want[2] IN
  /\ hpc = "fetch"
  /\ bytes' = [bytes EXCEPT ![s] = x] /\ idx' = [idx EXCEPT ![s] = x]
  /\ claimed' = [claimed EXCEPT ![s] = TRUE] /\ armed' = [armed EXCEPT ![s] = FALSE]
  /\ took' = took \cup {want} /\ hpc' = "member"
  /\ UNCHANGED <<ev, cardVars, passVars, todo, want>>

(* The read is into a buffer of its own: the slot loses its name only.     *)
FetchFails ==
  /\ FetchMayFail /\ hpc = "fetch"
  /\ idx' = [idx EXCEPT ![want[2]] = None] /\ armed' = [armed EXCEPT ![want[2]] = FALSE]
  /\ failed' = TRUE /\ hpc' = "member"
  /\ UNCHANGED <<claimed, ev, bytes, cardVars, begun, sel, dv, handled, given, todo, took, want>>

-----------------------------------------------------------------------------
(* run_batch_device.                                                       *)

Begin(S) ==
  /\ hpc = "idle" /\ begun < Dispatches
  /\ begun' = begun + 1 /\ sel' = S /\ todo' = S /\ took' = {}
  /\ dv' = 1 /\ handled' = {} /\ given' = [c \in Card |-> {}] /\ failed' = FALSE
  /\ hpc' = "member"
  /\ UNCHANGED <<ringVars, cardVars, want>>

Experts == {p[1] : p \in took}

(* The passes over, the card is given its tiles, if any, and the next card *)
(* is built for.                                                           *)
Launch ==
  /\ hpc = "member" /\ todo = {}
  /\ handled' = handled \cup Experts
  /\ given' = [given EXCEPT ![dv] = Experts]
  /\ IF took = {} THEN UNCHANGED <<queue, launched>>
     ELSE queue' = [queue EXCEPT ![dv] = Append(@, took)]
          /\ launched' = [launched EXCEPT ![dv] = @ + 1]
  /\ took' = {}
  /\ IF dv = NCard THEN hpc' = "arm" /\ UNCHANGED <<dv, todo>>
     ELSE dv' = dv + 1 /\ todo' = sel /\ UNCHANGED hpc
  /\ UNCHANGED <<ringVars, done, begun, sel, failed, want>>

(* The pairs are marked handled before the arena grows; a growth that      *)
(* fails returns there, past the arming and the cards not built for yet.   *)
GrowFails ==
  /\ GrowMayFail /\ hpc = "member" /\ todo = {} /\ took # {}
  /\ handled' = handled \cup Experts /\ failed' = TRUE /\ hpc' = "check"
  /\ UNCHANGED <<ringVars, cardVars, begun, sel, dv, given, todo, took, want>>

\* The events recorded on one card's stream only.
ArmFirst ==
  /\ hpc = "arm"
  /\ ev' = [s \in StageSlot |-> IF claimed[s] THEN [ev[s] EXCEPT ![1] = launched[1]] ELSE ev[s]]
  /\ armed' = [s \in StageSlot |-> armed[s] \/ claimed[s]]
  /\ claimed' = [s \in StageSlot |-> FALSE]
  /\ hpc' = "check"
  /\ UNCHANGED <<idx, bytes, cardVars, passVars, todo, took, want>>

(* ssd_stage_arm.                                                          *)
Arm ==
  /\ hpc = "arm"
  /\ ev' = [s \in StageSlot |-> IF claimed[s] THEN launched ELSE ev[s]]
  /\ armed' = [s \in StageSlot |-> armed[s] \/ claimed[s]]
  /\ claimed' = [s \in StageSlot |-> FALSE]
  /\ hpc' = "check"
  /\ UNCHANGED <<idx, bytes, cardVars, passVars, todo, took, want>>

(* The caller stops the program when a pair was left unhandled.            *)
Accept ==
  /\ hpc = "check"
  /\ hpc' = IF sel \subseteq handled THEN "idle" ELSE "fatal"
  /\ UNCHANGED <<ringVars, cardVars, passVars, todo, took, want>>

HostNext ==
  \/ \E S \in (SUBSET Expert) \ {{}} : Begin(S)
  \/ \E x \in Expert : Hit(x) \/ Pick(x) \/ PickWait(x) \/ Decline(x)
  \/ WaitOver \/ Fetch \/ FetchFails \/ Launch \/ GrowFails \/ Arm \/ Accept

CardDone(c) ==
  /\ queue[c] # <<>>
  /\ queue' = [queue EXCEPT ![c] = Tail(@)] /\ done' = [done EXCEPT ![c] = @ + 1]
  /\ UNCHANGED <<ringVars, launched, passVars, hpc, todo, took, want>>

StageNext == HostNext \/ \E c \in Card : CardDone(c)
StageSpec == StageInit /\ [][StageNext]_stageVars

(* The host runs, and a card finishes what it has been given.              *)
StageFairSpec == StageSpec /\ WF_stageVars(HostNext) /\ \A c \in Card : WF_stageVars(CardDone(c))

-----------------------------------------------------------------------------
(* Properties.                                                             *)

\* A launch may read its slots until it is done: while any card's queue holds it, and
\* while a tile built for it waits to be launched, the slot has its expert's bytes.
SlotHoldsItsExpert ==
  /\ \A c \in Card : \A i \in 1..Len(queue[c]) : \A p \in queue[c][i] : bytes[p[2]] = p[1]
  /\ \A p \in took : bytes[p[2]] = p[1]

\* A dispatch the caller accepts was computed in full, if nothing failed in it: each
\* card holds half of every expert, so each must have been given all of them, by the
\* slots one card's pass claimed and those it found claimed, whatever failed before.
EveryCardRunsAll == hpc = "idle" /\ ~failed => \A c \in Card : given[c] = sel

\* A dispatch ends, accepted or refused: the host never waits for a slot that only
\* its own later launches would free.
DispatchEnds == hpc = "member" ~> hpc \in {"idle", "fatal"}
=============================================================================
