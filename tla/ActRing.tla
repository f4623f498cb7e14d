------------------------------ MODULE ActRing ------------------------------
(***************************************************************************)
(* How the placement strategy hears of the routing (src/gpu/moe_plan.hip,  *)
(* src/gpu/static_placement.hip).  The plan kernel of each layer dispatch  *)
(* writes a record into a ring in pinned host memory and never waits; the  *)
(* host, which launches the dispatches ahead of the card, drains the ring  *)
(* after each launch.  What keeps the two apart is not the ring but        *)
(* lead_gate, which holds the host within Lead dispatches of the card, and *)
(* only for dispatches of few tokens.                                      *)
(*                                                                         *)
(* Dispatches are numbered from 1 and a record is the number of its        *)
(* dispatch, in two parts that are written and read apart.                 *)
(***************************************************************************)
EXTENDS Naturals, Sequences

CONSTANTS
  NDispatch,   \* dispatches of the run
  Slots,       \* kActSlots
  Lead,        \* max_lead_blocks; 0 is no gate
  Wide         \* dispatches of more than 64 tokens (prompt chunks)

ASSUME RingAssumption ==
  NDispatch \in Nat /\ Slots \in Nat \ {0} /\ Lead \in Nat /\ Wide \subseteq 1..NDispatch

VARIABLES
  issued,      \* dispatches launched
  marks,       \* lead_ev: dispatches launched before each gated one
  head, slot,  \* the ring: what the card has published, and the records
  wpc,         \* how far the plan kernel is with its record
  hpc,         \* where the host is
  tail, h, lay,  \* act_tail_ and act_drain's locals
  drop, seen,  \* act_drop_, act_seen_
  got          \* the two parts of the last record observed

cardVars == <<head, slot, wpc>>
readVars == <<tail, h, lay, drop, seen, got>>
vars == <<issued, marks, cardVars, hpc, readVars>>

Blank == [layer |-> 0, counts |-> 0]

RingInit ==
  /\ issued = 0 /\ marks = <<>> /\ head = 0 /\ slot = [i \in 0..(Slots - 1) |-> Blank]
  /\ wpc = "idle" /\ hpc = "launch"
  /\ tail = 0 /\ h = 0 /\ lay = 0 /\ drop = 0 /\ seen = 0
  /\ got = Blank

-----------------------------------------------------------------------------
(* The card: the record after the tiles, the head last.                    *)

WriteCounts ==
  /\ wpc = "idle" /\ head < issued
  /\ slot' = [slot EXCEPT ![head % Slots].counts = head + 1]
  /\ wpc' = "counts"
  /\ UNCHANGED <<issued, marks, head, hpc, readVars>>

WriteLayer ==
  /\ wpc = "counts"
  /\ slot' = [slot EXCEPT ![head % Slots].layer = head + 1]
  /\ wpc' = "layer"
  /\ UNCHANGED <<issued, marks, head, hpc, readVars>>

PublishHead ==
  /\ wpc = "layer"
  /\ head' = head + 1 /\ wpc' = "idle"
  /\ UNCHANGED <<issued, marks, slot, hpc, readVars>>

CardNext == WriteCounts \/ WriteLayer \/ PublishHead

-----------------------------------------------------------------------------
(* The host.                                                               *)

\* The gate waiting for the event of the dispatch before the one it should.
GateLoose(n) ==
  n \notin Wide /\ Lead # 0 /\ Len(marks) > Lead => head >= marks[Len(marks) - Lead]

(* lead_gate: the event recorded Lead gated dispatches ago has signalled,  *)
(* and with it everything the card had been given before that one.         *)
GateOpen(n) ==
  n \notin Wide /\ Lead # 0 /\ Len(marks) >= Lead => head >= marks[Len(marks) - Lead + 1]

Launch ==
  /\ hpc = "launch" /\ issued < NDispatch
  /\ GateOpen(issued + 1)
  /\ marks' = IF issued + 1 \in Wide \/ Lead = 0 THEN marks ELSE Append(marks, issued)
  /\ issued' = issued + 1 /\ hpc' = "drain"
  /\ UNCHANGED <<cardVars, readVars>>

(* act_drain's prologue: nothing new and the tick does nothing; too much,  *)
(* and what was overwritten is counted and skipped.                        *)
Drain ==
  /\ hpc = "drain"
  /\ IF head <= tail
     THEN hpc' = "launch" /\ UNCHANGED <<tail, h, drop>>
     ELSE /\ hpc' = "layer" /\ h' = head
          /\ IF head - tail > Slots
             THEN drop' = drop + (head - tail - Slots) /\ tail' = head - Slots
             ELSE UNCHANGED <<drop, tail>>
  /\ UNCHANGED <<issued, marks, cardVars, lay, seen, got>>

ReadLayer ==
  /\ hpc = "layer"
  /\ lay' = slot[tail % Slots].layer /\ hpc' = "counts"
  /\ UNCHANGED <<issued, marks, cardVars, tail, h, drop, seen, got>>

(* The counts are read, and heat observes them.                            *)
ReadCounts ==
  LET c == slot[tail % Slots].counts IN
  /\ hpc = "counts"
  /\ got' = [layer |-> lay, counts |-> c]
  /\ tail' = tail + 1 /\ seen' = seen + 1
  /\ hpc' = IF tail + 1 < h THEN "layer" ELSE "pick"
  /\ UNCHANGED <<issued, marks, cardVars, h, lay, drop>>

(* The rounds of engine_tick, one for each record taken; the card goes on. *)
PickRounds ==
  /\ hpc = "pick"
  /\ hpc' = "launch"
  /\ UNCHANGED <<issued, marks, cardVars, tail, h, lay, drop, seen, got>>

HostNext == Launch \/ Drain \/ ReadLayer \/ ReadCounts \/ PickRounds

RingNext == CardNext \/ HostNext
RingSpec == RingInit /\ [][RingNext]_vars

-----------------------------------------------------------------------------
(* Properties.                                                             *)

\* No prompt chunk has been launched: every dispatch so far has passed the gate.
AllGated == (1..issued) \cap Wide = {}

ExactSoFar ==
  /\ drop = 0 /\ seen = tail
  /\ seen > 0 => got = [layer |-> tail, counts |-> tail]

\* Until the first prompt chunk, heat observes each dispatch once, in order and
\* whole: nothing is torn, nothing dropped.
HeatSeesEveryDispatch == AllGated => ExactSoFar

-----------------------------------------------------------------------------
(* The inductive invariant behind HeatSeesEveryDispatch.                   *)

RingTypeOK ==
  /\ issued \in 0..NDispatch /\ head \in Nat /\ tail \in Nat /\ h \in Nat
  /\ lay \in Nat /\ drop \in Nat /\ seen \in Nat
  /\ slot \in [0..(Slots - 1) -> [layer : Nat, counts : Nat]]
  /\ wpc \in {"idle", "counts", "layer"}
  /\ hpc \in {"launch", "drain", "layer", "counts", "pick"}
  /\ marks \in Seq(Nat) /\ got \in [layer : Nat, counts : Nat]

\* One mark for every dispatch: what had been launched before it.
MarksAreDense == Len(marks) = issued /\ \A i \in 1..issued : marks[i] = i - 1

\* How far the host, the card and the reader can be apart.
Apart ==
  /\ tail <= head /\ head <= issued
  /\ wpc # "idle" => head < issued
  /\ hpc \in {"layer", "counts"} => tail < h /\ h <= head /\ issued <= h + Lead + 1
  /\ hpc = "drain" => issued <= head + Lead + 1 /\ issued <= tail + Lead + 2
  /\ hpc \in {"layer", "counts"} => issued <= tail + Lead + 2
  /\ hpc \in {"launch", "pick"} => issued <= tail + Lead + 1

\* Records published and not read yet are whole, and so is the part being read.
RecordsHold ==
  /\ \A t \in tail..(head - 1) : slot[t % Slots] = [layer |-> t + 1, counts |-> t + 1]
  /\ wpc # "idle" => slot[head % Slots].counts = head + 1
  /\ wpc = "layer" => slot[head % Slots].layer = head + 1
  /\ hpc = "counts" => lay = tail + 1

\* While every dispatch is gated the host, the card and the reader stay this close;
\* what the type invariant says holds past that too.
RingInv == RingTypeOK /\ (AllGated => MarksAreDense /\ Apart /\ RecordsHold /\ ExactSoFar)
=============================================================================
