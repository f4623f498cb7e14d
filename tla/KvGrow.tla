------------------------------- MODULE KvGrow -------------------------------
(***************************************************************************)
(* The compressed KV cache that grows while the sequence runs.             *)
(*                                                                         *)
(* One address-space reservation per layer and card (a "span") is backed   *)
(* with VRAM a prefix at a time (gpu/vmem.hip).  Two threads extend it     *)
(* with no lock between them: the request thread, before a prefill         *)
(* (kv_reserve_for), and the grower thread, which keeps the cache a margin *)
(* ahead of the position the request thread last noted (dense_gpu.hip).    *)
(* A kernel that writes a row outside the backed prefix is a memory fault. *)
(***************************************************************************)
EXTENDS Integers, FiniteSets

CONSTANTS
  NSpans,      \* layers x cards that hold a compressed cache
  Ratio,       \* Ratio[sp]: positions one compressed row of the span stands for
  MaxPos,      \* --kv-size
  InitPos,     \* --kv-commit: positions backed at load
  Margin,      \* --kv-margin
  DraftLen,    \* tokens the draft proposes: a verify block writes DraftLen + 1 positions
  Room,        \* positions a request's budget leaves free at the end (32 in the code)
  PrefillLen,  \* the prefill arena's chunk
  Vram,        \* granules of VRAM free after load
  Hits,        \* positions the prefix store, which survives a restart, can resume at
  PrefixOn,    \* whether a prefix store is configured
  MaxIds,      \* bound: the longest prompt
  MaxReqs,     \* bound: requests served
  Faulty       \* the threads whose driver calls may fail for another reason than VRAM

Spans == 1..NSpans
Threads == {"serve", "grow"}

ASSUME KvAssumption ==
  /\ NSpans \in Nat \ {0} /\ MaxPos \in Nat \ {0}
  /\ Ratio \in [Spans -> Nat \ {0}]
  /\ InitPos \in 0..MaxPos /\ Margin \in Nat \ {0}
  /\ DraftLen \in Nat /\ Room \in Nat /\ PrefillLen \in Nat \ {0} /\ Vram \in Nat
  /\ Hits \subseteq Nat /\ PrefixOn \in BOOLEAN
  /\ MaxIds \in Nat \ {0} /\ MaxReqs \in Nat
  /\ Faulty \subseteq Threads

Least(a, b) == IF a <= b THEN a ELSE b

\* a_comp_rows_: the rows of a span that holds the whole context.
Full(sp) == MaxPos \div Ratio[sp] + 2

\* comp_rows_for: rows that back `pos` positions, the two rows of slack included.
RowsFor(sp, pos) ==
  IF pos >= MaxPos THEN Full(sp)
                   ELSE Least(Full(sp), (Full(sp) * pos) \div MaxPos + 2)

\* Rows the compressor has emitted once `pos` positions are fed.
RowsUsed(sp, pos) == pos \div Ratio[sp]

VARIABLES
  committed,   \* committed_ of each span, in rows (a row is the granule)
  mapped,      \* the prefix of each span the driver has really mapped
  vram,        \* granules left
  commitCall,  \* each thread's kv_commit_positions in progress
  kvPos,       \* kv_pos_: the position last noted
  kvBacked,    \* kv_backed_: the high-water mark the grower has published
  growErr,     \* kv_grow_err_ is set
  req,         \* the request being served
  reqs,        \* requests accepted so far
  unbacked     \* a row was written outside the mapped prefix: the process is gone

kvVars == <<committed, mapped, vram, commitCall, kvPos, kvBacked, growErr, req, reqs, unbacked>>

NoCall == [at |-> "none", target |-> 0, sp |-> 1, off |-> 0, want |-> 0, ok |-> TRUE]
NoReq == [phase |-> "idle", n |-> 0, pos |-> 0, goal |-> 0, left |-> 0]

KvInit ==
  /\ committed = [sp \in Spans |-> RowsFor(sp, InitPos)]
  /\ mapped = committed
  /\ vram = Vram
  /\ commitCall = [t \in Threads |-> NoCall]
  /\ kvPos = 0
  /\ kvBacked = InitPos
  /\ growErr = FALSE
  /\ req = NoReq
  /\ reqs = 0
  /\ unbacked = FALSE

\* Rows for positions 0..pos-1 are all inside what the driver has mapped.
Covers(pos) == \A sp \in Spans : RowsUsed(sp, pos) <= mapped[sp]

(***************************************************************************)
(* kv_commit_positions and VirtualSpan::commit_to: one thread's walk over  *)
(* the spans.                                                              *)
(***************************************************************************)
Started(target) ==
  IF target > MaxPos THEN [NoCall EXCEPT !.at = "done", !.target = target, !.ok = FALSE]
                     ELSE [NoCall EXCEPT !.at = "look", !.target = target]

NextSpan(c) == IF c.sp = NSpans THEN [c EXCEPT !.at = "done"]
                                ELSE [c EXCEPT !.at = "look", !.sp = c.sp + 1]

\* A span that fails is passed over instead of ending the call.
FailedSkips(c) == NextSpan(c)

Failed(c) == [c EXCEPT !.at = "done", !.ok = FALSE]

\* `want <= committed_`, or take the growth's range from committed_.
Look(t) ==
  /\ commitCall[t].at = "look"
  /\ LET c == commitCall[t]
         want == RowsFor(c.sp, c.target)
     IN commitCall' = [commitCall EXCEPT ![t] =
          IF want <= committed[c.sp] THEN NextSpan(c)
          ELSE [c EXCEPT !.at = "map", !.off = committed[c.sp], !.want = want]]
  /\ UNCHANGED <<committed, mapped, vram, kvPos, kvBacked, growErr, req, reqs, unbacked>>

\* hipMemCreate has the VRAM, and hipMemMap finds the range unmapped.
MapOk(c) == /\ c.want - c.off <= vram
            /\ mapped[c.sp] = c.off

Map(t) ==
  /\ commitCall[t].at = "map"
  /\ LET c == commitCall[t]
     IN IF MapOk(c)
        THEN /\ mapped' = [mapped EXCEPT ![c.sp] = c.want]
             /\ vram' = vram - (c.want - c.off)
             /\ commitCall' = [commitCall EXCEPT ![t] = [c EXCEPT !.at = "finish"]]
        ELSE /\ commitCall' = [commitCall EXCEPT ![t] = Failed(c)]
             /\ UNCHANGED <<mapped, vram>>
  /\ UNCHANGED <<committed, kvPos, kvBacked, growErr, req, reqs, unbacked>>

\* hipMemSetAccess and the zeroing, then chunks_ and committed_.
FinishGrowth(t) ==
  /\ commitCall[t].at = "finish"
  /\ committed' = [committed EXCEPT ![commitCall[t].sp] = commitCall[t].want]
  /\ commitCall' = [commitCall EXCEPT ![t] = NextSpan(commitCall[t])]
  /\ UNCHANGED <<mapped, vram, kvPos, kvBacked, growErr, req, reqs, unbacked>>

\* Either of them fails: unmap, release, give up the whole call.
FinishFails(t) ==
  /\ commitCall[t].at = "finish"
  /\ t \in Faulty
  /\ LET c == commitCall[t]
     IN /\ mapped' = [mapped EXCEPT ![c.sp] = c.off]
        /\ vram' = vram + (c.want - c.off)
        /\ commitCall' = [commitCall EXCEPT ![t] = Failed(c)]
  /\ UNCHANGED <<committed, kvPos, kvBacked, growErr, req, reqs, unbacked>>

(***************************************************************************)
(* The grower thread.                                                      *)
(***************************************************************************)
\* The margin is not added before rounding.
GrowTargetTight == Least((kvPos \div Margin + 1) * Margin, MaxPos)

GrowTarget == Least(((kvPos + Margin) \div Margin + 1) * Margin, MaxPos)

GrowPoll ==
  /\ commitCall["grow"].at = "none"
  /\ GrowTarget > kvBacked
  /\ commitCall' = [commitCall EXCEPT !["grow"] = Started(GrowTarget)]
  /\ UNCHANGED <<committed, mapped, vram, kvPos, kvBacked, growErr, req, reqs, unbacked>>

\* Publish what was backed, or record the error; the loop polls again either way.
GrowDone ==
  /\ commitCall["grow"].at = "done"
  /\ IF commitCall["grow"].ok
     THEN /\ kvBacked' = commitCall["grow"].target
          /\ UNCHANGED growErr
     ELSE /\ growErr' = TRUE
          /\ UNCHANGED kvBacked
  /\ commitCall' = [commitCall EXCEPT !["grow"] = NoCall]
  /\ UNCHANGED <<committed, mapped, vram, kvPos, req, reqs, unbacked>>

(***************************************************************************)
(* The request thread.                                                     *)
(***************************************************************************)
CtxRoom(n) == IF MaxPos > n + Room THEN MaxPos - n - Room ELSE 0

\* Where the request goes once the cache holds `pos` positions and prefill
\* should reach `goal`.
PhaseAt(pos, goal, left) ==
  IF pos < goal THEN "reserve" ELSE IF left > 0 THEN "decode" ELSE "idle"

\* lookup, restore and restore_state, then the promotion boundary: the prefill
\* of a request with a store may stop once, at a block boundary, to publish.
Arrive(n, hit, promote) ==
  /\ req.phase = "idle"
  /\ reqs < MaxReqs
  /\ hit < n /\ promote < n
  /\ hit > 0 => PrefixOn
  /\ promote > 0 => PrefixOn /\ promote > hit
  /\ LET goal == IF promote > 0 THEN promote ELSE n - 1
     IN req' = [phase |-> PhaseAt(hit, goal, CtxRoom(n)), n |-> n, pos |-> hit,
                goal |-> goal, left |-> CtxRoom(n)]
  /\ unbacked' = ~Covers(hit)
  /\ reqs' = reqs + 1
  /\ UNCHANGED <<committed, mapped, vram, commitCall, kvPos, kvBacked, growErr>>

ReserveTarget == req.pos + req.n + 2

\* kv_reserve_for: the synchronous commit...
Reserve ==
  /\ req.phase = "reserve"
  /\ commitCall["serve"].at = "none"
  /\ commitCall' = [commitCall EXCEPT !["serve"] = Started(ReserveTarget)]
  /\ UNCHANGED <<committed, mapped, vram, kvPos, kvBacked, growErr, req, reqs, unbacked>>

\* ...and, whether it succeeded or a line was printed, the note and the prefill.
ReserveDone ==
  /\ commitCall["serve"].at = "done"
  /\ kvPos' = commitCall["serve"].target
  /\ req' = [req EXCEPT !.phase = "prefill"]
  /\ commitCall' = [commitCall EXCEPT !["serve"] = NoCall]
  /\ UNCHANGED <<committed, mapped, vram, kvBacked, growErr, reqs, unbacked>>

\* One chunk of forward_prefill.  The last one reaches the goal: either the
\* promotion boundary, past which a second reserve and prefill follow, or the
\* position before the prompt's last token.
PrefillChunk ==
  /\ req.phase = "prefill"
  /\ LET end == Least(req.pos + PrefillLen, req.goal)
     IN /\ unbacked' = ~Covers(end)
        /\ req' = IF end < req.goal THEN [req EXCEPT !.pos = end]
                  ELSE [req EXCEPT !.pos = end, !.goal = req.n - 1,
                                   !.phase = PhaseAt(end, req.n - 1, req.left)]
  /\ UNCHANGED <<committed, mapped, vram, commitCall, kvPos, kvBacked, growErr, reqs>>

\* The check is never made.
OutrunNever(pos) == FALSE

\* `st.pos + B + 2 > kv_backed_positions()`, tested after each block.
Outrun(pos) == pos + DraftLen + 2 > kvBacked

\* spec_decode's loop body: the verify block writes every proposed position,
\* keeps k of them and its own token, notes the position, and stops the turn
\* when the next block might leave the published range.  A turn also ends on
\* its own, at EOS or when the client goes away.
DecodeBlock(k, eos) ==
  /\ req.phase = "decode"
  /\ LET nd == IF req.pos > 0 THEN DraftLen ELSE 0
         pos == req.pos + k + 1
         left == IF req.left > k + 1 THEN req.left - (k + 1) ELSE 0
     IN /\ k <= nd
        /\ unbacked' = ~Covers(req.pos + nd + 1)
        /\ kvPos' = pos
        /\ req' = IF Outrun(pos) \/ eos \/ left = 0 THEN NoReq
                  ELSE [req EXCEPT !.pos = pos, !.left = left]
  /\ UNCHANGED <<committed, mapped, vram, commitCall, kvBacked, growErr, reqs>>

(***************************************************************************)
(* A fault kills the process, so nothing moves after one.                  *)
(***************************************************************************)
Commit(t) == ~unbacked /\ (Look(t) \/ Map(t) \/ FinishGrowth(t))
CommitFails(t) == ~unbacked /\ FinishFails(t)

Grower == ~unbacked /\ (GrowPoll \/ GrowDone)

Server ==
  /\ ~unbacked
  /\ \/ \E n \in 1..MaxIds, hit \in Hits \cup {0}, promote \in 0..MaxIds :
          Arrive(n, hit, promote)
     \/ Reserve
     \/ ReserveDone
     \/ PrefillChunk
     \/ \E k \in 0..DraftLen, eos \in BOOLEAN : DecodeBlock(k, eos)

KvNext == \/ \E t \in Threads : Commit(t) \/ CommitFails(t)
          \/ Grower
          \/ Server

KvSpec == KvInit /\ [][KvNext]_kvVars

\* The grower is a thread of its own that sleeps 20 ms between polls and waits
\* for nobody; the request thread's commit waits for nobody either.
KvFairSpec ==
  /\ KvSpec
  /\ WF_kvVars(Grower)
  /\ \A t \in Threads : WF_kvVars(Commit(t))

-----------------------------------------------------------------------------
\* Every variable has its type, with no thread past the last span.
KvTypeOK ==
  /\ committed \in [Spans -> Nat] /\ mapped \in [Spans -> Nat]
  /\ vram \in Nat
  /\ commitCall \in [Threads -> [at : {"none", "look", "map", "finish", "done"}, target : Nat,
                           sp : Spans, off : Nat, want : Nat, ok : BOOLEAN]]
  /\ kvPos \in Nat /\ kvBacked \in Nat
  /\ growErr \in BOOLEAN
  /\ req \in [phase : {"idle", "reserve", "prefill", "decode"}, n : Nat, pos : Nat, goal : Nat,
              left : Nat]
  /\ reqs \in 0..MaxReqs
  /\ unbacked \in BOOLEAN

\* What the request thread relies on when it compares its position with
\* kv_backed_positions(): every span really holds the rows of that many
\* positions, whichever thread committed them, whatever call failed midway and
\* however the two walks over the spans interleaved.
BackedIsMapped == \A sp \in Spans : RowsFor(sp, kvBacked) <= mapped[sp]

\* The driver's view and committed_ differ on a span only while some thread is
\* inside commit_to on it, and never by a range nobody is about to account for:
\* no growth is lost, overlapped or unmapped under the other thread.
MappedIsAccounted ==
  \A sp \in Spans :
    \/ mapped[sp] = committed[sp]
    \/ \E t \in Threads : /\ commitCall[t].at = "finish" /\ commitCall[t].sp = sp
                          /\ commitCall[t].off = committed[sp] /\ commitCall[t].want = mapped[sp]

\* dense_gpu.h:199: a caller about to write past the backed range stops rather
\* than faults.  No prefill, restore or verify block writes a row that is not
\* mapped.
NoUnbackedWrite == ~unbacked

\* The grower keeps up: again and again, whatever positions are noted and whatever
\* the other thread does to the same spans, the range published as backed is a
\* margin past the position last noted.
GrowerKeepsUp == []<>(kvBacked >= Least(kvPos + Margin, MaxPos) \/ unbacked)

=============================================================================
