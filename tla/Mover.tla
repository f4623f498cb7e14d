------------------------------- MODULE Mover -------------------------------
(***************************************************************************)
(* The placement mover with the cards it runs beside                       *)
(* (src/gpu/static_placement.hip).                                         *)
(*                                                                         *)
(* One host thread loops: issue a layer's dispatch on every card, then     *)
(* engine_tick: retire the moves whose events signalled, publish their     *)
(* addresses, quarantine the slots they leave, issue new moves.  Every     *)
(* card has a compute stream, which runs the dispatches and the publishes  *)
(* in order, and a mover stream, which runs the copies.  The streams run   *)
(* behind the host and independently of each other, and the host never     *)
(* waits for the mover: it only polls events.                              *)
(*                                                                         *)
(* The slots' bookkeeping is SlotLedger; this module implements it.        *)
(***************************************************************************)
EXTENDS SlotLedger, Sequences

CONSTANTS
  Card,        \* devs_
  HostBuilt,   \* experts of the layers the host builds the dispatch of
  Lead,        \* max_lead_blocks: dispatches the host may run ahead of a card
  PatchMax     \* kPlcPatchMax: address edits one publish launch carries

ASSUME MoverAssumption == HostBuilt \subseteq Expert /\ Lead \in Nat \ {0} /\ PatchMax \in Nat \ {0} /\ IsFiniteSet(Card)

VARIABLES
  pc,          \* where the host thread is in run_batch_device / engine_tick
  todo,        \* engine_retire: records its loop has not come to yet
  patch,       \* engine_retire: the edits collected for the next publish launch
  stream,      \* per card, the compute stream: launches issued and not retired
  reads,       \* per card, the address the running dispatch reads, or None
  plcDev,      \* plc_: per card, the placement table the card reads
  mover,       \* Impl::mv: per card, copies issued and not landed
  copying,     \* per card: the copy at the head of mover has started
  left,        \* Impl::Move::ev: what must still happen before the event signals
  slabC,       \* per card, whose bytes a slab slot holds whole (None: nobody's)
  poolC        \* per card shard, whose bytes a pool slot holds whole

cardVars == <<stream, reads, plcDev, mover, copying, left, slabC, poolC>>
hostVars == <<pc, todo, patch>>
vars == <<ledgerVars, hostVars, cardVars>>

\* publish_base: the address of an expert.  plc_host_, the host's copy of the
\* table, is this function of the owner tables.
Home(e) == IF slabOf[e] # None THEN <<"slab", slabOf[e]>>
           ELSE IF poolOf[e] # None THEN <<"pool", poolOf[e]>> ELSE None

\* Whose bytes card c finds at an address.
Content(c, a) == IF a[1] = "slab" THEN slabC[c][a[2]] ELSE poolC[c][a[2]]

\* What a compute stream carries: a dispatch reading expert e, with its address at
\* issue, which only a host-built one uses; or a publish launch.
DispatchOp(e) == [op |-> "dispatch", e |-> e, addr |-> Home(e)]
PublishOp(edits) == [op |-> "publish", edits |-> edits]

Dispatches(c) == SelectSeq(stream[c], LAMBDA o : o.op = "dispatch")

OwnerOf(f, s) == IF \E e \in Expert : f[e] = s THEN CHOOSE e \in Expert : f[e] = s ELSE None

MoverInit ==
  /\ LedgerInit
  /\ pc = "dispatch" /\ todo = {} /\ patch = {}
  /\ stream = [c \in Card |-> <<>>]
  /\ reads = [c \in Card |-> None]
  /\ plcDev = [c \in Card |-> [e \in Expert |-> Home(e)]]
  /\ mover = [c \in Card |-> <<>>]
  /\ copying = [c \in Card |-> FALSE]
  /\ left = [r \in Record |-> [c \in Card |-> 0]]
  /\ slabC = [c \in Card |-> [s \in SlabSlot |-> OwnerOf(slabOf, s)]]
  /\ poolC = [c \in Card |-> [p \in PoolSlot |-> OwnerOf(poolOf, p)]]

-----------------------------------------------------------------------------
(* The host.                                                               *)

(* run_batch_device up to engine_tick: lead_gate, then the layer's         *)
(* launches.  lead_gate waits for the event recorded before the dispatch   *)
(* issued Lead dispatches ago, so at most Lead of them are still queued.   *)
Dispatch(e) ==
  /\ pc = "dispatch"
  /\ Home(e) # None
  /\ \A c \in Card : Len(Dispatches(c)) <= Lead
  /\ stream' = [c \in Card |-> Append(stream[c], DispatchOp(e))]
  /\ pc' = "retire"
  /\ todo' = {r \in Record : moves[r].state # "Free"}
  /\ UNCHANGED <<ledgerVars, patch, reads, plcDev, mover, copying, left, slabC, poolC>>

\* landed() that is satisfied by the first card whose event signalled.
LandedAny(r) == \E c \in Card : left[r][c] = 0

\* landed(): hipEventQuery(M.ev) on every card.
Landed(r) == \A c \in Card : left[r][c] = 0

\* flush(): one publish launch on every card's compute stream.
Flushed == [c \in Card |-> Append(stream[c], PublishOp(patch))]

\* The address Publish(r) gives the record's expert.
NewHome(r) == IF moves[r].promote THEN <<"slab", moves[r].slab>> ELSE <<"pool", moves[r].pool>>

\* Publish that stores the word in the card's table where the host stands.
RetirePublishBlind(r) ==
  /\ pc = "retire" /\ r \in todo
  /\ moves[r].state = "Copying" /\ Landed(r)
  /\ Publish(r)
  /\ plcDev' = [c \in Card |-> [plcDev[c] EXCEPT ![moves[r].idx] = NewHome(r)]]
  /\ todo' = todo \ {r}
  /\ UNCHANGED <<pc, patch, stream, reads, mover, copying, left, slabC, poolC>>

(* engine_retire, a Copying record whose copy has landed on all cards: the *)
(* owner tables change now, the cards' tables when the publish launch runs.*)
RetirePublish(r) ==
  /\ pc = "retire" /\ r \in todo
  /\ moves[r].state = "Copying" /\ Landed(r)
  /\ Publish(r)
  /\ IF Cardinality(patch) = PatchMax
     THEN stream' = Flushed /\ patch' = {[e |-> moves[r].idx, addr |-> NewHome(r)]}
     ELSE patch' = patch \cup {[e |-> moves[r].idx, addr |-> NewHome(r)]} /\ UNCHANGED stream
  /\ todo' = todo \ {r}
  /\ UNCHANGED <<pc, reads, plcDev, mover, copying, left, slabC, poolC>>

(* engine_retire, a Quarantine record whose event has signalled.           *)
RetireReclaim(r) ==
  /\ pc = "retire" /\ r \in todo
  /\ moves[r].state = "Quarantine" /\ Landed(r)
  /\ Reclaim(r)
  /\ todo' = todo \ {r}
  /\ UNCHANGED <<pc, patch, cardVars>>

(* engine_retire, a record whose event is still pending.                   *)
RetireSkip(r) ==
  /\ pc = "retire" /\ r \in todo /\ ~Landed(r)
  /\ todo' = todo \ {r}
  /\ UNCHANGED <<ledgerVars, pc, patch, cardVars>>

\* Events re-recorded at every tick for records already in quarantine.
RetireEndRearm ==
  /\ pc = "retire" /\ todo = {}
  /\ Seal
  /\ stream' = IF patch = {} THEN stream ELSE Flushed
  /\ left' = [r \in Record |-> IF moves[r].state \in {"Published", "Quarantine"}
                               THEN [c \in Card |-> Len(stream'[c])] ELSE left[r]]
  /\ patch' = {} /\ pc' = "pick"
  /\ UNCHANGED <<todo, reads, plcDev, mover, copying, slabC, poolC>>

(* engine_retire after its loop: the last flush, then every published      *)
(* record's events re-recorded behind it on the compute streams.           *)
RetireEnd ==
  /\ pc = "retire" /\ todo = {}
  /\ Seal
  /\ stream' = IF patch = {} THEN stream ELSE Flushed
  /\ left' = [r \in Record |-> IF moves[r].state = "Published"
                               THEN [c \in Card |-> Len(stream'[c])] ELSE left[r]]
  /\ patch' = {} /\ pc' = "pick"
  /\ UNCHANGED <<todo, reads, plcDev, mover, copying, slabC, poolC>>

\* engine_issue: the copy waits on each card for the launches made so far.
CopyIssued(r) ==
  /\ mover' = [c \in Card |-> Append(mover[c], [rec |-> r, gate |-> Len(stream[c])])]
  /\ left' = [left EXCEPT ![r] = [c \in Card |-> 1]]
  /\ UNCHANGED <<todo, patch, stream, reads, plcDev, copying, slabC, poolC>>

Movable(tier) == {e \in Expert : ~busy[e] /\ tier[e] # None}

(* engine_tick, one round: ExpertHeat::pick names a pooled and a resident  *)
(* expert, neither busy; which ones is the policy's business.  The pooled  *)
(* one is promoted when there is a free slab slot ...                      *)
Promote(r, e, s) ==
  /\ pc = "pick"
  /\ Movable(slabOf) # {}
  /\ PromoteIssue(r, e, s)
  /\ CopyIssued(r)
  /\ pc' = "demote"

\* ... and when there is none the round starts with the demotion.
NoSlabSlot ==
  /\ pc = "pick"
  /\ freeSlab = {} /\ freePool # {} /\ Movable(slabOf) # {} /\ Movable(poolOf) # {}
  /\ pc' = "demote"
  /\ UNCHANGED <<ledgerVars, todo, patch, cardVars>>

(* The resident one is demoted when there is a free pool slot.             *)
Demote(r, e, p) ==
  /\ pc = "demote"
  /\ DemoteIssue(r, e, p)
  /\ CopyIssued(r)
  /\ pc' = "pick"

NoPoolSlot ==
  /\ pc = "demote"
  /\ freePool = {}
  /\ pc' = "pick"
  /\ UNCHANGED <<ledgerVars, todo, patch, cardVars>>

(* The tick ends: budget spent, no free slot, or pick refused.  The budget *)
(* is moves_per_tick a record drained from the ring, so any number of      *)
(* rounds, none included.                                                  *)
TickEnd ==
  /\ pc = "pick"
  /\ pc' = "dispatch"
  /\ UNCHANGED <<ledgerVars, todo, patch, cardVars>>

HostNext ==
  \/ \E e \in Expert : Dispatch(e)
  \/ \E r \in Record : RetirePublish(r) \/ RetireReclaim(r) \/ RetireSkip(r)
  \/ RetireEnd
  \/ \E r \in Record, e \in Expert, s \in SlabSlot : Promote(r, e, s)
  \/ NoSlabSlot
  \/ \E r \in Record, e \in Expert, p \in PoolSlot : Demote(r, e, p)
  \/ NoPoolSlot
  \/ TickEnd

-----------------------------------------------------------------------------
(* The cards.                                                              *)

\* A queued copy waits for one launch less.
Closer(m) == [m EXCEPT !.gate = IF m.gate > 0 THEN m.gate - 1 ELSE 0]

\* The head launch of card c's compute stream retires.
Retired(c) ==
  /\ stream' = [stream EXCEPT ![c] = Tail(@)]
  /\ left' = [r \in Record |-> IF moves[r].state = "Quarantine" /\ left[r][c] > 0
                               THEN [left[r] EXCEPT ![c] = left[r][c] - 1] ELSE left[r]]
  /\ mover' = [mover EXCEPT ![c] = [i \in DOMAIN mover[c] |-> Closer(mover[c][i])]]
  /\ UNCHANGED <<ledgerVars, hostVars, copying, slabC, poolC>>

(* A dispatch starts: the plan kernel reads the card's table (a host-built *)
(* one carries the address), the GEMMs read the bytes there until it ends. *)
StartDispatch(c) ==
  /\ stream[c] # <<>> /\ reads[c] = None
  /\ Head(stream[c]).op = "dispatch"
  /\ LET o == Head(stream[c]) IN
     reads' = [reads EXCEPT ![c] = IF o.e \in HostBuilt THEN o.addr ELSE plcDev[c][o.e]]
  /\ UNCHANGED <<ledgerVars, hostVars, stream, plcDev, mover, copying, left, slabC, poolC>>

FinishDispatch(c) ==
  /\ reads[c] # None
  /\ reads' = [reads EXCEPT ![c] = None]
  /\ Retired(c)
  /\ UNCHANGED plcDev

(* plc_publish_hip's kernel: the edits land where the host published them. *)
ApplyPublish(c) ==
  /\ stream[c] # <<>> /\ Head(stream[c]).op = "publish"
  /\ plcDev' = [plcDev EXCEPT ![c] =
       [e \in Expert |-> IF \E d \in Head(stream[c]).edits : d.e = e
                         THEN (CHOOSE d \in Head(stream[c]).edits : d.e = e).addr ELSE @[e]]]
  /\ Retired(c)
  /\ UNCHANGED reads

(* A copy starts once the launches it waits for have retired; from then    *)
(* until it lands its destination holds nobody's bytes whole.              *)
StartCopy(c) ==
  /\ mover[c] # <<>> /\ ~copying[c] /\ Head(mover[c]).gate = 0
  /\ copying' = [copying EXCEPT ![c] = TRUE]
  /\ LET m == moves[Head(mover[c]).rec] IN
     IF m.promote THEN slabC' = [slabC EXCEPT ![c][m.slab] = None] /\ UNCHANGED poolC
                  ELSE poolC' = [poolC EXCEPT ![c][m.pool] = None] /\ UNCHANGED slabC
  /\ UNCHANGED <<ledgerVars, hostVars, stream, reads, plcDev, mover, left>>

FinishCopy(c) ==
  /\ copying[c]
  /\ copying' = [copying EXCEPT ![c] = FALSE]
  /\ mover' = [mover EXCEPT ![c] = Tail(@)]
  /\ LET r == Head(mover[c]).rec
         m == moves[r]
     IN /\ left' = [left EXCEPT ![r][c] = 0]
        /\ IF m.promote
           THEN slabC' = [slabC EXCEPT ![c][m.slab] = poolC[c][m.pool]] /\ UNCHANGED poolC
           ELSE poolC' = [poolC EXCEPT ![c][m.pool] = slabC[c][m.slab]] /\ UNCHANGED slabC
  /\ UNCHANGED <<ledgerVars, hostVars, stream, reads, plcDev>>

ComputeNext(c) == StartDispatch(c) \/ FinishDispatch(c) \/ ApplyPublish(c)

MoverNext(c) == StartCopy(c) \/ FinishCopy(c)

Next == HostNext \/ \E c \in Card : ComputeNext(c) \/ MoverNext(c)

Spec == MoverInit /\ [][Next]_vars

(* Streams make progress, and the host goes on issuing layers.             *)
Fairness == WF_vars(HostNext) /\ \A c \in Card : WF_vars(ComputeNext(c)) /\ WF_vars(MoverNext(c))

FairSpec == Spec /\ Fairness

-----------------------------------------------------------------------------
(* Properties.                                                             *)

\* A running dispatch reads its own expert's bytes, whole, whichever slot it
\* found them in and whatever the mover copies meanwhile ("a slot reused too
\* early is not a crash, it is fluent text with a new md5").
NoStaleRead ==
  \A c \in Card : reads[c] # None => Content(c, reads[c]) = Head(stream[c]).e

\* A dispatch finds in the card's table the address the host had published when
\* it issued the dispatch, neither an older one nor a newer one: the publish
\* lands at its place in the stream, not in the middle of dispatches issued
\* before it, so every card takes the same tier for the same expert.
TableAsIssued ==
  \A c \in Card : reads[c] # None => reads[c] = Head(stream[c]).addr

\* No publish overflows its patch ("more than %u placement publishes in one
\* tick" is fatal): the flush before the append keeps room.
PatchHasRoom == Cardinality(patch) <= PatchMax

\* The bytes of every expert with an address are at that address on every card:
\* the owner tables never name a slot the copy has not filled.
HomeHoldsBytes ==
  \A e \in Expert, c \in Card : Home(e) # None => Content(c, Home(e)) = e

\* Every move started runs through publish and quarantine and gives its record
\* and its slot back, while the run goes on and the streams make progress.
MovesComplete == \A r \in Record : moves[r].state = "Copying" ~> moves[r].state = "Free"
=============================================================================
