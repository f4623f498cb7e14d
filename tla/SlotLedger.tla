----------------------------- MODULE SlotLedger -----------------------------
(***************************************************************************)
(* The bookkeeping of the placement mover (src/gpu/static_placement.hip):  *)
(* which expert owns which slab slot (VRAM) or pool slot (host RAM), which *)
(* slots are free, and the move records that carry a slot from one owner   *)
(* to the next.  Whether a transfer or a quarantine event has signalled is *)
(* left open here: Publish and Reclaim may run at any time.  Mover.tla     *)
(* adds the cards and decides when they may.                               *)
(*                                                                         *)
(* The life of a record, Impl::Move::State:                                *)
(*    Free -> Copying -> Published -> Quarantine -> Free                   *)
(***************************************************************************)
EXTENDS Naturals, FiniteSets

CONSTANTS
  Expert,      \* (layer, expert) indices of one placement
  SlabSlot,    \* slots of the VRAM slab, the shadow slots included
  PoolSlot,    \* slots of the host pool
  Record,      \* Impl::moves, one record per shadow slot
  None         \* -1: no slot, no expert

ASSUME NoneAssumption == None \notin Expert \cup SlabSlot \cup PoolSlot

ASSUME FiniteAssumption ==
  IsFiniteSet(Expert) /\ IsFiniteSet(SlabSlot) /\ IsFiniteSet(PoolSlot) /\ IsFiniteSet(Record)

VARIABLES
  slabOf,      \* offset_of_ where device_of_ >= 0: the expert's slab slot
  poolOf,      \* HostExpertPool::slot_of: the expert's pool slot
  busy,        \* ExpertHeat::busy_: a transfer of this expert is in flight
  freeSlab,    \* Impl::free_slab
  freePool,    \* Impl::free_pool
  moves        \* Impl::moves

ledgerVars == <<slabOf, poolOf, busy, freeSlab, freePool, moves>>

MoveState == {"Free", "Copying", "Published", "Quarantine"}

\* The fields of a Free record are dead until the next issue writes them.
FreeMove == [state |-> "Free", promote |-> FALSE, idx |-> None, slab |-> None, pool |-> None]

Bound(f) == {x \in DOMAIN f : f[x] # None}

Injective(f) == \A x, y \in Bound(f) : f[x] = f[y] => x = y

-----------------------------------------------------------------------------
(* placement_engine_init: the shadow slots are free, one record each; the  *)
(* pool holds exactly experts that VRAM does not, so none of its slots is. *)
LedgerInit ==
  /\ slabOf \in [Expert -> SlabSlot \cup {None}] /\ Injective(slabOf)
  /\ poolOf \in [Expert -> PoolSlot \cup {None}] /\ Injective(poolOf)
  /\ Bound(slabOf) \cap Bound(poolOf) = {}
  /\ PoolSlot = {poolOf[e] : e \in Bound(poolOf)}
  /\ freeSlab = SlabSlot \ {slabOf[e] : e \in Bound(slabOf)}
  /\ Cardinality(freeSlab) = Cardinality(Record)
  /\ freePool = {}
  /\ busy = [e \in Expert |-> FALSE]
  /\ moves = [r \in Record |-> FreeMove]

-----------------------------------------------------------------------------
(* engine_issue, promote: a pooled expert's bytes go to a free slab slot.  *)
(* The expert keeps its pool slot, and its address, until Publish.         *)
PromoteIssue(r, e, s) ==
  /\ moves[r].state = "Free"
  /\ ~busy[e] /\ poolOf[e] # None
  /\ s \in freeSlab
  /\ freeSlab' = freeSlab \ {s}
  /\ moves' = [moves EXCEPT ![r] = [state |-> "Copying", promote |-> TRUE, idx |-> e,
                                    slab |-> s, pool |-> poolOf[e]]]
  /\ busy' = [busy EXCEPT ![e] = TRUE]
  /\ UNCHANGED <<slabOf, poolOf, freePool>>

(* engine_issue, demote: a resident expert's bytes go to a free pool slot. *)
DemoteIssue(r, e, p) ==
  /\ moves[r].state = "Free"
  /\ ~busy[e] /\ slabOf[e] # None
  /\ p \in freePool
  /\ freePool' = freePool \ {p}
  /\ moves' = [moves EXCEPT ![r] = [state |-> "Copying", promote |-> FALSE, idx |-> e,
                                    slab |-> slabOf[e], pool |-> p]]
  /\ busy' = [busy EXCEPT ![e] = TRUE]
  /\ UNCHANGED <<slabOf, poolOf, freeSlab>>

\* Publish without HostExpertPool::bind on the demoted expert.
PublishUnbound(r) ==
  LET m == moves[r] IN
  /\ m.state = "Copying"
  /\ slabOf' = [slabOf EXCEPT ![m.idx] = IF m.promote THEN m.slab ELSE None]
  /\ poolOf' = [poolOf EXCEPT ![m.idx] = None]
  /\ busy' = [busy EXCEPT ![m.idx] = FALSE]
  /\ moves' = [moves EXCEPT ![r].state = "Published"]
  /\ UNCHANGED <<freeSlab, freePool>>

(* engine_retire, a landed copy: the expert changes owner.  The slot it    *)
(* leaves is NOT free yet: a kernel issued before may still read it.       *)
Publish(r) ==
  LET m == moves[r] IN
  /\ m.state = "Copying"
  /\ slabOf' = [slabOf EXCEPT ![m.idx] = IF m.promote THEN m.slab ELSE None]
  /\ poolOf' = [poolOf EXCEPT ![m.idx] = IF m.promote THEN None ELSE m.pool]
  /\ busy' = [busy EXCEPT ![m.idx] = FALSE]
  /\ moves' = [moves EXCEPT ![r].state = "Published"]
  /\ UNCHANGED <<freeSlab, freePool>>

(* engine_retire, after the flush: every published record is quarantined.  *)
Seal ==
  /\ moves' = [r \in Record |-> IF moves[r].state = "Published"
                                THEN [moves[r] EXCEPT !.state = "Quarantine"] ELSE moves[r]]
  /\ UNCHANGED <<slabOf, poolOf, busy, freeSlab, freePool>>

\* Reclaim that returns only the slots promotions leave.
ReclaimPoolOnly(r) ==
  LET m == moves[r] IN
  /\ m.state = "Quarantine"
  /\ freePool' = IF m.promote THEN freePool \cup {m.pool} ELSE freePool
  /\ moves' = [moves EXCEPT ![r] = FreeMove]
  /\ UNCHANGED <<slabOf, poolOf, busy, freeSlab>>

(* engine_retire, a signalled quarantine: the slot the expert left is free.*)
Reclaim(r) ==
  LET m == moves[r] IN
  /\ m.state = "Quarantine"
  /\ freePool' = IF m.promote THEN freePool \cup {m.pool} ELSE freePool
  /\ freeSlab' = IF m.promote THEN freeSlab ELSE freeSlab \cup {m.slab}
  /\ moves' = [moves EXCEPT ![r] = FreeMove]
  /\ UNCHANGED <<slabOf, poolOf, busy>>

LedgerNext ==
  \/ \E r \in Record, e \in Expert, s \in SlabSlot : PromoteIssue(r, e, s)
  \/ \E r \in Record, e \in Expert, p \in PoolSlot : DemoteIssue(r, e, p)
  \/ \E r \in Record : Publish(r)
  \/ Seal
  \/ \E r \in Record : Reclaim(r)

LedgerSpec == LedgerInit /\ [][LedgerNext]_ledgerVars

-----------------------------------------------------------------------------
(* Properties.                                                             *)

\* A record between its issue and its publish keeps the destination; after
\* the publish it keeps the slot the expert left, until the slot is free.
HoldsSlab(r) ==
  \/ moves[r].state = "Copying" /\ moves[r].promote
  \/ moves[r].state \in {"Published", "Quarantine"} /\ ~moves[r].promote

HoldsPool(r) ==
  \/ moves[r].state = "Copying" /\ ~moves[r].promote
  \/ moves[r].state \in {"Published", "Quarantine"} /\ moves[r].promote

\* Type invariant of the ledger's variables.
LedgerTypeOK ==
  /\ slabOf \in [Expert -> SlabSlot \cup {None}]
  /\ poolOf \in [Expert -> PoolSlot \cup {None}]
  /\ busy \in [Expert -> BOOLEAN]
  /\ freeSlab \subseteq SlabSlot
  /\ freePool \subseteq PoolSlot
  /\ moves \in [Record -> [state : MoveState, promote : BOOLEAN, idx : Expert \cup {None},
                           slab : SlabSlot \cup {None}, pool : PoolSlot \cup {None}]]
  /\ \A r \in Record : moves[r].state # "Free" =>
       /\ moves[r].idx \in Expert /\ moves[r].slab \in SlabSlot /\ moves[r].pool \in PoolSlot

\* No slab slot has two owners: not two experts, not an expert and the free
\* list, not two records, not a record and either (the DOUBLE-MAP diagnostic
\* of engine_retire must never print).
SlabSlotHasOneOwner ==
  /\ Injective(slabOf)
  /\ \A e \in Expert : slabOf[e] \notin freeSlab
  /\ \A r \in Record : HoldsSlab(r) =>
       /\ moves[r].slab \notin freeSlab
       /\ \A e \in Expert : slabOf[e] # moves[r].slab
       /\ \A q \in Record : HoldsSlab(q) /\ moves[q].slab = moves[r].slab => q = r

\* The same for the slots of the host pool (the POOL-DOUBLE-MAP diagnostic).
PoolSlotHasOneOwner ==
  /\ Injective(poolOf)
  /\ \A e \in Expert : poolOf[e] \notin freePool
  /\ \A r \in Record : HoldsPool(r) =>
       /\ moves[r].pool \notin freePool
       /\ \A e \in Expert : poolOf[e] # moves[r].pool
       /\ \A q \in Record : HoldsPool(q) /\ moves[q].pool = moves[r].pool => q = r

\* No slot leaks: a slot no expert owns is free or some record still holds it.
NoSlotLost ==
  /\ \A s \in SlabSlot :
       \/ s \in freeSlab
       \/ \E e \in Expert : slabOf[e] = s
       \/ \E r \in Record : HoldsSlab(r) /\ moves[r].slab = s
  /\ \A p \in PoolSlot :
       \/ p \in freePool
       \/ \E e \in Expert : poolOf[e] = p
       \/ \E r \in Record : HoldsPool(r) /\ moves[r].pool = p

\* The records are as many as the free slots they turn into, so whenever the
\* engine has a slot to move into it has a record to move with: the no_slot
\* refusal of engine_issue is unreachable.
RecordsNeverRunOut ==
  freeSlab \cup freePool # {} => \E r \in Record : moves[r].state = "Free"

\* All of it together: every slot has exactly one owner, the free lists and the
\* move records included, and no slot waits for a record.
SlotsAccounted == SlabSlotHasOneOwner /\ PoolSlotHasOneOwner /\ NoSlotLost /\ RecordsNeverRunOut

\* The count behind it: one free record for every free slot of either kind.
FreeRecords == {r \in Record : moves[r].state = "Free"}

SlotsMatchRecords == Cardinality(freeSlab) + Cardinality(freePool) = Cardinality(FreeRecords)

\* An expert that has an address keeps one through every step: the layers
\* whose dispatch is built on the card may never meet an addressless expert.
AddressNeverLost ==
  [][\A e \in Expert : slabOf[e] # None \/ poolOf[e] # None
                         => slabOf'[e] # None \/ poolOf'[e] # None]_ledgerVars

\* What makes the above inductive: a copying record agrees with the owner
\* tables about its source, its expert is busy and no other record moves it.
CopyAgreesWithOwner ==
  \A r \in Record : moves[r].state = "Copying" =>
    /\ busy[moves[r].idx]
    /\ IF moves[r].promote
       THEN poolOf[moves[r].idx] = moves[r].pool /\ slabOf[moves[r].idx] = None
       ELSE slabOf[moves[r].idx] = moves[r].slab /\ poolOf[moves[r].idx] = None
    /\ \A q \in Record : moves[q].state = "Copying" /\ moves[q].idx = moves[r].idx => q = r

OneTier == \A e \in Expert : slabOf[e] = None \/ poolOf[e] = None

\* The inductive invariant of the ledger.
LedgerInv ==
  /\ LedgerTypeOK
  /\ SlabSlotHasOneOwner
  /\ PoolSlotHasOneOwner
  /\ NoSlotLost
  /\ CopyAgreesWithOwner
  /\ OneTier
  /\ SlotsMatchRecords
=============================================================================
