-------------------------- MODULE SlotLedgerProofs --------------------------
(* Every invariant of SlotLedger, for any number of experts, slots and     *)
(* records.  LedgerInv is inductive; the rest follows from it.             *)
EXTENDS SlotLedger, FiniteSetTheorems, TLAPS

USE NoneAssumption, FiniteAssumption

-----------------------------------------------------------------------------
\* The free list and the free records are finite, so their sizes are numbers.
LEMMA FreeSetsFinite ==
  ASSUME LedgerTypeOK
  PROVE  /\ IsFiniteSet(freeSlab) /\ IsFiniteSet(freePool) /\ IsFiniteSet(FreeRecords)
         /\ Cardinality(freeSlab) \in Nat /\ Cardinality(freePool) \in Nat
         /\ Cardinality(FreeRecords) \in Nat
<1>1. freeSlab \subseteq SlabSlot /\ freePool \subseteq PoolSlot BY DEF LedgerTypeOK
<1>2. FreeRecords \subseteq Record BY DEF FreeRecords
<1>3. IsFiniteSet(freeSlab) /\ IsFiniteSet(freePool) /\ IsFiniteSet(FreeRecords)
  BY <1>1, <1>2, FS_Subset
<1> QED BY <1>3, FS_CardinalityType

\* The placement as loaded satisfies the inductive invariant.
LEMMA LedgerInitInv == LedgerInit => LedgerInv
<1> SUFFICES ASSUME LedgerInit PROVE LedgerInv OBVIOUS
<1> USE DEF LedgerInit, FreeMove
<1>1. LedgerTypeOK BY DEF LedgerTypeOK, MoveState
<1>2. \A r \in Record : moves[r].state = "Free" OBVIOUS
<1>3. SlabSlotHasOneOwner
  <2>1. \A e \in Expert : slabOf[e] \notin freeSlab BY DEF Bound
  <2> QED BY <1>2, <2>1 DEF SlabSlotHasOneOwner, HoldsSlab
<1>4. PoolSlotHasOneOwner BY <1>2 DEF PoolSlotHasOneOwner, HoldsPool
<1>5. NoSlotLost BY DEF NoSlotLost, Bound
<1>6. CopyAgreesWithOwner BY <1>2 DEF CopyAgreesWithOwner
<1>7. OneTier BY DEF OneTier, Bound
<1>8. SlotsMatchRecords
  <2>1. FreeRecords = Record BY <1>2 DEF FreeRecords
  <2>2. Cardinality(freePool) = 0 BY FS_EmptySet
  <2>3. Cardinality(freeSlab) \in Nat BY <1>1, FreeSetsFinite
  <2> QED BY <2>1, <2>2, <2>3 DEF SlotsMatchRecords
<1> QED BY <1>1, <1>3, <1>4, <1>5, <1>6, <1>7, <1>8 DEF LedgerInv

-----------------------------------------------------------------------------
\* A promotion keeps the invariant.
LEMMA PromoteKeepsInv ==
  ASSUME LedgerInv, NEW r \in Record, NEW e \in Expert, NEW s \in SlabSlot,
         PromoteIssue(r, e, s)
  PROVE  LedgerInv'
<1> USE DEF LedgerInv
<1>0. LedgerTypeOK OBVIOUS
<1>a. moves' = [moves EXCEPT ![r] = [state |-> "Copying", promote |-> TRUE, idx |-> e,
                                     slab |-> s, pool |-> poolOf[e]]]
  BY DEF PromoteIssue
<1>b. /\ moves[r].state = "Free" /\ ~busy[e] /\ poolOf[e] # None /\ s \in freeSlab
      /\ freeSlab' = freeSlab \ {s} /\ busy' = [busy EXCEPT ![e] = TRUE]
      /\ slabOf' = slabOf /\ poolOf' = poolOf /\ freePool' = freePool
  BY DEF PromoteIssue
<1>c. moves'[r] = [state |-> "Copying", promote |-> TRUE, idx |-> e, slab |-> s, pool |-> poolOf[e]]
  BY <1>0, <1>a DEF LedgerTypeOK
<1>d. \A q \in Record : q # r => moves'[q] = moves[q] BY <1>0, <1>a DEF LedgerTypeOK
<1>e. slabOf[e] = None /\ poolOf[e] \in PoolSlot BY <1>0, <1>b DEF OneTier, LedgerTypeOK
<1>1. LedgerTypeOK'
  BY <1>0, <1>a, <1>b, <1>c, <1>d, <1>e DEF LedgerTypeOK, MoveState
<1>2. SlabSlotHasOneOwner'
  <2>1. \A q \in Record : HoldsSlab(q)' <=> (q = r \/ HoldsSlab(q))
    BY <1>b, <1>c, <1>d DEF HoldsSlab
  <2>2. \A q \in Record : HoldsSlab(q) => q # r BY <1>b DEF HoldsSlab
  <2> QED BY <1>b, <1>c, <1>d, <2>1, <2>2 DEF SlabSlotHasOneOwner, Injective, Bound
<1>3. PoolSlotHasOneOwner'
  <2>1. \A q \in Record : HoldsPool(q)' <=> HoldsPool(q)
    BY <1>b, <1>c, <1>d DEF HoldsPool
  <2>2. \A q \in Record : HoldsPool(q) => q # r BY <1>b DEF HoldsPool
  <2> QED BY <1>b, <1>d, <2>1, <2>2 DEF PoolSlotHasOneOwner, Injective, Bound
<1>4. NoSlotLost'
  <2>1. \A q \in Record : HoldsSlab(q) => q # r /\ HoldsSlab(q)' BY <1>b, <1>d DEF HoldsSlab
  <2>2. HoldsSlab(r)' BY <1>c DEF HoldsSlab
  <2>3. \A q \in Record : HoldsPool(q) => q # r /\ HoldsPool(q)' BY <1>b, <1>d DEF HoldsPool
  <2> QED BY <1>b, <1>c, <1>d, <2>1, <2>2, <2>3 DEF NoSlotLost
<1>5. CopyAgreesWithOwner'
  <2>1. \A q \in Record : q # r /\ moves[q].state = "Copying" => moves[q].idx # e
    BY <1>b DEF CopyAgreesWithOwner
  <2>2. busy'[e] /\ \A x \in Expert : x # e => busy'[x] = busy[x]
    BY <1>0, <1>b DEF LedgerTypeOK
  <2> QED BY <1>0, <1>b, <1>c, <1>d, <1>e, <2>1, <2>2 DEF CopyAgreesWithOwner, LedgerTypeOK
<1>6. OneTier' BY <1>b DEF OneTier
<1>7. SlotsMatchRecords'
  <2>1. FreeRecords' = FreeRecords \ {r} BY <1>c, <1>d DEF FreeRecords
  <2>2. r \in FreeRecords BY <1>b DEF FreeRecords
  <2>3. Cardinality(FreeRecords') = Cardinality(FreeRecords) - 1
    BY <1>0, <2>1, <2>2, FreeSetsFinite, FS_RemoveElement
  <2>4. Cardinality(freeSlab') = Cardinality(freeSlab) - 1
    BY <1>0, <1>b, FreeSetsFinite, FS_RemoveElement
  <2> QED BY <1>0, <1>b, <2>3, <2>4, FreeSetsFinite DEF SlotsMatchRecords
<1> QED BY <1>1, <1>2, <1>3, <1>4, <1>5, <1>6, <1>7

\* A demotion keeps the invariant.
LEMMA DemoteKeepsInv ==
  ASSUME LedgerInv, NEW r \in Record, NEW e \in Expert, NEW p \in PoolSlot,
         DemoteIssue(r, e, p)
  PROVE  LedgerInv'
<1> USE DEF LedgerInv
<1>0. LedgerTypeOK OBVIOUS
<1>a. moves' = [moves EXCEPT ![r] = [state |-> "Copying", promote |-> FALSE, idx |-> e,
                                     slab |-> slabOf[e], pool |-> p]]
  BY DEF DemoteIssue
<1>b. /\ moves[r].state = "Free" /\ ~busy[e] /\ slabOf[e] # None /\ p \in freePool
      /\ freePool' = freePool \ {p} /\ busy' = [busy EXCEPT ![e] = TRUE]
      /\ slabOf' = slabOf /\ poolOf' = poolOf /\ freeSlab' = freeSlab
  BY DEF DemoteIssue
<1>c. moves'[r] = [state |-> "Copying", promote |-> FALSE, idx |-> e, slab |-> slabOf[e], pool |-> p]
  BY <1>0, <1>a DEF LedgerTypeOK
<1>d. \A q \in Record : q # r => moves'[q] = moves[q] BY <1>0, <1>a DEF LedgerTypeOK
<1>e. poolOf[e] = None /\ slabOf[e] \in SlabSlot BY <1>0, <1>b DEF OneTier, LedgerTypeOK
<1>1. LedgerTypeOK'
  BY <1>0, <1>a, <1>b, <1>c, <1>d, <1>e DEF LedgerTypeOK, MoveState
<1>2. SlabSlotHasOneOwner'
  <2>1. \A q \in Record : HoldsSlab(q)' <=> HoldsSlab(q)
    BY <1>b, <1>c, <1>d DEF HoldsSlab
  <2>2. \A q \in Record : HoldsSlab(q) => q # r BY <1>b DEF HoldsSlab
  <2> QED BY <1>b, <1>d, <2>1, <2>2 DEF SlabSlotHasOneOwner, Injective, Bound
<1>3. PoolSlotHasOneOwner'
  <2>1. \A q \in Record : HoldsPool(q)' <=> (q = r \/ HoldsPool(q))
    BY <1>b, <1>c, <1>d DEF HoldsPool
  <2>2. \A q \in Record : HoldsPool(q) => q # r BY <1>b DEF HoldsPool
  <2> QED BY <1>b, <1>c, <1>d, <2>1, <2>2 DEF PoolSlotHasOneOwner, Injective, Bound
<1>4. NoSlotLost'
  <2>1. \A q \in Record : HoldsSlab(q) => q # r /\ HoldsSlab(q)' BY <1>b, <1>d DEF HoldsSlab
  <2>2. HoldsPool(r)' BY <1>c DEF HoldsPool
  <2>3. \A q \in Record : HoldsPool(q) => q # r /\ HoldsPool(q)' BY <1>b, <1>d DEF HoldsPool
  <2> QED BY <1>b, <1>c, <1>d, <2>1, <2>2, <2>3 DEF NoSlotLost
<1>5. CopyAgreesWithOwner'
  <2>1. \A q \in Record : q # r /\ moves[q].state = "Copying" => moves[q].idx # e
    BY <1>b DEF CopyAgreesWithOwner
  <2>2. busy'[e] /\ \A x \in Expert : x # e => busy'[x] = busy[x]
    BY <1>0, <1>b DEF LedgerTypeOK
  <2> QED BY <1>0, <1>b, <1>c, <1>d, <1>e, <2>1, <2>2 DEF CopyAgreesWithOwner, LedgerTypeOK
<1>6. OneTier' BY <1>b DEF OneTier
<1>7. SlotsMatchRecords'
  <2>1. FreeRecords' = FreeRecords \ {r} BY <1>c, <1>d DEF FreeRecords
  <2>2. r \in FreeRecords BY <1>b DEF FreeRecords
  <2>3. Cardinality(FreeRecords') = Cardinality(FreeRecords) - 1
    BY <1>0, <2>1, <2>2, FreeSetsFinite, FS_RemoveElement
  <2>4. Cardinality(freePool') = Cardinality(freePool) - 1
    BY <1>0, <1>b, FreeSetsFinite, FS_RemoveElement
  <2> QED BY <1>0, <1>b, <2>3, <2>4, FreeSetsFinite DEF SlotsMatchRecords
<1> QED BY <1>1, <1>2, <1>3, <1>4, <1>5, <1>6, <1>7

\* A publish keeps the invariant: the owner tables and the record swap slots.
LEMMA PublishKeepsInv ==
  ASSUME LedgerInv, NEW r \in Record, Publish(r)
  PROVE  LedgerInv'
<1> USE DEF LedgerInv
<1>0. LedgerTypeOK OBVIOUS
<1> DEFINE m == moves[r]
<1> DEFINE x == moves[r].idx
<1>b. /\ m.state = "Copying"
      /\ slabOf' = [slabOf EXCEPT ![x] = IF m.promote THEN m.slab ELSE None]
      /\ poolOf' = [poolOf EXCEPT ![x] = IF m.promote THEN None ELSE m.pool]
      /\ busy' = [busy EXCEPT ![x] = FALSE]
      /\ moves' = [moves EXCEPT ![r].state = "Published"]
      /\ freeSlab' = freeSlab /\ freePool' = freePool
  BY DEF Publish
<1>e. x \in Expert /\ m.slab \in SlabSlot /\ m.pool \in PoolSlot /\ m.promote \in BOOLEAN
  BY <1>0, <1>b DEF LedgerTypeOK
<1>c. /\ moves'[r].state = "Published" /\ moves'[r].promote = m.promote /\ moves'[r].idx = x
      /\ moves'[r].slab = m.slab /\ moves'[r].pool = m.pool
  BY <1>0, <1>b DEF LedgerTypeOK
<1>d. \A q \in Record : q # r => moves'[q] = moves[q] BY <1>0, <1>b DEF LedgerTypeOK
<1>f. IF m.promote THEN poolOf[x] = m.pool /\ slabOf[x] = None
                   ELSE slabOf[x] = m.slab /\ poolOf[x] = None
  BY <1>b DEF CopyAgreesWithOwner
<1>g. /\ slabOf'[x] = (IF m.promote THEN m.slab ELSE None)
      /\ poolOf'[x] = (IF m.promote THEN None ELSE m.pool)
      /\ \A y \in Expert : y # x => slabOf'[y] = slabOf[y] /\ poolOf'[y] = poolOf[y]
  BY <1>0, <1>b, <1>e DEF LedgerTypeOK
<1>h. \A q \in Record : moves[q].state # "Free" =>
        moves[q].idx \in Expert /\ moves[q].slab \in SlabSlot /\ moves[q].pool \in PoolSlot
  BY <1>0 DEF LedgerTypeOK
<1>1. LedgerTypeOK'
  BY <1>0, <1>b, <1>c, <1>d, <1>e DEF LedgerTypeOK, MoveState
<1>2. SlabSlotHasOneOwner'
  <2>1. \A q \in Record : q # r => (HoldsSlab(q)' <=> HoldsSlab(q)) BY <1>d DEF HoldsSlab
  <2>2. HoldsSlab(r)' <=> ~m.promote BY <1>c, <1>e DEF HoldsSlab
  <2>3. HoldsSlab(r) <=> m.promote BY <1>b, <1>e DEF HoldsSlab
  <2>a. \A y, z \in Expert : slabOf[y] # None /\ slabOf[y] = slabOf[z] => y = z
    BY <1>0 DEF SlabSlotHasOneOwner, Injective, Bound, LedgerTypeOK
  <2>b. /\ \A y \in Expert : slabOf[y] \notin freeSlab
        /\ \A q \in Record : HoldsSlab(q) =>
             /\ moves[q].slab \notin freeSlab
             /\ \A y \in Expert : slabOf[y] # moves[q].slab
             /\ \A p \in Record : HoldsSlab(p) /\ moves[p].slab = moves[q].slab => p = q
    BY DEF SlabSlotHasOneOwner
  <2>c. \A q \in Record : moves'[q].slab = moves[q].slab BY <1>c, <1>d
  <2>d. (\A y, z \in Expert : slabOf'[y] # None /\ slabOf'[y] = slabOf'[z] => y = z) => Injective(slabOf')
    BY <1>1 DEF Injective, Bound, LedgerTypeOK
  <2>e. \A v \in SlabSlot : v # None BY NoneAssumption
  <2>f. None \notin freeSlab BY <1>0, NoneAssumption DEF LedgerTypeOK
  <2>4. CASE m.promote
    <3>0. HoldsSlab(r) /\ slabOf'[x] = m.slab BY <1>g, <2>3, <2>4
    <3>1. \A y, z \in Expert : slabOf'[y] # None /\ slabOf'[y] = slabOf'[z] => y = z
      BY <1>g, <2>a, <2>b, <3>0
    <3>2. \A y \in Expert : slabOf'[y] \notin freeSlab
      BY <1>g, <2>b, <3>0
    <3>3. \A q \in Record : HoldsSlab(q)' => q # r /\ HoldsSlab(q) BY <2>1, <2>2, <2>4
    <3>4. \A q \in Record : HoldsSlab(q)' => \A y \in Expert : slabOf'[y] # moves[q].slab
      BY <1>g, <2>b, <3>0, <3>3
    <3> QED BY <1>b, <2>b, <2>c, <2>d, <3>1, <3>2, <3>3, <3>4 DEF SlabSlotHasOneOwner
  <2>5. CASE ~m.promote
    <3>0. slabOf[x] = m.slab /\ slabOf'[x] = None /\ m.slab # None BY <1>e, <1>f, <1>g, <2>e, <2>5
    <3>1. \A y, z \in Expert : slabOf'[y] # None /\ slabOf'[y] = slabOf'[z] => y = z
      BY <1>g, <2>a, <3>0
    <3>2. \A y \in Expert : slabOf'[y] \notin freeSlab
      BY <1>g, <2>b, <2>f, <3>0
    <3>3. \A q \in Record : HoldsSlab(q)' => q = r \/ HoldsSlab(q) BY <2>1
    <3>4. \A q \in Record : HoldsSlab(q) => moves[q].slab # m.slab /\ moves[q].slab # None
      BY <1>e, <1>h, <2>b, <2>e, <3>0 DEF HoldsSlab
    <3>5. \A y \in Expert : slabOf'[y] # m.slab
      BY <1>e, <1>g, <2>a, <3>0
    <3>6. m.slab \notin freeSlab BY <1>e, <2>b, <3>0
    <3>7. \A q \in Record : HoldsSlab(q)' =>
             /\ moves[q].slab \notin freeSlab
             /\ \A y \in Expert : slabOf'[y] # moves[q].slab
      BY <1>g, <2>b, <3>0, <3>3, <3>4, <3>5, <3>6
    <3>8. \A q, p \in Record : HoldsSlab(q)' /\ HoldsSlab(p)' /\ moves[p].slab = moves[q].slab => p = q
      BY <2>b, <3>3, <3>4
    <3> QED BY <1>b, <2>c, <2>d, <3>1, <3>2, <3>7, <3>8 DEF SlabSlotHasOneOwner
  <2> QED BY <2>4, <2>5
<1>3. PoolSlotHasOneOwner'
  <2>1. \A q \in Record : q # r => (HoldsPool(q)' <=> HoldsPool(q)) BY <1>d DEF HoldsPool
  <2>2. HoldsPool(r)' <=> m.promote BY <1>c, <1>e DEF HoldsPool
  <2>3. HoldsPool(r) <=> ~m.promote BY <1>b, <1>e DEF HoldsPool
  <2>a. \A y, z \in Expert : poolOf[y] # None /\ poolOf[y] = poolOf[z] => y = z
    BY <1>0 DEF PoolSlotHasOneOwner, Injective, Bound, LedgerTypeOK
  <2>b. /\ \A y \in Expert : poolOf[y] \notin freePool
        /\ \A q \in Record : HoldsPool(q) =>
             /\ moves[q].pool \notin freePool
             /\ \A y \in Expert : poolOf[y] # moves[q].pool
             /\ \A p \in Record : HoldsPool(p) /\ moves[p].pool = moves[q].pool => p = q
    BY DEF PoolSlotHasOneOwner
  <2>c. \A q \in Record : moves'[q].pool = moves[q].pool BY <1>c, <1>d
  <2>d. (\A y, z \in Expert : poolOf'[y] # None /\ poolOf'[y] = poolOf'[z] => y = z) => Injective(poolOf')
    BY <1>1 DEF Injective, Bound, LedgerTypeOK
  <2>e. \A v \in PoolSlot : v # None BY NoneAssumption
  <2>f. None \notin freePool BY <1>0, NoneAssumption DEF LedgerTypeOK
  <2>4. CASE ~m.promote
    <3>0. HoldsPool(r) /\ poolOf'[x] = m.pool BY <1>g, <2>3, <2>4
    <3>1. \A y, z \in Expert : poolOf'[y] # None /\ poolOf'[y] = poolOf'[z] => y = z
      BY <1>g, <2>a, <2>b, <3>0
    <3>2. \A y \in Expert : poolOf'[y] \notin freePool
      BY <1>g, <2>b, <3>0
    <3>3. \A q \in Record : HoldsPool(q)' => q # r /\ HoldsPool(q) BY <2>1, <2>2, <2>4
    <3>4. \A q \in Record : HoldsPool(q)' => \A y \in Expert : poolOf'[y] # moves[q].pool
      BY <1>g, <2>b, <3>0, <3>3
    <3> QED BY <1>b, <2>b, <2>c, <2>d, <3>1, <3>2, <3>3, <3>4 DEF PoolSlotHasOneOwner
  <2>5. CASE m.promote
    <3>0. poolOf[x] = m.pool /\ poolOf'[x] = None /\ m.pool # None BY <1>e, <1>f, <1>g, <2>e, <2>5
    <3>1. \A y, z \in Expert : poolOf'[y] # None /\ poolOf'[y] = poolOf'[z] => y = z
      BY <1>g, <2>a, <3>0
    <3>2. \A y \in Expert : poolOf'[y] \notin freePool
      BY <1>g, <2>b, <2>f, <3>0
    <3>3. \A q \in Record : HoldsPool(q)' => q = r \/ HoldsPool(q) BY <2>1
    <3>4. \A q \in Record : HoldsPool(q) => moves[q].pool # m.pool /\ moves[q].pool # None
      BY <1>e, <1>h, <2>b, <2>e, <3>0 DEF HoldsPool
    <3>5. \A y \in Expert : poolOf'[y] # m.pool
      BY <1>e, <1>g, <2>a, <3>0
    <3>6. m.pool \notin freePool BY <1>e, <2>b, <3>0
    <3>7. \A q \in Record : HoldsPool(q)' =>
             /\ moves[q].pool \notin freePool
             /\ \A y \in Expert : poolOf'[y] # moves[q].pool
      BY <1>g, <2>b, <3>0, <3>3, <3>4, <3>5, <3>6
    <3>8. \A q, p \in Record : HoldsPool(q)' /\ HoldsPool(p)' /\ moves[p].pool = moves[q].pool => p = q
      BY <2>b, <3>3, <3>4
    <3> QED BY <1>b, <2>c, <2>d, <3>1, <3>2, <3>7, <3>8 DEF PoolSlotHasOneOwner
  <2> QED BY <2>4, <2>5
<1>4. NoSlotLost'
  <2>1. \A q \in Record : q # r => (HoldsSlab(q) <=> HoldsSlab(q)') /\ (HoldsPool(q) <=> HoldsPool(q)')
    BY <1>d DEF HoldsSlab, HoldsPool
  <2>2. /\ HoldsSlab(r)' <=> ~m.promote
        /\ HoldsPool(r)' <=> m.promote
    BY <1>c, <1>e DEF HoldsSlab, HoldsPool
  <2>3. /\ HoldsSlab(r) <=> m.promote
        /\ HoldsPool(r) <=> ~m.promote
    BY <1>b, <1>e DEF HoldsSlab, HoldsPool
  <2> QED BY <1>b, <1>c, <1>d, <1>e, <1>f, <1>g, <2>1, <2>2, <2>3 DEF NoSlotLost
<1>5. CopyAgreesWithOwner'
  <2>1. \A q \in Record : moves'[q].state = "Copying" => q # r /\ moves[q].state = "Copying"
    BY <1>c, <1>d
  <2>2. \A q \in Record : q # r /\ moves[q].state = "Copying" => moves[q].idx # x
    BY <1>b DEF CopyAgreesWithOwner
  <2>3. \A y \in Expert : y # x => busy'[y] = busy[y] BY <1>0, <1>b DEF LedgerTypeOK
  <2> QED BY <1>d, <1>g, <1>h, <2>1, <2>2, <2>3 DEF CopyAgreesWithOwner
<1>6. OneTier' BY <1>0, <1>g, <1>e DEF OneTier, LedgerTypeOK
<1>7. SlotsMatchRecords'
  <2>1. FreeRecords' = FreeRecords BY <1>b, <1>c, <1>d DEF FreeRecords
  <2> QED BY <1>b, <2>1 DEF SlotsMatchRecords
<1> QED BY <1>1, <1>2, <1>3, <1>4, <1>5, <1>6, <1>7

\* Sealing only renames Published to Quarantine: no slot changes hands.
LEMMA SealKeepsInv ==
  ASSUME LedgerInv, Seal
  PROVE  LedgerInv'
<1> USE DEF LedgerInv
<1>0. LedgerTypeOK OBVIOUS
<1>b. /\ slabOf' = slabOf /\ poolOf' = poolOf /\ busy' = busy
      /\ freeSlab' = freeSlab /\ freePool' = freePool
      /\ moves' = [q \in Record |-> IF moves[q].state = "Published"
                        THEN [moves[q] EXCEPT !.state = "Quarantine"] ELSE moves[q]]
  BY DEF Seal
<1>c. \A q \in Record :
        /\ moves'[q].idx = moves[q].idx /\ moves'[q].promote = moves[q].promote
        /\ moves'[q].slab = moves[q].slab /\ moves'[q].pool = moves[q].pool
        /\ moves'[q].state = (IF moves[q].state = "Published" THEN "Quarantine" ELSE moves[q].state)
  BY <1>0, <1>b DEF LedgerTypeOK
<1>d. \A q \in Record : (HoldsSlab(q)' <=> HoldsSlab(q)) /\ (HoldsPool(q)' <=> HoldsPool(q))
  BY <1>c DEF HoldsSlab, HoldsPool
<1>1. LedgerTypeOK' BY <1>0, <1>b, <1>c DEF LedgerTypeOK, MoveState
<1>2. SlabSlotHasOneOwner' BY <1>b, <1>c, <1>d DEF SlabSlotHasOneOwner, Injective, Bound
<1>3. PoolSlotHasOneOwner' BY <1>b, <1>c, <1>d DEF PoolSlotHasOneOwner, Injective, Bound
<1>4. NoSlotLost' BY <1>b, <1>c, <1>d DEF NoSlotLost
<1>5. CopyAgreesWithOwner' BY <1>b, <1>c DEF CopyAgreesWithOwner
<1>6. OneTier' BY <1>b DEF OneTier
<1>7. SlotsMatchRecords'
  <2>1. FreeRecords' = FreeRecords BY <1>c DEF FreeRecords
  <2> QED BY <1>b, <2>1 DEF SlotsMatchRecords
<1> QED BY <1>1, <1>2, <1>3, <1>4, <1>5, <1>6, <1>7

\* A reclaim keeps the invariant: the record's slot goes to a free list.
LEMMA ReclaimKeepsInv ==
  ASSUME LedgerInv, NEW r \in Record, Reclaim(r)
  PROVE  LedgerInv'
<1> USE DEF LedgerInv
<1>0. LedgerTypeOK OBVIOUS
<1> DEFINE m == moves[r]
<1>b. /\ m.state = "Quarantine"
      /\ freePool' = (IF m.promote THEN freePool \cup {m.pool} ELSE freePool)
      /\ freeSlab' = (IF m.promote THEN freeSlab ELSE freeSlab \cup {m.slab})
      /\ moves' = [moves EXCEPT ![r] = FreeMove]
      /\ slabOf' = slabOf /\ poolOf' = poolOf /\ busy' = busy
  BY DEF Reclaim
<1>e. m.slab \in SlabSlot /\ m.pool \in PoolSlot /\ m.promote \in BOOLEAN
  BY <1>0, <1>b DEF LedgerTypeOK
<1>c. moves'[r] = FreeMove BY <1>0, <1>b DEF LedgerTypeOK
<1>d. \A q \in Record : q # r => moves'[q] = moves[q] BY <1>0, <1>b DEF LedgerTypeOK
<1>f. \A q \in Record : /\ HoldsSlab(q)' <=> (q # r /\ HoldsSlab(q))
                        /\ HoldsPool(q)' <=> (q # r /\ HoldsPool(q))
  BY <1>c, <1>d DEF HoldsSlab, HoldsPool, FreeMove
<1>g. (HoldsSlab(r) <=> ~m.promote) /\ (HoldsPool(r) <=> m.promote)
  BY <1>b, <1>e DEF HoldsSlab, HoldsPool
<1>1. LedgerTypeOK' BY <1>0, <1>b, <1>c, <1>d, <1>e DEF LedgerTypeOK, MoveState, FreeMove
<1>2. SlabSlotHasOneOwner'
  BY <1>b, <1>d, <1>f, <1>g DEF SlabSlotHasOneOwner, Injective, Bound
<1>3. PoolSlotHasOneOwner'
  BY <1>b, <1>d, <1>f, <1>g DEF PoolSlotHasOneOwner, Injective, Bound
<1>4. NoSlotLost' BY <1>b, <1>d, <1>f, <1>g DEF NoSlotLost
<1>5. CopyAgreesWithOwner' BY <1>b, <1>c, <1>d DEF CopyAgreesWithOwner, FreeMove
<1>6. OneTier' BY <1>b DEF OneTier
<1>7. SlotsMatchRecords'
  <2>1. FreeRecords' = FreeRecords \cup {r} BY <1>c, <1>d DEF FreeRecords, FreeMove
  <2>2. r \notin FreeRecords BY <1>b DEF FreeRecords
  <2>3. Cardinality(FreeRecords') = Cardinality(FreeRecords) + 1
    BY <1>0, <2>1, <2>2, FreeSetsFinite, FS_AddElement
  <2>4. CASE m.promote
    <3>1. m.pool \notin freePool BY <1>g, <2>4 DEF PoolSlotHasOneOwner
    <3>2. Cardinality(freePool') = Cardinality(freePool) + 1
      BY <1>0, <1>b, <2>4, <3>1, FreeSetsFinite, FS_AddElement
    <3> QED BY <1>0, <1>b, <2>3, <2>4, <3>2, FreeSetsFinite DEF SlotsMatchRecords
  <2>5. CASE ~m.promote
    <3>1. m.slab \notin freeSlab BY <1>g, <2>5 DEF SlabSlotHasOneOwner
    <3>2. Cardinality(freeSlab') = Cardinality(freeSlab) + 1
      BY <1>0, <1>b, <2>5, <3>1, FreeSetsFinite, FS_AddElement
    <3> QED BY <1>0, <1>b, <2>3, <2>5, <3>2, FreeSetsFinite DEF SlotsMatchRecords
  <2> QED BY <2>4, <2>5
<1> QED BY <1>1, <1>2, <1>3, <1>4, <1>5, <1>6, <1>7

\* A step that changes no ledger variable keeps the invariant.
LEMMA LedgerStutterKeepsInv ==
  ASSUME LedgerInv, UNCHANGED ledgerVars
  PROVE  LedgerInv'
BY DEF LedgerInv, ledgerVars, LedgerTypeOK, SlabSlotHasOneOwner, PoolSlotHasOneOwner, NoSlotLost,
       CopyAgreesWithOwner, OneTier, SlotsMatchRecords, FreeRecords, HoldsSlab, HoldsPool,
       Injective, Bound

-----------------------------------------------------------------------------
\* Every step of the ledger keeps the invariant.
LEMMA LedgerStep == LedgerInv /\ [LedgerNext]_ledgerVars => LedgerInv'
<1> SUFFICES ASSUME LedgerInv, [LedgerNext]_ledgerVars PROVE LedgerInv' OBVIOUS
<1>1. ASSUME NEW r \in Record, NEW e \in Expert, NEW s \in SlabSlot, PromoteIssue(r, e, s)
      PROVE LedgerInv'
  BY <1>1, PromoteKeepsInv
<1>2. ASSUME NEW r \in Record, NEW e \in Expert, NEW p \in PoolSlot, DemoteIssue(r, e, p)
      PROVE LedgerInv'
  BY <1>2, DemoteKeepsInv
<1>3. ASSUME NEW r \in Record, Publish(r) PROVE LedgerInv' BY <1>3, PublishKeepsInv
<1>4. CASE Seal BY <1>4, SealKeepsInv
<1>5. ASSUME NEW r \in Record, Reclaim(r) PROVE LedgerInv' BY <1>5, ReclaimKeepsInv
<1>6. CASE UNCHANGED ledgerVars BY <1>6, LedgerStutterKeepsInv
<1> QED BY <1>1, <1>2, <1>3, <1>4, <1>5, <1>6 DEF LedgerNext

\* LedgerInv is an invariant of the mover's bookkeeping.
THEOREM LedgerInvariance == LedgerSpec => []LedgerInv
BY LedgerInitInv, LedgerStep, PTL DEF LedgerSpec

\* The variables keep their types.
THEOREM LedgerTypeCorrect == LedgerSpec => []LedgerTypeOK
<1>1. LedgerInv => LedgerTypeOK BY DEF LedgerInv
<1> QED BY <1>1, LedgerInvariance, PTL

\* Whenever there is a slot to move into there is a record to move with.
THEOREM NoSlotIsUnreachable == LedgerSpec => []RecordsNeverRunOut
<1>1. LedgerInv => RecordsNeverRunOut
  <2> SUFFICES ASSUME LedgerInv, freeSlab \cup freePool # {}
               PROVE  \E r \in Record : moves[r].state = "Free"
    BY DEF RecordsNeverRunOut
  <2>1. LedgerTypeOK /\ SlotsMatchRecords BY DEF LedgerInv
  <2>2. Cardinality(freeSlab) # 0 \/ Cardinality(freePool) # 0
    BY <2>1, FreeSetsFinite, FS_EmptySet
  <2>3. Cardinality(FreeRecords) # 0 BY <2>1, <2>2, FreeSetsFinite DEF SlotsMatchRecords
  <2>4. FreeRecords # {} BY <2>3, FS_EmptySet
  <2> QED BY <2>4 DEF FreeRecords
<1> QED BY <1>1, LedgerInvariance, PTL

\* Every slot of the slab and of the pool has exactly one owner, and a free one a
\* record to move with.
THEOREM SlotsAlwaysAccounted == LedgerSpec => []SlotsAccounted
<1>1. LedgerInv => SlabSlotHasOneOwner /\ PoolSlotHasOneOwner /\ NoSlotLost BY DEF LedgerInv
<1>2. LedgerSpec => [](SlabSlotHasOneOwner /\ PoolSlotHasOneOwner /\ NoSlotLost)
  BY <1>1, LedgerInvariance, PTL
<1> QED BY <1>2, NoSlotIsUnreachable, PTL DEF SlotsAccounted

\* No step takes the last address of an expert away.
THEOREM AddressesKept == LedgerSpec => AddressNeverLost
<1>1. LedgerInv /\ [LedgerNext]_ledgerVars
        => [\A e \in Expert : slabOf[e] # None \/ poolOf[e] # None
                 => slabOf'[e] # None \/ poolOf'[e] # None]_ledgerVars
  <2> SUFFICES ASSUME LedgerInv, LedgerNext, NEW e \in Expert,
                      slabOf[e] # None \/ poolOf[e] # None
               PROVE  slabOf'[e] # None \/ poolOf'[e] # None
    OBVIOUS
  <2>0. LedgerTypeOK BY DEF LedgerInv
  <2>1. ASSUME NEW r \in Record, Publish(r) PROVE slabOf'[e] # None \/ poolOf'[e] # None
    <3>1. moves[r].slab \in SlabSlot /\ moves[r].pool \in PoolSlot /\ moves[r].promote \in BOOLEAN
      BY <2>0, <2>1 DEF Publish, LedgerTypeOK
    <3> QED BY <2>0, <2>1, <3>1 DEF Publish, LedgerTypeOK
  <2>2. CASE slabOf' = slabOf /\ poolOf' = poolOf BY <2>2
  <2> QED BY <2>1, <2>2 DEF LedgerNext, PromoteIssue, DemoteIssue, Seal, Reclaim
<1> QED BY <1>1, LedgerInvariance, PTL DEF LedgerSpec, AddressNeverLost
=============================================================================
