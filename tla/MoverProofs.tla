---------------------------- MODULE MoverProofs ----------------------------
(* The mover with its cards implements the slot ledger, so every theorem   *)
(* of SlotLedgerProofs holds of it, however the streams interleave.  Then  *)
(* MoverInv, in two parts that share the types: TableInv, that a dispatch  *)
(* will find in the card's table the address it was issued with; ByteInv,  *)
(* that the address still holds its expert when the card comes to it.      *)
EXTENDS Mover, SlotLedgerProofs, SequenceTheorems

\* Steps that leave the ledger alone.
LEMMA CardsLeaveLedger ==
  ASSUME NEW c \in Card, ComputeNext(c) \/ MoverNext(c)
  PROVE  UNCHANGED ledgerVars
<1>1. CASE StartDispatch(c) BY <1>1 DEF StartDispatch
<1>2. CASE FinishDispatch(c) BY <1>2 DEF FinishDispatch, Retired
<1>3. CASE ApplyPublish(c) BY <1>3 DEF ApplyPublish, Retired
<1>4. CASE StartCopy(c) BY <1>4 DEF StartCopy
<1>5. CASE FinishCopy(c) BY <1>5 DEF FinishCopy
<1> QED BY <1>1, <1>2, <1>3, <1>4, <1>5 DEF ComputeNext, MoverNext

\* Each host step is one step of the ledger or leaves it alone.
LEMMA HostStepsLedger ==
  ASSUME HostNext
  PROVE  [LedgerNext]_ledgerVars
<1>1. ASSUME NEW e \in Expert, Dispatch(e) PROVE UNCHANGED ledgerVars
  BY <1>1 DEF Dispatch
<1>2. ASSUME NEW r \in Record, RetirePublish(r) PROVE LedgerNext
  BY <1>2 DEF RetirePublish, LedgerNext
<1>3. ASSUME NEW r \in Record, RetireReclaim(r) PROVE LedgerNext
  BY <1>3 DEF RetireReclaim, LedgerNext
<1>4. ASSUME NEW r \in Record, RetireSkip(r) PROVE UNCHANGED ledgerVars
  BY <1>4 DEF RetireSkip
<1>5. CASE RetireEnd BY <1>5 DEF RetireEnd, LedgerNext
<1>6. ASSUME NEW r \in Record, NEW e \in Expert, NEW s \in SlabSlot, Promote(r, e, s)
      PROVE  LedgerNext
  BY <1>6 DEF Promote, LedgerNext
<1>7. CASE NoSlabSlot BY <1>7 DEF NoSlabSlot
<1>8. ASSUME NEW r \in Record, NEW e \in Expert, NEW p \in PoolSlot, Demote(r, e, p)
      PROVE  LedgerNext
  BY <1>8 DEF Demote, LedgerNext
<1>9. CASE NoPoolSlot BY <1>9 DEF NoPoolSlot
<1>10. CASE TickEnd BY <1>10 DEF TickEnd
<1> QED BY <1>1, <1>2, <1>3, <1>4, <1>5, <1>6, <1>7, <1>8, <1>9, <1>10 DEF HostNext

\* Every step of the mover is a step of the ledger or leaves it alone.
LEMMA NextStepsLedger == [Next]_vars => [LedgerNext]_ledgerVars
<1> SUFFICES ASSUME [Next]_vars PROVE [LedgerNext]_ledgerVars OBVIOUS
<1>1. CASE HostNext BY <1>1, HostStepsLedger
<1>2. ASSUME NEW c \in Card, ComputeNext(c) \/ MoverNext(c) PROVE UNCHANGED ledgerVars
  BY <1>2, CardsLeaveLedger
<1>3. CASE UNCHANGED vars BY <1>3 DEF vars
<1> QED BY <1>1, <1>2, <1>3 DEF Next

\* The mover implements the ledger: whatever the streams do, what the host does
\* to owners, free lists and records are the ledger's steps.
THEOREM MoverImplementsLedger == Spec => LedgerSpec
<1>1. MoverInit => LedgerInit BY DEF MoverInit
<1> QED BY <1>1, NextStepsLedger, PTL DEF Spec, LedgerSpec

\* With any number of cards, behind by any amount, every slot has exactly one owner.
THEOREM MoverSlotsAccounted == Spec => []SlotsAccounted
BY MoverImplementsLedger, SlotsAlwaysAccounted, PTL

\* A patch is a finite set no larger than a launch carries.
PatchInv == IsFiniteSet(patch) /\ PatchHasRoom

\* engine_retire never appends to a full patch, so the abort of publish_base on
\* an overflow is unreachable.
THEOREM PatchNeverOverflows == Spec => []PatchHasRoom
<1>1. MoverInit => PatchInv
  BY FS_EmptySet, MoverAssumption DEF MoverInit, PatchInv, PatchHasRoom
<1>2. PatchInv /\ [Next]_vars => PatchInv'
  <2> SUFFICES ASSUME PatchInv, [Next]_vars PROVE PatchInv' OBVIOUS
  <2> USE DEF PatchInv, PatchHasRoom
  <2>1. ASSUME NEW r \in Record, RetirePublish(r) PROVE PatchInv'
    <3> DEFINE d == [e |-> moves[r].idx, addr |-> NewHome(r)]
    <3>1. CASE Cardinality(patch) = PatchMax
      <4>1. patch' = {d} BY <2>1, <3>1 DEF RetirePublish
      <4> HIDE DEF d
      <4>2. IsFiniteSet(patch') /\ Cardinality(patch') = 1 BY <4>1, FS_Singleton
      <4>3. PatchMax \in Nat /\ PatchMax # 0 BY MoverAssumption
      <4> QED BY <4>2, <4>3
    <3>2. CASE Cardinality(patch) # PatchMax
      <4>1. patch' = patch \cup {d} BY <2>1, <3>2 DEF RetirePublish
      <4> HIDE DEF d
      <4>2. IsFiniteSet(patch') /\ Cardinality(patch') \in {Cardinality(patch), Cardinality(patch) + 1}
        BY <4>1, FS_AddElement
      <4>3. Cardinality(patch) \in Nat BY FS_CardinalityType
      <4> QED BY <3>2, <4>2, <4>3, MoverAssumption
    <3> QED BY <3>1, <3>2
  <2>2. CASE RetireEnd BY <2>2, FS_EmptySet, MoverAssumption DEF RetireEnd
  <2>3. ASSUME NEW e \in Expert, Dispatch(e) PROVE UNCHANGED patch
    BY <2>3 DEF Dispatch
  <2>4. ASSUME NEW r \in Record, RetireReclaim(r) \/ RetireSkip(r) PROVE UNCHANGED patch
    BY <2>4 DEF RetireReclaim, RetireSkip
  <2>5. ASSUME NEW r \in Record, NEW e \in Expert, NEW s \in SlabSlot, Promote(r, e, s)
        PROVE UNCHANGED patch
    BY <2>5 DEF Promote, CopyIssued
  <2>6. ASSUME NEW r \in Record, NEW e \in Expert, NEW p \in PoolSlot, Demote(r, e, p)
        PROVE UNCHANGED patch
    BY <2>6 DEF Demote, CopyIssued
  <2>7. CASE NoSlabSlot \/ NoPoolSlot \/ TickEnd BY <2>7 DEF NoSlabSlot, NoPoolSlot, TickEnd
  <2>8. ASSUME NEW c \in Card, ComputeNext(c) \/ MoverNext(c) PROVE UNCHANGED patch
    BY <2>8 DEF ComputeNext, MoverNext, StartDispatch, FinishDispatch, ApplyPublish, Retired,
                StartCopy, FinishCopy, hostVars
  <2>9. CASE UNCHANGED vars BY <2>9 DEF vars, hostVars
  <2> QED BY <2>1, <2>2, <2>3, <2>4, <2>5, <2>6, <2>7, <2>8, <2>9 DEF Next, HostNext
<1>3. PatchInv => PatchHasRoom BY DEF PatchInv
<1> QED BY <1>1, <1>2, <1>3, PTL DEF Spec

-----------------------------------------------------------------------------
(* What the streams carry.                                                 *)

\* Every address there is, a table edit, a launch, a copy.
Addr == ({"slab"} \X SlabSlot) \cup ({"pool"} \X PoolSlot)
Edit == [e : Expert, addr : Addr]
Launch == [op : {"dispatch"}, e : Expert, addr : Addr] \cup [op : {"publish"}, edits : SUBSET Edit]
Copy == [rec : Record, gate : Nat]

\* Type invariant of the mover: the ledger's has its own.
MoverTypeOK ==
  /\ pc \in {"dispatch", "retire", "pick", "demote"}
  /\ patch \subseteq Edit
  /\ stream \in [Card -> Seq(Launch)]
  /\ reads \in [Card -> Addr \cup {None}]
  /\ plcDev \in [Card -> [Expert -> Addr \cup {None}]]
  /\ mover \in [Card -> Seq(Copy)]
  /\ copying \in [Card -> BOOLEAN]
  /\ left \in [Record -> [Card -> Nat]]
  /\ slabC \in [Card -> [SlabSlot -> Expert \cup {None}]]
  /\ poolC \in [Card -> [PoolSlot -> Expert \cup {None}]]

\* A publish names an expert at most once.
OneAddressEach(p) == \A d1, d2 \in p : d1.e = d2.e => d1 = d2

Edits(o, e) == o.op = "publish" /\ \E d \in o.edits : d.e = e

\* Reading the table at launch i of stream s, the card finds e at a: the last edit
\* of e before it says so, or no edit does and the table t already has it there.
Finds(s, t, e, i, a) ==
  \/ t[e] = a /\ \A j \in 1..(i - 1) : ~Edits(s[j], e)
  \/ \E j \in 1..(i - 1) : /\ s[j].op = "publish" /\ [e |-> e, addr |-> a] \in s[j].edits
                           /\ \A k \in (j + 1)..(i - 1) : ~Edits(s[k], e)

\* The table t once publish o has landed in it.
Patched(t, o) ==
  [e \in Expert |-> IF \E d \in o.edits : d.e = e
                    THEN (CHOOSE d \in o.edits : d.e = e).addr ELSE t[e]]

\* What a card will find does not depend on what is appended behind it.
LEMMA FindsAppend ==
  ASSUME NEW s \in Seq(Launch), NEW o \in Launch, NEW t, NEW e, NEW a, NEW i \in 1..(Len(s) + 1)
  PROVE  Finds(Append(s, o), t, e, i, a) <=> Finds(s, t, e, i, a)
<1>1. \A j \in 1..Len(s) : Append(s, o)[j] = s[j] BY AppendProperties
<1>2. Len(s) \in Nat BY LenProperties
<1>3. \A j \in 1..(i - 1) : Append(s, o)[j] = s[j] BY <1>1, <1>2
<1>4. \A j \in 1..(i - 1) : \A k \in (j + 1)..(i - 1) : Append(s, o)[k] = s[k] BY <1>2, <1>3
<1> QED BY <1>3, <1>4 DEF Finds

\* Behind a launch that leaves e alone the card finds what it found before it.
LEMMA FindsPast ==
  ASSUME NEW s \in Seq(Launch), NEW o \in Launch, NEW t, NEW e, NEW a,
         ~Edits(o, e), Finds(s, t, e, Len(s) + 1, a)
  PROVE  Finds(Append(s, o), t, e, Len(s) + 2, a)
<1>1. /\ \A j \in 1..Len(s) : Append(s, o)[j] = s[j]
      /\ Append(s, o)[Len(s) + 1] = o
  BY AppendProperties
<1>2. Len(s) \in Nat BY LenProperties
<1>3. \A j \in 1..(Len(s) + 2 - 1) : j \in 1..Len(s) \/ j = Len(s) + 1 BY <1>2
<1>4. CASE t[e] = a /\ \A j \in 1..(Len(s) + 1 - 1) : ~Edits(s[j], e)
  <2>1. \A j \in 1..(Len(s) + 2 - 1) : ~Edits(Append(s, o)[j], e) BY <1>1, <1>2, <1>3, <1>4
  <2> QED BY <1>4, <2>1 DEF Finds
<1>5. ASSUME NEW j \in 1..(Len(s) + 1 - 1),
             s[j].op = "publish", [e |-> e, addr |-> a] \in s[j].edits,
             \A k \in (j + 1)..(Len(s) + 1 - 1) : ~Edits(s[k], e)
      PROVE  Finds(Append(s, o), t, e, Len(s) + 2, a)
  <2>1. j \in 1..Len(s) /\ j \in 1..(Len(s) + 2 - 1) BY <1>2
  <2>2. \A k \in (j + 1)..(Len(s) + 2 - 1) : ~Edits(Append(s, o)[k], e)
    <3> TAKE k \in (j + 1)..(Len(s) + 2 - 1)
    <3>1. CASE k = Len(s) + 1 BY <1>1, <3>1
    <3>2. CASE k # Len(s) + 1
      <4>1. k \in 1..Len(s) /\ k \in (j + 1)..(Len(s) + 1 - 1) BY <1>2, <2>1, <3>2
      <4> QED BY <1>1, <1>5, <4>1
    <3> QED BY <3>1, <3>2
  <2>3. Append(s, o)[j] = s[j] BY <1>1, <2>1
  <2> QED BY <1>5, <2>1, <2>2, <2>3 DEF Finds
<1> QED BY <1>4, <1>5 DEF Finds

\* Behind a publish that edits e the card finds what the edit says.
LEMMA FindsEdit ==
  ASSUME NEW s \in Seq(Launch), NEW o \in Launch, NEW t, NEW e, NEW a,
         o.op = "publish", [e |-> e, addr |-> a] \in o.edits
  PROVE  Finds(Append(s, o), t, e, Len(s) + 2, a)
<1>1. Append(s, o)[Len(s) + 1] = o BY AppendProperties
<1>2. Len(s) \in Nat BY LenProperties
<1>3. Len(s) + 1 \in 1..(Len(s) + 2 - 1) BY <1>2
<1>4. (Len(s) + 1 + 1)..(Len(s) + 2 - 1) = {} BY <1>2
<1> QED BY <1>1, <1>3, <1>4 DEF Finds

\* The head launch retires: what it edited is in the table now.
LEMMA FindsTail ==
  ASSUME NEW s \in Seq(Launch), s # <<>>, NEW t, NEW u, NEW e, NEW a, NEW i \in 1..Len(s),
         Finds(s, t, e, i + 1, a),
         ~Edits(s[1], e) => u[e] = t[e],
         \A b : s[1].op = "publish" /\ [e |-> e, addr |-> b] \in s[1].edits => u[e] = b
  PROVE  Finds(Tail(s), u, e, i, a)
<1>1. \A j \in 1..(Len(s) - 1) : Tail(s)[j] = s[j + 1] BY HeadTailProperties
<1>2. Len(s) \in Nat BY LenProperties
<1>3. CASE t[e] = a /\ \A j \in 1..(i + 1 - 1) : ~Edits(s[j], e)
  <2>1. u[e] = a BY <1>2, <1>3
  <2>2. \A j \in 1..(i - 1) : Tail(s)[j] = s[j + 1] /\ j + 1 \in 1..(i + 1 - 1) BY <1>1, <1>2
  <2> QED BY <1>3, <2>1, <2>2 DEF Finds
<1>4. ASSUME NEW j \in 1..(i + 1 - 1),
             s[j].op = "publish", [e |-> e, addr |-> a] \in s[j].edits,
             \A k \in (j + 1)..(i + 1 - 1) : ~Edits(s[k], e)
      PROVE  Finds(Tail(s), u, e, i, a)
  <2>1. \A k \in j..(i - 1) : Tail(s)[k] = s[k + 1] /\ k + 1 \in (j + 1)..(i + 1 - 1) BY <1>1, <1>2
  <2>2. \A k \in j..(i - 1) : ~Edits(Tail(s)[k], e) BY <1>4, <2>1
  <2>3. CASE j = 1 BY <1>4, <2>2, <2>3 DEF Finds
  <2>4. CASE j # 1
    <3>1. j - 1 \in 1..(i - 1) /\ j - 1 \in 1..(Len(s) - 1) /\ (j - 1) + 1 = j BY <1>2, <2>4
    <3>2. Tail(s)[j - 1] = s[j] BY <1>1, <3>1
    <3>3. \A k \in ((j - 1) + 1)..(i - 1) : ~Edits(Tail(s)[k], e) BY <2>2, <3>1
    <3> QED BY <1>4, <3>1, <3>2, <3>3 DEF Finds
  <2> QED BY <2>3, <2>4
<1> QED BY <1>3, <1>4 DEF Finds

-----------------------------------------------------------------------------
(* Types.                                                                  *)

\* A copy in a mover stream belongs to a record that is copying, whose event on
\* this card has not signalled, and to no other copy of this stream.
CopiesInFlight ==
  \A c \in Card : \A i \in 1..Len(mover[c]) :
    /\ moves[mover[c][i].rec].state = "Copying"
    /\ left[mover[c][i].rec][c] # 0
    /\ \A j \in 1..Len(mover[c]) : mover[c][j].rec = mover[c][i].rec => j = i

\* A copy that runs has its stream's head, and waits for nothing.
RunningIsHead == \A c \in Card : copying[c] => mover[c] # <<>> /\ mover[c][1].gate = 0

\* A dispatch that runs is its stream's head and reads the address of its issue.
ReadsAsIssued ==
  \A c \in Card : reads[c] # None =>
    stream[c] # <<>> /\ stream[c][1].op = "dispatch" /\ reads[c] = stream[c][1].addr

\* An expert's home is an address or nothing.
LEMMA HomeType ==
  ASSUME LedgerTypeOK, NEW e \in Expert
  PROVE  Home(e) \in Addr \cup {None}
BY DEF LedgerTypeOK, Home, Addr

\* A record in use has a destination, and its edit is an edit.
LEMMA NewHomeType ==
  ASSUME LedgerTypeOK, NEW r \in Record, moves[r].state # "Free"
  PROVE  /\ NewHome(r) \in Addr /\ moves[r].idx \in Expert
         /\ [e |-> moves[r].idx, addr |-> NewHome(r)] \in Edit
BY DEF LedgerTypeOK, NewHome, Addr, Edit

\* What Dispatch appends is a launch.
LEMMA DispatchType ==
  ASSUME LedgerTypeOK, NEW e \in Expert, Home(e) # None
  PROVE  DispatchOp(e) \in Launch
BY HomeType DEF DispatchOp, Launch

\* What a flush appends is a launch.
LEMMA PublishType == ASSUME NEW p \in SUBSET Edit PROVE PublishOp(p) \in Launch
BY DEF PublishOp, Launch

\* The launches a card's stream holds are launches, the head among them.
LEMMA HeadOfStream ==
  ASSUME MoverTypeOK, NEW c \in Card, stream[c] # <<>>
  PROVE  /\ Head(stream[c]) = stream[c][1] /\ stream[c][1] \in Launch
         /\ Tail(stream[c]) \in Seq(Launch) /\ Len(stream[c]) \in Nat \ {0}
         /\ Len(Tail(stream[c])) = Len(stream[c]) - 1
         /\ \A i \in 1..(Len(stream[c]) - 1) : Tail(stream[c])[i] = stream[c][i + 1]
<1>1. stream[c] \in Seq(Launch) BY DEF MoverTypeOK
<1> QED BY <1>1, HeadTailProperties, LenProperties

\* The copies a mover stream holds are copies, the head among them.
LEMMA HeadOfMover ==
  ASSUME MoverTypeOK, NEW c \in Card, mover[c] # <<>>
  PROVE  /\ Head(mover[c]) = mover[c][1] /\ mover[c][1] \in Copy
         /\ Tail(mover[c]) \in Seq(Copy) /\ Len(mover[c]) \in Nat \ {0}
         /\ Len(Tail(mover[c])) = Len(mover[c]) - 1
         /\ \A i \in 1..(Len(mover[c]) - 1) : Tail(mover[c])[i] = mover[c][i + 1]
<1>1. mover[c] \in Seq(Copy) BY DEF MoverTypeOK
<1> QED BY <1>1, HeadTailProperties, LenProperties

\* What the retiring of a launch does to the copies that wait.
LEMMA RetiredCopies ==
  ASSUME MoverTypeOK, NEW c \in Card, Retired(c)
  PROVE  /\ mover' \in [Card -> Seq(Copy)]
         /\ \A d \in Card : d # c => mover'[d] = mover[d]
         /\ Len(mover'[c]) = Len(mover[c])
         /\ \A i \in 1..Len(mover[c]) :
              /\ mover'[c][i].rec = mover[c][i].rec
              /\ mover'[c][i].gate = IF mover[c][i].gate > 0 THEN mover[c][i].gate - 1 ELSE 0
<1>1. mover[c] \in Seq(Copy) /\ mover \in [Card -> Seq(Copy)] BY DEF MoverTypeOK
<1>2. Len(mover[c]) \in Nat /\ DOMAIN mover[c] = 1..Len(mover[c])
      /\ \A i \in 1..Len(mover[c]) : mover[c][i] \in Copy
  BY <1>1, LenProperties, ElementOfSeq
<1> DEFINE n == Len(mover[c])
           f == [i \in 1..n |-> Closer(mover[c][i])]
<1>3. \A i \in 1..n : f[i] \in Copy /\ f[i].rec = mover[c][i].rec
        /\ f[i].gate = IF mover[c][i].gate > 0 THEN mover[c][i].gate - 1 ELSE 0
  BY <1>2 DEF Closer, Copy
<1>4. f \in Seq(Copy) /\ Len(f) = n
  <2>1. n \in Nat /\ f \in [1..n -> Copy] BY <1>2, <1>3
  <2> HIDE DEF f, n
  <2> QED BY <2>1, SeqDef, LenProperties
<1>5. mover' = [mover EXCEPT ![c] = f] BY <1>2 DEF Retired
<1> QED BY <1>1, <1>3, <1>4, <1>5

\* The retiring of a launch keeps the types.
LEMMA RetiredType ==
  ASSUME MoverTypeOK, NEW c \in Card, stream[c] # <<>>, Retired(c)
  PROVE  /\ stream' \in [Card -> Seq(Launch)] /\ left' \in [Record -> [Card -> Nat]]
         /\ UNCHANGED <<pc, patch, copying, slabC, poolC>>
<1>1. stream' \in [Card -> Seq(Launch)] BY HeadOfStream DEF Retired, MoverTypeOK
<1>2. left' \in [Record -> [Card -> Nat]]
  <2>1. left' = [r \in Record |-> IF moves[r].state = "Quarantine" /\ left[r][c] > 0
                               THEN [left[r] EXCEPT ![c] = left[r][c] - 1] ELSE left[r]]
    BY DEF Retired
  <2>2. \A r \in Record : left[r] \in [Card -> Nat] /\ left[r][c] \in Nat BY DEF MoverTypeOK
  <2> QED BY <2>1, <2>2
<1>3. UNCHANGED <<pc, patch, copying, slabC, poolC>> BY DEF Retired, hostVars
<1> QED BY <1>1, <1>2, <1>3

\* A flush keeps the type of the streams.
LEMMA FlushedType ==
  ASSUME MoverTypeOK
  PROVE  Flushed \in [Card -> Seq(Launch)]
<1>1. PublishOp(patch) \in Launch BY PublishType DEF MoverTypeOK
<1> QED BY <1>1, AppendProperties DEF Flushed, MoverTypeOK

\* The issue of a copy keeps the types.
LEMMA CopyIssuedType ==
  ASSUME MoverTypeOK, NEW r \in Record, CopyIssued(r)
  PROVE  mover' \in [Card -> Seq(Copy)] /\ left' \in [Record -> [Card -> Nat]]
<1>1. \A c \in Card : [rec |-> r, gate |-> Len(stream[c])] \in Copy
  BY LenProperties DEF MoverTypeOK, Copy
<1>2. mover' \in [Card -> Seq(Copy)] BY <1>1, AppendProperties DEF CopyIssued, MoverTypeOK
<1> QED BY <1>2 DEF CopyIssued, MoverTypeOK

\* Where a record's copy reads.
Source(r) == IF moves[r].promote THEN <<"pool", moves[r].pool>> ELSE <<"slab", moves[r].slab>>

\* The copy at the head of a mover stream has a record, a source and a destination.
LEMMA HeadCopy ==
  ASSUME LedgerTypeOK, MoverTypeOK, CopiesInFlight, NEW c \in Card, mover[c] # <<>>
  PROVE  /\ Head(mover[c]) = mover[c][1] /\ mover[c][1].rec \in Record
         /\ mover[c][1].gate \in Nat /\ 1 \in 1..Len(mover[c])
         /\ moves[mover[c][1].rec].state = "Copying" /\ moves[mover[c][1].rec].promote \in BOOLEAN
         /\ moves[mover[c][1].rec].slab \in SlabSlot /\ moves[mover[c][1].rec].pool \in PoolSlot
         /\ NewHome(mover[c][1].rec) \in Addr /\ Source(mover[c][1].rec) \in Addr
<1>1. mover[c][1] \in Copy /\ Head(mover[c]) = mover[c][1] /\ Len(mover[c]) \in Nat \ {0}
  BY HeadOfMover
<1>2. mover[c][1].rec \in Record /\ mover[c][1].gate \in Nat BY <1>1 DEF Copy
<1>3. 1 \in 1..Len(mover[c]) BY <1>1
<1>4. moves[mover[c][1].rec].state = "Copying" BY <1>3 DEF CopiesInFlight
<1>5. /\ moves[mover[c][1].rec].slab \in SlabSlot /\ moves[mover[c][1].rec].pool \in PoolSlot
      /\ moves[mover[c][1].rec].promote \in BOOLEAN
  BY <1>2, <1>4 DEF LedgerTypeOK
<1>6. NewHome(mover[c][1].rec) \in Addr /\ Source(mover[c][1].rec) \in Addr
  BY <1>5 DEF NewHome, Source, Addr
<1> QED BY <1>1, <1>2, <1>3, <1>4, <1>5, <1>6

\* A copy that starts takes the bytes away from its destination, and from there alone.
LEMMA StartCopyEffect ==
  ASSUME LedgerTypeOK, MoverTypeOK, CopiesInFlight, NEW c \in Card, StartCopy(c)
  PROVE  /\ slabC' \in [Card -> [SlabSlot -> Expert \cup {None}]]
         /\ poolC' \in [Card -> [PoolSlot -> Expert \cup {None}]]
         /\ \A d \in Card, a \in Addr :
              d # c \/ a # NewHome(mover[c][1].rec) => Content(d, a)' = Content(d, a)
<1> DEFINE r == mover[c][1].rec
<1>1. mover[c] # <<>> BY DEF StartCopy
<1>2. Head(mover[c]).rec = r /\ moves[r].promote \in BOOLEAN BY <1>1, HeadCopy
<1>3. CASE moves[r].promote
  <2>1. slabC' = [slabC EXCEPT ![c] = [slabC[c] EXCEPT ![moves[r].slab] = None]] /\ poolC' = poolC
    BY <1>2, <1>3 DEF StartCopy
  <2>2. NewHome(r) = <<"slab", moves[r].slab>> BY <1>3 DEF NewHome
  <2> HIDE DEF r
  <2>3. slabC' \in [Card -> [SlabSlot -> Expert \cup {None}]] BY <2>1 DEF MoverTypeOK
  <2>4. \A d \in Card, s \in SlabSlot : d # c \/ s # moves[r].slab => slabC'[d][s] = slabC[d][s]
    BY <2>1 DEF MoverTypeOK
  <2>5. \A d \in Card, a \in Addr : d # c \/ a # NewHome(r) => Content(d, a)' = Content(d, a)
    BY <2>1, <2>2, <2>4 DEF Content, Addr
  <2> QED BY <2>1, <2>3, <2>5 DEF MoverTypeOK, r
<1>4. CASE ~moves[r].promote
  <2>1. poolC' = [poolC EXCEPT ![c] = [poolC[c] EXCEPT ![moves[r].pool] = None]] /\ slabC' = slabC
    BY <1>2, <1>4 DEF StartCopy
  <2>2. NewHome(r) = <<"pool", moves[r].pool>> BY <1>4 DEF NewHome
  <2> HIDE DEF r
  <2>3. poolC' \in [Card -> [PoolSlot -> Expert \cup {None}]] BY <2>1 DEF MoverTypeOK
  <2>4. \A d \in Card, p \in PoolSlot : d # c \/ p # moves[r].pool => poolC'[d][p] = poolC[d][p]
    BY <2>1 DEF MoverTypeOK
  <2>5. \A d \in Card, a \in Addr : d # c \/ a # NewHome(r) => Content(d, a)' = Content(d, a)
    BY <2>1, <2>2, <2>4 DEF Content, Addr
  <2> QED BY <2>1, <2>3, <2>5 DEF MoverTypeOK, r
<1> QED BY <1>2, <1>3, <1>4

\* A copy that lands fills its destination with what its source holds.
LEMMA FinishCopyEffect ==
  ASSUME LedgerTypeOK, MoverTypeOK, CopiesInFlight, NEW c \in Card, mover[c] # <<>>, FinishCopy(c)
  PROVE  /\ slabC' \in [Card -> [SlabSlot -> Expert \cup {None}]]
         /\ poolC' \in [Card -> [PoolSlot -> Expert \cup {None}]]
         /\ \A d \in Card, a \in Addr :
              IF d = c /\ a = NewHome(mover[c][1].rec)
              THEN Content(d, a)' = Content(c, Source(mover[c][1].rec))
              ELSE Content(d, a)' = Content(d, a)
<1> DEFINE r == mover[c][1].rec
<1>2. /\ Head(mover[c]).rec = r /\ moves[r].promote \in BOOLEAN
      /\ moves[r].slab \in SlabSlot /\ moves[r].pool \in PoolSlot
  BY HeadCopy
<1>3. CASE moves[r].promote
  <2>1. /\ slabC' = [slabC EXCEPT ![c] = [slabC[c] EXCEPT ![moves[r].slab] = poolC[c][moves[r].pool]]]
        /\ poolC' = poolC
    BY <1>2, <1>3 DEF FinishCopy
  <2>2. poolC[c][moves[r].pool] \in Expert \cup {None} BY <1>2 DEF MoverTypeOK
  <2>3. NewHome(r) = <<"slab", moves[r].slab>> /\ Content(c, Source(r)) = poolC[c][moves[r].pool]
    BY <1>3 DEF NewHome, Source, Content
  <2> HIDE DEF r
  <2>4. \A d \in Card, s \in SlabSlot :
          slabC'[d][s] = IF d = c /\ s = moves[r].slab THEN poolC[c][moves[r].pool] ELSE slabC[d][s]
    BY <2>1 DEF MoverTypeOK
  <2>5. slabC' \in [Card -> [SlabSlot -> Expert \cup {None}]] BY <2>1, <2>2 DEF MoverTypeOK
  <2>6. \A d \in Card, a \in Addr :
          IF d = c /\ a = NewHome(r) THEN Content(d, a)' = Content(c, Source(r))
          ELSE Content(d, a)' = Content(d, a)
    BY <2>1, <2>3, <2>4 DEF Content, Addr
  <2> QED BY <2>1, <2>5, <2>6 DEF MoverTypeOK, r
<1>4. CASE ~moves[r].promote
  <2>1. /\ poolC' = [poolC EXCEPT ![c] = [poolC[c] EXCEPT ![moves[r].pool] = slabC[c][moves[r].slab]]]
        /\ slabC' = slabC
    BY <1>2, <1>4 DEF FinishCopy
  <2>2. slabC[c][moves[r].slab] \in Expert \cup {None} BY <1>2 DEF MoverTypeOK
  <2>3. NewHome(r) = <<"pool", moves[r].pool>> /\ Content(c, Source(r)) = slabC[c][moves[r].slab]
    BY <1>4 DEF NewHome, Source, Content
  <2> HIDE DEF r
  <2>4. \A d \in Card, p \in PoolSlot :
          poolC'[d][p] = IF d = c /\ p = moves[r].pool THEN slabC[c][moves[r].slab] ELSE poolC[d][p]
    BY <2>1 DEF MoverTypeOK
  <2>5. poolC' \in [Card -> [PoolSlot -> Expert \cup {None}]] BY <2>1, <2>2 DEF MoverTypeOK
  <2>6. \A d \in Card, a \in Addr :
          IF d = c /\ a = NewHome(r) THEN Content(d, a)' = Content(c, Source(r))
          ELSE Content(d, a)' = Content(d, a)
    BY <2>1, <2>3, <2>4 DEF Content, Addr
  <2> QED BY <2>1, <2>5, <2>6 DEF MoverTypeOK, r
<1> QED BY <1>2, <1>3, <1>4

\* The types hold once the engine is set up.
LEMMA TypeInit == MoverInit => MoverTypeOK
<1> SUFFICES ASSUME MoverInit PROVE MoverTypeOK OBVIOUS
<1>1. LedgerTypeOK BY LedgerInitInv DEF MoverInit, LedgerInv
<1>2. \A e \in Expert : Home(e) \in Addr \cup {None} BY <1>1, HomeType
<1>3. <<>> \in Seq(Launch) /\ <<>> \in Seq(Copy) BY EmptySeq
<1>4. \A f, s : OwnerOf(f, s) \in Expert \cup {None} BY DEF OwnerOf
<1> QED BY <1>2, <1>3, <1>4 DEF MoverInit, MoverTypeOK

\* Every host step keeps the types.
LEMMA HostKeepsType ==
  ASSUME LedgerTypeOK, MoverTypeOK, HostNext
  PROVE  MoverTypeOK'
<1> USE DEF MoverTypeOK
<1>1. ASSUME NEW e \in Expert, Dispatch(e) PROVE MoverTypeOK'
  <2>1. DispatchOp(e) \in Launch BY <1>1, DispatchType DEF Dispatch
  <2>2. stream' \in [Card -> Seq(Launch)] BY <1>1, <2>1, AppendProperties DEF Dispatch
  <2> QED BY <1>1, <2>2 DEF Dispatch
<1>2. ASSUME NEW r \in Record, RetirePublish(r) PROVE MoverTypeOK'
  <2>1. [e |-> moves[r].idx, addr |-> NewHome(r)] \in Edit BY <1>2, NewHomeType DEF RetirePublish
  <2>2. patch' \subseteq Edit BY <1>2, <2>1 DEF RetirePublish
  <2>3. stream' \in [Card -> Seq(Launch)] BY <1>2, FlushedType DEF RetirePublish
  <2> QED BY <1>2, <2>2, <2>3 DEF RetirePublish
<1>3. ASSUME NEW r \in Record, RetireReclaim(r) \/ RetireSkip(r) PROVE MoverTypeOK'
  BY <1>3 DEF RetireReclaim, RetireSkip, cardVars
<1>4. CASE RetireEnd
  <2>1. stream' \in [Card -> Seq(Launch)] BY <1>4, FlushedType DEF RetireEnd
  <2>2. left' \in [Record -> [Card -> Nat]]
    <3>1. \A c \in Card : Len(stream'[c]) \in Nat BY <2>1, LenProperties
    <3> QED BY <1>4, <3>1 DEF RetireEnd
  <2> QED BY <1>4, <2>1, <2>2 DEF RetireEnd
<1>5. ASSUME NEW r \in Record, NEW e \in Expert, NEW s \in SlabSlot, Promote(r, e, s)
      PROVE  MoverTypeOK'
  BY <1>5, CopyIssuedType DEF Promote, CopyIssued
<1>6. ASSUME NEW r \in Record, NEW e \in Expert, NEW p \in PoolSlot, Demote(r, e, p)
      PROVE  MoverTypeOK'
  BY <1>6, CopyIssuedType DEF Demote, CopyIssued
<1>7. CASE NoSlabSlot \/ NoPoolSlot \/ TickEnd
  BY <1>7 DEF NoSlabSlot, NoPoolSlot, TickEnd, cardVars
<1> QED BY <1>1, <1>2, <1>3, <1>4, <1>5, <1>6, <1>7 DEF HostNext

\* Every card step keeps the types.
LEMMA CardKeepsType ==
  ASSUME LedgerTypeOK, MoverTypeOK, CopiesInFlight, RunningIsHead, ReadsAsIssued,
         NEW c \in Card, ComputeNext(c) \/ MoverNext(c)
  PROVE  MoverTypeOK'
<1> USE DEF MoverTypeOK
<1>1. CASE StartDispatch(c)
  <2>1. stream[c][1] \in Launch /\ Head(stream[c]) = stream[c][1] BY <1>1, HeadOfStream DEF StartDispatch
  <2>2. stream[c][1].op = "dispatch" BY <1>1, <2>1 DEF StartDispatch
  <2>3. stream[c][1].e \in Expert /\ stream[c][1].addr \in Addr BY <2>1, <2>2 DEF Launch
  <2>4. reads' \in [Card -> Addr \cup {None}] BY <1>1, <2>1, <2>3 DEF StartDispatch
  <2> QED BY <1>1, <2>4 DEF StartDispatch, hostVars
<1>2. CASE FinishDispatch(c)
  <2>1. stream[c] # <<>> BY <1>2 DEF FinishDispatch, ReadsAsIssued
  <2> QED BY <1>2, <2>1, RetiredType, RetiredCopies DEF FinishDispatch
<1>3. CASE ApplyPublish(c)
  <2>1. Head(stream[c]) \in Launch /\ Head(stream[c]).op = "publish" /\ stream[c] # <<>>
    BY <1>3, HeadOfStream DEF ApplyPublish
  <2>2. \A d \in Head(stream[c]).edits : d.addr \in Addr BY <2>1 DEF Launch, Edit
  <2>3. Patched(plcDev[c], Head(stream[c])) \in [Expert -> Addr \cup {None}]
    BY <2>2 DEF Patched
  <2>4. plcDev' = [plcDev EXCEPT ![c] = Patched(plcDev[c], Head(stream[c]))]
    BY <1>3 DEF ApplyPublish, Patched
  <2> QED BY <1>3, <2>1, <2>3, <2>4, RetiredType, RetiredCopies DEF ApplyPublish
<1>4. CASE StartCopy(c)
  BY <1>4, StartCopyEffect DEF StartCopy, hostVars
<1>5. CASE FinishCopy(c)
  <2>1. mover[c] # <<>> /\ UNCHANGED <<pc, patch, stream, reads, plcDev>>
    BY <1>5 DEF FinishCopy, RunningIsHead, hostVars
  <2>2. Tail(mover[c]) \in Seq(Copy) BY <2>1, HeadOfMover
  <2>3. mover' \in [Card -> Seq(Copy)] /\ copying' \in [Card -> BOOLEAN]
    BY <1>5, <2>2 DEF FinishCopy
  <2>4. left' \in [Record -> [Card -> Nat]] BY <1>5 DEF FinishCopy
  <2> QED BY <1>5, <2>1, <2>3, <2>4, FinishCopyEffect
<1> QED BY <1>1, <1>2, <1>3, <1>4, <1>5 DEF ComputeNext, MoverNext

-----------------------------------------------------------------------------
(* The cards' tables.                                                      *)

\* Edits wait in the patch only while engine_retire runs.
PatchInTick == pc # "retire" => patch = {}

\* An expert whose edit waits has been published: no record is moving it.
PatchIsPublished ==
  \A d \in patch, r \in Record : moves[r].state = "Copying" => moves[r].idx # d.e

LaunchesNameOnce ==
  \A c \in Card : \A i \in 1..Len(stream[c]) :
    stream[c][i].op = "publish" => OneAddressEach(stream[c][i].edits)

\* The host's table is the card's once the stream has run out and the patch landed.
TableCatchesUp ==
  \A c \in Card, e \in Expert :
    IF \E d \in patch : d.e = e THEN [e |-> e, addr |-> Home(e)] \in patch
    ELSE Finds(stream[c], plcDev[c], e, Len(stream[c]) + 1, Home(e))

\* A queued dispatch will find its expert where the host's table had it at the issue.
DispatchesFindIssue ==
  \A c \in Card : \A i \in 1..Len(stream[c]) :
    stream[c][i].op = "dispatch" =>
      Finds(stream[c], plcDev[c], stream[c][i].e, i, stream[c][i].addr)

TableInv ==
  /\ PatchInTick
  /\ OneAddressEach(patch)
  /\ PatchIsPublished
  /\ LaunchesNameOnce
  /\ TableCatchesUp
  /\ DispatchesFindIssue
  /\ ReadsAsIssued

\* Homes follow from the owner tables alone.
LEMMA HomeUnchanged ==
  ASSUME UNCHANGED <<slabOf, poolOf>>, NEW e PROVE Home(e)' = Home(e)
BY DEF Home

\* A publish gives its expert the new home and leaves the others' alone.
LEMMA PublishHome ==
  ASSUME LedgerTypeOK, NEW r \in Record, Publish(r)
  PROVE  \A e \in Expert : Home(e)' = IF e = moves[r].idx THEN NewHome(r) ELSE Home(e)
<1>1. moves[r].idx \in Expert /\ moves[r].slab \in SlabSlot /\ moves[r].pool \in PoolSlot
  BY DEF LedgerTypeOK, Publish
<1>2. /\ slabOf' = [slabOf EXCEPT ![moves[r].idx] = IF moves[r].promote THEN moves[r].slab ELSE None]
      /\ poolOf' = [poolOf EXCEPT ![moves[r].idx] = IF moves[r].promote THEN None ELSE moves[r].pool]
  BY DEF Publish
<1>3. slabOf \in [Expert -> SlabSlot \cup {None}] /\ poolOf \in [Expert -> PoolSlot \cup {None}]
  BY DEF LedgerTypeOK
<1>4. \A e \in Expert : /\ slabOf'[e] = IF e # moves[r].idx THEN slabOf[e]
                                       ELSE IF moves[r].promote THEN moves[r].slab ELSE None
                        /\ poolOf'[e] = IF e # moves[r].idx THEN poolOf[e]
                                       ELSE IF moves[r].promote THEN None ELSE moves[r].pool
  BY <1>2, <1>3
<1> SUFFICES ASSUME NEW e \in Expert
             PROVE  Home(e)' = IF e = moves[r].idx THEN NewHome(r) ELSE Home(e)
  OBVIOUS
<1>5. CASE e # moves[r].idx
  <2>1. slabOf'[e] = slabOf[e] /\ poolOf'[e] = poolOf[e] BY <1>4, <1>5
  <2> QED BY <1>5, <2>1 DEF Home
<1>6. CASE e = moves[r].idx
  <2>1. /\ slabOf'[e] = IF moves[r].promote THEN moves[r].slab ELSE None
        /\ poolOf'[e] = IF moves[r].promote THEN None ELSE moves[r].pool
    BY <1>4, <1>6
  <2>2. moves[r].slab # None /\ moves[r].pool # None BY <1>1, NoneAssumption
  <2>3. Home(e)' = NewHome(r) BY <2>1, <2>2 DEF Home, NewHome
  <2> QED BY <1>6, <2>3
<1> QED BY <1>5, <1>6

\* One launch appended to every stream: what was queued finds what it found.
LEMMA AppendKeepsTable ==
  ASSUME MoverTypeOK, LaunchesNameOnce, DispatchesFindIssue, ReadsAsIssued, NEW o \in Launch,
         stream' = [c \in Card |-> Append(stream[c], o)], UNCHANGED <<reads, plcDev>>,
         o.op = "publish" => OneAddressEach(o.edits),
         o.op = "dispatch" =>
           \A c \in Card : Finds(stream[c], plcDev[c], o.e, Len(stream[c]) + 1, o.addr)
  PROVE  /\ LaunchesNameOnce' /\ DispatchesFindIssue' /\ ReadsAsIssued'
         /\ \A c \in Card : \A e, a :
              /\ Finds(stream[c], plcDev[c], e, Len(stream[c]) + 1, a) /\ ~Edits(o, e)
                   => Finds(stream'[c], plcDev'[c], e, Len(stream'[c]) + 1, a)
              /\ o.op = "publish" /\ [e |-> e, addr |-> a] \in o.edits
                   => Finds(stream'[c], plcDev'[c], e, Len(stream'[c]) + 1, a)
<1>1. \A c \in Card : /\ stream[c] \in Seq(Launch) /\ Len(stream[c]) \in Nat
                      /\ stream'[c] = Append(stream[c], o)
                      /\ Len(stream'[c]) = Len(stream[c]) + 1 /\ stream'[c] # <<>>
                      /\ \A i \in 1..Len(stream[c]) : stream'[c][i] = stream[c][i]
                      /\ stream'[c][Len(stream[c]) + 1] = o
  BY AppendProperties, LenProperties DEF MoverTypeOK
<1>2. \A c \in Card : \A i \in 1..Len(stream'[c]) :
        \/ i \in 1..Len(stream[c]) /\ stream'[c][i] = stream[c][i]
        \/ i = Len(stream[c]) + 1 /\ stream'[c][i] = o
  <2> TAKE c \in Card
  <2>1. Len(stream[c]) \in Nat /\ Len(stream'[c]) = Len(stream[c]) + 1 BY <1>1
  <2>2. \A i \in 1..Len(stream'[c]) : i \in 1..Len(stream[c]) \/ i = Len(stream[c]) + 1 BY <2>1
  <2> QED BY <1>1, <2>2
<1>3. LaunchesNameOnce' BY <1>2 DEF LaunchesNameOnce
<1>4. \A c \in Card : \A e, a : \A i \in 1..(Len(stream[c]) + 1) :
        Finds(stream[c], plcDev[c], e, i, a) => Finds(stream'[c], plcDev'[c], e, i, a)
  BY <1>1, FindsAppend
<1>5. DispatchesFindIssue'
  <2> SUFFICES ASSUME NEW c \in Card, NEW i \in 1..Len(stream'[c]), stream'[c][i].op = "dispatch"
               PROVE  Finds(stream'[c], plcDev'[c], stream'[c][i].e, i, stream'[c][i].addr)
    BY DEF DispatchesFindIssue
  <2>1. i \in 1..(Len(stream[c]) + 1) BY <1>1
  <2>2. CASE i \in 1..Len(stream[c]) /\ stream'[c][i] = stream[c][i]
    <3>1. Finds(stream[c], plcDev[c], stream[c][i].e, i, stream[c][i].addr)
      BY <2>2 DEF DispatchesFindIssue
    <3> QED BY <1>4, <2>1, <2>2, <3>1
  <2>3. CASE i = Len(stream[c]) + 1 /\ stream'[c][i] = o BY <1>4, <2>1, <2>3
  <2> QED BY <1>2, <2>2, <2>3
<1>6. ReadsAsIssued'
  <2> SUFFICES ASSUME NEW c \in Card, reads'[c] # None
               PROVE  stream'[c] # <<>> /\ stream'[c][1].op = "dispatch" /\ reads'[c] = stream'[c][1].addr
    BY DEF ReadsAsIssued
  <2>1. stream[c] # <<>> /\ stream[c][1].op = "dispatch" /\ reads[c] = stream[c][1].addr
    BY DEF ReadsAsIssued
  <2>2. 1 \in 1..Len(stream[c]) BY <2>1, HeadOfStream
  <2> QED BY <1>1, <2>1, <2>2
<1>7. \A c \in Card : Len(stream'[c]) + 1 = Len(stream[c]) + 2 BY <1>1
<1>8. ASSUME NEW c \in Card, NEW e, NEW a,
             Finds(stream[c], plcDev[c], e, Len(stream[c]) + 1, a), ~Edits(o, e)
      PROVE  Finds(stream'[c], plcDev'[c], e, Len(stream'[c]) + 1, a)
  BY <1>1, <1>7, <1>8, FindsPast
<1>9. ASSUME NEW c \in Card, NEW e, NEW a, o.op = "publish", [e |-> e, addr |-> a] \in o.edits
      PROVE  Finds(stream'[c], plcDev'[c], e, Len(stream'[c]) + 1, a)
  BY <1>1, <1>7, <1>9, FindsEdit
<1> QED BY <1>3, <1>5, <1>6, <1>8, <1>9

\* Nothing a card's table depends on changes.
LEMMA TableUntouched ==
  ASSUME TableInv, UNCHANGED <<slabOf, poolOf, patch, stream, reads, plcDev>>,
         pc' = "retire" \/ patch = {},
         \A r \in Record : moves'[r].state = "Copying" =>
           \/ patch = {}
           \/ moves[r].state = "Copying" /\ moves'[r].idx = moves[r].idx
  PROVE  TableInv'
<1>1. \A e \in Expert : Home(e)' = Home(e) BY HomeUnchanged
<1>2. PatchInTick' /\ OneAddressEach(patch)' BY DEF TableInv, PatchInTick, OneAddressEach
<1>3. PatchIsPublished' BY DEF TableInv, PatchIsPublished
<1>4. LaunchesNameOnce' /\ DispatchesFindIssue' /\ ReadsAsIssued'
  BY DEF TableInv, LaunchesNameOnce, DispatchesFindIssue, ReadsAsIssued
<1>5. TableCatchesUp' BY <1>1 DEF TableInv, TableCatchesUp
<1> QED BY <1>2, <1>3, <1>4, <1>5 DEF TableInv

\* The cards' tables start as the host's.
LEMMA TableInit == MoverInit => TableInv
<1> SUFFICES ASSUME MoverInit PROVE TableInv OBVIOUS
<1>1. patch = {} /\ pc = "dispatch" /\ \A c \in Card : stream[c] = <<>> /\ Len(stream[c]) = 0
  BY DEF MoverInit
<1>2. \A c \in Card, e \in Expert : plcDev[c][e] = Home(e) BY DEF MoverInit
<1>3. TableCatchesUp BY <1>1, <1>2 DEF TableCatchesUp, Finds
<1>4. ReadsAsIssued BY DEF MoverInit, ReadsAsIssued
<1> QED BY <1>1, <1>3, <1>4 DEF TableInv, PatchInTick, OneAddressEach, PatchIsPublished,
         LaunchesNameOnce, DispatchesFindIssue

\* A dispatch is appended with the address the card will find when it comes to it.
LEMMA DispatchKeepsTable ==
  ASSUME LedgerTypeOK, MoverTypeOK, TableInv, NEW e \in Expert, Dispatch(e)
  PROVE  TableInv'
<1> DEFINE o == DispatchOp(e)
<1>1. o \in Launch /\ o.op = "dispatch" /\ o.e = e /\ o.addr = Home(e)
  BY DispatchType DEF Dispatch, DispatchOp
<1>2. /\ stream' = [c \in Card |-> Append(stream[c], o)] /\ UNCHANGED <<reads, plcDev, patch>>
      /\ UNCHANGED ledgerVars /\ patch = {}
  BY DEF Dispatch, TableInv, PatchInTick
<1>3. \A c \in Card, x \in Expert : Finds(stream[c], plcDev[c], x, Len(stream[c]) + 1, Home(x))
  BY <1>2 DEF TableInv, TableCatchesUp
<1>4. \A x : ~Edits(o, x) BY <1>1 DEF Edits
<1> HIDE DEF o
<1>5. /\ LaunchesNameOnce' /\ DispatchesFindIssue' /\ ReadsAsIssued'
      /\ \A c \in Card : \A x, a : Finds(stream[c], plcDev[c], x, Len(stream[c]) + 1, a)
                          => Finds(stream'[c], plcDev'[c], x, Len(stream'[c]) + 1, a)
  BY <1>1, <1>2, <1>3, <1>4, AppendKeepsTable DEF TableInv
<1>6. \A x \in Expert : Home(x)' = Home(x) BY <1>2, HomeUnchanged DEF ledgerVars
<1>7. TableCatchesUp'
  <2>1. \A c \in Card, x \in Expert :
          Finds(stream'[c], plcDev'[c], x, Len(stream'[c]) + 1, Home(x))
    BY <1>3, <1>5
  <2> QED BY <1>2, <1>6, <2>1 DEF TableCatchesUp
<1> QED BY <1>2, <1>5, <1>7 DEF TableInv, PatchInTick, OneAddressEach, PatchIsPublished

\* A patch sent down every stream: the cards will find what it says.
LEMMA FlushKeepsTable ==
  ASSUME MoverTypeOK, TableInv, stream' = Flushed, UNCHANGED <<reads, plcDev>>
  PROVE  /\ LaunchesNameOnce' /\ DispatchesFindIssue' /\ ReadsAsIssued'
         /\ \A c \in Card, e \in Expert :
              Finds(stream'[c], plcDev'[c], e, Len(stream'[c]) + 1, Home(e))
<1> DEFINE o == PublishOp(patch)
<1>1. o \in Launch BY PublishType DEF MoverTypeOK
<1>2. o.op = "publish" /\ o.edits = patch BY DEF PublishOp
<1>3. stream' = [c \in Card |-> Append(stream[c], o)] BY DEF Flushed
<1> HIDE DEF o
<1>4. /\ LaunchesNameOnce' /\ DispatchesFindIssue' /\ ReadsAsIssued'
      /\ \A c \in Card : \A e, a :
           /\ Finds(stream[c], plcDev[c], e, Len(stream[c]) + 1, a) /\ ~Edits(o, e)
                => Finds(stream'[c], plcDev'[c], e, Len(stream'[c]) + 1, a)
           /\ o.op = "publish" /\ [e |-> e, addr |-> a] \in o.edits
                => Finds(stream'[c], plcDev'[c], e, Len(stream'[c]) + 1, a)
  BY <1>1, <1>2, <1>3, AppendKeepsTable DEF TableInv
<1>5. ASSUME NEW c \in Card, NEW e \in Expert
      PROVE  Finds(stream'[c], plcDev'[c], e, Len(stream'[c]) + 1, Home(e))
  <2>1. CASE \E d \in patch : d.e = e
    <3>1. [e |-> e, addr |-> Home(e)] \in o.edits BY <1>2, <2>1 DEF TableInv, TableCatchesUp
    <3> QED BY <1>2, <1>4, <3>1
  <2>2. CASE ~\E d \in patch : d.e = e
    <3>1. Finds(stream[c], plcDev[c], e, Len(stream[c]) + 1, Home(e))
      BY <2>2 DEF TableInv, TableCatchesUp
    <3>2. ~Edits(o, e) BY <1>2, <2>2 DEF Edits
    <3> QED BY <1>4, <3>1, <3>2
  <2> QED BY <2>1, <2>2
<1> QED BY <1>4, <1>5

\* A publish puts its edit in the patch, and a full patch in the streams first.
LEMMA RetirePublishKeepsTable ==
  ASSUME LedgerInv, MoverTypeOK, TableInv, NEW r \in Record, RetirePublish(r)
  PROVE  TableInv'
<1> DEFINE x == moves[r].idx
           d == [e |-> x, addr |-> NewHome(r)]
<1>0. LedgerTypeOK BY DEF LedgerInv
<1>1. moves[r].state = "Copying" /\ Publish(r) /\ pc = "retire" /\ pc' = pc /\ UNCHANGED <<reads, plcDev>>
  BY DEF RetirePublish
<1>2. x \in Expert /\ d \in Edit /\ d.e = x /\ d.addr = NewHome(r) BY <1>0, <1>1, NewHomeType
<1>3. \A e \in Expert : Home(e)' = IF e = x THEN NewHome(r) ELSE Home(e)
  BY <1>0, <1>1, PublishHome
<1>4. \A q \in Record : moves'[q].state = "Copying" =>
        moves[q].state = "Copying" /\ moves'[q].idx = moves[q].idx /\ moves[q].idx # x
  <2>1. moves' = [moves EXCEPT ![r].state = "Published"] BY <1>1 DEF Publish
  <2>2. \A q \in Record : q # r => moves'[q] = moves[q] BY <1>0, <2>1 DEF LedgerTypeOK
  <2>3. moves'[r].state = "Published" BY <1>0, <2>1 DEF LedgerTypeOK
  <2>4. \A q \in Record : moves[q].state = "Copying" /\ moves[q].idx = x => q = r
    BY <1>1 DEF LedgerInv, CopyAgreesWithOwner
  <2> QED BY <2>2, <2>3, <2>4
<1>5. \A b \in patch : b.e # x BY <1>1 DEF TableInv, PatchIsPublished
<1>6. PatchInTick' BY <1>1 DEF PatchInTick
<1> HIDE DEF x, d
<1>7. CASE Cardinality(patch) = PatchMax
  <2>1. stream' = Flushed /\ patch' = {d} BY <1>7 DEF RetirePublish, d, x
  <2>2. /\ LaunchesNameOnce' /\ DispatchesFindIssue' /\ ReadsAsIssued'
        /\ \A c \in Card, e \in Expert :
             Finds(stream'[c], plcDev'[c], e, Len(stream'[c]) + 1, Home(e))
    BY <1>1, <2>1, FlushKeepsTable
  <2>3. OneAddressEach(patch)' BY <2>1 DEF OneAddressEach
  <2>4. PatchIsPublished' BY <1>2, <1>4, <2>1 DEF PatchIsPublished
  <2>5. TableCatchesUp'
    <3> SUFFICES ASSUME NEW c \in Card, NEW e \in Expert
                 PROVE  IF \E b \in patch' : b.e = e THEN [e |-> e, addr |-> Home(e)'] \in patch'
                        ELSE Finds(stream'[c], plcDev'[c], e, Len(stream'[c]) + 1, Home(e)')
      BY DEF TableCatchesUp
    <3>1. CASE e = x
      <4>1. [e |-> e, addr |-> Home(e)'] = d BY <1>3, <3>1 DEF d
      <4> QED BY <1>2, <2>1, <3>1, <4>1
    <3>2. CASE e # x BY <1>2, <1>3, <2>1, <2>2, <3>2
    <3> QED BY <3>1, <3>2
  <2> QED BY <1>6, <2>2, <2>3, <2>4, <2>5 DEF TableInv
<1>8. CASE Cardinality(patch) # PatchMax
  <2>1. stream' = stream /\ patch' = patch \cup {d} BY <1>8 DEF RetirePublish, d, x
  <2>2. LaunchesNameOnce' /\ DispatchesFindIssue' /\ ReadsAsIssued'
    BY <1>1, <2>1 DEF TableInv, LaunchesNameOnce, DispatchesFindIssue, ReadsAsIssued
  <2>3. OneAddressEach(patch)'
    <3>1. OneAddressEach(patch) BY DEF TableInv
    <3> QED BY <1>2, <1>5, <2>1, <3>1 DEF OneAddressEach
  <2>4. PatchIsPublished'
    <3>1. PatchIsPublished BY DEF TableInv
    <3> QED BY <1>2, <1>4, <2>1, <3>1 DEF PatchIsPublished
  <2>5. TableCatchesUp'
    <3> SUFFICES ASSUME NEW c \in Card, NEW e \in Expert
                 PROVE  IF \E b \in patch' : b.e = e THEN [e |-> e, addr |-> Home(e)'] \in patch'
                        ELSE Finds(stream'[c], plcDev'[c], e, Len(stream'[c]) + 1, Home(e)')
      BY DEF TableCatchesUp
    <3>1. CASE e = x
      <4>1. [e |-> e, addr |-> Home(e)'] = d BY <1>3, <3>1 DEF d
      <4> QED BY <1>2, <2>1, <3>1, <4>1
    <3>2. CASE e # x
      <4>1. Home(e)' = Home(e) /\ ((\E b \in patch' : b.e = e) <=> \E b \in patch : b.e = e)
        BY <1>2, <1>3, <2>1, <3>2
      <4>2. IF \E b \in patch : b.e = e THEN [e |-> e, addr |-> Home(e)] \in patch
            ELSE Finds(stream[c], plcDev[c], e, Len(stream[c]) + 1, Home(e))
        BY DEF TableInv, TableCatchesUp
      <4> QED BY <1>1, <2>1, <4>1, <4>2
    <3> QED BY <3>1, <3>2
  <2> QED BY <1>6, <2>2, <2>3, <2>4, <2>5 DEF TableInv
<1> QED BY <1>7, <1>8

\* The tick's last flush empties the patch into the streams.
LEMMA RetireEndKeepsTable ==
  ASSUME LedgerTypeOK, MoverTypeOK, TableInv, RetireEnd
  PROVE  TableInv'
<1>1. /\ patch' = {} /\ UNCHANGED <<reads, plcDev, slabOf, poolOf>>
      /\ stream' = IF patch = {} THEN stream ELSE Flushed
  BY DEF RetireEnd, Seal
<1>2. \A e \in Expert : Home(e)' = Home(e) BY <1>1, HomeUnchanged
<1>3. PatchInTick' /\ OneAddressEach(patch)' /\ PatchIsPublished'
  BY <1>1 DEF PatchInTick, OneAddressEach, PatchIsPublished
<1>4. /\ LaunchesNameOnce' /\ DispatchesFindIssue' /\ ReadsAsIssued'
      /\ \A c \in Card, e \in Expert :
           Finds(stream'[c], plcDev'[c], e, Len(stream'[c]) + 1, Home(e))
  <2>1. CASE patch = {}
    <3>1. stream' = stream BY <1>1, <2>1
    <3> QED BY <1>1, <2>1, <3>1 DEF TableInv, LaunchesNameOnce, DispatchesFindIssue,
               ReadsAsIssued, TableCatchesUp
  <2>2. CASE patch # {} BY <1>1, <2>2, FlushKeepsTable
  <2> QED BY <2>1, <2>2
<1>5. TableCatchesUp' BY <1>1, <1>2, <1>4 DEF TableCatchesUp
<1> QED BY <1>3, <1>4, <1>5 DEF TableInv

\* Every host step keeps the tables' invariant.
LEMMA HostKeepsTable ==
  ASSUME LedgerInv, MoverTypeOK, TableInv, HostNext
  PROVE  TableInv'
<1>0. LedgerTypeOK BY DEF LedgerInv
<1>1. ASSUME NEW e \in Expert, Dispatch(e) PROVE TableInv' BY <1>0, <1>1, DispatchKeepsTable
<1>2. ASSUME NEW r \in Record, RetirePublish(r) PROVE TableInv' BY <1>2, RetirePublishKeepsTable
<1>3. ASSUME NEW r \in Record, RetireReclaim(r) PROVE TableInv'
  <2>1. /\ pc' = "retire" /\ UNCHANGED <<slabOf, poolOf, patch, stream, reads, plcDev>>
        /\ moves' = [moves EXCEPT ![r] = FreeMove]
    BY <1>3 DEF RetireReclaim, Reclaim, cardVars
  <2>2. \A q \in Record : moves'[q].state = "Copying" => moves'[q] = moves[q]
    BY <1>0, <2>1 DEF LedgerTypeOK, FreeMove
  <2> QED BY <2>1, <2>2, TableUntouched
<1>4. ASSUME NEW r \in Record, RetireSkip(r) PROVE TableInv'
  BY <1>4, TableUntouched DEF RetireSkip, ledgerVars, cardVars
<1>5. CASE RetireEnd BY <1>0, <1>5, RetireEndKeepsTable
<1>6. ASSUME NEW r \in Record, NEW e \in Expert, NEW s \in SlabSlot, Promote(r, e, s)
      PROVE  TableInv'
  <2>1. pc = "pick" /\ UNCHANGED <<slabOf, poolOf, patch, stream, reads, plcDev>>
    BY <1>6 DEF Promote, PromoteIssue, CopyIssued
  <2>2. patch = {} BY <2>1 DEF TableInv, PatchInTick
  <2> QED BY <2>1, <2>2, TableUntouched
<1>7. ASSUME NEW r \in Record, NEW e \in Expert, NEW p \in PoolSlot, Demote(r, e, p)
      PROVE  TableInv'
  <2>1. pc = "demote" /\ UNCHANGED <<slabOf, poolOf, patch, stream, reads, plcDev>>
    BY <1>7 DEF Demote, DemoteIssue, CopyIssued
  <2>2. patch = {} BY <2>1 DEF TableInv, PatchInTick
  <2> QED BY <2>1, <2>2, TableUntouched
<1>8. CASE NoSlabSlot \/ NoPoolSlot \/ TickEnd
  <2>1. pc \in {"pick", "demote"} /\ UNCHANGED <<slabOf, poolOf, patch, stream, reads, plcDev>>
    BY <1>8 DEF NoSlabSlot, NoPoolSlot, TickEnd, ledgerVars, cardVars
  <2>2. patch = {} BY <2>1 DEF TableInv, PatchInTick
  <2> QED BY <2>1, <2>2, TableUntouched
<1> QED BY <1>1, <1>2, <1>3, <1>4, <1>5, <1>6, <1>7, <1>8 DEF HostNext

\* The head launch of a card retires, and the card's table says what it published.
LEMMA RetiredKeepsTable ==
  ASSUME MoverTypeOK, TableInv, NEW c \in Card, stream[c] # <<>>, Retired(c),
         UNCHANGED ledgerVars, \A d \in Card : d # c => reads'[d] = reads[d] /\ plcDev'[d] = plcDev[d],
         reads'[c] = None,
         \A e \in Expert : ~Edits(stream[c][1], e) => plcDev'[c][e] = plcDev[c][e],
         \A e \in Expert : \A b : stream[c][1].op = "publish" /\ [e |-> e, addr |-> b] \in stream[c][1].edits
                                => plcDev'[c][e] = b
  PROVE  TableInv'
<1>1. /\ UNCHANGED <<pc, patch, moves>> /\ stream' = [stream EXCEPT ![c] = Tail(stream[c])]
      /\ \A e \in Expert : Home(e)' = Home(e)
  BY HomeUnchanged DEF Retired, hostVars, ledgerVars
<1>2. /\ stream'[c] = Tail(stream[c]) /\ \A d \in Card : d # c => stream'[d] = stream[d]
      /\ stream[c] \in Seq(Launch)
  BY <1>1 DEF MoverTypeOK
<1>3. /\ Len(stream[c]) \in Nat \ {0} /\ Len(stream'[c]) = Len(stream[c]) - 1
      /\ \A i \in 1..Len(stream'[c]) : stream'[c][i] = stream[c][i + 1]
  BY <1>2, HeadOfStream
<1>4. \A i \in 1..Len(stream'[c]) : i + 1 \in 1..Len(stream[c]) /\ i \in 1..Len(stream[c]) BY <1>3
<1>5. ASSUME NEW e \in Expert, NEW a, NEW i \in 1..Len(stream[c]),
             Finds(stream[c], plcDev[c], e, i + 1, a)
      PROVE  Finds(stream'[c], plcDev'[c], e, i, a)
  BY <1>2, <1>5, FindsTail
<1>6. PatchInTick' /\ OneAddressEach(patch)' /\ PatchIsPublished'
  BY <1>1 DEF TableInv, PatchInTick, OneAddressEach, PatchIsPublished
<1>7. LaunchesNameOnce'
  <2> SUFFICES ASSUME NEW d \in Card, NEW i \in 1..Len(stream'[d]), stream'[d][i].op = "publish"
               PROVE  OneAddressEach(stream'[d][i].edits)
    BY DEF LaunchesNameOnce, OneAddressEach
  <2>1. CASE d # c BY <1>2, <2>1 DEF TableInv, LaunchesNameOnce
  <2>2. CASE d = c BY <1>3, <1>4, <2>2 DEF TableInv, LaunchesNameOnce
  <2> QED BY <2>1, <2>2
<1>8. DispatchesFindIssue'
  <2> SUFFICES ASSUME NEW d \in Card, NEW i \in 1..Len(stream'[d]), stream'[d][i].op = "dispatch"
               PROVE  Finds(stream'[d], plcDev'[d], stream'[d][i].e, i, stream'[d][i].addr)
    BY DEF DispatchesFindIssue
  <2>1. CASE d # c BY <1>2, <2>1 DEF TableInv, DispatchesFindIssue
  <2>2. CASE d = c
    <3>1. i + 1 \in 1..Len(stream[c]) /\ i \in 1..Len(stream[c]) /\ stream'[c][i] = stream[c][i + 1]
      BY <1>3, <1>4, <2>2
    <3>2. Finds(stream[c], plcDev[c], stream[c][i + 1].e, i + 1, stream[c][i + 1].addr)
      BY <2>2, <3>1 DEF TableInv, DispatchesFindIssue
    <3>3. stream[c][i + 1].e \in Expert
      <4>1. stream[c][i + 1] \in Launch BY <1>2, <3>1, ElementOfSeq
      <4> QED BY <2>2, <3>1, <4>1 DEF Launch
    <3> QED BY <1>5, <2>2, <3>1, <3>2, <3>3
  <2> QED BY <2>1, <2>2
<1>9. TableCatchesUp'
  <2> SUFFICES ASSUME NEW d \in Card, NEW e \in Expert
               PROVE  IF \E b \in patch : b.e = e THEN [e |-> e, addr |-> Home(e)] \in patch
                      ELSE Finds(stream'[d], plcDev'[d], e, Len(stream'[d]) + 1, Home(e))
    BY <1>1 DEF TableCatchesUp
  <2>0. IF \E b \in patch : b.e = e THEN [e |-> e, addr |-> Home(e)] \in patch
        ELSE Finds(stream[d], plcDev[d], e, Len(stream[d]) + 1, Home(e))
    BY DEF TableInv, TableCatchesUp
  <2>1. CASE d # c BY <1>2, <2>0, <2>1
  <2>2. CASE d = c
    <3>1. Len(stream'[c]) + 1 = Len(stream[c]) /\ Len(stream[c]) \in 1..Len(stream[c]) BY <1>3
    <3> QED BY <1>5, <2>0, <2>2, <3>1
  <2> QED BY <2>1, <2>2
<1>10. ReadsAsIssued'
  <2>1. \A d \in Card : d # c => stream'[d] = stream[d] /\ reads'[d] = reads[d] BY <1>2
  <2> QED BY <2>1 DEF TableInv, ReadsAsIssued
<1> QED BY <1>6, <1>7, <1>8, <1>9, <1>10 DEF TableInv

\* Every card step keeps the tables' invariant.
LEMMA CardKeepsTable ==
  ASSUME LedgerTypeOK, MoverTypeOK, TableInv, NEW c \in Card, ComputeNext(c) \/ MoverNext(c)
  PROVE  TableInv'
<1>0. UNCHANGED ledgerVars BY CardsLeaveLedger
<1>1. CASE StartDispatch(c)
  <2> DEFINE o == stream[c][1]
  <2>1. /\ stream[c] # <<>> /\ o.op = "dispatch" /\ 1 \in 1..Len(stream[c])
        /\ reads' = [reads EXCEPT ![c] = IF o.e \in HostBuilt THEN o.addr ELSE plcDev[c][o.e]]
        /\ UNCHANGED <<pc, patch, stream, plcDev>>
    BY <1>1, HeadOfStream DEF StartDispatch, hostVars
  <2>2. Finds(stream[c], plcDev[c], o.e, 1, o.addr) BY <2>1 DEF TableInv, DispatchesFindIssue
  <2>3. 1..(1 - 1) = {} OBVIOUS
  <2>4. plcDev[c][o.e] = o.addr BY <2>2, <2>3 DEF Finds
  <2>5. ReadsAsIssued'
    <3>1. \A d \in Card : reads'[d] = IF d = c THEN o.addr ELSE reads[d] BY <2>1, <2>4 DEF MoverTypeOK
    <3> QED BY <2>1, <3>1 DEF TableInv, ReadsAsIssued
  <2>6. \A e \in Expert : Home(e)' = Home(e) BY <1>0, HomeUnchanged DEF ledgerVars
  <2>7. moves' = moves BY <1>0 DEF ledgerVars
  <2> HIDE DEF o
  <2>8. TableCatchesUp' BY <2>1, <2>6 DEF TableInv, TableCatchesUp
  <2> QED BY <2>1, <2>5, <2>7, <2>8 DEF TableInv, PatchInTick, OneAddressEach, PatchIsPublished,
             LaunchesNameOnce, DispatchesFindIssue
<1>2. CASE FinishDispatch(c)
  <2>1. stream[c] # <<>> /\ stream[c][1].op = "dispatch"
    BY <1>2 DEF FinishDispatch, TableInv, ReadsAsIssued
  <2>2. /\ Retired(c) /\ plcDev' = plcDev /\ reads'[c] = None
        /\ \A d \in Card : d # c => reads'[d] = reads[d]
    BY <1>2 DEF FinishDispatch, MoverTypeOK
  <2> QED BY <1>0, <2>1, <2>2, RetiredKeepsTable DEF Edits
<1>3. CASE ApplyPublish(c)
  <2> DEFINE o == stream[c][1]
  <2>1. /\ stream[c] # <<>> /\ o = Head(stream[c]) /\ o \in Launch /\ 1 \in 1..Len(stream[c])
        /\ o.op = "publish" /\ Retired(c) /\ reads' = reads
    BY <1>3, HeadOfStream DEF ApplyPublish
  <2>2. reads[c] = None BY <2>1 DEF TableInv, ReadsAsIssued
  <2>3. plcDev' = [plcDev EXCEPT ![c] = Patched(plcDev[c], o)]
    BY <1>3, <2>1 DEF ApplyPublish, Patched
  <2>4. plcDev'[c] = Patched(plcDev[c], o) /\ \A d \in Card : d # c => plcDev'[d] = plcDev[d]
    BY <2>3 DEF MoverTypeOK
  <2>5. OneAddressEach(o.edits) BY <2>1 DEF TableInv, LaunchesNameOnce
  <2> HIDE DEF o
  <2>6. \A e \in Expert : ~Edits(o, e) => plcDev'[c][e] = plcDev[c][e]
    BY <2>1, <2>4 DEF Patched, Edits
  <2>7. ASSUME NEW e \in Expert, NEW b, [e |-> e, addr |-> b] \in o.edits
        PROVE  plcDev'[c][e] = b
    <3> DEFINE d == CHOOSE d \in o.edits : d.e = e
    <3>1. d \in o.edits /\ d.e = e BY <2>7
    <3>2. d = [e |-> e, addr |-> b] BY <2>5, <2>7, <3>1 DEF OneAddressEach
    <3>3. plcDev'[c][e] = d.addr BY <2>4, <2>7 DEF Patched
    <3> HIDE DEF d
    <3>4. d.addr = b BY <3>2
    <3> QED BY <3>3, <3>4
  <2> QED BY <1>0, <2>1, <2>2, <2>4, <2>6, <2>7, RetiredKeepsTable DEF o
<1>4. CASE MoverNext(c)
  <2>1. UNCHANGED <<pc, patch, stream, reads, plcDev>>
    BY <1>4 DEF MoverNext, StartCopy, FinishCopy, hostVars
  <2>2. \A e \in Expert : Home(e)' = Home(e) BY <1>0, HomeUnchanged DEF ledgerVars
  <2>3. TableCatchesUp' BY <2>1, <2>2 DEF TableInv, TableCatchesUp
  <2> QED BY <1>0, <2>1, <2>3 DEF TableInv, PatchInTick, OneAddressEach, PatchIsPublished,
             LaunchesNameOnce, DispatchesFindIssue, ReadsAsIssued, ledgerVars
<1> QED BY <1>1, <1>2, <1>3, <1>4 DEF ComputeNext

-----------------------------------------------------------------------------
(* The bytes.                                                              *)

\* A dispatch queued behind a copy's gate does not read the copy's destination.
GatesHold ==
  \A c \in Card : \A i \in 1..Len(mover[c]), j \in 1..Len(stream[c]) :
    stream[c][j].op = "dispatch" /\ j > mover[c][i].gate
      => stream[c][j].addr # NewHome(mover[c][i].rec)

\* A copy whose event has signalled on a card has filled its destination there.
LandedWhole ==
  \A c \in Card, r \in Record :
    moves[r].state = "Copying" /\ left[r][c] = 0 => Content(c, NewHome(r)) = moves[r].idx

HomesWhole ==
  \A c \in Card, e \in Expert :
    /\ slabOf[e] # None => slabC[c][slabOf[e]] = e
    /\ poolOf[e] # None => poolC[c][poolOf[e]] = e

\* The address a queued dispatch was issued with still holds its expert.
QueuedWhole ==
  \A c \in Card : \A j \in 1..Len(stream[c]) :
    stream[c][j].op = "dispatch" => Content(c, stream[c][j].addr) = stream[c][j].e

ByteInv ==
  CopiesInFlight /\ RunningIsHead /\ GatesHold /\ LandedWhole /\ HomesWhole /\ QueuedWhole

\* No expert lives where a copy goes, and no two copies go to one place.
LEMMA NewHomeIsNobodys ==
  ASSUME LedgerInv, NEW r \in Record, moves[r].state = "Copying"
  PROVE  /\ \A e \in Expert : Home(e) # None => Home(e) # NewHome(r)
         /\ \A e \in Expert : slabOf[e] # None => <<"slab", slabOf[e]>> # NewHome(r)
         /\ \A e \in Expert : poolOf[e] # None => <<"pool", poolOf[e]>> # NewHome(r)
         /\ \A q \in Record : moves[q].state = "Copying" /\ q # r => NewHome(q) # NewHome(r)
<1> USE NoneAssumption
<1>1. /\ LedgerTypeOK /\ moves[r].slab \in SlabSlot /\ moves[r].pool \in PoolSlot
      /\ \A q \in Record : moves[q].promote \in BOOLEAN
  BY DEF LedgerInv, LedgerTypeOK
<1>2. CASE moves[r].promote
  <2>1. HoldsSlab(r) /\ NewHome(r) = <<"slab", moves[r].slab>> BY <1>2 DEF HoldsSlab, NewHome
  <2>2. \A e \in Expert : slabOf[e] # moves[r].slab BY <2>1 DEF LedgerInv, SlabSlotHasOneOwner
  <2>3. \A q \in Record : HoldsSlab(q) /\ moves[q].slab = moves[r].slab => q = r
    BY <2>1 DEF LedgerInv, SlabSlotHasOneOwner
  <2>4. \A q \in Record : moves[q].state = "Copying" /\ q # r => NewHome(q) # NewHome(r)
    BY <2>1, <2>3 DEF HoldsSlab, NewHome
  <2>5. \A e \in Expert : Home(e) # None => Home(e) # NewHome(r)
    BY <1>1, <2>1, <2>2 DEF Home, LedgerTypeOK
  <2> QED BY <2>1, <2>2, <2>4, <2>5
<1>3. CASE ~moves[r].promote
  <2>1. HoldsPool(r) /\ NewHome(r) = <<"pool", moves[r].pool>> BY <1>3 DEF HoldsPool, NewHome
  <2>2. \A e \in Expert : poolOf[e] # moves[r].pool BY <2>1 DEF LedgerInv, PoolSlotHasOneOwner
  <2>3. \A q \in Record : HoldsPool(q) /\ moves[q].pool = moves[r].pool => q = r
    BY <2>1 DEF LedgerInv, PoolSlotHasOneOwner
  <2>4. \A q \in Record : moves[q].state = "Copying" /\ q # r => NewHome(q) # NewHome(r)
    BY <2>1, <2>3 DEF HoldsPool, NewHome
  <2>5. \A e \in Expert : Home(e) # None => Home(e) # NewHome(r)
    BY <1>1, <2>1, <2>2 DEF Home, LedgerTypeOK
  <2> QED BY <2>1, <2>2, <2>4, <2>5
<1> QED BY <1>2, <1>3

\* A copy in a mover stream names a record and counts launches.
LEMMA RecordsOfCopies ==
  ASSUME MoverTypeOK, NEW c \in Card, NEW i \in 1..Len(mover[c])
  PROVE  mover[c][i].rec \in Record /\ mover[c][i].gate \in Nat
<1>1. mover[c][i] \in Copy BY ElementOfSeq DEF MoverTypeOK
<1> QED BY <1>1 DEF Copy

\* A dispatch in a stream names an expert and an address.
LEMMA DispatchesTyped ==
  ASSUME MoverTypeOK, NEW c \in Card, NEW j \in 1..Len(stream[c]), stream[c][j].op = "dispatch"
  PROVE  stream[c][j].e \in Expert /\ stream[c][j].addr \in Addr
<1>1. stream[c][j] \in Launch BY ElementOfSeq DEF MoverTypeOK
<1> QED BY <1>1 DEF Launch

\* At the start every slot holds its owner's bytes and nothing is copied.
LEMMA ByteInit == MoverInit => ByteInv
<1> SUFFICES ASSUME MoverInit PROVE ByteInv OBVIOUS
<1>1. \A c \in Card : mover[c] = <<>> /\ Len(mover[c]) = 0 /\ Len(stream[c]) = 0 /\ ~copying[c]
  BY DEF MoverInit
<1>2. \A r \in Record : moves[r].state = "Free" BY DEF MoverInit, LedgerInit, FreeMove
<1>3. CopiesInFlight /\ RunningIsHead /\ GatesHold /\ LandedWhole /\ QueuedWhole
  BY <1>1, <1>2 DEF CopiesInFlight, RunningIsHead, GatesHold, LandedWhole, QueuedWhole
<1>4. HomesWhole
  <2> SUFFICES ASSUME NEW c \in Card, NEW e \in Expert
               PROVE  /\ slabOf[e] # None => slabC[c][slabOf[e]] = e
                      /\ poolOf[e] # None => poolC[c][poolOf[e]] = e
    BY DEF HomesWhole
  <2>1. Injective(slabOf) /\ slabOf \in [Expert -> SlabSlot \cup {None}]
    BY DEF MoverInit, LedgerInit
  <2>2. Injective(poolOf) /\ poolOf \in [Expert -> PoolSlot \cup {None}]
    BY DEF MoverInit, LedgerInit
  <2>3. CASE slabOf[e] # None
    <3>1. \A x \in Expert : slabOf[x] = slabOf[e] => x = e BY <2>1, <2>3 DEF Injective, Bound
    <3>2. OwnerOf(slabOf, slabOf[e]) = e BY <3>1 DEF OwnerOf
    <3>3. slabOf[e] \in SlabSlot BY <2>1, <2>3
    <3>4. slabC = [d \in Card |-> [s \in SlabSlot |-> OwnerOf(slabOf, s)]] BY DEF MoverInit
    <3>5. slabC[c][slabOf[e]] = OwnerOf(slabOf, slabOf[e]) BY <3>3, <3>4
    <3>6. poolOf[e] = None BY <2>3 DEF MoverInit, LedgerInit, Bound
    <3> QED BY <3>2, <3>5, <3>6
  <2>4. CASE poolOf[e] # None
    <3>1. \A x \in Expert : poolOf[x] = poolOf[e] => x = e BY <2>2, <2>4 DEF Injective, Bound
    <3>2. OwnerOf(poolOf, poolOf[e]) = e BY <3>1 DEF OwnerOf
    <3>3. poolOf[e] \in PoolSlot BY <2>2, <2>4
    <3>4. poolC = [d \in Card |-> [p \in PoolSlot |-> OwnerOf(poolOf, p)]] BY DEF MoverInit
    <3>5. poolC[c][poolOf[e]] = OwnerOf(poolOf, poolOf[e]) BY <3>3, <3>4
    <3>6. slabOf[e] = None BY <2>4 DEF MoverInit, LedgerInit, Bound
    <3> QED BY <3>2, <3>5, <3>6
  <2> QED BY <2>3, <2>4
<1> QED BY <1>3, <1>4 DEF ByteInv

\* Host steps that leave the copies alone, and the records they belong to.
LEMMA CopiesUntouched ==
  ASSUME MoverTypeOK, ByteInv, UNCHANGED <<mover, copying, slabC, poolC>>,
         \A q \in Record : moves[q].state = "Copying" /\ (\E c \in Card : left[q][c] # 0)
                             => moves'[q] = moves[q] /\ left'[q] = left[q],
         \A q \in Record : moves'[q].state = "Copying" => moves'[q] = moves[q] /\ left'[q] = left[q]
  PROVE  /\ CopiesInFlight' /\ RunningIsHead' /\ LandedWhole'
         /\ \A c \in Card : \A i \in 1..Len(mover[c]) :
              NewHome(mover[c][i].rec)' = NewHome(mover[c][i].rec)
<1>1. \A c \in Card : \A i \in 1..Len(mover[c]) :
        mover[c][i].rec \in Record /\ moves'[mover[c][i].rec] = moves[mover[c][i].rec]
          /\ left'[mover[c][i].rec] = left[mover[c][i].rec]
  BY RecordsOfCopies DEF ByteInv, CopiesInFlight
<1>2. CopiesInFlight' BY <1>1 DEF ByteInv, CopiesInFlight
<1>3. RunningIsHead' BY DEF ByteInv, RunningIsHead
<1>4. LandedWhole' BY DEF ByteInv, LandedWhole, Content, NewHome
<1>5. \A c \in Card : \A i \in 1..Len(mover[c]) :
              NewHome(mover[c][i].rec)' = NewHome(mover[c][i].rec)
  BY <1>1 DEF NewHome
<1> QED BY <1>2, <1>3, <1>4, <1>5

\* What is appended to the streams is no dispatch, or one that reads its expert's home.
LEMMA AppendKeepsBytes ==
  ASSUME LedgerInv, MoverTypeOK, ByteInv, NEW o \in Launch,
         stream' = [c \in Card |-> Append(stream[c], o)], UNCHANGED <<mover, slabC, poolC>>,
         o.op = "dispatch" => o.e \in Expert /\ o.addr = Home(o.e) /\ Home(o.e) # None,
         \A c \in Card : \A i \in 1..Len(mover[c]) :
           NewHome(mover[c][i].rec)' = NewHome(mover[c][i].rec)
  PROVE  GatesHold' /\ QueuedWhole'
<1>1. \A c \in Card : /\ Len(stream[c]) \in Nat /\ Len(stream'[c]) = Len(stream[c]) + 1
                      /\ \A j \in 1..Len(stream[c]) : stream'[c][j] = stream[c][j]
                      /\ stream'[c][Len(stream[c]) + 1] = o
  BY AppendProperties, LenProperties DEF MoverTypeOK
<1>2. \A c \in Card : \A j \in 1..Len(stream'[c]) :
        \/ j \in 1..Len(stream[c]) /\ stream'[c][j] = stream[c][j]
        \/ stream'[c][j] = o
  <2> TAKE c \in Card
  <2>1. \A j \in 1..Len(stream'[c]) : j \in 1..Len(stream[c]) \/ j = Len(stream[c]) + 1 BY <1>1
  <2> QED BY <1>1, <2>1
<1>3. GatesHold'
  <2> SUFFICES ASSUME NEW c \in Card, NEW i \in 1..Len(mover[c]), NEW j \in 1..Len(stream'[c]),
                      stream'[c][j].op = "dispatch", j > mover[c][i].gate
               PROVE  stream'[c][j].addr # NewHome(mover[c][i].rec)
    BY DEF GatesHold
  <2>1. CASE j \in 1..Len(stream[c]) /\ stream'[c][j] = stream[c][j]
    BY <2>1 DEF ByteInv, GatesHold
  <2>2. CASE stream'[c][j] = o
    <3>1. mover[c][i].rec \in Record /\ moves[mover[c][i].rec].state = "Copying"
      BY RecordsOfCopies DEF ByteInv, CopiesInFlight
    <3> QED BY <2>2, <3>1, NewHomeIsNobodys
  <2> QED BY <1>2, <2>1, <2>2
<1>4. QueuedWhole'
  <2> SUFFICES ASSUME NEW c \in Card, NEW j \in 1..Len(stream'[c]), stream'[c][j].op = "dispatch"
               PROVE  Content(c, stream'[c][j].addr) = stream'[c][j].e
    BY DEF QueuedWhole, Content
  <2>1. CASE j \in 1..Len(stream[c]) /\ stream'[c][j] = stream[c][j]
    BY <2>1 DEF ByteInv, QueuedWhole
  <2>2. CASE stream'[c][j] = o BY <2>2 DEF ByteInv, HomesWhole, Home, Content
  <2> QED BY <1>2, <2>1, <2>2
<1> QED BY <1>3, <1>4

\* A publish launch reads no expert's bytes.
LEMMA FlushKeepsBytes ==
  ASSUME LedgerInv, MoverTypeOK, ByteInv, stream' = stream \/ stream' = Flushed,
         UNCHANGED <<mover, slabC, poolC>>,
         \A c \in Card : \A i \in 1..Len(mover[c]) :
           NewHome(mover[c][i].rec)' = NewHome(mover[c][i].rec)
  PROVE  GatesHold' /\ QueuedWhole'
<1>1. CASE stream' = stream BY <1>1 DEF ByteInv, GatesHold, QueuedWhole, Content
<1>2. CASE stream' = Flushed
  <2>1. PublishOp(patch) \in Launch BY PublishType DEF MoverTypeOK
  <2>2. PublishOp(patch).op # "dispatch" BY DEF PublishOp
  <2> QED BY <1>2, <2>1, <2>2, AppendKeepsBytes DEF Flushed
<1> QED BY <1>1, <1>2

\* A dispatch reads its expert's home, which no copy has for destination.
LEMMA DispatchKeepsBytes ==
  ASSUME LedgerInv, MoverTypeOK, ByteInv, NEW e \in Expert, Dispatch(e)
  PROVE  ByteInv'
<1>1. /\ UNCHANGED ledgerVars /\ UNCHANGED <<mover, copying, slabC, poolC, left>> /\ Home(e) # None
      /\ stream' = [c \in Card |-> Append(stream[c], DispatchOp(e))]
  BY DEF Dispatch
<1>2. DispatchOp(e) \in Launch /\ DispatchOp(e).e = e /\ DispatchOp(e).addr = Home(e)
  BY <1>1, DispatchType DEF DispatchOp, LedgerInv
<1>3. /\ CopiesInFlight' /\ RunningIsHead' /\ LandedWhole'
      /\ \A c \in Card : \A i \in 1..Len(mover[c]) :
           NewHome(mover[c][i].rec)' = NewHome(mover[c][i].rec)
  BY <1>1, CopiesUntouched DEF ledgerVars
<1>4. GatesHold' /\ QueuedWhole' BY <1>1, <1>2, <1>3, AppendKeepsBytes
<1>5. HomesWhole' BY <1>1 DEF ByteInv, HomesWhole, ledgerVars
<1> QED BY <1>3, <1>4, <1>5 DEF ByteInv

\* A record is published when every card's copy has landed, so the new home is whole.
LEMMA RetirePublishKeepsBytes ==
  ASSUME LedgerInv, MoverTypeOK, ByteInv, NEW r \in Record, RetirePublish(r)
  PROVE  ByteInv'
<1>0. LedgerTypeOK BY DEF LedgerInv
<1>1. /\ moves[r].state = "Copying" /\ Landed(r) /\ Publish(r)
      /\ UNCHANGED <<mover, copying, slabC, poolC, left>> /\ stream' \in {stream, Flushed}
  BY DEF RetirePublish
<1>2. moves' = [moves EXCEPT ![r].state = "Published"] BY <1>1 DEF Publish
<1>3. moves'[r].state = "Published" /\ \A q \in Record : q # r => moves'[q] = moves[q]
  BY <1>0, <1>2 DEF LedgerTypeOK
<1>4. \A c \in Card : left[r][c] = 0 BY <1>1 DEF Landed
<1>5. /\ CopiesInFlight' /\ RunningIsHead' /\ LandedWhole'
      /\ \A c \in Card : \A i \in 1..Len(mover[c]) :
           NewHome(mover[c][i].rec)' = NewHome(mover[c][i].rec)
  BY <1>1, <1>3, <1>4, CopiesUntouched
<1>6. GatesHold' /\ QueuedWhole' BY <1>1, <1>5, FlushKeepsBytes
<1>7. HomesWhole'
  <2> SUFFICES ASSUME NEW c \in Card, NEW e \in Expert
               PROVE  /\ slabOf'[e] # None => slabC[c][slabOf'[e]] = e
                      /\ poolOf'[e] # None => poolC[c][poolOf'[e]] = e
    BY <1>1 DEF HomesWhole
  <2>1. CASE e # moves[r].idx
    <3>1. slabOf'[e] = slabOf[e] /\ poolOf'[e] = poolOf[e]
      BY <1>0, <1>1, <2>1 DEF Publish, LedgerTypeOK
    <3> QED BY <3>1 DEF ByteInv, HomesWhole
  <2>2. CASE e = moves[r].idx
    <3>1. Content(c, NewHome(r)) = e BY <1>1, <1>4, <2>2 DEF ByteInv, LandedWhole
    <3>2. /\ slabOf'[e] = IF moves[r].promote THEN moves[r].slab ELSE None
          /\ poolOf'[e] = IF moves[r].promote THEN None ELSE moves[r].pool
      BY <1>0, <1>1, <2>2 DEF Publish, LedgerTypeOK
    <3> QED BY <3>1, <3>2 DEF Content, NewHome
  <2> QED BY <2>1, <2>2
<1> QED BY <1>5, <1>6, <1>7 DEF ByteInv

\* A slot going back to its free list moves no bytes.
LEMMA RetireReclaimKeepsBytes ==
  ASSUME LedgerInv, MoverTypeOK, ByteInv, NEW r \in Record, RetireReclaim(r)
  PROVE  ByteInv'
<1>0. LedgerTypeOK BY DEF LedgerInv
<1>1. /\ moves[r].state = "Quarantine" /\ UNCHANGED <<slabOf, poolOf, mover, copying, slabC, poolC, left, stream>>
      /\ moves' = [moves EXCEPT ![r] = FreeMove]
  BY DEF RetireReclaim, Reclaim, cardVars
<1>2. moves'[r].state = "Free" /\ \A q \in Record : q # r => moves'[q] = moves[q]
  BY <1>0, <1>1 DEF LedgerTypeOK, FreeMove
<1>3. /\ CopiesInFlight' /\ RunningIsHead' /\ LandedWhole'
      /\ \A c \in Card : \A i \in 1..Len(mover[c]) :
           NewHome(mover[c][i].rec)' = NewHome(mover[c][i].rec)
  BY <1>1, <1>2, CopiesUntouched
<1>4. GatesHold' /\ QueuedWhole' BY <1>1, <1>3, FlushKeepsBytes
<1>5. HomesWhole' BY <1>1 DEF ByteInv, HomesWhole
<1> QED BY <1>3, <1>4, <1>5 DEF ByteInv

\* Sealing the published records moves no bytes.
LEMMA RetireEndKeepsBytes ==
  ASSUME LedgerInv, MoverTypeOK, ByteInv, RetireEnd
  PROVE  ByteInv'
<1>1. /\ UNCHANGED <<slabOf, poolOf, mover, copying, slabC, poolC>> /\ stream' \in {stream, Flushed}
      /\ left' = [r \in Record |-> IF moves[r].state = "Published"
                                   THEN [c \in Card |-> Len(stream'[c])] ELSE left[r]]
      /\ moves' = [r \in Record |-> IF moves[r].state = "Published"
                                    THEN [moves[r] EXCEPT !.state = "Quarantine"] ELSE moves[r]]
  BY DEF RetireEnd, Seal
<1>2. \A q \in Record : moves[q].state # "Published" => moves'[q] = moves[q] /\ left'[q] = left[q]
  BY <1>1
<1>3. \A q \in Record : moves'[q].state = "Copying" => moves[q].state # "Published"
  <2> SUFFICES ASSUME NEW q \in Record, moves[q].state = "Published"
               PROVE  moves'[q].state # "Copying"
    OBVIOUS
  <2>1. moves'[q] = [moves[q] EXCEPT !.state = "Quarantine"] BY <1>1
  <2>2. moves'[q].state = "Quarantine" BY <2>1 DEF LedgerInv, LedgerTypeOK
  <2> QED BY <2>2
<1>4. /\ CopiesInFlight' /\ RunningIsHead' /\ LandedWhole'
      /\ \A c \in Card : \A i \in 1..Len(mover[c]) :
           NewHome(mover[c][i].rec)' = NewHome(mover[c][i].rec)
  BY <1>1, <1>2, <1>3, CopiesUntouched
<1>5. GatesHold' /\ QueuedWhole' BY <1>1, <1>4, FlushKeepsBytes
<1>6. HomesWhole' BY <1>1 DEF ByteInv, HomesWhole
<1> QED BY <1>4, <1>5, <1>6 DEF ByteInv

\* A free record is given a copy: nothing queued so far is behind its gate.
LEMMA CopyIssuedKeepsBytes ==
  ASSUME LedgerInv, MoverTypeOK, ByteInv, NEW r \in Record, moves[r].state = "Free",
         CopyIssued(r), moves'[r].state = "Copying",
         \A q \in Record : q # r => moves'[q] = moves[q], UNCHANGED <<slabOf, poolOf>>
  PROVE  ByteInv'
<1>1. /\ UNCHANGED <<stream, copying, slabC, poolC>>
      /\ mover' = [c \in Card |-> Append(mover[c], [rec |-> r, gate |-> Len(stream[c])])]
      /\ left' = [left EXCEPT ![r] = [c \in Card |-> 1]]
  BY DEF CopyIssued
<1>2. \A c \in Card : left'[r][c] = 1 BY <1>1 DEF MoverTypeOK
<1>3. \A q \in Record : q # r => left'[q] = left[q] BY <1>1 DEF MoverTypeOK
<1>4. \A c \in Card : [rec |-> r, gate |-> Len(stream[c])] \in Copy
  BY LenProperties DEF MoverTypeOK, Copy
<1>5. \A c \in Card : /\ Len(mover[c]) \in Nat /\ Len(mover'[c]) = Len(mover[c]) + 1
                      /\ \A i \in 1..Len(mover[c]) : mover'[c][i] = mover[c][i]
                      /\ mover'[c][Len(mover[c]) + 1] = [rec |-> r, gate |-> Len(stream[c])]
                      /\ mover'[c] # <<>>
  <2> TAKE c \in Card
  <2> DEFINE n == [rec |-> r, gate |-> Len(stream[c])]
  <2>1. mover[c] \in Seq(Copy) /\ n \in Copy /\ mover'[c] = Append(mover[c], n)
    BY <1>1, <1>4 DEF MoverTypeOK
  <2> HIDE DEF n
  <2>2. /\ Len(mover[c]) \in Nat /\ Len(mover'[c]) = Len(mover[c]) + 1 /\ mover'[c] # <<>>
        /\ \A i \in 1..Len(mover[c]) : mover'[c][i] = mover[c][i]
        /\ mover'[c][Len(mover[c]) + 1] = n
    BY <2>1, AppendProperties, LenProperties
  <2> QED BY <2>2 DEF n
<1>6. \A c \in Card : \A i \in 1..Len(mover'[c]) :
        \/ i \in 1..Len(mover[c]) /\ mover'[c][i] = mover[c][i]
        \/ i = Len(mover[c]) + 1 /\ mover'[c][i] = [rec |-> r, gate |-> Len(stream[c])]
  <2> TAKE c \in Card
  <2>1. Len(mover[c]) \in Nat /\ Len(mover'[c]) = Len(mover[c]) + 1 BY <1>5
  <2>2. \A i \in 1..Len(mover'[c]) : i \in 1..Len(mover[c]) \/ i = Len(mover[c]) + 1 BY <2>1
  <2> QED BY <1>5, <2>2
<1>7. \A c \in Card : \A i \in 1..Len(mover[c]) :
        /\ mover[c][i].rec \in Record /\ mover[c][i].rec # r
        /\ moves'[mover[c][i].rec] = moves[mover[c][i].rec]
        /\ left'[mover[c][i].rec] = left[mover[c][i].rec]
  <2> TAKE c \in Card
  <2> TAKE i \in 1..Len(mover[c])
  <2>1. mover[c][i].rec \in Record /\ moves[mover[c][i].rec].state = "Copying"
    BY RecordsOfCopies DEF ByteInv, CopiesInFlight
  <2> QED BY <1>3, <2>1
<1>8. CopiesInFlight'
  <2> SUFFICES ASSUME NEW c \in Card, NEW i \in 1..Len(mover'[c])
               PROVE  /\ moves'[mover'[c][i].rec].state = "Copying"
                      /\ left'[mover'[c][i].rec][c] # 0
                      /\ \A j \in 1..Len(mover'[c]) : mover'[c][j].rec = mover'[c][i].rec => j = i
    BY DEF CopiesInFlight
  <2>1. CASE i \in 1..Len(mover[c]) /\ mover'[c][i] = mover[c][i]
    <3>1. /\ moves[mover[c][i].rec].state = "Copying" /\ left[mover[c][i].rec][c] # 0
          /\ \A j \in 1..Len(mover[c]) : mover[c][j].rec = mover[c][i].rec => j = i
      BY <2>1 DEF ByteInv, CopiesInFlight
    <3>2. mover[c][i].rec # r BY <1>7, <2>1
    <3>3. \A j \in 1..Len(mover'[c]) : mover'[c][j].rec = mover'[c][i].rec => j \in 1..Len(mover[c])
      <4> TAKE j \in 1..Len(mover'[c])
      <4>1. CASE mover'[c][j] = [rec |-> r, gate |-> Len(stream[c])]
        <5>1. mover'[c][j].rec = r BY <4>1
        <5> QED BY <2>1, <3>2, <5>1
      <4> QED BY <1>6, <4>1
    <3>4. \A j \in 1..Len(mover'[c]) : mover'[c][j].rec = mover'[c][i].rec => j = i
      BY <1>5, <2>1, <3>1, <3>3
    <3> QED BY <1>7, <2>1, <3>1, <3>4
  <2>2. CASE i = Len(mover[c]) + 1 /\ mover'[c][i] = [rec |-> r, gate |-> Len(stream[c])]
    <3>1. \A j \in 1..Len(mover'[c]) : mover'[c][j].rec = r => j = i BY <1>6, <1>7, <2>2
    <3> QED BY <1>2, <2>2, <3>1
  <2> QED BY <1>6, <2>1, <2>2
<1>9. RunningIsHead'
  <2> SUFFICES ASSUME NEW c \in Card, copying'[c] PROVE mover'[c] # <<>> /\ mover'[c][1].gate = 0
    BY DEF RunningIsHead
  <2>1. mover[c] # <<>> /\ mover[c][1].gate = 0 BY <1>1 DEF ByteInv, RunningIsHead
  <2>2. 1 \in 1..Len(mover[c]) BY <2>1, HeadOfMover
  <2> QED BY <1>5, <2>1, <2>2
<1>10. GatesHold'
  <2> SUFFICES ASSUME NEW c \in Card, NEW i \in 1..Len(mover'[c]), NEW j \in 1..Len(stream[c]),
                      stream[c][j].op = "dispatch", j > mover'[c][i].gate
               PROVE  stream[c][j].addr # NewHome(mover[c][i].rec)'
    BY <1>1 DEF GatesHold
  <2>1. CASE i \in 1..Len(mover[c]) /\ mover'[c][i] = mover[c][i]
    <3>1. stream[c][j].addr # NewHome(mover[c][i].rec) BY <2>1 DEF ByteInv, GatesHold
    <3>2. moves'[mover'[c][i].rec] = moves[mover[c][i].rec] BY <1>7, <2>1
    <3> QED BY <2>1, <3>1, <3>2 DEF NewHome
  <2>2. CASE i = Len(mover[c]) + 1 /\ mover'[c][i] = [rec |-> r, gate |-> Len(stream[c])]
    <3>1. Len(stream[c]) \in Nat BY LenProperties DEF MoverTypeOK
    <3> QED BY <2>2, <3>1
  <2> QED BY <1>6, <2>1, <2>2
<1>11. LandedWhole'
  <2> SUFFICES ASSUME NEW c \in Card, NEW q \in Record, moves'[q].state = "Copying", left'[q][c] = 0
               PROVE  Content(c, NewHome(q))' = moves'[q].idx
    BY DEF LandedWhole
  <2>1. q # r BY <1>2
  <2>2. moves'[q] = moves[q] /\ left'[q] = left[q] BY <1>3, <2>1
  <2>3. Content(c, NewHome(q)) = moves[q].idx BY <2>2 DEF ByteInv, LandedWhole
  <2> QED BY <1>1, <2>2, <2>3 DEF Content, NewHome
<1>12. HomesWhole' BY <1>1 DEF ByteInv, HomesWhole
<1>13. QueuedWhole' BY <1>1 DEF ByteInv, QueuedWhole, Content
<1> QED BY <1>8, <1>9, <1>10, <1>11, <1>12, <1>13 DEF ByteInv

\* Every host step keeps the bytes' invariant.
LEMMA HostKeepsBytes ==
  ASSUME LedgerInv, MoverTypeOK, ByteInv, HostNext
  PROVE  ByteInv'
<1>0. LedgerTypeOK BY DEF LedgerInv
<1>1. ASSUME NEW e \in Expert, Dispatch(e) PROVE ByteInv' BY <1>1, DispatchKeepsBytes
<1>2. ASSUME NEW r \in Record, RetirePublish(r) PROVE ByteInv' BY <1>2, RetirePublishKeepsBytes
<1>3. ASSUME NEW r \in Record, RetireReclaim(r) PROVE ByteInv' BY <1>3, RetireReclaimKeepsBytes
<1>4. CASE RetireEnd BY <1>4, RetireEndKeepsBytes
<1>5. ASSUME NEW r \in Record, NEW e \in Expert, NEW s \in SlabSlot, Promote(r, e, s)
      PROVE  ByteInv'
  <2>1. /\ moves[r].state = "Free" /\ CopyIssued(r) /\ UNCHANGED <<slabOf, poolOf>>
        /\ moves' = [moves EXCEPT ![r] = [state |-> "Copying", promote |-> TRUE, idx |-> e,
                                          slab |-> s, pool |-> poolOf[e]]]
    BY <1>5 DEF Promote, PromoteIssue
  <2>2. moves'[r].state = "Copying" /\ \A q \in Record : q # r => moves'[q] = moves[q]
    BY <1>0, <2>1 DEF LedgerTypeOK
  <2> QED BY <2>1, <2>2, CopyIssuedKeepsBytes
<1>6. ASSUME NEW r \in Record, NEW e \in Expert, NEW p \in PoolSlot, Demote(r, e, p)
      PROVE  ByteInv'
  <2>1. /\ moves[r].state = "Free" /\ CopyIssued(r) /\ UNCHANGED <<slabOf, poolOf>>
        /\ moves' = [moves EXCEPT ![r] = [state |-> "Copying", promote |-> FALSE, idx |-> e,
                                          slab |-> slabOf[e], pool |-> p]]
    BY <1>6 DEF Demote, DemoteIssue
  <2>2. moves'[r].state = "Copying" /\ \A q \in Record : q # r => moves'[q] = moves[q]
    BY <1>0, <2>1 DEF LedgerTypeOK
  <2> QED BY <2>1, <2>2, CopyIssuedKeepsBytes
<1>7. ASSUME UNCHANGED ledgerVars, UNCHANGED <<stream, mover, copying, left, slabC, poolC>>
      PROVE  ByteInv'
  BY <1>7 DEF ByteInv, CopiesInFlight, RunningIsHead, GatesHold, LandedWhole, HomesWhole,
              QueuedWhole, Content, NewHome, ledgerVars
<1>8. ASSUME NEW r \in Record, RetireSkip(r) PROVE ByteInv' BY <1>7, <1>8 DEF RetireSkip, cardVars
<1>9. CASE NoSlabSlot \/ NoPoolSlot \/ TickEnd
  BY <1>7, <1>9 DEF NoSlabSlot, NoPoolSlot, TickEnd, cardVars
<1> QED BY <1>1, <1>2, <1>3, <1>4, <1>5, <1>6, <1>8, <1>9 DEF HostNext

\* A launch retires: every gate behind it opens by one.
LEMMA RetiredKeepsBytes ==
  ASSUME MoverTypeOK, ByteInv, NEW c \in Card, stream[c] # <<>>, Retired(c)
  PROVE  ByteInv'
<1>1. UNCHANGED <<copying, slabC, poolC, moves, slabOf, poolOf>> BY DEF Retired, ledgerVars
<1>2. /\ \A d \in Card : d # c => mover'[d] = mover[d]
      /\ Len(mover'[c]) = Len(mover[c])
      /\ \A i \in 1..Len(mover[c]) :
           /\ mover'[c][i].rec = mover[c][i].rec
           /\ mover'[c][i].gate = IF mover[c][i].gate > 0 THEN mover[c][i].gate - 1 ELSE 0
  BY RetiredCopies
<1>3. \A d \in Card : /\ Len(mover'[d]) = Len(mover[d])
                      /\ \A i \in 1..Len(mover[d]) : mover'[d][i].rec = mover[d][i].rec
  BY <1>2
<1>4. /\ \A d \in Card : d # c => stream'[d] = stream[d]
      /\ Len(stream[c]) \in Nat \ {0} /\ Len(stream'[c]) = Len(stream[c]) - 1
      /\ \A j \in 1..Len(stream'[c]) : stream'[c][j] = stream[c][j + 1] /\ j + 1 \in 1..Len(stream[c])
  <2>1. stream'[c] = Tail(stream[c]) /\ \A d \in Card : d # c => stream'[d] = stream[d]
    BY DEF Retired, MoverTypeOK
  <2>2. /\ Len(stream[c]) \in Nat \ {0} /\ Len(stream'[c]) = Len(stream[c]) - 1
        /\ \A j \in 1..(Len(stream[c]) - 1) : stream'[c][j] = stream[c][j + 1]
    BY <2>1, HeadOfStream
  <2>3. \A j \in 1..(Len(stream[c]) - 1) : j + 1 \in 1..Len(stream[c]) BY <2>2
  <2> QED BY <2>1, <2>2, <2>3
<1>5. \A r \in Record : moves[r].state = "Copying" => left'[r] = left[r]
  BY DEF Retired
<1>6. CopiesInFlight'
  <2>1. \A d \in Card : \A i \in 1..Len(mover[d]) :
          moves[mover[d][i].rec].state = "Copying" /\ left'[mover[d][i].rec] = left[mover[d][i].rec]
    BY <1>5, RecordsOfCopies DEF ByteInv, CopiesInFlight
  <2> QED BY <1>1, <1>3, <2>1 DEF ByteInv, CopiesInFlight
<1>7. RunningIsHead'
  <2> SUFFICES ASSUME NEW d \in Card, copying[d] PROVE mover'[d] # <<>> /\ mover'[d][1].gate = 0
    BY <1>1 DEF RunningIsHead
  <2>1. mover[d] # <<>> /\ mover[d][1].gate = 0 BY DEF ByteInv, RunningIsHead
  <2>2. 1 \in 1..Len(mover[d]) BY <2>1, HeadOfMover
  <2>3. Len(mover'[d]) # 0
    <3>1. Len(mover[d]) # 0 BY <2>1, HeadOfMover
    <3> QED BY <1>3, <3>1
  <2>4. mover'[d][1].gate = 0 BY <1>2, <2>1, <2>2
  <2> QED BY <2>3, <2>4, EmptySeq
<1>8. GatesHold'
  <2> SUFFICES ASSUME NEW d \in Card, NEW i \in 1..Len(mover[d]), NEW j \in 1..Len(stream'[d]),
                      stream'[d][j].op = "dispatch", j > mover'[d][i].gate
               PROVE  stream'[d][j].addr # NewHome(mover[d][i].rec)
    BY <1>1, <1>3 DEF GatesHold, NewHome
  <2>1. CASE d # c BY <1>2, <1>4, <2>1 DEF ByteInv, GatesHold
  <2>2. CASE d = c
    <3>1. mover[c][i].gate \in Nat BY <2>2, RecordsOfCopies
    <3>2. j + 1 > mover[c][i].gate BY <1>2, <2>2, <3>1
    <3>3. stream'[c][j] = stream[c][j + 1] /\ j + 1 \in 1..Len(stream[c]) BY <1>4, <2>2
    <3> QED BY <2>2, <3>2, <3>3 DEF ByteInv, GatesHold
  <2> QED BY <2>1, <2>2
<1>9. LandedWhole' BY <1>1, <1>5 DEF ByteInv, LandedWhole, Content, NewHome
<1>10. HomesWhole' BY <1>1 DEF ByteInv, HomesWhole
<1>11. QueuedWhole'
  <2> SUFFICES ASSUME NEW d \in Card, NEW j \in 1..Len(stream'[d]), stream'[d][j].op = "dispatch"
               PROVE  Content(d, stream'[d][j].addr) = stream'[d][j].e
    BY <1>1 DEF QueuedWhole, Content
  <2>1. CASE d # c BY <1>4, <2>1 DEF ByteInv, QueuedWhole
  <2>2. CASE d = c BY <1>4, <2>2 DEF ByteInv, QueuedWhole
  <2> QED BY <2>1, <2>2
<1> QED BY <1>6, <1>7, <1>8, <1>9, <1>10, <1>11 DEF ByteInv

\* Bytes change at a copy's destination alone, which is no expert's home.
LEMMA CopyKeepsHomes ==
  ASSUME LedgerInv, HomesWhole, NEW c \in Card, NEW r \in Record, moves[r].state = "Copying",
         UNCHANGED <<slabOf, poolOf>>,
         \A d \in Card, a \in Addr : d # c \/ a # NewHome(r) => Content(d, a)' = Content(d, a)
  PROVE  HomesWhole'
<1> SUFFICES ASSUME NEW d \in Card, NEW e \in Expert
             PROVE  /\ slabOf[e] # None => slabC'[d][slabOf[e]] = e
                    /\ poolOf[e] # None => poolC'[d][poolOf[e]] = e
  BY DEF HomesWhole
<1>1. slabOf[e] \in SlabSlot \cup {None} /\ poolOf[e] \in PoolSlot \cup {None}
  BY DEF LedgerInv, LedgerTypeOK
<1>2. ASSUME NEW s \in SlabSlot, s = slabOf[e], slabOf[e] # None PROVE slabC'[d][s] = slabC[d][s]
  <2>1. <<"slab", s>> \in Addr BY DEF Addr
  <2>2. <<"slab", s>> # NewHome(r) BY <1>2, NewHomeIsNobodys
  <2>3. Content(d, <<"slab", s>>)' = Content(d, <<"slab", s>>) BY <2>1, <2>2
  <2> QED BY <2>3 DEF Content
<1>3. ASSUME NEW p \in PoolSlot, p = poolOf[e], poolOf[e] # None PROVE poolC'[d][p] = poolC[d][p]
  <2>1. <<"pool", p>> \in Addr BY DEF Addr
  <2>2. <<"pool", p>> # NewHome(r) BY <1>3, NewHomeIsNobodys
  <2>3. Content(d, <<"pool", p>>)' = Content(d, <<"pool", p>>) BY <2>1, <2>2
  <2> QED BY <2>3 DEF Content
<1> QED BY <1>1, <1>2, <1>3 DEF HomesWhole

\* Bytes change at a copy's destination alone, which no queued dispatch reads.
LEMMA CopyKeepsQueued ==
  ASSUME MoverTypeOK, QueuedWhole, NEW c \in Card, NEW r, UNCHANGED stream,
         \A j \in 1..Len(stream[c]) : stream[c][j].op = "dispatch" => stream[c][j].addr # NewHome(r),
         \A d \in Card, a \in Addr : d # c \/ a # NewHome(r) => Content(d, a)' = Content(d, a)
  PROVE  QueuedWhole'
<1> SUFFICES ASSUME NEW d \in Card, NEW j \in 1..Len(stream[d]), stream[d][j].op = "dispatch"
             PROVE  Content(d, stream[d][j].addr)' = stream[d][j].e
  BY DEF QueuedWhole
<1>1. stream[d][j].addr \in Addr BY DispatchesTyped
<1>2. \A a : a = stream[d][j].addr => Content(d, a)' = Content(d, a) BY <1>1
<1>3. Content(d, stream[d][j].addr)' = Content(d, stream[d][j].addr) BY <1>2 DEF Content
<1> QED BY <1>3 DEF QueuedWhole

\* A copy starts: no expert lives in its destination, no queued dispatch reads it and
\* no other copy goes there.
LEMMA StartCopyKeepsBytes ==
  ASSUME LedgerInv, MoverTypeOK, ByteInv, NEW c \in Card, StartCopy(c)
  PROVE  ByteInv'
<1> DEFINE r == mover[c][1].rec
<1>0. LedgerTypeOK /\ CopiesInFlight /\ mover[c] # <<>> BY DEF LedgerInv, ByteInv, StartCopy
<1>1. /\ UNCHANGED <<stream, mover, left, moves, slabOf, poolOf>>
      /\ copying' = [copying EXCEPT ![c] = TRUE]
  BY DEF StartCopy, ledgerVars
<1>2. /\ r \in Record /\ moves[r].state = "Copying" /\ left[r][c] # 0 /\ mover[c][1].gate = 0
      /\ 1 \in 1..Len(mover[c])
  BY <1>0, HeadCopy DEF StartCopy, CopiesInFlight
<1>k. \A d \in Card, a \in Addr : d # c \/ a # NewHome(r) => Content(d, a)' = Content(d, a)
  BY <1>0, StartCopyEffect
<1>4. \A q \in Record : moves[q].state = "Copying" /\ q # r => NewHome(q) # NewHome(r)
  BY <1>2, NewHomeIsNobodys
<1>g. \A j \in 1..Len(stream[c]) : stream[c][j].op = "dispatch" => stream[c][j].addr # NewHome(r)
  BY <1>2 DEF ByteInv, GatesHold
<1> HIDE DEF r
<1>5. CopiesInFlight' /\ GatesHold' BY <1>1 DEF ByteInv, CopiesInFlight, GatesHold, NewHome
<1>6. RunningIsHead'
  <2>1. \A d \in Card : copying'[d] => d = c \/ copying[d] BY <1>1 DEF MoverTypeOK
  <2> QED BY <1>0, <1>1, <1>2, <2>1 DEF ByteInv, RunningIsHead
<1>7. LandedWhole'
  <2> SUFFICES ASSUME NEW d \in Card, NEW q \in Record, moves[q].state = "Copying", left[q][d] = 0
               PROVE  Content(d, NewHome(q))' = moves[q].idx
    BY <1>1 DEF LandedWhole
  <2>1. Content(d, NewHome(q)) = moves[q].idx BY DEF ByteInv, LandedWhole
  <2>2. NewHome(q) \in Addr BY <1>0, NewHomeType
  <2>3. d # c \/ NewHome(q) # NewHome(r) BY <1>2, <1>4
  <2>4. \A a : a = NewHome(q) => Content(d, a)' = Content(d, a) BY <1>k, <2>2, <2>3
  <2>5. NewHome(q)' = NewHome(q) BY <1>1 DEF NewHome
  <2> QED BY <2>1, <2>4, <2>5 DEF Content
<1>8. HomesWhole' BY <1>1, <1>2, <1>k, CopyKeepsHomes DEF ByteInv
<1>9. QueuedWhole' BY <1>1, <1>g, <1>k, CopyKeepsQueued DEF ByteInv
<1> QED BY <1>5, <1>6, <1>7, <1>8, <1>9 DEF ByteInv

\* A copy lands: its source is still its expert's home.
LEMMA FinishCopyKeepsBytes ==
  ASSUME LedgerInv, MoverTypeOK, ByteInv, NEW c \in Card, FinishCopy(c)
  PROVE  ByteInv'
<1> DEFINE r == mover[c][1].rec
<1>0. LedgerTypeOK /\ CopiesInFlight /\ mover[c] # <<>> /\ mover[c][1].gate = 0
  BY DEF LedgerInv, ByteInv, FinishCopy, RunningIsHead
<1>2. /\ r \in Record /\ moves[r].state = "Copying" /\ left[r][c] # 0
      /\ 1 \in 1..Len(mover[c]) /\ Head(mover[c]).rec = r
      /\ \A i \in 1..Len(mover[c]) : mover[c][i].rec = r => i = 1
  BY <1>0, HeadCopy DEF CopiesInFlight
<1>1. /\ UNCHANGED <<stream, moves, slabOf, poolOf>>
      /\ copying' = [copying EXCEPT ![c] = FALSE]
      /\ mover' = [mover EXCEPT ![c] = Tail(mover[c])]
      /\ left' = [left EXCEPT ![r][c] = 0]
  BY <1>2 DEF FinishCopy, ledgerVars
<1>3. \A d \in Card, a \in Addr :
        IF d = c /\ a = NewHome(r) THEN Content(d, a)' = Content(c, Source(r))
        ELSE Content(d, a)' = Content(d, a)
  BY <1>0, FinishCopyEffect
<1>k. \A d \in Card, a \in Addr : d # c \/ a # NewHome(r) => Content(d, a)' = Content(d, a)
  BY <1>3
<1>4. \A q \in Record : moves[q].state = "Copying" /\ q # r => NewHome(q) # NewHome(r)
  BY <1>2, NewHomeIsNobodys
<1>g. \A j \in 1..Len(stream[c]) : stream[c][j].op = "dispatch" => stream[c][j].addr # NewHome(r)
  BY <1>0, <1>2 DEF ByteInv, GatesHold
<1> HIDE DEF r
<1>5. Content(c, Source(r)) = moves[r].idx
  <2>1. moves[r].idx \in Expert /\ moves[r].slab \in SlabSlot /\ moves[r].pool \in PoolSlot
    BY <1>0, <1>2 DEF LedgerTypeOK
  <2>2. IF moves[r].promote THEN poolOf[moves[r].idx] = moves[r].pool
        ELSE slabOf[moves[r].idx] = moves[r].slab
    BY <1>2 DEF LedgerInv, CopyAgreesWithOwner
  <2>3. moves[r].slab # None /\ moves[r].pool # None BY <2>1, NoneAssumption
  <2> QED BY <2>1, <2>2, <2>3 DEF Content, Source, ByteInv, HomesWhole
<1>6. /\ \A d \in Card : d # c => mover'[d] = mover[d]
      /\ Len(mover[c]) \in Nat \ {0} /\ Len(mover'[c]) = Len(mover[c]) - 1
      /\ \A i \in 1..Len(mover'[c]) : mover'[c][i] = mover[c][i + 1]
                                      /\ i + 1 \in 1..Len(mover[c]) /\ i + 1 # 1
  <2>1. mover'[c] = Tail(mover[c]) /\ \A d \in Card : d # c => mover'[d] = mover[d]
    BY <1>1 DEF MoverTypeOK
  <2>2. /\ Len(mover[c]) \in Nat \ {0} /\ Len(mover'[c]) = Len(mover[c]) - 1
        /\ \A i \in 1..(Len(mover[c]) - 1) : mover'[c][i] = mover[c][i + 1]
    BY <1>0, <2>1, HeadOfMover
  <2>3. \A i \in 1..(Len(mover[c]) - 1) : i + 1 \in 1..Len(mover[c]) /\ i + 1 # 1 BY <2>2
  <2> QED BY <2>1, <2>2, <2>3
<1>7. \A d \in Card, q \in Record : (q # r \/ d # c) => left'[q][d] = left[q][d]
  BY <1>1 DEF MoverTypeOK
<1>8. CopiesInFlight'
  <2> SUFFICES ASSUME NEW d \in Card, NEW i \in 1..Len(mover'[d])
               PROVE  /\ moves[mover'[d][i].rec].state = "Copying"
                      /\ left'[mover'[d][i].rec][d] # 0
                      /\ \A j \in 1..Len(mover'[d]) : mover'[d][j].rec = mover'[d][i].rec => j = i
    BY <1>1 DEF CopiesInFlight
  <2>1. CASE d # c
    <3>1. i \in 1..Len(mover[d]) /\ mover'[d] = mover[d] BY <1>6, <2>1
    <3>2. mover[d][i].rec \in Record BY <3>1, RecordsOfCopies
    <3> QED BY <1>7, <2>1, <3>1, <3>2 DEF ByteInv, CopiesInFlight
  <2>2. CASE d = c
    <3>1. mover'[c][i] = mover[c][i + 1] /\ i + 1 \in 1..Len(mover[c]) /\ i + 1 # 1 BY <1>6, <2>2
    <3>2. mover[c][i + 1].rec \in Record /\ mover[c][i + 1].rec # r
      BY <1>2, <3>1, RecordsOfCopies
    <3>3. /\ moves[mover[c][i + 1].rec].state = "Copying" /\ left[mover[c][i + 1].rec][c] # 0
          /\ \A j \in 1..Len(mover[c]) : mover[c][j].rec = mover[c][i + 1].rec => j = i + 1
      BY <3>1 DEF ByteInv, CopiesInFlight
    <3>4. \A j \in 1..Len(mover'[c]) : mover'[c][j].rec = mover'[c][i].rec => j = i
      <4> SUFFICES ASSUME NEW j \in 1..Len(mover'[c]), mover'[c][j].rec = mover'[c][i].rec PROVE j = i
        OBVIOUS
      <4>1. mover'[c][j] = mover[c][j + 1] /\ j + 1 \in 1..Len(mover[c]) BY <1>6
      <4>2. j + 1 = i + 1 BY <3>1, <3>3, <4>1
      <4> QED BY <2>2, <4>2
    <3> QED BY <1>7, <2>2, <3>1, <3>2, <3>3, <3>4
  <2> QED BY <2>1, <2>2
<1>9. RunningIsHead'
  <2>1. \A d \in Card : copying'[d] => d # c /\ copying[d] BY <1>1 DEF MoverTypeOK
  <2> QED BY <1>6, <2>1 DEF ByteInv, RunningIsHead
<1>10. GatesHold'
  <2> SUFFICES ASSUME NEW d \in Card, NEW i \in 1..Len(mover'[d]), NEW j \in 1..Len(stream[d]),
                      stream[d][j].op = "dispatch", j > mover'[d][i].gate
               PROVE  \A x : x = mover'[d][i].rec => stream[d][j].addr # NewHome(x)
    BY <1>1 DEF GatesHold, NewHome
  <2>1. CASE d # c BY <1>6, <2>1 DEF ByteInv, GatesHold
  <2>2. CASE d = c
    <3>1. mover'[c][i] = mover[c][i + 1] /\ i + 1 \in 1..Len(mover[c]) BY <1>6, <2>2
    <3>2. stream[c][j].addr # NewHome(mover[c][i + 1].rec)
      BY <2>2, <3>1 DEF ByteInv, GatesHold
    <3> QED BY <2>2, <3>1, <3>2
  <2> QED BY <2>1, <2>2
<1>11. LandedWhole'
  <2> SUFFICES ASSUME NEW d \in Card, NEW q \in Record, moves[q].state = "Copying", left'[q][d] = 0
               PROVE  Content(d, NewHome(q))' = moves[q].idx
    BY <1>1 DEF LandedWhole
  <2>1. NewHome(q) \in Addr BY <1>0, NewHomeType
  <2>2. NewHome(q)' = NewHome(q) BY <1>1 DEF NewHome
  <2>3. CASE q = r /\ d = c
    <3>1. \A a : a = NewHome(q) => Content(d, a)' = moves[r].idx BY <1>3, <1>5, <2>1, <2>3
    <3> QED BY <2>2, <2>3, <3>1 DEF Content
  <2>4. CASE q # r \/ d # c
    <3>1. Content(d, NewHome(q)) = moves[q].idx BY <1>7, <2>4 DEF ByteInv, LandedWhole
    <3>2. d # c \/ NewHome(q) # NewHome(r) BY <1>4, <2>4
    <3>3. \A a : a = NewHome(q) => Content(d, a)' = Content(d, a) BY <1>3, <2>1, <3>2
    <3> QED BY <2>2, <3>1, <3>3 DEF Content
  <2> QED BY <2>3, <2>4
<1>12. HomesWhole' BY <1>1, <1>2, <1>k, CopyKeepsHomes DEF ByteInv
<1>13. QueuedWhole' BY <1>1, <1>g, <1>k, CopyKeepsQueued DEF ByteInv
<1> QED BY <1>8, <1>9, <1>10, <1>11, <1>12, <1>13 DEF ByteInv

\* Every card step keeps the bytes' invariant.
LEMMA CardKeepsBytes ==
  ASSUME LedgerInv, MoverTypeOK, ByteInv, ReadsAsIssued, NEW c \in Card, ComputeNext(c) \/ MoverNext(c)
  PROVE  ByteInv'
<1>1. CASE StartDispatch(c)
  BY <1>1 DEF StartDispatch, ByteInv, CopiesInFlight, RunningIsHead, GatesHold, LandedWhole, HomesWhole,
              QueuedWhole, Content, NewHome, ledgerVars
<1>2. CASE FinishDispatch(c)
  <2>1. stream[c] # <<>> /\ Retired(c) BY <1>2 DEF FinishDispatch, ReadsAsIssued
  <2> QED BY <2>1, RetiredKeepsBytes
<1>3. CASE ApplyPublish(c) BY <1>3, RetiredKeepsBytes DEF ApplyPublish
<1>4. CASE StartCopy(c) BY <1>4, StartCopyKeepsBytes
<1>5. CASE FinishCopy(c) BY <1>5, FinishCopyKeepsBytes
<1> QED BY <1>1, <1>2, <1>3, <1>4, <1>5 DEF ComputeNext, MoverNext

-----------------------------------------------------------------------------
(* The mover's inductive invariant, and what follows from it.              *)

MoverInv == LedgerInv /\ MoverTypeOK /\ TableInv /\ ByteInv

\* Every step of the mover keeps the inductive invariant.
LEMMA MoverStep ==
  ASSUME MoverInv, [Next]_vars
  PROVE  MoverInv'
<1> USE DEF MoverInv
<1>0. LedgerTypeOK /\ CopiesInFlight /\ RunningIsHead /\ ReadsAsIssued
  BY DEF LedgerInv, ByteInv, TableInv
<1>1. LedgerInv' BY NextStepsLedger, LedgerStep
<1>2. CASE HostNext BY <1>0, <1>1, <1>2, HostKeepsType, HostKeepsTable, HostKeepsBytes
<1>3. ASSUME NEW c \in Card, ComputeNext(c) \/ MoverNext(c) PROVE MoverInv'
  BY <1>0, <1>1, <1>3, CardKeepsType, CardKeepsTable, CardKeepsBytes
<1>4. CASE UNCHANGED vars
  <2> USE <1>4 DEF vars, ledgerVars, hostVars, cardVars
  <2>1. MoverTypeOK' BY DEF MoverTypeOK
  <2>2. TableInv' BY TableUntouched DEF TableInv, PatchInTick
  <2>3. ByteInv'
    BY DEF ByteInv, CopiesInFlight, RunningIsHead, GatesHold, LandedWhole, HomesWhole,
           QueuedWhole, Content, NewHome
  <2> QED BY <1>1, <2>1, <2>2, <2>3
<1> QED BY <1>2, <1>3, <1>4 DEF Next

\* MoverInv is inductive: with any number of cards, each behind by any amount.
THEOREM MoverInvariance == Spec => []MoverInv
<1>1. MoverInit => MoverInv
  BY LedgerInitInv, TypeInit, TableInit, ByteInit DEF MoverInv, MoverInit
<1>2. MoverInv /\ [Next]_vars => MoverInv' BY MoverStep
<1> QED BY <1>1, <1>2, PTL DEF Spec

\* Every variable of the mover keeps its type.
THEOREM MoverTypeCorrect == Spec => []MoverTypeOK
<1>1. MoverInv => MoverTypeOK BY DEF MoverInv
<1> QED BY <1>1, MoverInvariance, PTL

\* However far a card runs behind, a dispatch finds in the card's table the
\* address the host had published when it issued it.
THEOREM TablesReadAsIssued == Spec => []TableAsIssued
<1>1. MoverInv => TableAsIssued
  <2> SUFFICES ASSUME MoverInv, NEW c \in Card, reads[c] # None
               PROVE  reads[c] = Head(stream[c]).addr
    BY DEF TableAsIssued
  <2>1. stream[c] # <<>> /\ reads[c] = stream[c][1].addr
    BY DEF MoverInv, TableInv, ReadsAsIssued
  <2> QED BY <2>1, HeadOfStream DEF MoverInv
<1> QED BY <1>1, MoverInvariance, PTL

\* The owner tables never name a slot whose copy has not landed on every card.
THEOREM HomesHoldTheirBytes == Spec => []HomeHoldsBytes
<1>1. MoverInv => HomeHoldsBytes
  BY DEF MoverInv, ByteInv, HomesWhole, HomeHoldsBytes, Home, Content
<1> QED BY <1>1, MoverInvariance, PTL

\* A running dispatch reads its own expert's bytes, whole, on every card.
THEOREM NoReadIsStale == Spec => []NoStaleRead
<1>1. MoverInv => NoStaleRead
  <2> SUFFICES ASSUME MoverInv, NEW c \in Card, reads[c] # None
               PROVE  Content(c, reads[c]) = Head(stream[c]).e
    BY DEF NoStaleRead
  <2>1. stream[c] # <<>> /\ stream[c][1].op = "dispatch" /\ reads[c] = stream[c][1].addr
    BY DEF MoverInv, TableInv, ReadsAsIssued
  <2>2. Head(stream[c]) = stream[c][1] /\ 1 \in 1..Len(stream[c]) BY <2>1, HeadOfStream DEF MoverInv
  <2>3. Content(c, stream[c][1].addr) = stream[c][1].e
    BY <2>1, <2>2 DEF MoverInv, ByteInv, QueuedWhole
  <2> QED BY <2>1, <2>2, <2>3
<1> QED BY <1>1, MoverInvariance, PTL
=============================================================================
