---------------------------- MODULE EngineProofs ----------------------------
(***************************************************************************)
(* The placement engine (PlacementEngine) agrees with itself: heat names   *)
(* moves out of its own copy of where each expert is, hours of ticks after *)
(* load, and the copy is still what the tables say; every move it names is *)
(* one the slot ledger allows, so the ledger's promises are the engine's.  *)
(* First the ring alone (ActRing), then the choices heat makes, then load, *)
(* then the tick's steps one at a time.                                    *)
(***************************************************************************)
EXTENDS PlacementEngine, SlotLedgerProofs, FiniteSetTheorems, WellFoundedInduction, TLAPS

-----------------------------------------------------------------------------
(* The ring.  Behind a gate two smaller than it the host reads every       *)
(* record, once and whole, however fast either side runs.                  *)

\* The gate is on, and two smaller than the ring.
Gated == Lead \in Nat \ {0} /\ Lead + 1 < Slots

\* Quotient and remainder.
LEMMA DivMod ==
  ASSUME NEW S \in Nat \ {0}, NEW a \in Nat
  PROVE  a = S * (a \div S) + (a % S) /\ a \div S \in Int /\ a % S \in 0..(S - 1)
  OBVIOUS

\* No multiple lies strictly between zero and the ring's size.
LEMMA NoMultipleBetween ==
  ASSUME NEW S \in Nat \ {0}, NEW k \in Int, 0 < S * k, S * k < S PROVE FALSE
  <1>1. CASE k <= 0
    <2>1. S * k <= 0 BY <1>1
    <2> QED BY <2>1
  <1>2. CASE k >= 1
    <2>1. S * k >= S BY <1>2
    <2> QED BY <2>1
  <1> QED BY <1>1, <1>2

\* Multiplication distributes over a difference.
LEMMA Distribute ==
  ASSUME NEW S \in Int, NEW x \in Int, NEW y \in Int PROVE S * (x - y) = S * x - S * y
  OBVIOUS

\* Indices less than a ring apart lie in different slots.
LEMMA SlotsDiffer ==
  ASSUME NEW S \in Nat \ {0}, NEW a \in Nat, NEW b \in Nat, a < b, b - a < S
  PROVE  a % S # b % S
  <1> SUFFICES ASSUME a % S = b % S PROVE FALSE OBVIOUS
  <1>1. a = S * (a \div S) + (a % S) /\ a \div S \in Int /\ a % S \in Int BY DivMod
  <1>2. b = S * (b \div S) + (b % S) /\ b \div S \in Int /\ b % S \in Int BY DivMod
  <1> DEFINE x == a \div S
             y == b \div S
             m == a % S
  <1>3. S \in Int /\ x \in Int /\ y \in Int BY <1>1, <1>2
  <1>4. S * (y - x) = S * y - S * x BY <1>3, Distribute
  <1>5. a = S * x + m /\ b = S * y + m /\ m \in Int BY <1>1, <1>2
  <1>6. S * x \in Int /\ S * y \in Int BY <1>3
  <1> HIDE DEF x, y, m
  <1>7. S * (y - x) = b - a BY <1>4, <1>5, <1>6
  <1>8. y - x \in Int BY <1>3
  <1> QED BY <1>7, <1>8, NoMultipleBetween

\* A position in the run has a slot.
LEMMA SlotIndex ==
  ASSUME NEW a \in Nat PROVE a % Slots \in 0..(Slots - 1)
  BY DivMod, RingAssumption

-----------------------------------------------------------------------------
\* What the lemmas carry from state to state while no dispatch has passed the gate.
Tight == RingTypeOK /\ MarksAreDense /\ Apart /\ RecordsHold /\ ExactSoFar

\* The ring starts empty.
LEMMA RingInitInv == RingInit => RingInv
  <1> SUFFICES ASSUME RingInit PROVE RingInv OBVIOUS
  <1> USE RingAssumption DEF RingInit, Blank
  <1>1. RingTypeOK BY DEF RingTypeOK
  <1>2. MarksAreDense /\ Apart /\ RecordsHold /\ ExactSoFar
    BY DEF MarksAreDense, Apart, RecordsHold, ExactSoFar
  <1> QED BY <1>1, <1>2 DEF RingInv

\* The plan kernel's writes have their type...
LEMMA WriteType ==
  ASSUME RingTypeOK, WriteCounts \/ WriteLayer PROVE RingTypeOK'
  <1> USE DEF WriteCounts, WriteLayer, readVars
  <1> DEFINE k == head % Slots
             R == [layer : Nat, counts : Nat]
  <1>1. k \in 0..(Slots - 1) BY SlotIndex DEF RingTypeOK
  <1>2. slot' \in {[slot EXCEPT ![k] = [slot[k] EXCEPT !.counts = head + 1]],
                   [slot EXCEPT ![k] = [slot[k] EXCEPT !.layer = head + 1]]}
    OBVIOUS
  <1> HIDE DEF k
  <1>3. slot \in [0..(Slots - 1) -> R] /\ slot[k] \in R /\ head + 1 \in Nat
    BY <1>1 DEF RingTypeOK
  <1>4. [slot[k] EXCEPT !.counts = head + 1] \in R /\ [slot[k] EXCEPT !.layer = head + 1] \in R
    BY <1>3
  <1>5. slot' \in [0..(Slots - 1) -> R] BY <1>2, <1>3, <1>4
  <1> QED BY <1>5 DEF RingTypeOK

\* ...so has a launch...
LEMMA LaunchType ==
  ASSUME RingTypeOK, Launch PROVE RingTypeOK'
  <1> USE DEF Launch, cardVars, readVars
  <1>1. issued \in Nat /\ NDispatch \in Nat /\ issued' \in 0..NDispatch
    BY RingAssumption DEF RingTypeOK
  <1>2. marks' \in Seq(Nat) BY <1>1 DEF RingTypeOK
  <1> QED BY <1>1, <1>2 DEF RingTypeOK

\* ...a look at the head...
LEMMA DrainType ==
  ASSUME RingTypeOK, Drain PROVE RingTypeOK'
  <1> USE DEF Drain, cardVars
  <1>1. head \in Nat /\ tail \in Nat /\ drop \in Nat /\ Slots \in Nat
    BY RingAssumption DEF RingTypeOK
  <1>2. tail' \in Nat /\ drop' \in Nat /\ h' \in Nat BY <1>1 DEF RingTypeOK
  <1> QED BY <1>2 DEF RingTypeOK

\* ...and a read.
LEMMA ReadType ==
  ASSUME RingTypeOK, ReadLayer \/ ReadCounts \/ PickRounds PROVE RingTypeOK'
  <1> USE DEF ReadLayer, ReadCounts, PickRounds, cardVars
  <1> DEFINE rec == slot[tail % Slots]
  <1>1. rec \in [layer : Nat, counts : Nat] BY SlotIndex DEF RingTypeOK
  <1>2. rec.layer \in Nat /\ rec.counts \in Nat BY <1>1
  <1>3. tail \in Nat /\ seen \in Nat /\ lay \in Nat BY DEF RingTypeOK
  <1> HIDE DEF rec
  <1>4. CASE ReadLayer
    <2>1. lay' \in Nat BY <1>2, <1>4 DEF rec
    <2> QED BY <1>4, <2>1 DEF RingTypeOK
  <1>5. CASE ReadCounts
    <2>1. got' \in [layer : Nat, counts : Nat] BY <1>2, <1>3, <1>5 DEF rec
    <2>2. tail' \in Nat /\ seen' \in Nat BY <1>3, <1>5
    <2>3. hpc' \in {"layer", "pick"} BY <1>5
    <2> QED BY <1>5, <2>1, <2>2, <2>3 DEF RingTypeOK
  <1>6. CASE PickRounds BY <1>6 DEF RingTypeOK
  <1> QED BY <1>4, <1>5, <1>6

\* No step of the ring leaves its types.
LEMMA RingTypeStep == ASSUME RingTypeOK, [RingNext]_vars PROVE RingTypeOK'
  <1>1. CASE PublishHead BY <1>1 DEF PublishHead, readVars, RingTypeOK
  <1>2. CASE UNCHANGED vars BY <1>2 DEF vars, cardVars, readVars, RingTypeOK
  <1> QED BY <1>1, <1>2, WriteType, LaunchType, DrainType, ReadType
          DEF RingNext, CardNext, HostNext

-----------------------------------------------------------------------------
\* The card may write: the record it overwrites was read long ago.
LEMMA WriterBehind ==
  ASSUME Gated, Tight, head < issued, NEW t \in tail..(head - 1)
  PROVE  t % Slots # head % Slots
  <1>1. t \in Nat /\ head \in Nat /\ t < head /\ head - t < Slots
    <2>1. issued <= tail + Lead + 2 /\ tail \in Nat /\ head \in Nat /\ issued \in Nat
      BY RingAssumption DEF Tight, RingTypeOK, Apart, Gated
    <2> QED BY <2>1, RingAssumption DEF Gated
  <1> QED BY <1>1, SlotsDiffer, RingAssumption

\* A record half written is not one the host is about to read.
LEMMA WriteInv ==
  ASSUME Gated, Tight, WriteCounts \/ WriteLayer PROVE Tight'
  <1> USE DEF WriteCounts, WriteLayer, readVars
  <1>0. RingTypeOK /\ MarksAreDense /\ Apart /\ RecordsHold /\ ExactSoFar BY DEF Tight
  <1>1. head \in Nat /\ tail \in Nat /\ head % Slots \in 0..(Slots - 1)
    BY <1>0, SlotIndex DEF RingTypeOK
  <1>2. head < issued BY <1>0 DEF Apart
  <1>3. RingTypeOK' BY <1>0, WriteType
  <1>4. MarksAreDense' /\ ExactSoFar'
    BY <1>0 DEF MarksAreDense, ExactSoFar
  <1>5. Apart' BY <1>0, <1>2 DEF Apart
  <1>6. RecordsHold'
    <2>1. ASSUME NEW t \in tail..(head - 1)
          PROVE  slot'[t % Slots] = [layer |-> t + 1, counts |-> t + 1]
      <3>1. t % Slots # head % Slots BY <1>2, WriterBehind
      <3>2. t \in Nat BY <1>1
      <3>3. t % Slots \in 0..(Slots - 1) BY <3>2, SlotIndex
      <3> DEFINE i == t % Slots
      <3>4. slot'[i] = slot[i] BY <1>0, <1>1, <3>1, <3>3 DEF RingTypeOK
      <3> QED BY <1>0, <3>4 DEF RecordsHold
    <2>2. wpc' # "idle" => slot'[head % Slots].counts = head + 1
      BY <1>0, <1>1 DEF RecordsHold, RingTypeOK
    <2>3. wpc' = "layer" => slot'[head % Slots].layer = head + 1
      BY <1>0, <1>1 DEF RecordsHold, RingTypeOK
    <2> QED BY <1>0, <2>1, <2>2, <2>3 DEF RecordsHold
  <1> QED BY <1>3, <1>4, <1>5, <1>6 DEF Tight

\* A published record is whole.
LEMMA PublishHeadInv ==
  ASSUME Gated, Tight, PublishHead PROVE Tight'
  <1> USE DEF PublishHead, readVars
  <1>0. RingTypeOK /\ MarksAreDense /\ Apart /\ RecordsHold /\ ExactSoFar BY DEF Tight
  <1>1. /\ head \in Nat /\ tail \in Nat /\ h \in Nat /\ issued \in Nat
        /\ head % Slots \in 0..(Slots - 1)
    <2>1. head \in Nat /\ tail \in Nat /\ h \in Nat /\ issued \in Nat
      BY <1>0, RingAssumption DEF RingTypeOK
    <2> QED BY <2>1, SlotIndex
  <1>2. RingTypeOK' BY <1>0 DEF RingTypeOK
  <1>3. MarksAreDense' /\ ExactSoFar'
    BY <1>0 DEF MarksAreDense, ExactSoFar
  <1>4. Apart' BY <1>0, <1>1, RingAssumption DEF Apart, Gated
  <1>5. RecordsHold'
    <2>1. slot[head % Slots] = [layer |-> head + 1, counts |-> head + 1]
      BY <1>0, <1>1 DEF RecordsHold, RingTypeOK
    <2>2. ASSUME NEW t \in tail..head
          PROVE  slot[t % Slots] = [layer |-> t + 1, counts |-> t + 1]
      <3>1. CASE t = head BY <2>1, <3>1
      <3>2. CASE t # head
        <4>1. t \in tail..(head - 1) BY <1>1, <3>2
        <4> QED BY <1>0, <4>1 DEF RecordsHold
      <3> QED BY <3>1, <3>2
    <2>3. tail'..(head' - 1) = tail..head BY <1>1
    <2> QED BY <1>0, <2>2, <2>3 DEF RecordsHold
  <1> QED BY <1>2, <1>3, <1>4, <1>5 DEF Tight

\* The gate holds the host within Lead dispatches of the card, so within a ring of its own tail.
LEMMA LaunchInv ==
  ASSUME Gated, Tight, AllGated', Launch PROVE Tight'
  <1> USE DEF Launch, cardVars, readVars
  <1>0. RingTypeOK /\ MarksAreDense /\ Apart /\ RecordsHold /\ ExactSoFar BY DEF Tight
  <1>1. head \in Nat /\ tail \in Nat /\ issued \in Nat /\ NDispatch \in Nat /\ Lead \in Nat \ {0}
    BY <1>0, RingAssumption DEF RingTypeOK, Gated
  <1>a. issued + 1 \notin Wide BY <1>1 DEF AllGated
  <1>2. marks' = Append(marks, issued) BY <1>1, <1>a
  <1>3. RingTypeOK' BY <1>0, LaunchType
  <1>4. MarksAreDense'
    <2>1. Len(marks') = issued' BY <1>0, <1>1, <1>2 DEF RingTypeOK, MarksAreDense
    <2>2. ASSUME NEW i \in 1..issued' PROVE marks'[i] = i - 1
      BY <1>0, <1>1, <1>2 DEF RingTypeOK, MarksAreDense
    <2> QED BY <2>1, <2>2 DEF MarksAreDense
  <1>5. issued <= head + Lead
    <2>1. CASE issued < Lead BY <1>1, <2>1
    <2>2. CASE issued >= Lead
      <3>1. Len(marks) = issued BY <1>0 DEF MarksAreDense
      <3>2. head >= marks[issued - Lead + 1] BY <1>1, <1>a, <2>2, <3>1 DEF GateOpen
      <3>3. issued - Lead + 1 \in 1..issued BY <1>1, <2>2
      <3>4. marks[issued - Lead + 1] = issued - Lead BY <1>0, <1>1, <3>3 DEF MarksAreDense
      <3> QED BY <1>1, <3>2, <3>4
    <2> QED BY <1>1, <2>1, <2>2
  <1>6. Apart' BY <1>0, <1>1, <1>5 DEF Apart
  <1>7. RecordsHold' /\ ExactSoFar' BY <1>0 DEF RecordsHold, ExactSoFar
  <1> QED BY <1>3, <1>4, <1>6, <1>7 DEF Tight

\* Nothing is dropped: the head is less than a ring ahead.
LEMMA DrainInv ==
  ASSUME Gated, Tight, Drain PROVE Tight'
  <1> USE DEF Drain, cardVars
  <1>0. RingTypeOK /\ MarksAreDense /\ Apart /\ RecordsHold /\ ExactSoFar BY DEF Tight
  <1>1. head \in Nat /\ tail \in Nat /\ issued \in Nat /\ Lead \in Nat /\ Slots \in Nat
    BY <1>0, RingAssumption DEF RingTypeOK, Gated
  <1>2. ~(head - tail > Slots) /\ tail' = tail /\ drop' = drop
    <2>1. head - tail <= Slots
      <3>1. issued <= tail + Lead + 2 /\ head <= issued BY <1>0 DEF Apart
      <3> QED BY <1>1, <3>1 DEF Gated
    <2> QED BY <1>1, <2>1
  <1>3. RingTypeOK' BY <1>0, <1>2 DEF RingTypeOK
  <1>4. MarksAreDense' /\ ExactSoFar'
    BY <1>0, <1>2 DEF MarksAreDense, ExactSoFar
  <1>5. Apart' BY <1>0, <1>1, <1>2 DEF Apart
  <1>6. RecordsHold' BY <1>0, <1>2 DEF RecordsHold
  <1> QED BY <1>3, <1>4, <1>5, <1>6 DEF Tight

\* What is read is the dispatch the host counts to.
LEMMA ReadInv ==
  ASSUME Gated, Tight, ReadLayer \/ ReadCounts \/ PickRounds PROVE Tight'
  <1> USE DEF ReadLayer, ReadCounts, PickRounds, cardVars
  <1>0. RingTypeOK /\ MarksAreDense /\ Apart /\ RecordsHold /\ ExactSoFar BY DEF Tight
  <1>1. head \in Nat /\ tail \in Nat /\ h \in Nat /\ issued \in Nat /\ Lead \in Nat
    BY <1>0, RingAssumption DEF RingTypeOK, Gated
  <1>2. hpc # "pick" => slot[tail % Slots] = [layer |-> tail + 1, counts |-> tail + 1]
    <2>1. hpc # "pick" => tail \in tail..(head - 1) BY <1>0, <1>1 DEF Apart
    <2> QED BY <1>0, <2>1 DEF RecordsHold
  <1>3. RingTypeOK' BY <1>0, ReadType
  <1>4. MarksAreDense' BY <1>0 DEF MarksAreDense
  <1>5. ExactSoFar' BY <1>0, <1>1, <1>2 DEF ExactSoFar, RecordsHold
  <1>6. Apart' BY <1>0, <1>1 DEF Apart
  <1>7. RecordsHold'
    <2>1. ASSUME NEW t \in tail'..(head - 1) PROVE t \in tail..(head - 1) BY <1>1
    <2> QED BY <1>0, <1>2, <2>1 DEF RecordsHold
  <1> QED BY <1>3, <1>4, <1>5, <1>6, <1>7 DEF Tight

\* The five facts hold together.
LEMMA TightStep == ASSUME Gated, Tight, AllGated', [RingNext]_vars PROVE Tight'
  <1>1. CASE CardNext BY <1>1, WriteInv, PublishHeadInv DEF CardNext
  <1>2. CASE HostNext BY <1>2, LaunchInv, DrainInv, ReadInv DEF HostNext
  <1>3. CASE UNCHANGED vars
    BY <1>3 DEF vars, cardVars, readVars, Tight, RingTypeOK, MarksAreDense, Apart, RecordsHold,
       ExactSoFar
  <1> QED BY <1>1, <1>2, <1>3 DEF RingNext

\* A run that is all gated after a step was so before it.
LEMMA GatedBefore == ASSUME RingTypeOK, [RingNext]_vars, AllGated' PROVE AllGated
  <1>1. issued' \in {issued, issued + 1}
    BY DEF RingNext, CardNext, HostNext, WriteCounts, WriteLayer, PublishHead, Launch, Drain,
       ReadLayer, ReadCounts, PickRounds, vars, cardVars, readVars
  <1>2. issued \in Nat BY RingAssumption DEF RingTypeOK
  <1> QED BY <1>1, <1>2 DEF AllGated

\* Past the gate nothing is promised, and before it everything is.
LEMMA RingStepInv == ASSUME Gated PROVE RingInv /\ [RingNext]_vars => RingInv'
  <1> SUFFICES ASSUME RingInv, [RingNext]_vars PROVE RingInv' OBVIOUS
  <1>1. RingTypeOK' BY RingTypeStep DEF RingInv
  <1>2. ASSUME AllGated' PROVE Tight'
    <2>1. AllGated BY <1>2, GatedBefore DEF RingInv
    <2>2. Tight BY <2>1 DEF RingInv, Tight
    <2> QED BY <1>2, <2>2, TightStep
  <1> QED BY <1>1, <1>2 DEF RingInv, Tight

-----------------------------------------------------------------------------
\* A gate two smaller than the ring is all the back-pressure the ring needs: until a
\* dispatch passes it no record is dropped, torn, read twice or read out of order.
THEOREM GateIsEnough == ASSUME Gated PROVE RingSpec => []HeatSeesEveryDispatch
  <1>1. RingInit => RingInv BY RingInitInv
  <1>2. RingInv /\ [RingNext]_vars => RingInv' BY RingStepInv
  <1>3. RingInv => HeatSeesEveryDispatch BY DEF RingInv, HeatSeesEveryDispatch
  <1> QED BY <1>1, <1>2, <1>3, PTL DEF RingSpec

-----------------------------------------------------------------------------
(* Choosing from a finite set.                                             *)

\* In a finite set there is an element that none beats, for any order.
LEMMA Unbeaten ==
  ASSUME NEW C, IsFiniteSet(C), C # {}, NEW R,
         \A x \in C : <<x, x>> \notin R,
         \A x, y, z \in C : <<x, y>> \in R /\ <<y, z>> \in R => <<x, z>> \in R
  PROVE  \E x \in C : \A y \in C : <<y, x>> \notin R
<1> DEFINE B(x) == {y \in C : <<y, x>> \in R}
<1> DEFINE T == {B(x) : x \in C}
<1> DEFINE O == StrictSubsetOrdering(C)
<1>1. T \subseteq FiniteSubsetsOf(C) /\ T # {}
  <2>1. FiniteSubsetsOf(C) = SUBSET C
    BY FS_FiniteSubsetsOfFinite
  <2>2. \A x \in C : B(x) \in SUBSET C
    OBVIOUS
  <2> HIDE DEF B
  <2> QED BY <2>1, <2>2
<1>2. PICK b \in T : \A a \in T : <<a, b>> \notin O
  <2>1. IsWellFoundedOn(O, FiniteSubsetsOf(C))
    BY FS_StrictSubsetOrderingWellFounded
  <2> HIDE DEF T, O
  <2> QED BY <1>1, <2>1, WFMin
<1>3. PICK x \in C : b = B(x)
  OBVIOUS
<1>4. ASSUME NEW y \in C, <<y, x>> \in R PROVE FALSE
  <2>1. B(y) \subseteq B(x) /\ y \in B(x) /\ y \notin B(y)
    BY <1>4
  <2>2. <<B(y), B(x)>> \in O
    BY <2>1 DEF StrictSubsetOrdering
  <2> QED BY <1>2, <1>3, <2>2
<1> QED BY <1>4

\* A finite set of integers has a least member.
LEMMA LeastOf ==
  ASSUME NEW S, S \subseteq Int, IsFiniteSet(S), S # {}
  PROVE  Min(S) \in S /\ \A y \in S : Min(S) <= y
<1> DEFINE R == {p \in S \X S : p[1] < p[2]}
<1>1. PICK x \in S : \A y \in S : <<y, x>> \notin R
  <2>1. \A a \in S : <<a, a>> \notin R
    OBVIOUS
  <2>2. \A a, b, c \in S : <<a, b>> \in R /\ <<b, c>> \in R => <<a, c>> \in R
    OBVIOUS
  <2> HIDE DEF R
  <2> QED BY <2>1, <2>2, Unbeaten
<1>2. \A y \in S : x <= y
  <2> TAKE y \in S
  <2>1. <<y, x>>[1] = y /\ <<y, x>>[2] = x /\ <<y, x>> \in S \X S
    OBVIOUS
  <2>2. ~(y < x)
    BY <1>1, <2>1
  <2> QED BY <2>2
<1> QED BY <1>2 DEF Min

\* The members of a finite set of integers, counted from below.
LEMMA Ranked ==
  ASSUME NEW M, M \subseteq Int, IsFiniteSet(M), NEW k \in 1..Cardinality(M)
  PROVE  \E i \in M : Cardinality({j \in M : j < i}) = k - 1
<1> DEFINE n == Cardinality(M)
<1> DEFINE Below(i) == {j \in M : j < i}
<1> DEFINE rank == [i \in M |-> Cardinality(Below(i))]
<1>1. n \in Nat
  BY FS_CardinalityType
<1>2. \A i \in M : Cardinality(Below(i)) \in Nat /\ IsFiniteSet(Below(i)) /\ Cardinality(Below(i)) < n
  <2> TAKE i \in M
  <2>1. Below(i) \in SUBSET M /\ Below(i) # M
    OBVIOUS
  <2> HIDE DEF Below
  <2> QED BY <1>1, <2>1, FS_Subset, FS_CardinalityType
<1>3. \A i, j \in M : i < j => rank[i] < rank[j]
  <2> TAKE i, j \in M
  <2> HAVE i < j
  <2>1. Below(i) \in SUBSET Below(j) /\ Below(i) # Below(j)
    <3>1. i \in Below(j) /\ i \notin Below(i)
      OBVIOUS
    <3>2. \A z \in M : z < i => z < j
      OBVIOUS
    <3> QED BY <3>1, <3>2
  <2>2. rank[i] = Cardinality(Below(i)) /\ rank[j] = Cardinality(Below(j))
    OBVIOUS
  <2> HIDE DEF Below, rank
  <2> QED BY <1>2, <2>1, <2>2, FS_Subset
<1>4. rank \in Injection(M, 0..(n - 1))
  <2>1. rank \in [M -> 0..(n - 1)]
    BY <1>1, <1>2
  <2>2. \A i, j \in M : rank[i] = rank[j] => i = j
    <3> TAKE i, j \in M
    <3>1. rank[i] \in Int /\ rank[j] \in Int /\ i \in Int /\ j \in Int
      BY <1>1, <2>1
    <3> HIDE DEF rank
    <3> QED BY <1>3, <3>1
  <2> HIDE DEF rank
  <2> QED BY <2>1, <2>2 DEF Injection, IsInjective
<1>5. IsFiniteSet(0..(n - 1)) /\ Cardinality(0..(n - 1)) = n
  <2>1. 0 \in Int /\ n - 1 \in Int /\ (0 > n - 1 => n = 0) /\ n - 1 - 0 + 1 = n
    BY <1>1
  <2> HIDE DEF n
  <2> QED BY <2>1, FS_Interval
<1>6. rank \in Surjection(M, 0..(n - 1))
  <2> HIDE DEF rank
  <2> QED BY <1>4, <1>5, FS_Injection
<1>7. k - 1 \in 0..(n - 1)
  BY <1>1
<1>8. \E i \in M : rank[i] = k - 1
  <2> HIDE DEF rank
  <2> QED BY <1>6, <1>7 DEF Surjection
<1> QED BY <1>8

\* Indices are finite, and split into a layer and an expert.
LEMMA IdxFacts ==
  /\ Idx \subseteq Nat /\ IsFiniteSet(Idx)
  /\ \A i \in Idx : LayerOf(i) \in 0..(NLayer - 1) /\ i % NExpert \in 0..(NExpert - 1)
<1>1. NLayer \in Nat \ {0} /\ NExpert \in Nat \ {0}
  BY HeatAssumption
<1> DEFINE N == NLayer * NExpert
<1>2. N \in Nat
  BY <1>1
<1>3. Idx = 0..(N - 1)
  BY DEF Idx
<1>4. Idx \subseteq Nat
  <2> HIDE DEF N
  <2> QED BY <1>2, <1>3
<1>5. IsFiniteSet(Idx)
  BY FiniteAssumption, EngineAssumption
<1>6. ASSUME NEW i \in Idx PROVE LayerOf(i) \in 0..(NLayer - 1) /\ i % NExpert \in 0..(NExpert - 1)
  <2> DEFINE q == i \div NExpert
  <2>1. i \in Nat /\ i < N
    <3> HIDE DEF N
    <3> QED BY <1>2, <1>3
  <2>2. q \in Int /\ i % NExpert \in 0..(NExpert - 1) /\ i = NExpert * q + (i % NExpert)
    BY <1>1, <2>1
  <2>3. i % NExpert \in Nat /\ i % NExpert < NExpert
    BY <1>1, <2>2
  <2>4. q >= 0
    BY <1>1, <2>1
  <2> HIDE DEF q
  <2>5. q < NLayer
    <3>1. SUFFICES ASSUME q >= NLayer PROVE FALSE
      BY <1>1, <2>2
    <3>2. PICK x \in Nat : q = NLayer + x
      BY <1>1, <2>2, <3>1
    <3>3. NExpert * q = N + NExpert * x /\ NExpert * x \in Nat
      BY <1>1, <3>2
    <3> HIDE DEF N
    <3> QED BY <1>1, <1>2, <2>1, <2>2, <2>3, <3>3
  <2>6. LayerOf(i) = q
    BY DEF LayerOf, q
  <2> QED BY <1>1, <2>2, <2>4, <2>5, <2>6
<1> QED BY <1>4, <1>5, <1>6

-----------------------------------------------------------------------------
(* Heat's own steps: an observation, a choice, a move.                     *)

\* The tiers.
TierNames == {"Vram", "Pool", "Ssd"}

\* An object of ExpertHeat.
Heats ==
  [heat : [Idx -> Nat], tier : [Idx -> TierNames], ticks : Nat, demand : Seq(Idx),
   res : [0..(NLayer - 1) -> Nat]]

\* Three keys in order have a least element.
LEMMA Lexical ==
  ASSUME NEW C, IsFiniteSet(C), C # {},
         NEW f \in [C -> Int], NEW g \in [C -> Int], NEW h0 \in [C -> Int]
  PROVE  \E i \in C : \A j \in C :
           \/ f[i] < f[j]
           \/ f[i] = f[j] /\ (g[i] < g[j] \/ (g[i] = g[j] /\ h0[i] <= h0[j]))
<1> DEFINE Less(i, j) == \/ f[i] < f[j]
                         \/ f[i] = f[j] /\ (g[i] < g[j] \/ (g[i] = g[j] /\ h0[i] < h0[j]))
<1> DEFINE R == {p \in C \X C : Less(p[1], p[2])}
<1>1. \A i, j \in C : <<i, j>> \in R <=> Less(i, j)
  <2> TAKE i, j \in C
  <2>1. <<i, j>> \in C \X C /\ <<i, j>>[1] = i /\ <<i, j>>[2] = j
    OBVIOUS
  <2> HIDE DEF Less
  <2> QED BY <2>1
<1>2. \A i \in C : f[i] \in Int /\ g[i] \in Int /\ h0[i] \in Int
  OBVIOUS
<1>3. \A i \in C : ~Less(i, i)
  BY <1>2
<1>4. \A i, j, k \in C : Less(i, j) /\ Less(j, k) => Less(i, k)
  BY <1>2
<1>5. \A i, j \in C : ~Less(j, i) =>
        \/ f[i] < f[j]
        \/ f[i] = f[j] /\ (g[i] < g[j] \/ (g[i] = g[j] /\ h0[i] <= h0[j]))
  BY <1>2
<1>6. \E i \in C : \A j \in C : <<j, i>> \notin R
  <2> HIDE DEF R, Less
  <2>1. \A i \in C : <<i, i>> \notin R
    BY <1>1, <1>3
  <2>2. \A i, j, k \in C : <<i, j>> \in R /\ <<j, k>> \in R => <<i, k>> \in R
    BY <1>1, <1>4
  <2> QED BY <2>1, <2>2, Unbeaten
<1> HIDE DEF R, Less
<1> QED BY <1>1, <1>5, <1>6

\* The fields of an object that the choices read.
LEMMA HeatFields ==
  ASSUME NEW x \in Heats, NEW C, C \subseteq Idx
  PROVE  /\ IsFiniteSet(C)
         /\ \A i \in C : x.heat[i] \in Int /\ x.res[LayerOf(i)] \in Int /\ i \in Int
<1>1. IsFiniteSet(C)
  BY IdxFacts, FS_Subset
<1>2. ASSUME NEW i \in C PROVE x.heat[i] \in Int /\ x.res[LayerOf(i)] \in Int /\ i \in Int
  <2>1. i \in Idx /\ i \in Nat /\ LayerOf(i) \in 0..(NLayer - 1)
    BY IdxFacts
  <2>2. x.heat \in [Idx -> Nat] /\ x.res \in [0..(NLayer - 1) -> Nat]
    BY DEF Heats
  <2> DEFINE l == LayerOf(i)
  <2>3. x.heat[i] \in Nat
    BY <2>2
  <2>4. l \in 0..(NLayer - 1)
    BY <2>1
  <2>5. x.res[l] \in Nat
    <3> HIDE DEF l
    <3> QED BY <2>2, <2>4
  <2> QED BY <2>1, <2>3, <2>5
<1> QED BY <1>1, <1>2

\* The hottest of a tier is one of it.
LEMMA HottestIn ==
  ASSUME NEW x \in Heats, NEW C, C \subseteq Idx, C # {} PROVE Hottest(x, C) \in C
<1> DEFINE f == [i \in C |-> -x.heat[i]]
<1> DEFINE g == [i \in C |-> x.res[LayerOf(i)]]
<1> DEFINE k == [i \in C |-> i]
<1>1. IsFiniteSet(C) /\ \A i \in C : x.heat[i] \in Int /\ x.res[LayerOf(i)] \in Int /\ i \in Int
  BY HeatFields
<1>2. f \in [C -> Int] /\ g \in [C -> Int] /\ k \in [C -> Int]
  BY <1>1
<1>3. \E i \in C : \A j \in C :
           \/ f[i] < f[j]
           \/ f[i] = f[j] /\ (g[i] < g[j] \/ (g[i] = g[j] /\ k[i] <= k[j]))
  <2> HIDE DEF f, g, k
  <2>1. IsFiniteSet(C) /\ C # {}
    BY <1>1
  <2> QED BY ONLY <1>2, <2>1, Lexical, SMTT(60)
<1>4. \A i \in C, j \in C :
        /\ f[i] < f[j] => x.heat[i] > x.heat[j]
        /\ f[i] = f[j] => x.heat[i] = x.heat[j]
        /\ g[i] = x.res[LayerOf(i)] /\ g[j] = x.res[LayerOf(j)] /\ k[i] = i /\ k[j] = j
  BY <1>1
<1>5. \E i \in C : \A j \in C :
        \/ x.heat[i] > x.heat[j]
        \/ x.heat[i] = x.heat[j] /\ (x.res[LayerOf(i)] < x.res[LayerOf(j)]
                                     \/ (x.res[LayerOf(i)] = x.res[LayerOf(j)] /\ i <= j))
  <2> HIDE DEF f, g, k
  <2> QED BY <1>3, <1>4
<1> QED BY <1>5 DEF Hottest

\* ...and so is the coldest.
LEMMA ColdestIn ==
  ASSUME NEW x \in Heats, NEW C, C \subseteq Idx, C # {} PROVE Coldest(x, C) \in C
<1> DEFINE f == [i \in C |-> x.heat[i]]
<1> DEFINE g == [i \in C |-> -x.res[LayerOf(i)]]
<1> DEFINE k == [i \in C |-> i]
<1>1. IsFiniteSet(C) /\ \A i \in C : x.heat[i] \in Int /\ x.res[LayerOf(i)] \in Int /\ i \in Int
  BY HeatFields
<1>2. f \in [C -> Int] /\ g \in [C -> Int] /\ k \in [C -> Int]
  BY <1>1
<1>3. \E i \in C : \A j \in C :
           \/ f[i] < f[j]
           \/ f[i] = f[j] /\ (g[i] < g[j] \/ (g[i] = g[j] /\ k[i] <= k[j]))
  <2> HIDE DEF f, g, k
  <2>1. IsFiniteSet(C) /\ C # {}
    BY <1>1
  <2> QED BY ONLY <1>2, <2>1, Lexical, SMTT(60)
<1>4. \A i \in C, j \in C :
        /\ g[i] < g[j] => x.res[LayerOf(i)] > x.res[LayerOf(j)]
        /\ g[i] = g[j] => x.res[LayerOf(i)] = x.res[LayerOf(j)]
        /\ f[i] = x.heat[i] /\ f[j] = x.heat[j] /\ k[i] = i /\ k[j] = j
  BY <1>1
<1>5. \E i \in C : \A j \in C :
        \/ x.heat[i] < x.heat[j]
        \/ x.heat[i] = x.heat[j] /\ (x.res[LayerOf(i)] > x.res[LayerOf(j)]
                                     \/ (x.res[LayerOf(i)] = x.res[LayerOf(j)] /\ i <= j))
  <2> HIDE DEF f, g, k
  <2> QED BY <1>3, <1>4
<1> QED BY <1>5 DEF Coldest

\* What a pick may answer: at most one pair, of a pooled and a resident expert that
\* no transfer has, and an object that differs in the demand list alone.
Answer(x, b, f) ==
  /\ f.hs \in Heats /\ f.hs.tier = x.tier /\ f.hs.res = x.res
  /\ \A p \in f.pairs :
       /\ p.up \in Idx /\ x.tier[p.up] = "Pool" /\ ~b[p.up]
       /\ p.down \in Idx /\ x.tier[p.down] = "Vram" /\ ~b[p.down]

\* The policy's pairs are in their tiers and free.
LEMMA PickAnswers ==
  ASSUME NEW x \in Heats, NEW b PROVE Answer(x, b, Pick(x, b))
<1> DEFINE P == InTier(x, b, "Pool")
<1> DEFINE V == InTier(x, b, "Vram")
<1>1. P \subseteq Idx /\ V \subseteq Idx
  BY DEF InTier
<1>2. \A i \in P : x.tier[i] = "Pool" /\ ~b[i]
  BY DEF InTier
<1>3. \A i \in V : x.tier[i] = "Vram" /\ ~b[i]
  BY DEF InTier
<1> HIDE DEF P, V
<1>4. P # {} => Hottest(x, P) \in P
  BY <1>1, HottestIn
<1>5. V # {} => Coldest(x, V) \in V
  BY <1>1, ColdestIn
<1> DEFINE pairs == IF Warm(x) /\ P # {} /\ V # {} /\ Worth(x, Hottest(x, P), Coldest(x, V))
                    THEN {[up |-> Hottest(x, P), down |-> Coldest(x, V)]} ELSE {}
<1>6. Pick(x, b) = [hs |-> x, pairs |-> pairs]
  BY DEF Pick, Found, P, V
<1>7. \A p \in pairs : p.up \in P /\ p.down \in V
  BY <1>4, <1>5
<1> HIDE DEF pairs
<1> QED BY <1>1, <1>2, <1>3, <1>6, <1>7 DEF Answer

\* So are the pairs a dispatch on the host asks for.
LEMMA DemandAnswers ==
  ASSUME NEW x \in Heats, NEW b PROVE Answer(x, b, PickDemand(x, b))
<1> DEFINE P == InTier(x, b, "Pool")
<1> DEFINE V == InTier(x, b, "Vram")
<1>1. P \subseteq Idx /\ V \subseteq Idx
  BY DEF InTier
<1>2. \A i \in P : x.tier[i] = "Pool" /\ ~b[i]
  BY DEF InTier
<1>3. \A i \in V : x.tier[i] = "Vram" /\ ~b[i]
  BY DEF InTier
<1> HIDE DEF P, V
<1>4. V # {} => Coldest(x, V) \in V
  BY <1>1, ColdestIn
<1>5. x.demand \in Seq(Idx)
  BY DEF Heats
<1>6. ASSUME NEW s \in Seq(Idx) PROVE LET y == [x EXCEPT !.demand = s] IN
        y \in Heats /\ y.tier = x.tier /\ y.res = x.res
  BY DEF Heats
<1>7. <<>> \in Seq(Idx)
  OBVIOUS
<1> DEFINE stops == {k \in DOMAIN x.demand :
                       x.demand[k] \in P /\ (V = {} \/ Worth(x, x.demand[k], Coldest(x, V)))}
<1> DEFINE k == Min(stops)
<1>8. PickDemand(x, b) = IF ~Warm(x) THEN Found(x, {})
        ELSE IF stops = {} THEN Found([x EXCEPT !.demand = <<>>], {})
        ELSE Found([x EXCEPT !.demand = SubSeq(x.demand, k + 1, Len(x.demand))],
                   IF V = {} THEN {} ELSE {[up |-> x.demand[k], down |-> Coldest(x, V)]})
  BY DEF PickDemand, P, V
<1>9. stops # {} => k \in stops
  <2>1. DOMAIN x.demand = 1..Len(x.demand) /\ Len(x.demand) \in Nat
    BY <1>5
  <2>2. IsFiniteSet(stops) /\ stops \subseteq Int
    <3>1. IsFiniteSet(1..Len(x.demand))
      BY <2>1, FS_Interval
    <3>2. stops \in SUBSET (1..Len(x.demand)) /\ 1..Len(x.demand) \subseteq Int
      BY <2>1
    <3> HIDE DEF stops
    <3> QED BY <3>1, <3>2, FS_Subset
  <2> HIDE DEF stops
  <2> QED BY <2>2, LeastOf
<1>10. stops # {} => k \in 1..Len(x.demand) /\ x.demand[k] \in P
  <2>1. \A j \in stops : j \in 1..Len(x.demand) /\ x.demand[j] \in P
    BY <1>5
  <2> HIDE DEF stops
  <2> QED BY <1>9, <2>1
<1> HIDE DEF stops, k
<1>11. stops # {} => SubSeq(x.demand, k + 1, Len(x.demand)) \in Seq(Idx)
  BY <1>5, <1>10
<1>12. CASE ~Warm(x)
  BY <1>8, <1>12 DEF Answer, Found
<1>13. CASE Warm(x) /\ stops = {}
  <2> DEFINE y == [x EXCEPT !.demand = <<>>]
  <2>1. y \in Heats /\ y.tier = x.tier /\ y.res = x.res
    BY <1>6, <1>7
  <2>2. PickDemand(x, b) = [hs |-> y, pairs |-> {}]
    BY <1>8, <1>13 DEF Found
  <2> HIDE DEF y
  <2> QED BY <2>1, <2>2 DEF Answer
<1>14. CASE Warm(x) /\ stops # {}
  <2> DEFINE s == SubSeq(x.demand, k + 1, Len(x.demand))
  <2> DEFINE pairs == IF V = {} THEN {} ELSE {[up |-> x.demand[k], down |-> Coldest(x, V)]}
  <2>1. s \in Seq(Idx)
    BY <1>11, <1>14
  <2> DEFINE y == [x EXCEPT !.demand = s]
  <2>2. PickDemand(x, b) = [hs |-> y, pairs |-> pairs]
    BY <1>8, <1>14 DEF Found
  <2>4. y \in Heats /\ y.tier = x.tier /\ y.res = x.res
    BY <1>6, <2>1
  <2>3. \A p \in pairs : p.up \in P /\ p.down \in V
    BY <1>4, <1>10, <1>14
  <2> HIDE DEF y, pairs
  <2> QED BY <1>1, <1>2, <1>3, <2>2, <2>3, <2>4 DEF Answer
<1> QED BY <1>12, <1>13, <1>14

\* What a dispatch selected moves no expert.
LEMMA ObserveKeeps ==
  ASSUME NEW x \in Heats, NEW r \in Routes
  PROVE  LET y == Observe(x, r.layer, r.counts) IN
         y \in Heats /\ y.tier = x.tier /\ y.res = x.res
<1> DEFINE heat == [i \in Idx |-> IF LayerOf(i) = r.layer
                                  THEN Decayed(x.heat[i]) + Credit * r.counts[i % NExpert]
                                  ELSE x.heat[i]]
<1>1. x.heat \in [Idx -> Nat] /\ x.ticks \in Nat /\ r.counts \in [0..(NExpert - 1) -> Nat]
  BY DEF Heats, Routes
<1>2. ASSUME NEW i \in Idx PROVE heat[i] \in Nat
  <2>1. x.heat[i] \in Nat
    BY <1>1
  <2>2. Decayed(x.heat[i]) \in Nat
    <3> DEFINE v == x.heat[i] * Decay.n
    <3>1. v \in Nat /\ Decay.d \in Nat \ {0}
      BY <2>1, HeatAssumption
    <3> HIDE DEF v
    <3>2. v \div Decay.d \in Nat
      BY <3>1
    <3> QED BY <3>2 DEF Decayed, v
  <2>3. Credit * r.counts[i % NExpert] \in Nat
    <3>1. i % NExpert \in 0..(NExpert - 1)
      BY IdxFacts
    <3>2. r.counts[i % NExpert] \in Nat /\ Credit \in Nat
      BY <1>1, <3>1, HeatAssumption
    <3> QED BY <3>2
  <2> QED BY <2>1, <2>2, <2>3
<1>3. heat \in [Idx -> Nat]
  BY <1>2
<1>4. Observe(x, r.layer, r.counts) = [x EXCEPT !.ticks = x.ticks + 1, !.heat = heat]
  BY DEF Observe, Heats
<1> HIDE DEF heat
<1>5. [x EXCEPT !.ticks = x.ticks + 1, !.heat = heat] \in Heats
  <2> DEFINE z == [x EXCEPT !.ticks = x.ticks + 1]
  <2>1. z \in Heats
    <3> DEFINE n == x.ticks + 1
    <3>1. n \in Nat
      BY <1>1
    <3> HIDE DEF n
    <3>2. [x EXCEPT !.ticks = n] \in Heats
      BY ONLY <3>1, x \in Heats DEF Heats
    <3> QED BY <3>2 DEF n
  <2>2. [z EXCEPT !.heat = heat] \in Heats
    <3> HIDE DEF z
    <3> QED BY <1>3, <2>1 DEF Heats
  <2> QED BY <2>2
<1>6. [x EXCEPT !.ticks = x.ticks + 1, !.heat = heat].tier = x.tier
      /\ [x EXCEPT !.ticks = x.ticks + 1, !.heat = heat].res = x.res
  BY DEF Heats
<1> QED BY <1>4, <1>5, <1>6

\* The misses of a dispatch are a list of experts.
LEMMA MissingIsList == ASSUME NEW d PROVE Missing(d) \in Seq(Idx)
<1> DEFINE M == {i \in Idx : LayerOf(i) = d.layer /\ d.counts[i % NExpert] > 0 /\ slabOf[i] = None}
<1> DEFINE Kth(k) == CHOOSE i \in M : Cardinality({j \in M : j < i}) = k - 1
<1>1. M \in SUBSET Idx
  OBVIOUS
<1>2. Missing(d) = [k \in 1..Cardinality(M) |-> Kth(k)]
  BY DEF Missing
<1> HIDE DEF M
<1>3. IsFiniteSet(M) /\ M \subseteq Int /\ Cardinality(M) \in Nat
  <2>1. IsFiniteSet(Idx) /\ Idx \subseteq Nat
    BY IdxFacts
  <2>2. IsFiniteSet(M)
    BY <1>1, <2>1, FS_Subset
  <2> QED BY <1>1, <2>1, <2>2, FS_CardinalityType
<1>4. \A k \in 1..Cardinality(M) : Kth(k) \in M
  BY <1>3, Ranked
<1> HIDE DEF Kth
<1> DEFINE n == Cardinality(M)
<1>5. [k \in 1..n |-> Kth(k)] \in [1..n -> Idx]
  BY <1>1, <1>4
<1> HIDE DEF n
<1>6. n \in Nat /\ Missing(d) \in [1..n -> Idx]
  BY <1>2, <1>3, <1>5 DEF n
<1> QED BY <1>6

\* The counts are kept as experts move.
LEMMA SetTierKeeps ==
  ASSUME NEW x \in Heats, x.res = ResidentPerLayer(x), NEW i \in Idx, NEW t \in TierNames
  PROVE  LET y == SetTier(x, i, t) IN
         y \in Heats /\ y.tier = [x.tier EXCEPT ![i] = t] /\ y.res = ResidentPerLayer(y)
<1> DEFINE Layers == 0..(NLayer - 1)
<1> DEFINE tier == [x.tier EXCEPT ![i] = t]
<1> DEFINE S(l) == {j \in Idx : LayerOf(j) = l /\ x.tier[j] = "Vram"}
<1> DEFINE T(l) == {j \in Idx : LayerOf(j) = l /\ tier[j] = "Vram"}
<1> DEFINE k == LayerOf(i)
<1> DEFINE n == IF x.tier[i] = "Vram" /\ t # "Vram" THEN x.res[k] - 1
                ELSE IF x.tier[i] # "Vram" /\ t = "Vram" THEN x.res[k] + 1 ELSE x.res[k]
<1> DEFINE res == [x.res EXCEPT ![k] = n]
<1> DEFINE y == [x EXCEPT !.tier = tier, !.res = res]
<1>1. x.tier \in [Idx -> TierNames] /\ x.res \in [Layers -> Nat] /\ k \in Layers
  BY IdxFacts DEF Heats
<1>2. tier \in [Idx -> TierNames] /\ tier[i] = t /\ \A j \in Idx : j # i => tier[j] = x.tier[j]
  BY <1>1
<1>3. SetTier(x, i, t) = y
  BY DEF SetTier, Heats
<1>4. \A l \in Layers : x.res[l] = Cardinality(S(l))
  BY DEF ResidentPerLayer
<1>5. \A l : S(l) \in SUBSET Idx /\ T(l) \in SUBSET Idx
  OBVIOUS
<1>6. \A l : IsFiniteSet(S(l)) /\ IsFiniteSet(T(l)) /\ Cardinality(T(l)) \in Nat
  <2> HIDE DEF S, T
  <2> QED BY <1>5, IdxFacts, FS_Subset, FS_CardinalityType
<1>7. ASSUME NEW l \in Layers, l # k PROVE T(l) = S(l)
  BY <1>2, <1>7
<1>8. Cardinality(T(k)) = n
  <2>0. x.res[k] = Cardinality(S(k))
    BY <1>1, <1>4
  <2>1. CASE x.tier[i] = "Vram" /\ t # "Vram"
    <3>1. T(k) = S(k) \ {i} /\ i \in S(k)
      BY <1>2, <2>1
    <3>2. n = x.res[k] - 1
      BY <2>1
    <3> HIDE DEF S, T, k, n
    <3> QED BY <1>6, <2>0, <3>1, <3>2, FS_RemoveElement
  <2>2. CASE x.tier[i] # "Vram" /\ t = "Vram"
    <3>1. T(k) = S(k) \cup {i} /\ i \notin S(k)
      BY <1>2, <2>2
    <3>2. n = x.res[k] + 1
      BY <2>2
    <3> HIDE DEF S, T, k, n
    <3> QED BY <1>6, <2>0, <3>1, <3>2, FS_AddElement
  <2>3. CASE x.tier[i] = "Vram" <=> t = "Vram"
    <3>1. T(k) = S(k)
      BY <1>2, <2>3
    <3>2. n = x.res[k]
      BY <2>3
    <3> HIDE DEF S, T, k, n
    <3> QED BY <2>0, <3>1, <3>2
  <2> HIDE DEF S, T, k, n
  <2> QED BY <2>1, <2>2, <2>3
<1>9. \A l \in Layers : res[l] = Cardinality(T(l)) /\ res[l] \in Nat
  <2> TAKE l \in Layers
  <2> HIDE DEF S, T, n
  <2>1. CASE l = k
    BY <1>1, <1>6, <1>8, <2>1
  <2>2. CASE l # k
    <3>1. T(l) = S(l) /\ x.res[l] = Cardinality(S(l))
      BY <1>4, <1>7, <2>2
    <3>2. res[l] = x.res[l]
      BY <1>1, <2>2
    <3> QED BY <1>6, <3>1, <3>2
  <2> QED BY <2>1, <2>2
<1>10. res \in [Layers -> Nat]
  <2>1. DOMAIN res = Layers /\ res = [l \in Layers |-> res[l]]
    BY <1>1
  <2> HIDE DEF res, Layers
  <2> QED BY <1>9, <2>1
<1> HIDE DEF res, tier
<1>11. y \in Heats /\ y.tier = tier /\ y.res = res
  BY <1>2, <1>10 DEF Heats
<1>12. ResidentPerLayer(y) = [l \in Layers |-> Cardinality(T(l))]
  BY <1>11 DEF ResidentPerLayer
<1>13. res = [l \in Layers |-> Cardinality(T(l))]
  <2>1. res = [l \in Layers |-> res[l]]
    BY <1>10
  <2> HIDE DEF T, Layers
  <2> QED BY <1>9, <2>1
<1> HIDE DEF T
<1> QED BY <1>3, <1>11, <1>12, <1>13 DEF tier

-----------------------------------------------------------------------------
(* The invariant, and the part of it about the ring.                       *)

\* Where a tick can be.
TickPlaces == {"none", "retire", "observe", "pick", "up", "down"}

\* A tick's locals.
Ticks ==
  [at : TickPlaces, host : BOOLEAN, rounds : Nat, left : Nat, up : Nat, down : Nat,
   moved : BOOLEAN]

\* Heat's object has its type...
HeatTypeOK == hs \in Heats

\* ...and the tick its own; a dispatch served on the host is one of the run's.
TickTypeOK ==
  /\ tick \in Ticks
  /\ hosts \in Nat /\ (tick.host => hosts \in 1..Len(HostRouted))

\* What the ring hands over has been written, whole or torn.
WrittenInv ==
  /\ RingTypeOK
  /\ head <= issued /\ (wpc # "idle" => head < issued)
  /\ hpc \in {"layer", "counts"} => tail < h /\ h <= head
  /\ \A i \in 0..(Slots - 1) : i < head =>
       slot[i].layer \in 1..NDispatch /\ slot[i].counts \in 1..NDispatch
  /\ wpc # "idle" => slot[head % Slots].counts \in 1..NDispatch
  /\ wpc = "layer" => slot[head % Slots].layer \in 1..NDispatch
  /\ hpc = "counts" => lay \in 1..NDispatch

\* What heat has named is still where heat saw it, and nothing moves it.
ChoiceInv ==
  /\ tick.at = "up" => tick.up \in Idx /\ hs.tier[tick.up] = "Pool" /\ ~busy[tick.up]
  /\ tick.at \in {"up", "down"} =>
       tick.rounds > 0 /\ tick.down \in Idx /\ hs.tier[tick.down] = "Vram" /\ ~busy[tick.down]

\* The invariant.  The named pairs outlive the step that names them, and the ledger's
\* guards ask for what ChoiceInv keeps: so the three need each other.
EngineInv ==
  LedgerInv /\ HeatTypeOK /\ TickTypeOK /\ WrittenInv /\ ChoiceInv /\ HeatAgreesWithTables

-----------------------------------------------------------------------------
(* The ring.                                                               *)

\* The first turn of the ring.
LEMMA ModBelow == ASSUME NEW S \in Nat \ {0}, NEW a \in Nat, a < S PROVE a % S = a
<1> DEFINE q == a \div S
<1>1. a = S * q + (a % S) /\ q \in Int /\ a % S \in 0..(S - 1)
  BY DivMod
<1>2. a % S \in Int /\ a % S >= 0 /\ a % S < S
  BY <1>1
<1> HIDE DEF q
<1>3. CASE q >= 1
  <2>1. S * q >= S /\ S * q \in Int
    BY <1>1, <1>3
  <2> QED BY <1>1, <1>2, <2>1
<1>4. CASE q <= -1
  <2>1. S * q <= -S /\ S * q \in Int
    BY <1>1, <1>4
  <2> QED BY <1>1, <1>2, <2>1
<1>5. CASE q = 0
  BY <1>1, <1>2, <1>5
<1> QED BY <1>1, <1>3, <1>4, <1>5

\* A slot read below the head has been written.
LEMMA SlotWritten ==
  ASSUME WrittenInv, NEW t \in Nat, t < head
  PROVE  slot[t % Slots].layer \in 1..NDispatch /\ slot[t % Slots].counts \in 1..NDispatch
<1>1. t % Slots \in 0..(Slots - 1)
  BY SlotIndex
<1>2. t % Slots <= t
  BY RingAssumption
<1>3. t % Slots < head
  BY <1>1, <1>2, RingAssumption DEF WrittenInv, RingTypeOK
<1> QED BY <1>1, <1>3 DEF WrittenInv

\* What the card publishes has been written.
LEMMA CardWrites ==
  ASSUME WrittenInv, CardNext, RingTypeOK' PROVE WrittenInv'
<1> DEFINE k == head % Slots
<1>1. /\ k \in 0..(Slots - 1) /\ head \in Nat /\ issued \in 0..NDispatch /\ NDispatch \in Nat
      /\ Slots \in Nat \ {0} /\ slot \in [0..(Slots - 1) -> [layer : Nat, counts : Nat]]
  BY SlotIndex, RingAssumption DEF WrittenInv, RingTypeOK
<1>2. head < issued => head + 1 \in 1..NDispatch
  BY <1>1
<1>3. head < Slots => k = head
  BY <1>1, ModBelow
<1>4. \A i \in 0..(Slots - 1) : i < head =>
        slot[i].layer \in 1..NDispatch /\ slot[i].counts \in 1..NDispatch
  BY DEF WrittenInv
<1>5. UNCHANGED <<issued, hpc, tail, h, lay>>
  BY DEF CardNext, WriteCounts, WriteLayer, PublishHead, readVars
<1> HIDE DEF k
<1>6. CASE WriteCounts
  <2>1. /\ wpc = "idle" /\ head < issued /\ wpc' = "counts" /\ head' = head
        /\ slot' = [slot EXCEPT ![k].counts = head + 1]
    BY <1>6 DEF WriteCounts, k
  <2>2. slot'[k].counts = head + 1 /\ slot'[k].layer = slot[k].layer
        /\ \A i \in 0..(Slots - 1) : i # k => slot'[i] = slot[i]
    BY <1>1, <2>1
  <2>3. \A i \in 0..(Slots - 1) : i < head =>
          slot'[i].layer \in 1..NDispatch /\ slot'[i].counts \in 1..NDispatch
    BY <1>1, <1>2, <1>4, <2>1, <2>2
  <2>4. slot'[head' % Slots].counts \in 1..NDispatch
    BY <1>2, <2>1, <2>2 DEF k
  <2> QED BY <1>5, <2>1, <2>3, <2>4 DEF WrittenInv
<1>7. CASE WriteLayer
  <2>1. /\ wpc = "counts" /\ head < issued /\ wpc' = "layer" /\ head' = head
        /\ slot' = [slot EXCEPT ![k].layer = head + 1] /\ slot[k].counts \in 1..NDispatch
    BY <1>7 DEF WriteLayer, k, WrittenInv
  <2>2. slot'[k].layer = head + 1 /\ slot'[k].counts = slot[k].counts
        /\ \A i \in 0..(Slots - 1) : i # k => slot'[i] = slot[i]
    BY <1>1, <2>1
  <2>3. \A i \in 0..(Slots - 1) : i < head =>
          slot'[i].layer \in 1..NDispatch /\ slot'[i].counts \in 1..NDispatch
    BY <1>1, <1>2, <1>4, <2>1, <2>2
  <2>4. slot'[head' % Slots].counts \in 1..NDispatch /\ slot'[head' % Slots].layer \in 1..NDispatch
    BY <1>2, <2>1, <2>2 DEF k
  <2> QED BY <1>5, <2>1, <2>3, <2>4 DEF WrittenInv
<1>8. CASE PublishHead
  <2>1. /\ wpc = "layer" /\ head < issued /\ wpc' = "idle" /\ head' = head + 1 /\ slot' = slot
        /\ slot[k].counts \in 1..NDispatch /\ slot[k].layer \in 1..NDispatch
    BY <1>8 DEF PublishHead, k, WrittenInv
  <2>2. \A i \in 0..(Slots - 1) : i < head + 1 =>
          slot[i].layer \in 1..NDispatch /\ slot[i].counts \in 1..NDispatch
    <3> TAKE i \in 0..(Slots - 1)
    <3> HAVE i < head + 1
    <3>1. CASE i < head BY <1>4, <3>1
    <3>2. CASE i = head
      <4>1. i = k BY <1>1, <1>3, <3>2
      <4> QED BY <2>1, <4>1
    <3> QED BY <1>1, <3>1, <3>2
  <2>3. hpc \in {"layer", "counts"} => tail < h /\ h <= head + 1
    BY <1>1 DEF WrittenInv, RingTypeOK
  <2>4. head + 1 <= issued
    BY <1>1, <2>1
  <2>5. hpc = "counts" => lay \in 1..NDispatch
    BY DEF WrittenInv
  <2> QED BY <1>5, <2>1, <2>2, <2>3, <2>4, <2>5 DEF WrittenInv
<1> QED BY <1>6, <1>7, <1>8 DEF CardNext

\* What the host reads has been written.
LEMMA HostReads ==
  ASSUME WrittenInv, HostNext, RingTypeOK' PROVE WrittenInv'
<1>1. UNCHANGED <<head, slot, wpc>>
  BY DEF HostNext, Launch, Drain, ReadLayer, ReadCounts, PickRounds, cardVars
<1>2. /\ head \in Nat /\ issued \in Nat /\ tail \in Nat /\ h \in Nat /\ Slots \in Nat \ {0}
  BY RingAssumption DEF WrittenInv, RingTypeOK
<1>3. CASE Launch
  <2>1. issued' = issued + 1 /\ hpc' = "drain" /\ UNCHANGED <<tail, h, lay>>
    BY <1>3 DEF Launch, readVars
  <2> QED BY <1>1, <1>2, <2>1 DEF WrittenInv
<1>4. CASE Drain
  <2>1. issued' = issued /\ lay' = lay /\ hpc' \in {"launch", "layer"}
    BY <1>4 DEF Drain
  <2>2. hpc' = "layer" => tail' < h' /\ h' <= head
    BY <1>2, <1>4 DEF Drain
  <2> QED BY <1>1, <2>1, <2>2 DEF WrittenInv
<1>5. CASE ReadLayer
  <2>1. issued' = issued /\ hpc' = "counts" /\ UNCHANGED <<tail, h>> /\ hpc = "layer"
        /\ lay' = slot[tail % Slots].layer
    BY <1>5 DEF ReadLayer
  <2>2. tail < h /\ h <= head /\ tail < head
    BY <1>2, <2>1 DEF WrittenInv
  <2>3. lay' \in 1..NDispatch
    BY <1>2, <2>1, <2>2, SlotWritten
  <2> QED BY <1>1, <2>1, <2>2, <2>3 DEF WrittenInv
<1>6. CASE ReadCounts
  <2>1. /\ issued' = issued /\ hpc = "counts" /\ tail' = tail + 1 /\ h' = h /\ lay' = lay
        /\ hpc' = IF tail + 1 < h THEN "layer" ELSE "pick"
    BY <1>6 DEF ReadCounts
  <2>2. tail < h /\ h <= head
    BY <2>1 DEF WrittenInv
  <2> QED BY <1>1, <2>1, <2>2 DEF WrittenInv
<1>7. CASE PickRounds
  <2>1. issued' = issued /\ hpc' = "launch"
    BY <1>7 DEF PickRounds
  <2> QED BY <1>1, <2>1 DEF WrittenInv
<1> QED BY <1>3, <1>4, <1>5, <1>6, <1>7 DEF HostNext

\* With no gate at all the host still reads only what was written.
LEMMA WrittenStep == ASSUME WrittenInv, [RingNext]_vars PROVE WrittenInv'
<1>1. RingTypeOK'
  BY RingTypeStep DEF WrittenInv
<1>2. CASE UNCHANGED vars
  BY <1>2 DEF vars, cardVars, readVars, WrittenInv, RingTypeOK
<1> QED BY <1>1, <1>2, CardWrites, HostReads DEF RingNext

\* A record taken names two dispatches.
LEMMA TakenIsRouted ==
  ASSUME WrittenInv, ReadCounts
  PROVE  got'.layer \in 1..NDispatch /\ got'.counts \in 1..NDispatch
<1>1. hpc = "counts" /\ got' = [layer |-> lay, counts |-> slot[tail % Slots].counts]
  BY DEF ReadCounts
<1>2. tail \in Nat /\ tail < head /\ lay \in 1..NDispatch
  BY <1>1, RingAssumption DEF WrittenInv, RingTypeOK
<1>3. slot[tail % Slots].counts \in 1..NDispatch
  BY <1>2, SlotWritten
<1> QED BY <1>1, <1>2, <1>3

\* The tick's steps are the ring's.
LEMMA TickIsRing == EngineNext => [RingNext]_vars
BY DEF EngineNext, EngineCard, LaunchPlanned, LaunchBuilt, RetirePublished, RetireReclaimed,
       RetireSealed, DrainStart, DrainLayer, DrainRecord, ObserveBuilt, Choose, IssueUp, IssueDown,
       TickDone, RingNext, HostNext

-----------------------------------------------------------------------------
(* Load.                                                                   *)

\* The experts a tier holds at load.
OfTier(t) == {i \in Idx : Tier0[i] = t}

\* The tiers at load are finite, and what the slots were made for.
LEMMA TierSizes ==
  /\ \A t : IsFiniteSet(OfTier(t)) /\ Cardinality(OfTier(t)) \in Nat
  /\ Cardinality(OfTier("Pool")) = Cardinality(PoolSlot)
  /\ Cardinality(OfTier("Vram")) + Cardinality(Record) = Cardinality(SlabSlot)
  /\ Cardinality(OfTier("Vram")) <= Cardinality(SlabSlot)
<1>1. ASSUME NEW t PROVE IsFiniteSet(OfTier(t)) /\ Cardinality(OfTier(t)) \in Nat
  <2>1. OfTier(t) \in SUBSET Idx /\ IsFiniteSet(Idx)
    BY IdxFacts DEF OfTier
  <2> QED BY <2>1, FS_Subset, FS_CardinalityType
<1>2. Cardinality(OfTier("Pool")) = Cardinality(PoolSlot)
      /\ Cardinality(OfTier("Vram")) + Cardinality(Record) = Cardinality(SlabSlot)
  BY LoadAssumption DEF OfTier
<1>3. Cardinality(Record) \in Nat /\ Cardinality(OfTier("Vram")) \in Nat
  BY <1>1, FiniteAssumption, FS_CardinalityType
<1>4. Cardinality(OfTier("Vram")) <= Cardinality(SlabSlot)
  BY <1>2, <1>3
<1> QED BY <1>1, <1>2, <1>4

\* A tier that fits its slots can be placed, and Placed places it.
LEMMA PlacedFits ==
  ASSUME NEW t, NEW slots, IsFiniteSet(slots), None \notin slots,
         Cardinality(OfTier(t)) <= Cardinality(slots)
  PROVE  /\ Placed(t, slots) \in [Expert -> slots \cup {None}]
         /\ Injective(Placed(t, slots))
         /\ \A e \in Expert : (Placed(t, slots)[e] # None) = (Tier0[e] = t)
<1> DEFINE T == OfTier(t)
<1> DEFINE n == Cardinality(T)
<1> DEFINE m == Cardinality(slots)
<1>1. IsFiniteSet(T) /\ T \subseteq Idx
  BY TierSizes DEF OfTier
<1>2. \A e \in Idx : e \in T <=> Tier0[e] = t
  BY DEF OfTier
<1>3. n <= m
  OBVIOUS
<1> HIDE DEF T
<1>4. n \in Nat /\ m \in Nat /\ ExistsBijection(1..n, T) /\ ExistsBijection(1..m, slots)
  BY <1>1, FS_CardinalityType
<1>5. PICK a \in Bijection(1..n, T) : TRUE
  BY <1>4 DEF ExistsBijection
<1>6. PICK b \in Bijection(1..m, slots) : TRUE
  BY <1>4 DEF ExistsBijection
<1> HIDE DEF n, m
<1>7. /\ a \in [1..n -> T] /\ \A e \in T : \E k \in 1..n : a[k] = e
      /\ b \in [1..m -> slots] /\ \A j, k \in 1..m : b[j] = b[k] => j = k
  BY <1>5, <1>6 DEF Bijection, Injection, Surjection, IsInjective
<1> DEFINE at(e) == CHOOSE k \in 1..n : a[k] = e
<1>8. \A e \in T : at(e) \in 1..n /\ a[at(e)] = e
  BY <1>7
<1> HIDE DEF at
<1>9. \A e \in T : at(e) \in 1..m
  BY <1>3, <1>4, <1>8
<1> DEFINE f == [e \in Expert |-> IF e \in T THEN b[at(e)] ELSE None]
<1>10. \A e \in Expert : f[e] = IF e \in T THEN b[at(e)] ELSE None
  OBVIOUS
<1>11. \A e \in T : b[at(e)] \in slots /\ b[at(e)] # None
  BY <1>7, <1>9
<1>12. f \in [Expert -> slots \cup {None}]
  BY <1>11
<1>13. \A e \in Expert : (f[e] # None) = (Tier0[e] = t)
  BY <1>2, <1>10, <1>11, EngineAssumption
<1>14. Injective(f)
  <2> SUFFICES ASSUME NEW x \in Expert, NEW y \in Expert, f[x] # None, f[y] # None, f[x] = f[y]
               PROVE  x = y
    BY DEF Injective, Bound
  <2>1. x \in T /\ y \in T /\ b[at(x)] = b[at(y)]
    BY <1>10
  <2>2. at(x) = at(y)
    BY <1>7, <1>9, <2>1
  <2> QED BY <1>8, <2>1, <2>2
<1> HIDE DEF f
<1> QED BY <1>12, <1>13, <1>14 DEF Placed

\* As many slots are taken as the tier has experts.
LEMMA PlacedTakes ==
  ASSUME NEW t, NEW slots, NEW f \in [Expert -> slots \cup {None}], Injective(f),
         None \notin slots, IsFiniteSet(slots),
         \A e \in Expert : (f[e] # None) = (Tier0[e] = t),
         NEW taken, \A s : s \in taken <=> \E e \in Expert : f[e] # None /\ f[e] = s
  PROVE  /\ taken \subseteq slots /\ IsFiniteSet(taken)
         /\ Cardinality(taken) = Cardinality(OfTier(t))
<1> DEFINE T == OfTier(t)
<1> DEFINE g == [e \in T |-> f[e]]
<1>1. \A e : e \in T <=> e \in Expert /\ f[e] # None
  BY EngineAssumption DEF OfTier
<1>2. \A e \in T : f[e] \in slots /\ f[e] \in taken
  BY <1>1
<1>3. taken \in SUBSET slots
  BY <1>1, <1>2
<1>4. IsFiniteSet(taken)
  BY <1>3, FS_Subset
<1>5. g \in [T -> taken] /\ \A x, y \in T : g[x] = g[y] => x = y
  BY <1>1, <1>2 DEF Injective, Bound
<1>6. \A s \in taken : \E e \in T : g[e] = s
  <2> TAKE s \in taken
  <2>1. PICK e \in Expert : f[e] # None /\ f[e] = s
    OBVIOUS
  <2>2. e \in T
    BY <1>1, <2>1
  <2>3. g[e] = f[e]
    BY <2>2
  <2> QED BY <2>1, <2>2, <2>3
<1>7. IsFiniteSet(T)
  BY TierSizes
<1> HIDE DEF T, g
<1>8. g \in Bijection(T, taken)
  BY <1>5, <1>6 DEF Bijection, Injection, Surjection, IsInjective
<1>9. Cardinality(taken) = Cardinality(T)
  BY <1>7, <1>8, FS_Bijection DEF ExistsBijection
<1> QED BY <1>3, <1>4, <1>9 DEF T

\* The engine loads the tables the ledger starts from.
LEMMA LoadIsLedger == EngineInit => LedgerInit
<1> SUFFICES ASSUME EngineInit PROVE LedgerInit
  OBVIOUS
<1> DEFINE slabs == {slabOf[e] : e \in Bound(slabOf)}
<1> DEFINE pools == {poolOf[e] : e \in Bound(poolOf)}
<1>1. /\ IsFiniteSet(SlabSlot) /\ IsFiniteSet(PoolSlot) /\ IsFiniteSet(Record)
      /\ None \notin SlabSlot /\ None \notin PoolSlot
  BY FiniteAssumption, NoneAssumption
<1>2. /\ Cardinality(SlabSlot) \in Nat /\ Cardinality(PoolSlot) \in Nat /\ Cardinality(Record) \in Nat
  BY <1>1, FS_CardinalityType
<1>7. /\ slabOf \in [Expert -> SlabSlot \cup {None}] /\ Injective(slabOf)
      /\ \A e \in Expert : (slabOf[e] # None) = (Tier0[e] = "Vram")
  BY <1>1, TierSizes, PlacedFits DEF EngineInit
<1>8. /\ poolOf \in [Expert -> PoolSlot \cup {None}] /\ Injective(poolOf)
      /\ \A e \in Expert : (poolOf[e] # None) = (Tier0[e] = "Pool")
  BY <1>1, TierSizes, PlacedFits DEF EngineInit
<1>9. slabs \subseteq SlabSlot /\ IsFiniteSet(slabs) /\ Cardinality(slabs) = Cardinality(OfTier("Vram"))
  <2>1. \A s : s \in slabs <=> \E e \in Expert : slabOf[e] # None /\ slabOf[e] = s
    BY <1>7 DEF Bound
  <2> HIDE DEF slabs
  <2> QED BY <1>1, <1>7, <2>1, PlacedTakes
<1>10. pools \subseteq PoolSlot /\ IsFiniteSet(pools) /\ Cardinality(pools) = Cardinality(OfTier("Pool"))
  <2>1. \A s : s \in pools <=> \E e \in Expert : poolOf[e] # None /\ poolOf[e] = s
    BY <1>8 DEF Bound
  <2> HIDE DEF pools
  <2> QED BY <1>1, <1>8, <2>1, PlacedTakes
<1>11. freeSlab = SlabSlot \ slabs /\ freePool = {} /\ busy = [e \in Expert |-> FALSE]
       /\ moves = [r \in Record |-> FreeMove]
  BY DEF EngineInit
<1>12. Bound(slabOf) \cap Bound(poolOf) = {}
  BY <1>7, <1>8 DEF Bound
<1> HIDE DEF slabs, pools
<1>13. PoolSlot = pools
  <2>1. pools \in SUBSET PoolSlot
    BY <1>10
  <2> QED BY <1>1, <1>10, <2>1, TierSizes, FS_Subset
<1>14. Cardinality(freeSlab) = Cardinality(Record)
  <2>1. Cardinality(SlabSlot \ slabs) = Cardinality(SlabSlot) - Cardinality(SlabSlot \cap slabs)
    BY <1>1, FS_Difference
  <2>2. SlabSlot \cap slabs = slabs
    BY <1>9
  <2>3. Cardinality(SlabSlot \ slabs) = Cardinality(SlabSlot) - Cardinality(OfTier("Vram"))
    BY <1>9, <2>1, <2>2
  <2>4. Cardinality(SlabSlot) - Cardinality(OfTier("Vram")) = Cardinality(Record)
    BY ONLY <1>2, TierSizes
  <2> QED BY <1>11, <2>3, <2>4
<1> QED BY <1>7, <1>8, <1>11, <1>12, <1>13, <1>14 DEF LedgerInit, slabs, pools

\* The invariant holds at load.
LEMMA EngineInitInv == EngineInit => EngineInv
<1> SUFFICES ASSUME EngineInit PROVE EngineInv
  OBVIOUS
<1>1. LedgerInv
  BY LoadIsLedger, LedgerInitInv
<1>2. HeatTypeOK /\ hs.tier = Tier0 /\ hs.res = ResidentPerLayer(hs)
  <2> DEFINE res == [l \in 0..(NLayer - 1) |-> Cardinality({i \in Idx : LayerOf(i) = l /\ Tier0[i] = "Vram"})]
  <2>1. hs = [heat |-> [i \in Idx |-> 0], tier |-> Tier0, ticks |-> 0, demand |-> <<>>, res |-> res]
    BY DEF EngineInit, HeatNew
  <2>2. res \in [0..(NLayer - 1) -> Nat]
    <3>1. ASSUME NEW l PROVE Cardinality({i \in Idx : LayerOf(i) = l /\ Tier0[i] = "Vram"}) \in Nat
      <4> DEFINE S == {i \in Idx : LayerOf(i) = l /\ Tier0[i] = "Vram"}
      <4>1. S \in SUBSET Idx /\ IsFiniteSet(Idx)
        BY IdxFacts
      <4> HIDE DEF S
      <4>2. Cardinality(S) \in Nat
        BY <4>1, FS_Subset, FS_CardinalityType
      <4> QED BY <4>2 DEF S
    <3> QED BY <3>1
  <2>3. ResidentPerLayer(hs) = res
    BY <2>1 DEF ResidentPerLayer
  <2> HIDE DEF res
  <2>4. Tier0 \in [Idx -> TierNames]
    BY LoadAssumption DEF TierNames
  <2> QED BY <2>1, <2>2, <2>3, <2>4 DEF HeatTypeOK, Heats
<1>3. HeatAgreesWithTables
  <2> SUFFICES ASSUME NEW i \in Idx
               PROVE  Tier0[i] = IF slabOf[i] # None THEN "Vram"
                                 ELSE IF poolOf[i] # None THEN "Pool" ELSE "Ssd"
    BY <1>2 DEF HeatAgreesWithTables
  <2>1. (slabOf[i] # None) = (Tier0[i] = "Vram") /\ (poolOf[i] # None) = (Tier0[i] = "Pool")
    <3>1. /\ IsFiniteSet(SlabSlot) /\ IsFiniteSet(PoolSlot) /\ None \notin SlabSlot /\ None \notin PoolSlot
          /\ Cardinality(SlabSlot) \in Nat /\ Cardinality(PoolSlot) \in Nat
          /\ Cardinality(Record) \in Nat
      BY FiniteAssumption, NoneAssumption, FS_CardinalityType
    <3> QED BY <3>1, TierSizes, PlacedFits, EngineAssumption DEF EngineInit
  <2>2. Tier0[i] \in {"Vram", "Pool", "Ssd"}
    BY LoadAssumption
  <2> QED BY <2>1, <2>2
<1>4. WrittenInv
  <2>1. RingTypeOK
    BY RingInitInv DEF EngineInit, RingInv
  <2> QED BY <2>1, RingAssumption DEF EngineInit, RingInit, WrittenInv
<1>5. TickTypeOK /\ ChoiceInv
  BY DEF EngineInit, NoTick, TickTypeOK, Ticks, ChoiceInv, TickPlaces
<1> QED BY <1>1, <1>2, <1>3, <1>4, <1>5 DEF EngineInv

-----------------------------------------------------------------------------
(* Steps.                                                                  *)

\* Heat agrees as long as neither its tiers nor the owners' change.
LEMMA AgreesKept ==
  ASSUME HeatAgreesWithTables, hs'.tier = hs.tier, hs'.res = hs.res,
         slabOf' = slabOf, poolOf' = poolOf
  PROVE  HeatAgreesWithTables'
BY DEF HeatAgreesWithTables, ResidentPerLayer

\* A landed copy: the tables and heat change together.
LEMMA PublishAgrees ==
  ASSUME LedgerInv, HeatTypeOK, HeatAgreesWithTables, NEW r \in Record, Publish(r),
         hs' = SetTier(hs, moves[r].idx, IF moves[r].promote THEN "Vram" ELSE "Pool")
  PROVE  HeatTypeOK' /\ HeatAgreesWithTables'
<1> DEFINE e == moves[r].idx
<1> DEFINE t == IF moves[r].promote THEN "Vram" ELSE "Pool"
<1>1. /\ e \in Expert /\ moves[r].slab # None /\ moves[r].pool # None
      /\ slabOf \in [Expert -> SlabSlot \cup {None}] /\ poolOf \in [Expert -> PoolSlot \cup {None}]
  BY NoneAssumption DEF LedgerInv, LedgerTypeOK, Publish
<1>2. Expert = Idx
  BY EngineAssumption
<1>3. /\ slabOf' = [slabOf EXCEPT ![e] = IF moves[r].promote THEN moves[r].slab ELSE None]
      /\ poolOf' = [poolOf EXCEPT ![e] = IF moves[r].promote THEN None ELSE moves[r].pool]
  BY DEF Publish
<1>4. hs' = SetTier(hs, e, t) /\ t \in TierNames
  BY DEF TierNames
<1>5. hs \in Heats /\ hs.res = ResidentPerLayer(hs)
      /\ \A i \in Idx : hs.tier[i] = IF slabOf[i] # None THEN "Vram"
                                     ELSE IF poolOf[i] # None THEN "Pool" ELSE "Ssd"
  BY DEF HeatTypeOK, HeatAgreesWithTables
<1> HIDE DEF t
<1>6. hs' \in Heats /\ hs'.tier = [hs.tier EXCEPT ![e] = t] /\ hs'.res = ResidentPerLayer(hs')
  BY <1>1, <1>2, <1>4, <1>5, SetTierKeeps
<1>7. hs.tier \in [Idx -> TierNames]
  BY <1>5 DEF Heats
<1>8. \A i \in Idx : hs'.tier[i] = IF slabOf'[i] # None THEN "Vram"
                                   ELSE IF poolOf'[i] # None THEN "Pool" ELSE "Ssd"
  <2> TAKE i \in Idx
  <2>1. CASE i = e
    <3>1. hs'.tier[i] = t
      BY <1>1, <1>2, <1>6, <1>7, <2>1
    <3>2. slabOf'[i] = (IF moves[r].promote THEN moves[r].slab ELSE None)
          /\ poolOf'[i] = (IF moves[r].promote THEN None ELSE moves[r].pool)
      BY <1>1, <1>3, <2>1
    <3> QED BY <1>1, <3>1, <3>2 DEF t
  <2>2. CASE i # e
    <3>1. hs'.tier[i] = hs.tier[i]
      BY <1>6, <1>7, <2>2
    <3>2. slabOf'[i] = slabOf[i] /\ poolOf'[i] = poolOf[i]
      BY <1>1, <1>2, <1>3, <2>2
    <3> QED BY <1>5, <3>1, <3>2
  <2> QED BY <2>1, <2>2
<1> QED BY <1>6, <1>8 DEF HeatTypeOK, HeatAgreesWithTables

\* What a dispatch tells heat moves no expert.
LEMMA HeardKeeps ==
  ASSUME HeatTypeOK, NEW c \in Routes, Heard(c, c.counts)
  PROVE  HeatTypeOK' /\ hs'.tier = hs.tier /\ hs'.res = hs.res
<1> DEFINE o == Observe(hs, c.layer, c.counts)
<1> DEFINE m == Missing([c EXCEPT !.counts = c.counts])
<1>1. o \in Heats /\ o.tier = hs.tier /\ o.res = hs.res
  BY ObserveKeeps DEF HeatTypeOK
<1>2. m \in Seq(Idx)
  BY MissingIsList
<1>3. hs' = (IF strategy = "demand" THEN NoteMissing(o, m) ELSE o)
  BY DEF Heard
<1> HIDE DEF o, m
<1>4. NoteMissing(o, m) \in Heats /\ NoteMissing(o, m).tier = o.tier /\ NoteMissing(o, m).res = o.res
  BY <1>1, <1>2 DEF NoteMissing, Heats
<1> QED BY <1>1, <1>3, <1>4 DEF HeatTypeOK

\* What the ring and the ledger do not hold: heat, the tick, and what it has chosen.
Rest == HeatTypeOK /\ TickTypeOK /\ ChoiceInv /\ HeatAgreesWithTables

\* Steps of the card, launches and the ring's reading.
LEMMA QuietKeeps ==
  ASSUME Rest, EngineCard \/ LaunchPlanned \/ LaunchBuilt \/ DrainStart \/ DrainLayer \/ TickDone
  PROVE  Rest' /\ UNCHANGED ledgerVars
<1>1. UNCHANGED <<ledgerVars, hs>>
  BY DEF EngineCard, LaunchPlanned, LaunchBuilt, DrainStart, DrainLayer, TickDone
<1>2. HeatTypeOK' /\ HeatAgreesWithTables'
  BY <1>1, AgreesKept DEF Rest, HeatTypeOK, ledgerVars
<1>3. TickTypeOK'
  <2>1. /\ tick \in Ticks
        /\ hosts \in Nat /\ (tick.host => hosts \in 1..Len(HostRouted)) /\ Len(HostRouted) \in Nat
    BY EngineAssumption DEF Rest, TickTypeOK
  <2>2. CASE EngineCard \/ DrainLayer
    BY <2>1, <2>2 DEF EngineCard, DrainLayer, TickTypeOK
  <2>7. NoTick \in Ticks /\ NoTick.host = FALSE
    BY DEF NoTick, Ticks, TickPlaces
  <2>3. CASE LaunchPlanned
    <3>1. tick' = [NoTick EXCEPT !.at = "retire"] /\ hosts' = hosts
      BY <2>3 DEF LaunchPlanned
    <3>2. tick' \in Ticks /\ tick'.host = FALSE
      BY <2>7, <3>1 DEF Ticks, TickPlaces
    <3> QED BY <2>1, <3>1, <3>2 DEF TickTypeOK
  <2>4. CASE LaunchBuilt
    <3>1. hosts' = hosts + 1 /\ hosts < Len(HostRouted) /\ tick' = [NoTick EXCEPT !.at = "retire", !.host = TRUE]
      BY <2>4 DEF LaunchBuilt
    <3>2. tick' \in Ticks
      BY <2>7, <3>1 DEF Ticks, TickPlaces
    <3>3. hosts' \in 1..Len(HostRouted) /\ hosts' \in Nat
      BY <2>1, <3>1
    <3> QED BY <3>2, <3>3 DEF TickTypeOK
  <2>5. CASE DrainStart
    <3>1. hosts' = hosts /\ tick' \in {tick, NoTick}
      BY <2>5 DEF DrainStart
    <3> QED BY <2>1, <2>7, <3>1 DEF TickTypeOK
  <2>6. CASE TickDone
    <3>1. hosts' = hosts /\ tick' = NoTick
      BY <2>6 DEF TickDone
    <3> QED BY <2>1, <2>7, <3>1 DEF TickTypeOK
  <2> QED BY <2>2, <2>3, <2>4, <2>5, <2>6
<1>4. ChoiceInv'
  <2>1. busy' = busy /\ hs' = hs
    BY <1>1 DEF ledgerVars
  <2>2. tick' = tick \/ tick'.at \in {"none", "retire"}
    <3>1. \/ tick' = tick \/ tick' = NoTick
          \/ tick' = [NoTick EXCEPT !.at = "retire"]
          \/ tick' = [NoTick EXCEPT !.at = "retire", !.host = TRUE]
      BY DEF EngineCard, LaunchPlanned, LaunchBuilt, DrainStart, DrainLayer, TickDone
    <3>2. NoTick.at = "none" /\ [NoTick EXCEPT !.at = "retire"].at = "retire"
          /\ [NoTick EXCEPT !.at = "retire", !.host = TRUE].at = "retire"
      BY DEF NoTick
    <3> QED BY ONLY <3>1, <3>2
  <2> QED BY <2>1, <2>2 DEF Rest, ChoiceInv
<1> QED BY <1>1, <1>2, <1>3, <1>4 DEF Rest

\* A retirement is the ledger's, and tells heat of every owner it changes.
LEMMA RetireKeeps ==
  ASSUME LedgerInv, Rest,
         (\E r \in Record : RetirePublished(r) \/ RetireReclaimed(r)) \/ RetireSealed
  PROVE  Rest' /\ LedgerNext
<1>1. TickTypeOK' /\ ChoiceInv' /\ tick.at = "retire"
  <2>1. tick.at = "retire" /\ hosts' = hosts /\ tick' \in {tick, [tick EXCEPT !.at = "observe"]}
    BY DEF RetirePublished, RetireReclaimed, RetireSealed
  <2> QED BY <2>1 DEF Rest, TickTypeOK, Ticks, ChoiceInv, TickPlaces
<1>2. ASSUME NEW r \in Record, RetirePublished(r) PROVE Rest' /\ LedgerNext
  <2>1. Publish(r) /\ hs' = SetTier(hs, moves[r].idx, IF moves[r].promote THEN "Vram" ELSE "Pool")
    BY <1>2 DEF RetirePublished
  <2>2. HeatTypeOK' /\ HeatAgreesWithTables'
    BY <2>1, PublishAgrees DEF Rest
  <2> QED BY <1>1, <2>1, <2>2 DEF Rest, LedgerNext
<1>3. ASSUME NEW r \in Record, RetireReclaimed(r) PROVE Rest' /\ LedgerNext
  <2>1. Reclaim(r) /\ hs' = hs /\ slabOf' = slabOf /\ poolOf' = poolOf
    BY <1>3 DEF RetireReclaimed, Reclaim
  <2>2. HeatTypeOK' /\ HeatAgreesWithTables'
    BY <2>1, AgreesKept DEF Rest, HeatTypeOK
  <2> QED BY <1>1, <2>1, <2>2 DEF Rest, LedgerNext
<1>4. CASE RetireSealed
  <2>1. Seal /\ hs' = hs /\ slabOf' = slabOf /\ poolOf' = poolOf
    BY <1>4 DEF RetireSealed, Seal
  <2>2. HeatTypeOK' /\ HeatAgreesWithTables'
    BY <2>1, AgreesKept DEF Rest, HeatTypeOK
  <2> QED BY <1>1, <2>1, <2>2 DEF Rest, LedgerNext
<1> QED BY <1>2, <1>3, <1>4

\* Hearing of the routing moves nothing.
LEMMA HearKeeps ==
  ASSUME Rest, WrittenInv, DrainRecord \/ ObserveBuilt
  PROVE  Rest' /\ UNCHANGED ledgerVars
<1>1. UNCHANGED <<ledgerVars, hosts>> /\ MovesPerTick \in Nat
  BY EngineAssumption DEF DrainRecord, ObserveBuilt
<1>2. tick \in Ticks
      /\ hosts \in Nat /\ (tick.host => hosts \in 1..Len(HostRouted))
  BY DEF Rest, TickTypeOK
<1>3. \E c \in Routes : Heard(c, c.counts)
  <2>1. CASE ObserveBuilt
    <3>1. Heard(HostRouted[hosts], HostRouted[hosts].counts) /\ hosts \in 1..Len(HostRouted)
      BY <1>2, <2>1 DEF ObserveBuilt
    <3>2. HostRouted[hosts] \in Routes
      BY <3>1, EngineAssumption
    <3> QED BY <3>1, <3>2
  <2>2. CASE DrainRecord
    <3>1. Heard(Routed[got'.layer], Routed[got'.counts].counts) /\ ReadCounts
      BY <2>2 DEF DrainRecord
    <3>2. got'.layer \in 1..NDispatch /\ got'.counts \in 1..NDispatch
      BY <3>1, TakenIsRouted
    <3> DEFINE c == [Routed[got'.layer] EXCEPT !.counts = Routed[got'.counts].counts]
    <3>3. Routed[got'.layer] \in Routes /\ Routed[got'.counts] \in Routes
      BY <3>2, EngineAssumption
    <3>4. c \in Routes /\ c.layer = Routed[got'.layer].layer /\ c.counts = Routed[got'.counts].counts
      BY <3>3 DEF Routes
    <3>5. [c EXCEPT !.counts = c.counts] = [Routed[got'.layer] EXCEPT !.counts = Routed[got'.counts].counts]
      BY <3>3 DEF Routes
    <3>6. Heard(c, c.counts)
      BY <3>1, <3>4, <3>5 DEF Heard
    <3> QED BY <3>4, <3>6
  <2> QED BY <2>1, <2>2
<1>4. HeatTypeOK' /\ hs'.tier = hs.tier /\ hs'.res = hs.res
  BY <1>3, HeardKeeps DEF Rest
<1>5. HeatAgreesWithTables'
  BY <1>1, <1>4, AgreesKept DEF Rest, ledgerVars
<1>6. tick' \in Ticks /\ tick'.at \in {"pick", "observe"} /\ tick'.host = tick.host
  <2>1. \E a \in {"pick", "observe"}, n \in Nat :
          tick' = [tick EXCEPT !.rounds = n, !.left = MovesPerTick, !.at = a]
    <3>1. CASE ObserveBuilt
      BY <3>1 DEF ObserveBuilt
    <3>2. CASE DrainRecord
      <4>1. tick.rounds + 1 \in Nat
        BY <1>2 DEF Ticks
      <4> QED BY <3>2, <4>1 DEF DrainRecord
    <3> QED BY <3>1, <3>2
  <2>2. PICK a \in {"pick", "observe"}, n \in Nat :
          tick' = [tick EXCEPT !.rounds = n, !.left = MovesPerTick, !.at = a]
    BY <2>1
  <2> QED BY ONLY <1>1, <1>2, <2>2 DEF Ticks, TickPlaces
<1>7. TickTypeOK' /\ ChoiceInv'
  BY <1>1, <1>2, <1>6 DEF TickTypeOK, ChoiceInv
<1> QED BY <1>1, <1>4, <1>5, <1>7 DEF Rest

-----------------------------------------------------------------------------
(* The tick's choices and moves.                                           *)

\* A round ends and the next one, or the tick's end, begins.
LEMMA NextRoundType ==
  ASSUME tick \in Ticks, tick.rounds > 0
  PROVE  NextRound \in Ticks /\ NextRound.at = "pick" /\ NextRound.host = tick.host
<1>1. tick.rounds - 1 \in Nat /\ MovesPerTick \in Nat
  BY EngineAssumption DEF Ticks
<1> DEFINE n == tick.rounds - 1
<1>2. NextRound = [tick EXCEPT !.rounds = n, !.left = MovesPerTick, !.at = "pick"]
  BY DEF NextRound, Ticks
<1> HIDE DEF n
<1>3. n \in Nat
  BY <1>1 DEF n
<1> QED BY ONLY <1>1, <1>2, <1>3, tick \in Ticks DEF Ticks, TickPlaces

\* Heat names a pair: it is where heat says, and nothing moves it.
LEMMA ChooseKeeps ==
  ASSUME Rest, Choose PROVE Rest' /\ UNCHANGED ledgerVars
<1>1. UNCHANGED <<ledgerVars, hosts>> /\ tick.rounds > 0 /\ busy' = busy
  BY DEF Choose, ledgerVars
<1>2. tick \in Ticks /\ hs \in Heats /\ hosts \in Nat /\ (tick.host => hosts \in 1..Len(HostRouted))
  BY DEF Rest, TickTypeOK, HeatTypeOK
<1>3. NextRound \in Ticks /\ NextRound.at = "pick" /\ NextRound.host = tick.host
  BY <1>1, <1>2, NextRoundType
<1>4. CASE tick' = NextRound /\ hs' = hs
  <2>1. TickTypeOK' /\ ChoiceInv'
    BY <1>1, <1>2, <1>3, <1>4 DEF TickTypeOK, ChoiceInv
  <2>2. HeatTypeOK' /\ HeatAgreesWithTables'
    BY <1>1, <1>4, AgreesKept DEF Rest, HeatTypeOK, ledgerVars
  <2> QED BY <1>1, <2>1, <2>2 DEF Rest
<1>5. ASSUME NEW f, Answer(hs, busy, f), hs' = f.hs,
             \/ f.pairs = {} /\ tick' = NextRound
             \/ \E p \in f.pairs : tick' = [tick EXCEPT !.at = "up", !.up = p.up, !.down = p.down, !.moved = FALSE]
      PROVE  Rest' /\ UNCHANGED ledgerVars
  <2>1. HeatTypeOK' /\ hs'.tier = hs.tier /\ hs'.res = hs.res
    BY <1>5 DEF Answer, HeatTypeOK
  <2>2. HeatAgreesWithTables'
    BY <1>1, <2>1, AgreesKept DEF Rest, ledgerVars
  <2>3. CASE tick' = NextRound
    <3>1. TickTypeOK' /\ ChoiceInv'
      BY <1>1, <1>2, <1>3, <2>3 DEF TickTypeOK, ChoiceInv
    <3> QED BY <1>1, <2>1, <2>2, <3>1 DEF Rest
  <2>4. ASSUME NEW p \in f.pairs,
               tick' = [tick EXCEPT !.at = "up", !.up = p.up, !.down = p.down, !.moved = FALSE]
        PROVE  Rest' /\ UNCHANGED ledgerVars
    <3>1. /\ p.up \in Idx /\ hs.tier[p.up] = "Pool" /\ ~busy[p.up]
          /\ p.down \in Idx /\ hs.tier[p.down] = "Vram" /\ ~busy[p.down]
      BY <1>5, <2>4 DEF Answer
    <3>2. p.up \in Nat /\ p.down \in Nat
      BY <3>1, IdxFacts
    <3>3. tick' \in Ticks /\ tick'.host = tick.host /\ tick'.rounds = tick.rounds
          /\ tick'.up = p.up /\ tick'.down = p.down
      BY ONLY <1>2, <2>4, <3>2 DEF Ticks, TickPlaces
    <3>4. TickTypeOK'
      BY <1>1, <1>2, <3>3 DEF TickTypeOK
    <3>5. ChoiceInv'
      BY <1>1, <2>1, <3>1, <3>3 DEF ChoiceInv
    <3> QED BY <1>1, <2>1, <2>2, <3>4, <3>5 DEF Rest
  <2> QED BY <1>5, <2>3, <2>4
<1>6. CASE freeSlab \cup freePool = {}
  BY <1>4, <1>6 DEF Choose
<1>7. CASE freeSlab \cup freePool # {}
  <2> DEFINE f == IF strategy = "demand" THEN PickDemand(hs, busy) ELSE Pick(hs, busy)
  <2>1. Answer(hs, busy, f)
    BY <1>2, PickAnswers, DemandAnswers
  <2>2. /\ hs' = f.hs
        /\ \/ f.pairs = {} /\ tick' = NextRound
           \/ \E p \in f.pairs : tick' = [tick EXCEPT !.at = "up", !.up = p.up, !.down = p.down, !.moved = FALSE]
    BY <1>7 DEF Choose
  <2> HIDE DEF f
  <2> QED BY <1>5, <2>1, <2>2
<1> QED BY <1>6, <1>7

\* A slot of a list that is not empty is in it.
LEMMA BackIn == ASSUME NEW S, S # {} PROVE Back(S) \in S
BY DEF Back

\* Where heat says an expert is, the tables say so.
LEMMA TierIsOwner ==
  ASSUME HeatAgreesWithTables, NEW i \in Idx
  PROVE  /\ hs.tier[i] = "Vram" => slabOf[i] # None
         /\ hs.tier[i] = "Pool" => slabOf[i] = None /\ poolOf[i] # None
BY DEF HeatAgreesWithTables

\* The promotion is the ledger's, or refused for want of a slot or a record.
LEMMA UpKeeps ==
  ASSUME LedgerInv, Rest, IssueUp PROVE Rest' /\ [LedgerNext]_ledgerVars
<1> DEFINE e == tick.up
<1> DEFINE d == tick.down
<1> DEFINE go == freeSlab # {} /\ FreeRecord # {} /\ poolOf[e] # None
<1>1. tick \in Ticks /\ hosts \in Nat /\ (tick.host => hosts \in 1..Len(HostRouted)) /\ tick.at = "up"
  BY DEF Rest, TickTypeOK, IssueUp
<1>2. /\ e \in Idx /\ hs.tier[e] = "Pool" /\ ~busy[e] /\ tick.rounds > 0
      /\ d \in Idx /\ hs.tier[d] = "Vram" /\ ~busy[d]
  BY <1>1 DEF Rest, ChoiceInv
<1>3. slabOf' = slabOf /\ poolOf' = poolOf /\ hs' = hs /\ hosts' = hosts /\ freePool' = freePool
      /\ go \in BOOLEAN /\ tick' = [tick EXCEPT !.at = "down", !.moved = go]
  BY DEF IssueUp
<1>4. \/ ~go /\ UNCHANGED <<moves, busy, freeSlab>>
      \/ go /\ Copying(TRUE, e, Back(freeSlab), poolOf[e]) /\ freeSlab' = freeSlab \ {Back(freeSlab)}
  BY DEF IssueUp
<1>5. busy \in [Expert -> BOOLEAN] /\ Expert = Idx /\ freeSlab \subseteq SlabSlot
  BY EngineAssumption DEF LedgerInv, LedgerTypeOK
<1> HIDE DEF e, d, go
<1>6. tick' \in Ticks /\ tick'.host = tick.host /\ tick'.at = "down" /\ tick'.down = d
      /\ tick'.rounds = tick.rounds
  BY <1>1, <1>3 DEF Ticks, TickPlaces, d
<1>7. TickTypeOK' /\ HeatTypeOK' /\ HeatAgreesWithTables'
  BY <1>1, <1>3, <1>6, AgreesKept DEF Rest, TickTypeOK, HeatTypeOK
<1>8. busy'[d] = busy[d]
  <2>1. e # d
    BY <1>2
  <2>2. busy' = busy \/ busy' = [busy EXCEPT ![e] = TRUE]
    BY <1>4 DEF Copying
  <2> QED BY <1>2, <1>5, <2>1, <2>2
<1>9. ChoiceInv'
  BY <1>2, <1>3, <1>6, <1>8 DEF ChoiceInv
<1>10. [LedgerNext]_ledgerVars
  <2>1. CASE ~go
    BY <1>3, <1>4, <2>1 DEF ledgerVars
  <2>2. CASE go
    <3>1. Back(freeSlab) \in freeSlab /\ Back(FreeRecord) \in FreeRecord /\ poolOf[e] # None
      BY <2>2, BackIn DEF go
    <3>2. moves[Back(FreeRecord)].state = "Free" /\ Back(FreeRecord) \in Record
      BY <3>1 DEF FreeRecord
    <3>3. PromoteIssue(Back(FreeRecord), e, Back(freeSlab))
      BY <1>2, <1>3, <1>4, <2>2, <3>1, <3>2 DEF PromoteIssue, Copying
    <3> QED BY <1>2, <1>5, <3>1, <3>2, <3>3 DEF LedgerNext
  <2> QED BY <2>1, <2>2
<1> QED BY <1>7, <1>9, <1>10 DEF Rest

\* ...and so is the demotion, whose source slot nobody looked up again.
LEMMA DownKeeps ==
  ASSUME LedgerInv, Rest, IssueDown PROVE Rest' /\ [LedgerNext]_ledgerVars
<1> DEFINE e == tick.down
<1> DEFINE go == freePool # {} /\ FreeRecord # {}
<1>1. tick \in Ticks /\ hosts \in Nat /\ (tick.host => hosts \in 1..Len(HostRouted)) /\ tick.at = "down"
  BY DEF Rest, TickTypeOK, IssueDown
<1>2. e \in Idx /\ hs.tier[e] = "Vram" /\ ~busy[e] /\ tick.rounds > 0
  BY <1>1 DEF Rest, ChoiceInv
<1>3. slabOf' = slabOf /\ poolOf' = poolOf /\ hs' = hs /\ hosts' = hosts /\ freeSlab' = freeSlab
  BY DEF IssueDown
<1>4. \/ ~go /\ UNCHANGED <<moves, busy, freePool>>
      \/ go /\ Copying(FALSE, e, slabOf[e], Back(freePool)) /\ freePool' = freePool \ {Back(freePool)}
  BY DEF IssueDown
<1>5. Expert = Idx /\ freePool \subseteq PoolSlot
  BY EngineAssumption DEF LedgerInv, LedgerTypeOK
<1>6. tick' = NextRound \/ (tick.left > 1 /\ tick' = [tick EXCEPT !.at = "pick", !.left = tick.left - 1])
  BY DEF IssueDown
<1> HIDE DEF e, go
<1>7. tick' \in Ticks /\ tick'.at = "pick" /\ tick'.host = tick.host
  <2>1. CASE tick' = NextRound
    BY <1>1, <1>2, <2>1, NextRoundType
  <2>2. CASE tick.left > 1 /\ tick' = [tick EXCEPT !.at = "pick", !.left = tick.left - 1]
    <3>1. tick.left - 1 \in Nat
      BY <1>1, <2>2 DEF Ticks
    <3> DEFINE n == tick.left - 1
    <3>2. n \in Nat /\ tick' = [tick EXCEPT !.at = "pick", !.left = n]
      BY <2>2, <3>1
    <3> HIDE DEF n
    <3> QED BY ONLY <1>1, <3>2 DEF Ticks, TickPlaces
  <2> QED BY <1>6, <2>1, <2>2
<1>8. TickTypeOK' /\ ChoiceInv' /\ HeatTypeOK' /\ HeatAgreesWithTables'
  BY <1>1, <1>3, <1>7, AgreesKept DEF Rest, TickTypeOK, HeatTypeOK, ChoiceInv
<1>9. [LedgerNext]_ledgerVars
  <2>1. CASE ~go
    BY <1>3, <1>4, <2>1 DEF ledgerVars
  <2>2. CASE go
    <3>1. Back(freePool) \in freePool /\ Back(FreeRecord) \in FreeRecord
      BY <2>2, BackIn DEF go
    <3>2. moves[Back(FreeRecord)].state = "Free" /\ Back(FreeRecord) \in Record
      BY <3>1 DEF FreeRecord
    <3>3. slabOf[e] # None
      BY <1>2, TierIsOwner DEF Rest
    <3>4. DemoteIssue(Back(FreeRecord), e, Back(freePool))
      BY <1>2, <1>3, <1>4, <2>2, <3>1, <3>2, <3>3 DEF DemoteIssue, Copying
    <3> QED BY <1>2, <1>5, <3>1, <3>2, <3>4 DEF LedgerNext
  <2> QED BY <2>1, <2>2
<1> QED BY <1>8, <1>9 DEF Rest

-----------------------------------------------------------------------------
(* The engine.                                                             *)

\* Every step keeps the invariant and is a step of the ledger, or leaves it.
LEMMA EngineStep ==
  ASSUME EngineInv, [EngineNext]_engineVars
  PROVE  EngineInv' /\ [LedgerNext]_ledgerVars /\ [RingNext]_vars
<1>1. LedgerInv /\ Rest /\ WrittenInv
  BY DEF EngineInv, Rest
<1>2. [RingNext]_vars
  BY TickIsRing DEF engineVars
<1>3. WrittenInv'
  BY <1>1, <1>2, WrittenStep
<1>4. Rest' /\ [LedgerNext]_ledgerVars
  <2>1. CASE EngineCard \/ LaunchPlanned \/ LaunchBuilt \/ DrainStart \/ DrainLayer \/ TickDone
    BY <1>1, <2>1, QuietKeeps
  <2>2. CASE (\E r \in Record : RetirePublished(r) \/ RetireReclaimed(r)) \/ RetireSealed
    BY <1>1, <2>2, RetireKeeps
  <2>3. CASE DrainRecord \/ ObserveBuilt
    BY <1>1, <2>3, HearKeeps
  <2>4. CASE Choose
    BY <1>1, <2>4, ChooseKeeps
  <2>5. CASE IssueUp
    BY <1>1, <2>5, UpKeeps
  <2>6. CASE IssueDown
    BY <1>1, <2>6, DownKeeps
  <2>7. CASE UNCHANGED engineVars
    <3>1. UNCHANGED <<ledgerVars, hs, tick, hosts>> /\ busy' = busy
      BY <2>7 DEF engineVars, ledgerVars
    <3>2. HeatTypeOK' /\ HeatAgreesWithTables'
      BY <1>1, <3>1, AgreesKept DEF Rest, HeatTypeOK, ledgerVars
    <3>3. TickTypeOK' /\ ChoiceInv'
      BY <1>1, <3>1 DEF Rest, TickTypeOK, ChoiceInv
    <3> QED BY <3>1, <3>2, <3>3 DEF Rest
  <2> QED BY <2>1, <2>2, <2>3, <2>4, <2>5, <2>6, <2>7 DEF EngineNext
<1>5. LedgerInv'
  BY <1>1, <1>4, LedgerStep
<1> QED BY <1>2, <1>3, <1>4, <1>5 DEF EngineInv, Rest

\* The invariant of the placement engine's tick.
THEOREM EngineInvariance == EngineSpec => []EngineInv
<1>1. EngineInv /\ [EngineNext]_engineVars => EngineInv'
  BY EngineStep
<1> QED BY <1>1, EngineInitInv, PTL DEF EngineSpec

\* Heat and dispatch agree about where every expert is.
THEOREM HeatAlwaysAgrees == EngineSpec => []HeatAgreesWithTables
<1>1. EngineInv => HeatAgreesWithTables
  BY DEF EngineInv
<1> QED BY <1>1, EngineInvariance, PTL

\* What heat names without asking the tables again is a move the ledger allows.
THEOREM EngineImplementsLedger == EngineSpec => LedgerSpec
<1>1. EngineInit => LedgerInit
  BY LoadIsLedger
<1>2. EngineInv /\ [EngineNext]_engineVars => [LedgerNext]_ledgerVars
  BY EngineStep
<1> QED BY <1>1, <1>2, EngineInvariance, PTL DEF EngineSpec, LedgerSpec

\* Every slot has one owner as heat moves experts, and no step takes an expert's last address.
THEOREM EngineSlotsAccounted == EngineSpec => []SlotsAccounted
BY EngineImplementsLedger, SlotsAlwaysAccounted, PTL

\* No step of the engine takes the last address of an expert: whatever heat names, a
\* dispatch finds weights for every expert it routes to (the copy's source is freed only
\* once its destination is published).
THEOREM EngineKeepsAddresses == EngineSpec => AddressNeverLost
BY EngineImplementsLedger, AddressesKept

\* Heat observes each dispatch once, whole and in order, until the gate is passed.
THEOREM EngineHearsAll == ASSUME Gated PROVE EngineSpec => []HeatSeesEveryDispatch
<1>1. EngineInit => RingInit
  BY DEF EngineInit
<1>2. EngineInv /\ [EngineNext]_engineVars => [RingNext]_vars
  BY EngineStep
<1>3. EngineSpec => RingSpec
  BY <1>1, <1>2, EngineInvariance, PTL DEF EngineSpec, RingSpec
<1> QED BY <1>3, GateIsEnough, Gated
=============================================================================
