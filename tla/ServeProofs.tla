----------------------------- MODULE ServeProofs -----------------------------
(***************************************************************************)
(* Proofs about Serve, for any number of connections and slots, any window, *)
(* block, arena and budget: a request's slot is its own, what it is sent is *)
(* what the target decodes by itself, no query attends to a row that is not *)
(* its own, and what is published is what its tokens leave.                 *)
(*                                                                         *)
(* The argument is one invariant of four parts.  SlotInv is who holds which *)
(* slot and the lock.  SeqInv says, for each place a thread can be at, how  *)
(* the counts of its SeqState, its transcript and the block in flight stand *)
(* to each other.  WindowInv says which rows of its slot's raw ring are its *)
(* own, kept, and of the position they are read for.  The last says that    *)
(* nothing published and no step so far broke the promise.                  *)
(*                                                                         *)
(* Then Forward and DraftRing: a prefill leaves what one token at a time    *)
(* would, however it is cut, since the counts are a closed form of the      *)
(* tokens gone by; and the draft's rings hold the target's states for the   *)
(* positions they stand at.                                                *)
(***************************************************************************)
EXTENDS Serve, Forward, DraftRing, SequenceTheorems, FiniteSetTheorems, TLAPS

Cell == [who : Conn \cup {Nobody}, pos : Nat, kept : BOOLEAN]
RawRing == [0..(RawSlots - 1) -> Cell]
HistRing == [0..(Hist - 1) -> Cell]
Device == [raw : RawRing, hist : HistRing]
SeqStates == [pos : Nat, nRaw : Nat, rawHead : Nat, nComp : Nat]
Places == {"recv", "acquire", "wait", "check", "lookup", "split", "promote", "fill", "chunk",
           "block", "verify", "accept", "emit", "publish", "release", "done"}

ServeTypeOK ==
  /\ nSlots \in Nat \ {0} /\ draftOn \in BOOLEAN
  /\ pc \in [Conn -> Places]
  /\ slotBusy \subseteq Slots /\ slotOf \in [Conn -> Slots]
  /\ mu \in Conn \cup {Nobody} /\ sel \in Slots
  /\ dev \in [Slots -> Device]
  /\ st \in [Conn -> SeqStates] /\ hist \in [Conn -> Seq(BOOLEAN)] /\ made \in [Conn -> Nat]
  /\ rq \in [Conn -> [n : Nat \ {0}, budget : Nat]]
  /\ goal \in [Conn -> Nat] /\ blk \in [Conn -> [at : Nat, match : Seq(BOOLEAN)]]
  /\ pub \subseteq [pos : Nat, own : BOOLEAN, hist : HistRing]
  /\ clean \in [attend : BOOLEAN, pool : BOOLEAN]
  /\ reply \in [Conn -> {"none", "closed", "other", "error", "stop", "length"}]

\* The places a thread is at with engine_mu.
Locked(t) == pc[t] \in {"chunk", "verify", "accept"}

SlotInv ==
  /\ \A t \in Conn : HoldsSlot(t) => slotOf[t] \in slotBusy
  /\ \A t, u \in Conn : HoldsSlot(t) /\ HoldsSlot(u) /\ slotOf[t] = slotOf[u] => t = u
  /\ \A t \in Conn : mu = t <=> Locked(t)
  /\ mu # Nobody => sel = slotOf[mu]

Filling(t) == pc[t] \in {"lookup", "split", "promote", "fill", "chunk"}
InBlock(t) == pc[t] \in {"verify", "accept", "emit"}

\* The prompt being fed: the transcript is the prompt, and the counts are behind it.
FillInv(t) ==
  Filling(t) =>
    /\ Len(hist[t]) = rq[t].n /\ st[t].pos <= NPre(t)
    /\ pc[t] = "lookup" => st[t].pos = 0
    /\ pc[t] \in {"promote", "chunk"} => st[t].pos < goal[t] /\ goal[t] <= NPre(t)

\* A block in flight: where it starts, and how far the counts are.
BlockInv(t) ==
  /\ pc[t] = "block" => Len(hist[t]) = st[t].pos + 1
  /\ InBlock(t) =>
       /\ made[t] < rq[t].budget /\ Len(hist[t]) = blk[t].at + 1 /\ Proposed(t) <= Block
       /\ pc[t] = "verify" => st[t].pos = blk[t].at
       /\ pc[t] = "accept" => st[t].pos = blk[t].at + Proposed(t) + 1
       /\ pc[t] = "emit" => st[t].pos = blk[t].at + Accepted(blk[t].match) + 1

SeqOf(t) ==
  /\ \A i \in 1..Len(hist[t]) : hist[t][i]
  /\ made[t] <= rq[t].budget
  /\ FillInv(t) /\ BlockInv(t)

\* A ring holds the rows of positions from..upto-1, the thread's own and kept.
RowsOwned(raw, t, from, upto) ==
  \A p \in Greater(0, from)..(upto - 1) : IsOwn(raw[p % RawSlots], t, p)
Rows(t, from, upto) == RowsOwned(dev[slotOf[t]].raw, t, from, upto)

WindowOf(t) ==
  /\ Filling(t) \/ pc[t] \in {"block", "verify"} => Rows(t, st[t].pos - Sliding, st[t].pos)
  /\ pc[t] \in {"accept", "emit"} =>
       Rows(t, blk[t].at - Sliding + 1, blk[t].at + Accepted(blk[t].match) + 1)
  /\ pc[t] = "publish" => Rows(t, Upto(t) - Sliding, Upto(t))

CleanInv == clean.attend /\ \A c \in pub : c.own

ThreadInv == \A t \in Conn : SeqOf(t) /\ WindowOf(t)

ServeInv == ServeTypeOK /\ SlotInv /\ ThreadInv /\ CleanInv

-----------------------------------------------------------------------------
(* Numbers.                                                                *)

\* A set of naturals that is not empty has a least member.
LEMMA NatMin ==
  ASSUME NEW T, T \subseteq Nat, T # {}
  PROVE  \E x \in T : \A y \in T : x <= y
<1> SUFFICES ASSUME \A x \in T : \E y \in T : y < x PROVE FALSE
  OBVIOUS
<1>1. PICK t \in T : TRUE
  OBVIOUS
<1> DEFINE D == {n \in 0..t : \E x \in T : x <= n}
<1> DEFINE E == D \ {t}
<1> DEFINE pred == [n \in D |-> n - 1]
<1>2. t \in D
  BY <1>1
<1>3. \A n \in D : n - 1 \in E
  <2> TAKE n \in D
  <2>1. PICK x \in T : x <= n
    OBVIOUS
  <2>2. PICK y \in T : y < x
    OBVIOUS
  <2>3. n \in Nat /\ x \in Nat /\ y \in Nat /\ n <= t /\ t \in Nat
    BY <1>1
  <2>4. n - 1 \in 0..t /\ n - 1 # t /\ y <= n - 1
    BY <2>1, <2>2, <2>3
  <2> QED
    BY <2>4
<1>4. pred \in [D -> E]
  BY <1>3
<1>5. IsFiniteSet(D) /\ IsFiniteSet(0..t)
  <2>1. IsFiniteSet(0..t)
    BY <1>1, FS_Interval
  <2> QED
    BY <2>1, FS_Subset
<1>6. IsFiniteSet(E) /\ Cardinality(E) < Cardinality(D)
  <2>1. Cardinality(D) \in Nat
    BY <1>5, FS_CardinalityType
  <2>2. IsFiniteSet(E) /\ Cardinality(E) = Cardinality(D) - 1
    BY <1>2, <1>5, FS_RemoveElement
  <2> QED
    BY <2>1, <2>2
<1>7. PICK m \in D, n \in D : m # n /\ pred[m] = pred[n]
  <2> HIDE DEF D, E, pred
  <2> QED BY <1>4, <1>5, <1>6, FS_PigeonHole
<1> QED
  BY <1>7

\* What a position modulo a ring's size is.
LEMMA ModRange ==
  ASSUME NEW R \in Nat \ {0}, NEW p \in Nat
  PROVE  p % R \in 0..(R - 1) /\ p \div R \in Nat /\ p = R * (p \div R) + (p % R)
OBVIOUS
\* Two positions of one ring row lie a ring apart.
LEMMA ModApart ==
  ASSUME NEW R \in Nat \ {0}, NEW p \in Nat, NEW q \in Nat, p % R = q % R, p < q
  PROVE  p + R <= q
<1> DEFINE a == p \div R
<1> DEFINE b == q \div R
<1> DEFINE m == p % R
<1>1. a \in Nat /\ b \in Nat /\ m \in Nat /\ p = R * a + m /\ q = R * b + m
  <2>1. p % R \in 0..(R - 1) /\ p \div R \in Nat /\ p = R * (p \div R) + (p % R)
    BY ModRange
  <2>2. q % R \in 0..(R - 1) /\ q \div R \in Nat /\ q = R * (q \div R) + (q % R)
    BY ModRange
  <2> QED BY <2>1, <2>2
<1> HIDE DEF a, b, m
<1>2. a + 1 <= b
  <2>1. SUFFICES ASSUME b <= a PROVE FALSE
    BY <1>1
  <2>2. PICK c \in Nat : a = b + c
    BY <1>1, <2>1
  <2>3. R * c \in Nat
    OBVIOUS
  <2>4. R * a = R * b + R * c
    BY <1>1, <2>2
  <2> QED
    BY <1>1, <2>3, <2>4
<1>3. PICK c \in Nat : b = a + 1 + c
  BY <1>1, <1>2
<1>4. R * b = R * a + R + R * c /\ R * c \in Nat
  BY <1>1, <1>3
<1> QED
  BY <1>1, <1>4
\* kAttnBatch: the end of the sub-batch position i is committed in.
LEMMA Batch ==
  ASSUME NEW B \in Nat \ {0}, NEW i \in Nat
  PROVE  i < ((i \div B) + 1) * B /\ ((i \div B) + 1) * B <= i + B
<1> DEFINE d == i \div B
<1>1. d \in Nat /\ i = B * d + (i % B) /\ i % B \in 0..(B-1)
  BY ModRange
<1> HIDE DEF d
<1>2. (d + 1) * B = B * d + B
  BY <1>1
<1> QED
  BY <1>1, <1>2 DEF d

\* The smaller and the greater of two integers.
LEMMA LesserGreater ==
  ASSUME NEW a \in Int, NEW b \in Int
  PROVE  /\ Lesser(a, b) \in Int /\ Lesser(a, b) <= a /\ Lesser(a, b) <= b /\ Lesser(a, b) \in {a, b}
         /\ Greater(a, b) \in Int /\ Greater(a, b) >= a /\ Greater(a, b) >= b /\ Greater(a, b) \in {a, b}
BY DEF Lesser, Greater

-----------------------------------------------------------------------------
(* The rings of a slot.                                                    *)

\* The rings have rows, and the raw ring holds a window and the rest of a sub-batch.
LEMMA Sizes == RawSlots \in Nat \ {0} /\ Hist \in Nat \ {0} /\ RawSlots = Sliding + AttnBatch - 1
BY WindowAssumption DEF RawSlots, Hist

\* A ring row after a write, read at a position no later one has taken it from.
LEMMA WrittenAt ==
  ASSUME NEW ring, NEW size \in Nat \ {0}, NEW who, NEW from \in Nat, NEW n \in Nat, NEW kept \in Nat,
         NEW p \in Nat, p < from + n, from + n <= p + size
  PROVE  Written(ring, size, who, from, n, kept)[p % size] =
           IF p < from THEN ring[p % size] ELSE [who |-> who, pos |-> p, kept |-> p < from + kept]
<1> DEFINE at == {q \in from..(from + n - 1) : q % size = p % size}
<1>1. p % size \in 0..(size - 1)
  BY ModRange
<1>2. \A q \in at : q <= p
  <2> TAKE q \in at
  <2>0. q \in from..(from + n - 1) /\ q % size = p % size
    OBVIOUS
  <2> HIDE DEF at
  <2>1. q \in Nat /\ q < from + n
    BY <2>0
  <2>2. p < q => p + size <= q
    BY <2>0, <2>1, ModApart
  <2> QED BY <2>1, <2>2
<1> DEFINE top == CHOOSE q \in at : \A r \in at : r <= q
<1>3. Written(ring, size, who, from, n, kept)[p % size] =
        IF at = {} THEN ring[p % size] ELSE [who |-> who, pos |-> top, kept |-> top < from + kept]
  BY <1>1 DEF Written
<1>4. CASE p < from
  <2>1. at = {}
    BY <1>2, <1>4
  <2> QED BY <1>3, <1>4, <2>1
<1>5. CASE p >= from
  <2>1. p \in at
    BY <1>5
  <2>2. at \subseteq Nat
    OBVIOUS
  <2> HIDE DEF at
  <2>3. \A q \in at : (\A r \in at : r <= q) => q = p
    BY <1>2, <2>1, <2>2
  <2>4. top = p
    BY <1>2, <2>1, <2>3
  <2> HIDE DEF top
  <2>5. at # {} /\ ~(p < from)
    BY <1>5, <2>1
  <2> QED BY <1>3, <2>4, <2>5
<1> QED BY <1>4, <1>5

\* A write leaves a ring of cells.
LEMMA WrittenType ==
  ASSUME NEW size \in Nat \ {0}, NEW ring \in [0..(size - 1) -> Cell], NEW who \in Conn, NEW from \in Nat,
         NEW n \in Nat, NEW kept \in Nat
  PROVE  Written(ring, size, who, from, n, kept) \in [0..(size - 1) -> Cell]
<1> DEFINE at(s) == {p \in from..(from + n - 1) : p % size = s}
<1> DEFINE cell(s) == IF at(s) = {} THEN ring[s]
                      ELSE LET p == CHOOSE p \in at(s) : \A q \in at(s) : q <= p IN
                           [who |-> who, pos |-> p, kept |-> p < from + kept]
<1>1. ASSUME NEW s \in 0..(size - 1) PROVE cell(s) \in Cell
  <2>1. CASE at(s) = {}
    BY <2>1
  <2>2. CASE at(s) # {}
    <3> DEFINE gaps == {g \in Nat : from + n - g \in at(s)}
    <3>1. PICK p \in at(s) : TRUE
      BY <2>2
    <3>2. from + n - p \in gaps
      BY <3>1
    <3>3. PICK g \in gaps : \A h \in gaps : g <= h
      <4> HIDE DEF gaps
      <4>1. gaps \subseteq Nat
        BY DEF gaps
      <4> QED BY <3>2, <4>1, NatMin
    <3>4. \A q \in at(s) : q <= from + n - g
      <4> TAKE q \in at(s)
      <4>1. q \in from..(from + n - 1) /\ g \in Nat
        OBVIOUS
      <4>2. from + n - q \in gaps
        BY <4>1
      <4>3. g <= from + n - q
        BY <3>3, <4>2
      <4> HIDE DEF gaps, at
      <4> QED BY <4>1, <4>3
    <3>5. \E q \in at(s) : \A r \in at(s) : r <= q
      BY <3>3, <3>4
    <3>6. at(s) \subseteq Nat
      OBVIOUS
    <3> DEFINE q == CHOOSE q \in at(s) : \A r \in at(s) : r <= q
    <3>7. q \in Nat
      BY <3>5, <3>6
    <3> HIDE DEF q
    <3>8. [who |-> who, pos |-> q, kept |-> q < from + kept] \in Cell
      BY <3>7 DEF Cell
    <3> QED BY <2>2, <3>8 DEF q
  <2> QED BY <2>1, <2>2
<1>2. Written(ring, size, who, from, n, kept) = [s \in 0..(size - 1) |-> cell(s)]
  BY DEF Written
<1> HIDE DEF cell
<1> QED BY <1>1, <1>2

\* What forward_prefill of n positions leaves of the window before it: all that the
\* position after them can reach, and all but one if only k + 1 of them are kept.
LEMMA Reaches ==
  ASSUME NEW from \in Nat, NEW n \in Nat
  PROVE  /\ from - Sliding \in Int /\ from + n - Sliding \in Int /\ from + n \in Int
         /\ from - Sliding <= from + n - Sliding
         /\ from + n <= (from + n - Sliding) + RawSlots
         /\ from - Sliding + 1 \in Int /\ from - Sliding <= from - Sliding + 1
         /\ n <= AttnBatch => from + n <= (from - Sliding + 1) + RawSlots
BY WindowAssumption, Sizes

\* A step leaves a slot's rings.
LEMMA FedType ==
  ASSUME NEW d \in Device, NEW who \in Conn, NEW from \in Nat, NEW n \in Nat, NEW kept \in Nat
  PROVE  Fed(d, who, from, n, kept) \in Device
BY Sizes, WrittenType DEF Fed, Device, RawRing, HistRing

\* A step keeps the thread's own rows as far back as the ring reaches.
LEMMA FedRows ==
  ASSUME NEW raw, NEW t, NEW from \in Nat, NEW n \in Nat, NEW kept \in Nat,
         NEW had \in Int, NEW lo \in Int, NEW upto \in Int, had <= lo, from + n <= lo + RawSlots,
         upto <= from + kept, upto <= from + n,
         RowsOwned(raw, t, had, from)
  PROVE  RowsOwned(Written(raw, RawSlots, t, from, n, kept), t, lo, upto)
<1>0. \A p \in Greater(0, lo)..(upto - 1) : p \in Nat /\ lo <= p /\ p < upto
  BY DEF Greater
<1> SUFFICES ASSUME NEW p \in Nat, lo <= p, p < upto
             PROVE  IsOwn(Written(raw, RawSlots, t, from, n, kept)[p % RawSlots], t, p)
  BY <1>0 DEF RowsOwned
<1>1. p < from + n /\ from + n <= p + RawSlots
  BY Sizes
<1>2. Written(raw, RawSlots, t, from, n, kept)[p % RawSlots] =
        IF p < from THEN raw[p % RawSlots] ELSE [who |-> t, pos |-> p, kept |-> TRUE]
  <2> DEFINE size == RawSlots
  <2>1. size \in Nat \ {0} /\ p < from + n /\ from + n <= p + size
    BY <1>1, Sizes
  <2> HIDE DEF size
  <2>2. Written(raw, size, t, from, n, kept)[p % size] =
          IF p < from THEN raw[p % size] ELSE [who |-> t, pos |-> p, kept |-> p < from + kept]
    BY ONLY <2>1, WrittenAt
  <2>3. (p < from + kept) = TRUE
    OBVIOUS
  <2> QED BY <2>2, <2>3 DEF size
<1>3. CASE p < from
  <2>1. p \in Greater(0, had)..(from - 1)
    BY <1>3 DEF Greater
  <2> QED BY <1>2, <1>3, <2>1 DEF RowsOwned
<1>4. CASE p >= from
  BY <1>2, <1>4 DEF IsOwn
<1> QED BY <1>3, <1>4

\* With its own window in the ring, every query of a chunk finds its own rows, whatever the chunk's length.
LEMMA Attends ==
  ASSUME NEW raw, NEW t, NEW from \in Nat, NEW n \in Nat,
         RowsOwned(raw, t, from - Sliding, from)
  PROVE  AttendsToOwn(raw, t, from, n)
<1> SUFFICES ASSUME NEW i \in 0..(n - 1)
             PROVE  LET end == Lesser(n, ((i \div AttnBatch) + 1) * AttnBatch)
                        now == Written(raw, RawSlots, t, from, end, end)
                    IN \A p \in Greater(0, from + i - Sliding + 1)..(from + i) :
                         IsOwn(now[p % RawSlots], t, p)
  BY DEF AttendsToOwn
<1> DEFINE batch == ((i \div AttnBatch) + 1) * AttnBatch
<1> DEFINE end == Lesser(n, batch)
<1>1. i \in Nat /\ i < n
  OBVIOUS
<1>2. batch \in Int /\ i < batch /\ batch <= i + AttnBatch
  BY <1>1, WindowAssumption, Batch, ModRange
<1> HIDE DEF batch
<1>3. end \in Nat /\ i < end /\ end <= i + AttnBatch
  BY <1>1, <1>2, WindowAssumption DEF Lesser
<1> HIDE DEF end
<1>4. RowsOwned(Written(raw, RawSlots, t, from, end, end), t, from + i - Sliding + 1, from + end)
  <2> DEFINE lo == from + i - Sliding + 1
  <2>1. lo \in Int /\ from - Sliding \in Int /\ from - Sliding <= lo /\ from + end <= lo + RawSlots
    BY <1>1, <1>3, Sizes, WindowAssumption
  <2> HIDE DEF lo
  <2>2. RowsOwned(Written(raw, RawSlots, t, from, end, end), t, lo, from + end)
    BY <1>3, <2>1, FedRows
  <2> QED BY <2>2 DEF lo
<1>5. \A p \in Greater(0, from + i - Sliding + 1)..(from + i) :
        IsOwn(Written(raw, RawSlots, t, from, end, end)[p % RawSlots], t, p)
  <2> TAKE p \in Greater(0, from + i - Sliding + 1)..(from + i)
  <2>1. p \in Greater(0, from + i - Sliding + 1)..((from + end) - 1)
    BY <1>1, <1>3, WindowAssumption DEF Greater
  <2> QED BY <1>4, <2>1 DEF RowsOwned
<1> QED BY <1>5 DEF end, batch

-----------------------------------------------------------------------------
(* The counts.                                                             *)

\* The counts of a position.
LEMMA CountsType ==
  ASSUME NEW pos \in Nat
  PROVE  Counts(pos) \in SeqStates /\ Counts(pos).pos = pos /\ StateInit \in SeqStates /\ StateInit.pos = 0
<1>1. pos % Sliding \in Nat /\ pos \div Ratio \in Nat
  BY WindowAssumption, ModRange
<1>2. Lesser(pos, Sliding) \in Nat
  BY WindowAssumption DEF Lesser
<1> QED
  BY <1>1, <1>2 DEF Counts, SeqStates, StateInit

\* The counts after n more positions.
LEMMA AdvancedType ==
  ASSUME NEW s \in SeqStates, NEW n \in Nat
  PROVE  Advanced(s, n) \in SeqStates /\ Advanced(s, n).pos = s.pos + n
<1>1. s.pos \in Nat /\ s.nRaw \in Nat /\ s.rawHead \in Nat /\ s.nComp \in Nat
  BY DEF SeqStates
<1>2. Lesser(s.nRaw + n, Sliding) \in Nat /\ (s.rawHead + n) % Sliding \in Nat
  BY <1>1, WindowAssumption, ModRange DEF Lesser
<1> DEFINE emits == {p \in s.pos..(s.pos + n - 1) : Emits(p)}
<1>3. Cardinality(emits) \in Nat
  <2>1. \A a, b \in Int : IsFiniteSet(a..b)
    BY FS_Interval
  <2> HIDE DEF emits
  <2>2. s.pos \in Int /\ s.pos + n - 1 \in Int
    BY <1>1
  <2>3. IsFiniteSet(s.pos..(s.pos + n - 1))
    BY <2>1, <2>2
  <2>4. emits \in SUBSET (s.pos..(s.pos + n - 1))
    BY DEF emits
  <2> QED BY <2>3, <2>4, FS_Subset, FS_CardinalityType
<1> HIDE DEF emits
<1>4. s.nComp + Cardinality(emits) \in Nat
  BY <1>1, <1>3
<1>5. Advanced(s, n) = [pos |-> s.pos + n, nRaw |-> Lesser(s.nRaw + n, Sliding),
                        rawHead |-> (s.rawHead + n) % Sliding, nComp |-> s.nComp + Cardinality(emits)]
  BY DEF Advanced, emits
<1> QED
  BY <1>1, <1>2, <1>4, <1>5 DEF SeqStates

\* The counts after a rollback, which never moves them forward.
LEMMA RollbackType ==
  ASSUME NEW s \in SeqStates, NEW keep \in Nat
  PROVE  /\ Rollback(s, keep) \in SeqStates
         /\ Rollback(s, keep).pos = IF keep > s.pos THEN s.pos ELSE keep
<1>1. Counts(keep) \in SeqStates /\ Counts(keep).pos = keep
  BY CountsType
<1>2. Lesser(s.nComp, keep \div Ratio) \in Nat
  BY WindowAssumption, ModRange DEF Lesser, SeqStates
<1> QED
  BY <1>1, <1>2 DEF Rollback, SeqStates

\* The accepted proposals are the leading ones that are the target's own, and there is such a number.
LEMMA AcceptedIs ==
  ASSUME NEW m \in Seq(BOOLEAN)
  PROVE  /\ Accepted(m) \in 0..Len(m) /\ \A i \in 1..Accepted(m) : m[i]
         /\ Right(m) = Accepted(m)
<1> DEFINE ends == {k \in 0..Len(m) : k < Len(m) => ~m[k + 1]}
<1>1. Len(m) \in ends /\ ends \subseteq Nat
  BY LenProperties
<1>2. PICK k \in ends : \A j \in ends : k <= j
  BY <1>1, NatMin
<1>3. k \in 0..Len(m) /\ \A i \in 1..k : m[i]
  <2> SUFFICES ASSUME NEW i \in 1..k, ~m[i] PROVE FALSE
    OBVIOUS
  <2>1. k \in Nat /\ Len(m) \in Nat /\ k <= Len(m)
    BY LenProperties
  <2>2. i - 1 \in 0..Len(m) /\ ~m[(i - 1) + 1]
    BY <2>1
  <2>3. i - 1 \in ends
    BY <2>2
  <2>4. k <= i - 1
    BY <1>2, <2>3
  <2> HIDE DEF ends
  <2> QED BY <2>1, <2>4
<1> DEFINE A == Accepted(m)
<1>4. /\ A \in 0..Len(m) /\ \A i \in 1..A : m[i]
      /\ A < Len(m) => ~m[A + 1]
  BY <1>2, <1>3 DEF Accepted
<1> HIDE DEF A, ends
<1>5. {i \in DOMAIN m : \A j \in 1..i : m[j]} = 1..A
  <2>1. DOMAIN m = 1..Len(m) /\ Len(m) \in Nat /\ A \in Nat /\ A <= Len(m)
    BY <1>4, LenProperties
  <2>2. ASSUME NEW i \in 1..A PROVE i \in DOMAIN m /\ \A j \in 1..i : m[j]
    BY <1>4, <2>1, <2>2
  <2>3. ASSUME NEW i \in DOMAIN m, \A j \in 1..i : m[j] PROVE i \in 1..A
    <3>1. CASE i <= A
      BY <2>1, <3>1
    <3>2. CASE i > A
      <4>1. A + 1 \in 1..i /\ A < Len(m)
        BY <2>1, <3>2
      <4> QED BY <1>4, <2>3, <4>1
    <3> QED BY <2>1, <3>1, <3>2
  <2> QED BY <2>1, <2>2, <2>3
<1>6. Right(m) = A
  <2>1. Cardinality(1..A) = A
    BY <1>4, FS_Interval, LenProperties
  <2> QED BY <1>5, <2>1 DEF Right
<1> QED
  BY <1>4, <1>6 DEF A

-----------------------------------------------------------------------------
(* A step of one thread, seen from the others.                             *)

\* Nothing of the thread changes but that it may be woken, and its slot's ring stands.
Quiet(u) ==
  /\ pc'[u] = pc[u] \/ (pc[u] = "wait" /\ pc'[u] = "acquire")
  /\ st'[u] = st[u] /\ hist'[u] = hist[u] /\ made'[u] = made[u]
  /\ rq'[u] = rq[u] /\ goal'[u] = goal[u] /\ blk'[u] = blk[u] /\ slotOf'[u] = slotOf[u]
  /\ HoldsSlot(u) => dev'[slotOf[u]].raw = dev[slotOf[u]].raw

\* A thread no step touched, but for waking it, stands where it stood.
LEMMA QuietKeeps ==
  ASSUME NEW u \in Conn, SeqOf(u), WindowOf(u), Quiet(u)
  PROVE  SeqOf(u)' /\ WindowOf(u)'
<1>1. SeqOf(u)'
  BY DEF SeqOf, FillInv, BlockInv, Filling, InBlock, Proposed, NPre, Quiet
<1>2. WindowOf(u)'
  <2>1. CASE ~HoldsSlot(u)
    BY <2>1 DEF WindowOf, Filling, Quiet, HoldsSlot
  <2>2. CASE HoldsSlot(u)
    <3>1. \A a, b : Rows(u, a, b) => Rows(u, a, b)'
      BY <2>2 DEF Rows, RowsOwned, Quiet
    <3>2. UNCHANGED <<pc[u], st[u].pos, blk[u], hist[u]>>
      BY <2>2 DEF Quiet, HoldsSlot
    <3>3. UNCHANGED <<Filling(u), Upto(u)>>
      BY <3>2 DEF Filling, Upto
    <3>4. Filling(u)' \/ pc'[u] \in {"block", "verify"} => Rows(u, st[u].pos - Sliding, st[u].pos)'
      BY <3>1, <3>2, <3>3 DEF WindowOf
    <3> QED BY <3>1, <3>2, <3>3 DEF WindowOf
  <2> QED BY <2>1, <2>2
<1> QED BY <1>1, <1>2

\* The lock does not move, is taken with the thread's slot selected, or is given back.
LockStep(t) ==
  \/ mu' = mu /\ (sel' = sel \/ mu = Nobody) /\ (Locked(t)' <=> Locked(t))
  \/ mu = Nobody /\ mu' = t /\ sel' = slotOf[t] /\ Locked(t)'
  \/ mu = t /\ mu' = Nobody /\ ~Locked(t)'

\* Slots and the lock, in a step that takes and frees no slot.
LEMMA SlotKept ==
  ASSUME ServeTypeOK, SlotInv, NEW t \in Conn, UNCHANGED slotVars,
         \A u \in Conn \ {t} : pc'[u] = pc[u], HoldsSlot(t)' => HoldsSlot(t), LockStep(t)
  PROVE  SlotInv'
<1> USE DEF SlotInv, slotVars
<1>1. \A u \in Conn : HoldsSlot(u)' => HoldsSlot(u)
  BY DEF HoldsSlot
<1>2. \A u \in Conn \ {t} : Locked(u)' <=> Locked(u)
  BY DEF Locked
<1>3. Nobody \notin Conn
  BY ServeAssumption
<1>4. \A u \in Conn : mu' = u <=> Locked(u)'
  <2>1. \A u \in Conn : mu = u <=> Locked(u)
    OBVIOUS
  <2>2. CASE mu' = mu /\ (Locked(t)' <=> Locked(t))
    BY ONLY <1>2, <2>1, <2>2
  <2>3. CASE mu = Nobody /\ mu' = t /\ Locked(t)'
    BY ONLY <1>2, <1>3, <2>1, <2>3, t \in Conn
  <2>4. CASE mu = t /\ mu' = Nobody /\ ~Locked(t)'
    BY ONLY <1>2, <1>3, <2>1, <2>4, t \in Conn
  <2> QED BY <2>2, <2>3, <2>4, Zenon DEF LockStep
<1>5. mu' # Nobody => sel' = slotOf[mu']
  BY <1>3 DEF LockStep, ServeTypeOK
<1> QED
  BY <1>1, <1>4, <1>5

\* What a step of t keeps, from what it does to t.
LEMMA ThreadStep ==
  ASSUME ServeInv, NEW t \in Conn, ServeTypeOK', SlotInv', CleanInv',
         \A u \in Conn \ {t} : Quiet(u), SeqOf(t)' /\ WindowOf(t)'
  PROVE  ServeInv'
<1>1. \A u \in Conn : SeqOf(u)' /\ WindowOf(u)'
  <2> SUFFICES ASSUME NEW u \in Conn, u # t PROVE SeqOf(u)' /\ WindowOf(u)'
    OBVIOUS
  <2> QED BY QuietKeeps DEF ServeInv, ThreadInv
<1> QED
  BY <1>1 DEF ServeInv, ThreadInv

\* The invariant holds at load.
LEMMA ServeInitInv == ServeInit => ServeInv
<1> SUFFICES ASSUME ServeInit PROVE ServeInv
  OBVIOUS
<1> USE DEF ServeInit
<1>1. nSlots \in Nat \ {0} /\ 0 \in Slots
  BY ServeAssumption DEF Slots
<1>2. ServeTypeOK
  <2>1. Blank \in Cell /\ Fresh \in Device
    BY DEF Cell, Blank, Fresh, Device, RawRing, HistRing
  <2>2. draftOn \in BOOLEAN /\ StateInit \in SeqStates
    BY CountsType, ServeAssumption
  <2>3. rq \in [Conn -> [n : Nat \ {0}, budget : Nat]]
    BY ServeAssumption
  <2>4. NoBlock \in [at : Nat, match : Seq(BOOLEAN)]
    BY EmptySeq DEF NoBlock
  <2>5. hist \in [Conn -> Seq(BOOLEAN)]
    BY EmptySeq
  <2>6. dev \in [Slots -> Device]
    BY <2>1
  <2>7. pc \in [Conn -> Places] /\ reply \in [Conn -> {"none", "closed", "other", "error", "stop", "length"}]
    BY DEF Places
  <2>8. clean \in [attend : BOOLEAN, pool : BOOLEAN]
    OBVIOUS
  <2>9. slotBusy \subseteq Slots /\ slotOf \in [Conn -> Slots] /\ sel \in Slots
    BY <1>1
  <2> QED BY <1>1, <2>2, <2>3, <2>4, <2>5, <2>6, <2>7, <2>8, <2>9 DEF ServeTypeOK
<1>3. SlotInv
  BY ServeAssumption DEF SlotInv, HoldsSlot, Locked
<1>4. ThreadInv
  <2> SUFFICES ASSUME NEW t \in Conn PROVE SeqOf(t) /\ WindowOf(t)
    BY DEF ThreadInv
  <2>1. rq[t].budget \in Nat /\ pc[t] = "recv" /\ hist[t] = <<>> /\ made[t] = 0
    BY <1>2 DEF ServeTypeOK
  <2> QED BY <2>1 DEF SeqOf, WindowOf, FillInv, BlockInv, Filling, InBlock
<1>5. CleanInv
  BY DEF CleanInv
<1> QED
  BY <1>2, <1>3, <1>4, <1>5 DEF ServeInv

-----------------------------------------------------------------------------
(* The server's steps.                                                     *)

\* A thread that goes somewhere is there, and no other moved.
LEMMA GotoType ==
  ASSUME ServeTypeOK, NEW t \in Conn, NEW w \in Places, Goto(t, w)
  PROVE  /\ pc' \in [Conn -> Places] /\ pc'[t] = w
         /\ \A u \in Conn \ {t} : pc'[u] = pc[u]
BY DEF ServeTypeOK, Goto

\* The invariant across RecvOther and RecvCompletion.
LEMMA RecvStep ==
  ASSUME ServeInv, NEW t \in Conn, RecvOther(t) \/ RecvCompletion(t)
  PROVE  ServeInv'
<1>1. PICK w \in {"done", "acquire"} :
        /\ pc[t] = "recv" /\ Goto(t, w)
        /\ UNCHANGED <<confVars, slotVars, mu, sel, dev, seqVars, rq, goal, blk, pub, clean>>
  BY DEF RecvOther, RecvCompletion, reqVars
<1>2. /\ pc' \in [Conn -> Places] /\ pc'[t] = w /\ \A u \in Conn \ {t} : pc'[u] = pc[u]
  BY <1>1, GotoType DEF ServeInv, Places
<1>3. reply' \in [Conn -> {"none", "closed", "other", "error", "stop", "length"}]
  BY DEF RecvOther, RecvCompletion, reqVars, ServeInv, ServeTypeOK
<1> USE DEF confVars, slotVars, seqVars
<1>4. ServeTypeOK'
  BY <1>1, <1>2, <1>3 DEF ServeInv, ServeTypeOK, Slots
<1>5. SlotInv'
  <2>1. ~HoldsSlot(t)' /\ LockStep(t)
    BY <1>1, <1>2 DEF HoldsSlot, LockStep, Locked
  <2> QED BY <1>1, <1>2, <2>1, SlotKept DEF ServeInv
<1>6. \A u \in Conn \ {t} : Quiet(u)
  BY <1>1, <1>2 DEF Quiet
<1>7. SeqOf(t)' /\ WindowOf(t)'
  BY <1>1, <1>2 DEF ServeInv, ThreadInv, SeqOf, WindowOf, FillInv, BlockInv, Filling, InBlock
<1>8. CleanInv'
  BY <1>1 DEF ServeInv, CleanInv
<1> QED
  BY <1>4, <1>5, <1>6, <1>7, <1>8, ThreadStep

\* The invariant across Acquire: the slot handed out was nobody's.
LEMMA AcquireStep ==
  ASSUME ServeInv, NEW t \in Conn, Acquire(t)
  PROVE  ServeInv'
<1> DEFINE free == Slots \ slotBusy
<1> DEFINE lowest == CHOOSE s \in free : \A u \in free : s <= u
<1>1. /\ pc[t] = "acquire"
      /\ UNCHANGED <<confVars, mu, sel, dev, seqVars, reqVars, pub, clean>>
      /\ \/ free = {} /\ Goto(t, "wait") /\ UNCHANGED slotVars
         \/ free # {} /\ Goto(t, "check") /\ Take(t, lowest)
  BY DEF Acquire
<1>2. free # {} => lowest \in free
  <2> SUFFICES ASSUME free # {} PROVE lowest \in free
    OBVIOUS
  <2>1. free \subseteq Nat
    BY DEF Slots, ServeInv, ServeTypeOK
  <2> HIDE DEF free
  <2>2. \E s \in free : \A u \in free : s <= u
    BY <2>1, NatMin
  <2> QED BY <2>2
<1> HIDE DEF lowest, free
<1> USE DEF confVars, seqVars, reqVars
<1>3. CASE free = {}
  <2>1. Goto(t, "wait") /\ UNCHANGED slotVars
    BY <1>1, <1>3
  <2>2. /\ pc' \in [Conn -> Places] /\ pc'[t] = "wait" /\ \A u \in Conn \ {t} : pc'[u] = pc[u]
    BY <2>1, GotoType DEF ServeInv, Places
  <2>3. ServeTypeOK'
    BY <1>1, <2>1, <2>2 DEF ServeInv, ServeTypeOK, Slots, slotVars
  <2>4. SlotInv'
    <3>1. ~HoldsSlot(t)' /\ LockStep(t)
      BY <1>1, <2>2 DEF HoldsSlot, LockStep, Locked
    <3> QED BY <2>1, <2>2, <3>1, SlotKept DEF ServeInv
  <2>5. \A u \in Conn \ {t} : Quiet(u)
    BY <1>1, <2>1, <2>2 DEF Quiet, slotVars
  <2>6. SeqOf(t)' /\ WindowOf(t)'
    BY <1>1, <2>2 DEF ServeInv, ThreadInv, SeqOf, WindowOf, FillInv, BlockInv, Filling, InBlock
  <2>7. CleanInv'
    BY <1>1 DEF ServeInv, CleanInv
  <2> QED
    BY <2>3, <2>4, <2>5, <2>6, <2>7, ThreadStep
<1>4. CASE free # {}
  <2>1. Goto(t, "check") /\ Take(t, lowest) /\ lowest \in free
    BY <1>1, <1>2, <1>4
  <2>2. /\ pc' \in [Conn -> Places] /\ pc'[t] = "check" /\ \A u \in Conn \ {t} : pc'[u] = pc[u]
    BY <2>1, GotoType DEF ServeInv, Places
  <2>3. /\ lowest \in Slots /\ lowest \notin slotBusy
        /\ slotBusy' = slotBusy \cup {lowest} /\ slotOf' = [slotOf EXCEPT ![t] = lowest]
    BY <2>1 DEF Take, free
  <2>4. ServeTypeOK'
    BY <1>1, <2>2, <2>3 DEF ServeInv, ServeTypeOK, Slots
  <2>5. SlotInv'
    <3>1. \A u \in Conn \ {t} : slotOf'[u] = slotOf[u] /\ (HoldsSlot(u)' <=> HoldsSlot(u)) /\ (Locked(u)' <=> Locked(u))
      BY <2>2, <2>3 DEF HoldsSlot, Locked
    <3>2. slotOf'[t] = lowest /\ ~Locked(t) /\ ~Locked(t)'
      BY <1>1, <2>2, <2>3 DEF Locked, ServeInv, ServeTypeOK
    <3>3. \A u \in Conn : HoldsSlot(u)' => slotOf'[u] \in slotBusy'
      BY <2>3, <3>1, <3>2 DEF ServeInv, SlotInv
    <3>4. \A u, v \in Conn : HoldsSlot(u)' /\ HoldsSlot(v)' /\ slotOf'[u] = slotOf'[v] => u = v
      BY <2>3, <3>1, <3>2 DEF ServeInv, SlotInv
    <3>5. \A u \in Conn : mu' = u <=> Locked(u)'
      BY <1>1, <3>1, <3>2 DEF ServeInv, SlotInv
    <3>6. mu' # Nobody => sel' = slotOf'[mu']
      <4>1. mu # t
        BY <3>2 DEF ServeInv, SlotInv
      <4> QED BY <1>1, <3>1, <4>1 DEF ServeInv, SlotInv, ServeTypeOK
    <3> QED BY <3>3, <3>4, <3>5, <3>6 DEF SlotInv
  <2>6. \A u \in Conn \ {t} : Quiet(u)
    BY <1>1, <2>2, <2>3 DEF Quiet
  <2>7. SeqOf(t)' /\ WindowOf(t)'
    BY <1>1, <2>2 DEF ServeInv, ThreadInv, SeqOf, WindowOf, FillInv, BlockInv, Filling, InBlock
  <2>8. CleanInv'
    BY <1>1 DEF ServeInv, CleanInv
  <2> QED
    BY <2>4, <2>5, <2>6, <2>7, <2>8, ThreadStep
<1> QED
  BY <1>3, <1>4

\* The invariant across Release, and the thread it wakes.
LEMMA ReleaseStep ==
  ASSUME ServeInv, NEW t \in Conn, Release(t)
  PROVE  ServeInv'
<1> USE DEF confVars, seqVars, reqVars
<1>1. /\ pc[t] = "release" /\ slotBusy' = slotBusy \ {slotOf[t]} /\ WakeOne(t)
      /\ UNCHANGED <<confVars, slotOf, mu, sel, dev, seqVars, reqVars, pub, clean>>
  BY DEF Release
<1>2. /\ pc' \in [Conn -> Places] /\ pc'[t] = "done"
      /\ \A u \in Conn \ {t} : pc'[u] = pc[u] \/ (pc[u] = "wait" /\ pc'[u] = "acquire")
  <2>1. CASE Sleeping = {}
    BY <1>1, <2>1 DEF WakeOne, Goto, ServeInv, ServeTypeOK, Places
  <2>2. CASE Sleeping # {}
    <3>1. PICK w \in Sleeping : pc' = [pc EXCEPT ![t] = "done", ![w] = "acquire"]
      BY <1>1, <2>2 DEF WakeOne
    <3>2. w \in Conn /\ pc[w] = "wait" /\ w # t
      BY <1>1 DEF Sleeping
    <3> QED BY <3>1, <3>2 DEF ServeInv, ServeTypeOK, Places
  <2> QED BY <2>1, <2>2
<1>3. ServeTypeOK'
  BY <1>1, <1>2 DEF ServeInv, ServeTypeOK, Slots
<1>4. SlotInv'
  <2>1. \A u \in Conn : HoldsSlot(u)' => HoldsSlot(u) /\ u # t
    BY <1>2 DEF HoldsSlot
  <2>2. \A u \in Conn : Locked(u)' <=> Locked(u)
    BY <1>1, <1>2 DEF Locked
  <2>3. HoldsSlot(t)
    BY <1>1 DEF HoldsSlot
  <2>4. \A u \in Conn : HoldsSlot(u)' => slotOf'[u] \in slotBusy'
    BY <1>1, <2>1, <2>3 DEF ServeInv, SlotInv
  <2>5. \A u, v \in Conn : HoldsSlot(u)' /\ HoldsSlot(v)' /\ slotOf'[u] = slotOf'[v] => u = v
    BY <1>1, <2>1 DEF ServeInv, SlotInv
  <2> QED BY <1>1, <2>2, <2>4, <2>5 DEF ServeInv, SlotInv
<1>5. \A u \in Conn \ {t} : Quiet(u)
  BY <1>1, <1>2 DEF Quiet
<1>6. SeqOf(t)' /\ WindowOf(t)'
  BY <1>1, <1>2 DEF ServeInv, ThreadInv, SeqOf, WindowOf, FillInv, BlockInv, Filling, InBlock
<1>7. CleanInv'
  BY <1>1 DEF ServeInv, CleanInv
<1> QED
  BY <1>3, <1>4, <1>5, <1>6, <1>7, ThreadStep

-----------------------------------------------------------------------------
(* The handler's steps.                                                    *)

\* The invariant across Refuse and ChunkFails.
LEMMA RefuseStep ==
  ASSUME ServeInv, NEW t \in Conn, Refuse(t) \/ ChunkFails(t)
  PROVE  ServeInv'
<1> USE DEF confVars, slotVars, seqVars
<1>1. /\ Goto(t, "release") /\ pc[t] \in {"check", "chunk"}
      /\ UNCHANGED <<confVars, slotVars, sel, dev, seqVars, rq, goal, blk, pub, clean>>
      /\ mu' = IF pc[t] = "chunk" THEN Nobody ELSE mu
      /\ reply' \in [Conn -> {"none", "closed", "other", "error", "stop", "length"}]
  BY DEF Refuse, ChunkFails, ServeInv, ServeTypeOK
<1>2. pc' \in [Conn -> Places] /\ pc'[t] = "release" /\ \A u \in Conn \ {t} : pc'[u] = pc[u]
  BY <1>1, GotoType DEF ServeInv, Places
<1>3. ServeTypeOK'
  BY <1>1, <1>2 DEF ServeInv, ServeTypeOK, Slots
<1>4. SlotInv'
  <2>1. HoldsSlot(t)
    BY <1>1 DEF HoldsSlot
  <2>2. LockStep(t)
    BY <1>1, <1>2 DEF LockStep, Locked, ServeInv, SlotInv
  <2> QED BY <1>1, <1>2, <2>1, <2>2, SlotKept DEF ServeInv
<1>5. \A u \in Conn \ {t} : Quiet(u)
  BY <1>1, <1>2 DEF Quiet
<1>6. SeqOf(t)' /\ WindowOf(t)'
  BY <1>1, <1>2 DEF ServeInv, ThreadInv, SeqOf, WindowOf, FillInv, BlockInv, Filling, InBlock
<1>7. CleanInv'
  BY <1>1 DEF ServeInv, CleanInv
<1> QED
  BY <1>3, <1>4, <1>5, <1>6, <1>7, ThreadStep

\* The right tokens of a prompt.
LEMMA AllTrue ==
  ASSUME NEW n \in Nat
  PROVE  [i \in 1..n |-> TRUE] \in Seq(BOOLEAN) /\ Len([i \in 1..n |-> TRUE]) = n
<1>1. [i \in 1..n |-> TRUE] \in [1..n -> BOOLEAN]
  OBVIOUS
<1> QED
  BY <1>1, SeqDef

\* A window of no positions.
LEMMA NoRows == \A raw, t : RowsOwned(raw, t, 0 - Sliding, 0)
BY WindowAssumption DEF RowsOwned, Greater

\* The invariant across InitState, which resets the history ring of whatever slot is selected.
LEMMA InitStateStep ==
  ASSUME ServeInv, NEW t \in Conn, InitState(t)
  PROVE  ServeInv'
<1> USE DEF confVars, slotVars, reqVars
<1>1. /\ pc[t] = "check" /\ st' = [st EXCEPT ![t] = StateInit]
      /\ hist' = [hist EXCEPT ![t] = [i \in 1..rq[t].n |-> TRUE]]
      /\ dev' = [dev EXCEPT ![sel].hist = Fresh.hist]
      /\ UNCHANGED <<confVars, slotVars, mu, sel, made, reqVars, pub, clean>>
      /\ Goto(t, "lookup") \/ Goto(t, "fill")
  BY DEF InitState, CompressReset
<1>2. /\ pc' \in [Conn -> Places] /\ pc'[t] \in {"lookup", "fill"}
      /\ \A u \in Conn \ {t} : pc'[u] = pc[u]
  BY <1>1, GotoType DEF ServeInv, Places
<1>3. rq[t].n \in Nat \ {0} /\ rq[t].budget \in Nat
  BY DEF ServeInv, ServeTypeOK
<1>4. StateInit \in SeqStates /\ StateInit.pos = 0
  BY CountsType
<1>5. /\ [i \in 1..rq[t].n |-> TRUE] \in Seq(BOOLEAN) /\ Len([i \in 1..rq[t].n |-> TRUE]) = rq[t].n
  BY <1>3, AllTrue
<1>6. /\ dev' \in [Slots -> Device] /\ \A s \in Slots : dev'[s].raw = dev[s].raw
  <2>1. Fresh.hist \in HistRing
    BY DEF Fresh, HistRing, Cell, Blank
  <2>2. dev \in [Slots -> Device] /\ sel \in Slots
    BY DEF ServeInv, ServeTypeOK
  <2> QED BY <1>1, <2>1, <2>2 DEF Device
<1>7. ServeTypeOK'
  <2>1. st' \in [Conn -> SeqStates] /\ hist' \in [Conn -> Seq(BOOLEAN)]
    BY <1>1, <1>4, <1>5 DEF ServeInv, ServeTypeOK
  <2> QED BY <1>1, <1>2, <1>6, <2>1 DEF ServeInv, ServeTypeOK, Slots
<1>8. SlotInv'
  <2>1. HoldsSlot(t)
    BY <1>1 DEF HoldsSlot
  <2>2. LockStep(t)
    BY <1>1, <1>2 DEF LockStep, Locked
  <2> QED BY <1>1, <1>2, <2>1, <2>2, SlotKept DEF ServeInv
<1>9. \A u \in Conn \ {t} : Quiet(u)
  BY <1>1, <1>2, <1>6 DEF Quiet, ServeInv, ServeTypeOK
<1>10. st'[t] = StateInit /\ hist'[t] = [i \in 1..rq[t].n |-> TRUE] /\ made'[t] = made[t] /\ rq'[t] = rq[t]
  BY <1>1 DEF ServeInv, ServeTypeOK
<1>11. SeqOf(t)'
  <2>1. made[t] <= rq[t].budget
    BY DEF ServeInv, ThreadInv, SeqOf
  <2> QED BY <1>2, <1>3, <1>4, <1>5, <1>10, <2>1 DEF SeqOf, FillInv, BlockInv, Filling, InBlock, NPre
<1>12. WindowOf(t)'
  <2>1. Rows(t, 0 - Sliding, 0)'
    BY NoRows DEF Rows
  <2>2. Rows(t, st[t].pos - Sliding, st[t].pos)'
    BY <1>4, <1>10, <2>1
  <2> QED BY <1>2, <2>2 DEF WindowOf
<1>13. CleanInv'
  BY <1>1 DEF ServeInv, CleanInv
<1> QED
  BY <1>7, <1>8, <1>9, <1>11, <1>12, <1>13, ThreadStep

\* A restored checkpoint leaves the window before its position.
LEMMA RestoredIs ==
  ASSUME NEW raw \in RawRing, NEW t \in Conn, NEW pos \in Nat
  PROVE  LET new == Written(raw, RawSlots, t, Greater(0, pos - Sliding), Lesser(pos, Sliding), Sliding)
         IN new \in RawRing /\ RowsOwned(new, t, pos - Sliding, pos)
<1> DEFINE from == Greater(0, pos - Sliding)
<1> DEFINE n == Lesser(pos, Sliding)
<1>1. from \in Nat /\ n \in Nat /\ Sliding \in Nat /\ from + n = pos /\ n <= Sliding /\ pos - Sliding <= from
  BY WindowAssumption DEF Greater, Lesser
<1>2. RowsOwned(raw, t, from, from)
  BY <1>1 DEF RowsOwned, Greater
<1> DEFINE new == Written(raw, RawSlots, t, from, n, Sliding)
<1> HIDE DEF from, n
<1>3. new \in RawRing
  BY <1>1, Sizes, WrittenType DEF RawRing
<1>4. RowsOwned(new, t, from, pos)
  <2>1. from + n <= from + RawSlots /\ pos <= from + Sliding /\ pos <= from + n
    BY <1>1, Sizes, WindowAssumption
  <2> QED BY <1>1, <1>2, <2>1, FedRows
<1>5. RowsOwned(new, t, pos - Sliding, pos)
  <2>1. Greater(0, from) = Greater(0, pos - Sliding)
    BY WindowAssumption DEF from, Greater
  <2> QED BY <1>4, <2>1 DEF RowsOwned
<1> QED
  BY <1>3, <1>5 DEF from, n

\* The invariant across Lookup: nothing restored, a restore that fails half way, or a whole one.
LEMMA LookupStep ==
  ASSUME ServeInv, NEW t \in Conn, Lookup(t)
  PROVE  ServeInv'
<1> USE DEF confVars, slotVars, reqVars
<1> DEFINE s == slotOf[t]
<1>1. /\ pc[t] = "lookup" /\ mu = Nobody /\ sel' = s
      /\ Goto(t, "split")
      /\ UNCHANGED <<confVars, slotVars, mu, hist, made, reqVars, pub, clean>>
  BY DEF Lookup, Enter
<1>2. pc' \in [Conn -> Places] /\ pc'[t] = "split" /\ \A u \in Conn \ {t} : pc'[u] = pc[u]
  BY <1>1, GotoType DEF ServeInv, Places
<1>3. HoldsSlot(t) /\ s \in Slots /\ dev \in [Slots -> Device] /\ st \in [Conn -> SeqStates]
  BY <1>1 DEF HoldsSlot, ServeInv, ServeTypeOK
<1>4. /\ st[t].pos = 0 /\ Len(hist[t]) = rq[t].n /\ NPre(t) \in Nat
  BY <1>1 DEF ServeInv, ThreadInv, SeqOf, FillInv, Filling, ServeTypeOK, NPre
<1>5. /\ dev' \in [Slots -> Device] /\ \A u \in Slots \ {s} : dev'[u] = dev[u]
      /\ st' \in [Conn -> SeqStates] /\ \A u \in Conn \ {t} : st'[u] = st[u]
      /\ st'[t].pos \in Nat /\ st'[t].pos <= NPre(t)
      /\ RowsOwned(dev'[s].raw, t, st'[t].pos - Sliding, st'[t].pos)
  <2>1. CASE UNCHANGED <<dev, st>>
    BY <1>3, <1>4, <2>1, NoRows
  <2>2. CASE \E c \in pub :
          /\ dev' = [dev EXCEPT ![s].raw = [r \in DOMAIN @ |-> Blank], ![s].hist = c.hist]
          /\ UNCHANGED st
    <3>1. PICK c \in pub : dev' = [dev EXCEPT ![s].raw = [r \in DOMAIN @ |-> Blank], ![s].hist = c.hist]
      BY <2>2
    <3>2. c.hist \in HistRing
      BY DEF ServeInv, ServeTypeOK
    <3>3. Blank \in Cell
      BY DEF Blank, Cell
    <3>4. dev' \in [Slots -> Device] /\ \A u \in Slots \ {s} : dev'[u] = dev[u]
      BY <1>3, <3>1, <3>2, <3>3 DEF Device, RawRing
    <3> QED BY <1>3, <1>4, <2>2, <3>4, NoRows
  <2>3. CASE \E c \in pub :
          /\ c.pos <= NPre(t)
          /\ dev' = [dev EXCEPT ![sel'] = Restored(t, c)] /\ st' = [st EXCEPT ![t] = RestoreState(c.pos)]
    <3>1. PICK c \in pub :
            /\ c.pos <= NPre(t)
            /\ dev' = [dev EXCEPT ![s] = Restored(t, c)] /\ st' = [st EXCEPT ![t] = RestoreState(c.pos)]
      BY <1>1, <2>3
    <3>2. c.pos \in Nat /\ c.hist \in HistRing /\ c.own
      BY DEF ServeInv, ServeTypeOK, CleanInv
    <3>3. /\ RestoreState(c.pos) \in SeqStates /\ RestoreState(c.pos).pos = c.pos
      BY <3>2, CountsType DEF RestoreState
    <3>4. Restored(t, c) =
            [raw |-> Written(dev[s].raw, RawSlots, t, Greater(0, c.pos - Sliding), Lesser(c.pos, Sliding), Sliding),
             hist |-> [r \in DOMAIN c.hist |-> [c.hist[r] EXCEPT !.who = t]]]
      BY <1>1, <3>2 DEF Restored
    <3>5. [r \in DOMAIN c.hist |-> [c.hist[r] EXCEPT !.who = t]] \in HistRing
      BY <3>2 DEF HistRing, Cell
    <3>6. dev[s].raw \in RawRing
      BY <1>3 DEF Device
    <3>7. Restored(t, c) \in Device /\ RowsOwned(Restored(t, c).raw, t, c.pos - Sliding, c.pos)
      BY <3>2, <3>4, <3>5, <3>6, RestoredIs DEF Device
    <3> QED BY <1>3, <3>1, <3>2, <3>3, <3>7
  <2> QED BY <1>1, <2>1, <2>2, <2>3 DEF Lookup
<1>6. ServeTypeOK'
  BY <1>1, <1>2, <1>3, <1>5 DEF ServeInv, ServeTypeOK, Slots
<1>7. SlotInv'
  <2>1. LockStep(t)
    BY <1>1, <1>2 DEF LockStep, Locked
  <2> QED BY <1>1, <1>2, <1>3, <2>1, SlotKept DEF ServeInv
<1>8. \A u \in Conn \ {t} : Quiet(u)
  <2>1. \A u \in Conn \ {t} : HoldsSlot(u) => slotOf[u] \in Slots \ {s}
    BY <1>3 DEF ServeInv, ServeTypeOK, SlotInv
  <2> QED BY <1>1, <1>2, <1>5, <2>1 DEF Quiet
<1>9. SeqOf(t)'
  BY <1>1, <1>2, <1>4, <1>5 DEF ServeInv, ThreadInv, SeqOf, FillInv, BlockInv, Filling, InBlock, NPre
<1>10. WindowOf(t)'
  BY <1>1, <1>2, <1>5 DEF WindowOf, Rows
<1>11. CleanInv'
  BY <1>1 DEF ServeInv, CleanInv
<1> QED
  BY <1>6, <1>7, <1>8, <1>9, <1>10, <1>11, ThreadStep

\* The invariant across Split.
LEMMA SplitStep ==
  ASSUME ServeInv, NEW t \in Conn, Split(t)
  PROVE  ServeInv'
<1> USE DEF confVars, slotVars, seqVars
<1>1. /\ pc[t] = "split"
      /\ UNCHANGED <<confVars, slotVars, mu, sel, dev, seqVars, rq, blk, reply, pub, clean>>
      /\ \/ Goto(t, "fill") /\ UNCHANGED goal
         \/ \E b \in Nat : /\ b > st[t].pos /\ b + Sliding <= NPre(t)
                           /\ Goto(t, "promote") /\ goal' = [goal EXCEPT ![t] = b]
  <2>1. PICK c \in pub \cup {[pos |-> 0]} :
          LET b == (c.pos \div BlockTokens) * BlockTokens IN
          IF b > st[t].pos /\ b + Sliding <= NPre(t)
          THEN Goto(t, "promote") /\ goal' = [goal EXCEPT ![t] = b]
          ELSE Goto(t, "fill") /\ UNCHANGED goal
    BY DEF Split
  <2>2. c.pos \in Nat
    BY DEF ServeInv, ServeTypeOK
  <2>3. (c.pos \div BlockTokens) * BlockTokens \in Nat
    BY <2>2, ServeAssumption, ModRange
  <2> QED BY <2>1, <2>3 DEF Split
<1>2. /\ pc' \in [Conn -> Places] /\ pc'[t] \in {"fill", "promote"}
      /\ \A u \in Conn \ {t} : pc'[u] = pc[u] /\ goal'[u] = goal[u]
      /\ goal' \in [Conn -> Nat]
  <2>1. goal \in [Conn -> Nat]
    BY DEF ServeInv, ServeTypeOK
  <2> QED BY <1>1, <2>1, GotoType DEF ServeInv, Places
<1>3. pc'[t] = "promote" => st[t].pos < goal'[t] /\ goal'[t] <= NPre(t)
  <2>0. rq[t].n \in Nat
    BY DEF ServeInv, ServeTypeOK
  <2>1. goal \in [Conn -> Nat] /\ st[t].pos \in Nat
    BY DEF ServeInv, ServeTypeOK, SeqStates
  <2>2. CASE Goto(t, "fill")
    BY <2>2, GotoType DEF ServeInv, Places
  <2>3. CASE \E b \in Nat : b > st[t].pos /\ b + Sliding <= NPre(t) /\ goal' = [goal EXCEPT ![t] = b]
    <3>1. NPre(t) \in Int
      BY <2>0 DEF NPre
    <3> QED BY <2>1, <2>3, <3>1, WindowAssumption
  <2> QED BY <1>1, <2>2, <2>3
<1>4. ServeTypeOK'
  BY <1>1, <1>2 DEF ServeInv, ServeTypeOK, Slots
<1>5. SlotInv'
  <2>1. HoldsSlot(t) /\ LockStep(t)
    BY <1>1, <1>2 DEF HoldsSlot, LockStep, Locked
  <2> QED BY <1>1, <1>2, <2>1, SlotKept DEF ServeInv
<1>6. \A u \in Conn \ {t} : Quiet(u)
  BY <1>1, <1>2 DEF Quiet
<1>7. SeqOf(t)'
  BY <1>1, <1>2, <1>3 DEF ServeInv, ThreadInv, SeqOf, FillInv, BlockInv, Filling, InBlock, NPre
<1>8. WindowOf(t)'
  BY <1>1, <1>2 DEF ServeInv, ThreadInv, WindowOf, Filling, Rows
<1>9. CleanInv'
  BY <1>1 DEF ServeInv, CleanInv
<1> QED
  BY <1>4, <1>5, <1>6, <1>7, <1>8, <1>9, ThreadStep

\* The invariant across PrefillStep, which takes the lock and the slot.
LEMMA PrefillStepStep ==
  ASSUME ServeInv, NEW t \in Conn, PrefillStep(t)
  PROVE  ServeInv'
<1> USE DEF confVars, slotVars, seqVars
<1>1. /\ UNCHANGED <<confVars, slotVars, dev, seqVars, rq, blk, reply, pub, clean>>
      /\ \/ /\ pc[t] = "fill" /\ NPre(t) = st[t].pos
            /\ Goto(t, "block") /\ UNCHANGED <<mu, sel, goal>>
         \/ /\ pc[t] = "fill" /\ NPre(t) > st[t].pos /\ mu = Nobody /\ sel' = slotOf[t]
            /\ mu' = t /\ goal' = [goal EXCEPT ![t] = NPre(t)] /\ Goto(t, "chunk")
         \/ /\ pc[t] = "promote" /\ mu = Nobody /\ sel' = slotOf[t]
            /\ mu' = t /\ Goto(t, "chunk") /\ UNCHANGED goal
  BY DEF PrefillStep, StartPrefill, Enter
<1>2. /\ pc' \in [Conn -> Places] /\ pc'[t] \in {"block", "chunk"}
      /\ \A u \in Conn \ {t} : pc'[u] = pc[u]
  BY <1>1, GotoType DEF ServeInv, Places
<1>3. /\ pc[t] \in {"fill", "promote"} /\ slotOf[t] \in Slots /\ goal \in [Conn -> Nat]
      /\ rq[t].n \in Nat \ {0} /\ NPre(t) \in Nat /\ NPre(t) = rq[t].n - 1 /\ st[t].pos \in Nat
  BY <1>1 DEF ServeInv, ServeTypeOK, NPre, SeqStates
<1>4. goal' \in [Conn -> Nat] /\ \A u \in Conn \ {t} : goal'[u] = goal[u]
  BY <1>1, <1>3
<1>5. ServeTypeOK'
  BY <1>1, <1>2, <1>3, <1>4 DEF ServeInv, ServeTypeOK, Slots
<1>6. SlotInv'
  <2>1. HoldsSlot(t)
    BY <1>3 DEF HoldsSlot
  <2>2. LockStep(t)
    BY <1>1, <1>2, GotoType DEF LockStep, Locked, ServeInv, Places
  <2> QED BY <1>1, <1>2, <2>1, <2>2, SlotKept DEF ServeInv
<1>7. \A u \in Conn \ {t} : Quiet(u)
  BY <1>1, <1>2, <1>4 DEF Quiet
<1>8. SeqOf(t)'
  <2>1. /\ Len(hist[t]) = rq[t].n /\ st[t].pos <= NPre(t)
        /\ pc[t] = "promote" => st[t].pos < goal[t] /\ goal[t] <= NPre(t)
    BY <1>3 DEF ServeInv, ThreadInv, SeqOf, FillInv, Filling
  <2>2. pc'[t] = "block" => Len(hist[t]) = st[t].pos + 1
    BY <1>1, <1>3, <2>1, GotoType DEF ServeInv, Places
  <2>3. pc'[t] = "chunk" => st[t].pos < goal'[t] /\ goal'[t] <= NPre(t)
    BY <1>1, <1>3, <2>1, GotoType DEF ServeInv, Places
  <2> QED BY <1>1, <1>2, <2>1, <2>2, <2>3
          DEF ServeInv, ThreadInv, SeqOf, FillInv, BlockInv, Filling, InBlock, NPre
<1>9. WindowOf(t)'
  BY <1>1, <1>2, <1>3 DEF ServeInv, ThreadInv, WindowOf, Filling, Rows
<1>10. CleanInv'
  BY <1>1 DEF ServeInv, CleanInv
<1> QED
  BY <1>5, <1>6, <1>7, <1>8, <1>9, <1>10, ThreadStep

-----------------------------------------------------------------------------
(* The steps under engine_mu, and what follows a block.                    *)

\* forward_prefill under the lock: the slot is the thread's own, its ring takes the new
\* positions, nothing of another thread moves, and every query found its rows.
LEMMA FeedStep ==
  ASSUME ServeInv, NEW t \in Conn, Locked(t), Rows(t, st[t].pos - Sliding, st[t].pos),
         NEW n \in Nat, NEW kept \in Nat, FeedChunk(t, n, kept), UNCHANGED <<nSlots, sel, slotOf>>
  PROVE  /\ HoldsSlot(t) /\ mu = t /\ sel = slotOf[t]
         /\ dev' \in [Slots -> Device] /\ dev'[sel] \in Device
         /\ dev'[slotOf[t]].raw = Written(dev[slotOf[t]].raw, RawSlots, t, st[t].pos, n, kept)
         /\ \A u \in Conn \ {t} : HoldsSlot(u) => dev'[slotOf[u]].raw = dev[slotOf[u]].raw
         /\ st' \in [Conn -> SeqStates] /\ st'[t].pos = st[t].pos + n
         /\ \A u \in Conn \ {t} : st'[u] = st[u]
         /\ clean' \in [attend : BOOLEAN, pool : BOOLEAN] /\ clean'.attend
<1> DEFINE s == slotOf[t]
<1>1. HoldsSlot(t) /\ mu = t
  BY DEF Locked, HoldsSlot, ServeInv, SlotInv
<1>2. sel = s
  BY <1>1, ServeAssumption DEF ServeInv, SlotInv
<1>3. /\ s \in Slots /\ dev \in [Slots -> Device] /\ st \in [Conn -> SeqStates]
      /\ dev[s] \in Device /\ st[t] \in SeqStates /\ st[t].pos \in Nat
  BY DEF ServeInv, ServeTypeOK, SeqStates
<1>4. /\ dev' = [dev EXCEPT ![s] = Fed(dev[s], t, st[t].pos, n, kept)]
      /\ st' = [st EXCEPT ![t] = Advanced(st[t], n)]
      /\ clean' = [attend |-> AttendsToOwn(dev[s].raw, t, st[t].pos, n),
                   pool |-> PoolsOwn(dev[s].hist, t, st[t].pos, n)]
  BY <1>2 DEF FeedChunk
<1>5. Fed(dev[s], t, st[t].pos, n, kept) \in Device
  BY <1>3, FedType
<1>6. Fed(dev[s], t, st[t].pos, n, kept).raw = Written(dev[s].raw, RawSlots, t, st[t].pos, n, kept)
  BY DEF Fed
<1>7. Advanced(st[t], n) \in SeqStates /\ Advanced(st[t], n).pos = st[t].pos + n
  BY <1>3, AdvancedType
<1>8. \A u \in Conn \ {t} : HoldsSlot(u) => slotOf[u] \in Slots /\ slotOf[u] # s
  BY <1>1 DEF ServeInv, ServeTypeOK, SlotInv
<1>9. AttendsToOwn(dev[s].raw, t, st[t].pos, n)
  BY <1>3, Attends DEF Rows
<1>10. PoolsOwn(dev[s].hist, t, st[t].pos, n) \in BOOLEAN
  BY DEF PoolsOwn
<1> QED
  BY <1>1, <1>2, <1>3, <1>4, <1>5, <1>6, <1>7, <1>8, <1>9, <1>10

\* A checkpoint made of a transcript and of the window it left is its own.
LEMMA CheckpointIs ==
  ASSUME ServeTypeOK, NEW t \in Conn, NEW d \in Device, NEW pos \in Nat, pos <= Len(hist[t]),
         \A i \in 1..Len(hist[t]) : hist[t][i], RowsOwned(d.raw, t, pos - Sliding, pos)
  PROVE  /\ Checkpoint(t, d, pos) \in [pos : Nat, own : BOOLEAN, hist : HistRing]
         /\ Checkpoint(t, d, pos).own
<1>1. Len(hist[t]) \in Nat
  BY LenProperties DEF ServeTypeOK
<1>2. /\ pos <= Len(hist[t]) /\ \A i \in 1..pos : hist[t][i]
      /\ \A p \in Greater(0, pos - Sliding)..(pos - 1) : IsOwn(d.raw[p % RawSlots], t, p)
  BY <1>1 DEF RowsOwned
<1>3. [s \in DOMAIN d.hist |-> [d.hist[s] EXCEPT !.who = Nobody]] \in HistRing
  BY DEF Device, HistRing, Cell
<1> QED
  BY <1>2, <1>3 DEF Checkpoint

\* The invariant across Chunk.
LEMMA ChunkStep ==
  ASSUME ServeInv, NEW t \in Conn, Chunk(t)
  PROVE  ServeInv'
<1> USE DEF confVars, slotVars, reqVars
<1> DEFINE n == Lesser(Cap, goal[t] - st[t].pos)
<1> DEFINE last == st[t].pos + n = goal[t]
<1>1. /\ pc[t] = "chunk" /\ FeedChunk(t, n, n)
      /\ mu' = IF last THEN Nobody ELSE mu
      /\ Goto(t, IF ~last THEN "chunk" ELSE IF goal[t] = NPre(t) THEN "block" ELSE "fill")
      /\ pub' = IF last /\ goal[t] < NPre(t) THEN pub \cup {Checkpoint(t, dev'[sel], goal[t])} ELSE pub
      /\ UNCHANGED <<confVars, slotVars, sel, hist, made, reqVars>>
  BY DEF Chunk
<1>2. /\ st[t].pos \in Nat /\ goal[t] \in Nat /\ rq[t].n \in Nat \ {0} /\ NPre(t) = rq[t].n - 1
      /\ st[t].pos < goal[t] /\ goal[t] <= NPre(t) /\ Len(hist[t]) = rq[t].n
      /\ \A i \in 1..Len(hist[t]) : hist[t][i]
      /\ made[t] <= rq[t].budget
  BY <1>1 DEF ServeInv, ServeTypeOK, ThreadInv, SeqOf, FillInv, Filling, NPre, SeqStates
<1>3. n \in Nat /\ n > 0 /\ st[t].pos + n <= goal[t]
  BY <1>2, ServeAssumption DEF Lesser
<1> HIDE DEF n
<1>4. Locked(t) /\ Rows(t, st[t].pos - Sliding, st[t].pos)
  BY <1>1 DEF Locked, ServeInv, ThreadInv, WindowOf, Filling
<1>5. /\ HoldsSlot(t) /\ mu = t /\ sel = slotOf[t]
      /\ dev' \in [Slots -> Device] /\ dev'[sel] \in Device
      /\ dev'[slotOf[t]].raw = Written(dev[slotOf[t]].raw, RawSlots, t, st[t].pos, n, n)
      /\ \A u \in Conn \ {t} : HoldsSlot(u) => dev'[slotOf[u]].raw = dev[slotOf[u]].raw
      /\ st' \in [Conn -> SeqStates] /\ st'[t].pos = st[t].pos + n
      /\ \A u \in Conn \ {t} : st'[u] = st[u]
      /\ clean' \in [attend : BOOLEAN, pool : BOOLEAN] /\ clean'.attend
  BY <1>1, <1>3, <1>4, FeedStep
<1>6. /\ pc' \in [Conn -> Places] /\ \A u \in Conn \ {t} : pc'[u] = pc[u]
      /\ pc'[t] = IF ~last THEN "chunk" ELSE IF goal[t] = NPre(t) THEN "block" ELSE "fill"
  BY <1>1, GotoType DEF ServeInv, Places
<1>7. RowsOwned(dev'[slotOf[t]].raw, t, st'[t].pos - Sliding, st'[t].pos)
  <2> DEFINE from == st[t].pos
  <2>1. from \in Nat /\ RowsOwned(dev[slotOf[t]].raw, t, from - Sliding, from)
    BY <1>2, <1>4 DEF Rows
  <2> HIDE DEF from
  <2>2. from + n <= from + n
    BY <1>3, <2>1
  <2>3. RowsOwned(Written(dev[slotOf[t]].raw, RawSlots, t, from, n, n), t, from + n - Sliding, from + n)
    BY ONLY <1>3, <2>1, <2>2, Reaches, FedRows
  <2>4. from + n - Sliding = (from + n) - Sliding
    BY <1>3, <2>1, WindowAssumption
  <2> QED BY <1>5, <2>3, <2>4 DEF from
<1>8. last => LET c == Checkpoint(t, dev'[sel], goal[t]) IN
                c \in [pos : Nat, own : BOOLEAN, hist : HistRing] /\ c.own
  <2> SUFFICES ASSUME last PROVE LET c == Checkpoint(t, dev'[sel], goal[t]) IN
                c \in [pos : Nat, own : BOOLEAN, hist : HistRing] /\ c.own
    OBVIOUS
  <2>1. st'[t].pos = goal[t]
    BY <1>5
  <2>2. RowsOwned(dev'[sel].raw, t, goal[t] - Sliding, goal[t])
    BY <1>5, <1>7, <2>1
  <2>3. goal[t] <= Len(hist[t])
    BY <1>2
  <2>4. ServeTypeOK
    BY DEF ServeInv
  <2> DEFINE d == dev'[sel]
  <2>5. d \in Device /\ RowsOwned(d.raw, t, goal[t] - Sliding, goal[t])
    BY <1>5, <2>2
  <2> HIDE DEF d
  <2>6. Checkpoint(t, d, goal[t]) \in [pos : Nat, own : BOOLEAN, hist : HistRing] /\ Checkpoint(t, d, goal[t]).own
    BY <1>2, <2>3, <2>4, <2>5, CheckpointIs
  <2> QED BY <2>6 DEF d
<1>9. /\ pub' \subseteq [pos : Nat, own : BOOLEAN, hist : HistRing] /\ \A c \in pub' : c.own
  BY <1>1, <1>8 DEF ServeInv, ServeTypeOK, CleanInv
<1>10. ServeTypeOK'
  BY <1>1, <1>5, <1>6, <1>9 DEF ServeInv, ServeTypeOK, Slots
<1>11. SlotInv'
  <2>1. LockStep(t)
    BY <1>1, <1>4, <1>5, <1>6 DEF LockStep, Locked
  <2> QED BY <1>1, <1>5, <1>6, <2>1, SlotKept DEF ServeInv
<1>12. \A u \in Conn \ {t} : Quiet(u)
  BY <1>1, <1>5, <1>6 DEF Quiet
<1>13. SeqOf(t)'
  <2>1. /\ Len(hist[t]) = rq[t].n /\ st'[t].pos <= NPre(t)
        /\ pc'[t] = "chunk" => st'[t].pos < goal[t] /\ goal[t] <= NPre(t)
        /\ pc'[t] = "block" => Len(hist[t]) = st'[t].pos + 1
    <3> DEFINE pos == st'[t].pos
    <3>1. pos \in Nat /\ pos <= goal[t] /\ (last <=> pos = goal[t])
      BY <1>2, <1>3, <1>5
    <3>2. pc'[t] = "chunk" => pos # goal[t]
      BY <1>6, <3>1
    <3>3. pc'[t] = "block" => pos = NPre(t)
      BY <1>6, <3>1
    <3> HIDE DEF pos, last
    <3>4. pos <= NPre(t) /\ (pos # goal[t] => pos < goal[t]) /\ (pos = NPre(t) => rq[t].n = pos + 1)
      BY <1>2, <3>1
    <3> QED BY <1>2, <3>2, <3>3, <3>4 DEF pos
  <2> QED BY <1>1, <1>2, <1>6, <2>1 DEF SeqOf, FillInv, BlockInv, Filling, InBlock, NPre
<1>14. WindowOf(t)'
  BY <1>1, <1>6, <1>7 DEF WindowOf, Rows
<1>15. CleanInv'
  BY <1>5, <1>9 DEF CleanInv
<1> QED
  BY <1>10, <1>11, <1>12, <1>13, <1>14, <1>15, ThreadStep

\* The invariant across Draft.
LEMMA DraftKeeps ==
  ASSUME ServeInv, NEW t \in Conn, Draft(t)
  PROVE  ServeInv'
<1> USE DEF confVars, slotVars, seqVars
<1> DEFINE nd == IF draftOn /\ st[t].pos > 0 THEN Block ELSE 0
<1>1. PICK m \in [1..nd -> BOOLEAN] :
        /\ pc[t] = "block" /\ More(t) /\ mu = Nobody /\ sel' = slotOf[t] /\ mu' = t
        /\ blk' = [blk EXCEPT ![t] = [at |-> st[t].pos, match |-> m]]
        /\ Goto(t, "verify")
        /\ UNCHANGED <<confVars, slotVars, dev, seqVars, rq, goal, reply, pub, clean>>
  BY DEF Draft, Enter
<1>2. nd \in Nat /\ nd <= Block
  BY ServeAssumption
<1> HIDE DEF nd
<1>3. m \in Seq(BOOLEAN) /\ Len(m) = nd
  BY <1>2
<1>4. pc' \in [Conn -> Places] /\ pc'[t] = "verify" /\ \A u \in Conn \ {t} : pc'[u] = pc[u]
  BY <1>1, GotoType DEF ServeInv, Places
<1>5. /\ slotOf[t] \in Slots /\ st[t].pos \in Nat /\ made[t] \in Nat /\ rq[t].budget \in Nat
      /\ blk \in [Conn -> [at : Nat, match : Seq(BOOLEAN)]]
  BY DEF ServeInv, ServeTypeOK, SeqStates
<1>6. /\ blk' \in [Conn -> [at : Nat, match : Seq(BOOLEAN)]]
      /\ blk'[t] = [at |-> st[t].pos, match |-> m] /\ \A u \in Conn \ {t} : blk'[u] = blk[u]
  BY <1>1, <1>3, <1>5
<1>7. ServeTypeOK'
  BY <1>1, <1>4, <1>5, <1>6 DEF ServeInv, ServeTypeOK, Slots
<1>8. SlotInv'
  <2>1. HoldsSlot(t) /\ LockStep(t)
    BY <1>1, <1>4 DEF HoldsSlot, LockStep, Locked
  <2> QED BY <1>1, <1>4, <2>1, SlotKept DEF ServeInv
<1>9. \A u \in Conn \ {t} : Quiet(u)
  BY <1>1, <1>4, <1>6 DEF Quiet
<1>10. SeqOf(t)'
  <2>1. made[t] < rq[t].budget /\ Len(m) <= Block
    BY <1>1, <1>2, <1>3 DEF More
  <2> QED BY <1>1, <1>4, <1>6, <2>1
          DEF ServeInv, ThreadInv, SeqOf, FillInv, BlockInv, Filling, InBlock, Proposed
<1>11. WindowOf(t)'
  BY <1>1, <1>4 DEF ServeInv, ThreadInv, WindowOf, Filling, Rows
<1>12. CleanInv'
  BY <1>1 DEF ServeInv, CleanInv
<1> QED
  BY <1>7, <1>8, <1>9, <1>10, <1>11, <1>12, ThreadStep

\* The invariant across Verify: the rows of rejected proposals overwrite none the next query reads.
LEMMA VerifyKeeps ==
  ASSUME ServeInv, NEW t \in Conn, Verify(t)
  PROVE  ServeInv'
<1> USE DEF confVars, slotVars, reqVars
<1> DEFINE m == blk[t].match
<1> DEFINE k == Accepted(m)
<1> DEFINE n == Proposed(t) + 1
<1>1. m \in Seq(BOOLEAN) /\ blk[t].at \in Nat /\ st[t].pos \in Nat
  BY DEF ServeInv, ServeTypeOK, SeqStates
<1>2. Len(m) \in Nat /\ k \in Nat /\ k <= Len(m) /\ Right(m) = k /\ n = Len(m) + 1
  BY <1>1, AcceptedIs, LenProperties DEF Proposed
<1>3. /\ pc[t] = "verify" /\ FeedChunk(t, n, k + 1) /\ Goto(t, "accept")
      /\ UNCHANGED <<confVars, slotVars, mu, sel, hist, made, reqVars, pub>>
  BY <1>2 DEF Verify
<1>4. /\ made[t] < rq[t].budget /\ Len(hist[t]) = blk[t].at + 1 /\ Len(m) <= Block
      /\ st[t].pos = blk[t].at /\ \A i \in 1..Len(hist[t]) : hist[t][i]
      /\ made[t] <= rq[t].budget
  BY <1>3 DEF ServeInv, ThreadInv, SeqOf, BlockInv, InBlock, Proposed
<1>5. Locked(t) /\ Rows(t, st[t].pos - Sliding, st[t].pos)
  BY <1>3 DEF Locked, ServeInv, ThreadInv, WindowOf, Filling
<1> HIDE DEF m, k, n
<1>6. n \in Nat /\ k + 1 \in Nat
  BY <1>2
<1>7. /\ HoldsSlot(t) /\ mu = t /\ sel = slotOf[t]
      /\ dev' \in [Slots -> Device] /\ dev'[sel] \in Device
      /\ dev'[slotOf[t]].raw = Written(dev[slotOf[t]].raw, RawSlots, t, st[t].pos, n, k + 1)
      /\ \A u \in Conn \ {t} : HoldsSlot(u) => dev'[slotOf[u]].raw = dev[slotOf[u]].raw
      /\ st' \in [Conn -> SeqStates] /\ st'[t].pos = st[t].pos + n
      /\ \A u \in Conn \ {t} : st'[u] = st[u]
      /\ clean' \in [attend : BOOLEAN, pool : BOOLEAN] /\ clean'.attend
  BY <1>3, <1>5, <1>6, FeedStep
<1>8. pc' \in [Conn -> Places] /\ pc'[t] = "accept" /\ \A u \in Conn \ {t} : pc'[u] = pc[u]
  BY <1>3, GotoType DEF ServeInv, Places
<1>9. RowsOwned(dev'[slotOf[t]].raw, t, blk[t].at - Sliding + 1, blk[t].at + k + 1)
  <2> DEFINE from == blk[t].at
  <2>1. /\ from \in Nat /\ RowsOwned(dev[slotOf[t]].raw, t, from - Sliding, from)
        /\ dev'[slotOf[t]].raw = Written(dev[slotOf[t]].raw, RawSlots, t, from, n, k + 1)
    BY <1>1, <1>4, <1>5, <1>7 DEF Rows
  <2>2. Len(m) <= Block
    BY <1>4
  <2> HIDE DEF from
  <2>3. n <= AttnBatch
    BY <1>2, <2>2, ServeAssumption, WindowAssumption
  <2>4. from + (k + 1) \in Int /\ from + (k + 1) <= from + (k + 1) /\ from + (k + 1) <= from + n
    BY <1>2, <2>1
  <2>5. RowsOwned(Written(dev[slotOf[t]].raw, RawSlots, t, from, n, k + 1), t, from - Sliding + 1, from + (k + 1))
    BY ONLY <1>6, <2>1, <2>3, <2>4, Reaches, FedRows
  <2>6. from + (k + 1) = from + k + 1
    BY <1>2, <2>1
  <2> QED BY <2>1, <2>5, <2>6 DEF from
<1>10. ServeTypeOK'
  BY <1>3, <1>7, <1>8 DEF ServeInv, ServeTypeOK, Slots
<1>11. SlotInv'
  <2>1. LockStep(t)
    BY <1>3, <1>5, <1>7, <1>8 DEF LockStep, Locked
  <2> QED BY <1>3, <1>7, <1>8, <2>1, SlotKept DEF ServeInv
<1>12. \A u \in Conn \ {t} : Quiet(u)
  BY <1>3, <1>7, <1>8 DEF Quiet
<1>13. SeqOf(t)'
  <2>1. st'[t].pos = blk[t].at + Len(m) + 1
    <3>1. st'[t].pos = blk[t].at + n
      BY <1>4, <1>7
    <3> QED BY <1>1, <1>2, <3>1
  <2> QED BY <1>3, <1>4, <1>8, <2>1 DEF SeqOf, FillInv, BlockInv, Filling, InBlock, Proposed, m
<1>14. WindowOf(t)'
  BY <1>3, <1>8, <1>9 DEF WindowOf, Rows, Filling, k, m
<1>15. CleanInv'
  BY <1>3, <1>7 DEF ServeInv, CleanInv
<1> QED
  BY <1>10, <1>11, <1>12, <1>13, <1>14, <1>15, ThreadStep

\* The invariant across Accept.
LEMMA AcceptStep ==
  ASSUME ServeInv, NEW t \in Conn, Accept(t)
  PROVE  ServeInv'
<1> USE DEF confVars, slotVars, reqVars
<1> DEFINE m == blk[t].match
<1> DEFINE k == Accepted(m)
<1>1. /\ pc[t] = "accept" /\ st' = [st EXCEPT ![t] = Rollback(st[t], blk[t].at + k + 1)]
      /\ mu' = Nobody /\ Goto(t, "emit")
      /\ UNCHANGED <<confVars, slotVars, sel, dev, hist, made, reqVars, pub, clean>>
  BY DEF Accept
<1>2. /\ m \in Seq(BOOLEAN) /\ blk[t].at \in Nat /\ st[t] \in SeqStates /\ st[t].pos \in Nat
      /\ st \in [Conn -> SeqStates]
  BY DEF ServeInv, ServeTypeOK, SeqStates
<1>3. Len(m) \in Nat /\ k \in Nat /\ k <= Len(m)
  BY <1>2, AcceptedIs, LenProperties
<1>4. /\ made[t] < rq[t].budget /\ Len(hist[t]) = blk[t].at + 1 /\ Len(m) <= Block
      /\ st[t].pos = blk[t].at + Len(m) + 1 /\ \A i \in 1..Len(hist[t]) : hist[t][i]
      /\ made[t] <= rq[t].budget
  BY <1>1 DEF ServeInv, ThreadInv, SeqOf, BlockInv, InBlock, Proposed
<1> HIDE DEF m, k
<1>5. /\ st' \in [Conn -> SeqStates] /\ st'[t].pos = blk[t].at + k + 1
      /\ \A u \in Conn \ {t} : st'[u] = st[u]
  <2> DEFINE keep == blk[t].at + k + 1
  <2>1. keep \in Nat /\ ~(keep > st[t].pos)
    BY <1>2, <1>3, <1>4
  <2> HIDE DEF keep
  <2>2. Rollback(st[t], keep) \in SeqStates /\ Rollback(st[t], keep).pos = keep
    BY <1>2, <2>1, RollbackType
  <2> QED BY <1>1, <1>2, <2>2 DEF keep
<1>6. pc' \in [Conn -> Places] /\ pc'[t] = "emit" /\ \A u \in Conn \ {t} : pc'[u] = pc[u]
  BY <1>1, GotoType DEF ServeInv, Places
<1>7. ServeTypeOK'
  BY <1>1, <1>5, <1>6 DEF ServeInv, ServeTypeOK, Slots
<1>8. SlotInv'
  <2>1. HoldsSlot(t) /\ LockStep(t)
    BY <1>1, <1>6 DEF HoldsSlot, LockStep, Locked, ServeInv, SlotInv
  <2> QED BY <1>1, <1>6, <2>1, SlotKept DEF ServeInv
<1>9. \A u \in Conn \ {t} : Quiet(u)
  BY <1>1, <1>5, <1>6 DEF Quiet
<1>10. SeqOf(t)'
  BY <1>1, <1>4, <1>5, <1>6 DEF SeqOf, FillInv, BlockInv, Filling, InBlock, Proposed, m, k
<1>11. WindowOf(t)'
  BY <1>1, <1>6 DEF ServeInv, ThreadInv, WindowOf, Rows, Filling
<1>12. CleanInv'
  BY <1>1 DEF ServeInv, CleanInv
<1> QED
  BY <1>7, <1>8, <1>9, <1>10, <1>11, <1>12, ThreadStep

\* Rows of a span are rows of any span inside it.
LEMMA RowsWithin ==
  ASSUME NEW raw, NEW t, NEW a \in Int, NEW b \in Int, NEW c \in Int, NEW d \in Int,
         RowsOwned(raw, t, a, b), a <= c, d <= b
  PROVE  RowsOwned(raw, t, c, d)
<1>1. \A p \in Greater(0, c)..(d - 1) : p \in Greater(0, a)..(b - 1)
  BY DEF Greater
<1> QED
  BY <1>1 DEF RowsOwned

\* The invariant across Emit, wherever it stops in the block.
LEMMA EmitStep ==
  ASSUME ServeInv, NEW t \in Conn, Emit(t)
  PROVE  ServeInv'
<1> USE DEF confVars, slotVars, reqVars
<1> DEFINE m == blk[t].match
<1> DEFINE k == Accepted(m)
<1> DEFINE most == Lesser(k + 1, rq[t].budget - made[t])
<1> DEFINE right == [i \in 1..(k + 1) |-> Lesser(i, k) <= Right(m)]
<1>1. PICK g \in 1..most, stop \in BOOLEAN :
        /\ pc[t] = "emit" /\ (g < most => stop)
        /\ hist' = [hist EXCEPT ![t] = hist[t] \o SubSeq(right, 1, g)]
        /\ made' = [made EXCEPT ![t] = made[t] + g]
        /\ Goto(t, IF stop \/ made[t] + g = rq[t].budget THEN "publish" ELSE "block")
        /\ UNCHANGED <<confVars, slotVars, mu, sel, dev, st, reqVars, pub, clean>>
  BY DEF Emit
<1>2. /\ m \in Seq(BOOLEAN) /\ blk[t].at \in Nat /\ hist \in [Conn -> Seq(BOOLEAN)]
      /\ made \in [Conn -> Nat] /\ made[t] \in Nat /\ rq[t].budget \in Nat
  BY DEF ServeInv, ServeTypeOK
<1>3. k \in Nat /\ Right(m) = k
  BY <1>2, AcceptedIs, LenProperties
<1>4. /\ made[t] < rq[t].budget /\ Len(hist[t]) = blk[t].at + 1
      /\ st[t].pos = blk[t].at + k + 1 /\ \A i \in 1..Len(hist[t]) : hist[t][i]
  BY <1>1 DEF ServeInv, ThreadInv, SeqOf, BlockInv, InBlock
<1>5. RowsOwned(dev[slotOf[t]].raw, t, blk[t].at - Sliding + 1, blk[t].at + k + 1)
  BY <1>1 DEF ServeInv, ThreadInv, WindowOf, Rows
<1> HIDE DEF k, m
<1>6. right \in Seq(BOOLEAN) /\ Len(right) = k + 1 /\ \A i \in 1..(k + 1) : right[i]
  <2>1. \A i \in 1..(k + 1) : Lesser(i, k) <= k
    BY <1>3 DEF Lesser
  <2>2. \A i \in 1..(k + 1) : right[i] = TRUE
    BY <1>3, <2>1
  <2> DEFINE l == k + 1
  <2>3. l \in Nat /\ right \in [1..l -> BOOLEAN]
    BY <1>3
  <2> HIDE DEF right, l
  <2>4. right \in Seq(BOOLEAN) /\ Len(right) = l
    BY <2>3
  <2> QED BY <2>2, <2>4 DEF l
<1> HIDE DEF right
<1>7. /\ g \in Nat /\ 1 <= g /\ g <= k + 1 /\ made[t] + g <= rq[t].budget
      /\ ~stop => g = k + 1 \/ made[t] + g = rq[t].budget
  <2>1. most \in Int /\ most <= k + 1 /\ most <= rq[t].budget - made[t] /\ most \in {k + 1, rq[t].budget - made[t]}
    BY <1>2, <1>3 DEF Lesser
  <2>2. g < most => stop
    BY <1>1
  <2> HIDE DEF most
  <2>3. g \in Nat /\ 1 <= g /\ g <= most
    BY <2>1
  <2>4. g <= k + 1 /\ made[t] + g <= rq[t].budget
    BY <1>2, <1>3, <2>1, <2>3
  <2>5. ~stop => g = most
    BY <2>1, <2>2, <2>3
  <2>6. g = most => g = k + 1 \/ made[t] + g = rq[t].budget
    BY <1>2, <1>3, <2>1, <2>3
  <2> QED BY <2>3, <2>4, <2>5, <2>6
<1> DEFINE new == SubSeq(right, 1, g)
<1>8. new \in Seq(BOOLEAN) /\ Len(new) = g /\ \A i \in 1..g : new[i]
  <2>1. 1 \in 1..(Len(right) + 1) /\ g \in 0..Len(right)
    BY <1>3, <1>6, <1>7
  <2>2. /\ SubSeq(right, 1, g) \in Seq(BOOLEAN) /\ Len(SubSeq(right, 1, g)) = g
        /\ \A i \in 1..g : SubSeq(right, 1, g)[i] = right[i]
    BY <1>3, <1>6, <1>7
  <2> QED BY <1>3, <1>6, <1>7, <2>2
<1> HIDE DEF new
<1>9. /\ hist'[t] \in Seq(BOOLEAN) /\ Len(hist'[t]) = blk[t].at + 1 + g
      /\ \A i \in 1..Len(hist'[t]) : hist'[t][i]
  <2> DEFINE h == hist[t]
  <2>1. h \in Seq(BOOLEAN) /\ Len(h) = blk[t].at + 1 /\ \A i \in 1..Len(h) : h[i]
    BY <1>2, <1>4
  <2>2. hist'[t] = h \o new
    BY <1>1, <1>2 DEF new
  <2> HIDE DEF h
  <2>3. /\ h \o new \in Seq(BOOLEAN) /\ Len(h \o new) = Len(h) + Len(new)
        /\ \A i \in 1..(Len(h) + Len(new)) : (h \o new)[i] = IF i <= Len(h) THEN h[i] ELSE new[i - Len(h)]
    BY <1>8, <2>1, ConcatProperties
  <2>4. \A i \in 1..(Len(h) + g) : (h \o new)[i]
    <3> TAKE i \in 1..(Len(h) + g)
    <3>1. Len(h) \in Nat /\ i \in Nat
      BY <1>2, <2>1
    <3>2. CASE i <= Len(h)
      <4>1. i \in 1..Len(h)
        BY <3>1, <3>2
      <4> QED BY <1>8, <2>1, <2>3, <3>2, <4>1
    <3>3. CASE i > Len(h)
      <4>1. i - Len(h) \in 1..g /\ ~(i <= Len(h))
        BY <1>7, <3>1, <3>3
      <4>2. (h \o new)[i] = new[i - Len(h)]
        BY <1>8, <2>3, <4>1
      <4> QED BY <1>8, <4>1, <4>2
    <3>4. i <= Len(h) \/ i > Len(h)
      BY ONLY <3>1
    <3> QED BY <3>2, <3>3, <3>4, Zenon
  <2> QED BY <1>8, <2>1, <2>2, <2>3, <2>4
<1>10. /\ hist' \in [Conn -> Seq(BOOLEAN)] /\ made' \in [Conn -> Nat] /\ made'[t] = made[t] + g
       /\ \A u \in Conn \ {t} : hist'[u] = hist[u] /\ made'[u] = made[u]
  <2>1. hist[t] \o SubSeq(right, 1, g) \in Seq(BOOLEAN)
    BY <1>1, <1>2, <1>9
  <2> QED BY <1>1, <1>2, <1>7, <2>1
<1>11. /\ pc' \in [Conn -> Places] /\ \A u \in Conn \ {t} : pc'[u] = pc[u]
       /\ pc'[t] = IF stop \/ made[t] + g = rq[t].budget THEN "publish" ELSE "block"
  BY <1>1, GotoType DEF ServeInv, Places
<1>12. ServeTypeOK'
  BY <1>1, <1>10, <1>11 DEF ServeInv, ServeTypeOK, Slots
<1>13. SlotInv'
  <2>1. HoldsSlot(t) /\ LockStep(t)
    BY <1>1, <1>11 DEF HoldsSlot, LockStep, Locked
  <2> QED BY <1>1, <1>11, <2>1, SlotKept DEF ServeInv
<1>14. \A u \in Conn \ {t} : Quiet(u)
  BY <1>1, <1>10, <1>11 DEF Quiet
<1>15. SeqOf(t)'
  <2>1. pc'[t] = "block" => Len(hist'[t]) = st'[t].pos + 1
    <3> SUFFICES ASSUME pc'[t] = "block" PROVE Len(hist'[t]) = st'[t].pos + 1
      OBVIOUS
    <3>1. g = k + 1
      BY <1>7, <1>11
    <3>2. st'[t].pos = blk[t].at + k + 1 /\ Len(hist'[t]) = blk[t].at + 1 + (k + 1)
      BY <1>1, <1>4, <1>9, <3>1
    <3>3. \A a, j \in Nat : a + 1 + (j + 1) = (a + j + 1) + 1
      OBVIOUS
    <3> QED BY <1>2, <1>3, <3>2, <3>3
  <2>2. pc'[t] \in {"block", "publish"} /\ made'[t] <= rq'[t].budget
    BY <1>1, <1>7, <1>10, <1>11
  <2> QED BY <1>9, <2>1, <2>2 DEF SeqOf, FillInv, BlockInv, Filling, InBlock
<1>16. WindowOf(t)'
  <2> DEFINE at == blk[t].at
  <2>1. at \in Nat /\ st'[t].pos = at + k + 1 /\ Len(hist'[t]) = at + 1 + g
    BY <1>1, <1>2, <1>4, <1>9
  <2>2. Upto(t)' = Lesser(st'[t].pos, Len(hist'[t]))
    BY DEF Upto
  <2>3. dev' = dev /\ slotOf' = slotOf /\ RowsOwned(dev[slotOf[t]].raw, t, at - Sliding + 1, at + k + 1)
    BY <1>1, <1>5
  <2> HIDE DEF at
  <2>4. \A x \in Int : at + 1 <= x /\ x <= at + k + 1 => RowsOwned(dev[slotOf[t]].raw, t, x - Sliding, x)
    <3> TAKE x \in Int
    <3>1. SUFFICES ASSUME at + 1 <= x, x <= at + k + 1 PROVE RowsOwned(dev[slotOf[t]].raw, t, x - Sliding, x)
      OBVIOUS
    <3>2. /\ at - Sliding + 1 \in Int /\ at + k + 1 \in Int /\ x - Sliding \in Int
          /\ at - Sliding + 1 <= x - Sliding
      BY <1>3, <2>1, <3>1, WindowAssumption
    <3> QED BY <2>3, <3>1, <3>2, RowsWithin
  <2>5. /\ st'[t].pos \in Int /\ at + 1 <= st'[t].pos /\ st'[t].pos <= at + k + 1
        /\ Upto(t)' \in Int /\ at + 1 <= Upto(t)' /\ Upto(t)' <= at + k + 1
    BY <1>3, <1>7, <2>1, <2>2 DEF Lesser
  <2>6. pc'[t] \in {"block", "publish"}
    BY <1>11
  <2>7. /\ RowsOwned(dev'[slotOf'[t]].raw, t, st'[t].pos - Sliding, st'[t].pos)
        /\ RowsOwned(dev'[slotOf'[t]].raw, t, Upto(t)' - Sliding, Upto(t)')
    BY <2>3, <2>4, <2>5
  <2> QED BY <2>6, <2>7 DEF WindowOf, Rows, Filling
<1>17. CleanInv'
  BY <1>1 DEF ServeInv, CleanInv
<1> QED
  BY <1>12, <1>13, <1>14, <1>15, <1>16, <1>17, ThreadStep

\* The invariant across NoBudget.
LEMMA NoBudgetStep ==
  ASSUME ServeInv, NEW t \in Conn, NoBudget(t)
  PROVE  ServeInv'
<1> USE DEF confVars, slotVars, seqVars, reqVars
<1>1. /\ pc[t] = "block" /\ Goto(t, "publish")
      /\ UNCHANGED <<confVars, slotVars, mu, sel, dev, seqVars, reqVars, pub, clean>>
  BY DEF NoBudget
<1>2. /\ pc' \in [Conn -> Places] /\ pc'[t] = "publish" /\ \A u \in Conn \ {t} : pc'[u] = pc[u]
  BY <1>1, GotoType DEF ServeInv, Places
<1>3. ServeTypeOK'
  BY <1>1, <1>2 DEF ServeInv, ServeTypeOK, Slots
<1>4. SlotInv'
  <2>1. HoldsSlot(t) /\ LockStep(t)
    BY <1>1, <1>2 DEF HoldsSlot, LockStep, Locked
  <2> QED BY <1>1, <1>2, <2>1, SlotKept DEF ServeInv
<1>5. \A u \in Conn \ {t} : Quiet(u)
  BY <1>1, <1>2 DEF Quiet
<1>6. SeqOf(t)'
  BY <1>1, <1>2 DEF ServeInv, ThreadInv, SeqOf, FillInv, BlockInv, Filling, InBlock
<1>7. WindowOf(t)'
  <2>1. st[t].pos \in Nat /\ Len(hist[t]) = st[t].pos + 1 /\ Rows(t, st[t].pos - Sliding, st[t].pos)
    BY <1>1 DEF ServeInv, ServeTypeOK, SeqStates, ThreadInv, SeqOf, BlockInv, WindowOf
  <2>2. Lesser(st[t].pos, Len(hist[t])) = st[t].pos
    BY <2>1 DEF Lesser
  <2>3. Upto(t)' = st[t].pos
    BY <1>1, <2>2 DEF Upto
  <2> QED BY <1>1, <1>2, <2>1, <2>3 DEF WindowOf, Rows, Filling
<1>8. CleanInv'
  BY <1>1 DEF ServeInv, CleanInv
<1> QED
  BY <1>3, <1>4, <1>5, <1>6, <1>7, <1>8, ThreadStep

\* The invariant across Publish.
LEMMA PublishStep ==
  ASSUME ServeInv, NEW t \in Conn, Publish(t)
  PROVE  ServeInv'
<1> USE DEF confVars, slotVars
<1> DEFINE checkpoints == [pos : Nat, own : BOOLEAN, hist : HistRing]
<1> DEFINE upto == Upto(t)
<1> DEFINE stored == Checkpoint(t, dev[sel], upto)
<1>1. /\ pc[t] = "publish" /\ Goto(t, "release")
      /\ UNCHANGED <<confVars, slotVars, mu, sel, dev, hist, made, rq, goal, blk, clean>>
      /\ reply' \in [Conn -> {"none", "closed", "other", "error", "stop", "length"}]
      /\ \/ PrefixOn /\ st' = [st EXCEPT ![t] = Rollback(st[t], upto)] /\ pub' \in {pub, pub \cup {stored}}
         \/ UNCHANGED <<st, pub>>
  BY DEF Publish, ServeInv, ServeTypeOK
<1>2. /\ st \in [Conn -> SeqStates] /\ st[t] \in SeqStates /\ st[t].pos \in Nat /\ Len(hist[t]) \in Nat
      /\ dev[slotOf[t]] \in Device /\ sel \in Slots /\ slotOf[t] \in Slots /\ ServeTypeOK
  BY LenProperties DEF ServeInv, ServeTypeOK, SeqStates
<1>3. upto \in Nat /\ upto <= Len(hist[t])
  BY <1>2 DEF Upto, Lesser
<1>4. \A i \in 1..Len(hist[t]) : hist[t][i]
  BY DEF ServeInv, ThreadInv, SeqOf
<1>5. RowsOwned(dev[slotOf[t]].raw, t, upto - Sliding, upto)
  BY <1>1 DEF ServeInv, ThreadInv, WindowOf, Rows
<1> HIDE DEF upto
<1>6. PrefixOn => stored \in checkpoints /\ stored.own
  <2> SUFFICES ASSUME PrefixOn PROVE stored \in checkpoints /\ stored.own
    OBVIOUS
  <2>1. sel = slotOf[t]
    BY <1>2 DEF PrefixOn, Slots
  <2> DEFINE d == dev[sel]
  <2>2. d \in Device /\ RowsOwned(d.raw, t, upto - Sliding, upto)
    BY <1>2, <1>5, <2>1
  <2> HIDE DEF d
  <2>3. Checkpoint(t, d, upto) \in checkpoints /\ Checkpoint(t, d, upto).own
    BY <1>2, <1>3, <1>4, <2>2, CheckpointIs
  <2> QED BY <2>3 DEF d
<1> HIDE DEF stored
<1>7. pub' \subseteq checkpoints /\ \A c \in pub' : c.own
  BY <1>1, <1>6 DEF ServeInv, ServeTypeOK, CleanInv
<1>8. st' \in [Conn -> SeqStates] /\ \A u \in Conn \ {t} : st'[u] = st[u]
  <2>1. Rollback(st[t], upto) \in SeqStates
    BY <1>2, <1>3, RollbackType
  <2> QED BY <1>1, <1>2, <2>1
<1>9. /\ pc' \in [Conn -> Places] /\ pc'[t] = "release" /\ \A u \in Conn \ {t} : pc'[u] = pc[u]
  BY <1>1, GotoType DEF ServeInv, Places
<1>10. ServeTypeOK'
  BY <1>1, <1>7, <1>8, <1>9 DEF ServeInv, ServeTypeOK, Slots
<1>11. SlotInv'
  <2>1. HoldsSlot(t) /\ LockStep(t)
    BY <1>1, <1>9 DEF HoldsSlot, LockStep, Locked
  <2> QED BY <1>1, <1>9, <2>1, SlotKept DEF ServeInv
<1>12. \A u \in Conn \ {t} : Quiet(u)
  BY <1>1, <1>8, <1>9 DEF Quiet
<1>13. SeqOf(t)' /\ WindowOf(t)'
  BY <1>1, <1>9 DEF ServeInv, ThreadInv, SeqOf, WindowOf, FillInv, BlockInv, Filling, InBlock
<1>14. CleanInv'
  BY <1>1, <1>7 DEF ServeInv, CleanInv
<1> QED
  BY <1>10, <1>11, <1>12, <1>13, <1>14, ThreadStep

\* The invariant across a step that changes nothing.
LEMMA StutterStep ==
  ASSUME ServeInv, UNCHANGED vars
  PROVE  ServeInv'
<1> USE DEF vars, confVars, slotVars, seqVars, reqVars
<1>1. ServeTypeOK' /\ SlotInv' /\ CleanInv'
  BY DEF ServeInv, ServeTypeOK, Slots, SlotInv, HoldsSlot, Locked, CleanInv
<1>2. \A u \in Conn : Quiet(u)
  BY DEF Quiet
<1>3. \A u \in Conn : SeqOf(u)' /\ WindowOf(u)'
  BY <1>2, QuietKeeps DEF ServeInv, ThreadInv
<1> QED
  BY <1>1, <1>3 DEF ServeInv, ThreadInv

\* The invariant is inductive.
LEMMA ServeStep ==
  ASSUME ServeInv, [ServeNext]_vars
  PROVE  ServeInv'
<1>1. ASSUME NEW t \in Conn, Thread(t) PROVE ServeInv'
  BY <1>1, RecvStep, AcquireStep, ReleaseStep, RefuseStep, InitStateStep, LookupStep, SplitStep,
     PrefillStepStep, ChunkStep, DraftKeeps, VerifyKeeps, AcceptStep, EmitStep, NoBudgetStep, PublishStep
     DEF Thread
<1>2. ASSUME Done \/ UNCHANGED vars PROVE ServeInv'
  BY <1>2, StutterStep DEF Done
<1> QED
  BY <1>1, <1>2 DEF ServeNext

-----------------------------------------------------------------------------
(* The theorems.                                                           *)

\* ServeInv holds in every reachable state.
THEOREM ServeInvariance == ServeSpec => []ServeInv
<1>1. ServeInit => ServeInv
  BY ServeInitInv
<1>2. ServeInv /\ [ServeNext]_vars => ServeInv'
  BY ServeStep
<1> QED
  BY <1>1, <1>2, PTL DEF ServeSpec

\* Type correctness.
THEOREM ServeTypeCorrect == ServeSpec => []ServeTypeOK
<1>1. ServeInv => ServeTypeOK
  BY DEF ServeInv
<1> QED
  BY <1>1, ServeInvariance, PTL

\* server.h: a slot handed out is the request's own until its turn is done, and a
\* step under engine_mu runs in the slot of the request that holds it.
THEOREM SlotsAreOwn == ServeSpec => []SlotIsOwn
<1>1. ServeInv => SlotIsOwn
  <2> SUFFICES ASSUME ServeInv PROVE SlotIsOwn
    OBVIOUS
  <2>1. \A t \in Conn : slotOf[t] < nSlots
    BY DEF ServeInv, ServeTypeOK, Slots
  <2> QED BY <2>1 DEF SlotIsOwn, ServeInv, SlotInv
<1> QED
  BY <1>1, ServeInvariance, PTL

\* spec_decode: what is emitted is what the target decodes by itself, whatever the
\* draft proposed, and no more than the budget.
THEOREM TranscriptsAreTarget == ServeSpec => []TranscriptIsTarget
<1>1. ServeInv => TranscriptIsTarget
  <2> SUFFICES ASSUME ServeInv, NEW t \in Conn
               PROVE  /\ \A i \in DOMAIN hist[t] : hist[t][i]
                      /\ made[t] <= rq[t].budget
                      /\ pc[t] = "block" => Len(hist[t]) = st[t].pos + 1
    BY DEF TranscriptIsTarget
  <2>1. SeqOf(t)
    BY DEF ServeInv, ThreadInv
  <2>2. DOMAIN hist[t] = 1..Len(hist[t])
    BY LenProperties DEF ServeInv, ServeTypeOK
  <2> QED BY <2>1, <2>2 DEF SeqOf, BlockInv
<1> QED
  BY <1>1, ServeInvariance, PTL

\* What the prefix store is offered is a prefix of its own token ids with the window
\* those ids leave.
THEOREM PublishedAreTranscripts == ServeSpec => []PublishedIsTranscript
<1>1. ServeInv => PublishedIsTranscript
  BY DEF ServeInv, CleanInv, PublishedIsTranscript
<1> QED
  BY <1>1, ServeInvariance, PTL

\* No query of any chunk or block attends to another request's row, to a rejected one
\* or to a position outside its window.
THEOREM AttendOnlyToOwn == ServeSpec => []AttendsOnlyToOwn
<1>1. ServeInv => AttendsOnlyToOwn
  BY DEF ServeInv, CleanInv, AttendsOnlyToOwn
<1> QED
  BY <1>1, ServeInvariance, PTL

-----------------------------------------------------------------------------
(* The prefill: forward_prefill and the arena that cuts it.                *)

ForwardPlaces ==
  {"call", "refused", "attention", "route", "dispatch", "host", "post", "tap", "head",
   "returned", "aborted", "gaveup"}
Running == fpc \in {"attention", "route", "dispatch", "host", "post", "tap", "head"}

ForwardTypeOK ==
  /\ rig \in Rigs /\ pass \in Passes /\ fpc \in ForwardPlaces
  /\ layer \in Layer /\ base \in Nat /\ (fpc = "call" => base = 0 /\ layer = 0)
  /\ Running => base < pass.n /\ rig.cap >= 2
  /\ latched \in BOOLEAN /\ asked \in BOOLEAN
  /\ nowhere \in [Layer -> SUBSET OnDisk]

\* A card's halves of some pairs, from this layer's buffers, and both halves of them.
Halves(pairs, c) == Share(pairs, c, Here, Here, Here)
Both(pairs) == Halves(pairs, 1) (+) Halves(pairs, 2)
NoShares == [c \in Half |-> EmptyBag]

\* Who has been accounted for.  Until the dispatch the block is empty and the host's
\* buffers are this layer's, as far as a build on the host reads them; after it each
\* card has its half of the handled pairs, and where some are left the host knows it.
PairInv ==
  /\ fpc \in {"call", "attention", "route", "dispatch", "head"} => block = NoShares
  /\ fpc \in {"dispatch", "host"} =>
       /\ pass.routed \/ Pairs = {}
       /\ normOf = Here \/ DevRoute \/ DevHash
       /\ asked => rig.batched
       /\ pass.routed => (asked /\ DevRoute) \/ nsel = PerToken
       /\ pass.routed => asked \/ selOf = [sel |-> Here, wt |-> Here]
  /\ fpc = "dispatch" => handled = {} /\ (asked => latched /\ nowhere[layer] = {})
  /\ fpc = "host" =>
       IF rig.batched /\ pass.routed
       THEN /\ handled = Pairs \/ nsel = PerToken
            /\ handled \subseteq Pairs
            /\ block = [c \in Half |-> Halves(handled, c)]
       ELSE handled = {} /\ block = NoShares
  /\ fpc = "post" => block[1] (+) block[2] = Both(Pairs)
  /\ fpc = "tap" => \A c \in Half : block[c] = Both(Pairs)

-----------------------------------------------------------------------------
\* What the call was given.
LEMMA CallTypes ==
  ASSUME ForwardTypeOK
  PROVE  /\ rig.cap \in Nat /\ rig.onCards \in BOOLEAN /\ rig.batched \in BOOLEAN
         /\ rig.router \in BOOLEAN /\ rig.prof \in BOOLEAN /\ rig.epilogue \in BOOLEAN
         /\ pass.from \in Nat /\ pass.n \in Nat \ {0} /\ pass.keep \in Nat /\ pass.blk \in BOOLEAN
         /\ pass.perPosition \in BOOLEAN /\ pass.logits \in BOOLEAN /\ pass.routed \in BOOLEAN
<1>1. rig \in [cap : Nat, onCards : BOOLEAN, batched : BOOLEAN, router : BOOLEAN,
               prof : BOOLEAN, epilogue : BOOLEAN]
  BY ForwardAssumption DEF ForwardTypeOK
<1>2. pass \in [from : Nat, n : Nat \ {0}, keep : Nat, blk : BOOLEAN,
                perPosition : BOOLEAN, logits : BOOLEAN, routed : BOOLEAN]
  BY ForwardAssumption DEF ForwardTypeOK
<1> QED BY <1>1, <1>2

\* A chunk has a token, and ends where the call does or a chunk later.
LEMMA LiveFacts ==
  ASSUME ForwardTypeOK, Running
  PROVE  /\ ChunkSize \in Nat \ {0} /\ Live \in Nat \ {0} /\ base + Live <= pass.n
         /\ base + Live < pass.n => Live = ChunkSize
<1>1. rig.cap \in Nat /\ rig.cap >= 2 /\ pass.n \in Nat \ {0} /\ base \in Nat /\ base < pass.n
  BY CallTypes DEF ForwardTypeOK
<1> QED BY <1>1 DEF ChunkSize, Live, Lesser

\* What bags are: functions to numbers.
IsBag(z) == z = [e \in DOMAIN z |-> z[e]] /\ \A e \in DOMAIN z : z[e] \in Int

\* The shares of some pairs are a bag, and so are both halves of them.
LEMMA HalvesAreBags ==
  ASSUME NEW S
  PROVE  (\A c \in Half : IsBag(Halves(S, c))) /\ IsBag(Both(S))
<1>1. ASSUME NEW c \in Half PROVE IsBag(Halves(S, c))
  BY DEF IsBag, Halves, Share, SetToBag
<1>2. ASSUME NEW a, NEW b, IsBag(a), IsBag(b) PROVE IsBag(a (+) b)
  BY ONLY <1>2 DEF IsBag, (+)
<1>3. 1 \in Half /\ 2 \in Half
  BY DEF Half
<1> QED BY <1>1, <1>2, <1>3 DEF Both

\* An empty bag adds nothing.
LEMMA NothingAdded ==
  ASSUME NEW z, IsBag(z) PROVE z (+) EmptyBag = z /\ EmptyBag (+) z = z
<1>1. DOMAIN EmptyBag = {}
  BY DEF EmptyBag, SetToBag
<1>2. z (+) EmptyBag = [e \in DOMAIN z |-> z[e]]
  BY ONLY IsBag(z), <1>1 DEF (+), IsBag
<1>3. EmptyBag (+) z = [e \in DOMAIN z |-> z[e]]
  BY ONLY IsBag(z), <1>1 DEF (+), IsBag
<1> QED BY <1>2, <1>3 DEF IsBag

\* The shares of no pair at all.
LEMMA NoPairs == \A c \in Half : Halves({}, c) = EmptyBag
BY DEF Halves, Share, EmptyBag, SetToBag

\* Both halves of no pair.
LEMMA BothOfNone == Both({}) = EmptyBag (+) EmptyBag
BY NoPairs DEF Both, Half

-----------------------------------------------------------------------------
\* Before the call nobody has been added.
LEMMA PairInit == ForwardInit => PairInv
BY DEF ForwardInit, PairInv, NoShares

\* The router's answer.
LEMMA RouteStep ==
  ASSUME ForwardTypeOK, PairInv, Route PROVE PairInv'
<1>1. /\ fpc = "route" /\ fpc' = "dispatch" /\ block = NoShares /\ handled' = {}
      /\ UNCHANGED <<rig, pass, base, layer, block, latched, nowhere>>
  BY DEF PairInv, Route, constVars, stateVars, outVars
<1>2. asked' => rig.batched /\ latched' /\ nowhere'[layer'] = {}
  <2>1. asked' = (rig.batched /\ PlanLayer /\ ~rig.prof)
    BY DEF Route
  <2>2. asked' => rig.batched /\ PlanLayer
    BY ONLY <2>1, Zenon
  <2> QED BY <1>1, <2>2 DEF PlanLayer
<1>3. pass'.routed \/ Pairs' = {}
  <2> SUFFICES ASSUME ~pass.routed PROVE Pairs' = {}
    BY <1>1
  <2>1. chosen' \in [Tok -> {{}}]
    BY DEF Route
  <2>2. Tok' = Tok
    BY <1>1 DEF Tok, Live, ChunkSize
  <2> QED BY <2>1, <2>2 DEF Pairs
<1>4. Here' = Here /\ DevRoute' = DevRoute /\ DevHash' = DevHash
  BY <1>1 DEF Here, DevRoute, DevHash, Hashed
<1>5. normOf' = Here' \/ DevRoute' \/ DevHash'
  BY <1>4 DEF Route
<1>6. pass.routed => (asked' /\ DevRoute) \/ nsel' = PerToken
  BY DEF Route
<1>7. pass.routed => asked' \/ selOf' = [sel |-> Here, wt |-> Here]
  BY DEF Route
<1> QED BY <1>1, <1>2, <1>3, <1>4, <1>5, <1>6, <1>7 DEF PairInv, NoShares

\* The build, on the card or on the host.
LEMMA DispatchStep ==
  ASSUME ForwardTypeOK, PairInv, Dispatch PROVE PairInv'
<1>1. /\ fpc = "dispatch" /\ fpc' = "host" /\ block = NoShares /\ handled = {}
      /\ UNCHANGED <<rig, pass, base, layer, asked, normOf, selOf, nsel, chosen>>
  BY DEF PairInv, Dispatch, constVars, stateVars, outVars
<1>2. Here' = Here /\ DevRoute' = DevRoute /\ DevHash' = DevHash /\ Pairs' = Pairs
  BY <1>1 DEF Here, DevRoute, DevHash, Hashed, Pairs, Tok, Live, ChunkSize
<1>3. IF rig.batched /\ pass.routed
      THEN /\ handled' = Pairs \/ nsel = PerToken
           /\ handled' \subseteq Pairs
           /\ block' = [c \in Half |-> Halves(handled', c)]
      ELSE handled' = {} /\ block' = NoShares
  <2>1. CASE ~(rig.batched /\ pass.routed)
    BY <1>1, <2>1, CallTypes DEF Dispatch
  <2>2. ASSUME rig.batched, pass.routed, CardBuild
        PROVE  handled' = Pairs /\ block' = [c \in Half |-> Halves(handled', c)]
    <3>1. ASSUME NEW c \in Half PROVE block[c] (+) Halves(Pairs, c) = Halves(Pairs, c)
      BY <1>1, HalvesAreBags, NothingAdded DEF NoShares
    <3> QED BY <2>2, <3>1 DEF CardBuild, Halves
  <2>3. ASSUME rig.batched, pass.routed, HostBuild, ~asked
        PROVE  /\ handled' \subseteq Pairs /\ nsel = PerToken
               /\ block' = [c \in Half |-> Halves(handled', c)]
    <3>1. selOf = [sel |-> Here, wt |-> Here] /\ nsel = PerToken
      BY <1>1, <2>3 DEF PairInv
    <3>2. ASSUME NEW c \in Half PROVE block[c] (+) Halves(handled', c) = Halves(handled', c)
      BY <1>1, HalvesAreBags, NothingAdded DEF NoShares
    <3>3. handled' \subseteq Pairs
      BY <2>3 DEF HostBuild
    <3>4. block' = [c \in Half |-> block[c] (+) Halves(handled', c)]
      BY <2>3, <3>1 DEF HostBuild, Halves
    <3> QED BY <3>1, <3>2, <3>3, <3>4
  <2>4. rig.batched /\ pass.routed => CardBuild \/ (HostBuild /\ ~asked)
    BY <1>1 DEF Dispatch, PairInv
  <2> QED BY <2>1, <2>2, <2>3, <2>4
<1>4. [c \in Half |-> Halves(handled, c)]' = [c \in Half |-> Halves(handled', c)]
  BY <1>2 DEF Halves
<1>5. /\ pass.routed \/ Pairs = {}
      /\ normOf = Here \/ DevRoute \/ DevHash
      /\ asked => rig.batched
      /\ pass.routed => (asked /\ DevRoute) \/ nsel = PerToken
      /\ pass.routed => asked \/ selOf = [sel |-> Here, wt |-> Here]
  BY <1>1 DEF PairInv
<1> HIDE DEF Halves
<1> QED BY <1>1, <1>2, <1>3, <1>4, <1>5 DEF PairInv, NoShares

\* What the dispatch left, on the host; nothing it cannot see is left.
LEMMA HostStep ==
  ASSUME ForwardTypeOK, PairInv, HostExperts PROVE PairInv'
<1>1. /\ fpc = "host" /\ fpc' \in {"post", "aborted"}
      /\ UNCHANGED <<rig, pass, base, layer, chosen>>
  BY DEF HostExperts, constVars, stateVars, outVars
<1>2. Here' = Here /\ Pairs' = Pairs /\ Both(Pairs)' = Both(Pairs)
  BY <1>1 DEF Here, Pairs, Tok, Live, ChunkSize, Both, Halves
<1>3. ASSUME fpc' = "post" PROVE block'[1] (+) block'[2] = Both(Pairs)
  <2>1. PerToken # 0
    BY ForwardAssumption
  <2>2. CASE rig.batched /\ pass.routed
    <3>1. /\ handled = Pairs \/ nsel = PerToken
          /\ handled \subseteq Pairs
          /\ block = [c \in Half |-> Halves(handled, c)]
      BY <1>1, <2>2 DEF PairInv
    <3>2. LeftOver = {} /\ block' = block
      BY <1>3, <2>2 DEF HostExperts
    <3>3. handled = Pairs
      BY <2>1, <3>1, <3>2 DEF LeftOver
    <3> QED BY <3>1, <3>2, <3>3 DEF Both, Half
  <2>3. CASE ~pass.routed
    <3>1. Pairs = {} /\ block = NoShares /\ LeftOver = {}
      BY <1>1, <2>3 DEF PairInv, LeftOver
    <3>2. block' = block
      BY <3>1 DEF HostExperts
    <3> QED BY <3>1, <3>2, BothOfNone DEF NoShares, Half
  <2>4. CASE ~rig.batched /\ pass.routed
    <3>1. /\ handled = {} /\ block = NoShares /\ nsel = PerToken
          /\ selOf = [sel |-> Here, wt |-> Here] /\ (normOf = Here \/ DevRoute \/ DevHash)
      BY <1>1, <2>4, CallTypes DEF PairInv
    <3>2. LeftOver = Pairs
      BY <2>1, <3>1 DEF LeftOver
    <3>3. CASE Pairs = {}
      <4>1. block' = block
        BY <3>2, <3>3 DEF HostExperts
      <4> QED BY <3>1, <3>3, <4>1, BothOfNone DEF NoShares, Half
    <3>4. CASE Pairs # {}
      <4>1. Fetched = Here
        BY <3>1 DEF Fetched
      <4>2. block' = [c \in Half |-> IF BlockAdd(c)
                                     THEN (block[c] (+) Halves(Pairs, 1)) (+) Halves(Pairs, 2)
                                     ELSE block[c]]
        BY <2>4, <3>1, <3>2, <3>4, <4>1 DEF HostExperts, Halves
      <4>3. block'[1] = (EmptyBag (+) Halves(Pairs, 1)) (+) Halves(Pairs, 2) /\ block'[2] = EmptyBag
        BY <3>1, <4>2 DEF BlockAdd, NoShares, Half
      <4>4. block'[1] = Both(Pairs)
        BY <4>3, HalvesAreBags, NothingAdded DEF Both, Half
      <4> QED BY <4>3, <4>4, HalvesAreBags, NothingAdded
    <3> QED BY <3>3, <3>4
  <2> QED BY <2>2, <2>3, <2>4, CallTypes
<1> QED BY <1>1, <1>2, <1>3 DEF PairInv

\* The exchange.
LEMMA ReduceStep ==
  ASSUME ForwardTypeOK, PairInv, Reduce PROVE PairInv'
<1>1. /\ fpc = "post" /\ fpc' = "tap" /\ UNCHANGED <<rig, pass, base, layer, chosen>>
  BY DEF Reduce, constVars, stateVars, hostVars, outVars
<1>2. Both(Pairs)' = Both(Pairs)
  BY <1>1 DEF Here, Pairs, Tok, Live, ChunkSize, Both, Halves
<1>3. \A c \in Half : block'[c] = Both(Pairs)
  BY <1>1 DEF Reduce, PairInv
<1> QED BY <1>1, <1>2, <1>3 DEF PairInv

\* The other steps leave the block empty, or leave the call.
LEMMA PairKept ==
  ASSUME ForwardTypeOK, PairInv, Start \/ Attention \/ NextLayer \/ Winners \/ GiveUp
  PROVE PairInv'
<1>1. CASE Start
  BY <1>1 DEF Start, PairInv, NoShares, constVars, stateVars, hostVars, outVars
<1>2. CASE Attention
  BY <1>2 DEF Attention, PairInv, NoShares, constVars, hostVars, outVars
<1>3. CASE NextLayer
  BY <1>3 DEF NextLayer, PairInv, NoShares
<1>4. CASE Winners
  <2>1. /\ fpc = "head" /\ fpc' \in {"attention", "aborted", "returned"} /\ block' = block
    BY <1>4 DEF Winners, constVars, stateVars, hostVars
  <2> QED BY <2>1 DEF PairInv, NoShares
<1>5. CASE GiveUp
  BY <1>5 DEF GiveUp, PairInv
<1> QED BY <1>1, <1>2, <1>3, <1>4, <1>5

-----------------------------------------------------------------------------
(* Counting by division.                                                   *)

\* A quotient and a remainder are determined.
LEMMA DivIs ==
  ASSUME NEW R \in Nat \ {0}, NEW p \in Nat, NEW q \in Int, NEW r \in 0..(R - 1), p = R * q + r
  PROVE  p \div R = q /\ p % R = r
<1> DEFINE d == p \div R
<1> DEFINE e == p % R
<1>1. e \in 0..(R - 1) /\ d \in Nat /\ p = R * d + e
  BY ModRange
<1> HIDE DEF d, e
<1>2. ASSUME NEW a \in Int, NEW b \in Int, a < b PROVE R * a + R <= R * b
  <2>1. PICK c \in Nat : b = a + 1 + c
    <3>1. b - a - 1 \in Nat /\ b = a + 1 + (b - a - 1)
      BY <1>2
    <3> QED BY <3>1
  <2>2. R * c \in Nat /\ R * b = R * a + R + R * c /\ R * a \in Int
    BY <2>1
  <2> QED BY <2>2
<1>3. R * d \in Int /\ R * q \in Int
  BY <1>1
<1>4. ~(d < q)
  BY <1>1, <1>2, <1>3
<1>5. ~(q < d)
  BY <1>1, <1>2, <1>3
<1>6. d = q
  BY <1>1, <1>4, <1>5
<1> QED BY <1>1, <1>3, <1>6 DEF d, e

\* One more.
LEMMA DivNext ==
  ASSUME NEW R \in Nat \ {0}, NEW p \in Nat
  PROVE  /\ (p + 1) % R = 0 => (p + 1) \div R = (p \div R) + 1
         /\ (p + 1) % R # 0 => (p + 1) \div R = p \div R
         /\ ((p % R) + 1) % R = (p + 1) % R
<1> DEFINE d == p \div R
<1> DEFINE e == p % R
<1>1. e \in 0..(R - 1) /\ d \in Nat /\ p = R * d + e
  BY ModRange
<1> HIDE DEF d, e
<1>2. CASE e + 1 = R
  <2>1. p + 1 = R * (d + 1) + 0 /\ d + 1 \in Int /\ 0 \in 0..(R - 1) /\ p + 1 \in Nat
    BY <1>1, <1>2
  <2>2. (p + 1) \div R = d + 1 /\ (p + 1) % R = 0
    BY <2>1, DivIs
  <2>3. e + 1 = R * 1 + 0 /\ e + 1 \in Nat /\ 1 \in Int
    BY <1>1, <1>2
  <2>4. (e + 1) % R = 0
    BY <2>1, <2>3, DivIs
  <2> QED BY <2>2, <2>4 DEF d, e
<1>3. CASE e + 1 # R
  <2>1. p + 1 = R * d + (e + 1) /\ d \in Int /\ e + 1 \in 0..(R - 1) /\ p + 1 \in Nat
    BY <1>1, <1>3
  <2>2. (p + 1) \div R = d /\ (p + 1) % R = e + 1
    BY <2>1, DivIs
  <2>3. e + 1 = R * 0 + (e + 1) /\ e + 1 \in Nat /\ 0 \in Int
    BY <2>1
  <2>4. (e + 1) % R = e + 1
    BY <2>1, <2>3, DivIs
  <2>5. e + 1 # 0
    BY <1>1
  <2> QED BY <2>2, <2>4, <2>5 DEF d, e
<1> QED BY <1>2, <1>3

\* Quotients keep the order.
LEMMA DivGrows ==
  ASSUME NEW R \in Nat \ {0}, NEW p \in Nat, NEW q \in Nat, p <= q
  PROVE  p \div R <= q \div R
<1> DEFINE a == p \div R
<1> DEFINE b == q \div R
<1>1. /\ a \in Nat /\ p % R \in 0..(R - 1) /\ p = R * a + (p % R)
      /\ b \in Nat /\ q % R \in 0..(R - 1) /\ q = R * b + (q % R)
  BY ModRange
<1> HIDE DEF a, b
<1>2. ASSUME b < a PROVE FALSE
  <2>1. PICK c \in Nat : a = b + 1 + c
    <3>1. a - b - 1 \in Nat /\ a = b + 1 + (a - b - 1)
      BY <1>1, <1>2
    <3> QED BY <3>1
  <2>2. R * c \in Nat /\ R * a = R * b + R + R * c /\ R * b \in Int
    BY <1>1, <2>1
  <2> QED BY <1>1, <2>2
<1>3. a <= b
  BY <1>1, <1>2
<1> QED BY <1>3 DEF a, b

\* How many rows p..p+m-1 emit.
LEMMA EmitCount ==
  ASSUME NEW p \in Nat, NEW m \in Nat
  PROVE  Cardinality({b \in 0..(m - 1) : Emits(p + b)}) = ((p + m) \div Ratio) - (p \div Ratio)
<1> DEFINE S(x) == {b \in 0..(x - 1) : Emits(p + b)}
<1> DEFINE D(x) == ((p + x) \div Ratio) - (p \div Ratio)
<1> DEFINE Good(x) == IsFiniteSet(S(x)) /\ Cardinality(S(x)) = D(x)
<1> DEFINE Bad == {x \in Nat : ~Good(x)}
<1>0. Ratio \in Nat \ {0}
  BY WindowAssumption
<1>1. Good(0)
  <2>1. S(0) = {} /\ p + 0 = p
    OBVIOUS
  <2>2. p \div Ratio \in Nat
    BY <1>0, ModRange
  <2>3. D(0) = 0
    BY <2>1, <2>2
  <2> HIDE DEF S, D
  <2> QED BY <2>1, <2>3, FS_EmptySet
<1>2. ASSUME NEW x \in Nat, Good(x) PROVE Good(x + 1)
  <2>1. p + (x + 1) = (p + x) + 1 /\ p + x \in Nat
    OBVIOUS
  <2>2. /\ Emits(p + x) => D(x + 1) = D(x) + 1
        /\ ~Emits(p + x) => D(x + 1) = D(x)
    <3>1. /\ Emits(p + x) => (p + (x + 1)) \div Ratio = ((p + x) \div Ratio) + 1
          /\ ~Emits(p + x) => (p + (x + 1)) \div Ratio = (p + x) \div Ratio
      BY <1>0, <2>1, DivNext DEF Emits
    <3>2. (p + x) \div Ratio \in Nat /\ p \div Ratio \in Nat
      BY <1>0, <2>1, ModRange
    <3> QED BY <3>1, <3>2
  <2>3. Emits(p + x) => S(x + 1) = S(x) \cup {x}
    BY <1>2
  <2>4. ~Emits(p + x) => S(x + 1) = S(x)
    BY <1>2
  <2>5. x \notin S(x)
    BY <1>2
  <2>6. IsFiniteSet(S(x)) /\ Cardinality(S(x)) = D(x)
    BY <1>2
  <2> HIDE DEF S, D
  <2>7. IsFiniteSet(S(x) \cup {x}) /\ Cardinality(S(x) \cup {x}) = Cardinality(S(x)) + 1
    BY <2>5, <2>6, FS_AddElement
  <2> QED BY <2>2, <2>3, <2>4, <2>6, <2>7
<1>3. Bad = {}
  <2> SUFFICES ASSUME Bad # {} PROVE FALSE
    OBVIOUS
  <2>1. PICK x \in Bad : \A y \in Bad : x <= y
    <3>1. Bad \subseteq Nat
      OBVIOUS
    <3> HIDE DEF Bad
    <3> QED BY <3>1, NatMin
  <2>2. x \in Nat /\ ~Good(x) /\ \A y \in Nat : ~Good(y) => x <= y
    BY <2>1
  <2> HIDE DEF Good, Bad
  <2>3. x # 0
    BY <1>1, <2>2
  <2>4. x - 1 \in Nat /\ (x - 1) + 1 = x /\ ~(x <= x - 1)
    BY <2>2, <2>3
  <2>5. Good(x - 1)
    BY <2>2, <2>4
  <2>6. Good((x - 1) + 1)
    BY <1>2, <2>4, <2>5
  <2> QED BY <2>2, <2>4, <2>6
<1>4. Good(m)
  <2> HIDE DEF Good
  <2> QED BY <1>3
<1> QED BY <1>4

-----------------------------------------------------------------------------
(* What n calls of forward_token leave, in closed form.                    *)

CountAt(l, p) ==
  [nRaw |-> Lesser(p, Sliding), rawHead |-> p % Sliding,
   nComp |-> IF l \in CompLayers THEN Lesser(p \div Ratio, CompRows) ELSE 0]
RowsAt(l, p) == [j \in 1..CountAt(l, p).nComp |-> j * Ratio - 1]

\* What the counts of a position are.
LEMMA CountTypes ==
  ASSUME NEW l, NEW p \in Nat
  PROVE  /\ CountAt(l, p).nRaw \in Nat /\ CountAt(l, p).rawHead \in Nat
         /\ CountAt(l, p).nComp \in Nat /\ CountAt(l, p).nComp <= CompRows /\ CompRows \in Nat
<1>1. Sliding \in Nat \ {0} /\ Ratio \in Nat \ {0} /\ CompRows \in Nat
  BY WindowAssumption, ForwardAssumption
<1>2. p % Sliding \in Nat /\ p \div Ratio \in Nat
  BY <1>1, ModRange
<1> QED BY <1>1, <1>2 DEF CountAt, Lesser

\* One token more, with room for at least the rows emitted up to a later position.
LEMMA CountNext ==
  ASSUME NEW l, NEW p \in Nat, NEW room \in Nat,
         room <= CompRows, CompRows <= room \/ (p + 1) \div Ratio <= room
  PROVE  CountAt(l, p + 1) =
           [nRaw |-> Lesser(CountAt(l, p).nRaw + 1, Sliding),
            rawHead |-> (CountAt(l, p).rawHead + 1) % Sliding,
            nComp |-> CountAt(l, p).nComp
                        + IF l \in CompLayers /\ Emits(p) /\ CountAt(l, p).nComp < room
                          THEN 1 ELSE 0]
<1>1. Sliding \in Nat \ {0} /\ Ratio \in Nat \ {0} /\ CompRows \in Nat
  BY WindowAssumption, ForwardAssumption
<1>2. Lesser(Lesser(p, Sliding) + 1, Sliding) = Lesser(p + 1, Sliding)
  BY <1>1 DEF Lesser
<1>3. ((p % Sliding) + 1) % Sliding = (p + 1) % Sliding
  BY <1>1, DivNext
<1>4. /\ Emits(p) => (p + 1) \div Ratio = (p \div Ratio) + 1
      /\ ~Emits(p) => (p + 1) \div Ratio = p \div Ratio
  BY <1>1, DivNext DEF Emits
<1>5. p \div Ratio \in Nat /\ (p + 1) \div Ratio \in Nat
  BY <1>1, ModRange
<1>6. Lesser((p + 1) \div Ratio, CompRows)
        = Lesser(p \div Ratio, CompRows)
            + IF Emits(p) /\ Lesser(p \div Ratio, CompRows) < room THEN 1 ELSE 0
  <2> DEFINE x == p \div Ratio
  <2> DEFINE y == (p + 1) \div Ratio
  <2>1. /\ x \in Nat /\ y \in Nat /\ (Emits(p) => y = x + 1) /\ (~Emits(p) => y = x)
        /\ CompRows <= room \/ y <= room
    BY <1>4, <1>5
  <2> HIDE DEF x, y
  <2>2. Lesser(y, CompRows) = Lesser(x, CompRows)
            + IF Emits(p) /\ Lesser(x, CompRows) < room THEN 1 ELSE 0
    <3>1. CASE Emits(p)
      BY <1>1, <2>1, <3>1 DEF Lesser
    <3>2. CASE ~Emits(p)
      BY <1>1, <2>1, <3>2 DEF Lesser
    <3> QED BY <3>1, <3>2
  <2> QED BY <2>2 DEF x, y
<1>7. CASE l \in CompLayers
  <2>1. CountAt(l, p) = [nRaw |-> Lesser(p, Sliding), rawHead |-> p % Sliding,
                         nComp |-> Lesser(p \div Ratio, CompRows)]
    BY <1>7 DEF CountAt
  <2>2. CountAt(l, p + 1) = [nRaw |-> Lesser(p + 1, Sliding), rawHead |-> (p + 1) % Sliding,
                             nComp |-> Lesser((p + 1) \div Ratio, CompRows)]
    BY <1>7 DEF CountAt
  <2> QED BY <1>2, <1>3, <1>6, <1>7, <2>1, <2>2
<1>8. CASE l \notin CompLayers
  <2>1. CountAt(l, p) = [nRaw |-> Lesser(p, Sliding), rawHead |-> p % Sliding, nComp |-> 0]
    BY <1>8 DEF CountAt
  <2>2. CountAt(l, p + 1) = [nRaw |-> Lesser(p + 1, Sliding), rawHead |-> (p + 1) % Sliding, nComp |-> 0]
    BY <1>8 DEF CountAt
  <2> QED BY <1>2, <1>3, <1>8, <2>1, <2>2
<1> QED BY <1>7, <1>8

\* The position before the first.
LEMMA CountZero == \A l : CountAt(l, 0) = ZeroCount
<1>1. Sliding \in Nat \ {0} /\ Ratio \in Nat \ {0} /\ CompRows \in Nat
  BY WindowAssumption, ForwardAssumption
<1>2. 0 % Sliding = 0 /\ 0 \div Ratio = 0
  BY <1>1, DivIs
<1> QED BY <1>1, <1>2 DEF CountAt, ZeroCount, Lesser

\* forward_token's count, call after call.
LEMMA ByTokenIs ==
  ASSUME NEW l, NEW n \in Nat
  PROVE  ByToken(l, n) = CountAt(l, n) /\ RowsByToken(l, n) = RowsAt(l, n)
<1> DEFINE F == CHOOSE f : f = [i \in 0..n |-> IF i = 0 THEN ZeroCount ELSE TokenStep(l, f[i - 1], i - 1)]
<1> DEFINE G == [i \in 0..n |-> CountAt(l, i)]
<1>1. ByToken(l, n) = F[n]
  BY DEF ByToken
<1>2. \A p \in Nat : CountAt(l, p + 1) = TokenStep(l, CountAt(l, p), p)
  <2> TAKE p \in Nat
  <2>1. CompRows \in Nat
    BY ForwardAssumption
  <2>2. CountAt(l, p).nComp \in Nat
    BY CountTypes
  <2>3. CountAt(l, p).nComp < CompRows <=> CountAt(l, p).nComp + 1 <= CompRows
    BY <2>1, <2>2
  <2>4. CountAt(l, p + 1) =
           [nRaw |-> Lesser(CountAt(l, p).nRaw + 1, Sliding),
            rawHead |-> (CountAt(l, p).rawHead + 1) % Sliding,
            nComp |-> CountAt(l, p).nComp
                        + IF l \in CompLayers /\ Emits(p) /\ CountAt(l, p).nComp < CompRows
                          THEN 1 ELSE 0]
    BY <2>1, CountNext
  <2> QED BY <2>3, <2>4 DEF TokenStep
<1>3. \A i \in 0..n : G[i] = IF i = 0 THEN ZeroCount ELSE TokenStep(l, G[i - 1], i - 1)
  <2> TAKE i \in 0..n
  <2>1. CASE i = 0
    BY <2>1, CountZero
  <2>2. CASE i # 0
    <3>1. i - 1 \in Nat /\ (i - 1) + 1 = i /\ i - 1 \in 0..n
      BY <2>2
    <3>2. CountAt(l, (i - 1) + 1) = TokenStep(l, CountAt(l, i - 1), i - 1)
      BY <1>2, <3>1
    <3> QED BY <2>2, <3>1, <3>2
  <2> QED BY <2>1, <2>2
<1>4. F = [i \in 0..n |-> IF i = 0 THEN ZeroCount ELSE TokenStep(l, F[i - 1], i - 1)]
  <2>1. G = [i \in 0..n |-> G[i]]
    OBVIOUS
  <2> HIDE DEF G
  <2>2. G = [i \in 0..n |-> IF i = 0 THEN ZeroCount ELSE TokenStep(l, G[i - 1], i - 1)]
    BY <1>3, <2>1
  <2> QED BY <2>2
<1> HIDE DEF F
<1> DEFINE Bad == {i \in 0..n : F[i] # CountAt(l, i)}
<1>5. Bad = {}
  <2> SUFFICES ASSUME Bad # {} PROVE FALSE
    OBVIOUS
  <2>1. PICK x \in Bad : \A y \in Bad : x <= y
    <3>1. Bad \subseteq Nat
      OBVIOUS
    <3> HIDE DEF Bad
    <3> QED BY <3>1, NatMin
  <2>2. x \in 0..n /\ F[x] # CountAt(l, x) /\ \A y \in 0..n : F[y] # CountAt(l, y) => x <= y
    BY <2>1
  <2>3. x # 0
    BY <1>4, <2>2, CountZero
  <2>4. x - 1 \in 0..n /\ x - 1 \in Nat /\ (x - 1) + 1 = x /\ ~(x <= x - 1)
    BY <2>2, <2>3
  <2>5. F[x - 1] = CountAt(l, x - 1)
    BY <2>2, <2>4
  <2>6. F[x] = TokenStep(l, CountAt(l, x - 1), x - 1)
    BY <1>4, <2>2, <2>3, <2>5
  <2>7. CountAt(l, (x - 1) + 1) = TokenStep(l, CountAt(l, x - 1), x - 1)
    BY <1>2, <2>4
  <2> QED BY <2>2, <2>4, <2>6, <2>7
<1>6. F[n] = CountAt(l, n)
  BY <1>5
<1> QED BY <1>1, <1>6 DEF RowsByToken, RowsAt

-----------------------------------------------------------------------------
(* A chunk's walk.                                                         *)

\* The compressed rows the chunk emits bring the cache to where n calls would have.
LEMMA RowsEmitted ==
  ASSUME ForwardTypeOK, Running, NEW l \in Layer, seqPos \in Nat, count[l] = CountAt(l, seqPos)
  PROVE  /\ count[l].nComp + NOut(l) = CountAt(l, seqPos + Live).nComp
         /\ NOut(l) \in Nat
         /\ NOut(l) # 0 => l \in CompLayers /\ count[l].nComp = seqPos \div Ratio
<1> DEFINE x == seqPos \div Ratio
<1> DEFINE y == (seqPos + Live) \div Ratio
<1>0. Live \in Nat \ {0} /\ Ratio \in Nat \ {0} /\ CompRows \in Nat
  BY LiveFacts, WindowAssumption, ForwardAssumption
<1>1. x \in Nat /\ y \in Nat
  <2>1. seqPos + Live \in Nat
    BY <1>0
  <2> QED BY <1>0, <2>1, ModRange
<1>2. CASE l \in CompLayers
  <2>1. NOutUncapped(l) = y - x
    <3>1. NOutUncapped(l) = Cardinality({b \in 0..(Live - 1) : Emits(seqPos + b)})
      BY <1>2 DEF NOutUncapped, Tok
    <3> QED BY <1>0, <3>1, EmitCount
  <2>2. NOutUncapped(l) >= 0
    <3>1. Tok \in SUBSET (0..(Live - 1)) /\ IsFiniteSet(0..(Live - 1))
      BY <1>0, FS_Interval DEF Tok
    <3>2. IsFiniteSet({b \in Tok : l \in CompLayers /\ Emits(seqPos + b)})
      BY <3>1, FS_Subset
    <3>3. NOutUncapped(l) \in Nat
      BY <3>2, FS_CardinalityType DEF NOutUncapped
    <3> QED BY <3>3
  <2>3. count[l].nComp = Lesser(x, CompRows) /\ CountAt(l, seqPos + Live).nComp = Lesser(y, CompRows)
    BY <1>2 DEF CountAt
  <2>4. NOut(l) = Lesser(y - x, CompRows - Lesser(x, CompRows))
    BY <2>1, <2>3 DEF NOut
  <2> HIDE DEF x, y
  <2>5. /\ Lesser(x, CompRows) + Lesser(y - x, CompRows - Lesser(x, CompRows)) = Lesser(y, CompRows)
        /\ Lesser(y - x, CompRows - Lesser(x, CompRows)) \in Nat
        /\ Lesser(y - x, CompRows - Lesser(x, CompRows)) # 0 => Lesser(x, CompRows) = x
    BY <1>0, <1>1, <2>1, <2>2 DEF Lesser
  <2> QED BY <1>2, <2>3, <2>4, <2>5 DEF x
<1>3. CASE l \notin CompLayers
  <2>1. {b \in Tok : l \in CompLayers /\ Emits(seqPos + b)} = {}
    BY <1>3
  <2>2. NOutUncapped(l) = 0
    BY <2>1, FS_EmptySet DEF NOutUncapped
  <2>3. count[l].nComp = 0 /\ CountAt(l, seqPos + Live).nComp = 0
    BY <1>3 DEF CountAt
  <2> QED BY <1>0, <2>2, <2>3 DEF NOut, Lesser
<1> QED BY <1>2, <1>3

\* After token b of the chunk the counts are those of b + 1 more calls.
LEMMA WalkedIs ==
  ASSUME ForwardTypeOK, Running, NEW l \in Layer, seqPos \in Nat, count[l] = CountAt(l, seqPos)
  PROVE  \A b \in -1..(Live - 1) : Walked(l)[b] = CountAt(l, seqPos + b + 1)
<1> DEFINE end == count[l].nComp + NOut(l)
<1> DEFINE Walk(f) ==
      [b \in -1..(Live - 1) |->
        IF b = -1 THEN count[l]
        ELSE [nRaw |-> Lesser(f[b - 1].nRaw + 1, Sliding),
              rawHead |-> (f[b - 1].rawHead + 1) % Sliding,
              nComp |-> f[b - 1].nComp
                + IF l \in CompLayers /\ Emits(seqPos + b) /\ f[b - 1].nComp < end THEN 1 ELSE 0]]
<1> DEFINE F == CHOOSE f : f = Walk(f)
<1> DEFINE G == [b \in -1..(Live - 1) |-> CountAt(l, seqPos + b + 1)]
<1>1. Walked(l) = F
  BY DEF Walked
<1>2. Live \in Nat \ {0} /\ Ratio \in Nat \ {0} /\ CompRows \in Nat
  BY LiveFacts, WindowAssumption, ForwardAssumption
<1>3. /\ end \in Nat /\ end <= CompRows
      /\ l \in CompLayers => CompRows <= end \/ (seqPos + Live) \div Ratio <= end
  <2>1. end = CountAt(l, seqPos + Live).nComp
    BY RowsEmitted
  <2>2. seqPos + Live \in Nat
    BY <1>2
  <2>5. (seqPos + Live) \div Ratio \in Nat
    BY <1>2, <2>2, ModRange
  <2> HIDE DEF end
  <2>3. end \in Nat /\ end <= CompRows
    BY <2>1, <2>2, CountTypes
  <2>4. l \in CompLayers => end = Lesser((seqPos + Live) \div Ratio, CompRows)
    BY <2>1 DEF CountAt
  <2> QED BY <1>2, <2>3, <2>4, <2>5 DEF Lesser
<1> HIDE DEF end
<1>4. ASSUME NEW b \in 0..(Live - 1)
      PROVE  CountAt(l, seqPos + b + 1) =
               [nRaw |-> Lesser(CountAt(l, seqPos + b).nRaw + 1, Sliding),
                rawHead |-> (CountAt(l, seqPos + b).rawHead + 1) % Sliding,
                nComp |-> CountAt(l, seqPos + b).nComp
                  + IF l \in CompLayers /\ Emits(seqPos + b) /\ CountAt(l, seqPos + b).nComp < end
                    THEN 1 ELSE 0]
  <2> DEFINE p == seqPos + b
  <2>1. p \in Nat /\ p + 1 <= seqPos + Live /\ p + 1 \in Nat /\ seqPos + Live \in Nat
    BY <1>2
  <2> HIDE DEF p
  <2>2. (p + 1) \div Ratio <= (seqPos + Live) \div Ratio
    BY <1>2, <2>1, DivGrows
  <2>3. (p + 1) \div Ratio \in Nat /\ (seqPos + Live) \div Ratio \in Nat
    BY <1>2, <2>1, ModRange
  <2>4. CASE l \in CompLayers
    <3>1. CompRows <= end \/ (p + 1) \div Ratio <= end
      BY <1>2, <1>3, <2>2, <2>3, <2>4
    <3>2. CountAt(l, p + 1) =
           [nRaw |-> Lesser(CountAt(l, p).nRaw + 1, Sliding),
            rawHead |-> (CountAt(l, p).rawHead + 1) % Sliding,
            nComp |-> CountAt(l, p).nComp
                        + IF l \in CompLayers /\ Emits(p) /\ CountAt(l, p).nComp < end
                          THEN 1 ELSE 0]
      BY <1>3, <2>1, <3>1, CountNext
    <3> QED BY <3>2 DEF p
  <2>5. CASE l \notin CompLayers
    <3>1. CompRows <= CompRows
      BY <1>2
    <3>2. CountAt(l, p + 1) =
           [nRaw |-> Lesser(CountAt(l, p).nRaw + 1, Sliding),
            rawHead |-> (CountAt(l, p).rawHead + 1) % Sliding,
            nComp |-> CountAt(l, p).nComp
                        + IF l \in CompLayers /\ Emits(p) /\ CountAt(l, p).nComp < CompRows
                          THEN 1 ELSE 0]
      BY <1>2, <2>1, <3>1, CountNext
    <3> QED BY <2>5, <3>2 DEF p
  <2> QED BY <2>4, <2>5
<1>5. \A b \in -1..(Live - 1) : G[b] = Walk(G)[b]
  <2> TAKE b \in -1..(Live - 1)
  <2>1. CASE b = -1
    <3>1. seqPos + b + 1 = seqPos
      BY <2>1
    <3> QED BY <2>1, <3>1
  <2>2. CASE b # -1
    <3>1. b - 1 \in -1..(Live - 1) /\ b \in 0..(Live - 1) /\ seqPos + (b - 1) + 1 = seqPos + b
      BY <1>2, <2>2
    <3>2. G[b - 1] = CountAt(l, seqPos + b) /\ G[b] = CountAt(l, seqPos + b + 1)
      BY <3>1
    <3>3. Walk(G)[b] =
            [nRaw |-> Lesser(G[b - 1].nRaw + 1, Sliding),
             rawHead |-> (G[b - 1].rawHead + 1) % Sliding,
             nComp |-> G[b - 1].nComp
               + IF l \in CompLayers /\ Emits(seqPos + b) /\ G[b - 1].nComp < end THEN 1 ELSE 0]
      <4> HIDE DEF G
      <4> QED BY <2>2
    <3> HIDE DEF G, Walk
    <3> QED BY <1>4, <3>1, <3>2, <3>3
  <2> QED BY <2>1, <2>2
<1>6. F = Walk(F)
  <2>1. G = [b \in -1..(Live - 1) |-> G[b]]
    OBVIOUS
  <2>2. Walk(G) = [b \in -1..(Live - 1) |-> Walk(G)[b]]
    <3> HIDE DEF G
    <3> QED OBVIOUS
  <2> HIDE DEF G, Walk
  <2>3. G = Walk(G)
    BY <1>5, <2>1, <2>2
  <2> QED BY <2>3
<1> HIDE DEF F
<1> DEFINE Bad == {n \in 0..Live : F[n - 1] # CountAt(l, seqPos + n)}
<1>7. Bad = {}
  <2> SUFFICES ASSUME Bad # {} PROVE FALSE
    OBVIOUS
  <2>1. PICK n \in Bad : \A m \in Bad : n <= m
    <3>1. Bad \subseteq Nat
      OBVIOUS
    <3> HIDE DEF Bad
    <3> QED BY <3>1, NatMin
  <2>2. n \in 0..Live /\ F[n - 1] # CountAt(l, seqPos + n)
        /\ \A m \in 0..Live : F[m - 1] # CountAt(l, seqPos + m) => n <= m
    BY <2>1
  <2> HIDE DEF Bad
  <2>3. CASE n = 0
    <3>1. n - 1 = -1 /\ -1 \in -1..(Live - 1) /\ seqPos + n = seqPos
      BY <1>2, <2>3
    <3>2. F[-1] = count[l]
      BY <1>6, <3>1
    <3> QED BY <2>2, <3>1, <3>2
  <2>4. CASE n # 0
    <3> DEFINE b == n - 1
    <3>1. /\ b \in 0..(Live - 1) /\ b \in -1..(Live - 1) /\ b # -1 /\ n = b + 1 /\ b \in 0..Live
          /\ ~(n <= b) /\ seqPos + n = seqPos + b + 1
      BY <1>2, <2>2, <2>4
    <3> HIDE DEF b
    <3>2. F[b - 1] = CountAt(l, seqPos + b)
      BY <2>2, <3>1
    <3>3. F[b] = [nRaw |-> Lesser(F[b - 1].nRaw + 1, Sliding),
                  rawHead |-> (F[b - 1].rawHead + 1) % Sliding,
                  nComp |-> F[b - 1].nComp
                    + IF l \in CompLayers /\ Emits(seqPos + b) /\ F[b - 1].nComp < end THEN 1 ELSE 0]
      BY <1>6, <3>1
    <3> HIDE DEF Walk
    <3>4. F[b] = CountAt(l, seqPos + b + 1)
      BY <1>4, <3>1, <3>2, <3>3
    <3> QED BY <2>2, <3>1, <3>4 DEF b
  <2> QED BY <2>3, <2>4
<1>8. ASSUME NEW b \in -1..(Live - 1) PROVE F[b] = CountAt(l, seqPos + b + 1)
  <2>1. b + 1 \in 0..Live /\ (b + 1) - 1 = b /\ seqPos + (b + 1) = seqPos + b + 1
    BY <1>2
  <2>2. F[(b + 1) - 1] = CountAt(l, seqPos + (b + 1))
    BY <1>7, <2>1
  <2> QED BY <2>1, <2>2
<1> QED BY <1>1, <1>8

\* The rows pooled for the chunk stand behind the ones there are, each for its group.
LEMMA PooledIs ==
  ASSUME ForwardTypeOK, Running, NEW l \in Layer, seqPos \in Nat, count[l] = CountAt(l, seqPos),
         emitted[l] = RowsAt(l, seqPos)
  PROVE  Pooled(l) = RowsAt(l, seqPos + Live)
<1> DEFINE c == count[l].nComp
<1> DEFINE m == c + NOut(l)
<1>1. m = CountAt(l, seqPos + Live).nComp /\ NOut(l) \in Nat /\ c \in Nat
      /\ (NOut(l) # 0 => c = seqPos \div Ratio) /\ c = CountAt(l, seqPos).nComp
  BY RowsEmitted, CountTypes
<1>2. Ratio \in Nat \ {0}
  BY WindowAssumption
<1>3. ASSUME NEW j \in 1..m
      PROVE  (IF j <= c THEN emitted[l][j] ELSE (((seqPos \div Ratio) + (j - c)) * Ratio) - 1)
               = j * Ratio - 1
  <2>1. CASE j <= c
    <3>1. j \in 1..c
      BY <1>1, <2>1
    <3>2. RowsAt(l, seqPos)[j] = j * Ratio - 1
      BY <1>1, <3>1 DEF RowsAt
    <3> QED BY <2>1, <3>2
  <2>2. CASE ~(j <= c)
    <3>1. c = seqPos \div Ratio
      BY <1>1, <2>2
    <3>2. (seqPos \div Ratio) + (j - c) = j
      BY <1>1, <3>1
    <3> QED BY <2>2, <3>2
  <2> QED BY <2>1, <2>2
<1>4. Pooled(l) = [j \in 1..m |-> IF j <= c THEN emitted[l][j]
                                  ELSE (((seqPos \div Ratio) + (j - c)) * Ratio) - 1]
  BY DEF Pooled
<1>5. RowsAt(l, seqPos + Live) = [j \in 1..m |-> j * Ratio - 1]
  BY <1>1 DEF RowsAt
<1> QED BY <1>3, <1>4, <1>5

-----------------------------------------------------------------------------
(* One call.                                                               *)

Standing == Running \/ fpc \in {"call", "returned"}

\* Whether this chunk has passed the layer's walk, and its tap.
WalkPast(l) == \/ fpc = "attention" /\ l < layer
               \/ fpc \in {"route", "dispatch", "host", "post", "tap"} /\ l <= layer
TapPast(l) == fpc = "head" \/ l < layer
Reached(l) == IF WalkPast(l) THEN seqPos + Live ELSE seqPos

\* Each layer's counts and rows are those of as many calls as it has taken tokens.
CountInv ==
  /\ seqPos \in Nat /\ DOMAIN count = Layer /\ DOMAIN emitted = Layer
  /\ Running =>
       /\ fpc # "head" => seqPos = pass.from + base
       /\ fpc = "head" => layer = 0 /\ seqPos = pass.from + base + Live
  /\ fpc = "call" => seqPos = pass.from
  /\ fpc = "returned" => seqPos = pass.from + pass.n
  /\ Standing => \A l \in Layer : count[l] = CountAt(l, Reached(l)) /\ emitted[l] = RowsAt(l, Reached(l))
  /\ fpc = "route" => \A b \in Tok : vis[b] = CountAt(layer, seqPos + b + 1).nComp

\* The rows the plane keeps, and the call's token the first of them is of.
Kept == TapRows(pass.n, pass.keep)
KeptFrom == pass.n - Kept

\* Whether the tap has written the call's token t in layer l.
Tapped(t, l) == t < base \/ (t < base + Live /\ TapPast(l))

TapInv ==
  /\ tapPlane = <<>> \/ tapPlane \in [0..(Kept - 1) -> [TapLayers -> Int]]
  /\ Standing /\ pass.blk =>
       \A r \in 0..(Kept - 1), l \in TapLayers :
         (IF Running THEN Tapped(KeptFrom + r, l) ELSE fpc = "returned") =>
           r \in DOMAIN tapPlane /\ tapPlane[r][l] = pass.from + KeptFrom + r

HeardInv ==
  /\ Running \/ fpc = "call" =>
       heard = IF pass.blk /\ pass.perPosition THEN pass.from..(pass.from + base - 1) ELSE {}
  /\ fpc = "returned" => Answered

ForwardInv == ForwardTypeOK /\ PairInv /\ CountInv /\ TapInv /\ HeardInv

-----------------------------------------------------------------------------
\* The types, at the start.
LEMMA ForwardTypeInit == ForwardInit => ForwardTypeOK
<1> SUFFICES ASSUME ForwardInit PROVE ForwardTypeOK
  OBVIOUS
<1>1. 0 \in Layer
  BY ForwardAssumption DEF Layer
<1> QED BY <1>1 DEF ForwardInit, ForwardTypeOK, ForwardPlaces, Running

\* The types, over a step.
LEMMA ForwardTypeStep == ForwardTypeOK /\ [ForwardNext]_forwardVars => ForwardTypeOK'
<1> SUFFICES ASSUME ForwardTypeOK, [ForwardNext]_forwardVars PROVE ForwardTypeOK'
  OBVIOUS
<1> USE DEF ForwardTypeOK, ForwardPlaces, Running
<1>1. CASE Start
  BY <1>1, CallTypes DEF Start, Unfit, constVars, stateVars, hostVars
<1>2. CASE Attention
  BY <1>2 DEF Attention, constVars, hostVars
<1>3. CASE Route
  <2>1. asked' = (rig.batched /\ PlanLayer /\ ~rig.prof)
    BY <1>3 DEF Route
  <2>2. asked' \in BOOLEAN
    BY ONLY <2>1, Zenon
  <2>3. fpc = "route" /\ fpc' = "dispatch" /\ UNCHANGED <<rig, pass, base, layer, latched, nowhere>>
    BY <1>3 DEF Route, constVars, stateVars
  <2> QED BY <2>2, <2>3
<1>4. CASE Dispatch
  <2>1. fpc = "dispatch" /\ fpc' = "host" /\ UNCHANGED <<rig, pass, base, layer, asked>>
    BY <1>4 DEF Dispatch, constVars, stateVars
  <2>2. CASE ~(rig.batched /\ pass.routed)
    BY <1>4, <2>1, <2>2, CallTypes DEF Dispatch
  <2>3. CASE rig.batched /\ pass.routed
    <3>1. latched' = (latched \/ rig.router)
          /\ \E l \in Layer : nowhere' \in {nowhere, [nowhere EXCEPT ![l] = {}]}
      BY <1>4, <2>3 DEF Dispatch
    <3>2. latched' \in BOOLEAN
      BY <3>1, CallTypes
    <3>3. nowhere' \in [Layer -> SUBSET OnDisk]
      BY <3>1
    <3> QED BY <2>1, <3>2, <3>3
  <2> QED BY <2>2, <2>3
<1>5. CASE HostExperts
  BY <1>5 DEF HostExperts, constVars, stateVars
<1>6. CASE Reduce
  BY <1>6 DEF Reduce, constVars, stateVars, hostVars
<1>7. CASE NextLayer
  <2>1. layer' \in Layer
    BY <1>7, ForwardAssumption DEF NextLayer, Layer
  <2>2. fpc = "tap" /\ fpc' \in {"head", "attention"} /\ UNCHANGED <<rig, pass, base, latched, nowhere, asked>>
    BY <1>7 DEF NextLayer, constVars
  <2> QED BY <2>1, <2>2
<1>8. CASE Winners
  <2>1. /\ fpc = "head" /\ fpc' \in {"attention", "aborted", "returned"}
        /\ fpc' = "attention" => base + Live < pass.n
        /\ base' = IF fpc' = "attention" THEN base + ChunkSize ELSE base
        /\ UNCHANGED <<rig, pass, layer, latched, nowhere, asked>>
    BY <1>8 DEF Winners, constVars, hostVars
  <2>2. base' \in Nat /\ (fpc' = "attention" => base' < pass.n)
    BY <2>1, LiveFacts
  <2> QED BY <2>1, <2>2
<1>9. CASE GiveUp
  BY <1>9 DEF GiveUp, constVars, stateVars, hostVars
<1>10. CASE UNCHANGED forwardVars
  BY <1>10 DEF forwardVars, constVars, hostVars
<1> QED BY <1>1, <1>2, <1>3, <1>4, <1>5, <1>6, <1>7, <1>8, <1>9, <1>10 DEF ForwardNext

\* Every step keeps the account of the pairs.
LEMMA PairStep == ForwardTypeOK /\ PairInv /\ [ForwardNext]_forwardVars => PairInv'
<1> SUFFICES ASSUME ForwardTypeOK, PairInv, [ForwardNext]_forwardVars PROVE PairInv'
  OBVIOUS
<1>1. CASE UNCHANGED forwardVars
  <2>1. UNCHANGED <<rig, pass, fpc, base, layer, latched, nowhere, asked, normOf, selOf, nsel, chosen,
                    handled, block>>
    BY <1>1 DEF forwardVars, constVars, hostVars
  <2>2. /\ Here' = Here /\ DevRoute' = DevRoute /\ DevHash' = DevHash /\ Pairs' = Pairs
        /\ Both(Pairs)' = Both(Pairs)
        /\ [c \in Half |-> Halves(handled, c)]' = [c \in Half |-> Halves(handled, c)]
    BY <2>1 DEF Here, DevRoute, DevHash, Hashed, Pairs, Tok, Live, ChunkSize, Both, Halves
  <2> HIDE DEF Halves
  <2> QED BY <2>1, <2>2 DEF PairInv, NoShares
<1> QED BY <1>1, RouteStep, DispatchStep, HostStep, ReduceStep, PairKept DEF ForwardNext

-----------------------------------------------------------------------------
\* Before the call every layer is where the call starts.
LEMMA CountInit == ForwardInit => CountInv
<1> SUFFICES ASSUME ForwardInit PROVE CountInv
  OBVIOUS
<1>1. /\ fpc = "call" /\ seqPos = pass.from /\ count = [l \in Layer |-> ByToken(l, pass.from)]
      /\ emitted = [l \in Layer |-> RowsByToken(l, pass.from)]
  BY DEF ForwardInit
<1>2. pass.from \in Nat
  BY ForwardTypeInit, CallTypes
<1>3. \A l \in Layer : Reached(l) = pass.from
  BY <1>1 DEF Reached, WalkPast
<1>4. \A l \in Layer : count[l] = CountAt(l, Reached(l)) /\ emitted[l] = RowsAt(l, Reached(l))
  BY <1>1, <1>2, <1>3, ByTokenIs
<1> QED BY <1>1, <1>2, <1>4 DEF CountInv, Running

\* The walk moves its layer's counts and rows and no other's.
LEMMA AttentionCounts ==
  ASSUME ForwardTypeOK, CountInv, Attention PROVE CountInv'
<1>1. /\ fpc = "attention" /\ fpc' = "route" /\ UNCHANGED <<rig, pass, base, layer, seqPos>>
      /\ emitted' = [emitted EXCEPT ![layer] = Pooled(layer)]
      /\ count' = [count EXCEPT ![layer] = Walked(layer)[Live - 1]]
      /\ vis' = [b \in Tok |-> Walked(layer)[b].nComp]
  BY DEF Attention, constVars, hostVars
<1>2. Running /\ Standing /\ seqPos \in Nat /\ layer \in Layer /\ Layer \subseteq Int
      /\ DOMAIN count = Layer /\ DOMAIN emitted = Layer
  BY <1>1, ForwardAssumption DEF Running, Standing, CountInv, ForwardTypeOK, Layer
<1>3. \A l \in Layer : count[l] = CountAt(l, Reached(l)) /\ emitted[l] = RowsAt(l, Reached(l))
  BY <1>2 DEF CountInv
<1>4. Reached(layer) = seqPos
  BY <1>1, <1>2 DEF Reached, WalkPast
<1>5. count[layer] = CountAt(layer, seqPos) /\ emitted[layer] = RowsAt(layer, seqPos)
  BY <1>2, <1>3, <1>4
<1>6. Live \in Nat \ {0} /\ Live' = Live /\ Tok' = Tok
  BY <1>1, <1>2, LiveFacts DEF Live, ChunkSize, Tok
<1>7. \A b \in -1..(Live - 1) : Walked(layer)[b] = CountAt(layer, seqPos + b + 1)
  BY <1>2, <1>5, WalkedIs
<1>8. Walked(layer)[Live - 1] = CountAt(layer, seqPos + Live)
  <2>1. Live - 1 \in -1..(Live - 1) /\ seqPos + (Live - 1) + 1 = seqPos + Live
    BY <1>2, <1>6
  <2> QED BY <1>7, <2>1
<1>9. Pooled(layer) = RowsAt(layer, seqPos + Live)
  BY <1>2, <1>5, PooledIs
<1>10. \A l \in Layer : Reached(l)' = IF l = layer THEN seqPos + Live ELSE Reached(l)
  BY <1>1, <1>2, <1>6 DEF Reached, WalkPast
<1>11. ASSUME NEW l \in Layer
       PROVE  count'[l] = CountAt(l, Reached(l)') /\ emitted'[l] = RowsAt(l, Reached(l)')
  <2>1. CASE l = layer
    BY <1>1, <1>2, <1>8, <1>9, <1>10, <2>1
  <2>2. CASE l # layer
    BY <1>1, <1>2, <1>3, <1>10, <2>2
  <2> QED BY <2>1, <2>2
<1>12. \A b \in Tok : vis'[b] = CountAt(layer, seqPos + b + 1).nComp
  <2> TAKE b \in Tok
  <2>1. b \in -1..(Live - 1)
    BY <1>6 DEF Tok
  <2> QED BY <1>1, <1>7, <2>1
<1>13. \A l \in Layer : (count[l] = CountAt(l, Reached(l)) /\ emitted[l] = RowsAt(l, Reached(l)))'
  BY <1>11 DEF CountAt, RowsAt
<1>14. \A b \in Tok' : vis'[b] = CountAt(layer', seqPos' + b + 1).nComp
  BY <1>1, <1>6, <1>12
<1>15. DOMAIN count' = Layer /\ DOMAIN emitted' = Layer
  BY <1>1, <1>2
<1>16. seqPos = pass.from + base
  BY <1>1, <1>2 DEF CountInv
<1> HIDE DEF CountAt, RowsAt, Reached
<1> QED BY <1>1, <1>2, <1>13, <1>14, <1>15, <1>16 DEF CountInv, Standing, Running

\* A step that carries every layer no further and no layer back.
LEMMA CountsStand ==
  ASSUME CountInv, UNCHANGED <<count, emitted>>, Standing' => Standing,
         Standing' => \A l \in Layer : Reached(l)' = Reached(l)
  PROVE  /\ DOMAIN count' = Layer /\ DOMAIN emitted' = Layer
         /\ Standing' => \A l \in Layer : /\ count'[l] = CountAt(l, Reached(l)')
                                          /\ emitted'[l] = RowsAt(l, Reached(l)')
<1>1. DOMAIN count' = Layer /\ DOMAIN emitted' = Layer
  BY DEF CountInv
<1>2. ASSUME Standing', NEW l \in Layer
      PROVE  count'[l] = CountAt(l, Reached(l)') /\ emitted'[l] = RowsAt(l, Reached(l)')
  BY <1>2 DEF CountInv
<1> QED BY <1>1, <1>2

\* Every step keeps the counts on their closed form: a layer before this one has the
\* chunk, this one has it once past its attention, and those after it do not.
LEMMA CountStep ==
  ASSUME ForwardTypeOK, CountInv, [ForwardNext]_forwardVars PROVE CountInv'
<1>0. seqPos \in Nat /\ layer \in Layer /\ Layer \subseteq Int /\ base \in Nat /\ pass.from \in Nat
  BY CallTypes, ForwardAssumption DEF CountInv, ForwardTypeOK, Layer
<1> DEFINE Placed ==
      /\ seqPos \in Nat
      /\ Running =>
           /\ fpc # "head" => seqPos = pass.from + base
           /\ fpc = "head" => layer = 0 /\ seqPos = pass.from + base + Live
      /\ fpc = "call" => seqPos = pass.from
      /\ fpc = "returned" => seqPos = pass.from + pass.n
<1>1. ASSUME UNCHANGED <<count, emitted>>, Standing' => Standing, fpc' # "route" \/ UNCHANGED <<fpc, vis, layer, seqPos, rig, pass, base>>,
             Standing' => \A l \in Layer : Reached(l)' = Reached(l), Placed'
      PROVE  CountInv'
  <2>1. /\ DOMAIN count' = Layer /\ DOMAIN emitted' = Layer
        /\ Standing' => \A l \in Layer : /\ count'[l] = CountAt(l, Reached(l)')
                                         /\ emitted'[l] = RowsAt(l, Reached(l)')
    BY <1>1, CountsStand
  <2>2. fpc' = "route" => \A b \in Tok' : vis'[b] = CountAt(layer', seqPos' + b + 1).nComp
    <3> SUFFICES ASSUME fpc' = "route" PROVE \A b \in Tok' : vis'[b] = CountAt(layer', seqPos' + b + 1).nComp
      OBVIOUS
    <3>1. Tok' = Tok /\ UNCHANGED <<fpc, vis, layer, seqPos>>
      BY <1>1 DEF Tok, Live, ChunkSize
    <3> QED BY <3>1 DEF CountInv
  <2>3. (fpc = "route" => \A b \in Tok : vis[b] = CountAt(layer, seqPos + b + 1).nComp)'
    BY <2>2 DEF CountAt
  <2>4. (Standing => \A l \in Layer : count[l] = CountAt(l, Reached(l)) /\ emitted[l] = RowsAt(l, Reached(l)))'
    BY <2>1 DEF CountAt, RowsAt
  <2>5. Placed'
    BY <1>1
  <2> HIDE DEF Reached, CountAt, RowsAt, Running, Standing
  <2> QED BY <2>1, <2>3, <2>4, <2>5 DEF CountInv
<1>2. Placed
  BY DEF CountInv
<1>3. CASE Start
  <2>1. fpc = "call" /\ fpc' \in {"refused", "attention"} /\ base = 0 /\ layer = 0
        /\ UNCHANGED <<rig, pass, base, layer, seqPos, count, emitted>>
    BY <1>3 DEF Start, constVars, stateVars, ForwardTypeOK
  <2>2. Standing /\ (\A l \in Layer : Reached(l)' = Reached(l)) /\ Placed'
    <3>1. \A l \in Layer : ~(l < 0)
      BY ForwardAssumption DEF Layer
    <3>2. \A l \in Layer : Reached(l)' = seqPos /\ Reached(l) = seqPos
      BY <2>1, <3>1 DEF Reached, WalkPast
    <3> QED BY <1>0, <1>2, <2>1, <3>2 DEF Standing, Running
  <2> HIDE DEF Placed, Reached
  <2> QED BY <1>1, <2>1, <2>2
<1>4. CASE Attention
  BY <1>4, AttentionCounts
<1>5. CASE Route \/ Dispatch \/ HostExperts \/ Reduce
  <2>1. /\ fpc \in {"route", "dispatch", "host", "post"}
        /\ fpc' \in {"dispatch", "host", "post", "tap", "aborted"}
        /\ UNCHANGED <<rig, pass, base, layer, seqPos, count, emitted>>
    <3>1. CASE Route
      BY <3>1 DEF Route, constVars, stateVars
    <3>2. CASE Dispatch
      BY <3>2 DEF Dispatch, constVars, stateVars
    <3>3. CASE HostExperts
      BY <3>3 DEF HostExperts, constVars, stateVars
    <3>4. CASE Reduce
      BY <3>4 DEF Reduce, constVars, stateVars
    <3> QED BY <1>5, <3>1, <3>2, <3>3, <3>4
  <2>2. Standing /\ Placed' /\ (Standing' => \A l \in Layer : Reached(l)' = Reached(l))
    BY <1>0, <1>2, <2>1 DEF Standing, Running, Reached, WalkPast, Live, ChunkSize
  <2> HIDE DEF Placed, Reached
  <2> QED BY <1>1, <2>1, <2>2
<1>6. CASE NextLayer
  <2>1. /\ fpc = "tap" /\ UNCHANGED <<rig, pass, base, count, emitted>>
        /\ layer' = IF layer = Depth - 1 THEN 0 ELSE layer + 1
        /\ fpc' = IF layer = Depth - 1 THEN "head" ELSE "attention"
        /\ seqPos' = IF layer = Depth - 1 THEN seqPos + Live ELSE seqPos
    BY <1>6 DEF NextLayer, constVars
  <2>2. Standing /\ Running /\ Live \in Nat \ {0} /\ Live' = Live
    BY <2>1, LiveFacts DEF Standing, Running, Live, ChunkSize
  <2>3. Placed'
    BY <1>0, <1>2, <2>1, <2>2 DEF Running
  <2>4. \A l \in Layer : Reached(l)' = Reached(l)
    <3> TAKE l \in Layer
    <3>1. l \in Int /\ l <= Depth - 1 /\ layer \in Int
      BY ForwardAssumption DEF Layer, ForwardTypeOK
    <3>2. CASE layer = Depth - 1
      BY <2>1, <3>1, <3>2 DEF Reached, WalkPast
    <3>3. CASE layer # Depth - 1
      BY <2>1, <2>2, <3>1, <3>3 DEF Reached, WalkPast
    <3> QED BY <3>2, <3>3
  <2>5. fpc' # "route"
    BY <2>1
  <2> HIDE DEF Placed, Reached
  <2> QED BY <1>1, <2>1, <2>2, <2>3, <2>4, <2>5
<1>7. CASE Winners
  <2>1. /\ fpc = "head" /\ fpc' \in {"attention", "aborted", "returned"}
        /\ fpc' = "attention" => base + Live < pass.n
        /\ fpc' = "returned" => ~(base + Live < pass.n)
        /\ base' = IF fpc' = "attention" THEN base + ChunkSize ELSE base
        /\ UNCHANGED <<rig, pass, layer, seqPos, count, emitted>>
    BY <1>7 DEF Winners, constVars, stateVars
  <2>2. Standing /\ Running /\ layer = 0 /\ seqPos = pass.from + base + Live
    BY <1>2, <2>1 DEF Standing, Running
  <2>3. /\ Live \in Nat \ {0} /\ base + Live <= pass.n
        /\ base + Live < pass.n => Live = ChunkSize
        /\ pass.n \in Nat
    BY <2>2, LiveFacts, CallTypes
  <2>4. Placed'
    BY <1>0, <2>1, <2>2, <2>3 DEF Running
  <2>5. \A l \in Layer : Reached(l)' = seqPos /\ Reached(l) = seqPos
    <3>1. \A l \in Layer : ~(l < 0)
      BY ForwardAssumption DEF Layer
    <3> QED BY <2>1, <2>2, <3>1 DEF Reached, WalkPast
  <2> HIDE DEF Placed, Reached
  <2> QED BY <1>1, <2>1, <2>2, <2>4, <2>5
<1>8. CASE GiveUp
  <2>1. fpc' = "gaveup" /\ UNCHANGED <<rig, pass, base, layer, seqPos, count, emitted>>
    BY <1>8 DEF GiveUp, constVars, stateVars
  <2>2. ~Standing' /\ Placed'
    BY <1>2, <2>1 DEF Standing, Running
  <2> HIDE DEF Placed, Reached
  <2> QED BY <1>1, <2>1, <2>2
<1>9. CASE UNCHANGED forwardVars
  <2>1. UNCHANGED <<rig, pass, fpc, vis, base, layer, seqPos, count, emitted>>
    BY <1>9 DEF forwardVars, constVars, stateVars
  <2>2. (Standing' => Standing) /\ Placed' /\ \A l \in Layer : Reached(l)' = Reached(l)
    BY <1>2, <2>1 DEF Standing, Running, Reached, WalkPast, Live, ChunkSize
  <2> HIDE DEF Placed, Reached
  <2> QED BY <1>1, <2>1, <2>2
<1> QED BY <1>3, <1>4, <1>5, <1>6, <1>7, <1>8, <1>9 DEF ForwardNext

-----------------------------------------------------------------------------
(* The tapped plane.                                                       *)

\* A call keeps a token at least and at most its own.
LEMMA KeptFacts ==
  ASSUME ForwardTypeOK
  PROVE  Kept \in Nat \ {0} /\ Kept <= pass.n /\ KeptFrom \in Nat
BY CallTypes DEF Kept, KeptFrom, TapRows

\* The chunk's rows are those of its tokens that are kept, each in its place.
LEMMA TapTokensAre ==
  ASSUME ForwardTypeOK, Running, NEW tokens, tokens = TapTokens(base, Live, pass.n, pass.keep)
  PROVE  /\ DOMAIN tokens = {r \in 0..(Kept - 1) : base <= KeptFrom + r /\ KeptFrom + r < base + Live}
         /\ \A r \in DOMAIN tokens : tokens[r] = KeptFrom + r
<1>1. /\ Kept \in Nat \ {0} /\ KeptFrom \in Nat /\ KeptFrom + Kept = pass.n /\ pass.n \in Nat
      /\ base \in Nat /\ Live \in Nat \ {0} /\ base + Live <= pass.n
  BY KeptFacts, LiveFacts, CallTypes DEF KeptFrom, ForwardTypeOK
<1> DEFINE lo == TapLo(base, KeptFrom)
<1> DEFINE row0 == TapRow0(base, KeptFrom)
<1>2. tokens = [r \in row0..(row0 + Live - lo - 1) |-> base + lo + r - row0]
  BY DEF TapTokens, Kept, KeptFrom
<1>3. base + lo - row0 = KeptFrom /\ lo \in Int /\ row0 \in Int
      /\ (base >= KeptFrom => lo = 0 /\ row0 = base - KeptFrom)
      /\ (base < KeptFrom => lo = KeptFrom - base /\ row0 = 0)
  BY <1>1 DEF TapLo, TapRow0
<1> HIDE DEF lo, row0
<1>4. ASSUME NEW r \in row0..(row0 + Live - lo - 1) PROVE tokens[r] = KeptFrom + r
  <2>1. tokens[r] = base + lo + r - row0
    BY <1>2
  <2> QED BY <1>1, <1>3, <2>1
<1>5. row0..(row0 + Live - lo - 1)
        = {r \in 0..(Kept - 1) : base <= KeptFrom + r /\ KeptFrom + r < base + Live}
  BY <1>1, <1>3
<1> QED BY <1>2, <1>4, <1>5

\* The plane is empty before the call.
LEMMA TapStart == ForwardInit => TapInv
<1> SUFFICES ASSUME ForwardInit PROVE TapInv
  OBVIOUS
<1>1. fpc = "call" /\ tapPlane = <<>>
  BY DEF ForwardInit
<1> QED BY <1>1 DEF TapInv, Running

\* The layer's tap adds the chunk's kept tokens to what the plane has.
LEMMA TapLayer ==
  ASSUME ForwardTypeOK, TapInv, NextLayer PROVE TapInv'
<1>1. /\ fpc = "tap" /\ UNCHANGED <<rig, pass, base>>
      /\ layer' = IF layer = Depth - 1 THEN 0 ELSE layer + 1
      /\ fpc' = IF layer = Depth - 1 THEN "head" ELSE "attention"
  BY DEF NextLayer, constVars
<1>2. Running /\ Standing /\ Running' /\ Kept' = Kept /\ KeptFrom' = KeptFrom /\ Live' = Live
  BY <1>1 DEF Running, Standing, Kept, KeptFrom, Live, ChunkSize
<1>3. /\ Kept \in Nat \ {0} /\ KeptFrom \in Nat /\ base \in Nat /\ Live \in Nat \ {0}
      /\ pass.from \in Nat /\ layer \in Int /\ Layer \subseteq Int /\ TapLayers \subseteq Layer
  BY <1>2, KeptFacts, LiveFacts, CallTypes, ForwardAssumption DEF ForwardTypeOK, Layer
<1>4. \A r \in 0..(Kept - 1), l \in TapLayers :
        Tapped(KeptFrom + r, l)' =>
          Tapped(KeptFrom + r, l) \/ (l = layer /\ base <= KeptFrom + r /\ KeptFrom + r < base + Live)
  <2> TAKE r \in 0..(Kept - 1), l \in TapLayers
  <2>1. l \in Int /\ l <= Depth - 1 /\ KeptFrom + r \in Nat
    BY <1>3, ForwardAssumption DEF Layer
  <2> HIDE DEF Kept, KeptFrom, Live
  <2> QED BY <1>1, <1>2, <1>3, <2>1 DEF Tapped, TapPast
<1>5. tapPlane = <<>> \/ tapPlane \in [0..(Kept - 1) -> [TapLayers -> Int]]
  BY DEF TapInv
<1>6. ASSUME pass.blk, NEW r \in 0..(Kept - 1), NEW l \in TapLayers, Tapped(KeptFrom + r, l)
      PROVE  r \in DOMAIN tapPlane /\ tapPlane[r][l] = pass.from + KeptFrom + r
  BY <1>2, <1>6 DEF TapInv
<1>7. CASE ~pass.blk \/ layer \notin TapLayers
  <2>1. tapPlane' = tapPlane
    BY <1>7 DEF NextLayer
  <2>2. ASSUME pass.blk, NEW r \in 0..(Kept - 1), NEW l \in TapLayers, Tapped(KeptFrom + r, l)'
        PROVE  r \in DOMAIN tapPlane /\ tapPlane[r][l] = pass.from + KeptFrom + r
    <3>1. Tapped(KeptFrom + r, l)
      BY <1>4, <1>7, <2>2
    <3> QED BY <1>6, <2>2, <3>1
  <2> HIDE DEF Tapped, Kept, KeptFrom
  <2> QED BY <1>1, <1>2, <1>5, <2>1, <2>2 DEF TapInv
<1>8. CASE pass.blk /\ layer \in TapLayers
  <2> DEFINE tokens == TapTokens(base, Live, pass.n, pass.keep)
  <2> DEFINE plane == TapTarget(tapPlane, tokens, pass.n, pass.keep, Bare)
  <2>1. tapPlane' = [r \in DOMAIN plane |->
                       IF r \in DOMAIN tokens THEN [plane[r] EXCEPT ![layer] = pass.from + tokens[r]]
                       ELSE plane[r]]
    BY <1>8 DEF NextLayer
  <2>2. /\ DOMAIN tokens = {r \in 0..(Kept - 1) : base <= KeptFrom + r /\ KeptFrom + r < base + Live}
        /\ \A r \in DOMAIN tokens : tokens[r] = KeptFrom + r
    BY <1>2, TapTokensAre
  <2>3. plane = IF DOMAIN tokens = {} THEN tapPlane
                ELSE IF Kept - 1 \in DOMAIN tapPlane THEN tapPlane
                ELSE [r \in 0..(Kept - 1) |-> Bare]
    BY DEF TapTarget, Grown, Kept
  <2> HIDE DEF tokens, plane, Kept, KeptFrom
  <2>4. Bare \in [TapLayers -> Int]
    BY DEF Bare
  <2>5. CASE DOMAIN tokens = {}
    <3>1. plane = tapPlane
      BY <2>3, <2>5
    <3>2. tapPlane' = [r \in DOMAIN tapPlane |-> tapPlane[r]]
      BY <2>1, <2>5, <3>1
    <3>3. tapPlane' = tapPlane
      BY <1>5, <3>2
    <3>4. ASSUME NEW r \in 0..(Kept - 1), NEW l \in TapLayers, Tapped(KeptFrom + r, l)'
          PROVE  r \in DOMAIN tapPlane /\ tapPlane[r][l] = pass.from + KeptFrom + r
      <4>1. Tapped(KeptFrom + r, l)
        BY <1>4, <2>2, <2>5, <3>4
      <4> QED BY <1>6, <1>8, <4>1
    <3> HIDE DEF Tapped
    <3> QED BY <1>1, <1>2, <1>5, <3>3, <3>4 DEF TapInv
  <2>6. CASE DOMAIN tokens # {}
    <3>1. plane \in [0..(Kept - 1) -> [TapLayers -> Int]]
      <4>1. DOMAIN <<>> = {}
        OBVIOUS
      <4> QED BY <1>3, <1>5, <2>3, <2>4, <2>6, <4>1
    <3>2. ASSUME NEW r \in 0..(Kept - 1), NEW l \in TapLayers, Tapped(KeptFrom + r, l)
          PROVE  plane[r][l] = pass.from + KeptFrom + r
      <4>1. r \in DOMAIN tapPlane /\ tapPlane[r][l] = pass.from + KeptFrom + r
        BY <1>6, <1>8, <3>2
      <4>2. Kept - 1 \in DOMAIN tapPlane
        <5>1. DOMAIN <<>> = {}
          OBVIOUS
        <5> QED BY <1>3, <1>5, <4>1, <5>1
      <4> QED BY <2>3, <2>6, <4>1, <4>2
    <3>3. tapPlane' = [r \in 0..(Kept - 1) |->
                         IF r \in DOMAIN tokens THEN [plane[r] EXCEPT ![layer] = pass.from + KeptFrom + r]
                         ELSE plane[r]]
      <4>1. DOMAIN plane = 0..(Kept - 1)
        BY <3>1
      <4>2. \A r \in DOMAIN tokens : pass.from + tokens[r] = pass.from + KeptFrom + r
        BY <1>3, <2>2
      <4> QED BY <2>1, <4>1, <4>2
    <3>4. tapPlane' \in [0..(Kept - 1) -> [TapLayers -> Int]]
      <4>1. \A r \in 0..(Kept - 1) : pass.from + KeptFrom + r \in Int
        BY <1>3
      <4>2. ASSUME NEW r \in 0..(Kept - 1)
            PROVE  (IF r \in DOMAIN tokens THEN [plane[r] EXCEPT ![layer] = pass.from + KeptFrom + r]
                    ELSE plane[r]) \in [TapLayers -> Int]
        BY <1>8, <3>1, <4>1
      <4> QED BY <3>3, <4>2
    <3>5. ASSUME NEW r \in 0..(Kept - 1), NEW l \in TapLayers, Tapped(KeptFrom + r, l)'
          PROVE  r \in DOMAIN tapPlane' /\ tapPlane'[r][l] = pass.from + KeptFrom + r
      <4>1. KeptFrom + r \in Nat /\ r \in DOMAIN tapPlane' /\ plane[r] \in [TapLayers -> Int]
        BY <1>3, <3>1, <3>3
      <4>2. CASE l = layer /\ base <= KeptFrom + r /\ KeptFrom + r < base + Live
        <5>1. r \in DOMAIN tokens
          BY <2>2, <4>2
        <5> QED BY <1>8, <3>3, <4>1, <4>2, <5>1
      <4>3. CASE ~(l = layer /\ base <= KeptFrom + r /\ KeptFrom + r < base + Live)
        <5>1. Tapped(KeptFrom + r, l)
          BY <1>4, <3>5, <4>1, <4>3
        <5>2. plane[r][l] = pass.from + KeptFrom + r
          BY <3>2, <5>1
        <5>3. CASE r \in DOMAIN tokens
          <6>1. l # layer
            BY <2>2, <4>3, <5>3
          <6>2. tapPlane'[r] = [plane[r] EXCEPT ![layer] = pass.from + KeptFrom + r]
            BY <3>3, <5>3
          <6> QED BY <4>1, <5>2, <6>1, <6>2
        <5>4. CASE r \notin DOMAIN tokens
          BY <3>3, <4>1, <5>2, <5>4
        <5> QED BY <5>3, <5>4
      <4> QED BY <4>2, <4>3
    <3>6. (\A r \in 0..(Kept - 1), l \in TapLayers :
             Tapped(KeptFrom + r, l) => r \in DOMAIN tapPlane /\ tapPlane[r][l] = pass.from + KeptFrom + r)'
      <4> HIDE DEF Tapped
      <4> QED BY <1>1, <1>2, <3>5
    <3>7. (tapPlane \in [0..(Kept - 1) -> [TapLayers -> Int]])'
      BY <1>2, <3>4
    <3> HIDE DEF Tapped
    <3> QED BY <1>2, <3>6, <3>7 DEF TapInv
  <2> QED BY <2>5, <2>6
<1> QED BY <1>7, <1>8, CallTypes

\* Every other step writes nothing there, and ends a chunk that has passed every tap.
LEMMA TapStep ==
  ASSUME ForwardTypeOK, CountInv, TapInv, [ForwardNext]_forwardVars PROVE TapInv'
<1>1. ASSUME UNCHANGED <<rig, pass, tapPlane>>, Standing' => Standing,
             Standing' => \A r \in 0..(Kept - 1), l \in TapLayers :
               (IF Running' THEN Tapped(KeptFrom + r, l)' ELSE fpc' = "returned") =>
                 (IF Running THEN Tapped(KeptFrom + r, l) ELSE fpc = "returned")
      PROVE  TapInv'
  <2>1. Kept' = Kept /\ KeptFrom' = KeptFrom
    BY <1>1 DEF Kept, KeptFrom
  <2>2. ASSUME Standing', pass.blk, NEW r \in 0..(Kept - 1), NEW l \in TapLayers,
               IF Running' THEN Tapped(KeptFrom + r, l)' ELSE fpc' = "returned"
        PROVE  r \in DOMAIN tapPlane /\ tapPlane[r][l] = pass.from + KeptFrom + r
    BY <1>1, <2>2 DEF TapInv
  <2> HIDE DEF Tapped, Kept, KeptFrom, Standing, Running
  <2>3. tapPlane = <<>> \/ tapPlane \in [0..(Kept - 1) -> [TapLayers -> Int]]
    BY DEF TapInv
  <2> QED BY <1>1, <2>1, <2>2, <2>3 DEF TapInv
<1>2. CASE Start
  <2>1. fpc = "call" /\ fpc' \in {"refused", "attention"} /\ base = 0 /\ layer = 0
        /\ UNCHANGED <<rig, pass, tapPlane, base, layer>>
    BY <1>2 DEF Start, constVars, outVars, ForwardTypeOK
  <2>2. \A r \in 0..(Kept - 1), l \in TapLayers : ~Tapped(KeptFrom + r, l)'
    <3>1. (\A l \in TapLayers : ~(l < 0)) /\ KeptFrom \in Nat
      BY ForwardAssumption, KeptFacts DEF Layer
    <3>2. KeptFrom' = KeptFrom
      BY <2>1 DEF KeptFrom, Kept
    <3>3. \A r \in 0..(Kept - 1) : ~(KeptFrom + r < 0)
      BY <3>1
    <3>4. ASSUME fpc' = "attention", NEW r \in 0..(Kept - 1), NEW l \in TapLayers
          PROVE  ~Tapped(KeptFrom + r, l)'
      BY <2>1, <3>1, <3>2, <3>3, <3>4 DEF Tapped, TapPast
    <3>5. ASSUME fpc' = "refused", NEW r \in 0..(Kept - 1), NEW l \in TapLayers
          PROVE  ~Tapped(KeptFrom + r, l)'
      BY <2>1, <3>1, <3>2, <3>3, <3>5 DEF Tapped, TapPast
    <3> QED BY <2>1, <3>4, <3>5
  <2>3. Standing /\ fpc' # "returned"
    BY <2>1 DEF Standing
  <2> QED BY <1>1, <2>1, <2>2, <2>3
<1>3. CASE Attention \/ Route \/ Dispatch \/ HostExperts \/ Reduce
  <2>1. /\ fpc \in {"attention", "route", "dispatch", "host", "post"}
        /\ fpc' \in {"route", "dispatch", "host", "post", "tap", "aborted"}
        /\ UNCHANGED <<rig, pass, tapPlane, base, layer>>
    <3>1. CASE Attention
      BY <3>1 DEF Attention, constVars, outVars
    <3>2. CASE Route
      BY <3>2 DEF Route, constVars, outVars
    <3>3. CASE Dispatch
      BY <3>3 DEF Dispatch, constVars, outVars
    <3>4. CASE HostExperts
      BY <3>4 DEF HostExperts, constVars, outVars
    <3>5. CASE Reduce
      BY <3>5 DEF Reduce, constVars, outVars
    <3> QED BY <1>3, <3>1, <3>2, <3>3, <3>4, <3>5
  <2>2. Standing /\ Running /\ fpc' # "returned" /\ KeptFrom' = KeptFrom /\ Live' = Live
    BY <2>1 DEF Standing, Running, Kept, KeptFrom, Live, ChunkSize
  <2>3. ASSUME NEW r \in 0..(Kept - 1), NEW l \in TapLayers, Tapped(KeptFrom + r, l)'
        PROVE  Tapped(KeptFrom + r, l)
    <3> HIDE DEF Kept, KeptFrom, Live
    <3> QED BY <2>1, <2>2, <2>3 DEF Tapped, TapPast
  <2>4. ~Running' => ~Standing'
    BY <2>1 DEF Standing
  <2> QED BY <1>1, <2>1, <2>2, <2>3, <2>4
<1>4. CASE NextLayer
  BY <1>4, TapLayer
<1>5. CASE Winners
  <2>1. /\ fpc = "head" /\ fpc' \in {"attention", "aborted", "returned"}
        /\ fpc' = "attention" => base + Live < pass.n
        /\ fpc' = "returned" => ~(base + Live < pass.n)
        /\ base' = IF fpc' = "attention" THEN base + ChunkSize ELSE base
        /\ UNCHANGED <<rig, pass, layer, tapPlane>>
    BY <1>5 DEF Winners, constVars, outVars
  <2>2. Standing /\ Running /\ layer = 0 /\ base \in Nat
    BY <2>1 DEF Standing, Running, CountInv, ForwardTypeOK
  <2>3. /\ Live \in Nat \ {0} /\ base + Live <= pass.n /\ pass.n \in Nat
        /\ base + Live < pass.n => Live = ChunkSize
        /\ Kept \in Nat \ {0} /\ KeptFrom \in Nat /\ KeptFrom + Kept = pass.n
    BY <2>2, LiveFacts, KeptFacts, CallTypes DEF KeptFrom
  <2>4. KeptFrom' = KeptFrom /\ \A l \in TapLayers : ~(l < 0)
    BY <2>1, ForwardAssumption DEF Kept, KeptFrom, Layer
  <2>5. ASSUME fpc' = "attention", NEW r \in 0..(Kept - 1), NEW l \in TapLayers, Tapped(KeptFrom + r, l)'
        PROVE  Tapped(KeptFrom + r, l)
    <3>1. KeptFrom + r < base + Live
      BY <2>1, <2>2, <2>3, <2>4, <2>5 DEF Tapped, TapPast
    <3> QED BY <2>1, <3>1 DEF Tapped, TapPast
  <2>6. ASSUME fpc' = "returned", NEW r \in 0..(Kept - 1), NEW l \in TapLayers
        PROVE  Tapped(KeptFrom + r, l)
    <3>1. ~(base + Live < pass.n)
      BY <2>1, <2>6
    <3>2. KeptFrom + r < base + Live
      <4> HIDE DEF Kept, KeptFrom, Live
      <4> QED BY <2>2, <2>3, <3>1
    <3> QED BY <2>1, <3>2 DEF Tapped, TapPast
  <2>7. CASE fpc' = "attention"
    <3>1. Running'
      BY <2>7 DEF Running
    <3> QED BY <1>1, <2>1, <2>2, <2>5, <2>7, <3>1
  <2>8. CASE fpc' = "returned"
    <3>1. ~Running'
      BY <2>8 DEF Running
    <3> QED BY <1>1, <2>1, <2>2, <2>6, <2>8, <3>1
  <2>9. CASE fpc' = "aborted"
    <3>1. ~Standing'
      BY <2>9 DEF Running, Standing
    <3> QED BY <1>1, <2>1, <3>1
  <2> QED BY <2>1, <2>7, <2>8, <2>9
<1>6. CASE GiveUp
  <2>1. fpc' = "gaveup" /\ UNCHANGED <<rig, pass, tapPlane>>
    BY <1>6 DEF GiveUp, constVars, outVars
  <2>2. ~Standing'
    BY <2>1 DEF Standing, Running
  <2> QED BY <1>1, <2>1, <2>2
<1>7. CASE UNCHANGED forwardVars
  <2>1. UNCHANGED <<rig, pass, fpc, base, layer, tapPlane>>
    BY <1>7 DEF forwardVars, constVars, outVars
  <2>2. /\ Standing' = Standing /\ Running' = Running
        /\ \A r \in 0..(Kept - 1), l \in TapLayers : Tapped(KeptFrom + r, l)' = Tapped(KeptFrom + r, l)
    BY <2>1 DEF Standing, Running, Tapped, TapPast, Kept, KeptFrom, Live, ChunkSize
  <2> QED BY <1>1, <2>1, <2>2
<1> QED BY <1>2, <1>3, <1>4, <1>5, <1>6, <1>7 DEF ForwardNext

-----------------------------------------------------------------------------
\* Before the call there is no answer.
LEMMA HeardInit == ForwardInit => HeardInv
<1> SUFFICES ASSUME ForwardInit PROVE HeardInv
  OBVIOUS
<1>1. fpc = "call" /\ base = 0 /\ heard = {} /\ pass.from \in Nat
  BY ForwardTypeInit, CallTypes DEF ForwardInit
<1>2. pass.from..(pass.from + base - 1) = {}
  BY <1>1
<1> QED BY <1>1, <1>2 DEF HeardInv

\* Only the chunk's end answers anybody.
LEMMA HeardStep ==
  ASSUME ForwardTypeOK, CountInv, HeardInv, [ForwardNext]_forwardVars PROVE HeardInv'
<1>1. CASE Winners
  <2>1. /\ fpc = "head" /\ fpc' \in {"attention", "aborted", "returned"}
        /\ fpc' = "attention" => base + Live < pass.n
        /\ fpc' = "returned" => ~(base + Live < pass.n)
        /\ base' = IF fpc' = "attention" THEN base + ChunkSize ELSE base
        /\ UNCHANGED <<rig, pass>>
    BY <1>1 DEF Winners, constVars
  <2>2. Running /\ base \in Nat /\ seqPos = pass.from + base + Live /\ pass.from \in Nat
    BY <2>1, CallTypes DEF Running, CountInv, ForwardTypeOK
  <2>3. /\ Live \in Nat \ {0} /\ base + Live <= pass.n /\ pass.n \in Nat
        /\ base + Live < pass.n => Live = ChunkSize
    BY <2>2, LiveFacts, CallTypes
  <2>4. heard = IF pass.blk /\ pass.perPosition THEN pass.from..(pass.from + base - 1) ELSE {}
    BY <2>2 DEF HeardInv
  <2>5. CASE pass.blk /\ pass.perPosition
    <3>1. ASSUME fpc' # "aborted" PROVE heard' = pass.from..(pass.from + base + Live - 1)
      <4>1. rig.epilogue /\ heard' = heard \cup {seqPos - Live + b : b \in Tok}
        BY <1>1, <2>5, <3>1, CallTypes DEF Winners
      <4>2. {seqPos - Live + b : b \in Tok} = (pass.from + base)..(pass.from + base + Live - 1)
        <5>1. Tok = 0..(Live - 1)
          BY DEF Tok
        <5> HIDE DEF Live
        <5>2. \A b \in Tok : seqPos - Live + b \in (pass.from + base)..(pass.from + base + Live - 1)
          BY <2>2, <2>3, <5>1
        <5>3. \A p \in (pass.from + base)..(pass.from + base + Live - 1) :
                p - (pass.from + base) \in Tok /\ p = seqPos - Live + (p - (pass.from + base))
          BY <2>2, <2>3, <5>1
        <5> QED BY <5>2, <5>3
      <4> HIDE DEF Live
      <4>3. (pass.from..(pass.from + base - 1)) \cup ((pass.from + base)..(pass.from + base + Live - 1))
              = pass.from..(pass.from + base + Live - 1)
        BY <2>2, <2>3
      <4> QED BY <2>4, <2>5, <4>1, <4>2, <4>3
    <3>2. CASE fpc' = "attention"
      <4>1. heard' = pass.from..(pass.from + base + Live - 1) /\ base' = base + Live
        BY <2>1, <2>3, <3>1, <3>2
      <4> HIDE DEF Live
      <4>2. pass.from + base + Live - 1 = pass.from + base' - 1
        BY <2>2, <2>3, <4>1
      <4> QED BY <2>1, <2>5, <3>2, <4>1, <4>2 DEF HeardInv, Running
    <3>3. CASE fpc' = "returned"
      <4>1. base + Live = pass.n
        BY <2>1, <2>2, <2>3, <3>3
      <4>2. pass.from + base + Live - 1 = pass.from + pass.n - 1
        BY <2>2, <2>3, <4>1
      <4> QED BY <2>1, <2>5, <3>1, <3>3, <4>2 DEF HeardInv, Answered, Running
    <3>4. CASE fpc' = "aborted"
      BY <3>4 DEF HeardInv, Running
    <3> QED BY <2>1, <3>2, <3>3, <3>4
  <2>6. CASE ~(pass.blk /\ pass.perPosition)
    <3>1. heard' = IF pass.logits /\ base + Live >= pass.n THEN {seqPos - 1} ELSE {}
      BY <1>1, <2>4, <2>6 DEF Winners
    <3>2. CASE fpc' = "attention"
      <4>1. ~(base + Live >= pass.n)
        BY <2>1, <2>2, <2>3, <3>2
      <4> QED BY <2>1, <2>6, <3>1, <3>2, <4>1 DEF HeardInv, Running
    <3>3. CASE fpc' = "returned"
      <4>1. base + Live = pass.n /\ base + Live >= pass.n /\ seqPos - 1 = pass.from + pass.n - 1
        BY <2>1, <2>2, <2>3, <3>3
      <4> QED BY <2>1, <2>6, <3>1, <3>3, <4>1 DEF HeardInv, Answered, Running
    <3>4. CASE fpc' = "aborted"
      BY <3>4 DEF HeardInv, Running
    <3> QED BY <2>1, <3>2, <3>3, <3>4
  <2> QED BY <2>5, <2>6
<1>2. CASE GiveUp
  BY <1>2 DEF GiveUp, HeardInv, Running
<1>3. CASE UNCHANGED forwardVars
  BY <1>3 DEF forwardVars, constVars, outVars, HeardInv, Running, Answered
<1>4. CASE Start
  BY <1>4 DEF Start, constVars, outVars, HeardInv, Running, Answered
<1>5. CASE Attention
  BY <1>5 DEF Attention, constVars, outVars, HeardInv, Running, Answered
<1>6. CASE Route
  BY <1>6 DEF Route, constVars, outVars, HeardInv, Running, Answered
<1>7. CASE Dispatch
  BY <1>7 DEF Dispatch, constVars, outVars, HeardInv, Running, Answered
<1>8. CASE HostExperts
  BY <1>8 DEF HostExperts, constVars, outVars, HeardInv, Running, Answered
<1>9. CASE Reduce
  BY <1>9 DEF Reduce, constVars, outVars, HeardInv, Running, Answered
<1>10. CASE NextLayer
  BY <1>10 DEF NextLayer, constVars, HeardInv, Running, Answered
<1> QED BY <1>1, <1>2, <1>3, <1>4, <1>5, <1>6, <1>7, <1>8, <1>9, <1>10 DEF ForwardNext

-----------------------------------------------------------------------------
\* One call of the forward pass keeps its invariant: who has been accounted for in
\* the block, how far each layer has been carried, and what the plane and the answers
\* hold of the tokens gone by.
THEOREM ForwardInvariance == ForwardSpec => []ForwardInv
<1>1. ForwardInit => ForwardInv
  BY ForwardTypeInit, PairInit, CountInit, TapStart, HeardInit DEF ForwardInv
<1>2. ForwardInv /\ [ForwardNext]_forwardVars => ForwardInv'
  BY ForwardTypeStep, PairStep, CountStep, TapStep, HeardStep DEF ForwardInv
<1> QED BY <1>1, <1>2, PTL DEF ForwardSpec

\* model.h, set_expert_ffn_batch: whatever mix of card-built and host-built dispatch a
\* layer meets, after the exchange every card has both halves of every routed pair
\* once, from this layer's norm, selection and weights.
THEOREM EveryPairOnce == ForwardSpec => []EachPairOnce
<1>1. ForwardInv => EachPairOnce
  BY DEF ForwardInv, PairInv, EachPairOnce, Both, Halves
<1> QED BY <1>1, ForwardInvariance, PTL

\* model.h, forward_prefill: however the arena cuts the call, the state it leaves is
\* that of one forward_token a token, each token saw its own past of the compressed
\* rows, and the tap and the answers are the call's.
THEOREM ChunkingIsInvisible == ForwardSpec => []ChunksDoNotShow
<1>1. ForwardInv => ChunksDoNotShow
  <2> SUFFICES ASSUME ForwardInv PROVE ChunksDoNotShow
    OBVIOUS
  <2>1. ForwardTypeOK /\ CountInv /\ TapInv /\ HeardInv
    BY DEF ForwardInv
  <2>2. SeesItsPast
    <3> SUFFICES ASSUME fpc = "route", NEW b \in Tok
                 PROVE  vis[b] = ByToken(layer, seqPos + b + 1).nComp
      BY DEF SeesItsPast
    <3>1. Running /\ seqPos \in Nat
      BY <2>1 DEF Running, CountInv
    <3>2. seqPos + b + 1 \in Nat
      BY <2>1, <3>1, LiveFacts DEF Tok
    <3>3. vis[b] = CountAt(layer, seqPos + b + 1).nComp
      BY <2>1 DEF CountInv
    <3> QED BY <3>2, <3>3, ByTokenIs
  <2>3. ASSUME fpc = "returned"
        PROVE  /\ seqPos = pass.from + pass.n
               /\ \A l \in Layer : count[l] = ByToken(l, seqPos) /\ emitted[l] = RowsByToken(l, seqPos)
    <3>1. \A l \in Layer : Reached(l) = seqPos
      BY <2>3 DEF Reached, WalkPast
    <3>2. Standing /\ seqPos \in Nat /\ seqPos = pass.from + pass.n
      BY <2>1, <2>3 DEF Standing, CountInv
    <3>3. \A l \in Layer : count[l] = CountAt(l, seqPos) /\ emitted[l] = RowsAt(l, seqPos)
      BY <2>1, <3>1, <3>2 DEF CountInv
    <3> QED BY <3>2, <3>3, ByTokenIs
  <2>4. fpc = "returned" => TapsAreTheLast
    BY <2>1 DEF TapInv, TapsAreTheLast, Standing, Running, Kept, KeptFrom
  <2>5. fpc = "returned" => Answered
    BY <2>1 DEF HeardInv
  <2> QED BY <2>2, <2>3, <2>4, <2>5 DEF ChunksDoNotShow
<1> QED BY <1>1, ForwardInvariance, PTL

-----------------------------------------------------------------------------
(* The draft's rings, turn after turn.                                     *)

\* What a chunk of `live` tokens at `at` taps, of a call of n.
LEMMA TapTokensOf ==
  ASSUME NEW n \in Nat, NEW keep \in Nat, NEW at \in Nat, NEW live \in Int, at + live <= n, live >= 1
  PROVE  /\ DOMAIN TapTokens(at, live, n, keep)
              = {r \in 0..(TapRows(n, keep) - 1) : /\ at <= (n - TapRows(n, keep)) + r
                                                   /\ (n - TapRows(n, keep)) + r < at + live}
         /\ \A r \in DOMAIN TapTokens(at, live, n, keep) :
              TapTokens(at, live, n, keep)[r] = (n - TapRows(n, keep)) + r
<1> DEFINE K == TapRows(n, keep)
<1> DEFINE first == n - K
<1> DEFINE tokens == TapTokens(at, live, n, keep)
<1>1. K \in Nat /\ first \in Nat /\ first + K = n
  BY DEF TapRows
<1> DEFINE lo == TapLo(at, first)
<1> DEFINE row0 == TapRow0(at, first)
<1>2. tokens = [r \in row0..(row0 + live - lo - 1) |-> at + lo + r - row0]
  BY DEF TapTokens
<1>3. at + lo - row0 = first /\ lo \in Int /\ row0 \in Int
      /\ (at >= first => lo = 0 /\ row0 = at - first)
      /\ (at < first => lo = first - at /\ row0 = 0)
  BY <1>1 DEF TapLo, TapRow0
<1> HIDE DEF lo, row0, tokens, K, first
<1>4. ASSUME NEW r \in row0..(row0 + live - lo - 1) PROVE tokens[r] = first + r
  <2>1. tokens[r] = at + lo + r - row0
    BY <1>2
  <2> QED BY <1>1, <1>3, <2>1
<1>5. row0..(row0 + live - lo - 1) = {r \in 0..(K - 1) : at <= first + r /\ first + r < at + live}
  BY <1>1, <1>3
<1>6. /\ DOMAIN tokens = {r \in 0..(K - 1) : at <= first + r /\ first + r < at + live}
      /\ \A r \in DOMAIN tokens : tokens[r] = first + r
  BY <1>2, <1>4, <1>5
<1> QED BY <1>6 DEF tokens, K, first

\* A call of one chunk that is all kept, the block's: every token, in its place.
LEMMA TapTokensAll ==
  \A m \in Nat \ {0} :
    /\ DOMAIN TapTokens(0, m, m, 0) = 0..(m - 1)
    /\ \A r \in 0..(m - 1) : TapTokens(0, m, m, 0)[r] = r
<1> TAKE m \in Nat \ {0}
<1> DEFINE tokens == TapTokens(0, m, m, 0)
<1>1. TapRows(m, 0) = m
  BY DEF TapRows
<1>2. TapLo(0, 0) = 0 /\ TapRow0(0, 0) = 0
  BY DEF TapLo, TapRow0
<1>3. tokens = [r \in 0..(m - 1) |-> r]
  BY <1>1, <1>2 DEF TapTokens
<1> QED BY <1>3

\* The sizes.
LEMMA DraftTypes ==
  /\ Sliding \in Nat \ {0} /\ AttnBatch \in Nat \ {0} /\ RawSlots \in Nat \ {0}
  /\ Proposals \in Nat \ {0} /\ Proposals < AttnBatch /\ SpecTok \in Nat \ {0}
  /\ Arena \in Nat \ {0} /\ StoreBlock \in Nat \ {0}
  /\ RawSlots = Sliding + AttnBatch - 1
BY WindowAssumption, DraftAssumption DEF RawSlots

\* A run of kSpecTok rows at a time, every row in turn.
LEMMA SeedRowIs == \A j \in Nat : SeedRow(j) = j
<1> TAKE j \in Nat
<1>1. SpecTok \in Nat \ {0}
  BY DraftTypes
<1>2. j \div SpecTok \in Nat /\ j = SpecTok * (j \div SpecTok) + (j % SpecTok) /\ j % SpecTok \in 0..(SpecTok - 1)
  BY <1>1, ModRange
<1>3. SpecTok * (j \div SpecTok) = (j \div SpecTok) * SpecTok
  BY <1>1, <1>2
<1> QED BY <1>2, <1>3 DEF SeedRow

\* A plane has its first m rows.
Wide(plane) == \E m \in Nat : plane = [r \in 0..(m - 1) |-> plane[r]]

\* A chunk that lies behind the call taps nothing.
LEMMA TapTokensPast ==
  ASSUME NEW n \in Nat, NEW keep \in Nat, NEW at \in Nat, NEW live \in Int, at >= n, live <= 0
  PROVE  DOMAIN TapTokens(at, live, n, keep) = {}
<1> DEFINE first == n - TapRows(n, keep)
<1> DEFINE lo == TapLo(at, first)
<1> DEFINE row0 == TapRow0(at, first)
<1>1. first \in Nat /\ first <= at
  BY DEF TapRows
<1>2. DOMAIN TapTokens(at, live, n, keep) = row0..(row0 + live - lo - 1)
  BY DEF TapTokens
<1>3. lo = 0 /\ row0 \in Int
  BY <1>1 DEF TapLo, TapRow0
<1> HIDE DEF lo, row0, first
<1>4. row0..(row0 + live - lo - 1) = {}
  BY <1>3
<1> QED BY <1>2, <1>4

\* The plane when c of the call's tokens have gone by.
PlaneAt(plane, n, c) ==
  LET K == TapRows(n, Sliding)
      grown == Grown(plane, K, Other)
  IN IF c <= n - K THEN plane
     ELSE [r \in DOMAIN grown |-> IF r \in 0..(c - (n - K) - 1) THEN dpos + (n - K) + r ELSE grown[r]]

\* One chunk more.
LEMMA PlaneNext ==
  ASSUME NEW plane, Wide(plane), NEW n \in Nat \ {0}, dpos \in Nat,
         NEW at \in Nat, NEW live \in Int, live = Lesser(Arena, n - at),
         NEW tokens, tokens = TapTokens(at, live, n, Sliding),
         NEW before, before = PlaneAt(plane, n, Lesser(at, n)),
         NEW wide, wide = TapTarget(before, tokens, n, Sliding, Other)
  PROVE  [r \in DOMAIN wide |-> IF r \in DOMAIN tokens THEN dpos + tokens[r] ELSE wide[r]]
           = PlaneAt(plane, n, Lesser(at + Arena, n))
<1> DEFINE K == TapRows(n, Sliding)
<1> DEFINE first == n - K
<1> DEFINE grown == Grown(plane, K, Other)
<1> DEFINE Full(c) == [r \in DOMAIN grown |-> IF r \in 0..(c - first - 1) THEN dpos + first + r ELSE grown[r]]
<1> DEFINE result == [r \in DOMAIN wide |-> IF r \in DOMAIN tokens THEN dpos + tokens[r] ELSE wide[r]]
<1>1. Arena \in Nat \ {0} /\ Sliding \in Nat \ {0}
  BY DraftTypes
<1>2. K \in Nat \ {0} /\ K <= n /\ first \in Nat /\ first + K = n
  BY <1>1 DEF TapRows
<1>3. /\ K - 1 \in DOMAIN grown /\ 0..(K - 1) \subseteq DOMAIN grown
      /\ grown = [r \in DOMAIN grown |-> grown[r]] /\ plane = [r \in DOMAIN plane |-> plane[r]]
  <2>1. PICK m \in Nat : plane = [r \in 0..(m - 1) |-> plane[r]]
    BY DEF Wide
  <2>2. CASE K - 1 \in DOMAIN plane
    <3>1. grown = plane
      BY <2>2 DEF Grown
    <3> HIDE DEF K, first, grown
    <3>2. DOMAIN plane = 0..(m - 1)
      BY <2>1
    <3>3. 0..(K - 1) \subseteq 0..(m - 1)
      BY <1>2, <2>2, <3>2
    <3>4. plane = [r \in DOMAIN plane |-> plane[r]]
      BY <2>1, <3>2
    <3> QED BY <2>2, <3>1, <3>2, <3>3, <3>4
  <2>3. CASE K - 1 \notin DOMAIN plane
    <3>1. grown = [r \in 0..(K - 1) |-> Other]
      BY <2>3 DEF Grown
    <3> HIDE DEF K, first, grown
    <3>2. DOMAIN grown = 0..(K - 1) /\ K - 1 \in 0..(K - 1)
      BY <1>2, <3>1
    <3>3. plane = [r \in DOMAIN plane |-> plane[r]]
      BY <2>1
    <3> QED BY <3>1, <3>2, <3>3
  <2> QED BY <2>2, <2>3
<1>4. \A c \in Int : PlaneAt(plane, n, c) = IF c <= first THEN plane ELSE Full(c)
  BY DEF PlaneAt
<1>5. wide = IF DOMAIN tokens = {} THEN before
             ELSE IF K - 1 \in DOMAIN before THEN before ELSE [r \in 0..(K - 1) |-> Other]
  BY DEF TapTarget, Grown
<1>6. before = [r \in DOMAIN before |-> before[r]]
  <2>1. CASE Lesser(at, n) <= first
    BY <1>1, <1>3, <1>4, <2>1 DEF Lesser
  <2>2. CASE ~(Lesser(at, n) <= first)
    BY <1>1, <1>4, <2>2 DEF Lesser
  <2> QED BY <2>1, <2>2
<1> HIDE DEF K, first, grown
<1>7. CASE at >= n
  <2>1. live <= 0 /\ Lesser(at, n) = n /\ Lesser(at + Arena, n) = n
    BY <1>1, <1>7 DEF Lesser
  <2>2. DOMAIN tokens = {}
    BY <1>1, <1>7, <2>1, TapTokensPast
  <2> QED BY <1>5, <1>6, <2>1, <2>2
<1>8. CASE at < n
  <2> DEFINE c == at + live
  <2>1. live >= 1 /\ c <= n /\ Lesser(at, n) = at /\ Lesser(at + Arena, n) = c /\ c \in Nat
    BY <1>1, <1>8 DEF Lesser
  <2>2. /\ DOMAIN tokens = {r \in 0..(K - 1) : at <= first + r /\ first + r < at + live}
        /\ \A r \in DOMAIN tokens : tokens[r] = first + r
    <3>1. n \in Nat /\ Sliding \in Nat
      BY <1>1
    <3>2. at + live <= n /\ live >= 1
      BY <2>1
    <3> HIDE DEF c
    <3>3. /\ DOMAIN TapTokens(at, live, n, Sliding)
              = {r \in 0..(TapRows(n, Sliding) - 1) : /\ at <= (n - TapRows(n, Sliding)) + r
                                                      /\ (n - TapRows(n, Sliding)) + r < at + live}
          /\ \A r \in DOMAIN TapTokens(at, live, n, Sliding) :
               TapTokens(at, live, n, Sliding)[r] = (n - TapRows(n, Sliding)) + r
      BY ONLY <3>1, <3>2, TapTokensOf, at \in Nat, live \in Int
    <3> QED BY <3>3 DEF K, first
  <2>3. \A r \in DOMAIN tokens : dpos + tokens[r] = dpos + first + r
    BY <1>2, <2>2
  <2>4. CASE c <= first
    <3>1. DOMAIN tokens = {}
      <4> SUFFICES ASSUME NEW r \in 0..(K - 1), at <= first + r, first + r < at + live PROVE FALSE
        BY <2>2
      <4> QED BY <1>2, <2>1, <2>4
    <3>2. at <= first
      BY <1>2, <2>1, <2>4
    <3>3. before = plane /\ PlaneAt(plane, n, c) = plane
      BY <1>2, <1>4, <2>1, <2>4, <3>2
    <3> QED BY <1>3, <1>5, <2>1, <3>1, <3>3
  <2>5. CASE ~(c <= first)
    <3>1. PlaneAt(plane, n, c) = Full(c)
      BY <1>4, <2>1, <2>5
    <3>2. DOMAIN tokens # {}
      <4> DEFINE r0 == IF at <= first THEN 0 ELSE at - first
      <4>1. r0 \in 0..(K - 1) /\ at <= first + r0 /\ first + r0 < at + live
        BY <1>2, <1>8, <2>1, <2>5
      <4> QED BY <2>2, <4>1
    <3>3. CASE at <= first
      <4>1. before = plane
        BY <1>4, <2>1, <3>3
      <4>2. wide = grown
        BY <1>5, <3>2, <4>1 DEF grown, Grown, K
      <4>3. \A r \in DOMAIN grown : r \in DOMAIN tokens <=> r \in 0..(c - first - 1)
        BY <1>2, <2>1, <2>2, <2>5, <3>3
      <4> HIDE DEF c
      <4> QED BY <2>1, <2>3, <3>1, <4>2, <4>3
    <3>4. CASE ~(at <= first)
      <4>1. before = Full(at)
        BY <1>4, <2>1, <3>4
      <4>2. wide = Full(at)
        BY <1>3, <1>5, <3>2, <4>1
      <4>3. \A r \in 0..(K - 1) : r \in DOMAIN tokens <=> r \in (at - first)..(c - first - 1)
        BY <1>2, <2>1, <2>2, <3>4
      <4>4. /\ (at - first)..(c - first - 1) \subseteq 0..(K - 1)
            /\ 0..(c - first - 1) = (0..(at - first - 1)) \cup ((at - first)..(c - first - 1))
        BY <1>2, <2>1, <3>4
      <4>5. DOMAIN tokens = (at - first)..(c - first - 1)
        BY <2>2, <4>3, <4>4
      <4> HIDE DEF c
      <4>6. \A r \in DOMAIN grown :
              (IF r \in DOMAIN tokens THEN dpos + tokens[r] ELSE Full(at)[r])
                = IF r \in 0..(c - first - 1) THEN dpos + first + r ELSE grown[r]
        BY <2>3, <4>4, <4>5
      <4>7. DOMAIN Full(at) = DOMAIN grown
        OBVIOUS
      <4> QED BY <2>1, <3>1, <4>2, <4>6, <4>7
    <3> QED BY <3>3, <3>4
  <2> QED BY <2>4, <2>5
<1> QED BY <1>7, <1>8

\* However the arena cuts the prefill, the plane ends with the call's last tokens.
LEMMA AfterPrefillIs ==
  ASSUME NEW plane, Wide(plane), NEW n \in Nat \ {0}, dpos \in Nat
  PROVE  AfterPrefill(plane, n) = PlaneAt(plane, n, n)
<1> DEFINE Chunk1(f, nth) ==
      LET at == (nth - 1) * Arena
          tokens == TapTokens(at, Lesser(Arena, n - at), n, Sliding)
          wide == TapTarget(f, tokens, n, Sliding, Other)
      IN [r \in DOMAIN wide |-> IF r \in DOMAIN tokens THEN dpos + tokens[r] ELSE wide[r]]
<1> DEFINE F == CHOOSE f : f = [nth \in Nat |-> IF nth = 0 THEN plane ELSE Chunk1(f[nth - 1], nth)]
<1> DEFINE g(nth) == PlaneAt(plane, n, Lesser(nth * Arena, n))
<1> DEFINE G == [nth \in Nat |-> g(nth)]
<1>1. AfterPrefill(plane, n) = F[(n + Arena - 1) \div Arena]
  BY DEF AfterPrefill
<1>2. Arena \in Nat \ {0} /\ Sliding \in Nat \ {0}
  BY DraftTypes
<1>3. g(0) = plane
  <2>1. Lesser(0 * Arena, n) = 0
    BY <1>2 DEF Lesser
  <2>2. 0 <= n - TapRows(n, Sliding)
    BY <1>2 DEF TapRows
  <2> QED BY <2>1, <2>2 DEF PlaneAt
<1>4. \A nth \in Nat : nth # 0 => g(nth) = Chunk1(g(nth - 1), nth)
  <2> SUFFICES ASSUME NEW nth \in Nat, nth # 0 PROVE g(nth) = Chunk1(g(nth - 1), nth)
    OBVIOUS
  <2> DEFINE at == (nth - 1) * Arena
  <2>1. at \in Nat /\ nth * Arena = at + Arena
    <3>1. nth - 1 \in Nat
      OBVIOUS
    <3>2. (nth - 1) * Arena \in Nat
      BY <1>2, <3>1
    <3>3. PICK b \in Nat : nth = b + 1
      BY <3>1
    <3>4. (b + 1) * Arena = b * Arena + Arena /\ nth - 1 = b
      BY <1>2, <3>3
    <3> QED BY <3>2, <3>3, <3>4
  <2>2. Lesser(Arena, n - at) \in Int
    BY <1>2, <2>1 DEF Lesser
  <2>3. g(nth - 1) = PlaneAt(plane, n, Lesser(at, n)) /\ g(nth) = PlaneAt(plane, n, Lesser(at + Arena, n))
    BY <2>1
  <2> HIDE DEF at, g
  <2>4. Chunk1(g(nth - 1), nth) = PlaneAt(plane, n, Lesser(at + Arena, n))
    <3>1. \A live \in Int : \A tokens, before, wide :
            /\ live = Lesser(Arena, n - at) /\ tokens = TapTokens(at, live, n, Sliding)
            /\ before = PlaneAt(plane, n, Lesser(at, n))
            /\ wide = TapTarget(before, tokens, n, Sliding, Other)
            => [r \in DOMAIN wide |-> IF r \in DOMAIN tokens THEN dpos + tokens[r] ELSE wide[r]]
                 = PlaneAt(plane, n, Lesser(at + Arena, n))
      BY <2>1, PlaneNext
    <3> QED BY <2>2, <2>3, <3>1 DEF at
  <2> QED BY <2>3, <2>4
<1> HIDE DEF g, Chunk1
<1>5. F = [nth \in Nat |-> IF nth = 0 THEN plane ELSE Chunk1(F[nth - 1], nth)]
  <2>1. G = [nth \in Nat |-> IF nth = 0 THEN plane ELSE Chunk1(G[nth - 1], nth)]
    BY <1>3, <1>4
  <2> QED BY <2>1
<1> HIDE DEF F
<1> DEFINE Bad == {b \in Nat : F[b] # g(b)}
<1>6. Bad = {}
  <2> SUFFICES ASSUME Bad # {} PROVE FALSE
    OBVIOUS
  <2>1. PICK x \in Bad : \A y \in Bad : x <= y
    <3>1. Bad \subseteq Nat
      OBVIOUS
    <3> HIDE DEF Bad
    <3> QED BY <3>1, NatMin
  <2>2. x \in Nat /\ F[x] # g(x) /\ x # 0
    BY <1>3, <1>5, <2>1
  <2>3. x - 1 \in Nat /\ ~(x <= x - 1)
    BY <2>2
  <2>4. F[x - 1] = g(x - 1)
    BY <2>1, <2>3
  <2> QED BY <1>4, <1>5, <2>2, <2>4
<1>7. /\ (n + Arena - 1) \div Arena \in Nat
      /\ ((n + Arena - 1) \div Arena) * Arena \in Nat /\ ((n + Arena - 1) \div Arena) * Arena >= n
  <2> DEFINE m == n + Arena - 1
  <2> DEFINE d == m \div Arena
  <2>1. m \in Nat
    BY <1>2
  <2>2. d \in Nat /\ m = Arena * d + (m % Arena) /\ m % Arena \in 0..(Arena - 1)
    BY <1>2, <2>1, ModRange
  <2>3. m = n + Arena - 1
    OBVIOUS
  <2> HIDE DEF m, d
  <2>4. d * Arena = Arena * d /\ d * Arena \in Nat
    BY <1>2, <2>2
  <2>5. d * Arena >= n
    BY <1>2, <2>2, <2>3, <2>4
  <2> QED BY <2>2, <2>4, <2>5 DEF d, m
<1>8. g((n + Arena - 1) \div Arena) = PlaneAt(plane, n, n)
  <2>1. Lesser(((n + Arena - 1) \div Arena) * Arena, n) = n
    BY <1>7 DEF Lesser
  <2> QED BY <2>1 DEF g
<1> QED BY <1>1, <1>6, <1>7, <1>8

\* What the plane holds when the call is over.
LEMMA PlaneEnds ==
  ASSUME NEW plane, Wide(plane), NEW n \in Nat \ {0}, dpos \in Nat
  PROVE  /\ Wide(PlaneAt(plane, n, n))
         /\ TapRows(n, Sliding) \in 1..n /\ (n >= Sliding => TapRows(n, Sliding) = Sliding)
         /\ n <= Sliding => TapRows(n, Sliding) = n
         /\ \A r \in 0..(TapRows(n, Sliding) - 1) :
              PlaneAt(plane, n, n)[r] = dpos + (n - TapRows(n, Sliding)) + r
<1> DEFINE K == TapRows(n, Sliding)
<1> DEFINE grown == Grown(plane, K, Other)
<1> DEFINE after == PlaneAt(plane, n, n)
<1>1. K \in 1..n /\ (n >= Sliding => K = Sliding) /\ (n <= Sliding => K = n)
  BY DraftTypes DEF TapRows
<1>2. after = [r \in DOMAIN grown |-> IF r \in 0..(K - 1) THEN dpos + (n - K) + r ELSE grown[r]]
  <2>1. ~(n <= n - K) /\ n - (n - K) - 1 = K - 1
    BY <1>1
  <2> HIDE DEF K
  <2> QED BY <2>1 DEF PlaneAt, K
<1>3. PICK m \in Nat : plane = [r \in 0..(m - 1) |-> plane[r]]
  BY DEF Wide
<1>4. \E w \in Nat : DOMAIN grown = 0..(w - 1) /\ K <= w
  <2>1. CASE K - 1 \in DOMAIN plane
    <3>1. grown = plane
      BY <2>1 DEF Grown
    <3>2. DOMAIN plane = 0..(m - 1)
      BY <1>3
    <3> HIDE DEF K, grown
    <3>3. K <= m
      BY <1>1, <2>1, <3>2
    <3> QED BY <3>1, <3>2, <3>3
  <2>2. CASE K - 1 \notin DOMAIN plane
    <3>1. grown = [r \in 0..(K - 1) |-> Other]
      BY <2>2 DEF Grown
    <3> HIDE DEF K, grown
    <3> QED BY <1>1, <3>1
  <2> QED BY <2>1, <2>2
<1> HIDE DEF K, grown, after
<1>5. PICK w \in Nat : DOMAIN grown = 0..(w - 1) /\ K <= w
  BY <1>4
<1>6. after = [r \in 0..(w - 1) |-> after[r]]
  BY <1>2, <1>5
<1>7. \A r \in 0..(K - 1) : after[r] = dpos + (n - K) + r
  BY <1>1, <1>2, <1>5
<1> QED BY <1>1, <1>6, <1>7 DEF K, after, Wide

-----------------------------------------------------------------------------
Ring(rows) == rows = [s \in 0..(RawSlots - 1) |-> rows[s]]

\* The states the block after still has to seed are in the plane, and below them the
\* ring has every position of this turn that the draft will attend to.
SeedsHold ==
  /\ seed.from + seed.n = dpos \/ dpos = resumed
  /\ \A j \in 0..(seed.n - 1) : dtaps[j] = seed.from + j
  /\ \A p \in History : p >= resumed /\ p < seed.from => drows[p % RawSlots] = p

DraftInv ==
  /\ told \in Nat /\ dpos \in Nat /\ resumed \in Nat /\ heldTo \in Nat
  /\ seed.n \in Nat /\ seed.from \in Nat
  /\ Ring(drows) /\ Wide(dtaps)
  /\ \A c \in points : c = [to |-> c.to, rows |-> c.rows] /\ c.to \in Nat /\ Ring(c.rows)
  /\ dpc = "split" => dpos = resumed /\ seed = Nothing /\ dpos <= NPrompt
  /\ dpc = "prefill" =>
       /\ dgoal \in Nat /\ dpos <= dgoal /\ dgoal <= NPrompt
       /\ \/ dpos = resumed /\ seed = Nothing /\ (dgoal = NPrompt \/ dgoal + Sliding <= NPrompt)
          \/ dgoal = NPrompt /\ dpos + Sliding <= dgoal
  /\ dpc = "block" => SeedsHold
  /\ dpc = "verify" => DraftSeesTarget

\* The rings at the first turn.
LEMMA DraftStart == DraftInit => DraftInv
<1> SUFFICES ASSUME DraftInit PROVE DraftInv
  OBVIOUS
<1> USE DEF DraftInit
<1>1. Wide(<<>>)
  <2>1. <<>> = [r \in 0..(0 - 1) |-> <<>>[r]]
    OBVIOUS
  <2> QED BY <2>1 DEF Wide
<1>2. Ring(drows)
  BY DEF Ring
<1> QED BY <1>1, <1>2 DEF DraftInv, Nothing

\* Where the two positions are less than a ring apart, they do not share a row.
LEMMA DraftApart ==
  ASSUME NEW p \in Nat, NEW q \in Nat, p < q, q < p + RawSlots
  PROVE  p % RawSlots # q % RawSlots
<1>1. RawSlots \in Nat \ {0}
  BY DraftTypes
<1> SUFFICES ASSUME p % RawSlots = q % RawSlots PROVE FALSE
  OBVIOUS
<1>2. p + RawSlots <= q
  BY <1>1, ModApart
<1> QED BY <1>1, <1>2

\* A turn resumes inside the slot or at a stored point: what is waiting is dropped.
LEMMA DraftAsks ==
  ASSUME DraftInv, NEW n \in Lengths, NEW d \in 0..Reach, Ask(n, d) PROVE DraftInv'
<1>1. n \in Nat /\ n >= 1 /\ d \in Nat
  BY DraftAssumption
<1>2. \A rows : Ring(rows) => Ring(Common(rows, d))
  BY DEF Ring, Common
<1>3. Wide(Common(dtaps, d))
  <2>1. PICK m \in Nat : dtaps = [r \in 0..(m - 1) |-> dtaps[r]]
    BY DEF DraftInv, Wide
  <2>2. DOMAIN dtaps = 0..(m - 1)
    BY <2>1
  <2>3. Common(dtaps, d) = [r \in 0..(m - 1) |-> Common(dtaps, d)[r]]
    BY <2>2 DEF Common
  <2> QED BY <2>3 DEF Wide
<1>4. \A c \in points' : c = [to |-> c.to, rows |-> c.rows] /\ c.to \in Nat /\ Ring(c.rows)
  <2>1. ASSUME NEW c0 \in points
        PROVE  LET c == [c0 EXCEPT !.rows = Common(@, d)] IN
               c = [to |-> c.to, rows |-> c.rows] /\ c.to \in Nat /\ Ring(c.rows)
    <3>1. c0 = [to |-> c0.to, rows |-> c0.rows] /\ c0.to \in Nat /\ Ring(c0.rows)
      BY DEF DraftInv
    <3>2. [c0 EXCEPT !.rows = Common(@, d)] = [to |-> c0.to, rows |-> Common(c0.rows, d)]
      BY <3>1
    <3> QED BY <1>2, <3>1, <3>2
  <2>2. points' = {[c EXCEPT !.rows = Common(@, d)] : c \in {c \in points : c.to <= d}}
    BY DEF Ask
  <2> QED BY <2>1, <2>2
<1>5. /\ dpos' \in Nat /\ dpos' <= n - 1
      /\ Ring(drows')
  <2>1. CASE dpos' = 0 /\ drows' = Common(drows, d)
    BY <1>1, <1>2, <2>1 DEF DraftInv
  <2>2. CASE \E c \in points' : c.to <= n - 1 /\ dpos' = c.to /\ drows' = c.rows
    BY <1>4, <2>2
  <2> QED BY <2>1, <2>2 DEF Ask
<1>6. heldTo' \in Nat
  <2>1. d \div StoreBlock \in Nat /\ StoreBlock \in Nat
    BY <1>1, DraftTypes, ModRange
  <2>2. (d \div StoreBlock) * StoreBlock \in Nat
    BY <2>1
  <2>3. heldTo' = Lesser(heldTo, (d \div StoreBlock) * StoreBlock) /\ heldTo \in Nat
    BY DEF Ask, DraftInv
  <2> QED BY <2>2, <2>3 DEF Lesser
<1>7. /\ told' = n /\ seed' = Nothing /\ resumed' = dpos' /\ dpc' = "split" /\ dtaps' = Common(dtaps, d)
  BY DEF Ask
<1>8. Wide(dtaps') /\ NPrompt' = n - 1 /\ Nothing.n \in Nat /\ Nothing.from \in Nat /\ Nothing' = Nothing
  BY <1>3, <1>7 DEF NPrompt, Nothing
<1>9. Ring(drows)' /\ Wide(dtaps)'
  BY <1>5, <1>8 DEF Ring, Wide
<1>10. (\A c \in points : c = [to |-> c.to, rows |-> c.rows] /\ c.to \in Nat /\ Ring(c.rows))'
  BY <1>4 DEF Ring
<1> HIDE DEF Ring, Wide, Nothing, NPrompt
<1> QED BY <1>1, <1>5, <1>6, <1>7, <1>8, <1>9, <1>10 DEF DraftInv

\* The split sets a goal, and leaves a window's length after it or nothing.
LEMMA DraftSplits ==
  ASSUME DraftInv, Boundary PROVE DraftInv'
<1>1. /\ dpc = "split" /\ dpc' = "prefill" /\ dpos = resumed /\ seed = Nothing /\ dpos <= NPrompt
      /\ UNCHANGED <<told, dpos, resumed, drows, dtaps, seed, points, heldTo>>
  BY DEF DraftInv, Boundary
<1>2. told \in Nat /\ dpos \in Nat /\ heldTo \in Nat /\ Sliding \in Nat
  BY DraftTypes DEF DraftInv
<1>3. dgoal' \in Nat /\ dpos <= dgoal' /\ dgoal' <= NPrompt /\ (dgoal' = NPrompt \/ dgoal' + Sliding <= NPrompt)
  BY <1>1, <1>2 DEF Boundary, Promotes, NPrompt
<1> QED BY <1>1, <1>3 DEF DraftInv, NPrompt, Ring, Wide, Nothing

\* A prefill's taps are seeded over the window before its end.
LEMMA DraftPrefills ==
  ASSUME DraftInv, Prefill PROVE DraftInv'
<1> DEFINE M == dgoal - dpos
<1>1. /\ dpc = "prefill" /\ dgoal \in Nat /\ dpos <= dgoal /\ dgoal <= NPrompt
      /\ \/ dpos = resumed /\ seed = Nothing /\ (dgoal = NPrompt \/ dgoal + Sliding <= NPrompt)
         \/ dgoal = NPrompt /\ dpos + Sliding <= dgoal
      /\ dpos' = dgoal /\ UNCHANGED <<told, resumed, drows, heldTo>>
  BY DEF DraftInv, Prefill
<1>2. told \in Nat /\ dpos \in Nat /\ resumed \in Nat /\ Sliding \in Nat \ {0} /\ NPrompt' = NPrompt
      /\ Wide(dtaps) /\ Ring(drows) /\ NPrompt \in Int
  BY <1>1, DraftTypes DEF DraftInv, NPrompt
<1>3. M = 0 => UNCHANGED <<dtaps, seed>>
  BY DEF Prefill
<1>4. M # 0 => dtaps' = AfterPrefill(dtaps, M)
               /\ seed' = [n |-> TapRows(M, Sliding), from |-> dgoal - TapRows(M, Sliding)]
  BY DEF Prefill
<1>5. \/ dgoal < NPrompt /\ points' \in {points, points \cup {Resume(dgoal)}} /\ dgoal' = NPrompt /\ dpc' = "prefill"
      \/ dgoal >= NPrompt /\ dpc' = "block" /\ UNCHANGED <<points, dgoal>>
  BY <1>1, <1>2 DEF Prefill
<1>6. \A c \in points' : c = [to |-> c.to, rows |-> c.rows] /\ c.to \in Nat /\ Ring(c.rows)
  <2>1. Resume(dgoal) = [to |-> Resume(dgoal).to, rows |-> Resume(dgoal).rows]
        /\ Resume(dgoal).to \in Nat /\ Ring(Resume(dgoal).rows)
    BY <1>1, <1>2 DEF Resume
  <2>2. \A c \in points : c = [to |-> c.to, rows |-> c.rows] /\ c.to \in Nat /\ Ring(c.rows)
    BY DEF DraftInv
  <2> QED BY <1>5, <2>1, <2>2
<1>7. M \in Nat
  BY <1>1, <1>2
<1>8. M # 0 =>
        /\ Wide(dtaps') /\ seed'.n \in Nat \ {0} /\ seed'.from \in Nat /\ seed'.from + seed'.n = dgoal
        /\ \A j \in 0..(seed'.n - 1) : dtaps'[j] = seed'.from + j
        /\ seed'.from = dpos \/ seed'.from + Sliding = dgoal
        /\ M >= Sliding => seed'.from + Sliding = dgoal
  <2> SUFFICES ASSUME M # 0
      PROVE /\ Wide(dtaps') /\ seed'.n \in Nat \ {0} /\ seed'.from \in Nat /\ seed'.from + seed'.n = dgoal
            /\ \A j \in 0..(seed'.n - 1) : dtaps'[j] = seed'.from + j
            /\ seed'.from = dpos \/ seed'.from + Sliding = dgoal
            /\ M >= Sliding => seed'.from + Sliding = dgoal
    OBVIOUS
  <2>1. M \in Nat \ {0} /\ dgoal = dpos + M
    BY <1>1, <1>2, <1>7
  <2>2. dtaps' = PlaneAt(dtaps, M, M)
    <3> HIDE DEF M
    <3> QED BY <1>2, <1>4, <2>1, AfterPrefillIs
  <2> DEFINE K == TapRows(M, Sliding)
  <2>3. seed'.n = K /\ seed'.from = dgoal - K
    BY <1>4, <2>1
  <2> HIDE DEF M
  <2>4. /\ Wide(dtaps') /\ K \in 1..M /\ (M >= Sliding => K = Sliding) /\ (M <= Sliding => K = M)
        /\ \A r \in 0..(K - 1) : dtaps'[r] = dpos + (M - K) + r
    BY <1>2, <2>1, <2>2, PlaneEnds
  <2> HIDE DEF K
  <2>5. dpos + (M - K) = dgoal - K /\ dgoal - K \in Nat
    BY <1>2, <2>1, <2>4
  <2> QED BY <1>2, <2>1, <2>3, <2>4, <2>5
<1>9. M = 0 => dpos = resumed /\ seed = Nothing
  BY <1>1, <1>2
<1>10. Wide(dtaps') /\ seed'.n \in Nat /\ seed'.from \in Nat
  BY <1>2, <1>3, <1>8 DEF DraftInv
<1>11. CASE dgoal < NPrompt
  <2>1. dpc' = "prefill" /\ dgoal' = NPrompt /\ dgoal + Sliding <= NPrompt
    BY <1>1, <1>2, <1>5, <1>11
  <2>2. (\A c \in points : c = [to |-> c.to, rows |-> c.rows] /\ c.to \in Nat /\ Ring(c.rows))'
        /\ Ring(drows)' /\ Wide(dtaps)'
    BY <1>1, <1>2, <1>6, <1>10 DEF Ring, Wide
  <2>3. dgoal' \in Nat /\ heldTo' \in Nat
    BY <1>1, <1>2, <1>11, <2>1 DEF DraftInv
  <2> HIDE DEF Ring, Wide, NPrompt
  <2> QED BY <1>1, <1>2, <1>10, <1>11, <2>1, <2>2, <2>3 DEF DraftInv
<1>12. CASE ~(dgoal < NPrompt)
  <2>1. dpc' = "block"
    BY <1>1, <1>2, <1>5, <1>12
  <2>2. (\A c \in points : c = [to |-> c.to, rows |-> c.rows] /\ c.to \in Nat /\ Ring(c.rows))'
        /\ Ring(drows)' /\ Wide(dtaps)'
    BY <1>1, <1>2, <1>6, <1>10 DEF Ring, Wide
  <2>3. ASSUME NEW p \in Greater(0, dgoal - Sliding)..(dgoal - 1), p >= resumed, p < seed'.from PROVE FALSE
    <3>1. p >= dgoal - Sliding
      BY <1>1, <1>2, <2>3 DEF Greater
    <3>2. CASE M = 0
      BY <1>1, <1>2, <1>9, <2>3, <3>2 DEF Greater
    <3>3. CASE M # 0
      BY <1>1, <1>2, <1>8, <2>3, <3>1, <3>3 DEF Greater
    <3> QED BY <3>2, <3>3
  <2>4. seed'.from + seed'.n = dgoal \/ dgoal = resumed
    BY <1>1, <1>2, <1>8, <1>9
  <2>5. \A j \in 0..(seed'.n - 1) : dtaps'[j] = seed'.from + j
    BY <1>3, <1>8, <1>9 DEF Nothing
  <2>6. SeedsHold'
    BY <1>1, <2>3, <2>4, <2>5 DEF SeedsHold, History
  <2>7. dpos' \in Nat /\ heldTo' \in Nat
    BY <1>1 DEF DraftInv
  <2> HIDE DEF Ring, Wide, NPrompt, SeedsHold
  <2> QED BY <1>1, <1>2, <1>10, <2>1, <2>2, <2>6, <2>7 DEF DraftInv
<1> QED BY <1>11, <1>12

\* What a block leaves of the ring: the waiting seeds are in it, and the draft's own
\* rows reach none of what it attends to.
LEMMA DraftDrafts ==
  ASSUME DraftInv, DraftStep PROVE DraftInv'
<1>1. /\ dpc = "block" /\ dpc' = "verify"
      /\ UNCHANGED <<told, dpos, resumed, dgoal, dtaps, seed, points, heldTo>>
      /\ drows' = IF dpos > 0 THEN OwnRows(Seeded) ELSE Seeded
  BY DEF DraftStep
<1>2. /\ dpos \in Nat /\ seed.n \in Nat /\ seed.from \in Nat /\ resumed \in Nat
      /\ drows = [s \in 0..(RawSlots - 1) |-> drows[s]] /\ SeedsHold
  BY <1>1 DEF DraftInv, Ring
<1>3. /\ RawSlots \in Nat \ {0} /\ RawSlots = Sliding + AttnBatch - 1 /\ Sliding \in Nat \ {0}
      /\ Proposals \in Nat \ {0} /\ AttnBatch \in Nat \ {0} /\ Proposals < AttnBatch
  BY DraftTypes
<1>4. DOMAIN drows = 0..(RawSlots - 1)
  BY <1>2
<1>5. DOMAIN Seeded = 0..(RawSlots - 1)
  BY <1>4 DEF Seeded
<1>6. DOMAIN OwnRows(Seeded) = 0..(RawSlots - 1)
  BY <1>5 DEF OwnRows
<1>7. Ring(drows')
  <2>1. CASE dpos > 0
    <3>1. OwnRows(Seeded) = [s \in 0..(RawSlots - 1) |-> OwnRows(Seeded)[s]]
      BY <1>5 DEF OwnRows
    <3> QED BY <1>1, <2>1, <3>1 DEF Ring
  <2>2. CASE ~(dpos > 0)
    <3>1. Seeded = [s \in 0..(RawSlots - 1) |-> Seeded[s]]
      BY <1>4 DEF Seeded
    <3> QED BY <1>1, <2>2, <3>1 DEF Ring
  <2> QED BY <2>1, <2>2
<1>8. ASSUME NEW p \in History, p >= resumed PROVE drows'[p % RawSlots] = p
  <2> DEFINE s == p % RawSlots
  <2> DEFINE js == {j \in 0..(seed.n - 1) : (seed.from + j) % RawSlots = s}
  <2>1. p \in Nat /\ p < dpos /\ p >= dpos - Sliding
    BY <1>2, <1>3 DEF History, Greater
  <2>2. s \in 0..(RawSlots - 1)
    BY <1>3, <2>1, ModRange
  <2>3. dpos # resumed
    BY <1>2, <1>8, <2>1
  <2>4. seed.from + seed.n = dpos
    BY <1>2, <2>3 DEF SeedsHold
  <2>5. ASSUME NEW q \in Nat, p < q, q < dpos + Proposals PROVE q % RawSlots # s
    BY <1>2, <1>3, <2>1, <2>5, DraftApart
  <2>6. ASSUME NEW j \in js PROVE seed.from + j <= p
    <3>1. j \in 0..(seed.n - 1) /\ (seed.from + j) % RawSlots = s /\ seed.from + j \in Nat
      BY <1>2
    <3>2. seed.from + j < dpos + Proposals
      BY <1>2, <1>3, <2>4, <3>1
    <3> HIDE DEF s
    <3> QED BY <2>1, <2>5, <3>1, <3>2
  <2>7. Seeded[s] = IF js = {} THEN drows[s]
                    ELSE LET j == CHOOSE j \in js : \A i \in js : i <= j IN
                         IF dtaps[SeedRow(j)] = seed.from + j THEN seed.from + j ELSE Other
    BY <1>4, <2>2 DEF Seeded
  <2> HIDE DEF s, js
  <2>8. Seeded[s] = p
    <3>1. CASE p >= seed.from
      <4> DEFINE i0 == p - seed.from
      <4>1. i0 \in Nat /\ i0 \in 0..(seed.n - 1) /\ seed.from + i0 = p
        BY <1>2, <2>1, <2>4, <3>1
      <4> HIDE DEF i0
      <4>2. i0 \in js
        BY <4>1 DEF js, s
      <4>3. \A i \in js : i <= i0
        <5> SUFFICES ASSUME NEW i \in js PROVE i <= i0
          OBVIOUS
        <5>1. i \in Nat /\ seed.from + i <= p
          BY <1>2, <2>6 DEF js
        <5> QED BY <1>2, <4>1, <5>1
      <4> DEFINE j == CHOOSE j \in js : \A i \in js : i <= j
      <4>4. j \in js /\ \A i \in js : i <= j
        BY <4>2, <4>3
      <4> HIDE DEF j
      <4>5. j = i0
        <5>1. j <= i0 /\ i0 <= j /\ j \in Nat
          BY <1>2, <4>2, <4>3, <4>4 DEF js
        <5> QED BY <4>1, <5>1
      <4>6. SeedRow(i0) = i0 /\ dtaps[i0] = seed.from + i0
        BY <1>2, <4>1, SeedRowIs DEF SeedsHold
      <4>7. Seeded[s] = IF dtaps[SeedRow(j)] = seed.from + j THEN seed.from + j ELSE Other
        BY <2>7, <4>2 DEF j
      <4> QED BY <4>1, <4>5, <4>6, <4>7
    <3>2. CASE ~(p >= seed.from)
      <4>1. drows[s] = p
        BY <1>2, <1>8, <2>1, <3>2 DEF SeedsHold, s
      <4>2. js = {}
        <5> SUFFICES ASSUME NEW j \in js PROVE FALSE
          OBVIOUS
        <5>1. j \in Nat /\ seed.from + j <= p
          BY <1>2, <2>6 DEF js
        <5> QED BY <1>2, <2>1, <3>2, <5>1
      <4> QED BY <2>7, <4>1, <4>2
    <3> QED BY <3>1, <3>2
  <2>9. s \notin {q % RawSlots : q \in dpos..(dpos + Proposals - 1)}
    <3> SUFFICES ASSUME NEW q \in dpos..(dpos + Proposals - 1), q % RawSlots = s PROVE FALSE
      OBVIOUS
    <3>1. q \in Nat /\ p < q /\ q < dpos + Proposals
      BY <1>2, <1>3, <2>1
    <3> QED BY <2>5, <3>1
  <2>10. OwnRows(Seeded)[s] = p
    BY <1>5, <2>2, <2>8, <2>9 DEF OwnRows
  <2> QED BY <1>1, <2>8, <2>10 DEF s
<1>9. DraftSeesTarget'
  <2>1. History' = History
    BY <1>1 DEF History
  <2> QED BY <1>1, <1>8, <2>1 DEF DraftSeesTarget
<1>10. (\A c \in points : c = [to |-> c.to, rows |-> c.rows] /\ c.to \in Nat /\ Ring(c.rows))'
       /\ Ring(drows)' /\ Wide(dtaps)'
  BY <1>1, <1>7 DEF DraftInv, Ring, Wide
<1> HIDE DEF Ring, Wide, DraftSeesTarget
<1> QED BY <1>1, <1>9, <1>10 DEF DraftInv

\* What the verify block taps, rejected rows included, and what of it is to be seeded.
LEMMA DraftVerifies ==
  ASSUME DraftInv, NEW k \in 0..Proposals, NEW g \in 1..(Proposals + 1), NEW stops \in BOOLEAN,
         VerifyStep(k, g, stops)
  PROVE  DraftInv'
<1> DEFINE nd == IF dpos > 0 THEN Proposals ELSE 0
<1> DEFINE tokens == TapTokens(0, nd + 1, nd + 1, 0)
<1> DEFINE wide == TapTarget(dtaps, tokens, nd + 1, 0, Other)
<1>1. /\ dpc = "verify" /\ dpc' = (IF stops THEN "publish" ELSE "block")
      /\ k <= nd /\ seed' = [n |-> k + 1, from |-> dpos] /\ dpos' = dpos + k + 1 /\ told' = told + g
      /\ UNCHANGED <<resumed, drows, points, heldTo>>
      /\ dtaps' = [r \in DOMAIN wide |->
                     IF r \notin DOMAIN tokens THEN wide[r]
                     ELSE IF tokens[r] <= k THEN dpos + tokens[r] ELSE Other]
  BY DEF VerifyStep
<1>2. /\ dpos \in Nat /\ told \in Nat /\ resumed \in Nat /\ Ring(drows) /\ Wide(dtaps) /\ DraftSeesTarget
      /\ Proposals \in Nat /\ nd \in Nat /\ k \in Nat /\ g \in Nat /\ Sliding \in Nat \ {0}
  BY <1>1, DraftTypes DEF DraftInv
<1> HIDE DEF nd
<1>3. DOMAIN tokens = 0..nd /\ \A r \in 0..nd : tokens[r] = r
  <2>1. nd + 1 \in Nat \ {0} /\ (nd + 1) - 1 = nd
    BY <1>2
  <2>2. DOMAIN tokens = 0..((nd + 1) - 1) /\ \A r \in 0..((nd + 1) - 1) : tokens[r] = r
    BY <2>1, TapTokensAll
  <2> HIDE DEF tokens
  <2> QED BY <2>1, <2>2
<1>4. \E w \in Nat : DOMAIN wide = 0..(w - 1) /\ nd + 1 <= w
  <2>1. wide = IF nd \in DOMAIN dtaps THEN dtaps ELSE [r \in 0..nd |-> Other]
    <3>1. DOMAIN tokens # {} /\ TapRows(nd + 1, 0) = nd + 1 /\ (nd + 1) - 1 = nd
      BY <1>2, <1>3 DEF TapRows
    <3> HIDE DEF tokens
    <3> QED BY <3>1 DEF TapTarget, Grown
  <2>2. PICK m \in Nat : dtaps = [r \in 0..(m - 1) |-> dtaps[r]]
    BY <1>2 DEF Wide
  <2>3. DOMAIN dtaps = 0..(m - 1)
    BY <2>2
  <2> HIDE DEF wide, tokens
  <2>4. CASE nd \in DOMAIN dtaps
    BY <1>2, <2>1, <2>3, <2>4
  <2>5. CASE nd \notin DOMAIN dtaps
    <3>1. DOMAIN wide = 0..((nd + 1) - 1)
      BY <1>2, <2>1, <2>5
    <3> QED BY <1>2, <3>1
  <2> QED BY <2>4, <2>5
<1> HIDE DEF tokens, wide
<1>5. PICK w \in Nat : DOMAIN wide = 0..(w - 1) /\ nd + 1 <= w
  BY <1>4
<1>6. dtaps' = [r \in 0..(w - 1) |-> dtaps'[r]]
  BY <1>1, <1>5
<1>7. \A j \in 0..k : dtaps'[j] = dpos + j
  <2> TAKE j \in 0..k
  <2>1. j \in 0..nd /\ j \in 0..(w - 1)
    BY <1>1, <1>2, <1>5
  <2> QED BY <1>1, <1>3, <1>5, <2>1
<1>8. /\ seed'.n = k + 1 /\ seed'.from = dpos /\ seed'.n \in Nat /\ seed'.from \in Nat
      /\ seed'.from + seed'.n = dpos' /\ dpos' \in Nat /\ told' \in Nat
  BY <1>1, <1>2
<1>9. SeedsHold'
  <2>1. \A j \in 0..(seed'.n - 1) : dtaps'[j] = seed'.from + j
    <3>1. seed'.n - 1 = k
      BY <1>2, <1>8
    <3> QED BY <1>7, <1>8, <3>1
  <2>2. ASSUME NEW p \in History', p >= resumed, p < seed'.from PROVE drows'[p % RawSlots] = p
    <3>1. p \in History
      BY <1>2, <1>8, <1>1, <2>2 DEF History, Greater
    <3> QED BY <1>1, <1>2, <2>2, <3>1 DEF DraftSeesTarget
  <2> QED BY <1>1, <1>8, <2>1, <2>2 DEF SeedsHold
<1>10. (\A c \in points : c = [to |-> c.to, rows |-> c.rows] /\ c.to \in Nat /\ Ring(c.rows))'
       /\ Ring(drows)' /\ Wide(dtaps)'
  BY <1>1, <1>2, <1>6 DEF DraftInv, Ring, Wide
<1>11. dpc' \in {"publish", "block"} /\ resumed' \in Nat /\ heldTo' \in Nat
  BY <1>1, <1>2 DEF DraftInv
<1> HIDE DEF Ring, Wide, SeedsHold
<1> QED BY <1>8, <1>9, <1>10, <1>11 DEF DraftInv

\* Publishing takes the rings as they are and changes none.
LEMMA DraftOffers ==
  ASSUME DraftInv, Offer PROVE DraftInv'
<1> DEFINE upto == Lesser(dpos, told)
<1>1. /\ dpc' = "ask" /\ dpos' = (IF keeps THEN upto ELSE dpos)
      /\ UNCHANGED <<told, resumed, drows, dtaps, seed>>
      /\ \/ UNCHANGED <<points, heldTo>>
         \/ /\ points' = points \cup {Resume(upto)}
            /\ heldTo' = Greater(heldTo, (upto \div StoreBlock) * StoreBlock)
  BY DEF Offer
<1>2. /\ dpos \in Nat /\ told \in Nat /\ heldTo \in Nat /\ Ring(drows) /\ Wide(dtaps) /\ upto \in Nat
      /\ \A c \in points : c = [to |-> c.to, rows |-> c.rows] /\ c.to \in Nat /\ Ring(c.rows)
  BY DEF DraftInv, Lesser
<1> HIDE DEF upto
<1>3. (upto \div StoreBlock) * StoreBlock \in Nat
  <2>1. upto \div StoreBlock \in Nat /\ StoreBlock \in Nat
    BY <1>2, DraftTypes, ModRange
  <2> QED BY <2>1
<1>4. heldTo' \in Nat
  BY <1>1, <1>2, <1>3 DEF Greater
<1>5. \A c \in points' : c = [to |-> c.to, rows |-> c.rows] /\ c.to \in Nat /\ Ring(c.rows)
  <2>1. Resume(upto) = [to |-> Resume(upto).to, rows |-> Resume(upto).rows]
        /\ Resume(upto).to \in Nat /\ Ring(Resume(upto).rows)
    BY <1>2 DEF Resume
  <2> QED BY <1>1, <1>2, <2>1
<1>6. (\A c \in points : c = [to |-> c.to, rows |-> c.rows] /\ c.to \in Nat /\ Ring(c.rows))'
      /\ Ring(drows)' /\ Wide(dtaps)' /\ dpos' \in Nat
  BY <1>1, <1>2, <1>5 DEF Ring, Wide
<1> HIDE DEF Ring, Wide
<1> QED BY <1>1, <1>4, <1>6 DEF DraftInv

\* A stutter.
LEMMA DraftIdle ==
  ASSUME DraftInv, UNCHANGED draftVars PROVE DraftInv'
<1>1. UNCHANGED <<dpc, told, dpos, resumed, dgoal, drows, dtaps, seed, points, heldTo>>
  BY DEF draftVars
<1>2. Ring(drows)' = Ring(drows) /\ Wide(dtaps)' = Wide(dtaps) /\ SeedsHold' = SeedsHold
      /\ DraftSeesTarget' = DraftSeesTarget /\ Nothing' = Nothing /\ NPrompt' = NPrompt
      /\ (\A c \in points : c = [to |-> c.to, rows |-> c.rows] /\ c.to \in Nat /\ Ring(c.rows))'
           = (\A c \in points : c = [to |-> c.to, rows |-> c.rows] /\ c.to \in Nat /\ Ring(c.rows))
  BY <1>1 DEF Ring, Wide, SeedsHold, DraftSeesTarget, History, Nothing, NPrompt
<1> HIDE DEF Ring, Wide, SeedsHold, DraftSeesTarget, Nothing, NPrompt
<1> QED BY <1>1, <1>2 DEF DraftInv

-----------------------------------------------------------------------------
\* model.cpp, dspark_draft: for every window, arena, block and prompt, whatever was
\* proposed and rejected before and however the prompt was split, the draft's keys from
\* where the turn resumed are the target's own states for the positions they stand at.
THEOREM DraftConditionedOnTarget == DraftSpec => []DraftSeesTarget
<1>1. DraftInit => DraftInv
  BY DraftStart
<1>2. DraftInv /\ [DraftNext]_draftVars => DraftInv'
  <2> SUFFICES ASSUME DraftInv, [DraftNext]_draftVars PROVE DraftInv'
    OBVIOUS
  <2>1. ASSUME NEW n \in Lengths, NEW d \in 0..Reach, Ask(n, d) PROVE DraftInv'
    BY <2>1, DraftAsks
  <2>2. ASSUME NEW k \in 0..Proposals, NEW g \in 1..(Proposals + 1), NEW stops \in BOOLEAN,
               VerifyStep(k, g, stops)
        PROVE  DraftInv'
    BY <2>2, DraftVerifies
  <2> QED BY <2>1, <2>2, DraftSplits, DraftPrefills, DraftDrafts, DraftOffers, DraftIdle DEF DraftNext
<1>3. DraftInv => DraftSeesTarget
  BY DEF DraftInv, DraftSeesTarget
<1> QED BY <1>1, <1>2, <1>3, PTL DEF DraftSpec
=============================================================================
