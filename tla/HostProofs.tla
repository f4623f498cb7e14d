----------------------------- MODULE HostProofs -----------------------------
(***************************************************************************)
(* Proofs about what the host does around the cards: the staging ring       *)
(* (SsdStage), main from its arguments to its destructors (Startup), the    *)
(* terminal a dashboard borrows (Dashboard) and what it draws on it         *)
(* (Canvas), and the text of requests and replies (JsonText).               *)
(***************************************************************************)
EXTENDS JsonText, SsdStage, Startup, Dashboard, Canvas, SequenceTheorems, FiniteSetTheorems, TLAPS

-----------------------------------------------------------------------------
(***************************************************************************)
(* The staging ring: a launch's slots keep their experts' bytes for as long *)
(* as any card may read them, and a dispatch that nothing failed in and     *)
(* that the caller accepts gave every card every expert.                    *)
(*                                                                         *)
(* The first rests on the guard of a slot: what is queued on a card stands  *)
(* in a slot that is claimed, or whose event on that card lies at or behind *)
(* the launch; so a slot that may be taken has no reader left.  The second  *)
(* rests on what a pass may decline: only once every slot is claimed, and   *)
(* from then on the claims no longer change before the slots are armed, so  *)
(* the passes of the other cards find and decline the same experts.         *)
(***************************************************************************)
USE DEF Card, StageSlot

Tile == Expert \X StageSlot

StageTypeOK ==
  /\ idx \in [StageSlot -> Expert \cup {None}] /\ bytes \in [StageSlot -> Expert \cup {None}]
  /\ claimed \in [StageSlot -> BOOLEAN] /\ armed \in [StageSlot -> BOOLEAN]
  /\ ev \in [StageSlot -> [Card -> Nat]]
  /\ queue \in [Card -> Seq(SUBSET Tile)]
  /\ launched \in [Card -> Nat] /\ done \in [Card -> Nat]
  /\ begun \in Nat /\ sel \subseteq Expert
  /\ hpc \in {"idle", "member", "fetch", "wait", "arm", "check", "fatal"} /\ dv \in Card
  /\ todo \subseteq Expert /\ took \subseteq Tile
  /\ want \in (Expert \cup {None}) \X StageSlot
  /\ handled \subseteq Expert /\ given \in [Card -> SUBSET Expert]
  /\ failed \in BOOLEAN

\* A card's launches are finished, or queued.
QueueCounts == \A c \in Card : launched[c] = done[c] + Len(queue[c])

\* What a queued launch reads is in its slot, and the slot is claimed or armed with
\* an event at or behind that launch.
Guarded(c, i, p) ==
  /\ bytes[p[2]] = p[1]
  /\ claimed[p[2]] \/ (armed[p[2]] /\ done[c] + i <= ev[p[2]][c])
QueueGuarded == \A c \in Card : \A i \in 1..Len(queue[c]) : \A p \in queue[c][i] : Guarded(c, i, p)

\* A claimed slot holds the expert it is named for, and a tile names a claimed slot.
ClaimsHold == \A s \in StageSlot : claimed[s] => bytes[s] = idx[s]
TookClaimed == \A p \in took : claimed[p[2]] /\ idx[p[2]] = p[1]

\* The slot being staged into is nobody's.
WantIsFree ==
  /\ hpc \in {"fetch", "wait"} => want[1] \in Expert /\ ~claimed[want[2]]
  /\ hpc = "fetch" => ~armed[want[2]] \/ Signalled(want[2])
  /\ hpc = "arm" => took = {}

RingInv == QueueCounts /\ QueueGuarded /\ ClaimsHold /\ TookClaimed /\ WantIsFree

\* Every slot is claimed; the experts of the dispatch that have a slot.
Full == \A s \in StageSlot : claimed[s]
Staged == {x \in sel : Claims(x) # {}}

Building == hpc \in {"member", "fetch", "wait"}
Pending == IF hpc = "member" THEN todo ELSE todo \cup {want[1]}

\* The cards built for got what is staged, and that is everything unless the ring is
\* full.
CardsAgree ==
  /\ \A c \in Card : c < dv => given[c] = Staged /\ (Staged = sel \/ Full)
  /\ handled = IF dv = 1 THEN {} ELSE Staged

\* This card's pass took what it asked for, or found the ring full without it.
PassAgrees ==
  /\ Pending \subseteq sel /\ Experts \subseteq sel
  /\ \A x \in sel : x \in Pending \/ x \in Experts \/ (Full /\ Claims(x) = {})

DispatchInv ==
  ~failed =>
    /\ Building => CardsAgree /\ PassAgrees
    /\ hpc \in {"arm", "check"} => handled \subseteq sel /\ \A c \in Card : given[c] = handled
    /\ hpc = "idle" => \A c \in Card : given[c] = sel

StageInv == StageTypeOK /\ RingInv /\ DispatchInv

-----------------------------------------------------------------------------
\* A set of naturals that is not empty has a least member.
LEMMA NatMin ==
  ASSUME NEW T, T \subseteq Nat, T # {}
  PROVE  \E x \in T : \A y \in T : x <= y
<1> SUFFICES ASSUME \A x \in T : \E y \in T : y < x PROVE FALSE
  OBVIOUS
<1>1. PICK t \in T : TRUE
  OBVIOUS
<1> DEFINE D == {n \in 0..t : \E x \in T : x <= n}
<1> DEFINE E == D \ {t}
<1> DEFINE pred == [n \in D |-> n - 1]
<1>2. t \in D
  BY <1>1
<1>3. \A n \in D : n - 1 \in E
  <2> TAKE n \in D
  <2>1. PICK x \in T : x <= n
    OBVIOUS
  <2>2. PICK y \in T : y < x
    OBVIOUS
  <2>3. n \in Nat /\ x \in Nat /\ y \in Nat /\ n <= t /\ t \in Nat
    BY <1>1
  <2>4. n - 1 \in 0..t /\ n - 1 # t /\ y <= n - 1
    BY <2>1, <2>2, <2>3
  <2> QED
    BY <2>4
<1>4. pred \in [D -> E]
  BY <1>3
<1>5. IsFiniteSet(D) /\ IsFiniteSet(0..t)
  <2>1. IsFiniteSet(0..t)
    BY <1>1, FS_Interval
  <2> QED
    BY <2>1, FS_Subset
<1>6. IsFiniteSet(E) /\ Cardinality(E) < Cardinality(D)
  <2>1. Cardinality(D) \in Nat
    BY <1>5, FS_CardinalityType
  <2>2. IsFiniteSet(E) /\ Cardinality(E) = Cardinality(D) - 1
    BY <1>2, <1>5, FS_RemoveElement
  <2> QED
    BY <2>1, <2>2
<1>7. PICK m \in D, n \in D : m # n /\ pred[m] = pred[n]
  <2> HIDE DEF D, E, pred
  <2> QED BY <1>4, <1>5, <1>6, FS_PigeonHole
<1> QED
  BY <1>7

\* The lowest slot of a set is in it.
LEMMA FirstIn ==
  ASSUME NEW S \in SUBSET StageSlot, S # {}
  PROVE  First(S) \in S
<1>1. S \subseteq Nat
  BY StageAssumption
<1>2. \E s \in S : \A t \in S : s <= t
  BY <1>1, NatMin
<1> QED
  BY <1>2 DEF First

\* The invariant holds before the first dispatch.
LEMMA StageInitInv == StageInit => StageInv
<1> SUFFICES ASSUME StageInit PROVE StageInv
  OBVIOUS
<1> USE StageAssumption DEF StageInit
<1>1. StageTypeOK
  <2>1. 1 \in Card /\ 1 \in StageSlot
    OBVIOUS
  <2>2. queue \in [Card -> Seq(SUBSET Tile)]
    BY EmptySeq
  <2> QED BY <2>1, <2>2 DEF StageTypeOK
<1>2. RingInv
  BY EmptySeq DEF RingInv, QueueCounts, QueueGuarded, ClaimsHold, TookClaimed, WantIsFree
<1>3. DispatchInv
  BY DEF DispatchInv, Building
<1> QED
  BY <1>1, <1>2, <1>3 DEF StageInv

\* Steps that touch neither the ring nor the cards.
LEMMA RingStands ==
  ASSUME RingInv, UNCHANGED <<ringVars, cardVars>>, TookClaimed', WantIsFree'
  PROVE  RingInv'
BY DEF RingInv, QueueCounts, QueueGuarded, Guarded, ClaimsHold, ringVars, cardVars

\* Steps that claim nothing change neither what is staged nor whether the ring is full.
LEMMA ClaimsStand ==
  ASSUME UNCHANGED <<idx, claimed>>
  PROVE  /\ \A x : Claims(x)' = Claims(x)
         /\ Full' = Full
         /\ UNCHANGED sel => Staged' = Staged
BY DEF Claims, Full, Staged

\* The invariant across Hit: the expert is in a slot already.
LEMMA HitStep ==
  ASSUME StageInv, NEW x \in Expert, Hit(x)
  PROVE  StageInv'
<1> USE DEF Hit, ringVars, cardVars, passVars
<1> DEFINE s == First(Claims(x))
<1>1. s \in StageSlot /\ claimed[s] /\ idx[s] = x
  BY FirstIn DEF Claims
<1> HIDE DEF s
<1>2. took' = took \cup {<<x, s>>} /\ todo' = todo \ {x}
  BY DEF s
<1>3. StageTypeOK'
  BY <1>1, <1>2 DEF StageInv, StageTypeOK, Tile
<1>4. TookClaimed'
  BY <1>1, <1>2 DEF StageInv, RingInv, TookClaimed
<1>5. WantIsFree'
  BY DEF StageInv, RingInv, WantIsFree
<1>6. RingInv'
  BY <1>4, <1>5, RingStands DEF StageInv
<1>7. DispatchInv'
  <2> SUFFICES ASSUME ~failed PROVE CardsAgree' /\ PassAgrees'
    BY DEF DispatchInv, Building
  <2>1. CardsAgree /\ PassAgrees
    BY DEF StageInv, DispatchInv, Building
  <2>2. Experts' = Experts \cup {x}
    <3>1. <<x, s>> \in took' /\ <<x, s>>[1] = x
      BY <1>2
    <3>2. \A p \in took' : p \in took \/ p[1] = x
      BY <1>2
    <3>3. took \subseteq took'
      BY <1>2
    <3> QED BY <3>1, <3>2, <3>3 DEF Experts
  <2>3. CardsAgree'
    BY <2>1, ClaimsStand DEF CardsAgree
  <2>4. PassAgrees'
    BY <1>2, <2>1, <2>2, ClaimsStand DEF PassAgrees, Pending
  <2> QED BY <2>3, <2>4
<1> QED
  BY <1>3, <1>6, <1>7 DEF StageInv

\* The invariant across Pick and PickWait: the slot chosen is unclaimed.
LEMMA PickStep ==
  ASSUME StageInv, NEW x \in Expert, Pick(x) \/ PickWait(x)
  PROVE  StageInv'
<1> USE DEF Pick, PickWait, ringVars, cardVars, passVars
<1>1. PICK s \in StageSlot :
        /\ want' = <<x, s>> /\ todo' = todo \ {x} /\ hpc' \in {"fetch", "wait"}
        /\ ~claimed[s] /\ (hpc' = "fetch" => ~armed[s] \/ Signalled(s))
  <2>1. CASE Pick(x)
    BY <2>1, FirstIn DEF FreeSlots
  <2>2. CASE PickWait(x)
    BY <2>2, FirstIn DEF Waitable
  <2> QED BY <2>1, <2>2
<1>2. x \in todo /\ hpc = "member" /\ UNCHANGED <<ringVars, cardVars, passVars, took>>
  OBVIOUS
<1> HIDE DEF Pick, PickWait
<1>3. StageTypeOK'
  BY <1>1, <1>2 DEF StageInv, StageTypeOK, Tile
<1>4. TookClaimed' /\ WantIsFree'
  BY <1>1, <1>2 DEF StageInv, RingInv, TookClaimed, WantIsFree, Signalled
<1>5. RingInv'
  BY <1>2, <1>4, RingStands DEF StageInv
<1>6. DispatchInv'
  <2> SUFFICES ASSUME ~failed PROVE CardsAgree' /\ PassAgrees'
    BY <1>1, <1>2 DEF DispatchInv, Building
  <2>1. CardsAgree /\ PassAgrees
    BY <1>2 DEF StageInv, DispatchInv, Building
  <2>2. Experts' = Experts /\ Pending' = Pending
    BY <1>1, <1>2 DEF Experts, Pending
  <2>3. CardsAgree' /\ PassAgrees'
    BY <1>2, <2>1, <2>2, ClaimsStand DEF CardsAgree, PassAgrees
  <2> QED BY <2>3
<1> QED
  BY <1>3, <1>5, <1>6 DEF StageInv

\* The invariant across WaitOver: the events of the slot are signalled.
LEMMA WaitOverStep ==
  ASSUME StageInv, WaitOver
  PROVE  StageInv'
<1> USE DEF WaitOver, ringVars, cardVars, passVars
<1>1. StageTypeOK'
  BY DEF StageInv, StageTypeOK
<1>2. TookClaimed' /\ WantIsFree'
  BY DEF StageInv, RingInv, TookClaimed, WantIsFree, Signalled
<1>3. RingInv'
  BY <1>2, RingStands DEF StageInv
<1>4. DispatchInv'
  <2> SUFFICES ASSUME ~failed PROVE CardsAgree' /\ PassAgrees'
    BY DEF DispatchInv, Building
  <2>1. CardsAgree /\ PassAgrees
    BY DEF StageInv, DispatchInv, Building
  <2>2. Experts' = Experts /\ Pending' = Pending
    BY DEF Experts, Pending
  <2>3. CardsAgree' /\ PassAgrees'
    BY <2>1, <2>2, ClaimsStand DEF CardsAgree, PassAgrees
  <2> QED BY <2>3
<1> QED
  BY <1>1, <1>3, <1>4 DEF StageInv

\* The invariant across Decline, which only a full ring allows.
LEMMA DeclineStep ==
  ASSUME StageInv, NEW x \in Expert, Decline(x)
  PROVE  StageInv'
<1> USE DEF Decline, ringVars, cardVars, passVars
<1>1. StageTypeOK'
  BY DEF StageInv, StageTypeOK
<1>2. TookClaimed' /\ WantIsFree'
  BY DEF StageInv, RingInv, TookClaimed, WantIsFree
<1>3. RingInv'
  BY <1>2, RingStands DEF StageInv
<1>4. DispatchInv'
  <2> SUFFICES ASSUME ~failed PROVE CardsAgree' /\ PassAgrees'
    BY DEF DispatchInv, Building
  <2>1. CardsAgree /\ PassAgrees
    BY DEF StageInv, DispatchInv, Building
  <2>2. Experts' = Experts /\ Pending' = Pending \ {x} /\ Pending = todo
    BY DEF Experts, Pending
  <2>3. Full
    BY DEF Full, FreeSlots, Waitable
  <2>4. CardsAgree'
    BY <2>1, ClaimsStand DEF CardsAgree
  <2>5. PassAgrees'
    BY <2>1, <2>2, <2>3, ClaimsStand DEF PassAgrees
  <2> QED BY <2>4, <2>5
<1> QED
  BY <1>1, <1>3, <1>4 DEF StageInv

\* The invariant across Fetch: no queued launch reads the slot written.
LEMMA FetchStep ==
  ASSUME StageInv, Fetch
  PROVE  StageInv'
<1> DEFINE x == want[1]
<1> DEFINE s == want[2]
<1>1. /\ hpc = "fetch" /\ want = <<x, s>>
      /\ bytes' = [bytes EXCEPT ![s] = x] /\ idx' = [idx EXCEPT ![s] = x]
      /\ claimed' = [claimed EXCEPT ![s] = TRUE] /\ armed' = [armed EXCEPT ![s] = FALSE]
      /\ took' = took \cup {<<x, s>>} /\ hpc' = "member"
      /\ UNCHANGED <<ev, cardVars, passVars, todo, want>>
  <2>1. want = <<x, s>>
    BY DEF StageInv, StageTypeOK
  <2> QED BY <2>1 DEF Fetch
<1>2. /\ s \in StageSlot /\ x \in Expert
      /\ ~claimed[s] /\ (~armed[s] \/ Signalled(s))
  BY <1>1 DEF StageInv, StageTypeOK, RingInv, WantIsFree
<1> HIDE DEF x, s
<1> USE DEF cardVars, passVars
<1>3. StageTypeOK'
  BY <1>1, <1>2 DEF StageInv, StageTypeOK, Tile
<1>4. \A c \in Card : \A i \in 1..Len(queue[c]) : \A p \in queue[c][i] : p[2] \in StageSlot /\ p[2] # s
  <2> SUFFICES ASSUME NEW c \in Card, NEW i \in 1..Len(queue[c]), NEW p \in queue[c][i]
               PROVE  p[2] \in StageSlot /\ p[2] # s
    OBVIOUS
  <2>1. p \in Tile /\ done[c] \in Nat /\ i \in Nat \ {0} /\ ev[s][c] \in Nat
    <3>1. queue[c] \in Seq(SUBSET Tile)
      BY DEF StageInv, StageTypeOK
    <3>2. queue[c][i] \in SUBSET Tile
      BY <3>1, ElementOfSeq
    <3>3. i \in Nat \ {0}
      BY <3>1, LenProperties
    <3>4. done[c] \in Nat /\ ev[s][c] \in Nat
      BY <1>2 DEF StageInv, StageTypeOK
    <3> QED BY <3>2, <3>3, <3>4
  <2>2. Guarded(c, i, p)
    BY DEF StageInv, RingInv, QueueGuarded
  <2>3. ASSUME p[2] = s PROVE FALSE
    BY <1>2, <2>1, <2>2, <2>3 DEF Guarded, Signalled
  <2> QED BY <2>1, <2>3 DEF Tile
<1>5. RingInv'
  <2>1. QueueCounts'
    BY <1>1 DEF StageInv, RingInv, QueueCounts
  <2>2. QueueGuarded'
    BY <1>1, <1>2, <1>4 DEF StageInv, RingInv, QueueGuarded, Guarded, StageTypeOK
  <2>3. ClaimsHold'
    BY <1>1, <1>2 DEF StageInv, RingInv, ClaimsHold, StageTypeOK
  <2>4. TookClaimed'
    BY <1>1, <1>2 DEF StageInv, RingInv, TookClaimed, StageTypeOK, Tile
  <2>5. WantIsFree'
    BY <1>1 DEF WantIsFree
  <2> QED BY <2>1, <2>2, <2>3, <2>4, <2>5 DEF RingInv
<1>6. DispatchInv'
  <2> SUFFICES ASSUME ~failed PROVE CardsAgree' /\ PassAgrees'
    BY <1>1 DEF DispatchInv, Building
  <2>1. CardsAgree /\ PassAgrees
    BY <1>1 DEF StageInv, DispatchInv, Building
  <2>2. Experts' = Experts \cup {x} /\ Pending = todo \cup {x} /\ Pending' = todo
    BY <1>1 DEF Experts, Pending, x
  <2>3. ~Full
    BY <1>2 DEF Full
  <2>4. \A y : Claims(y) \subseteq Claims(y)'
    BY <1>1, <1>2 DEF Claims, StageInv, StageTypeOK
  <2>5. Staged \subseteq Staged' /\ Staged' \subseteq sel
    BY <1>1, <2>4 DEF Staged
  <2>6. CardsAgree'
    <3>1. CASE dv = 1
      BY <1>1, <2>1, <3>1 DEF CardsAgree, StageInv, StageTypeOK
    <3>2. CASE dv # 1
      <4>1. 1 \in Card /\ 1 < dv
        BY <3>2, StageAssumption DEF StageInv, StageTypeOK
      <4>2. Staged = sel
        BY <2>1, <2>3, <4>1 DEF CardsAgree
      <4>3. Staged' = Staged /\ sel' = sel
        BY <1>1, <2>5, <4>2
      <4> QED BY <1>1, <2>1, <4>2, <4>3 DEF CardsAgree
    <3> QED BY <3>1, <3>2
  <2>7. PassAgrees'
    BY <1>1, <2>1, <2>2, <2>3 DEF PassAgrees
  <2> QED BY <2>6, <2>7
<1> QED
  BY <1>3, <1>5, <1>6 DEF StageInv

\* The invariant across FetchFails, which leaves the slot without a name.
LEMMA FetchFailsStep ==
  ASSUME StageInv, FetchFails
  PROVE  StageInv'
<1> DEFINE s == want[2]
<1>1. /\ hpc = "fetch" /\ hpc' = "member" /\ failed'
      /\ idx' = [idx EXCEPT ![s] = None] /\ armed' = [armed EXCEPT ![s] = FALSE]
      /\ UNCHANGED <<claimed, ev, bytes, cardVars, begun, sel, dv, handled, given, todo, took, want>>
  BY DEF FetchFails
<1>2. s \in StageSlot /\ ~claimed[s] /\ (~armed[s] \/ Signalled(s))
  BY <1>1 DEF StageInv, StageTypeOK, RingInv, WantIsFree
<1> HIDE DEF s
<1> USE DEF cardVars
<1>3. StageTypeOK'
  BY <1>1, <1>2 DEF StageInv, StageTypeOK, FetchFails
<1>4. QueueGuarded'
  <2> SUFFICES ASSUME NEW c \in Card, NEW i \in 1..Len(queue[c]), NEW p \in queue[c][i]
               PROVE  Guarded(c, i, p)'
    BY <1>1 DEF QueueGuarded
  <2>1. p \in Tile /\ done[c] \in Nat /\ i \in Nat \ {0} /\ ev[s][c] \in Nat
    <3>1. queue[c] \in Seq(SUBSET Tile)
      BY DEF StageInv, StageTypeOK
    <3>2. queue[c][i] \in SUBSET Tile
      BY <3>1, ElementOfSeq
    <3>3. i \in Nat \ {0}
      BY <3>1, LenProperties
    <3>4. done[c] \in Nat /\ ev[s][c] \in Nat
      BY <1>2 DEF StageInv, StageTypeOK
    <3> QED BY <3>2, <3>3, <3>4
  <2>2. Guarded(c, i, p)
    BY DEF StageInv, RingInv, QueueGuarded
  <2>3. p[2] # s
    BY <1>2, <2>1, <2>2 DEF Guarded, Signalled
  <2> QED BY <1>1, <2>1, <2>2, <2>3 DEF Guarded, StageInv, StageTypeOK, Tile
<1>5. RingInv'
  <2>1. QueueCounts'
    BY <1>1 DEF StageInv, RingInv, QueueCounts
  <2>2. ClaimsHold'
    BY <1>1, <1>2 DEF StageInv, RingInv, ClaimsHold, StageTypeOK
  <2>3. TookClaimed'
    BY <1>1, <1>2 DEF StageInv, RingInv, TookClaimed, StageTypeOK, Tile
  <2>4. WantIsFree'
    BY <1>1 DEF WantIsFree
  <2> QED BY <1>4, <2>1, <2>2, <2>3, <2>4 DEF RingInv
<1> QED
  BY <1>1, <1>3, <1>5 DEF StageInv, DispatchInv

\* The invariant across Begin.
LEMMA BeginStep ==
  ASSUME StageInv, NEW S \in SUBSET Expert, Begin(S)
  PROVE  StageInv'
<1> USE DEF Begin, ringVars, cardVars
<1>1. StageTypeOK'
  <2>1. 1 \in Card
    BY StageAssumption
  <2>2. given' \in [Card -> SUBSET Expert] /\ sel' \subseteq Expert /\ todo' \subseteq Expert
    OBVIOUS
  <2>3. begun' \in Nat
    BY DEF StageInv, StageTypeOK
  <2> QED BY <2>1, <2>2, <2>3 DEF StageInv, StageTypeOK
<1>2. TookClaimed' /\ WantIsFree'
  BY DEF TookClaimed, WantIsFree
<1>3. RingInv'
  BY <1>2, RingStands DEF StageInv
<1>4. CardsAgree' /\ PassAgrees'
  <2>1. CardsAgree'
    BY DEF CardsAgree
  <2>2. PassAgrees'
    BY DEF PassAgrees, Pending, Experts
  <2> QED BY <2>1, <2>2
<1>5. DispatchInv'
  BY <1>4 DEF DispatchInv, Building
<1> QED
  BY <1>1, <1>3, <1>5 DEF StageInv

\* The invariant across Launch.
LEMMA LaunchStep ==
  ASSUME StageInv, Launch
  PROVE  StageInv'
<1> USE DEF Launch, ringVars
<1>1. dv \in Card /\ took \subseteq Tile /\ \A c \in Card : queue[c] \in Seq(SUBSET Tile) /\ launched[c] \in Nat /\ done[c] \in Nat
  BY DEF StageInv, StageTypeOK
<1>2. /\ \A c \in Card : queue'[c] = IF c = dv /\ took # {} THEN Append(queue[c], took) ELSE queue[c]
      /\ \A c \in Card : launched'[c] = IF c = dv /\ took # {} THEN launched[c] + 1 ELSE launched[c]
      /\ queue' = [c \in Card |-> queue'[c]] /\ launched' = [c \in Card |-> launched'[c]]
  BY DEF StageInv, StageTypeOK
<1>3. Experts \subseteq Expert
  BY <1>1 DEF Experts, Tile
<1>4. StageTypeOK'
  <2>1. \A c \in Card : queue'[c] \in Seq(SUBSET Tile) /\ launched'[c] \in Nat
    <3> HIDE DEF Launch
    <3> TAKE c \in Card
    <3>1. Append(queue[c], took) \in Seq(SUBSET Tile)
      BY <1>1, AppendProperties
    <3>2. queue'[c] \in Seq(SUBSET Tile)
      BY <1>1, <1>2, <3>1
    <3>3. launched[c] \in Nat /\ launched[c] + 1 \in Nat
      BY <1>1
    <3> QED BY <1>2, <3>2, <3>3
  <2>2. queue' \in [Card -> Seq(SUBSET Tile)] /\ launched' \in [Card -> Nat]
    BY <1>2, <2>1
  <2>3. given' \in [Card -> SUBSET Expert] /\ handled' \subseteq Expert
    BY <1>3 DEF StageInv, StageTypeOK
  <2>4. todo' \subseteq Expert /\ hpc' \in {"member", "arm"} /\ took' \subseteq Tile
    BY DEF StageInv, StageTypeOK
  <2>5. dv' \in Card
    <3>1. dv' = dv \/ (dv # NCard /\ dv' = dv + 1)
      OBVIOUS
    <3> HIDE DEF Launch
    <3> QED BY <1>1, <3>1, StageAssumption
  <2> QED
    BY <2>2, <2>3, <2>4, <2>5 DEF StageInv, StageTypeOK
<1>5. RingInv'
  <2>1. QueueCounts'
    <3> SUFFICES ASSUME NEW c \in Card PROVE launched'[c] = done[c] + Len(queue'[c])
      BY DEF QueueCounts
    <3>1. launched[c] = done[c] + Len(queue[c])
      BY DEF StageInv, RingInv, QueueCounts
    <3>2. Len(queue[c]) \in Nat /\ Len(Append(queue[c], took)) = Len(queue[c]) + 1
      BY <1>1, AppendProperties, LenProperties
    <3>3. launched[c] \in Nat /\ done[c] \in Nat
      BY <1>1
    <3> HIDE DEF Launch
    <3> QED BY <1>2, <3>1, <3>2, <3>3
  <2>2. QueueGuarded'
    <3> SUFFICES ASSUME NEW c \in Card, NEW i \in 1..Len(queue'[c]), NEW p \in queue'[c][i]
                 PROVE  Guarded(c, i, p)
      BY DEF QueueGuarded, Guarded
    <3>1. Len(queue[c]) \in Nat /\ Len(Append(queue[c], took)) = Len(queue[c]) + 1
      BY <1>1, AppendProperties, LenProperties
    <3>2. CASE i \in 1..Len(queue[c])
      <4>1. queue'[c][i] = queue[c][i]
        BY <1>1, <1>2, <3>2, AppendProperties
      <4> QED BY <3>2, <4>1 DEF StageInv, RingInv, QueueGuarded
    <3>3. CASE i \notin 1..Len(queue[c])
      <4>1. c = dv /\ took # {} /\ i = Len(queue[c]) + 1
        BY <1>2, <3>1, <3>3
      <4>2. queue'[c][i] = took
        BY <1>1, <1>2, <4>1, AppendProperties
      <4>3. p \in took /\ p[2] \in StageSlot
        BY <1>1, <4>2 DEF Tile
      <4> QED BY <4>3 DEF StageInv, RingInv, TookClaimed, ClaimsHold, Guarded
    <3> QED BY <3>2, <3>3
  <2>3. ClaimsHold' /\ TookClaimed' /\ WantIsFree'
    BY DEF StageInv, RingInv, ClaimsHold, TookClaimed, WantIsFree
  <2> QED BY <2>1, <2>2, <2>3 DEF RingInv
<1>6. DispatchInv'
  <2> SUFFICES ASSUME ~failed PROVE DispatchInv'
    BY DEF DispatchInv
  <2>1. CardsAgree /\ PassAgrees /\ Pending = {}
    BY DEF StageInv, DispatchInv, Building, Pending
  <2>2. Experts = Staged /\ (Staged = sel \/ Full)
    <3>1. Experts \subseteq Staged
      <4> SUFFICES ASSUME NEW p \in took PROVE p[1] \in Staged
        BY DEF Experts
      <4>1. p[2] \in Claims(p[1])
        BY <1>1 DEF StageInv, RingInv, TookClaimed, Claims, Tile
      <4>2. p[1] \in sel
        BY <2>1 DEF PassAgrees, Experts
      <4> QED BY <4>1, <4>2 DEF Staged
    <3>2. Staged \subseteq Experts
      BY <2>1 DEF PassAgrees, Staged
    <3>3. Staged \subseteq sel
      BY DEF Staged
    <3> QED BY <2>1, <3>1, <3>2, <3>3 DEF PassAgrees
  <2>3. handled' = Staged
    BY <2>1, <2>2 DEF CardsAgree
  <2>4. \A c \in Card : c <= dv => given'[c] = Staged
    <3> TAKE c \in Card
    <3>1. given' = [given EXCEPT ![dv] = Experts] /\ given \in [Card -> SUBSET Expert]
      BY DEF StageInv, StageTypeOK
    <3>2. CASE c = dv
      BY <1>1, <2>2, <3>1, <3>2
    <3>3. CASE c # dv
      BY <1>1, <2>1, <3>1, <3>3 DEF CardsAgree
    <3> QED BY <3>2, <3>3
  <2>5. Staged' = Staged /\ Full' = Full /\ Staged \subseteq sel
    BY ClaimsStand DEF Staged
  <2>6. CASE dv = NCard
    <3>1. hpc' = "arm"
      BY <2>6
    <3>2. \A c \in Card : given'[c] = handled'
      BY <2>3, <2>4, <2>6
    <3> QED BY <2>3, <2>5, <3>1, <3>2 DEF DispatchInv, Building
  <2>7. CASE dv # NCard
    <3>1. hpc' = "member" /\ dv' = dv + 1 /\ todo' = sel /\ took' = {} /\ sel' = sel
      BY <2>7
    <3>2. CardsAgree'
      <4>1. \A c \in Card : c < dv' => c <= dv
        BY <1>1, <3>1
      <4>2. dv' # 1
        BY <1>1, <3>1
      <4> QED BY <2>2, <2>3, <2>4, <2>5, <3>1, <4>1, <4>2 DEF CardsAgree
    <3>3. PassAgrees'
      BY <3>1 DEF PassAgrees, Pending, Experts
    <3> QED BY <3>1, <3>2, <3>3 DEF DispatchInv, Building
  <2> QED BY <2>6, <2>7
<1> QED
  BY <1>4, <1>5, <1>6 DEF StageInv

\* The invariant across GrowFails.
LEMMA GrowFailsStep ==
  ASSUME StageInv, GrowFails
  PROVE  StageInv'
<1> USE DEF GrowFails, ringVars, cardVars
<1>1. StageTypeOK'
  <2>1. Experts \subseteq Expert
    BY DEF StageInv, StageTypeOK, Tile, Experts
  <2> QED BY <2>1 DEF StageInv, StageTypeOK
<1>2. TookClaimed' /\ WantIsFree'
  BY DEF StageInv, RingInv, TookClaimed, WantIsFree
<1>3. RingInv'
  BY <1>2, RingStands DEF StageInv
<1> QED
  BY <1>1, <1>3 DEF StageInv, DispatchInv

\* The invariant across Arm: each slot's events lie behind the launches that read it.
LEMMA ArmStep ==
  ASSUME StageInv, Arm
  PROVE  StageInv'
<1> USE DEF Arm, cardVars, passVars
<1>1. /\ \A s \in StageSlot : ev'[s] = IF claimed[s] THEN launched ELSE ev[s]
      /\ \A s \in StageSlot : armed'[s] = (armed[s] \/ claimed[s]) /\ ~claimed'[s]
  OBVIOUS
<1>2. StageTypeOK'
  <2>1. ev' \in [StageSlot -> [Card -> Nat]]
    BY DEF StageInv, StageTypeOK
  <2>2. armed' \in [StageSlot -> BOOLEAN] /\ claimed' \in [StageSlot -> BOOLEAN]
    BY DEF StageInv, StageTypeOK
  <2> QED BY <2>1, <2>2 DEF StageInv, StageTypeOK
<1>3. QueueGuarded'
  <2> SUFFICES ASSUME NEW c \in Card, NEW i \in 1..Len(queue[c]), NEW p \in queue[c][i]
               PROVE  Guarded(c, i, p)'
    BY DEF QueueGuarded
  <2>1. queue[c] \in Seq(SUBSET Tile)
    BY DEF StageInv, StageTypeOK
  <2>2. p[2] \in StageSlot /\ i \in Nat /\ Len(queue[c]) \in Nat /\ i <= Len(queue[c])
    BY <2>1, ElementOfSeq, LenProperties DEF Tile
  <2>3. Guarded(c, i, p) /\ launched[c] = done[c] + Len(queue[c])
    BY DEF StageInv, RingInv, QueueGuarded, QueueCounts
  <2>4. done[c] \in Nat
    BY DEF StageInv, StageTypeOK
  <2>5. CASE claimed[p[2]]
    <3>1. ev'[p[2]] = launched /\ armed'[p[2]]
      BY <1>1, <2>2, <2>5
    <3>2. done[c] + i <= launched[c]
      <4> HIDE DEF Arm
      <4> QED BY <2>2, <2>3, <2>4
    <3> QED BY <2>3, <3>1, <3>2 DEF Guarded
  <2>6. CASE ~claimed[p[2]]
    BY <1>1, <2>2, <2>3, <2>6 DEF Guarded
  <2> QED BY <2>5, <2>6
<1>4. RingInv'
  <2>1. QueueCounts'
    BY DEF StageInv, RingInv, QueueCounts
  <2>2. took = {}
    BY DEF StageInv, RingInv, WantIsFree
  <2>3. ClaimsHold' /\ TookClaimed' /\ WantIsFree'
    BY <1>1, <2>2 DEF ClaimsHold, TookClaimed, WantIsFree
  <2> QED BY <1>3, <2>1, <2>3 DEF RingInv
<1>5. DispatchInv'
  BY DEF StageInv, DispatchInv, Building
<1> QED
  BY <1>2, <1>4, <1>5 DEF StageInv

\* The invariant across Accept.
LEMMA AcceptStep ==
  ASSUME StageInv, Accept
  PROVE  StageInv'
<1> USE DEF Accept, ringVars, cardVars, passVars
<1>1. StageTypeOK'
  BY DEF StageInv, StageTypeOK
<1>2. TookClaimed' /\ WantIsFree'
  BY DEF StageInv, RingInv, TookClaimed, WantIsFree
<1>3. RingInv'
  BY <1>2, RingStands DEF StageInv
<1>4. DispatchInv'
  BY DEF StageInv, DispatchInv, Building
<1> QED
  BY <1>1, <1>3, <1>4 DEF StageInv

\* The invariant across CardDone.
LEMMA CardDoneStep ==
  ASSUME StageInv, NEW c \in Card, CardDone(c)
  PROVE  StageInv'
<1> USE DEF ringVars, passVars
<1>u. UNCHANGED <<ringVars, launched, passVars, hpc, todo, took, want>>
  BY DEF CardDone
<1>1. /\ queue[c] \in Seq(SUBSET Tile) /\ queue[c] # <<>> /\ Len(queue[c]) \in Nat
      /\ \A d \in Card : done[d] \in Nat /\ queue[d] \in Seq(SUBSET Tile)
  BY LenProperties DEF CardDone, StageInv, StageTypeOK
<1>2. \A d \in Card : /\ queue'[d] = IF d = c THEN Tail(queue[d]) ELSE queue[d]
                      /\ done'[d] = IF d = c THEN done[d] + 1 ELSE done[d]
  BY DEF CardDone, StageInv, StageTypeOK
<1>3. /\ Tail(queue[c]) \in Seq(SUBSET Tile) /\ Len(Tail(queue[c])) = Len(queue[c]) - 1
      /\ \A i \in 1..(Len(queue[c]) - 1) : Tail(queue[c])[i] = queue[c][i + 1]
  BY <1>1, HeadTailProperties
<1>4. StageTypeOK'
  <2>1. queue' \in [Card -> Seq(SUBSET Tile)]
    BY <1>3 DEF CardDone, StageInv, StageTypeOK
  <2>2. done' \in [Card -> Nat]
    BY DEF CardDone, StageInv, StageTypeOK
  <2>3. StageTypeOK
    BY DEF StageInv
  <2> QED BY ONLY <1>u, <2>1, <2>2, <2>3 DEF StageTypeOK
<1>5. \A i \in Nat : done'[c] + i = done[c] + (i + 1)
  <2>1. done[c] \in Nat /\ done'[c] = done[c] + 1
    BY <1>1, <1>2
  <2> QED BY ONLY <2>1
<1>6. RingInv'
  <2>1. QueueCounts'
    <3> SUFFICES ASSUME NEW d \in Card PROVE launched[d] = done'[d] + Len(queue'[d])
      BY <1>u DEF QueueCounts
    <3>1. launched[d] = done[d] + Len(queue[d]) /\ done[d] \in Nat
      BY <1>1 DEF StageInv, RingInv, QueueCounts
    <3>2. CASE d # c
      BY <1>2, <3>1, <3>2
    <3>3. CASE d = c
      <4>1. Len(Tail(queue[c])) \in Nat /\ launched[c] \in Nat
        BY <1>3, LenProperties DEF StageInv, StageTypeOK
      <4>2. launched[c] = (done[c] + 1) + Len(Tail(queue[c]))
        BY <1>1, <1>3, <3>1, <3>3, <4>1
      <4> QED BY <1>2, <3>3, <4>2
    <3> QED BY <3>2, <3>3
  <2>2. QueueGuarded'
    <3> SUFFICES ASSUME NEW d \in Card, NEW i \in 1..Len(queue'[d]), NEW p \in queue'[d][i]
                 PROVE  Guarded(d, i, p)'
      BY <1>u DEF QueueGuarded
    <3>1. CASE d # c
      BY <1>u, <1>2, <3>1 DEF StageInv, RingInv, QueueGuarded, Guarded
    <3>2. CASE d = c
      <4>1. i + 1 \in 1..Len(queue[c]) /\ p \in queue[c][i + 1] /\ i \in Nat
        <5>1. queue'[c] = Tail(queue[c]) /\ i \in 1..(Len(queue[c]) - 1)
          BY <1>1, <1>2, <1>3, <3>2
        <5>2. Tail(queue[c])[i] = queue[c][i + 1]
          BY <1>3, <5>1
        <5> QED BY <1>1, <3>2, <5>1, <5>2
      <4>2. Guarded(c, i + 1, p)
        BY <4>1 DEF StageInv, RingInv, QueueGuarded
      <4>3. done'[c] + i = done[c] + (i + 1)
        BY <1>5, <4>1
      <4> QED BY <1>u, <3>2, <4>2, <4>3 DEF Guarded
    <3> QED BY <3>1, <3>2
  <2>3. ClaimsHold' /\ TookClaimed'
    BY <1>u DEF StageInv, RingInv, ClaimsHold, TookClaimed
  <2>4. WantIsFree'
    <3>1. \A s \in StageSlot : Signalled(s) => Signalled(s)'
      <4> SUFFICES ASSUME NEW s \in StageSlot, Signalled(s), NEW d \in Card
                   PROVE  done'[d] >= ev[s][d]
        BY <1>u DEF Signalled
      <4>1. done[d] >= ev[s][d] /\ ev[s][d] \in Nat
        BY DEF Signalled, StageInv, StageTypeOK
      <4> QED BY <1>1, <1>2, <4>1
    <3>2. want[2] \in StageSlot
      BY DEF StageInv, StageTypeOK
    <3> QED BY <1>u, <3>1, <3>2 DEF StageInv, RingInv, WantIsFree
  <2> QED BY <2>1, <2>2, <2>3, <2>4 DEF RingInv
<1>7. DispatchInv'
  <2>1. UNCHANGED <<Staged, Full, Experts, Pending>>
    BY <1>u, ClaimsStand DEF Experts, Pending
  <2>2. ~failed /\ Building => CardsAgree' /\ PassAgrees'
    <3> SUFFICES ASSUME ~failed, Building PROVE CardsAgree' /\ PassAgrees'
      OBVIOUS
    <3>1. CardsAgree /\ PassAgrees
      BY DEF StageInv, DispatchInv
    <3> QED BY <1>u, <2>1, <3>1, ClaimsStand DEF CardsAgree, PassAgrees
  <2> QED BY <1>u, <2>2 DEF StageInv, DispatchInv, Building
<1> QED
  BY <1>4, <1>6, <1>7 DEF StageInv

\* The invariant is inductive.
LEMMA StageStep == StageInv /\ [StageNext]_stageVars => StageInv'
<1> SUFFICES ASSUME StageInv, [StageNext]_stageVars PROVE StageInv'
  OBVIOUS
<1>1. CASE UNCHANGED stageVars
  <2>1. UNCHANGED <<ringVars, cardVars, passVars, hpc, todo, took, want>>
    BY <1>1 DEF stageVars
  <2>2. UNCHANGED <<Staged, Full, Experts, Pending>> /\ \A x : Claims(x)' = Claims(x)
    BY <2>1, ClaimsStand DEF Experts, Pending, ringVars, passVars
  <2>3. StageTypeOK'
    BY <2>1 DEF StageInv, StageTypeOK, ringVars, cardVars, passVars
  <2>4. RingInv'
    BY <2>1, RingStands DEF StageInv, RingInv, TookClaimed, WantIsFree, Signalled, ringVars, cardVars
  <2>5. UNCHANGED <<CardsAgree, PassAgrees, Building>>
    BY <2>1, <2>2 DEF CardsAgree, PassAgrees, Building, passVars
  <2>6. DispatchInv'
    BY <2>1, <2>5 DEF StageInv, DispatchInv, passVars
  <2> QED BY <2>3, <2>4, <2>6 DEF StageInv
<1>2. CASE HostNext
  BY <1>2, HitStep, PickStep, WaitOverStep, DeclineStep, FetchStep, FetchFailsStep,
     BeginStep, LaunchStep, GrowFailsStep, ArmStep, AcceptStep DEF HostNext
<1>3. CASE \E c \in Card : CardDone(c)
  BY <1>3, CardDoneStep
<1> QED
  BY <1>1, <1>2, <1>3 DEF StageNext

\* StageInv holds in every reachable state.
THEOREM StageInvariance == StageSpec => []StageInv
BY StageInitInv, StageStep, PTL DEF StageSpec

\* Type correctness.
THEOREM StageTypeCorrect == StageSpec => []StageTypeOK
<1>1. StageInv => StageTypeOK
  BY DEF StageInv
<1> QED
  BY <1>1, StageInvariance, PTL

\* ssd_stage: whatever is queued on a card still finds its expert's bytes in the slot
\* it was given.
THEOREM SlotsHoldTheirExperts == StageSpec => []SlotHoldsItsExpert
<1>1. StageInv => SlotHoldsItsExpert
  <2> SUFFICES ASSUME StageInv PROVE SlotHoldsItsExpert
    OBVIOUS
  <2>1. \A p \in took : p[2] \in StageSlot
    BY DEF StageInv, StageTypeOK, Tile
  <2> QED
    BY <2>1 DEF StageInv, RingInv, QueueGuarded, Guarded, TookClaimed, ClaimsHold, SlotHoldsItsExpert
<1> QED
  BY <1>1, StageInvariance, PTL

\* ssd_stage: a dispatch the caller accepts, with nothing failed in it, gave every
\* card every expert that was selected.
THEOREM AcceptedIsComplete == StageSpec => []EveryCardRunsAll
<1>1. StageInv => EveryCardRunsAll
  BY DEF StageInv, DispatchInv, EveryCardRunsAll
<1> QED
  BY <1>1, StageInvariance, PTL

HIDE DEF Card, StageSlot

-----------------------------------------------------------------------------
(* Start-up: what main's returns destroy, and in which order.               *)

\* main's locals in the order they are declared, and how many there are at each stage.
Declared == <<"model", "dense_gpu", "prefix_cache", "dash_guard", "grow_guard", "draft_pool",
           "draft_placement", "host_pool", "placement", "keepalive", "server">>
Locals(n) == [i \in 1..n |-> Declared[i]]

LiveInv ==
  /\ \E n \in 0..11 :
       /\ live = Locals(n)
       /\ step \in {"args", "dense"} => n = 0
       /\ step = "dash" => n = 3
       /\ step \in {"model", "draft", "kv", "arenas", "prefix", "draftslab"} => n = 5
       /\ step = "profile" => n = 7
       /\ step \in {"place", "draftpool", "pool", "engine", "keepalive"} => n = 9
       /\ step = "run" => n = 10
       /\ step = "serve" => n = 11
       /\ "grower" \in threads => n >= 5
       /\ "writer" \in threads => n >= 3
       /\ "moves" \in threads => n >= 9
       /\ "heartbeat" \in threads => n >= 10

\* What is declared next comes next in the order.
LEMMA DeclaresInOrder ==
  ASSUME NEW n \in Nat, NEW T, NEW objects \in Seq(T), live = Locals(n), Declares(objects),
         \A i \in 1..Len(objects) : objects[i] = Declared[n + i]
  PROVE  live' = Locals(n + Len(objects))
<1> DEFINE S == T \cup {Declared[i] : i \in 1..n}
<1>1. live \in Seq(S) /\ Len(live) = n /\ objects \in Seq(S)
  BY DEF Locals
<1> HIDE DEF S
<1>2. /\ live' \in Seq(S) /\ Len(live') = n + Len(objects)
      /\ \A i \in 1..(n + Len(objects)) : live'[i] = IF i <= n THEN live[i] ELSE objects[i - n]
  <2>1. live' = live \o objects
    BY DEF Declares
  <2>2. /\ live \o objects \in Seq(S) /\ Len(live \o objects) = Len(live) + Len(objects)
        /\ \A i \in 1..(Len(live) + Len(objects)) :
             (live \o objects)[i] = IF i <= Len(live) THEN live[i] ELSE objects[i - Len(live)]
    BY ONLY <1>1, ConcatProperties
  <2> QED BY <1>1, <2>1, <2>2
<1>3. Len(objects) \in Nat
  BY <1>1, LenProperties
<1>4. \A i \in 1..(n + Len(objects)) : live'[i] = Declared[i]
  <2> TAKE i \in 1..(n + Len(objects))
  <2>1. CASE i <= n
    BY <1>2, <2>1 DEF Locals
  <2>2. CASE i > n
    <3>1. i - n \in 1..Len(objects) /\ n + (i - n) = i
      BY <1>3, <2>2
    <3>2. objects[i - n] = Declared[n + (i - n)]
      BY <3>1
    <3> QED BY <1>2, <2>2, <3>1, <3>2
  <2> QED BY <2>1, <2>2
<1>5. live' = [i \in 1..(n + Len(objects)) |-> live'[i]]
  BY <1>2, LenProperties
<1> QED BY <1>4, <1>5 DEF Locals

\* One, two or three of them.
LEMMA DeclaresOne ==
  ASSUME NEW n \in Nat, NEW a, live = Locals(n), Declares(<<a>>),
         Declared[n + 1] = a
  PROVE  live' = Locals(n + 1)
<1>1. <<a>> \in Seq({a}) /\ Len(<<a>>) = 1
  OBVIOUS
<1>2. \A i \in 1..1 : <<a>>[i] = Declared[n + i]
  <2> TAKE i \in 1..1
  <2>1. CASE i = 1
    BY <2>1
  <2> QED BY <2>1
<1> QED BY <1>1, <1>2, DeclaresInOrder

\* Two at once.
LEMMA DeclaresTwo ==
  ASSUME NEW n \in Nat, NEW a, NEW b, live = Locals(n), Declares(<<a, b>>),
         Declared[n + 1] = a, Declared[n + 2] = b
  PROVE  live' = Locals(n + 2)
<1>1. <<a, b>> \in Seq({a, b}) /\ Len(<<a, b>>) = 2
  OBVIOUS
<1>2. \A i \in 1..2 : <<a, b>>[i] = Declared[n + i]
  <2> TAKE i \in 1..2
  <2>1. CASE i = 1
    BY <2>1
  <2>2. CASE i = 2
    BY <2>2
  <2> QED BY <2>1, <2>2
<1> QED BY <1>1, <1>2, DeclaresInOrder

\* Three at once.
LEMMA DeclaresThree ==
  ASSUME NEW n \in Nat, NEW a, NEW b, NEW c, live = Locals(n), Declares(<<a, b, c>>),
         Declared[n + 1] = a, Declared[n + 2] = b, Declared[n + 3] = c
  PROVE  live' = Locals(n + 3)
<1>1. <<a, b, c>> \in Seq({a, b, c}) /\ Len(<<a, b, c>>) = 3
  OBVIOUS
<1>2. \A i \in 1..3 : <<a, b, c>>[i] = Declared[n + i]
  <2> TAKE i \in 1..3
  <2>1. CASE i = 1
    BY <2>1
  <2>2. CASE i = 2
    BY <2>2
  <2>3. CASE i = 3
    BY <2>3
  <2> QED BY <2>1, <2>2, <2>3
<1> QED BY <1>1, <1>2, DeclaresInOrder

\* The invariant holds over every step.
LEMMA LiveStep == opts \in CommandLines /\ LiveInv /\ [StartupNext]_svars => LiveInv'
<1> SUFFICES ASSUME opts \in CommandLines, LiveInv, [StartupNext]_svars PROVE LiveInv'
  OBVIOUS
<1>0. PICK n \in 0..11 :
       /\ live = Locals(n)
       /\ step \in {"args", "dense"} => n = 0
       /\ step = "dash" => n = 3
       /\ step \in {"model", "draft", "kv", "arenas", "prefix", "draftslab"} => n = 5
       /\ step = "profile" => n = 7
       /\ step \in {"place", "draftpool", "pool", "engine", "keepalive"} => n = 9
       /\ step = "run" => n = 10
       /\ step = "serve" => n = 11
       /\ "grower" \in threads => n >= 5
       /\ "writer" \in threads => n >= 3
       /\ "moves" \in threads => n >= 9
       /\ "heartbeat" \in threads => n >= 10
  BY DEF LiveInv
<1> DEFINE Stands(m) ==
       /\ m \in 0..11 /\ live' = Locals(m)
       /\ step' \in {"args", "dense"} => m = 0
       /\ step' = "dash" => m = 3
       /\ step' \in {"model", "draft", "kv", "arenas", "prefix", "draftslab"} => m = 5
       /\ step' = "profile" => m = 7
       /\ step' \in {"place", "draftpool", "pool", "engine", "keepalive"} => m = 9
       /\ step' = "run" => m = 10
       /\ step' = "serve" => m = 11
       /\ "grower" \in threads' => m >= 5
       /\ "writer" \in threads' => m >= 3
       /\ "moves" \in threads' => m >= 9
       /\ "heartbeat" \in threads' => m >= 10
<1>1. ASSUME NEW m, Stands(m) PROVE LiveInv'
  BY <1>1 DEF LiveInv, Locals
<1> HIDE DEF LiveInv
<1>2. CASE UNCHANGED svars
  BY <1>0, <1>1, <1>2 DEF svars
<1>3. CASE ParseArgs
  <2>1. step = "args" /\ step' \in {"unwind", "dense"} /\ UNCHANGED <<live, threads>>
    BY <1>3 DEF ParseArgs, Returns, Goes, CommandLines
  <2> QED BY <1>0, <1>1, <2>1
<1>4. CASE BringUpDense
  <2>1. step = "dense" /\ step' \in {"unwind", "dash"} /\ UNCHANGED threads
        /\ Declares(<<"model", "dense_gpu", "prefix_cache">>)
    BY <1>4 DEF BringUpDense, Fatal, Returns, Goes
  <2>2. live' = Locals(0 + 3)
    BY <1>0, <2>1, DeclaresThree DEF Declared
  <2>3. Stands(3)
    BY <1>0, <2>1, <2>2
  <2> QED BY <1>1, <2>3
<1>5. CASE StartDash
  <2>1. CASE UNCHANGED live /\ step' = "unwind"
    <3>1. UNCHANGED threads
      BY <1>5, <2>1 DEF StartDash, Goes, Returns
    <3> QED BY <1>0, <1>1, <2>1, <3>1
  <2>2. CASE ~(UNCHANGED live /\ step' = "unwind")
    <3>1. step = "dash" /\ step' = "model" /\ Declares(<<"dash_guard", "grow_guard">>)
          /\ threads' \subseteq threads \cup {"renderer"}
      BY <1>5, <2>2 DEF StartDash, Goes, Returns, Starts
    <3>2. live' = Locals(3 + 2)
      BY <1>0, <3>1, DeclaresTwo DEF Declared
    <3>3. Stands(5)
      BY <1>0, <3>1, <3>2
    <3> QED BY <1>1, <3>3
  <2> QED BY <2>1, <2>2
<1>6. CASE LoadModel \/ LoadDraft \/ Arenas
  <2>1. /\ UNCHANGED <<live, threads>> /\ n = 5
        /\ step' \in {"unwind", "draft", "kv", "prefix"}
    BY <1>0, <1>6 DEF LoadModel, LoadDraft, Arenas, Fatal, Goes, Returns
  <2> QED BY <1>0, <1>1, <2>1
<1>7. CASE AttnInit
  <2>1. step = "kv" /\ step' \in {"unwind", "arenas"} /\ UNCHANGED live /\ threads' \subseteq threads \cup {"grower"}
    BY <1>7 DEF AttnInit, Starts, Goes, Returns
  <2> QED BY <1>0, <1>1, <2>1
<1>8. CASE OpenPrefixCache
  <2>1. step = "prefix" /\ step' \in {"unwind", "draftslab"} /\ UNCHANGED live
        /\ threads' \subseteq threads \cup {"writer"}
    BY <1>8 DEF OpenPrefixCache, Starts, Fatal, Goes, Returns
  <2> QED BY <1>0, <1>1, <2>1
<1>9. CASE PlaceDraft
  <2>1. step = "draftslab" /\ step' \in {"unwind", "profile"} /\ UNCHANGED threads
        /\ Declares(<<"draft_pool", "draft_placement">>)
    BY <1>9 DEF PlaceDraft, Fatal, Goes, Returns
  <2>2. live' = Locals(5 + 2)
    BY <1>0, <2>1, DeclaresTwo DEF Declared
  <2>3. Stands(7)
    BY <1>0, <2>1, <2>2
  <2> QED BY <1>1, <2>3
<1>10. CASE DeclareTiers
  <2>1. step = "profile" /\ step' \in {"unwind", "place"} /\ UNCHANGED threads
        /\ Declares(<<"host_pool", "placement">>)
    BY <1>10 DEF DeclareTiers, Fatal, Goes, Returns
  <2>2. live' = Locals(7 + 2)
    BY <1>0, <2>1, DeclaresTwo DEF Declared
  <2>3. Stands(9)
    BY <1>0, <2>1, <2>2
  <2> QED BY <1>1, <2>3
<1>11. CASE PlaceExperts \/ BuildDraftPool \/ BuildHostPool
  <2>1. CASE PlaceExperts
    BY <1>0, <1>1, <2>1 DEF PlaceExperts, Goes
  <2>2. CASE BuildDraftPool
    <3>1. step = "draftpool" /\ step' \in {"unwind", "pool"} /\ UNCHANGED <<live, threads>>
      BY <2>2 DEF BuildDraftPool, Goes, Fatal, Returns
    <3> QED BY <1>0, <1>1, <3>1
  <2>3. CASE BuildHostPool
    <3>1. step = "pool" /\ step' = "engine" /\ UNCHANGED <<live, threads>>
      BY <2>3 DEF BuildHostPool, Goes
    <3> QED BY <1>0, <1>1, <3>1
  <2> QED BY <1>11, <2>1, <2>2, <2>3
<1>12. CASE StartEngine
  <2>1. step = "engine" /\ step' \in {"unwind", "keepalive"} /\ UNCHANGED live
        /\ threads' \subseteq threads \cup {"moves"}
    BY <1>12 DEF StartEngine, Starts, Fatal, Goes, Returns
  <2> QED BY <1>0, <1>1, <2>1
<1>13. CASE StartKeepalive
  <2>1. step = "keepalive" /\ step' = "run" /\ Declares(<<"keepalive">>)
        /\ threads' \subseteq threads \cup {"heartbeat"}
    BY <1>13 DEF StartKeepalive, Starts, Goes
  <2>2. live' = Locals(9 + 1)
    BY <1>0, <2>1, DeclaresOne DEF Declared
  <2>3. Stands(10)
    BY <1>0, <2>1, <2>2
  <2> QED BY <1>1, <2>3
<1>14. CASE DumpTopk \/ OneShot \/ Quit
  <2>1. step' = "unwind" /\ UNCHANGED live /\ threads' \subseteq threads
    BY <1>14 DEF DumpTopk, OneShot, Quit, Returns
  <2> QED BY <1>0, <1>1, <2>1
<1>15. CASE StartServer
  <2>1. step = "run" /\ step' \in {"unwind", "serve"} /\ Declares(<<"server">>)
        /\ threads' \subseteq threads \cup {"accept"}
    BY <1>15 DEF StartServer, Starts, Fatal, Goes, Returns
  <2>2. live' = Locals(10 + 1)
    BY <1>0, <2>1, DeclaresOne DEF Declared
  <2>3. Stands(11)
    BY <1>0, <2>1, <2>2
  <2> QED BY <1>1, <2>3
<1>16. CASE (\E k \in Connection : Connect(k) \/ Disconnect(k)) \/ AcceptEnds
  <2>1. UNCHANGED <<step, live>> /\ threads' \subseteq threads \cup Connection
    BY <1>16 DEF Connect, Disconnect, AcceptEnds, Starts
  <2>2. \A t \in {"grower", "writer", "moves", "heartbeat"} : t \in threads' => t \in threads
    BY <2>1, StartupAssumption
  <2> QED BY <1>0, <1>1, <2>1, <2>2
<1>17. CASE Unwind
  <2>1. CASE live = <<>>
    BY <1>0, <1>1, <1>17, <2>1 DEF Unwind
  <2>2. CASE live # <<>>
    <3>1. n # 0 /\ Len(live) = n /\ live[n] = Declared[n]
      BY <1>0, <2>2 DEF Locals
    <3>2. live' = Locals(n - 1)
      <4>1. live' = SubSeq(live, 1, n - 1)
        BY <1>17, <2>2, <3>1 DEF Unwind
      <4>2. live' = [i \in 1..(n - 1) |-> live[i]]
        BY <1>0, <3>1, <4>1 DEF Locals
      <4> QED BY <1>0, <3>1, <4>2 DEF Locals
    <3>3. step = "unwind" /\ step' = "unwind"
          /\ threads' = threads \ (IF Declared[n] \in DOMAIN Owns THEN Owns[Declared[n]] ELSE {})
      BY <1>17, <2>2, <3>1 DEF Unwind
    <3>4. /\ n = 5 => "grower" \notin threads'
          /\ n = 3 => "writer" \notin threads'
          /\ n = 9 => "moves" \notin threads'
          /\ n = 10 => "heartbeat" \notin threads'
      BY <3>3 DEF Declared, Owns
    <3>5. Stands(n - 1)
      BY <1>0, <3>1, <3>2, <3>3, <3>4
    <3> QED BY <1>1, <3>5
  <2> QED BY <2>1, <2>2
<1> QED
  BY <1>2, <1>3, <1>4, <1>5, <1>6, <1>7, <1>8, <1>9, <1>10, <1>11, <1>12, <1>13, <1>14, <1>15, <1>16, <1>17
     DEF StartupNext

\* The command line is what was given, but for the prefix cache.
LEMMA OptionsStep ==
  opts \in CommandLines /\ [StartupNext]_svars => opts' \in CommandLines
<1> SUFFICES ASSUME opts \in CommandLines, [StartupNext]_svars PROVE opts' \in CommandLines
  OBVIOUS
<1>1. CASE AttnInit
  BY <1>1 DEF AttnInit, CommandLines
<1>2. CASE ~AttnInit
  <2>1. UNCHANGED opts
    BY <1>2 DEF StartupNext, svars, ParseArgs, BringUpDense, StartDash, LoadModel, LoadDraft, Arenas,
       OpenPrefixCache, PlaceDraft, DeclareTiers, PlaceExperts, BuildDraftPool, BuildHostPool,
       StartEngine, StartKeepalive, DumpTopk, OneShot, StartServer, Connect, Disconnect, Quit,
       AcceptEnds, Unwind
  <2> QED BY <2>1
<1> QED BY <1>1, <1>2

\* affinity.cpp:794 and 1156: whichever of main's returns is taken, no thread and no copy
\* in flight outlives an object it touches.
THEOREM ThreadsAreJoinedFirst == StartupSpec => []JoinedBeforeDestroyed
<1>1. StartupInit => opts \in CommandLines /\ LiveInv
  <2> SUFFICES ASSUME StartupInit PROVE opts \in CommandLines /\ LiveInv
    OBVIOUS
  <2>1. live = Locals(0)
    BY DEF StartupInit, Locals
  <2>2. step = "args" /\ threads = {}
    BY DEF StartupInit
  <2>3. LiveInv
    BY <2>1, <2>2 DEF LiveInv
  <2> QED BY <2>3, StartupAssumption DEF StartupInit
<1>2. LiveInv => JoinedBeforeDestroyed
  <2> SUFFICES ASSUME LiveInv, NEW t \in threads \cap DOMAIN Touches PROVE Touches[t] \subseteq Alive
    BY DEF JoinedBeforeDestroyed
  <2>1. PICK n \in 0..11 :
          /\ live = Locals(n)
          /\ "grower" \in threads => n >= 5
          /\ "writer" \in threads => n >= 3
          /\ "moves" \in threads => n >= 9
          /\ "heartbeat" \in threads => n >= 10
    BY DEF LiveInv
  <2>2. \A i \in 1..n : Declared[i] \in Alive
    BY <2>1 DEF Alive, Locals
  <2>3. /\ n >= 3 => {"dense_gpu", "prefix_cache"} \subseteq Alive
        /\ n >= 9 => {"host_pool", "placement"} \subseteq Alive
        /\ n >= 10 => "keepalive" \in Alive
    BY <2>2 DEF Declared
  <2>4. t \in {"grower", "writer", "moves", "heartbeat"}
    BY DEF Touches
  <2> QED BY <2>1, <2>3, <2>4 DEF Touches
<1> DEFINE I == opts \in CommandLines /\ LiveInv
<1>3. I /\ [StartupNext]_svars => I'
  BY OptionsStep, LiveStep DEF CommandLines
<1>4. StartupInit => I
  BY <1>1
<1>5. I => JoinedBeforeDestroyed
  BY <1>2
<1> HIDE DEF I
<1> QED BY <1>3, <1>4, <1>5, PTL DEF StartupSpec

-----------------------------------------------------------------------------
(* Start-up: where the draft's experts are.                                *)

Elements(s) == {s[i] : i \in 1..Len(s)}

\* Appending adds one element.
LEMMA AppendAdds ==
  ASSUME NEW S, NEW s \in Seq(S), NEW e \in S
  PROVE  Append(s, e) \in Seq(S) /\ Elements(Append(s, e)) = Elements(s) \cup {e}
<1>1. /\ Append(s, e) \in Seq(S) /\ Len(Append(s, e)) = Len(s) + 1
      /\ \A i \in 1..Len(s) : Append(s, e)[i] = s[i]
      /\ Append(s, e)[Len(s) + 1] = e
  BY AppendProperties
<1>2. Len(s) \in Nat /\ 1..(Len(s) + 1) = 1..Len(s) \cup {Len(s) + 1}
  BY LenProperties
<1> QED BY ONLY <1>1, <1>2 DEF Elements

\* f filters s as a loop does, over the indices not in out.
Filters(f, s, out) ==
  f = [i \in 0..Len(s) |-> IF i = 0 THEN <<>> ELSE IF i \in out THEN f[i - 1] ELSE Append(f[i - 1], s[i])]

\* What the filter keeps, and a relation that any two elements of a sequence are in, in
\* their order.
Remain(s, out) == {s[i] : i \in (1..Len(s)) \ out}
Ordered(s, R) == \A j, k \in 1..Len(s) : j < k => <<s[j], s[k]>> \in R

\* A filter written as a recursive function is a function: the least index from which it
\* could not be continued has one before it.
LEMMA FilterExists ==
  ASSUME NEW S, NEW s \in Seq(S), NEW out
  PROVE  \E f : Filters(f, s, out)
<1> DEFINE N == Len(s)
<1> DEFINE Next(f, i) == IF i = 0 THEN <<>> ELSE IF i \in out THEN f[i - 1] ELSE Append(f[i - 1], s[i])
<1> DEFINE Follows(f, m) == f = [i \in 0..m |-> Next(f, i)]
<1> DEFINE Possible(m) == \E f : Follows(f, m)
<1>1. N \in Nat
  BY LenProperties
<1>2. Possible(N)
  <2> DEFINE Bad == {m \in 0..N : ~Possible(m)}
  <2> HIDE DEF Possible
  <2> SUFFICES ASSUME N \in Bad PROVE FALSE
    BY <1>1
  <2>1. Bad \subseteq Nat /\ Bad # {}
    BY <1>1
  <2>2. PICK m \in Bad : \A y \in Bad : m <= y
    BY <2>1, NatMin
  <2>3. m \in Nat /\ m <= N /\ ~Possible(m)
    BY <1>1, <2>2
  <2>4. CASE m = 0
    <3> DEFINE f == [i \in 0..0 |-> <<>>]
    <3>1. Follows(f, 0)
      OBVIOUS
    <3> QED BY <2>3, <2>4, <3>1 DEF Possible
  <2>5. CASE m # 0
    <3>1. m - 1 \in 0..N /\ m - 1 \notin Bad
      BY <1>1, <2>2, <2>3, <2>5
    <3>2. PICK f : Follows(f, m - 1)
      BY <3>1 DEF Possible
    <3> DEFINE g == [i \in 0..m |-> IF i < m THEN f[i] ELSE Next(f, m)]
    <3>3. \A i \in 0..m : g[i] = Next(g, i)
      <4> TAKE i \in 0..m
      <4>1. CASE i = 0
        BY <2>3, <2>5, <3>2, <4>1
      <4>2. CASE i # 0
        <5>1. i - 1 \in 0..m /\ i - 1 < m /\ g[i - 1] = f[i - 1]
          BY <2>3, <4>2
        <5>2. CASE i = m
          BY <2>3, <5>1, <5>2, <4>2
        <5>3. CASE i # m
          <6>1. i \in 0..(m - 1) /\ g[i] = f[i]
            BY <2>3, <5>3
          <6> QED BY <3>2, <4>2, <5>1, <6>1
        <5> QED BY <5>2, <5>3
      <4> QED BY <4>1, <4>2
    <3>4. g = [i \in 0..m |-> g[i]]
      OBVIOUS
    <3> HIDE DEF g, Next
    <3>5. Follows(g, m)
      BY <3>3, <3>4
    <3> QED BY <2>3, <3>5 DEF Possible
  <2> QED BY <2>4, <2>5
<1> QED BY <1>2 DEF Filters

\* What a filter keeps, and in which order.
LEMMA FilterIs ==
  ASSUME NEW S, NEW s \in Seq(S), NEW out, NEW R, NEW f, Filters(f, s, out)
  PROVE  /\ f[Len(s)] \in Seq(S) /\ Elements(f[Len(s)]) = Remain(s, out)
         /\ Ordered(s, R) => Ordered(f[Len(s)], R)
<1> DEFINE N == Len(s)
<1> DEFINE Next(i) == IF i = 0 THEN <<>> ELSE IF i \in out THEN f[i - 1] ELSE Append(f[i - 1], s[i])
<1>1. N \in Nat
  BY LenProperties
<1>2. f[0] = <<>> /\ \A i \in 1..N : f[i] = IF i \in out THEN f[i - 1] ELSE Append(f[i - 1], s[i])
  <2>1. \A i \in 0..N : f[i] = Next(i)
    <3>1. f = [i \in 0..N |-> Next(i)]
      BY DEF Filters
    <3> HIDE DEF Next
    <3> QED BY <3>1
  <2>2. 0 \in 0..N /\ \A i \in 1..N : i \in 0..N /\ i # 0
    BY <1>1
  <2> QED BY <2>1, <2>2
<1> DEFINE Right(m) ==
      /\ f[m] \in Seq(S) /\ Elements(f[m]) = {s[i] : i \in (1..m) \ out}
      /\ Ordered(s, R) => Ordered(f[m], R)
<1>3. Right(0)
  <2>1. <<>> \in Seq(S) /\ 1..Len(<<>>) = {} /\ 1..0 = {}
    OBVIOUS
  <2> QED BY <1>2, <2>1 DEF Elements, Ordered
<1>4. ASSUME NEW m \in 1..N, Right(m - 1) PROVE Right(m)
  <2>1. m \in Nat /\ s[m] \in S /\ m \in 1..m /\ \A i \in 1..m : i = m \/ i \in 1..(m - 1)
    BY <1>1, ElementOfSeq
  <2>2. 1..(m - 1) \subseteq 1..m /\ m \notin 1..(m - 1) /\ \A i \in 1..(m - 1) : i \in 1..N /\ i < m
    BY <1>1
  <2>3. CASE m \in out
    <3>1. (1..m) \ out = (1..(m - 1)) \ out
      BY <2>1, <2>2, <2>3
    <3>2. f[m] = f[m - 1]
      BY <1>2, <2>3
    <3> QED BY <1>4, <3>1, <3>2
  <2>4. CASE m \notin out
    <3> DEFINE t == f[m - 1]
    <3> DEFINE e == s[m]
    <3>1. f[m] = Append(t, e)
      BY <1>2, <2>4
    <3>2. (1..m) \ out = ((1..(m - 1)) \ out) \cup {m}
      BY <2>1, <2>2, <2>4
    <3>3. ASSUME Ordered(s, R) PROVE \A x \in Elements(t) : <<x, e>> \in R
      <4> TAKE x \in Elements(t)
      <4>1. PICK i \in (1..(m - 1)) \ out : x = s[i]
        BY <1>4
      <4> QED BY <1>1, <2>2, <3>3, <4>1 DEF Ordered
    <3>4. t \in Seq(S) /\ e \in S /\ Len(t) \in Nat
      BY <1>4, <2>1, LenProperties
    <3> HIDE DEF t, e
    <3>5. Append(t, e) \in Seq(S) /\ Elements(Append(t, e)) = Elements(t) \cup {e}
      BY <3>4, AppendAdds
    <3>6. /\ Len(Append(t, e)) = Len(t) + 1
          /\ \A i \in 1..Len(t) : Append(t, e)[i] = t[i]
          /\ Append(t, e)[Len(t) + 1] = e
      BY <3>4, AppendProperties
    <3>7. Elements(t) = {s[i] : i \in (1..(m - 1)) \ out} /\ (Ordered(s, R) => Ordered(t, R))
      BY <1>4 DEF t
    <3>8. ASSUME Ordered(s, R)
          PROVE  \A j, k \in 1..(Len(t) + 1) : j < k => <<Append(t, e)[j], Append(t, e)[k]>> \in R
      <4> TAKE j, k \in 1..(Len(t) + 1)
      <4> SUFFICES ASSUME j < k PROVE <<Append(t, e)[j], Append(t, e)[k]>> \in R
        OBVIOUS
      <4>1. j \in 1..Len(t)
        BY <3>4
      <4>2. CASE k = Len(t) + 1
        BY <3>3, <3>6, <3>8, <4>1, <4>2 DEF Elements
      <4>3. CASE k # Len(t) + 1
        <5>1. k \in 1..Len(t)
          BY ONLY <3>4, <4>3, k \in 1..(Len(t) + 1)
        <5> QED BY <3>6, <3>7, <3>8, <4>1, <5>1 DEF Ordered
      <4> QED BY <4>2, <4>3
    <3>9. Elements(Append(t, e)) = {s[i] : i \in (1..m) \ out}
      BY <3>2, <3>5, <3>7 DEF e
    <3> QED BY <3>1, <3>5, <3>6, <3>8, <3>9 DEF Ordered
  <2> QED BY <2>3, <2>4
<1>5. Right(N)
  <2> DEFINE Bad == {m \in 0..N : ~Right(m)}
  <2> HIDE DEF Right
  <2> SUFFICES ASSUME N \in Bad PROVE FALSE
    BY <1>1
  <2>1. Bad \subseteq Nat /\ Bad # {}
    BY <1>1
  <2>2. PICK m \in Bad : \A y \in Bad : m <= y
    BY <2>1, NatMin
  <2>3. m \in 1..N /\ m - 1 \in 0..N /\ m - 1 \notin Bad /\ ~Right(m)
    BY <1>1, <1>3, <2>2
  <2> QED BY <1>4, <2>3
<1> QED BY <1>5 DEF Remain

\* What a filter over the rank keeps.
LEMMA OthersAre ==
  ASSUME NEW S, NEW rank \in Seq(S), NEW set
  PROVE  /\ Others(rank, set) \in Seq(S)
         /\ Elements(Others(rank, set)) = Elements(rank) \ set
<1> DEFINE N == Len(rank)
<1> DEFINE out == {i \in 1..N : rank[i] \in set}
<1> DEFINE kept == CHOOSE f : f = [i \in 0..N |->
                     IF i = 0 THEN <<>> ELSE IF rank[i] \in set THEN f[i - 1] ELSE Append(f[i - 1], rank[i])]
<1>1. N \in Nat /\ \A i \in 0..N : i # 0 => (i \in out <=> rank[i] \in set)
  BY LenProperties
<1> DEFINE Loop(f) == f = [i \in 0..N |->
                     IF i = 0 THEN <<>> ELSE IF rank[i] \in set THEN f[i - 1] ELSE Append(f[i - 1], rank[i])]
<1>2. ASSUME NEW f PROVE Filters(f, rank, out) <=> Loop(f)
  <2> HIDE DEF out
  <2> QED BY <1>1 DEF Filters
<1>3. \E f : Filters(f, rank, out)
  <2> HIDE DEF out
  <2> QED BY FilterExists
<1>4. Loop(kept)
  <2>1. \E f : Loop(f)
    BY <1>2, <1>3
  <2> QED BY <2>1
<1>5. Others(rank, set) = kept[N]
  BY DEF Others
<1> HIDE DEF kept
<1>6. kept[N] \in Seq(S) /\ Elements(kept[N]) = Remain(rank, out)
  <2>1. Filters(kept, rank, out)
    BY <1>2, <1>4
  <2> HIDE DEF out
  <2> QED BY <2>1, FilterIs
<1>7. Remain(rank, out) = Elements(rank) \ set
  BY DEF Elements, Remain
<1> QED BY <1>5, <1>6, <1>7

\* The layer that spills most spills a number of experts.
LEMMA WorstIsNat ==
  ASSUME NEW left \in Seq(Nat \X Nat), left # <<>>, NEW pooled
  PROVE  worst(left, pooled) \in Nat
<1> DEFINE spilled(l) == Cardinality({i \in DOMAIN left : i > pooled /\ left[i][1] = l})
<1> DEFINE layers == {left[i][1] : i \in DOMAIN left}
<1> DEFINE counts == {spilled(l) : l \in layers}
<1>1. Len(left) \in Nat /\ DOMAIN left = 1..Len(left) /\ 1 \in DOMAIN left
  BY LenProperties, EmptySeq
<1>2. IsFiniteSet(1..Len(left)) /\ Cardinality(1..Len(left)) = Len(left)
  BY <1>1, FS_Interval
<1>3. \A l \in layers : spilled(l) \in 0..Len(left)
  <2> TAKE l \in layers
  <2> DEFINE part == {i \in DOMAIN left : i > pooled /\ left[i][1] = l}
  <2>1. part \in SUBSET (1..Len(left))
    BY <1>1
  <2> HIDE DEF part
  <2>2. Cardinality(part) \in Nat /\ Cardinality(part) <= Len(left)
    BY <1>2, <2>1, FS_Subset, FS_CardinalityType
  <2> QED BY <1>1, <2>2 DEF part
<1> HIDE DEF spilled
<1>4. counts # {} /\ counts \subseteq 0..Len(left)
  BY <1>1, <1>3
<1> HIDE DEF counts
<1> DEFINE below == {n \in 0..Len(left) : Len(left) - n \in counts}
<1>5. below \subseteq Nat /\ below # {}
  <2>1. PICK n \in counts : TRUE
    BY <1>4
  <2>2. n \in 0..Len(left) /\ Len(left) - n \in 0..Len(left) /\ Len(left) - (Len(left) - n) = n
    BY <1>1, <1>4
  <2>3. Len(left) - n \in below
    BY <2>2
  <2> QED BY <1>1, <2>3
<1>6. PICK b \in below : \A y \in below : b <= y
  BY <1>5, NatMin
<1>7. \A n \in counts : n <= Len(left) - b
  <2> TAKE n \in counts
  <2>1. n \in 0..Len(left) /\ Len(left) - n \in 0..Len(left) /\ Len(left) - (Len(left) - n) = n
    BY <1>1, <1>4
  <2>2. Len(left) - n \in below
    BY <2>1
  <2>3. b <= Len(left) - n /\ b \in 0..Len(left)
    BY <1>6, <2>2
  <2> HIDE DEF below
  <2> QED BY <1>1, <2>1, <2>3
<1>8. Len(left) - b \in counts
  BY <1>1, <1>6
<1>9. (CHOOSE n \in counts : \A l \in layers : spilled(l) <= n) \in counts
  <2>1. \A l \in layers : spilled(l) <= Len(left) - b
    BY <1>7 DEF counts
  <2> QED BY <1>8, <2>1
<1>10. counts \subseteq Nat
  BY <1>1, <1>4
<1>11. worst(left, pooled) = CHOOSE n \in counts : \A l \in layers : spilled(l) <= n
  BY DEF worst, counts, spilled
<1> QED BY <1>9, <1>10, <1>11

\* The ring is a number of slots, and no more than there are.
LEMMA RingFits ==
  ASSUME NEW left \in Seq(Nat \X Nat), left # <<>>, NEW fit \in Nat, NEW n_stage \in Nat
  PROVE  Ring(fit, n_stage, left) \in Nat /\ Ring(fit, n_stage, left) <= fit
<1>1. \A pooled : need(n_stage, worst(left, pooled)) \in Nat
  <2> TAKE pooled
  <2>1. worst(left, pooled) \in Nat
    BY WorstIsNat
  <2> QED BY <2>1 DEF need, Lesser
<1> DEFINE pooled(ring) == Lesser((fit - ring) % Wrap, Len(left))
<1> DEFINE first == need(n_stage, worst(left, pooled(0)))
<1> DEFINE second == need(n_stage, worst(left, pooled(first)))
<1> DEFINE ring == IF n_stage = 0 THEN 0 ELSE IF second > first THEN second ELSE first
<1>2. first \in Nat /\ second \in Nat
  BY <1>1
<1>3. Ring(fit, n_stage, left) = IF ring > fit THEN 0 ELSE ring
  BY DEF Ring
<1> HIDE DEF first, second
<1> QED BY <1>2, <1>3

\* A pool with nothing left on disk holds each expert it was asked for in a slot of its
\* own, before the staging ring.
LEMMA WholePool ==
  ASSUME NEW left \in Seq(Nat \X Nat), NEW budget \in Nat, NEW avail \in Nat, NEW reserve \in Nat,
         NEW n_stage \in Nat, NEW unread,
         init(left, budget, avail, reserve, n_stage, unread).on,
         init(left, budget, avail, reserve, n_stage, unread).ssd = 0
  PROVE  LET p == init(left, budget, avail, reserve, n_stage, unread)
         IN /\ DOMAIN p.slot = Elements(left)
            /\ \A x, y \in DOMAIN p.slot : x # y => p.slot[x] # p.slot[y]
            /\ \A x \in DOMAIN p.slot, i \in 0..(p.n_stage - 1) : p.slot[x] # stage_slot(p, i)
<1> DEFINE p == init(left, budget, avail, reserve, n_stage, unread)
<1> DEFINE fit == Clamped(budget, avail, reserve)
<1> DEFINE ring == Ring(fit, n_stage, left)
<1> DEFINE n_pool == Lesser(fit - ring, Len(left))
<1> DEFINE held == {i \in 1..n_pool : i \notin unread}
<1> DEFINE slot == [x \in {left[i] : i \in held} |-> (CHOOSE i \in held : left[i] = x) - 1]
<1>1. left # <<>> /\ n_pool # 0
  BY DEF init, NoPool
<1>2. p = [on |-> TRUE, n_pool |-> n_pool, n_stage |-> ring, slot |-> slot,
           ssd |-> Len(left) - Cardinality(held)]
  BY <1>1 DEF init
<1>3. fit \in Nat
  BY DEF Clamped, ceiling
<1>4. ring \in Nat /\ ring <= fit
  <2> HIDE DEF fit
  <2> QED BY <1>1, <1>3, RingFits
<1> HIDE DEF fit, ring, p
<1>5. n_pool \in Nat /\ n_pool <= Len(left) /\ Len(left) \in Nat
  BY <1>3, <1>4, LenProperties DEF Lesser
<1> HIDE DEF n_pool
<1>6. IsFiniteSet(1..n_pool) /\ Cardinality(1..n_pool) = n_pool /\ held \in SUBSET (1..n_pool)
  <2>1. IsFiniteSet(1..n_pool) /\ Cardinality(1..n_pool) = IF 1 > n_pool THEN 0 ELSE n_pool - 1 + 1
    BY <1>5, FS_Interval
  <2>2. held \in SUBSET (1..n_pool)
    OBVIOUS
  <2> QED BY <1>5, <2>1, <2>2
<1>7. Cardinality(held) = Len(left)
  <2>1. p.ssd = Len(left) - Cardinality(held) /\ p.ssd = 0
    BY <1>2 DEF p
  <2>2. Cardinality(held) \in Nat
    BY <1>6, FS_Subset, FS_CardinalityType
  <2> QED BY <1>5, <2>1, <2>2
<1>8. held = 1..Len(left) /\ n_pool = Len(left)
  <2>1. Cardinality(held) <= n_pool /\ (Cardinality(held) = n_pool => held = 1..n_pool)
    BY <1>6, FS_Subset
  <2> QED BY <1>5, <1>7, <2>1
<1> HIDE DEF held
<1> DEFINE at(x) == CHOOSE i \in held : left[i] = x
<1>9. \A x \in {left[i] : i \in held} : at(x) \in held /\ left[at(x)] = x
  OBVIOUS
<1> HIDE DEF at
<1>10. \A x \in {left[i] : i \in held} : slot[x] = at(x) - 1
  BY DEF at
<1>11. DOMAIN slot = {left[i] : i \in held} /\ p.slot = slot /\ p.n_pool = n_pool /\ p.n_stage = ring
  BY <1>2
<1> HIDE DEF slot
<1>12. \A x \in DOMAIN slot : at(x) \in 1..n_pool /\ left[at(x)] = x /\ slot[x] = at(x) - 1
  BY <1>8, <1>9, <1>10, <1>11
<1>13. \A x, y \in DOMAIN slot : x # y => slot[x] # slot[y]
  <2> TAKE x, y \in DOMAIN slot
  <2>1. slot[x] = at(x) - 1 /\ slot[y] = at(y) - 1 /\ left[at(x)] = x /\ left[at(y)] = y
        /\ at(x) \in Nat /\ at(y) \in Nat
    BY <1>5, <1>12
  <2> QED BY <2>1
<1>14. \A x \in DOMAIN slot, i \in 0..(ring - 1) : slot[x] # n_pool + i
  <2> TAKE x \in DOMAIN slot, i \in 0..(ring - 1)
  <2>1. slot[x] = at(x) - 1 /\ at(x) \in 1..n_pool
    BY <1>12
  <2> QED BY <1>4, <1>5, <2>1
<1>15. DOMAIN slot = Elements(left)
  BY <1>8, <1>11 DEF Elements
<1> QED BY <1>11, <1>13, <1>14, <1>15 DEF p, stage_slot

DraftExperts == Elements(DraftRank)
Whole ==
  /\ DraftExperts = draft_resident \cup DOMAIN draft_pool.slot
  /\ draft_resident \cap DOMAIN draft_pool.slot = {}
  /\ \A x, y \in DOMAIN draft_pool.slot : x # y => draft_pool.slot[x] # draft_pool.slot[y]
  /\ \A x \in DOMAIN draft_pool.slot, i \in 0..(draft_pool.n_stage - 1) :
       draft_pool.slot[x] # stage_slot(draft_pool, i)

\* Before the draft's pool the slab holds some of the draft, or all of it; after it the
\* two hold all.
Unplaced == {"args", "dense", "dash", "model", "draft", "kv", "arenas", "prefix", "draftslab"}
Slabbed == {"profile", "place", "draftpool"}
Pooled == {"pool", "engine", "keepalive", "run", "serve"}
DraftTiers ==
  /\ opts \in CommandLines
  /\ step \in Unplaced \cup Slabbed \cup Pooled \cup {"unwind", "gone"}
  /\ step \in Unplaced \cup Slabbed => mem \in Nat /\ draft_pool = NoPool
  /\ step \in Slabbed /\ Draft =>
       /\ draft_resident \subseteq DraftExperts
       /\ opts.dspark = "ram" \/ draft_resident = DraftExperts
  /\ step \in Pooled /\ Draft => Whole

\* What the pool adds to the slab.
LEMMA PoolCompletes ==
  ASSUME DraftTiers, BuildDraftPool PROVE DraftTiers'
<1>1. /\ step = "draftpool" /\ step' \in {"unwind", "pool"} /\ UNCHANGED <<opts, draft_resident>>
      /\ draft_pool = NoPool /\ mem \in Nat /\ opts \in CommandLines
      /\ Draft => draft_resident \subseteq DraftExperts /\ (opts.dspark = "ram" \/ draft_resident = DraftExperts)
  BY DEF DraftTiers, BuildDraftPool, Goes, Fatal, Returns, Unplaced, Slabbed, Pooled
<1>2. (Draft <=> Draft') /\ opts' \in CommandLines
  BY <1>1 DEF Draft
<1>3. ASSUME step' = "pool", Draft PROVE Whole'
  <2>1. CASE opts.dspark # "ram"
    <3>1. draft_pool' = NoPool /\ draft_resident' = DraftExperts
      BY <1>1, <1>3, <2>1 DEF BuildDraftPool
    <3> QED BY <3>1 DEF Whole, NoPool, DraftExperts
  <2>2. CASE opts.dspark = "ram"
    <3> DEFINE left == Others(DraftRank, draft_resident)
    <3>1. PICK unread \in SUBSET (1..Len(left)), set \in BOOLEAN :
            LET p == init(left, Len(left) + DraftRing, mem, Reserve, DraftRing, unread) IN
            /\ draft_pool' = p /\ mem' = mem - slots(p)
            /\ Fatal(p.on /\ set /\ p.ssd = 0, "pool")
      BY <1>3, <2>2 DEF BuildDraftPool
    <3> DEFINE p == init(left, Len(left) + DraftRing, mem, Reserve, DraftRing, unread)
    <3>2. draft_pool' = p /\ p.on /\ p.ssd = 0
      BY <1>3, <3>1 DEF Fatal, Returns
    <3>3. left \in Seq(Nat \X Nat) /\ Elements(left) = DraftExperts \ draft_resident
      BY StartupAssumption, OthersAre DEF DraftExperts
    <3>4. Len(left) + DraftRing \in Nat /\ DraftRing \in Nat /\ Reserve \in Nat
      BY <3>3, LenProperties, StartupAssumption
    <3> HIDE DEF left
    <3>5. /\ DOMAIN p.slot = Elements(left)
          /\ \A x, y \in DOMAIN p.slot : x # y => p.slot[x] # p.slot[y]
          /\ \A x \in DOMAIN p.slot, i \in 0..(p.n_stage - 1) : p.slot[x] # stage_slot(p, i)
      BY <1>1, <3>2, <3>3, <3>4, WholePool
    <3> HIDE DEF p
    <3>6. draft_resident' = draft_resident /\ draft_resident \subseteq DraftExperts
      BY <1>1, <1>3
    <3> QED BY <3>2, <3>3, <3>5, <3>6 DEF Whole, DraftExperts, stage_slot
  <2> QED BY <2>1, <2>2
<1> HIDE DEF Whole
<1> QED BY <1>1, <1>2, <1>3 DEF DraftTiers, Unplaced, Slabbed, Pooled

\* What the slab holds of the draft.
LEMMA SlabHolds ==
  ASSUME DraftTiers, PlaceDraft PROVE DraftTiers'
<1>1. /\ step = "draftslab" /\ step' \in {"unwind", "profile"} /\ UNCHANGED <<opts, mem, draft_pool>>
      /\ draft_pool = NoPool /\ mem \in Nat /\ opts \in CommandLines
  BY DEF DraftTiers, PlaceDraft, Goes, Fatal, Returns, Unplaced, Slabbed, Pooled
<1>2. (Draft <=> Draft') /\ opts' \in CommandLines
  BY <1>1 DEF Draft
<1>3. ASSUME step' = "profile", Draft
      PROVE  /\ draft_resident' \subseteq DraftExperts
             /\ opts.dspark = "ram" \/ draft_resident' = DraftExperts
  <2>1. PICK n \in Nat : /\ n <= Len(DraftRank) /\ draft_resident' = Hottest(DraftRank, n)
                         /\ Fatal(n > 0 /\ (opts.dspark = "ram" \/ n = Len(DraftRank)), "profile")
    <3>1. kMinDraftSlots \in Nat /\ Len(DraftRank) \in Nat
      BY StartupAssumption, LenProperties
    <3> QED BY <1>3, <3>1 DEF PlaceDraft
  <2>2. opts.dspark = "ram" \/ n = Len(DraftRank)
    BY <1>3, <2>1 DEF Fatal, Returns
  <2>3. Len(DraftRank) \in Nat
    BY StartupAssumption, LenProperties
  <2> QED BY <2>1, <2>2, <2>3 DEF Hottest, DraftExperts, Elements
<1>4. DraftExperts' = DraftExperts
  BY DEF DraftExperts
<1> HIDE DEF Whole, DraftExperts
<1> QED BY <1>1, <1>2, <1>3, <1>4 DEF DraftTiers, Unplaced, Slabbed, Pooled

\* Every other step leaves the draft's tiers, and goes on from where it is.
LEMMA DraftTiersStep == DraftTiers /\ [StartupNext]_svars => DraftTiers'
<1> SUFFICES ASSUME DraftTiers, [StartupNext]_svars PROVE DraftTiers'
  OBVIOUS
<1> DEFINE Goal == Unplaced \cup Slabbed \cup Pooled \cup {"unwind", "gone"}
<1>0. opts \in CommandLines /\ opts' \in CommandLines
  BY OptionsStep DEF DraftTiers
<1>1. ASSUME (Draft <=> Draft'), UNCHANGED <<draft_resident, draft_pool>>, step' \in Goal,
             step' \in Unplaced \cup Slabbed => mem' = mem /\ step \in Unplaced \cup Slabbed,
             step' \in Slabbed => step \in Slabbed /\ opts'.dspark = opts.dspark,
             step' \in Pooled => step \in Pooled
      PROVE  DraftTiers'
  <2>1. Whole' <=> Whole
    BY <1>1 DEF Whole, DraftExperts, stage_slot
  <2>2. DraftExperts' = DraftExperts
    BY DEF DraftExperts
  <2> HIDE DEF Whole, DraftExperts, Draft
  <2> QED BY <1>0, <1>1, <2>1, <2>2 DEF DraftTiers
<1>2. CASE UNCHANGED svars
  BY <1>1, <1>2 DEF svars, Draft, DraftTiers
<1>3. CASE AttnInit
  <2>1. step = "kv" /\ step' \in {"unwind", "arenas"} /\ UNCHANGED <<draft_resident, draft_pool, mem>>
    BY <1>3 DEF AttnInit, Goes, Returns, tierVars
  <2>2. Draft <=> Draft'
    BY <1>0, <1>3 DEF AttnInit, Draft, CommandLines
  <2> QED BY <1>1, <2>1, <2>2 DEF Unplaced, Slabbed, Pooled
<1>4. CASE PlaceDraft
  BY <1>4, SlabHolds
<1>5. CASE BuildDraftPool
  BY <1>5, PoolCompletes
<1>6. CASE ParseArgs \/ BringUpDense \/ StartDash \/ LoadModel \/ LoadDraft \/ Arenas \/ OpenPrefixCache
  <2>1. /\ step \in Unplaced /\ step' \in {"unwind", "dense", "dash", "model", "draft", "kv", "prefix", "draftslab"}
        /\ UNCHANGED <<opts, draft_resident, draft_pool, mem>>
    BY <1>0, <1>6 DEF ParseArgs, BringUpDense, StartDash, LoadModel, LoadDraft, Arenas, OpenPrefixCache,
       Goes, Returns, Fatal, tierVars, Unplaced, CommandLines
  <2>2. Draft <=> Draft'
    BY <2>1 DEF Draft
  <2> QED BY <1>1, <2>1, <2>2 DEF Unplaced, Slabbed, Pooled
<1>7. CASE DeclareTiers \/ PlaceExperts
  <2>1. /\ step \in {"profile", "place"} /\ step' \in {"unwind", "place", "draftpool"}
        /\ UNCHANGED <<opts, draft_resident, draft_pool, mem>>
    BY <1>7 DEF DeclareTiers, PlaceExperts, Goes, Returns, Fatal, tierVars
  <2>2. Draft <=> Draft'
    BY <2>1 DEF Draft
  <2> QED BY <1>1, <2>1, <2>2 DEF Unplaced, Slabbed, Pooled
<1>8. CASE BuildHostPool \/ StartEngine \/ StartKeepalive \/ StartServer
  <2>1. /\ step \in Pooled /\ step' \in {"unwind", "engine", "keepalive", "run", "serve"}
        /\ UNCHANGED <<opts, draft_resident, draft_pool>>
    BY <1>8 DEF BuildHostPool, StartEngine, StartKeepalive, StartServer, Goes, Returns, Fatal, tierVars, Pooled
  <2>2. Draft <=> Draft'
    BY <2>1 DEF Draft
  <2> QED BY <1>1, <2>1, <2>2 DEF Unplaced, Slabbed, Pooled
<1>9. CASE DumpTopk \/ OneShot \/ Quit \/ Unwind
  <2>1. step' \in {"unwind", "gone"} /\ UNCHANGED <<opts, draft_resident, draft_pool>>
    BY <1>9 DEF DumpTopk, OneShot, Quit, Unwind, Returns, tierVars
  <2>2. Draft <=> Draft'
    BY <2>1 DEF Draft
  <2> QED BY <1>1, <2>1, <2>2 DEF Unplaced, Slabbed, Pooled
<1>10. CASE (\E k \in Connection : Connect(k) \/ Disconnect(k)) \/ AcceptEnds
  <2>1. UNCHANGED <<step, opts, draft_resident, draft_pool, mem>>
    BY <1>10 DEF Connect, Disconnect, AcceptEnds, tierVars
  <2>2. Draft <=> Draft'
    BY <2>1 DEF Draft
  <2> QED BY <1>1, <2>1, <2>2 DEF DraftTiers
<1> QED BY <1>2, <1>3, <1>4, <1>5, <1>6, <1>7, <1>8, <1>9, <1>10 DEF StartupNext

\* affinity.cpp:1318, the draft's tier must be whole: whatever the slab took, the reads
\* that failed and the memory there was, a decode or a server that starts with a draft has
\* each of its experts in VRAM or in a pool slot of its own, clear of the staging ring.
THEOREM DraftStartsWhole == StartupSpec => []DraftIsWhole
<1>1. StartupInit => DraftTiers
  <2> SUFFICES ASSUME StartupInit PROVE DraftTiers
    OBVIOUS
  <2>1. step = "args" /\ opts \in CommandLines /\ mem \in Nat /\ draft_pool = NoPool
    BY StartupAssumption DEF StartupInit
  <2> QED BY <2>1 DEF DraftTiers, Unplaced, Slabbed, Pooled
<1>2. DraftTiers => DraftIsWhole
  <2> SUFFICES ASSUME DraftTiers, Up, Draft PROVE Whole
    <3>1. {DraftRank[i] : i \in DOMAIN DraftRank} = DraftExperts
      BY StartupAssumption, LenProperties DEF DraftExperts, Elements
    <3> QED BY <3>1 DEF DraftIsWhole, Whole
  <2>1. step \in Pooled
    BY DEF Up, Pooled
  <2> QED BY <2>1 DEF DraftTiers
<1> QED BY <1>1, <1>2, DraftTiersStep, PTL DEF StartupSpec

-----------------------------------------------------------------------------
(* The dashboard: who gives the terminal back.                             *)

Entering == {"plain", "handlers", "switch", "arm"}
Talking == {"none", "run", "say", "push", "off"}
Giving == {"join", "leave", "restore"}
Ending == Giving \cup {"replay", "stopped", "summary", "sum up", "push up"}

\* Whoever finds the dashboard running is the one that ends it, and until it has, the
\* screen's state is known: taken while g_active, and in doubt inside enter and leave.
UpInv ==
  /\ running => entered /\ gActive
  /\ \A t \in Talker : upc[t] \in Giving => ~running
  /\ \A t \in Talker : upc[t] \in {"join", "leave"} => entered /\ gActive
  /\ upc["main"] \in Giving => upc["conn"] \notin Giving
  /\ gActive => caught /\ (running \/ In({"join", "leave"}))
  /\ Found \/ gActive \/ In({"handlers", "switch", "arm", "restore"})
  /\ upc["main"] \in Entering => ~gActive /\ ~running /\ upc["conn"] = "none"
  /\ upc["main"] \in Ending => ~running
  /\ upc["main"] \in {"switch", "arm"} => caught

DashInv ==
  /\ upc \in [Talker -> Entering \cup Talking \cup Ending]
  /\ upc["conn"] \notin Entering
  /\ proc = "up" => UpInv
  /\ ScreenGivenBack

\* A step that leaves the screen's state alone, and its thread where it has no part in it.
LEMMA TalkIsHarmless ==
  ASSUME DashInv, NEW t \in Talker, NEW to \in Talking \cup Ending, proc = "up", Moves(t, to),
         UNCHANGED <<running, entered, gActive, caught, onScreen, rawTty, proc>>,
         upc[t] \notin Entering \cup Giving, upc[t] # "none", to \notin Giving,
         to \in Ending => upc[t] \in Ending \/ ~running
  PROVE  DashInv'
<1>1. /\ upc \in [Talker -> Entering \cup Talking \cup Ending] /\ "main" \in Talker /\ "conn" \in Talker
      /\ to \notin Entering
  BY DEF DashInv, Talker, Entering, Talking, Giving, Ending
<1>2. /\ upc' \in [Talker -> Entering \cup Talking \cup Ending]
      /\ \A u \in Talker, place \in Entering \cup Giving : upc'[u] = place <=> upc[u] = place
      /\ upc'["main"] \in Ending => upc["main"] \in Ending \/ ~running
  BY <1>1 DEF Moves
<1>3. \A places \in SUBSET (Entering \cup Giving) :
        /\ \A u \in Talker : upc'[u] \in places <=> upc[u] \in places
        /\ (\E u \in Talker : upc'[u] \in places) <=> In(places)
  BY <1>2 DEF In
<1>4. /\ In({"join", "leave"})' <=> In({"join", "leave"})
      /\ In({"handlers", "switch", "arm", "restore"})' <=> In({"handlers", "switch", "arm", "restore"})
  BY <1>3 DEF In, Entering, Giving
<1>5. Found' <=> Found
  BY DEF Found
<1>6. \A u \in Talker : /\ upc'[u] \in Entering <=> upc[u] \in Entering
                        /\ upc'[u] \in Giving <=> upc[u] \in Giving
                        /\ upc'[u] \in {"join", "leave"} <=> upc[u] \in {"join", "leave"}
                        /\ upc'[u] \in {"switch", "arm"} <=> upc[u] \in {"switch", "arm"}
  BY <1>3 DEF Entering, Giving
<1>7. upc'["main"] \in Entering => upc'["conn"] = "none"
  <2> SUFFICES ASSUME upc'["main"] \in Entering PROVE upc'["conn"] = "none"
    OBVIOUS
  <2>1. upc["main"] \in Entering /\ upc["conn"] = "none"
    BY <1>1, <1>6 DEF DashInv, UpInv
  <2>2. upc'["conn"] = upc["conn"]
    <3>1. t # "conn"
      BY <2>1
    <3> QED BY <1>1, <3>1 DEF Moves
  <2> QED BY <2>1, <2>2
<1>8. UpInv'
  BY <1>1, <1>2, <1>4, <1>5, <1>6, <1>7 DEF DashInv, UpInv
<1> QED BY <1>1, <1>2, <1>6, <1>8 DEF DashInv, ScreenGivenBack

\* A death gives the screen back unless it comes inside enter or leave.
LEMMA DeathGivesBack ==
  ASSUME DashInv, proc = "up", DiesOf(caught), UNCHANGED upc
  PROVE  DashInv'
<1>1. /\ proc' = "killed" /\ upc' = upc
      /\ upc \in [Talker -> Entering \cup Talking \cup Ending] /\ upc["conn"] \notin Entering
  BY DEF DiesOf, DashInv
<1>2. Found \/ gActive \/ In({"handlers", "switch", "arm", "restore"})
  BY DEF DashInv, UpInv
<1>3. Found' \/ (UNCHANGED <<onScreen, rawTty>> /\ ~gActive)
  <2>1. CASE gActive
    BY <2>1 DEF DashInv, UpInv, DiesOf, RestoreNow, Found
  <2>2. CASE ~gActive
    BY <2>2 DEF DiesOf, RestoreNow
  <2> QED BY <2>1, <2>2
<1>4. Found' \/ In({"handlers", "switch", "arm", "restore"})'
  BY <1>1, <1>2, <1>3 DEF Found, In
<1> QED BY <1>1, <1>4 DEF DashInv, ScreenGivenBack

\* The invariant holds over every step.
LEMMA DashStep == DashInv /\ [DashNext]_uiVars => DashInv'
<1> SUFFICES ASSUME DashInv, [DashNext]_uiVars PROVE DashInv'
  OBVIOUS
<1> DEFINE Same == UNCHANGED <<running, entered, gActive, caught, onScreen, rawTty, proc>>
<1>0. /\ upc \in [Talker -> Entering \cup Talking \cup Ending]
      /\ "main" \in Talker /\ "conn" \in Talker
  BY DEF DashInv, Talker
<1>1. CASE UNCHANGED uiVars
  BY <1>1 DEF uiVars, DashInv, UpInv, In, Found, ScreenGivenBack
<1>2. CASE StayPlain
  BY <1>2 DEF StayPlain, Here, Moves, termVars, DashInv, UpInv, In, Found, ScreenGivenBack,
              Entering, Talking, Giving, Ending, Talker
<1>3. CASE EnterRaw
  BY <1>3 DEF EnterRaw, Here, Moves, DashInv, UpInv, In, Found, ScreenGivenBack,
              Entering, Talking, Giving, Ending, Talker
<1>4. CASE Install
  BY <1>4 DEF Install, Here, Moves, termVars, DashInv, UpInv, In, Found, ScreenGivenBack,
              Entering, Talking, Giving, Ending, Talker
<1>5. CASE Switch
  BY <1>5 DEF Switch, Here, Moves, DashInv, UpInv, In, Found, ScreenGivenBack,
              Entering, Talking, Giving, Ending, Talker
<1>6. CASE TakeScreen
  BY <1>6 DEF TakeScreen, Here, Moves, DashInv, UpInv, In, Found, ScreenGivenBack,
              Entering, Talking, Giving, Ending, Talker
<1>7. CASE Connected
  BY <1>7 DEF Connected, Here, Moves, termVars, DashInv, UpInv, In, Found, ScreenGivenBack,
              Entering, Talking, Giving, Ending, Talker
<1>8. ASSUME NEW t \in Talker, Look(t) PROVE DashInv'
  <2>1. Same /\ proc = "up" /\ upc[t] \in {"run", "summary"}
        /\ Moves(t, IF upc[t] = "run" THEN "say" ELSE "sum up")
    BY <1>8 DEF Look, termVars
  <2> QED BY <2>1, TalkIsHarmless DEF Entering, Talking, Giving, Ending
<1>9. ASSUME NEW t \in Talker, ToStream(t) PROVE DashInv'
  <2>1. Same /\ proc = "up" /\ upc[t] \in {"say", "sum up"}
        /\ Moves(t, IF upc[t] = "say" THEN "run" ELSE "summary")
    BY <1>9 DEF ToStream, Back, termVars
  <2> QED BY <2>1, TalkIsHarmless DEF Entering, Talking, Giving, Ending
<1>10. ASSUME NEW t \in Talker, CallSink(t) PROVE DashInv'
  <2>1. CASE gSink
    <3>1. Same /\ proc = "up" /\ upc[t] \in {"say", "sum up"}
          /\ Moves(t, IF upc[t] = "say" THEN "push" ELSE "push up")
      BY <1>10, <2>1 DEF CallSink, termVars
    <3> QED BY <3>1, TalkIsHarmless DEF Entering, Talking, Giving, Ending
  <2>2. CASE ~gSink
    BY <1>10, <2>2, DeathGivesBack DEF CallSink
  <2> QED BY <2>1, <2>2
<1>11. ASSUME NEW t \in Talker, Push(t) PROVE DashInv'
  <2>1. Same /\ proc = "up" /\ upc[t] \in {"push", "push up"}
        /\ Moves(t, IF upc[t] = "push" THEN "run" ELSE "summary")
    BY <1>11 DEF Push, Back, termVars
  <2> QED BY <2>1, TalkIsHarmless DEF Entering, Talking, Giving, Ending
<1>12. ASSUME NEW t \in Talker, Stop(t) PROVE DashInv'
  <2>1. Same /\ proc = "up" /\ upc[t] = "run" /\ Moves(t, "off")
    BY <1>12 DEF Stop, Here, termVars
  <2> QED BY <2>1, TalkIsHarmless DEF Entering, Talking, Giving, Ending
<1>13. ASSUME NEW t \in Talker, Off(t) PROVE DashInv'
  BY <1>13 DEF Off, Here, Moves, termVars, DashInv, UpInv, In, Found, ScreenGivenBack,
              Entering, Talking, Giving, Ending, Talker
<1>14. ASSUME NEW t \in Talker, Join(t) PROVE DashInv'
  BY <1>14 DEF Join, Here, Moves, termVars, DashInv, UpInv, In, Found, ScreenGivenBack,
              Entering, Talking, Giving, Ending, Talker
<1>15. ASSUME NEW t \in Talker, Leave(t) PROVE DashInv'
  BY <1>15 DEF Leave, Here, Moves, DashInv, UpInv, In, Found, ScreenGivenBack,
              Entering, Talking, Giving, Ending, Talker
<1>16. ASSUME NEW t \in Talker, Restore(t) PROVE DashInv'
  BY <1>16 DEF Restore, Here, Moves, DashInv, UpInv, In, Found, ScreenGivenBack,
              Entering, Talking, Giving, Ending, Talker
<1>17. ASSUME NEW t \in Talker, Replay(t) PROVE DashInv'
  <2>1. Same /\ proc = "up" /\ upc[t] = "replay" /\ Moves(t, "stopped")
    BY <1>17 DEF Replay, Here, termVars
  <2> QED BY <2>1, TalkIsHarmless DEF Entering, Talking, Giving, Ending
<1>18. ASSUME NEW t \in Talker, Abort(t) PROVE DashInv'
  BY <1>18, DeathGivesBack DEF Abort, Here
<1>19. CASE \E newline \in BOOLEAN : Tok(newline)
  <2>1. Same /\ UNCHANGED upc
    BY <1>19 DEF Tok, termVars
  <2> QED BY <2>1 DEF DashInv, UpInv, In, Found, ScreenGivenBack
<1>20. CASE RenderEnds
  <2>1. Same /\ UNCHANGED upc
    BY <1>20 DEF RenderEnds, termVars
  <2> QED BY <2>1 DEF DashInv, UpInv, In, Found, ScreenGivenBack
<1>21. CASE SumUp
  <2>1. Same /\ proc = "up" /\ upc["main"] = "stopped" /\ Moves("main", "summary")
    BY <1>21 DEF SumUp, Here, termVars
  <2> QED BY <1>0, <2>1, TalkIsHarmless DEF Entering, Talking, Giving, Ending
<1>22. CASE Return
  BY <1>22 DEF Return, Here, termVars, DashInv, UpInv, In, Found, ScreenGivenBack,
              Entering, Talking, Giving, Ending, Talker
<1>23. CASE Interrupt
  <2>1. CASE caught /\ ~gQuit
    <3>1. Same /\ UNCHANGED upc
      BY <1>23, <2>1 DEF Interrupt, termVars
    <3> QED BY <3>1 DEF DashInv, UpInv, In, Found, ScreenGivenBack
  <2>2. CASE ~(caught /\ ~gQuit)
    BY <1>23, <2>2, DeathGivesBack DEF Interrupt
  <2> QED BY <2>1, <2>2
<1> QED
  BY <1>1, <1>2, <1>3, <1>4, <1>5, <1>6, <1>7, <1>8, <1>9, <1>10, <1>11, <1>12, <1>13, <1>14, <1>15,
     <1>16, <1>17, <1>18, <1>19, <1>20, <1>21, <1>22, <1>23 DEF DashNext

-----------------------------------------------------------------------------
(* The dashboard: where main's lines are.                                  *)

Line == [from : Talker, n : Nat, to : Streams \cup {"token"}]
Own(l) == l.from = "main" /\ l.to # "token"
Owned(s) == {l \in Elements(s) : Own(l)}
Before == {pq \in Line \X Line : Own(pq[1]) /\ Own(pq[2]) => pq[1].n < pq[2].n}
Rising(s) == Ordered(s, Before)
Logged == {[from |-> "main", n |-> k, to |-> said["main"][k]] : k \in 1..Len(said["main"])}
Telling == {"say", "push", "sum up", "push up"}
InHand == IF upc["main"] \in Telling THEN {Latest("main")} ELSE {}

\* Every line of main's is printed, or in the pane, or on its way there, in this order,
\* or dropped.
FlowInv ==
  /\ Owned(printed) \cup Owned(pane) \cup InHand = Logged \ dropped
  /\ \A l \in dropped : l.from = "main" => l.n <= Len(said["main"])
  /\ Rising(printed) /\ Rising(pane)
  /\ \A p \in Owned(printed), q \in Owned(pane) : p.n < q.n
  /\ upc["main"] \in Telling => \A l \in Owned(printed) \cup Owned(pane) : l.n < Len(said["main"])

\* main's lines go to the pane until main turns the sink off and replays them.
SinkInv ==
  /\ gSink \/ Owned(pane) = {} \/ upc["main"] \in Giving \cup {"replay"}
  /\ gSink = running
  /\ upc["main"] \in {"say", "sum up"} => saw["main"] = gSink
  /\ upc["main"] = "push" => gSink
  /\ upc["main"] \in Entering \cup Ending => ~gSink
  /\ upc["main"] # "push up"
  /\ upc["conn"] \in {"none", "run", "say", "push"}

LinesType ==
  /\ upc \in [Talker -> Entering \cup Talking \cup Ending]
  /\ thenDo \in [Talker -> {"none", "return", "abort"}]
  /\ saw \in [Talker -> BOOLEAN] /\ gSink \in BOOLEAN /\ running \in BOOLEAN
  /\ said \in [Talker -> Seq(Streams)] /\ printed \in Seq(Line) /\ pane \in Seq(Line) /\ dropped \subseteq Line
  /\ \A t \in Talker : upc[t] \in Telling => said[t] # <<>>
  /\ \A l \in Elements(printed) : l.to # "token"

\* Another thread that is dying may take the sink away under main.
LinesInv ==
  /\ LinesType
  /\ thenDo["conn"] = "none" => FlowInv /\ SinkInv

\* A line more.
LEMMA OneMore ==
  ASSUME NEW s \in Seq(Line), NEW l \in Line
  PROVE  /\ Append(s, l) \in Seq(Line) /\ Elements(Append(s, l)) = Elements(s) \cup {l}
         /\ Owned(Append(s, l)) = Owned(s) \cup {x \in {l} : Own(x)}
         /\ Rising(s) /\ (Own(l) => \A q \in Owned(s) : q.n < l.n) => Rising(Append(s, l))
<1>1. Append(s, l) \in Seq(Line) /\ Elements(Append(s, l)) = Elements(s) \cup {l}
  BY AppendAdds
<1>2. /\ Len(Append(s, l)) = Len(s) + 1 /\ Len(s) \in Nat
      /\ \A i \in 1..Len(s) : Append(s, l)[i] = s[i] /\ s[i] \in Line
      /\ Append(s, l)[Len(s) + 1] = l
  BY AppendProperties, LenProperties, ElementOfSeq
<1>3. Owned(Append(s, l)) = Owned(s) \cup {x \in {l} : Own(x)}
  BY <1>1 DEF Owned
<1>4. ASSUME Rising(s), Own(l) => \A q \in Owned(s) : q.n < l.n PROVE Rising(Append(s, l))
  <2> DEFINE t == Append(s, l)
  <2> SUFFICES ASSUME NEW j \in 1..Len(t), NEW k \in 1..Len(t), j < k PROVE <<t[j], t[k]>> \in Before
    BY DEF Rising, Ordered
  <2>1. j \in 1..Len(s) /\ t[j] = s[j] /\ s[j] \in Line /\ s[j] \in Elements(s)
    BY <1>2 DEF Elements
  <2>2. CASE k = Len(s) + 1
    <3>1. t[k] = l
      BY <1>2, <2>2
    <3>2. Own(s[j]) /\ Own(l) => s[j].n < l.n
      BY <1>4, <2>1 DEF Owned
    <3> QED BY <2>1, <3>1, <3>2 DEF Before
  <2>3. CASE k # Len(s) + 1
    <3>1. k \in 1..Len(s) /\ t[k] = s[k]
      BY <1>2, <2>3
    <3> QED BY <1>4, <2>1, <3>1 DEF Rising, Ordered
  <2> QED BY <2>2, <2>3
<1> QED BY <1>1, <1>3, <1>4

\* One sequence after another.
LEMMA FramesJoin ==
  ASSUME NEW s \in Seq(Line), NEW r \in Seq(Line)
  PROVE  /\ s \o r \in Seq(Line) /\ Elements(s \o r) = Elements(s) \cup Elements(r)
         /\ Owned(s \o r) = Owned(s) \cup Owned(r)
         /\ Rising(s) /\ Rising(r) /\ (\A p \in Owned(s), q \in Owned(r) : p.n < q.n) => Rising(s \o r)
<1> DEFINE t == s \o r
<1>1. /\ t \in Seq(Line) /\ Len(t) = Len(s) + Len(r) /\ Len(s) \in Nat /\ Len(r) \in Nat
      /\ \A i \in 1..(Len(s) + Len(r)) : t[i] = IF i <= Len(s) THEN s[i] ELSE r[i - Len(s)]
      /\ \A i \in 1..Len(s) : s[i] \in Line
      /\ \A i \in 1..Len(r) : r[i] \in Line
  BY ConcatProperties, LenProperties, ElementOfSeq
<1> HIDE DEF t
<1>2. \A i \in 1..Len(s) : i \in 1..Len(t) /\ t[i] = s[i]
  BY <1>1
<1>3. \A i \in 1..Len(r) : Len(s) + i \in 1..Len(t) /\ t[Len(s) + i] = r[i]
  <2> TAKE i \in 1..Len(r)
  <2>1. Len(s) + i \in 1..(Len(s) + Len(r)) /\ ~(Len(s) + i <= Len(s)) /\ Len(s) + i - Len(s) = i
    BY <1>1
  <2> QED BY <1>1, <2>1
<1>4. \A i \in 1..Len(t) : i \in 1..Len(s) \/ (i - Len(s) \in 1..Len(r) /\ i = Len(s) + (i - Len(s)) /\ i > Len(s))
  BY <1>1
<1>5. Elements(t) = Elements(s) \cup Elements(r)
  <2>1. ASSUME NEW i \in 1..Len(t) PROVE t[i] \in Elements(s) \cup Elements(r)
    <3>1. CASE i \in 1..Len(s)
      BY <1>2, <3>1 DEF Elements
    <3>2. CASE i \notin 1..Len(s)
      <4>1. i - Len(s) \in 1..Len(r) /\ t[i] = r[i - Len(s)]
        BY <1>3, <1>4, <3>2
      <4> QED BY <4>1 DEF Elements
    <3> QED BY <3>1, <3>2
  <2>2. Elements(s) \subseteq Elements(t) /\ Elements(r) \subseteq Elements(t)
    BY <1>2, <1>3 DEF Elements
  <2>3. Elements(t) \subseteq Elements(s) \cup Elements(r)
    BY <2>1 DEF Elements
  <2> QED BY <2>2, <2>3
<1>6. Owned(t) = Owned(s) \cup Owned(r)
  BY <1>5 DEF Owned
<1>7. ASSUME Rising(s), Rising(r), \A p \in Owned(s), q \in Owned(r) : p.n < q.n PROVE Rising(t)
  <2> SUFFICES ASSUME NEW j \in 1..Len(t), NEW k \in 1..Len(t), j < k PROVE <<t[j], t[k]>> \in Before
    BY DEF Rising, Ordered
  <2>1. CASE k \in 1..Len(s)
    <3>1. j \in 1..Len(s)
      BY <1>1, <2>1
    <3> QED BY <1>2, <1>7, <2>1, <3>1 DEF Rising, Ordered
  <2>2. CASE k \notin 1..Len(s) /\ j \in 1..Len(s)
    <3>1. PICK i \in 1..Len(r) : t[k] = r[i]
      BY <1>3, <1>4, <2>2
    <3>2. t[j] = s[j] /\ s[j] \in Line /\ s[j] \in Elements(s) /\ r[i] \in Line /\ r[i] \in Elements(r)
      BY <1>1, <1>2, <2>2 DEF Elements
    <3>3. Own(s[j]) /\ Own(r[i]) => s[j].n < r[i].n
      BY <1>7, <3>2 DEF Owned
    <3> QED BY <3>1, <3>2, <3>3 DEF Before
  <2>3. CASE j \notin 1..Len(s)
    <3>1. j - Len(s) \in 1..Len(r) /\ k - Len(s) \in 1..Len(r) /\ j - Len(s) < k - Len(s)
      BY <1>1, <2>3
    <3>2. t[j] = r[j - Len(s)] /\ t[k] = r[k - Len(s)]
      BY <1>1, <2>3, <3>1
    <3> QED BY <1>7, <3>1, <3>2 DEF Rising, Ordered
  <2> QED BY <2>1, <2>2, <2>3
<1> QED BY <1>1, <1>5, <1>6, <1>7 DEF t

\* What the pane keeps and what it drops.
LEMMA KeptIs ==
  ASSUME NEW s \in Seq(Line), Rising(s)
  PROVE  /\ Kept(s) \in Seq(Line) /\ Rising(Kept(s))
         /\ Cut(s) \subseteq Elements(s) /\ Owned(Kept(s)) = Owned(s) \ Cut(s)
<1>1. Len(s) \in Nat /\ PaneMax \in Nat /\ \A i \in 1..Len(s) : s[i] \in Line
  BY LenProperties, ElementOfSeq, DashAssumption
<1>2. CASE Len(s) <= PaneMax
  <2>1. Kept(s) = s /\ 1..(Len(s) - Len(s)) = {}
    BY <1>1, <1>2 DEF Kept
  <2>2. Cut(s) = {}
    BY <2>1 DEF Cut
  <2> QED BY <2>1, <2>2
<1>3. CASE Len(s) > PaneMax
  <2> DEFINE d == Len(s) - PaneMax
  <2> DEFINE t == SubSeq(s, d + 1, Len(s))
  <2>1. d \in Nat /\ d <= Len(s) /\ d > 0 /\ Kept(s) = t
    BY <1>1, <1>3 DEF Kept
  <2>2. t \in Seq(Line) /\ Len(t) = PaneMax /\ \A i \in 1..PaneMax : t[i] = s[d + i]
    <3>1. /\ t \in Seq(Line)
          /\ Len(t) = IF d + 1 <= Len(s) THEN Len(s) - (d + 1) + 1 ELSE 0
          /\ \A i \in 1..(Len(s) - (d + 1) + 1) : t[i] = s[d + 1 + i - 1]
      <4>1. d + 1 \in Int /\ Len(s) \in Int /\ \A i \in (d + 1)..Len(s) : s[i] \in Line
        BY <1>1, <2>1
      <4> HIDE DEF d
      <4> QED BY <4>1, SubSeqProperties
    <3>2. Len(s) - (d + 1) + 1 = PaneMax /\ (d + 1 <= Len(s) \/ PaneMax = 0)
      BY <1>1, <1>3
    <3>3. \A i \in 1..PaneMax : d + 1 + i - 1 = d + i
      BY <1>1
    <3> HIDE DEF t
    <3> QED BY <1>1, <3>1, <3>2, <3>3
  <2>3. Cut(s) = {s[i] : i \in 1..d}
    <3>1. Len(s) - Len(Kept(s)) = d
      BY <1>1, <2>1, <2>2
    <3> QED BY <3>1 DEF Cut
  <2>4. d + PaneMax = Len(s)
    BY <1>1
  <2> HIDE DEF d, t
  <2>5. Rising(t)
    <3> SUFFICES ASSUME NEW j \in 1..Len(t), NEW k \in 1..Len(t), j < k PROVE <<t[j], t[k]>> \in Before
      BY DEF Rising, Ordered
    <3>1. t[j] = s[d + j] /\ t[k] = s[d + k]
      BY <2>2
    <3>2. d + j \in 1..Len(s) /\ d + k \in 1..Len(s) /\ d + j < d + k
      BY <1>1, <2>1, <2>2, <2>4
    <3> QED BY <3>1, <3>2 DEF Rising, Ordered
  <2>6. Cut(s) \subseteq Elements(s)
    BY <1>1, <2>1, <2>3 DEF Elements
  <2>7. Elements(t) = {s[i] : i \in (d + 1)..Len(s)}
    <3>1. \A i \in 1..PaneMax : d + i \in (d + 1)..Len(s) /\ t[i] = s[d + i]
      BY <1>1, <2>1, <2>2, <2>4
    <3>2. \A i \in (d + 1)..Len(s) : i - d \in 1..PaneMax /\ t[i - d] = s[i]
      BY <1>1, <2>1, <2>2, <2>4
    <3>3. Elements(t) = {t[i] : i \in 1..PaneMax}
      BY <2>2 DEF Elements
    <3>4. \A l \in Elements(t) : l \in {s[i] : i \in (d + 1)..Len(s)}
      BY <3>1, <3>3
    <3>5. \A l \in {s[i] : i \in (d + 1)..Len(s)} : l \in Elements(t)
      BY <3>2, <3>3
    <3> QED BY <3>4, <3>5
  <2>8. \A i \in 1..d, k \in (d + 1)..Len(s) : Own(s[i]) => s[i] # s[k]
    <3> TAKE i \in 1..d, k \in (d + 1)..Len(s)
    <3>1. i \in 1..Len(s) /\ k \in 1..Len(s) /\ i < k
      BY <1>1, <2>1
    <3>2. <<s[i], s[k]>> \in Before /\ s[i].n \in Nat
      BY <1>1, <3>1 DEF Rising, Ordered, Line
    <3> QED BY <3>2 DEF Before
  <2>9. \A i \in 1..Len(s) : i \in 1..d \/ i \in (d + 1)..Len(s)
    BY <1>1, <2>1
  <2>10. (d + 1)..Len(s) \subseteq 1..Len(s)
    BY <1>1, <2>1
  <2>11. Owned(t) = Owned(s) \ Cut(s)
    BY <2>3, <2>7, <2>8, <2>9, <2>10 DEF Owned, Elements
  <2> QED BY <2>1, <2>2, <2>5, <2>6, <2>11
<1> QED BY <1>1, <1>2, <1>3

\* What the pane is with a line more.
LEMMA IntoIs ==
  ASSUME pane \in Seq(Line), Rising(pane), NEW l \in Line, Own(l) => \A q \in Owned(pane) : q.n < l.n, Into(l)
  PROVE  /\ pane' \in Seq(Line) /\ Rising(pane')
         /\ \E cut \in SUBSET (Elements(pane) \cup {l}) :
              /\ dropped' = dropped \cup cut /\ \A x \in cut : x.to # "token"
              /\ Owned(pane') = (Owned(pane) \cup {x \in {l} : Own(x)}) \ cut
<1> DEFINE s == Append(pane, l)
<1>1. /\ s \in Seq(Line) /\ Elements(s) = Elements(pane) \cup {l} /\ Rising(s)
      /\ Owned(s) = Owned(pane) \cup {x \in {l} : Own(x)}
  BY OneMore
<1>2. pane' = Kept(s) /\ dropped' = dropped \cup {x \in Cut(s) : x.to # "token"}
  BY DEF Into
<1> HIDE DEF s
<1>3. Kept(s) \in Seq(Line) /\ Rising(Kept(s)) /\ Cut(s) \subseteq Elements(s) /\ Owned(Kept(s)) = Owned(s) \ Cut(s)
  BY <1>1, KeptIs
<1>4. Owned(s) \ Cut(s) = Owned(s) \ {x \in Cut(s) : x.to # "token"}
  BY DEF Owned, Own
<1> DEFINE cut == {x \in Cut(s) : x.to # "token"}
<1>5. cut \in SUBSET (Elements(pane) \cup {l}) /\ \A x \in cut : x.to # "token"
  BY <1>1, <1>3
<1> HIDE DEF cut
<1>6. dropped' = dropped \cup cut /\ Owned(Kept(s)) = (Owned(pane) \cup {x \in {l} : Own(x)}) \ cut
  BY <1>1, <1>2, <1>3, <1>4 DEF cut
<1> QED BY <1>2, <1>3, <1>5, <1>6

\* What stop() replays: the lines of the pane, in their order.
LEMMA ReplayedIs ==
  ASSUME NEW s \in Seq(Line)
  PROVE  /\ Replayed(s) \in Seq(Line) /\ Elements(Replayed(s)) = {l \in Elements(s) : l.to # "token"}
         /\ Owned(Replayed(s)) = Owned(s)
         /\ Rising(s) => Rising(Replayed(s))
<1> DEFINE N == Len(s)
<1> DEFINE out == {i \in 1..N : s[i].to = "token"}
<1> DEFINE laid == CHOOSE f : f = [k \in 0..N |->
                    IF k = 0 THEN <<>> ELSE IF s[k].to = "token" THEN f[k - 1] ELSE Append(f[k - 1], s[k])]
<1> DEFINE Loop(f) == f = [k \in 0..N |->
                    IF k = 0 THEN <<>> ELSE IF s[k].to = "token" THEN f[k - 1] ELSE Append(f[k - 1], s[k])]
<1>1. N \in Nat /\ \A i \in 0..N : i # 0 => (i \in out <=> s[i].to = "token")
  BY LenProperties
<1>2. ASSUME NEW f PROVE Filters(f, s, out) <=> Loop(f)
  <2> HIDE DEF out
  <2> QED BY <1>1 DEF Filters
<1>3. \E f : Filters(f, s, out)
  <2> HIDE DEF out
  <2> QED BY FilterExists
<1>4. Loop(laid)
  <2>1. \E f : Loop(f)
    BY <1>2, <1>3
  <2> QED BY <2>1
<1>5. Replayed(s) = laid[N]
  BY DEF Replayed
<1> HIDE DEF laid
<1>6. laid[N] \in Seq(Line) /\ Elements(laid[N]) = Remain(s, out) /\ (Rising(s) => Rising(laid[N]))
  <2>1. Filters(laid, s, out)
    BY <1>2, <1>4
  <2> HIDE DEF out
  <2> QED BY <2>1, FilterIs DEF Rising
<1>7. Remain(s, out) = {l \in Elements(s) : l.to # "token"}
  BY DEF Elements, Remain
<1>8. Owned(laid[N]) = Owned(s)
  BY <1>6, <1>7 DEF Owned, Own
<1> QED BY <1>5, <1>6, <1>7, <1>8

\* The line a thread logged last is one.
LEMMA LatestIs ==
  ASSUME LinesType, NEW t \in Talker, upc[t] \in Telling
  PROVE  /\ Latest(t) \in Line /\ Latest(t).n = Len(said[t]) /\ Latest(t).from = t
         /\ Own(Latest(t)) <=> t = "main"
<1>1. said[t] \in Seq(Streams) /\ said[t] # <<>>
  BY DEF LinesType
<1>2. Len(said[t]) \in Nat /\ Len(said[t]) \in 1..Len(said[t])
  BY <1>1, LenProperties, EmptySeq
<1>3. said[t][Len(said[t])] \in Streams
  BY <1>1, <1>2, ElementOfSeq
<1> QED BY <1>2, <1>3 DEF Latest, Line, Own, Streams

\* A step that moves a thread and no line.
LEMMA NoLineMoves ==
  ASSUME LinesInv, UNCHANGED <<printed, pane, dropped, said, saw>>,
         upc' \in [Talker -> Entering \cup Talking \cup Ending],
         thenDo' \in [Talker -> {"none", "return", "abort"}], gSink' \in BOOLEAN, running' \in BOOLEAN,
         \A t \in Talker : upc'[t] \in Telling <=> upc[t] \in Telling,
         thenDo'["conn"] = "none" => thenDo["conn"] = "none",
         thenDo["conn"] = "none" /\ thenDo'["conn"] = "none" => SinkInv'
  PROVE  LinesInv'
<1>1. LinesType'
  BY DEF LinesInv, LinesType
<1>2. "main" \in Talker /\ (upc'["main"] \in Telling <=> upc["main"] \in Telling)
  BY DEF Talker
<1>3. InHand' = InHand /\ Logged' = Logged
  BY <1>2 DEF InHand, Logged, Latest
<1>4. ASSUME thenDo'["conn"] = "none" PROVE FlowInv'
  BY <1>2, <1>3, <1>4 DEF LinesInv, FlowInv
<1> QED BY <1>1, <1>4 DEF LinesInv

\* Logging a line puts it on its way.
LEMMA LookStep ==
  ASSUME LinesInv, NEW t \in Talker, Look(t)
  PROVE  LinesInv'
<1>1. PICK to \in Streams : said' = [said EXCEPT ![t] = Append(@, to)]
  BY DEF Look
<1>2. /\ said[t] \in Seq(Streams) /\ Append(said[t], to) \in Seq(Streams) /\ Len(said[t]) \in Nat
      /\ Len(Append(said[t], to)) = Len(said[t]) + 1
      /\ \A i \in 1..Len(said[t]) : Append(said[t], to)[i] = said[t][i]
      /\ Append(said[t], to)[Len(said[t]) + 1] = to
      /\ Append(said[t], to) # <<>>
  <2>1. said[t] \in Seq(Streams)
    BY DEF LinesInv, LinesType
  <2> QED BY <2>1, AppendProperties, LenProperties, EmptySeq
<1>3. /\ said' \in [Talker -> Seq(Streams)]
      /\ said'[t] = Append(said[t], to) /\ \A u \in Talker : u # t => said'[u] = said[u]
  BY <1>1, <1>2 DEF LinesInv, LinesType
<1>4. /\ UNCHANGED <<printed, pane, dropped, thenDo, gSink, running>>
      /\ upc[t] \in {"run", "summary"}
      /\ saw' = [saw EXCEPT ![t] = gSink]
      /\ upc' = [upc EXCEPT ![t] = IF upc[t] = "run" THEN "say" ELSE "sum up"]
  BY DEF Look, Moves, linesVars
<1>5. LinesType'
  BY <1>2, <1>3, <1>4 DEF LinesInv, LinesType, Entering, Talking, Ending
<1>6. ASSUME thenDo["conn"] = "none" PROVE SinkInv'
  BY <1>4, <1>6 DEF LinesInv, LinesType, SinkInv, Talker, Entering, Ending, Giving
<1>7. ASSUME thenDo["conn"] = "none" PROVE FlowInv'
  <2>1. FlowInv
    BY <1>7 DEF LinesInv
  <2>2. CASE t # "main"
    <3>1. said'["main"] = said["main"] /\ upc'["main"] = upc["main"]
      BY <1>3, <1>4, <2>2 DEF Talker, LinesInv, LinesType
    <3>2. InHand' = InHand /\ Logged' = Logged
      BY <3>1 DEF InHand, Logged, Latest
    <3> QED BY <1>4, <2>1, <3>1, <3>2 DEF FlowInv
  <2>3. CASE t = "main"
    <3> DEFINE n == Len(said["main"])
    <3> DEFINE line == [from |-> "main", n |-> n + 1, to |-> to]
    <3>1. Len(said'["main"]) = n + 1 /\ n \in Nat
      BY <1>2, <1>3, <2>3
    <3>2. upc["main"] \notin Telling /\ upc'["main"] \in Telling
      BY <1>4, <2>3 DEF Telling, LinesInv, LinesType
    <3>3. InHand = {} /\ InHand' = {line}
      BY <1>2, <1>3, <2>3, <3>1, <3>2 DEF InHand, Latest
    <3>4. Logged' = Logged \cup {line}
      <4>1. 1..(n + 1) = 1..n \cup {n + 1}
        BY <3>1
      <4>2. said'["main"][n + 1] = to /\ \A k \in 1..n : said'["main"][k] = said["main"][k]
        BY <1>2, <1>3, <2>3
      <4> HIDE DEF n
      <4> QED BY <3>1, <4>1, <4>2 DEF Logged, n
    <3>5. line \notin dropped
      BY <2>1, <3>1 DEF FlowInv
    <3>6. \A l \in Owned(printed) \cup Owned(pane) : l.n < n + 1
      <4> TAKE l \in Owned(printed) \cup Owned(pane)
      <4>1. l \in Logged
        BY <2>1 DEF FlowInv
      <4>2. l.n \in 1..n
        BY <4>1 DEF Logged
      <4> QED BY <3>1, <4>2
    <3>7. \A l \in dropped : l.from = "main" => l.n <= n + 1
      <4> TAKE l \in dropped
      <4>1. l.n \in Nat /\ (l.from = "main" => l.n <= n)
        BY <2>1 DEF FlowInv, Line, LinesInv, LinesType
      <4> QED BY <3>1, <4>1
    <3> HIDE DEF line, n
    <3>8. Owned(printed) \cup Owned(pane) \cup {line} = (Logged \cup {line}) \ dropped
      BY <2>1, <3>3, <3>5 DEF FlowInv
    <3> QED BY <1>4, <2>1, <3>1, <3>3, <3>4, <3>6, <3>7, <3>8 DEF FlowInv
  <2> QED BY <2>2, <2>3
<1> QED BY <1>4, <1>5, <1>6, <1>7 DEF LinesInv

\* A line that no sink was seen for is printed.
LEMMA ToStreamStep ==
  ASSUME LinesInv, NEW t \in Talker, ToStream(t)
  PROVE  LinesInv'
<1> DEFINE line == Latest(t)
<1>1. /\ UNCHANGED <<pane, dropped, said, saw, thenDo, gSink, running>>
      /\ upc[t] \in {"say", "sum up"} /\ ~saw[t]
      /\ printed' = Append(printed, line)
      /\ upc' = [upc EXCEPT ![t] = IF upc[t] = "say" THEN "run" ELSE "summary"]
  BY DEF ToStream, Back, Moves
<1>2. line \in Line /\ line.n = Len(said[t]) /\ line.from = t /\ (Own(line) <=> t = "main") /\ line.to # "token"
  <2>1. upc[t] \in Telling /\ LinesType
    BY <1>1 DEF Telling, LinesInv
  <2>2. line \in Line /\ line.n = Len(said[t]) /\ line.from = t /\ (Own(line) <=> t = "main")
    BY <2>1, LatestIs
  <2>3. line.to \in Streams
    <3>1. said[t] \in Seq(Streams) /\ said[t] # <<>>
      BY <2>1 DEF LinesType
    <3>2. said[t][Len(said[t])] \in Streams
      BY <3>1, LenProperties, EmptySeq, ElementOfSeq
    <3> QED BY <3>2 DEF Latest
  <2> QED BY <2>2, <2>3 DEF Streams
<1> HIDE DEF line
<1>3. /\ printed' \in Seq(Line) /\ Elements(printed') = Elements(printed) \cup {line}
      /\ Owned(printed') = Owned(printed) \cup {x \in {line} : Own(x)}
      /\ Rising(printed) /\ (Own(line) => \A q \in Owned(printed) : q.n < line.n) => Rising(printed')
  <2>1. printed \in Seq(Line)
    BY DEF LinesInv, LinesType
  <2> QED BY <1>1, <1>2, <2>1, OneMore
<1>4. LinesType'
  BY <1>1, <1>2, <1>3 DEF LinesInv, LinesType, Telling, Entering, Talking, Ending
<1>5. ASSUME thenDo["conn"] = "none" PROVE SinkInv'
  BY <1>1, <1>5 DEF LinesInv, LinesType, SinkInv, Talker, Entering, Ending, Giving
<1>6. ASSUME thenDo["conn"] = "none" PROVE FlowInv'
  <2>1. FlowInv /\ SinkInv
    BY <1>6 DEF LinesInv
  <2>2. CASE t # "main"
    <3>1. upc'["main"] = upc["main"]
      BY <1>1, <2>2 DEF Talker, LinesInv, LinesType
    <3>2. InHand' = InHand /\ Logged' = Logged
      BY <1>1, <3>1 DEF InHand, Logged, Latest
    <3>3. Owned(printed') = Owned(printed) /\ Rising(printed')
      BY <1>2, <1>3, <2>1, <2>2 DEF FlowInv
    <3> QED BY <1>1, <2>1, <3>1, <3>2, <3>3 DEF FlowInv
  <2>3. CASE t = "main"
    <3>1. upc["main"] \in Telling /\ upc'["main"] \notin Telling /\ InHand = {line} /\ InHand' = {}
      BY <1>1, <2>3 DEF InHand, Telling, LinesInv, LinesType, line
    <3>2. Owned(pane) = {}
      BY <1>1, <2>1, <2>3 DEF SinkInv, Giving
    <3>3. Logged' = Logged
      BY <1>1 DEF Logged
    <3>4. \A q \in Owned(printed) : q.n < line.n
      BY <1>2, <2>1, <2>3, <3>1 DEF FlowInv
    <3>5. Owned(printed') = Owned(printed) \cup {line} /\ Rising(printed')
      BY <1>2, <1>3, <2>1, <2>3, <3>4 DEF FlowInv
    <3> QED BY <1>1, <2>1, <3>1, <3>2, <3>3, <3>5 DEF FlowInv
  <2> QED BY <2>2, <2>3
<1> QED BY <1>1, <1>4, <1>5, <1>6 DEF LinesInv

\* The pane takes a line, and what it drops is no line that is elsewhere.
LEMMA IntoFlow ==
  ASSUME LinesType, FlowInv, NEW line \in Line, Into(line), UNCHANGED <<printed, said>>,
         Own(line) => InHand = {line} /\ upc'["main"] \notin Telling /\ line.n = Len(said["main"]),
         ~Own(line) => upc'["main"] = upc["main"]
  PROVE  FlowInv' /\ (~Own(line) => Owned(pane') \subseteq Owned(pane))
<1> DEFINE add == {x \in {line} : Own(x)}
<1>1. pane \in Seq(Line) /\ Rising(pane) /\ said' = said /\ printed' = printed
  BY DEF LinesType, FlowInv
<1>2. Own(line) => upc["main"] \in Telling
  BY DEF InHand
<1>3. Own(line) => \A q \in Owned(printed) \cup Owned(pane) : q.n < line.n
  BY <1>2 DEF FlowInv
<1>4. /\ Rising(pane')
      /\ \E cut \in SUBSET (Elements(pane) \cup {line}) :
           /\ dropped' = dropped \cup cut /\ \A x \in cut : x.to # "token"
           /\ Owned(pane') = (Owned(pane) \cup add) \ cut
  BY <1>1, <1>3, IntoIs
<1>5. PICK cut \in SUBSET (Elements(pane) \cup {line}) :
        /\ dropped' = dropped \cup cut /\ \A x \in cut : x.to # "token"
        /\ Owned(pane') = (Owned(pane) \cup add) \ cut
  BY <1>4
<1>6. \A x \in cut : x.from = "main" => (x \in Owned(pane) \/ (x = line /\ Own(line)))
  BY <1>5 DEF Owned, Own
<1>7. Logged' = Logged /\ \A x \in Logged : x.n \in 1..Len(said["main"]) /\ x.from = "main"
  BY <1>1 DEF Logged
<1>8. Len(said["main"]) \in Nat
  BY LenProperties DEF LinesType, Talker
<1>9. InHand' \cup add = InHand /\ add \subseteq InHand
  <2>1. CASE Own(line)
    <3>1. InHand' = {} /\ add = {line}
      BY <2>1 DEF InHand
    <3> QED BY <2>1, <3>1
  <2>2. CASE ~Own(line)
    <3>1. InHand' = InHand /\ add = {}
      BY <1>1, <2>2 DEF InHand, Latest
    <3> QED BY <3>1
  <2> QED BY <2>1, <2>2
<1>10. \A x \in Owned(printed) : x \notin cut
  <2> SUFFICES ASSUME NEW x \in Owned(printed), x \in cut PROVE FALSE
    OBVIOUS
  <2>1. x.from = "main" /\ x \in Logged
    BY DEF Owned, Own, FlowInv
  <2>2. x.n \in Nat
    BY <1>7, <1>8, <2>1
  <2>3. x.n < x.n
    BY <1>3, <1>6, <2>1 DEF FlowInv
  <2> QED BY <2>2, <2>3
<1>11. \A x \in InHand' : x \notin cut
  <2> SUFFICES ASSUME NEW x \in InHand', x \in cut PROVE FALSE
    OBVIOUS
  <2>1. ~Own(line) /\ upc["main"] \in Telling /\ x = Latest("main")
    BY <1>1 DEF InHand, Latest
  <2>2. x.n = Len(said["main"]) /\ x.from = "main"
    BY <2>1 DEF Latest
  <2>3. x.n < Len(said["main"])
    BY <1>6, <2>1, <2>2 DEF FlowInv
  <2> QED BY <1>8, <2>2, <2>3
<1> HIDE DEF add
<1>12. Owned(printed) \cup Owned(pane') \cup InHand' = Logged' \ dropped'
  <2>1. Owned(printed) \cup Owned(pane) \cup InHand = Logged \ dropped
    BY DEF FlowInv
  <2> QED BY <1>5, <1>7, <1>9, <1>10, <1>11, <2>1
<1>13. \A l \in dropped' : l.from = "main" => l.n <= Len(said["main"])
  <2> TAKE l \in dropped'
  <2>1. CASE l \in dropped
    BY <2>1 DEF FlowInv
  <2>2. CASE l \in cut /\ l.from = "main"
    <3>1. CASE l \in Owned(pane)
      <4>1. l \in Logged
        BY <3>1 DEF FlowInv
      <4> QED BY <1>7, <1>8, <4>1
    <3>2. CASE l = line /\ Own(line)
      BY <1>8, <3>2
    <3> QED BY <1>6, <2>2, <3>1, <3>2
  <2> QED BY <1>5, <2>1, <2>2
<1>14. \A p \in Owned(printed), q \in Owned(pane') : p.n < q.n
  BY <1>3, <1>5 DEF FlowInv, add
<1>15. upc'["main"] \in Telling => \A l \in Owned(printed) \cup Owned(pane') : l.n < Len(said["main"])
  BY <1>5 DEF FlowInv, add
<1>16. ~Own(line) => Owned(pane') \subseteq Owned(pane)
  BY <1>5 DEF add
<1>17. Rising(printed')
  BY <1>1 DEF FlowInv
<1> QED BY <1>1, <1>4, <1>12, <1>13, <1>14, <1>15, <1>16, <1>17 DEF FlowInv

\* The pane takes lines, whoever is dying.
LEMMA IntoTypes ==
  ASSUME LinesType, NEW line \in Line, Into(line)
  PROVE  pane' \in Seq(Line) /\ dropped' \subseteq Line
<1> DEFINE s == Append(pane, line)
<1>1. s \in Seq(Line) /\ Len(s) \in Nat /\ \A i \in 1..Len(s) : s[i] \in Line
  BY AppendProperties, LenProperties, ElementOfSeq DEF LinesType
<1> HIDE DEF s
<1>2. PaneMax \in Nat
  BY DashAssumption
<1>3. Kept(s) \in Seq(Line) /\ Len(Kept(s)) \in Nat
  <2>1. CASE Len(s) > PaneMax
    <3> DEFINE m == Len(s) - PaneMax + 1
    <3>1. m \in Int /\ Len(s) \in Int /\ \A i \in m..Len(s) : s[i] \in Line
      BY <1>1, <1>2, <2>1
    <3> HIDE DEF m
    <3>2. SubSeq(s, m, Len(s)) \in Seq(Line)
      BY <3>1, SubSeqProperties
    <3> QED BY <2>1, <3>2, LenProperties DEF Kept, m
  <2>2. CASE ~(Len(s) > PaneMax)
    BY <1>1, <2>2 DEF Kept
  <2> QED BY <2>1, <2>2
<1>4. Cut(s) \subseteq Line
  BY <1>1, <1>3 DEF Cut
<1> QED BY <1>3, <1>4 DEF Into, s, LinesType

\* A line that a sink was seen for is the pane's.
LEMMA PushStep ==
  ASSUME LinesInv, NEW t \in Talker, Push(t)
  PROVE  LinesInv'
<1> DEFINE line == Latest(t)
<1>1. /\ UNCHANGED <<printed, said, saw, thenDo, gSink, running>>
      /\ upc[t] \in {"push", "push up"} /\ Into(line) /\ LinesType
      /\ upc' = [upc EXCEPT ![t] = IF upc[t] = "push" THEN "run" ELSE "summary"]
  BY DEF Push, Back, Moves, LinesInv
<1>2. line \in Line /\ line.n = Len(said[t]) /\ line.from = t /\ (Own(line) <=> t = "main")
  <2>1. upc[t] \in Telling
    BY <1>1 DEF Telling
  <2> QED BY <1>1, <2>1, LatestIs
<1>3. t = "main" => InHand = {line}
  BY <1>1 DEF InHand, Telling
<1> HIDE DEF line
<1>4. pane' \in Seq(Line) /\ dropped' \subseteq Line
  BY <1>1, <1>2, IntoTypes
<1>5. /\ LinesType' /\ upc' \in [Talker -> Entering \cup Talking \cup Ending]
      /\ t = "main" => upc'["main"] \notin Telling
      /\ t # "main" => upc'["main"] = upc["main"]
  BY <1>1, <1>4 DEF LinesType, Telling, Entering, Talking, Ending, Talker
<1>6. ASSUME thenDo["conn"] = "none"
      PROVE  FlowInv' /\ (t # "main" => Owned(pane') \subseteq Owned(pane))
  <2>1. FlowInv
    BY <1>6 DEF LinesInv
  <2> QED BY <1>1, <1>2, <1>3, <1>5, <2>1, IntoFlow
<1>7. ASSUME thenDo["conn"] = "none" PROVE SinkInv'
  <2>1. SinkInv
    BY <1>7 DEF LinesInv
  <2>2. CASE t = "main"
    BY <1>1, <2>1, <2>2 DEF SinkInv, LinesType, Talker, Entering, Ending, Giving
  <2>3. CASE t = "conn"
    BY <1>1, <1>6, <1>7, <2>1, <2>3 DEF SinkInv, LinesType, Talker, Entering, Ending, Giving
  <2> QED BY <2>2, <2>3 DEF Talker
<1> QED BY <1>1, <1>5, <1>6, <1>7 DEF LinesInv

\* A token is no line.
LEMMA TokStep ==
  ASSUME LinesInv, NEW newline \in BOOLEAN, Tok(newline)
  PROVE  LinesInv'
<1>1. UNCHANGED <<upc, printed, said, saw, thenDo, gSink, running>> /\ LinesType
  BY DEF Tok, LinesInv
<1>2. CASE tokenOpen /\ ~newline
  <2>1. UNCHANGED <<pane, dropped>>
    BY <1>2 DEF Tok
  <2>2. (thenDo["conn"] = "none" => SinkInv)' <=> (thenDo["conn"] = "none" => SinkInv)
    BY <1>1, <2>1 DEF SinkInv
  <2> QED BY <1>1, <2>1, <2>2, NoLineMoves DEF LinesType, LinesInv
<1>3. CASE ~(tokenOpen /\ ~newline)
  <2> DEFINE line == [from |-> "main", n |-> 0, to |-> "token"]
  <2>1. Into(line) /\ line \in Line /\ ~Own(line)
    BY <1>3 DEF Tok, Line, Own, Talker
  <2> HIDE DEF line
  <2>2. pane' \in Seq(Line) /\ dropped' \subseteq Line
    BY <1>1, <2>1, IntoTypes
  <2>3. LinesType'
    BY <1>1, <2>2 DEF LinesType
  <2>4. ASSUME thenDo["conn"] = "none" PROVE FlowInv' /\ Owned(pane') \subseteq Owned(pane)
    <3>1. FlowInv
      BY <2>4 DEF LinesInv
    <3> QED BY <1>1, <2>1, <3>1, IntoFlow
  <2>5. ASSUME thenDo["conn"] = "none" PROVE SinkInv'
    BY <1>1, <2>4, <2>5 DEF SinkInv, LinesInv
  <2> QED BY <1>1, <2>3, <2>4, <2>5 DEF LinesInv
<1> QED BY <1>2, <1>3

\* What the pane held is printed.
LEMMA ReplayStep ==
  ASSUME LinesInv, NEW t \in Talker, Replay(t)
  PROVE  LinesInv'
<1>1. /\ UNCHANGED <<said, dropped, saw, thenDo, gSink, running>> /\ LinesType
      /\ upc[t] = "replay" /\ upc' = [upc EXCEPT ![t] = "stopped"]
      /\ printed' = printed \o Replayed(pane) /\ pane' = <<>>
  BY DEF Replay, Here, Moves, LinesInv
<1>2. /\ Replayed(pane) \in Seq(Line) /\ Elements(Replayed(pane)) = {l \in Elements(pane) : l.to # "token"}
      /\ Owned(Replayed(pane)) = Owned(pane) /\ (Rising(pane) => Rising(Replayed(pane)))
  BY <1>1, ReplayedIs DEF LinesType
<1>3. /\ printed' \in Seq(Line) /\ Elements(printed') = Elements(printed) \cup Elements(Replayed(pane))
      /\ Owned(printed') = Owned(printed) \cup Owned(pane)
      /\ Rising(printed) /\ Rising(pane) /\ (\A p \in Owned(printed), q \in Owned(pane) : p.n < q.n) => Rising(printed')
  BY <1>1, <1>2, FramesJoin DEF LinesType
<1>4. pane' \in Seq(Line) /\ Owned(pane') = {} /\ Rising(pane')
  <2>1. <<>> \in Seq(Line) /\ 1..Len(<<>>) = {}
    OBVIOUS
  <2> QED BY <1>1, <2>1 DEF Owned, Elements, Rising, Ordered
<1>5. LinesType'
  <2>1. upc' \in [Talker -> Entering \cup Talking \cup Ending] /\ \A u \in Talker : upc'[u] \in Telling => upc[u] \in Telling
    BY <1>1 DEF LinesType, Telling, Ending
  <2>2. \A l \in Elements(printed') : l.to # "token"
    BY <1>1, <1>2, <1>3 DEF LinesType
  <2> QED BY <1>1, <1>3, <1>4, <2>1, <2>2 DEF LinesType
<1>6. ASSUME thenDo["conn"] = "none" PROVE FlowInv' /\ SinkInv'
  <2>1. FlowInv /\ SinkInv
    BY <1>6 DEF LinesInv
  <2>2. t = "main"
    BY <1>1, <2>1 DEF SinkInv, Talker
  <2>3. upc["main"] = "replay" /\ upc'["main"] = "stopped" /\ upc'["conn"] = upc["conn"]
    BY <1>1, <2>2 DEF LinesType, Talker
  <2>4. InHand = {} /\ InHand' = {} /\ Logged' = Logged
    BY <1>1, <2>3 DEF InHand, Telling, Logged
  <2>5. FlowInv'
    BY <1>1, <1>3, <1>4, <2>1, <2>3, <2>4 DEF FlowInv, Telling
  <2>6. SinkInv'
    BY <1>1, <1>4, <2>1, <2>3 DEF SinkInv, Ending
  <2> QED BY <2>5, <2>6
<1> QED BY <1>1, <1>5, <1>6 DEF LinesInv

\* The invariant holds over every step.
LEMMA LinesStep == LinesInv /\ [DashNext]_uiVars => LinesInv'
<1> SUFFICES ASSUME LinesInv, [DashNext]_uiVars PROVE LinesInv'
  OBVIOUS
<1> DEFINE Quiet == UNCHANGED <<printed, pane, dropped, said, saw>>
<1> DEFINE Same == UNCHANGED <<thenDo, gSink, running>>
<1>0. LinesType /\ (thenDo["conn"] = "none" => SinkInv) /\ "main" \in Talker /\ "conn" \in Talker
  BY DEF LinesInv, Talker
<1>a. ASSUME Quiet, Same, NEW t \in Talker, NEW to \in (Entering \cup Talking \cup Ending) \ Telling, Moves(t, to),
             upc[t] \notin Telling, thenDo["conn"] = "none" /\ SinkInv => SinkInv'
      PROVE  LinesInv'
  <2>1. /\ upc' \in [Talker -> Entering \cup Talking \cup Ending]
        /\ \A u \in Talker : upc'[u] \in Telling <=> upc[u] \in Telling
    BY <1>0, <1>a DEF Moves, LinesType
  <2>2. UNCHANGED <<printed, pane, dropped, said, saw>> /\ UNCHANGED <<thenDo, gSink, running>>
    BY <1>a
  <2>3. /\ thenDo' \in [Talker -> {"none", "return", "abort"}] /\ gSink' \in BOOLEAN /\ running' \in BOOLEAN
        /\ thenDo["conn"] = "none" => SinkInv'
    BY <1>0, <1>a, <2>2 DEF LinesType
  <2> QED BY <2>1, <2>2, <2>3, NoLineMoves
<1>b. ASSUME Quiet, Same, UNCHANGED upc PROVE LinesInv'
  <2>1. UNCHANGED <<printed, pane, dropped, said, saw>> /\ UNCHANGED <<thenDo, gSink, running, upc>>
    BY <1>b
  <2>2. SinkInv' <=> SinkInv
    BY <2>1 DEF SinkInv
  <2> QED BY <1>0, <2>1, <2>2, NoLineMoves DEF LinesType
<1>1. CASE UNCHANGED uiVars
  BY <1>1, <1>b DEF uiVars
<1>2. CASE StayPlain
  <2>1. Quiet /\ Same /\ Moves("main", "run") /\ upc["main"] = "plain"
    BY <1>2 DEF StayPlain, Here, linesVars
  <2>2. thenDo["conn"] = "none" /\ SinkInv => SinkInv'
    BY <1>0, <2>1 DEF Moves, SinkInv, LinesType, Talker, Entering, Ending, Giving
  <2> QED BY <1>0, <1>a, <2>1, <2>2 DEF Entering, Talking, Ending, Telling, Giving
<1>3. CASE EnterRaw
  <2>1. Quiet /\ Same /\ Moves("main", "handlers") /\ upc["main"] = "plain"
    BY <1>3 DEF EnterRaw, Here, linesVars
  <2>2. thenDo["conn"] = "none" /\ SinkInv => SinkInv'
    BY <1>0, <2>1 DEF Moves, SinkInv, LinesType, Talker, Entering, Ending, Giving
  <2> QED BY <1>0, <1>a, <2>1, <2>2 DEF Entering, Talking, Ending, Telling, Giving
<1>4. CASE Install
  <2>1. Quiet /\ Same /\ Moves("main", "switch") /\ upc["main"] = "handlers"
    BY <1>4 DEF Install, Here, linesVars
  <2>2. thenDo["conn"] = "none" /\ SinkInv => SinkInv'
    BY <1>0, <2>1 DEF Moves, SinkInv, LinesType, Talker, Entering, Ending, Giving
  <2> QED BY <1>0, <1>a, <2>1, <2>2 DEF Entering, Talking, Ending, Telling, Giving
<1>5. CASE Switch
  <2>1. Quiet /\ Same /\ Moves("main", "arm") /\ upc["main"] = "switch"
    BY <1>5 DEF Switch, Here, linesVars
  <2>2. thenDo["conn"] = "none" /\ SinkInv => SinkInv'
    BY <1>0, <2>1 DEF Moves, SinkInv, LinesType, Talker, Entering, Ending, Giving
  <2> QED BY <1>0, <1>a, <2>1, <2>2 DEF Entering, Talking, Ending, Telling, Giving
<1>6. CASE TakeScreen
  <2>1. Quiet /\ Moves("main", "run") /\ upc["main"] = "arm" /\ running' = TRUE /\ gSink' = TRUE /\ thenDo' = thenDo
    BY <1>6 DEF TakeScreen, Here, linesVars
  <2>2. thenDo["conn"] = "none" => SinkInv'
    BY <1>0, <2>1 DEF Moves, SinkInv, LinesType, Talker, Entering, Ending, Giving
  <2>3. /\ upc' \in [Talker -> Entering \cup Talking \cup Ending]
        /\ \A t \in Talker : upc'[t] \in Telling <=> upc[t] \in Telling
    BY <1>0, <2>1 DEF Moves, LinesType, Talking, Telling
  <2> QED BY <1>0, <2>1, <2>2, <2>3, NoLineMoves DEF LinesType
<1>7. CASE Connected
  <2>1. Quiet /\ Same /\ Moves("conn", "run") /\ upc["conn"] = "none"
    BY <1>7 DEF Connected, Here, linesVars
  <2>2. thenDo["conn"] = "none" /\ SinkInv => SinkInv'
    BY <1>0, <2>1 DEF Moves, SinkInv, LinesType, Talker, Entering, Ending, Giving
  <2> QED BY <1>0, <1>a, <2>1, <2>2 DEF Entering, Talking, Ending, Telling, Giving
<1>8. ASSUME NEW t \in Talker, CallSink(t) PROVE LinesInv'
  <2>1. Quiet /\ Same
    BY <1>8 DEF CallSink, linesVars
  <2>2. CASE gSink
    <3>1. upc[t] \in {"say", "sum up"} /\ Moves(t, IF upc[t] = "say" THEN "push" ELSE "push up") /\ saw[t]
      BY <1>8, <2>2 DEF CallSink
    <3>2. thenDo["conn"] = "none" => SinkInv'
      BY <1>0, <2>1, <2>2, <3>1 DEF Moves, SinkInv, LinesType, Talker, Entering, Ending, Giving
    <3>3. /\ upc' \in [Talker -> Entering \cup Talking \cup Ending]
          /\ \A u \in Talker : upc'[u] \in Telling <=> upc[u] \in Telling
      BY <1>0, <3>1 DEF Moves, LinesType, Talking, Ending, Telling
    <3> QED BY <1>0, <2>1, <3>2, <3>3, NoLineMoves DEF LinesType
  <2>3. CASE ~gSink
    BY <1>8, <1>b, <2>1, <2>3 DEF CallSink
  <2> QED BY <2>2, <2>3
<1>9. ASSUME NEW t \in Talker, Stop(t) PROVE LinesInv'
  <2>1. /\ Quiet /\ UNCHANGED <<gSink, running>> /\ upc[t] = "run" /\ Moves(t, "off")
        /\ \E next \in {"return", "abort"} : thenDo' = [thenDo EXCEPT ![t] = next]
    BY <1>9 DEF Stop, Here, linesVars
  <2>2. /\ thenDo' \in [Talker -> {"none", "return", "abort"}]
        /\ thenDo'["conn"] = "none" => thenDo["conn"] = "none" /\ t = "main"
    BY <1>0, <2>1 DEF LinesType, Talker
  <2>3. thenDo["conn"] = "none" /\ thenDo'["conn"] = "none" => SinkInv'
    BY <1>0, <2>1, <2>2 DEF Moves, SinkInv, LinesType, Talker, Entering, Ending, Giving
  <2>4. /\ upc' \in [Talker -> Entering \cup Talking \cup Ending]
        /\ \A u \in Talker : upc'[u] \in Telling <=> upc[u] \in Telling
    BY <1>0, <2>1 DEF Moves, LinesType, Talking, Telling
  <2> QED BY <1>0, <2>1, <2>2, <2>3, <2>4, NoLineMoves DEF LinesType
<1>10. ASSUME NEW t \in Talker, Off(t) PROVE LinesInv'
  <2>1. /\ Quiet /\ thenDo' = thenDo /\ upc[t] = "off" /\ running' = FALSE
        /\ gSink' = IF running THEN FALSE ELSE gSink
        /\ Moves(t, IF running THEN "join" ELSE "stopped")
    BY <1>10 DEF Off, Here, linesVars
  <2>2. thenDo["conn"] = "none" => SinkInv'
    <3>1. CASE running
      BY <1>0, <2>1, <3>1 DEF Moves, SinkInv, LinesType, Talker, Entering, Ending, Giving
    <3>2. CASE ~running
      BY <1>0, <2>1, <3>2 DEF Moves, SinkInv, LinesType, Talker, Entering, Ending, Giving
    <3> QED BY <3>1, <3>2
  <2>3. /\ upc' \in [Talker -> Entering \cup Talking \cup Ending]
        /\ \A u \in Talker : upc'[u] \in Telling <=> upc[u] \in Telling
    BY <1>0, <2>1 DEF Moves, LinesType, Ending, Giving, Telling
  <2> QED BY <1>0, <2>1, <2>2, <2>3, NoLineMoves DEF LinesType
<1>11. ASSUME NEW t \in Talker, Join(t) PROVE LinesInv'
  <2>1. Quiet /\ Same /\ Moves(t, "leave") /\ upc[t] = "join"
    BY <1>11 DEF Join, Here, linesVars
  <2>2. thenDo["conn"] = "none" /\ SinkInv => SinkInv'
    BY <1>0, <2>1 DEF Moves, SinkInv, LinesType, Talker, Entering, Ending, Giving
  <2> QED BY <1>0, <1>a, <2>1, <2>2 DEF Entering, Talking, Ending, Telling, Giving
<1>12. ASSUME NEW t \in Talker, Leave(t) PROVE LinesInv'
  <2>1. Quiet /\ Same /\ upc[t] = "leave" /\ \E to \in {"restore", "replay"} : Moves(t, to)
    BY <1>12 DEF Leave, Here, linesVars
  <2>2. PICK to \in {"restore", "replay"} : Moves(t, to)
    BY <2>1
  <2>3. thenDo["conn"] = "none" /\ SinkInv => SinkInv'
    BY <1>0, <2>1, <2>2 DEF Moves, SinkInv, LinesType, Talker, Entering, Ending, Giving
  <2> QED BY <1>0, <1>a, <2>1, <2>2, <2>3 DEF Entering, Talking, Ending, Telling, Giving
<1>13. ASSUME NEW t \in Talker, Restore(t) PROVE LinesInv'
  <2>1. Quiet /\ Same /\ Moves(t, "replay") /\ upc[t] = "restore"
    BY <1>13 DEF Restore, Here, linesVars
  <2>2. thenDo["conn"] = "none" /\ SinkInv => SinkInv'
    BY <1>0, <2>1 DEF Moves, SinkInv, LinesType, Talker, Entering, Ending, Giving
  <2> QED BY <1>0, <1>a, <2>1, <2>2 DEF Entering, Talking, Ending, Telling, Giving
<1>14. CASE SumUp
  <2>1. Quiet /\ Same /\ Moves("main", "summary") /\ upc["main"] = "stopped"
    BY <1>14 DEF SumUp, Here, linesVars
  <2>2. thenDo["conn"] = "none" /\ SinkInv => SinkInv'
    BY <1>0, <2>1 DEF Moves, SinkInv, LinesType, Talker, Entering, Ending, Giving
  <2> QED BY <1>0, <1>a, <2>1, <2>2 DEF Entering, Talking, Ending, Telling, Giving
<1>15. CASE RenderEnds \/ Return \/ Interrupt \/ \E t \in Talker : Abort(t)
  BY <1>15, <1>b DEF RenderEnds, Return, Interrupt, Abort, linesVars
<1>16. CASE \E newline \in BOOLEAN : Tok(newline)
  BY <1>16, TokStep
<1>17. CASE \E t \in Talker : Look(t) \/ ToStream(t) \/ Push(t) \/ Replay(t)
  BY <1>17, LookStep, ToStreamStep, PushStep, ReplayStep
<1> QED
  BY <1>1, <1>2, <1>3, <1>4, <1>5, <1>6, <1>7, <1>8, <1>9, <1>10, <1>11, <1>12, <1>13, <1>14, <1>15,
     <1>16, <1>17 DEF DashNext

\* When main returns nothing of its own is pending or in the pane, unless it stopped
\* second; the clause on SinkInv excludes that while no other thread is dying.
LEMMA ReturnHasAll ==
  LinesInv /\ (proc = "exited" => upc["main"] = "summary") => LinesGivenBack
<1> SUFFICES ASSUME LinesInv, upc["main"] = "summary", proc = "exited", thenDo["conn"] = "none" PROVE LinesGivenBack
  BY DEF LinesGivenBack
<1>1. FlowInv /\ SinkInv /\ LinesType
  BY DEF LinesInv
<1>2. ~gSink /\ Owned(pane) = {} /\ InHand = {}
  BY <1>1 DEF SinkInv, Ending, Giving, InHand, Telling
<1> DEFINE mine == {k \in DOMAIN printed : printed[k].from = "main"}
<1>3. Len(printed) \in Nat /\ DOMAIN printed = 1..Len(printed) /\ DOMAIN said["main"] = 1..Len(said["main"])
  BY <1>1, LenProperties DEF LinesType, Talker
<1>4. \A k \in mine : Own(printed[k])
  BY <1>1, <1>3 DEF Own, LinesType, Elements
<1>5. {printed[k] : k \in mine} = Owned(printed)
  BY <1>3, <1>4 DEF Owned, Elements, Own
<1>6. Owned(printed) = Logged \ dropped
  BY <1>1, <1>2 DEF FlowInv
<1>7. \A j, k \in mine : j < k => printed[j].n < printed[k].n
  BY <1>1, <1>3, <1>4 DEF FlowInv, Rising, Ordered, Before
<1> HIDE DEF mine
<1>8. {[from |-> "main", n |-> k, to |-> said["main"][k]] : k \in DOMAIN said["main"]} = Logged
  BY <1>3 DEF Logged
<1> QED BY <1>5, <1>6, <1>7, <1>8 DEF LinesGivenBack, mine

\* The process exits where main returns.
ExitInv == proc = "exited" => upc["main"] = "summary"

\* No step is taken once the process has ended.
LEMMA ExitStep == ExitInv /\ [DashNext]_uiVars => ExitInv'
<1> SUFFICES ASSUME ExitInv, [DashNext]_uiVars PROVE ExitInv'
  OBVIOUS
<1> DEFINE Lives == proc = "up" /\ proc' \in {"up", "killed"}
<1>1. StayPlain \/ EnterRaw \/ Install \/ Switch \/ TakeScreen \/ Connected \/ RenderEnds \/ SumUp => Lives
  BY DEF StayPlain, EnterRaw, Install, Switch, TakeScreen, Connected, RenderEnds, SumUp, Here
<1>2. Interrupt => Lives
  BY DEF Interrupt, DiesOf
<1>3. ASSUME NEW t \in Talker
      PROVE  Look(t) \/ ToStream(t) \/ Push(t) \/ Stop(t) \/ Off(t) \/ Join(t) \/ Leave(t) \/ Restore(t) \/ Replay(t) => Lives
  BY DEF Look, ToStream, Push, Stop, Off, Join, Leave, Restore, Replay, Here
<1>4. ASSUME NEW t \in Talker PROVE CallSink(t) \/ Abort(t) => Lives
  BY DEF CallSink, Abort, DiesOf, Here
<1>5. ASSUME NEW newline \in BOOLEAN PROVE Tok(newline) => Lives
  BY DEF Tok, Here
<1>6. Return => ExitInv'
  BY DEF Return, Here, ExitInv
<1>7. UNCHANGED uiVars => ExitInv'
  BY DEF uiVars, ExitInv
<1>8. Lives => ExitInv'
  BY DEF ExitInv
<1> QED BY <1>1, <1>2, <1>3, <1>4, <1>5, <1>6, <1>7, <1>8 DEF DashNext

\* dashboard.h, "an early return out of main cannot leave the screen switched", and no
\* line goes with it: however main, a connection, a signal and the thread that draws
\* interleave, the process ends with the terminal as it was found, but in the two windows
\* the property names, and a main that nothing interrupted has each of its lines on its
\* stream, once and in order, that the pane had room for.
THEOREM TerminalIsGivenBack == DashSpec => []GivenBack
<1>1. DashInit => DashInv
  BY DEF DashInit, DashInv, UpInv, In, Found, ScreenGivenBack, Entering, Talking, Giving, Ending, Talker
<1>2. DashInit => LinesInv
  <2> SUFFICES ASSUME DashInit PROVE LinesInv
    OBVIOUS
  <2>1. <<>> \in Seq(Line) /\ <<>> \in Seq(Streams) /\ 1..Len(<<>>) = {}
    OBVIOUS
  <2>2. Owned(printed) = {} /\ Owned(pane) = {} /\ Rising(printed) /\ Rising(pane) /\ Logged = {} /\ InHand = {}
    BY <2>1 DEF DashInit, Owned, Elements, Rising, Ordered, Logged, InHand, Talker, Telling
  <2>3. LinesType
    BY <2>1 DEF DashInit, LinesType, Talker, Entering, Talking, Ending, Telling, Elements
  <2>4. FlowInv
    BY <2>2 DEF DashInit, FlowInv, Telling, Talker
  <2>5. SinkInv
    BY <2>2 DEF DashInit, SinkInv, Talker, Entering, Ending, Giving
  <2> QED BY <2>3, <2>4, <2>5 DEF LinesInv
<1>3. DashInit => ExitInv
  BY DEF DashInit, ExitInv
<1>4. DashInv /\ LinesInv /\ ExitInv => GivenBack
  BY ReturnHasAll DEF DashInv, ExitInv, GivenBack
<1> QED BY <1>1, <1>2, <1>3, <1>4, DashStep, LinesStep, ExitStep, PTL DEF DashSpec

-----------------------------------------------------------------------------
(***************************************************************************)
(* The canvas: the terminal shows the frame last drawn, though only what    *)
(* differs from the frame before was sent.                                  *)
(*                                                                         *)
(* Three invariants stand behind one another.  Of a row as it is drawn: a   *)
(* wide glyph and its second half stand together, and from where text_clip  *)
(* has come to nothing is wide.  Of a row as it is sent: what is behind the *)
(* cell in hand is as drawn, and so is what is ahead of it and will not be  *)
(* sent, second halves included, so a glyph laid down breaks nothing that   *)
(* stays.  Of the frame loop: the terminal shows the frame before, unless   *)
(* the window has changed or all of the canvas is dirty.  The recursive     *)
(* functions that walk a string, a row and the rows exist because the       *)
(* shortest that did not would have one before it.                          *)
(***************************************************************************)

\* A walk: from a, step by step, through members of S.  What carries over each step.
Walk(N, S, a, stepping) == N \in Nat /\ a \in S /\ stepping \in [(1..N) \X S -> S]
Walked(g, N, S, a, stepping) == g \in [0..N -> S] /\ g[0] = a /\ \A k \in 1..N : g[k] = stepping[<<k, g[k - 1]>>]
Follows(g, N, S, a, stepping) == g[0] = a /\ \A k \in 1..N : g[k - 1] \in S => g[k] = stepping[<<k, g[k - 1]>>]
Carried(I, N, S, a, stepping) ==
  <<0, a>> \in I /\ \A k \in 1..N, s \in S : <<k - 1, s>> \in I => <<k, stepping[<<k, s>>]>> \in I

\* A walk written as a recursive function is a function: the least length that could not
\* be walked has one before it.
LEMMA WalkExists ==
  ASSUME NEW N, NEW S, NEW a, NEW stepping, Walk(N, S, a, stepping)
  PROVE  \E g : Walked(g, N, S, a, stepping)
<1>0. N \in Nat /\ a \in S /\ stepping \in [(1..N) \X S -> S]
  BY DEF Walk
<1> DEFINE Walks(g, m) == g \in [0..m -> S] /\ g[0] = a /\ \A k \in 1..m : g[k] = stepping[<<k, g[k - 1]>>]
<1> DEFINE Possible(m) == \E g : Walks(g, m)
<1>1. Possible(0)
  <2> DEFINE g == [k \in 0..0 |-> a]
  <2>1. Walks(g, 0)
    BY <1>0
  <2> QED BY <2>1
<1>2. ASSUME NEW m \in 1..N, Possible(m - 1) PROVE Possible(m)
  <2>1. PICK f : Walks(f, m - 1)
    BY <1>2
  <2>2. m \in Nat /\ 0 \in 0..(m - 1) /\ m - 1 \in 0..(m - 1) /\ f[m - 1] \in S
    BY <1>0, <2>1
  <2> DEFINE g == [k \in 0..m |-> IF k = m THEN stepping[<<m, f[m - 1]>>] ELSE f[k]]
  <2>3. g \in [0..m -> S]
    <3>1. stepping[<<m, f[m - 1]>>] \in S
      BY <1>0, <2>2
    <3>2. \A k \in 0..m : k # m => k \in 0..(m - 1) /\ f[k] \in S
      BY <2>1, <2>2
    <3> QED BY <3>1, <3>2
  <2>4. \A k \in 1..m : g[k] = stepping[<<k, g[k - 1]>>]
    <3> TAKE k \in 1..m
    <3>1. k \in 0..m /\ k - 1 \in 0..m /\ k - 1 # m /\ g[k - 1] = f[k - 1]
      BY <2>2
    <3>2. CASE k = m
      BY <3>1, <3>2
    <3>3. CASE k # m
      <4>1. k \in 1..(m - 1) /\ g[k] = f[k]
        BY <2>2, <3>1, <3>3
      <4> QED BY <2>1, <3>1, <4>1
    <3> QED BY <3>2, <3>3
  <2>5. g[0] = a
    BY <2>1, <2>2
  <2> HIDE DEF g
  <2> QED BY <2>3, <2>4, <2>5
<1> HIDE DEF Possible
<1>3. Possible(N)
  <2> DEFINE Bad == {m \in 0..N : ~Possible(m)}
  <2> SUFFICES ASSUME N \in Bad PROVE FALSE
    BY <1>0
  <2>1. Bad \subseteq Nat /\ Bad # {}
    BY <1>0
  <2>2. PICK m \in Bad : \A y \in Bad : m <= y
    BY <2>1, NatMin
  <2>3. m \in 1..N /\ m - 1 \in 0..N /\ m - 1 \notin Bad /\ ~Possible(m)
    BY <1>0, <1>1, <2>2
  <2> QED BY <1>2, <2>3
<1> QED BY <1>3 DEF Possible, Walked

\* What holds at the start of a walk and over each step holds at its end.
LEMMA WalkHolds ==
  ASSUME NEW N, NEW S, NEW a, NEW stepping, Walk(N, S, a, stepping),
         NEW g, Follows(g, N, S, a, stepping), NEW I, Carried(I, N, S, a, stepping)
  PROVE  g[N] \in S /\ <<N, g[N]>> \in I
<1>0. /\ N \in Nat /\ a \in S /\ stepping \in [(1..N) \X S -> S]
      /\ g[0] = a /\ \A k \in 1..N : g[k - 1] \in S => g[k] = stepping[<<k, g[k - 1]>>]
      /\ <<0, a>> \in I /\ \A k \in 1..N, s \in S : <<k - 1, s>> \in I => <<k, stepping[<<k, s>>]>> \in I
  BY DEF Walk, Follows, Carried
<1> DEFINE Right(m) == g[m] \in S /\ <<m, g[m]>> \in I
<1>1. Right(0)
  BY <1>0
<1>2. ASSUME NEW m \in 1..N, Right(m - 1) PROVE Right(m)
  <2>1. g[m] = stepping[<<m, g[m - 1]>>] /\ stepping[<<m, g[m - 1]>>] \in S
    BY <1>0, <1>2
  <2>2. <<m, stepping[<<m, g[m - 1]>>]>> \in I
    BY <1>0, <1>2
  <2> QED BY <2>1, <2>2
<1> HIDE DEF Right
<1>3. Right(N)
  <2> DEFINE Bad == {m \in 0..N : ~Right(m)}
  <2> SUFFICES ASSUME N \in Bad PROVE FALSE
    BY <1>0
  <2>1. Bad \subseteq Nat /\ Bad # {}
    BY <1>0
  <2>2. PICK m \in Bad : \A y \in Bad : m <= y
    BY <2>1, NatMin
  <2>3. m \in 1..N /\ m - 1 \in 0..N /\ m - 1 \notin Bad /\ ~Right(m)
    BY <1>0, <1>1, <2>2
  <2> QED BY <1>2, <2>3
<1> QED BY <1>3 DEF Right

-----------------------------------------------------------------------------
(* The canvas: what is drawn.                                              *)

CellT == [ch : STRING, fg : Colour, bg : Colour, attr : 0..254]
RowT(n) == [0..(n - 1) -> CellT]

\* A wide glyph and its second half stand together.
Formed(row, n) ==
  \A x \in 0..(n - 1) : /\ row[x].ch \in Wide => x + 1 \in 0..(n - 1) /\ row[x + 1].ch = Half
                        /\ row[x].ch = Half => x - 1 \in 0..(n - 1) /\ row[x - 1].ch \in Wide
Plain(row, x) == row[x].ch # Half /\ row[x].ch \notin Wide

\* What text_clip has drawn: from its place on nothing is wide.
ClipT(n) == [row : RowT(n), x : Nat, cut : BOOLEAN]
ClipInv(acc, n) ==
  /\ acc \in ClipT(n) /\ Formed(acc.row, n)
  /\ \A x \in 0..(n - 1) : x >= acc.x \/ x >= n - 1 => Plain(acc.row, x)

\* A cell made of a glyph and a style is a cell.
LEMMA CellIs == ASSUME NEW ch \in STRING, NEW style, style.fg \in Colour, style.bg \in Colour, style.attr \in 0..254
                PROVE  Cell(ch, style) \in CellT /\ Cell(ch, style).ch = ch
BY DEF Cell, CellT

\* A glyph of one column where no wide one is.
LEMMA PutPlain ==
  ASSUME NEW n \in Nat, NEW row \in RowT(n), Formed(row, n), NEW x \in Int, x \in 0..(n - 1) => Plain(row, x),
         NEW ch \in Glyph, ch \notin Wide,
         NEW style, style.fg \in Colour, style.bg \in Colour, style.attr \in 0..254
  PROVE  /\ put(row, x, ch, style) \in RowT(n) /\ Formed(put(row, x, ch, style), n)
         /\ \A c \in 0..(n - 1) : c # x => put(row, x, ch, style)[c] = row[c]
         /\ x \in 0..(n - 1) => put(row, x, ch, style)[x] = Cell(ch, style) /\ Plain(put(row, x, ch, style), x)
<1> DEFINE new == put(row, x, ch, style)
<1>1. CASE x \notin 0..(n - 1)
  BY <1>1 DEF put, RowT
<1>2. CASE x \in 0..(n - 1)
  <2>1. Cell(ch, style) \in CellT /\ Cell(ch, style).ch = ch /\ ch # Half
    BY CellIs DEF Glyph
  <2>2. /\ new \in RowT(n) /\ new[x] = Cell(ch, style)
        /\ \A c \in 0..(n - 1) : c # x => new[c] = row[c]
    BY <1>2, <2>1 DEF put, RowT
  <2> HIDE DEF new
  <2>3. Formed(new, n)
    <3> SUFFICES ASSUME NEW c \in 0..(n - 1)
                 PROVE  /\ new[c].ch \in Wide => c + 1 \in 0..(n - 1) /\ new[c + 1].ch = Half
                        /\ new[c].ch = Half => c - 1 \in 0..(n - 1) /\ new[c - 1].ch \in Wide
      BY DEF Formed
    <3>1. CASE c = x
      BY <2>1, <2>2, <3>1
    <3>2. CASE c # x
      <4>1. new[c] = row[c]
        BY <2>2, <3>2
      <4>2. c + 1 # x \/ row[c].ch \notin Wide
        BY <1>2 DEF Formed, Plain
      <4>3. c - 1 # x \/ row[c].ch # Half
        BY <1>2 DEF Formed, Plain
      <4> QED BY <2>2, <4>1, <4>2, <4>3 DEF Formed
    <3> QED BY <3>1, <3>2
  <2>4. Plain(new, x)
    BY <2>1, <2>2 DEF Plain
  <2> QED BY <2>2, <2>3, <2>4 DEF new
<1> QED BY <1>1, <1>2

\* A glyph of two columns where no wide one is.
LEMMA PutWide ==
  ASSUME NEW n \in Nat, NEW row \in RowT(n), Formed(row, n), NEW x \in Int, x \in 0..(n - 1), x + 1 \in 0..(n - 1),
         Plain(row, x), Plain(row, x + 1), NEW ch \in Wide, ch \in Glyph,
         NEW style, style.fg \in Colour, style.bg \in Colour, style.attr \in 0..254
  PROVE  LET new == put(put(row, x, ch, style), x + 1, Half, style) IN
         /\ new \in RowT(n) /\ Formed(new, n)
         /\ \A c \in 0..(n - 1) : c # x /\ c # x + 1 => new[c] = row[c]
<1> DEFINE new == put(put(row, x, ch, style), x + 1, Half, style)
<1>1. Cell(ch, style) \in CellT /\ Cell(ch, style).ch = ch /\ Cell(Half, style) \in CellT /\ Cell(Half, style).ch = Half
  <2>1. ch \in STRING /\ Half \in STRING
    BY CanvasAssumption DEF Glyph
  <2> QED BY <2>1, CellIs
<1>2. put(row, x, ch, style) = [row EXCEPT ![x] = Cell(ch, style)] /\ put(row, x, ch, style) \in RowT(n)
  BY <1>1 DEF put, RowT
<1>3. new = [put(row, x, ch, style) EXCEPT ![x + 1] = Cell(Half, style)] /\ new \in RowT(n)
  BY <1>1, <1>2 DEF put, RowT
<1>4. /\ new[x] = Cell(ch, style) /\ new[x + 1] = Cell(Half, style)
      /\ \A c \in 0..(n - 1) : c # x /\ c # x + 1 => new[c] = row[c]
  <2> DEFINE one == put(row, x, ch, style)
  <2>1. one[x] = Cell(ch, style) /\ \A c \in 0..(n - 1) : c # x => one[c] = row[c]
    BY <1>2 DEF RowT
  <2>2. new[x + 1] = Cell(Half, style) /\ \A c \in 0..(n - 1) : c # x + 1 => new[c] = one[c]
    <3> HIDE DEF one
    <3>1. new = [one EXCEPT ![x + 1] = Cell(Half, style)] /\ one \in RowT(n)
      BY <1>2, <1>3 DEF one
    <3> HIDE DEF new
    <3> QED BY <3>1 DEF RowT
  <2> HIDE DEF one, new
  <2> QED BY <2>1, <2>2
<1> HIDE DEF new
<1>5. Half \notin Wide
  BY CanvasAssumption
<1>6. Formed(new, n)
  <2> SUFFICES ASSUME NEW c \in 0..(n - 1)
               PROVE  /\ new[c].ch \in Wide => c + 1 \in 0..(n - 1) /\ new[c + 1].ch = Half
                      /\ new[c].ch = Half => c - 1 \in 0..(n - 1) /\ new[c - 1].ch \in Wide
    BY DEF Formed
  <2>1. CASE c = x
    BY <1>1, <1>4, <2>1 DEF Glyph
  <2>2. CASE c = x + 1
    BY <1>1, <1>4, <1>5, <2>2
  <2>3. CASE c # x /\ c # x + 1
    <3>1. new[c] = row[c]
      BY <1>4, <2>3
    <3>2. row[c].ch \in Wide => c + 1 # x /\ c + 1 # x + 1
      BY <2>3 DEF Formed, Plain
    <3>3. row[c].ch = Half => c - 1 # x /\ c - 1 # x + 1
      BY DEF Formed, Plain
    <3> QED BY <1>4, <3>1, <3>2, <3>3 DEF Formed
  <2> QED BY <2>1, <2>2, <2>3
<1> QED BY <1>3, <1>4, <1>6 DEF new

\* One glyph.
LEMMA ClipKeeps ==
  ASSUME NEW n \in Nat \ {0}, NEW acc, ClipInv(acc, n), NEW ch \in Glyph,
         NEW style, style.fg \in Colour, style.bg \in Colour, style.attr \in 0..254
  PROVE  ClipInv(Clip(acc, ch, n - 1, style), n)
<1> DEFINE cw == char_width(ch)
<1> DEFINE end == n - 1
<1>1. /\ acc.row \in RowT(n) /\ acc.x \in Nat /\ acc.cut \in BOOLEAN /\ Formed(acc.row, n) /\ acc \in ClipT(n)
      /\ \A x \in 0..(n - 1) : x >= acc.x \/ x >= n - 1 => Plain(acc.row, x)
  BY DEF ClipInv, ClipT
<1>2. cw \in 0..2 /\ (cw = 2 <=> ch \in Wide)
  BY DEF char_width
<1>3. CASE acc.cut \/ acc.x >= end \/ cw = 0
  BY <1>3 DEF Clip
<1>4. CASE ~(acc.cut \/ acc.x >= end \/ cw = 0) /\ acc.x + cw > end
  <2>1. Clip(acc, ch, end, style) = [acc EXCEPT !.cut = TRUE, !.row = put(@, end - 1, Ellipsis, style)]
    BY <1>4 DEF Clip
  <2>2. end - 1 \in Int /\ end - 1 \in 0..(n - 1) /\ end - 1 >= acc.x
    BY <1>1, <1>2, <1>4
  <2>3. Ellipsis \in Glyph /\ Ellipsis \notin Wide
    <3>1. Ellipsis \notin Wide /\ Ellipsis \in STRING
      BY CanvasAssumption
    <3>2. Ellipsis # Half
      BY DEF Half, Ellipsis
    <3> QED BY <3>1, <3>2 DEF Glyph
  <2> DEFINE new == put(acc.row, end - 1, Ellipsis, style)
  <2>4. /\ new \in RowT(n) /\ Formed(new, n) /\ Plain(new, end - 1)
        /\ \A c \in 0..(n - 1) : c # end - 1 => new[c] = acc.row[c]
    <3> DEFINE z == end - 1
    <3> DEFINE row == acc.row
    <3>1. n \in Nat /\ row \in RowT(n) /\ Formed(row, n) /\ z \in Int /\ z \in 0..(n - 1) /\ Plain(row, z)
      BY <1>1, <2>2
    <3> HIDE DEF z, row, end, cw
    <3> DEFINE there == put(row, z, Ellipsis, style)
    <3>2. /\ there \in RowT(n) /\ Formed(there, n) /\ Plain(there, z)
          /\ \A c \in 0..(n - 1) : c # z => there[c] = row[c]
      BY <2>3, <3>1, PutPlain
    <3> HIDE DEF there
    <3>3. new = there
      BY DEF there, z, row
    <3> HIDE DEF new
    <3> QED BY <3>2, <3>3 DEF z, row
  <2> HIDE DEF new
  <2>5. Clip(acc, ch, end, style) = [row |-> new, x |-> acc.x, cut |-> TRUE]
    BY <1>1, <2>1 DEF ClipT, new
  <2>6. \A x \in 0..(n - 1) : x >= acc.x \/ x >= n - 1 => Plain(new, x)
    BY <1>1, <2>4 DEF Plain
  <2>7. [row |-> new, x |-> acc.x, cut |-> TRUE] \in ClipT(n)
    BY <1>1, <2>4 DEF ClipT
  <2> HIDE DEF end, cw
  <2> QED BY <2>4, <2>5, <2>6, <2>7 DEF ClipInv, end
<1>5. CASE ~(acc.cut \/ acc.x >= end \/ cw = 0) /\ ~(acc.x + cw > end)
  <2> DEFINE one == put(acc.row, acc.x, ch, style)
  <2> DEFINE new == IF cw = 2 THEN put(one, acc.x + 1, Half, style) ELSE one
  <2>1. Clip(acc, ch, end, style) = [acc EXCEPT !.x = @ + cw, !.row = new]
    BY <1>5 DEF Clip
  <2>2. acc.x \in Int /\ acc.x \in 0..(n - 1) /\ Plain(acc.row, acc.x)
    BY <1>1, <1>2, <1>5
  <2>3. new \in RowT(n) /\ Formed(new, n) /\ \A c \in 0..(n - 1) : c >= acc.x + cw => new[c] = acc.row[c]
    <3>1. CASE cw = 2
      <4>1. acc.x + 1 \in 0..(n - 1) /\ Plain(acc.row, acc.x + 1)
        BY <1>1, <1>5, <3>1
      <4>2. ch \in Wide
        BY <1>2, <3>1
      <4>3. /\ put(one, acc.x + 1, Half, style) \in RowT(n) /\ Formed(put(one, acc.x + 1, Half, style), n)
            /\ \A c \in 0..(n - 1) : c # acc.x /\ c # acc.x + 1 => put(one, acc.x + 1, Half, style)[c] = acc.row[c]
        BY <1>1, <2>2, <4>1, <4>2, PutWide
      <4> HIDE DEF one
      <4> QED BY <1>1, <3>1, <4>3
    <3>2. CASE cw = 1
      <4>1. ch \notin Wide
        BY <1>2, <3>2
      <4>2. one \in RowT(n) /\ Formed(one, n) /\ \A c \in 0..(n - 1) : c # acc.x => one[c] = acc.row[c]
        BY <1>1, <2>2, <4>1, PutPlain
      <4> HIDE DEF one
      <4> QED BY <1>1, <3>2, <4>2
    <3> QED BY <1>2, <1>5, <3>1, <3>2
  <2> HIDE DEF new
  <2>4. Clip(acc, ch, end, style) = [row |-> new, x |-> acc.x + cw, cut |-> acc.cut]
    BY <1>1, <2>1 DEF ClipT
  <2>5. acc.x + cw \in Nat
    BY <1>1, <1>2
  <2>6. end = n - 1 /\ acc.x + cw <= n - 1
    BY <1>1, <1>2, <1>5
  <2> HIDE DEF cw, end
  <2>7. \A x \in 0..(n - 1) : x >= acc.x + cw \/ x >= n - 1 => Plain(new, x)
    <3> SUFFICES ASSUME NEW x \in 0..(n - 1), x >= acc.x + cw \/ x >= n - 1 PROVE Plain(new, x)
      OBVIOUS
    <3>1. x >= acc.x + cw /\ x >= acc.x
      BY <1>1, <1>2, <2>5, <2>6
    <3> QED BY <1>1, <2>3, <3>1 DEF Plain
  <2> QED BY <1>1, <2>3, <2>4, <2>5, <2>6, <2>7 DEF ClipInv, ClipT
<1> QED BY <1>3, <1>4, <1>5


\* The text of a row: what is wide in it is whole, and the last column is free.
LEMMA TextClip ==
  ASSUME NEW n \in Nat \ {0}, NEW row \in RowT(n), Formed(row, n), \A x \in 0..(n - 1) : Plain(row, x),
         NEW s \in Seq(Glyph), NEW style, style.fg \in Colour, style.bg \in Colour, style.attr \in 0..254
  PROVE  LET new == text_clip(row, n - 1, s, style) IN new \in RowT(n) /\ Formed(new, n) /\ Plain(new, n - 1)
<1> DEFINE N == Len(s)
<1> DEFINE S == {acc \in ClipT(n) : ClipInv(acc, n)}
<1> DEFINE a == [row |-> row, x |-> 0, cut |-> FALSE]
<1> DEFINE stepping == [p \in (1..N) \X S |-> Clip(p[2], s[p[1]], n - 1, style)]
<1> DEFINE clip == CHOOSE f : f = [k \in 0..N |-> IF k = 0 THEN a ELSE Clip(f[k - 1], s[k], n - 1, style)]
<1>0. text_clip(row, n - 1, s, style) = clip[N].row
  BY DEF text_clip
<1>1. N \in Nat /\ a \in S /\ \A k \in 1..N : s[k] \in Glyph
  <2>1. ClipInv(a, n)
    BY DEF ClipInv, ClipT
  <2>2. a \in S
    BY <2>1 DEF ClipInv
  <2> QED BY <2>2
<1>2. \A k \in 1..N, acc \in S : Clip(acc, s[k], n - 1, style) \in S
  <2> TAKE k \in 1..N, acc \in S
  <2> DEFINE new == Clip(acc, s[k], n - 1, style)
  <2>1. ClipInv(new, n)
    BY <1>1, ClipKeeps
  <2> HIDE DEF new
  <2>2. new \in S
    BY <2>1 DEF ClipInv
  <2> QED BY <2>2 DEF new
<1> HIDE DEF N, S, a
<1>3. Walk(N, S, a, stepping)
  BY <1>1, <1>2 DEF Walk
<1>4. \A k \in 1..N, acc \in S : stepping[<<k, acc>>] = Clip(acc, s[k], n - 1, style)
  OBVIOUS
<1> HIDE DEF stepping
<1>5. \E g \in [0..N -> S] : g[0] = a /\ \A k \in 1..N : g[k] = stepping[<<k, g[k - 1]>>]
  BY <1>3, WalkExists DEF Walked
<1>6. \E f : f = [k \in 0..N |-> IF k = 0 THEN a ELSE Clip(f[k - 1], s[k], n - 1, style)]
  <2> PICK g \in [0..N -> S] : g[0] = a /\ \A k \in 1..N : g[k] = stepping[<<k, g[k - 1]>>]
    BY <1>5
  <2>1. \A k \in 0..N : g[k] = IF k = 0 THEN a ELSE Clip(g[k - 1], s[k], n - 1, style)
    <3> TAKE k \in 0..N
    <3>1. CASE k # 0
      <4>1. k \in 1..N /\ k - 1 \in 0..N /\ g[k - 1] \in S
        BY <1>1, <3>1
      <4> QED BY <1>4, <3>1, <4>1
    <3> QED BY <3>1
  <2>2. g = [k \in 0..N |-> IF k = 0 THEN a ELSE Clip(g[k - 1], s[k], n - 1, style)]
    BY <2>1
  <2> QED BY ONLY <2>2, Zenon
<1>7. clip = [k \in 0..N |-> IF k = 0 THEN a ELSE Clip(clip[k - 1], s[k], n - 1, style)]
  BY ONLY <1>6
<1> HIDE DEF clip
<1>8. clip[0] = a /\ \A k \in 1..N : clip[k] = Clip(clip[k - 1], s[k], n - 1, style)
  <2>1. 0 \in 0..N /\ \A k \in 1..N : k \in 0..N /\ k # 0
    BY <1>1
  <2> QED BY <1>7, <2>1
<1>9. clip[N] \in S
  <2>1. Follows(clip, N, S, a, stepping)
    BY <1>4, <1>8 DEF Follows
  <2> DEFINE I == (0..N) \X S
  <2>2. Carried(I, N, S, a, stepping)
    <3>1. 0 \in 0..N /\ \A k \in 1..N, acc \in S : k \in 0..N /\ stepping[<<k, acc>>] \in S
      BY <1>1, <1>2, <1>4
    <3> QED BY <1>1, <3>1 DEF Carried
  <2> HIDE DEF I
  <2> QED BY <1>3, <2>1, <2>2, WalkHolds
<1>10. ClipInv(clip[N], n) /\ n - 1 \in 0..(n - 1)
  BY <1>9 DEF S
<1> QED BY <1>0, <1>10 DEF ClipInv, ClipT

\* The style of a terminal after a reset, and the background of a frame.
LEMMA UnstyledIs ==
  /\ Unstyled.fg \in Colour /\ Unstyled.bg \in Colour /\ Unstyled.attr \in 0..254
  /\ Background.fg \in Colour /\ Background.bg \in Colour /\ Background.attr \in 0..254
<1>1. "grey" \in Colour /\ "black" \in Colour /\ "bg" \in Colour
  <2>1. {"grey", "black", "bg"} \subseteq STRING
    BY CanvasAssumption
  <2> QED BY <2>1 DEF Colour
<1> QED BY <1>1 DEF Background, Unstyled

\* A frame as it is drawn.
LEMMA DrawnIs ==
  ASSUME NEW n \in Nat \ {0}, NEW frame \in Frames
  PROVE  Drawn(n, frame) \in [1..Height -> RowT(n)] /\ \A y \in 1..Height : Formed(Drawn(n, frame)[y], n)
<1> DEFINE new == Drawn(n, frame)
<1> DEFINE blank == Cell(" ", Background)
<1> DEFINE row == [x \in 0..(n - 1) |-> blank]
<1> DEFINE text(y) == text_clip(row, n - 1, frame[y].s, frame[y])
<1>1. blank \in CellT /\ blank.ch = " " /\ " " # Half /\ " " \notin Wide
  <2>1. Background.fg \in Colour /\ Background.bg \in Colour /\ Background.attr \in 0..254
    BY UnstyledIs
  <2>2. " " \in STRING /\ " " \notin Wide
    BY CanvasAssumption
  <2>3. " " # Half
    BY DEF Half
  <2> QED BY <2>1, <2>2, <2>3, CellIs
<1> HIDE DEF blank
<1>2. row \in RowT(n) /\ \A x \in 0..(n - 1) : row[x] = blank
  BY <1>1 DEF RowT
<1> HIDE DEF row
<1>3. Formed(row, n) /\ \A x \in 0..(n - 1) : Plain(row, x)
  BY <1>1, <1>2 DEF Formed, Plain
<1>4. \A y \in 1..Height : /\ new[y] = put(text(y), n - 1, Edge, Unstyled)
                           /\ frame[y].s \in Seq(Glyph) /\ frame[y].fg \in Colour /\ frame[y].bg \in Colour
                           /\ frame[y].attr \in 0..254
  <2> TAKE y \in 1..Height
  <2>1. Filled(n, blank)[y] = row
    BY DEF Filled, row
  <2>2. frame[y] \in [s : Seq(Glyph), fg : Colour, bg : Colour, attr : 0..254]
    BY CanvasAssumption
  <2>3. new[y] = put(text(y), n - 1, Edge, Unstyled)
    BY <2>1 DEF Drawn, blank
  <2> QED BY <2>2, <2>3
<1>5. \A y \in 1..Height : new[y] \in RowT(n) /\ Formed(new[y], n)
  <2> TAKE y \in 1..Height
  <2>1. text(y) \in RowT(n) /\ Formed(text(y), n) /\ Plain(text(y), n - 1)
    BY <1>2, <1>3, <1>4, TextClip
  <2> HIDE DEF text
  <2>2. Edge \in Glyph /\ Edge \notin Wide
    <3>1. Edge \in STRING /\ Edge \notin Wide
      BY CanvasAssumption
    <3>2. Edge # Half
      BY DEF Edge, Half
    <3> QED BY <3>1, <3>2 DEF Glyph
  <2>3. Unstyled.fg \in Colour /\ Unstyled.bg \in Colour /\ Unstyled.attr \in 0..254
    BY UnstyledIs
  <2> DEFINE last == put(text(y), n - 1, Edge, Unstyled)
  <2>4. last \in RowT(n) /\ Formed(last, n)
    BY <2>1, <2>2, <2>3, PutPlain
  <2> HIDE DEF last
  <2> QED BY <1>4, <2>4 DEF last
<1>6. new = [y \in 1..Height |-> new[y]]
  BY DEF Drawn
<1> HIDE DEF new
<1> QED BY <1>5, <1>6 DEF new

-----------------------------------------------------------------------------
(* The canvas: what is sent.                                               *)

\* The terminal, and what a flush remembers of what it told it: 255 and "none" are nothing.
TtyT(n) == [w : {n}, cells : [1..Height -> RowT(n)], y : Int, x : Int, style : Style]
PenT(n) ==
  [t : TtyT(n), pf : Colour \cup {"none"}, pb : Colour \cup {"none"}, pa : 0..255, cx : Int, cy : Int]
PenHolds(acc) ==
  /\ acc.cy # -1 => acc.t.y = acc.cy /\ acc.t.x = acc.cx
  /\ acc.pa # 255 => acc.t.style.attr = acc.pa
  /\ acc.pf # "none" => acc.t.style.fg = acc.pf
  /\ acc.pb # "none" => acc.t.style.bg = acc.pb

\* The rows are numbered from one: -1 is the row of no cell.
LEMMA HeightNat == Height \in Nat
BY CanvasAssumption

\* A row is never the one of no cell.
LEMMA RowIs == ASSUME NEW y \in 1..Height PROVE y \in Nat /\ y # -1
BY HeightNat

\* The terminal and the pen, field by field.
LEMMA TtyFields ==
  ASSUME NEW n, NEW t \in TtyT(n)
  PROVE  /\ t.w = n /\ t.cells \in [1..Height -> RowT(n)] /\ t.y \in Int /\ t.x \in Int /\ t.style \in Style
         /\ t = [w |-> n, cells |-> t.cells, y |-> t.y, x |-> t.x, style |-> t.style]
BY DEF TtyT

\* The pen, field by field.
LEMMA PenFields ==
  ASSUME NEW n, NEW acc \in PenT(n)
  PROVE  /\ acc.t \in TtyT(n) /\ acc.pf \in Colour \cup {"none"} /\ acc.pb \in Colour \cup {"none"}
         /\ acc.pa \in 0..255 /\ acc.cx \in Int /\ acc.cy \in Int
         /\ acc = [t |-> acc.t, pf |-> acc.pf, pb |-> acc.pb, pa |-> acc.pa, cx |-> acc.cx, cy |-> acc.cy]
BY DEF PenT

\* A row of the terminal is a row of cells.
LEMMA PenRow == ASSUME NEW n, NEW acc \in PenT(n), NEW y \in 1..Height PROVE acc.t.cells[y] \in RowT(n)
<1>1. acc.t.cells \in [1..Height -> RowT(n)]
  BY PenFields, TtyFields
<1> QED BY <1>1

\* What each step of Emit makes of the record, field by field.
LEMMA PenMoved ==
  ASSUME NEW n, NEW r \in PenT(n), NEW t, NEW cx, NEW cy, NEW new, new = [r EXCEPT !.t = t, !.cy = cy, !.cx = cx]
  PROVE  new = [t |-> t, pf |-> r.pf, pb |-> r.pb, pa |-> r.pa, cx |-> cx, cy |-> cy]
BY DEF PenT
\* A colour is told.
LEMMA PenInked ==
  ASSUME NEW n, NEW r \in PenT(n), NEW t, NEW pf, NEW new, new = [r EXCEPT !.t = t, !.pf = pf]
  PROVE  new = [t |-> t, pf |-> pf, pb |-> r.pb, pa |-> r.pa, cx |-> r.cx, cy |-> r.cy]
BY DEF PenT
\* A background is told.
LEMMA PenPapered ==
  ASSUME NEW n, NEW r \in PenT(n), NEW t, NEW pb, NEW new, new = [r EXCEPT !.t = t, !.pb = pb]
  PROVE  new = [t |-> t, pf |-> r.pf, pb |-> pb, pa |-> r.pa, cx |-> r.cx, cy |-> r.cy]
BY DEF PenT
\* A glyph is sent.
LEMMA PenWrote ==
  ASSUME NEW n, NEW r \in PenT(n), NEW t, NEW w, NEW new, new = [r EXCEPT !.t = t, !.cx = @ + w]
  PROVE  new = [t |-> t, pf |-> r.pf, pb |-> r.pb, pa |-> r.pa, cx |-> r.cx + w, cy |-> r.cy]
BY DEF PenT
\* The cursor is moved.
LEMMA TtyMoved ==
  ASSUME NEW n, NEW r \in TtyT(n), NEW y, NEW x, NEW new, new = CursorAt(r, y, x)
  PROVE  new = [w |-> n, cells |-> r.cells, y |-> y, x |-> x, style |-> r.style]
BY DEF TtyT, CursorAt
\* The terminal draws a glyph.
LEMMA TtyWrote ==
  ASSUME NEW n, NEW r \in TtyT(n), NEW ch, NEW new, new = Write(r, ch)
  PROVE  new = [w |-> n, cells |-> [r.cells EXCEPT ![r.y] = Laid(r.cells[r.y], r.x, ch, r.style)],
                y |-> r.y, x |-> r.x + char_width(ch), style |-> r.style]
BY DEF TtyT, Write
\* The terminal takes a style.
LEMMA TtyStyled ==
  ASSUME NEW n, NEW r \in TtyT(n), NEW style, NEW new, new = [r EXCEPT !.style = style]
  PROVE  new = [w |-> r.w, cells |-> r.cells, y |-> r.y, x |-> r.x, style |-> style]
BY DEF TtyT
\* The terminal is reset, and told an attribute.
LEMMA TtyReset ==
  ASSUME NEW n, NEW r \in TtyT(n), NEW attr, NEW new, new = Sgr(Sgr0(r), "attr", attr)
  PROVE  new = [w |-> r.w, cells |-> r.cells, y |-> r.y, x |-> r.x,
                style |-> [fg |-> Unstyled.fg, bg |-> Unstyled.bg, attr |-> attr]]
<1> DEFINE reset == Sgr0(r)
<1>1. reset = [w |-> r.w, cells |-> r.cells, y |-> r.y, x |-> r.x, style |-> Unstyled]
  <2>1. reset = [r EXCEPT !.style = Unstyled]
    BY DEF Sgr0
  <2> HIDE DEF reset
  <2> QED BY <2>1, TtyStyled
<1> HIDE DEF reset
<1> DEFINE style == [Unstyled EXCEPT !["attr"] = attr]
<1>2. style = [fg |-> Unstyled.fg, bg |-> Unstyled.bg, attr |-> attr]
  <2>1. style = [Unstyled EXCEPT !.attr = attr] /\ Unstyled = [fg |-> "grey", bg |-> "black", attr |-> 0]
    BY DEF Unstyled
  <2> HIDE DEF style
  <2> QED BY <2>1
<1>3. new = [reset EXCEPT !.style = style]
  BY <1>1 DEF Sgr, reset
<1> HIDE DEF style
<1>4. new = [w |-> r.w, cells |-> r.cells, y |-> r.y, x |-> r.x, style |-> style]
  BY <1>1, <1>3
<1> QED BY <1>2, <1>4

\* The pen stands where the next cell goes; and the same after the terminal is told a style.
PenAt(acc, n, y, x, was) ==
  acc \in PenT(n) /\ PenHolds(acc) /\ acc.t.cells = was /\ acc.cy = y /\ acc.cx = x /\ acc.t.y = y /\ acc.t.x = x
Styled(acc, style, pf, pb, pa) ==
  [t |-> [w |-> acc.t.w, cells |-> acc.t.cells, y |-> acc.t.y, x |-> acc.t.x, style |-> style],
   pf |-> pf, pb |-> pb, pa |-> pa, cx |-> acc.cx, cy |-> acc.cy]
Known(style, pf, pb, pa) ==
  /\ style \in Style /\ pf \in Colour \cup {"none"} /\ pb \in Colour \cup {"none"} /\ pa \in 0..255
  /\ (pf # "none" => style.fg = pf) /\ (pb # "none" => style.bg = pb) /\ (pa # 255 => style.attr = pa)
\* The pen stays where it was, and remembers no more than it told.
LEMMA StyledIs ==
  ASSUME NEW n, NEW acc, NEW y, NEW x, NEW was, PenAt(acc, n, y, x, was),
         NEW style, NEW pf, NEW pb, NEW pa, Known(style, pf, pb, pa)
  PROVE  PenAt(Styled(acc, style, pf, pb, pa), n, y, x, was) /\ Styled(acc, style, pf, pb, pa).t.style = style
<1> DEFINE new == Styled(acc, style, pf, pb, pa)
<1>1. acc \in PenT(n) /\ PenHolds(acc) /\ acc.t.cells = was /\ acc.cy = y /\ acc.cx = x /\ acc.t.y = y /\ acc.t.x = x
  BY DEF PenAt
<1>2. acc.t \in TtyT(n) /\ acc.cx \in Int /\ acc.cy \in Int
  BY <1>1, PenFields
<1>3. /\ acc.t.w = n /\ acc.t.cells \in [1..Height -> RowT(n)] /\ acc.t.y \in Int /\ acc.t.x \in Int
  BY <1>2, TtyFields
<1>4. new.t = [w |-> n, cells |-> was, y |-> y, x |-> x, style |-> style] /\ new.t \in TtyT(n)
  BY <1>1, <1>3 DEF TtyT, Styled, Known
<1>5. new = [t |-> new.t, pf |-> pf, pb |-> pb, pa |-> pa, cx |-> x, cy |-> y]
  BY <1>1 DEF Styled
<1> HIDE DEF new
<1>6. new \in PenT(n)
  BY <1>1, <1>2, <1>4, <1>5 DEF PenT, Known
<1>7. PenHolds(new)
  BY <1>4, <1>5 DEF PenHolds, Known
<1> QED BY <1>4, <1>5, <1>6, <1>7 DEF PenAt, new

\* A glyph laid on a row leaves a row.
LEMMA LaidT ==
  ASSUME NEW n \in Nat, NEW row \in RowT(n), NEW x \in Int, NEW ch \in STRING,
         NEW style, style.fg \in Colour, style.bg \in Colour, style.attr \in 0..254
  PROVE  Laid(row, x, ch, style) \in RowT(n)
<1>1. Cell(ch, style) \in CellT /\ Cell(Half, style) \in CellT
  <2>1. Half \in STRING
    BY CanvasAssumption
  <2> QED BY <2>1, CellIs
<1>2. Junk \in CellT
  <2>1. "?" \in STRING
    BY CanvasAssumption
  <2> QED BY <2>1, CellIs, UnstyledIs DEF Junk
<1>3. \A r \in RowT(n), z \in Int : Split(r, z) \in RowT(n)
  BY <1>2 DEF Split, RowT
<1>4. DOMAIN row = 0..(n - 1)
  BY DEF RowT
<1>5. x + 1 \in Int
  OBVIOUS
<1>6. CASE ch \in Wide
  <2> DEFINE around == Split(Split(row, x), x + 1)
  <2>1. around \in RowT(n)
    BY <1>3, <1>5
  <2> HIDE DEF around
  <2>2. Laid(row, x, ch, style) = [c \in 0..(n - 1) |-> IF c = x THEN Cell(ch, style) ELSE IF c = x + 1 THEN Cell(Half, style) ELSE around[c]]
    BY <1>4, <1>6 DEF Laid, around
  <2> QED BY <1>1, <2>1, <2>2 DEF RowT
<1>7. CASE ch \notin Wide
  <2> DEFINE around == Split(row, x)
  <2>1. around \in RowT(n)
    BY <1>3
  <2> HIDE DEF around
  <2>2. Laid(row, x, ch, style) = [c \in 0..(n - 1) |-> IF c = x THEN Cell(ch, style) ELSE around[c]]
    BY <1>4, <1>7 DEF Laid, around
  <2> QED BY <1>1, <2>1, <2>2 DEF RowT
<1> QED BY <1>6, <1>7

\* A cell is sent as it is, where it is, whatever the terminal had been told before.
LEMMA EmitIs ==
  ASSUME NEW n \in Nat, NEW acc \in PenT(n), PenHolds(acc), NEW y \in 1..Height, NEW x \in Nat, NEW c \in CellT
  PROVE  LET new == Emit(acc, y, x, c) IN
         /\ new \in PenT(n) /\ PenHolds(new)
         /\ new.t.cells = [acc.t.cells EXCEPT ![y] = Laid(@, x, c.ch, c)]
<1> DEFINE moved == IF acc.cy = y /\ acc.cx = x THEN acc ELSE [acc EXCEPT !.t = CursorAt(@, y, x), !.cy = y, !.cx = x]
<1> DEFINE weight == IF c.attr = moved.pa THEN moved
                     ELSE [moved EXCEPT !.t = Sgr(Sgr0(@), "attr", c.attr), !.pa = c.attr, !.pf = "none", !.pb = "none"]
<1> DEFINE ink == IF c.fg = weight.pf THEN weight ELSE [weight EXCEPT !.t = Sgr(@, "fg", c.fg), !.pf = c.fg]
<1> DEFINE paper == IF c.bg = ink.pb THEN ink ELSE [ink EXCEPT !.t = Sgr(@, "bg", c.bg), !.pb = c.bg]
<1>0. Emit(acc, y, x, c) = [paper EXCEPT !.t = Write(@, c.ch), !.cx = @ + char_width(c.ch)]
  BY DEF Emit
<1>1. /\ c.ch \in STRING /\ c.fg \in STRING /\ c.bg \in STRING /\ c.attr \in 0..254
      /\ c.fg \in Colour /\ c.bg \in Colour /\ c.fg # "none" /\ c.bg # "none"
  BY DEF CellT, Colour
<1>2. y \in Nat /\ y # -1
  BY RowIs
<1> DEFINE was == acc.t.cells
<1> DEFINE PenOn(pen) == PenAt(pen, n, y, x, was)
<1>3. PenOn(moved)
  <2>1. CASE acc.cy = y /\ acc.cx = x
    <3>1. moved = acc
      BY <2>1
    <3> HIDE DEF moved
    <3> QED BY <1>2, <2>1, <3>1 DEF PenHolds, PenAt
  <2>2. CASE ~(acc.cy = y /\ acc.cx = x)
    <3> DEFINE t == [w |-> n, cells |-> was, y |-> y, x |-> x, style |-> acc.t.style]
    <3>1. /\ acc.t \in TtyT(n) /\ acc.t.cells \in [1..Height -> RowT(n)] /\ acc.t.style \in Style
          /\ acc.t = [w |-> n, cells |-> acc.t.cells, y |-> acc.t.y, x |-> acc.t.x, style |-> acc.t.style]
      BY PenFields, TtyFields
    <3>2. CursorAt(acc.t, y, x) = t
      <4> DEFINE to == CursorAt(acc.t, y, x)
      <4>1. to = [w |-> n, cells |-> acc.t.cells, y |-> y, x |-> x, style |-> acc.t.style]
        <5>1. to = CursorAt(acc.t, y, x)
          OBVIOUS
        <5> HIDE DEF to
        <5> QED BY <3>1, <5>1, TtyMoved
      <4> QED BY <4>1
    <3>3. t \in TtyT(n)
      BY <1>2, <3>1 DEF TtyT
    <3>4. moved = [t |-> t, pf |-> acc.pf, pb |-> acc.pb, pa |-> acc.pa, cx |-> x, cy |-> y]
      <4>1. moved = [acc EXCEPT !.t = t, !.cy = y, !.cx = x]
        BY <2>2, <3>2
      <4> HIDE DEF moved, t
      <4> QED BY <4>1, PenMoved
    <3> HIDE DEF moved
    <3>5. moved \in PenT(n)
      <4> HIDE DEF t
      <4> QED BY <1>2, <3>3, <3>4, PenFields DEF PenT
    <3>6. PenHolds(moved)
      BY <3>4 DEF PenHolds
    <3> QED BY <3>4, <3>5, <3>6 DEF PenAt
  <2> QED BY <2>1, <2>2
<1> HIDE DEF moved, PenOn
<1>3a. \A pen : PenOn(pen) => /\ pen.t \in TtyT(n) /\ pen.t.style \in Style /\ PenHolds(pen)
                           /\ pen.pf \in Colour \cup {"none"} /\ pen.pb \in Colour \cup {"none"} /\ pen.pa \in 0..255
  BY PenFields, TtyFields DEF PenOn, PenAt
<1>3b. \A pen : PenOn(pen) => pen \in PenT(n)
  BY DEF PenOn, PenAt
<1>4. PenOn(weight) /\ weight.t.style.attr = c.attr
  <2>1. CASE c.attr = moved.pa
    BY <1>1, <1>3, <1>3a, <2>1 DEF PenHolds
  <2>2. CASE c.attr # moved.pa
    <3> DEFINE style == [fg |-> Unstyled.fg, bg |-> Unstyled.bg, attr |-> c.attr]
    <3> DEFINE t == Sgr(Sgr0(moved.t), "attr", c.attr)
    <3>1. t = [w |-> moved.t.w, cells |-> moved.t.cells, y |-> moved.t.y, x |-> moved.t.x, style |-> style]
      <4>1. t = Sgr(Sgr0(moved.t), "attr", c.attr) /\ moved.t \in TtyT(n)
        BY <1>3, <1>3a
      <4> HIDE DEF t
      <4> QED BY <4>1, TtyReset
    <3>2. style \in Style /\ style.attr = c.attr
      BY <1>1, UnstyledIs DEF Style
    <3> HIDE DEF style
    <3>3. weight = Styled(moved, style, "none", "none", c.attr)
      <4>1. weight = [moved EXCEPT !.t = t, !.pa = c.attr, !.pf = "none", !.pb = "none"] /\ moved \in PenT(n)
        BY <1>3, <1>3b, <2>2
      <4> HIDE DEF weight, t
      <4>2. weight = [t |-> t, pf |-> "none", pb |-> "none", pa |-> c.attr, cx |-> moved.cx, cy |-> moved.cy]
        BY ONLY <4>1 DEF PenT
      <4> QED BY <3>1, <4>2 DEF Styled
    <3> HIDE DEF weight
    <3>4. Known(style, "none", "none", c.attr)
      BY <1>1, <3>2 DEF Known
    <3>5. PenAt(weight, n, y, x, was) /\ weight.t.style = style
      <4>1. PenAt(moved, n, y, x, was) /\ style \in Style
        BY <1>3, <3>2 DEF PenOn
      <4>2. PenAt(Styled(moved, style, "none", "none", c.attr), n, y, x, was) /\ Styled(moved, style, "none", "none", c.attr).t.style = style
        <5> HIDE DEF was
        <5> QED BY <3>4, <4>1, StyledIs
      <4> QED BY <3>3, <4>2
    <3> QED BY <3>2, <3>5 DEF PenOn
  <2> QED BY <2>1, <2>2
<1> HIDE DEF weight
<1>5. PenOn(ink) /\ ink.t.style.attr = c.attr /\ ink.t.style.fg = c.fg
  <2>1. CASE c.fg = weight.pf
    BY <1>1, <1>4, <1>3a, <2>1 DEF PenHolds
  <2>2. CASE c.fg # weight.pf
    <3> DEFINE style == [weight.t.style EXCEPT !.fg = c.fg]
    <3> DEFINE t == Sgr(weight.t, "fg", c.fg)
    <3>1. t = [w |-> weight.t.w, cells |-> weight.t.cells, y |-> weight.t.y, x |-> weight.t.x, style |-> style]
      <4>1. t = [weight.t EXCEPT !.style = style] /\ weight.t \in TtyT(n)
        BY <1>4, <1>3a DEF Sgr
      <4> HIDE DEF t, style
      <4> QED BY <4>1, TtyStyled
    <3>2. weight.t.style \in Style
      BY <1>3a, <1>4
    <3>3. style \in Style /\ style.attr = c.attr /\ style.fg = c.fg /\ style.bg = weight.t.style.bg
      BY <1>1, <1>4, <3>2 DEF Style
    <3> HIDE DEF style
    <3>4. ink = Styled(weight, style, c.fg, weight.pb, weight.pa)
      <4>1. ink = [weight EXCEPT !.t = t, !.pf = c.fg] /\ weight \in PenT(n)
        BY <1>4, <1>3b, <2>2
      <4> HIDE DEF ink, t
      <4>2. ink = [t |-> t, pf |-> c.fg, pb |-> weight.pb, pa |-> weight.pa, cx |-> weight.cx, cy |-> weight.cy]
        BY <4>1, PenInked
      <4> QED BY <3>1, <4>2 DEF Styled
    <3> HIDE DEF ink
    <3>5. Known(style, c.fg, weight.pb, weight.pa)
      <4>1. /\ c.fg \in Colour \cup {"none"} /\ weight.pb \in Colour \cup {"none"} /\ weight.pa \in 0..255
            /\ (weight.pb # "none" => style.bg = weight.pb) /\ (weight.pa # 255 => style.attr = weight.pa)
        BY <1>1, <1>4, <1>3a, <3>3 DEF PenHolds
      <4> QED BY <3>3, <4>1 DEF Known
    <3>6. PenAt(ink, n, y, x, was) /\ ink.t.style = style
      <4>1. PenAt(weight, n, y, x, was) /\ style \in Style
        BY <1>4, <3>3 DEF PenOn
      <4>2. PenAt(Styled(weight, style, c.fg, weight.pb, weight.pa), n, y, x, was) /\ Styled(weight, style, c.fg, weight.pb, weight.pa).t.style = style
        <5> HIDE DEF was
        <5> QED BY <3>5, <4>1, StyledIs
      <4> QED BY <3>4, <4>2
    <3> QED BY <3>3, <3>6 DEF PenOn
  <2> QED BY <2>1, <2>2
<1> HIDE DEF ink
<1>6. PenOn(paper) /\ paper.t.style.attr = c.attr /\ paper.t.style.fg = c.fg /\ paper.t.style.bg = c.bg
  <2>1. CASE c.bg = ink.pb
    BY <1>1, <1>5, <1>3a, <2>1 DEF PenHolds
  <2>2. CASE c.bg # ink.pb
    <3> DEFINE style == [ink.t.style EXCEPT !.bg = c.bg]
    <3> DEFINE t == Sgr(ink.t, "bg", c.bg)
    <3>1. t = [w |-> ink.t.w, cells |-> ink.t.cells, y |-> ink.t.y, x |-> ink.t.x, style |-> style]
      <4>1. t = [ink.t EXCEPT !.style = style] /\ ink.t \in TtyT(n)
        BY <1>5, <1>3a DEF Sgr
      <4> HIDE DEF t, style
      <4> QED BY <4>1, TtyStyled
    <3>2. ink.t.style \in Style
      BY <1>3a, <1>5
    <3>3. style \in Style /\ style.attr = c.attr /\ style.fg = c.fg /\ style.bg = c.bg
      BY <1>1, <1>5, <3>2 DEF Style
    <3> HIDE DEF style
    <3>4. paper = Styled(ink, style, ink.pf, c.bg, ink.pa)
      <4>1. paper = [ink EXCEPT !.t = t, !.pb = c.bg] /\ ink \in PenT(n)
        BY <1>5, <1>3b, <2>2
      <4> HIDE DEF paper, t
      <4>2. paper = [t |-> t, pf |-> ink.pf, pb |-> c.bg, pa |-> ink.pa, cx |-> ink.cx, cy |-> ink.cy]
        BY <4>1, PenPapered
      <4> QED BY <3>1, <4>2 DEF Styled
    <3> HIDE DEF paper
    <3>5. Known(style, ink.pf, c.bg, ink.pa)
      <4>1. /\ c.bg \in Colour \cup {"none"} /\ ink.pf \in Colour \cup {"none"} /\ ink.pa \in 0..255
            /\ (ink.pf # "none" => style.fg = ink.pf) /\ (ink.pa # 255 => style.attr = ink.pa)
        BY <1>1, <1>5, <1>3a, <3>3 DEF PenHolds
      <4> QED BY <3>3, <4>1 DEF Known
    <3>6. PenAt(paper, n, y, x, was) /\ paper.t.style = style
      <4>1. PenAt(ink, n, y, x, was) /\ style \in Style
        BY <1>5, <3>3 DEF PenOn
      <4>2. PenAt(Styled(ink, style, ink.pf, c.bg, ink.pa), n, y, x, was) /\ Styled(ink, style, ink.pf, c.bg, ink.pa).t.style = style
        <5> HIDE DEF was
        <5> QED BY <3>5, <4>1, StyledIs
      <4> QED BY <3>4, <4>2
    <3> QED BY <3>3, <3>6 DEF PenOn
  <2> QED BY <2>1, <2>2
<1> HIDE DEF paper
<1> DEFINE row == Laid(was[y], x, c.ch, c)
<1> DEFINE wide == char_width(c.ch)
<1> DEFINE drawn == [was EXCEPT ![y] = row]
<1> DEFINE t == [w |-> n, cells |-> drawn, y |-> y, x |-> x + wide, style |-> paper.t.style]
<1>7. Laid(was[y], x, c.ch, paper.t.style) = row
  BY <1>6 DEF Laid, Cell
<1>8. row \in RowT(n)
  <2>1. acc.t.cells[y] \in RowT(n) /\ x \in Int
    BY PenRow
  <2> QED BY <1>1, <2>1, LaidT
<1>9. wide \in Nat
  BY DEF char_width
<1> HIDE DEF row, wide
<1>10. drawn \in [1..Height -> RowT(n)]
  <2>1. was \in [1..Height -> RowT(n)]
    BY PenFields, TtyFields
  <2> HIDE DEF was
  <2> QED BY <1>8, <2>1
<1>11. paper.t = [w |-> n, cells |-> was, y |-> y, x |-> x, style |-> paper.t.style] /\ paper.t.style \in Style
  <2>1. paper.t \in TtyT(n) /\ paper.t.y = y /\ paper.t.x = x /\ paper.t.cells = was
    BY <1>3a, <1>6 DEF PenOn, PenAt
  <2> HIDE DEF was
  <2> QED BY <2>1, TtyFields
<1> HIDE DEF was
<1>12. Write(paper.t, c.ch) = t
  <2> DEFINE to == Write(paper.t, c.ch)
  <2>1. to = Write(paper.t, c.ch) /\ paper.t \in TtyT(n) /\ paper.t.y = y /\ paper.t.x = x /\ paper.t.cells = was
    BY <1>3a, <1>6, <1>11
  <2> HIDE DEF to
  <2>2. to = [w |-> n, cells |-> [was EXCEPT ![y] = Laid(was[y], x, c.ch, paper.t.style)],
              y |-> y, x |-> x + char_width(c.ch), style |-> paper.t.style]
    BY <2>1, TtyWrote
  <2> QED BY <1>7, <2>2 DEF to, wide
<1> DEFINE new == Emit(acc, y, x, c)
<1>13. new = [t |-> t, pf |-> paper.pf, pb |-> paper.pb, pa |-> paper.pa, cx |-> x + wide, cy |-> y]
  <2>1. new = [paper EXCEPT !.t = t, !.cx = @ + wide]
    BY <1>0, <1>12 DEF wide
  <2>2. paper \in PenT(n) /\ paper.cx = x /\ paper.cy = y
    BY <1>6 DEF PenOn, PenAt
  <2> HIDE DEF new, t
  <2> QED BY <2>1, <2>2, PenWrote
<1> HIDE DEF new, drawn
<1>14. t \in TtyT(n)
  BY <1>2, <1>9, <1>10, <1>11 DEF TtyT
<1>15. t.cells = drawn /\ t.y = y /\ t.x = x + wide /\ t.style = paper.t.style
  OBVIOUS
<1> HIDE DEF t
<1>16. new \in PenT(n)
  BY <1>2, <1>3a, <1>6, <1>9, <1>13, <1>14 DEF PenT
<1>17. PenHolds(new)
  BY <1>3a, <1>6, <1>13, <1>15 DEF PenHolds
<1>18. new.t.cells = drawn
  BY <1>13, <1>15
<1> QED BY <1>16, <1>17, <1>18 DEF new, drawn, row, was

\* A glyph of one column disturbs at most the half of a wide one on either side.
LEMMA LaidPlain ==
  ASSUME NEW n \in Nat, NEW row \in RowT(n), NEW x \in 0..(n - 1), NEW c \in CellT, c.ch \notin Wide
  PROVE  LET new == Laid(row, x, c.ch, c) IN
         /\ new[x] = c
         /\ \A z \in 0..(n - 1) : /\ z # x
                                  /\ z = x - 1 => row[z].ch \notin Wide
                                  /\ z = x + 1 => row[z].ch # Half
                                  => new[z] = row[z]
<1>1. DOMAIN row = 0..(n - 1)
  BY DEF RowT
<1>2. Laid(row, x, c.ch, c) = [z \in 0..(n - 1) |-> IF z = x THEN Cell(c.ch, c) ELSE Split(row, x)[z]]
  BY <1>1 DEF Laid
<1>3. Cell(c.ch, c) = c
  BY DEF Cell, CellT
<1>4. \A z \in 0..(n - 1) : /\ z # x
                            /\ z = x - 1 => row[z].ch \notin Wide
                            /\ z = x + 1 => row[z].ch # Half
                            => Split(row, x)[z] = row[z]
  BY <1>1 DEF Split
<1> QED BY <1>2, <1>3, <1>4

\* A glyph of two columns, the half of a wide one before it or after it.
LEMMA LaidWide ==
  ASSUME NEW n \in Nat, NEW row \in RowT(n), NEW x \in 0..(n - 1), x + 1 \in 0..(n - 1), NEW c \in CellT, c.ch \in Wide
  PROVE  LET new == Laid(row, x, c.ch, c) IN
         /\ new[x] = c /\ new[x + 1].ch = Half
         /\ \A z \in 0..(n - 1) : /\ z # x /\ z # x + 1
                                  /\ z = x - 1 => row[z].ch \notin Wide
                                  /\ z = x + 2 => row[z].ch # Half
                                  => new[z] = row[z]
<1> DEFINE once == Split(row, x)
<1> DEFINE twice == Split(once, x + 1)
<1>1. DOMAIN row = 0..(n - 1)
  BY DEF RowT
<1>2. DOMAIN once = 0..(n - 1)
  BY <1>1 DEF Split
<1>3. \A z \in 0..(n - 1) : /\ z # x /\ z # x + 1
                            /\ z = x - 1 => row[z].ch \notin Wide
                            => once[z] = row[z]
  BY <1>1 DEF Split
<1> HIDE DEF once
<1>4. \A z \in 0..(n - 1) : /\ z # x /\ z # x + 1
                            /\ z = x + 2 => once[z].ch # Half
                            => twice[z] = once[z]
  BY <1>2 DEF Split
<1> HIDE DEF twice
<1>5. Laid(row, x, c.ch, c) = [z \in 0..(n - 1) |-> IF z = x THEN Cell(c.ch, c) ELSE IF z = x + 1 THEN Cell(Half, c) ELSE twice[z]]
  BY <1>1 DEF Laid, once, twice
<1>6. Cell(c.ch, c) = c /\ Cell(Half, c).ch = Half
  BY DEF Cell, CellT
<1>7. \A z \in 0..(n - 1) : /\ z # x /\ z # x + 1
                            /\ z = x - 1 => row[z].ch \notin Wide
                            /\ z = x + 2 => row[z].ch # Half
                            => twice[z] = row[z]
  BY <1>3, <1>4
<1> QED BY <1>5, <1>6, <1>7

\* A row of the terminal while its difference is sent: what is behind x is right, and so is
\* what is ahead of it and will not be sent.
CellShown(T, N, c) == IF N[c].ch = Half THEN T[c].ch = Half ELSE T[c] = N[c]
Ahead(T, N, P, n, x) ==
  \A c \in 0..(n - 1) : c >= x /\ N[c] = P[c] /\ N[c].ch # Half
                        => T[c] = N[c] /\ (N[c].ch \in Wide => T[c + 1].ch = Half)
Sent(T, N, P, n, x, all) ==
  /\ \A c \in 0..(n - 1) : c < x => CellShown(T, N, c)
  /\ x \in 0..(n - 1) /\ N[x].ch = Half => T[x].ch = Half
  /\ ~all => Ahead(T, N, P, n, x)

\* Nothing of it has been sent, and the terminal shows the frame before.
LEMMA SentFirst ==
  ASSUME NEW n \in Nat \ {0}, NEW T, NEW N, Formed(N, n), NEW P, NEW all,
         ~all => Formed(P, n) /\ \A c \in 0..(n - 1) : CellShown(T, P, c)
  PROVE  Sent(T, N, P, n, 0, all)
<1>1. ~(0 \in 0..(n - 1) /\ N[0].ch = Half)
  <2>1. 0 \in 0..(n - 1) /\ N[0].ch = Half => 0 - 1 \in 0..(n - 1)
    BY DEF Formed
  <2>2. 0 - 1 \notin 0..(n - 1)
    OBVIOUS
  <2> QED BY <2>1, <2>2
<1>2. ~all => Ahead(T, N, P, n, 0)
  <2> SUFFICES ASSUME ~all, NEW c \in 0..(n - 1), N[c] = P[c], N[c].ch # Half
               PROVE  T[c] = N[c] /\ (N[c].ch \in Wide => T[c + 1].ch = Half)
    BY DEF Ahead
  <2>1. T[c] = P[c]
    BY DEF CellShown
  <2>2. N[c].ch \in Wide => c + 1 \in 0..(n - 1) /\ P[c + 1].ch = Half
    BY DEF Formed
  <2>3. N[c].ch \in Wide => T[c + 1].ch = Half
    BY <2>2 DEF CellShown
  <2> QED BY <2>1, <2>3
<1>3. \A c \in 0..(n - 1) : ~(c < 0)
  OBVIOUS
<1> QED BY <1>1, <1>2, <1>3 DEF Sent

\* A cell that is not sent is right already.
LEMMA SentSkipped ==
  ASSUME NEW n \in Nat \ {0}, NEW T, NEW N, Formed(N, n), NEW P, NEW all, NEW x \in 0..(n - 1),
         Sent(T, N, P, n, x, all), N[x].ch = Half \/ (~all /\ N[x] = P[x])
  PROVE  Sent(T, N, P, n, x + 1, all)
<1>1. CellShown(T, N, x)
  BY DEF Sent, Ahead, CellShown
<1>2. \A c \in 0..(n - 1) : c < x + 1 => CellShown(T, N, c)
  BY <1>1 DEF Sent
<1>3. x + 1 \in 0..(n - 1) /\ N[x + 1].ch = Half => T[x + 1].ch = Half
  <2> SUFFICES ASSUME x + 1 \in 0..(n - 1), N[x + 1].ch = Half PROVE T[x + 1].ch = Half
    OBVIOUS
  <2>1. (x + 1) - 1 = x
    OBVIOUS
  <2>2. N[x].ch \in Wide
    BY <2>1 DEF Formed
  <2>3. N[x].ch # Half
    <3>1. Half \notin Wide
      BY CanvasAssumption
    <3> QED BY <2>2, <3>1
  <2> QED BY <2>2, <2>3 DEF Sent, Ahead
<1>4. ~all => Ahead(T, N, P, n, x + 1)
  BY DEF Sent, Ahead
<1> QED BY <1>2, <1>3, <1>4 DEF Sent

\* A cell that is sent spoils no other: before it no glyph reaches over it, and after it
\* what it could spoil is sent in its turn.
LEMMA SentLaid ==
  ASSUME NEW n \in Nat \ {0}, NEW T \in RowT(n), NEW N \in RowT(n), Formed(N, n), NEW P, NEW all, NEW x \in 0..(n - 1),
         Sent(T, N, P, n, x, all), N[x].ch # Half
  PROVE  Sent(Laid(T, x, N[x].ch, N[x]), N, P, n, x + 1, all)
<1> DEFINE new == Laid(T, x, N[x].ch, N[x])
<1>1. N[x] \in CellT /\ n \in Nat /\ Half \notin Wide
  BY CanvasAssumption DEF RowT
<1>2. x - 1 \in 0..(n - 1) => T[x - 1].ch \notin Wide
  <2> SUFFICES ASSUME x - 1 \in 0..(n - 1) PROVE T[x - 1].ch \notin Wide
    OBVIOUS
  <2>1. CellShown(T, N, x - 1)
    BY DEF Sent
  <2>2. (x - 1) + 1 = x
    OBVIOUS
  <2>3. N[x - 1].ch \notin Wide
    BY <2>2 DEF Formed
  <2> QED BY <1>1, <2>1, <2>3 DEF CellShown
<1>3. CASE N[x].ch \notin Wide
  <2>1. /\ new[x] = N[x]
        /\ \A z \in 0..(n - 1) : z # x /\ (z = x + 1 => T[z].ch # Half) => new[z] = T[z]
    BY <1>1, <1>2, <1>3, LaidPlain
  <2> HIDE DEF new
  <2>2. \A c \in 0..(n - 1) : c < x + 1 => CellShown(new, N, c)
    BY <2>1 DEF Sent, CellShown
  <2>3. ~(x + 1 \in 0..(n - 1) /\ N[x + 1].ch = Half)
    <3>1. (x + 1) - 1 = x
      OBVIOUS
    <3> QED BY <1>3, <3>1 DEF Formed
  <2>4. ~all => Ahead(new, N, P, n, x + 1)
    <3> SUFFICES ASSUME ~all, NEW c \in 0..(n - 1), c >= x + 1, N[c] = P[c], N[c].ch # Half
                 PROVE  new[c] = N[c] /\ (N[c].ch \in Wide => new[c + 1].ch = Half)
      BY DEF Ahead
    <3>1. T[c] = N[c] /\ (N[c].ch \in Wide => T[c + 1].ch = Half)
      BY DEF Sent, Ahead
    <3>2. new[c] = T[c]
      BY <2>1, <3>1
    <3>3. N[c].ch \in Wide => c + 1 \in 0..(n - 1) /\ new[c + 1] = T[c + 1]
      BY <2>1 DEF Formed
    <3> QED BY <3>1, <3>2, <3>3
  <2> QED BY <2>2, <2>3, <2>4 DEF Sent, new
<1>4. CASE N[x].ch \in Wide
  <2>0. x + 1 \in 0..(n - 1) /\ N[x + 1].ch = Half
    BY <1>4 DEF Formed
  <2>1. /\ new[x] = N[x] /\ new[x + 1].ch = Half
        /\ \A z \in 0..(n - 1) : z # x /\ z # x + 1 /\ (z = x + 2 => T[z].ch # Half) => new[z] = T[z]
    BY <1>1, <1>2, <1>4, <2>0, LaidWide
  <2> HIDE DEF new
  <2>2. \A c \in 0..(n - 1) : c < x + 1 => CellShown(new, N, c)
    BY <2>1 DEF Sent, CellShown
  <2>4. ~all => Ahead(new, N, P, n, x + 1)
    <3> SUFFICES ASSUME ~all, NEW c \in 0..(n - 1), c >= x + 1, N[c] = P[c], N[c].ch # Half
                 PROVE  new[c] = N[c] /\ (N[c].ch \in Wide => new[c + 1].ch = Half)
      BY DEF Ahead
    <3>1. T[c] = N[c] /\ (N[c].ch \in Wide => T[c + 1].ch = Half)
      BY DEF Sent, Ahead
    <3>2. c # x + 1 /\ c >= x + 2
      BY <2>0
    <3>3. new[c] = T[c]
      BY <2>1, <3>1, <3>2
    <3>4. N[c].ch \in Wide => c + 1 \in 0..(n - 1) /\ new[c + 1] = T[c + 1]
      BY <2>1, <3>2 DEF Formed
    <3> QED BY <3>1, <3>3, <3>4
  <2> QED BY <2>1, <2>2, <2>4 DEF Sent, new
<1> QED BY <1>3, <1>4

GoodCells(g, n) == g \in [1..Height -> RowT(n)] /\ \A y \in 1..Height : Formed(g[y], n)
Pens(m) == {acc \in PenT(m) : PenHolds(acc)}
RowSent(acc, y, x) == Sent(acc.t.cells[y], cells[y], prevCells[y], canvasW, x, dirtyAll)
OthersKept(acc, new, y) == \A z \in 1..Height : z # y => new.t.cells[z] = acc.t.cells[z]

\* A pen is one that remembers right.
LEMMA PensAre == ASSUME NEW m, NEW acc PROVE acc \in Pens(m) <=> acc \in PenT(m) /\ PenHolds(acc)
BY DEF Pens

\* One cell of the difference; the terminal may have another width by now.
LEMMA SendCellIs ==
  ASSUME canvasW \in Nat \ {0}, GoodCells(cells, canvasW), NEW m \in Nat, NEW acc \in Pens(m),
         NEW y \in 1..Height, NEW x \in 0..(canvasW - 1)
  PROVE  LET new == SendCell(acc, y, x) IN
         /\ new \in Pens(m) /\ OthersKept(acc, new, y)
         /\ m = canvasW /\ RowSent(acc, y, x) => RowSent(new, y, x + 1)
<1> DEFINE c == cells[y][x]
<1> DEFINE new == SendCell(acc, y, x)
<1>1. cells[y] \in RowT(canvasW) /\ Formed(cells[y], canvasW) /\ c \in CellT /\ x \in Nat
  BY DEF GoodCells, RowT
<1>2. acc \in PenT(m) /\ PenHolds(acc)
  BY PensAre
<1>3. CASE c.ch = Half \/ (~dirtyAll /\ c = prevCells[y][x])
  <2>1. new = acc
    BY <1>3 DEF SendCell
  <2>2. RowSent(acc, y, x) => RowSent(acc, y, x + 1)
    <3> SUFFICES ASSUME RowSent(acc, y, x) PROVE RowSent(acc, y, x + 1)
      OBVIOUS
    <3> DEFINE T == acc.t.cells[y]
    <3> DEFINE N == cells[y]
    <3> DEFINE P == prevCells[y]
    <3>1. Formed(N, canvasW) /\ Sent(T, N, P, canvasW, x, dirtyAll) /\ (N[x].ch = Half \/ (~dirtyAll /\ N[x] = P[x]))
      BY <1>1, <1>3 DEF RowSent
    <3> HIDE DEF T, N, P
    <3>2. Sent(T, N, P, canvasW, x + 1, dirtyAll)
      BY <3>1, SentSkipped
    <3> QED BY <3>2 DEF RowSent, T, N, P
  <2> QED BY <2>1, <2>2 DEF OthersKept
<1>4. CASE ~(c.ch = Half \/ (~dirtyAll /\ c = prevCells[y][x]))
  <2>1. new = Emit(acc, y, x, c)
    BY <1>4 DEF SendCell
  <2> HIDE DEF c, new
  <2>2. new \in PenT(m) /\ PenHolds(new) /\ new.t.cells = [acc.t.cells EXCEPT ![y] = Laid(@, x, c.ch, c)]
    BY <1>1, <1>2, <2>1, EmitIs
  <2>3. acc.t.cells \in [1..Height -> RowT(m)]
    BY <1>2, PenFields, TtyFields
  <2>4. new.t.cells[y] = Laid(acc.t.cells[y], x, c.ch, c) /\ OthersKept(acc, new, y)
    BY <2>2, <2>3 DEF OthersKept
  <2>5. m = canvasW /\ RowSent(acc, y, x) => RowSent(new, y, x + 1)
    <3> SUFFICES ASSUME m = canvasW, RowSent(acc, y, x) PROVE RowSent(new, y, x + 1)
      OBVIOUS
    <3> DEFINE T == acc.t.cells[y]
    <3> DEFINE N == cells[y]
    <3> DEFINE P == prevCells[y]
    <3>1. T \in RowT(canvasW)
      BY <2>3
    <3>2. N \in RowT(canvasW) /\ Formed(N, canvasW) /\ N[x].ch # Half /\ Sent(T, N, P, canvasW, x, dirtyAll) /\ c = N[x]
      BY <1>1, <1>4 DEF RowSent, c
    <3> HIDE DEF T, N, P
    <3>3. Sent(Laid(T, x, N[x].ch, N[x]), N, P, canvasW, x + 1, dirtyAll)
      BY <3>1, <3>2, SentLaid
    <3> QED BY <2>4, <3>2, <3>3 DEF RowSent, T, N, P
  <2> QED BY <2>2, <2>4, <2>5, PensAre DEF new
<1> QED BY <1>3, <1>4

\* One row of it.
LEMMA SendRowIs ==
  ASSUME canvasW \in Nat \ {0}, GoodCells(cells, canvasW), NEW m \in Nat, NEW acc \in Pens(m), NEW y \in 1..Height
  PROVE  LET new == SendRow(acc, y) IN
         /\ new \in Pens(m) /\ OthersKept(acc, new, y)
         /\ m = canvasW /\ RowSent(acc, y, 0) => RowSent(new, y, canvasW)
<1> DEFINE N == canvasW
<1> DEFINE S == Pens(m)
<1> DEFINE stepping == [p \in (1..N) \X S |-> SendCell(p[2], y, p[1] - 1)]
<1> DEFINE sent == CHOOSE f : f = [x \in 0..N |-> IF x = 0 THEN acc ELSE SendCell(f[x - 1], y, x - 1)]
<1>0. SendRow(acc, y) = sent[N]
  BY DEF SendRow
<1>1. N \in Nat /\ acc \in S /\ \A x \in 1..N : x - 1 \in 0..(N - 1)
  OBVIOUS
<1>2. \A x \in 1..N, pen \in S :
         /\ SendCell(pen, y, x - 1) \in S /\ OthersKept(pen, SendCell(pen, y, x - 1), y)
         /\ m = canvasW /\ RowSent(pen, y, x - 1) => RowSent(SendCell(pen, y, x - 1), y, x)
  <2> TAKE x \in 1..N, pen \in S
  <2> DEFINE z == x - 1
  <2>1. z \in 0..(canvasW - 1) /\ z + 1 = x
    OBVIOUS
  <2> HIDE DEF z
  <2>2. /\ SendCell(pen, y, z) \in S /\ OthersKept(pen, SendCell(pen, y, z), y)
        /\ m = canvasW /\ RowSent(pen, y, z) => RowSent(SendCell(pen, y, z), y, z + 1)
    BY <2>1, SendCellIs
  <2> QED BY <2>1, <2>2 DEF z
<1> HIDE DEF N, S
<1>3. Walk(N, S, acc, stepping)
  BY <1>1, <1>2 DEF Walk
<1>4. \A x \in 1..N, pen \in S : stepping[<<x, pen>>] = SendCell(pen, y, x - 1)
  OBVIOUS
<1> HIDE DEF stepping
<1>5. \E g \in [0..N -> S] : g[0] = acc /\ \A x \in 1..N : g[x] = stepping[<<x, g[x - 1]>>]
  BY <1>3, WalkExists DEF Walked
<1>6. \E f : f = [x \in 0..N |-> IF x = 0 THEN acc ELSE SendCell(f[x - 1], y, x - 1)]
  <2> PICK g \in [0..N -> S] : g[0] = acc /\ \A x \in 1..N : g[x] = stepping[<<x, g[x - 1]>>]
    BY <1>5
  <2>1. \A x \in 0..N : g[x] = IF x = 0 THEN acc ELSE SendCell(g[x - 1], y, x - 1)
    <3> TAKE x \in 0..N
    <3>1. CASE x # 0
      <4>1. x \in 1..N /\ x - 1 \in 0..N /\ g[x - 1] \in S
        BY <1>1, <3>1
      <4> QED BY <1>4, <3>1, <4>1
    <3> QED BY <3>1
  <2>2. g = [x \in 0..N |-> IF x = 0 THEN acc ELSE SendCell(g[x - 1], y, x - 1)]
    BY <2>1
  <2> QED BY ONLY <2>2, Zenon
<1>7. sent = [x \in 0..N |-> IF x = 0 THEN acc ELSE SendCell(sent[x - 1], y, x - 1)]
  BY ONLY <1>6
<1> HIDE DEF sent
<1>8. sent[0] = acc /\ \A x \in 1..N : sent[x] = SendCell(sent[x - 1], y, x - 1)
  <2>1. 0 \in 0..N /\ \A x \in 1..N : x \in 0..N /\ x # 0
    BY <1>1
  <2> QED BY <1>7, <2>1
<1> DEFINE I == {p \in (0..N) \X S : OthersKept(acc, p[2], y) /\ (m = canvasW /\ RowSent(acc, y, 0) => RowSent(p[2], y, p[1]))}
<1>9. Follows(sent, N, S, acc, stepping)
  BY <1>4, <1>8 DEF Follows
<1>10. Carried(I, N, S, acc, stepping)
  <2>1. <<0, acc>> \in I
    BY <1>1 DEF OthersKept
  <2>2. ASSUME NEW x \in 1..N, NEW pen \in S, <<x - 1, pen>> \in I PROVE <<x, stepping[<<x, pen>>]>> \in I
    <3>1. OthersKept(acc, pen, y) /\ (m = canvasW /\ RowSent(acc, y, 0) => RowSent(pen, y, x - 1))
      BY <2>2
    <3> DEFINE new == SendCell(pen, y, x - 1)
    <3>2. new \in S /\ OthersKept(pen, new, y) /\ (m = canvasW /\ RowSent(pen, y, x - 1) => RowSent(new, y, x))
      BY <1>2
    <3>3. stepping[<<x, pen>>] = new
      BY <1>4
    <3> HIDE DEF new
    <3>4. OthersKept(acc, new, y)
      BY <3>1, <3>2 DEF OthersKept
    <3>5. x \in 0..N
      BY <1>1
    <3> QED BY <3>1, <3>2, <3>3, <3>4, <3>5
  <2> HIDE DEF I
  <2> QED BY <2>1, <2>2 DEF Carried
<1>11. sent[N] \in S /\ <<N, sent[N]>> \in I
  <2> HIDE DEF I
  <2> QED BY <1>3, <1>9, <1>10, WalkHolds
<1> QED BY <1>0, <1>11 DEF N, S

\* A flush: what is sent leaves each row as it was drawn, if the terminal is as wide as the
\* canvas and shows the frame before or all of it is sent.
LEMMA FlushedIs ==
  ASSUME canvasW \in Nat \ {0}, GoodCells(cells, canvasW), NEW m \in Nat, NEW t \in TtyT(m)
  PROVE  /\ flushed(t) \in TtyT(m)
         /\ /\ m = canvasW
            /\ ~dirtyAll => /\ GoodCells(prevCells, canvasW)
                            /\ \A y \in 1..Height, c \in 0..(canvasW - 1) : CellShown(t.cells[y], prevCells[y], c)
            => \A y \in 1..Height, c \in 0..(canvasW - 1) : CellShown(flushed(t).cells[y], cells[y], c)
<1> DEFINE first == [t |-> t, pf |-> "none", pb |-> "none", pa |-> 255, cx |-> -1, cy |-> -1]
<1> DEFINE N == Height
<1> DEFINE S == Pens(m)
<1> DEFINE stepping == [p \in (1..N) \X S |-> SendRow(p[2], p[1])]
<1> DEFINE down == CHOOSE f : f = [y \in 0..N |-> IF y = 0 THEN first ELSE SendRow(f[y - 1], y)]
<1>0. flushed(t) = Sgr0(down[N].t)
  BY DEF flushed
<1>1. N \in Nat /\ first \in S
  <2>1. first \in PenT(m) /\ PenHolds(first)
    BY DEF PenT, PenHolds
  <2> HIDE DEF first
  <2> QED BY <2>1, HeightNat, PensAre
<1>1a. first.t = t
  OBVIOUS
<1>2. \A y \in 1..N, pen \in S :
         /\ SendRow(pen, y) \in S /\ OthersKept(pen, SendRow(pen, y), y)
         /\ m = canvasW /\ RowSent(pen, y, 0) => RowSent(SendRow(pen, y), y, canvasW)
  BY SendRowIs
<1> HIDE DEF N, S, first
<1>3. Walk(N, S, first, stepping)
  BY <1>1, <1>2 DEF Walk
<1>4. \A y \in 1..N, pen \in S : stepping[<<y, pen>>] = SendRow(pen, y)
  OBVIOUS
<1> HIDE DEF stepping
<1>5. \E g \in [0..N -> S] : g[0] = first /\ \A y \in 1..N : g[y] = stepping[<<y, g[y - 1]>>]
  BY <1>3, WalkExists DEF Walked
<1>6. \E f : f = [y \in 0..N |-> IF y = 0 THEN first ELSE SendRow(f[y - 1], y)]
  <2> PICK g \in [0..N -> S] : g[0] = first /\ \A y \in 1..N : g[y] = stepping[<<y, g[y - 1]>>]
    BY <1>5
  <2>1. \A y \in 0..N : g[y] = IF y = 0 THEN first ELSE SendRow(g[y - 1], y)
    <3> TAKE y \in 0..N
    <3>1. CASE y # 0
      <4>1. y \in 1..N /\ y - 1 \in 0..N /\ g[y - 1] \in S
        BY <1>1, <3>1
      <4> QED BY <1>4, <3>1, <4>1
    <3> QED BY <3>1
  <2>2. g = [y \in 0..N |-> IF y = 0 THEN first ELSE SendRow(g[y - 1], y)]
    BY <2>1
  <2> QED BY ONLY <2>2, Zenon
<1>7. down = [y \in 0..N |-> IF y = 0 THEN first ELSE SendRow(down[y - 1], y)]
  BY ONLY <1>6
<1> HIDE DEF down
<1>8. down[0] = first /\ \A y \in 1..N : down[y] = SendRow(down[y - 1], y)
  <2>1. 0 \in 0..N /\ \A y \in 1..N : y \in 0..N /\ y # 0
    BY <1>1
  <2> QED BY <1>7, <2>1
<1>9. Follows(down, N, S, first, stepping)
  BY <1>4, <1>8 DEF Follows
<1> DEFINE Ready == /\ m = canvasW
                    /\ ~dirtyAll => /\ GoodCells(prevCells, canvasW)
                                    /\ \A y \in 1..Height, c \in 0..(canvasW - 1) : CellShown(t.cells[y], prevCells[y], c)
<1> DEFINE Down(pen, k) == \A y \in 1..N : /\ y > k => pen.t.cells[y] = t.cells[y]
                                           /\ Ready /\ y <= k => RowSent(pen, y, canvasW)
<1> DEFINE I == {p \in (0..N) \X S : Down(p[2], p[1])}
<1>10. Ready => \A pen \in S, y \in 1..N : pen.t.cells[y] = t.cells[y] => RowSent(pen, y, 0)
  <2> SUFFICES ASSUME Ready, NEW pen \in S, NEW y \in 1..N, pen.t.cells[y] = t.cells[y] PROVE RowSent(pen, y, 0)
    OBVIOUS
  <2>1. y \in 1..Height /\ Formed(cells[y], canvasW)
    BY DEF GoodCells, N
  <2>2. ~dirtyAll => Formed(prevCells[y], canvasW) /\ \A c \in 0..(canvasW - 1) : CellShown(pen.t.cells[y], prevCells[y], c)
    BY <2>1 DEF GoodCells
  <2> QED BY <2>1, <2>2, SentFirst DEF RowSent
<1> HIDE DEF Ready
<1>11. Carried(I, N, S, first, stepping)
  <2>1. <<0, first>> \in I
    <3>1. Down(first, 0)
      BY <1>1, <1>1a
    <3> QED BY <1>1, <3>1
  <2>2. ASSUME NEW k \in 1..N, NEW pen \in S, <<k - 1, pen>> \in I PROVE <<k, stepping[<<k, pen>>]>> \in I
    <3>1. Down(pen, k - 1)
      BY <2>2
    <3> DEFINE new == SendRow(pen, k)
    <3>2. new \in S /\ OthersKept(pen, new, k) /\ (m = canvasW /\ RowSent(pen, k, 0) => RowSent(new, k, canvasW))
      BY <1>2
    <3>3. stepping[<<k, pen>>] = new
      BY <1>4
    <3> HIDE DEF new
    <3>4. Down(new, k)
      <4> TAKE y \in 1..N
      <4>1. CASE y = k
        <5>1. pen.t.cells[k] = t.cells[k]
          BY <1>1, <3>1
        <5>2. Ready => m = canvasW
          BY DEF Ready
        <5> QED BY <1>1, <1>10, <3>2, <4>1, <5>1, <5>2
      <4>2. CASE y # k
        <5>1. new.t.cells[y] = pen.t.cells[y]
          BY <3>2, <4>2 DEF OthersKept, N
        <5>2. RowSent(pen, y, canvasW) => RowSent(new, y, canvasW)
          BY <5>1 DEF RowSent
        <5>3. (y > k => y > k - 1) /\ (y <= k => y <= k - 1)
          BY <1>1, <4>2
        <5> QED BY <3>1, <5>1, <5>2, <5>3
      <4> QED BY <4>1, <4>2
    <3>5. k \in 0..N
      BY <1>1
    <3> HIDE DEF Down
    <3> QED BY <3>2, <3>3, <3>4, <3>5
  <2> HIDE DEF I
  <2> QED BY <2>1, <2>2 DEF Carried
<1>12. down[N] \in S /\ <<N, down[N]>> \in I
  <2> HIDE DEF I
  <2> QED BY <1>3, <1>9, <1>11, WalkHolds
<1>13. down[N].t \in TtyT(m)
  <2>1. down[N] \in PenT(m)
    BY <1>12 DEF S, Pens
  <2> QED BY <2>1, PenFields
<1> DEFINE last == flushed(t)
<1>14. last \in TtyT(m) /\ last.cells = down[N].t.cells
  <2> DEFINE d == down[N].t
  <2>1. last = [d EXCEPT !.style = Unstyled] /\ d \in TtyT(m)
    BY <1>0, <1>13 DEF Sgr0
  <2> HIDE DEF d, last
  <2>2. last = [w |-> d.w, cells |-> d.cells, y |-> d.y, x |-> d.x, style |-> Unstyled]
    BY <2>1, TtyStyled
  <2>3. Unstyled \in Style
    BY UnstyledIs DEF Unstyled, Style
  <2>4. d.w = m /\ d.cells \in [1..Height -> RowT(m)] /\ d.y \in Int /\ d.x \in Int
    BY <2>1, TtyFields
  <2>5. last \in TtyT(m) /\ last.cells = d.cells
    BY <2>2, <2>3, <2>4 DEF TtyT
  <2> QED BY <2>5 DEF d
<1> HIDE DEF last
<1>15. Ready => \A y \in 1..Height, c \in 0..(canvasW - 1) : CellShown(last.cells[y], cells[y], c)
  <2> SUFFICES ASSUME Ready, NEW y \in 1..Height, NEW c \in 0..(canvasW - 1) PROVE CellShown(last.cells[y], cells[y], c)
    OBVIOUS
  <2>1. Down(down[N], N)
    BY <1>12
  <2>2. y \in 1..N /\ y <= N
    BY <1>1 DEF N
  <2>3. RowSent(down[N], y, canvasW)
    BY <2>1, <2>2
  <2>4. c < canvasW
    OBVIOUS
  <2> QED BY <1>14, <2>3, <2>4 DEF RowSent, Sent
<1> QED BY <1>14, <1>15 DEF Ready, last

\* Between the terminal and the canvas: what the terminal shows is the frame before, unless
\* the window has changed or all of it is to be sent again.
CanvasT ==
  /\ tty.w \in Nat \ {0} /\ tty \in TtyT(tty.w)
  /\ winch \in BOOLEAN /\ dirtyAll \in BOOLEAN /\ canvasW \in Nat
ShowsPrev ==
  /\ canvasW # 0 /\ GoodCells(prevCells, canvasW)
  /\ ~winch => /\ tty.w = canvasW
               /\ \A y \in 1..Height, c \in 0..(canvasW - 1) : CellShown(tty.cells[y], prevCells[y], c)
CanvasInv ==
  /\ CanvasT
  /\ ~dirtyAll => ShowsPrev
  /\ frameAt = "frame" /\ canvasW # 0 => ~dirtyAll /\ cells = prevCells
  /\ frameAt = "flush" => canvasW # 0 /\ GoodCells(cells, canvasW) /\ (~winch => tty.w = canvasW)

\* A terminal nobody has drawn on, of any width it may have.
LEMMA FilledT == ASSUME NEW n \in Nat \ {0} PROVE Filled(n, Junk) \in [1..Height -> RowT(n)]
<1>1. Junk \in CellT
  <2>1. "?" \in STRING
    BY CanvasAssumption
  <2> QED BY <2>1, CellIs, UnstyledIs DEF Junk
<1> QED BY <1>1 DEF Filled, RowT

\* A width is one column or more.
LEMMA SizesAre == ASSUME NEW n \in Sizes PROVE n \in Nat \ {0}
BY CanvasAssumption

\* The invariant holds at the start, over every step, and says what is shown.
LEMMA CanvasInvInit == CanvasInit => CanvasInv
<1> SUFFICES ASSUME CanvasInit PROVE CanvasInv
  OBVIOUS
<1>1. PICK n \in Sizes : tty = [w |-> n, cells |-> Filled(n, Junk), y |-> 1, x |-> 0, style |-> Unstyled]
  BY DEF CanvasInit
<1>2. n \in Nat \ {0}
  BY SizesAre
<1>3. Unstyled \in Style
  BY UnstyledIs DEF Unstyled, Style
<1>4. tty.w = n /\ tty \in TtyT(n)
  BY <1>1, <1>2, <1>3, FilledT DEF TtyT
<1>5. frameAt = "frame" /\ winch = FALSE /\ dirtyAll = TRUE /\ canvasW = 0
  BY DEF CanvasInit
<1> QED BY <1>2, <1>4, <1>5 DEF CanvasInv, CanvasT

\* Every step keeps the invariant.
LEMMA CanvasInvStep == CanvasInv /\ [CanvasNext]_canvasVars => CanvasInv'
<1> SUFFICES ASSUME CanvasInv, [CanvasNext]_canvasVars PROVE CanvasInv'
  OBVIOUS
<1>0. CanvasT
  BY DEF CanvasInv
<1>1. CASE Resize
  <2>1. PICK n \in Sizes \ {tty.w} : tty' = [tty EXCEPT !.w = n, !.cells = Filled(n, Junk)]
    BY <1>1 DEF Resize
  <2>2. n \in Nat \ {0}
    BY SizesAre
  <2>3. tty'.w = n /\ tty' \in TtyT(n)
    <3>1. tty' = [w |-> n, cells |-> Filled(n, Junk), y |-> tty.y, x |-> tty.x, style |-> tty.style]
      BY <1>0, <2>1 DEF CanvasT, TtyT
    <3>2. tty.y \in Int /\ tty.x \in Int /\ tty.style \in Style
      BY <1>0, TtyFields DEF CanvasT
    <3> QED BY <2>2, <3>1, <3>2, FilledT DEF TtyT
  <2>4. winch' = TRUE /\ UNCHANGED <<frameAt, canvasW, cells, prevCells, dirtyAll>>
    BY <1>1 DEF Resize
  <2>5. ShowsPrev => ShowsPrev'
    BY <2>4 DEF ShowsPrev, GoodCells
  <2>6. CanvasT'
    BY <1>0, <2>2, <2>3, <2>4 DEF CanvasT
  <2> QED BY <2>4, <2>5, <2>6 DEF CanvasInv, GoodCells
<1>2. CASE TakeResize
  <2>1. /\ frameAt = "frame" /\ dirtyAll' = (dirtyAll \/ winch) /\ winch' = FALSE /\ frameAt' = "render"
        /\ UNCHANGED <<tty, canvasW, cells, prevCells>>
    BY <1>2 DEF TakeResize
  <2>2. ~winch /\ ShowsPrev => ShowsPrev'
    BY <2>1 DEF ShowsPrev, GoodCells
  <2>3. CanvasT'
    BY <1>0, <2>1 DEF CanvasT
  <2> QED BY <1>0, <2>1, <2>2, <2>3 DEF CanvasInv, CanvasT
<1>3. CASE Render
  <2>1. PICK frame \in Frames : cells' = Drawn(tty.w, frame)
    BY <1>3 DEF Render
  <2>2. /\ frameAt = "render" /\ canvasW' = tty.w /\ dirtyAll' = (dirtyAll \/ canvasW # tty.w) /\ frameAt' = "flush"
        /\ prevCells' = (IF canvasW = tty.w THEN prevCells ELSE Filled(tty.w, Cell(" ", Unstyled)))
        /\ UNCHANGED <<tty, winch>>
    BY <1>3 DEF Render
  <2>3. tty.w \in Nat \ {0}
    BY <1>0 DEF CanvasT
  <2>4. cells' \in [1..Height -> RowT(tty.w)] /\ \A y \in 1..Height : Formed(cells'[y], tty.w)
    BY <2>1, <2>3, DrawnIs
  <2>5. GoodCells(cells', canvasW')
    BY <2>2, <2>4 DEF GoodCells
  <2>6. ~dirtyAll' => ShowsPrev'
    <3> SUFFICES ASSUME ~dirtyAll' PROVE ShowsPrev'
      OBVIOUS
    <3>1. ~dirtyAll /\ canvasW = tty.w /\ prevCells' = prevCells /\ canvasW' = canvasW /\ tty' = tty /\ winch' = winch
      BY <1>0, <2>2 DEF CanvasT
    <3>2. ShowsPrev
      BY <3>1 DEF CanvasInv
    <3> QED BY <3>1, <3>2 DEF ShowsPrev, GoodCells
  <2>7. CanvasT'
    BY <1>0, <2>2, <2>3 DEF CanvasT
  <2> QED BY <2>2, <2>3, <2>5, <2>6, <2>7 DEF CanvasInv
<1>4. CASE Flush
  <2>1. /\ frameAt = "flush" /\ tty' = flushed(tty) /\ prevCells' = cells /\ dirtyAll' = FALSE /\ frameAt' = "frame"
        /\ UNCHANGED <<winch, canvasW, cells>>
    BY <1>4 DEF Flush
  <2>2. canvasW \in Nat \ {0} /\ GoodCells(cells, canvasW) /\ (~winch => tty.w = canvasW)
    BY <1>0, <2>1 DEF CanvasInv, CanvasT
  <2>3. tty.w \in Nat \ {0} /\ tty \in TtyT(tty.w) /\ tty.w \in Nat
    BY <1>0 DEF CanvasT
  <2> DEFINE Was == ~dirtyAll => /\ GoodCells(prevCells, canvasW)
                                 /\ \A y \in 1..Height, c \in 0..(canvasW - 1) : CellShown(tty.cells[y], prevCells[y], c)
  <2>4. /\ flushed(tty) \in TtyT(tty.w)
        /\ tty.w = canvasW /\ Was
           => \A y \in 1..Height, c \in 0..(canvasW - 1) : CellShown(flushed(tty).cells[y], cells[y], c)
    BY <2>2, <2>3, FlushedIs
  <2>5. ~winch => Was
    BY DEF CanvasInv, ShowsPrev
  <2> HIDE DEF Was
  <2>6. tty'.w = tty.w /\ tty' \in TtyT(tty'.w)
    BY <2>1, <2>4, TtyFields
  <2>7. ~winch' => /\ tty'.w = canvasW'
                   /\ \A y \in 1..Height, c \in 0..(canvasW' - 1) : CellShown(tty'.cells[y], prevCells'[y], c)
    BY <2>1, <2>2, <2>4, <2>5, <2>6
  <2>8. GoodCells(prevCells', canvasW') /\ canvasW' # 0
    BY <2>1, <2>2
  <2>9. ShowsPrev'
    BY <2>7, <2>8 DEF ShowsPrev
  <2>10. CanvasT'
    BY <1>0, <2>1, <2>3, <2>6 DEF CanvasT
  <2> QED BY <2>1, <2>9, <2>10 DEF CanvasInv
<1>5. CASE UNCHANGED canvasVars
  BY <1>5 DEF canvasVars, CanvasInv, CanvasT, ShowsPrev, GoodCells
<1> QED BY <1>1, <1>2, <1>3, <1>4, <1>5 DEF CanvasNext

\* The invariant says what is shown between two frames.
LEMMA CanvasInvShows == CanvasInv => ScreenShowsCanvas
<1> SUFFICES ASSUME CanvasInv, frameAt = "frame", canvasW # 0, ~winch, NEW y \in 1..Height, NEW x \in 0..(canvasW - 1)
             PROVE  Shows(y, x)
  BY DEF ScreenShowsCanvas
<1>1. cells = prevCells /\ ShowsPrev
  BY DEF CanvasInv
<1>2. CellShown(tty.cells[y], cells[y], x)
  BY <1>1 DEF ShowsPrev
<1> QED BY <1>2 DEF CellShown, Shows

\* term.h: only the difference is sent.  Between two frames the terminal shows the frame last
\* drawn, whatever frames it is drawn, however wide glyphs fall over one another and whenever
\* the window changes, unless it has changed since.
THEOREM ScreenIsCanvas == CanvasSpec => []ScreenShowsCanvas
<1>1. CanvasInit => CanvasInv
  BY CanvasInvInit
<1>2. CanvasInv /\ [CanvasNext]_canvasVars => CanvasInv'
  BY CanvasInvStep
<1>3. CanvasInv => ScreenShowsCanvas
  BY CanvasInvShows
<1> QED BY <1>1, <1>2, <1>3, PTL DEF CanvasSpec

-----------------------------------------------------------------------------
(* Walks over the naturals, and sequences laid end to end.                 *)

\* Induction over the first naturals, for a set.
LEMMA UpTo ==
  ASSUME NEW n \in Nat, NEW S, 0 \in S, \A i \in 0..(n - 1) : i \in S => i + 1 \in S
  PROVE  \A i \in 0..n : i \in S
<1> SUFFICES ASSUME (0..n) \ S # {} PROVE FALSE
  OBVIOUS
<1>1. (0..n) \ S \subseteq Nat
  OBVIOUS
<1>2. PICK m \in (0..n) \ S : \A k \in (0..n) \ S : m <= k
  BY <1>1, NatMin
<1>3. m - 1 \in 0..(n - 1) /\ m - 1 \in 0..n /\ ~(m <= m - 1)
  BY <1>2
<1>4. m - 1 \in S
  BY <1>2, <1>3
<1> QED BY <1>2, <1>3, <1>4

\* A walk whose every step is a function of the one before.
StepsIn(V, n, b, T) == n \in Nat /\ b \in V /\ T \in [1..n -> [V -> V]]
WalkOf(f, V, n, b, T) == f \in [0..n -> V] /\ f[0] = b /\ \A i \in 1..n : f[i] = T[i][f[i - 1]]
\* Such a walk exists: the recursive functions of AffFormat are walks.
LEMMA StepsExist ==
  ASSUME NEW V, NEW n, NEW b, NEW T, StepsIn(V, n, b, T)
  PROVE  \E f : WalkOf(f, V, n, b, T)
<1>0. n \in Nat /\ b \in V /\ T \in [1..n -> [V -> V]]
  BY DEF StepsIn
<1> DEFINE Stepped(m) == \E f \in [0..m -> V] : f[0] = b /\ \A i \in 1..m : f[i] = T[i][f[i - 1]]
<1> DEFINE S == {m \in 0..n : Stepped(m)}
<1>1. 0 \in S
  <2> DEFINE f == [i \in 0..0 |-> b]
  <2>1. f \in [0..0 -> V] /\ f[0] = b /\ \A i \in 1..0 : f[i] = T[i][f[i - 1]]
    BY <1>0
  <2> HIDE DEF f
  <2>2. Stepped(0)
    BY <2>1
  <2> QED BY <1>0, <2>2
<1>2. ASSUME NEW m \in 0..(n - 1), m \in S PROVE m + 1 \in S
  <2>1. PICK f \in [0..m -> V] : f[0] = b /\ \A i \in 1..m : f[i] = T[i][f[i - 1]]
    BY <1>2
  <2>2. m \in Nat /\ m + 1 \in 1..n /\ m + 1 \in 0..n
    BY <1>0, <1>2
  <2>3. f[m] \in V
    BY <2>1, <2>2
  <2>4. T[m + 1][f[m]] \in V
    BY <1>0, <2>2, <2>3
  <2> DEFINE g == [i \in 0..(m + 1) |-> IF i <= m THEN f[i] ELSE T[m + 1][f[m]]]
  <2>5. g \in [0..(m + 1) -> V]
    BY <2>1, <2>2, <2>4
  <2>6. g[0] = b
    BY <2>1, <2>2
  <2>7. ASSUME NEW i \in 1..(m + 1) PROVE g[i] = T[i][g[i - 1]]
    <3>1. i - 1 \in 0..(m + 1) /\ i - 1 <= m /\ i \in 0..(m + 1)
      BY <2>2, <2>7
    <3>2. g[i - 1] = f[i - 1]
      BY <3>1
    <3>3. CASE i <= m
      BY <2>1, <2>7, <3>1, <3>2, <3>3
    <3>4. CASE ~(i <= m)
      <4>1. i = m + 1 /\ i - 1 = m
        BY <2>2, <2>7, <3>4
      <4> QED BY <3>1, <3>2, <3>4, <4>1
    <3> QED BY <3>3, <3>4
  <2> HIDE DEF g
  <2>8. Stepped(m + 1)
    BY <2>5, <2>6, <2>7
  <2> QED BY <2>2, <2>8
<1>3. \A m \in 0..n : m \in S
  <2> HIDE DEF S
  <2> QED BY <1>0, <1>1, <1>2, UpTo
<1>4. n \in S
  <2> HIDE DEF S
  <2> QED BY <1>0, <1>3
<1>5. Stepped(n)
  <2> HIDE DEF Stepped
  <2> QED BY <1>4
<1> QED BY <1>5 DEF WalkOf

\* FlattenSeq, a step at a time.
Parted(seqs, n, S) == n \in Nat \ {0} /\ seqs \in [1..n -> Seq(S)]
Flattens(f, seqs, n, S) ==
  /\ f \in [1..n -> Seq(S)] /\ f[1] = seqs[1] /\ \A i \in 2..n : f[i] = f[i - 1] \o seqs[i]
  /\ FlattenSeq(seqs) = f[n]
\* FlattenSeq is such a walk.
LEMMA FlattenIs ==
  ASSUME NEW seqs, NEW n, NEW S, Parted(seqs, n, S)
  PROVE  \E f : Flattens(f, seqs, n, S)
<1> SUFFICES ASSUME n \in Nat \ {0}, seqs \in [1..n -> Seq(S)] PROVE \E f : Flattens(f, seqs, n, S)
  BY DEF Parted
<1> DEFINE T == [i \in 1..n |-> [s \in Seq(S) |-> s \o seqs[i]]]
<1>1. \A i \in 1..n : \A s \in Seq(S) : s \o seqs[i] \in Seq(S)
  BY ConcatProperties
<1>2. T \in [1..n -> [Seq(S) -> Seq(S)]]
  BY <1>1
<1>3. <<>> \in Seq(S)
  OBVIOUS
<1>4. PICK g \in [0..n -> Seq(S)] : g[0] = <<>> /\ \A i \in 1..n : g[i] = T[i][g[i - 1]]
  <2> DEFINE V == Seq(S)
  <2> DEFINE b == <<>>
  <2>1. StepsIn(V, n, b, T)
    BY <1>2, <1>3 DEF StepsIn
  <2> HIDE DEF T, V, b
  <2>2. PICK g : WalkOf(g, V, n, b, T)
    BY <2>1, StepsExist
  <2> QED BY <2>2 DEF V, b, WalkOf
<1>5. \A i \in 1..n : g[i - 1] \in Seq(S) /\ g[i] = g[i - 1] \o seqs[i]
  <2> TAKE i \in 1..n
  <2>1. i - 1 \in 0..n
    OBVIOUS
  <2>2. g[i - 1] \in Seq(S)
    BY <1>4, <2>1
  <2> QED BY <1>4, <2>2
<1>6. g[1] = seqs[1]
  <2>1. 1 \in 1..n /\ 1 - 1 = 0
    OBVIOUS
  <2>2. g[1] = g[0] \o seqs[1]
    BY <1>5, <2>1
  <2>3. seqs[1] \in Seq(S)
    BY <2>1
  <2> HIDE DEF T
  <2> QED BY <1>4, <2>2, <2>3, ConcatEmptySeq
<1> HIDE DEF T
<1> DEFINE f == [i \in 1..n |-> g[i]]
<1>7. f \in [1..n -> Seq(S)]
  BY <1>4
<1>8. f = [i \in 1..n |-> IF i = 1 THEN seqs[i] ELSE f[i - 1] \o seqs[i]]
  <2>1. ASSUME NEW i \in 1..n PROVE f[i] = IF i = 1 THEN seqs[i] ELSE f[i - 1] \o seqs[i]
    <3>1. CASE i = 1
      BY <1>6, <3>1
    <3>2. CASE i # 1
      <4>1. i - 1 \in 1..n
        BY <3>2
      <4> QED BY <1>5, <3>2, <4>1
    <3> QED BY <3>1, <3>2
  <2>2. f = [i \in 1..n |-> f[i]]
    OBVIOUS
  <2> HIDE DEF f
  <2> QED BY <2>1, <2>2
<1> HIDE DEF f
<1> DEFINE F == CHOOSE h : h = [i \in 1..n |-> IF i = 1 THEN seqs[i] ELSE h[i - 1] \o seqs[i]]
<1>9. F = [i \in 1..n |-> IF i = 1 THEN seqs[i] ELSE F[i - 1] \o seqs[i]]
  <2>1. \E h : h = [i \in 1..n |-> IF i = 1 THEN seqs[i] ELSE h[i - 1] \o seqs[i]]
    BY <1>8
  <2> QED BY <2>1
<1>10. Len(seqs) = n
  OBVIOUS
<1>11. FlattenSeq(seqs) = F[n]
  BY <1>10 DEF FlattenSeq
<1> HIDE DEF F
<1> DEFINE D == {i \in 0..n : i \in 1..n => F[i] = f[i]}
<1>12. 0 \in D
  OBVIOUS
<1>13. \A i \in 0..(n - 1) : i \in D => i + 1 \in D
  <2> TAKE i \in 0..(n - 1)
  <2> HAVE i \in D
  <2>1. i + 1 \in 1..n /\ (i + 1) - 1 = i /\ i + 1 \in 0..n
    OBVIOUS
  <2>2. CASE i = 0
    <3>1. F[1] = seqs[1] /\ f[1] = seqs[1]
      BY <1>8, <1>9, <2>1, <2>2
    <3> QED BY <2>1, <2>2, <3>1
  <2>3. CASE i # 0
    <3>1. i \in 1..n /\ F[i] = f[i] /\ i + 1 # 1
      BY <2>3
    <3>2. F[i + 1] = F[i] \o seqs[i + 1] /\ f[i + 1] = f[i] \o seqs[i + 1]
      BY <1>8, <1>9, <2>1, <3>1
    <3> QED BY <2>1, <3>1, <3>2
  <2> QED BY <2>2, <2>3
<1>14. \A i \in 0..n : i \in D
  <2> HIDE DEF D
  <2> QED BY <1>12, <1>13, UpTo
<1>15. F[n] = f[n]
  BY <1>14
<1>16. f[1] = seqs[1] /\ \A i \in 2..n : f[i] = f[i - 1] \o seqs[i]
  <2>1. \A i \in 1..n : f[i] = IF i = 1 THEN seqs[i] ELSE f[i - 1] \o seqs[i]
    BY <1>8
  <2>2. 1 \in 1..n /\ \A i \in 2..n : i \in 1..n /\ i # 1
    OBVIOUS
  <2> QED BY <2>1, <2>2
<1> QED BY <1>7, <1>11, <1>15, <1>16 DEF Flattens

-----------------------------------------------------------------------------
(***************************************************************************)
(* The text of requests and replies (JsonText): what the server writes, its *)
(* own readers read back as it was, whatever quotes, brackets and colons    *)
(* the texts hold.                                                         *)
(*                                                                         *)
(* Escaped, a text has no bare quote and leaves nothing escaped behind it  *)
(* (TextStands).  A text whose quotes and brackets close (Nested) is       *)
(* scanned, wherever it stands, as it is by itself (ScanShifts), so a scan *)
(* of an object or an array is the scans of its parts, one level down      *)
(* (LaidScan, PartsIn).  In a value every colon is inside of brackets or   *)
(* strings (Value), so a key is found where a member has it and nowhere    *)
(* else (NoKeyInValue, FoundIsMember), and an element ends at the bracket  *)
(* that closes it (ElementEnds).                                           *)
(***************************************************************************)

\* The backslashes up to i that nothing interrupts.
Backslashes(s, i) == {k \in 1..i - 1 : \A m \in k..i - 1 : s[m] = BS}

\* An atom is escaped when a run of backslashes before it is odd, and the run grows with
\* each backslash and ends at anything else.
LEMMA EscapedStep ==
  ASSUME NEW s, NEW i \in Nat \ {0}
  PROVE  /\ s[i] = BS => (Escaped(s, i + 1) <=> ~Escaped(s, i))
         /\ s[i] # BS => ~Escaped(s, i + 1)
<1>1. (i + 1) - 1 = i /\ i + 1 > 1
  OBVIOUS
<1>2. s[i] # BS => ~Escaped(s, i + 1)
  BY <1>1 DEF Escaped
<1>3. ASSUME s[i] = BS PROVE Escaped(s, i + 1) <=> ~Escaped(s, i)
  <2> DEFINE R == Backslashes(s, i)
  <2> DEFINE Q == Backslashes(s, i + 1)
  <2>1. R \subseteq 1..(i - 1) /\ i \notin R
    BY DEF Backslashes
  <2>2. Q = R \cup {i}
    BY <1>3 DEF Backslashes
  <2>3. IsFiniteSet(R) /\ Cardinality(R) \in Nat
    <3>1. IsFiniteSet(1..(i - 1))
      BY FS_Interval
    <3> QED BY <2>1, <3>1, FS_Subset, FS_CardinalityType
  <2>4. Cardinality(Q) = Cardinality(R) + 1
    BY <2>1, <2>2, <2>3, FS_AddElement
  <2>5. Escaped(s, i + 1) <=> Cardinality(Q) % 2 = 1
    BY <1>1, <1>3 DEF Escaped, Backslashes
  <2>6. Escaped(s, i) <=> Cardinality(R) % 2 = 1
    <3>1. CASE i > 1 /\ s[i - 1] = BS
      BY <3>1 DEF Escaped, Backslashes
    <3>2. CASE ~(i > 1 /\ s[i - 1] = BS)
      <4>1. R = {}
        BY <3>2 DEF Backslashes
      <4>2. Cardinality(R) = 0
        BY <4>1, FS_EmptySet
      <4> QED BY <3>2, <4>2 DEF Escaped
    <3> QED BY <3>1, <3>2
  <2> HIDE DEF R, Q
  <2> QED BY <2>3, <2>4, <2>5, <2>6
<1> QED BY <1>2, <1>3

\* One atom of a string as the reader takes it.
CharAt(u, k) == IF Escaped(u, k) THEN <<Unescaped(u[k])>> ELSE IF u[k] = BS THEN <<>> ELSE <<u[k]>>
RawQuote(u, k) == u[k] = DQ /\ ~Escaped(u, k)
\* w stands in u after place b.
Stands(w, u, b) == b \in Nat /\ \A k \in 1..Len(w) : u[b + k] = w[k]

\* One atom, escaped: no quote stands bare in it, what follows is not escaped, and it is
\* read as the atom.
LEMMA CharReadsBack ==
  ASSUME NEW a, NEW u, NEW p \in Nat, Stands(EscapedChar(a), u, p), ~Escaped(u, p + 1)
  PROVE  /\ Len(EscapedChar(a)) \in {1, 2}
         /\ ~Escaped(u, p + Len(EscapedChar(a)) + 1)
         /\ \A k \in 1..Len(EscapedChar(a)) : ~RawQuote(u, p + k)
         /\ CharAt(u, p + Len(EscapedChar(a))) = <<a>>
         /\ Len(EscapedChar(a)) = 2 => CharAt(u, p + 1) = <<>>
<1>0. DQ # BS /\ DQ # LF /\ BS # LF /\ "n" \notin {DQ, BS, LF}
  BY DEF DQ, BS, LF
<1>1. p + 1 \in Nat \ {0} /\ (p + 1) + 1 = p + 2 /\ (p + 2) + 1 = p + 3 /\ p + 2 \in Nat \ {0}
  OBVIOUS
<1>2. ASSUME NEW c, EscapedChar(a) = <<BS, c>>, Unescaped(c) = a
      PROVE  /\ Len(EscapedChar(a)) = 2 /\ ~Escaped(u, p + 3) /\ ~RawQuote(u, p + 1) /\ ~RawQuote(u, p + 2)
             /\ CharAt(u, p + 2) = <<a>> /\ CharAt(u, p + 1) = <<>>
  <2>1. Len(EscapedChar(a)) = 2 /\ EscapedChar(a)[1] = BS /\ EscapedChar(a)[2] = c
    BY <1>2
  <2>2. u[p + 1] = BS /\ u[p + 2] = c
    BY <2>1 DEF Stands
  <2>3. Escaped(u, p + 2)
    BY <1>1, <2>2, EscapedStep
  <2>4. ~Escaped(u, p + 3)
    BY <1>1, <2>3, EscapedStep
  <2> QED BY <1>0, <1>2, <2>1, <2>2, <2>3, <2>4 DEF RawQuote, CharAt
<1>3. ASSUME EscapedChar(a) = <<a>>, a # DQ, a # BS
      PROVE  Len(EscapedChar(a)) = 1 /\ ~Escaped(u, p + 2) /\ ~RawQuote(u, p + 1) /\ CharAt(u, p + 1) = <<a>>
  <2>1. Len(EscapedChar(a)) = 1 /\ EscapedChar(a)[1] = a
    BY <1>3
  <2>2. u[p + 1] = a
    BY <2>1 DEF Stands
  <2>3. ~Escaped(u, p + 2)
    BY <1>1, <1>3, <2>2, EscapedStep
  <2> QED BY <1>3, <2>1, <2>2, <2>3 DEF RawQuote, CharAt
<1>4. CASE a \in {DQ, BS}
  <2>1. EscapedChar(a) = <<BS, a>> /\ Unescaped(a) = a
    BY <1>0, <1>4 DEF EscapedChar, Unescaped
  <2> QED BY <1>2, <2>1
<1>5. CASE a = LF
  <2>1. EscapedChar(a) = <<BS, "n">> /\ Unescaped("n") = a
    BY <1>0, <1>5 DEF EscapedChar, Unescaped
  <2> QED BY <1>2, <2>1
<1>6. CASE a \notin {DQ, BS, LF}
  <2>1. EscapedChar(a) = <<a>> /\ a # DQ /\ a # BS
    BY <1>6 DEF EscapedChar
  <2> QED BY <1>3, <2>1
<1> QED BY <1>4, <1>5, <1>6

\* Places in two sequences, one after the other.
LEMMA InSecond ==
  ASSUME NEW a \in Nat, NEW b \in Nat, NEW k \in 1..b
  PROVE  a + k \in 1..(a + b) /\ ~(a + k <= a) /\ (a + k) - a = k
OBVIOUS

\* A place in the first of them.
LEMMA InFirst ==
  ASSUME NEW a \in Nat, NEW b \in Nat, NEW c \in Nat, NEW d \in Nat, NEW k \in 1..b, a + b <= c
  PROVE  a + k \in 1..(c + d) /\ a + k <= c
OBVIOUS

\* FlattenSeq from the empty sequence on, with where each part ends.
FlatWalk(f, e, seqs, n, S) ==
  /\ f \in [0..n -> Seq(S)] /\ f[0] = <<>> /\ f[n] = FlattenSeq(seqs)
  /\ e \in [0..n -> Nat] /\ e[0] = 0 /\ e[n] = Len(FlattenSeq(seqs))
  /\ \A i \in 1..n : f[i] = f[i - 1] \o seqs[i] /\ e[i] = e[i - 1] + Len(seqs[i])
                     /\ e[i] <= e[n] /\ Stands(seqs[i], FlattenSeq(seqs), e[i - 1])
\* There is such a walk.
LEMMA FlatWalks ==
  ASSUME NEW n \in Nat, NEW S, NEW seqs \in [1..n -> Seq(S)]
  PROVE  \E f, e : FlatWalk(f, e, seqs, n, S)
<1>1. PICK f : /\ f \in [0..n -> Seq(S)] /\ f[0] = <<>> /\ f[n] = FlattenSeq(seqs)
               /\ \A i \in 1..n : f[i] = f[i - 1] \o seqs[i]
  <2>1. CASE n = 0
    <3>1. Len(seqs) = 0 /\ seqs = <<>>
      BY <2>1
    <3>2. FlattenSeq(seqs) = <<>>
      BY <3>1 DEF FlattenSeq
    <3> DEFINE h == [i \in 0..0 |-> <<>>]
    <3>3. h \in [0..n -> Seq(S)] /\ h[0] = <<>> /\ h[n] = FlattenSeq(seqs) /\ 1..n = {}
      BY <2>1, <3>2
    <3> HIDE DEF h
    <3> QED BY <3>3
  <2>2. CASE n # 0
    <3>0. Parted(seqs, n, S)
      BY <2>2 DEF Parted
    <3>1. PICK g : Flattens(g, seqs, n, S)
      BY <3>0, FlattenIs
    <3>2. /\ g \in [1..n -> Seq(S)] /\ g[1] = seqs[1] /\ FlattenSeq(seqs) = g[n]
          /\ \A i \in 2..n : g[i] = g[i - 1] \o seqs[i]
      BY <3>1 DEF Flattens
    <3> DEFINE h == [i \in 0..n |-> IF i = 0 THEN <<>> ELSE g[i]]
    <3>3. h \in [0..n -> Seq(S)] /\ h[0] = <<>> /\ h[n] = FlattenSeq(seqs)
      BY <2>2, <3>2
    <3>4. ASSUME NEW i \in 1..n PROVE h[i] = h[i - 1] \o seqs[i]
      <4>1. i \in 0..n /\ i - 1 \in 0..n /\ seqs[i] \in Seq(S) /\ h[i] = g[i]
        OBVIOUS
      <4>2. CASE i = 1
        <5>1. h[i - 1] = <<>>
          BY <3>3, <4>2
        <5>2. <<>> \o seqs[i] = seqs[i]
          BY <4>1, ConcatEmptySeq
        <5> QED BY <3>2, <4>1, <4>2, <5>1, <5>2
      <4>3. CASE i # 1
        <5>1. i \in 2..n /\ i - 1 # 0
          BY <4>3
        <5>2. h[i - 1] = g[i - 1]
          BY <4>1, <5>1
        <5> QED BY <3>2, <4>1, <5>1, <5>2
      <4> QED BY <4>2, <4>3
    <3> HIDE DEF h
    <3> QED BY <3>3, <3>4
  <2> QED BY <2>1, <2>2
<1> DEFINE e == [i \in 0..n |-> Len(f[i])]
<1>2. e \in [0..n -> Nat] /\ e[0] = 0 /\ e[n] = Len(FlattenSeq(seqs))
  <2>1. \A i \in 0..n : Len(f[i]) \in Nat
    BY <1>1, LenProperties
  <2>2. Len(f[0]) = 0
    BY <1>1
  <2> QED BY <1>1, <2>1, <2>2
<1>3. \A i \in 1..n : f[i] = f[i - 1] \o seqs[i] /\ e[i] = e[i - 1] + Len(seqs[i]) /\ Len(seqs[i]) \in Nat
  <2> TAKE i \in 1..n
  <2>0. i \in 0..n /\ i - 1 \in 0..n /\ seqs[i] \in Seq(S)
    OBVIOUS
  <2>1. f[i - 1] \in Seq(S) /\ seqs[i] \in Seq(S) /\ f[i] = f[i - 1] \o seqs[i]
    BY <1>1, <2>0
  <2>2. Len(f[i]) = Len(f[i - 1]) + Len(seqs[i])
    BY <2>1, ConcatProperties
  <2>3. Len(seqs[i]) \in Nat
    BY <2>1, LenProperties
  <2> QED BY <2>0, <2>1, <2>2, <2>3
<1> HIDE DEF e
<1> DEFINE Held(j, m) == e[j] <= e[m] /\ \A k \in 1..Len(seqs[j]) : f[m][e[j - 1] + k] = seqs[j][k]
<1> DEFINE D == {m \in 0..n : \A j \in 1..m : Held(j, m)}
<1>4. 0 \in D
  OBVIOUS
<1>5. \A i \in 0..(n - 1) : i \in D => i + 1 \in D
  <2> TAKE i \in 0..(n - 1)
  <2> HAVE i \in D
  <2>0. i + 1 \in 1..n /\ i + 1 \in 0..n /\ (i + 1) - 1 = i /\ i \in 0..n /\ seqs[i + 1] \in Seq(S)
    OBVIOUS
  <2>1. i + 1 \in 1..n /\ i + 1 \in 0..n /\ (i + 1) - 1 = i /\ i \in 0..n /\ f[i] \in Seq(S) /\ seqs[i + 1] \in Seq(S)
    BY <1>1, <2>0
  <2>2. f[i + 1] = f[i] \o seqs[i + 1] /\ e[i + 1] = e[i] + Len(seqs[i + 1]) /\ Len(seqs[i + 1]) \in Nat
    BY <1>3, <2>1
  <2>3. e[i] = Len(f[i]) /\ e[i] \in Nat
    BY <1>2, <2>1 DEF e
  <2>5. \A k \in 1..(Len(f[i]) + Len(seqs[i + 1])) :
          f[i + 1][k] = IF k <= Len(f[i]) THEN f[i][k] ELSE seqs[i + 1][k - Len(f[i])]
    BY <2>1, <2>2, ConcatProperties
  <2>4. ASSUME NEW j \in 1..(i + 1) PROVE Held(j, i + 1)
    <3>1. CASE j = i + 1
      <4>1. ASSUME NEW k \in 1..Len(seqs[i + 1]) PROVE f[i + 1][e[i] + k] = seqs[i + 1][k]
        <5>1. Len(f[i]) \in Nat /\ Len(seqs[i + 1]) \in Nat /\ k \in 1..Len(seqs[i + 1])
          BY <2>2, <2>3
        <5>2. /\ Len(f[i]) + k \in 1..(Len(f[i]) + Len(seqs[i + 1])) /\ ~(Len(f[i]) + k <= Len(f[i]))
              /\ (Len(f[i]) + k) - Len(f[i]) = k
          BY ONLY <5>1, InSecond
        <5> QED BY <2>3, <2>5, <5>2
      <4>2. e[i + 1] \in Nat
        BY <1>2, <2>1
      <4> QED BY <2>1, <3>1, <4>1, <4>2
    <3>2. CASE j # i + 1
      <4>1. j \in 1..i /\ j \in 1..n /\ j - 1 \in 0..n /\ j \in 0..n
        BY <2>1, <3>2
      <4>2. Held(j, i)
        BY <4>1
      <4>3. e[j] = e[j - 1] + Len(seqs[j]) /\ Len(seqs[j]) \in Nat /\ e[j - 1] \in Nat /\ e[j] \in Nat /\ e[i] \in Nat
        BY <1>2, <1>3, <2>1, <4>1
      <4>4. ASSUME NEW k \in 1..Len(seqs[j]) PROVE f[i + 1][e[j - 1] + k] = seqs[j][k]
        <5>0. k \in 1..Len(seqs[j]) /\ e[j] <= e[i]
          BY <4>2
        <5>1. e[j - 1] + k \in 1..(Len(f[i]) + Len(seqs[i + 1])) /\ e[j - 1] + k <= Len(f[i])
          BY ONLY <2>2, <2>3, <4>3, <5>0, InFirst
        <5>2. f[i + 1][e[j - 1] + k] = f[i][e[j - 1] + k]
          BY <2>5, <5>1
        <5> QED BY <4>2, <5>2
      <4>5. e[j] <= e[i + 1]
        BY <2>2, <4>2, <4>3
      <4> QED BY <4>4, <4>5
    <3> QED BY <3>1, <3>2
  <2> HIDE DEF Held
  <2> QED BY <2>1, <2>4
<1>6. \A i \in 0..n : i \in D
  <2> HIDE DEF D
  <2> QED BY <1>4, <1>5, UpTo
<1>7. \A j \in 1..n : Held(j, n)
  <2>1. n \in D
    <3> HIDE DEF D
    <3> QED BY <1>6
  <2> HIDE DEF Held
  <2> QED BY <2>1
<1>8. \A i \in 1..n : e[i] <= e[n] /\ Stands(seqs[i], FlattenSeq(seqs), e[i - 1])
  <2> TAKE i \in 1..n
  <2>1. i - 1 \in 0..n
    OBVIOUS
  <2> QED BY <1>1, <1>2, <1>7, <2>1 DEF Stands
<1> HIDE DEF Held
<1>9. FlatWalk(f, e, seqs, n, S)
  BY <1>1, <1>2, <1>3, <1>8 DEF FlatWalk
<1> QED BY <1>9

\* A text as it is escaped is made of the words of its atoms.
Words(t) == [k \in 1..Len(t) |-> EscapedChar(t[k])]
Atoms(S) == S \cup {DQ, BS, LF, "n"}
\* An escaped text is its atoms, escaped one by one.
LEMMA WordsType ==
  ASSUME NEW S, NEW t \in Seq(S)
  PROVE  /\ Len(t) \in Nat /\ Words(t) \in [1..Len(t) -> Seq(Atoms(S))]
         /\ json_escape(t) = FlattenSeq(Words(t))
<1>1. Len(t) \in Nat /\ DOMAIN t = 1..Len(t) /\ \A k \in 1..Len(t) : t[k] \in S
  BY LenProperties
<1>2. ASSUME NEW k \in 1..Len(t) PROVE EscapedChar(t[k]) \in Seq(Atoms(S))
  <2>1. t[k] \in Atoms(S) /\ BS \in Atoms(S) /\ "n" \in Atoms(S)
    BY <1>1 DEF Atoms
  <2> HIDE DEF Atoms
  <2> QED BY <2>1 DEF EscapedChar
<1>3. Words(t) \in [1..Len(t) -> Seq(Atoms(S))]
  BY <1>2 DEF Words
<1>4. json_escape(t) = FlattenSeq(Words(t))
  BY <1>1 DEF json_escape, Flat, Words
<1> QED BY <1>1, <1>3, <1>4

\* Whatever a text holds, escaped it holds no bare quote and leaves nothing escaped, and
\* the reader's atoms of it are the text.
LEMMA TextStands ==
  ASSUME NEW S, NEW t \in Seq(S), NEW u, NEW b, Stands(json_escape(t), u, b), ~Escaped(u, b + 1)
  PROVE  /\ Len(json_escape(t)) \in Nat
         /\ ~Escaped(u, b + Len(json_escape(t)) + 1)
         /\ \A k \in 1..Len(json_escape(t)) : ~RawQuote(u, b + k)
         /\ FlattenSeq([k \in 1..Len(json_escape(t)) |-> CharAt(u, b + k)]) = t
<1> DEFINE n == Len(t)
<1> DEFINE A == Atoms(S)
<1> DEFINE w == Words(t)
<1>0. n \in Nat /\ w \in [1..n -> Seq(A)] /\ json_escape(t) = FlattenSeq(w) /\ b \in Nat
      /\ \A j \in 1..n : w[j] = EscapedChar(t[j]) /\ t[j] \in S
  <2>1. \A j \in 1..n : w[j] = EscapedChar(t[j])
    BY DEF Words
  <2>2. \A j \in 1..n : t[j] \in S
    BY LenProperties
  <2> HIDE DEF w, A
  <2> QED BY <2>1, <2>2, WordsType DEF Stands, w, A
<1> HIDE DEF w
<1>1. PICK f, e : FlatWalk(f, e, w, n, A)
  <2> HIDE DEF n, A
  <2> QED BY <1>0, FlatWalks
<1> DEFINE m == Len(json_escape(t))
<1>2. /\ f \in [0..n -> Seq(A)] /\ f[n] = json_escape(t)
      /\ e \in [0..n -> Nat] /\ e[0] = 0 /\ e[n] = m /\ m \in Nat
      /\ \A i \in 1..n : e[i] = e[i - 1] + Len(w[i]) /\ e[i] <= m /\ Stands(w[i], json_escape(t), e[i - 1])
  <2> HIDE DEF n, A
  <2>1. n \in 0..n
    BY <1>0
  <2> QED BY <1>0, <1>1, <2>1 DEF FlatWalk
<1> DEFINE c == [k \in 1..m |-> CharAt(u, b + k)]
<1>3. c \in [1..m -> Seq(A)]
  <2>0. n \in 0..n
    BY <1>0
  <2>1. json_escape(t) \in Seq(A)
    <3> HIDE DEF A, n
    <3> QED BY <1>2, <2>0
  <2>2. \A k \in 1..m : u[b + k] \in A
    <3>1. \A k \in 1..m : json_escape(t)[k] \in A
      <4> HIDE DEF A
      <4> QED BY <2>1, LenProperties
    <3> HIDE DEF A
    <3> QED BY <3>1 DEF Stands
  <2>3. LF \in A
    BY DEF Atoms
  <2>4. \A k \in 1..m : CharAt(u, b + k) \in Seq(A)
    <3> HIDE DEF A
    <3> TAKE k \in 1..m
    <3>1. u[b + k] \in A /\ Unescaped(u[b + k]) \in A
      BY <2>2, <2>3 DEF Unescaped
    <3> HIDE DEF m
    <3> QED BY <3>1 DEF CharAt
  <2> HIDE DEF A, m
  <2> QED BY <2>4
<1>4. \A k \in 1..m : c[k] = CharAt(u, b + k)
  OBVIOUS
<1>5. c = [k \in 1..Len(json_escape(t)) |-> CharAt(u, b + k)]
  OBVIOUS
<1> HIDE DEF c
<1>6. PICK g, d : FlatWalk(g, d, c, m, A)
  <2> HIDE DEF m, A
  <2> QED BY <1>2, <1>3, FlatWalks
<1>7. /\ g \in [0..m -> Seq(A)] /\ g[0] = <<>> /\ g[m] = FlattenSeq(c)
      /\ \A i \in 1..m : g[i] = g[i - 1] \o c[i]
  BY <1>6 DEF FlatWalk
<1> HIDE DEF m, A, n
<1> DEFINE Read(j) ==
      /\ ~Escaped(u, b + e[j] + 1) /\ (\A k \in 1..e[j] : ~RawQuote(u, b + k))
      /\ g[e[j]] = SubSeq(t, 1, j)
<1> DEFINE D == {j \in 0..n : Read(j)}
<1>8. 0 \in D
  <2>1. SubSeq(t, 1, 0) = <<>>
    BY SubSeqEmpty
  <2>2. b + e[0] + 1 = b + 1 /\ 1..e[0] = {} /\ 0 \in 0..n
    BY <1>0, <1>2
  <2>3. Read(0)
    BY <1>2, <1>7, <2>1, <2>2
  <2> HIDE DEF Read
  <2> QED BY <2>2, <2>3
<1>9. ASSUME NEW j \in 0..(n - 1), j \in D PROVE j + 1 \in D
  <2>0. j + 1 \in 1..n /\ j + 1 \in 0..n /\ (j + 1) - 1 = j /\ j \in 0..n /\ j \in Nat
    BY <1>0
  <2>1. Read(j)
    BY <1>9
  <2> HIDE DEF D, Read
  <2>2. /\ e[j + 1] = e[j] + Len(w[j + 1]) /\ e[j + 1] <= m /\ Stands(w[j + 1], json_escape(t), e[j])
        /\ e[j] \in Nat /\ e[j + 1] \in Nat
    BY <1>2, <2>0
  <2>3. w[j + 1] = EscapedChar(t[j + 1])
    BY <1>0, <2>0
  <2>4. b + e[j] \in Nat /\ b + e[j] + 1 = (b + e[j]) + 1
    BY <1>0, <2>2
  <2>L. Len(w[j + 1]) \in Nat
    <3>1. w[j + 1] \in Seq(A)
      BY <1>0, <2>0
    <3> QED BY <3>1, LenProperties
  <2>N. /\ b \in Nat /\ m \in Nat /\ e[j] \in Nat /\ e[j + 1] \in Nat /\ Len(w[j + 1]) \in Nat
        /\ e[j + 1] = e[j] + Len(w[j + 1]) /\ e[j + 1] <= m
    BY <1>0, <1>2, <2>2, <2>L
  <2>5. Stands(w[j + 1], u, b + e[j])
    <3>1. ASSUME NEW k \in 1..Len(w[j + 1]) PROVE u[(b + e[j]) + k] = w[j + 1][k]
      <4>1. e[j] + k \in 1..m /\ b + (e[j] + k) = (b + e[j]) + k
        <5>1. k \in 1..Len(w[j + 1])
          OBVIOUS
        <5> QED BY ONLY <2>N, <5>1, InFirst, m + 0 = m
      <4>2. json_escape(t)[e[j] + k] = w[j + 1][k]
        BY <2>2 DEF Stands
      <4>3. u[b + (e[j] + k)] = json_escape(t)[e[j] + k]
        BY <4>1 DEF Stands, m
      <4> QED BY <4>1, <4>2, <4>3
    <3> QED BY <2>4, <3>1 DEF Stands
  <2>6. /\ Len(w[j + 1]) \in {1, 2} /\ ~Escaped(u, (b + e[j]) + Len(w[j + 1]) + 1)
        /\ \A k \in 1..Len(w[j + 1]) : ~RawQuote(u, (b + e[j]) + k)
        /\ CharAt(u, (b + e[j]) + Len(w[j + 1])) = <<t[j + 1]>>
        /\ Len(w[j + 1]) = 2 => CharAt(u, (b + e[j]) + 1) = <<>>
    <3>1. ~Escaped(u, (b + e[j]) + 1)
      BY <2>1, <2>4 DEF Read
    <3>2. Stands(EscapedChar(t[j + 1]), u, b + e[j])
      BY <2>3, <2>5
    <3> QED BY <2>3, <2>4, <3>1, <3>2, CharReadsBack
  <2>7. ~Escaped(u, b + e[j + 1] + 1)
    <3>1. b + e[j + 1] + 1 = (b + e[j]) + Len(w[j + 1]) + 1
      BY <1>0, <2>2, <2>L
    <3> QED BY <2>6, <3>1
  <2>8. \A k \in 1..e[j + 1] : ~RawQuote(u, b + k)
    <3> TAKE k \in 1..e[j + 1]
    <3>1. CASE k <= e[j]
      <4>1. k \in 1..e[j]
        BY <2>2, <3>1
      <4> QED BY <2>1, <4>1 DEF Read
    <3>2. CASE ~(k <= e[j])
      <4>1. k - e[j] \in 1..Len(w[j + 1]) /\ (b + e[j]) + (k - e[j]) = b + k
        BY <1>0, <2>2, <2>L, <3>2
      <4>2. ~RawQuote(u, (b + e[j]) + (k - e[j]))
        BY <2>6, <4>1
      <4> QED BY <4>1, <4>2
    <3> QED BY <3>1, <3>2
  <2>9. g[e[j + 1]] = SubSeq(t, 1, j + 1)
    <3>0. SubSeq(t, 1, j + 1) = SubSeq(t, 1, j) \o <<t[j + 1]>>
      <4>1. 1 \in 1..Len(t) /\ j + 1 \in 1..Len(t)
        BY <2>0 DEF n
      <4> QED BY <2>0, <4>1, SubSeqRecursiveSecond
    <3>1. g[e[j]] = SubSeq(t, 1, j) /\ g[e[j]] \in Seq(A)
      <4>1. e[j] \in 0..m
        BY <1>2, <2>2, <2>L
      <4> QED BY <1>7, <2>1, <4>1 DEF Read
    <3>2. CASE Len(w[j + 1]) = 1
      <4>1. e[j + 1] = e[j] + 1 /\ e[j] + 1 \in 1..m /\ (e[j] + 1) - 1 = e[j] /\ (b + e[j]) + 1 = b + (e[j] + 1)
        BY ONLY <2>N, <3>2
      <4>2. g[e[j] + 1] = g[e[j]] \o c[e[j] + 1]
        BY <1>7, <4>1
      <4>3. c[e[j] + 1] = <<t[j + 1]>>
        BY <1>4, <2>6, <3>2, <4>1
      <4> QED BY <3>0, <3>1, <4>1, <4>2, <4>3
    <3>3. CASE Len(w[j + 1]) = 2
      <4>1. /\ e[j + 1] = e[j] + 2 /\ e[j] + 1 \in 1..m /\ e[j] + 2 \in 1..m
            /\ (e[j] + 1) - 1 = e[j] /\ (e[j] + 2) - 1 = e[j] + 1
            /\ (b + e[j]) + 1 = b + (e[j] + 1) /\ (b + e[j]) + 2 = b + (e[j] + 2)
        BY ONLY <2>N, <3>3
      <4>2. g[e[j] + 1] = g[e[j]] \o c[e[j] + 1] /\ g[e[j] + 2] = g[e[j] + 1] \o c[e[j] + 2]
        BY <1>7, <4>1
      <4>3. c[e[j] + 1] = <<>> /\ c[e[j] + 2] = <<t[j + 1]>>
        BY <1>4, <2>6, <3>3, <4>1
      <4>4. g[e[j]] \o <<>> = g[e[j]]
        BY <3>1, ConcatEmptySeq
      <4> QED BY <3>0, <3>1, <4>1, <4>2, <4>3, <4>4
    <3> QED BY <2>6, <3>2, <3>3
  <2>10. Read(j + 1)
    BY <2>7, <2>8, <2>9 DEF Read
  <2> QED BY <2>0, <2>10 DEF D
<1>10. \A j \in 0..n : j \in D
  <2> HIDE DEF D
  <2> QED BY <1>0, <1>8, <1>9, UpTo
<1>11. Read(n)
  <2> HIDE DEF Read
  <2> QED BY <1>0, <1>10
<1>12. SubSeq(t, 1, n) = t
  BY SubSeqFull DEF n
<1> QED BY <1>2, <1>5, <1>7, <1>11, <1>12 DEF m

\* What json_quote writes.
LEMMA QuoteIs ==
  ASSUME NEW S, NEW t \in Seq(S)
  PROVE  /\ Len(json_escape(t)) \in Nat /\ Len(json_quote(t)) = Len(json_escape(t)) + 2
         /\ json_quote(t) \in Seq(Atoms(S))
         /\ json_quote(t)[1] = DQ /\ json_quote(t)[Len(json_escape(t)) + 2] = DQ
         /\ \A k \in 1..Len(json_escape(t)) : json_quote(t)[k + 1] = json_escape(t)[k]
<1> DEFINE m == Len(json_escape(t))
<1> DEFINE q == json_quote(t)
<1> DEFINE A == Atoms(S)
<1>1. json_escape(t) \in Seq(A) /\ DQ \in A
  <2>1. PICK f, e : FlatWalk(f, e, Words(t), Len(t), A)
    <3> HIDE DEF A
    <3> QED BY WordsType, FlatWalks DEF A
  <2>2. f[Len(t)] \in Seq(A) /\ f[Len(t)] = json_escape(t)
    <3> HIDE DEF A
    <3>1. Len(t) \in 0..Len(t)
      BY LenProperties
    <3> QED BY <2>1, <3>1, WordsType DEF FlatWalk
  <2> QED BY <2>2 DEF Atoms
<1> HIDE DEF A
<1>2. <<DQ>> \in Seq(A) /\ Len(<<DQ>>) = 1 /\ <<DQ>>[1] = DQ
  BY <1>1
<1>3. m \in Nat
  BY <1>1, LenProperties
<1> DEFINE h == <<DQ>> \o json_escape(t)
<1>4. /\ h \in Seq(A) /\ Len(h) = 1 + m
      /\ \A k \in 1..(1 + m) : h[k] = IF k <= 1 THEN <<DQ>>[k] ELSE json_escape(t)[k - 1]
  BY <1>1, <1>2, ConcatProperties
<1>5. q = h \o <<DQ>>
  BY DEF json_quote
<1> HIDE DEF h, q, m
<1>6. /\ Len(q) = (1 + m) + 1
      /\ \A k \in 1..((1 + m) + 1) : q[k] = IF k <= 1 + m THEN h[k] ELSE <<DQ>>[k - (1 + m)]
  BY <1>2, <1>4, <1>5, ConcatProperties
<1>7. q[1] = DQ
  <2>1. 1 \in 1..((1 + m) + 1) /\ 1 <= 1 + m /\ 1 \in 1..(1 + m)
    BY <1>3
  <2> QED BY <1>2, <1>4, <1>6, <2>1
<1>8. q[m + 2] = DQ
  <2>1. m + 2 \in 1..((1 + m) + 1) /\ ~(m + 2 <= 1 + m) /\ (m + 2) - (1 + m) = 1
    BY <1>3
  <2> QED BY <1>2, <1>6, <2>1
<1>9. \A k \in 1..m : q[k + 1] = json_escape(t)[k]
  <2> TAKE k \in 1..m
  <2>1. k + 1 \in 1..((1 + m) + 1) /\ k + 1 <= 1 + m /\ k + 1 \in 1..(1 + m) /\ ~(k + 1 <= 1) /\ (k + 1) - 1 = k
    BY <1>3
  <2> QED BY <1>4, <1>6, <2>1
<1>10. Len(q) = m + 2 /\ q \in Seq(A)
  <2>1. h \o <<DQ>> \in Seq(A)
    BY <1>2, <1>4, ConcatProperties
  <2> QED BY <1>3, <1>5, <1>6, <2>1
<1> QED BY <1>3, <1>7, <1>8, <1>9, <1>10 DEF A, q, m

\* A quoted text that stands anywhere in a text is read back, and the reader goes on
\* behind it: read_json_string is the inverse of json_quote, whatever the text holds.
THEOREM QuotedReadsBack ==
  ASSUME NEW S, NEW R, NEW t \in Seq(S), NEW s \in Seq(R), NEW i, Stands(json_quote(t), s, i),
         i + Len(json_quote(t)) <= Len(s)
  PROVE  read_json_string(s, i + 1) = [text |-> t, next |-> i + Len(json_quote(t)) + 1]
<1> DEFINE m == Len(json_escape(t))
<1> DEFINE q == json_quote(t)
<1>0. /\ i \in Nat /\ m \in Nat /\ Len(s) \in Nat /\ Len(q) = m + 2 /\ q[1] = DQ /\ q[m + 2] = DQ
      /\ \A k \in 1..m : q[k + 1] = json_escape(t)[k]
  BY QuoteIs, LenProperties DEF Stands
<1>1. i + m + 2 <= Len(s) /\ DOMAIN s = 1..Len(s)
  BY <1>0, LenProperties
<1>2. s[i + 1] = DQ /\ s[i + m + 2] = DQ /\ \A k \in 1..m : s[i + 1 + k] = json_escape(t)[k]
  <2>1. \A k \in 1..(m + 2) : s[i + k] = q[k]
    BY <1>0 DEF Stands
  <2> HIDE DEF q, m
  <2>2. 1 \in 1..(m + 2) /\ m + 2 \in 1..(m + 2) /\ i + (m + 2) = i + m + 2
    BY <1>0
  <2>3. ASSUME NEW k \in 1..m PROVE s[i + 1 + k] = json_escape(t)[k]
    <3>1. k + 1 \in 1..(m + 2) /\ i + (k + 1) = i + 1 + k
      BY <1>0
    <3> QED BY <1>0, <2>1, <3>1
  <2> QED BY <1>0, <2>1, <2>2, <2>3
<1> HIDE DEF q, m
<1>3. SkipWs(s, i + 1) = i + 1 /\ At(s, i + 1) = DQ
  <2> DEFINE NotBlank(k) == ~IsBlank(At(s, k)) /\ \A b \in (i + 1)..(k - 1) : IsBlank(At(s, b))
  <2>1. At(s, i + 1) = DQ /\ ~IsBlank(At(s, i + 1))
    <3>1. i + 1 \in DOMAIN s
      BY <1>0, <1>1
    <3> QED BY <1>2, <3>1 DEF At, IsBlank, DQ, SP, LF
  <2>2. i + 1 \in (i + 1)..((i + 1) + Len(s)) /\ NotBlank(i + 1)
    BY <1>0, <2>1
  <2>3. ASSUME NEW k \in (i + 1)..((i + 1) + Len(s)), NotBlank(k) PROVE k = i + 1
    <3>1. CASE k # i + 1
      <4>1. i + 1 \in (i + 1)..(k - 1)
        BY <1>0, <3>1
      <4> QED BY <2>1, <2>3, <4>1
    <3> QED BY <3>1
  <2>4. SkipWs(s, i + 1) = CHOOSE k \in (i + 1)..((i + 1) + Len(s)) : NotBlank(k)
    BY DEF SkipWs
  <2> HIDE DEF NotBlank
  <2> QED BY <2>1, <2>2, <2>3, <2>4
<1> DEFINE u == Rest(s, i + 2)
<1>4. /\ u \in Seq(R) /\ Len(u) = Len(s) - (i + 1) /\ DOMAIN u = 1..Len(u)
      /\ \A k \in 1..Len(u) : u[k] = s[i + 1 + k]
  <2>1. \A k \in (i + 2)..Len(s) : s[k] \in R
    BY <1>0, LenProperties
  <2>2. i + 2 \in Int /\ Len(s) \in Int /\ i + 2 <= Len(s) /\ Len(s) - (i + 2) + 1 = Len(s) - (i + 1)
    BY <1>0, <1>1
  <2>3. /\ u \in Seq(R) /\ Len(u) = Len(s) - (i + 1)
        /\ \A k \in 1..(Len(s) - (i + 1)) : u[k] = s[(i + 2) + k - 1]
    BY <2>1, <2>2, SubSeqProperties DEF Rest
  <2> HIDE DEF u
  <2>4. \A k \in 1..Len(u) : (i + 2) + k - 1 = i + 1 + k
    BY <1>0
  <2> QED BY <2>3, <2>4, LenProperties
<1> HIDE DEF u
<1>5. Stands(json_escape(t), u, 0) /\ ~Escaped(u, 0 + 1)
  <2>1. \A k \in 1..m : k \in 1..Len(u) /\ 0 + k = k
    BY <1>0, <1>1, <1>4
  <2>2. \A k \in 1..m : u[0 + k] = json_escape(t)[k]
    BY <1>2, <1>4, <2>1
  <2> QED BY <2>2 DEF Stands, Escaped, m
<1>6. /\ ~Escaped(u, 0 + m + 1) /\ (\A k \in 1..m : ~RawQuote(u, 0 + k))
      /\ FlattenSeq([k \in 1..m |-> CharAt(u, 0 + k)]) = t
  BY <1>5, TextStands DEF m
<1>7. m + 1 \in 1..Len(u) /\ RawQuote(u, m + 1) /\ \A k \in 1..m : ~RawQuote(u, k)
  <2>1. 0 + m + 1 = m + 1 /\ m + 1 \in 1..Len(u) /\ i + 1 + (m + 1) = i + m + 2 /\ \A k \in 1..m : 0 + k = k
    BY <1>0, <1>1, <1>4
  <2>2. u[m + 1] = DQ
    BY <1>2, <1>4, <2>1
  <2> QED BY <1>6, <2>1, <2>2 DEF RawQuote
<1> DEFINE ends == {k \in DOMAIN u : RawQuote(u, k)}
<1>8. ends # {} /\ MinOf(ends) = m + 1
  <2>1. m + 1 \in ends /\ \A k \in ends : m + 1 <= k
    <3>1. m + 1 \in ends
      BY <1>4, <1>7
    <3>2. ASSUME NEW k \in ends PROVE m + 1 <= k
      <4>1. k \in Nat /\ k >= 1 /\ k \notin 1..m
        BY <1>4, <1>7
      <4> QED BY <1>0, <4>1
    <3> QED BY <3>1, <3>2
  <2>2. ends \subseteq Int
    BY <1>4
  <2> HIDE DEF ends
  <2>3. \A x \in ends : (\A y \in ends : x <= y) => x = m + 1
    BY <1>0, <2>1, <2>2
  <2> QED BY <2>1, <2>3 DEF MinOf
<1>9. [k \in 1..m |-> CharAt(u, k)] = [k \in 1..m |-> CharAt(u, 0 + k)]
  BY <1>0
<1>10. Unquoted(s, i + 2) = [text |-> t, next |-> (i + 2) + m + 1]
  <2>1. (m + 1) - 1 = m
    BY <1>0
  <2>2. ends = {k \in DOMAIN u : u[k] = DQ /\ ~Escaped(u, k)}
    BY DEF RawQuote
  <2> HIDE DEF ends
  <2> QED BY <1>6, <1>8, <1>9, <2>1, <2>2 DEF Unquoted, u, Flat, CharAt
<1>11. (i + 1) + 1 = i + 2 /\ (i + 2) + m + 1 = i + Len(q) + 1
  BY <1>0
<1> QED BY <1>3, <1>10, <1>11 DEF read_json_string, q

-----------------------------------------------------------------------------
(* A scan, an atom at a time.                                              *)

Brackets == {<<Opens, Closes>>, <<{"{"}, {"}"}>>, <<{"["}, {"]"}>>}
Quotes(s) == {i \in DOMAIN s : RawQuote(s, i)}
Inside(s, i) == InString([quotes |-> Quotes(s)], i)
Level(s, b, i) == Depth(Scan(s, b[1], b[2]), i)
Counted(s, kind, i) == IF s[i] \in kind /\ ~Inside(s, i) THEN 1 ELSE 0

\* What a scan finds.
LEMMA ScanIs ==
  ASSUME NEW s, NEW open, NEW close
  PROVE  /\ Scan(s, open, close).quotes = Quotes(s)
         /\ \A i : InString(Scan(s, open, close), i) <=> Inside(s, i)
         /\ Scan(s, open, close).opens = {i \in DOMAIN s : s[i] \in open /\ ~Inside(s, i)}
         /\ Scan(s, open, close).closes = {i \in DOMAIN s : s[i] \in close /\ ~Inside(s, i)}
<1>1. Quotes(s) = {i \in DOMAIN s : s[i] = DQ /\ ~Escaped(s, i)}
  BY DEF Quotes, RawQuote
<1> HIDE DEF Quotes
<1>2. Scan(s, open, close) = [quotes |-> Quotes(s),
                              opens |-> {i \in DOMAIN s : s[i] \in open /\ ~Inside(s, i)},
                              closes |-> {i \in DOMAIN s : s[i] \in close /\ ~Inside(s, i)}]
  BY <1>1 DEF Scan, Inside
<1>3. Scan(s, open, close).quotes = Quotes(s)
  BY <1>2
<1>4. ASSUME NEW i PROVE InString(Scan(s, open, close), i) <=> Inside(s, i)
  BY <1>3 DEF Inside, InString
<1> QED BY <1>2, <1>3, <1>4

\* How many of a set of places lie before one.
LEMMA BeforeStep ==
  ASSUME NEW s, NEW R, s \in Seq(R), NEW P, P \subseteq DOMAIN s, NEW k \in 1..Len(s)
  PROVE  /\ Cardinality({x \in P : x < 1}) = 0
         /\ Cardinality({x \in P : x < k}) \in Nat
         /\ Cardinality({x \in P : x < k + 1}) = Cardinality({x \in P : x < k}) + (IF k \in P THEN 1 ELSE 0)
<1>1. P \subseteq 1..Len(s) /\ Len(s) \in Nat
  BY LenProperties
<1>2. {x \in P : x < 1} = {}
  BY <1>1
<1> DEFINE A == {x \in P : x < k}
<1>3. IsFiniteSet(A) /\ Cardinality(A) \in Nat /\ k \notin A
  <2>1. A \subseteq 1..Len(s) /\ k \notin A
    BY <1>1
  <2>2. IsFiniteSet(1..Len(s))
    BY <1>1, FS_Interval
  <2> QED BY <2>1, <2>2, FS_Subset, FS_CardinalityType
<1>4. CASE k \in P
  <2>1. {x \in P : x < k + 1} = A \cup {k}
    BY <1>1, <1>4
  <2>2. Cardinality(A \cup {k}) = Cardinality(A) + 1
    BY <1>3, FS_AddElement
  <2> QED BY <1>2, <1>3, <1>4, <2>1, <2>2, FS_EmptySet
<1>5. CASE k \notin P
  <2>1. {x \in P : x < k + 1} = A
    BY <1>1, <1>5
  <2>2. Cardinality({x \in P : x < 1}) = 0
    BY <1>2, FS_EmptySet
  <2>3. Cardinality({x \in P : x < k + 1}) = Cardinality(A)
    BY <2>1
  <2> HIDE DEF A
  <2>4. Cardinality(A) = Cardinality(A) + 0
    BY <1>3
  <2> QED BY <1>3, <1>5, <2>2, <2>3, <2>4 DEF A
<1> QED BY <1>4, <1>5

\* Inside a string or not: each bare quote turns it.
LEMMA InsideStep ==
  ASSUME NEW R, NEW s \in Seq(R), NEW k \in 1..Len(s)
  PROVE  Inside(s, k + 1) <=> (Inside(s, k) <=> ~RawQuote(s, k))
<1> DEFINE P == Quotes(s)
<1>1. P \subseteq DOMAIN s /\ (k \in P <=> RawQuote(s, k))
  BY LenProperties DEF Quotes
<1> DEFINE c == Cardinality({x \in P : x < k})
<1> DEFINE d == Cardinality({x \in P : x < k + 1})
<1>2. c \in Nat /\ d = c + (IF k \in P THEN 1 ELSE 0)
  <2> HIDE DEF P
  <2> QED BY <1>1, BeforeStep
<1>3. (Inside(s, k) <=> c % 2 = 1) /\ (Inside(s, k + 1) <=> d % 2 = 1)
  BY DEF Inside, InString
<1> HIDE DEF P, c, d
<1>4. k \in P => (d % 2 = 1 <=> ~(c % 2 = 1))
  BY <1>2
<1>5. k \notin P => d = c
  BY <1>2
<1> QED BY <1>1, <1>3, <1>4, <1>5

\* The depth: a bracket outside of strings moves it.
LEMMA LevelStep ==
  ASSUME NEW R, NEW s \in Seq(R), NEW k \in 1..Len(s), NEW b
  PROVE  /\ Level(s, b, k) \in Int
         /\ Level(s, b, k + 1) = Level(s, b, k) + Counted(s, b[1], k) - Counted(s, b[2], k)
<1> DEFINE q == Scan(s, b[1], b[2])
<1>1. /\ q.opens \subseteq DOMAIN s /\ (k \in q.opens <=> s[k] \in b[1] /\ ~Inside(s, k))
      /\ q.closes \subseteq DOMAIN s /\ (k \in q.closes <=> s[k] \in b[2] /\ ~Inside(s, k))
  <2>1. k \in DOMAIN s
    BY LenProperties
  <2> QED BY <2>1, ScanIs
<1> DEFINE A == q.opens
<1> DEFINE B == q.closes
<1>2. /\ Cardinality({x \in A : x < k}) \in Nat
      /\ Cardinality({x \in A : x < k + 1}) = Cardinality({x \in A : x < k}) + (IF k \in A THEN 1 ELSE 0)
  <2> HIDE DEF q
  <2> QED BY <1>1, BeforeStep
<1>3. /\ Cardinality({x \in B : x < k}) \in Nat
      /\ Cardinality({x \in B : x < k + 1}) = Cardinality({x \in B : x < k}) + (IF k \in B THEN 1 ELSE 0)
  <2> HIDE DEF q
  <2> QED BY <1>1, BeforeStep
<1>4. /\ Level(s, b, k) = Cardinality({x \in A : x < k}) - Cardinality({x \in B : x < k})
      /\ Level(s, b, k + 1) = Cardinality({x \in A : x < k + 1}) - Cardinality({x \in B : x < k + 1})
  BY DEF Level, Depth
<1>5. Counted(s, b[1], k) = (IF k \in A THEN 1 ELSE 0) /\ Counted(s, b[2], k) = (IF k \in B THEN 1 ELSE 0)
  BY <1>1 DEF Counted
<1> HIDE DEF A, B
<1> QED BY <1>2, <1>3, <1>4, <1>5

\* Where a scan begins.
LEMMA ScanStarts ==
  ASSUME NEW R, NEW s \in Seq(R), NEW b
  PROVE  ~Escaped(s, 1) /\ ~Inside(s, 1) /\ Level(s, b, 1) = 0
<1>1. ~Escaped(s, 1)
  BY DEF Escaped
<1> DEFINE q == Scan(s, b[1], b[2])
<1>2. DOMAIN s = 1..Len(s)
  BY LenProperties
<1>3. ASSUME NEW P, P \subseteq DOMAIN s PROVE Cardinality({x \in P : x < 1}) = 0
  <2>1. {x \in P : x < 1} = {}
    BY <1>2, <1>3
  <2> QED BY <2>1, FS_EmptySet
<1>4. Quotes(s) \subseteq DOMAIN s
  BY DEF Quotes
<1>5. ~Inside(s, 1)
  <2>1. Cardinality({x \in Quotes(s) : x < 1}) = 0
    BY <1>3, <1>4
  <2> QED BY <2>1 DEF Inside, InString
<1>6. q.opens \subseteq DOMAIN s /\ q.closes \subseteq DOMAIN s
  BY ScanIs
<1>7. Level(s, b, 1) = 0
  <2>1. Cardinality({x \in q.opens : x < 1}) = 0 /\ Cardinality({x \in q.closes : x < 1}) = 0
    <3> HIDE DEF q
    <3> QED BY <1>3, <1>6
  <2> QED BY <2>1 DEF Level, Depth
<1> QED BY <1>1, <1>5, <1>7

\* What stands in a text is scanned there as it is alone, when it begins outside of strings.
Placed(w, s, p) ==
  Stands(w, s, p) /\ p + Len(w) <= Len(s) /\ ~Escaped(s, p + 1) /\ ~Inside(s, p + 1)
SameScan(w, s, p, b, k) ==
  /\ Escaped(s, p + k) <=> Escaped(w, k)
  /\ Inside(s, p + k) <=> Inside(w, k)
  /\ Level(s, b, p + k) = Level(s, b, p + 1) + Level(w, b, k)
  /\ Level(s, b, p + 1) \in Int /\ Level(w, b, k) \in Int
\* What stands in a text is scanned as it is by itself, from the depth it stands at.
LEMMA ScanShifts ==
  ASSUME NEW A, NEW w \in Seq(A), NEW R, NEW s \in Seq(R), NEW p, NEW b, Placed(w, s, p),
         NEW i \in 1..Len(w) + 1
  PROVE  SameScan(w, s, p, b, i)
<1> USE DEF Placed
<1> DEFINE n == Len(w)
<1>0. n \in Nat /\ p \in Nat /\ Len(s) \in Nat /\ p + n <= Len(s)
  BY LenProperties DEF Stands
<1> DEFINE Same(k) ==
      /\ Escaped(s, p + (k + 1)) <=> Escaped(w, k + 1)
      /\ Inside(s, p + (k + 1)) <=> Inside(w, k + 1)
      /\ Level(s, b, p + (k + 1)) = Level(s, b, p + 1) + Level(w, b, k + 1)
      /\ Level(w, b, k + 1) \in Int
<1>L. Level(s, b, p + 1) \in Int
  <2>1. CASE p = 0
    BY <2>1, ScanStarts
  <2>2. CASE p # 0
    <3>1. p \in 1..Len(s)
      BY <1>0, <2>2
    <3>2. Level(s, b, p) \in Int /\ Level(s, b, p + 1) = Level(s, b, p) + Counted(s, b[1], p) - Counted(s, b[2], p)
      BY <3>1, LevelStep
    <3>3. Counted(s, b[1], p) \in Int /\ Counted(s, b[2], p) \in Int
      BY DEF Counted
    <3> QED BY <3>2, <3>3
  <2> QED BY <2>1, <2>2
<1> DEFINE D == {k \in 0..n : Same(k)}
<1>1. Same(0)
  <2>1. ~Escaped(w, 1) /\ ~Inside(w, 1) /\ Level(w, b, 1) = 0
    BY ScanStarts
  <2>2. p + (0 + 1) = p + 1 /\ 0 + 1 = 1
    BY <1>0
  <2> HIDE DEF n
  <2>3. Level(s, b, p + 1) = Level(s, b, p + 1) + 0
    BY <1>L
  <2> QED BY <2>1, <2>2, <2>3
<1>2. ASSUME NEW k \in 0..(n - 1), Same(k) PROVE Same(k + 1)
  <2>0. /\ k + 1 \in 1..n /\ p + (k + 1) \in 1..Len(s) /\ p + (k + 1) \in Nat \ {0} /\ k + 1 \in Nat \ {0}
        /\ (p + (k + 1)) + 1 = p + ((k + 1) + 1)
    BY <1>0
  <2>1. s[p + (k + 1)] = w[k + 1]
    BY <2>0 DEF Stands
  <2>2. Escaped(s, p + (k + 1)) <=> Escaped(w, k + 1)
    BY <1>2
  <2>3. Inside(s, p + (k + 1)) <=> Inside(w, k + 1)
    BY <1>2
  <2>4. RawQuote(s, p + (k + 1)) <=> RawQuote(w, k + 1)
    BY <2>1, <2>2 DEF RawQuote
  <2>5. Escaped(s, p + ((k + 1) + 1)) <=> Escaped(w, (k + 1) + 1)
    BY <2>0, <2>1, <2>2, EscapedStep
  <2>6. Inside(s, p + ((k + 1) + 1)) <=> Inside(w, (k + 1) + 1)
    BY <2>0, <2>3, <2>4, InsideStep
  <2>7. /\ Level(s, b, p + ((k + 1) + 1)) = Level(s, b, p + (k + 1)) + Counted(s, b[1], p + (k + 1)) - Counted(s, b[2], p + (k + 1))
        /\ Level(w, b, (k + 1) + 1) = Level(w, b, k + 1) + Counted(w, b[1], k + 1) - Counted(w, b[2], k + 1)
    BY <2>0, LevelStep
  <2>8. \A kind : Counted(s, kind, p + (k + 1)) = Counted(w, kind, k + 1) /\ Counted(w, kind, k + 1) \in Int
    BY <2>1, <2>3 DEF Counted
  <2>9. Level(s, b, p + (k + 1)) = Level(s, b, p + 1) + Level(w, b, k + 1) /\ Level(w, b, k + 1) \in Int
    BY <1>2
  <2> DEFINE up == Counted(w, b[1], k + 1)
  <2> DEFINE down == Counted(w, b[2], k + 1)
  <2>10. up \in Int /\ down \in Int
    BY <2>8
  <2>11. Level(w, b, (k + 1) + 1) = Level(w, b, k + 1) + up - down
    BY <2>7
  <2>12. Level(s, b, p + ((k + 1) + 1)) = Level(s, b, p + (k + 1)) + up - down
    BY <2>7, <2>8
  <2> HIDE DEF up, down
  <2>13. /\ Level(s, b, p + ((k + 1) + 1)) = Level(s, b, p + 1) + Level(w, b, (k + 1) + 1)
         /\ Level(w, b, (k + 1) + 1) \in Int
    BY ONLY <1>L, <2>9, <2>10, <2>11, <2>12
  <2> QED BY <2>5, <2>6, <2>13
<1>3. \A k \in 0..n : k \in D
  <2>1. 0 \in D
    <3> HIDE DEF Same
    <3> QED BY <1>0, <1>1
  <2>2. \A k \in 0..(n - 1) : k \in D => k + 1 \in D
    <3> HIDE DEF Same
    <3> QED BY <1>0, <1>2
  <2> HIDE DEF D
  <2> QED BY <1>0, <2>1, <2>2, UpTo
<1>4. ASSUME NEW k \in 1..n + 1
      PROVE  /\ Escaped(s, p + k) <=> Escaped(w, k)
             /\ Inside(s, p + k) <=> Inside(w, k)
             /\ Level(s, b, p + k) = Level(s, b, p + 1) + Level(w, b, k)
             /\ Level(w, b, k) \in Int
  <2>1. k - 1 \in 0..n /\ (k - 1) + 1 = k
    BY <1>0
  <2>2. Same(k - 1)
    <3> HIDE DEF Same
    <3> QED BY <1>3, <2>1
  <2> QED BY <2>1, <2>2
<1> QED BY <1>L, <1>4 DEF SameScan

\* A text whose brackets and quotes close: what surrounds it is scanned as if it were not there.
Nested(w) ==
  /\ ~Escaped(w, Len(w) + 1) /\ ~Inside(w, Len(w) + 1)
  /\ \A b \in Brackets : Level(w, b, Len(w) + 1) = 0 /\ \A k \in 1..Len(w) + 1 : Level(w, b, k) >= 0
  /\ \A k \in 1..Len(w) : w[k] = BS => Inside(w, k)

\* Outside of strings nothing is escaped.
LEMMA OutsideUnescaped ==
  ASSUME NEW A, NEW w \in Seq(A), \A k \in 1..Len(w) : w[k] = BS => Inside(w, k),
         NEW k \in 1..Len(w) + 1, ~Inside(w, k)
  PROVE  ~Escaped(w, k)
<1>0. Len(w) \in Nat
  BY LenProperties
<1>1. CASE k = 1
  BY <1>1 DEF Escaped
<1>2. CASE k # 1
  <2>1. k - 1 \in 1..Len(w) /\ (k - 1) + 1 = k /\ k - 1 \in Nat \ {0}
    BY <1>0, <1>2
  <2>2. w[k - 1] # BS
    <3>1. ASSUME w[k - 1] = BS PROVE FALSE
      <4>1. Inside(w, k - 1) /\ ~RawQuote(w, k - 1)
        BY <2>1, <3>1 DEF RawQuote, DQ, BS
      <4>2. Inside(w, (k - 1) + 1)
        BY <2>1, <4>1, InsideStep
      <4> QED BY <2>1, <4>2
    <3> QED BY <3>1
  <2> QED BY <2>1, <2>2, EscapedStep
<1> QED BY <1>1, <1>2

\* A text with nothing in it.
LEMMA NestedEmpty == Nested(<<>>)
<1>1. <<>> \in Seq({}) /\ Len(<<>>) = 0
  OBVIOUS
<1>2. \A b : ~Escaped(<<>>, 1) /\ ~Inside(<<>>, 1) /\ Level(<<>>, b, 1) = 0
  BY <1>1, ScanStarts
<1> QED BY <1>1, <1>2 DEF Nested

\* Two such texts, one after the other.
LEMMA NestedJoins ==
  ASSUME NEW A, NEW v \in Seq(A), NEW w \in Seq(A), Nested(v), Nested(w)
  PROVE  Nested(v \o w)
<1> DEFINE s == v \o w
<1>1. /\ s \in Seq(A) /\ Len(s) = Len(v) + Len(w) /\ Len(v) \in Nat /\ Len(w) \in Nat
      /\ \A k \in 1..(Len(v) + Len(w)) : s[k] = IF k <= Len(v) THEN v[k] ELSE w[k - Len(v)]
  BY ConcatProperties, LenProperties
<1> HIDE DEF s
<1>2. Stands(v, s, 0)
  <2>1. ASSUME NEW k \in 1..Len(v) PROVE s[0 + k] = v[k]
    <3>1. k \in 1..(Len(v) + Len(w)) /\ 0 + k = k /\ k <= Len(v)
      BY <1>1
    <3> QED BY <1>1, <3>1
  <2> QED BY <2>1 DEF Stands
<1>3. Stands(w, s, Len(v))
  <2>1. ASSUME NEW k \in 1..Len(w) PROVE s[Len(v) + k] = w[k]
    <3>1. Len(v) + k \in 1..(Len(v) + Len(w)) /\ ~(Len(v) + k <= Len(v)) /\ (Len(v) + k) - Len(v) = k
      BY <1>1, InSecond
    <3> QED BY <1>1, <3>1
  <2> QED BY <1>1, <2>1 DEF Stands
<1>4. ~Escaped(s, 0 + 1) /\ ~Inside(s, 0 + 1) /\ \A b : Level(s, b, 0 + 1) = 0
  BY <1>1, ScanStarts
<1>5. ASSUME NEW k \in 1..Len(v) + 1, NEW b
      PROVE  /\ Escaped(s, k) <=> Escaped(v, k)
             /\ Inside(s, k) <=> Inside(v, k)
             /\ Level(s, b, k) = Level(v, b, k)
  <2>1. 0 + Len(v) <= Len(s) /\ 0 + k = k
    BY <1>1
  <2>2. Placed(v, s, 0)
    BY <1>2, <1>4, <2>1 DEF Placed
  <2>3. SameScan(v, s, 0, b, k)
    BY <1>1, <2>2, ScanShifts
  <2> QED BY <1>4, <2>1, <2>3 DEF SameScan
<1>6. Len(v) + 1 \in 1..Len(v) + 1 /\ Len(w) + 1 \in 1..Len(w) + 1 /\ Len(v) + (Len(w) + 1) = Len(s) + 1
  BY <1>1
<1>7. ASSUME NEW k \in 1..Len(w) + 1, NEW b \in Brackets
      PROVE  /\ Escaped(s, Len(v) + k) <=> Escaped(w, k)
             /\ Inside(s, Len(v) + k) <=> Inside(w, k)
             /\ Level(s, b, Len(v) + k) = Level(w, b, k)
  <2>1. ~Escaped(s, Len(v) + 1) /\ ~Inside(s, Len(v) + 1) /\ Level(s, b, Len(v) + 1) = 0
    BY <1>5, <1>6 DEF Nested
  <2>2. Len(v) + Len(w) <= Len(s)
    BY <1>1
  <2>3. Placed(w, s, Len(v))
    BY <1>3, <2>1, <2>2 DEF Placed
  <2>4. SameScan(w, s, Len(v), b, k)
    BY <1>1, <2>3, ScanShifts
  <2> QED BY <2>1, <2>4 DEF SameScan
<1>8. Brackets # {}
  BY DEF Brackets
<1>9. ~Escaped(s, Len(s) + 1) /\ ~Inside(s, Len(s) + 1) /\ \A b \in Brackets : Level(s, b, Len(s) + 1) = 0
  <2>1. ASSUME NEW b \in Brackets
        PROVE  ~Escaped(s, Len(s) + 1) /\ ~Inside(s, Len(s) + 1) /\ Level(s, b, Len(s) + 1) = 0
    BY <1>6, <1>7 DEF Nested
  <2> QED BY <1>8, <2>1
<1>10. ASSUME NEW b \in Brackets, NEW k \in 1..Len(s) + 1 PROVE Level(s, b, k) >= 0
  <2>1. CASE k <= Len(v) + 1
    <3>1. k \in 1..Len(v) + 1
      BY <1>1, <2>1
    <3> QED BY <1>5, <3>1 DEF Nested
  <2>2. CASE ~(k <= Len(v) + 1)
    <3>1. k - Len(v) \in 1..Len(w) + 1 /\ Len(v) + (k - Len(v)) = k
      BY <1>1, <2>2
    <3>2. Level(s, b, Len(v) + (k - Len(v))) = Level(w, b, k - Len(v))
      BY <1>7, <3>1
    <3> QED BY <3>1, <3>2 DEF Nested
  <2> QED BY <2>1, <2>2
<1>11. ASSUME NEW k \in 1..Len(s), s[k] = BS PROVE Inside(s, k)
  <2>1. CASE k <= Len(v)
    <3>1. k \in 1..Len(v) /\ k \in 1..Len(v) + 1 /\ s[k] = v[k]
      BY <1>1, <2>1
    <3> QED BY <1>5, <1>11, <3>1 DEF Nested
  <2>2. CASE ~(k <= Len(v))
    <3>1. k - Len(v) \in 1..Len(w) /\ k - Len(v) \in 1..Len(w) + 1 /\ Len(v) + (k - Len(v)) = k
      BY <1>1, <2>2
    <3>2. s[k] = w[k - Len(v)]
      BY <1>1, <2>2
    <3>3. Inside(s, Len(v) + (k - Len(v))) <=> Inside(w, k - Len(v))
      BY <1>7, <1>8, <3>1
    <3>4. Inside(w, k - Len(v))
      BY <1>11, <3>1, <3>2 DEF Nested
    <3> QED BY <3>1, <3>3, <3>4
  <2> QED BY <2>1, <2>2
<1>12. Nested(s)
  BY <1>9, <1>10, <1>11 DEF Nested
<1> QED BY <1>12 DEF s

\* Any number of them.
LEMMA NestedFlat ==
  ASSUME NEW n \in Nat, NEW A, NEW parts \in [1..n -> Seq(A)], \A i \in 1..n : Nested(parts[i])
  PROVE  Nested(FlattenSeq(parts)) /\ FlattenSeq(parts) \in Seq(A)
<1>1. PICK f, e : FlatWalk(f, e, parts, n, A)
  BY FlatWalks
<1>2. /\ f \in [0..n -> Seq(A)] /\ f[0] = <<>> /\ f[n] = FlattenSeq(parts)
      /\ \A i \in 1..n : f[i] = f[i - 1] \o parts[i]
  BY <1>1 DEF FlatWalk
<1> DEFINE D == {i \in 0..n : Nested(f[i])}
<1>3. 0 \in D
  BY <1>2, NestedEmpty
<1>4. \A i \in 0..(n - 1) : i \in D => i + 1 \in D
  <2> TAKE i \in 0..(n - 1)
  <2> HAVE i \in D
  <2>1. i + 1 \in 1..n /\ i + 1 \in 0..n /\ (i + 1) - 1 = i /\ i \in 0..n
    OBVIOUS
  <2>2. f[i] \in Seq(A) /\ parts[i + 1] \in Seq(A) /\ Nested(f[i]) /\ Nested(parts[i + 1])
    BY <1>2, <2>1
  <2>3. f[i + 1] = f[i] \o parts[i + 1]
    BY <1>2, <2>1
  <2>4. Nested(f[i + 1])
    BY <2>2, <2>3, NestedJoins
  <2> QED BY <2>1, <2>4
<1>5. \A i \in 0..n : i \in D
  <2> HIDE DEF D
  <2> QED BY <1>3, <1>4, UpTo
<1>6. n \in 0..n
  OBVIOUS
<1> QED BY <1>2, <1>5, <1>6

\* A JSON value: such a text, with every colon inside brackets or strings.
Value(v) ==
  /\ Nested(v)
  /\ \A k \in 1..Len(v) : v[k] = ":" /\ ~Inside(v, k) => Level(v, <<Opens, Closes>>, k) >= 1

\* The two kinds of bracket counted together.
LEMMA Both == <<Opens, Closes>> \in Brackets
BY DEF Brackets

\* The brackets are their own atoms.
LEMMA BracketsAre ==
  ASSUME NEW b \in Brackets, NEW a
  PROVE  /\ a \in b[1] \cup b[2] => a \in Opens \cup Closes
         /\ ~(a \in b[1] /\ a \in b[2])
<1>1. CASE b = <<Opens, Closes>>
  BY <1>1 DEF Opens, Closes
<1>2. CASE b = <<{"{"}, {"}"}>>
  BY <1>2 DEF Opens, Closes
<1>3. CASE b = <<{"["}, {"]"}>>
  BY <1>3 DEF Opens, Closes
<1> QED BY <1>1, <1>2, <1>3 DEF Brackets

\* A quoted text is inside itself from its first quote to its last.
LEMMA QuotedIsValue ==
  ASSUME NEW S, NEW t \in Seq(S)
  PROVE  /\ Value(json_quote(t))
         /\ \A k \in 2..Len(json_quote(t)) : Inside(json_quote(t), k)
<1> DEFINE q == json_quote(t)
<1> DEFINE m == Len(json_escape(t))
<1>0. /\ m \in Nat /\ Len(q) = m + 2 /\ q \in Seq(Atoms(S)) /\ q[1] = DQ /\ q[m + 2] = DQ
      /\ \A k \in 1..m : q[k + 1] = json_escape(t)[k]
  BY QuoteIs
<1> HIDE DEF q, m
<1>1. ~Escaped(q, 1) /\ ~Inside(q, 1) /\ \A b : Level(q, b, 1) = 0
  BY <1>0, ScanStarts
<1>2. RawQuote(q, 1)
  BY <1>0, <1>1 DEF RawQuote
<1>D. DQ # BS /\ DQ \notin Opens \cup Closes /\ 1 \in Nat \ {0}
  BY DEF DQ, BS, Opens, Closes
<1>3. ~Escaped(q, 1 + 1)
  BY <1>0, <1>D, EscapedStep
<1>4. Stands(json_escape(t), q, 1)
  <2>1. \A k \in 1..Len(json_escape(t)) : q[1 + k] = json_escape(t)[k]
    <3>1. \A k \in 1..m : k + 1 = 1 + k
      BY <1>0
    <3> QED BY <1>0, <3>1 DEF m
  <2> QED BY <2>1 DEF Stands
<1>5. ~Escaped(q, 1 + m + 1) /\ \A k \in 1..m : ~RawQuote(q, 1 + k)
  BY <1>3, <1>4, TextStands DEF m
<1> DEFINE D == {k \in 0..m : Inside(q, k + 2)}
<1>6. 0 \in D
  <2>1. 1 \in 1..Len(q) /\ 1 + 1 = 2 /\ 0 + 2 = 2
    BY <1>0
  <2>2. Inside(q, 1 + 1)
    BY <1>0, <1>1, <1>2, <2>1, InsideStep
  <2> QED BY <1>0, <2>1, <2>2
<1>7. \A k \in 0..(m - 1) : k \in D => k + 1 \in D
  <2> TAKE k \in 0..(m - 1)
  <2> HAVE k \in D
  <2>1. k + 2 \in 1..Len(q) /\ k + 2 = 1 + (k + 1) /\ k + 1 \in 1..m /\ (k + 2) + 1 = (k + 1) + 2 /\ k + 1 \in 0..m
    BY <1>0
  <2>2. ~RawQuote(q, k + 2) /\ Inside(q, k + 2)
    BY <1>5, <2>1
  <2>3. Inside(q, (k + 2) + 1)
    BY <1>0, <2>1, <2>2, InsideStep
  <2> QED BY <2>1, <2>3
<1>8. \A k \in 0..m : k \in D
  <2> HIDE DEF D
  <2> QED BY <1>0, <1>6, <1>7, UpTo
<1>9. \A k \in 2..Len(q) : Inside(q, k)
  <2> TAKE k \in 2..Len(q)
  <2>1. k - 2 \in 0..m /\ (k - 2) + 2 = k
    BY <1>0
  <2> QED BY <1>8, <2>1
<1>10. ~Inside(q, Len(q) + 1) /\ ~Escaped(q, Len(q) + 1)
  <2>1. m + 2 \in 1..Len(q) /\ m + 2 \in 2..Len(q) /\ 1 + m + 1 = m + 2 /\ m + 2 \in Nat \ {0} /\ (m + 2) + 1 = Len(q) + 1
    BY <1>0
  <2>2. RawQuote(q, m + 2) /\ Inside(q, m + 2)
    BY <1>0, <1>5, <1>9, <2>1 DEF RawQuote
  <2>3. ~Inside(q, (m + 2) + 1)
    BY <1>0, <2>1, <2>2, InsideStep
  <2>4. ~Escaped(q, (m + 2) + 1)
    BY <1>0, <2>1, EscapedStep DEF DQ, BS
  <2> QED BY <2>1, <2>3, <2>4
<1>11. ASSUME NEW b \in Brackets PROVE \A k \in 1..Len(q) + 1 : Level(q, b, k) = 0
  <2> DEFINE E == {k \in 0..Len(q) : Level(q, b, k + 1) = 0}
  <2>1. 0 \in E
    BY <1>0, <1>1
  <2>2. \A k \in 0..(Len(q) - 1) : k \in E => k + 1 \in E
    <3> TAKE k \in 0..(Len(q) - 1)
    <3> HAVE k \in E
    <3>1. k + 1 \in 1..Len(q) /\ k + 1 \in 0..Len(q)
      BY <1>0
    <3>2. Counted(q, b[1], k + 1) = 0 /\ Counted(q, b[2], k + 1) = 0
      <4>1. CASE k = 0
        <5>0. q[k + 1] = DQ
          BY <1>0, <4>1
        <5>1. q[k + 1] \notin b[1] \cup b[2]
          BY <1>D, <5>0, BracketsAre
        <5> QED BY <5>1 DEF Counted
      <4>2. CASE k # 0
        <5>1. k + 1 \in 2..Len(q)
          BY <3>1, <4>2
        <5> QED BY <1>9, <5>1 DEF Counted
      <4> QED BY <4>1, <4>2
    <3>3. Level(q, b, (k + 1) + 1) = Level(q, b, k + 1) + Counted(q, b[1], k + 1) - Counted(q, b[2], k + 1)
      BY <1>0, <3>1, LevelStep
    <3> QED BY <3>1, <3>2, <3>3
  <2>3. \A k \in 0..Len(q) : k \in E
    <3> HIDE DEF E
    <3>1. Len(q) \in Nat
      BY <1>0
    <3> QED BY <2>1, <2>2, <3>1, UpTo
  <2> TAKE k \in 1..Len(q) + 1
  <2>4. k - 1 \in 0..Len(q) /\ (k - 1) + 1 = k
    BY <1>0
  <2> QED BY <2>3, <2>4
<1>12. Len(q) + 1 \in 1..Len(q) + 1
  BY <1>0
<1>13. \A k \in 1..Len(q) : q[k] \in {BS, ":"} => Inside(q, k)
  <2> TAKE k \in 1..Len(q)
  <2>1. CASE k = 1
    BY <1>0, <2>1 DEF DQ, BS
  <2>2. CASE k # 1
    <3>1. k \in 2..Len(q)
      BY <1>0, <2>2
    <3> QED BY <1>9, <3>1
  <2> QED BY <2>1, <2>2
<1>14. Nested(q)
  <2>1. \A b \in Brackets : Level(q, b, Len(q) + 1) = 0 /\ \A k \in 1..Len(q) + 1 : Level(q, b, k) >= 0
    BY <1>11, <1>12
  <2> QED BY <1>10, <1>13, <2>1 DEF Nested
<1>15. Value(q)
  BY <1>13, <1>14 DEF Value
<1> QED BY <1>9, <1>15 DEF q

\* A word: a number, true, a comma.
LEMMA WordIsNested ==
  ASSUME NEW a, a \notin {DQ, BS} \cup Opens \cup Closes
  PROVE  Nested(<<a>>) /\ (a # ":" => Value(<<a>>))
<1> DEFINE w == <<a>>
<1>0. w \in Seq({a}) /\ Len(w) = 1 /\ w[1] = a /\ 1..Len(w) = {1} /\ 1..Len(w) + 1 = {1, 2} /\ 1 \in 1..Len(w) /\ 1 + 1 = 2
  OBVIOUS
<1> HIDE DEF w
<1>1. ~Escaped(w, 1) /\ ~Inside(w, 1) /\ \A b : Level(w, b, 1) = 0
  BY <1>0, ScanStarts
<1>2. ~Escaped(w, 2)
  BY <1>0, EscapedStep
<1>3. ~Inside(w, 2)
  <2>1. ~RawQuote(w, 1)
    BY <1>0 DEF RawQuote
  <2> QED BY <1>0, <1>1, <2>1, InsideStep
<1>4. ASSUME NEW b \in Brackets PROVE Level(w, b, 2) = 0
  <2>1. Counted(w, b[1], 1) = 0 /\ Counted(w, b[2], 1) = 0
    BY <1>0, BracketsAre DEF Counted
  <2> QED BY <1>0, <1>1, <2>1, LevelStep
<1>5. Nested(w)
  BY <1>0, <1>1, <1>2, <1>3, <1>4 DEF Nested
<1>6. a # ":" => Value(w)
  BY <1>0, <1>5 DEF Value
<1> QED BY <1>5, <1>6 DEF w

\* The two ways to enclose a text.
Enclosing == {<<"{", "}">>, <<"[", "]">>}
OwnKind(x) == <<{x[1]}, {x[2]}>>
Enclosed(x, w) == <<x[1]>> \o w \o <<x[2]>>
\* The brackets that enclose are of one kind, and no quote, backslash or colon.
LEMMA EnclosingIs ==
  ASSUME NEW x \in Enclosing
  PROVE  /\ x[1] \in Opens /\ x[2] \in Closes /\ OwnKind(x) \in Brackets
         /\ x[1] \notin {DQ, BS, ":"} /\ x[2] \notin {DQ, BS, ":"}
         /\ \A b \in Brackets : (x[1] \in b[1] <=> x[2] \in b[2]) /\ x[1] \notin b[2] /\ x[2] \notin b[1]
         /\ x[1] \in <<Opens, Closes>>[1] /\ x[1] \in OwnKind(x)[1]
<1>0. x = <<"{", "}">> \/ x = <<"[", "]">>
  BY DEF Enclosing
<1>1. (x[1] = "{" /\ x[2] = "}") \/ (x[1] = "[" /\ x[2] = "]")
  <2>1. CASE x = <<"{", "}">>
    BY <2>1
  <2>2. CASE x = <<"[", "]">>
    BY <2>2
  <2> QED BY <1>0, <2>1, <2>2
<1>2. x[1] \in Opens /\ x[2] \in Closes /\ x[1] \notin {DQ, BS, ":"} /\ x[2] \notin {DQ, BS, ":"}
  BY <1>1 DEF Opens, Closes, DQ, BS
<1>3. OwnKind(x) \in Brackets
  <2>1. CASE x = <<"{", "}">>
    BY <2>1 DEF OwnKind, Brackets
  <2>2. CASE x = <<"[", "]">>
    BY <2>2 DEF OwnKind, Brackets
  <2> QED BY <1>0, <2>1, <2>2
<1>4. ASSUME NEW b \in Brackets PROVE (x[1] \in b[1] <=> x[2] \in b[2]) /\ x[1] \notin b[2] /\ x[2] \notin b[1]
  <2>1. CASE b = <<Opens, Closes>>
    <3>1. b[1] = Opens /\ b[2] = Closes
      BY <2>1
    <3> QED BY <1>1, <3>1 DEF Opens, Closes
  <2>2. CASE b = <<{"{"}, {"}"}>>
    <3>1. b[1] = {"{"} /\ b[2] = {"}"}
      BY <2>2
    <3> QED BY <1>1, <3>1
  <2>3. CASE b = <<{"["}, {"]"}>>
    <3>1. b[1] = {"["} /\ b[2] = {"]"}
      BY <2>3
    <3> QED BY <1>1, <3>1
  <2> QED BY <2>1, <2>2, <2>3 DEF Brackets
<1>5. x[1] \in <<Opens, Closes>>[1] /\ x[1] \in OwnKind(x)[1]
  BY <1>2 DEF OwnKind
<1> QED BY <1>2, <1>3, <1>4, <1>5

\* What is enclosed is one level down, and the whole is a value.
LEMMA EnclosedShape ==
  ASSUME NEW A, NEW w \in Seq(A), NEW x
  PROVE  LET s == Enclosed(x, w) IN
         /\ s \in Seq(A \cup {x[1], x[2]}) /\ Len(w) \in Nat /\ Len(s) = Len(w) + 2
         /\ s[1] = x[1] /\ s[Len(w) + 2] = x[2] /\ Stands(w, s, 1)
<1> DEFINE B == A \cup {x[1], x[2]}
<1>1. w \in Seq(B) /\ <<x[1]>> \in Seq(B) /\ <<x[2]>> \in Seq(B) /\ Len(w) \in Nat
  <2>1. Len(w) \in Nat /\ w \in [1..Len(w) -> B]
    BY LenProperties
  <2>2. x[1] \in B /\ x[2] \in B
    OBVIOUS
  <2> HIDE DEF B
  <2> QED BY <2>1, <2>2
<1> HIDE DEF B
<1> DEFINE h == <<x[1]>> \o w
<1>2. /\ h \in Seq(B) /\ Len(h) = 1 + Len(w)
      /\ \A k \in 1..(1 + Len(w)) : h[k] = IF k <= 1 THEN <<x[1]>>[k] ELSE w[k - 1]
  BY <1>1, ConcatProperties
<1> DEFINE s == Enclosed(x, w)
<1>3. s = h \o <<x[2]>>
  BY DEF Enclosed
<1> HIDE DEF h, s
<1>4. /\ s \in Seq(B) /\ Len(s) = (1 + Len(w)) + 1
      /\ \A k \in 1..((1 + Len(w)) + 1) : s[k] = IF k <= 1 + Len(w) THEN h[k] ELSE <<x[2]>>[k - (1 + Len(w))]
  BY <1>1, <1>2, <1>3, ConcatProperties
<1>5. s[1] = x[1]
  <2>1. 1 \in 1..((1 + Len(w)) + 1) /\ 1 <= 1 + Len(w) /\ 1 \in 1..(1 + Len(w)) /\ <<x[1]>>[1] = x[1]
    BY <1>1
  <2> QED BY <1>2, <1>4, <2>1
<1>6. s[Len(w) + 2] = x[2]
  <2>1. Len(w) + 2 \in 1..((1 + Len(w)) + 1) /\ ~(Len(w) + 2 <= 1 + Len(w)) /\ (Len(w) + 2) - (1 + Len(w)) = 1
        /\ <<x[2]>>[1] = x[2]
    BY <1>1
  <2> QED BY <1>4, <2>1
<1>7. ASSUME NEW k \in 1..Len(w) PROVE s[1 + k] = w[k]
  <2>1. 1 + k \in 1..((1 + Len(w)) + 1) /\ 1 + k <= 1 + Len(w) /\ 1 + k \in 1..(1 + Len(w)) /\ ~(1 + k <= 1) /\ (1 + k) - 1 = k
    BY <1>1
  <2> QED BY <1>2, <1>4, <2>1
<1>8. Stands(w, s, 1)
  BY <1>7 DEF Stands
<1>9. Len(s) = Len(w) + 2
  BY <1>1, <1>4
<1> QED BY <1>1, <1>4, <1>5, <1>6, <1>8, <1>9 DEF s, B

\* What is enclosed is scanned as by itself, one level down.
LEMMA EnclosedIsValue ==
  ASSUME NEW A, NEW w \in Seq(A), Nested(w), NEW x \in Enclosing
  PROVE  LET s == Enclosed(x, w) IN
         /\ Value(s) /\ ~Escaped(s, 2) /\ ~Inside(s, 2)
         /\ \A k \in 1..Len(w) + 1 : /\ SameScan(w, s, 1, <<Opens, Closes>>, k) /\ SameScan(w, s, 1, OwnKind(x), k)
         /\ \A b \in Brackets : x[1] \in b[1] => \A k \in 2..Len(s) : Level(s, b, k) >= 1
         /\ \A b \in Brackets : x[1] \in b[1] => Level(s, b, 2) = 1 /\ Level(s, b, Len(s)) = 1
         /\ ~Inside(s, Len(s))
<1> DEFINE s == Enclosed(x, w)
<1> DEFINE B == A \cup {x[1], x[2]}
<1>0. /\ s \in Seq(B) /\ Len(w) \in Nat /\ Len(s) = Len(w) + 2
      /\ s[1] = x[1] /\ s[Len(w) + 2] = x[2] /\ Stands(w, s, 1)
  BY EnclosedShape
<1> HIDE DEF s, B
<1>1. ~Escaped(s, 1) /\ ~Inside(s, 1) /\ \A b : Level(s, b, 1) = 0
  BY <1>0, ScanStarts
<1>x. /\ x[1] \in Opens /\ x[2] \in Closes /\ OwnKind(x) \in Brackets
      /\ x[1] \notin {DQ, BS, ":"} /\ x[2] \notin {DQ, BS, ":"}
      /\ \A b \in Brackets : (x[1] \in b[1] <=> x[2] \in b[2]) /\ x[1] \notin b[2] /\ x[2] \notin b[1]
      /\ x[1] \in <<Opens, Closes>>[1] /\ x[1] \in OwnKind(x)[1]
  BY EnclosingIs
<1>n. /\ 1 \in 1..Len(s) /\ 1 + 1 = 2 /\ 1 \in Nat \ {0} /\ Len(w) + 2 \in 1..Len(s) /\ Len(w) + 2 \in Nat \ {0}
      /\ (Len(w) + 2) + 1 = Len(s) + 1 /\ 1 + (Len(w) + 1) = Len(w) + 2 /\ Len(w) + 1 \in 1..Len(w) + 1
      /\ 1 + Len(w) <= Len(s)
  BY <1>0
<1>2. ~Escaped(s, 2)
  BY <1>0, <1>x, <1>n, EscapedStep
<1>3. ~Inside(s, 2)
  <2>1. ~RawQuote(s, 1)
    BY <1>0, <1>x DEF RawQuote
  <2> QED BY <1>0, <1>1, <1>n, <2>1, InsideStep
<1>4. ASSUME NEW b \in Brackets PROVE Level(s, b, 2) = IF x[1] \in b[1] THEN 1 ELSE 0
  <2>1. Counted(s, b[1], 1) = (IF x[1] \in b[1] THEN 1 ELSE 0) /\ Counted(s, b[2], 1) = 0
    BY <1>0, <1>1, <1>x DEF Counted
  <2>2. Level(s, b, 1 + 1) = Level(s, b, 1) + Counted(s, b[1], 1) - Counted(s, b[2], 1)
    BY <1>0, <1>n, LevelStep
  <2> QED BY <1>1, <1>n, <2>1, <2>2
<1>5. Placed(w, s, 1)
  BY <1>0, <1>2, <1>3, <1>n DEF Placed
<1>6. ASSUME NEW b, NEW k \in 1..Len(w) + 1 PROVE SameScan(w, s, 1, b, k)
  BY <1>0, <1>5, ScanShifts
<1>7. ASSUME NEW k \in 1..Len(w) + 1
      PROVE  /\ Escaped(s, 1 + k) <=> Escaped(w, k)
             /\ Inside(s, 1 + k) <=> Inside(w, k)
             /\ \A b \in Brackets : Level(s, b, 1 + k) = (IF x[1] \in b[1] THEN 1 ELSE 0) + Level(w, b, k)
             /\ \A b \in Brackets : Level(w, b, k) \in Int
  <2>1. \A b : SameScan(w, s, 1, b, k)
    BY <1>6
  <2> QED BY <1>4, <1>n, <2>1 DEF SameScan
<1>8. ~Escaped(s, Len(w) + 2) /\ ~Inside(s, Len(w) + 2)
      /\ \A b \in Brackets : Level(s, b, Len(w) + 2) = IF x[1] \in b[1] THEN 1 ELSE 0
  <2>1. \A b \in Brackets : Level(w, b, Len(w) + 1) = 0
    BY DEF Nested
  <2>2. ~Escaped(w, Len(w) + 1) /\ ~Inside(w, Len(w) + 1)
    BY DEF Nested
  <2> QED BY <1>7, <1>n, <2>1, <2>2
<1>9. ~Escaped(s, Len(s) + 1)
  BY <1>0, <1>x, <1>n, EscapedStep
<1>10. ~Inside(s, Len(s) + 1)
  <2>1. ~RawQuote(s, Len(w) + 2)
    BY <1>0, <1>x DEF RawQuote
  <2> QED BY <1>0, <1>8, <1>n, <2>1, InsideStep
<1>11. ASSUME NEW b \in Brackets PROVE Level(s, b, Len(s) + 1) = 0
  <2>1. Counted(s, b[1], Len(w) + 2) = 0 /\ Counted(s, b[2], Len(w) + 2) = (IF x[1] \in b[1] THEN 1 ELSE 0)
    BY <1>0, <1>8, <1>x DEF Counted
  <2>2. Level(s, b, (Len(w) + 2) + 1) = Level(s, b, Len(w) + 2) + Counted(s, b[1], Len(w) + 2) - Counted(s, b[2], Len(w) + 2)
    BY <1>0, <1>n, LevelStep
  <2> QED BY <1>8, <1>n, <2>1, <2>2
<1>12. ASSUME NEW b \in Brackets, NEW k \in 2..Len(s)
       PROVE  Level(s, b, k) >= IF x[1] \in b[1] THEN 1 ELSE 0
  <2>1. k - 1 \in 1..Len(w) + 1 /\ 1 + (k - 1) = k
    BY <1>0
  <2>2. Level(w, b, k - 1) >= 0
    BY <2>1 DEF Nested
  <2>3. Level(s, b, k) = (IF x[1] \in b[1] THEN 1 ELSE 0) + Level(w, b, k - 1) /\ Level(w, b, k - 1) \in Int
    BY <1>7, <2>1
  <2> QED BY <2>2, <2>3
<1>13. ASSUME NEW b \in Brackets, NEW k \in 1..Len(s) + 1 PROVE Level(s, b, k) >= 0
  <2>1. CASE k = 1
    BY <1>1, <2>1
  <2>2. CASE k = Len(s) + 1
    BY <1>11, <2>2
  <2>3. CASE k # 1 /\ k # Len(s) + 1
    <3>1. k \in 2..Len(s)
      BY <1>0, <2>3
    <3>2. Level(s, b, k) >= IF x[1] \in b[1] THEN 1 ELSE 0
      BY <1>12, <3>1
    <3>3. k - 1 \in 1..Len(w) + 1 /\ 1 + (k - 1) = k
      BY <1>0, <3>1
    <3>4. Level(s, b, 1 + (k - 1)) = (IF x[1] \in b[1] THEN 1 ELSE 0) + Level(w, b, k - 1) /\ Level(w, b, k - 1) \in Int
      BY <1>7, <3>3
    <3>5. Level(s, b, k) \in Int
      BY <3>3, <3>4
    <3> QED BY <3>2, <3>5
  <2> QED BY <2>1, <2>2, <2>3
<1>14. ASSUME NEW k \in 1..Len(s), s[k] = BS PROVE Inside(s, k)
  <2>1. k # 1 /\ k # Len(w) + 2
    BY <1>0, <1>14, <1>x
  <2>2. k - 1 \in 1..Len(w) /\ k - 1 \in 1..Len(w) + 1 /\ 1 + (k - 1) = k
    BY <1>0, <2>1
  <2>3. w[k - 1] = BS
    BY <1>0, <1>14, <2>2 DEF Stands
  <2>4. Inside(w, k - 1)
    BY <2>2, <2>3 DEF Nested
  <2> QED BY <1>7, <2>2, <2>4
<1>15. Nested(s)
  BY <1>9, <1>10, <1>11, <1>13, <1>14 DEF Nested
<1>16. Value(s)
  <2>1. ASSUME NEW k \in 1..Len(s), s[k] = ":" PROVE Level(s, <<Opens, Closes>>, k) >= 1
    <3>1. k # 1
      BY <1>0, <1>x, <2>1
    <3>2. k \in 2..Len(s)
      BY <1>0, <3>1
    <3> QED BY <1>12, <1>x, <3>2, Both
  <2> QED BY <1>15, <2>1 DEF Value
<1>17. \A b \in Brackets : x[1] \in b[1] => \A k \in 2..Len(s) : Level(s, b, k) >= 1
  BY <1>12
<1>18. ~Inside(s, Len(s)) /\ \A b \in Brackets : x[1] \in b[1] => Level(s, b, 2) = 1 /\ Level(s, b, Len(s)) = 1
  BY <1>0, <1>4, <1>8
<1> QED BY <1>2, <1>3, <1>6, <1>16, <1>17, <1>18 DEF s

\* The key of a member, with its colon.
KeyOf(key) == <<DQ, key, DQ, ":">>
\* A key with its quotes and its colon, scanned.
LEMMA KeyScan ==
  ASSUME NEW key, key \notin {DQ, BS}
  PROVE  LET h == KeyOf(key) IN
         /\ h \in Seq({DQ, key, ":"}) /\ Len(h) = 4 /\ Nested(h)
         /\ ~Inside(h, 1) /\ Inside(h, 2) /\ Inside(h, 3) /\ ~Inside(h, 4)
<1> DEFINE h == KeyOf(key)
<1>0. /\ h \in Seq({DQ, key, ":"}) /\ Len(h) = 4 /\ h[1] = DQ /\ h[2] = key /\ h[3] = DQ /\ h[4] = ":"
  BY DEF KeyOf
<1> HIDE DEF h
<1>n. /\ 1 \in 1..Len(h) /\ 2 \in 1..Len(h) /\ 3 \in 1..Len(h) /\ 4 \in 1..Len(h)
      /\ 1 + 1 = 2 /\ 2 + 1 = 3 /\ 3 + 1 = 4 /\ 4 + 1 = 5 /\ Len(h) + 1 = 5
      /\ {1, 2, 3, 4} \subseteq Nat \ {0}
  BY <1>0
<1>d. DQ # BS /\ ":" \notin {DQ, BS} /\ DQ \notin Opens \cup Closes /\ ":" \notin Opens \cup Closes
  BY DEF DQ, BS, Opens, Closes
<1>1. ~Escaped(h, 1) /\ ~Inside(h, 1) /\ \A b : Level(h, b, 1) = 0
  BY <1>0, ScanStarts
<1>2. ~Escaped(h, 2) /\ ~Escaped(h, 3) /\ ~Escaped(h, 4) /\ ~Escaped(h, 5)
  BY <1>0, <1>n, <1>d, EscapedStep
<1>3. RawQuote(h, 1) /\ ~RawQuote(h, 2) /\ RawQuote(h, 3) /\ ~RawQuote(h, 4)
  BY <1>0, <1>1, <1>2, <1>d DEF RawQuote
<1>4. Inside(h, 2)
  BY <1>0, <1>1, <1>3, <1>n, InsideStep
<1>5. Inside(h, 3)
  BY <1>0, <1>3, <1>4, <1>n, InsideStep
<1>6. ~Inside(h, 4)
  BY <1>0, <1>3, <1>5, <1>n, InsideStep
<1>7. ~Inside(h, 5)
  BY <1>0, <1>3, <1>6, <1>n, InsideStep
<1>8. ASSUME NEW b \in Brackets
      PROVE  Level(h, b, 1) = 0 /\ Level(h, b, 2) = 0 /\ Level(h, b, 3) = 0 /\ Level(h, b, 4) = 0 /\ Level(h, b, 5) = 0
  <2>1. \A k \in 1..Len(h) : Counted(h, b[1], k) = 0 /\ Counted(h, b[2], k) = 0
    <3> TAKE k \in 1..Len(h)
    <3>1. CASE k = 1 \/ k = 3
      <4>1. h[k] = DQ
        BY <1>0, <3>1
      <4>2. h[k] \notin b[1] \cup b[2]
        BY <1>d, <4>1, BracketsAre
      <4> QED BY <4>2 DEF Counted
    <3>2. CASE k = 2
      BY <1>4, <3>2 DEF Counted
    <3>3. CASE k = 4
      <4>1. h[k] = ":"
        BY <1>0, <3>3
      <4>2. h[k] \notin b[1] \cup b[2]
        BY <1>d, <4>1, BracketsAre
      <4> QED BY <4>2 DEF Counted
    <3>4. k \in {1, 2, 3, 4}
      BY <1>0
    <3> QED BY <3>1, <3>2, <3>3, <3>4
  <2>2. \A k \in 1..Len(h) : Level(h, b, k) = 0 => Level(h, b, k + 1) = 0
    <3> TAKE k \in 1..Len(h)
    <3>1. Level(h, b, k + 1) = Level(h, b, k) + Counted(h, b[1], k) - Counted(h, b[2], k)
      BY <1>0, LevelStep
    <3> QED BY <2>1, <3>1
  <2> QED BY <1>1, <1>n, <2>2
<1>9. ASSUME NEW b \in Brackets PROVE Level(h, b, Len(h) + 1) = 0 /\ \A k \in 1..Len(h) + 1 : Level(h, b, k) >= 0
  <2>1. \A k \in 1..Len(h) + 1 : k \in {1, 2, 3, 4, 5}
    BY <1>0
  <2> QED BY <1>8, <1>n, <2>1
<1>10. \A k \in 1..Len(h) : h[k] = BS => Inside(h, k)
  <2>1. \A k \in 1..Len(h) : k \in {1, 2, 3, 4}
    BY <1>0
  <2> QED BY <1>0, <1>d, <1>4, <2>1
<1>11. Nested(h)
  BY <1>2, <1>7, <1>9, <1>10, <1>n DEF Nested
<1> QED BY <1>0, <1>1, <1>4, <1>5, <1>6, <1>11 DEF h

\* A member of an object: its key stands in front, its value behind the colon.
LEMMA MemberIs ==
  ASSUME NEW key, key \notin {DQ, BS}, NEW A, NEW v \in Seq(A), Nested(v)
  PROVE  LET w == Member(key, v) IN
         /\ w \in Seq(A \cup {DQ, key, ":"}) /\ Nested(w) /\ Len(v) \in Nat /\ Len(w) = 4 + Len(v)
         /\ Stands(KeyOf(key), w, 0) /\ Stands(v, w, 4) /\ Placed(v, w, 4)
         /\ ~Inside(w, 1) /\ Inside(w, 2) /\ Inside(w, 3)
         /\ w[1] = DQ /\ w[2] = key /\ w[3] = DQ /\ w[4] = ":"
         /\ \A b \in Brackets : Level(w, b, 5) = 0
<1> DEFINE B == A \cup {DQ, key, ":"}
<1> DEFINE h == KeyOf(key)
<1> DEFINE w == Member(key, v)
<1>0. w = h \o v
  BY DEF Member, KeyOf
<1>h. h[1] = DQ /\ h[2] = key /\ h[3] = DQ /\ h[4] = ":"
  BY DEF KeyOf
<1> HIDE DEF h, w
<1>1. /\ h \in Seq({DQ, key, ":"}) /\ Len(h) = 4 /\ Nested(h)
      /\ ~Inside(h, 1) /\ Inside(h, 2) /\ Inside(h, 3)
  BY KeyScan DEF h
<1>2. h \in Seq(B) /\ v \in Seq(B)
  <2>1. Len(v) \in Nat /\ v \in [1..Len(v) -> B] /\ Len(h) \in Nat /\ h \in [1..Len(h) -> B]
    BY <1>1, LenProperties
  <2> HIDE DEF B
  <2> QED BY <2>1
<1> HIDE DEF B
<1>3. /\ w \in Seq(B) /\ Len(w) = 4 + Len(v) /\ Len(v) \in Nat
      /\ \A k \in 1..(4 + Len(v)) : w[k] = IF k <= 4 THEN h[k] ELSE v[k - 4]
  <2>1. Len(v) \in Nat
    BY <1>2, LenProperties
  <2>2. /\ w \in Seq(B) /\ Len(w) = Len(h) + Len(v)
        /\ \A k \in 1..(Len(h) + Len(v)) : w[k] = IF k <= Len(h) THEN h[k] ELSE v[k - Len(h)]
    BY <1>0, <1>2, ConcatProperties
  <2> QED BY <1>1, <2>1, <2>2
<1>4. Nested(w)
  BY <1>0, <1>1, <1>2, NestedJoins
<1>5. \A k \in 1..4 : w[k] = h[k]
  BY <1>3
<1>6. Stands(h, w, 0)
  <2>1. \A k \in 1..Len(h) : w[0 + k] = h[k]
    BY <1>1, <1>5
  <2> QED BY <2>1 DEF Stands
<1>7. Stands(v, w, 4)
  <2>1. ASSUME NEW k \in 1..Len(v) PROVE w[4 + k] = v[k]
    <3>1. 4 + k \in 1..(4 + Len(v)) /\ ~(4 + k <= 4) /\ (4 + k) - 4 = k
      BY <1>3
    <3> QED BY <1>3, <3>1
  <2> QED BY <2>1 DEF Stands
<1>8. ASSUME NEW k \in 1..5
      PROVE  (Escaped(w, k) <=> Escaped(h, k)) /\ (Inside(w, k) <=> Inside(h, k))
  <2>1. ~Escaped(w, 0 + 1) /\ ~Inside(w, 0 + 1)
    <3>1. ~Escaped(w, 1) /\ ~Inside(w, 1)
      BY <1>3, ScanStarts
    <3>2. 0 + 1 = 1
      OBVIOUS
    <3> QED BY <3>1, <3>2
  <2>2. Placed(h, w, 0) /\ k \in 1..Len(h) + 1 /\ 0 + k = k
    BY <1>1, <1>3, <1>6, <2>1 DEF Placed
  <2>3. SameScan(h, w, 0, <<Opens, Closes>>, k)
    BY <1>1, <1>3, <2>2, ScanShifts
  <2> QED BY <2>2, <2>3 DEF SameScan
<1>9. 1 \in 1..5 /\ 2 \in 1..5 /\ 3 \in 1..5 /\ 5 \in 1..5 /\ Len(h) + 1 = 5 /\ 4 + 1 = 5
      /\ 1 \in 1..4 /\ 2 \in 1..4 /\ 3 \in 1..4 /\ 4 \in 1..4
  BY <1>1
<1>10. Placed(v, w, 4)
  <2>1. ~Escaped(w, 5) /\ ~Inside(w, 5)
    BY <1>1, <1>8, <1>9 DEF Nested
  <2>2. 4 + Len(v) <= Len(w)
    BY <1>3
  <2> QED BY <1>7, <1>9, <2>1, <2>2 DEF Placed
<1>11. ~Inside(w, 1) /\ Inside(w, 2) /\ Inside(w, 3)
  BY <1>1, <1>8, <1>9
<1>L. ASSUME NEW b \in Brackets PROVE Level(w, b, 5) = 0
  <2>1. Level(w, b, 1) = 0 /\ ~Escaped(w, 1) /\ ~Inside(w, 1)
    BY <1>3, ScanStarts
  <2>2. 0 + 1 = 1 /\ 0 + 5 = 5
    OBVIOUS
  <2>3. Placed(h, w, 0) /\ 5 \in 1..Len(h) + 1
    BY <1>1, <1>3, <1>6, <2>1, <2>2 DEF Placed
  <2>4. SameScan(h, w, 0, b, 5)
    BY <1>1, <1>3, <2>3, ScanShifts
  <2>5. Level(h, b, 5) = 0
    BY <1>1, <1>9 DEF Nested
  <2> QED BY <2>1, <2>2, <2>4, <2>5 DEF SameScan
<1>12. w[1] = DQ /\ w[2] = key /\ w[3] = DQ /\ w[4] = ":"
  BY <1>h, <1>5, <1>9
<1> QED BY <1>3, <1>4, <1>6, <1>7, <1>10, <1>11, <1>12, <1>L DEF w, h, B

\* Where the parts end only rises, and every place lies in a part.
LEMMA Covers ==
  ASSUME NEW n \in Nat, NEW S, NEW parts \in [1..n -> Seq(S)], NEW f, NEW e, FlatWalk(f, e, parts, n, S)
  PROVE  /\ \A i \in 0..n : \A j \in i..n : e[i] <= e[j]
         /\ \A k \in 1..e[n] : \E r \in 1..n : k - e[r - 1] \in 1..Len(parts[r])
<1>1. /\ e \in [0..n -> Nat] /\ e[0] = 0 /\ \A i \in 1..n : e[i] = e[i - 1] + Len(parts[i]) /\ Len(parts[i]) \in Nat
  <2>1. \A i \in 1..n : Len(parts[i]) \in Nat
    BY LenProperties
  <2> QED BY <2>1 DEF FlatWalk
<1>2. ASSUME NEW i \in 0..n PROVE \A j \in i..n : e[i] <= e[j]
  <2> DEFINE D == {j \in 0..n : j < i \/ e[i] <= e[j]}
  <2>1. 0 \in D
    BY <1>1
  <2>2. \A j \in 0..(n - 1) : j \in D => j + 1 \in D
    <3> TAKE j \in 0..(n - 1)
    <3> HAVE j \in D
    <3>1. j + 1 \in 1..n /\ j + 1 \in 0..n /\ (j + 1) - 1 = j /\ j \in 0..n
      OBVIOUS
    <3>2. e[j + 1] = e[j] + Len(parts[j + 1]) /\ Len(parts[j + 1]) \in Nat /\ e[j] \in Nat /\ e[i] \in Nat /\ e[j + 1] \in Nat
      BY <1>1, <3>1
    <3>3. CASE j + 1 <= i
      <4>1. j + 1 < i \/ j + 1 = i
        BY <3>3
      <4> QED BY <3>1, <3>2, <4>1
    <3>4. CASE ~(j + 1 <= i)
      <4>1. e[i] <= e[j]
        BY <3>4
      <4>2. e[i] <= e[j + 1]
        BY <3>2, <4>1
      <4> QED BY <3>1, <4>2
    <3> QED BY <3>3, <3>4
  <2>3. \A j \in 0..n : j \in D
    <3> HIDE DEF D
    <3> QED BY <2>1, <2>2, UpTo
  <2> QED BY <2>3
<1>3. ASSUME NEW k \in 1..e[n] PROVE \E r \in 1..n : k - e[r - 1] \in 1..Len(parts[r])
  <2> DEFINE T == {r \in 0..n : k <= e[r]}
  <2>1. n \in T /\ T \subseteq Nat /\ k \in Nat /\ k >= 1
    BY <1>1
  <2>2. PICK r \in T : \A y \in T : r <= y
    BY <2>1, NatMin
  <2>3. r # 0
    BY <1>1, <2>1
  <2>4. r \in 1..n /\ r - 1 \in 0..n
    BY <2>3
  <2>5. ~(k <= e[r - 1])
    BY <2>2, <2>4
  <2>6. e[r] = e[r - 1] + Len(parts[r]) /\ Len(parts[r]) \in Nat /\ e[r - 1] \in Nat /\ k <= e[r]
    BY <1>1, <2>4
  <2>7. k - e[r - 1] \in 1..Len(parts[r])
    BY <2>1, <2>5, <2>6
  <2> QED BY <2>4, <2>7
<1> QED BY <1>2, <1>3

\* Parts laid end to end in a text are each scanned as if alone.
LaidEnd(parts, n, e, s, p) ==
  \A r \in 1..n : /\ Placed(parts[r], s, p + e[r - 1])
                  /\ \A b \in Brackets : Level(s, b, p + e[r - 1] + 1) = Level(s, b, p + 1)
\* Texts that nest, laid end to end, are each scanned as by itself.
LEMMA LaidScan ==
  ASSUME NEW n \in Nat, NEW A, NEW parts \in [1..n -> Seq(A)], \A i \in 1..n : Nested(parts[i]),
         NEW f, NEW e, FlatWalk(f, e, parts, n, A),
         NEW R, NEW s \in Seq(R), NEW p, Placed(FlattenSeq(parts), s, p)
  PROVE  LaidEnd(parts, n, e, s, p)
<1> DEFINE W == FlattenSeq(parts)
<1>1. /\ e \in [0..n -> Nat] /\ e[0] = 0 /\ e[n] = Len(W)
      /\ \A i \in 1..n : e[i] = e[i - 1] + Len(parts[i]) /\ e[i] <= e[n] /\ Stands(parts[i], W, e[i - 1])
                         /\ Len(parts[i]) \in Nat
  <2>1. \A i \in 1..n : Len(parts[i]) \in Nat
    BY LenProperties
  <2> QED BY <2>1 DEF FlatWalk
<1>2. Stands(W, s, p) /\ p + Len(W) <= Len(s) /\ ~Escaped(s, p + 1) /\ ~Inside(s, p + 1) /\ p \in Nat
  BY DEF Placed, Stands
<1> HIDE DEF W
<1>l. Len(s) \in Nat /\ Len(W) \in Nat
  <2>1. n \in 0..n
    OBVIOUS
  <2> QED BY <1>1, <2>1, LenProperties
<1> DEFINE Good(r) ==
      /\ ~Escaped(s, p + e[r] + 1) /\ ~Inside(s, p + e[r] + 1)
      /\ \A b \in Brackets : Level(s, b, p + e[r] + 1) = Level(s, b, p + 1)
<1>3. Good(0)
  <2>1. p + e[0] + 1 = p + 1
    BY <1>1, <1>2
  <2> QED BY <1>2, <2>1
<1> HIDE DEF Good
<1>4. ASSUME NEW r \in 0..(n - 1), Good(r)
      PROVE  Placed(parts[r + 1], s, p + e[r]) /\ Good(r + 1)
  <2>1. r + 1 \in 1..n /\ (r + 1) - 1 = r /\ r \in 0..n /\ r + 1 \in 0..n
    OBVIOUS
  <2>2. /\ e[r + 1] = e[r] + Len(parts[r + 1]) /\ e[r + 1] <= Len(W) /\ Stands(parts[r + 1], W, e[r])
        /\ Len(parts[r + 1]) \in Nat /\ e[r] \in Nat /\ e[r + 1] \in Nat
    BY <1>1, <2>1
  <2> DEFINE l == Len(parts[r + 1])
  <2>3. l \in Nat /\ e[r] \in Nat /\ p \in Nat /\ Len(W) \in Nat /\ e[r] + l <= Len(W) /\ p + Len(W) <= Len(s) /\ Len(s) \in Nat
        /\ e[r + 1] = e[r] + l
    BY <1>2, <1>l, <2>2
  <2>4. Stands(parts[r + 1], s, p + e[r])
    <3>1. ASSUME NEW k \in 1..l PROVE s[(p + e[r]) + k] = parts[r + 1][k]
      <4>0. k \in 1..l
        OBVIOUS
      <4>1. e[r] + k \in 1..Len(W) /\ p + (e[r] + k) = (p + e[r]) + k
        BY ONLY <2>3, <4>0
      <4>2. W[e[r] + k] = parts[r + 1][k]
        BY <2>2 DEF Stands
      <4>3. s[p + (e[r] + k)] = W[e[r] + k]
        BY <1>2, <4>1 DEF Stands
      <4> QED BY <4>1, <4>2, <4>3
    <3>2. p + e[r] \in Nat
      BY <2>3
    <3> QED BY <3>1, <3>2 DEF Stands
  <2>5. p + e[r] + l <= Len(s) /\ p + e[r] + (l + 1) = p + e[r + 1] + 1 /\ l + 1 \in 1..l + 1
    BY ONLY <2>3
  <2>6. Placed(parts[r + 1], s, p + e[r])
    BY <1>4, <2>4, <2>5 DEF Placed, Good
  <2>7. parts[r + 1] \in Seq(A) /\ Nested(parts[r + 1])
    BY <2>1
  <2>8. \A b \in Brackets : SameScan(parts[r + 1], s, p + e[r], b, l + 1)
    BY <2>5, <2>6, <2>7, ScanShifts
  <2>9. /\ ~Escaped(parts[r + 1], l + 1) /\ ~Inside(parts[r + 1], l + 1)
        /\ \A b \in Brackets : Level(parts[r + 1], b, l + 1) = 0
    BY <2>7 DEF Nested
  <2> HIDE DEF l
  <2>10. \A b \in Brackets : /\ ~Escaped(s, p + e[r] + (l + 1)) /\ ~Inside(s, p + e[r] + (l + 1))
                             /\ Level(s, b, p + e[r] + (l + 1)) = Level(s, b, p + e[r] + 1)
    <3> TAKE b \in Brackets
    <3>1. SameScan(parts[r + 1], s, p + e[r], b, l + 1)
      BY <2>8
    <3> QED BY <2>9, <3>1 DEF SameScan
  <2>11. Good(r + 1)
    BY <1>4, <2>5, <2>10, Both DEF Good
  <2> QED BY <2>6, <2>11
<1>5. \A r \in 0..n : Good(r)
  <2> DEFINE D == {r \in 0..n : Good(r)}
  <2>1. 0 \in D
    BY <1>3
  <2>2. \A r \in 0..(n - 1) : r \in D => r + 1 \in D
    BY <1>4
  <2>3. \A r \in 0..n : r \in D
    <3> HIDE DEF D
    <3> QED BY <2>1, <2>2, UpTo
  <2> QED BY <2>3
<1>6. ASSUME NEW r \in 1..n
      PROVE  /\ Placed(parts[r], s, p + e[r - 1])
             /\ \A b \in Brackets : Level(s, b, p + e[r - 1] + 1) = Level(s, b, p + 1)
  <2>1. r - 1 \in 0..(n - 1) /\ r - 1 \in 0..n /\ (r - 1) + 1 = r
    OBVIOUS
  <2>2. Good(r - 1)
    BY <1>5, <2>1
  <2> QED BY <1>4, <2>1, <2>2 DEF Good
<1> QED BY <1>6 DEF LaidEnd

\* A text over some atoms is a text over more.
LEMMA Wider ==
  ASSUME NEW A, NEW B, A \subseteq B, NEW w \in Seq(A)
  PROVE  w \in Seq(B)
<1>1. Len(w) \in Nat /\ w \in [1..Len(w) -> B]
  BY LenProperties
<1> QED BY <1>1

\* A text of one atom.
LEMMA OneAtom ==
  ASSUME NEW B, NEW a \in B
  PROVE  <<a>> \in Seq(B)
OBVIOUS

\* The odd places of a list with commas are its parts, the even ones the commas.
LEMMA OddHalf ==
  ASSUME NEW k \in Nat, k % 2 = 1
  PROVE  \E j \in Nat : k = 2 * j - 1 /\ j >= 1
<1> DEFINE j == (k + 1) \div 2
<1>1. j \in Nat
  OBVIOUS
<1>2. k + 1 = 2 * j + ((k + 1) % 2)
  OBVIOUS
<1>3. (k + 1) % 2 = 0
  OBVIOUS
<1> HIDE DEF j
<1>4. k = 2 * j - 1 /\ j >= 1
  BY <1>1, <1>2, <1>3
<1> QED BY <1>1, <1>4

\* What Commas lays end to end: the parts at the odd places, commas at the even.
Spaced(parts, n) == [k \in 1..2 * n - 1 |-> IF k % 2 = 1 THEN parts[(k + 1) \div 2] ELSE <<",">>]
SpacedOut(parts, n, A) ==
  /\ 2 * n - 1 \in Nat /\ Spaced(parts, n) \in [1..2 * n - 1 -> Seq(A \cup {","})]
  /\ Commas(parts) = FlattenSeq(Spaced(parts, n))
  /\ \A j \in 1..n : 2 * j - 1 \in 1..2 * n - 1 /\ Spaced(parts, n)[2 * j - 1] = parts[j]
  /\ \A j \in 1..n - 1 : 2 * j \in 1..2 * n - 1 /\ Spaced(parts, n)[2 * j] = <<",">>
  /\ \A k \in 1..2 * n - 1 : (\E j \in 1..n : k = 2 * j - 1) \/ (\E j \in 1..n - 1 : k = 2 * j)
\* Parts with commas between are such a list, laid end to end.
LEMMA CommasAre ==
  ASSUME NEW n \in Nat \ {0}, NEW A, NEW parts \in [1..n -> Seq(A)]
  PROVE  SpacedOut(parts, n, A)
<1> DEFINE B == A \cup {","}
<1>1. ASSUME NEW j \in 1..n
      PROVE  2 * j - 1 \in 1..2 * n - 1 /\ (2 * j - 1) % 2 = 1 /\ ((2 * j - 1) + 1) \div 2 = j
  OBVIOUS
<1>2. ASSUME NEW j \in 1..n - 1 PROVE 2 * j \in 1..2 * n - 1 /\ (2 * j) % 2 # 1
  OBVIOUS
<1>3. ASSUME NEW k \in 1..2 * n - 1
      PROVE  (\E j \in 1..n : k = 2 * j - 1) \/ (\E j \in 1..n - 1 : k = 2 * j)
  <2>1. CASE k % 2 = 1
    <3>0. k \in Nat
      OBVIOUS
    <3>1. PICK j \in Nat : k = 2 * j - 1 /\ j >= 1
      BY <2>1, <3>0, OddHalf
    <3>2. j \in 1..n
      BY <3>1
    <3> QED BY <3>1, <3>2
  <2>2. CASE k % 2 # 1
    <3>1. k \div 2 \in 1..n - 1 /\ k = 2 * (k \div 2)
      BY <2>2
    <3> QED BY <3>1
  <2> QED BY <2>1, <2>2
<1>4. \A j \in 1..n : Spaced(parts, n)[2 * j - 1] = parts[j]
  BY <1>1 DEF Spaced
<1>5. \A j \in 1..n - 1 : Spaced(parts, n)[2 * j] = <<",">>
  BY <1>2 DEF Spaced
<1>6. \A j \in 1..n : parts[j] \in Seq(B)
  <2>1. A \subseteq B /\ \A j \in 1..n : parts[j] \in Seq(A)
    OBVIOUS
  <2> HIDE DEF B
  <2> QED BY <2>1, Wider
<1>7. <<",">> \in Seq(B)
  <2>1. "," \in B
    OBVIOUS
  <2> HIDE DEF B
  <2> QED BY <2>1, OneAtom
<1> HIDE DEF B
<1>8. ASSUME NEW k \in 1..2 * n - 1 PROVE Spaced(parts, n)[k] \in Seq(B)
  BY <1>3, <1>4, <1>5, <1>6, <1>7
<1>9. Spaced(parts, n) \in [1..2 * n - 1 -> Seq(B)]
  <2>1. Spaced(parts, n) = [k \in 1..2 * n - 1 |-> Spaced(parts, n)[k]]
    BY DEF Spaced
  <2> QED BY <1>8, <2>1
<1>10. Commas(parts) = FlattenSeq(Spaced(parts, n))
  <2>1. Len(parts) = n
    OBVIOUS
  <2> QED BY <2>1 DEF Commas, Joined, Flat, Spaced
<1>11. 2 * n - 1 \in Nat
  OBVIOUS
<1> QED BY <1>1, <1>2, <1>3, <1>4, <1>5, <1>9, <1>10, <1>11 DEF B, SpacedOut

\* An array and an object of nested texts are values.
LEMMA CommasNested ==
  ASSUME NEW n \in Nat \ {0}, NEW A, NEW parts \in [1..n -> Seq(A)], \A j \in 1..n : Nested(parts[j])
  PROVE  /\ Commas(parts) \in Seq(A \cup {","}) /\ Nested(Commas(parts))
         /\ \A k \in 1..2 * n - 1 : Nested(Spaced(parts, n)[k])
<1>0. SpacedOut(parts, n, A)
  BY CommasAre
<1>1. Nested(<<",">>)
  BY WordIsNested DEF DQ, BS, Opens, Closes
<1>2. ASSUME NEW k \in 1..2 * n - 1 PROVE Nested(Spaced(parts, n)[k])
  <2>1. CASE \E j \in 1..n : k = 2 * j - 1
    <3>1. PICK j \in 1..n : k = 2 * j - 1
      BY <2>1
    <3>2. Spaced(parts, n)[2 * j - 1] = parts[j]
      BY <1>0 DEF SpacedOut
    <3> QED BY <3>1, <3>2
  <2>2. CASE \E j \in 1..n - 1 : k = 2 * j
    <3>1. PICK j \in 1..n - 1 : k = 2 * j
      BY <2>2
    <3>2. Spaced(parts, n)[2 * j] = <<",">>
      BY <1>0 DEF SpacedOut
    <3> QED BY <1>1, <3>1, <3>2
  <2>3. (\E j \in 1..n : k = 2 * j - 1) \/ (\E j \in 1..n - 1 : k = 2 * j)
    BY <1>0 DEF SpacedOut
  <2> QED BY <2>1, <2>2, <2>3
<1> DEFINE m == 2 * n - 1
<1> DEFINE W == Spaced(parts, n)
<1> DEFINE B == A \cup {","}
<1>3. m \in Nat /\ W \in [1..m -> Seq(B)] /\ Commas(parts) = FlattenSeq(W)
  BY <1>0 DEF SpacedOut
<1>4. \A k \in 1..m : Nested(W[k])
  BY <1>2
<1> HIDE DEF m, W, B
<1>5. Nested(FlattenSeq(W)) /\ FlattenSeq(W) \in Seq(B)
  BY <1>3, <1>4, NestedFlat
<1> QED BY <1>2, <1>3, <1>5 DEF B

-----------------------------------------------------------------------------
(* Objects: what a scan of one sees, and what find_top_key finds in it.    *)

\* An object with members: its keys, its values.
Members(n, keys, vals) == [j \in 1..n |-> Member(keys[j], vals[j])]
ObjectOf(n, keys, vals) == Object(Members(n, keys, vals))
IsObject(n, keys, vals, A) ==
  /\ n \in Nat \ {0} /\ vals \in [1..n -> Seq(A)]
  /\ \A j \in 1..n : keys[j] \notin {DQ, BS} /\ Value(vals[j])
AtomsOf(n, keys, A) == A \cup {keys[j] : j \in 1..n} \cup {DQ, ":", ",", "{", "}"}

\* Where each member begins.
Begins(start, n, keys, vals) ==
  LET s == ObjectOf(n, keys, vals) IN
  /\ start \in [1..n -> Nat] /\ \A i \in 1..n : \A j \in i..n : start[i] <= start[j]
  /\ \A j \in 1..n :
       /\ Placed(Member(keys[j], vals[j]), s, start[j])
       /\ Level(s, <<Opens, Closes>>, start[j] + 1) = 1
       /\ start[j] + Len(Member(keys[j], vals[j])) + 1 <= Len(s)
       /\ s[start[j] + Len(Member(keys[j], vals[j])) + 1] \in {",", "}"}
  /\ \A i \in 1..Len(s) : s[i] = DQ => \E j \in 1..n : i - start[j] \in 1..Len(Member(keys[j], vals[j]))

\* The members of an object are texts that nest.
LEMMA MembersAre ==
  ASSUME NEW n, NEW keys, NEW vals, NEW A, IsObject(n, keys, vals, A)
  PROVE  /\ Members(n, keys, vals) \in [1..n -> Seq(AtomsOf(n, keys, A))]
         /\ \A j \in 1..n : /\ Nested(Members(n, keys, vals)[j]) /\ vals[j] \in Seq(A)
                            /\ Members(n, keys, vals)[j] = Member(keys[j], vals[j])
<1>1. ASSUME NEW j \in 1..n
      PROVE  /\ Member(keys[j], vals[j]) \in Seq(AtomsOf(n, keys, A)) /\ Nested(Member(keys[j], vals[j]))
             /\ vals[j] \in Seq(A)
  <2>1. keys[j] \notin {DQ, BS} /\ vals[j] \in Seq(A) /\ Nested(vals[j])
    BY DEF IsObject, Value
  <2> DEFINE w == Member(keys[j], vals[j])
  <2> DEFINE B == A \cup {DQ, keys[j], ":"}
  <2>2. w \in Seq(B) /\ Nested(w)
    BY <2>1, MemberIs
  <2>3. B \subseteq AtomsOf(n, keys, A)
    BY DEF AtomsOf
  <2> HIDE DEF B, w
  <2>4. w \in Seq(AtomsOf(n, keys, A))
    BY <2>2, <2>3, Wider
  <2> QED BY <2>1, <2>2, <2>4 DEF w
<1> QED BY <1>1 DEF Members

\* Where each part of an enclosed list begins.
PartsBegin(start, n, parts, x) ==
  LET s == Enclosed(x, Commas(parts)) IN
  /\ start \in [1..n -> Nat] /\ \A i \in 1..n : \A j \in i..n : start[i] <= start[j]
  /\ \A i \in 1..n : \A j \in i + 1..n : start[i] + Len(parts[i]) + 1 <= start[j]
  /\ \A j \in 1..n :
       /\ Placed(parts[j], s, start[j]) /\ Level(s, <<Opens, Closes>>, start[j] + 1) = 1
       /\ start[j] + Len(parts[j]) + 1 <= Len(s) /\ s[start[j] + Len(parts[j]) + 1] \in {",", x[2]}
  /\ \A i \in 2..Len(s) - 1 : s[i] # "," => \E j \in 1..n : i - start[j] \in 1..Len(parts[j])

IsList(n, parts, A, x) ==
  /\ n \in Nat \ {0} /\ parts \in [1..n -> Seq(A)] /\ \A j \in 1..n : Nested(parts[j])
  /\ x \in Enclosing /\ {",", x[1], x[2]} \subseteq A

\* An array or an object is a value, and its parts lie in it one level down.
LEMMA PartsIn ==
  ASSUME NEW n, NEW A, NEW M, NEW x, IsList(n, M, A, x)
  PROVE  /\ Commas(M) \in Seq(A) /\ Nested(Commas(M)) /\ Enclosed(x, Commas(M)) \in Seq(A)
         /\ Value(Enclosed(x, Commas(M))) /\ \E start : PartsBegin(start, n, M, x)
<1> DEFINE w == Commas(M)
<1> DEFINE s == Enclosed(x, w)
<1> DEFINE m == 2 * n - 1
<1> DEFINE W == Spaced(M, n)
<1>0. n \in Nat \ {0}
  BY DEF IsList
<1> DEFINE U == A
<1>1. M \in [1..n -> Seq(U)] /\ \A j \in 1..n : Nested(M[j])
  BY DEF IsList
<1>u. U \cup {","} = U /\ U \cup {x[1], x[2]} = U
  <2>1. {",", x[1], x[2]} \subseteq U
    BY DEF IsList
  <2> QED BY <2>1
<1> HIDE DEF U
<1>2. /\ m \in Nat /\ W \in [1..m -> Seq(U)] /\ w = FlattenSeq(W)
      /\ (\A j \in 1..n : 2 * j - 1 \in 1..m /\ W[2 * j - 1] = M[j])
      /\ (\A j \in 1..n - 1 : 2 * j \in 1..m /\ W[2 * j] = <<",">>)
      /\ \A k \in 1..m : (\E j \in 1..n : k = 2 * j - 1) \/ (\E j \in 1..n - 1 : k = 2 * j)
  <2>1. SpacedOut(M, n, U)
    BY <1>0, <1>1, CommasAre
  <2> QED BY <1>u, <2>1 DEF SpacedOut
<1>3. w \in Seq(U) /\ Nested(w) /\ \A k \in 1..m : Nested(W[k])
  BY <1>0, <1>1, <1>u, CommasNested
<1>4. s = Enclosed(x, w) /\ x \in Enclosing
  BY DEF IsList
<1> HIDE DEF w, s, W
<1>5. /\ s \in Seq(U) /\ Len(w) \in Nat /\ Len(s) = Len(w) + 2
      /\ s[1] = x[1] /\ s[Len(w) + 2] = x[2] /\ Stands(w, s, 1)
  BY <1>3, <1>4, <1>u, EnclosedShape
<1>6. /\ Value(s) /\ ~Escaped(s, 1 + 1) /\ ~Inside(s, 1 + 1) /\ Level(s, <<Opens, Closes>>, 1 + 1) = 1
  <2>1. x[1] \in <<Opens, Closes>>[1] /\ 1 + 1 = 2
    BY <1>4, EnclosingIs
  <2>2. /\ Value(s) /\ ~Escaped(s, 2) /\ ~Inside(s, 2)
        /\ \A b \in Brackets : x[1] \in b[1] => Level(s, b, 2) = 1
    BY <1>3, <1>4, EnclosedIsValue
  <2> QED BY <1>4, <2>1, <2>2, Both
<1>7. Placed(FlattenSeq(W), s, 1)
  <2>0. Len(w) \in Nat /\ Len(s) = Len(w) + 2
    BY <1>5
  <2>1. 1 + Len(w) <= Len(s)
    BY ONLY <2>0
  <2> QED BY <1>2, <1>5, <1>6, <2>1 DEF Placed
<1>8. PICK f, e : FlatWalk(f, e, W, m, U)
  <2> HIDE DEF m
  <2> QED BY <1>2, FlatWalks
<1>9. \A r \in 1..m : /\ Placed(W[r], s, 1 + e[r - 1])
                      /\ \A b \in Brackets : Level(s, b, 1 + e[r - 1] + 1) = Level(s, b, 1 + 1)
  <2> HIDE DEF m
  <2>1. LaidEnd(W, m, e, s, 1)
    BY <1>2, <1>3, <1>5, <1>7, <1>8, LaidScan
  <2> QED BY <2>1 DEF LaidEnd
<1>10. /\ \A i \in 0..m : \A j \in i..m : e[i] <= e[j]
       /\ \A k \in 1..e[m] : \E r \in 1..m : k - e[r - 1] \in 1..Len(W[r])
  <2> HIDE DEF m
  <2> QED BY <1>2, <1>8, Covers
<1>11. /\ e \in [0..m -> Nat] /\ e[0] = 0 /\ e[m] = Len(w)
       /\ \A i \in 1..m : e[i] = e[i - 1] + Len(W[i]) /\ e[i] <= e[m]
  <2> HIDE DEF m
  <2> QED BY <1>2, <1>8 DEF FlatWalk
<1>l. \A k \in 1..m : Len(W[k]) \in Nat
  <2> HIDE DEF m
  <2> QED BY <1>2, LenProperties
<1> DEFINE start == [j \in 1..n |-> 1 + e[2 * j - 2]]
<1>12. \A j \in 1..n : /\ 2 * j - 2 \in 0..m /\ 2 * j - 1 \in 1..m /\ (2 * j - 1) - 1 = 2 * j - 2
                       /\ e[2 * j - 2] \in Nat /\ start[j] = 1 + e[2 * j - 2] /\ start[j] \in Nat
  <2> TAKE j \in 1..n
  <2>1. 2 * j - 2 \in 0..m /\ 2 * j - 1 \in 1..m /\ (2 * j - 1) - 1 = 2 * j - 2
    BY <1>0
  <2>2. e[2 * j - 2] \in Nat
    BY <1>11, <2>1
  <2>3. start[j] = 1 + e[2 * j - 2]
    OBVIOUS
  <2> HIDE DEF start, m
  <2> QED BY <2>1, <2>2, <2>3
<1>13. start \in [1..n -> Nat]
  <2>1. \A j \in 1..n : 1 + e[2 * j - 2] \in Nat
    BY <1>12
  <2> QED BY <2>1
<1> HIDE DEF start
<1>14. \A i \in 1..n : \A j \in i..n : start[i] <= start[j]
  <2> TAKE i \in 1..n
  <2> TAKE j \in i..n
  <2>1. j \in 1..n /\ 2 * j - 2 \in (2 * i - 2)..m
    BY <1>0
  <2>2. e[2 * i - 2] <= e[2 * j - 2]
    BY <1>10, <1>12, <2>1
  <2> QED BY <1>12, <2>1, <2>2
<1>15. ASSUME NEW j \in 1..n
       PROVE  /\ Placed(M[j], s, start[j]) /\ Level(s, <<Opens, Closes>>, start[j] + 1) = 1
              /\ start[j] + Len(M[j]) + 1 <= Len(s) /\ s[start[j] + Len(M[j]) + 1] \in {",", x[2]}
  <2>1. W[2 * j - 1] = M[j] /\ 2 * j - 1 \in 1..m
    BY <1>2
  <2>2. Placed(M[j], s, start[j]) /\ Level(s, <<Opens, Closes>>, start[j] + 1) = 1
    BY <1>6, <1>9, <1>12, <2>1, Both
  <2>3. /\ e[2 * j - 1] = e[2 * j - 2] + Len(M[j]) /\ Len(M[j]) \in Nat /\ e[2 * j - 2] \in Nat
        /\ e[2 * j - 1] \in Nat /\ e[2 * j - 1] <= Len(w)
    <3>1. e[2 * j - 1] = e[(2 * j - 1) - 1] + Len(W[2 * j - 1]) /\ e[2 * j - 1] <= e[m] /\ Len(W[2 * j - 1]) \in Nat
      BY <1>11, <1>l, <2>1
    <3>2. 2 * j - 1 \in 0..m
      BY <2>1
    <3>3. e[2 * j - 1] \in Nat
      BY <1>11, <3>2
    <3> QED BY <1>11, <1>12, <2>1, <3>1, <3>3
  <2>4. start[j] + Len(M[j]) + 1 = e[2 * j - 1] + 2 /\ start[j] + Len(M[j]) + 1 <= Len(s)
    <3>1. start[j] = 1 + e[2 * j - 2] /\ Len(s) = Len(w) + 2 /\ Len(w) \in Nat
      BY <1>5, <1>12
    <3>2. \A a, b, c, d, z : a \in Nat /\ b \in Nat /\ c \in Nat /\ z = 1 + a /\ c = a + b /\ d \in Nat /\ c <= d
            => z + b + 1 = c + 2 /\ z + b + 1 <= d + 2
      OBVIOUS
    <3> QED BY ONLY <2>3, <3>1, <3>2
  <2>5. CASE j = n
    <3>1. e[2 * j - 1] = Len(w)
      BY <1>11, <2>5
    <3> QED BY <1>5, <2>2, <2>4, <3>1
  <2>6. CASE j # n
    <3>1. j \in 1..n - 1
      BY <1>0, <2>6
    <3>2. 2 * j \in 1..m /\ W[2 * j] = <<",">>
      BY <1>2, <3>1
    <3>3. Placed(W[2 * j], s, 1 + e[2 * j - 1])
      BY <1>9, <3>2
    <3>4. 1 \in 1..Len(<<",">>) /\ <<",">>[1] = ","
      OBVIOUS
    <3>5. s[1 + e[2 * j - 1] + 1] = ","
      BY <3>2, <3>3, <3>4 DEF Placed, Stands
    <3>6. 1 + e[2 * j - 1] + 1 = e[2 * j - 1] + 2
      BY <2>3
    <3> QED BY <2>2, <2>4, <3>5, <3>6
  <2> QED BY <2>5, <2>6
<1>16. ASSUME NEW i \in 2..Len(s) - 1, s[i] # "," PROVE \E j \in 1..n : i - start[j] \in 1..Len(M[j])
  <2>2. i - 1 \in 1..e[m] /\ i \in Nat
    <3>1. Len(w) \in Nat /\ Len(s) = Len(w) + 2 /\ e[m] = Len(w) /\ i \in 2..Len(s) - 1
      BY <1>5, <1>11
    <3> QED BY ONLY <3>1
  <2>3. PICK r \in 1..m : (i - 1) - e[r - 1] \in 1..Len(W[r])
    BY <1>10, <2>2
  <2>4. CASE \E j \in 1..n : r = 2 * j - 1
    <3>1. PICK j \in 1..n : r = 2 * j - 1
      BY <2>4
    <3>2. W[r] = M[j] /\ e[r - 1] = e[2 * j - 2] /\ start[j] = 1 + e[2 * j - 2] /\ e[2 * j - 2] \in Nat
      BY <1>2, <1>12, <3>1
    <3>3. (i - 1) - e[r - 1] = i - start[j]
      BY <2>2, <3>2
    <3> QED BY <2>3, <3>2, <3>3
  <2>5. CASE \E j \in 1..n - 1 : r = 2 * j
    <3>1. W[r] = <<",">>
      BY <1>2, <2>5
    <3>2. (i - 1) - e[r - 1] = 1
      <4>1. 1..Len(<<",">>) = {1}
        OBVIOUS
      <4> QED BY <2>3, <3>1, <4>1
    <3>3. r - 1 \in 0..m
      BY <1>0, <2>3
    <3>4. e[r - 1] \in Nat
      BY <1>11, <3>3
    <3>5. 1 + e[r - 1] + 1 = i
      BY <2>2, <3>2, <3>4
    <3>6. s[1 + e[r - 1] + 1] = ","
      <4>1. Placed(W[r], s, 1 + e[r - 1])
        BY <1>9
      <4>2. 1 \in 1..Len(<<",">>) /\ <<",">>[1] = ","
        OBVIOUS
      <4> QED BY <3>1, <4>1, <4>2 DEF Placed, Stands
    <3> QED BY <1>16, <3>5, <3>6
  <2> QED BY <1>2, <2>4, <2>5
<1>17. ASSUME NEW i \in 1..n, NEW j \in i + 1..n PROVE start[i] + Len(M[i]) + 1 <= start[j]
  <2>1. /\ j \in 1..n /\ i \in 1..n - 1 /\ 2 * j - 2 \in (2 * i)..m /\ 2 * i \in 0..m /\ 2 * i \in 1..m
        /\ 2 * i - 1 \in 1..m /\ 2 * i - 1 \in 0..m
    BY <1>0
  <2>2. e[2 * i] <= e[2 * j - 2]
    BY <1>10, <2>1
  <2>3. e[2 * i] = e[2 * i - 1] + Len(W[2 * i]) /\ e[2 * i - 1] = e[(2 * i - 1) - 1] + Len(W[2 * i - 1])
    BY <1>11, <2>1
  <2>4. Len(W[2 * i]) = 1 /\ W[2 * i - 1] = M[i] /\ (2 * i - 1) - 1 = 2 * i - 2 /\ Len(W[2 * i - 1]) \in Nat
    <3>1. W[2 * i] = <<",">> /\ Len(<<",">>) = 1
      BY <1>2, <2>1
    <3> QED BY <1>2, <1>12, <1>l, <2>1, <3>1
  <2>5. start[i] = 1 + e[2 * i - 2] /\ start[j] = 1 + e[2 * j - 2] /\ e[2 * i - 2] \in Nat /\ e[2 * j - 2] \in Nat
    BY <1>12, <2>1
  <2>6. e[2 * i] = e[2 * i - 2] + Len(M[i]) + 1 /\ Len(M[i]) \in Nat
    BY <2>3, <2>4, <2>5
  <2> HIDE DEF m
  <2> QED BY ONLY <2>2, <2>5, <2>6
<1>18. PartsBegin(start, n, M, x)
  <2> HIDE DEF m
  <2> QED BY <1>13, <1>14, <1>15, <1>16, <1>17 DEF PartsBegin, s, w
<1> QED BY <1>3, <1>5, <1>6, <1>18 DEF s, w, U

\* An object is a value, and its members lie in it one level down.
LEMMA ObjectBegins ==
  ASSUME NEW n, NEW keys, NEW vals, NEW A, IsObject(n, keys, vals, A)
  PROVE  /\ ObjectOf(n, keys, vals) \in Seq(AtomsOf(n, keys, A)) /\ Value(ObjectOf(n, keys, vals))
         /\ ObjectOf(n, keys, vals) = Enclosed(<<"{", "}">>, Commas(Members(n, keys, vals)))
         /\ Nested(Commas(Members(n, keys, vals)))
         /\ Commas(Members(n, keys, vals)) \in Seq(AtomsOf(n, keys, A))
         /\ \E start : Begins(start, n, keys, vals)
<1> DEFINE U == AtomsOf(n, keys, A)
<1> DEFINE M == Members(n, keys, vals)
<1> DEFINE x == <<"{", "}">>
<1> DEFINE s == ObjectOf(n, keys, vals)
<1>0. n \in Nat \ {0}
  BY DEF IsObject
<1>1. M \in [1..n -> Seq(U)] /\ \A j \in 1..n : Nested(M[j]) /\ M[j] = Member(keys[j], vals[j])
  BY MembersAre
<1>2. "," \in U /\ x[1] \in U /\ x[2] \in U /\ x \in Enclosing /\ x[1] = "{" /\ x[2] = "}"
  BY DEF AtomsOf, Enclosing
<1>3. s = Enclosed(x, Commas(M))
  BY DEF ObjectOf, Object, Enclosed
<1> HIDE DEF M, U, x, s
<1>4. /\ Commas(M) \in Seq(U) /\ Nested(Commas(M)) /\ s \in Seq(U) /\ Value(s)
      /\ \E start : PartsBegin(start, n, M, x)
  <2>1. IsList(n, M, U, x)
    BY <1>0, <1>1, <1>2 DEF IsList
  <2> QED BY <1>3, <2>1, PartsIn
<1>5. PICK start : PartsBegin(start, n, M, x)
  BY <1>4
<1>6. /\ start \in [1..n -> Nat] /\ \A i \in 1..n : \A j \in i..n : start[i] <= start[j]
      /\ \A j \in 1..n :
           /\ Placed(M[j], s, start[j]) /\ Level(s, <<Opens, Closes>>, start[j] + 1) = 1
           /\ start[j] + Len(M[j]) + 1 <= Len(s) /\ s[start[j] + Len(M[j]) + 1] \in {",", "}"}
      /\ \A i \in 2..Len(s) - 1 : s[i] # "," => \E j \in 1..n : i - start[j] \in 1..Len(M[j])
  BY <1>2, <1>3, <1>5 DEF PartsBegin
<1>7. ASSUME NEW i \in 1..Len(s), s[i] = DQ PROVE \E j \in 1..n : i - start[j] \in 1..Len(M[j])
  <2>1. s[1] = "{" /\ s[Len(s)] = "}" /\ Len(s) \in Nat
    <3>1. /\ s[1] = x[1] /\ s[Len(Commas(M)) + 2] = x[2] /\ Len(s) = Len(Commas(M)) + 2 /\ Len(Commas(M)) \in Nat
      BY <1>3, <1>4, EnclosedShape
    <3>2. Len(s) \in Nat
      BY ONLY <3>1
    <3> QED BY <1>2, <3>1, <3>2
  <2>2. DQ \notin {"{", "}", ","}
    BY DEF DQ
  <2>3. i # 1 /\ i # Len(s)
    BY <1>7, <2>1, <2>2
  <2>4. i \in 2..Len(s) - 1
    <3>1. Len(s) \in Nat /\ i \in 1..Len(s)
      BY <2>1
    <3> QED BY ONLY <2>3, <3>1
  <2> QED BY <1>6, <1>7, <2>2, <2>4
<1>8. Begins(start, n, keys, vals)
  BY <1>1, <1>6, <1>7 DEF Begins, s
<1> QED BY <1>3, <1>4, <1>8 DEF s, x, M, U

\* Where the blanks end.
LEMMA SkipEnds ==
  ASSUME NEW R, NEW s \in Seq(R), NEW i \in 1..Len(s) + 1
  PROVE  /\ SkipWs(s, i) \in i..i + Len(s) /\ ~IsBlank(At(s, SkipWs(s, i)))
         /\ \A b \in i..SkipWs(s, i) - 1 : IsBlank(At(s, b))
<1> DEFINE NotBlank(k) == ~IsBlank(At(s, k)) /\ \A b \in i..k - 1 : IsBlank(At(s, b))
<1> DEFINE T == {k \in i..i + Len(s) : ~IsBlank(At(s, k))}
<1>0. Len(s) \in Nat /\ DOMAIN s = 1..Len(s)
  BY LenProperties
<1>1. Len(s) + 1 \in T
  <2>1. Len(s) + 1 \in i..i + Len(s) /\ Len(s) + 1 \notin DOMAIN s
    BY <1>0
  <2>2. At(s, Len(s) + 1) = "EOF"
    BY <2>1 DEF At
  <2>3. ~IsBlank("EOF")
    BY DEF IsBlank, SP, LF
  <2> QED BY <2>1, <2>2, <2>3
<1>2. T \subseteq Nat
  BY <1>0
<1>3. PICK k \in T : \A y \in T : k <= y
  <2> HIDE DEF T
  <2> QED BY <1>1, <1>2, NatMin
<1>4. k \in i..i + Len(s) /\ NotBlank(k)
  <2>1. k \in i..i + Len(s) /\ ~IsBlank(At(s, k)) /\ k \in Nat
    BY <1>2, <1>3
  <2>2. ASSUME NEW b \in i..k - 1, ~IsBlank(At(s, b)) PROVE FALSE
    <3>1. b \in i..i + Len(s) /\ ~(k <= b)
      BY <1>0, <2>1, <2>2
    <3>2. b \in T
      BY <2>2, <3>1
    <3> QED BY <1>3, <3>1, <3>2
  <2> QED BY <2>1, <2>2
<1> HIDE DEF NotBlank
<1>5. SkipWs(s, i) = CHOOSE c \in i..i + Len(s) : NotBlank(c)
  BY DEF SkipWs, NotBlank
<1>6. SkipWs(s, i) \in i..i + Len(s) /\ NotBlank(SkipWs(s, i))
  BY <1>4, <1>5
<1> QED BY <1>6 DEF NotBlank

\* An atom that is not blank is not skipped.
LEMMA NotSkipped ==
  ASSUME NEW R, NEW s \in Seq(R), NEW i \in 1..Len(s), ~IsBlank(s[i])
  PROVE  SkipWs(s, i) = i /\ At(s, i) = s[i]
<1>0. Len(s) \in Nat /\ i \in DOMAIN s /\ i \in 1..Len(s) + 1
  BY LenProperties
<1>1. At(s, i) = s[i]
  BY <1>0 DEF At
<1> DEFINE c == SkipWs(s, i)
<1>2. c \in i..i + Len(s) /\ \A b \in i..c - 1 : IsBlank(At(s, b))
  BY <1>0, SkipEnds
<1> HIDE DEF c
<1>3. CASE c # i
  <2>1. i \in i..c - 1
    BY <1>0, <1>2, <1>3
  <2> QED BY <1>1, <1>2, <2>1
<1> QED BY <1>1, <1>3 DEF c

\* A key with its quotes, at the top level of a text.
KeyedAt(v, k, key) ==
  /\ k \in 1..Len(v) /\ v[k] = DQ /\ ~Inside(v, k) /\ Level(v, <<Opens, Closes>>, k) = 0
  /\ k + 1 \in 1..Len(v) => v[k + 1] = key
  /\ k + 2 \in 1..Len(v) => v[k + 2] = DQ
\* The depth changes at a bracket outside of strings only.
LEMMA LevelStays ==
  ASSUME NEW A, NEW v \in Seq(A), NEW d \in 1..Len(v), v[d] \notin Opens \cup Closes \/ Inside(v, d)
  PROVE  Level(v, <<Opens, Closes>>, d + 1) = Level(v, <<Opens, Closes>>, d)
<1> DEFINE b == <<Opens, Closes>>
<1>0. b \in Brackets
  BY Both
<1> HIDE DEF b
<1>1. Counted(v, b[1], d) = 0 /\ Counted(v, b[2], d) = 0
  <2>1. v[d] \in b[1] \cup b[2] => v[d] \in Opens \cup Closes
    BY <1>0, BracketsAre
  <2> QED BY <2>1 DEF Counted
<1>2. Level(v, b, d) \in Int /\ Level(v, b, d + 1) = Level(v, b, d) + Counted(v, b[1], d) - Counted(v, b[2], d)
  BY LevelStep
<1>3. Level(v, b, d + 1) = Level(v, b, d)
  BY ONLY <1>1, <1>2
<1> QED BY <1>3 DEF b

\* Such a key ends outside of strings, at the depth it began at.
LEMMA KeyEnds ==
  ASSUME NEW A, NEW v \in Seq(A), Nested(v), NEW key, key \notin {DQ, BS}, NEW k, KeyedAt(v, k, key)
  PROVE  k + 3 \in 1..Len(v) + 1 /\ ~Inside(v, k + 3) /\ Level(v, <<Opens, Closes>>, k + 3) = 0
<1> DEFINE L == Len(v)
<1> DEFINE b == <<Opens, Closes>>
<1>l. L \in Nat
  BY LenProperties
<1>n. \A d \in 1..L : v[d] = BS => Inside(v, d)
  BY DEF Nested
<1>e. ~Inside(v, L + 1)
  BY DEF Nested
<1>s. ASSUME NEW d \in 1..L PROVE Inside(v, d + 1) <=> (Inside(v, d) <=> ~RawQuote(v, d))
  BY InsideStep
<1>v. ASSUME NEW d \in 1..L, v[d] = DQ \/ Inside(v, d) PROVE Level(v, b, d + 1) = Level(v, b, d)
  <2>1. DQ \notin Opens \cup Closes
    BY DEF DQ, Opens, Closes
  <2> QED BY <1>v, <2>1, LevelStays
<1>k. /\ k \in 1..L /\ v[k] = DQ /\ ~Inside(v, k) /\ Level(v, b, k) = 0
      /\ k + 1 \in 1..L => v[k + 1] = key
      /\ k + 2 \in 1..L => v[k + 2] = DQ
  BY DEF KeyedAt
<1>1. RawQuote(v, k)
  <2>1. k \in 1..L + 1
    BY ONLY <1>k, <1>l
  <2>2. ~Escaped(v, k)
    BY <1>n, <1>k, <2>1, OutsideUnescaped
  <2> QED BY <1>k, <2>2 DEF RawQuote
<1> HIDE DEF L, b
<1>2. Inside(v, k + 1) /\ Level(v, b, k + 1) = 0
  BY <1>k, <1>s, <1>v, <1>1
<1>3. k + 1 \in 1..L /\ (k + 1) + 1 = k + 2 /\ (k + 2) + 1 = k + 3 /\ k + 1 \in Nat \ {0}
  <2>1. k # L
    BY <1>e, <1>2
  <2> QED BY ONLY <2>1, <1>k, <1>l
<1>4. v[k + 1] = key
  BY <1>3, <1>k
<1>5. Inside(v, k + 2) /\ Level(v, b, k + 2) = 0
  <2>1. ~RawQuote(v, k + 1)
    BY <1>4 DEF RawQuote
  <2>2. Inside(v, (k + 1) + 1)
    BY <1>2, <1>3, <1>s, <2>1
  <2>3. Level(v, b, (k + 1) + 1) = Level(v, b, k + 1)
    BY <1>2, <1>3, <1>v
  <2> QED BY <1>2, <1>3, <2>2, <2>3
<1>6. k + 2 \in 1..L /\ k + 3 \in 1..L + 1
  <2>1. k + 1 # L
    BY <1>e, <1>3, <1>5
  <2> QED BY ONLY <2>1, <1>3, <1>k, <1>l
<1>7. v[k + 2] = DQ
  BY <1>6, <1>k
<1>8. RawQuote(v, k + 2)
  <2>1. v[k + 1] # BS /\ k + 1 \in 1..Len(v)
    BY <1>3, <1>4 DEF L
  <2>2. ~Escaped(v, (k + 1) + 1)
    BY <1>3, <2>1, EscapedStep
  <2> QED BY <1>3, <1>7, <2>2 DEF RawQuote
<1>9. ~Inside(v, (k + 2) + 1)
  BY <1>5, <1>6, <1>8, <1>s
<1>10. Level(v, b, (k + 2) + 1) = Level(v, b, k + 2)
  BY <1>6, <1>7, <1>v
<1> QED BY <1>3, <1>5, <1>6, <1>9, <1>10 DEF L, b

\* Blanks change nothing.
LEMMA BlanksStay ==
  ASSUME NEW A, NEW v \in Seq(A), NEW m \in 1..Len(v) + 1, NEW z \in m..Len(v) + 1,
         \A d \in m..z - 1 : IsBlank(v[d]), ~Inside(v, m), Level(v, <<Opens, Closes>>, m) = 0
  PROVE  ~Inside(v, z) /\ Level(v, <<Opens, Closes>>, z) = 0
<1> DEFINE Still(d) == ~Inside(v, d) /\ Level(v, <<Opens, Closes>>, d) = 0
<1>l. Len(v) \in Nat /\ m \in Nat /\ z \in Nat /\ m >= 1 /\ z <= Len(v) + 1 /\ z - m \in Nat
  <2>1. Len(v) \in Nat
    BY LenProperties
  <2> QED BY <2>1
<1>1. ASSUME NEW d \in m..z - 1, Still(d) PROVE Still(d + 1)
  <2>1. d \in 1..Len(v)
    BY ONLY <1>l, <1>1
  <2>2. v[d] # DQ /\ v[d] \notin Opens \cup Closes
    <3>1. IsBlank(v[d])
      OBVIOUS
    <3> QED BY <3>1 DEF IsBlank, SP, LF, DQ, Opens, Closes
  <2>3. ~Inside(v, d + 1)
    BY <1>1, <2>1, <2>2, InsideStep DEF RawQuote
  <2>4. Level(v, <<Opens, Closes>>, d + 1) = Level(v, <<Opens, Closes>>, d)
    BY <2>1, <2>2, LevelStays
  <2> QED BY <1>1, <2>3, <2>4
<1>s. Still(m)
  OBVIOUS
<1> HIDE DEF Still
<1> DEFINE D == {x \in 0..z - m : Still(m + x)}
<1>2. 0 \in D
  BY <1>l, <1>s
<1>3. \A x \in 0..(z - m) - 1 : x \in D => x + 1 \in D
  <2> TAKE x \in 0..(z - m) - 1
  <2> HAVE x \in D
  <2>1. m + x \in m..z - 1 /\ (m + x) + 1 = m + (x + 1) /\ x + 1 \in 0..z - m
    BY ONLY <1>l
  <2>2. Still(m + x)
    OBVIOUS
  <2> HIDE DEF D
  <2>3. Still(m + (x + 1))
    BY <1>1, <2>1, <2>2
  <2> QED BY <2>1, <2>3 DEF D
<1>4. \A x \in 0..z - m : x \in D
  <2> HIDE DEF D
  <2> QED BY <1>l, <1>2, <1>3, UpTo
<1>5. z - m \in 0..z - m /\ m + (z - m) = z
  BY ONLY <1>l
<1>6. Still(z)
  BY <1>4, <1>5
<1> QED BY <1>6 DEF Still

\* A value in an object: what follows it is a comma or the object's end.
ValueIn(v, s, p) ==
  /\ Placed(v, s, p) /\ Level(s, <<Opens, Closes>>, p + 1) = 1
  /\ p + Len(v) + 1 <= Len(s) /\ s[p + Len(v) + 1] \in {",", "}"}
KeyIn(s, i, key) ==
  s[i] = DQ /\ s[i + 1] = key /\ s[i + 2] = DQ /\ ~Inside(s, i) /\ Level(s, <<Opens, Closes>>, i) = 1
Scanned(v, s, p) ==
  /\ p \in Nat /\ Len(v) \in Nat /\ Len(s) \in Nat /\ DOMAIN s = 1..Len(s) /\ p + Len(v) + 1 <= Len(s)
  /\ \A d \in 1..Len(v) + 1 : /\ Inside(s, p + d) <=> Inside(v, d)
                              /\ Level(s, <<Opens, Closes>>, p + d) = 1 + Level(v, <<Opens, Closes>>, d)
                              /\ Level(v, <<Opens, Closes>>, d) \in Int
  /\ \A d \in 1..Len(v) : s[p + d] = v[d]
\* A value in an object is scanned as by itself, one level down.
LEMMA ValueScan ==
  ASSUME NEW A, NEW v \in Seq(A), NEW R, NEW s \in Seq(R), NEW p, ValueIn(v, s, p)
  PROVE  Scanned(v, s, p)
<1>1. p \in Nat /\ Len(v) \in Nat /\ Len(s) \in Nat /\ DOMAIN s = 1..Len(s) /\ p + Len(v) + 1 <= Len(s)
  BY LenProperties DEF ValueIn, Placed, Stands
<1>2. ASSUME NEW d \in 1..Len(v) + 1
      PROVE  /\ Inside(s, p + d) <=> Inside(v, d)
             /\ Level(s, <<Opens, Closes>>, p + d) = 1 + Level(v, <<Opens, Closes>>, d)
             /\ Level(v, <<Opens, Closes>>, d) \in Int
  <2>1. Placed(v, s, p)
    BY DEF ValueIn
  <2>2. SameScan(v, s, p, <<Opens, Closes>>, d)
    BY <2>1, ScanShifts
  <2> QED BY <2>2 DEF SameScan, ValueIn
<1>3. \A d \in 1..Len(v) : s[p + d] = v[d]
  BY DEF ValueIn, Placed, Stands
<1> QED BY <1>1, <1>2, <1>3 DEF Scanned

\* A key and its quotes at the top level of a value are followed by no colon: what is
\* written as a value is never taken for a member.
LEMMA NoKeyInValue ==
  ASSUME NEW A, NEW v \in Seq(A), Value(v), NEW R, NEW s \in Seq(R), NEW p, ValueIn(v, s, p),
         NEW key, key \notin {DQ, BS}, NEW k \in 1..Len(v), KeyIn(s, p + k, key)
  PROVE  At(s, SkipWs(s, p + k + 3)) # ":"
<1> DEFINE L == Len(v)
<1> DEFINE m == k + 3
<1> DEFINE b == <<Opens, Closes>>
<1>V. Scanned(v, s, p)
  BY ValueScan
<1>0. /\ p \in Nat /\ L \in Nat /\ Len(s) \in Nat /\ DOMAIN s = 1..Len(s) /\ p + L + 1 <= Len(s)
      /\ \A d \in 1..L + 1 : /\ Inside(s, p + d) <=> Inside(v, d)
                             /\ Level(s, b, p + d) = 1 + Level(v, b, d)
                             /\ Level(v, b, d) \in Int
      /\ \A d \in 1..L : s[p + d] = v[d]
  BY <1>V DEF Scanned
<1>k. k \in 1..L /\ k \in Nat /\ L \in Nat /\ p \in Nat /\ p + (k + 1) = p + k + 1 /\ p + (k + 2) = p + k + 2
      /\ k \in 1..L + 1
  BY <1>0
<1>1. KeyedAt(v, k, key)
  <2>1. v[k] = DQ /\ ~Inside(v, k)
    BY <1>0, <1>k DEF KeyIn
  <2>2. Level(s, b, p + k) = 1
    BY DEF KeyIn
  <2>3. Level(s, b, p + k) = 1 + Level(v, b, k) /\ Level(v, b, k) \in Int
    BY <1>0, <1>k
  <2>4. Level(v, b, k) = 0
    BY ONLY <2>2, <2>3
  <2>5. k + 1 \in 1..L => v[k + 1] = key
    BY <1>0, <1>k DEF KeyIn
  <2>6. k + 2 \in 1..L => v[k + 2] = DQ
    BY <1>0, <1>k DEF KeyIn
  <2> QED BY <2>1, <2>4, <2>5, <2>6, <1>k DEF KeyedAt
<1>2. m \in 1..L + 1 /\ ~Inside(v, m) /\ Level(v, b, m) = 0
  <2>1. Nested(v)
    BY DEF Value
  <2> QED BY <1>1, <2>1, KeyEnds
<1> DEFINE c == SkipWs(s, p + m)
<1>3. c \in (p + m)..(p + m) + Len(s) /\ \A d \in (p + m)..c - 1 : IsBlank(At(s, d))
  <2>1. p + m \in 1..Len(s) + 1
    BY <1>0, <1>2
  <2> HIDE DEF m
  <2> QED BY <2>1, SkipEnds
<1>4. c = SkipWs(s, p + k + 3)
  <2>1. p + m = p + k + 3
    BY <1>k
  <2> HIDE DEF m
  <2> QED BY <2>1
<1>g. \A d \in 1..L : At(s, p + d) = v[d]
  <2> TAKE d \in 1..L
  <2>1. p + d \in DOMAIN s
    BY ONLY <1>0
  <2> QED BY <1>0, <2>1 DEF At
<1>w. At(s, p + L + 1) \in {",", "}"}
  <2>1. p + L + 1 \in DOMAIN s
    BY ONLY <1>0
  <2> QED BY <2>1 DEF At, ValueIn
<1>x. \A d \in 1..L : v[d] = ":" /\ ~Inside(v, d) => Level(v, b, d) >= 1
  BY DEF Value
<1>t. m \in Nat /\ c \in Nat /\ p + m <= c /\ Len(s) \in Nat /\ p \in Nat /\ L \in Nat /\ m \in 1..L + 1
  <2> HIDE DEF c, m
  <2> QED BY <1>0, <1>2, <1>3
<1> HIDE DEF c, m, L, b
<1>5. ASSUME At(s, c) = ":" PROVE FALSE
  <2>1. c <= p + L
    <3>1. c # p + L + 1
      BY <1>5, <1>w
    <3>2. ~IsBlank(At(s, p + L + 1))
      BY <1>w DEF IsBlank, SP, LF
    <3>3. p + L + 1 \notin (p + m)..c - 1
      BY <1>3, <3>2
    <3> QED BY ONLY <3>1, <3>3, <1>t
  <2> DEFINE z == c - p
  <2>2. z \in m..L /\ z \in 1..L /\ z \in m..L + 1 /\ p + z = c
    BY ONLY <2>1, <1>t
  <2>3. \A d \in m..z - 1 : p + d \in (p + m)..c - 1 /\ d \in 1..L
    BY ONLY <2>1, <1>t
  <2> HIDE DEF z
  <2>4. \A d \in m..z - 1 : IsBlank(v[d])
    BY <1>3, <1>g, <2>3
  <2>5. ~Inside(v, z) /\ Level(v, b, z) = 0
    BY <1>2, <2>2, <2>4, BlanksStay DEF b, L
  <2>6. v[z] = ":"
    BY <1>5, <1>g, <2>2
  <2> QED BY <1>x, <2>2, <2>5, <2>6
<1> QED BY <1>4, <1>5

\* A member in an object, and what a scan of the object sees of it.
MemberIn(key, v, s, a) ==
  /\ Placed(Member(key, v), s, a) /\ Level(s, <<Opens, Closes>>, a + 1) = 1
  /\ a + Len(Member(key, v)) + 1 <= Len(s) /\ s[a + Len(Member(key, v)) + 1] \in {",", "}"}
MemberSeen(key, v, s, a) ==
  /\ a \in Nat /\ Len(v) \in Nat /\ Len(Member(key, v)) = 4 + Len(v) /\ a + 5 <= Len(s) /\ Len(s) \in Nat
  /\ s[a + 1] = DQ /\ s[a + 2] = key /\ s[a + 3] = DQ /\ s[a + 4] = ":"
  /\ ~Inside(s, a + 1) /\ Inside(s, a + 2) /\ Inside(s, a + 3) /\ Level(s, <<Opens, Closes>>, a + 1) = 1
  /\ ValueIn(v, s, a + 4)
\* A member in an object: its key stands in quotes, and its value is in the object.
LEMMA MemberScan ==
  ASSUME NEW key, key \notin {DQ, BS}, NEW A, NEW v \in Seq(A), Nested(v), NEW R, NEW s \in Seq(R), NEW a,
         MemberIn(key, v, s, a)
  PROVE  MemberSeen(key, v, s, a)
<1> DEFINE w == Member(key, v)
<1> DEFINE b == <<Opens, Closes>>
<1>1. /\ w \in Seq(A \cup {DQ, key, ":"}) /\ Len(v) \in Nat /\ Len(w) = 4 + Len(v)
      /\ Stands(v, w, 4) /\ Placed(v, w, 4) /\ ~Inside(w, 1) /\ Inside(w, 2) /\ Inside(w, 3)
      /\ w[1] = DQ /\ w[2] = key /\ w[3] = DQ /\ w[4] = ":"
      /\ \A x \in Brackets : Level(w, x, 5) = 0
  <2>1. w \in Seq(A \cup {DQ, key, ":"}) /\ Len(v) \in Nat /\ Len(w) = 4 + Len(v)
    BY MemberIs
  <2>2. Stands(v, w, 4) /\ Placed(v, w, 4) /\ ~Inside(w, 1) /\ Inside(w, 2) /\ Inside(w, 3)
    BY MemberIs
  <2>3. w[1] = DQ /\ w[2] = key /\ w[3] = DQ /\ w[4] = ":"
    <3>1. w[1] = DQ
      BY MemberIs
    <3>2. w[2] = key
      BY MemberIs
    <3>3. w[3] = DQ
      BY MemberIs
    <3>4. w[4] = ":"
      BY MemberIs
    <3> QED BY <3>1, <3>2, <3>3, <3>4
  <2>4. \A x \in Brackets : Level(w, x, 5) = 0
    BY MemberIs
  <2> QED BY <2>1, <2>2, <2>3, <2>4
<1>2. /\ Placed(w, s, a) /\ Level(s, b, a + 1) = 1 /\ a + Len(w) + 1 <= Len(s) /\ s[a + Len(w) + 1] \in {",", "}"}
  BY DEF MemberIn
<1> HIDE DEF w
<1>3. a \in Nat /\ Len(s) \in Nat /\ \A k \in 1..Len(w) : s[a + k] = w[k]
  BY <1>2, LenProperties DEF Placed, Stands
<1> DEFINE B == A \cup {DQ, key, ":"}
<1>B. w \in Seq(B)
  BY <1>1
<1> HIDE DEF B
<1>4. ASSUME NEW k \in 1..Len(w) + 1 PROVE SameScan(w, s, a, b, k)
  BY <1>2, <1>B, ScanShifts
<1> HIDE DEF b
<1>5. /\ 1 \in 1..Len(w) /\ 2 \in 1..Len(w) /\ 3 \in 1..Len(w) /\ 4 \in 1..Len(w)
      /\ 1 \in 1..Len(w) + 1 /\ 2 \in 1..Len(w) + 1 /\ 3 \in 1..Len(w) + 1 /\ 5 \in 1..Len(w) + 1
      /\ a + 5 <= Len(s) /\ a + 4 \in Nat /\ (a + 4) + Len(v) + 1 <= Len(s)
      /\ (a + 4) + Len(v) + 1 = a + Len(w) + 1 /\ (a + 4) + 1 = a + 5 /\ (a + 4) + Len(v) <= Len(s)
  <2>1. /\ Len(v) \in Nat /\ Len(w) = 4 + Len(v) /\ a \in Nat /\ Len(s) \in Nat /\ a + Len(w) + 1 <= Len(s)
    BY <1>1, <1>2, <1>3
  <2> QED BY ONLY <2>1
<1>6. s[a + 1] = DQ /\ s[a + 2] = key /\ s[a + 3] = DQ /\ s[a + 4] = ":"
  BY <1>1, <1>3, <1>5
<1>7. ~Inside(s, a + 1) /\ Inside(s, a + 2) /\ Inside(s, a + 3)
  BY <1>1, <1>4, <1>5 DEF SameScan
<1>8. Stands(v, s, a + 4)
  <2>1. ASSUME NEW k \in 1..Len(v) PROVE s[(a + 4) + k] = v[k]
    <3>1. 4 + k \in 1..Len(w) /\ a + (4 + k) = (a + 4) + k
      <4>1. Len(v) \in Nat /\ Len(w) = 4 + Len(v) /\ a \in Nat
        BY <1>1, <1>3
      <4> QED BY ONLY <4>1
    <3>2. w[4 + k] = v[k]
      BY <1>1 DEF Stands
    <3>3. s[a + (4 + k)] = w[4 + k]
      BY <1>3, <3>1
    <3> QED BY <3>1, <3>2, <3>3
  <2> QED BY <1>5, <2>1 DEF Stands
<1>9. ~Escaped(s, (a + 4) + 1) /\ ~Inside(s, (a + 4) + 1) /\ Level(s, b, (a + 4) + 1) = 1
  <2>1. SameScan(w, s, a, b, 5)
    BY <1>4, <1>5
  <2>2. ~Escaped(w, 5) /\ ~Inside(w, 5)
    <3>1. 4 + 1 = 5
      OBVIOUS
    <3> QED BY <1>1, <3>1 DEF Placed
  <2>3. Level(w, b, 5) = 0
    BY <1>1, Both DEF b
  <2>4. Level(s, b, a + 5) = Level(s, b, a + 1) + Level(w, b, 5)
    BY <2>1 DEF SameScan
  <2>5. Level(s, b, a + 5) = 1
    <3>1. Level(s, b, a + 1) = 1
      BY <1>2
    <3> QED BY ONLY <2>3, <2>4, <3>1
  <2> QED BY <1>5, <2>1, <2>2, <2>5 DEF SameScan
<1>10. Placed(v, s, a + 4)
  BY <1>5, <1>8, <1>9 DEF Placed
<1>11. ValueIn(v, s, a + 4)
  <2>1. s[(a + 4) + Len(v) + 1] \in {",", "}"}
    BY <1>2, <1>5
  <2> QED BY <1>5, <1>9, <1>10, <2>1 DEF ValueIn, b
<1>12. Len(Member(key, v)) = 4 + Len(v) /\ Level(s, <<Opens, Closes>>, a + 1) = 1
  BY <1>1, <1>2 DEF w, b
<1> QED BY <1>1, <1>3, <1>5, <1>6, <1>7, <1>11, <1>12 DEF MemberSeen

\* A key with its quotes, matched.
LEMMA MatchKey ==
  ASSUME NEW s, NEW i \in Nat, NEW key
  PROVE  MatchAt(s, i, <<DQ, key, DQ>>)
           <=> i + 2 <= Len(s) /\ s[i] = DQ /\ s[i + 1] = key /\ s[i + 2] = DQ
<1> DEFINE t == <<DQ, key, DQ>>
<1>1. Len(t) = 3 /\ DOMAIN t = {1, 2, 3} /\ t[1] = DQ /\ t[2] = key /\ t[3] = DQ
  <2>1. DOMAIN t = 1..3 /\ Len(t) = 3
    OBVIOUS
  <2>2. 1..3 = {1, 2, 3}
    OBVIOUS
  <2> QED BY <2>1, <2>2
<1> HIDE DEF t
<1>2. i + 3 - 1 = i + 2 /\ i + 1 - 1 = i /\ i + 2 - 1 = i + 1
  OBVIOUS
<1>3. MatchAt(s, i, t) <=> i + Len(t) - 1 <= Len(s) /\ \A k \in DOMAIN t : s[i + k - 1] = t[k]
  BY DEF MatchAt
<1>4. (\A k \in DOMAIN t : s[i + k - 1] = t[k]) <=> s[i] = DQ /\ s[i + 1] = key /\ s[i + 2] = DQ
  BY <1>1, <1>2
<1>5. MatchAt(s, i, t) <=> i + 2 <= Len(s) /\ s[i] = DQ /\ s[i + 1] = key /\ s[i + 2] = DQ
  BY <1>1, <1>2, <1>3, <1>4
<1> QED BY <1>5 DEF t

\* The least of a set of numbers.
LEMMA LeastIs ==
  ASSUME NEW T, T \subseteq Int, NEW x \in T, \A y \in T : x <= y
  PROVE  MinOf(T) = x
<1>1. MinOf(T) \in T /\ \A y \in T : MinOf(T) <= y
  BY DEF MinOf
<1>2. MinOf(T) \in Int /\ x \in Int /\ MinOf(T) <= x /\ x <= MinOf(T)
  BY <1>1
<1> QED BY ONLY <1>2

\* What a scan of an object sees.
ObjectSeen(start, n, keys, vals, s) ==
  /\ start \in [1..n -> Nat] /\ \A i \in 1..n : \A j \in i..n : start[i] <= start[j]
  /\ \A j \in 1..n : MemberSeen(keys[j], vals[j], s, start[j])
  /\ \A i \in 1..Len(s) : s[i] = DQ => \E j \in 1..n : i - start[j] \in 1..Len(Member(keys[j], vals[j]))
\* An object is scanned so: each member at its place, and no quote outside of them.
LEMMA ObjectScan ==
  ASSUME NEW n, NEW keys, NEW vals, NEW A, IsObject(n, keys, vals, A)
  PROVE  /\ \E start : ObjectSeen(start, n, keys, vals, ObjectOf(n, keys, vals))
         /\ ObjectOf(n, keys, vals) \in Seq(AtomsOf(n, keys, A))
<1> DEFINE s == ObjectOf(n, keys, vals)
<1> DEFINE R == AtomsOf(n, keys, A)
<1>1. s \in Seq(R) /\ \E start : Begins(start, n, keys, vals)
  BY ObjectBegins
<1>2. PICK start : Begins(start, n, keys, vals)
  BY <1>1
<1>3. /\ start \in [1..n -> Nat] /\ \A i \in 1..n : \A j \in i..n : start[i] <= start[j]
      /\ \A j \in 1..n : MemberIn(keys[j], vals[j], s, start[j])
      /\ \A i \in 1..Len(s) : s[i] = DQ => \E j \in 1..n : i - start[j] \in 1..Len(Member(keys[j], vals[j]))
  BY <1>2 DEF Begins, MemberIn
<1> HIDE DEF s, R
<1>4. ASSUME NEW j \in 1..n PROVE MemberSeen(keys[j], vals[j], s, start[j])
  <2>1. keys[j] \notin {DQ, BS} /\ vals[j] \in Seq(A) /\ Nested(vals[j])
    BY DEF IsObject, Value
  <2>2. MemberIn(keys[j], vals[j], s, start[j])
    BY <1>3
  <2> QED BY <1>1, <2>1, <2>2, MemberScan
<1>5. ObjectSeen(start, n, keys, vals, s)
  BY <1>3, <1>4 DEF ObjectSeen
<1> QED BY <1>1, <1>5 DEF s, R

\* The keys found at the top level of an object are those of its members.
LEMMA FoundIsMember ==
  ASSUME NEW n, NEW keys, NEW vals, NEW A, IsObject(n, keys, vals, A), NEW R, NEW s \in Seq(R),
         NEW start, ObjectSeen(start, n, keys, vals, s),
         NEW key, key \notin {DQ, BS}, NEW i \in TopKeys(s, key, Scan(s, Opens, Closes))
  PROVE  \E j \in 1..n : keys[j] = key /\ i = start[j] + 1
<1> DEFINE b == <<Opens, Closes>>
<1>0. DOMAIN s = 1..Len(s) /\ Len(s) \in Nat
  BY LenProperties
<1>1. /\ i \in 1..Len(s) /\ MatchAt(s, i, <<DQ, key, DQ>>) /\ At(s, SkipWs(s, i + 3)) = ":"
      /\ ~InString(Scan(s, Opens, Closes), i) /\ Depth(Scan(s, Opens, Closes), i) = 1
  BY <1>0 DEF TopKeys
<1>2. ~Inside(s, i) /\ Level(s, b, i) = 1
  BY <1>1, ScanIs DEF Level
<1>3. s[i] = DQ /\ s[i + 1] = key /\ s[i + 2] = DQ /\ i \in Nat
  <2>1. i \in Nat
    BY ONLY <1>0, <1>1
  <2> QED BY <1>1, <2>1, MatchKey
<1>4. PICK j \in 1..n : i - start[j] \in 1..Len(Member(keys[j], vals[j]))
  BY <1>1, <1>3 DEF ObjectSeen
<1> DEFINE a == start[j]
<1> DEFINE v == vals[j]
<1>5. MemberSeen(keys[j], v, s, a) /\ a \in Nat
  BY DEF ObjectSeen
<1>v. v \in Seq(A) /\ Value(v)
  BY DEF IsObject
<1>d. i - a \in 1..Len(Member(keys[j], v))
  BY <1>4
<1> HIDE DEF a, v, b
<1> DEFINE d == i - a
<1>6. Len(v) \in Nat /\ Len(Member(keys[j], v)) = 4 + Len(v)
  BY <1>5 DEF MemberSeen
<1>7. d \in 1..4 + Len(v) /\ i = a + d
  BY ONLY <1>3, <1>5, <1>6, <1>d
<1> HIDE DEF d
<1>8. CASE d = 1
  <2>1. s[a + 2] = keys[j]
    BY <1>5 DEF MemberSeen
  <2>2. i = a + 1 /\ i + 1 = a + 2
    BY <1>5, <1>7, <1>8
  <2> QED BY <1>3, <2>1, <2>2 DEF a
<1>9. CASE d \in {2, 3}
  BY <1>2, <1>5, <1>7, <1>9 DEF MemberSeen
<1>10. CASE d = 4
  <2>1. s[a + 4] = ":"
    BY <1>5 DEF MemberSeen
  <2> QED BY <1>3, <1>7, <1>10, <2>1 DEF DQ
<1>11. CASE d \notin 1..4
  <2> DEFINE k == d - 4
  <2>1. k \in 1..Len(v) /\ (a + 4) + k = i /\ a + 4 \in Nat
    BY ONLY <1>5, <1>6, <1>7, <1>11
  <2> HIDE DEF k
  <2>2. ValueIn(v, s, a + 4)
    BY <1>5 DEF MemberSeen
  <2>3. KeyIn(s, (a + 4) + k, key)
    BY <1>2, <1>3, <2>1 DEF KeyIn, b
  <2>4. At(s, SkipWs(s, (a + 4) + k + 3)) # ":"
    BY <1>v, <2>1, <2>2, <2>3, NoKeyInValue
  <2> QED BY <1>1, <2>1, <2>4
<1>12. d = 1 \/ d \in {2, 3} \/ d = 4 \/ d \notin 1..4
  BY ONLY <1>6, <1>7
<1> QED BY <1>8, <1>9, <1>10, <1>11, <1>12

\* Each member is found, and the colon after its key.
LEMMA MemberIsFound ==
  ASSUME NEW key, key \notin {DQ, BS}, NEW v, NEW R, NEW s \in Seq(R), NEW a, MemberSeen(key, v, s, a)
  PROVE  /\ a + 1 \in TopKeys(s, key, Scan(s, Opens, Closes))
         /\ SkipWs(s, (a + 1) + 3) = a + 4
<1>0. DOMAIN s = 1..Len(s) /\ Len(s) \in Nat
  BY LenProperties
<1>1. /\ a \in Nat /\ a + 5 <= Len(s)
      /\ s[a + 1] = DQ /\ s[a + 2] = key /\ s[a + 3] = DQ /\ s[a + 4] = ":"
      /\ ~Inside(s, a + 1) /\ Level(s, <<Opens, Closes>>, a + 1) = 1
  BY DEF MemberSeen
<1>2. /\ a + 1 \in 1..Len(s) /\ a + 4 \in 1..Len(s) /\ (a + 1) + 3 = a + 4 /\ a + 1 \in Nat
      /\ (a + 1) + 1 = a + 2 /\ (a + 1) + 2 = a + 3 /\ a + 3 <= Len(s)
  BY ONLY <1>0, <1>1
<1>3. SkipWs(s, a + 4) = a + 4 /\ At(s, a + 4) = ":"
  <2>1. ~IsBlank(s[a + 4])
    BY <1>1 DEF IsBlank, SP, LF
  <2> QED BY <1>1, <1>2, <2>1, NotSkipped
<1>4. MatchAt(s, a + 1, <<DQ, key, DQ>>)
  BY <1>1, <1>2, MatchKey
<1>5. ~InString(Scan(s, Opens, Closes), a + 1) /\ Depth(Scan(s, Opens, Closes), a + 1) = 1
  <2>1. Level(s, <<Opens, Closes>>, a + 1) = Depth(Scan(s, Opens, Closes), a + 1)
    BY DEF Level
  <2> QED BY <1>1, <2>1, ScanIs
<1> QED BY <1>0, <1>2, <1>3, <1>4, <1>5 DEF TopKeys

\* The first member with a key.
FirstOf(j, key, keys) == keys[j] = key /\ \A i \in 1..j - 1 : keys[i] # key
\* find_top_key gives the place of its value.
LEMMA FindsFirst ==
  ASSUME NEW n, NEW keys, NEW vals, NEW A, IsObject(n, keys, vals, A), NEW R, NEW s \in Seq(R),
         NEW start, ObjectSeen(start, n, keys, vals, s),
         NEW key, key \notin {DQ, BS}, NEW j \in 1..n, FirstOf(j, key, keys)
  PROVE  find_top_key(s, key) = start[j] + 5
<1> DEFINE T == TopKeys(s, key, Scan(s, Opens, Closes))
<1>n. n \in Nat \ {0}
  BY DEF IsObject
<1>1. start \in [1..n -> Nat] /\ \A i \in 1..n : \A r \in i..n : start[i] <= start[r]
  BY DEF ObjectSeen
<1>2. MemberSeen(key, vals[j], s, start[j])
  BY DEF ObjectSeen, FirstOf
<1>3. start[j] + 1 \in T /\ SkipWs(s, (start[j] + 1) + 3) = start[j] + 4
  BY <1>2, MemberIsFound
<1>4. \A i \in T : \E r \in 1..n : keys[r] = key /\ i = start[r] + 1
  BY FoundIsMember
<1> HIDE DEF T
<1>5. ASSUME NEW i \in T PROVE i \in Int /\ start[j] + 1 <= i
  <2>1. PICK r \in 1..n : keys[r] = key /\ i = start[r] + 1
    BY <1>4
  <2>2. r \in j..n
    <3>1. r \notin 1..j - 1
      BY <2>1 DEF FirstOf
    <3> QED BY ONLY <3>1, <1>n, j \in 1..n, r \in 1..n
  <2>3. start[j] \in Nat /\ start[r] \in Nat /\ start[j] <= start[r]
    BY <1>1, <2>2
  <2> QED BY <2>1, <2>3
<1>6. MinOf(T) = start[j] + 1
  <2>1. T \subseteq Int /\ \A i \in T : start[j] + 1 <= i
    BY <1>5
  <2> QED BY <1>3, <2>1, LeastIs
<1>7. find_top_key(s, key) = AfterColon(s, T)
  BY DEF find_top_key, T
<1>8. AfterColon(s, T) = SkipWs(s, MinOf(T) + 3) + 1
  BY <1>3 DEF AfterColon
<1>9. start[j] \in Nat
  BY <1>1
<1>10. find_top_key(s, key) = (start[j] + 4) + 1
  BY <1>3, <1>6, <1>7, <1>8
<1> QED BY ONLY <1>9, <1>10

\* A key that no member has is not found, wherever else its text stands.
LEMMA FindsNone ==
  ASSUME NEW n, NEW keys, NEW vals, NEW A, IsObject(n, keys, vals, A), NEW R, NEW s \in Seq(R),
         NEW start, ObjectSeen(start, n, keys, vals, s),
         NEW key, key \notin {DQ, BS}, \A j \in 1..n : keys[j] # key
  PROVE  find_top_key(s, key) = 0
<1>1. TopKeys(s, key, Scan(s, Opens, Closes)) = {}
  BY FoundIsMember
<1> QED BY <1>1 DEF find_top_key, AfterColon

\* A bracketed value at the front of a text is cut where it ends.
LEMMA BracketedIs ==
  ASSUME NEW A, NEW w \in Seq(A), Nested(w), NEW x \in Enclosing,
         NEW R, NEW t \in Seq(R), Stands(Enclosed(x, w), t, 0), Len(Enclosed(x, w)) <= Len(t)
  PROVE  Bracketed(t) = Enclosed(x, w)
<1> DEFINE v == Enclosed(x, w)
<1> DEFINE B == A \cup {x[1], x[2]}
<1> DEFINE L == Len(v)
<1>1. v \in Seq(B) /\ Len(w) \in Nat /\ L = Len(w) + 2 /\ v[1] = x[1] /\ v[Len(w) + 2] = x[2]
  BY EnclosedShape
<1> DEFINE b == OwnKind(x)
<1>2. b \in Brackets /\ x[1] \in b[1] /\ x[1] \in Opens
  BY EnclosingIs
<1>3. \A k \in 2..L : Level(v, b, k) >= 1
  BY <1>2, EnclosedIsValue
<1>4. Level(v, b, L) = 1 /\ ~Inside(v, L)
  BY <1>2, EnclosedIsValue
<1>t. t[1] = v[1] /\ t[L] = v[L] /\ 1 \in 1..L /\ L \in 1..L
  <2>1. \A k \in 1..L : t[0 + k] = v[k]
    BY DEF Stands
  <2>2. 1 \in 1..L /\ L \in 1..L /\ 0 + 1 = 1 /\ 0 + L = L
    BY <1>1
  <2> HIDE DEF L, v
  <2> QED BY <2>1, <2>2
<1>0. DOMAIN t = 1..Len(t) /\ Len(t) \in Nat /\ L <= Len(t) /\ L \in Nat /\ L >= 2
  BY <1>1, LenProperties
<1>b. b[1] = {t[1]} /\ b[2] = {IF t[1] = "{" THEN "}" ELSE "]"} /\ b[2] = {x[2]}
  <2>1. x = <<"{", "}">> \/ x = <<"[", "]">>
    BY DEF Enclosing
  <2>2. (x[1] = "{" /\ x[2] = "}") \/ (x[1] = "[" /\ x[2] = "]")
    <3>1. CASE x = <<"{", "}">>
      BY <3>1
    <3>2. CASE x = <<"[", "]">>
      BY <3>2
    <3> QED BY <2>1, <3>1, <3>2
  <2>3. b[1] = {x[1]} /\ b[2] = {x[2]}
    BY DEF OwnKind
  <2>4. t[1] = x[1]
    BY <1>1, <1>t
  <2> HIDE DEF b
  <2> QED BY <2>2, <2>3, <2>4
<1>5. Placed(v, t, 0)
  <2>1. ~Escaped(t, 1) /\ ~Inside(t, 1)
    BY ScanStarts
  <2>2. 0 + 1 = 1 /\ 0 + L <= Len(t)
    BY <1>0
  <2> QED BY <2>1, <2>2 DEF Placed
<1> HIDE DEF v, L, B, b
<1>6. ASSUME NEW k \in 1..L + 1
      PROVE  (Inside(t, k) <=> Inside(v, k)) /\ Level(t, b, k) = Level(v, b, k)
  <2>1. SameScan(v, t, 0, b, k)
    BY <1>1, <1>5, ScanShifts DEF L
  <2>2. 0 + k = k /\ 0 + 1 = 1 /\ Level(t, b, 1) = 0
    BY <1>0, ScanStarts
  <2> QED BY <2>1, <2>2 DEF SameScan
<1> DEFINE q == Scan(t, b[1], b[2])
<1> DEFINE ends == {k \in q.closes : Depth(q, k) = 1}
<1>7. q.closes = {k \in DOMAIN t : t[k] \in b[2] /\ ~Inside(t, k)} /\ \A k : Depth(q, k) = Level(t, b, k)
  BY ScanIs DEF Level
<1> HIDE DEF q
<1>8. \A k : k \in ends <=> k \in 1..Len(t) /\ t[k] \in b[2] /\ ~Inside(t, k) /\ Level(t, b, k) = 1
  BY <1>0, <1>7
<1> HIDE DEF ends
<1>9. L \in ends
  <2>1. L \in 1..Len(t) /\ L \in 1..L + 1
    BY ONLY <1>0
  <2>2. t[L] \in b[2]
    BY <1>1, <1>b, <1>t DEF L
  <2> QED BY <1>4, <1>6, <1>8, <2>1, <2>2
<1>10. ASSUME NEW k \in ends, k < L PROVE FALSE
  <2>1. k \in 1..Len(t) /\ t[k] \in b[2] /\ ~Inside(t, k) /\ Level(t, b, k) = 1
    BY <1>8
  <2>2. k \in 1..L + 1 /\ k \in 1..L /\ k + 1 \in 1..L + 1 /\ k + 1 \in 2..L /\ k \in 1..Len(t)
    BY ONLY <1>0, <1>10, <2>1
  <2>3. Level(t, b, k + 1) = Level(t, b, k) + Counted(t, b[1], k) - Counted(t, b[2], k)
    BY <2>2, LevelStep
  <2>4. t[k] \notin b[1]
    BY <1>2, <2>1, BracketsAre
  <2>5. Counted(t, b[1], k) = 0 /\ Counted(t, b[2], k) = 1
    BY <2>1, <2>4 DEF Counted
  <2>6. Level(t, b, k + 1) = 0
    BY ONLY <2>1, <2>3, <2>5
  <2>7. Level(t, b, k + 1) >= 1
    BY <1>3, <1>6, <2>2
  <2> QED BY ONLY <2>6, <2>7
<1>11. MinOf(ends) = L
  <2>1. ends \subseteq Int
    BY <1>8
  <2>2. \A k \in ends : L <= k
    BY <1>0, <1>8, <1>10
  <2> QED BY <1>9, <2>1, <2>2, LeastIs
<1>12. Bracketed(t) = UpToClose(t, q)
  <2>1. At(t, 1) = t[1] /\ t[1] \in Opens
    BY <1>0, <1>1, <1>2, <1>t DEF At
  <2> QED BY <1>b, <2>1 DEF Bracketed, q
<1>13. UpToClose(t, q) = SubSeq(t, 1, L)
  BY <1>9, <1>11 DEF UpToClose, ends
<1>14. SubSeq(t, 1, L) = v
  <2>1. \A k \in 1..L : t[k] = v[k]
    <3>1. \A k \in 1..Len(v) : t[0 + k] = v[k]
      BY <1>5 DEF Placed, Stands
    <3> QED BY <3>1, <1>0 DEF L
  <2>2. SubSeq(t, 1, L) = [k \in 1..L |-> t[k]]
    BY <1>0
  <2>3. v = [k \in 1..L |-> v[k]]
    BY <1>1 DEF L
  <2> QED BY <2>1, <2>2, <2>3
<1> QED BY <1>12, <1>13, <1>14 DEF v

-----------------------------------------------------------------------------
(* Arrays read an element at a time.                                       *)

\* What is left when only some places give an element.
SomeOf(n, pos, e, W, m, T) ==
  /\ n \in Nat /\ m \in Nat /\ pos \in [1..n -> 1..m] /\ e \in [1..n -> T]
  /\ \A i \in 1..n : \A j \in i + 1..n : pos[i] < pos[j]
  /\ DOMAIN W = 1..m /\ W = [k \in 1..m |-> W[k]]
  /\ \A j \in 1..n : W[pos[j]] = <<e[j]>>
  /\ \A k \in 1..m : (\A j \in 1..n : pos[j] # k) => W[k] = <<>>
SomeTo(f, n, pos, e, i, c) ==
  /\ \A j \in 1..c : pos[j] <= i
  /\ \A j \in c + 1..n : pos[j] > i
  /\ f[i] = [j \in 1..c |-> e[j]]
\* One place more.
LEMMA SomeStep ==
  ASSUME NEW n, NEW pos, NEW e, NEW W, NEW m, NEW T, SomeOf(n, pos, e, W, m, T),
         NEW f, f \in [0..m -> Seq(T)], NEW i \in 0..m - 1, f[i + 1] = f[i] \o W[i + 1],
         NEW c \in 0..n, SomeTo(f, n, pos, e, i, c)
  PROVE  \E d \in 0..n : SomeTo(f, n, pos, e, i + 1, d)
<1>0. n \in Nat /\ m \in Nat /\ c \in Nat /\ c <= n /\ i \in Nat /\ i + 1 \in 1..m
  BY DEF SomeOf
<1>p. \A j \in 1..n : pos[j] \in Nat
  BY DEF SomeOf
<1>k. (\A j \in 1..c : pos[j] <= i) /\ (\A j \in c + 1..n : pos[j] > i) /\ f[i] = [j \in 1..c |-> e[j]]
  BY DEF SomeTo
<1>1. CASE \E j \in 1..n : pos[j] = i + 1
  <2>1. PICK j \in 1..n : pos[j] = i + 1
    BY <1>1
  <2>2. j \notin 1..c
    BY <1>0, <1>k, <2>1
  <2>3. j = c + 1
    <3>1. CASE j # c + 1
      <4>1. c + 1 \in 1..n /\ j \in (c + 1) + 1..n /\ c + 1 \in c + 1..n
        BY <1>0, <2>2, <3>1
      <4>2. pos[c + 1] < pos[j] /\ pos[c + 1] > i /\ pos[c + 1] \in Nat
        BY <1>k, <1>p, <4>1 DEF SomeOf
      <4> QED BY <1>0, <2>1, <4>2
    <3> QED BY <3>1
  <2>4. c + 1 \in 0..n /\ c + 1 \in 1..n /\ pos[c + 1] = i + 1
    BY <1>0, <2>1, <2>3
  <2>5. \A r \in 1..c + 1 : pos[r] <= i + 1
    <3> TAKE r \in 1..c + 1
    <3>1. CASE r = c + 1
      BY <1>0, <2>4, <3>1
    <3>2. CASE r # c + 1
      <4>1. r \in 1..c /\ r \in 1..n
        BY <1>0, <3>2
      <4>2. pos[r] <= i /\ pos[r] \in Nat
        BY <1>k, <1>p, <4>1
      <4> QED BY ONLY <1>0, <4>2
    <3> QED BY <3>1, <3>2
  <2>6. \A r \in (c + 1) + 1..n : pos[r] > i + 1
    <3> TAKE r \in (c + 1) + 1..n
    <3>1. pos[c + 1] < pos[r]
      BY <2>4 DEF SomeOf
    <3> QED BY <2>4, <3>1
  <2>7. f[i + 1] = [r \in 1..c + 1 |-> e[r]]
    <3>1. W[i + 1] = <<e[c + 1]>>
      BY <2>4 DEF SomeOf
    <3>2. \A r \in 1..n : e[r] \in T
      BY DEF SomeOf
    <3> DEFINE g == [r \in 1..c |-> e[r]]
    <3>3. g \in Seq(T) /\ Len(g) = c /\ \A r \in 1..c : g[r] = e[r]
      <4>1. \A r \in 1..c : e[r] \in T
        BY <1>0, <3>2
      <4>2. g \in [1..c -> T]
        BY <4>1
      <4> QED BY <1>0, <4>2
    <3> HIDE DEF g
    <3>4. <<e[c + 1]>> \in Seq(T) /\ Len(<<e[c + 1]>>) = 1 /\ <<e[c + 1]>>[1] = e[c + 1]
      BY <2>4, <3>2
    <3>5. /\ g \o <<e[c + 1]>> \in Seq(T) /\ Len(g \o <<e[c + 1]>>) = c + 1
          /\ \A r \in 1..c + 1 : (g \o <<e[c + 1]>>)[r] = IF r <= c THEN g[r] ELSE <<e[c + 1]>>[r - c]
      BY <3>3, <3>4, ConcatProperties
    <3> DEFINE h == g \o <<e[c + 1]>>
    <3>6. h \in Seq(T) /\ Len(h) = c + 1 /\ \A r \in 1..c + 1 : h[r] = IF r <= c THEN g[r] ELSE <<e[c + 1]>>[r - c]
      BY <3>5
    <3> HIDE DEF h
    <3>7. \A r \in 1..c + 1 : h[r] = e[r]
      <4> TAKE r \in 1..c + 1
      <4>1. CASE r <= c
        <5>1. r \in 1..c
          BY <1>0, <4>1
        <5> QED BY <3>3, <3>6, <4>1, <5>1
      <4>2. CASE ~(r <= c)
        <5>1. r = c + 1 /\ r - c = 1
          BY <1>0, <4>2
        <5> QED BY <3>4, <3>6, <4>2, <5>1
      <4> QED BY <4>1, <4>2
    <3>8. h = [r \in 1..c + 1 |-> h[r]]
      BY <3>6
    <3>9. h = [r \in 1..c + 1 |-> e[r]]
      BY <3>7, <3>8
    <3>10. f[i + 1] = h
      BY <1>k, <3>1 DEF g, h
    <3> QED BY <3>9, <3>10
  <2>8. SomeTo(f, n, pos, e, i + 1, c + 1)
    BY <2>5, <2>6, <2>7 DEF SomeTo
  <2> QED BY <2>4, <2>8
<1>2. CASE ~\E j \in 1..n : pos[j] = i + 1
  <2>1. W[i + 1] = <<>>
    BY <1>0, <1>2 DEF SomeOf
  <2>2. f[i] \in Seq(T)
    <3>1. i \in 0..m
      BY <1>0
    <3> QED BY <3>1
  <2>3. f[i + 1] = f[i]
    BY <2>1, <2>2
  <2>4. \A r \in c + 1..n : pos[r] > i + 1
    <3> TAKE r \in c + 1..n
    <3>1. r \in 1..n
      BY <1>0
    <3>2. pos[r] > i /\ pos[r] # i + 1 /\ pos[r] \in Nat
      BY <1>2, <1>k, <1>p, <3>1
    <3> QED BY ONLY <1>0, <3>2
  <2>5. \A r \in 1..c : pos[r] <= i + 1
    <3> TAKE r \in 1..c
    <3>1. r \in 1..n
      BY <1>0
    <3>2. pos[r] <= i /\ pos[r] \in Nat
      BY <1>k, <1>p, <3>1
    <3> QED BY ONLY <1>0, <3>2
  <2>6. SomeTo(f, n, pos, e, i + 1, c)
    BY <1>k, <2>3, <2>4, <2>5 DEF SomeTo
  <2> QED BY <2>6
<1> QED BY <1>1, <1>2

\* All of them, in order.
LEMMA SomeFlat ==
  ASSUME NEW n, NEW pos, NEW e, NEW W, NEW m, NEW T, SomeOf(n, pos, e, W, m, T)
  PROVE  FlattenSeq(W) = e
<1>0. n \in Nat /\ m \in Nat /\ pos \in [1..n -> 1..m] /\ e \in [1..n -> T]
  BY DEF SomeOf
<1>1. W \in [1..m -> Seq(T)]
  <2>1. ASSUME NEW k \in 1..m PROVE W[k] \in Seq(T)
    <3>1. CASE \E j \in 1..n : pos[j] = k
      <4>1. PICK j \in 1..n : pos[j] = k
        BY <3>1
      <4>2. W[k] = <<e[j]>> /\ e[j] \in T
        BY <4>1 DEF SomeOf
      <4> QED BY <4>2
    <3>2. CASE ~\E j \in 1..n : pos[j] = k
      <4>1. W[k] = <<>>
        BY <3>2 DEF SomeOf
      <4> QED BY <4>1
    <3> QED BY <3>1, <3>2
  <2>2. W = [k \in 1..m |-> W[k]]
    BY DEF SomeOf
  <2> QED BY <2>1, <2>2
<1>2. PICK f, x : FlatWalk(f, x, W, m, T)
  BY <1>0, <1>1, FlatWalks
<1>3. f \in [0..m -> Seq(T)] /\ f[0] = <<>> /\ f[m] = FlattenSeq(W) /\ \A i \in 1..m : f[i] = f[i - 1] \o W[i]
  BY <1>2 DEF FlatWalk
<1> DEFINE D == {i \in 0..m : \E c \in 0..n : SomeTo(f, n, pos, e, i, c)}
<1>4. 0 \in D
  <2>1. \A j \in 1..n : pos[j] > 0
    BY <1>0
  <2>2. f[0] = [j \in 1..0 |-> e[j]]
    <3>1. [j \in 1..0 |-> e[j]] = <<>>
      OBVIOUS
    <3> QED BY <1>3, <3>1
  <2>3. 1..0 = {} /\ 0 + 1..n = 1..n /\ 0 \in 0..n /\ 0 \in 0..m
    BY <1>0
  <2>4. SomeTo(f, n, pos, e, 0, 0)
    BY <2>1, <2>2, <2>3 DEF SomeTo
  <2> QED BY <2>3, <2>4
<1>5. \A i \in 0..(m - 1) : i \in D => i + 1 \in D
  <2> TAKE i \in 0..(m - 1)
  <2> HAVE i \in D
  <2>1. PICK c \in 0..n : SomeTo(f, n, pos, e, i, c)
    OBVIOUS
  <2>2. i + 1 \in 1..m /\ i + 1 \in 0..m /\ (i + 1) - 1 = i
    BY <1>0
  <2>3. f[i + 1] = f[i] \o W[i + 1]
    BY <1>3, <2>2
  <2>4. \E d \in 0..n : SomeTo(f, n, pos, e, i + 1, d)
    BY <1>3, <2>1, <2>3, SomeStep
  <2> QED BY <2>2, <2>4
<1>6. \A i \in 0..m : i \in D
  <2> HIDE DEF D
  <2> QED BY <1>0, <1>4, <1>5, UpTo
<1>7. PICK c \in 0..n : SomeTo(f, n, pos, e, m, c)
  <2>1. m \in D
    <3>1. m \in 0..m
      BY <1>0
    <3> HIDE DEF D
    <3> QED BY <1>6, <3>1
  <2> QED BY <2>1
<1>8. c = n
  <2>1. CASE c # n
    <3>1. c + 1 \in c + 1..n /\ c + 1 \in 1..n
      BY <1>0, <2>1
    <3>2. pos[c + 1] > m /\ pos[c + 1] \in 1..m
      BY <1>0, <1>7, <3>1 DEF SomeTo
    <3> QED BY <1>0, <3>2
  <2> QED BY <2>1
<1>9. f[m] = [j \in 1..n |-> e[j]]
  BY <1>7, <1>8 DEF SomeTo
<1> QED BY <1>0, <1>3, <1>9

\* A value in brackets, and what a scan of it sees.
Braced(v, A) == \E x \in Enclosing : \E w \in Seq(A) : Nested(w) /\ v = Enclosed(x, w)
BracedSeen(v) ==
  /\ Len(v) \in Nat /\ Len(v) >= 2 /\ v[1] \in Opens /\ v[Len(v)] \in Closes
  /\ ~Inside(v, 1) /\ ~Inside(v, Len(v)) /\ Level(v, <<Opens, Closes>>, 1) = 0
  /\ Level(v, <<Opens, Closes>>, Len(v)) = 1 /\ \A k \in 2..Len(v) : Level(v, <<Opens, Closes>>, k) >= 1
\* A value in brackets is scanned so: one level down between them, back at the last.
LEMMA BracedScan ==
  ASSUME NEW v, NEW A, Braced(v, A)
  PROVE  BracedSeen(v) /\ Value(v) /\ v \in Seq(A \cup Opens \cup Closes)
<1>1. PICK x \in Enclosing : \E w \in Seq(A) : Nested(w) /\ v = Enclosed(x, w)
  BY DEF Braced
<1>2. PICK w \in Seq(A) : Nested(w) /\ v = Enclosed(x, w)
  BY <1>1
<1> DEFINE B == A \cup {x[1], x[2]}
<1>3. v \in Seq(B) /\ Len(w) \in Nat /\ Len(v) = Len(w) + 2 /\ v[1] = x[1] /\ v[Len(w) + 2] = x[2]
  BY <1>2, EnclosedShape
<1>4. x[1] \in Opens /\ x[2] \in Closes /\ x[1] \in <<Opens, Closes>>[1]
  BY EnclosingIs
<1>5. B \subseteq A \cup Opens \cup Closes
  BY <1>4
<1> HIDE DEF B
<1>6. v \in Seq(A \cup Opens \cup Closes)
  BY <1>3, <1>5, Wider
<1> DEFINE b == <<Opens, Closes>>
<1>7. Value(v) /\ ~Inside(v, Len(v))
  BY <1>2, EnclosedIsValue
<1>8. x[1] \in b[1] => \A k \in 2..Len(v) : Level(v, b, k) >= 1
  BY <1>2, Both, EnclosedIsValue
<1>9. x[1] \in b[1] => Level(v, b, Len(v)) = 1
  BY <1>2, Both, EnclosedIsValue
<1>10. ~Inside(v, 1) /\ Level(v, b, 1) = 0
  BY <1>3, ScanStarts
<1>11. Len(v) \in Nat /\ Len(v) >= 2 /\ Len(v) = Len(w) + 2
  BY ONLY <1>3
<1> QED BY <1>3, <1>4, <1>6, <1>7, <1>8, <1>9, <1>10, <1>11 DEF BracedSeen

\* An array of them.
IsArray(n, parts, A) ==
  n \in Nat \ {0} /\ parts \in [1..n -> Seq(A)] /\ (\A j \in 1..n : Braced(parts[j], A))
  /\ Opens \cup Closes \cup {","} \subseteq A
ElementSeen(v, s, a) ==
  /\ Placed(v, s, a) /\ Level(s, <<Opens, Closes>>, a + 1) = 1 /\ a \in Nat /\ a + Len(v) + 1 <= Len(s)
  /\ BracedSeen(v)
ElementShift(v, s, a) ==
  /\ \A d \in 1..Len(v) : s[a + d] = v[d] /\ (Inside(s, a + d) <=> Inside(v, d))
                          /\ Level(s, <<Opens, Closes>>, a + d) = 1 + Level(v, <<Opens, Closes>>, d)
                          /\ Level(v, <<Opens, Closes>>, d) \in Int
  /\ Len(s) \in Nat /\ DOMAIN s = 1..Len(s)
\* An element of an array is scanned as by itself, one level down.
LEMMA ElementShifts ==
  ASSUME NEW A, NEW v \in Seq(A), NEW R, NEW s \in Seq(R), NEW a, ElementSeen(v, s, a)
  PROVE  ElementShift(v, s, a)
<1>1. ASSUME NEW d \in 1..Len(v)
      PROVE  s[a + d] = v[d] /\ (Inside(s, a + d) <=> Inside(v, d))
             /\ Level(s, <<Opens, Closes>>, a + d) = 1 + Level(v, <<Opens, Closes>>, d)
             /\ Level(v, <<Opens, Closes>>, d) \in Int
  <2>1. Placed(v, s, a) /\ Len(v) \in Nat /\ Level(s, <<Opens, Closes>>, a + 1) = 1
    BY DEF ElementSeen, BracedSeen
  <2>2. d \in 1..Len(v) + 1
    BY <2>1
  <2>3. SameScan(v, s, a, <<Opens, Closes>>, d)
    BY <2>1, <2>2, ScanShifts
  <2>4. s[a + d] = v[d]
    BY <2>1 DEF Placed, Stands
  <2> QED BY <2>1, <2>3, <2>4 DEF SameScan
<1>2. Len(s) \in Nat /\ DOMAIN s = 1..Len(s)
  BY LenProperties
<1> QED BY <1>1, <1>2 DEF ElementShift

\* The element ends where its bracket closes.
LEMMA ElementEnds ==
  ASSUME NEW A, NEW v \in Seq(A), NEW R, NEW s \in Seq(R), NEW a, ElementSeen(v, s, a)
  PROVE  /\ ElementEnd(s, Scan(s, Opens, Closes), a + 1) = a + Len(v)
         /\ SubSeq(s, a + 1, a + Len(v)) = v
<1> DEFINE q == Scan(s, Opens, Closes)
<1> DEFINE b == <<Opens, Closes>>
<1> DEFINE L == Len(v)
<1>1. /\ \A d \in 1..L : s[a + d] = v[d] /\ (Inside(s, a + d) <=> Inside(v, d))
                         /\ Level(s, b, a + d) = 1 + Level(v, b, d) /\ Level(v, b, d) \in Int
      /\ Len(s) \in Nat /\ DOMAIN s = 1..Len(s)
  BY ElementShifts DEF ElementShift
<1>2. /\ a \in Nat /\ a + L + 1 <= Len(s) /\ L \in Nat /\ L >= 2
      /\ v[L] \in Closes /\ ~Inside(v, L) /\ Level(v, b, L) = 1 /\ \A k \in 2..L : Level(v, b, k) >= 1
  BY DEF ElementSeen, BracedSeen
<1>3. q.closes = {k \in DOMAIN s : s[k] \in Closes /\ ~Inside(s, k)} /\ \A k : Depth(q, k) = Level(s, b, k)
  BY ScanIs DEF Level
<1> DEFINE E == {e \in q.closes : e > a + 1 /\ Depth(q, e) = 2} \cup {Len(s) + 1}
<1>4. ElementEnd(s, q, a + 1) = MinOf(E)
  BY DEF ElementEnd
<1> HIDE DEF q
<1>5. \A e : e \in E <=> e = Len(s) + 1 \/ (e \in 1..Len(s) /\ s[e] \in Closes /\ ~Inside(s, e)
                                            /\ e > a + 1 /\ Level(s, b, e) = 2)
  BY <1>1, <1>3
<1>v. v \in Seq(A)
  OBVIOUS
<1>l. L = Len(v)
  OBVIOUS
<1> HIDE DEF E, L, b
<1>6. a + L \in E
  <2>1. L \in 1..L /\ a + L \in 1..Len(s) /\ a + L > a + 1
    BY ONLY <1>1, <1>2
  <2>2. s[a + L] \in Closes /\ ~Inside(s, a + L)
    BY <1>1, <1>2, <2>1
  <2>3. Level(s, b, a + L) = 2
    <3>1. Level(s, b, a + L) = 1 + Level(v, b, L) /\ Level(v, b, L) = 1
      BY <1>1, <1>2, <2>1
    <3> QED BY ONLY <3>1
  <2> QED BY <1>5, <2>1, <2>2, <2>3
<1>7. ASSUME NEW e \in E, e < a + L PROVE FALSE
  <2>1. e \in 1..Len(s) /\ s[e] \in Closes /\ ~Inside(s, e) /\ e > a + 1 /\ Level(s, b, e) = 2
    <3>1. e # Len(s) + 1
      BY ONLY <1>1, <1>2, <1>7
    <3> QED BY <1>5, <3>1
  <2> DEFINE d == e - a
  <2>2. d \in 1..L /\ d \in 2..L /\ d + 1 \in 2..L /\ a + d = e
    BY ONLY <1>1, <1>2, <1>7, <2>1
  <2> HIDE DEF d
  <2>3. v[d] \in Closes /\ ~Inside(v, d)
    BY <1>1, <2>1, <2>2
  <2>4. Level(v, b, d) = 1
    <3>1. Level(s, b, a + d) = 1 + Level(v, b, d) /\ Level(v, b, d) \in Int /\ Level(s, b, a + d) = 2
      BY <1>1, <2>1, <2>2
    <3> QED BY ONLY <3>1
  <2>5. Level(v, b, d + 1) = Level(v, b, d) + Counted(v, b[1], d) - Counted(v, b[2], d)
    <3>1. d \in 1..Len(v)
      BY <1>l, <2>2
    <3> QED BY <1>v, <3>1, LevelStep
  <2>6. Counted(v, b[1], d) = 0 /\ Counted(v, b[2], d) = 1
    <3>1. b[1] = Opens /\ b[2] = Closes
      BY DEF b
    <3>2. v[d] \notin Opens
      BY <2>3 DEF Opens, Closes
    <3> QED BY <2>3, <3>1, <3>2 DEF Counted
  <2>7. Level(v, b, d + 1) = 0
    BY ONLY <2>4, <2>5, <2>6
  <2>8. Level(v, b, d + 1) >= 1
    BY <1>2, <2>2
  <2> QED BY ONLY <2>7, <2>8
<1>8. MinOf(E) = a + L
  <2>1. E \subseteq Int
    <3>1. Len(s) + 1 \in Int /\ 1..Len(s) \subseteq Int
      BY ONLY <1>1
    <3> QED BY <1>5, <3>1
  <2>2. \A e \in E : a + L <= e
    <3> TAKE e \in E
    <3>1. ~(e < a + L) /\ e \in Int /\ a + L \in Int
      BY <1>6, <1>7, <2>1
    <3> QED BY ONLY <3>1
  <2> QED BY <1>6, <2>1, <2>2, LeastIs
<1>9. SubSeq(s, a + 1, a + L) = v
  <2>1. SubSeq(s, a + 1, a + L) = [k \in 1..((a + L) - (a + 1) + 1) |-> s[(a + 1) + k - 1]]
    BY <1>1, <1>2
  <2>2. (a + L) - (a + 1) + 1 = L /\ \A k \in 1..L : (a + 1) + k - 1 = a + k
    BY ONLY <1>2
  <2>3. SubSeq(s, a + 1, a + L) = [k \in 1..L |-> v[k]]
    BY <1>1, <2>1, <2>2
  <2>4. v = [k \in 1..L |-> v[k]]
    BY <1>v, <1>l
  <2> QED BY <2>3, <2>4
<1> QED BY <1>4, <1>8, <1>9 DEF q, L

\* An array of them is read an element at a time, each as it was written.
LEMMA ElementsAre ==
  ASSUME NEW n, NEW parts, NEW A, IsArray(n, parts, A)
  PROVE  /\ raw_elements(Array(parts)) = parts
         /\ Nested(Commas(parts)) /\ Commas(parts) \in Seq(A) /\ Array(parts) = Enclosed(<<"[", "]">>, Commas(parts))
<1> DEFINE x == <<"[", "]">>
<1> DEFINE s == Array(parts)
<1> DEFINE m == Len(s)
<1> DEFINE q == Scan(s, Opens, Closes)
<1> DEFINE b == <<Opens, Closes>>
<1>0. n \in Nat \ {0} /\ parts \in [1..n -> Seq(A)] /\ Opens \cup Closes \cup {","} \subseteq A
  BY DEF IsArray
<1>1. x \in Enclosing /\ x[1] = "[" /\ x[2] = "]" /\ {",", x[1], x[2]} \subseteq A
  BY <1>0 DEF Enclosing, Opens, Closes
<1>2. s = Enclosed(x, Commas(parts))
  BY DEF Array, Enclosed
<1> HIDE DEF x, s
<1>3. IsList(n, parts, A, x)
  <2>1. \A j \in 1..n : Nested(parts[j])
    <3> TAKE j \in 1..n
    <3>1. Braced(parts[j], A)
      BY DEF IsArray
    <3> QED BY <3>1, BracedScan DEF Value
  <2> QED BY <1>0, <1>1, <2>1 DEF IsList
<1>4. Commas(parts) \in Seq(A) /\ Nested(Commas(parts)) /\ s \in Seq(A) /\ \E start : PartsBegin(start, n, parts, x)
  BY <1>2, <1>3, PartsIn
<1>5. PICK start : PartsBegin(start, n, parts, x)
  BY <1>4
<1>6. /\ start \in [1..n -> Nat]
      /\ \A i \in 1..n : \A j \in i + 1..n : start[i] + Len(parts[i]) + 1 <= start[j]
      /\ \A j \in 1..n :
           /\ Placed(parts[j], s, start[j]) /\ Level(s, b, start[j] + 1) = 1
           /\ start[j] + Len(parts[j]) + 1 <= Len(s)
      /\ \A i \in 2..Len(s) - 1 : s[i] # "," => \E j \in 1..n : i - start[j] \in 1..Len(parts[j])
  BY <1>2, <1>5 DEF PartsBegin
<1>m. m \in Nat /\ DOMAIN s = 1..m
  BY <1>4, LenProperties
<1>7. ASSUME NEW j \in 1..n
      PROVE  /\ ElementSeen(parts[j], s, start[j]) /\ ElementShift(parts[j], s, start[j])
             /\ ElementEnd(s, q, start[j] + 1) = start[j] + Len(parts[j])
             /\ SubSeq(s, start[j] + 1, start[j] + Len(parts[j])) = parts[j]
             /\ parts[j] \in Seq(A)
  <2>1. parts[j] \in Seq(A) /\ start[j] \in Nat
    BY <1>0, <1>6
  <2>2. BracedSeen(parts[j])
    <3>1. Braced(parts[j], A)
      BY DEF IsArray
    <3> QED BY <3>1, BracedScan
  <2>3. ElementSeen(parts[j], s, start[j])
    BY <1>6, <2>1, <2>2 DEF ElementSeen
  <2>4. ElementShift(parts[j], s, start[j])
    BY <1>4, <2>1, <2>3, ElementShifts
  <2>5. /\ ElementEnd(s, q, start[j] + 1) = start[j] + Len(parts[j])
        /\ SubSeq(s, start[j] + 1, start[j] + Len(parts[j])) = parts[j]
    BY <1>4, <2>1, <2>3, ElementEnds
  <2> QED BY <2>1, <2>3, <2>4, <2>5
<1>8. q.opens = {k \in DOMAIN s : s[k] \in Opens /\ ~Inside(s, k)} /\ \A k : Depth(q, k) = Level(s, b, k)
  BY ScanIs DEF Level
<1>e. s[1] = "[" /\ s[m] = "]" /\ Level(s, b, 1) = 0
  <2>1. /\ s[1] = x[1] /\ s[Len(Commas(parts)) + 2] = x[2] /\ Len(s) = Len(Commas(parts)) + 2
    BY <1>2, <1>4, EnclosedShape
  <2>2. Level(s, b, 1) = 0
    BY <1>4, ScanStarts
  <2> QED BY <1>1, <2>1, <2>2
<1> DEFINE pos == [j \in 1..n |-> start[j] + 1]
<1> DEFINE W == [k \in DOMAIN s |-> Element(s, q, k)]
<1>9. raw_elements(s) = FlattenSeq(W)
  BY DEF raw_elements, Flat
<1>w. DOMAIN W = 1..m /\ \A k \in 1..m : W[k] = Element(s, q, k)
  BY <1>m
<1>z. W = [k \in 1..m |-> W[k]]
  BY <1>m
<1>p. \A j \in 1..n : pos[j] = start[j] + 1
  OBVIOUS
<1>d. pos = [j \in 1..n |-> pos[j]]
  OBVIOUS
<1>q. \A k : k \in q.opens <=> k \in 1..m /\ s[k] \in Opens /\ ~Inside(s, k)
  BY <1>8, <1>m
<1> HIDE DEF q, m, pos, W, b
<1>10. ASSUME NEW j \in 1..n
       PROVE  /\ pos[j] \in 1..m /\ start[j] \in Nat /\ Len(parts[j]) \in Nat /\ Len(parts[j]) >= 2
              /\ start[j] + Len(parts[j]) + 1 <= m
  <2>1. Len(parts[j]) \in Nat /\ Len(parts[j]) >= 2
    BY <1>7 DEF ElementSeen, BracedSeen
  <2>2. start[j] \in Nat /\ start[j] + Len(parts[j]) + 1 <= m
    BY <1>6 DEF m
  <2>3. start[j] + 1 \in 1..m
    BY ONLY <1>m, <2>1, <2>2
  <2> QED BY <1>p, <2>1, <2>2, <2>3
<1>11. ASSUME NEW j \in 1..n PROVE W[pos[j]] = <<parts[j]>>
  <2> DEFINE k == start[j] + 1
  <2>1. k \in 1..m /\ pos[j] = k /\ 1 \in 1..Len(parts[j])
    BY <1>10, <1>p
  <2>2. s[k] \in Opens /\ ~Inside(s, k)
    <3>1. parts[j][1] \in Opens /\ ~Inside(parts[j], 1)
      BY <1>7 DEF ElementSeen, BracedSeen
    <3> QED BY <1>7, <2>1, <3>1 DEF ElementShift
  <2>3. Depth(q, k) = 1
    BY <1>6, <1>8
  <2>4. ElementEnd(s, q, k) = start[j] + Len(parts[j]) /\ SubSeq(s, k, ElementEnd(s, q, k)) = parts[j]
    BY <1>7
  <2>5. ElementEnd(s, q, k) <= Len(s)
    <3>1. start[j] + Len(parts[j]) <= m
      BY ONLY <1>10, <1>m
    <3> QED BY <2>4, <3>1 DEF m
  <2> HIDE DEF k
  <2>6. Element(s, q, k) = <<parts[j]>>
    BY <1>q, <2>1, <2>2, <2>3, <2>4, <2>5 DEF Element
  <2> QED BY <1>w, <2>1, <2>6
<1>12. ASSUME NEW k \in 1..m, \A j \in 1..n : pos[j] # k PROVE W[k] = <<>>
  <2> SUFFICES ASSUME k \in q.opens, Depth(q, k) = 1 PROVE FALSE
    BY <1>w DEF Element
  <2>1. s[k] \in Opens /\ Level(s, b, k) = 1
    BY <1>8, <1>q
  <2>o. "]" \notin Opens /\ "," \notin Opens
    BY DEF Opens
  <2>a. k # 1
    <3>1. Level(s, b, k) # Level(s, b, 1)
      BY ONLY <1>e, <2>1
    <3> QED BY <3>1
  <2>b. k # m
    BY <1>e, <2>1, <2>o
  <2>2. s[k] # ","
    BY <2>1, <2>o
  <2>3. k \in 2..m - 1
    BY <1>m, <2>a, <2>b
  <2>4. PICK j \in 1..n : k - start[j] \in 1..Len(parts[j])
    BY <1>6, <2>2, <2>3 DEF m
  <2> DEFINE d == k - start[j]
  <2>5. d \in 1..Len(parts[j]) /\ start[j] + d = k /\ d # 1
    <3>1. start[j] \in Nat /\ Len(parts[j]) \in Nat /\ start[j] + 1 # k /\ k \in 1..m
      BY <1>10, <1>12, <1>p
    <3> QED BY ONLY <2>4, <3>1, <1>m
  <2> HIDE DEF d
  <2>6. d \in 2..Len(parts[j])
    BY ONLY <1>10, <2>5
  <2>7. Level(parts[j], b, d) >= 1 /\ Level(s, b, k) = 1 + Level(parts[j], b, d) /\ Level(parts[j], b, d) \in Int
    <3>1. ElementShift(parts[j], s, start[j]) /\ BracedSeen(parts[j])
      BY <1>7 DEF ElementSeen
    <3> QED BY <2>5, <2>6, <3>1 DEF ElementShift, BracedSeen, b
  <2> QED BY ONLY <2>1, <2>7
<1>13. ASSUME NEW i \in 1..n, NEW j \in i + 1..n PROVE pos[i] < pos[j]
  <2>n. n \in Nat
    BY <1>0
  <2>1. j \in 1..n
    BY <2>n
  <2>2. start[i] + Len(parts[i]) + 1 <= start[j] /\ pos[i] = start[i] + 1 /\ pos[j] = start[j] + 1
    BY <1>6, <1>p, <2>1
  <2>3. start[i] \in Nat /\ start[j] \in Nat /\ Len(parts[i]) \in Nat
    BY <1>10, <2>1
  <2> QED BY ONLY <2>2, <2>3
<1>14. SomeOf(n, pos, parts, W, m, Seq(A))
  <2>1. pos \in [1..n -> 1..m]
    BY <1>10, <1>d
  <2>2. DOMAIN W = 1..m /\ W = [k \in 1..m |-> W[k]]
    BY <1>w, <1>z
  <2> QED BY <1>0, <1>m, <1>11, <1>12, <1>13, <2>1, <2>2 DEF SomeOf
<1>15. raw_elements(s) = parts
  BY <1>9, <1>14, SomeFlat
<1> QED BY <1>2, <1>4, <1>15 DEF s, x

-----------------------------------------------------------------------------
(* What is read back of an object.                                         *)

\* The value of a member: a quoted text.
LEMMA TextAt ==
  ASSUME NEW key, NEW S, NEW t \in Seq(S), NEW R, NEW s \in Seq(R), NEW a, MemberSeen(key, json_quote(t), s, a)
  PROVE  StringFrom(s, a + 5) = t
<1> DEFINE v == json_quote(t)
<1>1. ValueIn(v, s, a + 4) /\ a \in Nat /\ Len(v) \in Nat /\ Len(s) \in Nat
  BY DEF MemberSeen
<1>2. Stands(v, s, a + 4) /\ (a + 4) + Len(v) + 1 <= Len(s)
  BY <1>1 DEF ValueIn, Placed
<1>3. (a + 4) + Len(v) <= Len(s) /\ (a + 4) + 1 = a + 5 /\ a + 5 # 0
  <2> HIDE DEF v
  <2> QED BY ONLY <1>1, <1>2
<1>4. read_json_string(s, (a + 4) + 1) = [text |-> t, next |-> (a + 4) + Len(v) + 1]
  BY <1>2, <1>3, QuotedReadsBack
<1>5. read_json_string(s, a + 5).text = t
  <2> HIDE DEF v
  <2> QED BY <1>3, <1>4
<1> QED BY <1>3, <1>5 DEF StringFrom

\* A value in brackets.
LEMMA SpanAt ==
  ASSUME NEW key, NEW A, NEW v, Braced(v, A), NEW R, NEW s \in Seq(R), NEW a, MemberSeen(key, v, s, a)
  PROVE  ValueFrom(s, a + 5) = v
<1>1. ValueIn(v, s, a + 4) /\ a \in Nat /\ Len(v) \in Nat /\ Len(s) \in Nat
  BY DEF MemberSeen
<1>2. /\ (\A k \in 1..Len(v) : s[(a + 4) + k] = v[k]) /\ (a + 4) + Len(v) + 1 <= Len(s)
  BY <1>1 DEF ValueIn, Placed, Stands
<1>3. Len(v) >= 2 /\ v[1] \in Opens
  BY BracedScan DEF BracedSeen
<1>4. a + 5 \in 1..Len(s) /\ (a + 4) + 1 = a + 5 /\ 1 \in 1..Len(v) /\ a + 5 # 0 /\ a + 5 \in Nat
  <2>1. Len(v) >= 2 /\ Len(v) \in Nat /\ a \in Nat /\ Len(s) \in Nat /\ (a + 4) + Len(v) + 1 <= Len(s)
    BY <1>1, <1>2, <1>3
  <2> QED BY ONLY <2>1
<1>5. SkipWs(s, a + 5) = a + 5
  <2>1. s[a + 5] \in Opens
    BY <1>2, <1>3, <1>4
  <2>2. ~IsBlank(s[a + 5])
    BY <2>1 DEF Opens, IsBlank, SP, LF
  <2> QED BY <1>4, <2>2, NotSkipped
<1> DEFINE t == SubSeq(s, a + 5, Len(s))
<1>6. /\ t \in Seq(R) /\ Len(t) = Len(s) - (a + 5) + 1
      /\ \A k \in 1..Len(s) - (a + 5) + 1 : t[k] = s[(a + 5) + k - 1]
  BY <1>1, <1>4, SubSeqProperties
<1>7. Len(v) <= Len(t) /\ Stands(v, t, 0)
  <2>1. Len(v) <= Len(s) - (a + 5) + 1 /\ \A k \in 1..Len(v) : /\ k \in 1..Len(s) - (a + 5) + 1
                                                              /\ (a + 5) + k - 1 = (a + 4) + k /\ 0 + k = k
    <3>1. a \in Nat /\ Len(v) \in Nat /\ Len(s) \in Nat /\ (a + 4) + Len(v) + 1 <= Len(s)
      BY <1>1, <1>2
    <3> QED BY ONLY <3>1
  <2>2. \A k \in 1..Len(v) : t[0 + k] = v[k]
    <3> TAKE k \in 1..Len(v)
    <3>1. t[k] = s[(a + 4) + k]
      BY <1>6, <2>1
    <3> QED BY <1>2, <2>1, <3>1
  <2> HIDE DEF t
  <2> QED BY <1>6, <2>1, <2>2 DEF Stands
<1>8. Bracketed(t) = v
  <2>1. PICK x \in Enclosing : \E w \in Seq(A) : Nested(w) /\ v = Enclosed(x, w)
    BY DEF Braced
  <2>2. PICK w \in Seq(A) : Nested(w) /\ v = Enclosed(x, w)
    BY <2>1
  <2> HIDE DEF t
  <2> QED BY <1>6, <1>7, <2>2, BracketedIs
<1> QED BY <1>4, <1>5, <1>8 DEF ValueFrom, Rest

\* A field of an object that is a quoted text.
LEMMA StringReads ==
  ASSUME NEW n, NEW keys, NEW vals, NEW A, IsObject(n, keys, vals, A), NEW key, key \notin {DQ, BS},
         NEW j \in 1..n, FirstOf(j, key, keys), NEW S, NEW t \in Seq(S), vals[j] = json_quote(t)
  PROVE  StringAt(ObjectOf(n, keys, vals), key) = t
<1> DEFINE s == ObjectOf(n, keys, vals)
<1> DEFINE R == AtomsOf(n, keys, A)
<1>1. s \in Seq(R) /\ \E start : ObjectSeen(start, n, keys, vals, s)
  BY ObjectScan
<1>2. PICK start : ObjectSeen(start, n, keys, vals, s)
  BY <1>1
<1> HIDE DEF s, R
<1>3. find_top_key(s, key) = start[j] + 5
  BY <1>1, <1>2, FindsFirst
<1>4. MemberSeen(keys[j], json_quote(t), s, start[j])
  BY <1>2 DEF ObjectSeen
<1>5. StringFrom(s, start[j] + 5) = t
  BY <1>1, <1>4, TextAt
<1> QED BY <1>3, <1>5 DEF StringAt, s

\* A field that is a value in brackets.
LEMMA ValueReads ==
  ASSUME NEW n, NEW keys, NEW vals, NEW A, IsObject(n, keys, vals, A), NEW key, key \notin {DQ, BS},
         NEW j \in 1..n, FirstOf(j, key, keys), NEW B, Braced(vals[j], B)
  PROVE  raw_value(ObjectOf(n, keys, vals), key) = vals[j]
<1> DEFINE s == ObjectOf(n, keys, vals)
<1> DEFINE R == AtomsOf(n, keys, A)
<1>1. s \in Seq(R) /\ \E start : ObjectSeen(start, n, keys, vals, s)
  BY ObjectScan
<1>2. PICK start : ObjectSeen(start, n, keys, vals, s)
  BY <1>1
<1> HIDE DEF s, R
<1>3. find_top_key(s, key) = start[j] + 5
  BY <1>1, <1>2, FindsFirst
<1>4. MemberSeen(keys[j], vals[j], s, start[j])
  BY <1>2 DEF ObjectSeen
<1>5. ValueFrom(s, start[j] + 5) = vals[j]
  BY <1>1, <1>4, SpanAt
<1> QED BY <1>3, <1>5 DEF raw_value, s

\* A field that is not there.
LEMMA AbsentReads ==
  ASSUME NEW n, NEW keys, NEW vals, NEW A, IsObject(n, keys, vals, A), NEW key, key \notin {DQ, BS},
         \A j \in 1..n : keys[j] # key
  PROVE  StringAt(ObjectOf(n, keys, vals), key) = <<>> /\ raw_value(ObjectOf(n, keys, vals), key) = <<>>
<1> DEFINE s == ObjectOf(n, keys, vals)
<1>1. s \in Seq(AtomsOf(n, keys, A)) /\ \E start : ObjectSeen(start, n, keys, vals, s)
  BY ObjectScan
<1>2. PICK start : ObjectSeen(start, n, keys, vals, s)
  BY <1>1
<1> HIDE DEF s
<1>3. find_top_key(s, key) = 0
  BY <1>1, <1>2, FindsNone
<1> QED BY <1>3 DEF StringAt, raw_value, StringFrom, ValueFrom, s

\* Every field of an object reads back: the first member with a key is the one found,
\* whatever the texts and the values before it and within it hold.
THEOREM FieldsReadBack ==
  ASSUME NEW n, NEW keys, NEW vals, NEW A, IsObject(n, keys, vals, A), NEW S, NEW key, key \notin {DQ, BS}
  PROVE  LET s == ObjectOf(n, keys, vals) IN
         /\ \A j \in 1..n : FirstOf(j, key, keys) =>
              /\ \A t \in Seq(S) : vals[j] = json_quote(t) => StringAt(s, key) = t
              /\ Braced(vals[j], A) => raw_value(s, key) = vals[j]
         /\ (\A j \in 1..n : keys[j] # key) => StringAt(s, key) = <<>> /\ raw_value(s, key) = <<>>
BY StringReads, ValueReads, AbsentReads

-----------------------------------------------------------------------------
(* The fields of what is written: a call, a delta, a reply.                *)

\* The fields of a list of members, and how a member laid after them changes what is read.
Atomic(A) == Opens \cup Closes \cup {DQ, ":", ","} \subseteq A
Fields(ms, n, keys, vals, A) ==
  /\ IsObject(n, keys, vals, A) /\ keys \in [1..n -> A] /\ ms = Members(n, keys, vals) /\ Atomic(A)
HasField(ms, key, v, A) ==
  \E n, keys, vals : Fields(ms, n, keys, vals, A) /\ \E j \in 1..n : FirstOf(j, key, keys) /\ vals[j] = v
LacksField(ms, key, A) ==
  \E n, keys, vals : Fields(ms, n, keys, vals, A) /\ \A j \in 1..n : keys[j] # key
FieldValue(key, v, A) == key \in A /\ key \notin {DQ, BS} /\ v \in Seq(A) /\ Value(v) /\ Atomic(A)
\* One member: its field, and no other.
LEMMA OneField ==
  ASSUME NEW A, NEW key, NEW v, FieldValue(key, v, A)
  PROVE  /\ HasField(<<Member(key, v)>>, key, v, A)
         /\ \A k : k # key => LacksField(<<Member(key, v)>>, k, A)
<1> DEFINE keys == <<key>>
<1> DEFINE vals == <<v>>
<1>1. 1..1 = {1} /\ keys[1] = key /\ vals[1] = v /\ 1 \in 1..1
  OBVIOUS
<1>2. IsObject(1, keys, vals, A) /\ keys \in [1..1 -> A]
  <2>1. key \in A /\ key \notin {DQ, BS} /\ v \in Seq(A) /\ Value(v)
    BY DEF FieldValue
  <2>2. vals \in [1..1 -> Seq(A)] /\ keys \in [1..1 -> A]
    BY <2>1
  <2> HIDE DEF keys, vals
  <2> QED BY <1>1, <2>1, <2>2 DEF IsObject
<1>3. <<Member(key, v)>> = Members(1, keys, vals)
  <2>1. <<Member(key, v)>> = [j \in 1..1 |-> Member(key, v)]
    OBVIOUS
  <2> HIDE DEF keys, vals
  <2> QED BY <1>1, <2>1 DEF Members
<1> HIDE DEF keys, vals
<1>4. Fields(<<Member(key, v)>>, 1, keys, vals, A)
  BY <1>2, <1>3 DEF Fields, FieldValue
<1>5. FirstOf(1, key, keys)
  BY <1>1 DEF FirstOf
<1>6. HasField(<<Member(key, v)>>, key, v, A)
  BY <1>1, <1>4, <1>5 DEF HasField
<1>7. \A k : k # key => LacksField(<<Member(key, v)>>, k, A)
  BY <1>1, <1>4 DEF LacksField
<1> QED BY <1>6, <1>7

\* One member more.
With(n, f, y) == [j \in 1..n + 1 |-> IF j <= n THEN f[j] ELSE y]
\* A list and one more.
LEMMA WithIs ==
  ASSUME NEW n \in Nat, NEW f, NEW y
  PROVE  /\ (\A j \in 1..n : With(n, f, y)[j] = f[j]) /\ With(n, f, y)[n + 1] = y /\ n + 1 \in 1..n + 1
         /\ \A j \in 1..n + 1 : j \in 1..n \/ j = n + 1
         /\ \A j \in 1..n : j \in 1..n + 1
BY DEF With

\* A member more is a field more.
LEMMA MoreFields ==
  ASSUME NEW A, NEW key, NEW v, FieldValue(key, v, A), NEW ms, NEW n, NEW keys, NEW vals, Fields(ms, n, keys, vals, A)
  PROVE  Fields(ms \o <<Member(key, v)>>, n + 1, With(n, keys, key), With(n, vals, v), A)
<1> DEFINE ks == With(n, keys, key)
<1> DEFINE vs == With(n, vals, v)
<1> DEFINE m == Member(key, v)
<1>0. n \in Nat \ {0} /\ keys \in [1..n -> A] /\ vals \in [1..n -> Seq(A)] /\ n + 1 \in Nat \ {0} /\ n \in Nat
  BY DEF Fields, IsObject
<1>1. /\ \A j \in 1..n : ks[j] = keys[j] /\ vs[j] = vals[j]
      /\ ks[n + 1] = key /\ vs[n + 1] = v /\ n + 1 \in 1..n + 1
      /\ \A j \in 1..n + 1 : j \in 1..n \/ j = n + 1
  BY <1>0, WithIs
<1>2. ks = [j \in 1..n + 1 |-> ks[j]] /\ vs = [j \in 1..n + 1 |-> vs[j]]
  BY DEF With
<1>3. key \in A /\ key \notin {DQ, BS} /\ v \in Seq(A) /\ Value(v) /\ Atomic(A)
  BY DEF FieldValue
<1> HIDE DEF ks, vs
<1>4. ks \in [1..n + 1 -> A] /\ vs \in [1..n + 1 -> Seq(A)]
  <2>1. \A j \in 1..n + 1 : ks[j] \in A /\ vs[j] \in Seq(A)
    BY <1>0, <1>1, <1>3
  <2> QED BY <1>2, <2>1
<1>5. \A j \in 1..n + 1 : ks[j] \notin {DQ, BS} /\ Value(vs[j])
  <2>1. \A j \in 1..n : keys[j] \notin {DQ, BS} /\ Value(vals[j])
    BY DEF Fields, IsObject
  <2> QED BY <1>1, <1>3, <2>1
<1>6. IsObject(n + 1, ks, vs, A)
  BY <1>0, <1>4, <1>5 DEF IsObject
<1> DEFINE B == {ms[j] : j \in 1..n} \cup {m}
<1>7. ms = [j \in 1..n |-> Member(keys[j], vals[j])]
  BY DEF Fields, Members
<1> HIDE DEF m
<1>8. ms \in Seq(B) /\ Len(ms) = n /\ <<m>> \in Seq(B) /\ Len(<<m>>) = 1 /\ <<m>>[1] = m
  <2>1. ms = [j \in 1..n |-> ms[j]]
    BY <1>7
  <2>2. ms \in [1..n -> B]
    BY <2>1
  <2>3. m \in B
    OBVIOUS
  <2> HIDE DEF B
  <2> QED BY <1>0, <2>2, <2>3
<1> HIDE DEF B
<1> DEFINE u == ms \o <<m>>
<1>9. u \in Seq(B) /\ Len(u) = n + 1 /\ \A j \in 1..n + 1 : u[j] = IF j <= n THEN ms[j] ELSE <<m>>[j - n]
  BY <1>8, ConcatProperties
<1> HIDE DEF u
<1>10. u = [j \in 1..n + 1 |-> u[j]]
  BY <1>9
<1>11. \A j \in 1..n + 1 : u[j] = Member(ks[j], vs[j])
  <2> TAKE j \in 1..n + 1
  <2>1. CASE j \in 1..n
    <3>1. j <= n
      BY <1>0, <2>1
    <3>2. u[j] = ms[j] /\ ms[j] = Member(keys[j], vals[j])
      BY <1>7, <1>9, <2>1, <3>1
    <3> QED BY <1>1, <2>1, <3>2
  <2>2. CASE j = n + 1
    <3>1. ~(j <= n) /\ j - n = 1
      BY <1>0, <2>2
    <3>2. u[j] = m
      BY <1>8, <1>9, <3>1
    <3> QED BY <1>1, <2>2, <3>2 DEF m
  <2> QED BY <1>1, <2>1, <2>2
<1>12. u = Members(n + 1, ks, vs)
  BY <1>10, <1>11 DEF Members
<1> QED BY <1>3, <1>4, <1>6, <1>12 DEF Fields, u, m, ks, vs

\* What was there is still read, what was not there is still absent, and the new one is read.
LEMMA FieldsMore ==
  ASSUME NEW A, NEW key, NEW v, FieldValue(key, v, A), NEW ms
  PROVE  /\ \A k, w : HasField(ms, k, w, A) => HasField(ms \o <<Member(key, v)>>, k, w, A)
         /\ \A k : k # key /\ LacksField(ms, k, A) => LacksField(ms \o <<Member(key, v)>>, k, A)
         /\ LacksField(ms, key, A) => HasField(ms \o <<Member(key, v)>>, key, v, A)
<1> DEFINE u == ms \o <<Member(key, v)>>
<1>1. ASSUME NEW k, NEW w, HasField(ms, k, w, A) PROVE HasField(u, k, w, A)
  <2>1. PICK n, keys, vals : Fields(ms, n, keys, vals, A) /\ \E j \in 1..n : FirstOf(j, k, keys) /\ vals[j] = w
    BY <1>1 DEF HasField
  <2>2. PICK j \in 1..n : FirstOf(j, k, keys) /\ vals[j] = w
    BY <2>1
  <2> DEFINE ks == With(n, keys, key)
  <2> DEFINE vs == With(n, vals, v)
  <2>3. Fields(u, n + 1, ks, vs, A) /\ n \in Nat
    <3>1. Fields(u, n + 1, ks, vs, A)
      BY <2>1, MoreFields
    <3>2. n \in Nat
      BY <2>1 DEF Fields, IsObject
    <3> QED BY <3>1, <3>2
  <2>4. (\A i \in 1..n : ks[i] = keys[i]) /\ (\A i \in 1..n : vs[i] = vals[i]) /\ \A i \in 1..n : i \in 1..n + 1
    BY ONLY <2>3, WithIs
  <2> HIDE DEF ks, vs, u
  <2>5. FirstOf(j, k, ks)
    <3>1. \A i \in 1..j - 1 : i \in 1..n
      BY <2>3
    <3> QED BY <2>2, <2>4, <3>1 DEF FirstOf
  <2>6. j \in 1..n + 1 /\ vs[j] = w
    BY <2>2, <2>4
  <2> QED BY <2>3, <2>5, <2>6 DEF HasField
<1>2. ASSUME NEW k, k # key, LacksField(ms, k, A) PROVE LacksField(u, k, A)
  <2>1. PICK n, keys, vals : Fields(ms, n, keys, vals, A) /\ \A j \in 1..n : keys[j] # k
    BY <1>2 DEF LacksField
  <2> DEFINE ks == With(n, keys, key)
  <2> DEFINE vs == With(n, vals, v)
  <2>2. Fields(u, n + 1, ks, vs, A)
    BY <2>1, MoreFields
  <2>3. n \in Nat
    BY <2>1 DEF Fields, IsObject
  <2>4. (\A i \in 1..n : ks[i] = keys[i]) /\ ks[n + 1] = key /\ \A i \in 1..n + 1 : i \in 1..n \/ i = n + 1
    BY ONLY <2>3, WithIs
  <2> HIDE DEF ks, vs, u
  <2>5. \A j \in 1..n + 1 : ks[j] # k
    BY <1>2, <2>1, <2>4
  <2> QED BY <2>2, <2>5 DEF LacksField
<1>3. ASSUME LacksField(ms, key, A) PROVE HasField(u, key, v, A)
  <2>1. PICK n, keys, vals : Fields(ms, n, keys, vals, A) /\ \A j \in 1..n : keys[j] # key
    BY <1>3 DEF LacksField
  <2> DEFINE ks == With(n, keys, key)
  <2> DEFINE vs == With(n, vals, v)
  <2>2. Fields(u, n + 1, ks, vs, A)
    BY <2>1, MoreFields
  <2>3. n \in Nat
    BY <2>1 DEF Fields, IsObject
  <2>4. (\A i \in 1..n : ks[i] = keys[i]) /\ ks[n + 1] = key /\ vs[n + 1] = v /\ n + 1 \in 1..n + 1
    BY ONLY <2>3, WithIs
  <2> HIDE DEF ks, vs, u
  <2>5. FirstOf(n + 1, key, ks)
    <3>1. \A i \in 1..(n + 1) - 1 : i \in 1..n
      BY <2>3
    <3> QED BY <2>1, <2>4, <3>1 DEF FirstOf
  <2> QED BY <2>2, <2>4, <2>5 DEF HasField
<1> QED BY <1>1, <1>2, <1>3

\* A field read by its key, a field that is not there, and the object as a value.
LEMMA FieldReads ==
  ASSUME NEW A, NEW ms, NEW key, key \notin {DQ, BS}
  PROVE  /\ \A S : \A t \in Seq(S) : HasField(ms, key, json_quote(t), A) => StringAt(Object(ms), key) = t
         /\ \A v, B : HasField(ms, key, v, A) /\ Braced(v, B) => raw_value(Object(ms), key) = v
         /\ LacksField(ms, key, A) => StringAt(Object(ms), key) = <<>> /\ raw_value(Object(ms), key) = <<>>
<1>1. ASSUME NEW S, NEW t \in Seq(S), HasField(ms, key, json_quote(t), A) PROVE StringAt(Object(ms), key) = t
  <2>1. PICK n, keys, vals : /\ Fields(ms, n, keys, vals, A)
                             /\ \E j \in 1..n : FirstOf(j, key, keys) /\ vals[j] = json_quote(t)
    BY <1>1 DEF HasField
  <2>2. PICK j \in 1..n : FirstOf(j, key, keys) /\ vals[j] = json_quote(t)
    BY <2>1
  <2>3. IsObject(n, keys, vals, A) /\ Object(ms) = ObjectOf(n, keys, vals)
    BY <2>1 DEF Fields, ObjectOf
  <2> QED BY <2>2, <2>3, StringReads
<1>2. ASSUME NEW v, NEW B, HasField(ms, key, v, A), Braced(v, B) PROVE raw_value(Object(ms), key) = v
  <2>1. PICK n, keys, vals : Fields(ms, n, keys, vals, A) /\ \E j \in 1..n : FirstOf(j, key, keys) /\ vals[j] = v
    BY <1>2 DEF HasField
  <2>2. PICK j \in 1..n : FirstOf(j, key, keys) /\ vals[j] = v
    BY <2>1
  <2>3. IsObject(n, keys, vals, A) /\ Object(ms) = ObjectOf(n, keys, vals)
    BY <2>1 DEF Fields, ObjectOf
  <2> QED BY <1>2, <2>2, <2>3, ValueReads
<1>3. ASSUME LacksField(ms, key, A) PROVE StringAt(Object(ms), key) = <<>> /\ raw_value(Object(ms), key) = <<>>
  <2>1. PICK n, keys, vals : Fields(ms, n, keys, vals, A) /\ \A j \in 1..n : keys[j] # key
    BY <1>3 DEF LacksField
  <2>2. IsObject(n, keys, vals, A) /\ Object(ms) = ObjectOf(n, keys, vals)
    BY <2>1 DEF Fields, ObjectOf
  <2> QED BY <2>1, <2>2, AbsentReads
<1> QED BY <1>1, <1>2, <1>3

\* An object of fields is a value in brackets.
LEMMA FieldsBraced ==
  ASSUME NEW A, NEW ms, NEW key, NEW v, HasField(ms, key, v, A)
  PROVE  Braced(Object(ms), A) /\ Value(Object(ms)) /\ Object(ms) \in Seq(A) /\ Object(ms) # <<>>
<1>1. PICK n, keys, vals : Fields(ms, n, keys, vals, A)
  BY DEF HasField
<1>2. IsObject(n, keys, vals, A) /\ Object(ms) = ObjectOf(n, keys, vals)
  BY <1>1 DEF Fields, ObjectOf
<1> DEFINE w == Commas(Members(n, keys, vals))
<1> DEFINE x == <<"{", "}">>
<1>3. AtomsOf(n, keys, A) \subseteq A
  BY <1>1 DEF Fields, AtomsOf, Atomic, Opens, Closes
<1>4. Object(ms) \in Seq(AtomsOf(n, keys, A)) /\ Value(Object(ms)) /\ Object(ms) = Enclosed(x, w)
  BY <1>2, ObjectBegins
<1>5. Nested(w) /\ w \in Seq(AtomsOf(n, keys, A))
  BY <1>2, ObjectBegins
<1>x. x \in Enclosing
  BY DEF Enclosing
<1> HIDE DEF w, x
<1>6. w \in Seq(A) /\ Object(ms) \in Seq(A)
  BY <1>3, <1>4, <1>5, Wider
<1>7. Braced(Object(ms), A)
  BY <1>4, <1>5, <1>6, <1>x DEF Braced
<1>8. Object(ms) # <<>>
  <2>1. Len(Object(ms)) >= 2
    BY <1>7, BracedScan DEF BracedSeen
  <2>2. Len(<<>>) = 0
    OBVIOUS
  <2> QED BY <2>1, <2>2
<1> QED BY <1>4, <1>6, <1>7, <1>8

\* Every atom a text over S is written with.
ReplyWord == {"name", "arguments", "type", "function", "role", "assistant", "content",
              "reasoning_content", "tool_calls", "message", "text", "finish_reason"}
Written(S) == S \cup Opens \cup Closes \cup {DQ, BS, LF, "n", ":", ","} \cup ReplyWord
\* The words of the replies are neither quote nor backslash.
LEMMA ReplyWordsAre ==
  ASSUME NEW S, NEW a \in ReplyWord
  PROVE  a \in Written(S) /\ a \notin {DQ, BS}
<1>1. DQ \notin ReplyWord /\ BS \notin ReplyWord
  BY DEF ReplyWord, DQ, BS
<1> QED BY <1>1 DEF Written

\* A quoted text is a field's value.
LEMMA QuotedField ==
  ASSUME NEW S, NEW t \in Seq(S), NEW key \in Written(S), key \notin {DQ, BS}
  PROVE  FieldValue(key, json_quote(t), Written(S))
<1>1. Atoms(S) \subseteq Written(S) /\ Atomic(Written(S))
  BY DEF Atoms, Written, Atomic
<1>2. json_quote(t) \in Seq(Atoms(S)) /\ Value(json_quote(t))
  BY QuoteIs, QuotedIsValue
<1>3. json_quote(t) \in Seq(Written(S))
  BY <1>1, <1>2, Wider
<1> QED BY <1>1, <1>2, <1>3 DEF FieldValue

\* A pair, laid end to end.
LEMMA PairIs ==
  ASSUME NEW a, NEW b
  PROVE  <<a, b>> = <<a>> \o <<b>>
<1> DEFINE T == {a, b}
<1> DEFINE x == <<a>>
<1> DEFINE y == <<b>>
<1>1. x \in Seq(T) /\ y \in Seq(T) /\ Len(x) = 1 /\ Len(y) = 1 /\ x[1] = a /\ y[1] = b
  OBVIOUS
<1> HIDE DEF x, y, T
<1> DEFINE u == x \o y
<1>2. u \in Seq(T) /\ Len(u) = 1 + 1 /\ \A j \in 1..1 + 1 : u[j] = IF j <= 1 THEN x[j] ELSE y[j - 1]
  <2>1. /\ u \in Seq(T) /\ Len(u) = Len(x) + Len(y)
        /\ \A j \in 1..Len(x) + Len(y) : u[j] = IF j <= Len(x) THEN x[j] ELSE y[j - Len(x)]
    BY ONLY <1>1, ConcatProperties
  <2> HIDE DEF u
  <2> QED BY ONLY <1>1, <2>1
<1> HIDE DEF u
<1>3. Len(u) = 2 /\ u[1] = a /\ u[2] = b /\ u = [k \in 1..2 |-> u[k]]
  <2>1. 1 \in 1..1 + 1 /\ 2 \in 1..1 + 1 /\ 1 <= 1 /\ ~(2 <= 1) /\ 2 - 1 = 1 /\ 1 + 1 = 2
    OBVIOUS
  <2>2. u[1] = x[1] /\ u[2] = y[1]
    BY <1>2, <2>1
  <2>3. Len(u) = 2
    BY <1>2
  <2> QED BY <1>1, <1>2, <2>2, <2>3
<1>4. <<a, b>> = [k \in 1..2 |-> <<a, b>>[k]]
  OBVIOUS
<1>5. \A k \in 1..2 : u[k] = <<a, b>>[k]
  <2>1. 1..2 = {1, 2} /\ <<a, b>>[1] = a /\ <<a, b>>[2] = b
    OBVIOUS
  <2> QED BY <1>3, <2>1
<1>6. u = <<a, b>>
  BY <1>3, <1>4, <1>5
<1> QED BY <1>6 DEF u, x, y

\* So is a quoted word.
LEMMA WordField ==
  ASSUME NEW S, NEW key \in ReplyWord, NEW a \in ReplyWord
  PROVE  FieldValue(key, json_quote(<<a>>), Written(S))
<1> DEFINE t == <<a>>
<1>1. t \in Seq({a}) /\ key \in Written({a}) /\ key \notin {DQ, BS}
  BY ReplyWordsAre
<1>2. Written({a}) \subseteq Written(S)
  BY DEF Written
<1>3. key \in Written(S) /\ Atomic(Written(S))
  BY ReplyWordsAre DEF Written, Atomic
<1> HIDE DEF t
<1>4. FieldValue(key, json_quote(t), Written({a}))
  BY <1>1, QuotedField
<1>5. json_quote(t) \in Seq(Written(S))
  <2>1. json_quote(t) \in Seq(Written({a}))
    BY <1>4 DEF FieldValue
  <2> QED BY <1>2, <2>1, Wider
<1>6. FieldValue(key, json_quote(t), Written(S))
  BY <1>3, <1>4, <1>5 DEF FieldValue
<1> QED BY <1>6 DEF t

\* A call as the server writes it is the call a reader finds.
CallSet(S) == [name : Seq(S), arguments : Seq(S)]
\* It is found whatever its name and its arguments hold.
LEMMA CallReadsBack ==
  ASSUME NEW S, NEW c \in CallSet(S)
  PROVE  /\ CallOf(CallJson(c)) = c
         /\ Braced(CallJson(c), Written(S)) /\ CallJson(c) \in Seq(Written(S))
<1> DEFINE A == Written(S)
<1> DEFINE kind == <<"function">>
<1> DEFINE inner == <<Member("name", json_quote(c.name)), Member("arguments", json_quote(c.arguments))>>
<1> DEFINE outer == <<Member("type", json_quote(kind)), Member("function", Object(inner))>>
<1>0. c.name \in Seq(S) /\ c.arguments \in Seq(S) /\ c = [name |-> c.name, arguments |-> c.arguments]
  BY DEF CallSet
<1>k. /\ "name" \in A /\ "arguments" \in A /\ "type" \in A /\ "function" \in A
      /\ "name" \notin {DQ, BS} /\ "arguments" \notin {DQ, BS} /\ "type" \notin {DQ, BS} /\ "function" \notin {DQ, BS}
  BY ReplyWordsAre DEF ReplyWord
<1>1. FieldValue("name", json_quote(c.name), A) /\ FieldValue("arguments", json_quote(c.arguments), A)
  <2>1. "name" \in Written(S) /\ "arguments" \in Written(S)
    BY <1>k
  <2> QED BY <1>0, <1>k, <2>1, QuotedField
<1>2. FieldValue("type", json_quote(kind), A)
  BY <1>k, WordField DEF ReplyWord
<1> HIDE DEF A, kind
<1>3. HasField(inner, "name", json_quote(c.name), A) /\ HasField(inner, "arguments", json_quote(c.arguments), A)
  <2> DEFINE ms == <<Member("name", json_quote(c.name))>>
  <2>1. HasField(ms, "name", json_quote(c.name), A) /\ LacksField(ms, "arguments", A)
    BY <1>1, OneField
  <2>2. inner = ms \o <<Member("arguments", json_quote(c.arguments))>>
    BY PairIs
  <2> HIDE DEF ms, inner
  <2> QED BY <1>1, <2>1, <2>2, FieldsMore
<1> HIDE DEF inner
<1>4. StringAt(Object(inner), "name") = c.name /\ StringAt(Object(inner), "arguments") = c.arguments
  BY <1>0, <1>3, <1>k, FieldReads
<1>5. Braced(Object(inner), A) /\ Value(Object(inner)) /\ Object(inner) \in Seq(A) /\ Object(inner) # <<>>
  BY <1>3, FieldsBraced
<1>6. FieldValue("function", Object(inner), A)
  BY <1>1, <1>5, <1>k DEF FieldValue
<1>7. HasField(outer, "function", Object(inner), A)
  <2> DEFINE ms == <<Member("type", json_quote(kind))>>
  <2>1. LacksField(ms, "function", A)
    BY <1>2, OneField
  <2>2. outer = ms \o <<Member("function", Object(inner))>>
    BY PairIs
  <2> HIDE DEF ms, outer
  <2> QED BY <1>6, <2>1, <2>2, FieldsMore
<1>8. CallJson(c) = Object(outer)
  BY DEF CallJson, outer, inner, kind
<1> HIDE DEF outer
<1>9. raw_value(CallJson(c), "function") = Object(inner)
  BY <1>5, <1>7, <1>8, <1>k, FieldReads
<1>10. CallOf(CallJson(c)) = c
  BY <1>0, <1>4, <1>5, <1>9 DEF CallOf, FunctionOf, Signature
<1>11. Braced(CallJson(c), A) /\ CallJson(c) \in Seq(A)
  BY <1>7, <1>8, FieldsBraced
<1> QED BY <1>10, <1>11 DEF A

\* Nothing laid after the members changes nothing.
LEMMA NoMore ==
  ASSUME NEW A, NEW ms, NEW key, NEW v, HasField(ms, key, v, A)
  PROVE  ms \o <<>> = ms /\ <<>> \o ms = ms
<1>1. PICK n, keys, vals : Fields(ms, n, keys, vals, A)
  BY DEF HasField
<1>2. n \in Nat /\ ms = [j \in 1..n |-> Member(keys[j], vals[j])]
  BY <1>1 DEF Fields, IsObject, Members
<1> DEFINE T == {ms[j] : j \in 1..n}
<1>3. ms \in [1..n -> T]
  <2>1. ms = [j \in 1..n |-> ms[j]]
    BY <1>2
  <2> QED BY <2>1
<1> HIDE DEF T
<1>4. ms \in Seq(T)
  BY <1>2, <1>3
<1> QED BY <1>4, ConcatEmptySeq

\* A delta of a stream is read back under its channel, whether or not it opens the stream.
THEOREM DeltaReadsBack ==
  ASSUME NEW S, NEW piece \in Seq(S), NEW channel, channel \notin {DQ, BS, "role"}, NEW opened \in BOOLEAN
  PROVE  StringAt(DeltaJson(channel, piece, opened), channel) = piece
<1> DEFINE T == S \cup {channel}
<1> DEFINE A == Written(T)
<1> DEFINE m == Member(channel, json_quote(piece))
<1>0. piece \in Seq(T) /\ channel \in Written(T)
  BY Wider DEF Written
<1> HIDE DEF T
<1>1. FieldValue(channel, json_quote(piece), A) /\ channel \notin {DQ, BS}
  BY <1>0, QuotedField
<1>2. FieldValue("role", json_quote(<<"assistant">>), A)
  BY WordField DEF ReplyWord
<1> HIDE DEF A
<1>3. HasField(<<m>>, channel, json_quote(piece), A)
  BY <1>1, OneField
<1>4. CASE opened
  <2>1. DeltaJson(channel, piece, opened) = Object(<<m>>)
    <3>1. DeltaJson(channel, piece, opened) = Object(<<>> \o <<m>>)
      BY <1>4 DEF DeltaJson
    <3>2. <<>> \o <<m>> = <<m>>
      BY <1>3, NoMore
    <3> QED BY <3>1, <3>2
  <2> HIDE DEF m
  <2> QED BY <1>1, <1>3, <2>1, FieldReads
<1>5. CASE ~opened
  <2> DEFINE ms == <<Member("role", json_quote(<<"assistant">>))>>
  <2>1. LacksField(ms, channel, A)
    BY <1>2, OneField
  <2>2. HasField(ms \o <<m>>, channel, json_quote(piece), A)
    <3> HIDE DEF ms
    <3> QED BY <1>1, <2>1, FieldsMore
  <2>3. DeltaJson(channel, piece, opened) = Object(ms \o <<m>>)
    BY <1>5 DEF DeltaJson
  <2> HIDE DEF m, ms
  <2> QED BY <1>1, <2>2, <2>3, FieldReads
<1> QED BY <1>4, <1>5

\* The calls of a message, each with a name, as the array of them is read.
NamedAll(calls, S) == calls \in Seq(CallSet(S)) /\ \A k \in DOMAIN calls : calls[k].name # <<>>
CallTexts(calls) == [k \in DOMAIN calls |-> CallJson(calls[k])]
\* They are the calls.
LEMMA CallsAre ==
  ASSUME NEW S, NEW calls, NamedAll(calls, S)
  PROVE  NamedCalls(CallTexts(calls)) = calls
<1> DEFINE n == Len(calls)
<1> DEFINE T == CallSet(S)
<1> DEFINE tcs == CallTexts(calls)
<1>1. n \in Nat /\ DOMAIN calls = 1..n /\ calls \in [1..n -> T]
  BY LenProperties DEF NamedAll
<1>2. DOMAIN tcs = 1..n /\ \A k \in 1..n : tcs[k] = CallJson(calls[k])
  BY <1>1 DEF CallTexts
<1> HIDE DEF tcs
<1> DEFINE W == [k \in DOMAIN tcs |-> IF CallOf(tcs[k]).name = <<>> THEN <<>> ELSE <<CallOf(tcs[k])>>]
<1>3. ASSUME NEW k \in 1..n PROVE W[k] = <<calls[k]>>
  <2>1. calls[k] \in T /\ calls[k].name # <<>>
    BY <1>1 DEF NamedAll
  <2>2. CallOf(tcs[k]) = calls[k]
    BY <1>2, <2>1, CallReadsBack
  <2> QED BY <1>2, <2>1, <2>2
<1>4. DOMAIN W = 1..n /\ W = [k \in 1..n |-> W[k]]
  BY <1>2
<1>5. NamedCalls(tcs) = FlattenSeq(W)
  BY DEF NamedCalls, Flat
<1> DEFINE pos == [j \in 1..n |-> j]
<1>6. pos \in [1..n -> 1..n] /\ \A j \in 1..n : pos[j] = j
  OBVIOUS
<1> HIDE DEF W, pos, T
<1>7. \A i \in 1..n : \A j \in i + 1..n : pos[i] < pos[j]
  <2> TAKE i \in 1..n
  <2> TAKE j \in i + 1..n
  <2>1. n \in Nat
    BY <1>1
  <2>2. j \in 1..n /\ i < j
    BY <2>1
  <2> QED BY <1>6, <2>2
<1>8. \A k \in 1..n : ~\A j \in 1..n : pos[j] # k
  BY <1>6
<1>9. SomeOf(n, pos, calls, W, n, T)
  BY <1>1, <1>3, <1>4, <1>6, <1>7, <1>8 DEF SomeOf
<1> QED BY <1>5, <1>9, SomeFlat DEF tcs

\* The array is a field of the message.
LEMMA CallsField ==
  ASSUME NEW S, NEW calls, NamedAll(calls, S), calls # <<>>
  PROVE  /\ FieldValue("tool_calls", Array(CallTexts(calls)), Written(S))
         /\ Braced(Array(CallTexts(calls)), Written(S))
         /\ raw_elements(Array(CallTexts(calls))) = CallTexts(calls)
         /\ CallsMember(calls) = <<Member("tool_calls", Array(CallTexts(calls)))>>
<1> DEFINE n == Len(calls)
<1> DEFINE A == Written(S)
<1> DEFINE tcs == CallTexts(calls)
<1> DEFINE x == <<"[", "]">>
<1>1. n \in Nat \ {0} /\ DOMAIN calls = 1..n /\ \A k \in 1..n : calls[k] \in CallSet(S)
  <2>1. calls \in Seq(CallSet(S))
    BY DEF NamedAll
  <2> QED BY <2>1, LenProperties, EmptySeq
<1>2. tcs = [k \in 1..n |-> tcs[k]] /\ \A k \in 1..n : tcs[k] = CallJson(calls[k])
  BY <1>1 DEF CallTexts
<1>a. Opens \cup Closes \cup {","} \subseteq A /\ Atomic(A)
  BY DEF Written, Atomic
<1> HIDE DEF tcs
<1>3. \A k \in 1..n : Braced(tcs[k], A) /\ tcs[k] \in Seq(A)
  BY <1>1, <1>2, CallReadsBack
<1> HIDE DEF A, n
<1>4. tcs \in [1..n -> Seq(A)]
  BY <1>2, <1>3
<1>5. IsArray(n, tcs, A)
  BY <1>1, <1>3, <1>4, <1>a DEF IsArray
<1> DEFINE w == Commas(tcs)
<1>6. raw_elements(Array(tcs)) = tcs /\ Nested(w) /\ w \in Seq(A) /\ Array(tcs) = Enclosed(x, w)
  BY <1>5, ElementsAre
<1>7. x \in Enclosing
  BY DEF Enclosing
<1> HIDE DEF x, w
<1>8. Braced(Array(tcs), A)
  BY <1>6, <1>7 DEF Braced
<1>9. Value(Array(tcs)) /\ Array(tcs) \in Seq(A)
  <2>1. Value(Array(tcs)) /\ Array(tcs) \in Seq(A \cup Opens \cup Closes)
    BY <1>8, BracedScan
  <2>2. A \cup Opens \cup Closes \subseteq A
    BY <1>a
  <2> QED BY <2>1, <2>2, Wider
<1>10. FieldValue("tool_calls", Array(tcs), A)
  <2>1. "tool_calls" \in A /\ "tool_calls" \notin {DQ, BS}
    BY ReplyWordsAre DEF A, ReplyWord
  <2> QED BY <1>9, <1>a, <2>1 DEF FieldValue
<1>11. CallsMember(calls) = <<Member("tool_calls", Array(tcs))>>
  BY DEF CallsMember, CallTexts, tcs
<1> QED BY <1>6, <1>8, <1>10, <1>11 DEF A, tcs

\* The message of a reply: what a reader finds in it.
MessageReads(m, res) ==
  /\ StringAt(m, "content") = res.content
  /\ StringAt(m, "reasoning_content") = res.reasoning
  /\ NamedCalls(raw_elements(raw_value(m, "tool_calls"))) = res.calls
Replied(res, S) ==
  /\ res.content \in Seq(S) /\ res.reasoning \in Seq(S) /\ NamedAll(res.calls, S) /\ res.finish \in S
MessageOf(res) ==
  <<Member("role", json_quote(<<"assistant">>)), Member("content", json_quote(res.content))>>
    \o (IF res.reasoning = <<>> THEN <<>> ELSE <<Member("reasoning_content", json_quote(res.reasoning))>>)
    \o CallsMember(res.calls)
\* No calls are read where there are none.
LEMMA NoCalls ==
  /\ raw_elements(<<>>) = <<>> /\ NamedCalls(<<>>) = <<>>
<1>1. \A W : DOMAIN W = {} /\ W = <<>> => FlattenSeq(W) = <<>>
  <2> TAKE W
  <2> HAVE DOMAIN W = {} /\ W = <<>>
  <2>1. W \in [1..0 -> Seq({})]
    OBVIOUS
  <2>2. PICK f, e : FlatWalk(f, e, W, 0, {})
    BY <2>1, FlatWalks
  <2> QED BY <2>2 DEF FlatWalk
<1>2. \A y : [k \in DOMAIN <<>> |-> y] = <<>>
  OBVIOUS
<1>3. DOMAIN <<>> = {}
  OBVIOUS
<1>4. raw_elements(<<>>) = <<>>
  <2> DEFINE q == Scan(<<>>, Opens, Closes)
  <2> DEFINE W == [k \in DOMAIN <<>> |-> Element(<<>>, q, k)]
  <2>1. DOMAIN W = {} /\ W = <<>>
    BY <1>3
  <2>2. raw_elements(<<>>) = FlattenSeq(W)
    BY DEF raw_elements, Flat
  <2> HIDE DEF W
  <2> QED BY <1>1, <2>1, <2>2
<1>5. NamedCalls(<<>>) = <<>>
  <2> DEFINE W == [k \in DOMAIN <<>> |-> IF CallOf(<<>>[k]).name = <<>> THEN <<>> ELSE <<CallOf(<<>>[k])>>]
  <2>1. DOMAIN W = {} /\ W = <<>>
    BY <1>3
  <2>2. NamedCalls(<<>>) = FlattenSeq(W)
    BY DEF NamedCalls, Flat
  <2> HIDE DEF W
  <2> QED BY <1>1, <2>1, <2>2
<1> QED BY <1>4, <1>5

\* The calls read of a message.
LEMMA CallsRead ==
  ASSUME NEW S, NEW calls, NamedAll(calls, S), NEW ms, NEW v, HasField(ms, "content", v, Written(S)),
         LacksField(ms, "tool_calls", Written(S))
  PROVE  NamedCalls(raw_elements(raw_value(Object(ms \o CallsMember(calls)), "tool_calls"))) = calls
<1>k. "tool_calls" \notin {DQ, BS}
  BY ReplyWordsAre DEF ReplyWord
<1>1. CASE calls = <<>>
  <2>1. ms \o CallsMember(calls) = ms
    BY <1>1, NoMore DEF CallsMember
  <2>2. raw_value(Object(ms), "tool_calls") = <<>>
    BY <1>k, FieldReads
  <2> QED BY <1>1, <2>1, <2>2, NoCalls
<1>2. CASE calls # <<>>
  <2> DEFINE y == Array(CallTexts(calls))
  <2>1. /\ FieldValue("tool_calls", y, Written(S)) /\ Braced(y, Written(S))
        /\ raw_elements(y) = CallTexts(calls) /\ CallsMember(calls) = <<Member("tool_calls", y)>>
    BY <1>2, CallsField
  <2> HIDE DEF y
  <2>2. HasField(ms \o <<Member("tool_calls", y)>>, "tool_calls", y, Written(S))
    BY <2>1, FieldsMore
  <2>3. raw_value(Object(ms \o <<Member("tool_calls", y)>>), "tool_calls") = y
    BY <1>k, <2>1, <2>2, FieldReads
  <2> QED BY <2>1, <2>3, CallsAre
<1> QED BY <1>1, <1>2

\* They leave the other fields as they were.
LEMMA CallsLeave ==
  ASSUME NEW S, NEW calls, NamedAll(calls, S), NEW ms, NEW key, key # "tool_calls", NEW v,
         HasField(ms, "content", v, Written(S))
  PROVE  /\ \A w : HasField(ms, key, w, Written(S)) => HasField(ms \o CallsMember(calls), key, w, Written(S))
         /\ LacksField(ms, key, Written(S)) => LacksField(ms \o CallsMember(calls), key, Written(S))
<1>1. CASE calls = <<>>
  <2>1. ms \o CallsMember(calls) = ms
    BY <1>1, NoMore DEF CallsMember
  <2> QED BY <2>1
<1>2. CASE calls # <<>>
  <2> DEFINE y == Array(CallTexts(calls))
  <2>1. FieldValue("tool_calls", y, Written(S)) /\ CallsMember(calls) = <<Member("tool_calls", y)>>
    BY <1>2, CallsField
  <2> HIDE DEF y
  <2> QED BY <2>1, FieldsMore
<1> QED BY <1>1, <1>2

\* A reader finds in it what was written.
LEMMA MessageIs ==
  ASSUME NEW S, NEW res, Replied(res, S)
  PROVE  /\ HasField(MessageOf(res), "content", json_quote(res.content), Written(S))
         /\ MessageReads(Object(MessageOf(res)), res)
<1> DEFINE A == Written(S)
<1> DEFINE ms == <<Member("role", json_quote(<<"assistant">>)), Member("content", json_quote(res.content))>>
<1> DEFINE R == IF res.reasoning = <<>> THEN <<>> ELSE <<Member("reasoning_content", json_quote(res.reasoning))>>
<1>0. res.content \in Seq(S) /\ res.reasoning \in Seq(S) /\ NamedAll(res.calls, S)
  BY DEF Replied
<1>k. /\ \A k \in ReplyWord : k \in A /\ k \notin {DQ, BS}
      /\ "role" \in ReplyWord /\ "content" \in ReplyWord /\ "reasoning_content" \in ReplyWord /\ "tool_calls" \in ReplyWord
  BY ReplyWordsAre DEF ReplyWord
<1>1. /\ FieldValue("role", json_quote(<<"assistant">>), A) /\ FieldValue("content", json_quote(res.content), A)
      /\ FieldValue("reasoning_content", json_quote(res.reasoning), A)
  <2>1. FieldValue("role", json_quote(<<"assistant">>), A)
    BY WordField DEF ReplyWord
  <2>2. FieldValue("content", json_quote(res.content), A)
    BY <1>0, <1>k, QuotedField
  <2>3. FieldValue("reasoning_content", json_quote(res.reasoning), A)
    BY <1>0, <1>k, QuotedField
  <2> QED BY <2>1, <2>2, <2>3
<1>2. /\ HasField(ms, "content", json_quote(res.content), A)
      /\ LacksField(ms, "reasoning_content", A) /\ LacksField(ms, "tool_calls", A)
  <2> DEFINE m1 == <<Member("role", json_quote(<<"assistant">>))>>
  <2>1. LacksField(m1, "content", A) /\ LacksField(m1, "reasoning_content", A) /\ LacksField(m1, "tool_calls", A)
    BY <1>1, OneField
  <2>2. ms = m1 \o <<Member("content", json_quote(res.content))>>
    BY PairIs
  <2> HIDE DEF m1, ms, A
  <2> QED BY <1>1, <2>1, <2>2, FieldsMore
<1> HIDE DEF ms, A
<1> DEFINE m2 == ms \o R
<1>3. /\ HasField(m2, "content", json_quote(res.content), A) /\ LacksField(m2, "tool_calls", A)
      /\ res.reasoning = <<>> => LacksField(m2, "reasoning_content", A)
      /\ res.reasoning # <<>> => HasField(m2, "reasoning_content", json_quote(res.reasoning), A)
  <2>1. CASE res.reasoning = <<>>
    <3>1. m2 = ms
      BY <1>2, <2>1, NoMore
    <3> HIDE DEF m2
    <3> QED BY <1>2, <2>1, <3>1
  <2>2. CASE res.reasoning # <<>>
    <3>1. m2 = ms \o <<Member("reasoning_content", json_quote(res.reasoning))>>
      BY <2>2
    <3> HIDE DEF m2, R
    <3> QED BY <1>1, <1>2, <2>2, <3>1, FieldsMore
  <2> HIDE DEF m2
  <2> QED BY <2>1, <2>2
<1>4. MessageOf(res) = m2 \o CallsMember(res.calls)
  BY DEF MessageOf, ms
<1> HIDE DEF m2
<1> DEFINE m3 == m2 \o CallsMember(res.calls)
<1>5. /\ HasField(m3, "content", json_quote(res.content), A)
      /\ res.reasoning = <<>> => LacksField(m3, "reasoning_content", A)
      /\ res.reasoning # <<>> => HasField(m3, "reasoning_content", json_quote(res.reasoning), A)
  BY <1>0, <1>3, CallsLeave DEF A
<1>6. NamedCalls(raw_elements(raw_value(Object(m3), "tool_calls"))) = res.calls
  BY <1>0, <1>3, CallsRead DEF A
<1> HIDE DEF m3
<1>7. StringAt(Object(m3), "content") = res.content
  BY <1>0, <1>5, <1>k, FieldReads
<1>8. StringAt(Object(m3), "reasoning_content") = res.reasoning
  <2>1. CASE res.reasoning = <<>>
    BY <1>5, <1>k, <2>1, FieldReads
  <2>2. CASE res.reasoning # <<>>
    BY <1>0, <1>5, <1>k, <2>2, FieldReads
  <2> QED BY <2>1, <2>2
<1> QED BY <1>4, <1>5, <1>6, <1>7, <1>8 DEF MessageReads, m3, A

\* Nothing is read of an empty object.
LEMMA BareReads ==
  ASSUME NEW key
  PROVE  raw_value(Object(<<>>), key) = <<>>
<1> DEFINE s == Object(<<>>)
<1>1. s = <<"{", "}">>
  <2> DEFINE W == [k \in 1..2 * Len(<<>>) - 1 |-> IF k % 2 = 1 THEN <<>>[(k + 1) \div 2] ELSE <<",">>]
  <2>1. W \in [1..0 -> Seq({})] /\ W = <<>>
    <3>1. 1..2 * Len(<<>>) - 1 = {}
      OBVIOUS
    <3> QED BY <3>1
  <2>2. Commas(<<>>) = FlattenSeq(W)
    BY DEF Commas, Joined, Flat
  <2> HIDE DEF W
  <2>3. PICK f, e : FlatWalk(f, e, W, 0, {})
    BY <2>1, FlatWalks
  <2>4. Commas(<<>>) = <<>>
    BY <2>2, <2>3 DEF FlatWalk
  <2>5. <<"{">> \o <<>> = <<"{">>
    BY ConcatEmptySeq
  <2> QED BY <2>4, <2>5, PairIs DEF Object
<1>2. Len(s) = 2 /\ DOMAIN s = 1..2
  <2>1. Len(<<"{", "}">>) = 2 /\ DOMAIN <<"{", "}">> = 1..2
    OBVIOUS
  <2> HIDE DEF s
  <2> QED BY <1>1, <2>1
<1> HIDE DEF s
<1>3. ASSUME NEW i \in 1..2 PROVE ~MatchAt(s, i, <<DQ, key, DQ>>)
  <2>1. i \in Nat /\ ~(i + 2 <= 2)
    OBVIOUS
  <2> QED BY <1>2, <2>1, MatchKey
<1>4. TopKeys(s, key, Scan(s, Opens, Closes)) = {}
  BY <1>2, <1>3 DEF TopKeys
<1>5. find_top_key(s, key) = 0
  BY <1>4 DEF find_top_key, AfterColon
<1> QED BY <1>5 DEF raw_value, ValueFrom, s

\* The calls in the last event of a stream.
LEMMA EventReads ==
  ASSUME NEW S, NEW calls, NamedAll(calls, S)
  PROVE  NamedCalls(raw_elements(raw_value(Object(CallsMember(calls)), "tool_calls"))) = calls
<1>k. "tool_calls" \notin {DQ, BS}
  BY ReplyWordsAre DEF ReplyWord
<1>1. CASE calls = <<>>
  <2>1. CallsMember(calls) = <<>>
    BY <1>1 DEF CallsMember
  <2> QED BY <1>1, <2>1, BareReads, NoCalls
<1>2. CASE calls # <<>>
  <2> DEFINE y == Array(CallTexts(calls))
  <2>1. /\ FieldValue("tool_calls", y, Written(S)) /\ Braced(y, Written(S))
        /\ raw_elements(y) = CallTexts(calls) /\ CallsMember(calls) = <<Member("tool_calls", y)>>
    BY <1>2, CallsField
  <2> HIDE DEF y
  <2>2. HasField(<<Member("tool_calls", y)>>, "tool_calls", y, Written(S))
    BY <2>1, OneField
  <2>3. raw_value(Object(<<Member("tool_calls", y)>>), "tool_calls") = y
    BY <1>k, <2>1, <2>2, FieldReads
  <2> QED BY <2>1, <2>3, CallsAre
<1> QED BY <1>1, <1>2

\* The reply to a chat: content, reasoning, calls and finish reason are read as they were
\* given; the reply to a completion: text and finish reason.
THEOREM ReplyReadsBack ==
  ASSUME NEW S, NEW res, Replied(res, S)
  PROVE  /\ MessageReads(raw_value(ReplyJson(res, TRUE), "message"), res)
         /\ StringAt(ReplyJson(res, FALSE), "text") = res.content
         /\ \A chat \in BOOLEAN : StringAt(ReplyJson(res, chat), "finish_reason") = <<res.finish>>
         /\ NamedCalls(raw_elements(raw_value(Object(CallsMember(res.calls)), "tool_calls"))) = res.calls
<1> DEFINE A == Written(S)
<1> DEFINE msg == Object(MessageOf(res))
<1> DEFINE fin == Member("finish_reason", json_quote(<<res.finish>>))
<1>0. res.content \in Seq(S) /\ <<res.finish>> \in Seq(S)
  BY DEF Replied
<1>k. /\ \A k \in ReplyWord : k \in A /\ k \notin {DQ, BS}
      /\ "message" \in ReplyWord /\ "text" \in ReplyWord /\ "finish_reason" \in ReplyWord
  BY ReplyWordsAre DEF ReplyWord
<1>1. MessageReads(msg, res) /\ Braced(msg, A) /\ Value(msg) /\ msg \in Seq(A)
  BY MessageIs, FieldsBraced
<1>2. FieldValue("finish_reason", json_quote(<<res.finish>>), A) /\ FieldValue("text", json_quote(res.content), A)
  <2>1. FieldValue("finish_reason", json_quote(<<res.finish>>), A)
    <3> DEFINE t == <<res.finish>>
    <3>1. t \in Seq(S)
      BY <1>0
    <3> HIDE DEF t
    <3>2. FieldValue("finish_reason", json_quote(t), A)
      BY <1>k, <3>1, QuotedField
    <3> QED BY <3>2 DEF t
  <2>2. FieldValue("text", json_quote(res.content), A)
    BY <1>0, <1>k, QuotedField
  <2> QED BY <2>1, <2>2
<1>3. FieldValue("message", msg, A)
  BY <1>1, <1>2, <1>k DEF FieldValue
<1>4. /\ ReplyJson(res, TRUE) = Object(<<Member("message", msg), fin>>)
      /\ ReplyJson(res, FALSE) = Object(<<Member("text", json_quote(res.content)), fin>>)
  BY DEF ReplyJson, MessageOf
<1> HIDE DEF msg, fin, A
<1>5. ASSUME NEW key \in {"message", "text"}, NEW v, FieldValue(key, v, A)
      PROVE  /\ HasField(<<Member(key, v), fin>>, key, v, A)
             /\ HasField(<<Member(key, v), fin>>, "finish_reason", json_quote(<<res.finish>>), A)
  <2> DEFINE ms == <<Member(key, v)>>
  <2>1. HasField(ms, key, v, A) /\ LacksField(ms, "finish_reason", A)
    BY <1>5, OneField
  <2>2. <<Member(key, v), fin>> = ms \o <<fin>>
    BY PairIs
  <2> HIDE DEF ms
  <2> QED BY <1>2, <2>1, <2>2, FieldsMore DEF fin
<1>f. StringAt(ReplyJson(res, TRUE), "finish_reason") = <<res.finish>> /\ raw_value(ReplyJson(res, TRUE), "message") = msg
  <2> DEFINE ms == <<Member("message", msg), fin>>
  <2>1. HasField(ms, "message", msg, A) /\ HasField(ms, "finish_reason", json_quote(<<res.finish>>), A)
    BY <1>3, <1>5
  <2> HIDE DEF ms
  <2>2. StringAt(Object(ms), "finish_reason") = <<res.finish>> /\ raw_value(Object(ms), "message") = msg
    BY <1>0, <1>1, <1>k, <2>1, FieldReads
  <2> QED BY <1>4, <2>2 DEF ms
<1>g. StringAt(ReplyJson(res, FALSE), "finish_reason") = <<res.finish>> /\ StringAt(ReplyJson(res, FALSE), "text") = res.content
  <2> DEFINE ms == <<Member("text", json_quote(res.content)), fin>>
  <2>1. HasField(ms, "text", json_quote(res.content), A) /\ HasField(ms, "finish_reason", json_quote(<<res.finish>>), A)
    BY <1>2, <1>5
  <2> HIDE DEF ms
  <2>2. StringAt(Object(ms), "finish_reason") = <<res.finish>> /\ StringAt(Object(ms), "text") = res.content
    BY <1>0, <1>k, <2>1, FieldReads
  <2> QED BY <1>4, <2>2 DEF ms
<1>h. NamedCalls(raw_elements(raw_value(Object(CallsMember(res.calls)), "tool_calls"))) = res.calls
  BY EventReads DEF Replied
<1> QED BY <1>1, <1>f, <1>g, <1>h

=============================================================================
