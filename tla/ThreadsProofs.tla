---------------------------- MODULE ThreadsProofs ----------------------------
(***************************************************************************)
(* Proofs about the three protocols that join threads without a lock.        *)
(*                                                                         *)
(* ThreadPool: for any number of workers and regions, the pool is          *)
(* fork-join, and no worker touches the caller's function after the call   *)
(* has returned.                                                           *)
(*                                                                         *)
(* TpAllReduce: two slots are enough.  For any number of ranks, any        *)
(* sequence of grids whose counters stay in step (ParityAssumption) and    *)
(* any host lookahead, a block reduces this collective's data.  TpInv is   *)
(* inductive; the argument is the one tp_allreduce.h sketches ("HOW MANY   *)
(* SLOTS"), with the parts a change of grid needs.                         *)
(*                                                                         *)
(* KvGrow: two threads extend the same spans without a lock; what          *)
(* kv_backed_ publishes is backed all the same, and rows are written       *)
(* inside it.                                                              *)
(***************************************************************************)
EXTENDS ThreadPool, TpAllReduce, KvGrow, FiniteSetTheorems, TLAPS

-----------------------------------------------------------------------------
(* The host thread pool.                                                   *)

\* The workers that owe the region are finitely many.
LEMMA OwingIsFinite == IsFiniteSet(Owing) /\ Cardinality(Owing) \in Nat
  <1>1. Owing \in SUBSET Worker BY DEF Owing
  <1> QED BY <1>1, FS_Subset, FS_CardinalityType, PoolAssumption

\* The pool starts in the invariant.
LEMMA PoolInitInv == PoolInit => PoolInv
  <1> SUFFICES ASSUME PoolInit PROVE PoolInv OBVIOUS
  <1> USE DEF PoolInit
  <1>1. PoolTypeOK BY DEF PoolTypeOK, Labels, CallerLabels
  <1>2. WorkersKeepUp BY DEF WorkersKeepUp, Party
  <1>3. CounterCounts BY DEF CounterCounts, InCall, Owing
  <1>4. CallerKeepsOrder BY PoolAssumption DEF CallerKeepsOrder, InCall, Party
  <1> QED BY <1>1, <1>2, <1>3, <1>4 DEF PoolInv

\* Steps of a worker that neither read a region nor run or count one.
Quiet(w) == \/ Announce(w) \/ Lock(w) \/ Check(w) \/ Park(w) \/ Spurious(w) \/ Leave(w)
            \/ Top(w) \/ Reload(w)

\* A worker's step that only moves it keeps the invariant.
LEMMA QuietInv ==
  ASSUME PoolInv, NEW v \in Worker, Quiet(v) PROVE PoolInv'
  <1> USE DEF Quiet, Announce, Lock, Check, Park, Spurious, Leave, Top, Reload, Goto
  <1>0. PoolTypeOK /\ WorkersKeepUp /\ CounterCounts /\ CallerKeepsOrder BY DEF PoolInv
  <1>1. PoolTypeOK' BY <1>0 DEF PoolTypeOK, Labels
  <1>2. WorkersKeepUp' BY <1>0 DEF WorkersKeepUp, PoolTypeOK
  <1>3. Owing' = Owing BY <1>0 DEF Owing, PoolTypeOK
  <1>4. CounterCounts' BY <1>0, <1>3 DEF CounterCounts, InCall
  <1>5. CallerKeepsOrder' BY <1>0 DEF CallerKeepsOrder, InCall, PoolTypeOK
  <1> QED BY <1>1, <1>2, <1>4, <1>5 DEF PoolInv

\* A worker that takes up the region goes on owing it.
LEMMA GoInv ==
  ASSUME PoolInv, NEW v \in Worker, Go(v) PROVE PoolInv'
  <1> USE DEF Go, Goto
  <1>0. PoolTypeOK /\ WorkersKeepUp /\ CounterCounts /\ CallerKeepsOrder BY DEF PoolInv
  <1>1. PoolTypeOK' BY <1>0 DEF PoolTypeOK, Labels
  <1>2. ~stop => v \in Owing BY <1>0 DEF WorkersKeepUp, PoolTypeOK, Owing
  <1>3. ~stop => dpc \notin {"idle", "bump"} /\ epoch = region
    BY <1>0, <1>2 DEF CounterCounts, CallerKeepsOrder
  <1>4. WorkersKeepUp' BY <1>0, <1>3 DEF WorkersKeepUp, PoolTypeOK
  <1>5. Owing' = Owing BY <1>0 DEF Owing, PoolTypeOK, WorkersKeepUp
  <1>6. CounterCounts' BY <1>0, <1>5 DEF CounterCounts, InCall
  <1>7. CallerKeepsOrder' BY <1>0 DEF CallerKeepsOrder, InCall, PoolTypeOK
  <1> QED BY <1>1, <1>4, <1>6, <1>7 DEF PoolInv

\* A worker that ran its chunk still owes its count.
LEMMA RunChunkInv ==
  ASSUME PoolInv, NEW v \in Worker, RunChunk(v) PROVE PoolInv'
  <1> USE DEF RunChunk, Goto
  <1>0. PoolTypeOK /\ WorkersKeepUp /\ CounterCounts /\ CallerKeepsOrder BY DEF PoolInv
  <1>1. PoolTypeOK' BY <1>0, PoolAssumption DEF PoolTypeOK, Labels, Party
  <1>2. v \in Owing /\ v # Caller BY PoolAssumption DEF Owing
  <1>3. ~stop /\ epoch = region BY <1>0, <1>2 DEF CounterCounts, CallerKeepsOrder
  <1>4. WorkersKeepUp' BY <1>0, <1>3 DEF WorkersKeepUp, PoolTypeOK, Party
  <1>5. Owing' = Owing BY <1>0 DEF Owing, PoolTypeOK
  <1>6. CounterCounts' BY <1>0, <1>5 DEF CounterCounts, InCall
  <1>7. CallerKeepsOrder' BY <1>0, <1>2, <1>3 DEF CallerKeepsOrder, InCall, PoolTypeOK, Party
  <1> QED BY <1>1, <1>4, <1>6, <1>7 DEF PoolInv

\* A worker that counts down leaves those that owe, and the counter follows.
LEMMA CountDownInv ==
  ASSUME PoolInv, NEW v \in Worker, CountDown(v) PROVE PoolInv'
  <1> USE DEF CountDown, Goto
  <1>0. PoolTypeOK /\ WorkersKeepUp /\ CounterCounts /\ CallerKeepsOrder BY DEF PoolInv
  <1>1. v \in Owing BY DEF Owing
  <1>2. InCall /\ ~stop
    BY <1>0, <1>1 DEF CounterCounts, CallerKeepsOrder, PoolTypeOK, CallerLabels, InCall
  <1>3. Owing' = Owing \ {v} BY <1>0 DEF Owing, PoolTypeOK, WorkersKeepUp
  <1>4. Cardinality(Owing \ {v}) = Cardinality(Owing) - 1
    BY <1>1, OwingIsFinite, FS_RemoveElement
  <1>5. remaining = Cardinality(Owing) /\ Cardinality(Owing \ {v}) \in Nat
    <2>1. IsFiniteSet(Owing \ {v}) BY OwingIsFinite, FS_RemoveElement
    <2> QED BY <1>0, <1>2, <2>1, FS_CardinalityType DEF CounterCounts
  <1>6. remaining' = Cardinality(Owing') /\ remaining' \in Nat BY <1>3, <1>4, <1>5
  <1>7. PoolTypeOK' BY <1>0, <1>6 DEF PoolTypeOK, Labels
  <1>8. WorkersKeepUp' BY <1>0 DEF WorkersKeepUp, PoolTypeOK
  <1>9. CounterCounts' BY <1>2, <1>6 DEF CounterCounts, InCall
  <1>10. CallerKeepsOrder' BY <1>0 DEF CallerKeepsOrder, InCall, PoolTypeOK
  <1> QED BY <1>7, <1>8, <1>9, <1>10 DEF PoolInv

\* The caller's steps that neither open nor close a region.
Signal == \/ ReadSleepers \/ Pair \/ NotifyAll \/ Own \/ JoinThreads

\* A step of the caller that only signals or waits keeps the invariant.
LEMMA SignalInv ==
  ASSUME PoolInv, Signal PROVE PoolInv'
  <1> USE DEF Signal, ReadSleepers, Pair, NotifyAll, Own, JoinThreads
  <1>0. PoolTypeOK /\ WorkersKeepUp /\ CounterCounts /\ CallerKeepsOrder BY DEF PoolInv
  <1>1. PoolTypeOK' BY <1>0 DEF PoolTypeOK, Labels, CallerLabels, Party
  <1>2. WorkersKeepUp' BY <1>0, PoolAssumption DEF WorkersKeepUp, PoolTypeOK, Party
  <1>3. Owing' = Owing BY <1>0 DEF Owing, PoolTypeOK
  <1>4. CounterCounts' BY <1>0, <1>3 DEF CounterCounts, InCall
  <1>5. CallerKeepsOrder' BY <1>0, PoolAssumption DEF CallerKeepsOrder, InCall, PoolTypeOK, Party
  <1> QED BY <1>1, <1>2, <1>4, <1>5 DEF PoolInv

\* A new region is published while nobody owes one.
LEMMA PublishInv ==
  ASSUME PoolInv, Publish PROVE PoolInv'
  <1> USE DEF Publish
  <1>0. PoolTypeOK /\ WorkersKeepUp /\ CounterCounts /\ CallerKeepsOrder BY DEF PoolInv
  <1>1. PoolTypeOK' BY <1>0, FS_CardinalityType, PoolAssumption DEF PoolTypeOK, CallerLabels
  <1>2. Owing = {} /\ Owing' = {} BY <1>0 DEF CounterCounts, Owing
  <1>3. \A w \in Worker : pc[w] \notin {"run", "dec"} BY <1>2 DEF Owing
  <1>4. WorkersKeepUp' BY <1>0, <1>3 DEF WorkersKeepUp, PoolTypeOK
  <1>5. CounterCounts' BY <1>0, <1>2 DEF CounterCounts, InCall
  <1>6. CallerKeepsOrder' BY <1>0 DEF CallerKeepsOrder, InCall, PoolTypeOK
  <1> QED BY <1>1, <1>4, <1>5, <1>6 DEF PoolInv

\* With the epoch every worker owes the region.
LEMMA BumpInv ==
  ASSUME PoolInv, Bump PROVE PoolInv'
  <1> USE DEF Bump
  <1>0. PoolTypeOK /\ WorkersKeepUp /\ CounterCounts /\ CallerKeepsOrder BY DEF PoolInv
  <1>1. PoolTypeOK' BY <1>0 DEF PoolTypeOK, CallerLabels
  <1>2. ~stop BY <1>0 DEF CallerKeepsOrder
  <1>3. \A w \in Worker : seen[w] = epoch /\ pc[w] \notin {"run", "dec"}
    BY <1>0 DEF CounterCounts, Owing
  <1>4. WorkersKeepUp' BY <1>0, <1>2, <1>3 DEF WorkersKeepUp, PoolTypeOK
  <1>5. Owing' = Worker BY <1>0, <1>3 DEF Owing, PoolTypeOK
  <1>6. CounterCounts' BY <1>0, <1>5 DEF CounterCounts, InCall
  <1>7. CallerKeepsOrder' BY <1>0, <1>2 DEF CallerKeepsOrder, InCall, PoolTypeOK
  <1> QED BY <1>1, <1>4, <1>6, <1>7 DEF PoolInv

\* A caller returns from a region nobody owes.
LEMMA JoinInv ==
  ASSUME PoolInv, Join PROVE PoolInv'
  <1> USE DEF Join
  <1>0. PoolTypeOK /\ WorkersKeepUp /\ CounterCounts /\ CallerKeepsOrder BY DEF PoolInv
  <1>1. PoolTypeOK' BY <1>0 DEF PoolTypeOK, CallerLabels
  <1>2. WorkersKeepUp' BY <1>0 DEF WorkersKeepUp
  <1>3. Owing = {} BY <1>0, OwingIsFinite, FS_EmptySet DEF CounterCounts, InCall
  <1>4. Owing' = {} BY <1>3 DEF Owing
  <1>5. CounterCounts' BY <1>4 DEF CounterCounts, InCall
  <1>6. CallerKeepsOrder' BY <1>0 DEF CallerKeepsOrder, InCall
  <1> QED BY <1>1, <1>2, <1>5, <1>6 DEF PoolInv

\* The destructor sets stop between two regions.
LEMMA SetStopInv ==
  ASSUME PoolInv, SetStop PROVE PoolInv'
  <1> USE DEF SetStop
  <1>0. PoolTypeOK /\ WorkersKeepUp /\ CounterCounts /\ CallerKeepsOrder BY DEF PoolInv
  <1>1. PoolTypeOK' BY <1>0 DEF PoolTypeOK, CallerLabels
  <1>2. ~stop /\ epoch = region /\ Owing = {} BY <1>0 DEF CallerKeepsOrder, CounterCounts
  <1>3. \A w \in Worker : pc[w] \notin {"run", "dec"} /\ ran[w] = region
    BY <1>0, <1>2 DEF Owing, WorkersKeepUp
  <1>4. WorkersKeepUp' BY <1>0 DEF WorkersKeepUp
  <1>5. CounterCounts' BY <1>2 DEF CounterCounts, InCall, Owing
  <1>6. CallerKeepsOrder' BY <1>0, <1>3 DEF CallerKeepsOrder, InCall, Party
  <1> QED BY <1>1, <1>4, <1>5, <1>6 DEF PoolInv

\* The epoch of the destructor is no region: nothing is counted.
LEMMA StopBumpInv ==
  ASSUME PoolInv, StopBump PROVE PoolInv'
  <1> USE DEF StopBump
  <1>0. PoolTypeOK /\ WorkersKeepUp /\ CounterCounts /\ CallerKeepsOrder BY DEF PoolInv
  <1>1. PoolTypeOK' BY <1>0 DEF PoolTypeOK, CallerLabels
  <1>2. stop /\ \A w \in Worker : seen[w] = epoch /\ pc[w] \notin {"run", "dec"}
    BY <1>0 DEF CallerKeepsOrder, CounterCounts, Owing
  <1>3. WorkersKeepUp' BY <1>0, <1>2 DEF WorkersKeepUp, PoolTypeOK
  <1>4. CounterCounts' BY DEF CounterCounts, InCall
  <1>5. CallerKeepsOrder' BY <1>0, <1>2 DEF CallerKeepsOrder, InCall
  <1> QED BY <1>1, <1>3, <1>4, <1>5 DEF PoolInv

\* Every step of the pool keeps the invariant.
LEMMA PoolStepInv == PoolInv /\ [PoolNext]_poolVars => PoolInv'
  <1> SUFFICES ASSUME PoolInv, [PoolNext]_poolVars PROVE PoolInv' OBVIOUS
  <1>1. CASE CallerStep
    BY <1>1, SignalInv, PublishInv, BumpInv, JoinInv, SetStopInv, StopBumpInv DEF CallerStep, Signal
  <1>2. ASSUME NEW w \in Worker, WorkerStep(w) \/ Spurious(w) PROVE PoolInv'
    BY <1>2, QuietInv, GoInv, RunChunkInv, CountDownInv DEF WorkerStep, Quiet
  <1>3. CASE UNCHANGED poolVars
    <2> USE <1>3 DEF poolVars
    <2>0. PoolTypeOK /\ WorkersKeepUp /\ CounterCounts /\ CallerKeepsOrder BY DEF PoolInv
    <2>1. PoolTypeOK' /\ WorkersKeepUp' BY <2>0 DEF PoolTypeOK, WorkersKeepUp
    <2>2. Owing' = Owing BY DEF Owing
    <2>3. CounterCounts' /\ CallerKeepsOrder'
      BY <2>0, <2>2 DEF CounterCounts, CallerKeepsOrder, InCall
    <2> QED BY <2>1, <2>3 DEF PoolInv
  <1> QED BY <1>1, <1>2, <1>3 DEF PoolNext

-----------------------------------------------------------------------------
\* The invariant the run checks is inductive: the counter is the number of workers
\* that still owe the region under way.
THEOREM PoolSpecInv == PoolSpec => []PoolInv
  <1> QED BY PoolInitInv, PoolStepInv, PTL DEF PoolSpec

\* parallel_for passes the address of its own argument: no worker runs or counts a
\* region whose call has returned, and none reads the fn_ of an older region.
THEOREM FunctionOutlivesWorkers == PoolSpec => []RegionIsLive
  <1>1. PoolInv => RegionIsLive
    <2> SUFFICES ASSUME PoolInv, NEW w \in Worker, pc[w] \in {"run", "dec"}
                 PROVE  InCall /\ fn[w] = region /\ remaining > 0
      BY DEF RegionIsLive
    <2>0. PoolTypeOK /\ WorkersKeepUp /\ CounterCounts /\ CallerKeepsOrder BY DEF PoolInv
    <2>1. w \in Owing BY DEF Owing
    <2>2. InCall BY <2>0, <2>1 DEF CounterCounts, CallerKeepsOrder, PoolTypeOK, CallerLabels, InCall
    <2>3. Cardinality(Owing) # 0 BY <2>1, OwingIsFinite, FS_EmptySet
    <2>4. remaining > 0 BY <2>0, <2>2, <2>3 DEF CounterCounts, PoolTypeOK
    <2> QED BY <2>0, <2>2, <2>4 DEF WorkersKeepUp
  <1> QED BY <1>1, PoolSpecInv, PTL

\* A step of the pool is a step of fork-join or leaves it alone.
LEMMA PoolStepsForkJoin ==
  ASSUME PoolInv, PoolNext
  PROVE  [FJ!Next]_<<region, {p \in Party : ran[p] < region}>>
  <1>0. PoolTypeOK /\ WorkersKeepUp /\ CounterCounts /\ CallerKeepsOrder BY DEF PoolInv
  <1> DEFINE todo == {p \in Party : ran[p] < region}
  <1>1. CASE Publish
    <2>1. ~stop /\ Owing = {} /\ epoch = region
      BY <1>0, <1>1 DEF Publish, CounterCounts, CallerKeepsOrder
    <2>2. \A p \in Party : ran[p] = region
      BY <1>0, <1>1, <2>1 DEF Publish, Owing, WorkersKeepUp, CallerKeepsOrder, Party
    <2>3. todo = {} /\ todo' = Party BY <1>0, <1>1, <2>2 DEF Publish, PoolTypeOK
    <2> QED BY <1>1, <2>3 DEF Publish, FJ!Next, FJ!Begin
  <1>2. CASE Own
    <2>1. Caller \in todo /\ todo' = todo \ {Caller}
      BY <1>0, <1>2 DEF Own, PoolTypeOK, CallerKeepsOrder, InCall, Party
    <2> QED BY <1>2, <2>1 DEF Own, FJ!Next, FJ!Run, Party
  <1>3. ASSUME NEW w \in Worker, RunChunk(w) PROVE FJ!Next
    <2>1. w \in todo /\ todo' = todo \ {w}
      BY <1>0, <1>3 DEF RunChunk, PoolTypeOK, WorkersKeepUp, Party
    <2> QED BY <1>3, <2>1 DEF RunChunk, FJ!Next, FJ!Run, Party
  <1>4. CASE UNCHANGED <<region, ran>> BY <1>4
  <1>5. ASSUME NEW w \in Worker, Quiet(w) \/ Go(w) \/ CountDown(w) PROVE UNCHANGED <<region, ran>>
    BY <1>5 DEF Quiet, Go, CountDown, Announce, Lock, Check, Park, Spurious, Leave, Top, Reload
  <1>6. ASSUME ReadSleepers \/ Pair \/ NotifyAll \/ JoinThreads \/ Bump \/ Join \/ SetStop \/ StopBump
        PROVE  UNCHANGED <<region, ran>>
    BY <1>6 DEF ReadSleepers, Pair, NotifyAll, JoinThreads, Bump, Join, SetStop, StopBump
  <1> QED BY <1>1, <1>2, <1>3, <1>4, <1>5, <1>6 DEF PoolNext, CallerStep, WorkerStep, Quiet

\* The pool implements fork-join for any number of workers, regions and spurious
\* wake-ups.
THEOREM PoolIsForkJoin == PoolSpec => FJSpec
  <1>1. PoolInit => FJ!Init
    BY DEF PoolInit, FJ!Init
  <1>2. PoolInv /\ [PoolNext]_poolVars => [FJ!Next]_<<region, {p \in Party : ran[p] < region}>>
    <2>1. ASSUME UNCHANGED poolVars PROVE UNCHANGED <<region, {p \in Party : ran[p] < region}>>
      BY <2>1 DEF poolVars
    <2> QED BY <2>1, PoolStepsForkJoin
  <1> QED BY <1>1, <1>2, PoolSpecInv, PTL DEF PoolSpec, FJSpec, FJ!Spec

-----------------------------------------------------------------------------
(* Counting the collectives that reach a block.                            *)

\* The collectives that reach a block are finitely many.
LEMMA ReachingFinite ==
  ASSUME NEW k, NEW b PROVE IsFiniteSet(Reaching(k, b))
  <1>1. 1 \in Int /\ NCalls \in Int BY TpTypeAssumption
  <1>2. IsFiniteSet(1..NCalls) BY <1>1, FS_Interval
  <1>3. Reaching(k, b) \subseteq 1..NCalls BY DEF Reaching
  <1> QED BY <1>2, <1>3, FS_Subset

\* Their number is a natural.
LEMMA ReachedNat ==
  ASSUME NEW k, NEW b PROVE Reached(k, b) \in Nat
  BY ReachingFinite, FS_CardinalityType DEF Reached

\* A collective adds one to the blocks of its grid and nothing to the others.
LEMMA ReachedStep ==
  ASSUME NEW k \in 1..NCalls, NEW b \in Block
  PROVE  /\ b < Calls[k] => Reached(k, b) = Reached(k - 1, b) + 1
         /\ ~(b < Calls[k]) => Reached(k, b) = Reached(k - 1, b)
  <1>1. CASE b < Calls[k]
    <2>1. Reaching(k, b) = Reaching(k - 1, b) \cup {k}
      BY <1>1, TpTypeAssumption DEF Reaching
    <2>2. k \notin Reaching(k - 1, b) BY TpTypeAssumption DEF Reaching
    <2> QED BY <1>1, <2>1, <2>2, ReachingFinite, FS_AddElement DEF Reached
  <1>2. CASE ~(b < Calls[k])
    <2>1. Reaching(k, b) = Reaching(k - 1, b)
      BY <1>2, TpTypeAssumption DEF Reaching
    <2> QED BY <1>2, <2>1 DEF Reached
  <1> QED BY <1>1, <1>2

\* A peer that is behind has released less than this block waits for.
LEMMA ReachedStrict ==
  ASSUME NEW j \in Nat, NEW k \in 1..NCalls, NEW b \in Block, j < k, b < Calls[k]
  PROVE  Reached(j, b) < Reached(k, b)
  <1>1. Reaching(j, b) \subseteq Reaching(k - 1, b)
    BY TpTypeAssumption DEF Reaching
  <1>2. Reached(j, b) <= Reached(k - 1, b)
    BY <1>1, ReachingFinite, FS_Subset DEF Reached
  <1> QED BY <1>2, ReachedStep, ReachedNat

\* Consecutive collectives use the two slots in turn.
LEMMA TwoSlots ==
  \A n \in Int : n % 2 \in 0..1 /\ (n - 1) % 2 \in 0..1 /\ (n - 1) % 2 # n % 2
  OBVIOUS

\* Every collective has a block 0.
LEMMA BlockZero == 0 \in Block /\ \A k \in 1..NCalls : 0 < Calls[k]
  BY TpTypeAssumption DEF Block

\* A cell of a collective is written by a block of its grid.
LEMMA ChunkType ==
  ASSUME NEW k \in 1..NCalls, NEW c \in Cell
  PROVE  Chunk[Calls[k]][c] \in Block /\ Chunk[Calls[k]][c] < Calls[k]
  BY TpTypeAssumption DEF Block

-----------------------------------------------------------------------------
\* The all-reduce starts in the invariant.
LEMMA TpInitInv == TpInit => TpInv
  <1> SUFFICES ASSUME TpInit PROVE TpInv OBVIOUS
  <1> USE DEF TpInit
  <1>1. TpTypeOK BY TpTypeAssumption DEF TpTypeOK, Phase
  <1>2. GridOnly BY DEF GridOnly
  <1>3. \A b : Reached(0, b) = 0
    <2>1. \A b : Reaching(0, b) = {} BY DEF Reaching
    <2> QED BY <2>1, FS_EmptySet DEF Reached
  <1>4. SeqByProgress BY <1>3 DEF SeqByProgress
  <1>5. FlagByProgress BY <1>3 DEF FlagByProgress, Released
  <1>6. PassedMeansReleased /\ SkewAtMostOne BY DEF PassedMeansReleased, SkewAtMostOne
  <1>7. ScratchByProgress BY DEF ScratchByProgress, LastPushed
  <1> QED BY <1>1, <1>2, <1>4, <1>5, <1>6, <1>7 DEF TpInv

\* The next kernel starts: its blocks count from where the last one left them.
LEMMA StartInv ==
  ASSUME TpInv, NEW r \in Rank, Start(r) PROVE TpInv'
  <1> DEFINE k == call[r] + 1
  <1> USE DEF Start
  <1>0. TpTypeOK /\ GridOnly /\ SeqByProgress /\ FlagByProgress /\ PassedMeansReleased
        /\ SkewAtMostOne /\ ScratchByProgress
    BY DEF TpInv
  <1>1. call[r] \in Nat /\ k \in 1..NCalls /\ k - 1 = call[r]
    BY <1>0, TpTypeAssumption DEF TpTypeOK
  <1>2. TpTypeOK' BY <1>0, <1>1 DEF TpTypeOK, Phase
  <1>3. GridOnly' BY <1>0, <1>1 DEF GridOnly, TpTypeOK
  <1>4. \A b \in Block : ~(b < Calls[k]) => Reached(k, b) = Reached(call[r], b)
    BY <1>1, ReachedStep
  <1>5. SeqByProgress'
    <2> SUFFICES ASSUME NEW p \in Rank, NEW b \in Block
                 PROVE  seq'[p][b] = IF ph'[p][b] = "push" THEN Reached(call'[p] - 1, b)
                                                           ELSE Reached(call'[p], b)
      BY DEF SeqByProgress, Reached, Reaching
    <2>1. CASE p = r BY <2>1, <1>0, <1>1, <1>4 DEF SeqByProgress, TpTypeOK
    <2>2. CASE p # r BY <2>2, <1>0 DEF SeqByProgress, TpTypeOK
    <2> QED BY <2>1, <2>2
  <1>6. FlagByProgress'
    <2> SUFFICES ASSUME NEW q \in Rank, NEW p \in Rank, NEW b \in Block, q # p
                 PROVE  flag'[q][p][b] = IF ph'[p][b] \in Released THEN Reached(call'[p], b)
                                                                   ELSE Reached(call'[p] - 1, b)
      BY DEF FlagByProgress, Reached, Reaching, Released
    <2>1. CASE p = r BY <2>1, <1>0, <1>1, <1>4 DEF FlagByProgress, TpTypeOK, Released
    <2>2. CASE p # r BY <2>2, <1>0 DEF FlagByProgress, TpTypeOK
    <2> QED BY <2>1, <2>2
  <1>7. PassedMeansReleased'
    <2> SUFFICES ASSUME NEW p \in Rank, NEW q \in Rank, NEW b \in Block,
                        q # p, call'[p] > 0, b < Calls[call'[p]], ph'[p][b] \in {"reduce", "done"}
                 PROVE  \/ call'[q] > call'[p]
                        \/ call'[q] = call'[p] /\ ph'[q][b] \in Released
      BY DEF PassedMeansReleased, Released
    <2>1. p # r BY <1>0, <1>1 DEF TpTypeOK
    <2>2. \/ call[q] > call[p]
          \/ call[q] = call[p] /\ ph[q][b] \in Released
      BY <2>1, <1>0 DEF PassedMeansReleased, TpTypeOK
    <2>3. CASE q = r BY <2>1, <2>2, <2>3, <1>0, <1>1, TpTypeAssumption DEF TpTypeOK
    <2>4. CASE q # r BY <2>1, <2>2, <2>4, <1>0 DEF TpTypeOK
    <2> QED BY <2>3, <2>4
  <1>8. SkewAtMostOne'
    <2> SUFFICES ASSUME NEW p \in Rank, NEW q \in Rank PROVE call'[p] <= call'[q] + 1
      BY DEF SkewAtMostOne
    <2>1. \A x \in Rank : call[x] \in Nat BY <1>0, TpTypeAssumption DEF TpTypeOK
    <2>2. CASE p = r /\ q # r
      <3>1. call[q] >= call[r]
        <4>1. CASE call[r] = 0 BY <4>1, <2>1
        <4>2. CASE call[r] > 0
          <5>1. call[r] \in 1..NCalls BY <4>2, <1>0 DEF TpTypeOK
          <5>2. 0 \in Block /\ 0 < Calls[call[r]] /\ ph[r][0] = "done" BY <5>1, BlockZero
          <5>3. call[q] > call[r] \/ call[q] = call[r]
            BY <2>2, <4>2, <5>2, <1>0 DEF PassedMeansReleased
          <5> QED BY <5>3, <2>1
        <4> QED BY <4>1, <4>2, <2>1
      <3> QED BY <3>1, <2>1, <2>2, <1>0 DEF TpTypeOK
    <2>3. CASE ~(p = r /\ q # r)
      BY <2>1, <2>3, <1>0 DEF SkewAtMostOne, TpTypeOK
    <2> QED BY <2>2, <2>3
  <1>9. ScratchByProgress'
    <2>1. ASSUME NEW p \in Rank, NEW c \in Cell PROVE LastPushed(p, c)' = LastPushed(p, c)
      <3>1. CASE p = r
        <4>1. Chunk[Calls[k]][c] \in Block /\ Chunk[Calls[k]][c] < Calls[k] BY <1>1, ChunkType
        <4>2. LastPushed(r, c)' = call[r]
          BY <4>1, <1>0, <1>1 DEF LastPushed, TpTypeOK
        <4>3. LastPushed(r, c) = call[r]
          <5>1. CASE call[r] = 0 BY <5>1 DEF LastPushed
          <5>2. CASE call[r] > 0
            <6>1. call[r] \in 1..NCalls BY <5>2, <1>0 DEF TpTypeOK
            <6>2. Chunk[Calls[call[r]]][c] \in Block BY <6>1, ChunkType
            <6> QED BY <6>2 DEF LastPushed
          <5> QED BY <5>1, <5>2, <1>1
        <4> QED BY <3>1, <4>2, <4>3
      <3>2. CASE p # r BY <3>2, <1>0 DEF LastPushed, TpTypeOK
      <3> QED BY <3>1, <3>2
    <2> QED BY <2>1, <1>0 DEF ScratchByProgress
  <1> QED BY <1>2, <1>3, <1>5, <1>6, <1>7, <1>8, <1>9 DEF TpInv

\* The block counts itself in and its message lands in the slot the last but one used.
LEMMA PushInv ==
  ASSUME TpInv, NEW r \in Rank, NEW b \in Block, Push(r, b) PROVE TpInv'
  <1> USE DEF Push
  <1>0. TpTypeOK /\ GridOnly /\ SeqByProgress /\ FlagByProgress /\ PassedMeansReleased
        /\ SkewAtMostOne /\ ScratchByProgress
    BY DEF TpInv
  <1>1. call[r] \in 1..NCalls /\ b < Calls[call[r]]
    BY <1>0 DEF GridOnly, TpTypeOK
  <1>2. seq[r][b] + 1 = Reached(call[r], b)
    BY <1>0, <1>1, ReachedStep DEF SeqByProgress
  <1>3. TpTypeOK'
    <2>1. call[r] \in Nat /\ seq[r][b] + 1 \in Nat BY <1>0, <1>1, TpTypeAssumption DEF TpTypeOK
    <2>2. seq' \in [Rank -> [Block -> Nat]] BY <2>1, <1>0 DEF TpTypeOK
    <2>3. ph' \in [Rank -> [Block -> Phase]] BY <1>0 DEF TpTypeOK, Phase
    <2>4. scratch' \in [Rank -> [Rank -> [0..1 -> [Cell -> Nat]]]] BY <2>1, <1>0 DEF TpTypeOK
    <2> QED BY <2>2, <2>3, <2>4, <1>0 DEF TpTypeOK
  <1>4. GridOnly' BY <1>0, <1>1 DEF GridOnly, TpTypeOK
  <1>5. SeqByProgress'
    <2> SUFFICES ASSUME NEW p \in Rank, NEW d \in Block
                 PROVE  seq'[p][d] = IF ph'[p][d] = "push" THEN Reached(call'[p] - 1, d)
                                                           ELSE Reached(call'[p], d)
      BY DEF SeqByProgress, Reached, Reaching
    <2>1. CASE p = r /\ d = b BY <2>1, <1>0, <1>2 DEF TpTypeOK
    <2>2. CASE ~(p = r /\ d = b) BY <2>2, <1>0 DEF SeqByProgress, TpTypeOK
    <2> QED BY <2>1, <2>2
  <1>6. FlagByProgress'
    <2> SUFFICES ASSUME NEW q \in Rank, NEW p \in Rank, NEW d \in Block, q # p
                 PROVE  flag'[q][p][d] = IF ph'[p][d] \in Released THEN Reached(call'[p], d)
                                                                   ELSE Reached(call'[p] - 1, d)
      BY DEF FlagByProgress, Reached, Reaching, Released
    <2> QED BY <1>0 DEF FlagByProgress, TpTypeOK, Released
  <1>7. PassedMeansReleased'
    BY <1>0 DEF PassedMeansReleased, TpTypeOK, Released
  <1>8. SkewAtMostOne' BY <1>0 DEF SkewAtMostOne
  <1>9. ScratchByProgress'
    <2> SUFFICES ASSUME NEW q \in Rank, NEW p \in Rank, NEW c \in Cell, q # p
                 PROVE  /\ LastPushed(p, c)' >= 1 =>
                             scratch'[q][p][LastPushed(p, c)' % 2][c] = LastPushed(p, c)'
                        /\ LastPushed(p, c)' >= 2 =>
                             scratch'[q][p][(LastPushed(p, c)' - 1) % 2][c] = LastPushed(p, c)' - 1
      BY DEF ScratchByProgress
    <2> SUFFICES ASSUME NEW l, l = LastPushed(p, c)'
                 PROVE  /\ l >= 1 => scratch'[q][p][l % 2][c] = l
                        /\ l >= 2 => scratch'[q][p][(l - 1) % 2][c] = l - 1
      OBVIOUS
    <2>1. CASE p = r /\ Chunk[Calls[call[r]]][c] = b
      <3>1. LastPushed(p, c) = call[r] - 1 /\ l = call[r]
        BY <2>1, <1>0, <1>1 DEF LastPushed, TpTypeOK
      <3>2. Slot(seq[r][b] + 1) = call[r] % 2
        BY <1>1, <1>2, ParityAssumption DEF Slot
      <3>0. call[r] \in Nat /\ call[r] \in Int BY <1>1, TpTypeAssumption
      <3>3. call[r] \in Nat /\ call[r] % 2 \in 0..1 /\ (call[r] - 1) % 2 \in 0..1
            /\ (call[r] - 1) % 2 # call[r] % 2
        BY <3>0, TwoSlots
      <3>4. scratch'[q][p][call[r] % 2][c] = call[r]
        BY <2>1, <3>2, <3>3
      <3>5. scratch'[q][p][(call[r] - 1) % 2][c] = scratch[q][p][(call[r] - 1) % 2][c]
        BY <2>1, <3>2, <3>3
      <3>6. call[r] - 1 >= 1 => scratch[q][p][(call[r] - 1) % 2][c] = call[r] - 1
        BY <2>1, <3>1, <1>0 DEF ScratchByProgress
      <3>7. l >= 2 => call[r] - 1 >= 1 BY <3>0, <3>1
      <3>8. scratch'[q][p][l % 2][c] = l BY <3>1, <3>4, Zenon
      <3>9. l >= 2 => scratch'[q][p][(l - 1) % 2][c] = l - 1
        BY <3>1, <3>5, <3>6, <3>7, Zenon
      <3> QED BY <3>8, <3>9
    <2>2. CASE ~(p = r /\ Chunk[Calls[call[r]]][c] = b)
      <3>1. l = LastPushed(p, c)
        BY <2>2, <1>0, <1>1 DEF LastPushed, TpTypeOK
      <3>2. \A t \in 0..1 : scratch'[q][p][t][c] = scratch[q][p][t][c]
        BY <2>2, <1>0
      <3>3. LastPushed(p, c) \in Int
        BY <1>0, TpTypeAssumption DEF LastPushed, TpTypeOK
      <3>4. LastPushed(p, c) % 2 \in 0..1 /\ (LastPushed(p, c) - 1) % 2 \in 0..1
        BY <3>3, TwoSlots
      <3>5. /\ l >= 1 => scratch[q][p][l % 2][c] = l
            /\ l >= 2 => scratch[q][p][(l - 1) % 2][c] = l - 1
        <4>1. /\ LastPushed(p, c) >= 1 => scratch[q][p][LastPushed(p, c) % 2][c] = LastPushed(p, c)
              /\ LastPushed(p, c) >= 2 =>
                    scratch[q][p][(LastPushed(p, c) - 1) % 2][c] = LastPushed(p, c) - 1
          <5>1. ScratchByProgress
            BY <1>0
          <5> QED BY ONLY <5>1, q \in Rank, p \in Rank, c \in Cell, q # p, Zenon DEF ScratchByProgress
        <4>2. l = LastPushed(p, c)
          BY <3>1
        <4> QED BY ONLY <4>1, <4>2, Zenon
      <3>6. l % 2 \in 0..1 /\ (l - 1) % 2 \in 0..1 BY <3>1, <3>4, Zenon
      <3> QED BY <3>2, <3>5, <3>6, Zenon
    <2> QED BY <2>1, <2>2
  <1> QED BY <1>3, <1>4, <1>5, <1>6, <1>7, <1>8, <1>9 DEF TpInv

\* The release carries the counter to every peer.
LEMMA ReleaseInv ==
  ASSUME TpInv, NEW r \in Rank, NEW b \in Block, Release(r, b) PROVE TpInv'
  <1> USE DEF Release
  <1>0. TpTypeOK /\ GridOnly /\ SeqByProgress /\ FlagByProgress /\ PassedMeansReleased
        /\ SkewAtMostOne /\ ScratchByProgress
    BY DEF TpInv
  <1>1. TpTypeOK'
    <2>1. ph' \in [Rank -> [Block -> Phase]] BY <1>0 DEF TpTypeOK, Phase
    <2>2. flag' \in [Rank -> [Rank -> [Block -> Nat]]] BY <1>0 DEF TpTypeOK
    <2> QED BY <2>1, <2>2, <1>0 DEF TpTypeOK
  <1>2. GridOnly' BY <1>0 DEF GridOnly, TpTypeOK
  <1>3. SeqByProgress' BY <1>0 DEF SeqByProgress, TpTypeOK, Reached, Reaching
  <1>4. FlagByProgress'
    <2> SUFFICES ASSUME NEW q \in Rank, NEW p \in Rank, NEW d \in Block, q # p
                 PROVE  flag'[q][p][d] = IF ph'[p][d] \in Released THEN Reached(call'[p], d)
                                                                   ELSE Reached(call'[p] - 1, d)
      BY DEF FlagByProgress, Reached, Reaching, Released
    <2>1. CASE p = r /\ d = b
      BY <2>1, <1>0 DEF SeqByProgress, TpTypeOK, Released
    <2>2. CASE ~(p = r /\ d = b) BY <2>2, <1>0 DEF FlagByProgress, TpTypeOK
    <2> QED BY <2>1, <2>2
  <1>5. PassedMeansReleased' BY <1>0 DEF PassedMeansReleased, TpTypeOK, Released
  <1>6. SkewAtMostOne' BY <1>0 DEF SkewAtMostOne
  <1>7. ScratchByProgress'
    <2>1. \A p \in Rank, c \in Cell : LastPushed(p, c)' = LastPushed(p, c)
      BY <1>0 DEF LastPushed, TpTypeOK
    <2> QED BY <2>1, <1>0 DEF ScratchByProgress
  <1> QED BY <1>1, <1>2, <1>3, <1>4, <1>5, <1>6, <1>7 DEF TpInv

\* The wait ends only when every peer has released this collective.
LEMMA PassInv ==
  ASSUME TpInv, NEW r \in Rank, NEW b \in Block, Pass(r, b) PROVE TpInv'
  <1> USE DEF Pass
  <1>0. TpTypeOK /\ GridOnly /\ SeqByProgress /\ FlagByProgress /\ PassedMeansReleased
        /\ SkewAtMostOne /\ ScratchByProgress
    BY DEF TpInv
  <1>1. TpTypeOK' BY <1>0 DEF TpTypeOK, Phase
  <1>2. GridOnly' BY <1>0 DEF GridOnly, TpTypeOK
  <1>3. SeqByProgress' BY <1>0 DEF SeqByProgress, TpTypeOK, Reached, Reaching
  <1>4. FlagByProgress'
    <2> SUFFICES ASSUME NEW q \in Rank, NEW p \in Rank, NEW d \in Block, q # p
                 PROVE  flag'[q][p][d] = IF ph'[p][d] \in Released THEN Reached(call'[p], d)
                                                                   ELSE Reached(call'[p] - 1, d)
      BY DEF FlagByProgress, Reached, Reaching, Released
    <2> QED BY <1>0 DEF FlagByProgress, TpTypeOK, Released
  <1>5. PassedMeansReleased'
    <2> SUFFICES ASSUME NEW p \in Rank, NEW q \in Rank, NEW d \in Block,
                        q # p, call[p] > 0, d < Calls[call[p]], ph'[p][d] \in {"reduce", "done"}
                 PROVE  \/ call[q] > call[p]
                        \/ call[q] = call[p] /\ ph'[q][d] \in Released
      BY DEF PassedMeansReleased, Released
    <2>1. ph[q][d] \in Released => ph'[q][d] \in Released BY <1>0 DEF TpTypeOK, Released
    <2>2. CASE p = r /\ d = b
      <3>1. call[r] \in 1..NCalls /\ call[q] \in Nat /\ b < Calls[call[r]]
        BY <2>2, <1>0, TpTypeAssumption DEF TpTypeOK
      <3>2. flag[r][q][b] >= Reached(call[r], b)
        BY <2>2, <1>0 DEF SeqByProgress
      <3>3. ~(call[q] < call[r])
        <4> SUFFICES ASSUME call[q] < call[r] PROVE FALSE OBVIOUS
        <4>1. Reached(call[q], b) < Reached(call[r], b) BY <3>1, ReachedStrict
        <4>2. CASE ph[q][b] \in Released
          BY <2>2, <3>2, <4>1, <4>2, <1>0, ReachedNat DEF FlagByProgress
        <4>3. CASE ~(ph[q][b] \in Released)
          <5>1. call[q] \in 1..NCalls /\ b < Calls[call[q]]
            BY <4>3, <1>0 DEF GridOnly, TpTypeOK, Released
          <5>2. flag[r][q][b] = Reached(call[q] - 1, b)
            BY <2>2, <4>3, <1>0 DEF FlagByProgress
          <5>3. Reached(call[q] - 1, b) < Reached(call[q], b) BY <5>1, ReachedStep, ReachedNat
          <5> QED BY <3>2, <4>1, <5>2, <5>3, ReachedNat
        <4> QED BY <4>2, <4>3
      <3>4. call[q] = call[r] => ph[q][b] \in Released
        <4> SUFFICES ASSUME call[q] = call[r], ph[q][b] \notin Released PROVE FALSE OBVIOUS
        <4>1. flag[r][q][b] = Reached(call[r] - 1, b)
          BY <2>2, <1>0 DEF FlagByProgress
        <4>2. Reached(call[r] - 1, b) < Reached(call[r], b) BY <3>1, ReachedStep, ReachedNat
        <4> QED BY <3>2, <4>1, <4>2, ReachedNat
      <3> QED BY <2>1, <2>2, <3>1, <3>3, <3>4, TpTypeAssumption
    <2>3. CASE ~(p = r /\ d = b)
      <3>1. ph[p][d] \in {"reduce", "done"} BY <2>3, <1>0 DEF TpTypeOK
      <3> QED BY <2>1, <3>1, <1>0 DEF PassedMeansReleased
    <2> QED BY <2>2, <2>3
  <1>6. SkewAtMostOne' BY <1>0 DEF SkewAtMostOne
  <1>7. ScratchByProgress'
    <2>1. \A p \in Rank, c \in Cell : LastPushed(p, c)' = LastPushed(p, c)
      BY <1>0 DEF LastPushed, TpTypeOK
    <2> QED BY <2>1, <1>0 DEF ScratchByProgress
  <1> QED BY <1>1, <1>2, <1>3, <1>4, <1>5, <1>6, <1>7 DEF TpInv

\* A block that finishes a collective keeps the invariant.
LEMMA FinishInv ==
  ASSUME TpInv, NEW r \in Rank, NEW b \in Block, Finish(r, b) PROVE TpInv'
  <1> USE DEF Finish
  <1>0. TpTypeOK /\ GridOnly /\ SeqByProgress /\ FlagByProgress /\ PassedMeansReleased
        /\ SkewAtMostOne /\ ScratchByProgress
    BY DEF TpInv
  <1>1. TpTypeOK' BY <1>0 DEF TpTypeOK, Phase
  <1>2. GridOnly' BY <1>0 DEF GridOnly, TpTypeOK
  <1>3. SeqByProgress' BY <1>0 DEF SeqByProgress, TpTypeOK, Reached, Reaching
  <1>4. FlagByProgress'
    <2> SUFFICES ASSUME NEW q \in Rank, NEW p \in Rank, NEW d \in Block, q # p
                 PROVE  flag'[q][p][d] = IF ph'[p][d] \in Released THEN Reached(call'[p], d)
                                                                   ELSE Reached(call'[p] - 1, d)
      BY DEF FlagByProgress, Reached, Reaching, Released
    <2> QED BY <1>0 DEF FlagByProgress, TpTypeOK, Released
  <1>5. PassedMeansReleased' BY <1>0 DEF PassedMeansReleased, TpTypeOK, Released
  <1>6. SkewAtMostOne' BY <1>0 DEF SkewAtMostOne
  <1>7. ScratchByProgress'
    <2>1. \A p \in Rank, c \in Cell : LastPushed(p, c)' = LastPushed(p, c)
      BY <1>0 DEF LastPushed, TpTypeOK
    <2> QED BY <2>1, <1>0 DEF ScratchByProgress
  <1> QED BY <1>1, <1>2, <1>3, <1>4, <1>5, <1>6, <1>7 DEF TpInv

\* Every step of the all-reduce keeps the invariant.
LEMMA TpStepInv == TpInv /\ [TpNext]_tpVars => TpInv'
  <1> SUFFICES ASSUME TpInv, [TpNext]_tpVars PROVE TpInv' OBVIOUS
  <1>1. CASE TpNext
    <2> PICK r \in Rank : Start(r) \/ \E b \in Block : BlockNext(r, b) BY <1>1 DEF TpNext
    <2>1. CASE Start(r) BY <2>1, StartInv
    <2>2. CASE \E b \in Block : BlockNext(r, b)
      BY <2>2, PushInv, ReleaseInv, PassInv, FinishInv DEF BlockNext
    <2> QED BY <2>1, <2>2
  <1>2. CASE UNCHANGED tpVars
    <2> USE <1>2 DEF tpVars
    <2>0. TpTypeOK /\ GridOnly /\ SeqByProgress /\ FlagByProgress /\ PassedMeansReleased
          /\ SkewAtMostOne /\ ScratchByProgress
      BY DEF TpInv
    <2>1. TpTypeOK' /\ GridOnly' BY <2>0 DEF TpTypeOK, GridOnly
    <2>2. SeqByProgress' /\ FlagByProgress'
      BY <2>0 DEF SeqByProgress, FlagByProgress, Released, Reached, Reaching
    <2>3. PassedMeansReleased' /\ SkewAtMostOne'
      BY <2>0 DEF PassedMeansReleased, SkewAtMostOne, Released
    <2>4. ScratchByProgress'
      <3>1. \A p \in Rank, c \in Cell : LastPushed(p, c)' = LastPushed(p, c)
        BY DEF LastPushed
      <3> QED BY <3>1, <2>0 DEF ScratchByProgress
    <2> QED BY <2>1, <2>2, <2>3, <2>4 DEF TpInv
  <1> QED BY <1>1, <1>2

-----------------------------------------------------------------------------
\* The invariant the run checks is inductive: counters, flags and scratch are
\* functions of how far each rank has come, whatever is queued behind it.
THEOREM TpSpecInv == TpSpec => []TpInv
  <1> QED BY TpInitInv, TpStepInv, PTL DEF TpSpec

\* Any two ranks are within one collective of each other ("for any two ranks
\* |s_A - s_B| <= 1 at every instant no matter how many collectives the host has
\* queued", tp_allreduce.h).
THEOREM RanksStayClose == TpSpec => []SkewAtMostOne
  <1>1. TpInv => SkewAtMostOne BY DEF TpInv
  <1> QED BY <1>1, TpSpecInv, PTL

\* A block that reduces reads, from every peer, the data of its own collective.
THEOREM TwoSlotsAreEnough == TpSpec => []SumIsOfThisCall
  <1>1. TpInv => SumIsOfThisCall
    <2> SUFFICES ASSUME TpInv, NEW r \in Rank, NEW b \in Block, NEW c \in Cell, NEW q \in Rank,
                        ph[r][b] = "reduce", Chunk[Calls[call[r]]][c] = b, q # r
                 PROVE  scratch[r][q][Slot(seq[r][b])][c] = call[r]
      BY DEF SumIsOfThisCall
    <2>0. TpTypeOK /\ GridOnly BY DEF TpInv
    <2>1. call[r] \in 1..NCalls /\ b < Calls[call[r]] /\ call[q] \in Nat
      <3>1. call[r] > 0 /\ b < Calls[call[r]] BY <2>0 DEF GridOnly
      <3> QED BY <2>0, <3>1, TpTypeAssumption DEF TpTypeOK
    <2>2. Slot(seq[r][b]) = call[r] % 2
      BY <2>1, ParityAssumption DEF TpInv, SeqByProgress, Slot
    <2>3. \/ call[q] > call[r]
          \/ call[q] = call[r] /\ ph[q][b] \in Released
      BY <2>1, TpTypeAssumption DEF TpInv, PassedMeansReleased
    <2>4. \/ LastPushed(q, c) = call[r]
          \/ LastPushed(q, c) = call[r] + 1
      <3>1. CASE call[q] > call[r]
        <4>1. call[q] = call[r] + 1 BY <2>1, <3>1, TpTypeAssumption DEF TpInv, SkewAtMostOne
        <4> QED BY <2>1, <4>1, TpTypeAssumption DEF LastPushed
      <3>2. CASE call[q] = call[r] /\ ph[q][b] \in Released
        BY <3>2 DEF LastPushed, Released
      <3> QED BY <2>3, <3>1, <3>2
    <2>5. call[r] \in Nat /\ call[r] >= 1 BY <2>1, TpTypeAssumption
    <2> QED BY <2>2, <2>4, <2>5 DEF TpInv, ScratchByProgress
  <1> QED BY <1>1, TpSpecInv, PTL

-----------------------------------------------------------------------------
(* KV cache growth.  A growth takes its range from committed_ and the      *)
(* driver refuses a range that is mapped already, so at most one thread is *)
(* ever past hipMemMap on a span.  Then rows are written inside what       *)
(* kv_backed_ promises: a decode asks first, and a prefill is inside what  *)
(* was backed at load.                                                     *)

Phases == {"idle", "reserve", "prefill", "decode"}
Places == {"none", "look", "map", "finish", "done"}

\* The types the order arguments need.
Typed ==
  /\ committed \in [Spans -> Int] /\ mapped \in [Spans -> Int]
  /\ commitCall \in [Threads -> [at : Places, target : Int, sp : Spans, off : Int, want : Int,
                           ok : BOOLEAN]]
  /\ kvPos \in Int /\ kvBacked \in Int
  /\ req \in [phase : Phases, n : Int, pos : Int, goal : Int, left : Int]

\* A thread about to map took its range from a committed_ that can only have risen.
Ranged ==
  \A t \in Threads : commitCall[t].at \in {"map", "finish"} =>
    /\ commitCall[t].off < commitCall[t].want
    /\ commitCall[t].want = RowsFor(commitCall[t].sp, commitCall[t].target)
    /\ commitCall[t].off <= committed[commitCall[t].sp]

\* A thread past hipMemMap owns the only growth of its span.
Owned ==
  /\ \A t \in Threads : commitCall[t].at = "finish" =>
       /\ commitCall[t].off = committed[commitCall[t].sp]
       /\ commitCall[t].want = mapped[commitCall[t].sp]
  /\ \A t, u \in Threads : commitCall[t].at = "finish" /\ commitCall[u].at = "finish"
                             /\ commitCall[t].sp = commitCall[u].sp => t = u

\* The spans a call has passed hold its target; a finished good call, all of them.
Passed ==
  \A t \in Threads : commitCall[t].ok =>
    \A sp \in Spans : sp < commitCall[t].sp \/ commitCall[t].at = "done"
                        => RowsFor(sp, commitCall[t].target) <= committed[sp]

\* What is published is in committed_, which never falls.
Published == \A sp \in Spans : RowsFor(sp, kvBacked) <= committed[sp]

KvInv == Typed /\ MappedIsAccounted /\ Ranged /\ Owned /\ Passed /\ Published


-----------------------------------------------------------------------------
\* comp_rows_for counts rows.
LEMMA RowsForInt == \A sp \in Spans, pos \in Int : RowsFor(sp, pos) \in Int
<1> SUFFICES ASSUME NEW sp \in Spans, NEW pos \in Int PROVE RowsFor(sp, pos) \in Int
  OBVIOUS
<1>1. MaxPos \in Nat \ {0} /\ Ratio[sp] \in Nat \ {0}
  BY KvAssumption
<1>2. Full(sp) \in Int
  BY <1>1 DEF Full
<1> DEFINE prod == Full(sp) * pos
<1>3. prod \in Int
  BY <1>2
<1> HIDE DEF prod
<1>4. prod \div MaxPos \in Int
  BY <1>1, <1>3
<1>5. Least(Full(sp), prod \div MaxPos + 2) \in Int
  BY <1>2, <1>4 DEF Least
<1> QED
  BY <1>2, <1>5 DEF RowsFor, prod

\* The spans are numbered from one.
LEMMA SpanFacts == 1 \in Spans /\ Spans \subseteq Int /\ NSpans \in Spans
                   /\ \A sp \in Spans : sp # NSpans => sp + 1 \in Spans
BY KvAssumption DEF Spans

\* No call under way is a well-typed call.
LEMMA NoCallType ==
  NoCall \in [at : Places, target : Int, sp : Spans, off : Int, want : Int, ok : BOOLEAN]
BY SpanFacts DEF NoCall, Places

\* A call that steps past a span keeps its target and its promise.
LEMMA NextSpanFacts ==
  ASSUME NEW c \in [at : Places, target : Int, sp : Spans, off : Int, want : Int, ok : BOOLEAN],
         c.at \in {"look", "finish"}
  PROVE  /\ NextSpan(c) \in [at : Places, target : Int, sp : Spans, off : Int, want : Int,
                             ok : BOOLEAN]
         /\ NextSpan(c).at \in {"look", "done"}
         /\ NextSpan(c).target = c.target /\ NextSpan(c).ok = c.ok
         /\ \A sp \in Spans : sp < NextSpan(c).sp \/ NextSpan(c).at = "done"
                                => sp < c.sp \/ sp = c.sp
<1>0. c.sp \in Int /\ NSpans \in Int
  BY SpanFacts
<1>1. CASE c.sp = NSpans
  <2>1. NextSpan(c) = [c EXCEPT !.at = "done"]
    BY <1>1 DEF NextSpan
  <2>2. \A sp \in Spans : sp < c.sp \/ sp = c.sp
    BY <1>0, <1>1 DEF Spans
  <2> QED BY <2>1, <2>2 DEF Places
<1>2. CASE c.sp # NSpans
  <2>1. NextSpan(c) = [c EXCEPT !.at = "look", !.sp = c.sp + 1]
    BY <1>2 DEF NextSpan
  <2>2. c.sp + 1 \in Spans
    BY <1>2, SpanFacts
  <2>3. /\ NextSpan(c).at = "look" /\ NextSpan(c).sp = c.sp + 1
        /\ NextSpan(c).target = c.target /\ NextSpan(c).ok = c.ok
        /\ NextSpan(c) \in [at : Places, target : Int, sp : Spans, off : Int, want : Int,
                            ok : BOOLEAN]
    BY <2>1, <2>2 DEF Places
  <2>4. \A sp \in Spans : sp < c.sp + 1 => sp < c.sp \/ sp = c.sp
    BY <1>0 DEF Spans
  <2> QED BY <2>3, <2>4
<1> QED BY <1>1, <1>2

\* What is published is mapped, because a span is never mapped short of its
\* committed_.
LEMMA InvImplies == KvInv => BackedIsMapped /\ MappedIsAccounted
<1> SUFFICES ASSUME KvInv, NEW sp \in Spans PROVE RowsFor(sp, kvBacked) <= mapped[sp]
  BY DEF KvInv, BackedIsMapped
<1>1. RowsFor(sp, kvBacked) \in Int /\ committed[sp] \in Int /\ mapped[sp] \in Int
  BY RowsForInt DEF KvInv, Typed
<1>2. committed[sp] <= mapped[sp]
  <2>1. CASE mapped[sp] = committed[sp]
    BY <2>1, <1>1
  <2>2. ASSUME NEW t \in Threads, commitCall[t].at = "finish", commitCall[t].off = committed[sp],
               commitCall[t].want = mapped[sp]
        PROVE  committed[sp] <= mapped[sp]
    BY <2>2, <1>1 DEF KvInv, Ranged
  <2> QED BY <2>1, <2>2 DEF KvInv, MappedIsAccounted
<1> QED BY <1>1, <1>2 DEF KvInv, Published

\* At load nothing grows, and what is backed is mapped.
LEMMA InitInv == KvInit => KvInv
<1> SUFFICES ASSUME KvInit PROVE KvInv
  OBVIOUS
<1>0. InitPos \in Int
  BY KvAssumption
<1>1. Typed
  BY <1>0, RowsForInt, NoCallType DEF KvInit, Typed, NoReq, Phases
<1>2. \A t \in Threads : commitCall[t].at = "none" /\ commitCall[t].sp = 1
  BY DEF KvInit, NoCall
<1>3. MappedIsAccounted /\ Ranged /\ Owned
  BY <1>2 DEF KvInit, MappedIsAccounted, Ranged, Owned
<1>4. Passed
  BY <1>2 DEF Passed, Spans
<1>5. Published
  BY <1>0, RowsForInt DEF KvInit, Published
<1> QED BY <1>1, <1>3, <1>4, <1>5 DEF KvInv

-----------------------------------------------------------------------------
\* A call steps past a span that holds its target.
LEMMA LookInv ==
  ASSUME KvInv, NEW t \in Threads, Look(t) PROVE KvInv'
<1> DEFINE c == commitCall[t]
           want == RowsFor(c.sp, c.target)
<1>1. /\ c \in [at : Places, target : Int, sp : Spans, off : Int, want : Int, ok : BOOLEAN]
      /\ want \in Int /\ committed[c.sp] \in Int
  BY RowsForInt DEF KvInv, Typed
<1>2. UNCHANGED <<committed, mapped, kvPos, kvBacked, req>>
  BY DEF Look
<1>3. \A u \in Threads : u # t => commitCall'[u] = commitCall[u]
  BY DEF Look, KvInv, Typed
<1>4. c.at = "look"
  BY DEF Look
<1>5. CASE want <= committed[c.sp]
  <2>1. commitCall' = [commitCall EXCEPT ![t] = NextSpan(c)]
    BY <1>5 DEF Look
  <2>2. /\ NextSpan(c) \in [at : Places, target : Int, sp : Spans, off : Int, want : Int,
                            ok : BOOLEAN]
        /\ NextSpan(c).at \in {"look", "done"}
        /\ NextSpan(c).target = c.target /\ NextSpan(c).ok = c.ok
        /\ \A sp \in Spans : sp < NextSpan(c).sp \/ NextSpan(c).at = "done"
                               => sp < c.sp \/ sp = c.sp
    BY <1>1, <1>4, NextSpanFacts
  <2>3. commitCall'[t] = NextSpan(c)
    BY <2>1 DEF KvInv, Typed
  <2>4. Typed'
    BY <2>1, <2>2, <1>2 DEF KvInv, Typed
  <2>5. MappedIsAccounted'
    BY <1>2, <1>3, <1>4 DEF KvInv, MappedIsAccounted
  <2>6. Ranged' /\ Owned'
    BY <1>2, <1>3, <2>2, <2>3 DEF KvInv, Ranged, Owned
  <2>7. Passed'
    <3> SUFFICES ASSUME NEW u \in Threads, commitCall'[u].ok, NEW sp \in Spans,
                        sp < commitCall'[u].sp \/ commitCall'[u].at = "done"
                 PROVE  RowsFor(sp, commitCall'[u].target) <= committed[sp]
      BY <1>2 DEF Passed
    <3>1. CASE u # t
      BY <3>1, <1>3 DEF KvInv, Passed
    <3>2. CASE u = t
      <4>1. (sp < c.sp \/ sp = c.sp) /\ c.ok /\ commitCall'[u].target = c.target
        BY <3>2, <2>2, <2>3
      <4>2. CASE sp = c.sp
        BY <4>1, <4>2, <1>5
      <4>3. CASE sp < c.sp
        BY <4>3, <4>1 DEF KvInv, Passed
      <4> QED BY <4>1, <4>2, <4>3
    <3> QED BY <3>1, <3>2
  <2>8. Published'
    BY <1>2 DEF KvInv, Published
  <2> QED BY <2>4, <2>5, <2>6, <2>7, <2>8 DEF KvInv
<1>6. CASE ~(want <= committed[c.sp])
  <2>1. commitCall' = [commitCall EXCEPT ![t] = [c EXCEPT !.at = "map", !.off = committed[c.sp],
                                               !.want = want]]
    BY <1>6 DEF Look
  <2>2. /\ commitCall'[t] \in [at : Places, target : Int, sp : Spans, off : Int, want : Int,
                         ok : BOOLEAN]
        /\ commitCall'[t].at = "map" /\ commitCall'[t].off = committed[c.sp] /\ commitCall'[t].want = want
        /\ commitCall'[t].target = c.target /\ commitCall'[t].sp = c.sp /\ commitCall'[t].ok = c.ok
    BY <2>1, <1>1 DEF KvInv, Typed, Places
  <2>4. Typed'
    BY <2>1, <2>2, <1>2 DEF KvInv, Typed
  <2>5. MappedIsAccounted'
    BY <1>2, <1>3, <1>4 DEF KvInv, MappedIsAccounted
  <2>6. Ranged'
    BY <1>1, <1>2, <1>3, <1>6, <2>2 DEF KvInv, Ranged
  <2>7. Owned'
    BY <1>2, <1>3, <2>2 DEF KvInv, Owned
  <2>8. Passed'
    BY <1>2, <1>3, <1>4, <2>2 DEF KvInv, Passed
  <2>9. Published'
    BY <1>2 DEF KvInv, Published
  <2> QED BY <2>4, <2>5, <2>6, <2>7, <2>8, <2>9 DEF KvInv
<1> QED BY <1>5, <1>6

\* A call that gives up promises nothing.
LEMMA FailedFacts ==
  ASSUME NEW c \in [at : Places, target : Int, sp : Spans, off : Int, want : Int, ok : BOOLEAN]
  PROVE  /\ Failed(c) \in [at : Places, target : Int, sp : Spans, off : Int, want : Int,
                           ok : BOOLEAN]
         /\ Failed(c).at = "done" /\ Failed(c).ok = FALSE
BY DEF Failed, Places

\* hipMemMap succeeds for one thread a span: a second one's range is either
\* taken, or begins where committed_ no longer is.
LEMMA MapInv ==
  ASSUME KvInv, NEW t \in Threads, Map(t) PROVE KvInv'
<1> DEFINE c == commitCall[t]
<1>1. c \in [at : Places, target : Int, sp : Spans, off : Int, want : Int, ok : BOOLEAN]
  BY DEF KvInv, Typed
<1>2. UNCHANGED <<committed, kvPos, kvBacked, req>> /\ c.at = "map"
  BY DEF Map
<1>3. \A u \in Threads : u # t => commitCall'[u] = commitCall[u]
  BY DEF Map, KvInv, Typed
<1>4. CASE MapOk(c)
  <2>1. /\ mapped' = [mapped EXCEPT ![c.sp] = c.want]
        /\ commitCall' = [commitCall EXCEPT ![t] = [c EXCEPT !.at = "finish"]]
        /\ mapped[c.sp] = c.off
    BY <1>4 DEF Map, MapOk
  <2>2. /\ commitCall'[t] \in [at : Places, target : Int, sp : Spans, off : Int, want : Int,
                         ok : BOOLEAN]
        /\ commitCall'[t].at = "finish" /\ commitCall'[t].off = c.off /\ commitCall'[t].want = c.want
        /\ commitCall'[t].target = c.target /\ commitCall'[t].sp = c.sp /\ commitCall'[t].ok = c.ok
    BY <2>1, <1>1 DEF KvInv, Typed, Places
  <2>3. /\ mapped'[c.sp] = c.want
        /\ \A sp \in Spans : sp # c.sp => mapped'[sp] = mapped[sp]
    BY <2>1, <1>1 DEF KvInv, Typed
  <2>4. Typed'
    BY <2>1, <2>2, <1>1, <1>2 DEF KvInv, Typed
  <2>5. \A u \in Threads : commitCall[u].at = "finish" => commitCall[u].sp # c.sp
    <3> SUFFICES ASSUME NEW u \in Threads, commitCall[u].at = "finish", commitCall[u].sp = c.sp
                 PROVE  FALSE
      OBVIOUS
    <3>1. commitCall[u].off = committed[c.sp] /\ commitCall[u].want = mapped[c.sp]
      BY DEF KvInv, Owned
    <3>2. commitCall[u].off < commitCall[u].want /\ c.off <= committed[c.sp]
      BY <1>2 DEF KvInv, Ranged
    <3>3. commitCall[u].off \in Int /\ commitCall[u].want \in Int /\ c.off \in Int
      BY DEF KvInv, Typed
    <3> QED BY <3>1, <3>2, <3>3, <2>1
  <2>6. c.off = committed[c.sp]
    BY <2>1, <2>5, <1>1 DEF KvInv, MappedIsAccounted
  <2>7. MappedIsAccounted'
    <3> SUFFICES ASSUME NEW sp \in Spans
                 PROVE  \/ mapped'[sp] = committed[sp]
                        \/ \E u \in Threads : /\ commitCall'[u].at = "finish" /\ commitCall'[u].sp = sp
                                              /\ commitCall'[u].off = committed[sp]
                                              /\ commitCall'[u].want = mapped'[sp]
      BY <1>2 DEF MappedIsAccounted
    <3>1. CASE sp = c.sp
      BY <3>1, <2>2, <2>3, <2>6
    <3>2. CASE sp # c.sp
      <4>1. mapped'[sp] = mapped[sp]
        BY <3>2, <2>3
      <4>2. CASE mapped[sp] = committed[sp]
        BY <4>1, <4>2
      <4>3. ASSUME NEW u \in Threads, commitCall[u].at = "finish", commitCall[u].sp = sp,
                   commitCall[u].off = committed[sp], commitCall[u].want = mapped[sp]
            PROVE  \E v \in Threads : /\ commitCall'[v].at = "finish" /\ commitCall'[v].sp = sp
                                      /\ commitCall'[v].off = committed[sp]
                                      /\ commitCall'[v].want = mapped'[sp]
        <5>1. u # t
          BY <4>3, <1>2
        <5> QED BY <5>1, <4>1, <4>3, <1>3
      <4> QED BY <4>2, <4>3 DEF KvInv, MappedIsAccounted
    <3> QED BY <3>1, <3>2
  <2>8. Ranged'
    BY <1>2, <1>3, <2>2 DEF KvInv, Ranged
  <2>9. Owned'
    BY <1>2, <1>3, <2>2, <2>3, <2>5, <2>6 DEF KvInv, Owned, Typed
  <2>10. Passed'
    BY <1>2, <1>3, <2>2 DEF KvInv, Passed
  <2>11. Published'
    BY <1>2 DEF KvInv, Published
  <2> QED BY <2>4, <2>7, <2>8, <2>9, <2>10, <2>11 DEF KvInv
<1>5. CASE ~MapOk(c)
  <2>1. commitCall' = [commitCall EXCEPT ![t] = Failed(c)] /\ mapped' = mapped
    BY <1>5 DEF Map
  <2>2. commitCall'[t] = Failed(c)
    BY <2>1 DEF KvInv, Typed
  <2>4. Typed'
    BY <2>1, <1>1, <1>2, FailedFacts DEF KvInv, Typed
  <2>5. MappedIsAccounted'
    BY <1>2, <1>3, <2>1 DEF KvInv, MappedIsAccounted
  <2>3. commitCall'[t].at = "done" /\ commitCall'[t].ok = FALSE
    BY <1>1, <2>2, FailedFacts
  <2>6. Ranged' /\ Owned'
    BY <1>2, <1>3, <2>1, <2>3 DEF KvInv, Ranged, Owned
  <2>8. Passed'
    BY <1>2, <1>3, <2>3 DEF KvInv, Passed
  <2>7. Published'
    BY <1>2 DEF KvInv, Published
  <2> QED BY <2>4, <2>5, <2>6, <2>7, <2>8 DEF KvInv
<1> QED BY <1>4, <1>5

\* The driver's part of the growth done: committed_ catches up with the mapping.
LEMMA GrowFinishInv ==
  ASSUME KvInv, NEW t \in Threads, FinishGrowth(t) PROVE KvInv'
<1> DEFINE c == commitCall[t]
<1>1. c \in [at : Places, target : Int, sp : Spans, off : Int, want : Int, ok : BOOLEAN]
  BY DEF KvInv, Typed
<1>2. /\ UNCHANGED <<mapped, kvPos, kvBacked, req>> /\ c.at = "finish"
      /\ committed' = [committed EXCEPT ![c.sp] = c.want]
      /\ commitCall' = [commitCall EXCEPT ![t] = NextSpan(c)]
  BY DEF FinishGrowth
<1>3. \A u \in Threads : u # t => commitCall'[u] = commitCall[u]
  BY <1>2 DEF KvInv, Typed
<1>4. /\ commitCall'[t] = NextSpan(c)
      /\ NextSpan(c).at \in {"look", "done"}
      /\ NextSpan(c).target = c.target /\ NextSpan(c).ok = c.ok
      /\ \A sp \in Spans : sp < NextSpan(c).sp \/ NextSpan(c).at = "done"
                             => sp < c.sp \/ sp = c.sp
  BY <1>1, <1>2, NextSpanFacts DEF KvInv, Typed
<1>5. /\ committed'[c.sp] = c.want
      /\ \A sp \in Spans : sp # c.sp => committed'[sp] = committed[sp]
  BY <1>1, <1>2 DEF KvInv, Typed
<1>6. /\ c.off < c.want /\ c.want = RowsFor(c.sp, c.target)
      /\ c.off = committed[c.sp] /\ c.want = mapped[c.sp]
  BY <1>2 DEF KvInv, Ranged, Owned
<1>7. \A sp \in Spans : committed[sp] <= committed'[sp] /\ committed[sp] \in Int
                         /\ committed'[sp] \in Int
  BY <1>1, <1>5, <1>6 DEF KvInv, Typed
<1>8. \A u \in Threads : commitCall'[u].at = "finish" => u # t /\ commitCall[u].sp # c.sp
  BY <1>2, <1>3, <1>4 DEF KvInv, Owned
<1>9. Typed'
  BY <1>1, <1>2, NextSpanFacts DEF KvInv, Typed
<1>10. MappedIsAccounted'
  <2> SUFFICES ASSUME NEW sp \in Spans, mapped[sp] # committed'[sp]
               PROVE  \E u \in Threads : /\ commitCall'[u].at = "finish" /\ commitCall'[u].sp = sp
                                         /\ commitCall'[u].off = committed'[sp]
                                         /\ commitCall'[u].want = mapped[sp]
    BY <1>2 DEF MappedIsAccounted
  <2>1. sp # c.sp
    BY <1>5, <1>6
  <2>2. committed'[sp] = committed[sp]
    BY <2>1, <1>5
  <2>3. PICK u \in Threads : /\ commitCall[u].at = "finish" /\ commitCall[u].sp = sp
                             /\ commitCall[u].off = committed[sp] /\ commitCall[u].want = mapped[sp]
    BY <2>2 DEF KvInv, MappedIsAccounted
  <2>4. u # t
    BY <2>1, <2>3
  <2> QED BY <2>2, <2>3, <2>4, <1>3
<1>11. Ranged'
  <2> SUFFICES ASSUME NEW u \in Threads, commitCall'[u].at \in {"map", "finish"}
               PROVE  /\ commitCall'[u].off < commitCall'[u].want
                      /\ commitCall'[u].want = RowsFor(commitCall'[u].sp, commitCall'[u].target)
                      /\ commitCall'[u].off <= committed'[commitCall'[u].sp]
    BY DEF Ranged
  <2>1. u # t /\ commitCall'[u] = commitCall[u]
    BY <1>3, <1>4
  <2>2. commitCall[u].sp \in Spans /\ commitCall[u].off \in Int /\ commitCall[u].off <= committed[commitCall[u].sp]
    BY <2>1 DEF KvInv, Typed, Ranged
  <2>3. commitCall[u].off <= committed'[commitCall[u].sp]
    BY <2>2, <1>7
  <2> QED BY <2>1, <2>3 DEF KvInv, Ranged
<1>12. Owned'
  <2>1. ASSUME NEW u \in Threads, commitCall'[u].at = "finish"
        PROVE  commitCall'[u].off = committed'[commitCall'[u].sp] /\ commitCall'[u].want = mapped[commitCall'[u].sp]
    <3>1. commitCall'[u] = commitCall[u] /\ commitCall[u].sp # c.sp /\ commitCall[u].sp \in Spans
      BY <2>1, <1>3, <1>8 DEF KvInv, Typed
    <3> QED BY <2>1, <3>1, <1>5 DEF KvInv, Owned
  <2>2. ASSUME NEW u \in Threads, NEW v \in Threads, commitCall'[u].at = "finish",
               commitCall'[v].at = "finish", commitCall'[u].sp = commitCall'[v].sp
        PROVE  u = v
    BY <2>2, <1>3, <1>8 DEF KvInv, Owned
  <2> QED BY <2>1, <2>2, <1>2 DEF Owned
<1>13. Passed'
  <2> SUFFICES ASSUME NEW u \in Threads, commitCall'[u].ok, NEW sp \in Spans,
                      sp < commitCall'[u].sp \/ commitCall'[u].at = "done"
               PROVE  RowsFor(sp, commitCall'[u].target) <= committed'[sp]
    BY DEF Passed
  <2>1. commitCall'[u].target = commitCall[u].target /\ commitCall[u].target \in Int /\ commitCall[u].ok
    BY <1>3, <1>4 DEF KvInv, Typed
  <2>2. RowsFor(sp, commitCall[u].target) \in Int
    BY <2>1, RowsForInt
  <2>3. CASE sp < commitCall[u].sp \/ commitCall[u].at = "done"
    <3>1. RowsFor(sp, commitCall[u].target) <= committed[sp]
      BY <2>1, <2>3 DEF KvInv, Passed
    <3> QED BY <3>1, <2>1, <2>2, <1>7
  <2>4. CASE u = t /\ sp = c.sp
    BY <2>1, <2>2, <2>4, <1>5, <1>6, <1>7
  <2> QED BY <2>3, <2>4, <1>3, <1>4
<1>14. Published'
  <2> SUFFICES ASSUME NEW sp \in Spans PROVE RowsFor(sp, kvBacked) <= committed'[sp]
    BY <1>2 DEF Published
  <2>1. RowsFor(sp, kvBacked) \in Int /\ RowsFor(sp, kvBacked) <= committed[sp]
    BY RowsForInt DEF KvInv, Typed, Published
  <2> QED BY <2>1, <1>7
<1> QED BY <1>9, <1>10, <1>11, <1>12, <1>13, <1>14 DEF KvInv

\* The driver's part of the growth failed: the mapping falls back to committed_.
LEMMA FinishFailsInv ==
  ASSUME KvInv, NEW t \in Threads, FinishFails(t) PROVE KvInv'
<1> DEFINE c == commitCall[t]
<1>1. c \in [at : Places, target : Int, sp : Spans, off : Int, want : Int, ok : BOOLEAN]
  BY DEF KvInv, Typed
<1>2. /\ UNCHANGED <<committed, kvPos, kvBacked, req>> /\ c.at = "finish"
      /\ mapped' = [mapped EXCEPT ![c.sp] = c.off]
      /\ commitCall' = [commitCall EXCEPT ![t] = Failed(c)]
  BY DEF FinishFails
<1>3. \A u \in Threads : u # t => commitCall'[u] = commitCall[u]
  BY <1>2 DEF KvInv, Typed
<1>4. commitCall'[t].at = "done" /\ commitCall'[t].ok = FALSE
  BY <1>1, <1>2, FailedFacts DEF KvInv, Typed
<1>5. /\ mapped'[c.sp] = c.off /\ c.off = committed[c.sp]
      /\ \A sp \in Spans : sp # c.sp => mapped'[sp] = mapped[sp]
  BY <1>1, <1>2 DEF KvInv, Typed, Owned
<1>6. \A u \in Threads : commitCall'[u].at = "finish" => u # t /\ commitCall[u].sp # c.sp
  BY <1>2, <1>3, <1>4 DEF KvInv, Owned
<1>7. Typed'
  BY <1>1, <1>2, FailedFacts DEF KvInv, Typed
<1>8. MappedIsAccounted'
  <2> SUFFICES ASSUME NEW sp \in Spans, mapped'[sp] # committed[sp]
               PROVE  \E u \in Threads : /\ commitCall'[u].at = "finish" /\ commitCall'[u].sp = sp
                                         /\ commitCall'[u].off = committed[sp]
                                         /\ commitCall'[u].want = mapped'[sp]
    BY <1>2 DEF MappedIsAccounted
  <2>1. sp # c.sp /\ mapped'[sp] = mapped[sp]
    BY <1>5
  <2>2. PICK u \in Threads : /\ commitCall[u].at = "finish" /\ commitCall[u].sp = sp
                             /\ commitCall[u].off = committed[sp] /\ commitCall[u].want = mapped[sp]
    BY <2>1 DEF KvInv, MappedIsAccounted
  <2>3. u # t
    BY <2>1, <2>2
  <2> QED BY <2>1, <2>2, <2>3, <1>3
<1>9. Ranged' /\ Passed'
  BY <1>2, <1>3, <1>4 DEF KvInv, Ranged, Passed
<1>10. Owned'
  <2>1. ASSUME NEW u \in Threads, commitCall'[u].at = "finish"
        PROVE  commitCall'[u].off = committed[commitCall'[u].sp] /\ commitCall'[u].want = mapped'[commitCall'[u].sp]
    <3>1. commitCall'[u] = commitCall[u] /\ commitCall[u].sp # c.sp /\ commitCall[u].sp \in Spans
      BY <2>1, <1>3, <1>6 DEF KvInv, Typed
    <3> QED BY <2>1, <3>1, <1>5 DEF KvInv, Owned
  <2>2. ASSUME NEW u \in Threads, NEW v \in Threads, commitCall'[u].at = "finish",
               commitCall'[v].at = "finish", commitCall'[u].sp = commitCall'[v].sp
        PROVE  u = v
    BY <2>2, <1>3, <1>6 DEF KvInv, Owned
  <2> QED BY <2>1, <2>2, <1>2 DEF Owned
<1>11. Published'
  BY <1>2 DEF KvInv, Published
<1> QED BY <1>7, <1>8, <1>9, <1>10, <1>11 DEF KvInv

-----------------------------------------------------------------------------
\* A call that has just begun has passed no span.
LEMMA StartedFacts ==
  ASSUME NEW x \in Int
  PROVE  /\ Started(x) \in [at : Places, target : Int, sp : Spans, off : Int, want : Int,
                            ok : BOOLEAN]
         /\ Started(x).at \in {"look", "done"} /\ Started(x).sp = 1
         /\ Started(x).at = "done" => Started(x).ok = FALSE
<1>1. NoCall \in [at : Places, target : Int, sp : Spans, off : Int, want : Int, ok : BOOLEAN]
  BY NoCallType
<1>2. NoCall.sp = 1
  BY DEF NoCall
<1>3. CASE x > MaxPos
  <2>1. Started(x) = [NoCall EXCEPT !.at = "done", !.target = x, !.ok = FALSE]
    BY <1>3 DEF Started
  <2>2. Started(x).at = "done" /\ Started(x).ok = FALSE /\ Started(x).sp = 1
    BY <1>1, <1>2, <2>1
  <2>3. Started(x) \in [at : Places, target : Int, sp : Spans, off : Int, want : Int,
                        ok : BOOLEAN]
    BY <1>1, <2>1 DEF Places
  <2> QED BY <2>2, <2>3
<1>4. CASE ~(x > MaxPos)
  <2>1. Started(x) = [NoCall EXCEPT !.at = "look", !.target = x]
    BY <1>4 DEF Started
  <2>2. Started(x).at = "look" /\ Started(x).sp = 1
    BY <1>1, <1>2, <2>1
  <2>3. Started(x) \in [at : Places, target : Int, sp : Spans, off : Int, want : Int,
                        ok : BOOLEAN]
    BY <1>1, <2>1 DEF Places
  <2> QED BY <2>2, <2>3
<1> QED BY <1>3, <1>4

\* Replacing a call that is past no hipMemMap by one that promises nothing, with
\* the spans left alone.
LEMMA CallReset ==
  ASSUME KvInv, NEW t \in Threads, commitCall[t].at \in {"none", "done"},
         UNCHANGED <<committed, mapped>>, Typed',
         NEW d, commitCall' = [commitCall EXCEPT ![t] = d],
         d.at \in {"none", "look", "done"}, d.sp = 1, d.at = "done" => d.ok = FALSE
  PROVE  MappedIsAccounted' /\ Ranged' /\ Owned' /\ Passed'
<1>1. commitCall'[t] = d /\ \A u \in Threads : u # t => commitCall'[u] = commitCall[u]
  BY DEF KvInv, Typed
<1>2. MappedIsAccounted'
  <2> SUFFICES ASSUME NEW sp \in Spans, mapped[sp] # committed[sp]
               PROVE  \E u \in Threads : /\ commitCall'[u].at = "finish" /\ commitCall'[u].sp = sp
                                         /\ commitCall'[u].off = committed[sp]
                                         /\ commitCall'[u].want = mapped[sp]
    BY DEF MappedIsAccounted
  <2>1. PICK u \in Threads : /\ commitCall[u].at = "finish" /\ commitCall[u].sp = sp
                             /\ commitCall[u].off = committed[sp] /\ commitCall[u].want = mapped[sp]
    BY DEF KvInv, MappedIsAccounted
  <2> QED BY <2>1, <1>1
<1>3. Ranged' /\ Owned'
  BY <1>1 DEF KvInv, Ranged, Owned
<1>4. Passed'
  <2> SUFFICES ASSUME NEW u \in Threads, commitCall'[u].ok, NEW sp \in Spans,
                      sp < commitCall'[u].sp \/ commitCall'[u].at = "done"
               PROVE  RowsFor(sp, commitCall'[u].target) <= committed[sp]
    BY DEF Passed
  <2>1. CASE u = t
    BY <2>1, <1>1 DEF Spans
  <2>2. CASE u # t
    BY <2>2, <1>1 DEF KvInv, Passed
  <2> QED BY <2>1, <2>2
<1> QED BY <1>2, <1>3, <1>4

\* The grower's poll starts a call that owes every span.
LEMMA GrowPollInv == ASSUME KvInv, GrowPoll PROVE KvInv'
<1>1. GrowTarget \in Int
  BY KvAssumption DEF GrowTarget, Least, KvInv, Typed
<1>2. /\ commitCall' = [commitCall EXCEPT !["grow"] = Started(GrowTarget)]
      /\ UNCHANGED <<committed, mapped, kvPos, kvBacked, req>>
      /\ commitCall["grow"].at = "none" /\ "grow" \in Threads
  BY DEF GrowPoll, Threads
<1>3. Typed'
  BY <1>1, <1>2, StartedFacts DEF KvInv, Typed
<1>4. MappedIsAccounted' /\ Ranged' /\ Owned' /\ Passed'
  BY <1>1, <1>2, <1>3, StartedFacts, CallReset
<1>5. Published'
  BY <1>2 DEF KvInv, Published
<1> QED BY <1>3, <1>4, <1>5 DEF KvInv

\* The publication: a good call has passed every span.
LEMMA GrowDoneInv == ASSUME KvInv, GrowDone PROVE KvInv'
<1>1. /\ commitCall' = [commitCall EXCEPT !["grow"] = NoCall]
      /\ UNCHANGED <<committed, mapped, kvPos, req>>
      /\ commitCall["grow"].at = "done" /\ "grow" \in Threads
  BY DEF GrowDone, Threads
<1>2. commitCall["grow"].target \in Int
  BY <1>1 DEF KvInv, Typed
<1>3. Typed'
  BY <1>1, <1>2, NoCallType DEF GrowDone, KvInv, Typed
<1>4. NoCall.at = "none" /\ NoCall.sp = 1
  BY DEF NoCall
<1>5. MappedIsAccounted' /\ Ranged' /\ Owned' /\ Passed'
  BY <1>1, <1>3, <1>4, CallReset
<1>6. Published'
  <2>1. CASE commitCall["grow"].ok
    <3>1. kvBacked' = commitCall["grow"].target
      BY <2>1 DEF GrowDone
    <3> QED BY <2>1, <3>1, <1>1 DEF KvInv, Passed, Published
  <2>2. CASE ~commitCall["grow"].ok
    <3>1. kvBacked' = kvBacked
      BY <2>2 DEF GrowDone
    <3> QED BY <3>1, <1>1 DEF KvInv, Published
  <2> QED BY <2>1, <2>2
<1> QED BY <1>3, <1>5, <1>6 DEF KvInv

\* A request's next phase is a phase.
LEMMA PhaseAtType == \A pos, goal, left \in Int : PhaseAt(pos, goal, left) \in Phases
BY DEF PhaseAt, Phases

\* A step that moves no span, no call and publishes nothing keeps the invariant.
LEMMA CallsAlone ==
  ASSUME KvInv, UNCHANGED <<committed, mapped, commitCall, kvBacked>>, Typed' PROVE KvInv'
BY DEF KvInv, MappedIsAccounted, Ranged, Owned, Passed, Published

\* A step of the request thread starts or ends its own call.
LEMMA ServerInv == ASSUME KvInv, Server PROVE KvInv'
<1>1. ASSUME NEW n \in 1..MaxIds, NEW hit \in Hits \cup {0}, NEW promote \in 0..MaxIds,
             Arrive(n, hit, promote)
      PROVE  KvInv'
  <2>1. n \in Int /\ hit \in Int /\ promote \in Int /\ CtxRoom(n) \in Int
    BY KvAssumption DEF CtxRoom
  <2> DEFINE goal == IF promote > 0 THEN promote ELSE n - 1
  <2>2. goal \in Int
    BY <2>1
  <2>3. req' = [phase |-> PhaseAt(hit, goal, CtxRoom(n)), n |-> n, pos |-> hit,
                goal |-> goal, left |-> CtxRoom(n)]
    BY <1>1 DEF Arrive
  <2> HIDE DEF goal
  <2>4. req' \in [phase : Phases, n : Int, pos : Int, goal : Int, left : Int]
    BY <2>1, <2>2, <2>3, PhaseAtType
  <2>5. UNCHANGED <<committed, mapped, commitCall, kvPos, kvBacked>>
    BY <1>1 DEF Arrive
  <2>6. Typed'
    BY <2>4, <2>5 DEF KvInv, Typed
  <2> QED BY <2>5, <2>6, CallsAlone
<1>2. CASE Reserve
  <2>1. ReserveTarget \in Int
    BY DEF ReserveTarget, KvInv, Typed
  <2>2. /\ commitCall' = [commitCall EXCEPT !["serve"] = Started(ReserveTarget)]
        /\ UNCHANGED <<committed, mapped, kvPos, kvBacked, req>>
        /\ commitCall["serve"].at = "none" /\ "serve" \in Threads
    BY <1>2 DEF Reserve, Threads
  <2>3. Typed'
    BY <2>1, <2>2, StartedFacts DEF KvInv, Typed
  <2>4. MappedIsAccounted' /\ Ranged' /\ Owned' /\ Passed'
    BY <2>1, <2>2, <2>3, StartedFacts, CallReset
  <2>5. Published'
    BY <2>2 DEF KvInv, Published
  <2> QED BY <2>3, <2>4, <2>5 DEF KvInv
<1>3. CASE ReserveDone
  <2>1. /\ commitCall' = [commitCall EXCEPT !["serve"] = NoCall]
        /\ kvPos' = commitCall["serve"].target
        /\ req' = [req EXCEPT !.phase = "prefill"]
        /\ UNCHANGED <<committed, mapped, kvBacked>>
        /\ commitCall["serve"].at = "done" /\ "serve" \in Threads
    BY <1>3 DEF ReserveDone, Threads
  <2>2. Typed'
    BY <2>1, NoCallType DEF KvInv, Typed, Phases
  <2>3. NoCall.at = "none" /\ NoCall.sp = 1
    BY DEF NoCall
  <2>4. MappedIsAccounted' /\ Ranged' /\ Owned' /\ Passed'
    BY <2>1, <2>2, <2>3, CallReset
  <2>5. Published'
    BY <2>1 DEF KvInv, Published
  <2> QED BY <2>2, <2>4, <2>5 DEF KvInv
<1>4. CASE PrefillChunk
  <2> DEFINE end == Least(req.pos + PrefillLen, req.goal)
  <2>1. end \in Int /\ req.n - 1 \in Int
    BY KvAssumption DEF Least, KvInv, Typed
  <2>2. /\ req' = IF end < req.goal THEN [req EXCEPT !.pos = end]
                  ELSE [req EXCEPT !.pos = end, !.goal = req.n - 1,
                                   !.phase = PhaseAt(end, req.n - 1, req.left)]
        /\ UNCHANGED <<committed, mapped, commitCall, kvPos, kvBacked>>
    BY <1>4 DEF PrefillChunk
  <2> HIDE DEF end
  <2>3. PhaseAt(end, req.n - 1, req.left) \in Phases
    BY <2>1, PhaseAtType DEF KvInv, Typed
  <2>4. req' \in [phase : Phases, n : Int, pos : Int, goal : Int, left : Int]
    BY <2>1, <2>2, <2>3 DEF KvInv, Typed
  <2>5. Typed'
    BY <2>2, <2>4 DEF KvInv, Typed
  <2> QED BY <2>2, <2>5, CallsAlone
<1>5. ASSUME NEW k \in 0..DraftLen, NEW eos \in BOOLEAN, DecodeBlock(k, eos) PROVE KvInv'
  <2> DEFINE pos == req.pos + k + 1
             left == IF req.left > k + 1 THEN req.left - (k + 1) ELSE 0
  <2>1. pos \in Int /\ left \in Int
    BY DEF KvInv, Typed
  <2>2. /\ req' = IF Outrun(pos) \/ eos \/ left = 0 THEN NoReq
                  ELSE [req EXCEPT !.pos = pos, !.left = left]
        /\ kvPos' = pos
        /\ UNCHANGED <<committed, mapped, commitCall, kvBacked>>
    BY <1>5 DEF DecodeBlock
  <2> HIDE DEF pos, left
  <2>3. req' \in [phase : Phases, n : Int, pos : Int, goal : Int, left : Int]
    <3>1. NoReq \in [phase : Phases, n : Int, pos : Int, goal : Int, left : Int]
      BY DEF NoReq, Phases
    <3>2. [req EXCEPT !.pos = pos, !.left = left]
            \in [phase : Phases, n : Int, pos : Int, goal : Int, left : Int]
      BY <2>1 DEF KvInv, Typed
    <3>3. req' = NoReq \/ req' = [req EXCEPT !.pos = pos, !.left = left]
      BY <2>2
    <3> QED BY <3>1, <3>2, <3>3
  <2>4. Typed'
    BY <2>1, <2>2, <2>3 DEF KvInv, Typed
  <2> QED BY <2>2, <2>4, CallsAlone
<1> QED BY <1>1, <1>2, <1>3, <1>4, <1>5 DEF Server

\* The invariant is inductive.
LEMMA NextInv == KvInv /\ [KvNext]_kvVars => KvInv'
<1> SUFFICES ASSUME KvInv, [KvNext]_kvVars PROVE KvInv'
  OBVIOUS
<1>1. ASSUME NEW t \in Threads, Commit(t) PROVE KvInv'
  BY <1>1, LookInv, MapInv, GrowFinishInv DEF Commit
<1>2. ASSUME NEW t \in Threads, CommitFails(t) PROVE KvInv'
  BY <1>2, FinishFailsInv DEF CommitFails
<1>3. CASE Grower
  BY <1>3, GrowPollInv, GrowDoneInv DEF Grower
<1>4. CASE Server
  BY <1>4, ServerInv
<1>5. CASE UNCHANGED kvVars
  <2>1. UNCHANGED <<committed, mapped, commitCall, kvPos, kvBacked, req>>
    BY <1>5 DEF kvVars
  <2>2. Typed'
    BY <2>1 DEF KvInv, Typed
  <2> QED BY <2>1, <2>2, CallsAlone
<1> QED BY <1>1, <1>2, <1>3, <1>4, <1>5 DEF KvNext

\* It holds of every behaviour.
LEMMA KvSpecInv == KvSpec => []KvInv
<1>1. KvInit => KvInv
  BY InitInv
<1>2. KvInv /\ [KvNext]_kvVars => KvInv'
  BY NextInv
<1> QED BY <1>1, <1>2, PTL DEF KvSpec

\* kv_backed_positions() never promises more than is mapped, for any number of
\* spans, any sizes and any failures, though the two threads take no lock.
THEOREM BackedIsAlwaysMapped == KvSpec => []BackedIsMapped
<1>1. KvInv => BackedIsMapped
  BY InvImplies
<1> QED BY <1>1, KvSpecInv, PTL

\* No growth is lost, overlapped or unmapped under the other thread.
THEOREM MappedIsAlwaysAccounted == KvSpec => []MappedIsAccounted
<1>1. KvInv => MappedIsAccounted
  BY InvImplies
<1> QED BY <1>1, KvSpecInv, PTL

-----------------------------------------------------------------------------
(* No row outside the mapped prefix is written.                            *)

\* Every prompt and the first block after it fit what is backed at load: what the
\* request thread does when its own commit fails is to go on.
PromptsFit == \A sp \in Spans : MaxIds + DraftLen <= InitPos + 2 * Ratio[sp]

\* A prefill ends before the prompt's last token, and a block either is the first after
\* one or was found inside the published range.
RequestInv ==
  /\ req.pos \in Nat /\ req.goal \in Nat
  /\ req.phase # "idle" => req.n <= MaxIds
  /\ req.phase \in {"reserve", "prefill"} => req.goal < req.n /\ req.pos < req.n
  /\ req.phase = "decode" => req.pos < req.n \/ req.pos + DraftLen + 2 <= kvBacked
  /\ commitCall["serve"].at # "none" => req.phase = "reserve"

\* The published range only grows, and never past the context.
BackedInv ==
  /\ InitPos <= kvBacked /\ kvBacked <= MaxPos
  /\ commitCall["grow"].at # "none" /\ commitCall["grow"].ok =>
       kvBacked <= commitCall["grow"].target /\ commitCall["grow"].target <= MaxPos

WriteInv == RequestInv /\ BackedInv /\ ~unbacked

\* What a quotient is.
LEMMA DivBound ==
  ASSUME NEW R \in Nat \ {0}, NEW x \in Nat, NEW q \in Nat
  PROVE  x \div R \in Nat /\ (R * q <= x <=> q <= x \div R)
<1> DEFINE d == x \div R
<1>1. d \in Nat /\ x % R \in 0..(R - 1) /\ x = R * d + (x % R)
  OBVIOUS
<1>2. x % R \in Nat /\ x % R < R
  BY <1>1
<1> HIDE DEF d
<1>3. ASSUME q <= d PROVE R * q <= x
  <2>1. PICK c \in Nat : d = q + c
    BY <1>1, <1>3
  <2>2. R * d = R * q + R * c /\ R * c \in Nat /\ R * q \in Nat /\ R * d \in Nat
    BY <2>1
  <2> QED BY <1>1, <1>2, <2>2
<1>4. ASSUME d < q PROVE ~(R * q <= x)
  <2>1. PICK c \in Nat : q = d + 1 + c
    BY <1>1, <1>4
  <2>2. R * q = R * d + R + R * c /\ R * c \in Nat /\ R * q \in Nat /\ R * d \in Nat
    BY <1>1, <2>1
  <2> QED BY <1>1, <1>2, <2>2
<1>5. q <= d \/ d < q
  BY <1>1
<1> QED BY <1>1, <1>3, <1>4, <1>5 DEF d

\* Two rows of slack a span are what a block needs past the range it was sized for.
LEMMA RowsCover ==
  ASSUME NEW sp \in Spans, NEW b \in Nat, NEW p \in Nat, b <= MaxPos, p <= b + 2 * Ratio[sp]
  PROVE  RowsUsed(sp, p) \in Nat /\ RowsFor(sp, b) \in Nat /\ RowsUsed(sp, p) <= RowsFor(sp, b)
<1> DEFINE r == Ratio[sp]
<1> DEFINE m == MaxPos \div r
<1> DEFINE a == p \div r
<1> DEFINE q == b \div r
<1> DEFINE full == Full(sp)
<1>1. r \in Nat \ {0} /\ MaxPos \in Nat \ {0} /\ p <= b + 2 * r
  BY KvAssumption
<1>2. Full(sp) = m + 2 /\ RowsUsed(sp, p) = a
  BY DEF Full, RowsUsed
<1> HIDE DEF r
<1>3. m \in Nat /\ a \in Nat /\ q \in Nat
  BY <1>1, DivBound
<1>4. /\ r * q <= b /\ r * a <= p
      /\ ~(r * (m + 1) <= MaxPos)
      /\ \A j \in Nat : r * j <= b => j <= q
  <2>1. q <= q /\ a <= a /\ m + 1 \in Nat /\ ~(m + 1 <= m)
    BY <1>3
  <2> QED BY <1>1, <1>3, <2>1, DivBound
<1>5. q <= m
  <2>1. r * q \in Nat /\ r * q <= MaxPos
    BY <1>1, <1>3, <1>4
  <2> QED BY <1>1, <1>3, <2>1, DivBound
<1> HIDE DEF m, a, q
<1>6. a <= q + 2
  <2>1. CASE a < 2
    BY <1>3, <2>1
  <2>2. CASE a >= 2
    <3>1. PICK j \in Nat : a = j + 2
      BY <1>3, <2>2
    <3>2. r * a = r * j + 2 * r /\ r * j \in Nat
      BY <1>1, <3>1
    <3>3. r * j <= b
      BY <1>1, <1>4, <3>2
    <3> QED BY <1>3, <1>4, <3>1, <3>3
  <2> QED BY <1>3, <2>1, <2>2
<1>7. full = m + 2
  BY <1>2
<1> HIDE DEF full
<1>8. CASE b = MaxPos
  <2>1. RowsFor(sp, b) = m + 2
    BY <1>1, <1>7, <1>8 DEF RowsFor, full
  <2> QED BY <1>2, <1>3, <1>5, <1>6, <2>1
<1>9. CASE b < MaxPos
  <2> DEFINE prod == full * b
  <2>1. prod \in Nat /\ full \in Nat
    BY <1>3, <1>7
  <2>2. MaxPos * q <= prod
    <3>1. full * r = r * (m + 1) + r /\ r * (m + 1) \in Nat
      BY <1>1, <1>3, <1>7
    <3>2. MaxPos <= full * r /\ full * r \in Nat
      BY <1>1, <1>4, <3>1
    <3>3. PICK x \in Nat : full * r = MaxPos + x
      BY <1>1, <3>2
    <3>4. PICK y \in Nat : b = r * q + y
      BY <1>1, <1>3, <1>4
    <3>5. prod = (full * r) * q + full * y
      BY <1>1, <1>3, <2>1, <3>4
    <3>6. (full * r) * q = MaxPos * q + x * q
      BY <1>1, <1>3, <3>3
    <3>7. full * y \in Nat /\ x * q \in Nat /\ MaxPos * q \in Nat
      BY <1>1, <1>3, <2>1
    <3> HIDE DEF prod
    <3> QED BY <3>5, <3>6, <3>7
  <2> HIDE DEF prod
  <2>3. prod \div MaxPos \in Nat /\ q <= prod \div MaxPos
    BY <1>1, <1>3, <2>1, <2>2, DivBound
  <2>4. RowsFor(sp, b) = Least(full, prod \div MaxPos + 2)
    BY <1>1, <1>9 DEF RowsFor, prod, full
  <2> QED BY <1>2, <1>3, <1>5, <1>6, <1>7, <2>1, <2>3, <2>4 DEF Least
<1> QED BY <1>1, <1>8, <1>9

\* A span's rows are a number.
LEMMA RowsForNat ==
  ASSUME NEW sp \in Spans, NEW pos \in Nat PROVE RowsFor(sp, pos) \in Nat
<1>1. MaxPos \in Nat \ {0} /\ Ratio[sp] \in Nat \ {0}
  BY KvAssumption
<1>2. Full(sp) \in Nat
  <2>1. MaxPos \div Ratio[sp] \in Nat
    BY <1>1, DivBound
  <2> QED BY <2>1 DEF Full
<1> DEFINE prod == Full(sp) * pos
<1>3. prod \in Nat
  BY <1>2
<1> HIDE DEF prod
<1>4. prod \div MaxPos \in Nat
  BY <1>1, <1>3, DivBound
<1> QED
  BY <1>2, <1>4 DEF RowsFor, Least, prod

\* What a call of commit_to and a request are.
GrowCalls == [at : Places, target : Nat, sp : Spans, off : Nat, want : Nat, ok : BOOLEAN]
Requests == [phase : Phases, n : Nat, pos : Nat, goal : Nat, left : Nat]

\* GrowCalls stay calls.
LEMMA CallTypes ==
  /\ NoCall \in GrowCalls
  /\ \A x \in Nat : Started(x) \in GrowCalls
  /\ \A c \in GrowCalls : Failed(c) \in GrowCalls /\ NextSpan(c) \in GrowCalls
<1>1. NoCall \in GrowCalls
  BY SpanFacts DEF NoCall, GrowCalls, Places
<1>2. ASSUME NEW x \in Nat PROVE Started(x) \in GrowCalls
  BY <1>1 DEF Started, GrowCalls, Places
<1>3. ASSUME NEW c \in GrowCalls PROVE Failed(c) \in GrowCalls
  BY DEF Failed, GrowCalls, Places
<1>4. ASSUME NEW c \in GrowCalls PROVE NextSpan(c) \in GrowCalls
  <2>1. c.sp # NSpans => c.sp + 1 \in Spans
    BY SpanFacts DEF GrowCalls
  <2>2. NextSpan(c) = [c EXCEPT !.at = "done"] \/ (c.sp # NSpans /\ NextSpan(c) = [c EXCEPT !.at = "look", !.sp = c.sp + 1])
    BY DEF NextSpan
  <2> QED BY <2>1, <2>2 DEF GrowCalls, Places
<1> QED
  BY <1>1, <1>2, <1>3, <1>4

\* The initial state is typed.
LEMMA KvTypeInit == KvInit => KvTypeOK
<1> SUFFICES ASSUME KvInit PROVE KvTypeOK
  OBVIOUS
<1>1. InitPos \in Nat /\ Vram \in Nat /\ MaxReqs \in Nat
  BY KvAssumption
<1>2. committed \in [Spans -> Nat]
  BY <1>1, RowsForNat DEF KvInit
<1>3. commitCall \in [Threads -> GrowCalls]
  BY CallTypes DEF KvInit
<1>4. req \in Requests
  BY DEF KvInit, NoReq, Requests, Phases
<1>5. mapped \in [Spans -> Nat]
  BY <1>2 DEF KvInit
<1>6. vram \in Nat /\ kvPos \in Nat /\ kvBacked \in Nat
  BY <1>1 DEF KvInit
<1>7. growErr \in BOOLEAN /\ unbacked \in BOOLEAN
  BY DEF KvInit
<1>8. reqs \in 0..MaxReqs
  BY <1>1 DEF KvInit
<1> QED
  BY <1>2, <1>3, <1>4, <1>5, <1>6, <1>7, <1>8 DEF KvTypeOK, GrowCalls, Places, Requests, Phases

\* A walk over the spans keeps the types; what a growth takes, VRAM has.
LEMMA CommitType ==
  ASSUME KvTypeOK, KvInv, NEW t \in Threads, Look(t) \/ Map(t) \/ FinishGrowth(t) \/ FinishFails(t)
  PROVE  KvTypeOK' /\ UNCHANGED <<req, unbacked, kvBacked>>
<1> DEFINE c == commitCall[t]
<1>1. /\ commitCall \in [Threads -> GrowCalls] /\ c \in GrowCalls
      /\ c.sp \in Spans /\ c.off \in Nat /\ c.want \in Nat /\ c.target \in Nat
      /\ committed \in [Spans -> Nat] /\ mapped \in [Spans -> Nat] /\ vram \in Nat
      /\ committed[c.sp] \in Nat
  BY DEF KvTypeOK, GrowCalls, Places
<1>2. UNCHANGED <<kvPos, kvBacked, growErr, req, reqs, unbacked>>
  BY DEF Look, Map, FinishGrowth, FinishFails
<1>3. c.at \in {"map", "finish"} => c.off < c.want
  BY DEF KvInv, Ranged
<1> SUFFICES /\ commitCall' \in [Threads -> GrowCalls] /\ committed' \in [Spans -> Nat]
             /\ mapped' \in [Spans -> Nat] /\ vram' \in Nat
  BY <1>2 DEF KvTypeOK, GrowCalls, Places
<1>4. CASE Look(t)
  <2> DEFINE want == RowsFor(c.sp, c.target)
  <2>1. want \in Nat
    BY <1>1, RowsForNat
  <2>2. /\ UNCHANGED <<committed, mapped, vram>>
        /\ \/ commitCall' = [commitCall EXCEPT ![t] = NextSpan(c)]
           \/ commitCall' = [commitCall EXCEPT ![t] = [c EXCEPT !.at = "map", !.off = committed[c.sp], !.want = want]]
    BY <1>4 DEF Look
  <2> HIDE DEF want
  <2>3. NextSpan(c) \in GrowCalls /\ [c EXCEPT !.at = "map", !.off = committed[c.sp], !.want = want] \in GrowCalls
    BY <1>1, <2>1, CallTypes DEF GrowCalls, Places
  <2> QED BY <1>1, <2>2, <2>3
<1>5. CASE Map(t)
  <2>1. /\ UNCHANGED committed
        /\ \/ UNCHANGED <<mapped, vram>> /\ commitCall' = [commitCall EXCEPT ![t] = Failed(c)]
           \/ /\ c.want - c.off <= vram /\ mapped' = [mapped EXCEPT ![c.sp] = c.want]
              /\ vram' = vram - (c.want - c.off)
              /\ commitCall' = [commitCall EXCEPT ![t] = [c EXCEPT !.at = "finish"]]
    BY <1>5 DEF Map, MapOk
  <2>2. Failed(c) \in GrowCalls /\ [c EXCEPT !.at = "finish"] \in GrowCalls
    BY <1>1, CallTypes DEF GrowCalls, Places
  <2>3. commitCall' \in [Threads -> GrowCalls] /\ mapped' \in [Spans -> Nat] /\ committed' \in [Spans -> Nat]
    BY <1>1, <2>1, <2>2
  <2>4. vram' \in Nat
    BY <1>1, <2>1
  <2> QED BY <2>3, <2>4
<1>6. CASE FinishGrowth(t)
  BY <1>1, <1>6, CallTypes DEF FinishGrowth
<1>7. CASE FinishFails(t)
  <2>1. /\ UNCHANGED committed /\ mapped' = [mapped EXCEPT ![c.sp] = c.off]
        /\ vram' = vram + (c.want - c.off) /\ c.off < c.want
        /\ commitCall' = [commitCall EXCEPT ![t] = Failed(c)]
    BY <1>3, <1>7 DEF FinishFails
  <2>2. vram' \in Nat
    BY <1>1, <2>1
  <2> QED BY <1>1, <2>1, <2>2, CallTypes
<1> QED BY <1>4, <1>5, <1>6, <1>7

\* The grower's poll and its end keep the types.
LEMMA GrowerType == ASSUME KvTypeOK, Grower PROVE KvTypeOK'
<1>1. commitCall \in [Threads -> GrowCalls] /\ "grow" \in Threads /\ commitCall["grow"].target \in Nat
  BY DEF KvTypeOK, GrowCalls, Places, Threads
<1>2. GrowTarget \in Nat
  <2>1. kvPos \in Nat /\ Margin \in Nat \ {0} /\ MaxPos \in Nat
    BY KvAssumption DEF KvTypeOK
  <2>2. (kvPos + Margin) \div Margin \in Nat
    BY <2>1, DivBound
  <2> DEFINE up == ((kvPos + Margin) \div Margin + 1) * Margin
  <2>3. up \in Nat
    BY <2>1, <2>2
  <2> HIDE DEF up
  <2> QED BY <2>1, <2>3 DEF GrowTarget, Least, up
<1>3. CASE GrowPoll
  <2>1. commitCall' = [commitCall EXCEPT !["grow"] = Started(GrowTarget)] /\ Started(GrowTarget) \in GrowCalls
    BY <1>2, <1>3, CallTypes DEF GrowPoll
  <2>2. commitCall' \in [Threads -> GrowCalls]
    BY <1>1, <2>1
  <2> QED BY <1>3, <2>2 DEF GrowPoll, KvTypeOK, GrowCalls, Places
<1>4. CASE GrowDone
  <2>1. commitCall' = [commitCall EXCEPT !["grow"] = NoCall] /\ NoCall \in GrowCalls
    BY <1>4, CallTypes DEF GrowDone
  <2>2. commitCall' \in [Threads -> GrowCalls]
    BY <1>1, <2>1
  <2>3. kvBacked' \in Nat /\ growErr' \in BOOLEAN
    BY <1>1, <1>4 DEF GrowDone, KvTypeOK
  <2>4. UNCHANGED <<committed, mapped, vram, kvPos, req, reqs, unbacked>>
    BY <1>4 DEF GrowDone
  <2> QED BY <2>2, <2>3, <2>4 DEF KvTypeOK, GrowCalls, Places
<1> QED BY <1>3, <1>4 DEF Grower

\* The grower publishes no less than it did, and no more than the context.
LEMMA GrowerKeeps ==
  ASSUME KvTypeOK, BackedInv, Grower
  PROVE  BackedInv' /\ kvBacked <= kvBacked' /\ UNCHANGED <<req, unbacked>>
<1>0. /\ MaxPos \in Nat /\ InitPos \in Nat /\ kvBacked \in Nat /\ GrowTarget <= MaxPos
      /\ commitCall["grow"].target \in Nat /\ "grow" \in Threads
  <2>1. "grow" \in Threads
    BY DEF Threads
  <2>2. kvBacked \in Nat /\ commitCall["grow"].target \in Nat /\ kvPos \in Nat
    BY <2>1 DEF KvTypeOK
  <2>3. MaxPos \in Nat /\ InitPos \in Nat /\ Margin \in Nat \ {0}
    BY KvAssumption
  <2> DEFINE up == ((kvPos + Margin) \div Margin + 1) * Margin
  <2>4. up \in Int
    BY <2>2, <2>3
  <2> HIDE DEF up
  <2>5. GrowTarget <= MaxPos
    BY <2>3, <2>4 DEF GrowTarget, Least, up
  <2> QED BY <2>1, <2>2, <2>3, <2>5
<1>1. CASE GrowPoll
  <2>1. /\ commitCall' = [commitCall EXCEPT !["grow"] = Started(GrowTarget)] /\ GrowTarget > kvBacked
        /\ UNCHANGED <<kvBacked, req, unbacked>>
    BY <1>1 DEF GrowPoll
  <2>2. commitCall'["grow"] = Started(GrowTarget)
    BY <1>0, <2>1 DEF KvTypeOK
  <2>3. Started(GrowTarget).ok => Started(GrowTarget).target = GrowTarget
    BY DEF Started, NoCall
  <2>4. GrowTarget \in Int
    BY KvAssumption DEF GrowTarget, Least, KvTypeOK
  <2> QED BY <1>0, <2>1, <2>2, <2>3, <2>4 DEF BackedInv
<1>2. CASE GrowDone
  <2>1. /\ commitCall' = [commitCall EXCEPT !["grow"] = NoCall] /\ commitCall["grow"].at = "done"
        /\ UNCHANGED <<req, unbacked>>
        /\ kvBacked' = IF commitCall["grow"].ok THEN commitCall["grow"].target ELSE kvBacked
    BY <1>2 DEF GrowDone
  <2>2. commitCall'["grow"].at = "none"
    BY <1>0, <2>1 DEF KvTypeOK, NoCall
  <2>3. InitPos <= kvBacked' /\ kvBacked' <= MaxPos /\ kvBacked <= kvBacked'
    BY <1>0, <2>1 DEF BackedInv
  <2> QED BY <2>1, <2>2, <2>3 DEF BackedInv
<1> QED BY <1>1, <1>2 DEF Grower

\* Positions within two rows of the published range are mapped.
LEMMA PositionsCovered ==
  ASSUME KvTypeOK, KvInv, BackedInv, NEW p \in Nat,
         p <= kvBacked \/ (PromptsFit /\ p <= MaxIds + DraftLen)
  PROVE  Covers(p)
<1> SUFFICES ASSUME NEW sp \in Spans PROVE RowsUsed(sp, p) <= mapped[sp]
  BY DEF Covers
<1>1. /\ kvBacked \in Nat /\ mapped[sp] \in Nat /\ MaxPos \in Nat /\ InitPos \in Nat /\ MaxIds \in Nat
      /\ DraftLen \in Nat /\ Ratio[sp] \in Nat
  BY KvAssumption DEF KvTypeOK
<1>2. p <= kvBacked + 2 * Ratio[sp] /\ kvBacked <= MaxPos
  BY <1>1 DEF PromptsFit, BackedInv
<1>3. RowsUsed(sp, p) <= RowsFor(sp, kvBacked) /\ RowsUsed(sp, p) \in Nat /\ RowsFor(sp, kvBacked) \in Nat
  BY <1>1, <1>2, RowsCover
<1>4. RowsFor(sp, kvBacked) <= mapped[sp]
  BY InvImplies DEF BackedIsMapped
<1> QED
  BY <1>1, <1>3, <1>4

\* The request thread writes inside what is backed: at load by PromptsFit, past that by Outrun.
LEMMA ServerKeeps ==
  ASSUME PromptsFit, KvTypeOK, KvInv, WriteInv, Server
  PROVE  KvTypeOK' /\ WriteInv'
<1>0. /\ MaxPos \in Nat /\ InitPos \in Nat /\ MaxIds \in Nat /\ DraftLen \in Nat /\ PrefillLen \in Nat \ {0}
      /\ Room \in Nat /\ MaxReqs \in Nat
  BY KvAssumption
<1>1. /\ commitCall \in [Threads -> GrowCalls] /\ req \in Requests /\ kvBacked \in Nat /\ reqs \in 0..MaxReqs
      /\ req.pos \in Nat /\ req.n \in Nat /\ req.goal \in Nat /\ req.left \in Nat
      /\ "serve" \in Threads
  BY DEF KvTypeOK, GrowCalls, Places, Requests, Phases, Threads
<1>2. ASSUME NEW n \in 1..MaxIds, NEW hit \in Hits \cup {0}, NEW promote \in 0..MaxIds,
             Arrive(n, hit, promote)
      PROVE  KvTypeOK' /\ WriteInv'
  <2> DEFINE goal == IF promote > 0 THEN promote ELSE n - 1
  <2> DEFINE left == CtxRoom(n)
  <2>1. n \in Nat /\ 1 <= n /\ n <= MaxIds /\ hit \in Nat /\ promote \in Nat /\ left \in Nat
    BY <1>0, KvAssumption DEF CtxRoom
  <2>2. /\ hit < n /\ promote < n /\ reqs < MaxReqs
        /\ req' = [phase |-> PhaseAt(hit, goal, left), n |-> n, pos |-> hit, goal |-> goal, left |-> left]
        /\ unbacked' = ~Covers(hit) /\ reqs' = reqs + 1
        /\ UNCHANGED <<committed, mapped, vram, commitCall, kvPos, kvBacked, growErr>>
    BY <1>2 DEF Arrive
  <2>3. goal \in Nat /\ goal < n
    BY <2>1, <2>2
  <2> HIDE DEF goal, left
  <2>4. PhaseAt(hit, goal, left) \in Phases
    BY <2>1, <2>3, PhaseAtType
  <2>5. req' \in Requests /\ reqs' \in 0..MaxReqs
    BY <1>0, <1>1, <2>1, <2>2, <2>3, <2>4 DEF Requests
  <2>6. Covers(hit)
    <3>1. hit <= MaxIds + DraftLen
      BY <1>0, <2>1, <2>2
    <3> QED BY <2>1, <3>1, PositionsCovered DEF WriteInv
  <2>7. unbacked' = FALSE
    BY <2>2, <2>6
  <2>8. KvTypeOK'
    BY <2>2, <2>5, <2>7 DEF KvTypeOK, Requests, Phases
  <2>9. RequestInv'
    <3>1. commitCall'["serve"].at = "none"
      BY <1>2, <2>2 DEF Arrive, WriteInv, RequestInv
    <3> QED BY <2>1, <2>2, <2>3, <3>1 DEF RequestInv
  <2> QED BY <2>2, <2>7, <2>8, <2>9 DEF WriteInv, BackedInv
<1>3. CASE Reserve
  <2>1. ReserveTarget \in Nat
    BY <1>1 DEF ReserveTarget
  <2>2. /\ commitCall' = [commitCall EXCEPT !["serve"] = Started(ReserveTarget)]
        /\ UNCHANGED <<committed, mapped, vram, kvPos, kvBacked, growErr, req, reqs, unbacked>>
    BY <1>3 DEF Reserve
  <2>3. commitCall' \in [Threads -> GrowCalls]
    BY <1>1, <2>1, <2>2, CallTypes
  <2>4. commitCall'["grow"] = commitCall["grow"]
    BY <1>1, <2>2
  <2>5. KvTypeOK'
    BY <2>2, <2>3 DEF KvTypeOK, GrowCalls, Places
  <2>6. RequestInv'
    BY <1>3, <2>2 DEF Reserve, WriteInv, RequestInv
  <2> QED BY <2>2, <2>4, <2>5, <2>6 DEF WriteInv, BackedInv
<1>4. CASE ReserveDone
  <2>1. /\ commitCall' = [commitCall EXCEPT !["serve"] = NoCall] /\ kvPos' = commitCall["serve"].target
        /\ commitCall["serve"].at = "done"
        /\ req' = [req EXCEPT !.phase = "prefill"]
        /\ UNCHANGED <<committed, mapped, vram, kvBacked, growErr, reqs, unbacked>>
    BY <1>4 DEF ReserveDone
  <2>2. commitCall' \in [Threads -> GrowCalls] /\ kvPos' \in Nat
    BY <1>1, <2>1, CallTypes DEF GrowCalls
  <2>3. commitCall'["grow"] = commitCall["grow"]
    BY <1>1, <2>1
  <2>4. req' \in Requests
    BY <1>1, <2>1 DEF Requests, Phases
  <2>5. KvTypeOK'
    BY <2>1, <2>2, <2>4 DEF KvTypeOK, GrowCalls, Places, Requests, Phases
  <2>6. RequestInv'
    <3>1. req.phase = "reserve" /\ req.n <= MaxIds /\ req.goal < req.n /\ req.pos < req.n
      BY <2>1 DEF WriteInv, RequestInv
    <3>2. /\ req'.phase = "prefill" /\ req'.n = req.n /\ req'.goal = req.goal /\ req'.pos = req.pos
          /\ commitCall'["serve"].at = "none"
      BY <1>1, <2>1 DEF Requests, NoCall
    <3> QED BY <1>1, <3>1, <3>2 DEF RequestInv
  <2> QED BY <2>1, <2>3, <2>5, <2>6 DEF WriteInv, BackedInv
<1>5. CASE PrefillChunk
  <2> DEFINE end == Least(req.pos + PrefillLen, req.goal)
  <2>1. req.phase = "prefill" /\ req.goal < req.n /\ req.pos < req.n /\ req.n <= MaxIds
    BY <1>5 DEF PrefillChunk, WriteInv, RequestInv
  <2>2. end \in Nat /\ end <= req.goal /\ req.n - 1 \in Nat
    BY <1>0, <1>1, <2>1 DEF Least
  <2>3. /\ unbacked' = ~Covers(end)
        /\ req' = IF end < req.goal THEN [req EXCEPT !.pos = end]
                  ELSE [req EXCEPT !.pos = end, !.goal = req.n - 1, !.phase = PhaseAt(end, req.n - 1, req.left)]
        /\ UNCHANGED <<committed, mapped, vram, commitCall, kvPos, kvBacked, growErr, reqs>>
    BY <1>5 DEF PrefillChunk
  <2> HIDE DEF end
  <2>4. unbacked' = FALSE
    <3>1. end <= MaxIds + DraftLen
      BY <1>0, <1>1, <2>1, <2>2
    <3> QED BY <2>2, <2>3, <3>1, PositionsCovered DEF WriteInv
  <2>5. PhaseAt(end, req.n - 1, req.left) \in Phases
    BY <1>1, <2>2, PhaseAtType
  <2>6. req' \in Requests
    BY <1>1, <2>2, <2>3, <2>5 DEF Requests
  <2>7. KvTypeOK'
    BY <2>3, <2>4, <2>6 DEF KvTypeOK, Requests, Phases
  <2>8. end < req.n /\ req.n - 1 < req.n
    BY <1>1, <2>1, <2>2
  <2>9. req'.pos = end /\ req'.n = req.n /\ req'.goal \in {req.goal, req.n - 1}
    BY <1>1, <2>3 DEF Requests
  <2>10. RequestInv'
    <3>1. commitCall'["serve"].at = "none"
      BY <2>1, <2>3 DEF WriteInv, RequestInv
    <3>2. req'.phase \in {"reserve", "prefill", "decode", "idle"} /\ req'.goal < req'.n /\ req'.goal \in Nat
      BY <1>1, <2>1, <2>2, <2>5, <2>6, <2>8, <2>9 DEF Phases, Requests
    <3> QED BY <2>1, <2>2, <2>8, <2>9, <3>1, <3>2 DEF RequestInv
  <2> QED BY <2>3, <2>4, <2>7, <2>10 DEF WriteInv, BackedInv
<1>6. ASSUME NEW k \in 0..DraftLen, NEW eos \in BOOLEAN, DecodeBlock(k, eos) PROVE KvTypeOK' /\ WriteInv'
  <2> DEFINE nd == IF req.pos > 0 THEN DraftLen ELSE 0
  <2> DEFINE pos == req.pos + k + 1
  <2> DEFINE left == IF req.left > k + 1 THEN req.left - (k + 1) ELSE 0
  <2> DEFINE end == req.pos + nd + 1
  <2>1. /\ req.phase = "decode" /\ req.n <= MaxIds
        /\ req.pos < req.n \/ req.pos + DraftLen + 2 <= kvBacked
    BY <1>6 DEF DecodeBlock, WriteInv, RequestInv
  <2>2. k \in Nat /\ pos \in Nat /\ left \in Nat /\ end \in Nat /\ end <= req.pos + DraftLen + 1
    BY <1>0, <1>1
  <2>3. /\ unbacked' = ~Covers(end) /\ kvPos' = pos
        /\ req' = IF Outrun(pos) \/ eos \/ left = 0 THEN NoReq ELSE [req EXCEPT !.pos = pos, !.left = left]
        /\ UNCHANGED <<committed, mapped, vram, commitCall, kvBacked, growErr, reqs>>
    BY <1>6 DEF DecodeBlock
  <2> HIDE DEF end, pos, left, nd
  <2>4. unbacked' = FALSE
    <3>1. end <= kvBacked \/ end <= MaxIds + DraftLen
      BY <1>0, <1>1, <2>1, <2>2
    <3> QED BY <2>2, <2>3, <3>1, PositionsCovered DEF WriteInv
  <2>5. NoReq \in Requests /\ [req EXCEPT !.pos = pos, !.left = left] \in Requests
    BY <1>1, <2>2 DEF Requests, NoReq, Phases
  <2>6. req' \in Requests
    BY <2>3, <2>5
  <2>7. KvTypeOK'
    BY <2>2, <2>3, <2>4, <2>6 DEF KvTypeOK, Requests, Phases
  <2>8. RequestInv'
    <3>0. commitCall'["serve"].at = "none"
      BY <2>1, <2>3 DEF WriteInv, RequestInv
    <3>1. CASE req' = NoReq
      BY <3>0, <3>1 DEF RequestInv, NoReq
    <3>2. CASE ~Outrun(pos) /\ req' = [req EXCEPT !.pos = pos, !.left = left]
      <4>1. req'.pos = pos /\ req'.phase = "decode" /\ req'.n = req.n /\ req'.goal = req.goal
        BY <1>1, <2>1, <3>2 DEF Requests
      <4>2. pos + DraftLen + 2 <= kvBacked
        BY <1>0, <1>1, <2>2, <3>2 DEF Outrun
      <4> QED BY <1>1, <2>1, <2>2, <2>3, <3>0, <4>1, <4>2 DEF RequestInv
    <3> QED BY <2>3, <3>1, <3>2
  <2> QED BY <2>3, <2>4, <2>7, <2>8 DEF WriteInv, BackedInv
<1> QED BY <1>2, <1>3, <1>4, <1>5, <1>6 DEF Server

\* A walk over the spans publishes nothing.
LEMMA CommitKeeps ==
  ASSUME KvTypeOK, KvInv, WriteInv, NEW t \in Threads,
         Look(t) \/ Map(t) \/ FinishGrowth(t) \/ FinishFails(t)
  PROVE  KvTypeOK' /\ WriteInv'
<1> DEFINE c == commitCall[t]
<1>1. KvTypeOK' /\ UNCHANGED <<req, unbacked, kvBacked>>
  BY CommitType
<1>2. /\ c \in GrowCalls /\ c.at \in {"look", "map", "finish"}
      /\ \A u \in Threads : u # t => commitCall'[u] = commitCall[u]
      /\ commitCall'[t].target = c.target /\ (commitCall'[t].ok => c.ok)
  <2>1. commitCall \in [Threads -> GrowCalls]
    BY DEF KvTypeOK, GrowCalls, Places
  <2>2. \/ \E d \in {NextSpan(c), Failed(c), [c EXCEPT !.at = "finish"]} : commitCall' = [commitCall EXCEPT ![t] = d]
        \/ \E off, want : commitCall' = [commitCall EXCEPT ![t] = [c EXCEPT !.at = "map", !.off = off, !.want = want]]
    BY DEF Look, Map, FinishGrowth, FinishFails
  <2>3. c.at \in {"look", "map", "finish"}
    BY DEF Look, Map, FinishGrowth, FinishFails
  <2> HIDE DEF c
  <2>4. c \in GrowCalls
    BY <2>1 DEF c
  <2>5. \A off, want : LET d == [c EXCEPT !.at = "map", !.off = off, !.want = want] IN d.target = c.target /\ d.ok = c.ok
    BY <2>4 DEF GrowCalls
  <2>6. \A d \in {NextSpan(c), Failed(c), [c EXCEPT !.at = "finish"]} : d.target = c.target /\ (d.ok => c.ok)
    BY <2>4 DEF GrowCalls, NextSpan, Failed
  <2>7. \E d : commitCall' = [commitCall EXCEPT ![t] = d] /\ d.target = c.target /\ (d.ok => c.ok)
    <3>1. CASE \E d \in {NextSpan(c), Failed(c), [c EXCEPT !.at = "finish"]} :
                 commitCall' = [commitCall EXCEPT ![t] = d]
      BY <2>6, <3>1
    <3>2. ASSUME NEW off, NEW want,
                 commitCall' = [commitCall EXCEPT ![t] = [c EXCEPT !.at = "map", !.off = off, !.want = want]]
          PROVE  \E d : commitCall' = [commitCall EXCEPT ![t] = d] /\ d.target = c.target /\ (d.ok => c.ok)
      <4> DEFINE d == [c EXCEPT !.at = "map", !.off = off, !.want = want]
      <4>1. d.target = c.target /\ d.ok = c.ok
        BY <2>5
      <4>2. commitCall' = [commitCall EXCEPT ![t] = d]
        BY <3>2
      <4> HIDE DEF d
      <4> QED BY <4>1, <4>2
    <3> QED BY <2>2, <3>1, <3>2
  <2> QED BY <2>1, <2>3, <2>4, <2>7 DEF c
<1>3. "grow" \in Threads /\ "serve" \in Threads
  BY DEF Threads
<1>4. BackedInv'
  <2>1. commitCall'["grow"].at # "none" /\ commitCall'["grow"].ok =>
          /\ commitCall["grow"].at # "none" /\ commitCall["grow"].ok
          /\ commitCall'["grow"].target = commitCall["grow"].target
    BY <1>2, <1>3
  <2> QED BY <1>1, <2>1 DEF WriteInv, BackedInv
<1>5. RequestInv'
  <2>1. commitCall'["serve"].at # "none" => commitCall["serve"].at # "none"
    BY <1>2, <1>3
  <2> QED BY <1>1, <2>1 DEF WriteInv, RequestInv
<1> QED BY <1>1, <1>4, <1>5 DEF WriteInv

\* The grower publishes a target that is no smaller than what it found.
LEMMA GrowerRuns ==
  ASSUME KvTypeOK, WriteInv, Grower
  PROVE  KvTypeOK' /\ WriteInv'
<1>1. BackedInv' /\ kvBacked <= kvBacked' /\ UNCHANGED <<req, unbacked>>
  BY GrowerKeeps DEF WriteInv
<1>2. KvTypeOK'
  BY GrowerType
<1>3. /\ commitCall'["serve"] = commitCall["serve"] /\ kvBacked \in Nat /\ kvBacked' \in Nat
      /\ req.pos \in Nat /\ DraftLen \in Nat
  BY <1>2, KvAssumption DEF KvTypeOK, Threads, Grower, GrowPoll, GrowDone
<1>4. RequestInv'
  BY <1>1, <1>3 DEF WriteInv, RequestInv
<1> QED BY <1>1, <1>2, <1>4 DEF WriteInv

\* At load no request runs and nothing was written.
LEMMA WriteInitInv == KvInit => WriteInv
<1> SUFFICES ASSUME KvInit PROVE WriteInv
  OBVIOUS
<1>1. /\ req = NoReq /\ unbacked = FALSE /\ kvBacked = InitPos /\ InitPos \in Nat /\ MaxPos \in Nat
      /\ InitPos <= MaxPos /\ commitCall["serve"].at = "none" /\ commitCall["grow"].at = "none"
  BY KvAssumption DEF KvInit, NoCall, Threads
<1>2. NoReq.pos = 0 /\ NoReq.goal = 0 /\ NoReq.phase = "idle"
  BY DEF NoReq
<1> QED BY <1>1, <1>2 DEF WriteInv, RequestInv, BackedInv

\* Types and the invariant, step by step.
LEMMA KvStep ==
  ASSUME PromptsFit, KvTypeOK, KvInv, WriteInv, [KvNext]_kvVars
  PROVE  KvTypeOK' /\ WriteInv'
<1>1. ASSUME NEW t \in Threads, Commit(t) \/ CommitFails(t) PROVE KvTypeOK' /\ WriteInv'
  BY <1>1, CommitKeeps DEF Commit, CommitFails
<1>2. CASE Grower
  BY <1>2, GrowerRuns
<1>3. CASE Server
  BY <1>3, ServerKeeps
<1>4. CASE UNCHANGED kvVars
  BY <1>4 DEF kvVars, KvTypeOK, WriteInv, RequestInv, BackedInv
<1> QED BY <1>1, <1>2, <1>3, <1>4 DEF KvNext

\* dense_gpu.h:199, as far as the code keeps it: while prompts fit what is backed at
\* load, no restore, prefill or block writes a row that is not mapped, whatever the
\* driver refuses either thread and however far a request decodes.
THEOREM WritesAreBacked == ASSUME PromptsFit PROVE KvSpec => []NoUnbackedWrite
<1>1. KvInit => KvTypeOK /\ KvInv /\ WriteInv
  BY KvTypeInit, InitInv, WriteInitInv
<1>2. KvTypeOK /\ KvInv /\ WriteInv /\ [KvNext]_kvVars => KvTypeOK' /\ KvInv' /\ WriteInv'
  BY NextInv, KvStep, PromptsFit
<1>3. KvTypeOK /\ KvInv /\ WriteInv => NoUnbackedWrite
  BY DEF WriteInv, NoUnbackedWrite
<1> QED BY <1>1, <1>2, <1>3, PTL DEF KvSpec
=============================================================================
