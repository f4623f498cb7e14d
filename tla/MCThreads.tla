----------------------------- MODULE MCThreads -----------------------------
(* What the engine's threads and cards do beside the requests, on small    *)
(* instances: three pool workers, two regions and the destructor; three    *)
(* cards whose grid changes between passes of two collectives, as it does  *)
(* between a draft, a verify block and a prompt chunk; two spans of the KV  *)
(* cache, at ratio 2 and at ratio 4, with the two threads that grow them.  *)
(* A behaviour exercises one of them, and the others have done all they    *)
(* will do: they share nothing in the code.                                *)
EXTENDS ThreadPool, TpAllReduce, KvGrow, TLC

MCCalls == <<1, 1, 2, 2, 1, 1>>
MCCell == 0..1
\* Block b of a grid of nb owns cells b*w .. b*w + w - 1, w = ceil(n / nb).
MCChunk == [nb \in 1..2 |-> [c \in MCCell |-> c \div ((2 + nb - 1) \div nb)]]
TwoRatios == (1 :> 2) @@ (2 :> 4)
OneHit == {3}

PoolDone ==
  /\ epoch = 0 /\ remaining = 0 /\ sleepers = 0 /\ stop = TRUE
  /\ region = 0 /\ mu = Free /\ dpc = "gone"
  /\ pc = [w \in Worker |-> "exit"]
  /\ seen = [w \in Worker |-> 0] /\ e = [w \in Worker |-> 0] /\ fn = [w \in Worker |-> 0]
  /\ ran = [p \in Party |-> 0] /\ spurious = 0

TpDone ==
  /\ call = [r \in Rank |-> NCalls]
  /\ ph = [r \in Rank |-> [b \in Block |-> "done"]]
  /\ seq = [r \in Rank |-> [b \in Block |-> Reached(NCalls, b)]]
  /\ flag = [q \in Rank |-> [r \in Rank |-> [b \in Block |-> 0]]]
  /\ scratch = [q \in Rank |-> [r \in Rank |-> [t \in 0..1 |-> [c \in Cell |-> 0]]]]

\* A cache backed to the end, and every request served.
KvDone ==
  /\ committed = [sp \in Spans |-> Full(sp)] /\ mapped = committed /\ vram = 0
  /\ commitCall = [t \in Threads |-> NoCall]
  /\ kvPos = MaxPos /\ kvBacked = MaxPos /\ growErr = FALSE
  /\ req = NoReq /\ reqs = MaxReqs /\ unbacked = FALSE

ThreadsInit == \/ PoolInit /\ TpDone /\ KvDone
               \/ TpInit /\ PoolDone /\ KvDone
               \/ KvInit /\ PoolDone /\ TpDone

ThreadsNext == \/ PoolNext /\ UNCHANGED <<tpVars, kvVars>>
               \/ TpNext /\ UNCHANGED <<poolVars, kvVars>>
               \/ KvNext /\ UNCHANGED <<poolVars, tpVars>>

(* Each part's own fairness.                                               *)
ThreadsSpec ==
  /\ ThreadsInit /\ [][ThreadsNext]_<<poolVars, tpVars, kvVars>>
  /\ WF_poolVars(CallerStep) /\ SF_poolVars(Pair)
  /\ \A w \in Worker : WF_poolVars(WorkerStep(w)) /\ SF_poolVars(Lock(w))
  /\ \A r \in Rank : WF_tpVars(Start(r)) /\ \A b \in Block : WF_tpVars(BlockNext(r, b))
  /\ WF_kvVars(Grower) /\ \A t \in Threads : WF_kvVars(Commit(t))
=============================================================================
