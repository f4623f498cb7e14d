----------------------------- MODULE ThreadPool -----------------------------
(***************************************************************************)
(* The host worker pool (src/engine/threadpool.cpp): a region is          *)
(* published by bumping an epoch, workers run their chunk and count a      *)
(* counter down, the caller spins on the counter.  Workers with nothing to *)
(* do sleep on a condition variable that the caller signals only when a    *)
(* sleeper has announced itself.                                           *)
(*                                                                         *)
(* Atomics are sequentially consistent here, which is what the code asks   *)
(* for where it matters (epoch_ against sleepers_).  A call from inside a  *)
(* worker, of no elements or of a pool of one runs inline and is no region.*)
(***************************************************************************)
EXTENDS Naturals, FiniteSets

CONSTANTS Worker, Caller, Regions, MaxSpurious

ASSUME PoolAssumption ==
  /\ IsFiniteSet(Worker) /\ Caller \notin Worker
  /\ Regions \in Nat /\ MaxSpurious \in Nat

VARIABLES
  epoch, remaining, sleepers, stop,
  region,    \* fn_ and n_: the region they belong to
  mu,        \* mu_ is held by this thread
  dpc,       \* where the caller is
  pc,        \* where each worker is
  seen, e,   \* worker_loop's locals
  fn,        \* the region a worker has read from fn_ and n_
  ran,       \* regions each party has run its chunk of
  spurious   \* wake-ups of the condition variable nobody asked for

poolVars == <<epoch, remaining, sleepers, stop, region, mu, dpc, pc, seen, e, fn, ran, spurious>>
Free == "free"
Party == Worker \cup {Caller}

PoolInit ==
  /\ epoch = 0 /\ remaining = 0 /\ sleepers = 0 /\ stop = FALSE
  /\ region = 0 /\ mu = Free /\ dpc = "idle"
  /\ pc = [w \in Worker |-> "top"]
  /\ seen = [w \in Worker |-> 0] /\ e = [w \in Worker |-> 0] /\ fn = [w \in Worker |-> 0]
  /\ ran = [p \in Party |-> 0] /\ spurious = 0

Goto(w, label) == pc' = [pc EXCEPT ![w] = label]

-----------------------------------------------------------------------------
(* worker_loop.                                                            *)

Top(w) ==
  /\ pc[w] = "top"
  /\ e' = [e EXCEPT ![w] = epoch]
  /\ Goto(w, IF epoch = seen[w] THEN "announce" ELSE "go")
  /\ UNCHANGED <<epoch, remaining, sleepers, stop, region, mu, dpc, seen, fn, ran, spurious>>

Announce(w) ==
  /\ pc[w] = "announce"
  /\ sleepers' = sleepers + 1
  /\ Goto(w, "lock")
  /\ UNCHANGED <<epoch, remaining, stop, region, mu, dpc, seen, e, fn, ran, spurious>>

Lock(w) ==
  /\ pc[w] = "lock" /\ mu = Free
  /\ mu' = w /\ Goto(w, "check")
  /\ UNCHANGED <<epoch, remaining, sleepers, stop, region, dpc, seen, e, fn, ran, spurious>>

(* The predicate of the wait: true, and the worker leaves; false, and it   *)
(* has found nothing but not blocked yet, still under the lock.            *)
Check(w) ==
  /\ pc[w] = "check"
  /\ IF stop \/ epoch # seen[w]
     THEN mu' = Free /\ Goto(w, "leave")
     ELSE Goto(w, "block") /\ UNCHANGED mu
  /\ UNCHANGED <<epoch, remaining, sleepers, stop, region, dpc, seen, e, fn, ran, spurious>>

(* Blocking releases the mutex in the same step.                           *)
Park(w) ==
  /\ pc[w] = "block"
  /\ mu' = Free /\ Goto(w, "asleep")
  /\ UNCHANGED <<epoch, remaining, sleepers, stop, region, dpc, seen, e, fn, ran, spurious>>

Spurious(w) ==
  /\ pc[w] = "asleep" /\ spurious < MaxSpurious
  /\ Goto(w, "lock") /\ spurious' = spurious + 1
  /\ UNCHANGED <<epoch, remaining, sleepers, stop, region, mu, dpc, seen, e, fn, ran>>

Leave(w) ==
  /\ pc[w] = "leave"
  /\ sleepers' = sleepers - 1 /\ Goto(w, "reload")
  /\ UNCHANGED <<epoch, remaining, stop, region, mu, dpc, seen, e, fn, ran, spurious>>

Reload(w) ==
  /\ pc[w] = "reload"
  /\ e' = [e EXCEPT ![w] = epoch] /\ Goto(w, "go")
  /\ UNCHANGED <<epoch, remaining, sleepers, stop, region, mu, dpc, seen, fn, ran, spurious>>

(* Past the stop test the worker reads fn_ and n_.                         *)
Go(w) ==
  /\ pc[w] = "go"
  /\ IF stop THEN Goto(w, "exit") /\ UNCHANGED <<seen, fn>>
     ELSE Goto(w, "run") /\ seen' = [seen EXCEPT ![w] = e[w]] /\ fn' = [fn EXCEPT ![w] = region]
  /\ UNCHANGED <<epoch, remaining, sleepers, stop, region, mu, dpc, e, ran, spurious>>

RunChunk(w) ==
  /\ pc[w] = "run"
  /\ ran' = [ran EXCEPT ![w] = ran[w] + 1] /\ Goto(w, "dec")
  /\ UNCHANGED <<epoch, remaining, sleepers, stop, region, mu, dpc, seen, e, fn, spurious>>

CountDown(w) ==
  /\ pc[w] = "dec"
  /\ remaining' = remaining - 1 /\ Goto(w, "top")
  /\ UNCHANGED <<epoch, sleepers, stop, region, mu, dpc, seen, e, fn, ran, spurious>>

WorkerStep(w) ==
  \/ Top(w) \/ Announce(w) \/ Lock(w) \/ Check(w) \/ Park(w) \/ Leave(w) \/ Reload(w)
  \/ Go(w) \/ RunChunk(w) \/ CountDown(w)

-----------------------------------------------------------------------------
(* parallel_for, and the destructor after the last region.                 *)

Publish ==
  /\ dpc = "idle" /\ region < Regions
  /\ region' = region + 1 /\ remaining' = Cardinality(Worker)
  /\ dpc' = "bump"
  /\ UNCHANGED <<epoch, sleepers, stop, mu, pc, seen, e, fn, ran, spurious>>

Bump ==
  /\ dpc = "bump"
  /\ epoch' = epoch + 1 /\ dpc' = "sleepers"
  /\ UNCHANGED <<remaining, sleepers, stop, region, mu, pc, seen, e, fn, ran, spurious>>

ReadSleepers ==
  /\ dpc = "sleepers"
  /\ dpc' = IF sleepers = 0 THEN "own" ELSE "pair"
  /\ UNCHANGED <<epoch, remaining, sleepers, stop, region, mu, pc, seen, e, fn, ran, spurious>>

\* The notification sent without passing through the mutex.
PairNot ==
  /\ dpc \in {"pair", "stoppair"}
  /\ dpc' = IF dpc = "pair" THEN "notify" ELSE "stopnotify"
  /\ UNCHANGED <<epoch, remaining, sleepers, stop, region, mu, pc, seen, e, fn, ran, spurious>>

(* The mutex is taken and given back.                                      *)
Pair ==
  /\ dpc \in {"pair", "stoppair"} /\ mu = Free
  /\ dpc' = IF dpc = "pair" THEN "notify" ELSE "stopnotify"
  /\ UNCHANGED <<epoch, remaining, sleepers, stop, region, mu, pc, seen, e, fn, ran, spurious>>

NotifyAll ==
  /\ dpc \in {"notify", "stopnotify"}
  /\ pc' = [w \in Worker |-> IF pc[w] = "asleep" THEN "lock" ELSE pc[w]]
  /\ dpc' = IF dpc = "notify" THEN "own" ELSE "stopped"
  /\ UNCHANGED <<epoch, remaining, sleepers, stop, region, mu, seen, e, fn, ran, spurious>>

Own ==
  /\ dpc = "own"
  /\ ran' = [ran EXCEPT ![Caller] = ran[Caller] + 1] /\ dpc' = "join"
  /\ UNCHANGED <<epoch, remaining, sleepers, stop, region, mu, pc, seen, e, fn, spurious>>

\* The join one worker short.
JoinEarly ==
  /\ dpc = "join" /\ remaining <= 1
  /\ dpc' = "idle"
  /\ UNCHANGED <<epoch, remaining, sleepers, stop, region, mu, pc, seen, e, fn, ran, spurious>>

Join ==
  /\ dpc = "join" /\ remaining = 0
  /\ dpc' = "idle"
  /\ UNCHANGED <<epoch, remaining, sleepers, stop, region, mu, pc, seen, e, fn, ran, spurious>>

SetStop ==
  /\ dpc = "idle" /\ region = Regions
  /\ stop' = TRUE /\ dpc' = "stopbump"
  /\ UNCHANGED <<epoch, remaining, sleepers, region, mu, pc, seen, e, fn, ran, spurious>>

StopBump ==
  /\ dpc = "stopbump"
  /\ epoch' = epoch + 1 /\ dpc' = "stoppair"
  /\ UNCHANGED <<remaining, sleepers, stop, region, mu, pc, seen, e, fn, ran, spurious>>

JoinThreads ==
  /\ dpc = "stopped" /\ \A w \in Worker : pc[w] = "exit"
  /\ dpc' = "gone"
  /\ UNCHANGED <<epoch, remaining, sleepers, stop, region, mu, pc, seen, e, fn, ran, spurious>>

CallerStep ==
  \/ Publish \/ Bump \/ ReadSleepers \/ Pair \/ NotifyAll \/ Own \/ Join
  \/ SetStop \/ StopBump \/ JoinThreads

PoolNext == CallerStep \/ \E w \in Worker : WorkerStep(w) \/ Spurious(w)

PoolSpec == PoolInit /\ [][PoolNext]_poolVars

(* Every thread is scheduled, and the mutex does not starve one.           *)
PoolFairSpec ==
  /\ PoolSpec
  /\ WF_poolVars(CallerStep) /\ SF_poolVars(Pair)
  /\ \A w \in Worker : WF_poolVars(WorkerStep(w)) /\ SF_poolVars(Lock(w))

-----------------------------------------------------------------------------
(* Properties.                                                             *)

\* The pool implements fork-join: each party runs each region once, and the next
\* region begins when all have run this one.
FJ == INSTANCE ForkJoin WITH todo <- {p \in Party : ran[p] < region}
FJSpec == FJ!Spec

\* fn_ is the address of the caller's own object: while a worker runs, that call has
\* not returned and the region is the one published last.
InCall == dpc \in {"sleepers", "pair", "notify", "own", "join"}
RegionIsLive ==
  \A w \in Worker : pc[w] \in {"run", "dec"} => InCall /\ fn[w] = region /\ remaining > 0

\* No wake-up is lost: every region is joined and the destructor returns.
PoolEnds == <>(dpc = "gone")

-----------------------------------------------------------------------------
(* The inductive invariant.                                                *)

\* Workers that still owe a count of the region under way.
Owing == {w \in Worker : seen[w] # epoch \/ pc[w] \in {"run", "dec"}}

Labels == {"top", "announce", "lock", "check", "block", "asleep", "leave", "reload", "go", "run",
           "dec", "exit"}
CallerLabels == {"idle", "bump", "sleepers", "pair", "notify", "own", "join", "stopbump",
                 "stoppair", "stopnotify", "stopped", "gone"}

PoolTypeOK ==
  /\ epoch \in Nat /\ region \in Nat /\ remaining \in Nat /\ stop \in BOOLEAN
  /\ dpc \in CallerLabels /\ pc \in [Worker -> Labels]
  /\ seen \in [Worker -> Nat] /\ e \in [Worker -> Nat] /\ fn \in [Worker -> Nat]
  /\ ran \in [Party -> Nat]

\* A worker is at most one epoch behind, and has run what it has seen.
WorkersKeepUp ==
  \A w \in Worker :
    /\ seen[w] = epoch \/ seen[w] + 1 = epoch
    /\ pc[w] = "go" => stop \/ (e[w] = epoch /\ seen[w] + 1 = epoch)
    /\ pc[w] = "leave" \/ pc[w] = "reload" => stop \/ seen[w] + 1 = epoch
    /\ pc[w] = "run" => fn[w] = region /\ ran[w] + 1 = region /\ seen[w] = epoch
    /\ pc[w] = "dec" => fn[w] = region /\ ran[w] = region /\ seen[w] = epoch
    /\ ~stop /\ pc[w] # "run" => ran[w] = seen[w]
    /\ pc[w] = "exit" => stop

\* Between calls nobody owes anything; in a call the counter is what is owed.
CounterCounts ==
  /\ InCall => remaining = Cardinality(Owing)
  /\ dpc = "bump" => remaining = Cardinality(Worker)
  /\ dpc \in {"idle", "bump", "stopbump"} => Owing = {}

\* Where the caller is says which region it is in and who has run it.
CallerKeepsOrder ==
  /\ stop <=> dpc \in {"stopbump", "stoppair", "stopnotify", "stopped", "gone"}
  /\ stop => (\A w \in Worker : pc[w] \notin {"run", "dec"}) /\ \A p \in Party : ran[p] = region
  /\ ~stop => epoch = IF dpc = "bump" THEN region - 1 ELSE region
  /\ ran[Caller] =
       IF dpc \in {"bump", "sleepers", "pair", "notify", "own"} THEN region - 1 ELSE region
  /\ InCall \/ dpc = "bump" => region > 0

PoolInv == PoolTypeOK /\ WorkersKeepUp /\ CounterCounts /\ CallerKeepsOrder
=============================================================================
