------------------------------ MODULE Startup ------------------------------
(***************************************************************************)
(* main() of tools/affinity.cpp from its arguments to its destructors: the *)
(* order the parts of the engine are built in, what each may refuse, where *)
(* every expert ends up, which threads run, and how every return unwinds.  *)
(*                                                                         *)
(* `live` is the stack of main's locals that own something; a return pops  *)
(* it, last declared first, and a destructor ends the threads its object   *)
(* owns.  A connection's thread is nobody's: it is detached.               *)
(***************************************************************************)
EXTENDS Integers, Sequences, FiniteSets

CONSTANTS
  Options,        \* command lines, as the record below
  Rank,           \* profile -> the model's experts <<layer, expert>>, hottest first
  DraftRank,      \* the draft's
  NExpert,        \* experts in a layer
  DraftRing,      \* dspark_block * n_expert_used
  kMinDraftSlots, \* slots the draft keeps under --dspark-placement ram
  Memory,         \* what MemAvailable may be at the start, in slots
  Reserve,        \* --host-pool-reserve-mib
  Connection      \* bound: connections open at a time

\* What --help lists, as far as the start branches on it.
CommandLines ==
  [args : {"ok", "bad", "help", "nofile", "dump"}, ui : {"auto", "off", "dash"},
   path : {"serve", "oneshot", "topk"}, dspark : {"off", "vram", "ram"}, slots : Nat,
   profile : {"container", "override"}, pool : Int,
   block : BOOLEAN, commit_all : BOOLEAN, pcache : BOOLEAN, moves : BOOLEAN,
   trace : BOOLEAN, keepalive : BOOLEAN, forced : BOOLEAN, reps : BOOLEAN]

ASSUME StartupAssumption ==
  /\ Options \subseteq CommandLines
  /\ DraftRank \in Seq(Nat \X Nat) /\ Rank.container \in Seq(Nat \X Nat) /\ Rank.override \in Seq(Nat \X Nat)
  /\ NExpert \in Nat /\ DraftRing \in Nat /\ kMinDraftSlots \in Nat
  /\ Memory \subseteq Nat /\ Reserve \in Nat
  /\ Connection \cap {"renderer", "grower", "writer", "moves", "heartbeat", "accept"} = {}

VARIABLES
  step,           \* where main is
  opts,           \* the command line
  live,           \* the locals constructed, in order
  threads,        \* threads running
  resident,       \* model experts in VRAM
  draft_resident, \* draft experts in VRAM
  host_pool, draft_pool,
  registered,     \* the pool was registered with the cards (set_host_pool)
  mem,            \* MemAvailable
  code            \* exit status

svars == <<step, opts, live, threads, resident, draft_resident, host_pool, draft_pool, registered, mem, code>>

-----------------------------------------------------------------------------
(* HostExpertPool: how the RAM tier divides its budget between experts it   *)
(* holds and a ring of staging slots, and what it holds once its readers   *)
(* are done.  Memory is counted in slots.                                  *)

Wrap == 65536      \* bound: uint64_t wraps at 2^64

Lesser(a, b) == IF a <= b THEN a ELSE b

\* The clamp to what the machine has.  A ceiling of zero does not clamp.
ceiling(avail, reserve) == IF avail > reserve THEN avail - reserve ELSE 0
Clamped(budget, avail, reserve) ==
  IF reserve > 0 /\ ceiling(avail, reserve) > 0 /\ budget > ceiling(avail, reserve)
  THEN ceiling(avail, reserve) ELSE budget

\* The experts of the layer that spills most when the first `pooled` of `want` are held.
worst(want, pooled) ==
  LET spilled(l) == Cardinality({i \in DOMAIN want : i > pooled /\ want[i][1] = l})
      layers == {want[i][1] : i \in DOMAIN want}
  IN CHOOSE n \in {spilled(l) : l \in layers} : \A l \in layers : spilled(l) <= n
need(n_stage, w) == Lesser(n_stage, w + (w \div 4) + 4)

\* n_stage_: two passes over the histogram, the second with the ring of the first taken
\* off the budget, in unsigned arithmetic.
Ring(fit, n_stage, want) ==
  LET pooled(ring) == Lesser((fit - ring) % Wrap, Len(want))
      first == need(n_stage, worst(want, pooled(0)))
      second == need(n_stage, worst(want, pooled(first)))
      ring == IF n_stage = 0 THEN 0 ELSE IF second > first THEN second ELSE first
  IN IF ring > fit THEN 0 ELSE ring

\* init(): a pool, or refused.  `unread` are the positions whose pread fell short; those
\* experts are left without a slot.
NoPool == [on |-> FALSE, slot |-> <<>>, n_pool |-> 0, n_stage |-> 0, ssd |-> 0]
init(want, budget, avail, reserve, n_stage, unread) ==
  IF want = <<>> THEN NoPool
  ELSE LET fit == Clamped(budget, avail, reserve)
           ring == Ring(fit, n_stage, want)
           n_pool == Lesser(fit - ring, Len(want))
           held == {i \in 1..n_pool : i \notin unread}
       IN IF n_pool = 0 THEN NoPool
          ELSE [on |-> TRUE, n_pool |-> n_pool, n_stage |-> ring,
                slot |-> [x \in {want[i] : i \in held} |-> (CHOOSE i \in held : want[i] = x) - 1],
                ssd |-> Len(want) - Cardinality(held)]

slots(p) == p.n_pool + p.n_stage
\* stage_base(i): the ring lies behind the experts.
stage_slot(p, i) == p.n_pool + i

-----------------------------------------------------------------------------
StartupInit ==
  /\ step = "args" /\ opts \in Options /\ live = <<>> /\ threads = {}
  /\ resident = {} /\ draft_resident = {} /\ host_pool = NoPool /\ draft_pool = NoPool
  /\ registered = FALSE /\ mem \in Memory /\ code = -1

\* What a stage does: declares locals, starts threads, and goes on or returns.
Declares(objects) == live' = live \o objects
Starts(t) == threads' = threads \cup t
Goes(to) == step' = to /\ UNCHANGED code
Returns(status) == step' = "unwind" /\ code' = status
Fatal(ok, to) == IF ok THEN Goes(to) ELSE Returns(1)
tierVars == <<resident, draft_resident, host_pool, draft_pool, registered, mem>>
Draft == opts.block /\ opts.dspark # "off"

-----------------------------------------------------------------------------
(* The arguments: a bad one or none at all is 2, --help is 0, a prompt file *)
(* that is missing is 1, and --dump-tokens needs no model.                 *)
ParseArgs ==
  /\ step = "args"
  /\ CASE opts.args = "bad" -> Returns(2)
       [] opts.args = "help" -> Returns(0)
       [] opts.args = "nofile" -> Returns(1)
       [] opts.args = "dump" -> \E status \in {0, 1} : Returns(status)
       [] opts.args = "ok" -> Goes("dense")
  /\ UNCHANGED <<opts, live, threads, tierVars>>

\* The cards; more than two are refused.
BringUpDense ==
  /\ step = "dense"
  /\ Declares(<<"model", "dense_gpu", "prefix_cache">>)
  /\ \E ok \in BOOLEAN : Fatal(ok, "dash")
  /\ UNCHANGED <<opts, threads, tierVars>>

\* The dashboard, and the guards that every later return runs through.
StartDash ==
  /\ step = "dash"
  /\ \/ opts.ui # "off" /\ Starts({"renderer"}) /\ Declares(<<"dash_guard", "grow_guard">>) /\ Goes("model")
     \/ opts.ui # "dash" /\ UNCHANGED threads /\ Declares(<<"dash_guard", "grow_guard">>) /\ Goes("model")
     \/ opts.ui = "dash" /\ UNCHANGED <<threads, live>> /\ Returns(2)
  /\ UNCHANGED <<opts, tierVars>>

LoadModel ==
  /\ step = "model"
  /\ \E ok \in BOOLEAN : Fatal(ok, "draft")
  /\ UNCHANGED <<opts, live, threads, tierVars>>

\* Required when the checkpoint declares a draft and it is not off.
LoadDraft ==
  /\ step = "draft"
  /\ \E ok \in BOOLEAN : (~Draft => ok) /\ Fatal(ok, "kv")
  /\ UNCHANGED <<opts, live, threads, tierVars>>

\* Sequence slots, attention's caches and the grower.  Several slots must be backed in
\* full and run without the prefix cache; a cache left on the host is only reported.
AttnInit ==
  /\ step = "kv"
  /\ IF opts.slots > 1 /\ ~opts.commit_all
     THEN Returns(1) /\ UNCHANGED <<threads, opts>>
     ELSE /\ Starts({"grower"}) /\ Goes("arenas")
          /\ opts' = [opts EXCEPT !.pcache = @ /\ opts.slots = 1]
  /\ UNCHANGED <<live, tierVars>>

\* Prefill's arena (or one token at a time), then what must not be degraded: dense
\* tensors left on the CPU, and the draft's arena.
Arenas ==
  /\ step = "arenas"
  /\ \E fallbacks, draft_init \in BOOLEAN : Fatal(~fallbacks /\ (Draft => draft_init), "prefix")
  /\ UNCHANGED <<opts, live, threads, tierVars>>

OpenPrefixCache ==
  /\ step = "prefix"
  /\ IF opts.pcache
     THEN \E ok \in BOOLEAN : Fatal(ok, "draftslab") /\ Starts(IF ok THEN {"writer"} ELSE {})
     ELSE Goes("draftslab") /\ UNCHANGED threads
  /\ UNCHANGED <<opts, live, tierVars>>

-----------------------------------------------------------------------------
(* The tiers.  A slab holds the hottest experts, as many as fit.           *)

Hottest(rank, n) == {rank[i] : i \in 1..n}
Others(rank, set) ==
  LET kept[i \in 0..Len(rank)] ==
        IF i = 0 THEN <<>> ELSE IF rank[i] \in set THEN kept[i - 1] ELSE Append(kept[i - 1], rank[i])
  IN kept[Len(rank)]

\* The draft's slab: all of it, or a token one that its pool completes.
PlaceDraft ==
  /\ step = "draftslab"
  /\ Declares(<<"draft_pool", "draft_placement">>)
  /\ IF ~Draft THEN Goes("profile") /\ UNCHANGED draft_resident
     ELSE \E n \in 0..(IF opts.dspark = "ram" THEN kMinDraftSlots ELSE Len(DraftRank)) :
            /\ n <= Len(DraftRank)
            /\ draft_resident' = Hottest(DraftRank, n)
            /\ Fatal(n > 0 /\ (opts.dspark = "ram" \/ n = Len(DraftRank)), "profile")
  /\ UNCHANGED <<opts, threads, resident, host_pool, draft_pool, registered, mem>>

\* The order main declares the pool and the placement in, reversed.
DeclareTiersReversed ==
  /\ step = "profile"
  /\ Declares(<<"placement", "host_pool">>)
  /\ \E ok \in BOOLEAN : (opts.profile = "container" => ok) /\ Fatal(ok, "place")
  /\ UNCHANGED <<opts, threads, tierVars>>

\* The pool is declared before the placement that fills it, and the profile both rank by
\* is settled before either.
DeclareTiers ==
  /\ step = "profile"
  /\ Declares(<<"host_pool", "placement">>)
  /\ \E ok \in BOOLEAN : (opts.profile = "container" => ok) /\ Fatal(ok, "place")
  /\ UNCHANGED <<opts, threads, tierVars>>

\* A placement that does not come up is only reported.
PlaceExperts ==
  /\ step = "place"
  /\ \E n \in 0..Len(Rank[opts.profile]) : resident' = Hottest(Rank[opts.profile], n)
  /\ Goes("draftpool")
  /\ UNCHANGED <<opts, live, threads, draft_resident, host_pool, draft_pool, registered, mem>>

\* The draft's RAM tier first: its claim is the fixed one.
BuildDraftPoolUnchecked ==
  /\ step = "draftpool"
  /\ IF ~(Draft /\ opts.dspark = "ram") THEN Goes("pool") /\ UNCHANGED <<draft_pool, mem>>
     ELSE LET want == Others(DraftRank, draft_resident) IN
          \E unread \in SUBSET (1..Len(want)), set \in BOOLEAN :
            LET p == init(want, Len(want) + DraftRing, mem, Reserve, DraftRing, unread) IN
            /\ draft_pool' = p /\ mem' = mem - slots(p)
            /\ Fatal(p.on /\ set, "pool")
  /\ UNCHANGED <<opts, live, threads, resident, draft_resident, host_pool, registered>>
BuildDraftPool ==
  /\ step = "draftpool"
  /\ IF ~(Draft /\ opts.dspark = "ram") THEN Goes("pool") /\ UNCHANGED <<draft_pool, mem>>
     ELSE LET want == Others(DraftRank, draft_resident) IN
          \E unread \in SUBSET (1..Len(want)), set \in BOOLEAN :
            LET p == init(want, Len(want) + DraftRing, mem, Reserve, DraftRing, unread) IN
            /\ draft_pool' = p /\ mem' = mem - slots(p)
            /\ Fatal(p.on /\ set /\ p.ssd = 0, "pool")
  /\ UNCHANGED <<opts, live, threads, resident, draft_resident, host_pool, registered>>

\* The model's pool takes what it was given, or what is left over the reserve.  One that
\* fails, or that the cards decline to register, is only reported.
BuildHostPool ==
  /\ step = "pool"
  /\ IF resident = {} \/ opts.pool = 0 THEN UNCHANGED <<host_pool, registered, mem>>
     ELSE LET want == Others(Rank[opts.profile], resident)
              budget == IF opts.pool > 0 THEN opts.pool ELSE ceiling(mem, Reserve)
          IN \E unread \in SUBSET (1..Len(want)), set \in BOOLEAN :
               LET p == init(want, budget, mem, Reserve, NExpert, unread) IN
               host_pool' = p /\ mem' = mem - slots(p) /\ registered' = (p.on /\ set)
  /\ Goes("engine")
  /\ UNCHANGED <<opts, live, threads, resident, draft_resident, draft_pool>>

\* The placement engine, whose copies run on the cards into the pool; then the trace file.
StartEngine ==
  /\ step = "engine"
  /\ \E ok, trace \in BOOLEAN :
       /\ Fatal(ok /\ (opts.trace => trace), "keepalive")
       /\ Starts(IF ok /\ registered /\ opts.moves THEN {"moves"} ELSE {})
  /\ UNCHANGED <<opts, live, tierVars>>

StartKeepalive ==
  /\ step = "keepalive"
  /\ Declares(<<"keepalive">>) /\ Goes("run")
  /\ Starts(IF opts.keepalive /\ resident # {} THEN {"heartbeat"} ELSE {})
  /\ UNCHANGED <<opts, tierVars>>

-----------------------------------------------------------------------------
(* What it was started for: --dump-logits, a prompt, or the server.        *)

DumpTopk ==
  /\ step = "run" /\ opts.path = "topk" /\ Returns(0)
  /\ UNCHANGED <<opts, live, threads, tierVars>>

\* A prompt's prefill may be refused; a container with no draft declared has no decode.
\* --prefill-reps returns without stopping the dashboard.
OneShot ==
  /\ step = "run" /\ opts.path = "oneshot"
  /\ \/ opts.reps /\ (\E status \in {0, 1} : Returns(status)) /\ UNCHANGED threads
     \/ opts.forced /\ Draft /\ Returns(1) /\ UNCHANGED threads
     \/ ~(opts.forced /\ Draft) /\ opts.block /\ Returns(1) /\ UNCHANGED threads
     \/ ~(opts.forced /\ Draft) /\ ~opts.block /\ Returns(2) /\ UNCHANGED threads
     \/ /\ ~(opts.forced /\ Draft) /\ opts.block
        /\ threads' = threads \ {"renderer"} /\ Returns(0)
  /\ UNCHANGED <<opts, live, tierVars>>

StartServer ==
  /\ step = "run" /\ opts.path = "serve"
  /\ Declares(<<"server">>)
  /\ \E ok \in BOOLEAN : Fatal(ok, "serve") /\ Starts(IF ok THEN {"accept"} ELSE {})
  /\ UNCHANGED <<opts, tierVars>>

\* A connection's thread, detached; it may end at any time, main's return or not.
Connect(k) ==
  /\ "accept" \in threads /\ k \notin threads /\ Starts({k})
  /\ UNCHANGED <<step, opts, live, tierVars, code>>
Disconnect(k) ==
  /\ k \in threads /\ threads' = threads \ {k}
  /\ UNCHANGED <<step, opts, live, tierVars, code>>

\* stop() closes the listener, and the accept thread ends when it notices.
Quit ==
  /\ step = "serve" /\ Returns(0)
  /\ UNCHANGED <<opts, live, threads, tierVars>>
AcceptEnds ==
  /\ "accept" \in threads /\ step \in {"unwind", "gone"}
  /\ threads' = threads \ {"accept"}
  /\ UNCHANGED <<step, opts, live, tierVars, code>>

\* Destructors, last declared first, each ending what its object runs.
Owns == [grow_guard |-> {"grower"}, dash_guard |-> {"renderer"}, prefix_cache |-> {"writer"},
         placement |-> {"moves"}, keepalive |-> {"heartbeat"}]
Unwind ==
  /\ step = "unwind"
  /\ IF live = <<>> THEN step' = "gone" /\ UNCHANGED <<live, threads>>
     ELSE LET last == live[Len(live)] IN
          /\ live' = SubSeq(live, 1, Len(live) - 1)
          /\ threads' = threads \ IF last \in DOMAIN Owns THEN Owns[last] ELSE {}
          /\ UNCHANGED step
  /\ UNCHANGED <<opts, tierVars, code>>

StartupNext ==
  \/ ParseArgs \/ BringUpDense \/ StartDash \/ LoadModel \/ LoadDraft \/ AttnInit \/ Arenas \/ OpenPrefixCache
  \/ PlaceDraft \/ DeclareTiers \/ PlaceExperts \/ BuildDraftPool \/ BuildHostPool \/ StartEngine
  \/ StartKeepalive \/ DumpTopk \/ OneShot \/ StartServer
  \/ \E k \in Connection : Connect(k) \/ Disconnect(k)
  \/ Quit \/ AcceptEnds \/ Unwind

StartupSpec == StartupInit /\ [][StartupNext]_svars

-----------------------------------------------------------------------------
(* Properties.                                                             *)

Alive == {live[i] : i \in DOMAIN live}

\* What each thread, and each copy the cards make, reads or writes.
Touches == [grower |-> {"dense_gpu"}, writer |-> {"dense_gpu", "prefix_cache"}, moves |-> {"host_pool", "placement"},
            heartbeat |-> {"keepalive"}]

\* affinity.cpp:794 and 1156: whichever of main's dozens of returns is taken, no thread
\* and no copy in flight outlives an object it touches.
JoinedBeforeDestroyed == \A t \in threads \cap DOMAIN Touches : Touches[t] \subseteq Alive

\* A decode or a server that starts with a draft reaches all of the draft's experts and
\* none twice: each is in VRAM or in a pool slot of its own, clear of the staging ring.
Up == step \in {"run", "serve"}
DraftIsWhole ==
  Up /\ Draft =>
    /\ {DraftRank[i] : i \in DOMAIN DraftRank} = draft_resident \cup DOMAIN draft_pool.slot
    /\ draft_resident \cap DOMAIN draft_pool.slot = {}
    /\ \A x, y \in DOMAIN draft_pool.slot : x # y => draft_pool.slot[x] # draft_pool.slot[y]
    /\ \A x \in DOMAIN draft_pool.slot, i \in 0..(draft_pool.n_stage - 1) :
         draft_pool.slot[x] # stage_slot(draft_pool, i)

\* affinity.cpp:1166 says of the placement, "Must outlive every forward pass: the model
\* reads it on every expert FFN".  A connection's thread runs forward passes.
RequestsEndBeforeTeardown == \A k \in Connection : k \in threads => "placement" \in Alive
=============================================================================
