-------------------------- MODULE PlacementEngine --------------------------
(***************************************************************************)
(* The placement engine's tick (src/gpu/static_placement.hip), which ties  *)
(* the three together: the ring tells it what was routed (ActRing), heat   *)
(* chooses (ExpertHeat), and the moves change the owners (SlotLedger).     *)
(*                                                                         *)
(* Heat has its own copy of every expert's tier, and the engine issues     *)
(* what heat names without asking the owner tables again: that the moves   *)
(* are ones the ledger allows is LedgerSpec, checked of this module.       *)
(*                                                                         *)
(* A layer with an expert on the SSD tier is dispatched by the host, which *)
(* observes it at once; the others are observed when their record arrives. *)
(***************************************************************************)
EXTENDS ExpertHeat, SlotLedger, ActRing

CONSTANTS
  Tier0,        \* the tier of each expert at load
  Routed,       \* what dispatch d of the ring selects: [layer, counts]
  HostRouted,   \* the same for the dispatches the host builds, in order
  Strategies,   \* the --placement strategies considered
  MovesPerTick

\* What a dispatch selects: of one layer, how many tokens each expert gets.
Routes == [layer : 0..(NLayer - 1), counts : [0..(NExpert - 1) -> Nat]]

ASSUME EngineAssumption ==
  /\ Expert = Idx /\ MovesPerTick \in Nat \ {0}
  /\ Routed \in [1..NDispatch -> Routes] /\ HostRouted \in Seq(Routes)
  /\ \A d \in DOMAIN Routed, k \in DOMAIN HostRouted : Routed[d].layer # HostRouted[k].layer

(* placement_engine_init and the pool's build: every pool slot has its     *)
(* expert, and the slab slots past the residents are one a record.         *)
ASSUME LoadAssumption ==
  /\ Tier0 \in [Idx -> {"Vram", "Pool", "Ssd"}]
  /\ Cardinality({i \in Idx : Tier0[i] = "Pool"}) = Cardinality(PoolSlot)
  /\ Cardinality({i \in Idx : Tier0[i] = "Vram"}) + Cardinality(Record) = Cardinality(SlabSlot)

VARIABLES
  strategy,     \* ecfg_.strategy
  hs,           \* heat_
  hosts,        \* host-built dispatches launched
  tick          \* the tick in progress

NoTick == [at |-> "none", host |-> FALSE, rounds |-> 0, left |-> 0, up |-> 0, down |-> 0,
           moved |-> FALSE]

engineVars == <<vars, ledgerVars, strategy, hs, hosts, tick>>

\* free_slab.back(), free_pool.back(), the first free record: the slots are alike, and so are the records.
Back(S) == CHOOSE x \in S : TRUE

Placed(t, slots) ==
  CHOOSE f \in [Expert -> slots \cup {None}] : Injective(f) /\ \A e \in Expert : (f[e] # None) = (Tier0[e] = t)

EngineInit ==
  /\ RingInit
  /\ slabOf = Placed("Vram", SlabSlot) /\ poolOf = Placed("Pool", PoolSlot)
  /\ freeSlab = SlabSlot \ {slabOf[e] : e \in Bound(slabOf)} /\ freePool = {}
  /\ busy = [e \in Expert |-> FALSE] /\ moves = [r \in Record |-> FreeMove]
  /\ strategy \in Strategies /\ hs = HeatNew(Tier0)
  /\ hosts = 0 /\ tick = NoTick

-----------------------------------------------------------------------------
\* A dispatch planned on the card is launched, and its tick begins.
LaunchPlanned ==
  /\ tick.at = "none" /\ Launch
  /\ tick' = [NoTick EXCEPT !.at = "retire"]
  /\ UNCHANGED <<ledgerVars, strategy, hs, hosts>>

\* A dispatch the host builds.
LaunchBuilt ==
  /\ tick.at = "none" /\ hpc = "launch" /\ hosts < Len(HostRouted)
  /\ hosts' = hosts + 1
  /\ tick' = [NoTick EXCEPT !.at = "retire", !.host = TRUE]
  /\ UNCHANGED <<vars, ledgerVars, strategy, hs>>

\* engine_retire: what has landed by now, a record at a time.
RetirePublished(r) ==
  /\ tick.at = "retire" /\ Publish(r)
  /\ hs' = SetTier(hs, moves[r].idx, IF moves[r].promote THEN "Vram" ELSE "Pool")
  /\ UNCHANGED <<vars, strategy, hosts, tick>>

RetireReclaimed(r) ==
  /\ tick.at = "retire" /\ Reclaim(r)
  /\ UNCHANGED <<vars, strategy, hs, hosts, tick>>

RetireSealed ==
  /\ tick.at = "retire" /\ Seal
  /\ tick' = [tick EXCEPT !.at = "observe"]
  /\ UNCHANGED <<vars, strategy, hs, hosts>>

\* The misses of a dispatch, ascending, by where the experts are now.
Missing(d) ==
  LET M == {i \in Idx : LayerOf(i) = d.layer /\ d.counts[i % NExpert] > 0 /\ slabOf[i] = None}
  IN [k \in 1..Cardinality(M) |-> CHOOSE i \in M : Cardinality({j \in M : j < i}) = k - 1]

\* What one dispatch tells heat.
Heard(d, counts) ==
  LET o == Observe(hs, d.layer, counts) IN
  hs' = IF strategy = "demand" THEN NoteMissing(o, Missing([d EXCEPT !.counts = counts])) ELSE o

DrainStart ==
  /\ tick.at = "observe" /\ ~tick.host /\ Drain
  /\ tick' = IF hpc' = "launch" THEN NoTick ELSE tick
  /\ UNCHANGED <<ledgerVars, strategy, hs, hosts>>

DrainLayer ==
  /\ tick.at = "observe" /\ ReadLayer
  /\ UNCHANGED <<ledgerVars, strategy, hs, hosts, tick>>

\* One round for each record taken.
DrainRecord ==
  /\ tick.at = "observe" /\ ReadCounts
  /\ Heard(Routed[got'.layer], Routed[got'.counts].counts)
  /\ tick' = [tick EXCEPT !.rounds = @ + 1, !.left = MovesPerTick,
                          !.at = IF hpc' = "pick" THEN "pick" ELSE "observe"]
  /\ UNCHANGED <<ledgerVars, strategy, hosts>>

ObserveBuilt ==
  /\ tick.at = "observe" /\ tick.host
  /\ Heard(HostRouted[hosts], HostRouted[hosts].counts)
  /\ tick' = [tick EXCEPT !.rounds = 1, !.left = MovesPerTick, !.at = "pick"]
  /\ UNCHANGED <<vars, ledgerVars, strategy, hosts>>

-----------------------------------------------------------------------------
(* The issue loop: rounds of at most MovesPerTick pairs.                   *)

NextRound == [tick EXCEPT !.rounds = @ - 1, !.left = MovesPerTick, !.at = "pick"]

\* No slot of either kind, or nothing worth moving: the round is over.
Choose ==
  /\ tick.at = "pick" /\ tick.rounds > 0
  /\ IF freeSlab \cup freePool = {} THEN tick' = NextRound /\ UNCHANGED hs
     ELSE LET f == IF strategy = "demand" THEN PickDemand(hs, busy) ELSE Pick(hs, busy) IN
          /\ hs' = f.hs
          /\ IF f.pairs = {} THEN tick' = NextRound
             ELSE \E p \in f.pairs :
                    tick' = [tick EXCEPT !.at = "up", !.up = p.up, !.down = p.down, !.moved = FALSE]
  /\ UNCHANGED <<vars, ledgerVars, strategy, hosts>>

FreeRecord == {r \in Record : moves[r].state = "Free"}

Copying(promote, e, s, p) ==
  /\ moves' = [moves EXCEPT ![Back(FreeRecord)] =
       [state |-> "Copying", promote |-> promote, idx |-> e, slab |-> s, pool |-> p]]
  /\ busy' = [busy EXCEPT ![e] = TRUE]

\* The promotion half, when there is a slab slot for it.  An expert without a
\* pool slot is refused.
IssueUp ==
  /\ tick.at = "up"
  /\ LET e == tick.up
         go == freeSlab # {} /\ FreeRecord # {} /\ poolOf[e] # None
         s == Back(freeSlab)
     IN /\ IF go THEN Copying(TRUE, e, s, poolOf[e]) /\ freeSlab' = freeSlab \ {s}
                 ELSE UNCHANGED <<moves, busy, freeSlab>>
        /\ tick' = [tick EXCEPT !.at = "down", !.moved = go]
  /\ UNCHANGED <<vars, slabOf, poolOf, freePool, strategy, hs, hosts>>

\* The demotion half; the owner's slab slot is taken on trust.
IssueDown ==
  /\ tick.at = "down"
  /\ LET e == tick.down
         go == freePool # {} /\ FreeRecord # {}
         p == Back(freePool)
     IN /\ IF go THEN Copying(FALSE, e, slabOf[e], p) /\ freePool' = freePool \ {p}
                 ELSE UNCHANGED <<moves, busy, freePool>>
        /\ tick' = IF (tick.moved \/ go) /\ tick.left > 1
                   THEN [tick EXCEPT !.at = "pick", !.left = @ - 1] ELSE NextRound
  /\ UNCHANGED <<vars, slabOf, poolOf, freeSlab, strategy, hs, hosts>>

TickDone ==
  /\ tick.at = "pick" /\ tick.rounds = 0
  /\ tick' = NoTick
  /\ IF tick.host THEN UNCHANGED vars ELSE PickRounds
  /\ UNCHANGED <<ledgerVars, strategy, hs, hosts>>

EngineCard == CardNext /\ UNCHANGED <<ledgerVars, strategy, hs, hosts, tick>>

EngineNext ==
  \/ EngineCard
  \/ LaunchPlanned \/ LaunchBuilt
  \/ (\E r \in Record : RetirePublished(r) \/ RetireReclaimed(r)) \/ RetireSealed
  \/ DrainStart \/ DrainLayer \/ DrainRecord \/ ObserveBuilt
  \/ Choose \/ IssueUp \/ IssueDown \/ TickDone

EngineSpec == EngineInit /\ [][EngineNext]_engineVars

-----------------------------------------------------------------------------
(* Properties.                                                             *)

\* expert_heat.h: the strategy agrees with dispatch about where every expert is,
\* and the counts its tie-break reads are the tables' own, through any sequence of
\* moves.
HeatAgreesWithTables ==
  /\ \A i \in Idx : hs.tier[i] = IF slabOf[i] # None THEN "Vram"
                                 ELSE IF poolOf[i] # None THEN "Pool" ELSE "Ssd"
  /\ hs.res = ResidentPerLayer(hs)
=============================================================================
