------------------------------ MODULE DraftRing ------------------------------
(***************************************************************************)
(* What the DSpark draft knows of the target, turn after turn in one slot  *)
(* (src/engine/model.cpp, tools/affinity.cpp).                             *)
(*                                                                         *)
(* The target leaves its tapped states in the tap plane; dspark_seed turns *)
(* them into rows of the draft stages' raw rings, at the start of the      *)
(* block after; dspark_draft attends to the last `sliding` of those and    *)
(* writes its own proposals' rows above them.  The prefix store saves the  *)
(* rings with the rest.  Each slot has a plane and rings of its own.       *)
(*                                                                         *)
(* A row is the position whose target state it holds, or Other: a          *)
(* proposal's, a rejected token's, or one of another conversation.         *)
(***************************************************************************)
EXTENDS KvWindow

CONSTANTS
  Proposals,  \* dspark_block
  SpecTok,    \* kSpecTok: rows seeded at a time
  Arena,      \* the prefill arena
  Stores,     \* with or without a prefix store
  StoreBlock, \* block_tokens
  Lengths,    \* the prompts considered
  Turns,      \* bound: turns
  Reach       \* bound: the transcript's length

ASSUME DraftAssumption ==
  /\ Proposals \in Nat \ {0} /\ Proposals < AttnBatch /\ SpecTok \in Nat \ {0}
  /\ Arena \in Nat /\ Arena > Proposals /\ Stores \subseteq BOOLEAN /\ StoreBlock \in Nat \ {0}
  /\ Lengths \subseteq Nat \ {0} /\ Turns \in Nat /\ Reach \in Nat

VARIABLES
  keeps,        \* whether there is a store
  dpc, turnNo,
  told,         \* the transcript's length
  dpos,         \* st.pos
  resumed,      \* from, as the lookup left it
  dgoal,        \* where the running prefill ends
  drows, dtaps, \* a stage's ring, and the tap plane
  seed,         \* seed_n and seed_pos0
  points,       \* resume points in the store
  heldTo        \* how far the store's blocks follow this transcript

draftVars == <<keeps, dpc, turnNo, told, dpos, resumed, dgoal, drows, dtaps, seed, points, heldTo>>

Other == -1
Nothing == [n |-> 0, from |-> 0]
NPrompt == told - 1

DraftInit ==
  /\ keeps \in Stores
  /\ dpc = "ask" /\ turnNo = 0 /\ told = 0 /\ dpos = 0 /\ resumed = 0 /\ dgoal = 0
  /\ drows = [s \in 0..(RawSlots - 1) |-> Other] /\ dtaps = <<>> /\ seed = Nothing
  /\ points = {} /\ heldTo = 0

\* What is left of some rows in a conversation that agrees with the last up to d.
Common(rows, d) == [s \in DOMAIN rows |-> IF rows[s] < d THEN rows[s] ELSE Other]

\* A request of n tokens: init_state, and then the resume point the lookup finds,
\* whose rings are restored whole.
Ask(n, d) ==
  /\ dpc = "ask" /\ turnNo < Turns /\ d <= Lesser(n, told)
  /\ turnNo' = turnNo + 1 /\ told' = n /\ seed' = Nothing
  /\ points' = {[c EXCEPT !.rows = Common(@, d)] : c \in {c \in points : c.to <= d}}
  /\ heldTo' = Lesser(heldTo, (d \div StoreBlock) * StoreBlock)
  /\ dtaps' = Common(dtaps, d)
  /\ \/ dpos' = 0 /\ drows' = Common(drows, d)
     \/ \E c \in points' : c.to <= n - 1 /\ dpos' = c.to /\ drows' = c.rows
  /\ resumed' = dpos' /\ dpc' = "split"
  /\ UNCHANGED <<keeps, dgoal>>

\* Anywhere past the resume point.
PromoteAnywhere(b) == b > dpos /\ b < NPrompt

\* Far enough from the end to leave the second call a window of taps.
Promotes(b) == b > dpos /\ b + Sliding <= NPrompt

\* The blocks matched may be fewer than were stored: some are evicted.
Boundary ==
  /\ dpc = "split"
  /\ \/ dgoal' = NPrompt
     \/ \E b \in 1..heldTo : b % StoreBlock = 0 /\ Promotes(b) /\ dgoal' = b
  /\ dpc' = "prefill"
  /\ UNCHANGED <<keeps, turnNo, told, dpos, resumed, drows, dtaps, seed, points, heldTo>>

\* The plane after a forward_prefill of n tokens, the arena's chunk after the other.
AfterPrefill(plane, n) ==
  LET after[base \in Nat] ==
        IF base = 0 THEN plane
        ELSE LET at == (base - 1) * Arena
                 tokens == TapTokens(at, Lesser(Arena, n - at), n, Sliding)
                 wide == TapTarget(after[base - 1], tokens, n, Sliding, Other)
             IN [r \in DOMAIN wide |-> IF r \in DOMAIN tokens THEN dpos + tokens[r] ELSE wide[r]]
  IN after[(n + Arena - 1) \div Arena]

Resume(to) == [to |-> to, rows |-> drows]

\* Up to the boundary, where a resume point is offered to the store; or the rest.
Prefill ==
  /\ dpc = "prefill"
  /\ LET n == dgoal - dpos IN
     IF n = 0 THEN UNCHANGED <<dtaps, seed>>
     ELSE /\ dtaps' = AfterPrefill(dtaps, n)
          /\ seed' = [n |-> TapRows(n, Sliding), from |-> dgoal - TapRows(n, Sliding)]
  /\ dpos' = dgoal
  /\ IF dgoal < NPrompt
     THEN /\ points' \in {points, points \cup {Resume(dgoal)}}
          /\ dgoal' = NPrompt /\ UNCHANGED dpc
     ELSE dpc' = "block" /\ UNCHANGED <<points, dgoal>>
  /\ UNCHANGED <<keeps, turnNo, told, resumed, drows, heldTo>>

\* Row o of the plane and the ones after it, a run of kSpecTok at a time.
SeedRow(j) == (j \div SpecTok) * SpecTok + (j % SpecTok)

\* dspark_seed: the tapped states, each at its own position.
Seeded ==
  [s \in DOMAIN drows |->
     LET js == {j \in 0..(seed.n - 1) : (seed.from + j) % RawSlots = s} IN
     IF js = {} THEN drows[s]
     ELSE LET j == CHOOSE j \in js : \A i \in js : i <= j IN
          IF dtaps[SeedRow(j)] = seed.from + j THEN seed.from + j ELSE Other]

\* dspark_draft: the block's own rows, over whatever was drafted or kept there.
OwnRows(rows) ==
  LET at == {p % RawSlots : p \in dpos..(dpos + Proposals - 1)} IN
  [s \in DOMAIN rows |-> IF s \in at THEN Other ELSE rows[s]]

\* At position 0 there is nothing to attend to and nothing is proposed.
DraftStep ==
  /\ dpc = "block" /\ told + Proposals + 1 <= Reach
  /\ drows' = IF dpos > 0 THEN OwnRows(Seeded) ELSE Seeded
  /\ dpc' = "verify"
  /\ UNCHANGED <<keeps, turnNo, told, dpos, resumed, dgoal, dtaps, seed, points, heldTo>>

\* The verify block: every row is tapped, k proposals are accepted, and the state
\* is wound back to them; g tokens reach the transcript.
VerifyStep(k, g, stops) ==
  /\ dpc = "verify"
  /\ LET nd == IF dpos > 0 THEN Proposals ELSE 0 IN
     /\ k <= nd /\ g \in 1..(k + 1) /\ (g <= k => stops)
     /\ LET tokens == TapTokens(0, nd + 1, nd + 1, 0)
            wide == TapTarget(dtaps, tokens, nd + 1, 0, Other)
        IN dtaps' = [r \in DOMAIN wide |->
                       IF r \notin DOMAIN tokens THEN wide[r]
                       ELSE IF tokens[r] <= k THEN dpos + tokens[r] ELSE Other]
  /\ seed' = [n |-> k + 1, from |-> dpos]
  /\ dpos' = dpos + k + 1 /\ told' = told + g
  /\ dpc' = IF stops THEN "publish" ELSE "block"
  /\ UNCHANGED <<keeps, turnNo, resumed, dgoal, drows, points, heldTo>>

\* The turn is offered to the store; a publish that fails leaves it as it was.
Offer ==
  /\ dpc = "publish"
  /\ LET upto == Lesser(dpos, told) IN
     /\ dpos' = IF keeps THEN upto ELSE dpos
     /\ \/ UNCHANGED <<points, heldTo>>
        \/ /\ keeps
           /\ points' = points \cup {Resume(upto)}
           /\ heldTo' = Greater(heldTo, (upto \div StoreBlock) * StoreBlock)
  /\ dpc' = "ask"
  /\ UNCHANGED <<keeps, turnNo, told, resumed, dgoal, drows, dtaps, seed>>

DraftNext ==
  \/ \E n \in Lengths, d \in 0..Reach : Ask(n, d)
  \/ Boundary \/ Prefill \/ DraftStep
  \/ \E k \in 0..Proposals, g \in 1..(Proposals + 1), stops \in BOOLEAN : VerifyStep(k, g, stops)
  \/ Offer

DraftSpec == DraftInit /\ [][DraftNext]_draftVars

-----------------------------------------------------------------------------
\* The positions before the block that the draft attends to.
History == Greater(0, dpos - Sliding)..(dpos - 1)

\* model.cpp, dspark_draft: the ring has a main row for every position up to P - 1.
\* Whatever was proposed and rejected there before, and however the prompt was
\* split, the draft's keys from where the turn resumed are the target's own states
\* for the positions they stand at.
DraftSeesTarget ==
  dpc = "verify" => \A p \in History : p >= resumed => drows[p % RawSlots] = p

\* affinity.cpp:1013: the stored rings save the draft's conditioning, so a resumed
\* turn's draft sees the target's states below the resume point too.
ConditioningIsSaved ==
  dpc = "verify" => \A p \in History : drows[p % RawSlots] = p
=============================================================================
