------------------------------- MODULE Forward -------------------------------
(***************************************************************************)
(* One forward_prefill: n tokens in chunks of the arena, each chunk through *)
(* every layer (src/engine/model.cpp).  In a layer the compressor and the   *)
(* walk over the tokens come first; then the routed experts, whom the cards *)
(* or the host choose, and the cards or the host compute.                   *)
(*                                                                          *)
(* Host buffers outlive the layer that filled them, and under a dispatch    *)
(* built on the card nobody refills them: normOf and selOf say which chunk  *)
(* and layer the norm, the selection and the weights in them are of.  The   *)
(* output block is a bag of who contributed what.                           *)
(***************************************************************************)
EXTENDS KvWindow, Bags

CONSTANTS
  Depth,      \* n_layer
  HashLayers, \* layers that route by a table
  CompLayers, \* layers with a compressor
  CompRows,   \* comp_rows: the compressed cache's capacity
  TapLayers,  \* dspark_taps
  Routable,   \* the experts of a layer
  PerToken,   \* n_expert_used
  OnDisk,     \* experts that may start with no address
  Rigs,       \* what the build and the load wired
  Passes      \* the calls considered

Layer == 0..(Depth - 1)
Half == 1..2    \* the cards, and the share of every expert each of them holds

ASSUME ForwardAssumption ==
  /\ Depth \in Nat \ {0} /\ CompRows \in Nat /\ PerToken \in Nat \ {0}
  /\ HashLayers \cup CompLayers \cup TapLayers \subseteq Layer /\ OnDisk \subseteq Routable
  /\ Rigs \subseteq [cap : Nat, onCards : BOOLEAN, batched : BOOLEAN, router : BOOLEAN,
                     prof : BOOLEAN, epilogue : BOOLEAN]
  /\ Passes \subseteq [from : Nat, n : Nat \ {0}, keep : Nat, blk : BOOLEAN,
                       perPosition : BOOLEAN, logits : BOOLEAN, routed : BOOLEAN]

VARIABLES
  rig, pass,       \* fixed for the call
  fpc, base, layer,
  seqPos, count,   \* SeqState: pos, and each layer's counts
  emitted,         \* the compressed rows on the cards: the position each was pooled at
  vis,             \* ncompb: how many rows each token of the chunk may attend to
  latched,         \* plan_ready_
  nowhere,         \* each layer's experts with neither a slab offset nor a pool slot
  asked,           \* dev_plan, as the router was told
  normOf, selOf,   \* what normb, and selb and swb, hold
  nsel,            \* nselb
  chosen,          \* the chunk's routing
  handled,         \* the pairs the batched dispatch took
  block,           \* each card's block
  tapPlane, heard, hcHost

constVars == <<rig, pass>>
stateVars == <<seqPos, count, emitted>>
hostVars == <<asked, normOf, selOf, nsel, chosen, handled>>
outVars == <<tapPlane, heard, hcHost>>
forwardVars == <<constVars, fpc, base, layer, stateVars, vis, latched, nowhere, hostVars, block, outVars>>

ChunkSize == Lesser(rig.cap, pass.n)
Live == Lesser(ChunkSize, pass.n - base)
Tok == 0..(Live - 1)
Here == <<base, layer>>
Never == <<-1, -1>>
Pairs == UNION {{b} \X chosen[b] : b \in Tok}
Bare == [l \in TapLayers |-> -1]

-----------------------------------------------------------------------------
(* forward_token, as far as it moves the counts.                           *)

ZeroCount == [nRaw |-> 0, rawHead |-> 0, nComp |-> 0]

TokenStep(l, c, p) ==
  [nRaw |-> Lesser(c.nRaw + 1, Sliding),
   rawHead |-> (c.rawHead + 1) % Sliding,
   nComp |-> c.nComp + IF l \in CompLayers /\ Emits(p) /\ c.nComp + 1 <= CompRows THEN 1 ELSE 0]

\* n calls of it from the start.
ByToken(l, n) ==
  LET after[i \in 0..n] == IF i = 0 THEN ZeroCount ELSE TokenStep(l, after[i - 1], i - 1) IN after[n]

RowsByToken(l, n) == [j \in 1..ByToken(l, n).nComp |-> j * Ratio - 1]

-----------------------------------------------------------------------------
ForwardInit ==
  /\ rig \in Rigs /\ pass \in Passes
  /\ fpc = "call" /\ base = 0 /\ layer = 0
  /\ seqPos = pass.from /\ count = [l \in Layer |-> ByToken(l, pass.from)]
  /\ emitted = [l \in Layer |-> RowsByToken(l, pass.from)]
  /\ vis = <<>> /\ latched = FALSE
  /\ nowhere \in [Layer -> SUBSET OnDisk]
  /\ asked = FALSE /\ normOf = Never /\ selOf = [sel |-> Never, wt |-> Never] /\ nsel = 0
  /\ chosen = [b \in {} |-> {}] /\ handled = {} /\ block = [c \in Half |-> EmptyBag]
  /\ tapPlane = <<>> /\ heard = {} /\ hcHost = TRUE

\* What is refused before anything has happened.
Unfit ==
  \/ rig.cap < 2 \/ ~rig.onCards
  \/ pass.blk /\ pass.perPosition /\ pass.n > rig.cap

Start ==
  /\ fpc = "call"
  /\ fpc' = IF Unfit THEN "refused" ELSE "attention"
  /\ UNCHANGED <<constVars, base, layer, stateVars, vis, latched, nowhere, hostVars, block, outVars>>

\* The rows the chunk emits, as many as the cache has room for.
NOutUncapped(l) == Cardinality({b \in Tok : l \in CompLayers /\ Emits(seqPos + b)})
NOut(l) == Lesser(NOutUncapped(l), CompRows - count[l].nComp)

\* The walk: after token b.
Walked(l) ==
  LET end == count[l].nComp + NOut(l)
      after[b \in -1..(Live - 1)] ==
        IF b = -1 THEN count[l]
        ELSE [nRaw |-> Lesser(after[b - 1].nRaw + 1, Sliding),
              rawHead |-> (after[b - 1].rawHead + 1) % Sliding,
              nComp |-> after[b - 1].nComp
                + IF l \in CompLayers /\ Emits(seqPos + b) /\ after[b - 1].nComp < end THEN 1 ELSE 0]
  IN after

\* compress: the chunk's rows, from slot n_comp.
Pooled(l) ==
  LET c == count[l].nComp IN
  [j \in 1..(c + NOut(l)) |->
     IF j <= c THEN emitted[l][j] ELSE (((seqPos \div Ratio) + (j - c)) * Ratio) - 1]

Attention ==
  /\ fpc = "attention"
  /\ emitted' = [emitted EXCEPT ![layer] = Pooled(layer)]
  /\ count' = [count EXCEPT ![layer] = Walked(layer)[Live - 1]]
  /\ vis' = [b \in Tok |-> Walked(layer)[b].nComp]
  /\ fpc' = "route"
  /\ UNCHANGED <<constVars, base, layer, seqPos, latched, nowhere, hostVars, block, outVars>>

-----------------------------------------------------------------------------
(* The routed experts.                                                     *)

Hashed == layer \in HashLayers
DevRoute == ~Hashed /\ rig.router
DevHash == Hashed /\ rig.router /\ pass.routed
PlanLayer == latched /\ nowhere[layer] = {}

\* What comes back to the host: the norm if it weighs or chooses, the selection
\* and the weights unless the dispatch is built on the card.
Route ==
  /\ fpc = "route"
  /\ asked' = (rig.batched /\ PlanLayer /\ ~rig.prof)
  /\ chosen' \in [Tok -> IF pass.routed THEN {S \in SUBSET Routable : Cardinality(S) = PerToken} ELSE {{}}]
  /\ normOf' = IF DevRoute \/ DevHash THEN normOf ELSE Here
  /\ selOf' = IF ~pass.routed \/ (asked' /\ DevRoute) THEN selOf
              ELSE [sel |-> Here, wt |-> IF asked' /\ DevHash THEN selOf.wt ELSE Here]
  /\ nsel' = IF ~pass.routed \/ (asked' /\ DevRoute) THEN 0 ELSE PerToken
  /\ handled' = {}
  /\ fpc' = "dispatch"
  /\ UNCHANGED <<constVars, base, layer, stateVars, vis, latched, nowhere, block, outVars>>

\* Card c's share of these pairs, from the norm, the selection and the weights of.
Share(pairs, c, norm, picked, wt) ==
  SetToBag({[pair |-> x, half |-> c, norm |-> norm, sel |-> picked, wt |-> wt] : x \in pairs})

\* The host's build, from the host's buffers; an expert on the SSD tier is staged
\* or declined.
HostBuild ==
  \E declined \in SUBSET {x \in Pairs : x[2] \in nowhere[layer]} :
    /\ handled' = Pairs \ declined
    /\ block' = [c \in Half |-> block[c] (+) Share(handled', c, Here, selOf.sel, selOf.wt)]

\* The card's build takes whatever the router named.
CardBuild ==
  /\ handled' = Pairs
  /\ block' = [c \in Half |-> block[c] (+) Share(Pairs, c, Here, Here, Here)]

\* run_batch_device latches the card's build at the first selection a card can read,
\* and asks again whether this layer has one.
Dispatch ==
  /\ fpc = "dispatch"
  /\ IF rig.batched /\ pass.routed
     THEN /\ latched' = (latched \/ rig.router)
          /\ IF latched' /\ nowhere[layer] = {} THEN CardBuild ELSE HostBuild
          /\ \E l \in Layer : nowhere' \in {nowhere, [nowhere EXCEPT ![l] = {}]}   \* engine_tick
     ELSE UNCHANGED <<latched, nowhere, handled, block>>
  /\ fpc' = "host"
  /\ UNCHANGED <<constVars, base, layer, stateVars, vis, asked, normOf, selOf, nsel, chosen, outVars>>

\* any_host: what the dispatch left, as far as nselb tells.
LeftOver == IF nsel = 0 THEN {} ELSE Pairs \ handled

\* norm_fetch, unless the norm is already there.
FetchedNever == normOf
Fetched == IF DevRoute \/ DevHash THEN Here ELSE normOf

\* block_add: the host's whole contribution, on rank 0 alone.
BlockAdd(c) == c = 1

HostExperts ==
  /\ fpc = "host"
  /\ IF LeftOver = {} THEN fpc' = "post" /\ UNCHANGED <<normOf, block>>
     ELSE IF rig.batched THEN fpc' = "aborted" /\ UNCHANGED <<normOf, block>>
     ELSE /\ normOf' = Fetched
          /\ block' = [c \in Half |->
               IF BlockAdd(c)
               THEN block[c] (+) Share(LeftOver, 1, Fetched, selOf.sel, selOf.wt)
                             (+) Share(LeftOver, 2, Fetched, selOf.sel, selOf.wt)
               ELSE block[c]]
          /\ fpc' = "post"
  /\ UNCHANGED <<constVars, base, layer, stateVars, vis, latched, nowhere, asked, selOf, nsel, chosen, handled, outVars>>

\* block_reduce: every card has the sum.
Reduce ==
  /\ fpc = "post"
  /\ block' = [c \in Half |-> block[1] (+) block[2]]
  /\ fpc' = "tap"
  /\ UNCHANGED <<constVars, base, layer, stateVars, vis, latched, nowhere, hostVars, outVars>>

\* hc_post drains the block; then the layer's tap, and the next layer.
NextLayer ==
  /\ fpc = "tap"
  /\ tapPlane' =
       IF ~pass.blk \/ layer \notin TapLayers THEN tapPlane
       ELSE LET tokens == TapTokens(base, Live, pass.n, pass.keep)
                plane == TapTarget(tapPlane, tokens, pass.n, pass.keep, Bare)
            IN [r \in DOMAIN plane |->
                  IF r \in DOMAIN tokens THEN [plane[r] EXCEPT ![layer] = pass.from + tokens[r]] ELSE plane[r]]
  /\ block' = [c \in Half |-> EmptyBag]
  /\ chosen' = [b \in {} |-> {}] /\ handled' = {} /\ vis' = <<>>
  /\ layer' = IF layer = Depth - 1 THEN 0 ELSE layer + 1
  /\ fpc' = IF layer = Depth - 1 THEN "head" ELSE "attention"
  /\ seqPos' = IF layer = Depth - 1 THEN seqPos + Live ELSE seqPos
  /\ UNCHANGED <<constVars, base, count, emitted, latched, nowhere, asked, normOf, selOf, nsel, heard, hcHost>>

\* Every position's winner, or the last token's logits if somebody wants them.
Winners ==
  /\ fpc = "head"
  /\ IF pass.blk /\ pass.perPosition
     THEN /\ fpc' = IF ~rig.epilogue THEN "aborted" ELSE IF base + Live < pass.n THEN "attention" ELSE "returned"
          /\ heard' = IF rig.epilogue THEN heard \cup {seqPos - Live + b : b \in Tok} ELSE heard
          /\ hcHost' = (hcHost /\ ~rig.epilogue)
     ELSE /\ fpc' = IF base + Live < pass.n THEN "attention" ELSE "returned"
          /\ heard' = IF pass.logits /\ base + Live >= pass.n THEN {seqPos - 1} ELSE heard
          /\ UNCHANGED hcHost
  /\ base' = IF fpc' = "attention" THEN base + ChunkSize ELSE base
  /\ UNCHANGED <<constVars, layer, stateVars, vis, latched, nowhere, hostVars, block, tapPlane>>

\* Any of the device's calls may refuse in the middle of a chunk.
GiveUp ==
  /\ fpc \in {"attention", "route", "post", "tap", "head"}
  /\ fpc' = "gaveup"
  /\ UNCHANGED <<constVars, base, layer, stateVars, vis, latched, nowhere, hostVars, block, outVars>>

ForwardNext ==
  \/ Start \/ Attention \/ Route \/ Dispatch \/ HostExperts \/ Reduce \/ NextLayer \/ Winners \/ GiveUp

ForwardSpec == ForwardInit /\ [][ForwardNext]_forwardVars

-----------------------------------------------------------------------------
\* model.h: a token attends to the compressed rows of its own past, all of them
\* and no later one, though the whole chunk's rows are in the cache by then.
SeesItsPast ==
  fpc = "route" => \A b \in Tok : vis[b] = ByToken(layer, seqPos + b + 1).nComp

TapsAreTheLast ==
  pass.blk /\ TapLayers # {} =>
    \A r \in 0..(TapRows(pass.n, pass.keep) - 1), l \in TapLayers :
      tapPlane[r][l] = pass.from + (pass.n - TapRows(pass.n, pass.keep)) + r

Answered ==
  heard = IF pass.blk /\ pass.perPosition THEN pass.from..(pass.from + pass.n - 1)
          ELSE IF pass.logits THEN {pass.from + pass.n - 1} ELSE {}

\* model.h, forward_prefill: it leaves the state exactly as n calls of forward_token
\* would have, whatever the arena cuts the prompt into: the counts, the compressed
\* rows and what each token saw of them, the tap's trailing rows, and the answers.
ChunksDoNotShow ==
  /\ SeesItsPast
  /\ fpc = "returned" =>
       /\ seqPos = pass.from + pass.n
       /\ \A l \in Layer : /\ count[l] = ByToken(l, seqPos)
                           /\ emitted[l] = RowsByToken(l, seqPos)
       /\ TapsAreTheLast /\ Answered

\* model.h, set_expert_ffn_batch: the dispatch and the host partition the routed
\* pairs.  After the exchange every card has both halves of every pair of this
\* layer once, computed from this layer's norm, selection and weights.
EachPairOnce ==
  fpc = "tap" => \A c \in Half :
    block[c] = Share(Pairs, 1, Here, Here, Here) (+) Share(Pairs, 2, Here, Here, Here)
=============================================================================
