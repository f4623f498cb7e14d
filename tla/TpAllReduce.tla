---------------------------- MODULE TpAllReduce ----------------------------
(***************************************************************************)
(* The tensor-parallel all-reduce (src/gpu/tp_allreduce.hip): every card   *)
(* pushes its message into a double-buffered scratch of every peer,        *)
(* releases a flag there, waits for the peers' flags and reduces.  The     *)
(* host queues one kernel a card for each collective and waits for none.   *)
(*                                                                         *)
(* A kernel runs a grid of blocks that progress independently; block b     *)
(* owns a chunk of the message, the flag b and the sequence counter b, and *)
(* the grid's size depends on the message, so different collectives cut    *)
(* the message differently.  Kernels of one card run in stream order.      *)
(* The sum itself is not modelled: a cell of scratch holds the number of   *)
(* the collective whose data it is.                                        *)
(***************************************************************************)
EXTENDS Naturals, FiniteSets

CONSTANTS
  Rank,        \* TpContext::dev
  NCalls,      \* collectives in the run
  MaxBlocks,   \* kTpMaxBlocks
  Calls,       \* per collective, the grid size nb
  Cell,        \* pieces of a message, small enough to lie in one chunk
  Chunk        \* Chunk[nb][c]: the block that owns cell c under a grid of nb

Block == 0..(MaxBlocks - 1)

ASSUME TpTypeAssumption ==
  /\ IsFiniteSet(Rank)
  /\ NCalls \in Nat /\ MaxBlocks \in Nat \ {0}
  /\ Calls \in [1..NCalls -> 1..MaxBlocks]
  /\ Chunk \in [1..MaxBlocks -> [Cell -> Block]]
  /\ \A nb \in 1..MaxBlocks, c \in Cell : Chunk[nb][c] < nb

\* How many of the first k collectives reach block b.
Reaching(k, b) == {i \in 1..NCalls : i <= k /\ b < Calls[i]}
Reached(k, b) == Cardinality(Reaching(k, b))

\* Every pass of a model issues an even number of collectives of one grid (two a
\* layer), so the counters of all the blocks a collective uses have its parity.
ASSUME ParityAssumption ==
  \A k \in 1..NCalls, b \in Block : b < Calls[k] => Reached(k, b) % 2 = k % 2

VARIABLES
  call,        \* per rank, the collective its kernel is in (0: none yet)
  ph,          \* per rank and block, where the block stands
  seq,         \* seq_ctrs: per rank and block
  flag,        \* flag[q][r][b]: in q's memory, released by r
  scratch      \* scratch[q][r][slot][c]: in q's memory, pushed by r

tpVars == <<call, ph, seq, flag, scratch>>

Phase == {"push", "pushed", "wait", "reduce", "done"}

\* The double buffer: kTpSlots = 2, a slot by the parity of the counter.
SlotSingle(s) == 0
Slot(s) == s % 2

TpInit ==
  /\ call = [r \in Rank |-> 0]
  /\ ph = [r \in Rank |-> [b \in Block |-> "done"]]
  /\ seq = [r \in Rank |-> [b \in Block |-> 0]]
  /\ flag = [q \in Rank |-> [r \in Rank |-> [b \in Block |-> 0]]]
  /\ scratch = [q \in Rank |-> [r \in Rank |-> [t \in 0..1 |-> [c \in Cell |-> 0]]]]

(* tp_all_reduce: the next kernel of this card's stream starts.            *)
Start(r) ==
  /\ \A b \in Block : ph[r][b] = "done"
  /\ call[r] < NCalls
  /\ call' = [call EXCEPT ![r] = call[r] + 1]
  /\ ph' = [ph EXCEPT ![r] = [b \in Block |-> IF b < Calls[call[r] + 1] THEN "push" ELSE "done"]]
  /\ UNCHANGED <<seq, flag, scratch>>

(* The block takes its sequence number and pushes its chunk to every peer. *)
Push(r, b) ==
  /\ ph[r][b] = "push"
  /\ seq' = [seq EXCEPT ![r][b] = seq[r][b] + 1]
  /\ scratch' = [q \in Rank |-> [p \in Rank |-> [t \in 0..1 |-> [c \in Cell |->
       IF q # r /\ p = r /\ t = Slot(seq[r][b] + 1) /\ Chunk[Calls[call[r]]][c] = b
       THEN call[r] ELSE scratch[q][p][t][c]]]]]
  /\ ph' = [ph EXCEPT ![r][b] = "pushed"]
  /\ UNCHANGED <<call, flag>>

\* Release of the first peer's flag only.
ReleaseOne(r, b) ==
  /\ ph[r][b] = "pushed"
  /\ LET one == CHOOSE q \in Rank : q # r IN
     flag' = [flag EXCEPT ![one][r][b] = seq[r][b]]
  /\ ph' = [ph EXCEPT ![r][b] = "wait"]
  /\ UNCHANGED <<call, seq, scratch>>

(* The stores have drained: the block releases its flag at every peer.     *)
Release(r, b) ==
  /\ ph[r][b] = "pushed"
  /\ flag' = [q \in Rank |-> [flag[q] EXCEPT ![r][b] = IF q # r THEN seq[r][b] ELSE flag[q][r][b]]]
  /\ ph' = [ph EXCEPT ![r][b] = "wait"]
  /\ UNCHANGED <<call, seq, scratch>>

(* The spin ends: every peer's flag for this block has reached seq.        *)
Pass(r, b) ==
  /\ ph[r][b] = "wait"
  /\ \A q \in Rank \ {r} : flag[r][q][b] >= seq[r][b]
  /\ ph' = [ph EXCEPT ![r][b] = "reduce"]
  /\ UNCHANGED <<call, seq, flag, scratch>>

(* The block has summed its chunk.                                         *)
Finish(r, b) ==
  /\ ph[r][b] = "reduce"
  /\ ph' = [ph EXCEPT ![r][b] = "done"]
  /\ UNCHANGED <<call, seq, flag, scratch>>

BlockNext(r, b) == Push(r, b) \/ Release(r, b) \/ Pass(r, b) \/ Finish(r, b)

TpNext == \E r \in Rank : Start(r) \/ \E b \in Block : BlockNext(r, b)

TpSpec == TpInit /\ [][TpNext]_tpVars

(* The host launches every card's kernel, and running blocks make progress.*)
TpFairSpec ==
  /\ TpSpec
  /\ \A r \in Rank : WF_tpVars(Start(r)) /\ \A b \in Block : WF_tpVars(BlockNext(r, b))

-----------------------------------------------------------------------------
(* Properties.                                                             *)

\* Type invariant.
TpTypeOK ==
  /\ call \in [Rank -> 0..NCalls]
  /\ ph \in [Rank -> [Block -> Phase]]
  /\ seq \in [Rank -> [Block -> Nat]]
  /\ flag \in [Rank -> [Rank -> [Block -> Nat]]]
  /\ scratch \in [Rank -> [Rank -> [0..1 -> [Cell -> Nat]]]]

\* What a block reads while it reduces is this collective's data from every
\* peer: the double buffer is deep enough however far the host has queued ahead,
\* for any number of ranks and across changes of the grid.
SumIsOfThisCall ==
  \A r \in Rank, b \in Block, c \in Cell :
    ph[r][b] = "reduce" /\ Chunk[Calls[call[r]]][c] = b =>
      \A q \in Rank \ {r} : scratch[r][q][Slot(seq[r][b])][c] = call[r]

\* No two ranks are ever more than one collective apart.
SkewAtMostOne == \A r, q \in Rank : call[r] <= call[q] + 1

\* A peer's release is still there when the block waits for it.
ReleaseIsSeen ==
  \A r, q \in Rank, b \in Block :
    /\ q # r /\ ph[r][b] = "wait"
    /\ \/ call[q] > call[r]
       \/ call[q] = call[r] /\ ph[q][b] \in {"wait", "reduce", "done"}
    => flag[r][q][b] >= seq[r][b]

\* Every queued collective completes on every rank: nobody spins to the bound
\* ("Nothing legitimate reaches it").
AllReducesFinish == <>(\A r \in Rank : call[r] = NCalls /\ \A b \in Block : ph[r][b] = "done")

-----------------------------------------------------------------------------
(* The inductive invariant.                                                *)

Released == {"wait", "reduce", "done"}

\* Counters and flags are functions of how far their writer has come.
SeqByProgress ==
  \A r \in Rank, b \in Block :
    seq[r][b] = IF ph[r][b] = "push" THEN Reached(call[r] - 1, b) ELSE Reached(call[r], b)

FlagByProgress ==
  \A q, r \in Rank, b \in Block : q # r =>
    flag[q][r][b] = IF ph[r][b] \in Released THEN Reached(call[r], b)
                                             ELSE Reached(call[r] - 1, b)

\* A block past its wait knows every peer has released this collective.
PassedMeansReleased ==
  \A r, q \in Rank, b \in Block :
    q # r /\ call[r] > 0 /\ b < Calls[call[r]] /\ ph[r][b] \in {"reduce", "done"} =>
      \/ call[q] > call[r]
      \/ call[q] = call[r] /\ ph[q][b] \in Released

\* A kernel's blocks beyond its grid do not exist.
GridOnly ==
  \A r \in Rank, b \in Block :
    ph[r][b] # "done" => call[r] > 0 /\ b < Calls[call[r]]

\* The last collective of which rank r has pushed cell c.
LastPushed(r, c) ==
  IF call[r] > 0 /\ ph[r][Chunk[Calls[call[r]]][c]] = "push" THEN call[r] - 1 ELSE call[r]

\* The two slots hold the last two messages pushed.
ScratchByProgress ==
  \A q, r \in Rank, c \in Cell : q # r =>
    /\ LastPushed(r, c) >= 1 => scratch[q][r][LastPushed(r, c) % 2][c] = LastPushed(r, c)
    /\ LastPushed(r, c) >= 2 => scratch[q][r][(LastPushed(r, c) - 1) % 2][c] = LastPushed(r, c) - 1

TpInv ==
  /\ TpTypeOK
  /\ GridOnly
  /\ SeqByProgress
  /\ FlagByProgress
  /\ PassedMeansReleased
  /\ SkewAtMostOne
  /\ ScratchByProgress
=============================================================================
