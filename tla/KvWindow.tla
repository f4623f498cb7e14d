------------------------------ MODULE KvWindow ------------------------------
(***************************************************************************)
(* What one sequence slot of the device holds, and what the counts of its  *)
(* SeqState say of it (src/engine/model.cpp, src/gpu/attention_gpu.h,      *)
(* src/gpu/compressor_gpu.h).                                              *)
(*                                                                         *)
(* Two rings matter.  The raw ring keeps the rows attention reads, by      *)
(* position modulo its size; the history ring keeps the compressor's       *)
(* projections of the positions before the current chunk.  A cell is who   *)
(* wrote it, for which position, and whether the token there is one the    *)
(* sequence kept.  Neither ring is ever cleared by a rollback.             *)
(***************************************************************************)
EXTENDS Integers, FiniteSets

CONSTANTS
  Sliding,     \* positions a query attends to, its own included
  AttnBatch,   \* kAttnBatch: positions committed before any of them attends
  Ratio,       \* positions a compressed row stands for
  Nobody

ASSUME WindowAssumption ==
  Sliding \in Nat \ {0} /\ AttnBatch \in Nat \ {0} /\ Ratio \in Nat \ {0}

Lesser(a, b) == IF a <= b THEN a ELSE b
Greater(a, b) == IF a <= b THEN b ELSE a

RawSlots == Sliding + AttnBatch - 1

\* comp_hist of the paired compressor: its own group and the one before it.
Hist == 2 * Ratio

Blank == [who |-> Nobody, pos |-> 0, kept |-> TRUE]
Fresh == [raw |-> [s \in 0..(RawSlots - 1) |-> Blank], hist |-> [s \in 0..(Hist - 1) |-> Blank]]

\* The positions from..from+n-1 written over a ring, the later over the earlier;
\* the first `kept` of them are tokens the sequence keeps.
Written(ring, size, who, from, n, kept) ==
  [s \in 0..(size - 1) |->
     LET at == {p \in from..(from + n - 1) : p % size = s} IN
     IF at = {} THEN ring[s]
     ELSE LET p == CHOOSE p \in at : \A q \in at : q <= p IN
          [who |-> who, pos |-> p, kept |-> p < from + kept]]

\* forward_prefill's effect on the slot, whichever of its n tokens are kept.
Fed(dev, who, from, n, kept) ==
  [raw |-> Written(dev.raw, RawSlots, who, from, n, kept),
   hist |-> Written(dev.hist, Hist, who, from, n, kept)]

IsOwn(cell, who, p) == cell.who = who /\ cell.pos = p /\ cell.kept

(***************************************************************************)
(* Every query of the chunk reads its own sequence: the sub-batch's end is *)
(* in the ring before its first token attends, and what the query reaches  *)
(* back to before the chunk is still there.                                *)
(***************************************************************************)
AttendsToOwn(raw, who, from, n) ==
  \A i \in 0..(n - 1) :
    LET end == Lesser(n, ((i \div AttnBatch) + 1) * AttnBatch)
        now == Written(raw, RawSlots, who, from, end, end)
    IN \A p \in Greater(0, from + i - Sliding + 1)..(from + i) :
         IsOwn(now[p % RawSlots], who, p)

Emits(p) == (p + 1) % Ratio = 0

\* Window::at: what a row emitted in the chunk pools from before the chunk.
PoolsOwn(hist, who, from, n) ==
  \A q \in {q \in from..(from + n - 1) : Emits(q)} :
    \A p \in Greater(0, q - Hist + 1)..(from - 1) : IsOwn(hist[p % Hist], who, p)

-----------------------------------------------------------------------------
(* SeqState: how much of each cache is real.                               *)

Counts(pos) == [pos |-> pos, nRaw |-> Lesser(pos, Sliding), rawHead |-> pos % Sliding,
                nComp |-> pos \div Ratio]

StateInit == [pos |-> 0, nRaw |-> 0, rawHead |-> 0, nComp |-> 0]

\* The host walk at the end of a chunk: one more raw row a token, one more
\* compressed row where one is emitted.
Advanced(st, n) ==
  [pos |-> st.pos + n,
   nRaw |-> Lesser(st.nRaw + n, Sliding),
   rawHead |-> (st.rawHead + n) % Sliding,
   nComp |-> st.nComp + Cardinality({p \in st.pos..(st.pos + n - 1) : Emits(p)})]

\* Only the counts move.
Rollback(st, keep) ==
  IF keep > st.pos THEN st
  ELSE [Counts(keep) EXCEPT !.nComp = Lesser(st.nComp, keep \div Ratio)]

RestoreState(pos) == Counts(pos)

-----------------------------------------------------------------------------
(* The plane the target's tapped hidden states go to, on the cards: row r  *)
(* belongs to position tap_pos0 + r of the last call, of which only the    *)
(* trailing tap_keep positions are kept (src/engine/model.cpp,             *)
(* src/gpu/dense_gpu.hip).  Who wrote a row is left to the caller.         *)

TapRows(n, keep) == IF keep \in 1..(n - 1) THEN keep ELSE n

\* b_lo and row0 of the chunk at `base`: the first of its tokens that is kept,
\* and where its row goes.
TapLo(base, first) == IF base >= first THEN 0 ELSE first - base

\* A row for the chunk's token and not for the call's.
TapRowInChunk(base, first) == TapLo(base, first)
TapRow0(base, first) == base + TapLo(base, first) - first

\* Grown, never shrunk, and blank when grown.
Grown(plane, n, blank) == IF n - 1 \in DOMAIN plane THEN plane ELSE [r \in 0..(n - 1) |-> blank]

\* batch_hc_tap for the chunk of `live` tokens at `base` of a call of n: the rows it
\* writes, each with the call's token it is of, and the plane they go to.
TapTokens(base, live, n, keep) ==
  LET first == n - TapRows(n, keep)
      lo == TapLo(base, first)
      row0 == TapRow0(base, first)
  IN [r \in row0..(row0 + live - lo - 1) |-> base + lo + r - row0]

TapTarget(plane, tokens, n, keep, blank) ==
  IF DOMAIN tokens = {} THEN plane ELSE Grown(plane, TapRows(n, keep), blank)
=============================================================================
