------------------------------- MODULE Serve -------------------------------
(***************************************************************************)
(* Requests over the engine: connection threads take a sequence slot       *)
(* (src/server/server.cpp), restore and prefill their prompt, and decode   *)
(* it in speculative blocks (tools/affinity.cpp), one step at a time under *)
(* engine_mu.  KvWindow is what a step does to the slot it runs in.        *)
(*                                                                         *)
(* A token is represented by whether it is the one the target model would  *)
(* have produced there: a draft proposes tokens that match and tokens that *)
(* do not.                                                                 *)
(***************************************************************************)
EXTENDS KvWindow, Sequences

CONSTANTS
  Conn,        \* connections
  SlotCounts,  \* the values of --slots considered
  Drafts,      \* the values of --dspark considered
  Block,       \* dspark_block: tokens a draft proposes
  Asks,        \* Asks[t]: prompt lengths and total_budgets connection t may ask with
  Cap,         \* the prefill arena: the longest chunk
  BlockTokens, \* positions a block of the prefix store holds
  Faulty       \* whether restores and prefills may fail

ASSUME ServeAssumption ==
  /\ SlotCounts \subseteq Nat \ {0} /\ Drafts \subseteq BOOLEAN
  /\ Block \in Nat /\ Block < AttnBatch
  /\ \A t \in Conn : Asks[t] \subseteq [n : Nat \ {0}, budget : Nat]
  /\ Cap \in Nat /\ Cap > Block /\ BlockTokens \in Nat \ {0} /\ Faulty \in BOOLEAN
  /\ Nobody \notin Conn

VARIABLES
  nSlots, draftOn,  \* fixed at load
  pc,               \* where each connection's thread is
  slotBusy, slotOf, \* slot_busy_, and the slot each thread was handed
  mu, sel,          \* engine_mu's holder; the device's selected slot
  dev,              \* the device state of each slot
  st, hist, made,   \* SeqState, the transcript (is each token right?), tokens generated
  rq,               \* the request: prompt length and budget
  goal,             \* where the running prefill ends
  blk,              \* the verify block in flight: where it starts, which proposals match
  pub,              \* checkpoints in the prefix store
  clean,            \* whether the last step read only its own committed rows
  reply             \* what the client was sent

confVars == <<nSlots, draftOn>>
slotVars == <<slotBusy, slotOf>>
seqVars == <<st, hist, made>>
reqVars == <<rq, goal, blk, reply>>
vars == <<confVars, pc, slotVars, mu, sel, dev, seqVars, reqVars, pub, clean>>

Slots == 0..(nSlots - 1)
PrefixOn == nSlots = 1
NPre(t) == rq[t].n - 1
NoBlock == [at |-> 0, match |-> <<>>]

ServeInit ==
  /\ nSlots \in SlotCounts /\ draftOn \in Drafts
  /\ pc = [t \in Conn |-> "recv"]
  /\ slotBusy = {} /\ slotOf = [t \in Conn |-> 0]
  /\ mu = Nobody /\ sel = 0
  /\ dev = [s \in Slots |-> Fresh]
  /\ st = [t \in Conn |-> StateInit] /\ hist = [t \in Conn |-> <<>>] /\ made = [t \in Conn |-> 0]
  /\ rq \in {q \in [Conn -> UNION {Asks[t] : t \in Conn}] : \A t \in Conn : q[t] \in Asks[t]}
  /\ goal = [t \in Conn |-> 0] /\ blk = [t \in Conn |-> NoBlock]
  /\ reply = [t \in Conn |-> "none"]
  /\ pub = {} /\ clean = [attend |-> TRUE, pool |-> TRUE]

Goto(t, where) == pc' = [pc EXCEPT ![t] = where]

-----------------------------------------------------------------------------
(* The server.                                                             *)

\* recv ends, the route is not a completion, or the body does not parse: the
\* thread answers what there is to answer and never asks for a slot.
RecvOther(t) ==
  /\ pc[t] = "recv"
  /\ Goto(t, "done")
  /\ \E r \in {"closed", "other"} : reply' = [reply EXCEPT ![t] = r]
  /\ UNCHANGED <<confVars, slotVars, mu, sel, dev, seqVars, rq, goal, blk, pub, clean>>

RecvCompletion(t) ==
  /\ pc[t] = "recv"
  /\ Goto(t, "acquire")
  /\ UNCHANGED <<confVars, slotVars, mu, sel, dev, seqVars, reqVars, pub, clean>>

\* A slot handed out and not marked as taken.
TakeUnmarked(t, s) == slotBusy' = slotBusy /\ slotOf' = [slotOf EXCEPT ![t] = s]

Take(t, s) == slotBusy' = slotBusy \cup {s} /\ slotOf' = [slotOf EXCEPT ![t] = s]

\* acquire_slot: the lowest free slot, or sleep; a thread notified looks again,
\* and may find the slot gone.
Acquire(t) ==
  /\ pc[t] = "acquire"
  /\ LET free == Slots \ slotBusy IN
     IF free = {} THEN Goto(t, "wait") /\ UNCHANGED slotVars
     ELSE /\ Goto(t, "check")
          /\ Take(t, CHOOSE s \in free : \A u \in free : s <= u)
  /\ UNCHANGED <<confVars, mu, sel, dev, seqVars, reqVars, pub, clean>>

Sleeping == {t \in Conn : pc[t] = "wait"}

\* The slot is freed and nobody is woken.
WakeNone(t) == Goto(t, "done")

\* release_slot: notify_one.
WakeOne(t) ==
  IF Sleeping = {} THEN Goto(t, "done")
  ELSE \E w \in Sleeping : pc' = [pc EXCEPT ![t] = "done", ![w] = "acquire"]

Release(t) ==
  /\ pc[t] = "release"
  /\ slotBusy' = slotBusy \ {slotOf[t]}
  /\ WakeOne(t)
  /\ UNCHANGED <<confVars, slotOf, mu, sel, dev, seqVars, reqVars, pub, clean>>

-----------------------------------------------------------------------------
(* The handler.                                                            *)

\* An unknown role, n > 1, a tool_choice it cannot honour, or no text at all.
Refuse(t) ==
  /\ pc[t] = "check"
  /\ Goto(t, "release") /\ reply' = [reply EXCEPT ![t] = "error"]
  /\ UNCHANGED <<confVars, slotVars, mu, sel, dev, seqVars, rq, goal, blk, pub, clean>>

\* compress_reset: the history ring of the slot the device has selected.
CompressReset(s) == dev' = [dev EXCEPT ![s].hist = Fresh.hist]

\* init_state, before any set_slot and outside engine_mu.
InitState(t) ==
  /\ pc[t] = "check"
  /\ st' = [st EXCEPT ![t] = StateInit]
  /\ hist' = [hist EXCEPT ![t] = [i \in 1..rq[t].n |-> TRUE]]
  /\ CompressReset(sel)
  /\ Goto(t, IF PrefixOn /\ NPre(t) > 0 THEN "lookup" ELSE "fill")
  /\ UNCHANGED <<confVars, slotVars, mu, sel, made, reqVars, pub, clean>>

\* The step runs in whatever slot the last one selected.
EnterUnselected(t) == mu = Nobody /\ sel' = sel

\* set_slot under the lock.
Enter(t) == mu = Nobody /\ sel' = slotOf[t]

\* The checkpoint's window and its history ring, as they were stored.
Restored(t, c) ==
  [raw |-> Written(dev[sel'].raw, RawSlots, t, Greater(0, c.pos - Sliding),
                   Lesser(c.pos, Sliding), IF c.own THEN Sliding ELSE 0),
   hist |-> [s \in DOMAIN c.hist |-> [c.hist[s] EXCEPT !.who = t]]]

\* lookup and restore: nothing resumable, a restore that fails after writing
\* some rows, or the state as the checkpoint has it.
Lookup(t) ==
  /\ pc[t] = "lookup" /\ Enter(t)
  /\ \/ UNCHANGED <<dev, st>>
     \/ \E c \in pub :
          /\ c.pos <= NPre(t)
          /\ \/ /\ Faulty
                /\ dev' = [dev EXCEPT ![sel'].raw = [s \in DOMAIN @ |-> Blank],
                                      ![sel'].hist = c.hist]
                /\ UNCHANGED st
             \/ /\ dev' = [dev EXCEPT ![sel'] = Restored(t, c)]
                /\ st' = [st EXCEPT ![t] = RestoreState(c.pos)]
  /\ Goto(t, "split")
  /\ UNCHANGED <<confVars, slotVars, mu, hist, made, reqVars, pub, clean>>

\* The promotion boundary: blocks the store holds past the resume point, and far
\* enough from the end to leave the second prefill a whole window of taps.
Split(t) ==
  /\ pc[t] = "split"
  /\ \E c \in pub \cup {[pos |-> 0]} :
       LET b == (c.pos \div BlockTokens) * BlockTokens IN
       IF b > st[t].pos /\ b + Sliding <= NPre(t)
       THEN Goto(t, "promote") /\ goal' = [goal EXCEPT ![t] = b]
       ELSE Goto(t, "fill") /\ UNCHANGED goal
  /\ UNCHANGED <<confVars, slotVars, mu, sel, dev, seqVars, rq, blk, reply, pub, clean>>

\* One call of forward_prefill's loop: the slot, the counts, and what was read.
FeedChunk(t, n, kept) ==
  /\ dev' = [dev EXCEPT ![sel] = Fed(@, t, st[t].pos, n, kept)]
  /\ st' = [st EXCEPT ![t] = Advanced(@, n)]
  /\ clean' = [attend |-> AttendsToOwn(dev[sel].raw, t, st[t].pos, n),
               pool |-> PoolsOwn(dev[sel].hist, t, st[t].pos, n)]

\* Either prefill takes the lock; with nothing left to feed there is none.
StartPrefill(t) ==
  \/ /\ pc[t] = "fill" /\ NPre(t) = st[t].pos
     /\ Goto(t, "block") /\ UNCHANGED <<mu, sel, goal>>
  \/ /\ pc[t] = "fill" /\ NPre(t) > st[t].pos /\ Enter(t)
     /\ mu' = t /\ goal' = [goal EXCEPT ![t] = NPre(t)] /\ Goto(t, "chunk")
  \/ /\ pc[t] = "promote" /\ Enter(t)
     /\ mu' = t /\ Goto(t, "chunk") /\ UNCHANGED goal

PrefillStep(t) ==
  /\ StartPrefill(t)
  /\ UNCHANGED <<confVars, slotVars, dev, seqVars, rq, blk, reply, pub, clean>>

\* The first `pos` tokens of the transcript and the state `d` of the slot: is the
\* window attention will read the one those tokens leave?
Checkpoint(t, d, pos) ==
  [pos |-> pos,
   own |-> /\ pos <= Len(hist[t]) /\ \A i \in 1..pos : hist[t][i]
           /\ \A p \in Greater(0, pos - Sliding)..(pos - 1) : IsOwn(d.raw[p % RawSlots], t, p),
   hist |-> [s \in DOMAIN d.hist |-> [d.hist[s] EXCEPT !.who = Nobody]]]

Chunk(t) ==
  /\ pc[t] = "chunk"
  /\ LET n == Lesser(Cap, goal[t] - st[t].pos)
         last == st[t].pos + n = goal[t] IN
     /\ FeedChunk(t, n, n)
     /\ mu' = IF last THEN Nobody ELSE mu
     /\ Goto(t, IF ~last THEN "chunk" ELSE IF goal[t] = NPre(t) THEN "block" ELSE "fill")
     /\ pub' = IF last /\ goal[t] < NPre(t) THEN pub \cup {Checkpoint(t, dev'[sel], goal[t])} ELSE pub
  /\ UNCHANGED <<confVars, slotVars, sel, hist, made, reqVars>>

\* forward_prefill refuses: the turn ends with nothing generated or published.
ChunkFails(t) ==
  /\ Faulty /\ pc[t] = "chunk"
  /\ mu' = Nobody /\ Goto(t, "release") /\ reply' = [reply EXCEPT ![t] = "stop"]
  /\ UNCHANGED <<confVars, slotVars, sel, dev, seqVars, rq, goal, blk, pub, clean>>

-----------------------------------------------------------------------------
(* spec_decode.                                                            *)

More(t) == made[t] < rq[t].budget

\* The lock, the slot, and the draft's proposals, which may match or not; at
\* position 0 the draft has nothing to look at.
Draft(t) ==
  /\ pc[t] = "block" /\ More(t) /\ Enter(t)
  /\ mu' = t
  /\ \E m \in [1..(IF draftOn /\ st[t].pos > 0 THEN Block ELSE 0) -> BOOLEAN] :
       blk' = [blk EXCEPT ![t] = [at |-> st[t].pos, match |-> m]]
  /\ Goto(t, "verify")
  /\ UNCHANGED <<confVars, slotVars, dev, seqVars, rq, goal, reply, pub, clean>>

Proposed(t) == Len(blk[t].match)

\* Proposals that agree anywhere in the block, not its leading ones.
AgreeAnywhere(m) == Cardinality({i \in DOMAIN m : m[i]})

\* `while (k < nd && greedy[k] == fed[k + 1]) ++k`
Accepted(m) == CHOOSE k \in 0..Len(m) : /\ \A i \in 1..k : m[i]
                                        /\ k < Len(m) => ~m[k + 1]

\* How many of the block's proposals really are the target's own.
Right(m) == Cardinality({i \in DOMAIN m : \A j \in 1..i : m[j]})

Verify(t) ==
  /\ pc[t] = "verify"
  /\ FeedChunk(t, Proposed(t) + 1, Right(blk[t].match) + 1)
  /\ Goto(t, "accept")
  /\ UNCHANGED <<confVars, slotVars, mu, sel, hist, made, reqVars, pub>>

\* rollback to what was accepted, and the cards are free.
Accept(t) ==
  /\ pc[t] = "accept"
  /\ st' = [st EXCEPT ![t] = Rollback(@, blk[t].at + Accepted(blk[t].match) + 1)]
  /\ mu' = Nobody /\ Goto(t, "emit")
  /\ UNCHANGED <<confVars, slotVars, sel, dev, hist, made, reqVars, pub, clean>>

\* The accepted proposals and then the target's token go to the transcript until
\* the budget is spent; EOS, a stop string or a client gone ends it sooner, and a
\* full cache or a quit after the whole block.
Emit(t) ==
  /\ pc[t] = "emit"
  /\ LET k == Accepted(blk[t].match)
         most == Lesser(k + 1, rq[t].budget - made[t])
         right == [i \in 1..(k + 1) |-> Lesser(i, k) <= Right(blk[t].match)] IN
     \E g \in 1..most, stop \in BOOLEAN :
       /\ g < most => stop
       /\ hist' = [hist EXCEPT ![t] = @ \o SubSeq(right, 1, g)]
       /\ made' = [made EXCEPT ![t] = @ + g]
       /\ Goto(t, IF stop \/ made[t] + g = rq[t].budget THEN "publish" ELSE "block")
  /\ UNCHANGED <<confVars, slotVars, mu, sel, dev, st, reqVars, pub, clean>>

\* A budget of nothing.
NoBudget(t) ==
  /\ pc[t] = "block" /\ ~More(t)
  /\ Goto(t, "publish")
  /\ UNCHANGED <<confVars, slotVars, mu, sel, dev, seqVars, reqVars, pub, clean>>

\* Everything fed is published, whatever was emitted.
UptoFed(t) == st[t].pos

\* The transcript may end inside the last block.
Upto(t) == Lesser(st[t].pos, Len(hist[t]))

\* The state is wound back to the transcript, and the turn offered to the store.
Publish(t) ==
  /\ pc[t] = "publish"
  /\ IF PrefixOn
     THEN /\ st' = [st EXCEPT ![t] = Rollback(@, Upto(t))]
          /\ \/ pub' = pub
             \/ Upto(t) > 0 /\ pub' = pub \cup {Checkpoint(t, dev[sel], Upto(t))}
     ELSE UNCHANGED <<st, pub>>
  /\ reply' = [reply EXCEPT ![t] =
       IF rq[t].budget > 0 /\ made[t] >= rq[t].budget THEN "length" ELSE "stop"]
  /\ Goto(t, "release")
  /\ UNCHANGED <<confVars, slotVars, mu, sel, dev, hist, made, rq, goal, blk, clean>>

-----------------------------------------------------------------------------
Thread(t) ==
  \/ RecvOther(t) \/ RecvCompletion(t) \/ Acquire(t) \/ Release(t)
  \/ Refuse(t) \/ InitState(t) \/ Lookup(t) \/ Split(t)
  \/ PrefillStep(t) \/ Chunk(t) \/ ChunkFails(t)
  \/ Draft(t) \/ Verify(t) \/ Accept(t) \/ Emit(t) \/ NoBudget(t) \/ Publish(t)

Done == /\ \A t \in Conn : pc[t] = "done"
        /\ UNCHANGED vars

ServeNext == (\E t \in Conn : Thread(t)) \/ Done
ServeSpec == ServeInit /\ [][ServeNext]_vars

\* Every connection has a thread of its own, and no thread waits for the network
\* while it holds engine_mu.
ServeFairSpec == ServeSpec /\ \A t \in Conn : WF_vars(Thread(t))

-----------------------------------------------------------------------------
HoldsSlot(t) == pc[t] \notin {"recv", "acquire", "wait", "done"}

\* server.h: the slot a request is handed is its own until the turn is done, and
\* a step under engine_mu runs in the slot of the request that holds it.
SlotIsOwn ==
  /\ \A t \in Conn : HoldsSlot(t) => slotOf[t] \in slotBusy /\ slotOf[t] < nSlots
  /\ \A t, u \in Conn : HoldsSlot(t) /\ HoldsSlot(u) /\ slotOf[t] = slotOf[u] => t = u
  /\ mu # Nobody => sel = slotOf[mu]

\* affinity.cpp:1818: what is emitted is what the target decodes by itself, one
\* token ahead of the cache, whatever the draft proposed.
TranscriptIsTarget ==
  \A t \in Conn :
    /\ \A i \in DOMAIN hist[t] : hist[t][i]
    /\ made[t] <= rq[t].budget
    /\ pc[t] = "block" => Len(hist[t]) = st[t].pos + 1

\* affinity.cpp:2661: what is published is a prefix of its own token ids, and the
\* window stored with it is the one those ids leave.
PublishedIsTranscript == \A c \in pub : c.own

\* No query attends to another request's row, to a rejected one or to a position
\* that is not in its window.
AttendsOnlyToOwn == clean.attend

\* model.cpp:591: a row pooled at position q reads positions q-hist+1..q: those at
\* or below keep-1 are the committed values, and those above were re-written.
PoolsOnlyCommitted == clean.pool

\* Every connection is answered, whoever wins the slots.
EveryoneAnswered == \A t \in Conn : <>(pc[t] = "done" /\ reply[t] # "none")
=============================================================================
