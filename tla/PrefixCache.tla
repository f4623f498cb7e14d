---------------------------- MODULE PrefixCache ----------------------------
(***************************************************************************)
(* The prefix cache (src/engine/prefix_cache.cpp): attention rows of token *)
(* prefixes kept in two files of fixed slots, blocks and checkpoints, with *)
(* an index and two eviction lists in memory.  The engine thread publishes *)
(* and restores; a writer thread writes staged slots, payload before       *)
(* header; the index reaches its file only when the store is closed.       *)
(*                                                                         *)
(* A key is the token prefix it hashes, and the rows of a block or a       *)
(* checkpoint are determined by that prefix, so they are written as it.    *)
(***************************************************************************)
EXTENDS Integers, Sequences, SequencesExt, FiniteSetsExt

CONSTANTS
  B,            \* block_tokens
  Turns,        \* the token sequences the engine publishes and asks for
  NSlots,       \* slots of each file: [blk |-> .., ck |-> ..]
  Buf,          \* staging buffers (queue_depth)
  MaxPublish, MaxFail, MaxRefuse, MaxClose, MaxCrash   \* bounds of a run

Kind == {"blk", "ck"}
Slots(k) == 1..NSlots[k]
NoKey == <<>>
Torn == <<0>>

ASSUME CacheAssumption ==
  /\ B \in Nat \ {0}
  /\ NSlots \in [Kind -> Nat \ {0}]
  /\ \A ids \in Turns : ids \in Seq(Nat \ {0}) /\ ids # NoKey
  /\ \A n \in {MaxPublish, MaxFail, MaxRefuse, MaxClose, MaxCrash} : n \in Nat

VARIABLES
  tab,      \* blk_, ck_: per kind and slot, used, its key, and whether a bucket links it
  lru,      \* per kind the eviction list, head first
  stage,    \* per buffer the rows staged, NoKey when stage_free
  jobs,     \* Impl::jobs
  writer,   \* what the writer thread is doing
  disk,     \* blocks.bin, ckpts.bin: per slot its header and its rows
  index,    \* index.bin: the tables of the last close, or none
  up,       \* the process runs with the store open
  pub,      \* the publish under way: its ids and its next block
  served,   \* what the last successful restore handed to the cards
  left      \* how often each bounded event may still happen

vars == <<tab, lru, stage, jobs, writer, disk, index, up, pub, served, left>>

Idle == [ph |-> "idle"]
NoPublish == [on |-> FALSE]
NoIndex == [some |-> FALSE]
Nothing == [some |-> FALSE]
NFull(ids) == Len(ids) \div B
Upto(ids, b) == SubSeq(ids, 1, b * B)
\* The tokens a slot's header records: a block's own ones, a checkpoint's tail.
OwnTokens(k, key) ==
  IF k = "blk" THEN SubSeq(key, Len(key) - B + 1, Len(key))
               ELSE SubSeq(key, NFull(key) * B + 1, Len(key))

\* The keys the prompts can have.
Keys(k) == IF k = "blk" THEN UNION {{Upto(ids, d) : d \in 1..NFull(ids)} : ids \in Turns} ELSE Turns

EmptyTab == [k \in Kind |-> [i \in Slots(k) |-> [used |-> FALSE, linked |-> FALSE, key |-> NoKey]]]
IndexOrder == [k \in Kind |-> [i \in Slots(k) |-> i]]

CacheInit ==
  /\ tab = EmptyTab /\ lru = IndexOrder
  /\ stage = [u \in Buf |-> NoKey] /\ jobs = <<>> /\ writer = Idle
  /\ disk = [k \in Kind |-> [i \in Slots(k) |-> [hdr |-> NoKey, rows |-> NoKey]]]
  /\ index = NoIndex /\ up = TRUE /\ pub = NoPublish /\ served = Nothing
  /\ left = [publish |-> MaxPublish, fail |-> MaxFail, refuse |-> MaxRefuse,
             close |-> MaxClose, crash |-> MaxCrash]

Spend(what) == left[what] > 0 /\ left' = [left EXCEPT ![what] = left[what] - 1]

-----------------------------------------------------------------------------
(* The index and the eviction lists.                                       *)

\* find: the slots a key's bucket leads to.
Held(k, key) == {i \in Slots(k) : tab[k][i].linked /\ tab[k][i].key = key}

\* Unlink and relink at an end.
At(s, i) == CHOOSE n \in DOMAIN s : s[n] = i
Touch(s, i) ==
  [n \in DOMAIN s |-> IF n < At(s, i) THEN s[n] ELSE IF n < Len(s) THEN s[n + 1] ELSE i]
ToFront(s, i) ==
  [n \in DOMAIN s |-> IF n > At(s, i) THEN s[n] ELSE IF n > 1 THEN s[n - 1] ELSE i]

\* Touching in ascending order, as writing the blocks in order does.
TouchShallowFirst(s, ids) == s

\* The slot find returns: the bucket's chain is rebuilt with the last slot first.
SlotOf(b, ids) == Max(Held("blk", Upto(ids, b)))

\* Touch every held block of a prompt, deepest first; after[b] is the list when the
\* blocks above b have been.
TouchHeld(s, b, ids) ==
  IF Held("blk", Upto(ids, b)) = {} THEN s ELSE Touch(s, SlotOf(b, ids))
TouchPrompt(s, ids) ==
  LET after[b \in 0..NFull(ids)] ==
        IF b = NFull(ids) THEN s ELSE TouchHeld(after[b + 1], b + 1, ids)
  IN after[0]

Dropped == [used |-> FALSE, linked |-> FALSE, key |-> NoKey]

\* lookup: the deepest checkpoint whose blocks below are all held.
Depth(ids) ==
  Max({h \in 0..NFull(ids) : \A b \in 1..h : Held("blk", Upto(ids, b)) # {}})
ResumePoints(ids) ==
  {n \in 1..Len(ids) : n \div B <= Depth(ids) /\ Held("ck", SubSeq(ids, 1, n)) # {}}
Lookup(ids) == IF ResumePoints(ids) = {} THEN 0 ELSE Max(ResumePoints(ids))

-----------------------------------------------------------------------------
(* publish.                                                                *)

StartPublish(ids) ==
  /\ up /\ ~pub.on /\ Spend("publish")
  /\ pub' = [on |-> TRUE, ids |-> ids, b |-> 1]
  /\ UNCHANGED <<tab, lru, stage, jobs, writer, disk, index, up, served>>

InBlocks == up /\ pub.on /\ pub.b <= NFull(pub.ids)
InCheckpoint == up /\ pub.on /\ pub.b > NFull(pub.ids)

(* The block is already held.                                              *)
SkipBlock ==
  /\ InBlocks /\ Held("blk", Upto(pub.ids, pub.b)) # {}
  /\ pub' = [pub EXCEPT !.b = pub.b + 1]
  /\ UNCHANGED <<tab, lru, stage, jobs, writer, disk, index, up, served, left>>

\* Claim the head of the kind's list, stage the rows, link the key, touch, queue
\* the write.
Enqueue(k, key, lists) ==
  LET i == Head(lists[k]) IN
  \E u \in Buf :
    /\ stage[u] = NoKey
    /\ stage' = [stage EXCEPT ![u] = key]
    /\ tab' = [tab EXCEPT ![k][i] = [used |-> TRUE, linked |-> TRUE, key |-> key]]
    /\ lru' = [lists EXCEPT ![k] = Touch(lists[k], i)]
    /\ jobs' = Append(jobs, [kind |-> k, slot |-> i, buf |-> u])

\* The device refuses to hand over rows: the claimed slot stays claimed, at the head
\* and in no bucket, and the publish ends.
Refuse(k) ==
  /\ \E u \in Buf : stage[u] = NoKey
  /\ Spend("refuse")
  /\ tab' = [tab EXCEPT ![k][Head(lru[k])].used = TRUE, ![k][Head(lru[k])].linked = FALSE]
  /\ pub' = NoPublish
  /\ UNCHANGED <<stage, jobs, writer, disk, index, up, served>>

PublishBlock ==
  /\ InBlocks /\ Held("blk", Upto(pub.ids, pub.b)) = {}
  /\ Enqueue("blk", Upto(pub.ids, pub.b), lru)
  /\ pub' = [pub EXCEPT !.b = pub.b + 1]
  /\ UNCHANGED <<writer, disk, index, up, served, left>>

RefuseBlock ==
  /\ InBlocks /\ Held("blk", Upto(pub.ids, pub.b)) = {}
  /\ Refuse("blk") /\ UNCHANGED lru

(* The blocks are touched deep end first, then the checkpoint is staged.   *)
PublishCheckpoint ==
  /\ InCheckpoint
  /\ Enqueue("ck", pub.ids, [lru EXCEPT !["blk"] = TouchPrompt(lru["blk"], pub.ids)])
  /\ pub' = NoPublish
  /\ UNCHANGED <<writer, disk, index, up, served, left>>

RefuseCheckpoint ==
  /\ InCheckpoint
  /\ Refuse("ck")
  /\ lru' = [lru EXCEPT !["blk"] = TouchPrompt(lru["blk"], pub.ids)]

-----------------------------------------------------------------------------
(* The writer thread.                                                      *)

\* The buffer handed back as soon as the job is taken.
TakeJobFree ==
  /\ up /\ writer = Idle /\ jobs # <<>>
  /\ writer' = [ph |-> "rows", kind |-> Head(jobs).kind, slot |-> Head(jobs).slot,
                buf |-> Head(jobs).buf]
  /\ jobs' = Tail(jobs)
  /\ stage' = [stage EXCEPT ![Head(jobs).buf] = NoKey]
  /\ UNCHANGED <<tab, lru, disk, index, up, pub, served, left>>

TakeJob ==
  /\ up /\ writer = Idle /\ jobs # <<>>
  /\ writer' = [ph |-> "rows", kind |-> Head(jobs).kind, slot |-> Head(jobs).slot,
                buf |-> Head(jobs).buf]
  /\ jobs' = Tail(jobs)
  /\ UNCHANGED <<tab, lru, stage, disk, index, up, pub, served, left>>

WriteRows ==
  /\ up /\ writer.ph = "rows"
  /\ disk' = [disk EXCEPT ![writer.kind][writer.slot].rows = stage[writer.buf]]
  /\ writer' = [writer EXCEPT !.ph = "header"]
  /\ UNCHANGED <<tab, lru, stage, jobs, index, up, pub, served, left>>

\* The buffer never handed back.
FinishedKeep == writer' = Idle /\ UNCHANGED stage

Finished == writer' = Idle /\ stage' = [stage EXCEPT ![writer.buf] = NoKey]

WriteHeader ==
  /\ up /\ writer.ph = "header"
  /\ disk' = [disk EXCEPT ![writer.kind][writer.slot].hdr = stage[writer.buf]]
  /\ Finished
  /\ UNCHANGED <<tab, lru, jobs, index, up, pub, served, left>>

(* pwrite comes up short: rows torn (over the same rows, that changes      *)
(* nothing), or nothing of the header written.                             *)
WriteFails ==
  /\ up /\ writer.ph \in {"rows", "header"} /\ Spend("fail")
  /\ disk' = IF writer.ph = "rows" /\ disk[writer.kind][writer.slot].rows # stage[writer.buf]
             THEN [disk EXCEPT ![writer.kind][writer.slot].rows = Torn] ELSE disk
  /\ Finished
  /\ UNCHANGED <<tab, lru, jobs, index, up, pub, served>>

-----------------------------------------------------------------------------
(* restore, for the position lookup returned.                              *)

\* drain(): no job queued and none in flight.
Drained == jobs = <<>> /\ \A u \in Buf : stage[u] = NoKey

\* Verification by the header's being there.
VerifiedByMagic(k, i, key) == disk[k][i].hdr # NoKey

\* What verification compares: the recorded tokens, and a checkpoint's position.
Verified(k, i, key) ==
  /\ disk[k][i].hdr # NoKey
  /\ k = "ck" => Len(disk[k][i].hdr) = Len(key)
  /\ OwnTokens(k, disk[k][i].hdr) = OwnTokens(k, key)


BadBlocks(ids) ==
  {b \in 1..NFull(ids) : ~Verified("blk", SlotOf(b, ids), Upto(ids, b))}

CanRestore(ids) == up /\ ~pub.on /\ Drained /\ Lookup(ids) > 0

(* A block fails verification: its slot is dropped.                        *)
RestoreDropsBlock(ids) ==
  LET at == SubSeq(ids, 1, Lookup(ids)) IN
  /\ CanRestore(ids) /\ BadBlocks(at) # {}
  /\ LET i == SlotOf(Min(BadBlocks(at)), at) IN
     /\ tab' = [tab EXCEPT !["blk"][i] = Dropped]
     /\ lru' = [lru EXCEPT !["blk"] = ToFront(lru["blk"], i)]
  /\ UNCHANGED <<stage, jobs, writer, disk, index, up, pub, served, left>>

(* The checkpoint fails verification.                                      *)
RestoreDropsCheckpoint(ids) ==
  LET at == SubSeq(ids, 1, Lookup(ids)) IN
  /\ CanRestore(ids) /\ BadBlocks(at) = {}
  /\ \E i \in Held("ck", at) :
       /\ ~Verified("ck", i, at)
       /\ tab' = [tab EXCEPT !["ck"][i] = Dropped]
       /\ lru' = [lru EXCEPT !["ck"] = ToFront(lru["ck"], i)]
  /\ UNCHANGED <<stage, jobs, writer, disk, index, up, pub, served, left>>

(* Everything verified: rows and rings go to the cards.                    *)
Restore(ids) ==
  LET at == SubSeq(ids, 1, Lookup(ids)) IN
  /\ CanRestore(ids) /\ BadBlocks(at) = {}
  /\ \E i \in Held("ck", at) :
       /\ Verified("ck", i, at)
       /\ served' = [some |-> TRUE, ids |-> at, rings |-> disk["ck"][i].rows,
                     rows |-> [b \in 1..NFull(at) |-> disk["blk"][SlotOf(b, at)].rows]]
       /\ lru' = [blk |-> TouchPrompt(lru["blk"], at), ck |-> Touch(lru["ck"], i)]
  /\ UNCHANGED <<tab, stage, jobs, writer, disk, index, up, pub, left>>

-----------------------------------------------------------------------------
(* The process.                                                            *)

(* close(): the writer drains and is joined, then the index is saved.      *)
Close ==
  /\ up /\ ~pub.on /\ Drained /\ Spend("close")
  /\ index' = [some |-> TRUE, tab |-> tab, lru |-> lru]
  /\ up' = FALSE
  /\ UNCHANGED <<tab, lru, stage, jobs, writer, disk, pub, served>>

(* The process dies: memory is gone, the three files stay as they are.     *)
Crash ==
  /\ up /\ Spend("crash")
  /\ up' = FALSE
  /\ stage' = [u \in Buf |-> NoKey] /\ jobs' = <<>> /\ writer' = Idle /\ pub' = NoPublish
  /\ UNCHANGED <<tab, lru, disk, index, served>>

(* open() of a persistent store: load_index relinks every used slot.       *)
Open ==
  /\ ~up
  /\ up' = TRUE /\ served' = Nothing
  /\ IF index.some
     THEN /\ tab' = [k \in Kind |-> [i \in Slots(k) |->
                       [index.tab[k][i] EXCEPT !.linked = index.tab[k][i].used]]]
          /\ lru' = index.lru
     ELSE tab' = EmptyTab /\ lru' = IndexOrder
  /\ UNCHANGED <<stage, jobs, writer, disk, index, pub, left>>

PublishNext == SkipBlock \/ PublishBlock \/ RefuseBlock \/ PublishCheckpoint \/ RefuseCheckpoint
WriterNext == TakeJob \/ WriteRows \/ WriteHeader \/ WriteFails

CacheNext ==
  \/ \E ids \in Turns :
       \/ StartPublish(ids) \/ Restore(ids) \/ RestoreDropsBlock(ids) \/ RestoreDropsCheckpoint(ids)
  \/ PublishNext \/ WriterNext
  \/ Close \/ Crash \/ Open

CacheSpec == CacheInit /\ [][CacheNext]_vars
CacheFairSpec == CacheSpec /\ WF_vars(PublishNext) /\ WF_vars(WriterNext)

-----------------------------------------------------------------------------
(* Properties.                                                             *)

\* No two keys differ only in what no header records, the blocks below.
TokensTellPrefixes ==
  \A k \in Kind : \A x, y \in Keys(k) :
    OwnTokens(k, x) = OwnTokens(k, y) /\ (k = "ck" => Len(x) = Len(y)) => x = y

\* What a restore hands to the cards are the rows of exactly the prefix asked for:
\* no other conversation's, no torn ones.
ServedIsThePrefix ==
  served.some =>
    /\ served.rings = served.ids
    /\ \A b \in 1..NFull(served.ids) : served.rows[b] = Upto(served.ids, b)

\* The same of a process that never died: a short write, refused transfers, reused
\* slots and clean restarts leave no torn rows and no other prefix's to be restored.
\* (One write: the old header a second leaves in place may be the prefix's own.)
\* After the write it holds for prompts that TokensTellPrefixes describes.
ServedUnlessKilled ==
  left["crash"] = MaxCrash /\ MaxFail - left["fail"] <= 1 => ServedIsThePrefix

\* The slot a key names holds, or will hold once the queue has drained, that key's
\* header and rows: index, queue, buffers and files agree after any turnover of
\* slots, with the writer anywhere in its work and over clean restarts, as long as
\* no write has failed and the process has not died.
Pending(k, i) == {n \in DOMAIN jobs : jobs[n].kind = k /\ jobs[n].slot = i}
Writing(k, i) == writer.ph # "idle" /\ writer.kind = k /\ writer.slot = i
IndexTellsTheTruth ==
  left["crash"] = MaxCrash /\ left["fail"] = MaxFail =>
    \A k \in Kind : \A i \in {j \in Slots(k) : tab[k][j].linked /\ tab[k][j].key # NoKey} :
      CASE Pending(k, i) # {} -> stage[jobs[Max(Pending(k, i))].buf] = tab[k][i].key
        [] Pending(k, i) = {} /\ Writing(k, i) -> stage[writer.buf] = tab[k][i].key
        [] OTHER -> disk[k][i] = [hdr |-> tab[k][i].key, rows |-> tab[k][i].key]

\* A conversation ages out from its deep end: whatever has been published and
\* restored, a held block is evicted before the blocks it extends, so no
\* eviction between requests leaves a gap below a held block.  (A publish the device
\* refuses half way leaves its blocks in the order they were written in.)
Before(s, i, j) == \E x, y \in DOMAIN s : x < y /\ s[x] = i /\ s[y] = j
DeepEndGoesFirst ==
  up /\ ~pub.on /\ left["refuse"] = MaxRefuse =>
    \A i, j \in Slots("blk") :
      /\ tab["blk"][i].linked /\ tab["blk"][j].linked
      /\ IsStrictPrefix(tab["blk"][i].key, tab["blk"][j].key) /\ tab["blk"][i].key # NoKey
      => Before(lru["blk"], j, i)

\* A publish waiting for a staging buffer gets one: the writer and the engine never
\* wait for each other.
PublishEnds == pub.on ~> ~pub.on
=============================================================================
