----------------------------- MODULE Container -----------------------------
(***************************************************************************)
(* Containers on disk: aff-quantize writing them (tools/aff_quantize.cpp,  *)
(* src/format/aff_writer.cpp), several processes on one output, each of    *)
(* which may die at any step, and what AffReader::open accepts.            *)
(*                                                                         *)
(* A file is its size and the parts written into it; a part is what one    *)
(* writer put at one place, and a place nobody wrote reads as zeros.  A    *)
(* place is <<section, layer, item, tier>>; places do not overlap          *)
(* (AcceptedIsWhole of ModelLoad).  val is what the bytes stand for: the   *)
(* writer's number, or 0 for zeros.                                        *)
(***************************************************************************)
EXTENDS Checkpoint

CONSTANTS
  Quantiser,     \* runs of aff-quantize: 1..n
  Order,         \* Order[q]: the runs that have ended when q starts
  Jobs,          \* Jobs[q]: the arguments it may be given
  Checkpoints,   \* the checkpoints there may be, in a sequence
  Thread         \* its worker threads

\* The sizes of config.json are not negative, and a weight map names files that are listed.
ConfigSizes == {"n_layer", "n_expert", "hidden", "inter", "vocab", "n_hc", "qr", "orank", "hd", "nh", "ihd",
                "inh", "n_used", "n_hash", "mrank", "codes", "block"}
CheckpointIsSound(c) ==
  /\ \A size \in ConfigSizes : c.cfg[size] \in Nat
  /\ c.cfg.ratios \in Seq(Nat) /\ c.cfg.taps \in Seq(Int)
  /\ IsFiniteSet(DOMAIN c.index) /\ IsFiniteSet(DOMAIN c.shards)
  /\ \A name \in DOMAIN c.index : c.index[name] \in DOMAIN c.shards
ASSUME ContainerAssumption ==
  /\ Quantiser \subseteq Nat \ {0} /\ Order \in [Quantiser -> SUBSET Quantiser]
  /\ \A q \in Quantiser : \A job \in Jobs[q] :
       job.out \in {"model", "draft"} /\ job.dspark \in BOOLEAN /\ job.layers \in Int
  /\ \A c \in DOMAIN Checkpoints : CheckpointIsSound(Checkpoints[c])

VARIABLES
  which,         \* the checkpoint
  disk,          \* file -> [size, parts: place -> [by, val]]
  lockpath,      \* file -> the lock file there, 0 if none
  inodes,        \* lock files created
  flock,         \* lock file -> the run holding it, 0 if none
  qz             \* run -> its state

cvars == <<which, disk, lockpath, inodes, flock, qz>>

Given == Checkpoints     \* evaluated once
ck == Given[which]
Running(q) == qz[q].pc \notin {"new", "exit", "done", "killed"}
Out(q) == qz[q].job.out
PcIs(q, pc) == qz[q].pc = pc
\* A function laid onto another.
Onto(new, old) ==
  [x \in (DOMAIN new) \cup DOMAIN old |-> IF x \in DOMAIN new THEN new[x] ELSE old[x]]
Set(q, change) == qz' = [qz EXCEPT ![q] = Onto(change, qz[q])]
\* A process that ends leaves nothing but what it wrote and, until it is reaped, its lock.
Ends(q, how) == Set(q, [pc |-> how, shard |-> 0, layer |-> 0, next |-> 0, written |-> {},
                        work |-> [t \in Thread |-> <<>>]])
Exit(q) == Ends(q, "exit")

Dspark(q) == qz[q].job.dspark
Model(q) == IF Dspark(q) THEN "mtp" ELSE "blk"
TotalLayers(checkpoint, dspark) == IF dspark THEN MtpStages(checkpoint) ELSE checkpoint.cfg.n_layer
LayersOf(checkpoint, job) ==
  LET total == TotalLayers(checkpoint, job.dspark) IN
  IF job.layers > 0 /\ job.layers < total THEN job.layers ELSE total
NLayer(q) == LayersOf(ck, qz[q].job)

\* What each checkpoint declares, by kind and layers, and how it is made; laid out once.
MetaSize == 8     \* the config.json kept in the file
PlanUnder(header, checkpoint, decls, layers) ==
  LET shard == [k \in DOMAIN decls |-> ShardOf(checkpoint, decls[k].name)]
  IN [decls |-> decls, shard |-> shard,
      made |-> [k \in DOMAIN decls |-> TensorMade(checkpoint.shards, shard[k], decls[k])],
      extents |-> Extents(header, layers, decls), size |-> header.file_size]
PlanOf(checkpoint, decls, layers) ==
  PlanUnder(FileLayout(MetaSize, layers, decls), checkpoint, decls, layers)
PlansOf(cks) ==
  [c \in DOMAIN cks |-> [dspark \in BOOLEAN |-> [n \in 0..TotalLayers(cks[c], dspark) |->
     PlanOf(cks[c], TensorDecls(cks[c].cfg, dspark, n), LayerDecls(cks[c].cfg, n))]]]
Plans == PlansOf(Given)
Good ==
  [c \in DOMAIN Given |-> {s \in DOMAIN Given[c].shards : StOpens(Given[c].shards[s])}]
Plan(q) == Plans[which][Dspark(q)][NLayer(q)]
Tensors(q) == Plan(q).decls
AllExperts(q) == {<<l, x>> : l \in 0..(NLayer(q) - 1), x \in 0..(ck.cfg.n_expert - 1)}

\* What is written takes the place of the bytes that were there.
Part(place, q, val) == [p \in {place} |-> [by |-> q, val |-> val]]
Put(q, new) == disk' = [disk EXCEPT ![Out(q)].parts = Onto(new, @)]
Header(q) == Part(<<"header", 0, 0, 0>>, q, IF qz[q].profile THEN 1 ELSE 0)
HasPart(f, place) == place \in DOMAIN disk[f].parts

-----------------------------------------------------------------------------
(* AffReader::open: a header, the size it names, and layer descriptors that *)
(* are not zeros.                                                          *)

WriterOf(f) == disk[f].parts[<<"header", 0, 0, 0>>].by
Accepts(f) ==
  /\ disk[f].size >= SizeofHeader
  /\ HasPart(f, <<"header", 0, 0, 0>>)
  /\ disk[f].size = qz[WriterOf(f)].size
  /\ HasPart(f, <<"layers", 0, 0, 0>>)

TensorPlace(k) == <<"tensor", 0, k, 0>>
ExpertPlace(l, x, k) == <<"expert", l, x, k>>

\* The tensor directory by name, as find_tensor searches it: the declaration and its
\* index.  Nothing is found in a directory that was not written.
ByName(decls) ==
  [name \in {decls[k].name : k \in DOMAIN decls} |->
     LET k == CHOOSE k \in DOMAIN decls : decls[k].name = name IN
     [at |-> k, quant |-> decls[k].quant, cols |-> decls[k].cols]]
Directory(f) ==
  IF HasPart(f, <<"tensors", 0, 0, 0>>) THEN ByName(Tensors(WriterOf(f))) ELSE <<>>

\* The codebook a container's bytes hold.
CodebookName == <<"blk", 0, "__codebook">>
CodebookOf(f, dir) ==
  LET place == TensorPlace(dir[CodebookName].at) IN
  IF HasPart(f, place) THEN disk[f].parts[place].val ELSE 0

-----------------------------------------------------------------------------
ContainerInit ==
  /\ which \in DOMAIN Given
  /\ disk = [f \in {"model", "draft"} |-> [size |-> 0, parts |-> <<>>]]
  /\ lockpath = [f \in {"model", "draft"} |-> 0] /\ inodes = 0 /\ flock = <<>>
  /\ \E job \in {j \in [Quantiser -> UNION {Jobs[q] : q \in Quantiser}] : \A q \in Quantiser : j[q] \in Jobs[q]} :
       qz = [q \in Quantiser |->
               [pc |-> "new", job |-> job[q], cb |-> 0, ino |-> 0, size |-> 0, shard |-> 0, layer |-> 0, next |-> 0,
                work |-> [t \in Thread |-> <<>>], written |-> {}, profile |-> FALSE]]

(* The arguments, the config, the index and what --dspark asks of them.    *)
NoCodebook == ""     \* no --codebook given
ArgsRefused(job) ==
  \/ job.dspark /\ job.codebook = NoCodebook
  \/ ~ck.readable
  \/ job.dspark /\ MtpStages(ck) = 0
  \/ job.dspark /\ ck.cfg.taps = <<>>
  \/ job.dspark /\ \E l \in 0..(LayersOf(ck, job) - 1) : StageRatio(ck.cfg, TRUE, l) # 0

Begin0(q) ==
  /\ PcIs(q, "new") /\ \A r \in Order[q] : ~Running(r) /\ ~PcIs(r, "new")
  /\ IF ArgsRefused(qz[q].job) THEN Exit(q) ELSE Set(q, [pc |-> "codebook"])
  /\ UNCHANGED <<which, disk, lockpath, inodes, flock>>

(* A draft takes the model container's codebook; the model's is fitted      *)
(* from eight experts of layer 0 that lie in the first one's shard.        *)
FitsFrom(checkpoint, shard) ==
  /\ shard \in Good[which]
  /\ \E e \in 0..7, w \in Matrices3 : MatrixReadable(checkpoint.shards[shard], <<"blk", 0, w, 13 * e>>)
Fit(q) ==
  /\ PcIs(q, "codebook")
  /\ IF Dspark(q)
     THEN LET f == qz[q].job.codebook IN
          IF Accepts(f) /\ CodebookName \in DOMAIN Directory(f)
          THEN Set(q, [pc |-> "lock", cb |-> CodebookOf(f, Directory(f))])
          ELSE Exit(q)
     ELSE IF FitsFrom(ck, ShardOf(ck, <<"blk", 0, "w1", 0>>)) THEN Set(q, [pc |-> "lock", cb |-> q]) ELSE Exit(q)
  /\ UNCHANGED <<which, disk, lockpath, inodes, flock>>

(* open(O_CREAT) of the lock file, and flock without waiting.              *)
OpenLock(q) ==
  /\ PcIs(q, "lock")
  /\ IF lockpath[Out(q)] = 0
     THEN /\ inodes' = inodes + 1 /\ lockpath' = [lockpath EXCEPT ![Out(q)] = inodes + 1]
          /\ flock' = Append(flock, 0)
          /\ Set(q, [pc |-> "flock", ino |-> inodes + 1])
     ELSE /\ Set(q, [pc |-> "flock", ino |-> lockpath[Out(q)]])
          /\ UNCHANGED <<inodes, lockpath, flock>>
  /\ UNCHANGED <<which, disk>>

Flock(q) ==
  /\ PcIs(q, "flock")
  /\ IF flock[qz[q].ino] # 0 THEN Exit(q) /\ UNCHANGED flock
     ELSE flock' = [flock EXCEPT ![qz[q].ino] = q] /\ Set(q, [pc |-> "create"])
  /\ UNCHANGED <<which, disk, lockpath, inodes>>

(* AffWriter::begin: lay out, truncate and size the file...                *)
Create(q) ==
  /\ PcIs(q, "create")
  /\ \E size \in {Plan(q).size} :
       /\ disk' = [disk EXCEPT ![Out(q)] = [size |-> size, parts |-> <<>>]]
       /\ Set(q, [pc |-> "header", size |-> size])
  /\ UNCHANGED <<which, lockpath, inodes, flock>>

\* begin() that writes the layer directory as well.
PlaceHeaderAndLayers(q) ==
  /\ PcIs(q, "header")
  /\ Put(q, Onto(Header(q), Part(<<"layers", 0, 0, 0>>, q, q))) /\ Set(q, [pc |-> "dense"])
  /\ UNCHANGED <<which, lockpath, inodes, flock>>

(* ... and write the header.                                               *)
PlaceHeader(q) ==
  /\ PcIs(q, "header")
  /\ Put(q, Header(q)) /\ Set(q, [pc |-> "dense"])
  /\ UNCHANGED <<which, lockpath, inodes, flock>>

(* The dense tensors of the next shard, first of those with no source.     *)
Shards ==
   [c \in DOMAIN Given |-> <<NoShard>> \o SetToSeq(DOMAIN Given[c].shards)]
\* The tensors of this shard under a plan, and those of them that end the run.
DenseOf(plan, shard) == {k \in DOMAIN plan.decls : plan.shard[k] = shard}
RefusedOf(plan, shard) == {k \in DenseOf(plan, shard) : plan.made[k] = "refused"}
ValueOf(q, made) == CASE made = "codebook" -> qz[q].cb [] made = "zeros" -> 0 [] OTHER -> q
DenseShard(q) ==
  /\ PcIs(q, "dense") /\ qz[q].shard < Len(Shards[which])
  /\ \E plan \in {Plan(q)}, shard \in {Shards[which][qz[q].shard + 1]} :
       IF shard # NoShard /\ DenseOf(plan, shard) # {} /\ shard \notin Good[which] THEN Exit(q) /\ UNCHANGED disk
       ELSE LET done == {k \in DenseOf(plan, shard) : \A b \in RefusedOf(plan, shard) : k < b} IN
            /\ Put(q, [p \in {TensorPlace(k) : k \in done} |-> [by |-> q, val |-> ValueOf(q, plan.made[p[3]])]])
            /\ IF RefusedOf(plan, shard) = {} THEN Set(q, [shard |-> qz[q].shard + 1]) ELSE Exit(q)
  /\ UNCHANGED <<which, lockpath, inodes, flock>>

DenseEnd(q) ==
  /\ PcIs(q, "dense") /\ qz[q].shard = Len(Shards[which])
  /\ Set(q, [pc |-> "experts"])
  /\ UNCHANGED <<which, disk, lockpath, inodes, flock>>

-----------------------------------------------------------------------------
(* The experts, a layer at a time: threads take the next one, quantise it  *)
(* and write its nine sections under the writer's mutex.                   *)

Listed(q) == {x \in 0..(ck.cfg.n_expert - 1) : ShardOf(ck, <<Model(q), qz[q].layer, "w1", x>>) # NoShard}
NextListed(q) == {x \in Listed(q) : x >= qz[q].next}

Take(q, t) ==
  /\ PcIs(q, "experts") /\ qz[q].layer < NLayer(q) /\ qz[q].work[t] = <<>> /\ NextListed(q) # {}
  /\ LET x == CHOOSE y \in NextListed(q) : \A z \in NextListed(q) : y <= z IN
     IF ShardOf(ck, <<Model(q), qz[q].layer, "w1", x>>) \notin Good[which] THEN Exit(q)
     ELSE Set(q, [next |-> x + 1,
                  work |-> [qz[q].work EXCEPT ![t] =
                              IF ExpertReadable(ck, Model(q), qz[q].layer, x) THEN <<x, 0>> ELSE <<>>]])
  /\ UNCHANGED <<which, disk, lockpath, inodes, flock>>

Busy(q) == {t \in Thread : qz[q].work[t] # <<>> /\ qz[q].work[t][2] > 0}

\* Section by section; the first one takes the mutex, the last gives it back.
WriteSection(q, t) ==
  /\ PcIs(q, "experts") /\ qz[q].work[t] # <<>> /\ Busy(q) \subseteq {t}
  /\ LET x == qz[q].work[t][1]
         k == qz[q].work[t][2] + 1
     IN /\ Put(q, Part(ExpertPlace(qz[q].layer, x, k), q, q))
        /\ Set(q, [work |-> [qz[q].work EXCEPT ![t] = IF k < 9 THEN <<x, k>> ELSE <<>>],
                   written |-> IF k < 9 THEN qz[q].written ELSE qz[q].written \cup {<<qz[q].layer, x>>}])
  /\ UNCHANGED <<which, lockpath, inodes, flock>>

JoinLayer(q) ==
  /\ PcIs(q, "experts") /\ qz[q].layer < NLayer(q)
  /\ NextListed(q) = {} /\ \A t \in Thread : qz[q].work[t] = <<>>
  /\ Set(q, [layer |-> qz[q].layer + 1, next |-> 0])
  /\ UNCHANGED <<which, disk, lockpath, inodes, flock>>

(* The popularity profile, when an imatrix was read: never for a draft.    *)
WriteProfile(q) ==
  /\ PcIs(q, "experts") /\ qz[q].layer = NLayer(q)
  /\ IF qz[q].job.imatrix /\ ~Dspark(q)
     THEN Put(q, Part(<<"profile", 0, 0, 0>>, q, q)) /\ Set(q, [pc |-> "unlock", profile |-> TRUE])
     ELSE Set(q, [pc |-> "unlock"]) /\ UNCHANGED disk
  /\ UNCHANGED <<which, lockpath, inodes, flock>>

-----------------------------------------------------------------------------
(* The lock is given up, its file unlinked, and then the container is       *)
(* checked and finished.                                                   *)

Unlock(q) ==
  /\ PcIs(q, "unlock")
  /\ flock' = [flock EXCEPT ![qz[q].ino] = 0] /\ Set(q, [pc |-> "unlink"])
  /\ UNCHANGED <<which, disk, lockpath, inodes>>

Unlink(q) ==
  /\ PcIs(q, "unlink")
  /\ lockpath' = [lockpath EXCEPT ![Out(q)] = 0] /\ Set(q, [pc |-> "check"])
  /\ UNCHANGED <<which, disk, inodes, flock>>

missing_experts(q) == AllExperts(q) \ qz[q].written

CheckMissing(q) ==
  /\ PcIs(q, "check")
  /\ IF missing_experts(q) # {} THEN Exit(q) ELSE Set(q, [pc |-> "tensors"])
  /\ UNCHANGED <<which, disk, lockpath, inodes, flock>>

\* finalize(): tensor directory, layer directory, metadata, header.
After == [tensors |-> "layers", layers |-> "meta", meta |-> "lastheader", lastheader |-> "done"]
Finalize(q) ==
  /\ qz[q].pc \in DOMAIN After
  /\ Put(q, IF PcIs(q, "lastheader") THEN Header(q) ELSE Part(<<qz[q].pc, 0, 0, 0>>, q, q))
  /\ Set(q, [pc |-> After[qz[q].pc]])
  /\ UNCHANGED <<which, lockpath, inodes, flock>>

(* A process that ends, by itself or killed, gives its lock back.          *)
Kill(q) ==
  /\ Running(q)
  /\ Ends(q, "killed")
  /\ UNCHANGED <<which, disk, lockpath, inodes, flock>>

Reap(q) ==
  /\ qz[q].pc \in {"exit", "killed"} /\ qz[q].ino # 0 /\ flock[qz[q].ino] = q
  /\ flock' = [flock EXCEPT ![qz[q].ino] = 0]
  /\ UNCHANGED <<which, disk, lockpath, inodes, qz>>

QuantiserNext(q) ==
  \/ Begin0(q) \/ Fit(q) \/ OpenLock(q) \/ Flock(q) \/ Create(q) \/ PlaceHeader(q)
  \/ DenseShard(q) \/ DenseEnd(q)
  \/ \E t \in Thread : Take(q, t) \/ WriteSection(q, t)
  \/ JoinLayer(q) \/ WriteProfile(q) \/ Unlock(q) \/ Unlink(q) \/ CheckMissing(q) \/ Finalize(q)
  \/ Kill(q) \/ Reap(q)

ContainerNext == \E q \in Quantiser : QuantiserNext(q)
ContainerSpec == ContainerInit /\ [][ContainerNext]_cvars
=============================================================================
