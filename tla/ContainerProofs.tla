--------------------------- MODULE ContainerProofs ---------------------------
(***************************************************************************)
(* Containers (Container, ModelLoad): a file the engine opens is whole and  *)
(* the work of one run of aff-quantize, wherever runs die, as long as no    *)
(* two runs that may write one file are under way together.                *)
(*                                                                         *)
(* The argument is one invariant, ContainerInv.  RunInv says, for each      *)
(* place a run can be at, which parts of its container are there already;   *)
(* DoneInv what a finished run leaves until another begins on its file;     *)
(* FileInv that a file has one writer, and that its layer directory, which  *)
(* is what makes AffReader::open accept it, comes after everything else.    *)
(* Each step of a run keeps its own part (SetIs, PutIs), and leaves the     *)
(* others alone because of OneAtATime (Alone, OthersStand).                 *)
(*                                                                         *)
(* Then the layout: the recursive functions of AffFormat are walks over the *)
(* naturals (StepsExist of HostProofs), the extents of each section a chain *)
(* between two offsets, chains join (ChainJoins, ChainFlattens), and all    *)
(* that aff-quantize declares can be laid out (AllListed).                  *)
(*                                                                         *)
(* Then the loading: AllListed has the names too, so a directory of what    *)
(* was declared has every name the engine asks for, in a format it decodes  *)
(* (ModelIsBound, DraftIsBound).  LoadInv adds to ContainerInv that what a  *)
(* run finished stays until it is replaced, and whose codebook it holds     *)
(* (KeptInv); so what is finished loads (FinishedLoads).                    *)
(***************************************************************************)
EXTENDS ModelLoad, HostProofs

\* No two runs that may write one file are ever under way together.
OneAtATime ==
  \A q, r \in Quantiser :
    q # r => q \in Order[r] \/ r \in Order[q] \/ \A i \in Jobs[q], j \in Jobs[r] : i.out # j.out

File == {"model", "draft"}
RunFields == {"pc", "job", "cb", "ino", "size", "shard", "layer", "next", "work", "written", "profile"}
Opening == {"new", "codebook", "lock", "flock", "create"}
Closing == {"tensors", "layers", "meta", "lastheader"}
AfterDense == {"experts", "unlock", "unlink", "check"} \cup Closing
AfterHeader == {"dense"} \cup AfterDense
Writing == {"header"} \cup AfterHeader
Over == {"exit", "done", "killed"}

ContainerTypeOK ==
  /\ which \in DOMAIN Given
  /\ DOMAIN disk = File /\ \A f \in File : DOMAIN disk[f] = {"size", "parts"}
  /\ DOMAIN qz = Quantiser
  /\ \A q \in Quantiser :
       /\ DOMAIN qz[q] = RunFields
       /\ qz[q].pc \in Opening \cup Writing \cup Over /\ qz[q].job \in Jobs[q]
       /\ qz[q].shard \in Nat
       /\ DOMAIN qz[q].work = Thread
       /\ \A t \in Thread : qz[q].work[t] = <<>> \/ qz[q].work[t] \in Nat \X (0..8)

\* Whoever has begun, the runs before it are over.
InOrder == \A q \in Quantiser : \A r \in Order[q] : ~PcIs(q, "new") => qz[r].pc \in Over

PartsOf(q) == disk[Out(q)].parts
Holds(q, place) == place \in DOMAIN PartsOf(q)
DirPlace(kind) == <<kind, 0, 0, 0>>

\* The places a run's container has to have.
TensorPlaces(q) == {TensorPlace(k) : k \in DOMAIN Tensors(q)}
ExpertPlaces(q) == {ExpertPlace(x[1], x[2], k) : x \in AllExperts(q), k \in 1..9}

\* The file is the run's alone, and as large as it was laid out.
OwnsFile(q) ==
  /\ \A p \in DOMAIN PartsOf(q) : PartsOf(q)[p].by = q
  /\ qz[q].size = Plan(q).size /\ disk[Out(q)].size = Plan(q).size
  /\ \A k \in DOMAIN Tensors(q) : Holds(q, TensorPlace(k)) =>
       PartsOf(q)[TensorPlace(k)].val = ValueOf(q, Plan(q).made[k])

\* The tensors of the shards gone through are there.
DensePlaced(q) ==
  \A s \in DOMAIN Shards[which] : s <= qz[q].shard =>
    \A k \in DenseOf(Plan(q), Shards[which][s]) : Holds(q, TensorPlace(k))

\* The sections of the experts that are counted, or in hand.
ExpertsPlaced(q) ==
  /\ \A e \in qz[q].written : \A k \in 1..9 : Holds(q, ExpertPlace(e[1], e[2], k))
  /\ \A t \in Thread : qz[q].work[t] # <<>> =>
       \A k \in 1..qz[q].work[t][2] : Holds(q, ExpertPlace(qz[q].layer, qz[q].work[t][1], k))

\* What a run has put into its file, by how far it is.
RunInv(q) ==
  /\ qz[q].pc \in Opening \cup {"header"} =>
       qz[q].shard = 0 /\ qz[q].written = {} /\ \A t \in Thread : qz[q].work[t] = <<>>
  /\ qz[q].pc \in Writing => OwnsFile(q) /\ ExpertsPlaced(q)
  /\ qz[q].pc \in AfterHeader => Holds(q, DirPlace("header"))
  /\ qz[q].pc = "dense" => DensePlaced(q)
  /\ qz[q].pc \in AfterDense => \A p \in TensorPlaces(q) : Holds(q, p)
  /\ qz[q].pc \in Closing => \A p \in ExpertPlaces(q) : Holds(q, p)
  /\ qz[q].pc \in {"layers", "meta", "lastheader"} => Holds(q, DirPlace("tensors"))
  /\ qz[q].pc \in {"meta", "lastheader"} => Holds(q, DirPlace("layers"))
  /\ qz[q].pc = "lastheader" => Holds(q, DirPlace("meta"))

\* What a run leaves, until another begins on its file.
DoneInv(q) ==
  PcIs(q, "done") /\ LastOn(q) =>
    /\ OwnsFile(q) /\ \A p \in TensorPlaces(q) : Holds(q, p)
    /\ \A kind \in {"header", "tensors", "layers", "meta"} : Holds(q, DirPlace(kind))

\* A file has one writer, and one that is marked finished is whole.
FileInv(f) ==
  LET parts == disk[f].parts IN
  /\ \A p \in DOMAIN parts : parts[p].by \in Quantiser /\ Out(parts[p].by) = f
  /\ \A p, r \in DOMAIN parts : parts[p].by = parts[r].by
  /\ \A w \in Quantiser : DirPlace("layers") \in DOMAIN parts /\ parts[DirPlace("layers")].by = w =>
       \A p \in TensorPlaces(w) \cup ExpertPlaces(w) : p \in DOMAIN parts

ContainerInv ==
  /\ ContainerTypeOK /\ InOrder
  /\ \A q \in Quantiser : RunInv(q) /\ DoneInv(q)
  /\ \A f \in File : FileInv(f)

-----------------------------------------------------------------------------
(* The shards in their order, each of them once: every tensor's is there.  *)

\* A finite set laid out in a sequence has every element in it.
LEMMA SetInSeq ==
  ASSUME NEW S, IsFiniteSet(S)
  PROVE  /\ SetToSeq(S) \in Seq(S)
         /\ \A x \in S : \E i \in 1..Len(SetToSeq(S)) : SetToSeq(S)[i] = x
<1> DEFINE n == Cardinality(S)
<1>1. n \in Nat
  BY FS_CardinalityType
<1>2. PICK b : b \in Bijection(1..n, S)
  BY FS_CardinalityType DEF ExistsBijection
<1>3. b \in [1..n -> S] /\ IsInjective(b)
  BY <1>2 DEF Bijection, Injection, IsInjective
<1> DEFINE s == SetToSeq(S)
<1>4. s \in [1..n -> S] /\ IsInjective(s)
  BY <1>3 DEF SetToSeq
<1> HIDE DEF s
<1>5. s \in Seq(S) /\ Len(s) = n
  BY <1>1, <1>4
<1>6. \A x \in S : \E i \in 1..n : s[i] = x
  <2>1. s \in Injection(1..n, S)
    BY <1>4 DEF Injection
  <2>2. Cardinality(1..n) = n
    BY <1>1, FS_Interval
  <2>3. s \in Surjection(1..n, S)
    BY <2>1, <2>2, FS_Injection
  <2> QED BY <2>3 DEF Surjection
<1> QED BY <1>5, <1>6 DEF s

\* Every shard a tensor may be in stands among them, the one of no shard first.
LEMMA ShardsAre ==
  ASSUME NEW c \in DOMAIN Given
  PROVE  /\ Len(Shards[c]) \in Nat /\ DOMAIN Shards[c] = 1..Len(Shards[c])
         /\ \A name : \E s \in DOMAIN Shards[c] : Shards[c][s] = ShardOf(Given[c], name)
<1> DEFINE files == DOMAIN Given[c].shards
<1> DEFINE rest == SetToSeq(files)
<1>1. IsFiniteSet(files) /\ \A name \in DOMAIN Given[c].index : Given[c].index[name] \in files
  BY ContainerAssumption DEF Given, CheckpointIsSound
<1>2. rest \in Seq(files) /\ \A x \in files : \E i \in 1..Len(rest) : rest[i] = x
  BY <1>1, SetInSeq
<1>3. Shards[c] = <<NoShard>> \o rest
  BY DEF Shards
<1> HIDE DEF rest
<1> DEFINE T == {NoShard} \cup files
<1> DEFINE first == <<NoShard>>
<1> DEFINE s == first \o rest
<1>4. first \in Seq(T) /\ Len(first) = 1 /\ first[1] = NoShard
  OBVIOUS
<1>5. rest \in Seq(T)
  BY <1>2, SeqMonotonic
<1> HIDE DEF first, T, files
<1>6. /\ s \in Seq(T) /\ Len(s) = Len(first) + Len(rest)
      /\ \A i \in 1..Len(first) + Len(rest) : s[i] = IF i <= Len(first) THEN first[i] ELSE rest[i - Len(first)]
  BY <1>4, <1>5, ConcatProperties
<1> HIDE DEF s
<1>7. Len(rest) \in Nat
  BY <1>2, LenProperties
<1>8. Len(s) = 1 + Len(rest) /\ DOMAIN s = 1..Len(s) /\ s[1] = NoShard
  BY <1>4, <1>6, <1>7
<1>9. \A i \in 1..Len(rest) : 1 + i \in DOMAIN s /\ s[1 + i] = rest[i]
  <2> TAKE i \in 1..Len(rest)
  <2>1. 1 + i \in 1..(1 + Len(rest)) /\ ~(1 + i <= 1) /\ (1 + i) - 1 = i
    BY <1>7
  <2> QED BY <1>4, <1>6, <1>8, <2>1
<1>10. \A name : \E k \in DOMAIN s : s[k] = ShardOf(Given[c], name)
  <2> TAKE name
  <2>1. CASE name \in DOMAIN Given[c].index
    <3>1. PICK i \in 1..Len(rest) : rest[i] = Given[c].index[name]
      BY <1>1, <1>2, <2>1
    <3>2. 1 + i \in DOMAIN s /\ s[1 + i] = Given[c].index[name]
      BY <1>9, <3>1
    <3> QED BY <2>1, <3>2 DEF ShardOf
  <2>2. CASE name \notin DOMAIN Given[c].index
    <3>1. 1 \in DOMAIN s /\ s[1] = NoShard
      BY <1>7, <1>8
    <3> QED BY <2>2, <3>1 DEF ShardOf
  <2> QED BY <2>1, <2>2
<1> QED BY <1>3, <1>6, <1>7, <1>8, <1>10, LenProperties DEF s, first

-----------------------------------------------------------------------------
(* What a step does.                                                       *)

\* A change to a run's record, field by field.
LEMMA SetIs ==
  ASSUME ContainerTypeOK, NEW q \in Quantiser, NEW change, DOMAIN change \subseteq RunFields, Set(q, change)
  PROVE  /\ DOMAIN qz' = Quantiser /\ \A r \in Quantiser \ {q} : qz'[r] = qz[r]
         /\ DOMAIN qz'[q] = RunFields
         /\ \A f \in RunFields : qz'[q][f] = IF f \in DOMAIN change THEN change[f] ELSE qz[q][f]
<1>1. DOMAIN qz = Quantiser /\ DOMAIN qz[q] = RunFields
  BY DEF ContainerTypeOK
<1> DEFINE new == Onto(change, qz[q])
<1>2. DOMAIN new = RunFields /\ \A f \in RunFields : new[f] = IF f \in DOMAIN change THEN change[f] ELSE qz[q][f]
  BY <1>1 DEF Onto
<1>3. qz' = [qz EXCEPT ![q] = new]
  BY DEF Set
<1> HIDE DEF new
<1>4. DOMAIN qz' = Quantiser /\ qz'[q] = new /\ \A r \in Quantiser \ {q} : qz'[r] = qz[r]
  BY <1>1, <1>3
<1> QED BY <1>2, <1>4

\* What is put into a file, and what is not.
LEMMA PutIs ==
  ASSUME ContainerTypeOK, NEW q \in Quantiser, Out(q) \in File, NEW new, Put(q, new)
  PROVE  /\ DOMAIN disk' = File /\ \A f \in File : DOMAIN disk'[f] = {"size", "parts"}
         /\ \A f \in File \ {Out(q)} : disk'[f] = disk[f]
         /\ disk'[Out(q)].size = disk[Out(q)].size
         /\ DOMAIN disk'[Out(q)].parts = (DOMAIN new) \cup DOMAIN PartsOf(q)
         /\ \A p \in (DOMAIN new) \cup DOMAIN PartsOf(q) :
              disk'[Out(q)].parts[p] = IF p \in DOMAIN new THEN new[p] ELSE PartsOf(q)[p]
<1> DEFINE f == Out(q)
<1> DEFINE parts == Onto(new, disk[f].parts)
<1>1. DOMAIN disk = File /\ \A g \in File : DOMAIN disk[g] = {"size", "parts"}
  BY DEF ContainerTypeOK
<1>2. disk' = [disk EXCEPT ![f].parts = parts]
  BY DEF Put
<1>3. /\ DOMAIN parts = (DOMAIN new) \cup DOMAIN disk[f].parts
      /\ \A p \in (DOMAIN new) \cup DOMAIN disk[f].parts :
           parts[p] = IF p \in DOMAIN new THEN new[p] ELSE disk[f].parts[p]
  BY DEF Onto
<1> HIDE DEF parts
<1>4. /\ DOMAIN disk' = File /\ \A g \in File \ {f} : disk'[g] = disk[g]
      /\ DOMAIN disk'[f] = {"size", "parts"} /\ disk'[f].size = disk[f].size /\ disk'[f].parts = parts
  BY <1>1, <1>2
<1> QED BY <1>1, <1>3, <1>4 DEF PartsOf

\* What a run was asked to do.
LEMMA JobIs ==
  ASSUME ContainerTypeOK, NEW q \in Quantiser
  PROVE  Out(q) \in File /\ Dspark(q) \in BOOLEAN /\ qz[q].job.layers \in Int
<1>1. qz[q].job \in Jobs[q]
  BY DEF ContainerTypeOK
<1> QED BY <1>1, ContainerAssumption DEF Out, Dspark, File

\* What a step of q may do to the files, and to the runs.
OthersSame(q) ==
  /\ DOMAIN disk' = File /\ \A f \in File : DOMAIN disk'[f] = {"size", "parts"}
  /\ \A f \in File \ {Out(q)} : disk'[f] = disk[f]
Truncates(q) == PcIs(q, "create") /\ OthersSame(q) /\ disk'[Out(q)].parts = <<>>
Fills(q) ==
  /\ qz[q].pc \in Writing /\ OthersSame(q) /\ disk'[Out(q)].size = disk[Out(q)].size
  /\ \A p \in DOMAIN PartsOf(q) : p \in DOMAIN disk'[Out(q)].parts
  /\ \A p \in DOMAIN disk'[Out(q)].parts : disk'[Out(q)].parts[p].by = q
  /\ DirPlace("layers") \in DOMAIN disk'[Out(q)].parts => Holds(q, DirPlace("layers")) \/ PcIs(q, "layers")
RunTypeOK(run) ==
  /\ DOMAIN run = RunFields /\ run.pc \in Opening \cup Writing \cup Over /\ run.shard \in Nat
  /\ DOMAIN run.work = Thread
  /\ \A t \in Thread : run.work[t] = <<>> \/ run.work[t] \in Nat \X (0..8)
RunMoves(q) ==
  /\ which' = which
  /\ DOMAIN qz' = Quantiser /\ \A r \in Quantiser \ {q} : qz'[r] = qz[r]
  /\ RunTypeOK(qz'[q]) /\ qz'[q].job = qz[q].job
  /\ qz[q].pc = "new" => qz'[q].pc = "new" \/ \A r \in Order[q] : qz[r].pc \in Over
  /\ qz[q].pc # "new" => qz'[q].pc # "new"
  /\ qz[q].pc \in Over => qz'[q].pc \in Over
  /\ disk' = disk \/ Truncates(q) \/ Fills(q)

-----------------------------------------------------------------------------
(* What it leaves alone.                                                   *)

\* What is asked of a run rests on its record and its file.
LEMMA SameRun ==
  ASSUME NEW r \in Quantiser, which' = which, qz'[r] = qz[r], disk'[Out(r)] = disk[Out(r)], RunInv(r)
  PROVE  RunInv(r)'
<1>1. /\ Out(r)' = Out(r) /\ PartsOf(r)' = PartsOf(r) /\ Plan(r)' = Plan(r) /\ Tensors(r)' = Tensors(r)
      /\ TensorPlaces(r)' = TensorPlaces(r) /\ ExpertPlaces(r)' = ExpertPlaces(r)
  BY DEF Out, PartsOf, Plan, Tensors, TensorPlaces, ExpertPlaces, AllExperts, Dspark, NLayer, ck
<1>2. OwnsFile(r) => OwnsFile(r)'
  BY <1>1 DEF OwnsFile, Holds, ValueOf
<1>3. ExpertsPlaced(r) => ExpertsPlaced(r)'
  BY <1>1 DEF ExpertsPlaced, Holds
<1>4. DensePlaced(r) => DensePlaced(r)'
  BY <1>1 DEF DensePlaced, Holds
<1>5. \A p : Holds(r, p)' = Holds(r, p)
  BY <1>1 DEF Holds
<1> QED BY <1>1, <1>2, <1>3, <1>4, <1>5 DEF RunInv

\* What a finished run leaves rests on its record, its file and who else has begun.
LEMMA SameDone ==
  ASSUME NEW r \in Quantiser, which' = which, qz'[r] = qz[r], disk'[Out(r)] = disk[Out(r)],
         LastOn(r)' => LastOn(r), DoneInv(r)
  PROVE  DoneInv(r)'
<1>1. /\ Out(r)' = Out(r) /\ PartsOf(r)' = PartsOf(r) /\ Plan(r)' = Plan(r) /\ Tensors(r)' = Tensors(r)
      /\ TensorPlaces(r)' = TensorPlaces(r)
  BY DEF Out, PartsOf, Plan, Tensors, TensorPlaces, AllExperts, Dspark, NLayer, ck
<1>2. OwnsFile(r) => OwnsFile(r)'
  BY <1>1 DEF OwnsFile, Holds, ValueOf
<1>3. \A p : Holds(r, p)' = Holds(r, p)
  BY <1>1 DEF Holds
<1>4. PcIs(r, "done")' => PcIs(r, "done")
  BY DEF PcIs
<1> QED BY <1>1, <1>2, <1>3, <1>4 DEF DoneInv

\* While a run is under way, another that may write its file has not begun or is over.
LEMMA Alone ==
  ASSUME OneAtATime, ContainerTypeOK, InOrder, NEW q \in Quantiser, NEW r \in Quantiser \ {q},
         Out(r) = Out(q), qz[q].pc \notin {"new"} \cup Over
  PROVE  /\ PcIs(r, "new") \/ qz[r].pc \in Over
         /\ ~PcIs(r, "new") => r \in Order[q] /\ q \notin Order[r]
<1>1. q \in Order[r] \/ r \in Order[q]
  <2>1. qz[q].job \in Jobs[q] /\ qz[r].job \in Jobs[r]
    BY DEF ContainerTypeOK
  <2> QED BY <2>1 DEF OneAtATime, Out
<1>2. ~PcIs(r, "new") => q \notin Order[r]
  BY DEF InOrder
<1>3. r \in Order[q] => qz[r].pc \in Over
  BY DEF InOrder, PcIs
<1> QED BY <1>1, <1>2, <1>3

\* A step of one run keeps what is known of every other.
LEMMA OthersStand ==
  ASSUME OneAtATime, ContainerInv, NEW q \in Quantiser, RunMoves(q), NEW r \in Quantiser \ {q}
  PROVE  RunInv(r)' /\ DoneInv(r)'
<1>0. /\ ContainerTypeOK /\ InOrder /\ RunInv(r) /\ DoneInv(r) /\ qz'[r] = qz[r] /\ which' = which
      /\ Out(r) \in File /\ Out(q) \in File /\ Out(q)' = Out(q) /\ Out(r)' = Out(r)
  <2>1. ContainerTypeOK /\ InOrder /\ RunInv(r) /\ DoneInv(r)
    BY DEF ContainerInv
  <2>2. qz'[r] = qz[r] /\ which' = which /\ qz'[q].job = qz[q].job
    BY DEF RunMoves
  <2> QED BY <2>1, <2>2, JobIs DEF Out
<1>1. CASE Out(r) # Out(q) \/ disk' = disk
  <2>1. disk'[Out(r)] = disk[Out(r)]
    BY <1>0, <1>1 DEF RunMoves, Truncates, Fills, OthersSame
  <2>2. LastOn(r)' => LastOn(r)
    <3> SUFFICES ASSUME LastOn(r)', NEW s \in Quantiser, s # r, Out(s) = Out(r), ~PcIs(s, "new")
                 PROVE  s \in Order[r]
      BY DEF LastOn
    <3>1. Out(s)' = Out(s) /\ ~PcIs(s, "new")'
      BY DEF RunMoves, Out, PcIs
    <3> QED BY <1>0, <3>1 DEF LastOn
  <2> QED BY <1>0, <2>1, <2>2, SameRun, SameDone
<1>2. CASE Out(r) = Out(q) /\ disk' # disk
  <2>1. qz[q].pc \notin {"new"} \cup Over
    BY <1>2 DEF RunMoves, Truncates, Fills, PcIs, Writing, AfterHeader, AfterDense, Closing, Over
  <2>2. /\ PcIs(r, "new") \/ qz[r].pc \in Over
        /\ ~PcIs(r, "new") => r \in Order[q] /\ q \notin Order[r]
    BY <1>0, <1>2, <2>1, Alone
  <2>3. qz[r].pc \in {"new"} \cup Over
    BY <2>2 DEF PcIs
  <2>4. RunInv(r)'
    <3>1. /\ qz'[r].pc \notin Writing /\ qz'[r].pc \notin AfterHeader /\ qz'[r].pc \notin AfterDense
          /\ qz'[r].pc \notin Closing /\ qz'[r].pc # "dense" /\ qz'[r].pc \notin {"layers", "meta", "lastheader"}
          /\ qz'[r].pc \notin {"meta", "lastheader"} /\ qz'[r].pc # "lastheader"
      BY <1>0, <2>3 DEF Writing, AfterHeader, AfterDense, Closing, Over
    <3>2. qz'[r].pc \in Opening \cup {"header"} =>
            qz'[r].shard = 0 /\ qz'[r].written = {} /\ \A t \in Thread : qz'[r].work[t] = <<>>
      BY <1>0 DEF RunInv
    <3> QED BY <3>1, <3>2 DEF RunInv
  <2>5. DoneInv(r)'
    <3> SUFFICES ASSUME PcIs(r, "done")', LastOn(r)' PROVE FALSE
      BY DEF DoneInv
    <3>1. ~PcIs(r, "new") /\ qz'[q].pc # "new"
      BY <1>0, <2>1 DEF PcIs, RunMoves
    <3>2. qz'[q].pc = "new" \/ q \in Order[r]
      BY <1>0, <1>2 DEF LastOn, PcIs
    <3> QED BY <2>2, <3>1, <3>2
  <2> QED BY <2>4, <2>5
<1> QED BY <1>1, <1>2

\* The files stand: one has changed only for the run that has it.
LEMMA FilesStand ==
  ASSUME ContainerInv, NEW q \in Quantiser, RunMoves(q), NEW f \in File
  PROVE  FileInv(f)'
<1> DEFINE parts == disk[f].parts
<1>0. /\ ContainerTypeOK /\ FileInv(f) /\ RunInv(q) /\ which' = which
      /\ \A r \in Quantiser : qz'[r].job = qz[r].job
      /\ Out(q) \in File
  <2>1. ContainerTypeOK /\ FileInv(f) /\ RunInv(q) /\ which' = which
    BY DEF ContainerInv, RunMoves
  <2>2. \A r \in Quantiser : qz'[r].job = qz[r].job
    BY DEF RunMoves
  <2> QED BY <2>1, <2>2, JobIs
<1>1. \A r \in Quantiser : Out(r)' = Out(r) /\ TensorPlaces(r)' = TensorPlaces(r) /\ ExpertPlaces(r)' = ExpertPlaces(r)
  BY <1>0 DEF Out, Plan, Tensors, TensorPlaces, ExpertPlaces, AllExperts, Dspark, NLayer, ck
<1>2. CASE disk'[f] = disk[f]
  <2>1. \A p \in DOMAIN parts : parts[p].by \in Quantiser /\ Out(parts[p].by) = f
    BY <1>0 DEF FileInv
  <2>2. \A p, r \in DOMAIN parts : parts[p].by = parts[r].by
    BY <1>0 DEF FileInv
  <2>3. \A w \in Quantiser : DirPlace("layers") \in DOMAIN parts /\ parts[DirPlace("layers")].by = w =>
          \A p \in TensorPlaces(w) \cup ExpertPlaces(w) : p \in DOMAIN parts
    BY <1>0 DEF FileInv
  <2>4. disk'[f].parts = parts
    BY <1>2
  <2> HIDE DEF parts
  <2> QED BY <1>1, <2>1, <2>2, <2>3, <2>4 DEF FileInv, DirPlace
<1>3. CASE disk'[f] # disk[f]
  <2>1. f = Out(q) /\ (Truncates(q) \/ Fills(q))
    BY <1>3 DEF RunMoves, Truncates, Fills, OthersSame
  <2>2. CASE Truncates(q)
    <3>1. DOMAIN disk'[f].parts = {}
      BY <2>1, <2>2 DEF Truncates
    <3> QED BY <3>1 DEF FileInv
  <2>3. CASE Fills(q)
    <3>1. \A p \in DOMAIN disk'[f].parts : disk'[f].parts[p].by = q
      BY <2>1, <2>3 DEF Fills
    <3>2. DirPlace("layers") \in DOMAIN disk'[f].parts =>
            \A p \in TensorPlaces(q) \cup ExpertPlaces(q) : p \in DOMAIN disk'[f].parts
      <4> SUFFICES ASSUME DirPlace("layers") \in DOMAIN disk'[f].parts
                   PROVE  \A p \in TensorPlaces(q) \cup ExpertPlaces(q) : Holds(q, p)
        BY <2>1, <2>3 DEF Fills, Holds
      <4>1. CASE PcIs(q, "layers")
        <5>1. qz[q].pc \in AfterDense /\ qz[q].pc \in Closing
          BY <4>1 DEF PcIs, AfterDense, Closing
        <5> QED BY <1>0, <5>1 DEF RunInv
      <4>2. CASE Holds(q, DirPlace("layers"))
        <5>1. DirPlace("layers") \in DOMAIN parts /\ qz[q].pc \in Writing
          BY <2>1, <2>3, <4>2 DEF Holds, PartsOf, Fills
        <5>2. parts[DirPlace("layers")].by = q
          BY <1>0, <2>1, <5>1 DEF RunInv, OwnsFile, PartsOf
        <5> QED BY <1>0, <2>1, <5>1, <5>2 DEF FileInv, Holds, PartsOf
      <4> QED BY <2>1, <2>3, <4>1, <4>2 DEF Fills
    <3> QED BY <1>1, <2>1, <3>1, <3>2 DEF FileInv, DirPlace
  <2> QED BY <2>1, <2>2, <2>3
<1> QED BY <1>2, <1>3

\* So a step keeps the invariant if it keeps what is asked of the run that takes it.
LEMMA MoveKeeps ==
  ASSUME OneAtATime, ContainerInv, NEW q \in Quantiser, RunMoves(q), RunInv(q)', DoneInv(q)'
  PROVE  ContainerInv'
<1>0. ContainerTypeOK /\ InOrder
  BY DEF ContainerInv
<1>1. ContainerTypeOK'
  <2>1. which' \in DOMAIN Given /\ DOMAIN qz' = Quantiser
    BY <1>0 DEF ContainerTypeOK, RunMoves
  <2>2. DOMAIN disk' = File /\ \A f \in File : DOMAIN disk'[f] = {"size", "parts"}
    BY <1>0 DEF ContainerTypeOK, RunMoves, Truncates, Fills, OthersSame
  <2>3. \A r \in Quantiser : RunTypeOK(qz'[r]) /\ qz'[r].job \in Jobs[r]
    <3> TAKE r \in Quantiser
    <3>1. RunTypeOK(qz[r]) /\ qz[r].job \in Jobs[r]
      BY <1>0 DEF ContainerTypeOK, RunTypeOK
    <3> QED BY <3>1 DEF RunMoves
  <2> QED BY <2>1, <2>2, <2>3 DEF ContainerTypeOK, RunTypeOK
<1>2. InOrder'
  <2> SUFFICES ASSUME NEW p \in Quantiser, NEW r \in Order[p], qz'[p].pc # "new" PROVE qz'[r].pc \in Over
    BY DEF InOrder, PcIs
  <2>0. r \in Quantiser /\ (qz[r].pc \in Over => qz'[r].pc \in Over)
    BY ContainerAssumption DEF RunMoves
  <2>1. CASE p = q /\ qz[q].pc = "new"
    BY <2>0, <2>1 DEF RunMoves
  <2>2. CASE ~(p = q /\ qz[q].pc = "new")
    <3>1. qz[p].pc # "new"
      BY <2>2 DEF RunMoves
    <3> QED BY <1>0, <2>0, <3>1 DEF InOrder, PcIs
  <2> QED BY <2>1, <2>2
<1>3. \A r \in Quantiser : RunInv(r)' /\ DoneInv(r)'
  <2> TAKE r \in Quantiser
  <2>1. CASE r = q
    BY <2>1
  <2>2. CASE r # q
    BY <2>2, OthersStand
  <2> QED BY <2>1, <2>2
<1>4. \A f \in File : FileInv(f)'
  BY FilesStand
<1> QED BY <1>1, <1>2, <1>3, <1>4 DEF ContainerInv

-----------------------------------------------------------------------------
(* The steps of a run, one by one.                                         *)

\* Only these fields of a run change.
Only(q, fields) ==
  /\ DOMAIN qz' = Quantiser /\ \A r \in Quantiser \ {q} : qz'[r] = qz[r]
  /\ DOMAIN qz'[q] = RunFields
  /\ \A f \in RunFields \ fields : qz'[q][f] = qz[q][f]

\* A change to a run's record changes no other run's.
LEMMA SetOnly ==
  ASSUME ContainerTypeOK, NEW q \in Quantiser, NEW change, DOMAIN change \subseteq RunFields, Set(q, change)
  PROVE  Only(q, DOMAIN change) /\ \A f \in DOMAIN change : qz'[q][f] = change[f]
BY SetIs DEF Only

\* A run's record is of its type.
LEMMA RunTyped ==
  ASSUME ContainerTypeOK, NEW q \in Quantiser
  PROVE  RunTypeOK(qz[q])
BY DEF ContainerTypeOK, RunTypeOK

\* A run that ends.
LEMMA EndsStep ==
  ASSUME ContainerInv, NEW q \in Quantiser, NEW how \in {"exit", "killed"}, Ends(q, how), which' = which,
         PcIs(q, "new") => \A r \in Order[q] : qz[r].pc \in Over,
         disk' = disk \/ Fills(q)
  PROVE  RunMoves(q) /\ RunInv(q)' /\ DoneInv(q)'
<1>0. ContainerTypeOK
  BY DEF ContainerInv
<1> DEFINE change == [pc |-> how, shard |-> 0, layer |-> 0, next |-> 0, written |-> {},
                      work |-> [t \in Thread |-> <<>>]]
<1>1. Set(q, change) /\ DOMAIN change = {"pc", "shard", "layer", "next", "written", "work"}
  BY DEF Ends
<1>2. change.pc = how /\ change.shard = 0 /\ change.work = [t \in Thread |-> <<>>]
  OBVIOUS
<1> HIDE DEF change
<1>3. DOMAIN change \subseteq RunFields
  BY <1>1 DEF RunFields
<1>4. Only(q, DOMAIN change) /\ \A f \in DOMAIN change : qz'[q][f] = change[f]
  BY <1>0, <1>1, <1>3, SetOnly
<1>5. qz'[q].pc = how /\ qz'[q].shard = 0 /\ qz'[q].work = [t \in Thread |-> <<>>]
  BY <1>1, <1>2, <1>4
<1>6. qz'[q].job = qz[q].job
  BY <1>1, <1>4 DEF Only, RunFields
<1>7. RunTypeOK(qz'[q])
  BY <1>4, <1>5 DEF Only, RunTypeOK, Over
<1>8. RunMoves(q)
  BY <1>4, <1>5, <1>6, <1>7 DEF RunMoves, Only, Over, PcIs
<1>9. RunInv(q)' /\ DoneInv(q)'
  <2>1. /\ qz'[q].pc \notin Opening \cup {"header"} /\ qz'[q].pc \notin Writing /\ qz'[q].pc \notin AfterHeader
        /\ qz'[q].pc \notin AfterDense /\ qz'[q].pc \notin Closing /\ qz'[q].pc # "dense"
        /\ qz'[q].pc \notin {"layers", "meta", "lastheader"} /\ qz'[q].pc \notin {"meta", "lastheader"}
        /\ qz'[q].pc # "lastheader" /\ qz'[q].pc # "done"
    BY <1>5 DEF Opening, Writing, AfterHeader, AfterDense, Closing
  <2> QED BY <2>1 DEF RunInv, DoneInv, PcIs
<1> QED BY <1>8, <1>9

\* A run that has written nothing yet, and does not now.
LEMMA OpeningStep ==
  ASSUME ContainerInv, NEW q \in Quantiser, qz[q].pc \in Opening, which' = which, disk' = disk,
         NEW fields \in SUBSET {"pc", "cb", "ino"}, Only(q, fields),
         qz'[q].pc \in Opening \ {"new"},
         PcIs(q, "new") => \A r \in Order[q] : qz[r].pc \in Over
  PROVE  RunMoves(q) /\ RunInv(q)' /\ DoneInv(q)'
<1>0. ContainerTypeOK /\ RunInv(q)
  BY DEF ContainerInv
<1>1. /\ qz'[q].job = qz[q].job /\ qz'[q].shard = qz[q].shard /\ qz'[q].work = qz[q].work
      /\ qz'[q].written = qz[q].written
  BY DEF Only, RunFields
<1>2. RunTypeOK(qz'[q])
  BY <1>0, <1>1, RunTyped DEF RunTypeOK, Only
<1>3. RunMoves(q)
  BY <1>1, <1>2 DEF RunMoves, Only, PcIs, Opening, Over
<1>4. /\ qz'[q].pc \notin Writing /\ qz'[q].pc \notin AfterHeader /\ qz'[q].pc \notin AfterDense
      /\ qz'[q].pc \notin Closing /\ qz'[q].pc # "dense" /\ qz'[q].pc \notin {"layers", "meta", "lastheader"}
      /\ qz'[q].pc \notin {"meta", "lastheader"} /\ qz'[q].pc # "lastheader" /\ qz'[q].pc # "done"
  BY DEF Opening, Writing, AfterHeader, AfterDense, Closing
<1>5. RunInv(q)' /\ DoneInv(q)'
  BY <1>0, <1>1, <1>4 DEF RunInv, DoneInv, PcIs
<1> QED BY <1>3, <1>5

\* The arguments are refused, or the run goes on to the codebook.
LEMMA BeginStep0 ==
  ASSUME ContainerInv, NEW q \in Quantiser, Begin0(q)
  PROVE  RunMoves(q) /\ RunInv(q)' /\ DoneInv(q)'
<1>0. ContainerTypeOK /\ which' = which /\ disk' = disk /\ PcIs(q, "new")
  BY DEF ContainerInv, Begin0
<1>1. \A r \in Order[q] : qz[r].pc \in Over
  <2> TAKE r \in Order[q]
  <2>1. r \in Quantiser
    BY ContainerAssumption
  <2>2. qz[r].pc \in {"new", "exit", "done", "killed"} /\ qz[r].pc # "new"
    BY DEF Begin0, Running, PcIs
  <2> QED BY <2>2 DEF Over
<1>2. CASE Exit(q)
  BY <1>0, <1>1, <1>2, EndsStep DEF Exit
<1>3. CASE Set(q, [pc |-> "codebook"])
  <2>1. Only(q, {"pc"}) /\ qz'[q].pc = "codebook"
    <3> DEFINE change == [pc |-> "codebook"]
    <3>1. DOMAIN change = {"pc"} /\ change.pc = "codebook" /\ Set(q, change)
      BY <1>3
    <3> HIDE DEF change
    <3>2. DOMAIN change \subseteq RunFields
      BY <3>1 DEF RunFields
    <3> QED BY <1>0, <3>1, <3>2, SetOnly
  <2> QED BY <1>0, <1>1, <2>1, OpeningStep DEF Opening, PcIs
<1> QED BY <1>2, <1>3 DEF Begin0

\* A change of place alone leaves the record as it was otherwise.
LEMMA SetPc ==
  ASSUME ContainerTypeOK, NEW q \in Quantiser, NEW pc, Set(q, [pc |-> pc])
  PROVE  Only(q, {"pc"}) /\ qz'[q].pc = pc
<1> DEFINE change == [pc |-> pc]
<1>1. DOMAIN change = {"pc"} /\ change.pc = pc /\ Set(q, change)
  OBVIOUS
<1> HIDE DEF change
<1>2. DOMAIN change \subseteq RunFields
  BY <1>1 DEF RunFields
<1> QED BY <1>1, <1>2, SetOnly

\* A draft takes the model's codebook, or the model fits its own.
LEMMA FitStep ==
  ASSUME ContainerInv, NEW q \in Quantiser, Fit(q)
  PROVE  RunMoves(q) /\ RunInv(q)' /\ DoneInv(q)'
<1>0. /\ ContainerTypeOK /\ which' = which /\ disk' = disk
      /\ qz[q].pc \in Opening /\ ~PcIs(q, "new")
  BY DEF ContainerInv, Fit, PcIs, Opening
<1>1. CASE Exit(q)
  BY <1>0, <1>1, EndsStep DEF Exit
<1>2. CASE \E cb : Set(q, [pc |-> "lock", cb |-> cb])
  <2>1. PICK cb : Set(q, [pc |-> "lock", cb |-> cb])
    BY <1>2
  <2> DEFINE change == [pc |-> "lock", cb |-> cb]
  <2>2. DOMAIN change = {"pc", "cb"} /\ change.pc = "lock" /\ Set(q, change)
    BY <2>1
  <2> HIDE DEF change
  <2>3. DOMAIN change \subseteq RunFields
    BY <2>2 DEF RunFields
  <2>4. Only(q, {"pc", "cb"}) /\ qz'[q].pc = "lock"
    BY <1>0, <2>2, <2>3, SetOnly
  <2> QED BY <1>0, <2>4, OpeningStep DEF Opening
<1>3. Exit(q) \/ \E cb : Set(q, [pc |-> "lock", cb |-> cb])
  <2>1. CASE Dspark(q)
    BY <2>1 DEF Fit
  <2>2. CASE ~Dspark(q)
    BY <2>2 DEF Fit
  <2> QED BY <2>1, <2>2
<1> QED BY <1>1, <1>2, <1>3

\* The lock file is opened, or made.
LEMMA OpenLockStep ==
  ASSUME ContainerInv, NEW q \in Quantiser, OpenLock(q)
  PROVE  RunMoves(q) /\ RunInv(q)' /\ DoneInv(q)'
<1>0. /\ ContainerTypeOK /\ which' = which /\ disk' = disk
      /\ qz[q].pc \in Opening /\ ~PcIs(q, "new")
  BY DEF ContainerInv, OpenLock, PcIs, Opening
<1>1. PICK ino : Set(q, [pc |-> "flock", ino |-> ino])
  BY DEF OpenLock
<1> DEFINE change == [pc |-> "flock", ino |-> ino]
<1>2. DOMAIN change = {"pc", "ino"} /\ change.pc = "flock" /\ Set(q, change)
  BY <1>1
<1> HIDE DEF change
<1>3. DOMAIN change \subseteq RunFields
  BY <1>2 DEF RunFields
<1>4. Only(q, {"pc", "ino"}) /\ qz'[q].pc = "flock"
  BY <1>0, <1>2, <1>3, SetOnly
<1> QED BY <1>0, <1>4, OpeningStep DEF Opening

\* The lock is taken, or the run ends.
LEMMA FlockStep ==
  ASSUME ContainerInv, NEW q \in Quantiser, Flock(q)
  PROVE  RunMoves(q) /\ RunInv(q)' /\ DoneInv(q)'
<1>0. /\ ContainerTypeOK /\ which' = which /\ disk' = disk
      /\ qz[q].pc \in Opening /\ ~PcIs(q, "new")
  BY DEF ContainerInv, Flock, PcIs, Opening
<1>1. CASE Exit(q)
  BY <1>0, <1>1, EndsStep DEF Exit
<1>2. CASE Set(q, [pc |-> "create"])
  <2>1. Only(q, {"pc"}) /\ qz'[q].pc = "create"
    BY <1>0, <1>2, SetPc
  <2> QED BY <1>0, <2>1, OpeningStep DEF Opening
<1> QED BY <1>1, <1>2 DEF Flock

\* The file is truncated and given its size.
LEMMA CreateStep ==
  ASSUME ContainerInv, NEW q \in Quantiser, Create(q)
  PROVE  RunMoves(q) /\ RunInv(q)' /\ DoneInv(q)'
<1>0. ContainerTypeOK /\ RunInv(q) /\ which' = which /\ PcIs(q, "create") /\ Out(q) \in File
  BY JobIs DEF ContainerInv, Create
<1> DEFINE size == Plan(q).size
<1> DEFINE change == [pc |-> "header", size |-> size]
<1> DEFINE file == [size |-> size, parts |-> <<>>]
<1>1. Set(q, change) /\ disk' = [disk EXCEPT ![Out(q)] = file]
  BY DEF Create
<1>2. /\ DOMAIN change = {"pc", "size"} /\ change.pc = "header" /\ change.size = size
      /\ DOMAIN file = {"size", "parts"} /\ file.size = size /\ file.parts = <<>>
  OBVIOUS
<1> HIDE DEF change, file
<1>3. DOMAIN change \subseteq RunFields
  BY <1>2 DEF RunFields
<1>4. Only(q, {"pc", "size"}) /\ qz'[q].pc = "header" /\ qz'[q].size = size
  BY <1>0, <1>1, <1>2, <1>3, SetOnly
<1>5. /\ qz'[q].job = qz[q].job /\ qz'[q].shard = qz[q].shard /\ qz'[q].work = qz[q].work
      /\ qz'[q].written = qz[q].written
  BY <1>4 DEF Only, RunFields
<1>6. RunTypeOK(qz'[q])
  BY <1>0, <1>4, <1>5, RunTyped DEF RunTypeOK, Only, Writing
<1>7. Truncates(q) /\ disk'[Out(q)].size = size
  BY <1>0, <1>1, <1>2 DEF Truncates, OthersSame, ContainerTypeOK
<1>8. RunMoves(q)
  BY <1>0, <1>4, <1>5, <1>6, <1>7 DEF RunMoves, Only, PcIs, Over
<1>9. Out(q)' = Out(q) /\ Plan(q)' = Plan(q)
  BY <1>0, <1>5 DEF Out, Plan, Dspark, NLayer, ck
<1>10. qz'[q].shard = 0 /\ qz'[q].written = {} /\ \A t \in Thread : qz'[q].work[t] = <<>>
  BY <1>0, <1>5 DEF RunInv, PcIs, Opening
<1>11. PartsOf(q)' = <<>>
  BY <1>7, <1>9 DEF PartsOf, Truncates
<1>12. OwnsFile(q)'
  BY <1>4, <1>7, <1>9, <1>11 DEF OwnsFile, Holds
<1>13. ExpertsPlaced(q)'
  BY <1>10 DEF ExpertsPlaced
<1>14. /\ qz'[q].pc \notin AfterHeader /\ qz'[q].pc \notin AfterDense
       /\ qz'[q].pc \notin Closing /\ qz'[q].pc # "dense" /\ qz'[q].pc \notin {"layers", "meta", "lastheader"}
       /\ qz'[q].pc \notin {"meta", "lastheader"} /\ qz'[q].pc # "lastheader" /\ qz'[q].pc # "done"
  BY <1>4 DEF AfterHeader, AfterDense, Closing
<1>15. RunInv(q)' /\ DoneInv(q)'
  BY <1>10, <1>12, <1>13, <1>14 DEF RunInv, DoneInv, PcIs
<1> QED BY <1>8, <1>15

\* A run that is writing, and goes on or is done.
GoesOn(q) ==
  /\ qz[q].pc \in Writing /\ which' = which
  /\ Only(q, {"pc", "shard", "layer", "next", "work", "written", "profile"})
  /\ qz'[q].pc \in Writing \cup {"done"} /\ qz'[q].shard \in Nat
  /\ DOMAIN qz'[q].work = Thread
  /\ \A t \in Thread : qz'[q].work[t] = <<>> \/ qz'[q].work[t] \in Nat \X (0..8)

\* What it is asked of stays the same.
SamePlan(q) ==
  /\ Out(q)' = Out(q) /\ Plan(q)' = Plan(q) /\ Tensors(q)' = Tensors(q) /\ AllExperts(q)' = AllExperts(q)
  /\ TensorPlaces(q)' = TensorPlaces(q) /\ ExpertPlaces(q)' = ExpertPlaces(q)
  /\ qz'[q].size = qz[q].size /\ qz'[q].cb = qz[q].cb /\ qz'[q].job = qz[q].job

\* Such a run keeps its file, its plan and its arguments.
LEMMA GoesOnSame ==
  ASSUME NEW q \in Quantiser, GoesOn(q)
  PROVE  SamePlan(q)
<1>1. qz'[q].job = qz[q].job /\ qz'[q].size = qz[q].size /\ qz'[q].cb = qz[q].cb /\ which' = which
  BY DEF GoesOn, Only, RunFields
<1> QED BY <1>1 DEF SamePlan, Out, Plan, Tensors, AllExperts, TensorPlaces, ExpertPlaces, Dspark, NLayer, ck

\* A step of a run that writes is a step RunMoves describes.
LEMMA GoesMoves ==
  ASSUME ContainerInv, NEW q \in Quantiser, GoesOn(q), disk' = disk \/ Fills(q)
  PROVE  RunMoves(q)
<1>1. qz'[q].job = qz[q].job
  BY GoesOnSame DEF SamePlan
<1>2. RunTypeOK(qz'[q])
  BY DEF GoesOn, RunTypeOK, Only, Over
<1>3. qz[q].pc # "new" /\ qz'[q].pc # "new" /\ qz[q].pc \notin Over
  BY DEF GoesOn, Writing, AfterHeader, AfterDense, Closing, Over
<1> QED BY <1>1, <1>2, <1>3 DEF RunMoves, GoesOn, Only

\* A step that writes nothing.
LEMMA StandStep ==
  ASSUME ContainerInv, NEW q \in Quantiser, GoesOn(q), disk' = disk
  PROVE  RunMoves(q) /\ OwnsFile(q)' /\ \A p : Holds(q, p)' = Holds(q, p)
<1>1. SamePlan(q) /\ OwnsFile(q)
  BY GoesOnSame DEF ContainerInv, GoesOn, RunInv
<1>2. PartsOf(q)' = PartsOf(q)
  BY <1>1 DEF PartsOf, SamePlan
<1>3. \A p : Holds(q, p)' = Holds(q, p)
  BY <1>2 DEF Holds
<1>4. OwnsFile(q)'
  BY <1>1, <1>2, <1>3 DEF OwnsFile, SamePlan, ValueOf
<1> QED BY <1>3, <1>4, GoesMoves

\* What is put into its file by the run that has it.
LEMMA PutFills ==
  ASSUME ContainerInv, NEW q \in Quantiser, qz[q].pc \in Writing, NEW new, Put(q, new),
         \A p \in DOMAIN new : new[p].by = q,
         DirPlace("layers") \in DOMAIN new => PcIs(q, "layers")
  PROVE  Fills(q)
<1>0. ContainerTypeOK /\ OwnsFile(q) /\ Out(q) \in File
  BY JobIs DEF ContainerInv, RunInv
<1>1. /\ DOMAIN disk' = File /\ \A f \in File : DOMAIN disk'[f] = {"size", "parts"}
      /\ \A f \in File \ {Out(q)} : disk'[f] = disk[f]
      /\ disk'[Out(q)].size = disk[Out(q)].size
      /\ DOMAIN disk'[Out(q)].parts = (DOMAIN new) \cup DOMAIN PartsOf(q)
      /\ \A p \in (DOMAIN new) \cup DOMAIN PartsOf(q) :
           disk'[Out(q)].parts[p] = IF p \in DOMAIN new THEN new[p] ELSE PartsOf(q)[p]
  BY <1>0, PutIs
<1>2. \A p \in DOMAIN disk'[Out(q)].parts : disk'[Out(q)].parts[p].by = q
  BY <1>0, <1>1 DEF OwnsFile
<1> QED BY <1>0, <1>1, <1>2 DEF Fills, OthersSame, Holds

\* A step that writes.
LEMMA FillStep ==
  ASSUME ContainerInv, NEW q \in Quantiser, GoesOn(q), NEW new, Put(q, new),
         \A p \in DOMAIN new : new[p].by = q,
         DirPlace("layers") \in DOMAIN new => PcIs(q, "layers"),
         \A k \in DOMAIN Tensors(q) : TensorPlace(k) \in DOMAIN new =>
           new[TensorPlace(k)].val = ValueOf(q, Plan(q).made[k])
  PROVE  /\ RunMoves(q) /\ OwnsFile(q)'
         /\ \A p : Holds(q, p)' <=> p \in DOMAIN new \/ Holds(q, p)
<1>0. ContainerTypeOK /\ SamePlan(q) /\ OwnsFile(q) /\ Out(q) \in File /\ qz[q].pc \in Writing
  BY GoesOnSame, JobIs DEF ContainerInv, GoesOn, RunInv
<1>1. /\ DOMAIN disk' = File /\ \A f \in File : DOMAIN disk'[f] = {"size", "parts"}
      /\ \A f \in File \ {Out(q)} : disk'[f] = disk[f]
      /\ disk'[Out(q)].size = disk[Out(q)].size
      /\ DOMAIN disk'[Out(q)].parts = (DOMAIN new) \cup DOMAIN PartsOf(q)
      /\ \A p \in (DOMAIN new) \cup DOMAIN PartsOf(q) :
           disk'[Out(q)].parts[p] = IF p \in DOMAIN new THEN new[p] ELSE PartsOf(q)[p]
  BY <1>0, PutIs
<1>2. \A p \in DOMAIN disk'[Out(q)].parts : disk'[Out(q)].parts[p].by = q
  BY <1>0, <1>1 DEF OwnsFile
<1>3. Fills(q)
  BY <1>0, PutFills
<1>4. PartsOf(q)' = disk'[Out(q)].parts
  BY <1>0 DEF PartsOf, SamePlan
<1>5. \A p : Holds(q, p)' <=> p \in DOMAIN new \/ Holds(q, p)
  BY <1>1, <1>4 DEF Holds
<1>6. OwnsFile(q)'
  <2>1. \A p \in DOMAIN PartsOf(q)' : PartsOf(q)'[p].by = q
    BY <1>2, <1>4
  <2>2. qz'[q].size = Plan(q)'.size /\ (disk[Out(q)].size)' = Plan(q)'.size
    BY <1>0, <1>1 DEF OwnsFile, SamePlan
  <2>3. ASSUME NEW k \in DOMAIN Tensors(q), Holds(q, TensorPlace(k))'
        PROVE  PartsOf(q)'[TensorPlace(k)].val = ValueOf(q, Plan(q).made[k])
    <3>1. TensorPlace(k) \in DOMAIN new \/ Holds(q, TensorPlace(k))
      BY <1>5, <2>3 DEF TensorPlace
    <3>2. CASE TensorPlace(k) \in DOMAIN new
      BY <1>1, <1>4, <3>2
    <3>3. CASE TensorPlace(k) \notin DOMAIN new
      BY <1>0, <1>1, <1>4, <3>1, <3>3 DEF OwnsFile, Holds
    <3> QED BY <3>2, <3>3
  <2>4. \A k : ValueOf(q, Plan(q).made[k])' = ValueOf(q, Plan(q).made[k])
    BY <1>0 DEF SamePlan, ValueOf
  <2> QED BY <1>0, <2>1, <2>2, <2>3, <2>4 DEF OwnsFile, SamePlan, TensorPlace
<1> QED BY <1>3, <1>5, <1>6, GoesMoves

\* A part by its place, which of a run's writes it is.
LEMMA PartIs ==
  ASSUME NEW place, NEW q, NEW val
  PROVE  /\ DOMAIN Part(place, q, val) = {place}
         /\ \A p \in DOMAIN Part(place, q, val) : Part(place, q, val)[p].by = q
BY DEF Part

\* Places of different kinds, and of different tensors, differ.
LEMMA PlacesApart ==
  /\ \A k : TensorPlace(k) # DirPlace("layers") /\ TensorPlace(k) # DirPlace("header")
  /\ \A k : TensorPlace(k) # DirPlace("tensors") /\ TensorPlace(k) # DirPlace("meta")
  /\ \A k : TensorPlace(k) # DirPlace("profile")
  /\ \A l, x, j : ExpertPlace(l, x, j) # DirPlace("layers")
  /\ \A k, l, x, j : TensorPlace(k) # ExpertPlace(l, x, j)
  /\ \A j, k : TensorPlace(j) = TensorPlace(k) => j = k
BY DEF TensorPlace, ExpertPlace, DirPlace

\* begin() writes the header.
LEMMA PlaceHeaderStep ==
  ASSUME ContainerInv, NEW q \in Quantiser, PlaceHeader(q)
  PROVE  RunMoves(q) /\ RunInv(q)' /\ DoneInv(q)'
<1>0. ContainerTypeOK /\ RunInv(q) /\ which' = which /\ PcIs(q, "header") /\ RunTypeOK(qz[q])
  BY RunTyped DEF ContainerInv, PlaceHeader
<1>1. Only(q, {"pc"}) /\ qz'[q].pc = "dense"
  BY <1>0, SetPc DEF PlaceHeader
<1>2. /\ qz'[q].shard = qz[q].shard /\ qz'[q].work = qz[q].work /\ qz'[q].written = qz[q].written
  BY <1>1 DEF Only, RunFields
<1>3. GoesOn(q)
  BY <1>0, <1>1, <1>2 DEF GoesOn, Only, RunTypeOK, PcIs, Writing, AfterHeader
<1>4. PICK new : Put(q, new) /\ DOMAIN new = {DirPlace("header")} /\ \A p \in DOMAIN new : new[p].by = q
  <2>1. Put(q, Header(q))
    BY DEF PlaceHeader
  <2>2. DOMAIN Header(q) = {DirPlace("header")} /\ \A p \in DOMAIN Header(q) : Header(q)[p].by = q
    BY DEF Header, DirPlace, Part
  <2> QED BY <2>1, <2>2
<1>5. DirPlace("layers") \notin DOMAIN new /\ \A k : TensorPlace(k) \notin DOMAIN new
  BY <1>4, PlacesApart DEF DirPlace
<1>6. /\ RunMoves(q) /\ OwnsFile(q)' /\ \A p : Holds(q, p)' <=> p \in DOMAIN new \/ Holds(q, p)
  BY <1>3, <1>4, <1>5, FillStep
<1>7. Holds(q, DirPlace("header"))'
  BY <1>4, <1>6 DEF DirPlace
<1>8. qz'[q].shard = 0 /\ qz'[q].written = {} /\ \A t \in Thread : qz'[q].work[t] = <<>>
  BY <1>0, <1>2 DEF RunInv, PcIs
<1>9. ExpertsPlaced(q)' /\ DensePlaced(q)'
  <2>1. \A s \in DOMAIN Shards[which] : ~(s <= 0)
    BY <1>0, ShardsAre DEF ContainerTypeOK
  <2> QED BY <1>0, <1>8, <2>1 DEF ExpertsPlaced, DensePlaced
<1>10. /\ qz'[q].pc \notin Opening \cup {"header"} /\ qz'[q].pc \notin AfterDense
       /\ qz'[q].pc \notin Closing /\ qz'[q].pc \notin {"layers", "meta", "lastheader"}
       /\ qz'[q].pc \notin {"meta", "lastheader"} /\ qz'[q].pc # "lastheader" /\ qz'[q].pc # "done"
  BY <1>1 DEF Opening, AfterDense, Closing
<1>11. RunInv(q)' /\ DoneInv(q)'
  BY <1>6, <1>7, <1>9, <1>10 DEF RunInv, DoneInv, PcIs
<1> QED BY <1>6, <1>11

\* How many layers a run writes, and the plan they are written by.
LEMMA StagesNat ==
  ASSUME NEW c \in DOMAIN Given, NEW dspark \in BOOLEAN
  PROVE  TotalLayers(Given[c], dspark) \in Nat
<1>1. IsFiniteSet(DOMAIN Given[c].index) /\ Given[c].cfg.n_layer \in Nat
  BY ContainerAssumption DEF Given, CheckpointIsSound, ConfigSizes
<1>2. MtpStages(Given[c]) \in Nat
  <2> DEFINE n == Cardinality(DOMAIN Given[c].index)
  <2> DEFINE has == {l \in 0..n : \A j \in 0..l : <<"mtp", j, "attn_kv">> \in DOMAIN Given[c].index}
  <2>1. IsFiniteSet(0..n)
    BY <1>1, FS_CardinalityType, FS_Interval
  <2>2. IsFiniteSet(has)
    BY <2>1, FS_Subset
  <2>3. Cardinality(has) \in Nat
    BY <2>2, FS_CardinalityType
  <2> QED BY <2>3 DEF MtpStages
<1> QED BY <1>1, <1>2 DEF TotalLayers

\* The plan of a run is that of its checkpoint, kind and layers.
LEMMA PlanIs ==
  ASSUME ContainerTypeOK, NEW q \in Quantiser
  PROVE  /\ NLayer(q) \in Nat /\ which \in DOMAIN Given
         /\ Plan(q) = PlanOf(ck, TensorDecls(ck.cfg, Dspark(q), NLayer(q)), LayerDecls(ck.cfg, NLayer(q)))
<1>0. which \in DOMAIN Given /\ Dspark(q) \in BOOLEAN /\ qz[q].job.layers \in Int /\ ck = Given[which]
  BY JobIs DEF ContainerTypeOK, ck
<1> DEFINE total == TotalLayers(ck, Dspark(q))
<1>1. total \in Nat
  BY <1>0, StagesNat
<1>2. NLayer(q) = IF qz[q].job.layers > 0 /\ qz[q].job.layers < total THEN qz[q].job.layers ELSE total
  BY DEF NLayer, LayersOf, Dspark
<1> HIDE DEF total
<1>3. NLayer(q) \in 0..total
  BY <1>0, <1>1, <1>2
<1> QED BY <1>0, <1>1, <1>3 DEF Plan, Plans, PlansOf, total

\* A shard's dense tensors are made, up to the first that cannot be.
LEMMA DenseShardStep ==
  ASSUME ContainerInv, NEW q \in Quantiser, DenseShard(q)
  PROVE  RunMoves(q) /\ RunInv(q)' /\ DoneInv(q)'
<1>0. /\ ContainerTypeOK /\ RunInv(q) /\ RunTypeOK(qz[q]) /\ which' = which /\ which \in DOMAIN Given
      /\ PcIs(q, "dense") /\ qz[q].pc \in Writing
  BY RunTyped DEF ContainerInv, ContainerTypeOK, DenseShard, PcIs, Writing, AfterHeader
<1> DEFINE n == qz[q].shard
<1> DEFINE shard == Shards[which][n + 1]
<1> DEFINE dense == DenseOf(Plan(q), shard)
<1> DEFINE sound == {k \in dense : \A b \in RefusedOf(Plan(q), shard) : k < b}
<1> DEFINE new == [p \in {TensorPlace(k) : k \in sound} |-> [by |-> q, val |-> ValueOf(q, Plan(q).made[p[3]])]]
<1>1. n \in Nat
  BY <1>0 DEF RunTypeOK
<1>2. \/ Exit(q) /\ disk' = disk
      \/ Put(q, new) /\ Exit(q)
      \/ Put(q, new) /\ RefusedOf(Plan(q), shard) = {} /\ Set(q, [shard |-> n + 1])
  BY DEF DenseShard
<1>3. /\ DOMAIN new = {TensorPlace(k) : k \in sound} /\ \A p \in DOMAIN new : new[p].by = q
      /\ \A p \in DOMAIN new : new[p].val = ValueOf(q, Plan(q).made[p[3]])
  OBVIOUS
<1> HIDE DEF new
<1>4. \A k \in DOMAIN Tensors(q) : TensorPlace(k) \in DOMAIN new =>
        new[TensorPlace(k)].val = ValueOf(q, Plan(q).made[k])
  <2> TAKE k \in DOMAIN Tensors(q)
  <2>1. TensorPlace(k)[3] = k
    BY DEF TensorPlace
  <2> QED BY <1>3, <2>1
<1>5. DirPlace("layers") \notin DOMAIN new
  BY <1>3, PlacesApart DEF DirPlace
<1>6. CASE Exit(q)
  <2>1. disk' = disk \/ Fills(q)
    BY <1>0, <1>2, <1>3, <1>5, PutFills DEF DirPlace
  <2> QED BY <1>0, <1>6, <2>1, EndsStep DEF Exit, PcIs
<1>7. CASE Put(q, new) /\ RefusedOf(Plan(q), shard) = {} /\ Set(q, [shard |-> n + 1])
  <2> DEFINE change == [shard |-> n + 1]
  <2>1. DOMAIN change = {"shard"} /\ change.shard = n + 1 /\ Set(q, change)
    BY <1>7
  <2> HIDE DEF change
  <2>2. DOMAIN change \subseteq RunFields
    BY <2>1 DEF RunFields
  <2>3. Only(q, {"shard"}) /\ qz'[q].shard = n + 1
    BY <1>0, <2>1, <2>2, SetOnly
  <2>4. qz'[q].pc = "dense" /\ qz'[q].work = qz[q].work /\ qz'[q].written = qz[q].written
        /\ qz'[q].layer = qz[q].layer
    BY <1>0, <2>3 DEF Only, RunFields, PcIs
  <2>5. GoesOn(q)
    BY <1>0, <1>1, <2>3, <2>4 DEF GoesOn, Only, RunTypeOK, Writing, AfterHeader
  <2>6. /\ RunMoves(q) /\ OwnsFile(q)' /\ \A p : Holds(q, p)' <=> p \in DOMAIN new \/ Holds(q, p)
    BY <1>3, <1>4, <1>5, <1>7, <2>5, FillStep
  <2>7. Plan(q)' = Plan(q)
    BY <2>5, GoesOnSame DEF SamePlan
  <2>8. Holds(q, DirPlace("header"))'
    BY <1>0, <2>6 DEF DirPlace, RunInv, PcIs, AfterHeader
  <2>9. ExpertsPlaced(q)'
    BY <1>0, <2>4, <2>6 DEF ExpertsPlaced, ExpertPlace, RunInv
  <2>10. DensePlaced(q)'
    <3> SUFFICES ASSUME NEW s \in DOMAIN Shards[which], s <= n + 1, NEW k \in DenseOf(Plan(q), Shards[which][s])
                 PROVE  Holds(q, TensorPlace(k))'
      BY <1>0, <2>3, <2>7 DEF DensePlaced
    <3>1. CASE s <= n
      <4>1. Holds(q, TensorPlace(k))
        BY <1>0, <3>1 DEF RunInv, DensePlaced, PcIs
      <4> QED BY <2>6, <4>1 DEF TensorPlace
    <3>2. CASE ~(s <= n)
      <4>1. s = n + 1
        BY <1>0, <1>1, <3>2, ShardsAre
      <4>2. TensorPlace(k) \in DOMAIN new
        BY <1>3, <1>7, <4>1
      <4> QED BY <2>6, <4>2 DEF TensorPlace
    <3> QED BY <3>1, <3>2
  <2>11. /\ qz'[q].pc \notin Opening \cup {"header"} /\ qz'[q].pc \notin AfterDense
         /\ qz'[q].pc \notin Closing /\ qz'[q].pc \notin {"layers", "meta", "lastheader"}
         /\ qz'[q].pc \notin {"meta", "lastheader"} /\ qz'[q].pc # "lastheader" /\ qz'[q].pc # "done"
    BY <2>4 DEF Opening, AfterDense, Closing
  <2> QED BY <2>6, <2>8, <2>9, <2>10, <2>11 DEF RunInv, DoneInv, PcIs
<1> QED BY <1>2, <1>6, <1>7

\* Once every shard has been gone through, every tensor is there.
LEMMA DenseAll ==
  ASSUME ContainerInv, NEW q \in Quantiser, DensePlaced(q), qz[q].shard = Len(Shards[which])
  PROVE  \A p \in TensorPlaces(q) : Holds(q, p)
<1>0. which \in DOMAIN Given
  BY DEF ContainerInv, ContainerTypeOK
<1>1. Plan(q) = PlanOf(ck, TensorDecls(ck.cfg, Dspark(q), NLayer(q)), LayerDecls(ck.cfg, NLayer(q)))
  BY PlanIs DEF ContainerInv
<1>2. ASSUME NEW k \in DOMAIN Tensors(q) PROVE Holds(q, TensorPlace(k))
  <2>1. Plan(q).shard[k] = ShardOf(Given[which], Plan(q).decls[k].name)
    BY <1>2, <1>1 DEF Tensors, PlanOf, PlanUnder, ck
  <2>2. PICK s \in DOMAIN Shards[which] : Shards[which][s] = Plan(q).shard[k]
    BY <1>0, <2>1, ShardsAre
  <2>3. s <= qz[q].shard
    BY <1>0, <2>2, ShardsAre
  <2>4. k \in DenseOf(Plan(q), Shards[which][s])
    BY <1>2, <2>2 DEF DenseOf, Tensors
  <2> QED BY <2>2, <2>3, <2>4 DEF DensePlaced
<1> QED BY <1>2 DEF TensorPlaces

\* A step that comes after the dense tensors and before the directories.
LEMMA LateStep ==
  ASSUME ContainerInv, NEW q \in Quantiser, GoesOn(q), OwnsFile(q)', ExpertsPlaced(q)',
         \A p : Holds(q, p) => Holds(q, p)',
         qz[q].pc \in AfterHeader, \A p \in TensorPlaces(q) : Holds(q, p),
         qz'[q].pc \in {"experts", "unlock", "unlink", "check", "tensors"},
         qz'[q].pc = "tensors" => \A p \in ExpertPlaces(q) : Holds(q, p)
  PROVE  RunInv(q)' /\ DoneInv(q)'
<1>1. SamePlan(q) /\ RunInv(q)
  BY GoesOnSame DEF ContainerInv
<1>2. /\ qz'[q].pc \notin Opening \cup {"header"} /\ qz'[q].pc # "dense"
      /\ qz'[q].pc \notin {"layers", "meta", "lastheader"}
      /\ qz'[q].pc \notin {"meta", "lastheader"} /\ qz'[q].pc # "lastheader" /\ qz'[q].pc # "done"
      /\ (qz'[q].pc \in Closing => qz'[q].pc = "tensors")
  BY DEF Opening, Closing
<1>3. Holds(q, DirPlace("header"))
  BY <1>1 DEF RunInv
<1>4. Holds(q, DirPlace("header"))'
  <2> DEFINE place == DirPlace("header")
  <2>1. Holds(q, place)
    BY <1>3
  <2>2. place' = place
    BY DEF DirPlace
  <2> HIDE DEF place
  <2> QED BY <2>1, <2>2 DEF DirPlace, place
<1>5. TensorPlaces(q)' = TensorPlaces(q) /\ ExpertPlaces(q)' = ExpertPlaces(q)
  BY <1>1 DEF SamePlan
<1>6. (\A p \in TensorPlaces(q) : Holds(q, p))'
  BY <1>5
<1>7. qz'[q].pc = "tensors" => (\A p \in ExpertPlaces(q) : Holds(q, p))'
  BY <1>5
<1> QED BY <1>2, <1>4, <1>6, <1>7 DEF RunInv, DoneInv, PcIs

\* What is in hand and counted stays, if nothing is taken from the file.
LEMMA ExpertsStay ==
  ASSUME NEW q \in Quantiser, ExpertsPlaced(q), \A p : Holds(q, p) => Holds(q, p)',
         qz'[q].work = qz[q].work, qz'[q].written = qz[q].written, qz'[q].layer = qz[q].layer
  PROVE  ExpertsPlaced(q)'
BY DEF ExpertsPlaced, ExpertPlace

\* After the last shard all dense tensors are there.
LEMMA DenseEndStep ==
  ASSUME ContainerInv, NEW q \in Quantiser, DenseEnd(q)
  PROVE  RunMoves(q) /\ RunInv(q)' /\ DoneInv(q)'
<1>0. /\ ContainerTypeOK /\ RunInv(q) /\ which' = which /\ disk' = disk /\ RunTypeOK(qz[q])
      /\ qz[q].pc = "dense" /\ qz[q].pc \in Writing /\ qz[q].pc \in AfterHeader
  BY RunTyped DEF ContainerInv, DenseEnd, PcIs, Writing, AfterHeader
<1>1. Only(q, {"pc"}) /\ qz'[q].pc = "experts"
  BY <1>0, SetPc DEF DenseEnd
<1>2. /\ qz'[q].shard = qz[q].shard /\ qz'[q].work = qz[q].work /\ qz'[q].written = qz[q].written
      /\ qz'[q].layer = qz[q].layer
  BY <1>1 DEF Only, RunFields
<1>3. GoesOn(q)
  BY <1>0, <1>1, <1>2 DEF GoesOn, Only, RunTypeOK, Writing, AfterHeader, AfterDense
<1>4. RunMoves(q) /\ OwnsFile(q)' /\ \A p : Holds(q, p)' = Holds(q, p)
  BY <1>0, <1>3, StandStep
<1>5. ExpertsPlaced(q)'
  BY <1>0, <1>2, <1>4, ExpertsStay DEF RunInv
<1>6. \A p \in TensorPlaces(q) : Holds(q, p)
  BY <1>0, DenseAll DEF DenseEnd, RunInv
<1>7. \A p : Holds(q, p) => Holds(q, p)'
  BY <1>4
<1> HIDE DEF ContainerTypeOK
<1>8. RunInv(q)' /\ DoneInv(q)'
  BY <1>0, <1>1, <1>3, <1>4, <1>5, <1>6, <1>7, LateStep
<1> QED BY <1>4, <1>8

\* A worker takes the next expert, and has written nothing of it.
LEMMA TakeStep ==
  ASSUME ContainerInv, NEW q \in Quantiser, NEW t \in Thread, Take(q, t)
  PROVE  RunMoves(q) /\ RunInv(q)' /\ DoneInv(q)'
<1>0. /\ ContainerTypeOK /\ RunInv(q) /\ which' = which /\ disk' = disk /\ RunTypeOK(qz[q])
      /\ qz[q].pc = "experts" /\ qz[q].pc \in Writing /\ qz[q].pc \in AfterHeader /\ qz[q].pc \in AfterDense
      /\ ~PcIs(q, "new")
  BY RunTyped DEF ContainerInv, Take, PcIs, Writing, AfterHeader, AfterDense
<1> DEFINE x == CHOOSE y \in NextListed(q) : \A z \in NextListed(q) : y <= z
<1> DEFINE taken == [qz[q].work EXCEPT ![t] = IF ExpertReadable(ck, Model(q), qz[q].layer, x) THEN <<x, 0>> ELSE <<>>]
<1>1. Exit(q) \/ Set(q, [next |-> x + 1, work |-> taken])
  BY DEF Take
<1>2. CASE Exit(q)
  BY <1>0, <1>2, EndsStep DEF Exit
<1>3. CASE Set(q, [next |-> x + 1, work |-> taken])
  <2>1. x \in Nat
    <3>1. ck.cfg.n_expert \in Nat
      BY <1>0, ContainerAssumption DEF ContainerTypeOK, Given, CheckpointIsSound, ConfigSizes, ck
    <3>2. \A y \in NextListed(q) : y \in Nat
      BY <3>1 DEF NextListed, Listed
    <3>3. NextListed(q) \subseteq Nat /\ NextListed(q) # {}
      BY <3>2 DEF Take
    <3>4. PICK y \in NextListed(q) : \A z \in NextListed(q) : y <= z
      BY <3>3, NatMin
    <3>5. x \in NextListed(q)
      BY <3>4
    <3> QED BY <3>2, <3>5
  <2>2. /\ DOMAIN taken = Thread
        /\ \A s \in Thread : taken[s] = IF s # t THEN qz[q].work[s]
                                        ELSE IF ExpertReadable(ck, Model(q), qz[q].layer, x) THEN <<x, 0>> ELSE <<>>
    BY <1>0 DEF RunTypeOK
  <2> DEFINE change == [next |-> x + 1, work |-> taken]
  <2>3. DOMAIN change = {"next", "work"} /\ change.work = taken /\ Set(q, change)
    BY <1>3
  <2> HIDE DEF change, taken, x
  <2>4. DOMAIN change \subseteq RunFields
    BY <2>3 DEF RunFields
  <2>5. Only(q, {"next", "work"}) /\ qz'[q].work = taken
    BY <1>0, <2>3, <2>4, SetOnly
  <2>6. /\ qz'[q].pc = qz[q].pc /\ qz'[q].shard = qz[q].shard /\ qz'[q].written = qz[q].written
        /\ qz'[q].layer = qz[q].layer
    BY <2>5 DEF Only, RunFields
  <2>7. \A s \in Thread : taken[s] = <<>> \/ taken[s] \in Nat \X (0..8)
    <3> TAKE s \in Thread
    <3>1. <<x, 0>> \in Nat \X (0..8)
      BY <2>1
    <3>2. qz[q].work[s] = <<>> \/ qz[q].work[s] \in Nat \X (0..8)
      BY <1>0 DEF RunTypeOK
    <3> QED BY <2>2, <3>1, <3>2
  <2>8. GoesOn(q)
    BY <1>0, <2>2, <2>5, <2>6, <2>7 DEF GoesOn, Only, RunTypeOK
  <2>9. RunMoves(q) /\ OwnsFile(q)' /\ \A p : Holds(q, p)' = Holds(q, p)
    BY <1>0, <2>8, StandStep
  <2>10. ExpertsPlaced(q)'
    <3>1. ExpertsPlaced(q)
      BY <1>0 DEF RunInv
    <3>2. ASSUME NEW s \in Thread, taken[s] # <<>>, NEW k \in 1..taken[s][2]
          PROVE  Holds(q, ExpertPlace(qz[q].layer, taken[s][1], k))
      <4>1. CASE s = t
        <5>1. taken[s] = <<x, 0>>
          BY <2>2, <3>2, <4>1
        <5> QED BY <3>2, <5>1
      <4>2. CASE s # t
        BY <2>2, <3>1, <3>2, <4>2 DEF ExpertsPlaced
      <4> QED BY <4>1, <4>2
    <3> QED BY <2>5, <2>6, <2>9, <3>1, <3>2 DEF ExpertsPlaced, ExpertPlace
  <2>11. \A p \in TensorPlaces(q) : Holds(q, p)
    BY <1>0 DEF RunInv
  <2>12. \A p : Holds(q, p) => Holds(q, p)'
    BY <2>9
  <2>13. RunInv(q)' /\ DoneInv(q)'
    BY <1>0, <2>6, <2>8, <2>9, <2>10, <2>11, <2>12, LateStep
  <2> QED BY <2>9, <2>13
<1> QED BY <1>1, <1>2, <1>3

\* A worker writes the next section of the expert it has in hand.
LEMMA WriteSectionStep ==
  ASSUME ContainerInv, NEW q \in Quantiser, NEW t \in Thread, WriteSection(q, t)
  PROVE  RunMoves(q) /\ RunInv(q)' /\ DoneInv(q)'
<1>0. /\ ContainerTypeOK /\ RunInv(q) /\ which' = which /\ RunTypeOK(qz[q]) /\ ExpertsPlaced(q)
      /\ qz[q].pc = "experts" /\ qz[q].pc \in Writing /\ qz[q].pc \in AfterHeader /\ qz[q].pc \in AfterDense
  BY RunTyped DEF ContainerInv, RunInv, WriteSection, PcIs, Writing, AfterHeader, AfterDense
<1> DEFINE x == qz[q].work[t][1]
<1> DEFINE k == qz[q].work[t][2] + 1
<1> DEFINE place == ExpertPlace(qz[q].layer, x, k)
<1> DEFINE new == Part(place, q, q)
<1> DEFINE next == [qz[q].work EXCEPT ![t] = IF k < 9 THEN <<x, k>> ELSE <<>>]
<1> DEFINE counted == IF k < 9 THEN qz[q].written ELSE qz[q].written \cup {<<qz[q].layer, x>>}
<1>1. Put(q, new) /\ Set(q, [work |-> next, written |-> counted]) /\ qz[q].work[t] # <<>>
  BY DEF WriteSection
<1>2. x \in Nat /\ k \in 1..9 /\ qz[q].work[t][2] = k - 1
  <2>1. qz[q].work[t] \in Nat \X (0..8)
    BY <1>0, <1>1 DEF RunTypeOK
  <2> QED BY <2>1
<1>3. /\ DOMAIN next = Thread
      /\ \A s \in Thread : next[s] = IF s # t THEN qz[q].work[s] ELSE IF k < 9 THEN <<x, k>> ELSE <<>>
  BY <1>0 DEF RunTypeOK
<1>4. DOMAIN new = {place} /\ \A p \in DOMAIN new : new[p].by = q
  BY PartIs
<1> DEFINE change == [work |-> next, written |-> counted]
<1>5. DOMAIN change = {"work", "written"} /\ change.work = next /\ change.written = counted /\ Set(q, change)
  BY <1>1
<1> HIDE DEF change, next, counted, new, x, k
<1>6. DOMAIN change \subseteq RunFields
  BY <1>5 DEF RunFields
<1>7. Only(q, {"work", "written"}) /\ qz'[q].work = next /\ qz'[q].written = counted
  BY <1>0, <1>5, <1>6, SetOnly
<1>8. qz'[q].pc = qz[q].pc /\ qz'[q].shard = qz[q].shard /\ qz'[q].layer = qz[q].layer
  BY <1>7 DEF Only, RunFields
<1>9. \A s \in Thread : next[s] = <<>> \/ next[s] \in Nat \X (0..8)
  <2> TAKE s \in Thread
  <2>1. k < 9 => <<x, k>> \in Nat \X (0..8)
    BY <1>2
  <2>2. qz[q].work[s] = <<>> \/ qz[q].work[s] \in Nat \X (0..8)
    BY <1>0 DEF RunTypeOK
  <2> QED BY <1>3, <2>1, <2>2
<1>10. GoesOn(q)
  BY <1>0, <1>3, <1>7, <1>8, <1>9 DEF GoesOn, Only, RunTypeOK
<1>11. /\ DirPlace("layers") \notin DOMAIN new
       /\ \A j \in DOMAIN Tensors(q) : TensorPlace(j) \notin DOMAIN new
  BY <1>4, PlacesApart DEF DirPlace
<1>12. RunMoves(q) /\ OwnsFile(q)' /\ \A p : Holds(q, p)' <=> p \in DOMAIN new \/ Holds(q, p)
  BY <1>1, <1>4, <1>10, <1>11, FillStep DEF new
<1>13. \A p : Holds(q, p) => Holds(q, p)'
  BY <1>12
<1> DEFINE Held(p) == p \in DOMAIN new \/ Holds(q, p)
<1>14. Held(ExpertPlace(qz[q].layer, x, k))
  BY <1>4
<1>15. ASSUME NEW j \in 1..k PROVE Held(ExpertPlace(qz[q].layer, x, j))
  <2>1. CASE j = k
    BY <1>14, <2>1
  <2>2. CASE j # k
    <3>1. j \in 1..qz[q].work[t][2]
      BY <1>2, <2>2
    <3> QED BY <1>0, <1>1, <3>1 DEF ExpertsPlaced, x
  <2> QED BY <2>1, <2>2
<1>16. ExpertsPlaced(q)'
  <2>1. ASSUME NEW e \in counted, NEW j \in 1..9 PROVE Held(ExpertPlace(e[1], e[2], j))
    <3>1. CASE e \in qz[q].written
      BY <1>0, <2>1, <3>1 DEF ExpertsPlaced
    <3>2. CASE e \notin qz[q].written
      <4>1. e = <<qz[q].layer, x>> /\ k = 9
        BY <1>2, <2>1, <3>2 DEF counted
      <4>2. j \in 1..k
        BY <4>1
      <4> QED BY <1>15, <4>1, <4>2
    <3> QED BY <3>1, <3>2
  <2>2. ASSUME NEW s \in Thread, next[s] # <<>>, NEW j \in 1..next[s][2]
        PROVE  Held(ExpertPlace(qz[q].layer, next[s][1], j))
    <3>1. CASE s = t
      <4>1. next[s] = <<x, k>>
        BY <1>3, <2>2, <3>1
      <4> QED BY <1>15, <2>2, <4>1
    <3>2. CASE s # t
      BY <1>0, <1>3, <2>2, <3>2 DEF ExpertsPlaced
    <3> QED BY <3>1, <3>2
  <2>3. \A p : Held(p) => Holds(q, p)'
    BY <1>12
  <2> HIDE DEF Held
  <2> QED BY <1>7, <1>8, <2>1, <2>2, <2>3 DEF ExpertsPlaced, ExpertPlace
<1>17. \A p \in TensorPlaces(q) : Holds(q, p)
  BY <1>0 DEF RunInv
<1>18. RunInv(q)' /\ DoneInv(q)'
  BY <1>0, <1>8, <1>10, <1>12, <1>13, <1>16, <1>17, LateStep
<1> QED BY <1>12, <1>18

\* A layer is joined when nothing of it is in hand.
LEMMA JoinLayerStep ==
  ASSUME ContainerInv, NEW q \in Quantiser, JoinLayer(q)
  PROVE  RunMoves(q) /\ RunInv(q)' /\ DoneInv(q)'
<1>0. /\ ContainerTypeOK /\ RunInv(q) /\ which' = which /\ disk' = disk /\ RunTypeOK(qz[q]) /\ ExpertsPlaced(q)
      /\ qz[q].pc = "experts" /\ qz[q].pc \in Writing /\ qz[q].pc \in AfterHeader /\ qz[q].pc \in AfterDense
  BY RunTyped DEF ContainerInv, RunInv, JoinLayer, PcIs, Writing, AfterHeader, AfterDense
<1> DEFINE change == [layer |-> qz[q].layer + 1, next |-> 0]
<1>1. DOMAIN change = {"layer", "next"} /\ Set(q, change)
  BY DEF JoinLayer
<1> HIDE DEF change
<1>2. DOMAIN change \subseteq RunFields
  BY <1>1 DEF RunFields
<1>3. Only(q, {"layer", "next"})
  BY <1>0, <1>1, <1>2, SetOnly
<1>4. /\ qz'[q].pc = qz[q].pc /\ qz'[q].shard = qz[q].shard /\ qz'[q].work = qz[q].work
      /\ qz'[q].written = qz[q].written
  BY <1>3 DEF Only, RunFields
<1>5. GoesOn(q)
  BY <1>0, <1>3, <1>4 DEF GoesOn, Only, RunTypeOK
<1>6. RunMoves(q) /\ OwnsFile(q)' /\ \A p : Holds(q, p)' = Holds(q, p)
  BY <1>0, <1>5, StandStep
<1>7. ExpertsPlaced(q)'
  <2>1. \A t \in Thread : qz'[q].work[t] = <<>>
    BY <1>4 DEF JoinLayer
  <2> QED BY <1>0, <1>4, <1>6, <2>1 DEF ExpertsPlaced, ExpertPlace
<1>8. \A p \in TensorPlaces(q) : Holds(q, p)
  BY <1>0 DEF RunInv
<1>9. \A p : Holds(q, p) => Holds(q, p)'
  BY <1>6
<1>10. RunInv(q)' /\ DoneInv(q)'
  BY <1>0, <1>4, <1>5, <1>6, <1>7, <1>8, <1>9, LateStep
<1> QED BY <1>6, <1>10

\* A run that goes on to its next stage and writes nothing.
LEMMA NextStageStep ==
  ASSUME ContainerInv, NEW q \in Quantiser, which' = which, disk' = disk,
         qz[q].pc \in {"experts", "unlock", "unlink", "check"},
         NEW pc \in {"unlock", "unlink", "check", "tensors"}, Set(q, [pc |-> pc]),
         pc = "tensors" => \A p \in ExpertPlaces(q) : Holds(q, p)
  PROVE  RunMoves(q) /\ RunInv(q)' /\ DoneInv(q)'
<1>0. /\ ContainerTypeOK /\ RunInv(q) /\ RunTypeOK(qz[q]) /\ ExpertsPlaced(q)
      /\ qz[q].pc \in Writing /\ qz[q].pc \in AfterHeader /\ qz[q].pc \in AfterDense
  BY RunTyped DEF ContainerInv, RunInv, Writing, AfterHeader, AfterDense
<1>1. Only(q, {"pc"}) /\ qz'[q].pc = pc
  BY <1>0, SetPc
<1>2. /\ qz'[q].shard = qz[q].shard /\ qz'[q].work = qz[q].work /\ qz'[q].written = qz[q].written
      /\ qz'[q].layer = qz[q].layer
  BY <1>1 DEF Only, RunFields
<1>3. GoesOn(q)
  BY <1>0, <1>1, <1>2 DEF GoesOn, Only, RunTypeOK, Writing, AfterHeader, AfterDense, Closing
<1>4. RunMoves(q) /\ OwnsFile(q)' /\ \A p : Holds(q, p)' = Holds(q, p)
  BY <1>0, <1>3, StandStep
<1>5. ExpertsPlaced(q)'
  BY <1>0, <1>2, <1>4, ExpertsStay
<1>6. \A p \in TensorPlaces(q) : Holds(q, p)
  BY <1>0 DEF RunInv
<1>7. \A p : Holds(q, p) => Holds(q, p)'
  BY <1>4
<1>8. RunInv(q)' /\ DoneInv(q)'
  BY <1>0, <1>1, <1>3, <1>4, <1>5, <1>6, <1>7, LateStep
<1> QED BY <1>4, <1>8

\* The profile is written, or there is none.
LEMMA WriteProfileStep ==
  ASSUME ContainerInv, NEW q \in Quantiser, WriteProfile(q)
  PROVE  RunMoves(q) /\ RunInv(q)' /\ DoneInv(q)'
<1>0. /\ ContainerTypeOK /\ RunInv(q) /\ which' = which /\ RunTypeOK(qz[q]) /\ ExpertsPlaced(q)
      /\ qz[q].pc = "experts" /\ qz[q].pc \in Writing /\ qz[q].pc \in AfterHeader /\ qz[q].pc \in AfterDense
  BY RunTyped DEF ContainerInv, RunInv, WriteProfile, PcIs, Writing, AfterHeader, AfterDense
<1> DEFINE new == Part(<<"profile", 0, 0, 0>>, q, q)
<1> DEFINE change == [pc |-> "unlock", profile |-> TRUE]
<1>1. CASE Set(q, [pc |-> "unlock"]) /\ disk' = disk
  BY <1>0, <1>1, NextStageStep
<1>2. CASE Put(q, new) /\ Set(q, change)
  <2>1. DOMAIN new = {DirPlace("profile")} /\ \A p \in DOMAIN new : new[p].by = q
    BY DEF DirPlace, Part
  <2>2. DOMAIN change = {"pc", "profile"} /\ change.pc = "unlock"
    OBVIOUS
  <2> HIDE DEF new, change
  <2>3. DOMAIN change \subseteq RunFields
    BY <2>2 DEF RunFields
  <2>4. Only(q, {"pc", "profile"}) /\ qz'[q].pc = "unlock"
    BY <1>0, <1>2, <2>2, <2>3, SetOnly
  <2>5. /\ qz'[q].shard = qz[q].shard /\ qz'[q].work = qz[q].work /\ qz'[q].written = qz[q].written
        /\ qz'[q].layer = qz[q].layer
    BY <2>4 DEF Only, RunFields
  <2>6. GoesOn(q)
    BY <1>0, <2>4, <2>5 DEF GoesOn, Only, RunTypeOK, Writing, AfterHeader, AfterDense
  <2>7. /\ DirPlace("layers") \notin DOMAIN new
        /\ \A j \in DOMAIN Tensors(q) : TensorPlace(j) \notin DOMAIN new
    <3>1. DirPlace("layers") # DirPlace("profile")
      BY DEF DirPlace
    <3> QED BY <2>1, <3>1, PlacesApart
  <2>8. RunMoves(q) /\ OwnsFile(q)' /\ \A p : Holds(q, p)' <=> p \in DOMAIN new \/ Holds(q, p)
    BY <1>2, <2>1, <2>6, <2>7, FillStep
  <2>9. \A p : Holds(q, p) => Holds(q, p)'
    BY <2>8
  <2>10. ExpertsPlaced(q)'
    BY <1>0, <2>5, <2>9, ExpertsStay
  <2>11. \A p \in TensorPlaces(q) : Holds(q, p)
    BY <1>0 DEF RunInv
  <2>12. RunInv(q)' /\ DoneInv(q)'
    BY <1>0, <2>4, <2>6, <2>8, <2>9, <2>10, <2>11, LateStep
  <2> QED BY <2>8, <2>12
<1> QED BY <1>1, <1>2 DEF WriteProfile

\* The lock is given up, and its file unlinked.
LEMMA UnlockStep ==
  ASSUME ContainerInv, NEW q \in Quantiser, Unlock(q) \/ Unlink(q)
  PROVE  RunMoves(q) /\ RunInv(q)' /\ DoneInv(q)'
<1>1. CASE Unlock(q)
  BY <1>1, NextStageStep DEF Unlock, PcIs
<1>2. CASE Unlink(q)
  BY <1>2, NextStageStep DEF Unlink, PcIs
<1> QED BY <1>1, <1>2

\* Nothing is missing: every section of every expert is there.
LEMMA CheckMissingStep ==
  ASSUME ContainerInv, NEW q \in Quantiser, CheckMissing(q)
  PROVE  RunMoves(q) /\ RunInv(q)' /\ DoneInv(q)'
<1>0. RunInv(q) /\ which' = which /\ disk' = disk /\ qz[q].pc = "check" /\ ~PcIs(q, "new")
  BY DEF ContainerInv, CheckMissing, PcIs
<1>1. CASE Exit(q)
  BY <1>0, <1>1, EndsStep DEF Exit
<1>2. CASE missing_experts(q) = {} /\ Set(q, [pc |-> "tensors"])
  <2>1. ExpertsPlaced(q)
    BY <1>0 DEF RunInv, Writing, AfterHeader, AfterDense
  <2>2. \A p \in ExpertPlaces(q) : Holds(q, p)
    BY <1>2, <2>1 DEF ExpertPlaces, ExpertsPlaced, missing_experts
  <2> QED BY <1>0, <1>2, <2>2, NextStageStep
<1> QED BY <1>1, <1>2 DEF CheckMissing

\* The directories, one after the other, and the header again.
LEMMA FinalizeStep ==
  ASSUME ContainerInv, NEW q \in Quantiser, Finalize(q)
  PROVE  RunMoves(q) /\ RunInv(q)' /\ DoneInv(q)'
<1> DEFINE pc == qz[q].pc
<1> DEFINE kind == IF pc = "lastheader" THEN "header" ELSE pc
<1>0. /\ ContainerTypeOK /\ RunInv(q) /\ which' = which /\ RunTypeOK(qz[q])
      /\ pc \in Closing /\ pc \in Writing /\ pc \in AfterHeader /\ pc \in AfterDense
  BY RunTyped DEF ContainerInv, Finalize, After, Writing, AfterHeader, AfterDense, Closing
<1>1. Only(q, {"pc"}) /\ qz'[q].pc = After[pc]
  BY <1>0, SetPc DEF Finalize
<1>2. /\ pc = "tensors" => qz'[q].pc = "layers"
      /\ pc = "layers" => qz'[q].pc = "meta"
      /\ pc = "meta" => qz'[q].pc = "lastheader"
      /\ pc = "lastheader" => qz'[q].pc = "done"
  BY <1>1 DEF After
<1>3. /\ qz'[q].shard = qz[q].shard /\ qz'[q].work = qz[q].work /\ qz'[q].written = qz[q].written
      /\ qz'[q].layer = qz[q].layer
  BY <1>1 DEF Only, RunFields
<1>4. qz'[q].pc \in {"layers", "meta", "lastheader", "done"}
  BY <1>0, <1>2 DEF Closing
<1>5. GoesOn(q)
  BY <1>0, <1>1, <1>3, <1>4 DEF GoesOn, Only, RunTypeOK, Writing, AfterHeader, AfterDense, Closing
<1>6. PICK new : Put(q, new) /\ DOMAIN new = {DirPlace(kind)} /\ \A p \in DOMAIN new : new[p].by = q
  <2>1. CASE pc = "lastheader"
    <3>1. Put(q, Header(q))
      BY <2>1 DEF Finalize, PcIs
    <3>2. DOMAIN Header(q) = {DirPlace("header")} /\ \A p \in DOMAIN Header(q) : Header(q)[p].by = q
      BY DEF Header, DirPlace, Part
    <3> QED BY <2>1, <3>1, <3>2
  <2>2. CASE pc # "lastheader"
    <3>1. Put(q, Part(<<pc, 0, 0, 0>>, q, q))
      BY <2>2 DEF Finalize, PcIs
    <3>2. /\ DOMAIN Part(<<pc, 0, 0, 0>>, q, q) = {DirPlace(pc)}
          /\ \A p \in DOMAIN Part(<<pc, 0, 0, 0>>, q, q) : Part(<<pc, 0, 0, 0>>, q, q)[p].by = q
      BY PartIs DEF DirPlace
    <3> QED BY <2>2, <3>1, <3>2
  <2> QED BY <2>1, <2>2
<1>7. /\ DirPlace("layers") \in DOMAIN new => PcIs(q, "layers")
      /\ \A j \in DOMAIN Tensors(q) : TensorPlace(j) \notin DOMAIN new
  <2>1. kind \in {"tensors", "layers", "meta", "header"} /\ (kind = "layers" => pc = "layers")
    BY <1>0 DEF Closing
  <2>2. DirPlace(kind) = DirPlace("layers") => kind = "layers"
    BY DEF DirPlace
  <2>3. \A j : TensorPlace(j) # DirPlace(kind)
    BY <2>1, PlacesApart
  <2> QED BY <1>6, <2>1, <2>2, <2>3 DEF PcIs
<1>8. RunMoves(q) /\ OwnsFile(q)' /\ \A p : Holds(q, p)' <=> p \in DOMAIN new \/ Holds(q, p)
  BY <1>5, <1>6, <1>7, FillStep
<1>9. SamePlan(q)
  BY <1>5, GoesOnSame
<1> DEFINE Held(p) == p \in DOMAIN new \/ Holds(q, p)
<1>10. \A p : Held(p) => Holds(q, p)'
  BY <1>8
<1>11. \A p \in TensorPlaces(q) \cup ExpertPlaces(q) : Held(p)
  BY <1>0 DEF RunInv
<1>12. Held(DirPlace("header"))
  BY <1>0 DEF RunInv
<1>13. Held(DirPlace("tensors")) /\ (pc # "tensors" => Held(DirPlace("layers")))
       /\ (pc \in {"meta", "lastheader"} => Held(DirPlace("meta")))
  <2>1. pc = "tensors" => kind = "tensors"
    OBVIOUS
  <2>2. pc = "layers" => kind = "layers"
    OBVIOUS
  <2>3. pc = "meta" => kind = "meta"
    OBVIOUS
  <2> HIDE DEF kind
  <2>4. pc # "tensors" => Holds(q, DirPlace("tensors"))
    BY <1>0 DEF RunInv, Closing
  <2>5. pc \in {"meta", "lastheader"} => Holds(q, DirPlace("layers"))
    BY <1>0 DEF RunInv
  <2>6. pc = "lastheader" => Holds(q, DirPlace("meta"))
    BY <1>0 DEF RunInv
  <2> QED BY <1>0, <1>6, <2>1, <2>2, <2>3, <2>4, <2>5, <2>6 DEF Closing
<1> HIDE DEF Held, kind
<1>14. /\ Holds(q, DirPlace("header"))' /\ Holds(q, DirPlace("tensors"))'
       /\ (pc # "tensors" => Holds(q, DirPlace("layers"))')
       /\ (pc \in {"meta", "lastheader"} => Holds(q, DirPlace("meta"))')
  BY <1>10, <1>12, <1>13 DEF DirPlace
<1>15. (\A p \in TensorPlaces(q) : Holds(q, p))' /\ (\A p \in ExpertPlaces(q) : Holds(q, p))'
  BY <1>9, <1>10, <1>11 DEF SamePlan
<1>16. ExpertsPlaced(q)'
  <2>1. ExpertsPlaced(q) /\ \A p : Holds(q, p) => Holds(q, p)'
    BY <1>0, <1>8 DEF RunInv
  <2> QED BY <1>3, <2>1, ExpertsStay
<1>17. /\ qz'[q].pc \notin Opening \cup {"header"} /\ qz'[q].pc # "dense"
       /\ (qz'[q].pc \in {"meta", "lastheader"} => pc # "tensors")
       /\ (qz'[q].pc = "lastheader" => pc = "meta")
       /\ (qz'[q].pc = "done" => pc = "lastheader")
  BY <1>0, <1>2, <1>4 DEF Opening, Closing
<1>18. RunInv(q)'
  BY <1>8, <1>14, <1>15, <1>16, <1>17 DEF RunInv
<1>19. DoneInv(q)'
  <2>1. qz'[q].pc = "done" => \A k \in {"header", "tensors", "layers", "meta"} : Holds(q, DirPlace(k))'
    BY <1>14, <1>17
  <2> QED BY <1>8, <1>15, <2>1 DEF DoneInv, PcIs, DirPlace
<1> QED BY <1>8, <1>18, <1>19

\* A run is killed.
LEMMA KillStep ==
  ASSUME ContainerInv, NEW q \in Quantiser, Kill(q)
  PROVE  RunMoves(q) /\ RunInv(q)' /\ DoneInv(q)'
<1>1. ~PcIs(q, "new") /\ disk' = disk /\ which' = which /\ Ends(q, "killed")
  BY DEF Kill, Running, PcIs
<1> QED BY <1>1, EndsStep

-----------------------------------------------------------------------------
(* The invariant.                                                          *)

\* A step that changes no file, no run and not the checkpoint.
LEMMA SameKeeps ==
  ASSUME ContainerInv, which' = which, disk' = disk, qz' = qz
  PROVE  ContainerInv'
<1>0. ContainerTypeOK /\ InOrder
  BY DEF ContainerInv
<1>1. ContainerTypeOK' /\ InOrder'
  BY <1>0 DEF ContainerTypeOK, InOrder, PcIs
<1>2. \A r \in Quantiser : LastOn(r)' => LastOn(r)
  BY DEF LastOn, Out, PcIs
<1>3. \A r \in Quantiser : disk'[Out(r)] = disk[Out(r)]
  OBVIOUS
<1>4. \A r \in Quantiser : RunInv(r)' /\ DoneInv(r)'
  BY <1>2, <1>3, SameRun, SameDone DEF ContainerInv
<1>5. \A r \in Quantiser : Out(r)' = Out(r) /\ TensorPlaces(r)' = TensorPlaces(r) /\ ExpertPlaces(r)' = ExpertPlaces(r)
  BY DEF Out, Plan, Tensors, TensorPlaces, ExpertPlaces, AllExperts, Dspark, NLayer, ck
<1>6. \A f \in File : FileInv(f)'
  BY <1>5 DEF ContainerInv, FileInv, DirPlace
<1> QED BY <1>1, <1>4, <1>6 DEF ContainerInv

\* Nothing is written at the start.
LEMMA ContainerStart == ContainerInit => ContainerInv
<1> SUFFICES ASSUME ContainerInit PROVE ContainerInv
  OBVIOUS
<1>1. PICK job \in {j \in [Quantiser -> UNION {Jobs[q] : q \in Quantiser}] : \A q \in Quantiser : j[q] \in Jobs[q]} :
        qz = [q \in Quantiser |->
               [pc |-> "new", job |-> job[q], cb |-> 0, ino |-> 0, size |-> 0, shard |-> 0, layer |-> 0, next |-> 0,
                work |-> [t \in Thread |-> <<>>], written |-> {}, profile |-> FALSE]]
  BY DEF ContainerInit
<1>2. \A q \in Quantiser : job[q] \in Jobs[q]
  BY <1>1
<1>3. /\ DOMAIN qz = Quantiser
      /\ \A q \in Quantiser : /\ DOMAIN qz[q] = RunFields
                              /\ qz[q].pc = "new" /\ qz[q].job \in Jobs[q] /\ qz[q].shard = 0 /\ qz[q].written = {}
                              /\ qz[q].work = [t \in Thread |-> <<>>]
  BY <1>1, <1>2 DEF RunFields
<1>4. ContainerTypeOK
  <2>1. DOMAIN disk = File /\ \A f \in File : DOMAIN disk[f] = {"size", "parts"}
    BY DEF ContainerInit, File
  <2>2. which \in DOMAIN Given
    BY DEF ContainerInit
  <2> QED BY <1>3, <2>1, <2>2 DEF ContainerTypeOK, Opening
<1>5. InOrder
  BY <1>3 DEF InOrder, PcIs
<1>6. ASSUME NEW q \in Quantiser PROVE RunInv(q) /\ DoneInv(q)
  <2>1. qz[q].pc = "new" /\ qz[q].shard = 0 /\ qz[q].written = {} /\ \A t \in Thread : qz[q].work[t] = <<>>
    BY <1>3
  <2>2. /\ qz[q].pc \notin Writing /\ qz[q].pc \notin AfterHeader /\ qz[q].pc \notin AfterDense
        /\ qz[q].pc \notin Closing /\ qz[q].pc # "dense" /\ qz[q].pc \notin {"layers", "meta", "lastheader"}
        /\ qz[q].pc \notin {"meta", "lastheader"} /\ qz[q].pc # "lastheader" /\ qz[q].pc # "done"
    BY <2>1 DEF Writing, AfterHeader, AfterDense, Closing
  <2> QED BY <2>1, <2>2 DEF RunInv, DoneInv, PcIs
<1>7. ASSUME NEW f \in File PROVE FileInv(f)
  <2>1. disk[f].parts = <<>>
    BY <1>7 DEF ContainerInit, File
  <2>2. DOMAIN disk[f].parts = {}
    BY <2>1
  <2> QED BY <2>2 DEF FileInv
<1> QED BY <1>4, <1>5, <1>6, <1>7 DEF ContainerInv

\* Whatever a run does next, what is asked of it holds again.
LEMMA StepMoves ==
  ASSUME ContainerInv, NEW q \in Quantiser, QuantiserNext(q), ~Reap(q)
  PROVE  RunMoves(q) /\ RunInv(q)' /\ DoneInv(q)'
<1>1. CASE Begin0(q)
  BY <1>1, BeginStep0
<1>2. CASE Fit(q)
  BY <1>2, FitStep
<1>3. CASE OpenLock(q)
  BY <1>3, OpenLockStep
<1>4. CASE Flock(q)
  BY <1>4, FlockStep
<1>5. CASE Create(q)
  BY <1>5, CreateStep
<1>6. CASE PlaceHeader(q)
  BY <1>6, PlaceHeaderStep
<1>7. CASE DenseShard(q)
  BY <1>7, DenseShardStep
<1>8. CASE DenseEnd(q)
  BY <1>8, DenseEndStep
<1>9. CASE \E t \in Thread : Take(q, t)
  BY <1>9, TakeStep
<1>10. CASE \E t \in Thread : WriteSection(q, t)
  BY <1>10, WriteSectionStep
<1>11. CASE JoinLayer(q)
  BY <1>11, JoinLayerStep
<1>12. CASE WriteProfile(q)
  BY <1>12, WriteProfileStep
<1>13. CASE Unlock(q) \/ Unlink(q)
  BY <1>13, UnlockStep
<1>14. CASE CheckMissing(q)
  BY <1>14, CheckMissingStep
<1>15. CASE Finalize(q)
  BY <1>15, FinalizeStep
<1>16. CASE Kill(q)
  BY <1>16, KillStep
<1> QED BY <1>1, <1>2, <1>3, <1>4, <1>5, <1>6, <1>7, <1>8, <1>9, <1>10, <1>11, <1>12, <1>13, <1>14,
           <1>15, <1>16 DEF QuantiserNext

\* And so does the invariant.
LEMMA QuantiserStep ==
  ASSUME OneAtATime, ContainerInv, NEW q \in Quantiser, QuantiserNext(q)
  PROVE  ContainerInv'
<1>1. CASE Reap(q)
  BY <1>1, SameKeeps DEF Reap
<1>2. CASE ~Reap(q)
  BY <1>2, StepMoves, MoveKeeps
<1> QED BY <1>1, <1>2

\* Runs of aff-quantize that take turns on a file keep the invariant: whoever is writing
\* has the file to itself and has put there all that its stage calls for, and a layer
\* directory is written over a whole container only (tools/aff_quantize.cpp).
THEOREM ContainerInvariance ==
  ASSUME OneAtATime
  PROVE  ContainerSpec => []ContainerInv
<1>1. ContainerInit => ContainerInv
  BY ContainerStart
<1>2. ContainerInv /\ [ContainerNext]_cvars => ContainerInv'
  <2> SUFFICES ASSUME ContainerInv, [ContainerNext]_cvars PROVE ContainerInv'
    OBVIOUS
  <2>1. CASE ContainerNext
    BY <2>1, QuantiserStep DEF ContainerNext
  <2>2. CASE UNCHANGED cvars
    BY <2>2, SameKeeps DEF cvars
  <2> QED BY <2>1, <2>2
<1> QED BY <1>1, <1>2, PTL DEF ContainerSpec

-----------------------------------------------------------------------------
(* The layout of a container (AffFormat): its offsets only grow.           *)

\* Rounding up loses nothing.
LEMMA AlignUp ==
  ASSUME NEW v \in Nat
  PROVE  /\ align_up(v, 8) \in Nat /\ v <= align_up(v, 8)
         /\ align_up(v, kBlockAlign) \in Nat /\ v <= align_up(v, kBlockAlign)
         /\ align_up(v, kExpertAlign) \in Nat /\ v <= align_up(v, kExpertAlign)
         /\ align_up(v, kPoolAlign) \in Nat /\ v <= align_up(v, kPoolAlign)
BY DEF align_up, kBlockAlign, kExpertAlign, kPoolAlign

\* Products and sums of sizes are sizes.
LEMMA Product ==
  ASSUME NEW x \in Nat, NEW y \in Nat
  PROVE  x * y \in Nat /\ (x + 1) * y = x * y + y
<1>1. x * y \in Int /\ x * y >= 0
  OBVIOUS
<1> QED BY <1>1

\* What quantised weights take.
LEMMA QuantSizes ==
  ASSUME NEW quant \in DOMAIN kQuantTable, NEW w \in Nat
  PROVE  /\ quant_data_bytes(quant, w) \in Nat /\ quant_scale_bytes(quant, w) \in Nat
         /\ quant_row_scale_bytes(quant, w) \in Nat
<1>1. quant \in {"f32", "bf16", "fp8_e4m3", "q2p875", "q2p875q4"}
  BY DEF kQuantTable
<1>2. /\ kQuantTable[quant].block \in {1, 256, 16384}
      /\ kQuantTable[quant].data \in Nat /\ kQuantTable[quant].scale \in Nat /\ kQuantTable[quant].row \in Nat
  BY <1>1 DEF kQuantTable
<1>3. SuperBlocks(quant, w) \in Nat
  <2> DEFINE b == kQuantTable[quant].block
  <2> HIDE DEF b
  <2>1. b \in {1, 256, 16384} => (w + b - 1) \div b \in Nat
    OBVIOUS
  <2> QED BY <1>2, <2>1 DEF b, SuperBlocks
<1> QED BY <1>2, <1>3, Product DEF quant_data_bytes, quant_scale_bytes, quant_row_scale_bytes

\* A declared tensor that can be laid out.
DeclOK(d) == d.quant \in DOMAIN kQuantTable /\ d.rows \in Nat /\ d.cols \in Nat

\* A tensor's three parts lie one after the other, within its blob.
LEMMA TensorDescIs ==
  ASSUME NEW d, DeclOK(d)
  PROVE  LET t == TensorDesc(d) IN
         /\ \A k \in 1..3 : t.off[k] \in Nat /\ t.size[k] \in Nat
         /\ t.off[1] = 0 /\ t.size[1] <= t.off[2] /\ t.off[2] + t.size[2] <= t.off[3]
         /\ t.bytes \in Nat /\ t.bytes = t.off[3] + t.size[3]
<1> DEFINE data == quant_data_bytes(d.quant, d.rows * d.cols)
<1> DEFINE scale == quant_scale_bytes(d.quant, d.rows * d.cols)
<1> DEFINE rscale == quant_row_scale_bytes(d.quant, d.rows)
<1> DEFINE scale_off == align_up(data, kBlockAlign)
<1> DEFINE rscale_off == align_up(scale_off + scale, kBlockAlign)
<1>1. TensorDesc(d) = [size |-> <<data, scale, rscale>>, off |-> <<0, scale_off, rscale_off>>,
                       bytes |-> rscale_off + rscale]
  BY DEF TensorDesc
<1>2. d.rows * d.cols \in Nat
  BY Product DEF DeclOK
<1>3. data \in Nat /\ scale \in Nat /\ rscale \in Nat
  BY <1>2, QuantSizes DEF DeclOK
<1> HIDE DEF data, scale, rscale
<1>4. scale_off \in Nat /\ data <= scale_off
  BY <1>3, AlignUp
<1> HIDE DEF scale_off
<1>5. scale_off + scale \in Nat
  BY <1>3, <1>4
<1>6. rscale_off \in Nat /\ scale_off + scale <= rscale_off
  BY <1>5, AlignUp
<1> HIDE DEF rscale_off
<1>7. rscale_off + rscale \in Nat
  BY <1>3, <1>6
<1> DEFINE t == [size |-> <<data, scale, rscale>>, off |-> <<0, scale_off, rscale_off>>,
                 bytes |-> rscale_off + rscale]
<1>8. /\ t.off[1] = 0 /\ t.off[2] = scale_off /\ t.off[3] = rscale_off
      /\ t.size[1] = data /\ t.size[2] = scale /\ t.size[3] = rscale /\ t.bytes = rscale_off + rscale
  OBVIOUS
<1> HIDE DEF t
<1>9. \A k \in 1..3 : t.off[k] \in Nat /\ t.size[k] \in Nat
  <2> TAKE k \in 1..3
  <2>1. k = 1 \/ k = 2 \/ k = 3
    OBVIOUS
  <2> QED BY <1>3, <1>4, <1>6, <1>8, <2>1
<1>10. TensorDesc(d) = t
  BY <1>1 DEF t
<1> QED BY <1>3, <1>4, <1>6, <1>7, <1>8, <1>9, <1>10

\* A walk that goes from a natural to a natural.
LEMMA Climbs ==
  ASSUME NEW n \in Nat, NEW f, f[0] \in Nat, \A i \in 1..n : f[i - 1] \in Nat => f[i] \in Nat
  PROVE  \A i \in 0..n : f[i] \in Nat
<1> DEFINE S == {i \in 0..n : f[i] \in Nat}
<1>1. 0 \in S
  OBVIOUS
<1>2. \A i \in 0..(n - 1) : i \in S => i + 1 \in S
  <2> TAKE i \in 0..(n - 1)
  <2> HAVE i \in S
  <2>1. i + 1 \in 1..n /\ i + 1 \in 0..n /\ (i + 1) - 1 = i
    OBVIOUS
  <2> QED BY <2>1
<1>3. \A i \in 0..n : i \in S
  <2> HIDE DEF S
  <2> QED BY <1>1, <1>2, UpTo
<1> QED BY <1>3

\* Where the tensors' blobs end.
LEMMA BlobsIs ==
  ASSUME NEW tensors, Len(tensors) \in Nat, \A i \in 1..Len(tensors) : DeclOK(tensors[i])
  PROVE  LET end == Blobs(tensors) IN
         /\ \A i \in 0..Len(tensors) : end[i] \in Nat
         /\ end[0] = 0
         /\ \A i \in 1..Len(tensors) : end[i - 1] + TensorDesc(tensors[i]).bytes <= end[i]
<1> DEFINE n == Len(tensors)
<1> DEFINE blob(i) == TensorDesc(tensors[i]).bytes
<1>1. \A i \in 1..n : blob(i) \in Nat
  BY TensorDescIs
<1> HIDE DEF blob
<1> DEFINE T == [i \in 1..n |-> [v \in Nat |-> align_up(v + blob(i), kBlockAlign)]]
<1>2. \A i \in 1..n : \A v \in Nat :
        align_up(v + blob(i), kBlockAlign) \in Nat /\ v + blob(i) <= align_up(v + blob(i), kBlockAlign)
  <2> TAKE i \in 1..n
  <2> TAKE v \in Nat
  <2>1. v + blob(i) \in Nat
    BY <1>1
  <2> QED BY <2>1, AlignUp
<1>3. T \in [1..n -> [Nat -> Nat]]
  BY <1>2
<1>4. PICK g : WalkOf(g, Nat, n, 0, T)
  <2>1. StepsIn(Nat, n, 0, T)
    BY <1>3 DEF StepsIn
  <2> HIDE DEF T, n
  <2> QED BY <2>1, StepsExist
<1>5. g \in [0..n -> Nat] /\ g[0] = 0 /\ \A i \in 1..n : g[i] = T[i][g[i - 1]]
  BY <1>4 DEF WalkOf
<1>6. \A i \in 1..n : i - 1 \in 0..n /\ i # 0 /\ g[i - 1] \in Nat /\ g[i] = align_up(g[i - 1] + blob(i), kBlockAlign)
  <2> TAKE i \in 1..n
  <2>1. i - 1 \in 0..n /\ i # 0
    OBVIOUS
  <2>2. g[i - 1] \in Nat
    BY <1>5, <2>1
  <2>3. \A v \in Nat : T[i][v] = align_up(v + blob(i), kBlockAlign)
    OBVIOUS
  <2> HIDE DEF T
  <2> QED BY <1>5, <2>1, <2>2, <2>3
<1> HIDE DEF T, n
<1>7. \E h : h = [i \in 0..n |-> IF i = 0 THEN 0 ELSE align_up(h[i - 1] + blob(i), kBlockAlign)]
  <2>1. g = [i \in 0..n |-> IF i = 0 THEN 0 ELSE align_up(g[i - 1] + blob(i), kBlockAlign)]
    <3>1. \A i \in 0..n : g[i] = IF i = 0 THEN 0 ELSE align_up(g[i - 1] + blob(i), kBlockAlign)
      <4> TAKE i \in 0..n
      <4>1. i = 0 \/ i \in 1..n
        BY DEF n
      <4> QED BY <1>5, <1>6, <4>1
    <3>2. g = [i \in 0..n |-> g[i]]
      BY <1>5
    <3> QED BY <3>1, <3>2
  <2> QED BY <2>1
<1> DEFINE end == CHOOSE h : h = [i \in 0..n |-> IF i = 0 THEN 0 ELSE align_up(h[i - 1] + blob(i), kBlockAlign)]
<1>8. Blobs(tensors) = end
  BY DEF Blobs, n, blob
<1>9. end = [i \in 0..n |-> IF i = 0 THEN 0 ELSE align_up(end[i - 1] + blob(i), kBlockAlign)]
  BY <1>7
<1> HIDE DEF end
<1>10. n \in Nat
  BY DEF n
<1>11. end[0] = 0 /\ \A i \in 1..n : end[i] = align_up(end[i - 1] + blob(i), kBlockAlign)
  BY <1>9, <1>10
<1>12. \A i \in 1..n : end[i - 1] \in Nat => end[i] \in Nat
  BY <1>2, <1>11
<1>13. \A i \in 0..n : end[i] \in Nat
  <2>1. end[0] \in Nat
    BY <1>11
  <2> QED BY ONLY <1>10, <1>12, <2>1, Climbs
<1>14. \A i \in 1..n : end[i - 1] + blob(i) <= end[i]
  <2> TAKE i \in 1..n
  <2>1. i - 1 \in 0..n
    BY <1>10
  <2> QED BY <1>2, <1>11, <1>13, <2>1
<1> QED BY <1>8, <1>11, <1>13, <1>14 DEF n, blob

\* Where an expert's sections end.
LEMMA PlaceIs ==
  ASSUME NEW size, \A k \in 1..9 : size[k] \in Nat
  PROVE  LET end == Place(size) IN
         /\ \A k \in 0..9 : end[k] \in Nat
         /\ end[0] = 0 /\ \A k \in 1..9 : end[k - 1] + size[k] <= end[k]
<1> DEFINE T == [k \in 1..9 |-> [v \in Nat |-> align_up(v + size[k], kBlockAlign)]]
<1>1. \A k \in 1..9 : \A v \in Nat :
        align_up(v + size[k], kBlockAlign) \in Nat /\ v + size[k] <= align_up(v + size[k], kBlockAlign)
  <2> TAKE k \in 1..9
  <2> TAKE v \in Nat
  <2>1. v + size[k] \in Nat
    OBVIOUS
  <2> QED BY <2>1, AlignUp
<1>2. T \in [1..9 -> [Nat -> Nat]]
  BY <1>1
<1>3. \A k \in 1..9 : \A v \in Nat : T[k][v] = align_up(v + size[k], kBlockAlign)
  OBVIOUS
<1> HIDE DEF T
<1>4. PICK g : WalkOf(g, Nat, 9, 0, T)
  <2>1. StepsIn(Nat, 9, 0, T)
    BY <1>2 DEF StepsIn
  <2> QED BY <2>1, StepsExist
<1>5. g \in [0..9 -> Nat] /\ g[0] = 0 /\ \A k \in 1..9 : g[k] = T[k][g[k - 1]]
  BY <1>4 DEF WalkOf
<1>6. \A k \in 0..9 : g[k] = IF k = 0 THEN 0 ELSE align_up(g[k - 1] + size[k], kBlockAlign)
  <2> TAKE k \in 0..9
  <2>1. CASE k = 0
    BY <1>5, <2>1
  <2>2. CASE k # 0
    <3>1. k \in 1..9 /\ k - 1 \in 0..9
      BY <2>2
    <3>2. g[k - 1] \in Nat
      BY <1>5, <3>1
    <3> QED BY <1>3, <1>5, <2>2, <3>1, <3>2
  <2> QED BY <2>1, <2>2
<1>7. \E h : h = [k \in 0..9 |-> IF k = 0 THEN 0 ELSE align_up(h[k - 1] + size[k], kBlockAlign)]
  <2>1. g = [k \in 0..9 |-> g[k]]
    BY <1>5
  <2>2. g = [k \in 0..9 |-> IF k = 0 THEN 0 ELSE align_up(g[k - 1] + size[k], kBlockAlign)]
    BY <1>6, <2>1
  <2> QED BY <2>2
<1> DEFINE end == CHOOSE h : h = [k \in 0..9 |-> IF k = 0 THEN 0 ELSE align_up(h[k - 1] + size[k], kBlockAlign)]
<1>8. Place(size) = end
  BY DEF Place
<1>9. end = [k \in 0..9 |-> IF k = 0 THEN 0 ELSE align_up(end[k - 1] + size[k], kBlockAlign)]
  BY <1>7
<1> HIDE DEF end
<1>10. end[0] = 0 /\ \A k \in 1..9 : end[k] = align_up(end[k - 1] + size[k], kBlockAlign)
  BY <1>9
<1>11. \A k \in 1..9 : end[k - 1] \in Nat => end[k] \in Nat
  BY <1>1, <1>10
<1>12. \A k \in 0..9 : end[k] \in Nat
  BY <1>10, <1>11, Climbs
<1>13. \A k \in 1..9 : end[k - 1] + size[k] <= end[k]
  <2> TAKE k \in 1..9
  <2>1. k - 1 \in 0..9
    OBVIOUS
  <2> QED BY <1>1, <1>10, <1>12, <2>1
<1> QED BY <1>8, <1>10, <1>12, <1>13

\* The sections of an expert lie one after the other, within its stride.
GeomOK(geom) == geom.hidden \in Nat /\ geom.inter \in Nat /\ geom.quant \in DOMAIN kQuantTable

\* An expert's nine sections lie one after the other, within its stride.
LEMMA ExpertLayoutIs ==
  ASSUME NEW geom, GeomOK(geom)
  PROVE  LET L == ExpertLayout(geom) IN
         /\ L.stride \in Nat /\ \A k \in 1..9 : L.off[k] \in Nat /\ L.size[k] \in Nat
         /\ \A k \in 1..9 : L.off[k] + L.size[k] <= IF k < 9 THEN L.off[k + 1] ELSE L.stride
<1> DEFINE size == [k \in 1..9 |-> SectionSize(geom, k)]
<1>1. \A k \in 1..9 : SectionSize(geom, k) \in Nat
  <2> TAKE k \in 1..9
  <2>1. SectionNames[k][2] \in {"data", "scale", "rscale"}
    <3>1. SectionNames[k][2] = SectionTiers[((k - 1) \div 3) + 1]
      BY DEF SectionNames
    <3>2. ((k - 1) \div 3) + 1 \in {1, 2, 3}
      OBVIOUS
    <3> QED BY <3>1, <3>2 DEF SectionTiers
  <2>2. geom.hidden * geom.inter \in Nat
    BY Product DEF GeomOK
  <2>3. /\ quant_data_bytes(geom.quant, geom.hidden * geom.inter) \in Nat
        /\ quant_scale_bytes(geom.quant, geom.hidden * geom.inter) \in Nat
        /\ quant_row_scale_bytes(geom.quant, geom.hidden) \in Nat
        /\ quant_row_scale_bytes(geom.quant, geom.inter) \in Nat
    BY <2>2, QuantSizes DEF GeomOK
  <2> QED BY <2>1, <2>3 DEF SectionSize
<1>2. \A k \in 1..9 : size[k] \in Nat
  BY <1>1
<1> HIDE DEF size
<1> DEFINE end == Place(size)
<1>3. /\ \A k \in 0..9 : end[k] \in Nat
      /\ end[0] = 0 /\ \A k \in 1..9 : end[k - 1] + size[k] <= end[k]
  BY <1>2, PlaceIs
<1>4. ExpertLayout(geom) = [off |-> [k \in 1..9 |-> end[k - 1]], size |-> size, stride |-> align_up(end[9], kExpertAlign)]
  BY DEF ExpertLayout, size
<1> HIDE DEF end
<1>5. align_up(end[9], kExpertAlign) \in Nat /\ end[9] <= align_up(end[9], kExpertAlign)
  BY <1>3, AlignUp
<1> DEFINE L == ExpertLayout(geom)
<1>6. L.size = size /\ L.stride = align_up(end[9], kExpertAlign) /\ \A k \in 1..9 : L.off[k] = end[k - 1]
  BY <1>4
<1> HIDE DEF L
<1>7. \A k \in 1..9 : L.off[k] \in Nat /\ L.size[k] \in Nat
  <2> TAKE k \in 1..9
  <2>1. k - 1 \in 0..9
    OBVIOUS
  <2> QED BY <1>2, <1>3, <1>6, <2>1
<1>8. \A k \in 1..9 : L.off[k] + L.size[k] <= IF k < 9 THEN L.off[k + 1] ELSE L.stride
  <2> TAKE k \in 1..9
  <2>1. end[k - 1] + size[k] <= end[k] /\ end[k - 1] \in Nat /\ end[k] \in Nat
    <3>1. k - 1 \in 0..9 /\ k \in 0..9
      OBVIOUS
    <3> QED BY <1>3, <3>1
  <2>2. CASE k < 9
    <3>1. k + 1 \in 1..9 /\ (k + 1) - 1 = k
      BY <2>2
    <3>2. L.off[k + 1] = end[k]
      BY <1>6, <3>1
    <3> QED BY <1>6, <2>1, <2>2, <3>2
  <2>3. CASE ~(k < 9)
    <3>1. k = 9
      BY <2>3
    <3>2. end[8] + size[9] <= end[9] /\ end[8] \in Nat /\ end[9] \in Nat /\ L.off[9] = end[8]
      BY <1>6, <2>1, <3>1
    <3> QED BY <1>2, <1>5, <1>6, <3>1, <3>2
  <2> QED BY <2>2, <2>3
<1> QED BY <1>5, <1>6, <1>7, <1>8 DEF L

\* A layer whose experts can be laid out.
LayerOK(layer) == layer.n_experts \in Nat /\ GeomOK(layer.geom)

\* Where the layers' experts end.
LEMMA PoolsIs ==
  ASSUME NEW layers, Len(layers) \in Nat, \A l \in 1..Len(layers) : LayerOK(layers[l])
  PROVE  LET end == Pools(layers) IN
         /\ \A l \in 0..Len(layers) : end[l] \in Nat
         /\ end[0] = 0
         /\ \A l \in 1..Len(layers) :
              end[l] = end[l - 1] + layers[l].n_experts * ExpertLayout(layers[l].geom).stride
<1> DEFINE n == Len(layers)
<1> DEFINE bulk(l) == layers[l].n_experts * ExpertLayout(layers[l].geom).stride
<1>1. \A l \in 1..n : bulk(l) \in Nat
  <2> TAKE l \in 1..n
  <2>1. ExpertLayout(layers[l].geom).stride \in Nat /\ layers[l].n_experts \in Nat
    BY ExpertLayoutIs DEF LayerOK
  <2> QED BY <2>1, Product
<1> HIDE DEF bulk
<1> DEFINE T == [l \in 1..n |-> [v \in Nat |-> v + bulk(l)]]
<1>2. T \in [1..n -> [Nat -> Nat]]
  BY <1>1
<1>3. \A l \in 1..n : \A v \in Nat : T[l][v] = v + bulk(l)
  OBVIOUS
<1>4. n \in Nat
  OBVIOUS
<1> HIDE DEF T, n
<1>5. PICK g : WalkOf(g, Nat, n, 0, T)
  <2>1. StepsIn(Nat, n, 0, T)
    BY <1>2, <1>4 DEF StepsIn
  <2> QED BY <2>1, StepsExist
<1>6. g \in [0..n -> Nat] /\ g[0] = 0 /\ \A l \in 1..n : g[l] = T[l][g[l - 1]]
  BY <1>5 DEF WalkOf
<1>7. \A l \in 0..n : g[l] = IF l = 0 THEN 0 ELSE g[l - 1] + bulk(l)
  <2> TAKE l \in 0..n
  <2>1. CASE l = 0
    BY <1>6, <2>1
  <2>2. CASE l # 0
    <3>1. l \in 1..n /\ l - 1 \in 0..n
      BY <1>4, <2>2
    <3>2. g[l - 1] \in Nat
      BY <1>6, <3>1
    <3> QED BY <1>3, <1>6, <2>2, <3>1, <3>2
  <2> QED BY <2>1, <2>2
<1>8. \E h : h = [l \in 0..n |-> IF l = 0 THEN 0 ELSE h[l - 1] + bulk(l)]
  <2>1. g = [l \in 0..n |-> g[l]]
    BY <1>6
  <2>2. g = [l \in 0..n |-> IF l = 0 THEN 0 ELSE g[l - 1] + bulk(l)]
    BY <1>7, <2>1
  <2> QED BY <2>2
<1> DEFINE end == CHOOSE h : h = [l \in 0..n |-> IF l = 0 THEN 0 ELSE h[l - 1] + bulk(l)]
<1>9. Pools(layers) = end
  BY DEF Pools, n, bulk
<1>10. end = [l \in 0..n |-> IF l = 0 THEN 0 ELSE end[l - 1] + bulk(l)]
  BY <1>8
<1> HIDE DEF end
<1>11. end[0] = 0 /\ \A l \in 1..n : end[l] = end[l - 1] + bulk(l)
  BY <1>4, <1>10
<1>12. \A l \in 1..n : end[l - 1] \in Nat => end[l] \in Nat
  BY <1>1, <1>11 DEF n
<1>13. \A l \in 0..n : end[l] \in Nat
  <2>1. end[0] \in Nat
    BY <1>11
  <2> QED BY ONLY <1>4, <1>12, <2>1, Climbs
<1> QED BY <1>9, <1>11, <1>13 DEF n, bulk

\* How many experts the layers have.
LEMMA TotalIs ==
  ASSUME NEW layers, Len(layers) \in Nat, \A l \in 1..Len(layers) : LayerOK(layers[l])
  PROVE  TotalExperts(layers) \in Nat
<1> DEFINE n == Len(layers)
<1> DEFINE own(l) == layers[l].n_experts
<1>1. \A l \in 1..n : own(l) \in Nat
  BY DEF LayerOK
<1> HIDE DEF own
<1> DEFINE T == [l \in 1..n |-> [v \in Nat |-> v + own(l)]]
<1>2. T \in [1..n -> [Nat -> Nat]]
  BY <1>1
<1>3. \A l \in 1..n : \A v \in Nat : T[l][v] = v + own(l)
  OBVIOUS
<1>4. n \in Nat
  OBVIOUS
<1> HIDE DEF T, n
<1>5. PICK g : WalkOf(g, Nat, n, 0, T)
  <2>1. StepsIn(Nat, n, 0, T)
    BY <1>2, <1>4 DEF StepsIn
  <2> QED BY <2>1, StepsExist
<1>6. g \in [0..n -> Nat] /\ g[0] = 0 /\ \A l \in 1..n : g[l] = T[l][g[l - 1]]
  BY <1>5 DEF WalkOf
<1>7. \A l \in 0..n : g[l] = IF l = 0 THEN 0 ELSE g[l - 1] + own(l)
  <2> TAKE l \in 0..n
  <2>1. CASE l = 0
    BY <1>6, <2>1
  <2>2. CASE l # 0
    <3>1. l \in 1..n /\ l - 1 \in 0..n
      BY <1>4, <2>2
    <3>2. g[l - 1] \in Nat
      BY <1>6, <3>1
    <3> QED BY <1>3, <1>6, <2>2, <3>1, <3>2
  <2> QED BY <2>1, <2>2
<1>8. \E h : h = [l \in 0..n |-> IF l = 0 THEN 0 ELSE h[l - 1] + own(l)]
  <2>1. g = [l \in 0..n |-> g[l]]
    BY <1>6
  <2>2. g = [l \in 0..n |-> IF l = 0 THEN 0 ELSE g[l - 1] + own(l)]
    BY <1>7, <2>1
  <2> QED BY <2>2
<1> DEFINE end == CHOOSE h : h = [l \in 0..n |-> IF l = 0 THEN 0 ELSE h[l - 1] + own(l)]
<1>9. TotalExperts(layers) = end[n]
  BY DEF TotalExperts, n, own
<1>10. end = [l \in 0..n |-> IF l = 0 THEN 0 ELSE end[l - 1] + own(l)]
  BY <1>8
<1> HIDE DEF end
<1>11. end[0] = 0 /\ \A l \in 1..n : end[l] = end[l - 1] + own(l)
  BY <1>4, <1>10
<1>12. \A l \in 1..n : end[l - 1] \in Nat => end[l] \in Nat
  BY <1>1, <1>11 DEF n
<1>13. \A l \in 0..n : end[l] \in Nat
  <2>1. end[0] \in Nat
    BY <1>11
  <2> QED BY ONLY <1>4, <1>12, <2>1, Climbs
<1> QED BY <1>4, <1>9, <1>13

-----------------------------------------------------------------------------
(* Extents that lie one after the other between two offsets.               *)

Chain(s, lo, hi) ==
  /\ s \in Seq(Nat \X Nat) /\ lo \in Nat /\ hi \in Nat /\ lo <= hi
  /\ \A i \in 1..Len(s) : lo <= s[i][1] /\ s[i][1] + s[i][2] <= IF i < Len(s) THEN s[i + 1][1] ELSE hi

\* A chain that goes on where another ends.
LEMMA ChainJoins ==
  ASSUME NEW s, NEW t, NEW lo, NEW mid, NEW hi, Chain(s, lo, mid), Chain(t, mid, hi)
  PROVE  Chain(s \o t, lo, hi)
<1> DEFINE P == Nat \X Nat
<1>0. /\ s \in Seq(P) /\ t \in Seq(P) /\ lo \in Nat /\ mid \in Nat /\ hi \in Nat /\ lo <= mid /\ mid <= hi
      /\ \A i \in 1..Len(s) : lo <= s[i][1] /\ s[i][1] + s[i][2] <= IF i < Len(s) THEN s[i + 1][1] ELSE mid
      /\ \A i \in 1..Len(t) : mid <= t[i][1] /\ t[i][1] + t[i][2] <= IF i < Len(t) THEN t[i + 1][1] ELSE hi
  BY DEF Chain
<1> DEFINE m == Len(s)
<1> DEFINE n == Len(t)
<1> DEFINE u == s \o t
<1>1. m \in Nat /\ n \in Nat
  BY <1>0, LenProperties
<1>2. /\ u \in Seq(P) /\ Len(u) = m + n
      /\ \A i \in 1..(m + n) : u[i] = IF i <= m THEN s[i] ELSE t[i - m]
  <2> HIDE DEF P
  <2> QED BY <1>0, ConcatProperties
<1>3. \A i \in 1..m : s[i] \in P
  BY <1>0
<1>4. \A i \in 1..n : t[i] \in P
  BY <1>0
<1> HIDE DEF u, m, n
<1>5. ASSUME NEW i \in 1..(m + n)
      PROVE  lo <= u[i][1] /\ u[i][1] + u[i][2] <= IF i < m + n THEN u[i + 1][1] ELSE hi
  <2>1. CASE i < m
    <3>1. i \in 1..m /\ i + 1 \in 1..m /\ i + 1 \in 1..(m + n) /\ i < m + n
      BY <1>1, <2>1
    <3>2. u[i] = s[i] /\ u[i + 1] = s[i + 1]
      BY <1>2, <3>1
    <3> QED BY <1>0, <2>1, <3>1, <3>2 DEF m
  <2>2. CASE i = m
    <3>1. i \in 1..m
      BY <1>1, <2>2
    <3>2. u[i] = s[i] /\ lo <= s[i][1] /\ s[i][1] + s[i][2] <= mid
      BY <1>0, <1>1, <1>2, <2>2, <3>1 DEF m
    <3>3. CASE n = 0
      BY <1>0, <1>1, <1>3, <2>2, <3>1, <3>2, <3>3
    <3>4. CASE n # 0
      <4>1. i + 1 \in 1..(m + n) /\ ~(i + 1 <= m) /\ (i + 1) - m = 1 /\ 1 \in 1..n /\ i < m + n
        BY <1>1, <2>2, <3>4
      <4>2. u[i + 1] = t[1] /\ mid <= t[1][1]
        BY <1>0, <1>2, <4>1 DEF n
      <4>3. s[i][1] \in Nat /\ s[i][2] \in Nat /\ t[1][1] \in Nat
        BY <1>3, <1>4, <3>1, <4>1
      <4>4. s[i][1] + s[i][2] <= t[1][1]
        <5>1. mid \in Nat
          BY <1>0
        <5>2. s[i][1] + s[i][2] \in Nat
          BY <4>3
        <5> QED BY ONLY <3>2, <4>2, <4>3, <5>1, <5>2
      <4> QED BY ONLY <3>2, <4>1, <4>2, <4>4
    <3> QED BY <3>3, <3>4
  <2>3. CASE i > m
    <3> DEFINE j == i - m
    <3>1. j \in 1..n /\ ~(i <= m) /\ (i < m + n <=> j < n)
      BY <1>1, <2>3
    <3>2. u[i] = t[j]
      BY <1>2, <3>1
    <3>3. mid <= t[j][1] /\ t[j][1] \in Nat /\ t[j][2] \in Nat
      BY <1>0, <1>4, <3>1 DEF n
    <3>4. lo <= t[j][1]
      BY <1>0, <3>3
    <3>5. CASE j < n
      <4>1. i + 1 \in 1..(m + n) /\ ~(i + 1 <= m) /\ (i + 1) - m = j + 1
        BY <1>1, <3>1, <3>5
      <4>2. u[i + 1] = t[j + 1]
        BY <1>2, <4>1
      <4>3. t[j][1] + t[j][2] <= t[j + 1][1]
        BY <1>0, <3>1, <3>5 DEF n
      <4> QED BY <3>1, <3>2, <3>4, <3>5, <4>2, <4>3
    <3>6. CASE ~(j < n)
      <4>1. t[j][1] + t[j][2] <= hi
        BY <1>0, <3>1, <3>6 DEF n
      <4> QED BY <3>1, <3>2, <3>4, <3>6, <4>1
    <3> QED BY <3>5, <3>6
  <2> QED BY <1>1, <2>1, <2>2, <2>3
<1>6. lo <= hi
  BY <1>0
<1>7. u \in Seq(Nat \X Nat)
  BY <1>2
<1> HIDE DEF P
<1> QED BY <1>0, <1>2, <1>5, <1>6, <1>7 DEF Chain, u

\* Chains one after the other are one chain.
LEMMA ChainFlattens ==
  ASSUME NEW n \in Nat, NEW seqs \in [1..n -> Seq(Nat \X Nat)], NEW end, end[0] \in Nat,
         \A i \in 1..n : Chain(seqs[i], end[i - 1], end[i])
  PROVE  Chain(FlattenSeq(seqs), end[0], end[n])
<1> DEFINE P == Nat \X Nat
<1>0. Len(seqs) = n
  OBVIOUS
<1>1. CASE n = 0
  <2>1. seqs \in Seq(P) /\ seqs = <<>> /\ Len(seqs) = 0
    BY <1>1
  <2>2. FlattenSeq(seqs) = seqs
    BY <2>1 DEF FlattenSeq
  <2>3. Chain(seqs, end[0], end[0])
    BY <2>1 DEF Chain
  <2> QED BY <1>1, <2>2, <2>3
<1>2. CASE n # 0
  <2>0. Parted(seqs, n, P)
    BY <1>2 DEF Parted
  <2> HIDE DEF P
  <2>1. PICK f : Flattens(f, seqs, n, P)
    BY <2>0, FlattenIs
  <2> DEFINE S == {i \in 0..n : i = 0 \/ Chain(f[i], end[0], end[i])}
  <2>2. 0 \in S
    OBVIOUS
  <2>3. \A i \in 0..(n - 1) : i \in S => i + 1 \in S
    <3> TAKE i \in 0..(n - 1)
    <3> HAVE i \in S
    <3>1. i + 1 \in 1..n /\ i + 1 \in 0..n /\ (i + 1) - 1 = i
      OBVIOUS
    <3>2. Chain(seqs[i + 1], end[i], end[i + 1])
      BY <3>1
    <3>3. CASE i = 0
      BY <2>1, <3>1, <3>2, <3>3 DEF Flattens
    <3>4. CASE i # 0
      <4>1. i + 1 \in 2..n /\ Chain(f[i], end[0], end[i])
        BY <3>4
      <4>2. f[i + 1] = f[i] \o seqs[i + 1]
        BY <2>1, <3>1, <4>1 DEF Flattens
      <4>3. Chain(f[i] \o seqs[i + 1], end[0], end[i + 1])
        BY <3>2, <4>1, ChainJoins
      <4> QED BY <3>1, <4>2, <4>3
    <3> QED BY <3>3, <3>4
  <2>4. \A i \in 0..n : i \in S
    <3> HIDE DEF S
    <3> QED BY <2>2, <2>3, UpTo
  <2>5. n \in S
    <3> HIDE DEF S
    <3> QED BY <2>4
  <2>6. Chain(f[n], end[0], end[n])
    BY <1>2, <2>5
  <2> QED BY <2>1, <2>6 DEF Flattens
<1> QED BY <1>1, <1>2

\* The three extents of a tensor.
LEMMA TensorChain ==
  ASSUME NEW h, h.tensor_data_off \in Nat,
         NEW tensors, NEW n \in Nat, Len(tensors) = n, \A j \in 1..n : DeclOK(tensors[j]),
         NEW i \in 1..n
  PROVE  Chain([k \in 1..3 |-> TensorExtent(h, tensors, i, k)],
               h.tensor_data_off + Blobs(tensors)[i - 1], h.tensor_data_off + Blobs(tensors)[i])
<1> DEFINE base == h.tensor_data_off + Blobs(tensors)[i - 1]
<1> DEFINE hi == h.tensor_data_off + Blobs(tensors)[i]
<1> DEFINE off == TensorDesc(tensors[i]).off
<1> DEFINE size == TensorDesc(tensors[i]).size
<1> DEFINE blob == TensorDesc(tensors[i]).bytes
<1> DEFINE s == [k \in 1..3 |-> TensorExtent(h, tensors, i, k)]
<1>1. /\ \A k \in 1..3 : off[k] \in Nat /\ size[k] \in Nat
      /\ off[1] = 0 /\ size[1] <= off[2] /\ off[2] + size[2] <= off[3]
      /\ blob \in Nat /\ blob = off[3] + size[3]
  BY TensorDescIs
<1>2. base \in Nat /\ hi \in Nat /\ base + blob <= hi
  <2> DEFINE data == h.tensor_data_off
  <2> DEFINE lower == Blobs(tensors)[i - 1]
  <2> DEFINE upper == Blobs(tensors)[i]
  <2>1. /\ \A j \in 0..n : Blobs(tensors)[j] \in Nat
        /\ \A j \in 1..n : Blobs(tensors)[j - 1] + TensorDesc(tensors[j]).bytes <= Blobs(tensors)[j]
    BY BlobsIs
  <2>2. i - 1 \in 0..n /\ i \in 0..n
    OBVIOUS
  <2>3. lower \in Nat /\ upper \in Nat /\ lower + blob <= upper
    BY <2>1, <2>2
  <2>4. data \in Nat /\ blob \in Nat /\ base = data + lower /\ hi = data + upper
    BY <1>1
  <2> HIDE DEF data, lower, upper, blob, base, hi
  <2> QED BY ONLY <2>3, <2>4
<1>3. \A k \in 1..3 : s[k] = <<base + off[k], size[k]>>
  BY DEF TensorExtent
<1>4. Len(s) = 3 /\ DOMAIN s = 1..3 /\ s = [k \in 1..3 |-> s[k]]
  OBVIOUS
<1> HIDE DEF s, off, size, blob, base, hi
<1>5. \A k \in 1..3 : s[k] \in Nat \X Nat /\ s[k][1] = base + off[k] /\ s[k][2] = size[k]
  <2> TAKE k \in 1..3
  <2>1. off[k] \in Nat /\ size[k] \in Nat
    BY <1>1
  <2>2. base + off[k] \in Nat
    BY <1>2, <2>1
  <2> QED BY ONLY <1>3, <2>1, <2>2
<1>6. s \in Seq(Nat \X Nat)
  BY <1>4, <1>5
<1>7. /\ off[1] \in Nat /\ off[2] \in Nat /\ off[3] \in Nat
      /\ size[1] \in Nat /\ size[2] \in Nat /\ size[3] \in Nat
  BY <1>1
<1>8. /\ s[1][1] + s[1][2] <= s[2][1] /\ s[2][1] + s[2][2] <= s[3][1] /\ s[3][1] + s[3][2] <= hi
      /\ base <= s[1][1] /\ base <= s[2][1] /\ base <= s[3][1]
  <2>1. /\ s[1][1] = base + off[1] /\ s[2][1] = base + off[2] /\ s[3][1] = base + off[3]
        /\ s[1][2] = size[1] /\ s[2][2] = size[2] /\ s[3][2] = size[3]
    BY <1>5
  <2> QED BY ONLY <1>1, <1>2, <1>7, <2>1
<1>9. ASSUME NEW k \in 1..3
      PROVE  base <= s[k][1] /\ s[k][1] + s[k][2] <= IF k < 3 THEN s[k + 1][1] ELSE hi
  <2>1. k = 1 \/ k = 2 \/ k = 3
    OBVIOUS
  <2> QED BY <1>8, <2>1
<1>10. base <= hi
  BY <1>1, <1>2
<1> QED BY <1>2, <1>4, <1>6, <1>9, <1>10 DEF Chain, s, base, hi

\* The nine extents of an expert.
LEMMA ExpertChain ==
  ASSUME NEW h, h.expert_pool_off \in Nat,
         NEW layers, NEW n \in Nat, Len(layers) = n, \A j \in 1..n : LayerOK(layers[j]),
         NEW l \in 1..n, NEW x \in Nat
  PROVE  LET base == h.expert_pool_off + Pools(layers)[l - 1]
             stride == ExpertLayout(layers[l].geom).stride
         IN Chain([k \in 1..9 |-> ExpertExtent(h, layers, l, x, k)], base + x * stride, base + (x + 1) * stride)
<1> DEFINE off == ExpertLayout(layers[l].geom).off
<1> DEFINE size == ExpertLayout(layers[l].geom).size
<1> DEFINE wide == ExpertLayout(layers[l].geom).stride
<1> DEFINE pool == h.expert_pool_off + Pools(layers)[l - 1]
<1> DEFINE lo == pool + x * wide
<1> DEFINE hi == pool + (x + 1) * wide
<1> DEFINE s == [k \in 1..9 |-> ExpertExtent(h, layers, l, x, k)]
<1>1. /\ wide \in Nat /\ \A k \in 1..9 : off[k] \in Nat /\ size[k] \in Nat
      /\ \A k \in 1..9 : off[k] + size[k] <= IF k < 9 THEN off[k + 1] ELSE wide
  BY ExpertLayoutIs DEF LayerOK
<1>2. pool \in Nat
  <2> DEFINE data == h.expert_pool_off
  <2> DEFINE lower == Pools(layers)[l - 1]
  <2>1. \A j \in 0..n : Pools(layers)[j] \in Nat
    BY PoolsIs
  <2>2. l - 1 \in 0..n
    OBVIOUS
  <2>3. data \in Nat /\ lower \in Nat /\ pool = data + lower
    BY <2>1, <2>2
  <2> HIDE DEF data, lower, pool
  <2> QED BY ONLY <2>3
<1>3. \A k \in 1..9 : s[k] = <<lo + off[k], size[k]>>
  BY DEF ExpertExtent
<1>4. Len(s) = 9 /\ DOMAIN s = 1..9 /\ s = [k \in 1..9 |-> s[k]]
  OBVIOUS
<1> HIDE DEF s, off, size, wide, pool
<1>5. lo \in Nat /\ hi \in Nat /\ hi = lo + wide
  <2> DEFINE y == x * wide
  <2> DEFINE z == (x + 1) * wide
  <2>1. y \in Nat /\ z = y + wide
    BY <1>1, Product
  <2>2. lo = pool + y /\ hi = pool + z
    OBVIOUS
  <2> HIDE DEF y, z, lo, hi
  <2> QED BY <1>1, <1>2, <2>1, <2>2
<1> HIDE DEF lo, hi
<1>6. \A k \in 1..9 : s[k] \in Nat \X Nat /\ s[k][1] = lo + off[k] /\ s[k][2] = size[k]
  <2> TAKE k \in 1..9
  <2>1. off[k] \in Nat /\ size[k] \in Nat
    BY <1>1
  <2>2. lo + off[k] \in Nat
    BY <1>5, <2>1
  <2> QED BY ONLY <1>3, <2>1, <2>2
<1>7. s \in Seq(Nat \X Nat)
  BY <1>4, <1>6
<1>8. ASSUME NEW k \in 1..9
      PROVE  lo <= s[k][1] /\ s[k][1] + s[k][2] <= IF k < 9 THEN s[k + 1][1] ELSE hi
  <2>1. off[k] \in Nat /\ size[k] \in Nat
    BY <1>1
  <2>2. CASE k < 9
    <3>1. k + 1 \in 1..9
      BY <2>2
    <3>2. off[k + 1] \in Nat /\ off[k] + size[k] <= off[k + 1]
      BY <1>1, <2>2, <3>1
    <3>3. s[k + 1][1] = lo + off[k + 1]
      BY <1>6, <3>1
    <3> QED BY ONLY <1>5, <1>6, <2>1, <2>2, <3>2, <3>3
  <2>3. CASE ~(k < 9)
    <3>1. off[k] + size[k] <= wide
      BY <1>1, <2>3
    <3> QED BY ONLY <1>1, <1>5, <1>6, <2>1, <2>3, <3>1
  <2> QED BY <2>2, <2>3
<1>9. lo <= hi
  BY <1>1, <1>5
<1> QED BY <1>4, <1>5, <1>7, <1>8, <1>9 DEF Chain, s, lo, hi, wide, pool

\* What ends before an offset ends before a later one.
LEMMA ChainWider ==
  ASSUME NEW s, NEW lo, NEW mid, NEW hi \in Nat, Chain(s, lo, mid), mid <= hi
  PROVE  Chain(s, lo, hi)
<1>0. /\ s \in Seq(Nat \X Nat) /\ lo \in Nat /\ mid \in Nat /\ lo <= mid
      /\ \A i \in 1..Len(s) : lo <= s[i][1] /\ s[i][1] + s[i][2] <= IF i < Len(s) THEN s[i + 1][1] ELSE mid
  BY DEF Chain
<1>1. \A i \in 1..Len(s) : s[i] \in Nat \X Nat
  BY <1>0
<1>2. ASSUME NEW i \in 1..Len(s)
      PROVE  lo <= s[i][1] /\ s[i][1] + s[i][2] <= IF i < Len(s) THEN s[i + 1][1] ELSE hi
  <2>1. s[i][1] \in Nat /\ s[i][2] \in Nat /\ s[i][1] + s[i][2] \in Nat
    BY <1>1
  <2> QED BY <1>0, <2>1
<1>3. lo <= hi
  BY <1>0
<1> QED BY <1>0, <1>2, <1>3 DEF Chain

\* The extents of all tensors.
LEMMA DataChain ==
  ASSUME NEW h, h.tensor_data_off \in Nat,
         NEW tensors, NEW n \in Nat, Len(tensors) = n, \A j \in 1..n : DeclOK(tensors[j])
  PROVE  Chain(FlattenSeq([i \in 1..n |-> [k \in 1..3 |-> TensorExtent(h, tensors, i, k)]]),
               h.tensor_data_off, h.tensor_data_off + Blobs(tensors)[n])
<1> DEFINE seqs == [i \in 1..n |-> [k \in 1..3 |-> TensorExtent(h, tensors, i, k)]]
<1> DEFINE data == h.tensor_data_off
<1> DEFINE blobs == Blobs(tensors)
<1> DEFINE end == [i \in 0..n |-> data + blobs[i]]
<1>1. data \in Nat /\ blobs[0] = 0 /\ \A i \in 0..n : blobs[i] \in Nat
  BY BlobsIs
<1>2. \A i \in 1..n : Chain(seqs[i], data + blobs[i - 1], data + blobs[i])
  BY TensorChain
<1> HIDE DEF blobs, data
<1>3. end[0] = data /\ end[n] = data + blobs[n] /\ \A i \in 1..n : end[i - 1] = data + blobs[i - 1] /\ end[i] = data + blobs[i]
  <2>1. \A i \in 0..n : end[i] = data + blobs[i]
    OBVIOUS
  <2>2. 0 \in 0..n /\ n \in 0..n /\ \A i \in 1..n : i - 1 \in 0..n /\ i \in 0..n
    OBVIOUS
  <2>3. data + 0 = data
    BY <1>1
  <2> HIDE DEF end
  <2> QED BY ONLY <1>1, <2>1, <2>2, <2>3
<1>4. \A i \in 1..n : seqs[i] \in Seq(Nat \X Nat)
  BY <1>2 DEF Chain
<1>5. seqs \in [1..n -> Seq(Nat \X Nat)]
  BY <1>4
<1> HIDE DEF seqs, end
<1>6. \A i \in 1..n : Chain(seqs[i], end[i - 1], end[i])
  BY <1>2, <1>3
<1>7. end[0] \in Nat
  BY <1>1, <1>3
<1>8. Chain(FlattenSeq(seqs), end[0], end[n])
  BY ONLY <1>5, <1>6, <1>7, n \in Nat, ChainFlattens
<1> QED BY <1>3, <1>8 DEF seqs, data, blobs

\* The extents of a layer's experts.
LEMMA LayerChain ==
  ASSUME NEW h, h.expert_pool_off \in Nat,
         NEW layers, NEW n \in Nat, Len(layers) = n, \A j \in 1..n : LayerOK(layers[j]), NEW l \in 1..n
  PROVE  Chain(FlattenSeq([x \in 1..layers[l].n_experts |-> [k \in 1..9 |-> ExpertExtent(h, layers, l, x - 1, k)]]),
               h.expert_pool_off + Pools(layers)[l - 1], h.expert_pool_off + Pools(layers)[l])
<1> DEFINE m == layers[l].n_experts
<1> DEFINE seqs == [x \in 1..m |-> [k \in 1..9 |-> ExpertExtent(h, layers, l, x - 1, k)]]
<1> DEFINE pool == h.expert_pool_off
<1> DEFINE pools == Pools(layers)
<1> DEFINE base == pool + pools[l - 1]
<1> DEFINE wide == ExpertLayout(layers[l].geom).stride
<1> DEFINE end == [x \in 0..m |-> base + x * wide]
<1>1. m \in Nat /\ wide \in Nat
  BY ExpertLayoutIs DEF LayerOK
<1>2. base \in Nat /\ pool + pools[l] = base + m * wide
  <2>1. /\ pool \in Nat /\ \A j \in 0..n : pools[j] \in Nat
        /\ \A j \in 1..n : pools[j] = pools[j - 1] + layers[j].n_experts * ExpertLayout(layers[j].geom).stride
    BY PoolsIs
  <2>2. l - 1 \in 0..n /\ l \in 0..n
    OBVIOUS
  <2> DEFINE bulk == m * wide
  <2> DEFINE lower == pools[l - 1]
  <2>3. pools[l] = lower + bulk /\ lower \in Nat /\ base = pool + lower
    BY <2>1, <2>2
  <2>4. bulk \in Nat
    BY <1>1, Product
  <2> HIDE DEF bulk, lower, pool, base, pools
  <2>5. pool \in Nat
    BY <2>1
  <2>6. base \in Nat /\ pool + pools[l] = base + bulk
    BY ONLY <2>3, <2>4, <2>5
  <2> QED BY <2>6 DEF bulk
<1>3. \A x \in 1..m : Chain(seqs[x], base + (x - 1) * wide, base + x * wide)
  <2> TAKE x \in 1..m
  <2>1. x - 1 \in Nat /\ (x - 1) + 1 = x
    BY <1>1
  <2>2. Chain([k \in 1..9 |-> ExpertExtent(h, layers, l, x - 1, k)], base + (x - 1) * wide, base + ((x - 1) + 1) * wide)
    BY <2>1, ExpertChain
  <2>3. seqs[x] = [k \in 1..9 |-> ExpertExtent(h, layers, l, x - 1, k)]
    OBVIOUS
  <2> HIDE DEF seqs, base, wide, m
  <2> QED BY <2>1, <2>2, <2>3
<1> HIDE DEF base, wide, m
<1>4. end[0] = base /\ end[m] = base + m * wide /\ \A x \in 1..m : end[x - 1] = base + (x - 1) * wide /\ end[x] = base + x * wide
  <2>1. \A x \in 0..m : end[x] = base + x * wide
    OBVIOUS
  <2>2. 0 \in 0..m /\ m \in 0..m /\ \A x \in 1..m : x - 1 \in 0..m /\ x \in 0..m
    BY <1>1
  <2>3. base + 0 * wide = base
    BY <1>1, <1>2
  <2> HIDE DEF end
  <2> QED BY ONLY <2>1, <2>2, <2>3
<1>5. \A x \in 1..m : seqs[x] \in Seq(Nat \X Nat)
  <2> HIDE DEF seqs
  <2> QED BY <1>3 DEF Chain
<1>6. seqs \in [1..m -> Seq(Nat \X Nat)]
  <2>1. seqs = [x \in 1..m |-> seqs[x]]
    OBVIOUS
  <2> HIDE DEF seqs
  <2> QED BY <1>5, <2>1
<1> HIDE DEF seqs, end
<1>7. \A x \in 1..m : Chain(seqs[x], end[x - 1], end[x])
  BY <1>3, <1>4
<1>8. end[0] \in Nat
  BY <1>2, <1>4
<1>9. Chain(FlattenSeq(seqs), end[0], end[m])
  BY ONLY <1>1, <1>6, <1>7, <1>8, ChainFlattens
<1>10. Chain(FlattenSeq(seqs), base, pool + pools[l])
  BY <1>2, <1>4, <1>9
<1> QED BY <1>10 DEF seqs, base, m

\* The extents of all experts.
LEMMA PoolChain ==
  ASSUME NEW h, h.expert_pool_off \in Nat,
         NEW layers, NEW n \in Nat, Len(layers) = n, \A j \in 1..n : LayerOK(layers[j])
  PROVE  Chain(FlattenSeq([l \in 1..n |->
                 FlattenSeq([x \in 1..layers[l].n_experts |-> [k \in 1..9 |-> ExpertExtent(h, layers, l, x - 1, k)]])]),
               h.expert_pool_off, h.expert_pool_off + Pools(layers)[n])
<1> DEFINE part(l) == FlattenSeq([x \in 1..layers[l].n_experts |-> [k \in 1..9 |-> ExpertExtent(h, layers, l, x - 1, k)]])
<1> DEFINE seqs == [l \in 1..n |-> part(l)]
<1> DEFINE pool == h.expert_pool_off
<1> DEFINE pools == Pools(layers)
<1> DEFINE end == [l \in 0..n |-> pool + pools[l]]
<1>1. pool \in Nat /\ pools[0] = 0 /\ \A l \in 0..n : pools[l] \in Nat
  BY PoolsIs
<1>2. \A l \in 1..n : Chain(part(l), pool + pools[l - 1], pool + pools[l])
  BY LayerChain
<1> HIDE DEF part, pool, pools
<1>3. \A l \in 1..n : Chain(seqs[l], pool + pools[l - 1], pool + pools[l])
  BY <1>2
<1>4. end[0] = pool /\ end[n] = pool + pools[n] /\ \A l \in 1..n : end[l - 1] = pool + pools[l - 1] /\ end[l] = pool + pools[l]
  <2>1. \A l \in 0..n : end[l] = pool + pools[l]
    OBVIOUS
  <2>2. 0 \in 0..n /\ n \in 0..n /\ \A l \in 1..n : l - 1 \in 0..n /\ l \in 0..n
    OBVIOUS
  <2>3. pool + 0 = pool
    BY <1>1
  <2> HIDE DEF end
  <2> QED BY ONLY <1>1, <2>1, <2>2, <2>3
<1>5. \A l \in 1..n : part(l) \in Seq(Nat \X Nat)
  BY <1>2 DEF Chain
<1>6. seqs \in [1..n -> Seq(Nat \X Nat)]
  BY <1>5
<1> HIDE DEF seqs, end
<1>7. \A l \in 1..n : Chain(seqs[l], end[l - 1], end[l])
  BY <1>3, <1>4
<1>8. end[0] \in Nat
  BY <1>1, <1>4
<1>9. Chain(FlattenSeq(seqs), end[0], end[n])
  BY ONLY <1>6, <1>7, <1>8, n \in Nat, ChainFlattens
<1> QED BY <1>4, <1>9 DEF seqs, part, pool, pools

\* Five sections one after the other.
LEMMA FiveChain ==
  ASSUME NEW o1 \in Nat, NEW o2 \in Nat, NEW o3 \in Nat, NEW o4 \in Nat, NEW o5 \in Nat, NEW hi \in Nat,
         NEW s1 \in Nat, NEW s2 \in Nat, NEW s3 \in Nat, NEW s4 \in Nat, NEW s5 \in Nat,
         o1 + s1 <= o2, o2 + s2 <= o3, o3 + s3 <= o4, o4 + s4 <= o5, o5 + s5 <= hi
  PROVE  Chain(<<<<o1, s1>>, <<o2, s2>>, <<o3, s3>>, <<o4, s4>>, <<o5, s5>>>>, o1, hi)
<1> DEFINE s == <<<<o1, s1>>, <<o2, s2>>, <<o3, s3>>, <<o4, s4>>, <<o5, s5>>>>
<1>1. /\ Len(s) = 5 /\ s \in Seq(Nat \X Nat)
      /\ s[1] = <<o1, s1>> /\ s[2] = <<o2, s2>> /\ s[3] = <<o3, s3>> /\ s[4] = <<o4, s4>> /\ s[5] = <<o5, s5>>
  OBVIOUS
<1> HIDE DEF s
<1>2. /\ s[1][1] = o1 /\ s[2][1] = o2 /\ s[3][1] = o3 /\ s[4][1] = o4 /\ s[5][1] = o5
      /\ s[1][2] = s1 /\ s[2][2] = s2 /\ s[3][2] = s3 /\ s[4][2] = s4 /\ s[5][2] = s5
  BY <1>1
<1>3. o1 <= o2 /\ o1 <= o3 /\ o1 <= o4 /\ o1 <= o5 /\ o1 <= hi
  OBVIOUS
<1>4. ASSUME NEW i \in 1..5
      PROVE  o1 <= s[i][1] /\ s[i][1] + s[i][2] <= IF i < 5 THEN s[i + 1][1] ELSE hi
  <2>1. i = 1 \/ i = 2 \/ i = 3 \/ i = 4 \/ i = 5
    OBVIOUS
  <2> QED BY <1>2, <1>3, <2>1
<1> QED BY <1>1, <1>3, <1>4 DEF Chain, s

\* begin() lays everything out in the order of the file and within its size.
THEOREM LayoutChain ==
  ASSUME NEW meta_size \in Nat,
         NEW tensors, NEW n \in Nat, Len(tensors) = n, \A j \in 1..n : DeclOK(tensors[j]),
         NEW layers, NEW m \in Nat, Len(layers) = m, \A j \in 1..m : LayerOK(layers[j])
  PROVE  LET h == FileLayout(meta_size, layers, tensors) IN
         Chain(Extents(h, layers, tensors), 0, h.file_size) /\ SizeofHeader <= h.file_size
<1> DEFINE tensor_dir_off == align_up(SizeofHeader + meta_size, 8)
<1> DEFINE layer_dir_off == tensor_dir_off + n * SizeofTensorEntry
<1> DEFINE profile_off == layer_dir_off + m * SizeofLayerDesc
<1> DEFINE profile_size == TotalExperts(layers) * 4
<1> DEFINE tensor_data_off == align_up(profile_off + profile_size, kBlockAlign)
<1> DEFINE tensor_data_size == Blobs(tensors)[n]
<1> DEFINE expert_pool_off == align_up(tensor_data_off + tensor_data_size, kPoolAlign)
<1> DEFINE expert_pool_size == Pools(layers)[m]
<1> DEFINE h == FileLayout(meta_size, layers, tensors)
<1> DEFINE front == <<<<0, SizeofHeader>>, <<h.meta_off, h.meta_size>>,
    <<h.tensor_dir_off, h.tensor_count * SizeofTensorEntry>>,
    <<h.layer_dir_off, h.layer_count * SizeofLayerDesc>>, <<h.profile_off, h.profile_size>>>>
<1> DEFINE data == FlattenSeq([i \in 1..n |-> [k \in 1..3 |-> TensorExtent(h, tensors, i, k)]])
<1> DEFINE pool == FlattenSeq([l \in 1..m |->
                     FlattenSeq([x \in 1..layers[l].n_experts |-> [k \in 1..9 |-> ExpertExtent(h, layers, l, x - 1, k)]])])
<1>1. /\ h.meta_off = SizeofHeader /\ h.meta_size = meta_size
      /\ h.tensor_dir_off = tensor_dir_off /\ h.tensor_count = n
      /\ h.layer_dir_off = layer_dir_off /\ h.layer_count = m
      /\ h.profile_off = profile_off /\ h.profile_size = profile_size
      /\ h.tensor_data_off = tensor_data_off /\ h.expert_pool_off = expert_pool_off
      /\ h.file_size = expert_pool_off + expert_pool_size
  BY DEF FileLayout
<1>2. Extents(h, layers, tensors) = front \o data \o pool
  BY DEF Extents
<1> HIDE DEF h
<1>3. TotalExperts(layers) \in Nat
  BY TotalIs
<1>4. tensor_data_size \in Nat
  <2>1. \A i \in 0..n : Blobs(tensors)[i] \in Nat
    BY BlobsIs
  <2> QED BY <2>1
<1>5. expert_pool_size \in Nat
  <2>1. \A l \in 0..m : Pools(layers)[l] \in Nat
    BY PoolsIs
  <2> QED BY <2>1
<1>6. tensor_dir_off \in Nat /\ SizeofHeader + meta_size <= tensor_dir_off
  <2>1. SizeofHeader + meta_size \in Nat
    BY DEF SizeofHeader
  <2> QED BY <2>1, AlignUp
<1>7. n * SizeofTensorEntry \in Nat /\ m * SizeofLayerDesc \in Nat /\ profile_size \in Nat
  BY <1>3 DEF SizeofTensorEntry, SizeofLayerDesc
<1> HIDE DEF tensor_dir_off, profile_size, tensor_data_size, expert_pool_size
<1>8. layer_dir_off \in Nat /\ profile_off \in Nat /\ profile_off + profile_size \in Nat
  BY <1>6, <1>7
<1> DEFINE tsize == n * SizeofTensorEntry
<1> DEFINE lsize == m * SizeofLayerDesc
<1>9. layer_dir_off = tensor_dir_off + tsize /\ profile_off = layer_dir_off + lsize
  OBVIOUS
<1> HIDE DEF layer_dir_off, profile_off
<1>10. tensor_data_off \in Nat /\ profile_off + profile_size <= tensor_data_off
  BY <1>8, AlignUp
<1> HIDE DEF tensor_data_off
<1>11. tensor_data_off + tensor_data_size \in Nat
  BY <1>4, <1>10
<1>12. expert_pool_off \in Nat /\ tensor_data_off + tensor_data_size <= expert_pool_off
  BY <1>11, AlignUp
<1> HIDE DEF expert_pool_off
<1>13. front = <<<<0, SizeofHeader>>, <<SizeofHeader, meta_size>>, <<tensor_dir_off, tsize>>,
                 <<layer_dir_off, lsize>>, <<profile_off, profile_size>>>>
  BY <1>1
<1>14. Chain(front, 0, tensor_data_off)
  <2>1. tsize \in Nat /\ lsize \in Nat /\ SizeofHeader \in Nat /\ 0 + SizeofHeader <= SizeofHeader
    BY <1>7 DEF SizeofHeader
  <2> HIDE DEF tsize, lsize, front
  <2>2. tensor_dir_off + tsize <= layer_dir_off /\ layer_dir_off + lsize <= profile_off
    BY <1>6, <1>8, <1>9, <2>1
  <2>3. Chain(<<<<0, SizeofHeader>>, <<SizeofHeader, meta_size>>, <<tensor_dir_off, tsize>>,
                <<layer_dir_off, lsize>>, <<profile_off, profile_size>>>>, 0, tensor_data_off)
    BY ONLY <1>6, <1>7, <1>8, <1>10, <2>1, <2>2, meta_size \in Nat, FiveChain
  <2> QED BY <1>13, <2>3
<1> HIDE DEF front
<1>15. Chain(data, tensor_data_off, expert_pool_off)
  <2>1. Chain(data, h.tensor_data_off, h.tensor_data_off + Blobs(tensors)[n])
    BY <1>1, <1>10, DataChain
  <2>2. Chain(data, tensor_data_off, tensor_data_off + tensor_data_size)
    BY <1>1, <2>1 DEF tensor_data_size
  <2> HIDE DEF data
  <2> QED BY <1>12, <2>2, ChainWider
<1>16. Chain(pool, expert_pool_off, h.file_size)
  <2>1. Chain(pool, h.expert_pool_off, h.expert_pool_off + Pools(layers)[m])
    BY <1>1, <1>12, PoolChain
  <2> QED BY <1>1, <2>1 DEF expert_pool_size
<1> HIDE DEF data, pool
<1>17. Chain(front \o data, 0, expert_pool_off)
  BY <1>14, <1>15, ChainJoins
<1>18. Chain(front \o data \o pool, 0, h.file_size)
  BY <1>16, <1>17, ChainJoins
<1>19. SizeofHeader <= h.file_size
  <2>1. SizeofHeader \in Nat /\ tsize \in Nat /\ lsize \in Nat
    BY <1>7 DEF SizeofHeader
  <2> HIDE DEF tsize, lsize
  <2>2. SizeofHeader <= tensor_dir_off
    BY <1>6, <2>1
  <2>3. tensor_dir_off <= layer_dir_off /\ layer_dir_off <= profile_off
    BY <1>6, <1>8, <1>9, <2>1
  <2>4. profile_off <= tensor_data_off /\ tensor_data_off <= expert_pool_off
    BY <1>4, <1>7, <1>8, <1>10, <1>12
  <2>5. expert_pool_off <= h.file_size
    BY <1>1, <1>5, <1>12
  <2>6. h.file_size \in Nat
    BY <1>1, <1>5, <1>12
  <2> QED BY <1>6, <1>8, <1>10, <1>12, <2>1, <2>2, <2>3, <2>4, <2>5, <2>6
<1> QED BY <1>2, <1>18, <1>19 DEF h

-----------------------------------------------------------------------------
(* What is declared: of a known format, the one its part is bound in, and   *)
(* every name the engine looks for.                                        *)

\* The formats, by part.
Fp8Parts ==
  {"main_proj", "attn_q_a", "attn_q_b", "attn_kv", "attn_out_a", "attn_out_b",
   "shexp_gate", "shexp_up", "shexp_down", "idx_wq_b"}
Bf16Parts ==
  {"token_embd", "output", "hc_head_fn", "markov_w1", "markov_w2", "confidence", "ffn_gate_inp",
   "hc_attn_fn", "hc_ffn_fn", "comp_wkv", "comp_wgate", "idx_proj", "idx_comp_wkv", "idx_comp_wgate"}
F32Parts ==
  {"__codebook", "output_norm", "hc_head_base", "hc_head_scale", "main_norm", "norm",
   "attn_norm", "ffn_norm", "attn_sinks", "attn_q_norm", "attn_kv_norm", "ffn_gate_hash", "ffn_gate_bias",
   "hc_attn_base", "hc_attn_scale", "hc_ffn_base", "hc_ffn_scale",
   "comp_ape", "comp_norm", "idx_comp_ape", "idx_comp_norm"}
FormatOf(part) == IF part \in Fp8Parts THEN "fp8_e4m3" ELSE IF part \in Bf16Parts THEN "bf16" ELSE "f32"

\* The sizes of a model, and the sums and products of them that are declared.
SizesOK(c) == (\A size \in ConfigSizes : c[size] \in Nat) /\ c.ratios \in Seq(Nat) /\ c.taps \in Seq(Int)

\* A declaration that can be laid out, in the format of its part; the width of the
\* projection of the taps is the one the engine asks for.
Sound(c, d) ==
  /\ DeclOK(d) /\ d.quant = FormatOf(d.name[3])
  /\ d.name[3] = "main_proj" => d.cols = c.hidden * Len(c.taps)

\* Sound declarations, these names among them.
Lists(c, s, names) ==
  /\ \E T : s \in Seq(T) /\ \A d \in T : Sound(c, d)
  /\ \A name \in names : \E i \in 1..Len(s) : s[i].name = name

\* A sequence given element by element.
LEMMA TupleLists ==
  ASSUME NEW c, NEW n \in Nat, NEW s, s = [i \in 1..n |-> s[i]], \A i \in 1..n : Sound(c, s[i]),
         NEW names, \A name \in names : \E i \in 1..n : s[i].name = name
  PROVE  Lists(c, s, names)
<1> DEFINE T == {s[i] : i \in 1..n}
<1>1. s \in [1..n -> T]
  OBVIOUS
<1>2. \A d \in T : Sound(c, d)
  OBVIOUS
<1> HIDE DEF T
<1>3. s \in Seq(T) /\ Len(s) = n
  BY <1>1
<1>4. \E U : s \in Seq(U) /\ \A d \in U : Sound(c, d)
  BY <1>2, <1>3
<1>5. \A name \in names : \E i \in 1..Len(s) : s[i].name = name
  BY <1>3
<1> QED BY <1>4, <1>5 DEF Lists

\* Fewer names.
LEMMA FewerListed ==
  ASSUME NEW c, NEW s, NEW names, NEW some, some \subseteq names, Lists(c, s, names)
  PROVE  Lists(c, s, some)
BY DEF Lists

\* One after the other.
LEMMA ConcatLists ==
  ASSUME NEW c, NEW s, NEW t, NEW names, NEW more, Lists(c, s, names), Lists(c, t, more)
  PROVE  Lists(c, s \o t, names \cup more)
<1>1. PICK S : s \in Seq(S) /\ \A d \in S : Sound(c, d)
  BY DEF Lists
<1>2. PICK T : t \in Seq(T) /\ \A d \in T : Sound(c, d)
  BY DEF Lists
<1> DEFINE U == S \cup T
<1>3. s \in Seq(U) /\ t \in Seq(U) /\ \A d \in U : Sound(c, d)
  BY <1>1, <1>2, SeqMonotonic
<1> HIDE DEF U
<1> DEFINE u == s \o t
<1> DEFINE m == Len(s)
<1> DEFINE n == Len(t)
<1>4. /\ u \in Seq(U) /\ Len(u) = m + n
      /\ \A i \in 1..(m + n) : u[i] = IF i <= m THEN s[i] ELSE t[i - m]
  BY <1>3, ConcatProperties
<1>5. m \in Nat /\ n \in Nat
  BY <1>3, LenProperties
<1>6. /\ \A name \in names : \E i \in 1..m : s[i].name = name
      /\ \A name \in more : \E i \in 1..n : t[i].name = name
  BY DEF Lists
<1> HIDE DEF u, m, n
<1>7. ASSUME NEW name \in names \cup more
      PROVE  \E i \in 1..(m + n) : u[i].name = name
  <2>1. CASE name \in names
    <3>1. PICK i \in 1..m : s[i].name = name
      BY <1>6, <2>1
    <3>2. i \in 1..(m + n) /\ u[i] = s[i]
      BY <1>4, <1>5
    <3> QED BY <3>1, <3>2
  <2>2. CASE name \in more
    <3>1. PICK i \in 1..n : t[i].name = name
      BY <1>6, <2>2
    <3>2. m + i \in 1..(m + n) /\ ~(m + i <= m) /\ (m + i) - m = i
      BY <1>5
    <3>3. u[m + i] = t[i]
      BY <1>4, <3>2
    <3> QED BY <3>1, <3>2, <3>3
  <2> QED BY <2>1, <2>2
<1>8. \E W : u \in Seq(W) /\ \A d \in W : Sound(c, d)
  BY <1>3, <1>4
<1>9. \A name \in names \cup more : \E i \in 1..Len(u) : u[i].name = name
  BY <1>4, <1>7
<1> QED BY <1>8, <1>9 DEF Lists, u

\* None.
LEMMA NoneListed ==
  ASSUME NEW c
  PROVE  Lists(c, <<>>, {})
<1> DEFINE none == <<>>
<1>1. none = [i \in 1..0 |-> none[i]] /\ (\A i \in 1..0 : Sound(c, none[i]))
  OBVIOUS
<1> HIDE DEF none
<1>2. Lists(c, none, {})
  BY <1>1, TupleLists
<1> QED BY <1>2 DEF none

\* Many, laid end to end.
LEMMA FlattenLists ==
  ASSUME NEW c, NEW n \in Nat, NEW seqs, seqs = [i \in 1..n |-> seqs[i]],
         NEW names, \A i \in 1..n : Lists(c, seqs[i], names[i])
  PROVE  Lists(c, FlattenSeq(seqs), UNION {names[i] : i \in 1..n})
<1>1. CASE n = 0
  <2>1. seqs = <<>> /\ UNION {names[i] : i \in 1..n} = {}
    BY <1>1
  <2>2. FlattenSeq(seqs) = seqs
    BY <2>1 DEF FlattenSeq
  <2> QED BY <2>1, <2>2, NoneListed
<1>2. CASE n # 0
  <2> DEFINE from == [i \in 1..n |-> CHOOSE T : seqs[i] \in Seq(T) /\ \A d \in T : Sound(c, d)]
  <2>1. \A i \in 1..n : seqs[i] \in Seq(from[i]) /\ \A d \in from[i] : Sound(c, d)
    BY DEF Lists
  <2> HIDE DEF from
  <2> DEFINE U == UNION {from[i] : i \in 1..n}
  <2>2. \A i \in 1..n : from[i] \subseteq U
    OBVIOUS
  <2> HIDE DEF U
  <2>3. \A i \in 1..n : seqs[i] \in Seq(U)
    BY <2>1, <2>2, SeqMonotonic
  <2>4. Parted(seqs, n, U)
    BY <1>2, <2>3 DEF Parted
  <2>5. PICK f : Flattens(f, seqs, n, U)
    BY <2>4, FlattenIs
  <2> DEFINE upto(j) == UNION {names[i] : i \in 1..j}
  <2> DEFINE S == {j \in 0..n : j = 0 \/ Lists(c, f[j], upto(j))}
  <2>6. 0 \in S
    OBVIOUS
  <2>7. \A j \in 0..(n - 1) : j \in S => j + 1 \in S
    <3> TAKE j \in 0..(n - 1)
    <3> HAVE j \in S
    <3>1. j + 1 \in 1..n /\ j + 1 \in 0..n /\ (j + 1) - 1 = j
      OBVIOUS
    <3>2. Lists(c, seqs[j + 1], names[j + 1])
      BY <3>1
    <3>3. CASE j = 0
      <4>1. upto(1) = names[1]
        OBVIOUS
      <4>2. f[1] = seqs[1]
        BY <2>5 DEF Flattens
      <4> HIDE DEF upto
      <4>3. j + 1 = 1
        BY <3>3
      <4>4. Lists(c, f[j + 1], upto(j + 1))
        BY <3>2, <4>1, <4>2, <4>3
      <4> QED BY <3>1, <4>4
    <3>4. CASE j # 0
      <4>1. j + 1 \in 2..n /\ Lists(c, f[j], upto(j))
        BY <3>4
      <4>2. f[j + 1] = f[j] \o seqs[j + 1]
        BY <2>5, <3>1, <4>1 DEF Flattens
      <4>3. upto(j + 1) = upto(j) \cup names[j + 1]
        <5>1. 1..(j + 1) = (1..j) \cup {j + 1}
          BY <3>1
        <5> QED BY ONLY <5>1
      <4> HIDE DEF upto
      <4>4. Lists(c, f[j] \o seqs[j + 1], upto(j) \cup names[j + 1])
        BY <3>2, <4>1, ConcatLists
      <4> QED BY <3>1, <4>2, <4>3, <4>4
    <3> QED BY <3>3, <3>4
  <2>8. n \in S
    <3> HIDE DEF S
    <3>1. \A j \in 0..n : j \in S
      BY <2>6, <2>7, UpTo
    <3> QED BY <3>1
  <2>9. Lists(c, f[n], upto(n)) /\ FlattenSeq(seqs) = f[n]
    BY <1>2, <2>5, <2>8 DEF Flattens
  <2> QED BY <2>9
<1> QED BY <1>1, <1>2

\* A declaration of sizes that are not negative, in the format of its part.
LEMMA DeclIs ==
  ASSUME NEW c, NEW m, NEW l, NEW part, NEW rows \in Nat, NEW cols \in Nat
  PROVE  /\ part \in Fp8Parts /\ part # "main_proj" => Sound(c, Decl(m, l, part, rows, cols, "fp8_e4m3"))
         /\ part \in Bf16Parts => Sound(c, Decl(m, l, part, rows, cols, "bf16"))
         /\ part \in F32Parts => Sound(c, Decl(m, l, part, rows, cols, "f32")) /\ Sound(c, Vec(m, l, part, cols))
<1>1. {"f32", "bf16", "fp8_e4m3"} \subseteq DOMAIN kQuantTable
  BY DEF kQuantTable
<1>2. ASSUME NEW quant \in {"f32", "bf16", "fp8_e4m3"}, NEW r \in Nat, quant = FormatOf(part), part # "main_proj"
      PROVE  Sound(c, Decl(m, l, part, r, cols, quant))
  <2> DEFINE d == Decl(m, l, part, r, cols, quant)
  <2>1. d.name[3] = part /\ d.rows = r /\ d.cols = cols /\ d.quant = quant
    BY DEF Decl
  <2> HIDE DEF d
  <2>2. Sound(c, d)
    BY <1>1, <1>2, <2>1 DEF Sound, DeclOK
  <2> QED BY <2>2 DEF d
<1>3. part \in Fp8Parts => FormatOf(part) = "fp8_e4m3"
  BY DEF FormatOf
<1>4. part \in Bf16Parts => FormatOf(part) = "bf16" /\ part # "main_proj"
  BY DEF FormatOf, Bf16Parts, Fp8Parts
<1>5. part \in F32Parts => FormatOf(part) = "f32" /\ part # "main_proj"
  BY DEF FormatOf, Bf16Parts, Fp8Parts, F32Parts
<1>6. Vec(m, l, part, cols) = Decl(m, l, part, 1, cols, "f32")
  BY DEF Vec
<1> QED BY <1>2, <1>3, <1>4, <1>5, <1>6

\* Its name.
LEMMA NameIs ==
  /\ \A m, l, part, rows, cols, quant : Decl(m, l, part, rows, cols, quant).name = <<m, l, part>>
  /\ \A m, l, part, cols : Vec(m, l, part, cols).name = <<m, l, part>>
BY DEF Decl, Vec

\* A layer's ratio is listed, or 0.
LEMMA RatioNat ==
  ASSUME NEW c, SizesOK(c), NEW dspark \in BOOLEAN, NEW l \in Nat
  PROVE  StageRatio(c, dspark, l) \in Nat
<1> DEFINE at == IF dspark THEN c.n_layer + l ELSE l
<1>1. at \in Nat /\ c.ratios \in Seq(Nat)
  BY DEF SizesOK, ConfigSizes
<1>2. StageRatio(c, dspark, l) = IF at < Len(c.ratios) THEN c.ratios[at + 1] ELSE 0
  BY DEF StageRatio, RatioOf
<1> DEFINE ratios == c.ratios
<1> HIDE DEF at, ratios
<1>3. at < Len(ratios) => at + 1 \in 1..Len(ratios)
  BY <1>1, LenProperties DEF ratios
<1>4. at < Len(ratios) => ratios[at + 1] \in Nat
  BY <1>1, <1>3, ElementOfSeq DEF ratios
<1> QED BY <1>2, <1>4 DEF ratios

\* The sizes of a model by name.
LEMMA CfgSizes ==
  ASSUME NEW c, SizesOK(c)
  PROVE  /\ c.n_layer \in Nat /\ c.n_expert \in Nat /\ c.hidden \in Nat /\ c.inter \in Nat /\ c.vocab \in Nat
         /\ c.n_hc \in Nat /\ c.qr \in Nat /\ c.orank \in Nat /\ c.hd \in Nat /\ c.nh \in Nat /\ c.ihd \in Nat
         /\ c.inh \in Nat /\ c.n_used \in Nat /\ c.mrank \in Nat /\ c.codes \in Nat /\ Len(c.taps) \in Nat
<1>1. Len(c.taps) \in Nat
  BY LenProperties DEF SizesOK
<1>2. \A size \in ConfigSizes : c[size] \in Nat
  BY DEF SizesOK
<1>3. /\ c["n_layer"] \in Nat /\ c["n_expert"] \in Nat /\ c["hidden"] \in Nat /\ c["inter"] \in Nat
      /\ c["vocab"] \in Nat /\ c["n_hc"] \in Nat /\ c["qr"] \in Nat /\ c["orank"] \in Nat /\ c["hd"] \in Nat
      /\ c["nh"] \in Nat /\ c["ihd"] \in Nat /\ c["inh"] \in Nat /\ c["n_used"] \in Nat
      /\ c["mrank"] \in Nat /\ c["codes"] \in Nat
  BY <1>2 DEF ConfigSizes
<1> QED BY <1>1, <1>3

\* The tensors outside the layers.
ModelParts == {"token_embd", "output", "output_norm", "hc_head_fn", "hc_head_base", "hc_head_scale"}
DraftParts ==
  {"main_proj", "main_norm", "norm", "hc_head_fn", "hc_head_base", "hc_head_scale",
   "markov_w1", "markov_w2", "confidence"}
\* The tensors outside of the layers are listed with the names asked for.
LEMMA HeadLists ==
  ASSUME NEW c, SizesOK(c)
  PROVE  Lists(c, ModelTensors(c), Named("blk", 0, ModelParts)) /\ Lists(c, DraftTensors(c), Named("mtp", 0, DraftParts))
<1>0. /\ c.hidden \in Nat /\ c.vocab \in Nat /\ c.n_hc \in Nat /\ c.mrank \in Nat /\ Len(c.taps) \in Nat
  BY CfgSizes
<1>1. /\ c.hidden \in Nat /\ c.vocab \in Nat /\ c.n_hc \in Nat /\ c.mrank \in Nat
      /\ c.n_hc * c.hidden \in Nat /\ c.hidden * Len(c.taps) \in Nat /\ c.hidden + c.mrank \in Nat
  BY ONLY <1>0, Product
<1>2. Lists(c, ModelTensors(c), Named("blk", 0, ModelParts))
  <2> DEFINE s == ModelTensors(c)
  <2>1. s = [i \in 1..6 |-> s[i]]
    BY DEF ModelTensors
  <2>2. {"token_embd", "output", "hc_head_fn"} \subseteq Bf16Parts /\ {"output_norm", "hc_head_base", "hc_head_scale"} \subseteq F32Parts
    BY DEF Bf16Parts, F32Parts
  <2>3. Sound(c, s[1]) /\ Sound(c, s[2]) /\ Sound(c, s[3])
    BY <1>1, <2>2, DeclIs DEF ModelTensors
  <2>4. Sound(c, s[4]) /\ Sound(c, s[5]) /\ Sound(c, s[6])
    BY <1>1, <2>2, DeclIs DEF ModelTensors
  <2>5. /\ s[1].name = <<"blk", 0, "token_embd">> /\ s[2].name = <<"blk", 0, "output">>
        /\ s[3].name = <<"blk", 0, "output_norm">> /\ s[4].name = <<"blk", 0, "hc_head_fn">>
        /\ s[5].name = <<"blk", 0, "hc_head_base">> /\ s[6].name = <<"blk", 0, "hc_head_scale">>
    BY NameIs DEF ModelTensors
  <2> HIDE DEF s
  <2>6. \A i \in 1..6 : Sound(c, s[i])
    BY <2>3, <2>4
  <2>7. \A name \in Named("blk", 0, ModelParts) : \E i \in 1..6 : s[i].name = name
    <3> TAKE name \in Named("blk", 0, ModelParts)
    <3>1. PICK part \in ModelParts : name = <<"blk", 0, part>>
      BY DEF Named
    <3>2. 1 \in 1..6 /\ 2 \in 1..6 /\ 3 \in 1..6 /\ 4 \in 1..6 /\ 5 \in 1..6 /\ 6 \in 1..6
      OBVIOUS
    <3> QED BY <2>5, <3>1, <3>2 DEF ModelParts
  <2>8. Lists(c, s, Named("blk", 0, ModelParts))
    BY <2>1, <2>6, <2>7, TupleLists
  <2> QED BY <2>8 DEF s
<1>3. Lists(c, DraftTensors(c), Named("mtp", 0, DraftParts))
  <2> DEFINE s == DraftTensors(c)
  <2>1. s = [i \in 1..9 |-> s[i]]
    BY DEF DraftTensors
  <2>2. /\ {"hc_head_fn", "markov_w1", "markov_w2", "confidence"} \subseteq Bf16Parts
        /\ {"main_norm", "norm", "hc_head_base", "hc_head_scale"} \subseteq F32Parts
    BY DEF Bf16Parts, F32Parts
  <2>3. Sound(c, Decl("mtp", 0, "main_proj", c.hidden, c.hidden * Len(c.taps), "fp8_e4m3"))
    <3> DEFINE d == Decl("mtp", 0, "main_proj", c.hidden, c.hidden * Len(c.taps), "fp8_e4m3")
    <3>1. d.name[3] = "main_proj" /\ d.rows = c.hidden /\ d.cols = c.hidden * Len(c.taps) /\ d.quant = "fp8_e4m3"
      BY DEF Decl
    <3>2. FormatOf("main_proj") = "fp8_e4m3" /\ "fp8_e4m3" \in DOMAIN kQuantTable
      BY DEF FormatOf, Fp8Parts, kQuantTable
    <3> HIDE DEF d
    <3>3. Sound(c, d)
      BY <1>1, <3>1, <3>2 DEF Sound, DeclOK
    <3> QED BY <3>3 DEF d
  <2>4. Sound(c, s[1]) /\ Sound(c, s[2]) /\ Sound(c, s[3]) /\ Sound(c, s[4]) /\ Sound(c, s[5])
    BY <1>1, <2>2, <2>3, DeclIs DEF DraftTensors
  <2>5. Sound(c, s[6]) /\ Sound(c, s[7]) /\ Sound(c, s[8]) /\ Sound(c, s[9])
    BY <1>1, <2>2, DeclIs DEF DraftTensors
  <2>6. /\ s[1].name = <<"mtp", 0, "main_proj">> /\ s[2].name = <<"mtp", 0, "main_norm">>
        /\ s[3].name = <<"mtp", 0, "norm">> /\ s[4].name = <<"mtp", 0, "hc_head_fn">>
        /\ s[5].name = <<"mtp", 0, "hc_head_base">> /\ s[6].name = <<"mtp", 0, "hc_head_scale">>
        /\ s[7].name = <<"mtp", 0, "markov_w1">> /\ s[8].name = <<"mtp", 0, "markov_w2">>
        /\ s[9].name = <<"mtp", 0, "confidence">>
    BY NameIs DEF DraftTensors
  <2> HIDE DEF s
  <2>7. \A i \in 1..9 : Sound(c, s[i])
    BY <2>4, <2>5
  <2>8. \A name \in Named("mtp", 0, DraftParts) : \E i \in 1..9 : s[i].name = name
    <3> TAKE name \in Named("mtp", 0, DraftParts)
    <3>1. PICK part \in DraftParts : name = <<"mtp", 0, part>>
      BY DEF Named
    <3>2. /\ 1 \in 1..9 /\ 2 \in 1..9 /\ 3 \in 1..9 /\ 4 \in 1..9 /\ 5 \in 1..9 /\ 6 \in 1..9
          /\ 7 \in 1..9 /\ 8 \in 1..9 /\ 9 \in 1..9
      OBVIOUS
    <3> QED BY <2>6, <3>1, <3>2 DEF DraftParts
  <2>9. Lists(c, s, Named("mtp", 0, DraftParts))
    BY <2>1, <2>7, <2>8, TupleLists
  <2> QED BY <2>9 DEF s
<1> QED BY <1>2, <1>3

\* The tensors of a hyper-connection.
LEMMA HcLists ==
  ASSUME NEW c, SizesOK(c), NEW m, NEW l, NEW part, part[1] \in Bf16Parts, part[2] \in F32Parts, part[3] \in F32Parts
  PROVE  Lists(c, HcTensors(m, l, part, c), Named(m, l, {part[1], part[2], part[3]}))
<1> DEFINE hc == 2 * c.n_hc + c.n_hc * c.n_hc
<1> DEFINE s == HcTensors(m, l, part, c)
<1>1. hc \in Nat /\ c.n_hc * c.hidden \in Nat
  <2>1. c.n_hc \in Nat /\ c.hidden \in Nat
    BY CfgSizes
  <2> DEFINE x == c.n_hc
  <2> HIDE DEF x
  <2>2. x * x \in Nat /\ x * c.hidden \in Nat /\ x \in Nat
    BY ONLY <2>1, Product DEF x
  <2>3. 2 * x + x * x \in Nat
    BY ONLY <2>2
  <2> QED BY <2>2, <2>3 DEF x
<1>2. s = <<Decl(m, l, part[1], hc, c.n_hc * c.hidden, "bf16"), Vec(m, l, part[2], hc), Vec(m, l, part[3], 3)>>
  BY DEF HcTensors
<1> HIDE DEF s, hc
<1>3. s = [i \in 1..3 |-> s[i]]
  BY <1>2
<1>4. Sound(c, s[1]) /\ Sound(c, s[2]) /\ Sound(c, s[3])
  BY <1>1, <1>2, DeclIs
<1>5. s[1].name = <<m, l, part[1]>> /\ s[2].name = <<m, l, part[2]>> /\ s[3].name = <<m, l, part[3]>>
  BY <1>2, NameIs
<1>6. \A i \in 1..3 : Sound(c, s[i])
  BY <1>4
<1>7. \A name \in Named(m, l, {part[1], part[2], part[3]}) : \E i \in 1..3 : s[i].name = name
  <2>1. 1 \in 1..3 /\ 2 \in 1..3 /\ 3 \in 1..3
    OBVIOUS
  <2> QED BY <1>5, <2>1 DEF Named
<1>8. Lists(c, s, Named(m, l, {part[1], part[2], part[3]}))
  BY <1>3, <1>6, <1>7, TupleLists
<1> QED BY <1>8 DEF s

\* The tensors of a compressor.
LEMMA CompressorLists ==
  ASSUME NEW c, SizesOK(c), NEW m, NEW l, NEW head \in Nat, NEW ratio \in Nat,
         NEW part, part[1] \in Bf16Parts, part[2] \in Bf16Parts, part[3] \in F32Parts, part[4] \in F32Parts
  PROVE  Lists(c, Compressor(m, l, part, c, head, ratio), Named(m, l, {part[1], part[2], part[3], part[4]}))
<1> DEFINE wide == (IF ratio = 4 THEN 2 ELSE 1) * head
<1> DEFINE s == Compressor(m, l, part, c, head, ratio)
<1>1. wide \in Nat /\ c.hidden \in Nat
  <2>1. wide \in Nat
    OBVIOUS
  <2> QED BY <2>1, CfgSizes
<1>2. s = <<Decl(m, l, part[1], wide, c.hidden, "bf16"), Decl(m, l, part[2], wide, c.hidden, "bf16"),
            Decl(m, l, part[3], ratio, wide, "f32"), Vec(m, l, part[4], head)>>
  BY DEF Compressor
<1> HIDE DEF s, wide
<1>3. s = [i \in 1..4 |-> s[i]]
  BY <1>2
<1>4. Sound(c, s[1]) /\ Sound(c, s[2]) /\ Sound(c, s[3]) /\ Sound(c, s[4])
  BY <1>1, <1>2, DeclIs
<1>5. /\ s[1].name = <<m, l, part[1]>> /\ s[2].name = <<m, l, part[2]>>
      /\ s[3].name = <<m, l, part[3]>> /\ s[4].name = <<m, l, part[4]>>
  BY <1>2, NameIs
<1>6. \A i \in 1..4 : Sound(c, s[i])
  BY <1>4
<1>7. \A name \in Named(m, l, {part[1], part[2], part[3], part[4]}) : \E i \in 1..4 : s[i].name = name
  <2>1. 1 \in 1..4 /\ 2 \in 1..4 /\ 3 \in 1..4 /\ 4 \in 1..4
    OBVIOUS
  <2> QED BY <1>5, <2>1 DEF Named
<1>8. Lists(c, s, Named(m, l, {part[1], part[2], part[3], part[4]}))
  BY <1>3, <1>6, <1>7, TupleLists
<1> QED BY <1>8 DEF s

\* The tensors every layer has.
OwnParts ==
  {"attn_norm", "ffn_norm", "attn_sinks", "attn_q_a", "attn_q_b", "attn_kv", "attn_out_a", "attn_out_b",
   "attn_q_norm", "attn_kv_norm", "ffn_gate_inp", "shexp_gate", "shexp_up", "shexp_down"}
RouterPart(c, dspark, l) == IF ~dspark /\ l < c.n_hash THEN "ffn_gate_hash" ELSE "ffn_gate_bias"
OwnTensors(c, dspark, m, l) ==
  <<Vec(m, l, "attn_norm", c.hidden), Vec(m, l, "ffn_norm", c.hidden), Vec(m, l, "attn_sinks", c.nh),
    Decl(m, l, "attn_q_a", c.qr, c.hidden, "fp8_e4m3"), Decl(m, l, "attn_q_b", c.nh * c.hd, c.qr, "fp8_e4m3"),
    Decl(m, l, "attn_kv", c.hd, c.hidden, "fp8_e4m3"),
    Decl(m, l, "attn_out_a", 8 * c.orank, c.hidden, "fp8_e4m3"),
    Decl(m, l, "attn_out_b", c.hidden, 8 * c.orank, "fp8_e4m3"),
    Vec(m, l, "attn_q_norm", c.qr), Vec(m, l, "attn_kv_norm", c.hd),
    Decl(m, l, "ffn_gate_inp", c.n_expert, c.hidden, "bf16"), RouterExtra(c, dspark, m, l),
    Decl(m, l, "shexp_gate", c.inter, c.hidden, "fp8_e4m3"), Decl(m, l, "shexp_up", c.inter, c.hidden, "fp8_e4m3"),
    Decl(m, l, "shexp_down", c.hidden, c.inter, "fp8_e4m3")>>

\* So are a layer's own tensors.
LEMMA OwnLists ==
  ASSUME NEW c, SizesOK(c), NEW dspark \in BOOLEAN, NEW m, NEW l \in Nat
  PROVE  Lists(c, OwnTensors(c, dspark, m, l), Named(m, l, OwnParts \cup {RouterPart(c, dspark, l)}))
<1> DEFINE s == OwnTensors(c, dspark, m, l)
<1>1. /\ c.n_expert \in Nat /\ c.hidden \in Nat /\ c.inter \in Nat /\ c.vocab \in Nat
      /\ c.qr \in Nat /\ c.orank \in Nat /\ c.hd \in Nat /\ c.nh \in Nat /\ c.n_used \in Nat
  BY CfgSizes
<1>2. c.nh * c.hd \in Nat /\ 8 * c.orank \in Nat
  BY ONLY <1>1, Product, 8 \in Nat
<1>3. Sound(c, RouterExtra(c, dspark, m, l)) /\ RouterExtra(c, dspark, m, l).name = <<m, l, RouterPart(c, dspark, l)>>
  <2>1. "ffn_gate_hash" \in F32Parts /\ "ffn_gate_bias" \in F32Parts
    BY DEF F32Parts
  <2>2. CASE ~dspark /\ l < c.n_hash
    BY <1>1, <2>1, <2>2, DeclIs, NameIs DEF RouterExtra, RouterPart
  <2>3. CASE ~(~dspark /\ l < c.n_hash)
    BY <1>1, <2>1, <2>3, DeclIs, NameIs DEF RouterExtra, RouterPart
  <2> QED BY <2>2, <2>3
<1>4. /\ {"attn_norm", "ffn_norm", "attn_sinks", "attn_q_norm", "attn_kv_norm"} \subseteq F32Parts
      /\ {"attn_q_a", "attn_q_b", "attn_kv", "attn_out_a", "attn_out_b", "shexp_gate", "shexp_up", "shexp_down"} \subseteq Fp8Parts
      /\ "ffn_gate_inp" \in Bf16Parts
  BY DEF F32Parts, Fp8Parts, Bf16Parts
<1>5. Sound(c, s[1]) /\ Sound(c, s[2]) /\ Sound(c, s[3]) /\ Sound(c, s[4]) /\ Sound(c, s[5])
  BY <1>1, <1>2, <1>4, DeclIs DEF OwnTensors
<1>6. Sound(c, s[6]) /\ Sound(c, s[7]) /\ Sound(c, s[8]) /\ Sound(c, s[9]) /\ Sound(c, s[10])
  BY <1>1, <1>2, <1>4, DeclIs DEF OwnTensors
<1>7. Sound(c, s[11]) /\ Sound(c, s[12]) /\ Sound(c, s[13]) /\ Sound(c, s[14]) /\ Sound(c, s[15])
  BY <1>1, <1>3, <1>4, DeclIs DEF OwnTensors
<1>8. s = [i \in 1..15 |-> s[i]]
  BY DEF OwnTensors
<1>9. /\ s[1].name = <<m, l, "attn_norm">> /\ s[2].name = <<m, l, "ffn_norm">> /\ s[3].name = <<m, l, "attn_sinks">>
      /\ s[4].name = <<m, l, "attn_q_a">> /\ s[5].name = <<m, l, "attn_q_b">> /\ s[6].name = <<m, l, "attn_kv">>
      /\ s[7].name = <<m, l, "attn_out_a">> /\ s[8].name = <<m, l, "attn_out_b">>
  BY NameIs DEF OwnTensors
<1>10. /\ s[9].name = <<m, l, "attn_q_norm">> /\ s[10].name = <<m, l, "attn_kv_norm">>
       /\ s[11].name = <<m, l, "ffn_gate_inp">> /\ s[12].name = <<m, l, RouterPart(c, dspark, l)>>
       /\ s[13].name = <<m, l, "shexp_gate">> /\ s[14].name = <<m, l, "shexp_up">>
       /\ s[15].name = <<m, l, "shexp_down">>
  BY <1>3, NameIs DEF OwnTensors
<1> HIDE DEF s
<1>11. \A i \in 1..15 : Sound(c, s[i])
  BY <1>5, <1>6, <1>7
<1>12. ASSUME NEW part \in OwnParts \cup {RouterPart(c, dspark, l)}
       PROVE  \E i \in 1..15 : s[i].name = <<m, l, part>>
  <2>1. /\ 1 \in 1..15 /\ 2 \in 1..15 /\ 3 \in 1..15 /\ 4 \in 1..15 /\ 5 \in 1..15 /\ 6 \in 1..15
        /\ 7 \in 1..15 /\ 8 \in 1..15 /\ 9 \in 1..15 /\ 10 \in 1..15 /\ 11 \in 1..15 /\ 12 \in 1..15
        /\ 13 \in 1..15 /\ 14 \in 1..15 /\ 15 \in 1..15
    OBVIOUS
  <2>2. CASE part \in {"attn_norm", "ffn_norm", "attn_sinks", "attn_q_a", "attn_q_b", "attn_kv", "attn_out_a", "attn_out_b"}
    BY <1>9, <2>1, <2>2
  <2>3. CASE part \in {"attn_q_norm", "attn_kv_norm", "ffn_gate_inp", "shexp_gate", "shexp_up", "shexp_down"}
    BY <1>10, <2>1, <2>3
  <2>4. CASE part = RouterPart(c, dspark, l)
    BY <1>10, <2>1, <2>4
  <2> QED BY <2>2, <2>3, <2>4 DEF OwnParts
<1>13. \A name \in Named(m, l, OwnParts \cup {RouterPart(c, dspark, l)}) : \E i \in 1..15 : s[i].name = name
  BY <1>12 DEF Named
<1>14. Lists(c, s, Named(m, l, OwnParts \cup {RouterPart(c, dspark, l)}))
  BY <1>8, <1>11, <1>13, TupleLists
<1> QED BY <1>14 DEF s

\* The parts of a layer, and their names.
LayerModel(dspark) == IF dspark THEN "mtp" ELSE "blk"
HcAttnAll == {"hc_attn_fn", "hc_attn_base", "hc_attn_scale"}
HcFfnAll == {"hc_ffn_fn", "hc_ffn_base", "hc_ffn_scale"}
LayerParts(c, dspark, l) ==
  OwnParts \cup {RouterPart(c, dspark, l)} \cup HcAttnAll \cup HcFfnAll
  \cup (IF StageRatio(c, dspark, l) # 0 THEN CompressorAll ELSE {})
  \cup (IF StageRatio(c, dspark, l) = 4 THEN IndexerAll ELSE {})
LayerNames(c, dspark, l) == Named(LayerModel(dspark), l, LayerParts(c, dspark, l))

\* Names one set after the other.
LEMMA NamedJoins ==
  ASSUME NEW m, NEW l, NEW parts, NEW more
  PROVE  Named(m, l, parts \cup more) = Named(m, l, parts) \cup Named(m, l, more)
BY DEF Named

\* The compressor's tensors, of a layer that compresses, and the indexer's, of one that
\* selects.
CompTensors(c, m, l, ratio) == IF ratio # 0 THEN Compressor(m, l, CompParts, c, c.hd, ratio) ELSE <<>>
IdxPair(c, m, l) ==
  <<Decl(m, l, "idx_wq_b", c.inh * c.ihd, c.qr, "fp8_e4m3"), Decl(m, l, "idx_proj", c.inh, c.hidden, "bf16")>>
IdxTensors(c, m, l, ratio) ==
  IF ratio = 4 THEN IdxPair(c, m, l) \o Compressor(m, l, IdxCompParts, c, c.ihd, ratio) ELSE <<>>

\* So are those of a layer's compressor, where it has one.
LEMMA CompLists ==
  ASSUME NEW c, SizesOK(c), NEW m, NEW l, NEW ratio \in Nat
  PROVE  Lists(c, CompTensors(c, m, l, ratio), Named(m, l, IF ratio # 0 THEN CompressorAll ELSE {}))
<1>1. CASE ratio # 0
  <2>1. c.hd \in Nat
    BY CfgSizes
  <2>2. /\ CompParts[1] \in Bf16Parts /\ CompParts[2] \in Bf16Parts
        /\ CompParts[3] \in F32Parts /\ CompParts[4] \in F32Parts
        /\ {CompParts[1], CompParts[2], CompParts[3], CompParts[4]} = CompressorAll
    BY DEF CompParts, Bf16Parts, F32Parts, CompressorAll, CompressorDense
  <2>3. Lists(c, Compressor(m, l, CompParts, c, c.hd, ratio),
              Named(m, l, {CompParts[1], CompParts[2], CompParts[3], CompParts[4]}))
    BY <2>1, <2>2, CompressorLists
  <2> QED BY <1>1, <2>2, <2>3 DEF CompTensors
<1>2. CASE ratio = 0
  <2>1. Named(m, l, {}) = {}
    BY DEF Named
  <2> QED BY <1>2, <2>1, NoneListed DEF CompTensors
<1> QED BY <1>1, <1>2

\* So are those of a layer's indexer, where it has one.
LEMMA IdxLists ==
  ASSUME NEW c, SizesOK(c), NEW m, NEW l, NEW ratio \in Nat
  PROVE  Lists(c, IdxTensors(c, m, l, ratio), Named(m, l, IF ratio = 4 THEN IndexerAll ELSE {}))
<1>1. CASE ratio = 4
  <2>1. c.ihd \in Nat /\ c.inh \in Nat /\ c.qr \in Nat /\ c.hidden \in Nat
    BY CfgSizes
  <2>2. c.inh * c.ihd \in Nat
    BY ONLY <2>1, Product
  <2>3. /\ IdxCompParts[1] \in Bf16Parts /\ IdxCompParts[2] \in Bf16Parts
        /\ IdxCompParts[3] \in F32Parts /\ IdxCompParts[4] \in F32Parts
        /\ {"idx_wq_b", "idx_proj"} \cup {IdxCompParts[1], IdxCompParts[2], IdxCompParts[3], IdxCompParts[4]} = IndexerAll
    BY DEF IdxCompParts, Bf16Parts, F32Parts, IndexerAll, IndexerDense
  <2>4. Lists(c, Compressor(m, l, IdxCompParts, c, c.ihd, ratio),
              Named(m, l, {IdxCompParts[1], IdxCompParts[2], IdxCompParts[3], IdxCompParts[4]}))
    BY <2>1, <2>3, CompressorLists
  <2>5. Lists(c, IdxPair(c, m, l), Named(m, l, {"idx_wq_b", "idx_proj"}))
    <3> DEFINE s == IdxPair(c, m, l)
    <3>1. s = [i \in 1..2 |-> s[i]]
      BY DEF IdxPair
    <3>2. "idx_wq_b" \in Fp8Parts /\ "idx_wq_b" # "main_proj" /\ "idx_proj" \in Bf16Parts
      BY DEF Fp8Parts, Bf16Parts
    <3>3. Sound(c, s[1]) /\ Sound(c, s[2])
      BY <2>1, <2>2, <3>2, DeclIs DEF IdxPair
    <3>4. s[1].name = <<m, l, "idx_wq_b">> /\ s[2].name = <<m, l, "idx_proj">>
      BY NameIs DEF IdxPair
    <3> HIDE DEF s
    <3>5. \A i \in 1..2 : Sound(c, s[i])
      BY <3>3
    <3>6. \A name \in Named(m, l, {"idx_wq_b", "idx_proj"}) : \E i \in 1..2 : s[i].name = name
      <4>1. 1 \in 1..2 /\ 2 \in 1..2
        OBVIOUS
      <4> QED BY <3>4, <4>1 DEF Named
    <3>7. Lists(c, s, Named(m, l, {"idx_wq_b", "idx_proj"}))
      BY <3>1, <3>5, <3>6, TupleLists
    <3> QED BY <3>7 DEF s
  <2> DEFINE names == Named(m, l, {"idx_wq_b", "idx_proj"})
  <2> DEFINE more == Named(m, l, {IdxCompParts[1], IdxCompParts[2], IdxCompParts[3], IdxCompParts[4]})
  <2>6. names \cup more = Named(m, l, IndexerAll)
    BY <2>3, NamedJoins
  <2> HIDE DEF names, more
  <2>7. Lists(c, IdxPair(c, m, l) \o Compressor(m, l, IdxCompParts, c, c.ihd, ratio), names \cup more)
    BY <2>4, <2>5, ConcatLists DEF names, more
  <2> QED BY <1>1, <2>6, <2>7 DEF IdxTensors
<1>2. CASE ratio # 4
  <2>1. Named(m, l, {}) = {}
    BY DEF Named
  <2> QED BY <1>2, <2>1, NoneListed DEF IdxTensors
<1> QED BY <1>1, <1>2

\* A layer's tensors.
LEMMA LayerLists ==
  ASSUME NEW c, SizesOK(c), NEW dspark \in BOOLEAN, NEW l \in Nat
  PROVE  Lists(c, LayerTensors(c, dspark, l), LayerNames(c, dspark, l))
<1> DEFINE m == LayerModel(dspark)
<1> DEFINE ratio == StageRatio(c, dspark, l)
<1> DEFINE own == OwnTensors(c, dspark, m, l)
<1> DEFINE attn == HcTensors(m, l, HcParts[1], c)
<1> DEFINE ffn == HcTensors(m, l, HcParts[2], c)
<1> DEFINE comp == CompTensors(c, m, l, ratio)
<1> DEFINE pick == IdxTensors(c, m, l, ratio)
<1> DEFINE compParts == IF ratio # 0 THEN CompressorAll ELSE {}
<1> DEFINE pickParts == IF ratio = 4 THEN IndexerAll ELSE {}
<1> DEFINE ownParts == OwnParts \cup {RouterPart(c, dspark, l)}
<1>1. ratio \in Nat
  BY RatioNat
<1>2. LayerTensors(c, dspark, l) = own \o attn \o ffn \o comp \o pick
  BY DEF LayerTensors, LayerModel, OwnTensors, CompTensors, IdxTensors, IdxPair
<1>3. Lists(c, own, Named(m, l, ownParts))
  BY OwnLists
<1>4. Lists(c, attn, Named(m, l, HcAttnAll)) /\ Lists(c, ffn, Named(m, l, HcFfnAll))
  <2>1. /\ HcParts[1][1] \in Bf16Parts /\ HcParts[1][2] \in F32Parts /\ HcParts[1][3] \in F32Parts
        /\ HcParts[2][1] \in Bf16Parts /\ HcParts[2][2] \in F32Parts /\ HcParts[2][3] \in F32Parts
        /\ {HcParts[1][1], HcParts[1][2], HcParts[1][3]} = HcAttnAll
        /\ {HcParts[2][1], HcParts[2][2], HcParts[2][3]} = HcFfnAll
    BY DEF HcParts, Bf16Parts, F32Parts, HcAttnAll, HcFfnAll
  <2> DEFINE a == HcParts[1]
  <2> DEFINE b == HcParts[2]
  <2> HIDE DEF a, b
  <2>2. /\ a[1] \in Bf16Parts /\ a[2] \in F32Parts /\ a[3] \in F32Parts
        /\ b[1] \in Bf16Parts /\ b[2] \in F32Parts /\ b[3] \in F32Parts
        /\ {a[1], a[2], a[3]} = HcAttnAll /\ {b[1], b[2], b[3]} = HcFfnAll
    BY <2>1 DEF a, b
  <2>3. /\ Lists(c, HcTensors(m, l, a, c), Named(m, l, {a[1], a[2], a[3]}))
        /\ Lists(c, HcTensors(m, l, b, c), Named(m, l, {b[1], b[2], b[3]}))
    BY <2>2, HcLists
  <2> QED BY <2>2, <2>3 DEF a, b
<1>5. Lists(c, comp, Named(m, l, compParts)) /\ Lists(c, pick, Named(m, l, pickParts))
  BY <1>1, CompLists, IdxLists
<1>6. LayerParts(c, dspark, l) = ownParts \cup HcAttnAll \cup HcFfnAll \cup compParts \cup pickParts
  BY DEF LayerParts
<1> HIDE DEF ratio, own, attn, ffn, comp, pick, compParts, pickParts, ownParts
<1>7. Lists(c, own \o attn, Named(m, l, ownParts \cup HcAttnAll))
  BY <1>3, <1>4, ConcatLists, NamedJoins
<1>8. Lists(c, own \o attn \o ffn, Named(m, l, ownParts \cup HcAttnAll \cup HcFfnAll))
  BY <1>4, <1>7, ConcatLists, NamedJoins
<1>9. Lists(c, own \o attn \o ffn \o comp, Named(m, l, ownParts \cup HcAttnAll \cup HcFfnAll \cup compParts))
  BY <1>5, <1>8, ConcatLists, NamedJoins
<1>10. Lists(c, own \o attn \o ffn \o comp \o pick,
             Named(m, l, ownParts \cup HcAttnAll \cup HcFfnAll \cup compParts \cup pickParts))
  BY <1>5, <1>9, ConcatLists, NamedJoins
<1> QED BY <1>2, <1>6, <1>10 DEF LayerNames

\* All that is declared.
HeadNames(dspark) == IF dspark THEN Named("mtp", 0, DraftParts) ELSE Named("blk", 0, ModelParts)
DeclNames(c, dspark, n) ==
  {CodebookName} \cup HeadNames(dspark) \cup UNION {LayerNames(c, dspark, i - 1) : i \in 1..n}
\* So is everything that aff-quantize declares.
LEMMA AllListed ==
  ASSUME NEW c, SizesOK(c), NEW dspark \in BOOLEAN, NEW n \in Nat
  PROVE  Lists(c, TensorDecls(c, dspark, n), DeclNames(c, dspark, n))
<1> DEFINE book == <<Decl("blk", 0, "__codebook", 1, c.codes, "f32")>>
<1> DEFINE head == IF dspark THEN DraftTensors(c) ELSE ModelTensors(c)
<1> DEFINE seqs == [l \in 1..n |-> LayerTensors(c, dspark, l - 1)]
<1> DEFINE names == [i \in 1..n |-> LayerNames(c, dspark, i - 1)]
<1>1. TensorDecls(c, dspark, n) = book \o head \o FlattenSeq(seqs)
  BY DEF TensorDecls
<1>2. Lists(c, book, {CodebookName})
  <2>1. book = [i \in 1..1 |-> book[i]]
    OBVIOUS
  <2>2. Sound(c, book[1]) /\ book[1].name = CodebookName
    <3>1. c.codes \in Nat /\ 1 \in Nat
      BY CfgSizes
    <3>2. "__codebook" \in F32Parts
      BY DEF F32Parts
    <3> QED BY <3>1, <3>2, DeclIs, NameIs DEF CodebookName
  <2> HIDE DEF book
  <2>3. (\A i \in 1..1 : Sound(c, book[i])) /\ \A name \in {CodebookName} : \E i \in 1..1 : book[i].name = name
    BY <2>2
  <2> QED BY <2>1, <2>3, TupleLists
<1>3. Lists(c, head, HeadNames(dspark))
  BY HeadLists DEF HeadNames
<1>4. Lists(c, FlattenSeq(seqs), UNION {names[i] : i \in 1..n})
  <2>1. seqs = [i \in 1..n |-> seqs[i]]
    OBVIOUS
  <2>2. \A i \in 1..n : Lists(c, seqs[i], names[i])
    <3> TAKE i \in 1..n
    <3>1. i - 1 \in Nat /\ seqs[i] = LayerTensors(c, dspark, i - 1) /\ names[i] = LayerNames(c, dspark, i - 1)
      OBVIOUS
    <3> HIDE DEF seqs, names
    <3> QED BY <3>1, LayerLists
  <2> HIDE DEF seqs, names
  <2> QED BY <2>1, <2>2, FlattenLists
<1>5. UNION {names[i] : i \in 1..n} = UNION {LayerNames(c, dspark, i - 1) : i \in 1..n}
  OBVIOUS
<1> DEFINE layers == FlattenSeq(seqs)
<1> DEFINE layerNames == UNION {names[i] : i \in 1..n}
<1> HIDE DEF book, head, seqs, names, layers, layerNames
<1>6. Lists(c, book \o head, {CodebookName} \cup HeadNames(dspark))
  BY <1>2, <1>3, ConcatLists
<1>7. Lists(c, book \o head \o layers, {CodebookName} \cup HeadNames(dspark) \cup layerNames)
  BY <1>4, <1>6, ConcatLists DEF layers, layerNames
<1> QED BY <1>1, <1>5, <1>7 DEF DeclNames, layers, layerNames

\* A layer's experts as they are laid out.
LEMMA LayersDeclared ==
  ASSUME NEW c, SizesOK(c), NEW n \in Nat
  PROVE  Len(LayerDecls(c, n)) = n /\ \A l \in 1..n : LayerOK(LayerDecls(c, n)[l])
<1>1. ExpertQuant \in DOMAIN kQuantTable
  BY DEF ExpertQuant, kQuantTable
<1>2. c.n_expert \in Nat /\ c.hidden \in Nat /\ c.inter \in Nat
  BY CfgSizes
<1> QED BY <1>1, <1>2 DEF LayerDecls, LayerOK, GeomOK

\* A run declares these, under a config of sound sizes.
LEMMA DeclaresIts ==
  ASSUME ContainerTypeOK, NEW q \in Quantiser
  PROVE  /\ SizesOK(ck.cfg) /\ NLayer(q) \in Nat
         /\ Tensors(q) = TensorDecls(ck.cfg, Dspark(q), NLayer(q))
         /\ Lists(ck.cfg, Tensors(q), DeclNames(ck.cfg, Dspark(q), NLayer(q)))
<1>1. /\ NLayer(q) \in Nat /\ which \in DOMAIN Given
      /\ Plan(q) = PlanOf(ck, TensorDecls(ck.cfg, Dspark(q), NLayer(q)), LayerDecls(ck.cfg, NLayer(q)))
  BY PlanIs
<1>2. SizesOK(ck.cfg)
  BY <1>1, ContainerAssumption DEF Given, ck, CheckpointIsSound, SizesOK
<1>3. Tensors(q) = TensorDecls(ck.cfg, Dspark(q), NLayer(q))
  BY <1>1 DEF Tensors, PlanOf, PlanUnder
<1>4. Dspark(q) \in BOOLEAN
  BY JobIs
<1> QED BY <1>1, <1>2, <1>3, <1>4, AllListed

\* The places a run is about to write do not overlap and are within the size of its file,
\* which holds a header.
LEMMA PlanApart ==
  ASSUME ContainerTypeOK, NEW q \in Quantiser, OwnsFile(q)
  PROVE  Apart(q) /\ Plan(q).size \in Nat /\ SizeofHeader <= Plan(q).size
<1> DEFINE n == NLayer(q)
<1> DEFINE decls == TensorDecls(ck.cfg, Dspark(q), n)
<1> DEFINE layers == LayerDecls(ck.cfg, n)
<1> DEFINE h == FileLayout(MetaSize, layers, decls)
<1> DEFINE at == Extents(h, layers, decls)
<1>1. n \in Nat /\ which \in DOMAIN Given /\ Plan(q) = PlanOf(ck, decls, layers)
  BY PlanIs
<1>2. Plan(q).extents = at /\ Plan(q).size = h.file_size
  BY <1>1 DEF PlanOf, PlanUnder
<1>3. SizesOK(ck.cfg) /\ Lists(ck.cfg, decls, DeclNames(ck.cfg, Dspark(q), n))
  BY DeclaresIts
<1> HIDE DEF n
<1>4. PICK T : decls \in Seq(T) /\ \A d \in T : DeclOK(d)
  BY <1>3 DEF Lists, Sound
<1>5. Len(layers) = n /\ \A l \in 1..n : LayerOK(layers[l])
  BY <1>1, <1>3, LayersDeclared
<1> HIDE DEF decls, layers
<1> DEFINE m == Len(decls)
<1>6. m \in Nat /\ \A j \in 1..m : DeclOK(decls[j])
  BY <1>4, LenProperties, ElementOfSeq
<1> HIDE DEF m
<1>7. MetaSize \in Nat
  BY DEF MetaSize
<1>8. Chain(at, 0, h.file_size) /\ SizeofHeader <= h.file_size
  <2>1. Len(decls) = m
    BY DEF m
  <2> QED BY ONLY <1>1, <1>5, <1>6, <1>7, <2>1, LayoutChain
<1> HIDE DEF at, h
<1>9. disk[Out(q)].size = h.file_size
  BY <1>2 DEF OwnsFile
<1>10. /\ DOMAIN at = 1..Len(at) /\ h.file_size \in Nat
       /\ \A i \in 1..Len(at) : at[i][1] + at[i][2] <= IF i < Len(at) THEN at[i + 1][1] ELSE h.file_size
  BY <1>8, LenProperties DEF Chain
<1> QED BY <1>2, <1>8, <1>9, <1>10 DEF Apart

\* What a file the engine opens holds.
LEMMA FileWhole ==
  ASSUME ContainerInv, NEW f \in File, Accepts(f)
  PROVE  LET w == WriterOf(f)
             places == {TensorPlace(k) : k \in DOMAIN Tensors(w)}
                       \cup {ExpertPlace(x[1], x[2], k) : x \in AllExperts(w), k \in 1..9}
         IN \A p \in places : HasPart(f, p) /\ disk[f].parts[p].by = w
<1> DEFINE w == WriterOf(f)
<1>1. FileInv(f)
  BY DEF ContainerInv
<1>2. HasPart(f, DirPlace("header")) /\ HasPart(f, DirPlace("layers")) /\ w = disk[f].parts[DirPlace("header")].by
  BY DEF Accepts, DirPlace, WriterOf
<1>3. w \in Quantiser /\ \A p \in DOMAIN disk[f].parts : disk[f].parts[p].by = w
  BY <1>1, <1>2 DEF FileInv, HasPart
<1>4. \A p \in TensorPlaces(w) \cup ExpertPlaces(w) : p \in DOMAIN disk[f].parts
  BY <1>1, <1>2, <1>3 DEF FileInv, HasPart
<1> QED BY <1>3, <1>4 DEF TensorPlaces, ExpertPlaces, HasPart

\* A file the engine opens is whole and of one run, and its places do not overlap:
\* whatever the checkpoints, the arguments and the deaths, as long as no two runs that
\* may write one file are under way together.
THEOREM AcceptedContainerIsWhole ==
  ASSUME OneAtATime
  PROVE  ContainerSpec => []AcceptedIsWhole
<1>1. ContainerInv => AcceptedIsWhole
  <2> SUFFICES ASSUME ContainerInv PROVE AcceptedIsWhole
    OBVIOUS
  <2>1. ASSUME NEW q \in Quantiser, PcIs(q, "header") PROVE Apart(q)
    <3>1. OwnsFile(q) /\ ContainerTypeOK
      BY <2>1 DEF ContainerInv, RunInv, PcIs, Writing
    <3> QED BY <3>1, PlanApart
  <2>2. DOMAIN disk = File
    BY DEF ContainerInv, ContainerTypeOK
  <2> QED BY <2>1, <2>2, FileWhole DEF AcceptedIsWhole
<1>2. ContainerSpec => []ContainerInv
  BY ContainerInvariance
<1> QED BY <1>1, <1>2, PTL

-----------------------------------------------------------------------------
(* What the engine binds: a directory of the tensors declared has every     *)
(* name it looks for, each in a format it decodes.                         *)

Faithful(c, dir, names) ==
  /\ \A name \in names : Has(dir, name)
  /\ \A name \in DOMAIN dir :
       dir[name].quant = FormatOf(name[3]) /\ (name[3] = "main_proj" => dir[name].cols = c.hidden * Len(c.taps))

\* The directory of a list.
LEMMA ByNameIs ==
  ASSUME NEW c, NEW s, NEW names, Lists(c, s, names)
  PROVE  /\ Faithful(c, ByName(s), names)
         /\ \A name \in DOMAIN ByName(s) :
              ByName(s)[name].at \in DOMAIN s /\ s[ByName(s)[name].at].name = name
<1>1. PICK T : s \in Seq(T) /\ \A d \in T : Sound(c, d)
  BY DEF Lists
<1>2. DOMAIN s = 1..Len(s) /\ \A k \in DOMAIN s : Sound(c, s[k])
  BY <1>1, LenProperties, ElementOfSeq
<1> DEFINE dir == ByName(s)
<1>3. DOMAIN dir = {s[k].name : k \in DOMAIN s}
  BY DEF ByName
<1>4. ASSUME NEW name \in DOMAIN dir
      PROVE  /\ dir[name].at \in DOMAIN s /\ s[dir[name].at].name = name
             /\ dir[name].quant = FormatOf(name[3])
             /\ name[3] = "main_proj" => dir[name].cols = c.hidden * Len(c.taps)
  <2> DEFINE k == CHOOSE k \in DOMAIN s : s[k].name = name
  <2>1. dir[name] = [at |-> k, quant |-> s[k].quant, cols |-> s[k].cols]
    BY <1>3 DEF ByName
  <2>2. k \in DOMAIN s /\ s[k].name = name
    BY <1>3
  <2> HIDE DEF k, dir
  <2>3. dir[name].at = k /\ dir[name].quant = s[k].quant /\ dir[name].cols = s[k].cols
    BY <2>1
  <2>4. Sound(c, s[k])
    BY <1>2, <2>2
  <2> QED BY <2>2, <2>3, <2>4 DEF Sound
<1>5. \A name \in names : name \in DOMAIN dir
  <2> HIDE DEF dir
  <2> QED BY <1>2, <1>3 DEF Lists
<1> HIDE DEF dir
<1>6. Faithful(c, dir, names)
  BY <1>4, <1>5 DEF Faithful, Has
<1> QED BY <1>4, <1>6 DEF dir

\* Nothing is in a format that is not decoded.
LEMMA NoneAborts ==
  ASSUME NEW c, NEW dir, NEW names, Faithful(c, dir, names), NEW m, NEW l
  PROVE  /\ \A part \in Fp8Parts \cup Bf16Parts : ~dense_aborts(dir, <<m, l, part>>)
         /\ \A part \in Bf16Parts : ~bf16_aborts(dir, <<m, l, part>>)
<1>1. ASSUME NEW part PROVE Has(dir, <<m, l, part>>) => dir[<<m, l, part>>].quant = FormatOf(part)
  <2> DEFINE name == <<m, l, part>>
  <2>1. name[3] = part
    OBVIOUS
  <2> HIDE DEF name
  <2>2. Has(dir, name) => dir[name].quant = FormatOf(part)
    BY <2>1 DEF Faithful, Has
  <2> QED BY <2>2 DEF name
<1>2. \A part \in Bf16Parts : FormatOf(part) = "bf16"
  BY DEF FormatOf, Fp8Parts, Bf16Parts
<1>3. \A part \in Fp8Parts : FormatOf(part) = "fp8_e4m3"
  BY DEF FormatOf
<1> QED BY <1>1, <1>2, <1>3 DEF dense_aborts, bf16_aborts

\* Those of a set of parts.
LEMMA PartsBind ==
  ASSUME NEW c, NEW dir, NEW names, Faithful(c, dir, names), NEW m, NEW l, NEW parts
  PROVE  /\ parts \subseteq Fp8Parts \cup Bf16Parts => \A n \in Named(m, l, parts) : ~dense_aborts(dir, n)
         /\ Named(m, l, parts) \subseteq names => \A n \in Named(m, l, parts) : Has(dir, n)
<1>1. parts \subseteq Fp8Parts \cup Bf16Parts => \A n \in Named(m, l, parts) : ~dense_aborts(dir, n)
  BY NoneAborts DEF Named
<1>2. Named(m, l, parts) \subseteq names => \A n \in Named(m, l, parts) : Has(dir, n)
  BY DEF Faithful
<1> QED BY <1>1, <1>2

\* A layer of the model, or a stage of the draft.
LEMMA CommonBinds ==
  ASSUME NEW c, NEW dir, NEW names, Faithful(c, dir, names), NEW dspark, NEW l,
         LayerNames(c, dspark, l) \subseteq names
  PROVE  ~CommonAborts(dir, LayerModel(dspark), l) /\ CommonFound(dir, LayerModel(dspark), l)
<1> DEFINE m == LayerModel(dspark)
<1>1. LayerDense \subseteq Fp8Parts \cup Bf16Parts
  BY DEF LayerDense, Fp8Parts, Bf16Parts
<1>2. "ffn_gate_inp" \in Bf16Parts
  BY DEF Bf16Parts
<1> HIDE DEF m
<1>3. \A n \in Named(m, l, LayerDense) : ~dense_aborts(dir, n)
  BY <1>1, PartsBind
<1>4. ~bf16_aborts(dir, <<m, l, "ffn_gate_inp">>)
  BY <1>2, NoneAborts
<1>5. LayerDense \cup LayerVectors \cup {"ffn_gate_inp"} \subseteq LayerParts(c, dspark, l)
  BY DEF LayerDense, LayerVectors, LayerParts, OwnParts, HcAttnAll, HcFfnAll
<1>6. Named(m, l, LayerDense \cup LayerVectors \cup {"ffn_gate_inp"}) \subseteq names
  BY <1>5 DEF Named, LayerNames, m
<1>7. CommonFound(dir, m, l)
  BY <1>6, PartsBind DEF CommonFound
<1>8. ~CommonAborts(dir, m, l)
  BY <1>3, <1>4 DEF CommonAborts, bf16_aborts
<1> QED BY <1>7, <1>8 DEF m

\* A layer of the model loads.
LEMMA LayerBinds ==
  ASSUME NEW c, NEW dir, NEW names, Faithful(c, dir, names), NEW l, LayerNames(c, FALSE, l) \subseteq names,
         NEW k, k.ratios = c.ratios, k.n_hash = c.n_hash
  PROVE  LayerLoads(dir, k, l)
<1>1. ~CommonAborts(dir, "blk", l) /\ CommonFound(dir, "blk", l)
  <2>1. LayerModel(FALSE) = "blk"
    BY DEF LayerModel
  <2> QED BY <2>1, CommonBinds
<1>2. \A n \in Named("blk", l, CompressorDense \cup IndexerDense) : ~dense_aborts(dir, n)
  <2>1. CompressorDense \cup IndexerDense \subseteq Fp8Parts \cup Bf16Parts
    BY DEF CompressorDense, IndexerDense, Fp8Parts, Bf16Parts
  <2> QED BY <2>1, PartsBind
<1> DEFINE ratio == StageRatio(c, FALSE, l)
<1>3. RatioOf(k.ratios, l) = ratio
  BY DEF StageRatio
<1>4. LayerNames(c, FALSE, l) = Named("blk", l, LayerParts(c, FALSE, l))
  BY DEF LayerNames, LayerModel
<1>5. \A part \in LayerParts(c, FALSE, l) : Has(dir, <<"blk", l, part>>)
  BY <1>4 DEF Faithful, Named
<1>6. /\ ratio # 0 => CompressorAll \subseteq LayerParts(c, FALSE, l)
      /\ ratio = 4 => IndexerAll \subseteq LayerParts(c, FALSE, l)
      /\ RouterPart(c, FALSE, l) \in LayerParts(c, FALSE, l)
  BY DEF LayerParts
<1> HIDE DEF ratio
<1>7. RatioOf(k.ratios, l) # 0 => \A n \in Named("blk", l, CompressorAll) : Has(dir, n)
  BY <1>3, <1>5, <1>6 DEF Named
<1>8. RatioOf(k.ratios, l) = 4 => \A n \in Named("blk", l, IndexerAll) : Has(dir, n)
  BY <1>3, <1>5, <1>6 DEF Named
<1>9. IF l < k.n_hash THEN Has(dir, <<"blk", l, "ffn_gate_hash">>) ELSE Has(dir, <<"blk", l, "ffn_gate_bias">>)
  <2>1. CASE l < k.n_hash
    BY <1>5, <1>6, <2>1 DEF RouterPart
  <2>2. CASE ~(l < k.n_hash)
    BY <1>5, <1>6, <2>2 DEF RouterPart
  <2> QED BY <2>1, <2>2
<1> QED BY <1>1, <1>2, <1>7, <1>8, <1>9 DEF LayerLoads

\* The model binds, under a config that has no more layers than its file.
LEMMA ModelIsBound ==
  ASSUME NEW c, NEW n \in Nat, NEW dir, Faithful(c, dir, DeclNames(c, FALSE, n)),
         NEW k, k.ratios = c.ratios, k.n_hash = c.n_hash, k.n_layer \in Nat, k.n_layer <= n
  PROVE  ModelBinds(dir, k)
<1> DEFINE names == DeclNames(c, FALSE, n)
<1>1. CodebookName \in names /\ Named("blk", 0, ModelParts) \subseteq names
  BY DEF DeclNames, HeadNames
<1>2. \A l \in 0..(k.n_layer - 1) : LayerNames(c, FALSE, l) \subseteq names
  <2> TAKE l \in 0..(k.n_layer - 1)
  <2>1. l + 1 \in 1..n /\ (l + 1) - 1 = l
    OBVIOUS
  <2> QED BY <2>1 DEF DeclNames
<1> HIDE DEF names
<1>3. Faithful(c, dir, names)
  BY DEF names
<1>4. \A l \in 0..(k.n_layer - 1) : LayerLoads(dir, k, l)
  BY <1>2, <1>3, LayerBinds
<1>5. Has(dir, CodebookName)
  BY <1>1, <1>3 DEF Faithful
<1>6. ~bf16_aborts(dir, <<"blk", 0, "token_embd">>)
  <2>1. "token_embd" \in Bf16Parts
    BY DEF Bf16Parts
  <2> QED BY <1>3, <2>1, NoneAborts
<1>7. \A p \in Named("blk", 0, {"output", "hc_head_fn"}) : ~dense_aborts(dir, p)
  <2>1. {"output", "hc_head_fn"} \subseteq Fp8Parts \cup Bf16Parts
    BY DEF Bf16Parts
  <2> QED BY <1>3, <2>1, PartsBind
<1>8. \A p \in Named("blk", 0, ModelParts) : Has(dir, p)
  BY <1>1, <1>3, PartsBind
<1> QED BY <1>4, <1>5, <1>6, <1>7, <1>8 DEF ModelBinds, ModelParts

\* The draft binds, under a config whose taps are layers of the model.
LEMMA DraftIsBound ==
  ASSUME NEW c, NEW n \in Nat, n # 0, NEW dir, Faithful(c, dir, DeclNames(c, TRUE, n)),
         NEW k, k.block # 0, k.taps # <<>>, k.hidden = c.hidden, Len(k.taps) = Len(c.taps),
         \A i \in DOMAIN k.taps : k.taps[i] >= 0 /\ k.taps[i] < k.n_layer
  PROVE  DraftBinds(dir, k, n)
<1> DEFINE names == DeclNames(c, TRUE, n)
<1>1. CodebookName \in names /\ Named("mtp", 0, DraftParts) \subseteq names
  BY DEF DeclNames, HeadNames
<1>2. \A l \in 0..(n - 1) : LayerNames(c, TRUE, l) \subseteq names
  <2> TAKE l \in 0..(n - 1)
  <2>1. l + 1 \in 1..n /\ (l + 1) - 1 = l
    OBVIOUS
  <2> QED BY <2>1 DEF DeclNames
<1> HIDE DEF names
<1>3. Faithful(c, dir, names)
  BY DEF names
<1>4. \A l \in 0..(n - 1) : StageLoads(dir, l)
  <2> TAKE l \in 0..(n - 1)
  <2>1. LayerNames(c, TRUE, l) \subseteq names /\ LayerModel(TRUE) = "mtp"
    BY <1>2 DEF LayerModel
  <2>2. ~CommonAborts(dir, "mtp", l) /\ CommonFound(dir, "mtp", l)
    BY <1>3, <2>1, CommonBinds
  <2>3. <<"mtp", l, "ffn_gate_bias">> \in LayerNames(c, TRUE, l)
    BY DEF LayerNames, LayerModel, Named, LayerParts, RouterPart
  <2> QED BY <1>3, <2>1, <2>2, <2>3 DEF StageLoads, Faithful
<1>5. Has(dir, CodebookName)
  BY <1>1, <1>3 DEF Faithful
<1>6. \A p \in Named("mtp", 0, {"main_proj", "hc_head_fn", "markov_w1", "markov_w2"}) : ~dense_aborts(dir, p)
  <2>1. {"main_proj", "hc_head_fn", "markov_w1", "markov_w2"} \subseteq Fp8Parts \cup Bf16Parts
    BY DEF Fp8Parts, Bf16Parts
  <2> QED BY <1>3, <2>1, PartsBind
<1>7. ~bf16_aborts(dir, <<"mtp", 0, "confidence">>)
  <2>1. "confidence" \in Bf16Parts
    BY DEF Bf16Parts
  <2> QED BY <1>3, <2>1, NoneAborts
<1>8. \A p \in Named("mtp", 0, DraftParts) : Has(dir, p)
  BY <1>1, <1>3, PartsBind
<1>9. dir[<<"mtp", 0, "main_proj">>].cols = k.hidden * Len(k.taps)
  <2> DEFINE name == <<"mtp", 0, "main_proj">>
  <2>1. name \in Named("mtp", 0, DraftParts) /\ name[3] = "main_proj"
    BY DEF Named, DraftParts
  <2> HIDE DEF name
  <2>2. dir[name].cols = c.hidden * Len(c.taps)
    BY <1>3, <1>8, <2>1 DEF Faithful, Has
  <2> QED BY <2>2 DEF name
<1> QED BY <1>4, <1>5, <1>6, <1>7, <1>8, <1>9 DEF DraftBinds, DraftParts

\* std::sort keeps what it sorts: as many elements, each of them one it was given.
LEMMA AscendingIs ==
  ASSUME NEW s, s \in Seq(Nat)
  PROVE  /\ DOMAIN Ascending(s) = DOMAIN s /\ Len(Ascending(s)) = Len(s)
         /\ \A k \in DOMAIN s : \E j \in DOMAIN s : Ascending(s)[k] = s[j]
<1> DEFINE n == Len(s)
<1> DEFINE upto(v) == {j \in 1..n : s[j] <= v}
<1>1. n \in Nat /\ DOMAIN s = 1..n /\ \A j \in 1..n : s[j] \in Nat
  BY LenProperties, ElementOfSeq
<1> HIDE DEF n
<1>2. \A v : IsFiniteSet(upto(v)) /\ Cardinality(upto(v)) \in Nat
  <2> TAKE v
  <2>1. IsFiniteSet(1..n) /\ upto(v) \subseteq 1..n
    BY <1>1, FS_Interval
  <2> HIDE DEF upto
  <2> QED BY <2>1, FS_Subset, FS_CardinalityType
<1>3. \E top \in Nat : \A j \in 1..n : s[j] <= top
  <2> DEFINE S == {i \in 0..n : \E top \in Nat : \A j \in 1..i : s[j] <= top}
  <2>1. 0 \in S
    <3>1. 0 \in 0..n /\ \A j \in 1..0 : s[j] <= 0
      BY <1>1
    <3> QED BY <3>1
  <2>2. \A i \in 0..(n - 1) : i \in S => i + 1 \in S
    <3> TAKE i \in 0..(n - 1)
    <3> HAVE i \in S
    <3>1. PICK top \in Nat : \A j \in 1..i : s[j] <= top
      OBVIOUS
    <3>2. s[i + 1] \in Nat /\ i + 1 \in 0..n
      BY <1>1
    <3> DEFINE more == IF s[i + 1] <= top THEN top ELSE s[i + 1]
    <3>3. more \in Nat /\ top <= more /\ s[i + 1] <= more
      BY <3>1, <3>2
    <3> HIDE DEF more
    <3>4. \A j \in 1..(i + 1) : s[j] <= more
      <4> TAKE j \in 1..(i + 1)
      <4>1. s[j] \in Nat
        BY <1>1
      <4>2. CASE j = i + 1
        BY <3>3, <4>2
      <4>3. CASE j # i + 1
        <5>1. j \in 1..i
          BY <1>1, <4>3
        <5> QED BY <3>1, <3>3, <4>1, <5>1
      <4> QED BY <4>2, <4>3
    <3> QED BY <3>2, <3>3, <3>4
  <2> HIDE DEF S
  <2>3. \A i \in 0..n : i \in S
    BY <1>1, <2>1, <2>2, UpTo
  <2>4. n \in S
    BY <1>1, <2>3
  <2> QED BY <2>4 DEF S
<1> DEFINE Ranked(k, v) ==
      /\ Cardinality({j \in DOMAIN s : s[j] < v}) < k
      /\ k <= Cardinality({j \in DOMAIN s : s[j] <= v})
<1>4. ASSUME NEW k \in 1..n PROVE \E v \in {s[j] : j \in DOMAIN s} : Ranked(k, v)
  <2> DEFINE S == {v \in Nat : k <= Cardinality(upto(v))}
  <2>1. S # {}
    <3>1. PICK top \in Nat : \A j \in 1..n : s[j] <= top
      BY <1>3
    <3>2. upto(top) = 1..n
      BY <3>1
    <3>3. Cardinality(1..n) = n
      BY <1>1, FS_Interval
    <3> HIDE DEF upto
    <3>4. k <= Cardinality(upto(top))
      BY <1>1, <3>2, <3>3
    <3> QED BY <3>4
  <2>2. PICK v \in S : \A u \in S : v <= u
    BY <2>1, NatMin
  <2>3. v \in Nat /\ k <= Cardinality(upto(v))
    BY <2>2
  <2> DEFINE below == {j \in 1..n : s[j] < v}
  <2>4. Cardinality(below) < k
    <3>1. CASE v = 0
      <4>1. below = {}
        BY <1>1, <3>1
      <4> HIDE DEF below
      <4>2. Cardinality(below) = 0
        BY <4>1, FS_EmptySet
      <4> QED BY <4>2
    <3>2. CASE v # 0
      <4>1. v - 1 \in Nat /\ ~(v <= v - 1)
        BY <2>3, <3>2
      <4>2. below = upto(v - 1)
        BY <1>1, <2>3, <4>1
      <4>3. v - 1 \notin S
        BY <2>2, <4>1
      <4> HIDE DEF below, upto
      <4>4. ~(k <= Cardinality(upto(v - 1)))
        BY <4>1, <4>3
      <4> QED BY <1>2, <4>2, <4>4
    <3> QED BY <3>1, <3>2
  <2>5. \E j \in 1..n : s[j] = v
    <3> SUFFICES ASSUME \A j \in 1..n : s[j] # v PROVE FALSE
      OBVIOUS
    <3>1. upto(v) = below
      BY <1>1, <2>3
    <3> HIDE DEF upto, below
    <3> QED BY <1>2, <2>3, <2>4, <3>1
  <2>6. Ranked(k, v)
    BY <1>1, <2>3, <2>4
  <2> HIDE DEF Ranked
  <2> QED BY <1>1, <2>5, <2>6
<1> DEFINE sorted == Ascending(s)
<1>5. sorted = [k \in 1..n |-> CHOOSE v \in {s[j] : j \in DOMAIN s} : Ranked(k, v)]
  BY <1>1 DEF Ascending
<1> HIDE DEF Ranked
<1>6. \A k \in 1..n : \E j \in DOMAIN s : sorted[k] = s[j]
  <2> TAKE k \in 1..n
  <2> HIDE DEF sorted
  <2> DEFINE v == CHOOSE v \in {s[j] : j \in DOMAIN s} : Ranked(k, v)
  <2>1. v \in {s[j] : j \in DOMAIN s}
    BY <1>4
  <2>2. sorted[k] = v
    BY <1>5
  <2> HIDE DEF v
  <2> QED BY <2>1, <2>2
<1>7. DOMAIN sorted = 1..n
  BY <1>5
<1> HIDE DEF sorted
<1>8. \A k \in 1..n : sorted[k] \in Nat
  BY <1>1, <1>6
<1>9. sorted \in [1..n -> Nat]
  <2>1. sorted = [k \in 1..n |-> sorted[k]]
    BY <1>5 DEF sorted
  <2> QED BY <1>8, <2>1
<1>10. Len(sorted) = n
  BY <1>1, <1>9
<1> QED BY <1>1, <1>6, <1>7, <1>10 DEF sorted, n

-----------------------------------------------------------------------------
(* What a finished run leaves stays as long as its header is there, and the *)
(* codebook a model is written with is its own.                            *)

HeaderBy(q) == Holds(q, DirPlace("header")) /\ PartsOf(q)[DirPlace("header")].by = q
Settled(q) ==
  /\ OwnsFile(q) /\ \A p \in TensorPlaces(q) : Holds(q, p)
  /\ \A kind \in {"header", "tensors", "layers", "meta"} : Holds(q, DirPlace(kind))
KeptInv(q) ==
  /\ PcIs(q, "done") /\ HeaderBy(q) => Settled(q)
  /\ qz[q].pc \notin {"new", "exit", "killed"} => ~ArgsRefused(qz[q].job)
  /\ qz[q].pc \notin {"new", "exit", "killed", "codebook"} /\ ~Dspark(q) => qz[q].cb = q
LoadInv == ContainerInv /\ \A q \in Quantiser : KeptInv(q)

\* A step changes the codebook only where it says so.
LEMMA BookSame ==
  ASSUME ContainerTypeOK, NEW q \in Quantiser, NEW change, DOMAIN change \subseteq RunFields \ {"cb"}, Set(q, change)
  PROVE  qz'[q].cb = qz[q].cb
<1>1. DOMAIN change \subseteq RunFields /\ "cb" \in RunFields /\ "cb" \notin DOMAIN change
  BY DEF RunFields
<1>2. qz'[q]["cb"] = qz[q]["cb"]
  BY <1>1, SetIs
<1> QED BY <1>2

\* A run that ends keeps the codebook it has.
LEMMA EndsBook ==
  ASSUME ContainerTypeOK, NEW q \in Quantiser, NEW how, Ends(q, how)
  PROVE  qz'[q].cb = qz[q].cb /\ qz'[q].pc = how
<1> DEFINE change == [pc |-> how, shard |-> 0, layer |-> 0, next |-> 0, written |-> {},
                      work |-> [t \in Thread |-> <<>>]]
<1>1. Set(q, change) /\ DOMAIN change = {"pc", "shard", "layer", "next", "written", "work"} /\ change.pc = how
  BY DEF Ends
<1> HIDE DEF change
<1>2. DOMAIN change \subseteq RunFields \ {"cb"} /\ DOMAIN change \subseteq RunFields /\ "pc" \in DOMAIN change /\ "pc" \in RunFields
  BY <1>1 DEF RunFields
<1>3. qz'[q]["pc"] = change["pc"]
  BY <1>1, <1>2, SetIs
<1> QED BY <1>1, <1>2, <1>3, BookSame

\* The changes a step makes to a run's record, but for the codebook's.
LEMMA SetBook ==
  ASSUME ContainerTypeOK, NEW q \in Quantiser,
         \/ \E a : Set(q, [pc |-> a])
         \/ \E a, b : Set(q, [pc |-> a, ino |-> b]) \/ Set(q, [pc |-> a, size |-> b]) \/ Set(q, [pc |-> a, profile |-> b])
         \/ \E a : Set(q, [shard |-> a])
         \/ \E a, b : Set(q, [next |-> a, work |-> b]) \/ Set(q, [work |-> a, written |-> b]) \/ Set(q, [layer |-> a, next |-> b])
  PROVE  qz'[q].cb = qz[q].cb
<1>1. \E fields \in SUBSET (RunFields \ {"cb"}) : \E change : DOMAIN change = fields /\ Set(q, change)
  <2>1. ASSUME NEW a, Set(q, [pc |-> a]) PROVE \E change : DOMAIN change = {"pc"} /\ Set(q, change)
    BY <2>1
  <2>2. ASSUME NEW a, NEW b, Set(q, [pc |-> a, ino |-> b])
        PROVE  \E change : DOMAIN change = {"pc", "ino"} /\ Set(q, change)
    BY <2>2
  <2>3. ASSUME NEW a, NEW b, Set(q, [pc |-> a, size |-> b])
        PROVE  \E change : DOMAIN change = {"pc", "size"} /\ Set(q, change)
    BY <2>3
  <2>4. ASSUME NEW a, NEW b, Set(q, [pc |-> a, profile |-> b])
        PROVE  \E change : DOMAIN change = {"pc", "profile"} /\ Set(q, change)
    BY <2>4
  <2>5. ASSUME NEW a, Set(q, [shard |-> a]) PROVE \E change : DOMAIN change = {"shard"} /\ Set(q, change)
    BY <2>5
  <2>6. ASSUME NEW a, NEW b, Set(q, [next |-> a, work |-> b])
        PROVE  \E change : DOMAIN change = {"next", "work"} /\ Set(q, change)
    BY <2>6
  <2>7. ASSUME NEW a, NEW b, Set(q, [work |-> a, written |-> b])
        PROVE  \E change : DOMAIN change = {"work", "written"} /\ Set(q, change)
    BY <2>7
  <2>8. ASSUME NEW a, NEW b, Set(q, [layer |-> a, next |-> b])
        PROVE  \E change : DOMAIN change = {"layer", "next"} /\ Set(q, change)
    BY <2>8
  <2>9. /\ {"pc"} \in SUBSET (RunFields \ {"cb"}) /\ {"pc", "ino"} \in SUBSET (RunFields \ {"cb"})
        /\ {"pc", "size"} \in SUBSET (RunFields \ {"cb"}) /\ {"pc", "profile"} \in SUBSET (RunFields \ {"cb"})
        /\ {"shard"} \in SUBSET (RunFields \ {"cb"}) /\ {"next", "work"} \in SUBSET (RunFields \ {"cb"})
        /\ {"work", "written"} \in SUBSET (RunFields \ {"cb"}) /\ {"layer", "next"} \in SUBSET (RunFields \ {"cb"})
    BY DEF RunFields
  <2> QED BY <2>1, <2>2, <2>3, <2>4, <2>5, <2>6, <2>7, <2>8, <2>9
<1>2. PICK fields \in SUBSET (RunFields \ {"cb"}) : \E change : DOMAIN change = fields /\ Set(q, change)
  BY <1>1
<1>3. PICK change : DOMAIN change = fields /\ Set(q, change)
  BY <1>2
<1> QED BY <1>2, <1>3, BookSame

\* A run begins once, fits its codebook once, and is not over.
LEMMA StepBook ==
  ASSUME ContainerTypeOK, NEW q \in Quantiser, QuantiserNext(q), ~Reap(q)
  PROVE  /\ qz[q].pc \notin Over
         /\ Begin0(q) \/ Fit(q) \/ qz[q].pc \notin {"new", "codebook"} \/ Kill(q)
         /\ Fit(q) \/ qz'[q].cb = qz[q].cb
<1>1. CASE Begin0(q)
  <2>1. Exit(q) \/ Set(q, [pc |-> "codebook"])
    BY <1>1 DEF Begin0
  <2>2. qz'[q].cb = qz[q].cb
    BY <2>1, EndsBook, SetBook DEF Exit
  <2>3. qz[q].pc \notin Over
    BY <1>1 DEF Begin0, PcIs, Over
  <2> QED BY <1>1, <2>2, <2>3
<1>2. CASE Fit(q)
  BY <1>2 DEF Fit, PcIs, Over
<1>3. CASE OpenLock(q) \/ Flock(q) \/ Create(q) \/ PlaceHeader(q)
  <2>1. qz[q].pc \in {"lock", "flock", "create", "header"}
    BY <1>3 DEF OpenLock, Flock, Create, PlaceHeader, PcIs
  <2>2. CASE OpenLock(q)
    <3>1. \E a, b : Set(q, [pc |-> a, ino |-> b])
      BY <2>2 DEF OpenLock
    <3> QED BY <2>1, <3>1, SetBook DEF Over
  <2>3. CASE Flock(q)
    <3>1. Exit(q) \/ \E a : Set(q, [pc |-> a])
      BY <2>3 DEF Flock
    <3> QED BY <2>1, <3>1, SetBook, EndsBook DEF Over, Exit
  <2>4. CASE Create(q)
    <3>1. \E a, b : Set(q, [pc |-> a, size |-> b])
      BY <2>4 DEF Create
    <3> QED BY <2>1, <3>1, SetBook DEF Over
  <2>5. CASE PlaceHeader(q)
    <3>1. \E a : Set(q, [pc |-> a])
      BY <2>5 DEF PlaceHeader
    <3> QED BY <2>1, <3>1, SetBook DEF Over
  <2> QED BY <1>3, <2>2, <2>3, <2>4, <2>5
<1>4. CASE DenseShard(q) \/ DenseEnd(q)
  <2>1. qz[q].pc = "dense"
    BY <1>4 DEF DenseShard, DenseEnd, PcIs
  <2>2. Exit(q) \/ (\E a : Set(q, [shard |-> a])) \/ \E a : Set(q, [pc |-> a])
    <3>1. CASE DenseShard(q)
      BY <3>1 DEF DenseShard
    <3>2. CASE DenseEnd(q)
      BY <3>2 DEF DenseEnd
    <3> QED BY <1>4, <3>1, <3>2
  <2> QED BY <2>1, <2>2, SetBook, EndsBook DEF Over, Exit
<1>5. CASE (\E t \in Thread : Take(q, t) \/ WriteSection(q, t)) \/ JoinLayer(q) \/ WriteProfile(q)
  <2>1. qz[q].pc = "experts"
    BY <1>5 DEF Take, WriteSection, JoinLayer, WriteProfile, PcIs
  <2>2. CASE \E t \in Thread : Take(q, t)
    <3>1. Exit(q) \/ \E a, b : Set(q, [next |-> a, work |-> b])
      BY <2>2 DEF Take
    <3> QED BY <2>1, <3>1, SetBook, EndsBook DEF Over, Exit
  <2>3. CASE \E t \in Thread : WriteSection(q, t)
    <3>1. \E a, b : Set(q, [work |-> a, written |-> b])
      BY <2>3 DEF WriteSection
    <3> QED BY <2>1, <3>1, SetBook DEF Over
  <2>4. CASE JoinLayer(q)
    <3>1. \E a, b : Set(q, [layer |-> a, next |-> b])
      BY <2>4 DEF JoinLayer
    <3> QED BY <2>1, <3>1, SetBook DEF Over
  <2>5. CASE WriteProfile(q)
    <3>1. (\E a, b : Set(q, [pc |-> a, profile |-> b])) \/ \E a : Set(q, [pc |-> a])
      BY <2>5 DEF WriteProfile
    <3> QED BY <2>1, <3>1, SetBook DEF Over
  <2> QED BY <1>5, <2>2, <2>3, <2>4, <2>5
<1>6. CASE Unlock(q) \/ Unlink(q) \/ CheckMissing(q) \/ Finalize(q)
  <2>1. qz[q].pc \in {"unlock", "unlink", "check"} \cup Closing
    BY <1>6 DEF Unlock, Unlink, CheckMissing, Finalize, PcIs, After, Closing
  <2>2. Exit(q) \/ \E a : Set(q, [pc |-> a])
    BY <1>6 DEF Unlock, Unlink, CheckMissing, Finalize
  <2> QED BY <2>1, <2>2, SetBook, EndsBook DEF Over, Exit, Closing
<1>7. CASE Kill(q)
  <2>1. Ends(q, "killed") /\ qz[q].pc \notin Over
    BY <1>7 DEF Kill, Running, Over
  <2> QED BY <1>7, <2>1, EndsBook
<1> QED BY <1>1, <1>2, <1>3, <1>4, <1>5, <1>6, <1>7 DEF QuantiserNext

\* What a finished run has left rests on its record and its file.
LEMMA SettledSame ==
  ASSUME NEW r \in Quantiser, which' = which, qz'[r] = qz[r], disk'[Out(r)] = disk[Out(r)]
  PROVE  (Settled(r) => Settled(r)') /\ (HeaderBy(r)' => HeaderBy(r))
<1>1. /\ Out(r)' = Out(r) /\ PartsOf(r)' = PartsOf(r) /\ Plan(r)' = Plan(r) /\ Tensors(r)' = Tensors(r)
      /\ TensorPlaces(r)' = TensorPlaces(r)
  BY DEF Out, PartsOf, Plan, Tensors, TensorPlaces, Dspark, NLayer, ck
<1>2. OwnsFile(r) => OwnsFile(r)'
  BY <1>1 DEF OwnsFile, Holds, ValueOf
<1>3. \A p : Holds(r, p)' = Holds(r, p)
  BY <1>1 DEF Holds
<1>4. HeaderBy(r)' => HeaderBy(r)
  BY <1>1, <1>3 DEF HeaderBy, DirPlace
<1>5. Settled(r) => Settled(r)'
  BY <1>1, <1>2, <1>3 DEF Settled, DirPlace
<1> QED BY <1>4, <1>5

\* Whether arguments are refused rests on them and the checkpoint.
LEMMA RefusedSame ==
  ASSUME NEW r \in Quantiser, which' = which, qz'[r].job = qz[r].job
  PROVE  ArgsRefused(qz[r].job)' = ArgsRefused(qz[r].job) /\ Dspark(r)' = Dspark(r)
<1>1. ck' = ck
  BY DEF ck
<1>2. \A job : LayersOf(ck, job)' = LayersOf(ck, job)
  BY <1>1
<1> QED BY <1>1, <1>2 DEF ArgsRefused, Dspark

\* What a run leaves stays while the run and its file stand.
LEMMA KeptSame ==
  ASSUME NEW r \in Quantiser, which' = which, qz'[r] = qz[r], disk'[Out(r)] = disk[Out(r)], KeptInv(r)
  PROVE  KeptInv(r)'
<1>1. (Settled(r) => Settled(r)') /\ (HeaderBy(r)' => HeaderBy(r))
  BY SettledSame
<1>2. ArgsRefused(qz[r].job)' = ArgsRefused(qz[r].job) /\ Dspark(r)' = Dspark(r)
  BY RefusedSame
<1> QED BY <1>1, <1>2 DEF KeptInv, PcIs

\* A step of one run keeps this of every other.
LEMMA RunsKept ==
  ASSUME ContainerInv, NEW q \in Quantiser, RunMoves(q), NEW r \in Quantiser \ {q}, KeptInv(r)
  PROVE  KeptInv(r)'
<1>0. which' = which /\ qz'[r] = qz[r] /\ Out(r) \in File /\ Out(r)' = Out(r)
  <2>1. ContainerTypeOK
    BY DEF ContainerInv
  <2> QED BY <2>1, JobIs DEF RunMoves, Out
<1>1. CASE disk'[Out(r)] = disk[Out(r)]
  BY <1>0, <1>1, KeptSame
<1>2. CASE disk'[Out(r)] # disk[Out(r)]
  <2>1. Out(r) = Out(q) /\ (Truncates(q) \/ Fills(q))
    BY <1>0, <1>2 DEF RunMoves, Truncates, Fills, OthersSame
  <2>2. \A p \in DOMAIN disk'[Out(r)].parts : disk'[Out(r)].parts[p].by = q
    <3>1. CASE Truncates(q)
      <4>1. DOMAIN disk'[Out(r)].parts = {}
        BY <2>1, <3>1 DEF Truncates
      <4> QED BY <4>1
    <3>2. CASE Fills(q)
      BY <2>1, <3>2 DEF Fills
    <3> QED BY <2>1, <3>1, <3>2
  <2>3. ~HeaderBy(r)'
    BY <1>0, <2>2 DEF HeaderBy, Holds, PartsOf
  <2>4. ArgsRefused(qz[r].job)' = ArgsRefused(qz[r].job) /\ Dspark(r)' = Dspark(r)
    BY <1>0, RefusedSame
  <2> QED BY <1>0, <2>3, <2>4 DEF KeptInv
<1> QED BY <1>1, <1>2

\* The codebook a run has once it has fitted it.
LEMMA FitBook ==
  ASSUME ContainerTypeOK, NEW q \in Quantiser, Fit(q), ~Dspark(q), qz'[q].pc # "exit"
  PROVE  qz'[q].cb = q
<1>1. Exit(q) \/ Set(q, [pc |-> "lock", cb |-> q])
  BY DEF Fit
<1>2. ~Exit(q)
  BY EndsBook DEF Exit
<1> DEFINE change == [pc |-> "lock", cb |-> q]
<1>3. DOMAIN change = {"pc", "cb"} /\ change["cb"] = q /\ Set(q, change)
  BY <1>1, <1>2
<1> HIDE DEF change
<1>4. DOMAIN change \subseteq RunFields /\ "cb" \in RunFields /\ "cb" \in DOMAIN change
  BY <1>3 DEF RunFields
<1>5. qz'[q]["cb"] = change["cb"]
  BY <1>3, <1>4, SetIs
<1> QED BY <1>3, <1>5

\* Where a run goes from its first place.
LEMMA BeginBook ==
  ASSUME ContainerTypeOK, NEW q \in Quantiser, Begin0(q)
  PROVE  qz'[q].pc \in {"exit", "codebook"} /\ (qz'[q].pc # "exit" => ~ArgsRefused(qz[q].job))
<1>1. CASE ArgsRefused(qz[q].job)
  <2>1. Exit(q)
    BY <1>1 DEF Begin0
  <2> QED BY <2>1, EndsBook DEF Exit
<1>2. CASE ~ArgsRefused(qz[q].job)
  <2>1. Set(q, [pc |-> "codebook"])
    BY <1>2 DEF Begin0
  <2> QED BY <1>2, <2>1, SetPc
<1> QED BY <1>1, <1>2

\* And of the run that takes it.
LEMMA SelfKept ==
  ASSUME OneAtATime, ContainerInv, NEW q \in Quantiser, QuantiserNext(q), ~Reap(q), KeptInv(q)
  PROVE  KeptInv(q)'
<1>0. ContainerTypeOK /\ InOrder /\ RunMoves(q) /\ DoneInv(q)'
  BY StepMoves DEF ContainerInv
<1>1. /\ qz[q].pc \notin Over
      /\ Begin0(q) \/ Fit(q) \/ qz[q].pc \notin {"new", "codebook"} \/ Kill(q)
      /\ Fit(q) \/ qz'[q].cb = qz[q].cb
  BY <1>0, StepBook
<1>2. which' = which /\ qz'[q].job = qz[q].job /\ \A r \in Quantiser \ {q} : qz'[r] = qz[r]
  BY <1>0 DEF RunMoves
<1>3. ArgsRefused(qz[q].job)' = ArgsRefused(qz[q].job) /\ Dspark(q)' = Dspark(q)
  BY <1>2, RefusedSame
<1>4. Begin0(q) => qz'[q].pc \in {"exit", "codebook"} /\ (qz'[q].pc # "exit" => ~ArgsRefused(qz[q].job))
  BY <1>0, BeginBook
<1>5. Kill(q) => qz'[q].pc = "killed"
  BY <1>0, EndsBook DEF Kill
<1>6. Fit(q) => qz[q].pc = "codebook"
  BY DEF Fit, PcIs
<1>7. ASSUME qz'[q].pc = "done" PROVE Settled(q)'
  <2>1. qz[q].pc \notin {"new"} \cup Over
    BY <1>1, <1>4, <1>5, <1>6, <1>7
  <2>2. LastOn(q)'
    <3> SUFFICES ASSUME NEW r \in Quantiser, r # q, Out(r)' = Out(q)' PROVE PcIs(r, "new")' \/ r \in Order[q]
      BY DEF LastOn
    <3>1. Out(r) = Out(q) /\ (PcIs(r, "new")' <=> PcIs(r, "new"))
      BY <1>2 DEF Out, PcIs
    <3> QED BY <1>0, <2>1, <3>1, Alone
  <2> QED BY <1>0, <1>7, <2>2 DEF DoneInv, PcIs, Settled
<1>8. qz'[q].pc \notin {"new", "exit", "killed"} => ~ArgsRefused(qz[q].job)
  <2>1. CASE qz[q].pc \notin {"new", "exit", "killed"}
    BY <2>1 DEF KeptInv
  <2>2. CASE qz[q].pc \in {"new", "exit", "killed"}
    BY <1>1, <1>4, <1>5, <1>6, <2>2 DEF Over
  <2> QED BY <2>1, <2>2
<1>9. qz'[q].pc \notin {"new", "exit", "killed", "codebook"} /\ ~Dspark(q) => qz'[q].cb = q
  <2> SUFFICES ASSUME qz'[q].pc \notin {"new", "exit", "killed", "codebook"}, ~Dspark(q) PROVE qz'[q].cb = q
    OBVIOUS
  <2>1. CASE Fit(q)
    BY <1>0, <2>1, FitBook
  <2>2. CASE ~Fit(q)
    <3>1. qz[q].pc \notin {"new", "exit", "killed", "codebook"}
      BY <1>1, <1>4, <1>5, <2>2 DEF Over
    <3> QED BY <1>1, <2>2, <3>1 DEF KeptInv
  <2> QED BY <2>1, <2>2
<1> QED BY <1>3, <1>7, <1>8, <1>9 DEF KeptInv, PcIs

\* With the invariant of the files it is an invariant too: the codebook a model's run
\* writes is the one it fitted, and what it has finished is whole until it is replaced.
THEOREM LoadInvariance ==
  ASSUME OneAtATime
  PROVE  ContainerSpec => []LoadInv
<1>1. ContainerInit => LoadInv
  <2> SUFFICES ASSUME ContainerInit PROVE LoadInv
    OBVIOUS
  <2>1. \A q \in Quantiser : qz[q].pc = "new"
    BY DEF ContainerInit
  <2>2. \A q \in Quantiser : KeptInv(q)
    BY <2>1 DEF KeptInv, PcIs
  <2> QED BY <2>2, ContainerStart DEF LoadInv
<1>2. LoadInv /\ [ContainerNext]_cvars => LoadInv'
  <2> SUFFICES ASSUME LoadInv, [ContainerNext]_cvars PROVE LoadInv'
    OBVIOUS
  <2>0. ContainerInv /\ \A q \in Quantiser : KeptInv(q)
    BY DEF LoadInv
  <2>1. ASSUME which' = which, disk' = disk, qz' = qz PROVE LoadInv'
    <3>1. \A q \in Quantiser : KeptInv(q)'
      <4> TAKE q \in Quantiser
      <4>1. qz'[q] = qz[q] /\ disk'[Out(q)] = disk[Out(q)]
        BY <2>1
      <4> QED BY <2>0, <2>1, <4>1, KeptSame
    <3> QED BY <2>0, <2>1, <3>1, SameKeeps DEF LoadInv
  <2>2. CASE ContainerNext
    <3>1. PICK q \in Quantiser : QuantiserNext(q)
      BY <2>2 DEF ContainerNext
    <3>2. CASE Reap(q)
      BY <2>1, <3>2 DEF Reap
    <3>3. CASE ~Reap(q)
      <4>1. ContainerInv' /\ RunMoves(q) /\ KeptInv(q)'
        BY <2>0, <3>1, <3>3, QuantiserStep, StepMoves, SelfKept
      <4>2. \A r \in Quantiser \ {q} : KeptInv(r)'
        BY <2>0, <4>1, RunsKept
      <4> QED BY <4>1, <4>2 DEF LoadInv
    <3> QED BY <3>2, <3>3
  <2>3. CASE UNCHANGED cvars
    BY <2>1, <2>3 DEF cvars
  <2> QED BY <2>2, <2>3
<1> QED BY <1>1, <1>2, PTL DEF ContainerSpec

-----------------------------------------------------------------------------
(* What the engine reads of a finished container.                          *)

\* The codebook is made from nothing the checkpoint holds.
LEMMA CodebookMade ==
  ASSUME NEW shards, NEW shard, NEW decl, decl.name = CodebookName, decl.quant = "f32"
  PROVE  TensorMade(shards, shard, decl) = "codebook"
<1>1. \A t, scale : MadeFrom(decl, t, scale) = "codebook"
  <2>1. decl.name[3] = "__codebook" /\ decl.quant # "fp8_e4m3"
    BY DEF CodebookName
  <2> QED BY <2>1 DEF MadeFrom
<1> QED BY <1>1 DEF TensorMade

\* Its codebook tensor is where the directory has it, and holds the run's codebook.
LEMMA CodebookHeld ==
  ASSUME ContainerTypeOK, NEW q \in Quantiser, Settled(q)
  PROVE  CodebookOf(Out(q), ByName(Tensors(q))) = qz[q].cb
<1> DEFINE decls == Tensors(q)
<1> DEFINE dir == ByName(decls)
<1> DEFINE k == dir[CodebookName].at
<1> DEFINE names == DeclNames(ck.cfg, Dspark(q), NLayer(q))
<1>1. Lists(ck.cfg, decls, names) /\ CodebookName \in names
  BY DeclaresIts DEF DeclNames
<1> HIDE DEF names
<1>2. /\ Faithful(ck.cfg, dir, names)
      /\ \A name \in DOMAIN dir : dir[name].at \in DOMAIN decls /\ decls[dir[name].at].name = name
  BY <1>1, ByNameIs
<1>3. CodebookName \in DOMAIN dir
  BY <1>1, <1>2 DEF Faithful, Has
<1>4. k \in DOMAIN decls /\ decls[k].name = CodebookName
  BY <1>2, <1>3
<1>5. decls[k].quant = "f32"
  <2>1. PICK T : decls \in Seq(T) /\ \A d \in T : Sound(ck.cfg, d)
    BY <1>1 DEF Lists
  <2> HIDE DEF decls, dir, k
  <2>2. Sound(ck.cfg, decls[k])
    BY <1>4, <2>1, ElementOfSeq, LenProperties
  <2>3. decls[k].quant = FormatOf("__codebook")
    BY <1>4, <2>2 DEF Sound, CodebookName
  <2> QED BY <2>3 DEF FormatOf, Fp8Parts, Bf16Parts
<1>6. Plan(q).made[k] = "codebook"
  <2>1. Plan(q) = PlanOf(ck, TensorDecls(ck.cfg, Dspark(q), NLayer(q)), LayerDecls(ck.cfg, NLayer(q)))
    BY PlanIs
  <2>2. \E header, layers : Plan(q) = PlanUnder(header, ck, decls, layers)
    BY <2>1 DEF PlanOf, PlanUnder, Tensors
  <2>3. \E shard : Plan(q).made = [j \in DOMAIN decls |-> TensorMade(ck.shards, shard[j], decls[j])]
    BY <2>2 DEF PlanUnder
  <2> HIDE DEF decls, dir, k
  <2>4. \E shard : Plan(q).made[k] = TensorMade(ck.shards, shard, decls[k])
    BY <1>4, <2>3
  <2> QED BY <1>4, <1>5, <2>4, CodebookMade
<1> HIDE DEF dir, k
<1>7. Holds(q, TensorPlace(k))
  BY <1>4 DEF Settled, TensorPlaces
<1>8. PartsOf(q)[TensorPlace(k)].val = qz[q].cb
  BY <1>4, <1>6, <1>7 DEF Settled, OwnsFile, ValueOf
<1>9. CodebookOf(Out(q), dir) = PartsOf(q)[TensorPlace(k)].val
  BY <1>7 DEF CodebookOf, HasPart, Holds, PartsOf, k
<1> QED BY <1>8, <1>9 DEF dir

\* What a finished run leaves is accepted, and says what it was made from.
LEMMA SettledIs ==
  ASSUME ContainerTypeOK, NEW q \in Quantiser, Settled(q)
  PROVE  /\ Accepts(Out(q)) /\ WriterOf(Out(q)) = q /\ HasPart(Out(q), DirPlace("meta"))
         /\ Directory(Out(q)) = ByName(Tensors(q)) /\ layer_count(Out(q)) = NLayer(q)
         /\ CodebookOf(Out(q), Directory(Out(q))) = qz[q].cb
         /\ Faithful(ck.cfg, Directory(Out(q)), DeclNames(ck.cfg, Dspark(q), NLayer(q)))
<1> DEFINE f == Out(q)
<1>1. OwnsFile(q) /\ \A kind \in {"header", "tensors", "layers", "meta"} : HasPart(f, DirPlace(kind))
  BY DEF Settled, Holds, HasPart, PartsOf
<1>2. WriterOf(f) = q
  BY <1>1 DEF OwnsFile, WriterOf, DirPlace, HasPart, PartsOf
<1>3. Plan(q).size \in Nat /\ SizeofHeader <= Plan(q).size
  BY <1>1, PlanApart
<1>4. disk[f].size = Plan(q).size /\ qz[q].size = Plan(q).size
  BY <1>1 DEF OwnsFile
<1>5. HasPart(f, <<"header", 0, 0, 0>>) /\ HasPart(f, <<"layers", 0, 0, 0>>) /\ HasPart(f, <<"tensors", 0, 0, 0>>)
  BY <1>1 DEF DirPlace
<1>6. SizeofHeader \in Nat
  BY DEF SizeofHeader
<1> HIDE DEF f
<1>7. Accepts(f)
  BY <1>2, <1>3, <1>4, <1>5, <1>6 DEF Accepts
<1>8. Directory(f) = ByName(Tensors(q)) /\ layer_count(f) = NLayer(q)
  BY <1>2, <1>5 DEF Directory, layer_count
<1>9. CodebookOf(f, Directory(f)) = qz[q].cb
  BY <1>8, CodebookHeld DEF f
<1>10. Faithful(ck.cfg, ByName(Tensors(q)), DeclNames(ck.cfg, Dspark(q), NLayer(q)))
  BY DeclaresIts, ByNameIs
<1> QED BY <1>1, <1>2, <1>7, <1>8, <1>9, <1>10 DEF f

\* What a container says its model is: the config it was made from, cut to its layers.
LEMMA ConfigIs ==
  ASSUME ContainerTypeOK, NEW q \in Quantiser, Settled(q), ~Dspark(q)
  PROVE  /\ LET k == Config(Out(q)) IN
              /\ k.n_layer = NLayer(q) /\ k.n_hash = ck.cfg.n_hash /\ k.ratios = ck.cfg.ratios
              /\ k.taps = Ascending(ck.cfg.taps) /\ k.block = ck.cfg.block /\ k.hidden = ck.cfg.hidden
         /\ LET c == parse_model_config(Out(q)) IN c.n_layer = ck.cfg.n_layer /\ c.hidden = ck.cfg.hidden
         /\ NLayer(q) \in Nat
<1> DEFINE f == Out(q)
<1>1. HasPart(f, <<"meta", 0, 0, 0>>) /\ layer_count(f) = NLayer(q)
  BY SettledIs DEF DirPlace
<1>2. NLayer(q) \in Nat /\ ck.cfg.n_layer \in Nat
  BY DeclaresIts, CfgSizes
<1>3. NLayer(q) <= ck.cfg.n_layer
  <2>1. /\ qz[q].job.layers \in Int
        /\ NLayer(q) = IF qz[q].job.layers > 0 /\ qz[q].job.layers < ck.cfg.n_layer
                       THEN qz[q].job.layers ELSE ck.cfg.n_layer
    BY JobIs DEF NLayer, LayersOf, TotalLayers, Dspark
  <2> QED BY <1>2, <2>1
<1> DEFINE c == [n_layer |-> ck.cfg.n_layer, n_hash |-> ck.cfg.n_hash, ratios |-> ck.cfg.ratios,
                 taps |-> Ascending(ck.cfg.taps), block |-> ck.cfg.block, hidden |-> ck.cfg.hidden]
<1>4. parse_model_config(f) = c
  BY <1>1 DEF parse_model_config
<1>5. Config(f) = [c EXCEPT !.n_layer = IF layer_count(f) < @ THEN layer_count(f) ELSE @]
  BY <1>4 DEF Config
<1>6. Config(f) = [c EXCEPT !.n_layer = NLayer(q)]
  <2>1. c.n_layer = ck.cfg.n_layer
    OBVIOUS
  <2> HIDE DEF c, f
  <2>2. (IF layer_count(f) < c.n_layer THEN layer_count(f) ELSE c.n_layer) = NLayer(q)
    BY <1>1, <1>2, <1>3, <2>1
  <2> QED BY <1>5, <2>2
<1>7. /\ c.n_layer = ck.cfg.n_layer /\ c.n_hash = ck.cfg.n_hash /\ c.ratios = ck.cfg.ratios
      /\ c.taps = Ascending(ck.cfg.taps) /\ c.block = ck.cfg.block /\ c.hidden = ck.cfg.hidden
      /\ DOMAIN c = {"n_layer", "n_hash", "ratios", "taps", "block", "hidden"}
  OBVIOUS
<1> HIDE DEF c
<1> DEFINE k == Config(f)
<1>8. /\ k.n_layer = NLayer(q) /\ k.n_hash = c.n_hash /\ k.ratios = c.ratios
      /\ k.taps = c.taps /\ k.block = c.block /\ k.hidden = c.hidden
  BY <1>6, <1>7
<1> HIDE DEF k, f
<1> QED BY <1>2, <1>4, <1>7, <1>8 DEF k, f

\* A checkpoint says how many layers it has and how wide they are, and, if it has a
\* draft, how many tokens that drafts and which layers it taps: tools/aff_quantize.cpp
\* takes config.json at its word, and only engine/config.cpp and load_dspark look.
Configured ==
  \A c \in DOMAIN Checkpoints :
    LET cfg == Checkpoints[c].cfg IN
    /\ cfg.n_layer # 0 /\ cfg.hidden # 0
    /\ MtpStages(Checkpoints[c]) # 0 => cfg.block # 0 /\ cfg.taps \in Seq(Nat)

\* Drafts are written to a file of their own, from the codebook of the model's.
DraftsFromModels ==
  \A q \in Quantiser : \A job \in Jobs[q] :
    /\ job.dspark <=> job.out = "draft"
    /\ job.dspark => job.codebook \in {NoCodebook, "model"}

\* The model loads.
LEMMA ModelFinished ==
  ASSUME Configured, ContainerTypeOK, NEW q \in Quantiser, Settled(q), ~Dspark(q)
  PROVE  Loads(Out(q))
<1> DEFINE f == Out(q)
<1> DEFINE k == Config(f)
<1> DEFINE n == NLayer(q)
<1>1. Accepts(f) /\ Faithful(ck.cfg, Directory(f), DeclNames(ck.cfg, FALSE, n))
  <2>1. Dspark(q) = FALSE
    BY JobIs
  <2> QED BY <2>1, SettledIs
<1>2. /\ k.n_layer = n /\ k.n_hash = ck.cfg.n_hash /\ k.ratios = ck.cfg.ratios /\ n \in Nat
      /\ parse_model_config(f).n_layer = ck.cfg.n_layer /\ parse_model_config(f).hidden = ck.cfg.hidden
  BY ConfigIs
<1>3. ck.cfg.n_layer # 0 /\ ck.cfg.hidden # 0
  BY DEF Configured, ContainerTypeOK, ck, Given
<1>4. ~config_refused(parse_model_config(f))
  BY <1>2, <1>3 DEF config_refused
<1> HIDE DEF f, k, n
<1>5. k.n_layer \in Nat /\ k.n_layer <= n
  BY <1>2
<1>6. ModelBinds(Directory(f), k)
  BY <1>1, <1>2, <1>5, ModelIsBound
<1> QED BY <1>1, <1>4, <1>6 DEF Loads, f, k

\* The draft loads beside the model it took its codebook from.
LEMMA DraftFinished ==
  ASSUME Configured, ContainerTypeOK, NEW q \in Quantiser, Settled(q), Dspark(q), ~ArgsRefused(qz[q].job),
         NEW w \in Quantiser, Settled(w), ~Dspark(w), qz[q].cb = qz[w].cb,
         \A k \in DOMAIN ck.cfg.taps : ~(ck.cfg.taps[k] >= NLayer(w))
  PROVE  DraftLoads(Out(w), Out(q))
<1> DEFINE k == Config(Out(w))
<1> DEFINE n == NLayer(q)
<1> DEFINE taps == ck.cfg.taps
<1>1. /\ Accepts(Out(q)) /\ layer_count(Out(q)) = n
      /\ Faithful(ck.cfg, Directory(Out(q)), DeclNames(ck.cfg, TRUE, n))
  <2>1. Dspark(q) = TRUE
    BY JobIs
  <2> QED BY <2>1, SettledIs
<1>2. /\ k.n_layer = NLayer(w) /\ k.taps = Ascending(taps) /\ k.block = ck.cfg.block /\ k.hidden = ck.cfg.hidden
      /\ NLayer(w) \in Nat
  BY ConfigIs
<1>3. MtpStages(ck) # 0 /\ taps # <<>>
  BY DEF ArgsRefused, Dspark
<1>4. ck.cfg.block # 0 /\ taps \in Seq(Nat)
  BY <1>3 DEF Configured, ContainerTypeOK, ck, Given
<1>5. n \in Nat /\ n # 0
  <2>1. n \in Nat /\ qz[q].job.layers \in Int
    BY PlanIs, JobIs
  <2>2. n = IF qz[q].job.layers > 0 /\ qz[q].job.layers < MtpStages(ck) THEN qz[q].job.layers ELSE MtpStages(ck)
    BY DEF NLayer, LayersOf, TotalLayers, Dspark
  <2> HIDE DEF n
  <2> QED BY <1>3, <2>1, <2>2
<1>6. /\ DOMAIN Ascending(taps) = DOMAIN taps /\ Len(Ascending(taps)) = Len(taps)
      /\ \A i \in DOMAIN taps : \E j \in DOMAIN taps : Ascending(taps)[i] = taps[j]
  BY <1>4, AscendingIs
<1>7. CodebookOf(Out(q), Directory(Out(q))) = CodebookOf(Out(w), Directory(Out(w)))
  BY SettledIs
<1> DEFINE few == {i \in DOMAIN taps : ~(taps[i] >= NLayer(w))}
<1>8. few = DOMAIN taps
  OBVIOUS
<1> HIDE DEF k, n, taps
<1>9. \A j \in DOMAIN taps : taps[j] \in Nat
  BY <1>4, ElementOfSeq, LenProperties
<1>10. \A i \in DOMAIN k.taps : k.taps[i] >= 0 /\ k.taps[i] < k.n_layer
  BY <1>2, <1>6, <1>8, <1>9
<1>11. k.taps # <<>>
  <2>1. Len(taps) \in Nat /\ Len(taps) # 0
    BY <1>3, <1>4, EmptySeq, LenProperties
  <2> QED BY <1>2, <1>6, <2>1
<1>12. Len(k.taps) = Len(ck.cfg.taps)
  BY <1>2, <1>6 DEF taps
<1>13. DraftBinds(Directory(Out(q)), k, n)
  BY <1>1, <1>2, <1>4, <1>5, <1>10, <1>11, <1>12, DraftIsBound
<1> QED BY <1>1, <1>7, <1>13 DEF DraftLoads, SameCodebook, k

\* The run that the header of a file names has written it last.
LEMMA WriterIs ==
  ASSUME LoadInv, NEW f \in File, Accepts(f), NEW w, w = WriterOf(f), PcIs(w, "done")
  PROVE  w \in Quantiser /\ Out(w) = f /\ Settled(w)
<1>1. FileInv(f) /\ DirPlace("header") \in DOMAIN disk[f].parts /\ w = disk[f].parts[DirPlace("header")].by
  BY DEF LoadInv, ContainerInv, Accepts, HasPart, WriterOf, DirPlace
<1>2. w \in Quantiser /\ Out(w) = f
  BY <1>1 DEF FileInv
<1>3. HeaderBy(w)
  BY <1>1, <1>2 DEF HeaderBy, Holds, PartsOf
<1> QED BY <1>2, <1>3 DEF LoadInv, KeptInv

\* What aff-quantize finishes the engine loads, whatever the checkpoint's sizes, its
\* ratios and hash layers, the layers asked for, and the runs that died before: the two
\* lists of tensors agree name by name and format by format (tools/aff_quantize.cpp,
\* src/engine/model.cpp), and a draft has the codebook of the model it was made from.
THEOREM FinishedLoads ==
  ASSUME OneAtATime, Configured, DraftsFromModels
  PROVE  ContainerSpec => []FinishedContainerLoads
<1>1. LoadInv => FinishedContainerLoads
  <2> SUFFICES ASSUME LoadInv, NEW q \in Quantiser, PcIs(q, "done"), LastOn(q)
               PROVE  IF ~Dspark(q) THEN Loads(Out(q))
                      ELSE LET m == qz[q].job.codebook IN
                           Accepts(m) /\ WriterOf(m) = qz[q].cb /\ PcIs(qz[q].cb, "done") =>
                             \/ DraftLoads(m, Out(q))
                             \/ \E k \in DOMAIN ck.cfg.taps : ck.cfg.taps[k] >= layer_count(m)
    BY DEF FinishedContainerLoads
  <2>1. ContainerTypeOK /\ Settled(q) /\ ~ArgsRefused(qz[q].job) /\ qz[q].job \in Jobs[q]
    BY DEF LoadInv, ContainerInv, ContainerTypeOK, DoneInv, Settled, KeptInv, PcIs
  <2>2. CASE ~Dspark(q)
    BY <2>1, <2>2, ModelFinished
  <2>3. CASE Dspark(q)
    <3> DEFINE m == qz[q].job.codebook
    <3> DEFINE w == qz[q].cb
    <3> SUFFICES ASSUME Accepts(m), WriterOf(m) = w, PcIs(w, "done"),
                        \A k \in DOMAIN ck.cfg.taps : ~(ck.cfg.taps[k] >= layer_count(m))
                 PROVE  DraftLoads(m, Out(q))
      BY <2>3
    <3>1. m = "model"
      <4>1. m # NoCodebook /\ m \in {NoCodebook, "model"}
        BY <2>1, <2>3 DEF ArgsRefused, DraftsFromModels, Dspark
      <4> QED BY <4>1
    <3>2. m \in File
      BY <3>1 DEF File
    <3> HIDE DEF m, w
    <3>3. w \in Quantiser /\ Out(w) = m /\ Settled(w)
      BY <3>2, WriterIs
    <3>4. ~Dspark(w)
      <4>1. qz[w].job \in Jobs[w] /\ qz[w].job.out = "model"
        BY <2>1, <3>1, <3>3 DEF ContainerTypeOK, Out
      <4> QED BY <3>3, <4>1 DEF DraftsFromModels, Dspark
    <3>5. qz[w].cb = w
      BY <3>3, <3>4 DEF LoadInv, KeptInv, PcIs
    <3>6. layer_count(m) = NLayer(w)
      BY <2>1, <3>3, SettledIs
    <3>7. qz[q].cb = qz[w].cb
      BY <3>5 DEF w
    <3>8. \A k \in DOMAIN ck.cfg.taps : ~(ck.cfg.taps[k] >= NLayer(w))
      BY <3>6
    <3> QED BY <2>1, <2>3, <3>3, <3>4, <3>7, <3>8, DraftFinished
  <2> QED BY <2>2, <2>3
<1>2. ContainerSpec => []LoadInv
  BY LoadInvariance
<1> QED BY <1>1, <1>2, PTL

=============================================================================
