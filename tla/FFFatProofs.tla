---------------------------- MODULE FFFatProofs ----------------------------
(* The inductive invariant of FFFat and the theorems proved with it.        *)
EXTENDS FFFat, FiniteSetTheorems, TLAPS

CountPcs == {"check", "recount", "assign", "adjust", "hint", "seek"}

LoopPcs == {"unlinking", "growing", "grown"}

Pcs == CountPcs \cup LoopPcs \cup
  {"idle", "claim", "entry", "dots", "unlink", "cut", "unlock", "erase",
   "enough", "grow"}

\* No two tasks work on one object.
OneTaskPerObject ==
  \A t, u \in Tasks : op[t].obj = op[u].obj => t = u \/ op[t].obj = None

\* The FAT lock is held around every loop over the FAT.
LoopsHaveTheLock == \A t \in Tasks : pc[t] \in LoopPcs => lock = t

\* An entry that names a chain, and one that names no cluster yet: D is the
\* directory and S the stale entries.
Sound(f, D, S) == f \in Objects /\ f \notin S /\ D[f] \in Clusters

Bare(f, D, S) == f \in Objects /\ f \notin S /\ D[f] \notin Clusters

Claiming(p, o) == p = "entry" \/ (p \in CountPcs /\ o.ret = "entry")

Freeing(o) == o.kind \in {"remove", "empty"}

\* A task at p with the variables o has a cluster nothing else names.
Holding(p, o) ==
  Claiming(p, o) \/ p = "unlinking" \/ (p = "unlink" /\ ~Freeing(o))

\* What is known of a task and of its object, by the place it is at.
TaskOK(p, o, F, D, S) ==
  /\ IF Holding(p, o) THEN o.hand \in Clusters ELSE o.hand = 0
  /\ p = "idle" => o = NoOp
  /\ p = "claim" \/ Claiming(p, o)
       => Bare(o.obj, D, S) /\ o.kind \in {"create", "extend"}
  /\ p = "dots" => Sound(o.obj, D, S) /\ o.kind = "create"
  /\ p \in {"grow", "enough"} \/ (p \in CountPcs /\ o.ret = "enough")
       => Sound(o.obj, D, S) /\ o.left > 0 /\ o.kind = "extend"
  /\ p = "cut" => Sound(o.obj, D, S) /\ o.kind = "cut"
  /\ p = "unlink" =>
       IF Freeing(o) THEN Sound(o.obj, D, S)
       ELSE /\ o.kind = "create"
            /\ Bare(o.obj, D, S) \/ (o.obj \in S /\ D[o.obj] = o.hand)
  /\ p = "unlinking" =>
       /\ o.kind \in {"create", "remove", "empty", "cut"}
       /\ Freeing(o) => o.obj \in S
       /\ o.obj \in S /\ o.done = 0 => D[o.obj] = o.hand
  /\ (p = "unlock" \/ (p \in CountPcs /\ o.ret = "unlock"))
       /\ Freeing(o) /\ ~o.err => o.obj \in S
  /\ p = "erase" => /\ Freeing(o) /\ o.obj \in Objects
                    /\ o.obj \in S \/ D[o.obj] = 0
  /\ o.kind = "empty" => o.obj \in Files
  /\ p \in {"growing", "grown"} => o.kind = "extend"
  /\ p = "growing" => o.left > 0 /\ o.tail \in Clusters /\ F[o.tail] = EOC

TasksOK == \A t \in Tasks : TaskOK(pc[t], op[t], fat, dirent, stale)

DirectoriesHaveAChain == \A f \in Dirs : dirent[f] # 0

\* OwnedOnce, pair by pair.
EntryRefs ==
  \A f \in Objects \ stale : dirent[f] \in Clusters =>
    /\ fat[dirent[f]] # Free
    /\ dirent[f] \notin lost
    /\ \A b \in Clusters : fat[b] # dirent[f]
    /\ \A t \in Tasks : op[t].hand # dirent[f]
    /\ \A g \in Objects \ stale : dirent[g] = dirent[f] => g = f

LinkRefs ==
  \A b \in Clusters : fat[b] \in Clusters =>
    /\ fat[fat[b]] # Free
    /\ fat[b] \notin lost
    /\ \A t \in Tasks : op[t].hand # fat[b]
    /\ \A a \in Clusters : fat[a] = fat[b] => a = b

HandRefs ==
  \A t \in Tasks : op[t].hand \in Clusters =>
    /\ fat[op[t].hand] # Free
    /\ op[t].hand \notin lost
    /\ \A u \in Tasks : op[u].hand = op[t].hand => u = t

LostRefs == \A c \in lost : fat[c] # Free

Named(c) ==
  \/ \E f \in Objects \ stale : dirent[f] = c
  \/ \E b \in Clusters : fat[b] = c
  \/ \E t \in Tasks : op[t].hand = c
  \/ c \in lost

UsedIsNamed == \A c \in Clusters : fat[c] # Free => Named(c)

Refs == EntryRefs /\ LinkRefs /\ HandRefs /\ LostRefs /\ UsedIsNamed

FatInv ==
  /\ TypeOK
  /\ OneTaskPerObject
  /\ LoopsHaveTheLock
  /\ TasksOK
  /\ DirectoriesHaveAChain
  /\ Refs

-----------------------------------------------------------------------------
(* Facts about the constants and the helpers.                               *)

\* The special values of the FAT and None are no clusters.
LEMMA ValuesDiffer ==
  /\ Free \notin Clusters /\ EOC \notin Clusters /\ 0 \notin Clusters
  /\ Free # EOC /\ Free = 0 /\ None # 0
  /\ None \notin Clusters /\ None \notin Objects /\ None \notin Tasks
  /\ Clusters \subseteq Nat /\ Usable \subseteq Clusters
  /\ Files \cap Dirs = {} /\ NumClusters \in Nat /\ NumClusters > 2
BY FatAssumption DEF FatAssumption, Free, EOC, Clusters, Usable

\* FF_CountFreeClusters returns at most ulNumClusters.
LEMMA FreeCountIsBounded == NumFree \in 0 .. NumClusters
<1> DEFINE S == {c \in (IF Fat12 THEN Usable ELSE Clusters) : fat[c] = Free}
<1>1. IsFiniteSet(2 .. NumClusters + 1)
      /\ Cardinality(2 .. NumClusters + 1) = NumClusters
  <2>1. 2 \in Int /\ NumClusters + 1 \in Int /\ 2 <= NumClusters + 1
        /\ NumClusters \in Nat
    BY FatAssumption DEF FatAssumption
  <2> QED BY <2>1, FS_Interval
<1>2. S \subseteq 2 .. NumClusters + 1
  BY ValuesDiffer DEF Clusters, Usable
<1>3. NumFree = Cardinality(S)
  BY DEF NumFree, FreeIn
<1> HIDE DEF S
<1>4. IsFiniteSet(S) /\ Cardinality(S) <= NumClusters
  BY <1>1, <1>2, FS_Subset
<1>5. Cardinality(S) \in Nat
  BY <1>4, FS_CardinalityType
<1> QED BY <1>3, <1>4, <1>5, ValuesDiffer

\* An idle task has no cluster and no object.
LEMMA NoOpType == NoOp \in OpType /\ NoOp.hand = 0 /\ NoOp.obj = None
BY ValuesDiffer DEF NoOp, OpType

\* What Go leaves alone.
LEMMA GoMoves ==
  ASSUME TypeOK, NEW t \in Tasks, NEW p, NEW o, Go(t, p, o)
  PROVE  /\ pc'[t] = p /\ op'[t] = o
         /\ \A u \in Tasks \ {t} : pc'[u] = pc[u] /\ op'[u] = op[u]
         /\ p \in Pcs /\ o \in OpType => pc' \in [Tasks -> Pcs] /\ op' \in [Tasks -> OpType]
BY DEF Go, TypeOK, Pcs, CountPcs, LoopPcs

\* The types of the variables other than pc and op.
RestType ==
  /\ fat \in [Clusters -> Links]
  /\ hint \in 0 .. NumClusters
  /\ count \in 0 .. CountModulus - 1
  /\ lock \in Tasks \cup {None}
  /\ dirent \in [Objects -> {None, 0} \cup Clusters]
  /\ stale \subseteq Objects
  /\ lost \subseteq Clusters
  /\ failed \in BOOLEAN /\ raced \in BOOLEAN

\* TypeOK, in the parts the steps below change.
LEMMA TypeParts ==
  TypeOK <=> RestType /\ pc \in [Tasks -> Pcs] /\ op \in [Tasks -> OpType]
BY DEF TypeOK, RestType, Pcs, CountPcs, LoopPcs

-----------------------------------------------------------------------------
(* One task moves: what holds of the other tasks still does.                *)

\* A step of t keeps what is known of the other tasks.
LEMMA OthersKeep ==
  ASSUME FatInv, NEW t \in Tasks, NEW p \in Pcs, NEW o \in OpType, Go(t, p, o),
         o.obj = op[t].obj \/ o.obj = None \/ Unattended(o.obj),
         \A f \in Objects \ {op[t].obj} :
           dirent'[f] = dirent[f] /\ (f \in stale' <=> f \in stale),
         stale' \subseteq Objects,
         fat' = fat \/ lock \in {t, None},
         lock' = lock \/ (lock \in {t, None} /\ lock' \in {t, None}),
         p \in LoopPcs => lock' = t,
         TaskOK(p, o, fat', dirent', stale')
  PROVE  /\ pc' \in [Tasks -> Pcs] /\ op' \in [Tasks -> OpType]
         /\ OneTaskPerObject' /\ LoopsHaveTheLock' /\ TasksOK'
<1>1. TypeOK /\ OneTaskPerObject /\ LoopsHaveTheLock /\ TasksOK
  BY DEF FatInv
<1>2. /\ pc'[t] = p /\ op'[t] = o
      /\ \A u \in Tasks \ {t} : pc'[u] = pc[u] /\ op'[u] = op[u]
      /\ pc' \in [Tasks -> Pcs] /\ op' \in [Tasks -> OpType]
  BY <1>1, GoMoves
<1>3. OneTaskPerObject'
  BY <1>1, <1>2 DEF OneTaskPerObject, Unattended
<1>4. LoopsHaveTheLock'
  BY <1>1, <1>2, ValuesDiffer DEF LoopsHaveTheLock
<1>5. TasksOK'
  <2> SUFFICES ASSUME NEW u \in Tasks
               PROVE  TaskOK(pc'[u], op'[u], fat', dirent', stale')
    BY DEF TasksOK
  <2>1. CASE u = t
    BY <1>2, <2>1
  <2>2. CASE u # t
    <3>1. pc'[u] = pc[u] /\ op'[u] = op[u]
      BY <1>2, <2>2
    <3>2. TaskOK(pc[u], op[u], fat, dirent, stale)
      BY <1>1 DEF TasksOK
    <3>3. pc[u] = "growing" => fat' = fat
      BY <1>1, <2>2, ValuesDiffer DEF LoopsHaveTheLock, LoopPcs
    <3>4. stale \subseteq Objects
      BY <1>1 DEF TypeOK
    <3>5. CASE op[u].obj \in Objects
      <4>1. op[u].obj # op[t].obj
        BY <1>1, <2>2, <3>5, ValuesDiffer DEF OneTaskPerObject
      <4>2. /\ dirent'[op[u].obj] = dirent[op[u].obj]
            /\ op[u].obj \in stale' <=> op[u].obj \in stale
        BY <4>1, <3>5
      <4> QED BY <3>1, <3>2, <3>3, <4>2 DEF TaskOK, Sound, Bare
    <3>6. CASE op[u].obj \notin Objects
      <4>1. op[u].obj \notin stale /\ op[u].obj \notin stale'
        BY <3>4, <3>6
      <4> QED BY <3>1, <3>2, <3>3, <3>6, <4>1 DEF TaskOK, Sound, Bare
    <3> QED BY <3>5, <3>6
  <2> QED BY <2>1, <2>2
<1> QED BY <1>2, <1>3, <1>4, <1>5

\* Nothing that refers to a cluster changes.
LEMMA RefsKept ==
  ASSUME Refs, UNCHANGED <<fat, dirent, stale, lost>>,
         \A u \in Tasks : op'[u].hand = op[u].hand
  PROVE  Refs'
BY DEF Refs, EntryRefs, LinkRefs, HandRefs, LostRefs, UsedIsNamed, Named

\* A step of t that changes no reference and moves t from a sound place to
\* another one.
LEMMA QuietStep ==
  ASSUME FatInv, NEW t \in Tasks, NEW p \in Pcs, NEW o \in OpType, Go(t, p, o),
         o.obj = op[t].obj \/ o.obj = None \/ Unattended(o.obj),
         o.hand = op[t].hand,
         UNCHANGED <<fat, dirent, stale, lost>>,
         lock' = lock \/ (lock \in {t, None} /\ lock' \in {t, None}),
         p \in LoopPcs => lock' = t,
         hint' \in 0 .. NumClusters, count' \in 0 .. CountModulus - 1,
         failed' \in BOOLEAN, raced' \in BOOLEAN,
         TaskOK(p, o, fat, dirent, stale)
  PROVE  FatInv'
<1>1. TypeOK /\ RestType /\ Refs /\ DirectoriesHaveAChain
  BY TypeParts DEF FatInv
<1>2. stale' \subseteq Objects
  BY <1>1 DEF RestType
<1>3. TaskOK(p, o, fat', dirent', stale')
  OBVIOUS
<1>4. /\ pc' \in [Tasks -> Pcs] /\ op' \in [Tasks -> OpType]
      /\ OneTaskPerObject' /\ LoopsHaveTheLock' /\ TasksOK'
  BY <1>2, <1>3, OthersKeep
<1>5. RestType'
  BY <1>1 DEF RestType
<1>6. TypeOK'
  BY <1>4, <1>5, TypeParts DEF TypeOK, RestType, Pcs, CountPcs, LoopPcs
<1>7. \A u \in Tasks : op'[u].hand = op[u].hand
  BY <1>1, GoMoves
<1>8. Refs'
  BY <1>1, <1>7, RefsKept
<1>9. DirectoriesHaveAChain'
  BY <1>1 DEF DirectoriesHaveAChain
<1> QED BY <1>4, <1>6, <1>8, <1>9 DEF FatInv

\* What a typed record of a task looks like after a change.
LEMMA OpFields ==
  ASSUME TypeOK, NEW t \in Tasks
  PROVE  /\ op[t] \in OpType
         /\ op[t].hand \in {0} \cup Clusters /\ op[t].tail \in {0} \cup Clusters
         /\ op[t].left \in Nat /\ op[t].done \in Nat /\ op[t].val \in 0 .. NumClusters
         /\ op[t].err \in BOOLEAN /\ pc[t] \in Pcs
         /\ hint \in 0 .. NumClusters /\ count \in 0 .. CountModulus - 1
         /\ failed \in BOOLEAN /\ raced \in BOOLEAN /\ lock \in Tasks \cup {None}
BY DEF TypeOK, OpType, Pcs, CountPcs, LoopPcs

\* Starting an operation on an object no other task works on.
LEMMA BeginStep ==
  ASSUME FatInv, NEW t \in Tasks, NEW f \in Objects, NEW k, NEW p \in Pcs, NEW o,
         NEW n \in OpType, n = [o EXCEPT !.kind = k, !.obj = f],
         n.obj = f, n.hand = 0, Begin(t, f, k, p, o), p \notin LoopPcs,
         TaskOK(p, n, fat, dirent, stale)
  PROVE  FatInv'
<1>2. op[t] = NoOp /\ op[t].hand = 0
  BY NoOpType DEF Begin, FatInv, TasksOK, TaskOK
<1>3. /\ Go(t, p, n) /\ Unattended(f) /\ UNCHANGED <<disk, hint, count, lock, history>>
  BY DEF Begin
<1>5. TypeOK
  BY DEF FatInv
<1> QED BY <1>2, <1>3, <1>5, OpFields, QuietStep DEF disk, history

\* The record an operation on f starts with.
Started(k, f, o, n) ==
  /\ n \in OpType /\ n = [o EXCEPT !.kind = k, !.obj = f]
  /\ n.kind = k /\ n.obj = f /\ n.left = o.left /\ n.ret = o.ret
  /\ n.hand = 0 /\ n.err = FALSE

\* What Create, Empty, Shorten, Remove and GetFreeSize put in op[t] has its
\* type.
LEMMA StartType ==
  ASSUME NEW f \in Objects,
         NEW k \in {"create", "extend", "remove", "empty", "cut"}
  PROVE  Started(k, f, NoOp, [NoOp EXCEPT !.kind = k, !.obj = f])
<1> DEFINE n == [NoOp EXCEPT !.kind = k, !.obj = f]
<1>1. n.kind = k /\ n.obj = f /\ n.left = 0 /\ n.ret = "idle"
      /\ n.hand = 0 /\ n.err = FALSE
  BY DEF NoOp
<1>2. n \in OpType
  BY NoOpType DEF OpType
<1>3. NoOp.left = 0 /\ NoOp.ret = "idle"
  BY DEF NoOp
<1> QED BY <1>1, <1>2, <1>3 DEF Started

\* So has what ExtendFile puts there.
LEMMA StartFileType ==
  ASSUME NEW f \in Objects, NEW n \in Nat
  PROVE  Started("extend", f, [NoOp EXCEPT !.left = n],
                 [[NoOp EXCEPT !.left = n] EXCEPT !.kind = "extend", !.obj = f])
<1> DEFINE o == [NoOp EXCEPT !.left = n]
           m == [o EXCEPT !.kind = "extend", !.obj = f]
<1>1. o \in OpType
  BY NoOpType DEF OpType
<1>2. o.left = n /\ o.ret = "idle" /\ o.hand = 0 /\ o.err = FALSE
  BY DEF NoOp
<1> HIDE DEF o
<1>3. m \in OpType
  BY <1>1 DEF OpType
<1>4. /\ m.kind = "extend" /\ m.obj = f /\ m.left = o.left /\ m.ret = o.ret
      /\ m.hand = o.hand /\ m.err = o.err
  BY <1>1 DEF OpType
<1>5. Started("extend", f, o, m)
  BY <1>2, <1>3, <1>4 DEF Started
<1> QED BY <1>5 DEF o

\* So has what ExtendDirectory puts there.
LEMMA StartDirectoryType ==
  ASSUME NEW f \in Objects
  PROVE  Started("extend", f, [NoOp EXCEPT !.left = 1, !.why = "look", !.ret = "enough"],
                 [[NoOp EXCEPT !.left = 1, !.why = "look", !.ret = "enough"]
                    EXCEPT !.kind = "extend", !.obj = f])
<1> DEFINE o == [NoOp EXCEPT !.left = 1, !.why = "look", !.ret = "enough"]
           m == [o EXCEPT !.kind = "extend", !.obj = f]
<1>1. o \in OpType
  BY NoOpType DEF OpType
<1>2. o.left = 1 /\ o.ret = "enough" /\ o.hand = 0 /\ o.err = FALSE
  BY DEF NoOp
<1> HIDE DEF o
<1>3. m \in OpType
  BY <1>1 DEF OpType
<1>4. /\ m.kind = "extend" /\ m.obj = f /\ m.left = o.left /\ m.ret = o.ret
      /\ m.hand = o.hand /\ m.err = o.err
  BY <1>1 DEF OpType
<1>5. Started("extend", f, o, m)
  BY <1>2, <1>3, <1>4 DEF Started
<1> QED BY <1>5 DEF o

\* FF_CreateFile starts on an object without an entry.
LEMMA CreateStep ==
  ASSUME FatInv, NEW t \in Tasks, NEW f \in Objects, Create(t, f)
  PROVE  FatInv'
<1> DEFINE n == [NoOp EXCEPT !.kind = "create", !.obj = f]
<1>1. Started("create", f, NoOp, n)
  BY StartType
<1> HIDE DEF n
<1>2. Begin(t, f, "create", "claim", NoOp) /\ Bare(f, dirent, stale)
  BY ValuesDiffer DEF Create, Begin, Unattended, Bare
<1>3. TaskOK("claim", n, fat, dirent, stale)
  BY <1>1, <1>2, ValuesDiffer DEF TaskOK, Holding, Claiming, Freeing, CountPcs, Started
<1> QED BY <1>1, <1>2, <1>3, BeginStep DEF Started, Pcs, LoopPcs

\* FF_ExtendFile starts on a file that is not being removed.
LEMMA ExtendFileStep ==
  ASSUME FatInv, NEW t \in Tasks, NEW f \in Files, NEW k \in 1 .. MaxExtend,
         ExtendFile(t, f, k)
  PROVE  FatInv'
<1> DEFINE o == [NoOp EXCEPT !.left = k]
           n == [o EXCEPT !.kind = "extend", !.obj = f]
<1>1. f \in Objects /\ f \notin stale
  BY DEF Objects, ExtendFile, Begin, Unattended
<1>2. dirent[f] \in {0} \cup Clusters /\ k \in Nat /\ k > 0
  BY <1>1, FatAssumption DEF ExtendFile, FatInv, TypeOK, FatAssumption
<1>3. Started("extend", f, o, n) /\ o.left = k
  BY <1>1, <1>2, StartFileType DEF NoOp
<1>4. Begin(t, f, "extend", IF dirent[f] = 0 THEN "claim" ELSE "grow", o)
  BY DEF ExtendFile
<1> HIDE DEF o, n
<1>5. CASE dirent[f] = 0
  <2>1. TaskOK("claim", n, fat, dirent, stale)
    BY <1>1, <1>3, <1>5, ValuesDiffer
       DEF TaskOK, Holding, Claiming, Freeing, CountPcs, Bare, Started
  <2> QED BY <2>1, <1>1, <1>3, <1>4, <1>5, BeginStep DEF Started, Pcs, LoopPcs
<1>6. CASE dirent[f] # 0
  <2>1. TaskOK("grow", n, fat, dirent, stale)
    BY <1>1, <1>2, <1>3, <1>6, ValuesDiffer
       DEF TaskOK, Holding, Claiming, Freeing, CountPcs, Sound, Started
  <2> QED BY <2>1, <1>1, <1>3, <1>4, <1>6, BeginStep DEF Started, Pcs, LoopPcs
<1> QED BY <1>5, <1>6

\* FF_ExtendDirectory starts on a directory, which always has a chain.
LEMMA ExtendDirectoryStep ==
  ASSUME FatInv, NEW t \in Tasks, NEW f \in Dirs, ExtendDirectory(t, f)
  PROVE  FatInv'
<1> DEFINE o == [NoOp EXCEPT !.left = 1, !.why = "look", !.ret = "enough"]
           n == [o EXCEPT !.kind = "extend", !.obj = f]
<1>1. f \in Objects /\ f \notin stale
  BY DEF Objects, ExtendDirectory, Begin, Unattended
<1>2. dirent[f] \in Clusters
  BY <1>1 DEF ExtendDirectory, FatInv, TypeOK, DirectoriesHaveAChain
<1>3. Started("extend", f, o, n) /\ o.left = 1 /\ o.ret = "enough"
  BY <1>1, StartDirectoryType DEF NoOp
<1>4. Begin(t, f, "extend", "check", o)
  BY DEF ExtendDirectory
<1> HIDE DEF o, n
<1>5. TaskOK("check", n, fat, dirent, stale)
  BY <1>1, <1>2, <1>3, ValuesDiffer
     DEF TaskOK, Holding, Claiming, Freeing, CountPcs, Sound, Started
<1> QED BY <1>1, <1>3, <1>4, <1>5, BeginStep DEF Started, Pcs, LoopPcs, CountPcs

\* FF_RmFile starts: with no cluster it goes on to erase the entry.
LEMMA RemoveStep ==
  ASSUME FatInv, NEW t \in Tasks, NEW f \in Objects, Remove(t, f)
  PROVE  FatInv'
<1> DEFINE n == [NoOp EXCEPT !.kind = "remove", !.obj = f]
<1>1. f \notin stale /\ dirent[f] \in {0} \cup Clusters
  BY DEF Remove, Begin, Unattended, FatInv, TypeOK
<1>2. Started("remove", f, NoOp, n) /\ (f \in Dirs => dirent[f] # 0)
  BY StartType DEF FatInv, DirectoriesHaveAChain
<1>3. Begin(t, f, "remove", IF dirent[f] = 0 THEN "erase" ELSE "unlink", NoOp)
  BY DEF Remove
<1> HIDE DEF n
<1>4. CASE dirent[f] = 0
  <2>1. TaskOK("erase", n, fat, dirent, stale)
    BY <1>2, <1>4, ValuesDiffer DEF TaskOK, Holding, Claiming, Freeing, CountPcs, Started
  <2> QED BY <2>1, <1>2, <1>3, <1>4, BeginStep DEF Started, Pcs, LoopPcs
<1>5. CASE dirent[f] # 0
  <2>1. TaskOK("unlink", n, fat, dirent, stale)
    BY <1>1, <1>2, <1>5, ValuesDiffer
       DEF TaskOK, Holding, Claiming, Freeing, CountPcs, Sound, Started
  <2> QED BY <2>1, <1>2, <1>3, <1>5, BeginStep DEF Started, Pcs, LoopPcs
<1> QED BY <1>4, <1>5

\* FF_Truncate to nothing starts on a file with a chain.
LEMMA EmptyStep ==
  ASSUME FatInv, NEW t \in Tasks, NEW f \in Files, Empty(t, f)
  PROVE  FatInv'
<1> DEFINE n == [NoOp EXCEPT !.kind = "empty", !.obj = f]
<1>1. f \in Objects /\ f \notin stale /\ dirent[f] \in Clusters
  BY DEF Empty, Begin, Unattended, Objects
<1>2. Started("empty", f, NoOp, n) /\ Begin(t, f, "empty", "unlink", NoOp)
  BY <1>1, StartType DEF Empty
<1> HIDE DEF n
<1>3. TaskOK("unlink", n, fat, dirent, stale)
  BY <1>1, <1>2, ValuesDiffer DEF TaskOK, Holding, Claiming, Freeing, CountPcs, Sound, Started
<1> QED BY <1>1, <1>2, <1>3, BeginStep DEF Started, Pcs, LoopPcs

\* FF_Truncate to a part starts on a chain of two clusters or more.
LEMMA ShortenStep ==
  ASSUME FatInv, NEW t \in Tasks, NEW f \in Files, Shorten(t, f)
  PROVE  FatInv'
<1> DEFINE n == [NoOp EXCEPT !.kind = "cut", !.obj = f]
<1>1. f \in Objects /\ f \notin stale /\ dirent[f] \in Clusters
  BY DEF Shorten, Begin, Unattended, Objects
<1>2. Started("cut", f, NoOp, n) /\ Begin(t, f, "cut", "cut", NoOp)
  BY <1>1, StartType DEF Shorten
<1> HIDE DEF n
<1>3. TaskOK("cut", n, fat, dirent, stale)
  BY <1>1, <1>2, ValuesDiffer DEF TaskOK, Holding, Claiming, Freeing, CountPcs, Sound, Started
<1> QED BY <1>1, <1>2, <1>3, BeginStep DEF Started, Pcs, LoopPcs

\* FF_GetFreeSize works on no object.
LEMMA GetFreeSizeStep ==
  ASSUME FatInv, NEW t \in Tasks, GetFreeSize(t)
  PROVE  FatInv'
<1> DEFINE n == [NoOp EXCEPT !.kind = "measure", !.why = "look"]
<1>1. op[t] = NoOp /\ op[t].hand = 0
  BY NoOpType DEF GetFreeSize, FatInv, TasksOK, TaskOK
<1>2. /\ n \in OpType /\ n.hand = 0 /\ n.obj = None
      /\ n.kind = "measure" /\ n.ret = "idle"
  <2>1. n \in OpType
    BY NoOpType DEF OpType
  <2>2. n.hand = 0 /\ n.obj = None /\ n.kind = "measure" /\ n.ret = "idle"
    BY DEF NoOp
  <2> QED BY <2>1, <2>2
<1>3. Go(t, "check", n) /\ UNCHANGED <<disk, hint, count, lock, history>>
  BY DEF GetFreeSize
<1> HIDE DEF n
<1>4. TaskOK("check", n, fat, dirent, stale)
  BY <1>2, ValuesDiffer DEF TaskOK, Holding, Claiming, Freeing, CountPcs
<1>5. TypeOK
  BY DEF FatInv
<1> QED BY <1>1, <1>2, <1>3, <1>4, <1>5, OpFields, QuietStep
        DEF disk, history, Pcs, LoopPcs, CountPcs

-----------------------------------------------------------------------------
(* The count and the hint.                                                  *)

\* o is what the task has while it works on the count, but for done and val.
Same(o, q) == /\ o.obj = q.obj /\ o.kind = q.kind /\ o.hand = q.hand
              /\ o.ret = q.ret /\ o.left = q.left
              /\ q.err => o.err

\* Moving between the steps of a count keeps what is known of the task.
LEMMA CountingIsOK ==
  ASSUME NEW p \in CountPcs, NEW r \in CountPcs, NEW q, NEW o, Same(o, q),
         NEW F, NEW D, NEW S, TaskOK(p, q, F, D, S)
  PROVE  TaskOK(r, o, F, D, S)
BY DEF Same, TaskOK, Holding, Claiming, Freeing, CountPcs

\* A step within the counting of a task that keeps the lock as it is.
LEMMA CountMove ==
  ASSUME FatInv, NEW t \in Tasks, pc[t] \in CountPcs, NEW p \in CountPcs,
         NEW o \in OpType, Same(o, op[t]), Go(t, p, o),
         UNCHANGED <<fat, dirent, stale, lost, lock>>,
         hint' \in 0 .. NumClusters, count' \in 0 .. CountModulus - 1,
         failed' \in BOOLEAN, raced' \in BOOLEAN
  PROVE  FatInv'
<1>1. TaskOK(pc[t], op[t], fat, dirent, stale)
  BY DEF FatInv, TasksOK
<1>2. TaskOK(p, o, fat, dirent, stale)
  BY <1>1, CountingIsOK
<1>3. p \in Pcs /\ p \notin LoopPcs
  BY DEF Pcs, CountPcs, LoopPcs
<1> QED BY <1>2, <1>3, QuietStep DEF Same

\* A task gives up, and the cluster it has is lost.
LEMMA LeakStep ==
  ASSUME FatInv, NEW t \in Tasks, Finish(t),
         UNCHANGED <<fat, dirent, stale, lock>>,
         lost' = lost \cup ({op[t].hand} \ {0}),
         hint' \in 0 .. NumClusters, count' \in 0 .. CountModulus - 1,
         failed' \in BOOLEAN, raced' \in BOOLEAN
  PROVE  FatInv'
<1>1. TypeOK /\ RestType /\ Refs /\ DirectoriesHaveAChain
  BY TypeParts DEF FatInv
<1>2. op[t].hand \in {0} \cup Clusters
  BY <1>1, OpFields
<1>3. Go(t, "idle", NoOp) /\ NoOp \in OpType /\ NoOp.hand = 0 /\ NoOp.obj = None
  BY NoOpType DEF Finish
<1>4. TaskOK("idle", NoOp, fat', dirent', stale')
  BY <1>3, ValuesDiffer DEF TaskOK, Holding, Claiming, Freeing, CountPcs, NoOp
<1>5. stale' \subseteq Objects /\ "idle" \in Pcs /\ "idle" \notin LoopPcs
  BY <1>1 DEF RestType, Pcs, LoopPcs
<1>6. /\ pc' \in [Tasks -> Pcs] /\ op' \in [Tasks -> OpType]
      /\ OneTaskPerObject' /\ LoopsHaveTheLock' /\ TasksOK'
  BY <1>3, <1>4, <1>5, OthersKeep
<1>7. RestType'
  BY <1>1, <1>2 DEF RestType
<1>8. TypeOK'
  BY <1>6, <1>7, TypeParts DEF TypeOK, RestType, Pcs, CountPcs, LoopPcs
<1>9. op'[t].hand = 0 /\ \A u \in Tasks \ {t} : op'[u].hand = op[u].hand
  BY <1>1, <1>3, GoMoves
<1>10. Refs'
  <2>1. EntryRefs'
    BY <1>1, <1>2, <1>9, ValuesDiffer DEF Refs, EntryRefs
  <2>2. LinkRefs'
    BY <1>1, <1>2, <1>9, ValuesDiffer DEF Refs, LinkRefs
  <2>3. HandRefs'
    BY <1>1, <1>2, <1>9, ValuesDiffer DEF Refs, HandRefs
  <2>4. LostRefs'
    BY <1>1, <1>2, <1>9, ValuesDiffer DEF Refs, HandRefs, LostRefs
  <2>5. UsedIsNamed'
    <3> SUFFICES ASSUME NEW c \in Clusters, fat[c] # Free
                 PROVE  Named(c)'
      BY DEF UsedIsNamed
    <3>1. Named(c)
      BY <1>1 DEF Refs, UsedIsNamed
    <3>2. c # 0
      BY ValuesDiffer
    <3> QED BY <3>1, <3>2, <1>9 DEF Named
  <2> QED BY <2>1, <2>2, <2>3, <2>4, <2>5 DEF Refs
<1>11. DirectoriesHaveAChain'
  BY <1>1 DEF DirectoriesHaveAChain
<1> QED BY <1>6, <1>8, <1>10, <1>11 DEF FatInv

\* The return from the count: to the caller, or with an error that leaks.
LEMMA ReturnStep ==
  ASSUME FatInv, NEW t \in Tasks, pc[t] \in CountPcs,
         NEW o \in OpType, Same(o, op[t]), Return(t, o),
         UNCHANGED <<fat, dirent, stale, lock>>,
         hint' \in 0 .. NumClusters, count' \in 0 .. CountModulus - 1,
         failed' \in BOOLEAN, raced' \in BOOLEAN
  PROVE  FatInv'
<1>1. TaskOK(pc[t], op[t], fat, dirent, stale) /\ TypeOK
  BY DEF FatInv, TasksOK
<1>2. o.ret \in {"idle", "entry", "unlock", "enough"} /\ op[t].ret = o.ret
  BY DEF OpType, Same
<1>3. CASE o.err /\ o.ret \in {"entry", "enough"}
  BY <1>3, LeakStep DEF Return, Same
<1>4. CASE ~(o.err /\ o.ret \in {"entry", "enough"}) /\ o.ret = "idle"
  <2>1. op[t].hand = 0
    BY <1>1, <1>2, <1>4 DEF TaskOK, Holding, Claiming, CountPcs
  <2>2. TaskOK("idle", NoOp, fat, dirent, stale)
    BY NoOpType, ValuesDiffer DEF TaskOK, Holding, Claiming, Freeing, CountPcs, NoOp
  <2>3. Go(t, "idle", NoOp) /\ lost' = lost
    BY <1>4 DEF Return
  <2> QED BY <2>1, <2>2, <2>3, NoOpType, QuietStep DEF Pcs, LoopPcs
<1>5. CASE ~(o.err /\ o.ret \in {"entry", "enough"}) /\ o.ret # "idle"
  <2>1. TaskOK(o.ret, o, fat, dirent, stale)
    BY <1>1, <1>2, <1>5 DEF TaskOK, Holding, Claiming, Freeing, CountPcs, Same
  <2>2. Go(t, o.ret, o) /\ lost' = lost
    BY <1>5 DEF Return
  <2>3. o.ret \in Pcs /\ o.ret \notin LoopPcs
    BY <1>2 DEF Pcs, LoopPcs
  <2> QED BY <2>1, <2>2, <2>3, QuietStep DEF Same
<1> QED BY <1>3, <1>4, <1>5

\* The test of ulFreeClusterCount.
LEMMA CheckCountStep ==
  ASSUME FatInv, NEW t \in Tasks, CheckCount(t)
  PROVE  FatInv'
<1>1. TypeOK /\ pc[t] \in CountPcs
  BY DEF FatInv, CheckCount, CountPcs
<1>2. Same(op[t], op[t])
  BY DEF Same
<1>3. /\ UNCHANGED <<fat, dirent, stale, lock>>
      /\ hint' \in 0 .. NumClusters /\ count' \in 0 .. CountModulus - 1
      /\ failed' \in BOOLEAN /\ raced' \in BOOLEAN
  BY <1>1, OpFields DEF CheckCount, disk
<1>4. CASE lost' = lost /\ \E p \in {"recount", "adjust"} : Go(t, p, op[t])
  <2> PICK p \in {"recount", "adjust"} : Go(t, p, op[t])
    BY <1>4
  <2>1. p \in CountPcs
    BY DEF CountPcs
  <2> QED BY <1>1, <1>2, <1>3, <1>4, <2>1, OpFields, CountMove
<1>5. CASE Return(t, op[t])
  BY <1>1, <1>2, <1>3, <1>5, OpFields, ReturnStep
<1> QED BY <1>4, <1>5 DEF CheckCount

\* FF_CountFreeClusters returns a number of clusters.
LEMMA RecountStep ==
  ASSUME FatInv, NEW t \in Tasks, Recount(t)
  PROVE  FatInv'
<1> PICK r \in [val : {NumFree}, err : {FALSE}] \cup [val : {0}, err : {TRUE}] :
      /\ IF r.err THEN Fails ELSE UNCHANGED failed
      /\ Go(t, "assign",
            [op[t] EXCEPT !.val = r.val, !.err = r.err \/ @,
                          !.ret = IF op[t].kind = "measure" THEN "unlock" ELSE @])
  BY DEF Recount
<1> DEFINE o == [op[t] EXCEPT !.val = r.val, !.err = r.err \/ @,
                   !.ret = IF op[t].kind = "measure" THEN "unlock" ELSE @]
<1>1. TypeOK /\ pc[t] = "recount" /\ TaskOK("recount", op[t], fat, dirent, stale)
  BY DEF FatInv, Recount, TasksOK
<1>2. r.val \in 0 .. NumClusters /\ r.err \in BOOLEAN
  <2>1. CASE r \in [val : {NumFree}, err : {FALSE}]
    <3>1. r.val = NumFree /\ r.err = FALSE
      BY <2>1
    <3> QED BY <3>1, FreeCountIsBounded
  <2>2. CASE r \in [val : {0}, err : {TRUE}]
    <3>1. r.val = 0 /\ r.err = TRUE
      BY <2>2
    <3>2. 0 \in 0 .. NumClusters
      BY ValuesDiffer
    <3> QED BY <3>1, <3>2
  <2> QED BY <2>1, <2>2
<1>3. op[t] \in OpType
  BY <1>1, OpFields
<1>4. o \in OpType
  BY <1>2, <1>3 DEF OpType
<1>5. /\ o.obj = op[t].obj /\ o.kind = op[t].kind /\ o.hand = op[t].hand
      /\ o.left = op[t].left /\ (op[t].err => o.err)
      /\ o.ret = IF op[t].kind = "measure" THEN "unlock" ELSE op[t].ret
  BY <1>3 DEF OpType
<1>6. Go(t, "assign", o)
  OBVIOUS
<1> HIDE DEF o
<1>7. TaskOK("assign", o, fat, dirent, stale)
  BY <1>1, <1>5 DEF TaskOK, Holding, Claiming, Freeing, CountPcs
<1>8. /\ UNCHANGED <<fat, dirent, stale, lost>>
      /\ hint' \in 0 .. NumClusters /\ count' \in 0 .. CountModulus - 1
      /\ failed' \in BOOLEAN /\ raced' \in BOOLEAN
  BY <1>1, <1>2, OpFields DEF Recount, disk, Fails
<1>9. lock' = lock \/ (lock \in {t, None} /\ lock' \in {t, None})
  BY DEF Recount, MayCount
<1> QED BY <1>4, <1>5, <1>6, <1>7, <1>8, <1>9, QuietStep DEF Pcs, LoopPcs, CountPcs

\* The count becomes what was counted earlier.
LEMMA AssignCountStep ==
  ASSUME FatInv, NEW t \in Tasks, AssignCount(t)
  PROVE  FatInv'
<1> DEFINE o == [op[t] EXCEPT !.val = 0, !.done = 0]
<1>1. TypeOK /\ pc[t] \in CountPcs /\ op[t] \in OpType /\ op[t].val \in 0 .. NumClusters
  BY OpFields DEF FatInv, AssignCount, CountPcs
<1>2. Same(op[t], op[t])
  BY DEF Same
<1>3. o \in OpType /\ Same(o, op[t])
  <2>1. 0 \in 0 .. NumClusters
    BY ValuesDiffer
  <2> QED BY <1>1, <2>1 DEF OpType, Same
<1>4. 0 .. NumClusters \subseteq 0 .. CountModulus - 1
  BY FatAssumption DEF FatAssumption
<1>5. /\ UNCHANGED <<fat, dirent, stale, lock>>
      /\ hint' \in 0 .. NumClusters /\ count' \in 0 .. CountModulus - 1
      /\ failed' \in BOOLEAN /\ raced' \in BOOLEAN
  BY <1>1, <1>4, OpFields DEF AssignCount, disk
<1>6. CASE Return(t, op[t])
  BY <1>1, <1>2, <1>5, <1>6, ReturnStep
<1>7. CASE Go(t, "hint", o) /\ UNCHANGED lost
  <2> HIDE DEF o
  <2>1. "hint" \in CountPcs
    BY DEF CountPcs
  <2> QED BY <1>1, <1>3, <1>5, <1>7, <2>1, CountMove
<1> QED BY <1>6, <1>7 DEF AssignCount

\* The count changes by the clusters added or freed, modulo its range.
LEMMA AdjustCountStep ==
  ASSUME FatInv, NEW t \in Tasks, AdjustCount(t)
  PROVE  FatInv'
<1> DEFINE o == [op[t] EXCEPT !.done = 0]
<1>1. TypeOK /\ pc[t] \in CountPcs /\ op[t] \in OpType /\ op[t].done \in Nat
  BY OpFields DEF FatInv, AdjustCount, CountPcs
<1>2. o \in OpType /\ Same(o, op[t])
  BY <1>1 DEF OpType, Same
<1>3. count' \in 0 .. CountModulus - 1
  <2> DEFINE x == IF op[t].why = "less" THEN count + CountModulus - op[t].done
                  ELSE count + op[t].done
  <2>1. count' = x % CountModulus
    BY DEF AdjustCount
  <2>2. x \in Int /\ CountModulus \in Nat /\ CountModulus > 0
    BY <1>1, FatAssumption, OpFields DEF FatAssumption
  <2> HIDE DEF x
  <2> QED BY <2>1, <2>2
<1>4. /\ UNCHANGED <<fat, dirent, stale, lock, lost>> /\ hint' \in 0 .. NumClusters
      /\ failed' \in BOOLEAN /\ raced' \in BOOLEAN /\ Go(t, "hint", o)
  BY <1>1, OpFields DEF AdjustCount, disk
<1> HIDE DEF o
<1>5. "hint" \in CountPcs
  BY DEF CountPcs
<1> QED BY <1>1, <1>2, <1>3, <1>4, <1>5, CountMove

\* The test of ulLastFreeCluster.
LEMMA TestHintStep ==
  ASSUME FatInv, NEW t \in Tasks, TestHint(t)
  PROVE  FatInv'
<1>1. TypeOK /\ pc[t] \in CountPcs /\ op[t] \in OpType /\ "seek" \in CountPcs
  BY OpFields DEF FatInv, TestHint, CountPcs
<1>2. Same(op[t], op[t])
  BY DEF Same
<1>3. /\ UNCHANGED <<fat, dirent, stale, lock>>
      /\ hint' \in 0 .. NumClusters /\ count' \in 0 .. CountModulus - 1
      /\ failed' \in BOOLEAN /\ raced' \in BOOLEAN
  BY <1>1, OpFields DEF TestHint, disk
<1>4. CASE Go(t, "seek", op[t]) /\ UNCHANGED lost
  BY <1>1, <1>2, <1>3, <1>4, CountMove
<1>5. CASE Return(t, op[t])
  BY <1>1, <1>2, <1>3, <1>5, ReturnStep
<1> QED BY <1>4, <1>5 DEF TestHint

\* The hint becomes the cluster found, or 0.
LEMMA SeekStep ==
  ASSUME FatInv, NEW t \in Tasks, Seek(t)
  PROVE  FatInv'
<1> DEFINE o == [op[t] EXCEPT !.err = TRUE]
<1>1. TypeOK /\ pc[t] \in CountPcs /\ op[t] \in OpType
  BY OpFields DEF FatInv, Seek, CountPcs
<1>2. Same(op[t], op[t])
  BY DEF Same
<1>3. o \in OpType /\ Same(o, op[t])
  BY <1>1 DEF OpType, Same
<1>4. /\ UNCHANGED <<fat, dirent, stale, lock>> /\ count' \in 0 .. CountModulus - 1
      /\ raced' \in BOOLEAN
  BY <1>1, OpFields DEF Seek, disk
<1>5. hint' \in 0 .. NumClusters /\ failed' \in BOOLEAN
  <2>1. failed' = failed \/ failed' = TRUE
    BY DEF Seek, Fails
  <2>2. hint' \in Usable \/ hint' = 0
    BY DEF Seek
  <2>3. Usable \subseteq 0 .. NumClusters /\ 0 \in 0 .. NumClusters
    BY ValuesDiffer DEF Usable
  <2>4. failed \in BOOLEAN
    BY <1>1, OpFields
  <2> QED BY <2>1, <2>2, <2>3, <2>4
<1>6. Return(t, op[t]) \/ Return(t, o)
  BY DEF Seek
<1> HIDE DEF o
<1> QED BY <1>1, <1>2, <1>3, <1>4, <1>5, <1>6, ReturnStep

-----------------------------------------------------------------------------
(* Steps that leave the FAT and the directory alone.                        *)

\* FF_UnlockFAT after an unlink or a measurement.
LEMMA UnlockStep ==
  ASSUME FatInv, NEW t \in Tasks, Unlock(t)
  PROVE  FatInv'
<1>1. TypeOK /\ pc[t] = "unlock" /\ TaskOK("unlock", op[t], fat, dirent, stale)
      /\ op[t] \in OpType
  BY OpFields DEF FatInv, Unlock, TasksOK
<1>2. /\ UNCHANGED <<fat, dirent, stale, lost>>
      /\ lock' = lock \/ (lock \in {t, None} /\ lock' \in {t, None})
      /\ hint' \in 0 .. NumClusters /\ count' \in 0 .. CountModulus - 1
      /\ failed' \in BOOLEAN /\ raced' \in BOOLEAN
  BY <1>1, OpFields DEF Unlock, disk, history
<1>3. op[t].hand = 0 /\ stale \subseteq Objects
  BY <1>1 DEF TaskOK, Holding, Claiming, CountPcs, TypeOK
<1>4. CASE Freeing(op[t]) /\ ~op[t].err
  <2>1. Go(t, "erase", op[t])
    BY <1>4 DEF Unlock, Frees, Freeing
  <2>2. TaskOK("erase", op[t], fat, dirent, stale)
    BY <1>1, <1>3, <1>4 DEF TaskOK, Holding, Claiming, CountPcs, Freeing
  <2> QED BY <1>1, <1>2, <2>1, <2>2, QuietStep DEF Pcs, LoopPcs
<1>5. CASE ~(Freeing(op[t]) /\ ~op[t].err)
  <2>1. Go(t, "idle", NoOp)
    BY <1>5 DEF Unlock, Frees, Freeing, Finish
  <2>2. TaskOK("idle", NoOp, fat, dirent, stale)
    BY NoOpType, ValuesDiffer DEF TaskOK, Holding, Claiming, Freeing, CountPcs, NoOp
  <2> QED BY <1>2, <1>3, <2>1, <2>2, NoOpType, QuietStep DEF Pcs, LoopPcs
<1> QED BY <1>4, <1>5

\* FF_ExtendDirectory decides on the count.
LEMMA EnoughStep ==
  ASSUME FatInv, NEW t \in Tasks, Enough(t)
  PROVE  FatInv'
<1>1. TypeOK /\ pc[t] = "enough" /\ TaskOK("enough", op[t], fat, dirent, stale)
      /\ op[t] \in OpType
  BY OpFields DEF FatInv, Enough, TasksOK
<1>2. /\ UNCHANGED <<fat, dirent, stale, lost, lock>>
      /\ hint' \in 0 .. NumClusters /\ count' \in 0 .. CountModulus - 1
      /\ failed' \in BOOLEAN /\ raced' \in BOOLEAN
  BY <1>1, OpFields DEF Enough, disk, history
<1>3. op[t].hand = 0
  BY <1>1 DEF TaskOK, Holding, Claiming, CountPcs
<1>4. CASE Go(t, "grow", op[t])
  <2>1. TaskOK("grow", op[t], fat, dirent, stale)
    BY <1>1 DEF TaskOK, Holding, Claiming, CountPcs, Freeing
  <2> QED BY <1>1, <1>2, <1>4, <2>1, QuietStep DEF Pcs, LoopPcs
<1>5. CASE Go(t, "idle", NoOp)
  <2>1. TaskOK("idle", NoOp, fat, dirent, stale)
    BY NoOpType, ValuesDiffer DEF TaskOK, Holding, Claiming, Freeing, CountPcs, NoOp
  <2> QED BY <1>2, <1>3, <1>5, <2>1, NoOpType, QuietStep DEF Pcs, LoopPcs
<1> QED BY <1>4, <1>5 DEF Enough, Finish

\* The chain of a sound entry is in use.
LEMMA ChainIsUsed ==
  ASSUME FatInv, NEW f \in Objects, f \notin stale, dirent[f] \in Clusters,
         NEW c \in Chain(f)
  PROVE  c \in Clusters /\ fat[c] # Free
<1> DEFINE U == {b \in Clusters : fat[b] # Free}
<1>1. U \in SUBSET Clusters /\ dirent[f] \in U
  BY DEF FatInv, Refs, EntryRefs
<1>2. \A b \in U : fat[b] \in Clusters => fat[b] \in U
  BY DEF FatInv, Refs, LinkRefs
<1> HIDE DEF U
<1>3. c \in Clusters /\ c \in U
  BY <1>1, <1>2 DEF Chain
<1> QED BY <1>3 DEF U

\* The lock is taken and the end of the chain found, which is a used entry.
LEMMA BeginGrowStep ==
  ASSUME FatInv, NEW t \in Tasks, BeginGrow(t)
  PROVE  FatInv'
<1>1. TypeOK /\ pc[t] = "grow" /\ TaskOK("grow", op[t], fat, dirent, stale)
      /\ op[t] \in OpType
  BY OpFields DEF FatInv, BeginGrow, TasksOK
<1>2. /\ UNCHANGED <<fat, dirent, stale, lost>>
      /\ lock \in {t, None} /\ lock' = t
      /\ hint' \in 0 .. NumClusters /\ count' \in 0 .. CountModulus - 1
      /\ failed' \in BOOLEAN /\ raced' \in BOOLEAN
  BY <1>1, OpFields DEF BeginGrow, LockIsFree, disk, Fails
<1>3. /\ op[t].hand = 0 /\ op[t].kind = "extend" /\ op[t].left > 0
      /\ Sound(op[t].obj, dirent, stale)
  BY <1>1 DEF TaskOK, Holding, Claiming, CountPcs
<1>4. CASE \E c \in Chain(op[t].obj) :
             /\ IsEnd(fat[c])
             /\ Go(t, "growing", [op[t] EXCEPT !.tail = c, !.done = 0])
  <2> PICK c \in Chain(op[t].obj) :
             /\ IsEnd(fat[c])
             /\ Go(t, "growing", [op[t] EXCEPT !.tail = c, !.done = 0])
    BY <1>4
  <2> DEFINE o == [op[t] EXCEPT !.tail = c, !.done = 0]
  <2>1. c \in Clusters /\ fat[c] # Free
    BY <1>3, ChainIsUsed DEF Sound
  <2>2. fat[c] = EOC
    BY <2>1 DEF IsEnd
  <2>3. o \in OpType
    BY <1>1, <2>1 DEF OpType
  <2>4. o.hand = op[t].hand /\ o.obj = op[t].obj /\ o.kind = op[t].kind
        /\ o.left = op[t].left /\ o.tail = c
    BY <1>1 DEF OpType
  <2> HIDE DEF o
  <2>5. TaskOK("growing", o, fat, dirent, stale)
    BY <1>3, <2>1, <2>2, <2>4 DEF TaskOK, Holding, Claiming, CountPcs, Freeing
  <2>6. Go(t, "growing", o)
    BY DEF o
  <2> QED BY <1>2, <2>3, <2>4, <2>5, <2>6, QuietStep DEF Pcs, LoopPcs
<1>5. CASE Go(t, "grown", [op[t] EXCEPT !.done = 0])
  <2> DEFINE o == [op[t] EXCEPT !.done = 0]
  <2>1. o \in OpType
    BY <1>1 DEF OpType
  <2>2. o.hand = op[t].hand /\ o.obj = op[t].obj /\ o.kind = op[t].kind
    BY <1>1 DEF OpType
  <2> HIDE DEF o
  <2>3. TaskOK("grown", o, fat, dirent, stale)
    BY <1>3, <2>2 DEF TaskOK, Holding, Claiming, CountPcs, Freeing
  <2>4. Go(t, "grown", o)
    BY <1>5 DEF o
  <2> QED BY <1>2, <2>1, <2>2, <2>3, <2>4, QuietStep DEF Pcs, LoopPcs
<1> QED BY <1>4, <1>5 DEF BeginGrow

\* The lock is given back by a file, kept for the count by a directory.
LEMMA EndGrowStep ==
  ASSUME FatInv, NEW t \in Tasks, EndGrow(t)
  PROVE  FatInv'
<1> DEFINE file == op[t].obj \in Files
           o == [op[t] EXCEPT !.tail = 0, !.left = 0, !.why = "less",
                              !.ret = IF file THEN "idle" ELSE "unlock"]
<1>1. TypeOK /\ pc[t] = "grown" /\ TaskOK("grown", op[t], fat, dirent, stale)
      /\ op[t] \in OpType
  BY OpFields DEF FatInv, EndGrow, TasksOK
<1>2. lock = t
  BY <1>1 DEF FatInv, LoopsHaveTheLock, LoopPcs
<1>3. /\ UNCHANGED <<fat, dirent, stale, lost>> /\ lock' \in {t, None}
      /\ hint' \in 0 .. NumClusters /\ count' \in 0 .. CountModulus - 1
      /\ failed' \in BOOLEAN /\ raced' \in BOOLEAN
  BY <1>1, <1>2, OpFields DEF EndGrow, disk, history
<1>4. op[t].hand = 0 /\ op[t].kind = "extend"
  BY <1>1 DEF TaskOK, Holding, Claiming, CountPcs
<1>5. o \in OpType
  BY <1>1 DEF OpType
<1>6. /\ o.hand = op[t].hand /\ o.obj = op[t].obj /\ o.kind = op[t].kind
      /\ o.ret \in {"idle", "unlock"}
  BY <1>1 DEF OpType
<1>7. Go(t, "check", o) \/ Go(t, "unlock", op[t])
  BY DEF EndGrow
<1> HIDE DEF o
<1>8. CASE Go(t, "check", o)
  <2>1. TaskOK("check", o, fat, dirent, stale)
    BY <1>4, <1>6 DEF TaskOK, Holding, Claiming, CountPcs, Freeing
  <2> QED BY <1>2, <1>3, <1>5, <1>6, <1>8, <2>1, QuietStep DEF Pcs, LoopPcs, CountPcs
<1>9. CASE Go(t, "unlock", op[t])
  <2>1. TaskOK("unlock", op[t], fat, dirent, stale)
    BY <1>4 DEF TaskOK, Holding, Claiming, CountPcs, Freeing
  <2> QED BY <1>1, <1>2, <1>3, <1>9, <2>1, QuietStep DEF Pcs, LoopPcs
<1> QED BY <1>7, <1>8, <1>9

-----------------------------------------------------------------------------
(* Steps that change what refers to a cluster.  First the references alone: *)
(* in each lemma one cluster changes hands.                                 *)

\* t now has cluster h in hand; the others have what they had.
HandIs(t, h) == /\ op'[t].hand = h
                /\ \A u \in Tasks \ {t} : op'[u].hand = op[u].hand

RefsType == /\ fat \in [Clusters -> Links]
            /\ dirent \in [Objects -> {None, 0} \cup Clusters]
            /\ stale \subseteq Objects /\ lost \subseteq Clusters

\* A free cluster is named by nothing.
LEMMA FreeIsUnnamed ==
  ASSUME Refs, NEW c \in Clusters, fat[c] = Free
  PROVE  /\ c \notin lost
         /\ \A f \in Objects \ stale : dirent[f] # c
         /\ \A b \in Clusters : fat[b] # c
         /\ \A u \in Tasks : op[u].hand # c
BY DEF Refs, EntryRefs, LinkRefs, HandRefs, LostRefs

\* A free cluster is claimed by t.
LEMMA RefsClaim ==
  ASSUME RefsType, Refs, NEW t \in Tasks, NEW c \in Clusters, fat[c] = Free,
         fat' = [fat EXCEPT ![c] = EOC], op[t].hand = 0, HandIs(t, c),
         UNCHANGED <<dirent, stale, lost>>
  PROVE  Refs'
<1>1. /\ c \notin lost /\ \A f \in Objects \ stale : dirent[f] # c
      /\ \A b \in Clusters : fat[b] # c
      /\ \A u \in Tasks : op[u].hand # c
  BY FreeIsUnnamed
<1>2. fat'[c] = EOC /\ \A b \in Clusters \ {c} : fat'[b] = fat[b]
  BY DEF RefsType
<1>3. EntryRefs'
  BY <1>1, <1>2, ValuesDiffer DEF Refs, EntryRefs, HandIs
<1>4. LinkRefs'
  BY <1>1, <1>2, ValuesDiffer DEF Refs, LinkRefs, HandIs
<1>5. HandRefs'
  BY <1>1, <1>2, ValuesDiffer DEF Refs, HandRefs, HandIs
<1>6. LostRefs'
  BY <1>1, <1>2, ValuesDiffer DEF Refs, LostRefs, RefsType
<1>7. UsedIsNamed'
  <2> SUFFICES ASSUME NEW b \in Clusters, fat'[b] # Free
               PROVE  Named(b)'
    BY DEF UsedIsNamed
  <2>1. CASE b = c
    BY <2>1 DEF Named, HandIs
  <2>2. CASE b # c
    <3>1. Named(b)
      BY <1>2, <2>2 DEF Refs, UsedIsNamed
    <3>2. b # 0 /\ fat[c] # b
      BY ValuesDiffer
    <3> QED BY <3>1, <3>2, <1>2 DEF Named, HandIs
  <2> QED BY <2>1, <2>2
<1> QED BY <1>3, <1>4, <1>5, <1>6, <1>7 DEF Refs

\* A free cluster is marked as used and nobody knows of it.
LEMMA RefsLose ==
  ASSUME RefsType, Refs, NEW c \in Clusters, fat[c] = Free,
         fat' = [fat EXCEPT ![c] = EOC], lost' = lost \cup {c},
         \A u \in Tasks : op'[u].hand = op[u].hand,
         UNCHANGED <<dirent, stale>>
  PROVE  Refs'
<1>1. /\ c \notin lost /\ \A f \in Objects \ stale : dirent[f] # c
      /\ \A b \in Clusters : fat[b] # c
      /\ \A u \in Tasks : op[u].hand # c
  BY FreeIsUnnamed
<1>2. fat'[c] = EOC /\ \A b \in Clusters \ {c} : fat'[b] = fat[b]
  BY DEF RefsType
<1>3. EntryRefs'
  BY <1>1, <1>2, ValuesDiffer DEF Refs, EntryRefs
<1>4. LinkRefs'
  BY <1>1, <1>2, ValuesDiffer DEF Refs, LinkRefs
<1>5. HandRefs'
  BY <1>1, <1>2, ValuesDiffer DEF Refs, HandRefs
<1>6. LostRefs'
  BY <1>1, <1>2, ValuesDiffer DEF Refs, LostRefs, RefsType
<1>7. UsedIsNamed'
  <2> SUFFICES ASSUME NEW b \in Clusters, fat'[b] # Free
               PROVE  Named(b)'
    BY DEF UsedIsNamed
  <2>1. CASE b = c
    BY <2>1 DEF Named
  <2>2. CASE b # c
    <3>1. Named(b)
      BY <1>2, <2>2 DEF Refs, UsedIsNamed
    <3>2. b # 0 /\ fat[c] # b
      BY ValuesDiffer
    <3> QED BY <3>1, <3>2, <1>2 DEF Named
  <2> QED BY <2>1, <2>2
<1> QED BY <1>3, <1>4, <1>5, <1>6, <1>7 DEF Refs

\* A free cluster is linked behind the end of a chain.
LEMMA RefsLink ==
  ASSUME RefsType, Refs, NEW c \in Clusters, fat[c] = Free,
         NEW e \in Clusters, fat[e] = EOC,
         fat' = [fat EXCEPT ![c] = EOC, ![e] = c],
         \A u \in Tasks : op'[u].hand = op[u].hand,
         UNCHANGED <<dirent, stale, lost>>
  PROVE  Refs'
<1>1. /\ c \notin lost /\ \A f \in Objects \ stale : dirent[f] # c
      /\ \A b \in Clusters : fat[b] # c
      /\ \A u \in Tasks : op[u].hand # c
  BY FreeIsUnnamed
<1>2. /\ c # e /\ fat'[c] = EOC /\ fat'[e] = c
      /\ \A b \in Clusters \ {c, e} : fat'[b] = fat[b]
  BY ValuesDiffer DEF RefsType
<1>3. \A b \in Clusters : fat[b] # Free => fat'[b] # Free
  <2> SUFFICES ASSUME NEW b \in Clusters, fat[b] # Free PROVE fat'[b] # Free
    OBVIOUS
  <2> QED BY <1>2, ValuesDiffer
<1>4. EntryRefs'
  <2> SUFFICES ASSUME NEW f \in Objects \ stale, dirent[f] \in Clusters
               PROVE  /\ fat'[dirent[f]] # Free
                      /\ dirent[f] \notin lost
                      /\ \A b \in Clusters : fat'[b] # dirent[f]
                      /\ \A u \in Tasks : op'[u].hand # dirent[f]
                      /\ \A g \in Objects \ stale : dirent[g] = dirent[f] => g = f
    BY DEF EntryRefs
  <2>1. /\ fat[dirent[f]] # Free
        /\ dirent[f] \notin lost
        /\ \A b \in Clusters : fat[b] # dirent[f]
        /\ \A u \in Tasks : op[u].hand # dirent[f]
        /\ \A g \in Objects \ stale : dirent[g] = dirent[f] => g = f
    BY DEF Refs, EntryRefs
  <2>2. dirent[f] # c /\ dirent[f] # EOC
    BY <1>1, ValuesDiffer
  <2>3. \A b \in Clusters : fat'[b] # dirent[f]
    BY <1>2, <2>1, <2>2
  <2> QED BY <1>3, <2>1, <2>3
<1>5. LinkRefs'
  <2> SUFFICES ASSUME NEW b \in Clusters, fat'[b] \in Clusters
               PROVE  /\ fat'[fat'[b]] # Free
                      /\ fat'[b] \notin lost'
                      /\ \A u \in Tasks : op'[u].hand # fat'[b]
                      /\ \A a \in Clusters : fat'[a] = fat'[b] => a = b
    BY DEF LinkRefs
  <2>1. CASE b = e
    <3>1. fat'[b] = c /\ fat'[c] # Free /\ EOC # c
      BY <1>2, <2>1, ValuesDiffer
    <3>2. \A a \in Clusters : fat'[a] = c => a = e
      BY <1>1, <1>2, <3>1
    <3>3. fat'[fat'[b]] # Free
      BY <3>1
    <3>4. fat'[b] \notin lost'
      BY <1>1, <3>1
    <3>5. \A u \in Tasks : op'[u].hand # fat'[b]
      BY <1>1, <3>1
    <3>6. \A a \in Clusters : fat'[a] = fat'[b] => a = b
      BY <2>1, <3>1, <3>2
    <3> QED BY <3>3, <3>4, <3>5, <3>6
  <2>2. CASE b # e
    <3>1. b # c /\ fat'[b] = fat[b] /\ fat[b] # c
      BY <1>1, <1>2, <2>2, ValuesDiffer
    <3>2. /\ fat[fat[b]] # Free
          /\ fat[b] \notin lost
          /\ \A u \in Tasks : op[u].hand # fat[b]
          /\ \A a \in Clusters : fat[a] = fat[b] => a = b
      BY <3>1 DEF Refs, LinkRefs
    <3>3. fat[b] # EOC
      BY <3>1, ValuesDiffer
    <3>4. \A a \in Clusters : fat'[a] = fat[b] => a = b
      BY <1>2, <3>1, <3>2, <3>3
    <3>5. fat'[fat'[b]] # Free
      BY <1>3, <3>1, <3>2
    <3>6. fat'[b] \notin lost'
      BY <3>1, <3>2
    <3>7. \A u \in Tasks : op'[u].hand # fat'[b]
      BY <3>1, <3>2
    <3>8. \A a \in Clusters : fat'[a] = fat'[b] => a = b
      BY <3>1, <3>4
    <3> QED BY <3>5, <3>6, <3>7, <3>8
  <2> QED BY <2>1, <2>2
<1>6. HandRefs'
  BY <1>3 DEF Refs, HandRefs
<1>7. LostRefs'
  BY <1>1, <1>2, <1>3, ValuesDiffer DEF Refs, LostRefs, RefsType
<1>8. UsedIsNamed'
  <2> SUFFICES ASSUME NEW b \in Clusters, fat'[b] # Free
               PROVE  Named(b)'
    BY DEF UsedIsNamed
  <2>1. CASE b = c
    BY <1>2, <2>1 DEF Named
  <2>2. CASE b # c
    <3>1. fat[b] # Free
      BY <1>2, <2>2, ValuesDiffer
    <3>2. Named(b)
      BY <3>1 DEF Refs, UsedIsNamed
    <3>3. fat[c] # b /\ fat[e] # b
      BY ValuesDiffer
    <3> QED BY <3>2, <3>3, <1>2 DEF Named
  <2> QED BY <2>1, <2>2
<1> QED BY <1>4, <1>5, <1>6, <1>7, <1>8 DEF Refs

\* The cluster t has becomes the first cluster of f.
LEMMA RefsEnter ==
  ASSUME RefsType, Refs, NEW t \in Tasks, NEW f \in Objects, f \notin stale,
         dirent[f] \notin Clusters, op[t].hand \in Clusters,
         dirent' = [dirent EXCEPT ![f] = op[t].hand], HandIs(t, 0),
         UNCHANGED <<fat, stale, lost>>
  PROVE  Refs'
<1> DEFINE c == op[t].hand
<1>1. /\ fat[c] # Free /\ c \notin lost
      /\ \A u \in Tasks \ {t} : op[u].hand # c
      /\ \A b \in Clusters : fat[b] # c
      /\ \A g \in Objects \ stale : dirent[g] # c
  BY DEF Refs, EntryRefs, LinkRefs, HandRefs
<1>2. dirent'[f] = c /\ \A g \in Objects \ {f} : dirent'[g] = dirent[g]
  BY DEF RefsType
<1>3. op'[t].hand = 0 /\ \A u \in Tasks \ {t} : op'[u].hand = op[u].hand
  BY DEF HandIs
<1>4. c \in Clusters /\ 0 \notin Clusters
  BY ValuesDiffer
<1> HIDE DEF c
<1>5. EntryRefs'
  <2> SUFFICES ASSUME NEW g \in Objects \ stale, dirent'[g] \in Clusters
               PROVE  /\ fat[dirent'[g]] # Free
                      /\ dirent'[g] \notin lost
                      /\ \A b \in Clusters : fat[b] # dirent'[g]
                      /\ \A u \in Tasks : op'[u].hand # dirent'[g]
                      /\ \A h \in Objects \ stale : dirent'[h] = dirent'[g] => h = g
    BY DEF EntryRefs
  <2>1. CASE g = f
    BY <1>1, <1>2, <1>3, <1>4, <2>1
  <2>2. CASE g # f
    <3>1. dirent'[g] = dirent[g] /\ dirent[g] # c
      BY <1>1, <1>2, <2>2
    <3> QED BY <1>2, <1>3, <1>4, <3>1 DEF Refs, EntryRefs
  <2> QED BY <2>1, <2>2
<1>6. LinkRefs'
  BY <1>3, <1>4 DEF Refs, LinkRefs
<1>7. HandRefs'
  BY <1>3, <1>4 DEF Refs, HandRefs
<1>8. LostRefs'
  BY DEF Refs, LostRefs
<1>9. UsedIsNamed'
  <2> SUFFICES ASSUME NEW b \in Clusters, fat[b] # Free
               PROVE  Named(b)'
    BY DEF UsedIsNamed
  <2>1. Named(b)
    BY DEF Refs, UsedIsNamed
  <2>2. CASE b = c
    BY <1>2, <2>2 DEF Named
  <2>3. CASE b # c
    <3>1. op[t].hand # b /\ dirent[f] # b
      BY <2>3 DEF c
    <3> QED BY <2>1, <3>1, <1>2, <1>3 DEF Named
  <2> QED BY <2>2, <2>3
<1> QED BY <1>5, <1>6, <1>7, <1>8, <1>9 DEF Refs

\* The entry of f no longer counts; t has its cluster in hand, before it or
\* from now on.
LEMMA RefsStale ==
  ASSUME RefsType, Refs, NEW t \in Tasks, NEW f \in Objects, NEW c,
         HandIs(t, c), stale' = stale \cup {f},
         \A g \in Objects \ {f} : dirent'[g] = dirent[g],
         \/ op[t].hand = 0 /\ f \notin stale /\ c = dirent[f] /\ c \in Clusters
         \/ op[t].hand = c /\ (f \notin stale => dirent[f] \notin Clusters),
         UNCHANGED <<fat, lost>>
  PROVE  Refs'
<1>1. op'[t].hand = c /\ \A u \in Tasks \ {t} : op'[u].hand = op[u].hand
  BY DEF HandIs
<1>2. 0 \notin Clusters
  BY ValuesDiffer
<1>3. EntryRefs'
  <2> SUFFICES ASSUME NEW g \in Objects \ stale', dirent'[g] \in Clusters
               PROVE  /\ fat[dirent'[g]] # Free
                      /\ dirent'[g] \notin lost
                      /\ \A b \in Clusters : fat[b] # dirent'[g]
                      /\ \A u \in Tasks : op'[u].hand # dirent'[g]
                      /\ \A h \in Objects \ stale' : dirent'[h] = dirent'[g] => h = g
    BY DEF EntryRefs
  <2>1. g \in Objects \ stale /\ g # f /\ dirent'[g] = dirent[g]
    OBVIOUS
  <2>2. /\ fat[dirent[g]] # Free /\ dirent[g] \notin lost
        /\ \A b \in Clusters : fat[b] # dirent[g]
        /\ \A u \in Tasks : op[u].hand # dirent[g]
        /\ \A h \in Objects \ stale : dirent[h] = dirent[g] => h = g
    BY <2>1 DEF Refs, EntryRefs
  <2>3. c # dirent[g]
    BY <2>1, <2>2
  <2> QED BY <1>1, <2>1, <2>2, <2>3
<1>4. LinkRefs'
  <2> SUFFICES ASSUME NEW b \in Clusters, fat[b] \in Clusters
               PROVE  /\ fat[fat[b]] # Free /\ fat[b] \notin lost
                      /\ \A u \in Tasks : op'[u].hand # fat[b]
                      /\ \A a \in Clusters : fat[a] = fat[b] => a = b
    BY DEF LinkRefs
  <2>1. /\ fat[fat[b]] # Free /\ fat[b] \notin lost
        /\ \A u \in Tasks : op[u].hand # fat[b]
        /\ \A a \in Clusters : fat[a] = fat[b] => a = b
    BY DEF Refs, LinkRefs
  <2>2. c # fat[b]
    BY <2>1 DEF Refs, EntryRefs
  <2> QED BY <1>1, <2>1, <2>2
<1>5. HandRefs'
  <2>1. c \in Clusters => fat[c] # Free /\ c \notin lost
                          /\ \A u \in Tasks \ {t} : op[u].hand # c
    BY DEF Refs, EntryRefs, HandRefs
  <2> QED BY <1>1, <2>1 DEF Refs, HandRefs
<1>6. LostRefs'
  BY DEF Refs, LostRefs
<1>7. UsedIsNamed'
  <2> SUFFICES ASSUME NEW b \in Clusters, fat[b] # Free
               PROVE  Named(b)'
    BY DEF UsedIsNamed
  <2>1. Named(b)
    BY DEF Refs, UsedIsNamed
  <2>2. CASE \E g \in Objects \ stale : dirent[g] = b
    <3> PICK g \in Objects \ stale : dirent[g] = b
      BY <2>2
    <3>1. CASE g = f
      BY <1>1, <3>1 DEF Named
    <3>2. CASE g # f
      BY <3>2 DEF Named
    <3> QED BY <3>1, <3>2
  <2>3. CASE \E u \in Tasks : op[u].hand = b
    BY <1>1, <1>2, <2>3 DEF Named
  <2>4. CASE (\E a \in Clusters : fat[a] = b) \/ b \in lost
    BY <2>4 DEF Named
  <2> QED BY <2>1, <2>2, <2>3, <2>4 DEF Named
<1> QED BY <1>3, <1>4, <1>5, <1>6, <1>7 DEF Refs

\* An entry without a cluster, or one that did not count, changes.
LEMMA RefsErase ==
  ASSUME RefsType, Refs, NEW f \in Objects, NEW e, e \notin Clusters,
         f \in stale \/ dirent[f] \notin Clusters,
         \/ dirent' = [dirent EXCEPT ![f] = e] /\ stale' = stale \ {f}
         \/ UNCHANGED <<dirent, stale>>,
         \A u \in Tasks : op'[u].hand = op[u].hand, UNCHANGED <<fat, lost>>
  PROVE  Refs'
<1>1. /\ \A g \in Objects \ {f} : dirent'[g] = dirent[g] /\ (g \in stale' <=> g \in stale)
      /\ f \in stale' \/ dirent'[f] \notin Clusters
  BY DEF RefsType
<1>2. EntryRefs'
  <2> SUFFICES ASSUME NEW g \in Objects \ stale', dirent'[g] \in Clusters
               PROVE  /\ fat[dirent'[g]] # Free
                      /\ dirent'[g] \notin lost
                      /\ \A b \in Clusters : fat[b] # dirent'[g]
                      /\ \A u \in Tasks : op'[u].hand # dirent'[g]
                      /\ \A h \in Objects \ stale' : dirent'[h] = dirent'[g] => h = g
    BY DEF EntryRefs
  <2>1. g # f /\ g \in Objects \ stale /\ dirent'[g] = dirent[g]
    BY <1>1
  <2>2. /\ fat[dirent[g]] # Free /\ dirent[g] \notin lost
        /\ \A b \in Clusters : fat[b] # dirent[g]
        /\ \A u \in Tasks : op[u].hand # dirent[g]
        /\ \A h \in Objects \ stale : dirent[h] = dirent[g] => h = g
    BY <2>1 DEF Refs, EntryRefs
  <2>3. \A h \in Objects \ stale' : dirent'[h] = dirent'[g] => h = g
    BY <1>1, <2>1, <2>2
  <2> QED BY <2>1, <2>2, <2>3
<1>3. LinkRefs' /\ HandRefs' /\ LostRefs'
  BY DEF Refs, LinkRefs, HandRefs, LostRefs
<1>4. UsedIsNamed'
  <2> SUFFICES ASSUME NEW b \in Clusters, fat[b] # Free
               PROVE  Named(b)'
    BY DEF UsedIsNamed
  <2>1. Named(b)
    BY DEF Refs, UsedIsNamed
  <2>2. CASE \E g \in Objects \ stale : dirent[g] = b
    BY <1>1, <2>2 DEF Named
  <2>3. CASE ~\E g \in Objects \ stale : dirent[g] = b
    BY <2>1, <2>3 DEF Named
  <2> QED BY <2>2, <2>3
<1> QED BY <1>2, <1>3, <1>4 DEF Refs

\* The link of c goes: d, the cluster it named, is now in t's hand or is lost.
PassedOn(t, d) ==
  \/ d \notin Clusters /\ HandIs(t, 0) /\ lost' = lost
  \/ d \in Clusters /\ HandIs(t, d) /\ lost' = lost
  \/ d \in Clusters /\ HandIs(t, 0) /\ lost' = lost \cup {d}

\* The cluster t has is freed.
LEMMA RefsFree ==
  ASSUME RefsType, Refs, NEW t \in Tasks, op[t].hand \in Clusters,
         fat' = [fat EXCEPT ![op[t].hand] = Free], PassedOn(t, fat[op[t].hand]),
         UNCHANGED <<dirent, stale>>
  PROVE  Refs'
<1> DEFINE c == op[t].hand
           d == fat[c]
<1>1. /\ fat[c] # Free /\ c \notin lost
      /\ \A u \in Tasks \ {t} : op[u].hand # c
      /\ \A b \in Clusters : fat[b] # c
      /\ \A g \in Objects \ stale : dirent[g] # c
  BY DEF Refs, EntryRefs, LinkRefs, HandRefs
<1>2. d \in Clusters =>
        /\ fat[d] # Free /\ d \notin lost /\ d # c
        /\ \A u \in Tasks : op[u].hand # d
        /\ \A b \in Clusters : fat[b] = d => b = c
        /\ \A g \in Objects \ stale : dirent[g] # d
  BY <1>1 DEF Refs, EntryRefs, LinkRefs
<1>3. fat'[c] = Free /\ \A b \in Clusters \ {c} : fat'[b] = fat[b]
  BY DEF RefsType
<1>4. c \in Clusters /\ 0 \notin Clusters /\ Free \notin Clusters
  BY ValuesDiffer
<1>5. /\ \A u \in Tasks \ {t} : op'[u].hand = op[u].hand
      /\ op'[t].hand \in {0, d} /\ (op'[t].hand = d => d \in Clusters \/ d = 0)
      /\ lost' = lost \/ (d \in Clusters /\ lost' = lost \cup {d} /\ op'[t].hand = 0)
      /\ d \in Clusters => op'[t].hand = d \/ d \in lost'
  BY DEF PassedOn, HandIs
<1>6. op[t].hand = c
  OBVIOUS
<1> HIDE DEF c, d
<1>7. EntryRefs'
  <2> SUFFICES ASSUME NEW g \in Objects \ stale, dirent[g] \in Clusters
               PROVE  /\ fat'[dirent[g]] # Free
                      /\ dirent[g] \notin lost'
                      /\ \A b \in Clusters : fat'[b] # dirent[g]
                      /\ \A u \in Tasks : op'[u].hand # dirent[g]
                      /\ \A h \in Objects \ stale : dirent[h] = dirent[g] => h = g
    BY DEF EntryRefs
  <2>1. /\ fat[dirent[g]] # Free /\ dirent[g] \notin lost
        /\ \A b \in Clusters : fat[b] # dirent[g]
        /\ \A u \in Tasks : op[u].hand # dirent[g]
        /\ \A h \in Objects \ stale : dirent[h] = dirent[g] => h = g
    BY DEF Refs, EntryRefs
  <2>2. dirent[g] # c /\ dirent[g] # d /\ dirent[g] # Free /\ dirent[g] # 0
    BY <1>1, <1>2, <1>4
  <2>3. \A b \in Clusters : fat'[b] # dirent[g]
    BY <1>3, <2>1, <2>2
  <2>4. \A u \in Tasks : op'[u].hand # dirent[g]
    BY <1>5, <2>1, <2>2
  <2> QED BY <1>3, <1>5, <2>1, <2>2, <2>3, <2>4
<1>8. LinkRefs'
  <2> SUFFICES ASSUME NEW b \in Clusters, fat'[b] \in Clusters
               PROVE  /\ fat'[fat'[b]] # Free /\ fat'[b] \notin lost'
                      /\ \A u \in Tasks : op'[u].hand # fat'[b]
                      /\ \A a \in Clusters : fat'[a] = fat'[b] => a = b
    BY DEF LinkRefs
  <2> DEFINE e == fat[b]
  <2>1. b # c /\ fat'[b] = e /\ e \in Clusters
    BY <1>3, <1>4
  <2>2. /\ fat[e] # Free /\ e \notin lost
        /\ \A u \in Tasks : op[u].hand # e
        /\ \A a \in Clusters : fat[a] = e => a = b
    BY <2>1 DEF Refs, LinkRefs
  <2>3. e # c /\ e # d /\ e # 0 /\ e # Free
    BY <1>1, <1>2, <1>4, <2>1
  <2> HIDE DEF e
  <2>4. fat'[e] # Free /\ e \notin lost'
    BY <1>3, <1>5, <2>1, <2>2, <2>3
  <2>5. \A u \in Tasks : op'[u].hand # e
    BY <1>5, <2>2, <2>3
  <2>6. \A a \in Clusters : fat'[a] = e => a = b
    BY <1>3, <2>2, <2>3
  <2> QED BY <2>1, <2>4, <2>5, <2>6
<1>9. HandRefs'
  <2> SUFFICES ASSUME NEW u \in Tasks, op'[u].hand \in Clusters
               PROVE  /\ fat'[op'[u].hand] # Free
                      /\ op'[u].hand \notin lost'
                      /\ \A v \in Tasks : op'[v].hand = op'[u].hand => v = u
    BY DEF HandRefs
  <2>1. CASE u = t
    <3>1. op'[u].hand = d /\ d \in Clusters /\ lost' = lost
      BY <1>4, <1>5, <2>1
    <3>2. fat'[d] # Free /\ d \notin lost
      BY <1>2, <1>3, <3>1
    <3>3. \A v \in Tasks : op'[v].hand = d => v = t
      BY <1>2, <1>5, <3>1
    <3> QED BY <2>1, <3>1, <3>2, <3>3
  <2>2. CASE u # t
    <3>1. op'[u].hand = op[u].hand /\ op[u].hand \in Clusters
      BY <1>5, <2>2
    <3>2. /\ fat[op[u].hand] # Free /\ op[u].hand \notin lost
          /\ \A v \in Tasks : op[v].hand = op[u].hand => v = u
      BY <3>1 DEF Refs, HandRefs
    <3>3. op[u].hand # c /\ op[u].hand # d /\ op[u].hand # 0
      BY <1>1, <1>2, <1>4, <2>2, <3>1
    <3>4. fat'[op[u].hand] # Free /\ op[u].hand \notin lost'
      BY <1>3, <1>5, <3>1, <3>2, <3>3
    <3>5. \A v \in Tasks : op'[v].hand = op[u].hand => v = u
      BY <1>5, <3>2, <3>3
    <3> QED BY <3>1, <3>4, <3>5
  <2> QED BY <2>1, <2>2
<1>10. LostRefs'
  <2> SUFFICES ASSUME NEW b \in lost' PROVE fat'[b] # Free
    BY DEF LostRefs
  <2>1. CASE b \in lost
    <3>1. b \in Clusters /\ b # c /\ fat[b] # Free
      BY <1>1, <2>1 DEF RefsType, Refs, LostRefs
    <3> QED BY <1>3, <3>1
  <2>2. CASE b \notin lost
    <3>1. b = d /\ d \in Clusters
      BY <1>5, <2>2
    <3> QED BY <1>2, <1>3, <3>1
  <2> QED BY <2>1, <2>2
<1>11. UsedIsNamed'
  <2> SUFFICES ASSUME NEW b \in Clusters, fat'[b] # Free
               PROVE  Named(b)'
    BY DEF UsedIsNamed
  <2>1. b # c /\ fat[b] # Free
    BY <1>3
  <2>2. Named(b)
    BY <2>1 DEF Refs, UsedIsNamed
  <2>3. CASE b = d
    BY <1>5, <2>3 DEF Named
  <2>4. CASE \E a \in Clusters : fat[a] = b
    <3> PICK a \in Clusters : fat[a] = b
      BY <2>4
    <3>1. CASE a = c
      BY <2>3, <3>1 DEF d
    <3>2. CASE a # c
      BY <1>3, <3>2 DEF Named
    <3> QED BY <3>1, <3>2
  <2>5. CASE \E u \in Tasks : op[u].hand = b
    <3> PICK u \in Tasks : op[u].hand = b
      BY <2>5
    <3>1. u # t
      BY <1>6, <2>1
    <3> QED BY <1>5, <3>1 DEF Named
  <2>6. CASE b \in lost \/ \E g \in Objects \ stale : dirent[g] = b
    BY <1>5, <2>6 DEF Named
  <2> QED BY <2>2, <2>3, <2>4, <2>5, <2>6 DEF Named
<1> QED BY <1>7, <1>8, <1>9, <1>10, <1>11 DEF Refs

\* c becomes the end of its chain.
LEMMA RefsCut ==
  ASSUME RefsType, Refs, NEW t \in Tasks, op[t].hand = 0,
         NEW c \in Clusters, fat[c] \in Clusters,
         fat' = [fat EXCEPT ![c] = EOC], PassedOn(t, fat[c]),
         UNCHANGED <<dirent, stale>>
  PROVE  Refs'
<1> DEFINE d == fat[c]
<1>1. /\ d \in Clusters /\ fat[d] # Free /\ d \notin lost
      /\ \A u \in Tasks : op[u].hand # d
      /\ \A b \in Clusters : fat[b] = d => b = c
      /\ \A g \in Objects \ stale : dirent[g] # d
  BY DEF Refs, EntryRefs, LinkRefs
<1>2. fat'[c] = EOC /\ \A b \in Clusters \ {c} : fat'[b] = fat[b]
  BY DEF RefsType
<1>3. 0 \notin Clusters /\ Free \notin Clusters /\ EOC \notin Clusters /\ EOC # Free
  BY ValuesDiffer
<1>4. /\ \A u \in Tasks \ {t} : op'[u].hand = op[u].hand
      /\ \/ op'[t].hand = d /\ lost' = lost
         \/ op'[t].hand = 0 /\ lost' = lost \cup {d}
  BY <1>1 DEF PassedOn, HandIs
<1>5. \A b \in Clusters : fat[b] # Free => fat'[b] # Free
  BY <1>2, <1>3
<1> HIDE DEF d
<1>6. EntryRefs'
  <2> SUFFICES ASSUME NEW g \in Objects \ stale, dirent[g] \in Clusters
               PROVE  /\ fat'[dirent[g]] # Free
                      /\ dirent[g] \notin lost'
                      /\ \A b \in Clusters : fat'[b] # dirent[g]
                      /\ \A u \in Tasks : op'[u].hand # dirent[g]
                      /\ \A h \in Objects \ stale : dirent[h] = dirent[g] => h = g
    BY DEF EntryRefs
  <2>1. /\ fat[dirent[g]] # Free /\ dirent[g] \notin lost
        /\ \A b \in Clusters : fat[b] # dirent[g]
        /\ \A u \in Tasks : op[u].hand # dirent[g]
        /\ \A h \in Objects \ stale : dirent[h] = dirent[g] => h = g
    BY DEF Refs, EntryRefs
  <2>2. dirent[g] # d /\ dirent[g] # EOC /\ dirent[g] # 0
    BY <1>1, <1>3
  <2>3. \A b \in Clusters : fat'[b] # dirent[g]
    BY <1>2, <2>1, <2>2
  <2>4. \A u \in Tasks : op'[u].hand # dirent[g]
    BY <1>4, <2>1, <2>2
  <2> QED BY <1>4, <1>5, <2>1, <2>2, <2>3, <2>4
<1>7. LinkRefs'
  <2> SUFFICES ASSUME NEW b \in Clusters, fat'[b] \in Clusters
               PROVE  /\ fat'[fat'[b]] # Free /\ fat'[b] \notin lost'
                      /\ \A u \in Tasks : op'[u].hand # fat'[b]
                      /\ \A a \in Clusters : fat'[a] = fat'[b] => a = b
    BY DEF LinkRefs
  <2> DEFINE e == fat[b]
  <2>1. b # c /\ fat'[b] = e /\ e \in Clusters
    BY <1>2, <1>3
  <2>2. /\ fat[e] # Free /\ e \notin lost
        /\ \A u \in Tasks : op[u].hand # e
        /\ \A a \in Clusters : fat[a] = e => a = b
    BY <2>1 DEF Refs, LinkRefs
  <2>3. e # d /\ e # 0 /\ e # EOC
    BY <1>1, <1>3, <2>1
  <2> HIDE DEF e
  <2>4. fat'[e] # Free /\ e \notin lost'
    BY <1>4, <1>5, <2>1, <2>2, <2>3
  <2>5. \A u \in Tasks : op'[u].hand # e
    BY <1>4, <2>2, <2>3
  <2>6. \A a \in Clusters : fat'[a] = e => a = b
    BY <1>2, <2>2, <2>3
  <2> QED BY <2>1, <2>4, <2>5, <2>6
<1>8. HandRefs'
  <2> SUFFICES ASSUME NEW u \in Tasks, op'[u].hand \in Clusters
               PROVE  /\ fat'[op'[u].hand] # Free
                      /\ op'[u].hand \notin lost'
                      /\ \A v \in Tasks : op'[v].hand = op'[u].hand => v = u
    BY DEF HandRefs
  <2>1. CASE u = t
    <3>1. op'[u].hand = d /\ lost' = lost
      BY <1>3, <1>4, <2>1
    <3>2. \A v \in Tasks : op'[v].hand = d => v = t
      BY <1>1, <1>4
    <3> QED BY <1>1, <1>5, <2>1, <3>1, <3>2
  <2>2. CASE u # t
    <3>1. op'[u].hand = op[u].hand /\ op[u].hand \in Clusters
      BY <1>4, <2>2
    <3>2. /\ fat[op[u].hand] # Free /\ op[u].hand \notin lost
          /\ \A v \in Tasks : op[v].hand = op[u].hand => v = u
      BY <3>1 DEF Refs, HandRefs
    <3>3. op[u].hand # d /\ op[u].hand # 0
      BY <1>1, <1>3, <3>1
    <3>4. fat'[op[u].hand] # Free /\ op[u].hand \notin lost'
      BY <1>4, <1>5, <3>1, <3>2, <3>3
    <3>5. \A v \in Tasks : op'[v].hand = op[u].hand => v = u
      BY <1>4, <3>2, <3>3
    <3> QED BY <3>1, <3>4, <3>5
  <2> QED BY <2>1, <2>2
<1>9. LostRefs'
  BY <1>1, <1>4, <1>5 DEF RefsType, Refs, LostRefs
<1>10. UsedIsNamed'
  <2> SUFFICES ASSUME NEW b \in Clusters, fat'[b] # Free
               PROVE  Named(b)'
    BY DEF UsedIsNamed
  <2>1. fat[b] # Free
    BY <1>1, <1>2, <1>3 DEF d
  <2>2. Named(b)
    BY <2>1 DEF Refs, UsedIsNamed
  <2>3. CASE b = d
    BY <1>4, <2>3 DEF Named
  <2>4. CASE \E a \in Clusters : fat[a] = b
    <3> PICK a \in Clusters : fat[a] = b
      BY <2>4
    <3>1. CASE a = c
      BY <2>3, <3>1 DEF d
    <3>2. CASE a # c
      BY <1>2, <3>2 DEF Named
    <3> QED BY <3>1, <3>2
  <2>5. CASE \E u \in Tasks : op[u].hand = b
    <3> PICK u \in Tasks : op[u].hand = b
      BY <2>5
    <3>1. u # t
      BY <1>3
    <3> QED BY <1>4, <3>1 DEF Named
  <2>6. CASE b \in lost \/ \E g \in Objects \ stale : dirent[g] = b
    BY <1>4, <2>6 DEF Named
  <2> QED BY <2>2, <2>3, <2>4, <2>5, <2>6 DEF Named
<1> QED BY <1>6, <1>7, <1>8, <1>9, <1>10 DEF Refs

\* t lets go of its cluster: the stale entry f names it again, or it is lost.
LEMMA RefsDrop ==
  ASSUME RefsType, Refs, NEW t \in Tasks, op[t].hand \in Clusters, HandIs(t, 0),
         \/ /\ lost' = lost
            /\ \E f \in stale : dirent[f] = op[t].hand /\ stale' = stale \ {f}
         \/ lost' = lost \cup {op[t].hand} /\ stale' = stale,
         UNCHANGED <<fat, dirent>>
  PROVE  Refs'
<1> DEFINE c == op[t].hand
<1>1. /\ c \in Clusters /\ fat[c] # Free /\ c \notin lost
      /\ \A u \in Tasks \ {t} : op[u].hand # c
      /\ \A b \in Clusters : fat[b] # c
      /\ \A g \in Objects \ stale : dirent[g] # c
  BY DEF Refs, EntryRefs, LinkRefs, HandRefs
<1>2. op'[t].hand = 0 /\ \A u \in Tasks \ {t} : op'[u].hand = op[u].hand
  BY DEF HandIs
<1>3. 0 \notin Clusters
  BY ValuesDiffer
<1>4. /\ \A g \in Objects \ stale' : g \in stale => dirent[g] = c
      /\ \A g, h \in Objects \ stale' : g \in stale /\ h \in stale => g = h
      /\ \A g \in Objects \ stale : g \notin stale'
      /\ lost' \subseteq lost \cup {c} /\ lost \subseteq lost'
      /\ c \in lost' \/ \E g \in Objects \ stale' : dirent[g] = c
      /\ c \in lost' => \A g \in Objects \ stale' : g \notin stale
  BY <1>1 DEF RefsType
<1>5. op[t].hand = c
  OBVIOUS
<1> HIDE DEF c
<1>6. EntryRefs'
  <2> SUFFICES ASSUME NEW g \in Objects \ stale', dirent[g] \in Clusters
               PROVE  /\ fat[dirent[g]] # Free
                      /\ dirent[g] \notin lost'
                      /\ \A b \in Clusters : fat[b] # dirent[g]
                      /\ \A u \in Tasks : op'[u].hand # dirent[g]
                      /\ \A h \in Objects \ stale' : dirent[h] = dirent[g] => h = g
    BY DEF EntryRefs
  <2>1. CASE g \in stale
    BY <1>1, <1>2, <1>3, <1>4, <2>1
  <2>2. CASE g \notin stale
    BY <1>1, <1>2, <1>3, <1>4, <2>2 DEF Refs, EntryRefs
  <2> QED BY <2>1, <2>2
<1>7. LinkRefs'
  BY <1>1, <1>2, <1>3, <1>4 DEF Refs, LinkRefs
<1>8. HandRefs'
  BY <1>1, <1>2, <1>3, <1>4 DEF Refs, HandRefs
<1>9. LostRefs'
  BY <1>1, <1>4 DEF Refs, LostRefs
<1>10. UsedIsNamed'
  <2> SUFFICES ASSUME NEW b \in Clusters, fat[b] # Free
               PROVE  Named(b)'
    BY DEF UsedIsNamed
  <2>1. Named(b)
    BY DEF Refs, UsedIsNamed
  <2>2. CASE b = c
    BY <1>4, <2>2 DEF Named
  <2>3. CASE b # c
    <3>1. op[t].hand # b
      BY <1>5, <2>3
    <3> QED BY <1>2, <1>4, <2>1, <3>1 DEF Named
  <2> QED BY <2>2, <2>3
<1> QED BY <1>6, <1>7, <1>8, <1>9, <1>10 DEF Refs

-----------------------------------------------------------------------------
(* The actions that change a reference.                                     *)

\* A step that changes the FAT or the directory keeps FatInv if it keeps the
\* references and what is known of its own task and of the others.
LEMMA LoudStep ==
  ASSUME FatInv, NEW t \in Tasks, NEW p \in Pcs, NEW o \in OpType, Go(t, p, o),
         o.obj = op[t].obj \/ o.obj = None,
         \A f \in Objects \ {op[t].obj} :
           dirent'[f] = dirent[f] /\ (f \in stale' <=> f \in stale),
         fat' = fat \/ lock \in {t, None},
         lock' = lock \/ (lock \in {t, None} /\ lock' \in {t, None}),
         p \in LoopPcs => lock' = t,
         TaskOK(p, o, fat', dirent', stale'),
         RestType', Refs', DirectoriesHaveAChain'
  PROVE  FatInv'
<1>1. stale' \subseteq Objects
  BY DEF RestType
<1>2. /\ pc' \in [Tasks -> Pcs] /\ op' \in [Tasks -> OpType]
      /\ OneTaskPerObject' /\ LoopsHaveTheLock' /\ TasksOK'
  BY <1>1, OthersKeep
<1>3. TypeOK'
  BY <1>2, TypeParts DEF TypeOK, RestType, Pcs, CountPcs, LoopPcs
<1> QED BY <1>2, <1>3 DEF FatInv

\* What FatInv says of t, in parts.
LEMMA TaskFacts ==
  ASSUME FatInv, NEW t \in Tasks
  PROVE  /\ TypeOK /\ RestType /\ RefsType /\ Refs /\ DirectoriesHaveAChain
         /\ TaskOK(pc[t], op[t], fat, dirent, stale) /\ op[t] \in OpType
         /\ Free \in Links /\ EOC \in Links /\ Clusters \subseteq Links
         /\ \A c \in Usable : c + 1 \in 0 .. NumClusters
         /\ Usable \subseteq Clusters
<1>1. TypeOK /\ RestType /\ Refs /\ DirectoriesHaveAChain
      /\ TaskOK(pc[t], op[t], fat, dirent, stale)
  BY TypeParts DEF FatInv, TasksOK
<1>2. RefsType
  BY <1>1 DEF RestType, RefsType
<1>3. \A c \in Usable : c + 1 \in 0 .. NumClusters
  BY ValuesDiffer DEF Usable
<1> QED BY <1>1, <1>2, <1>3, OpFields, ValuesDiffer DEF Links

\* The record of a task that has done nothing is sound.
LEMMA IdleIsOK ==
  ASSUME NEW F, NEW D, NEW S
  PROVE  TaskOK("idle", NoOp, F, D, S)
BY NoOpType, ValuesDiffer DEF TaskOK, Holding, Claiming, Freeing, CountPcs, NoOp

\* A claim that fails: nothing has changed but the hint, or a cluster is lost.
LEMMA ClaimFailsKeeps ==
  ASSUME RestType, Refs, ClaimFails, UNCHANGED <<count, dirent, stale, raced>>,
         lock' \in Tasks \cup {None},
         \A u \in Tasks : op'[u].hand = op[u].hand
  PROVE  RestType' /\ Refs'
<1>1. failed' = TRUE /\ Usable \subseteq Clusters /\ EOC \in Links
  BY ValuesDiffer DEF ClaimFails, Fails, Links
<1>2. CASE UNCHANGED <<fat, hint, lost>>
  BY <1>1, <1>2, RefsKept DEF RestType
<1>3. CASE \E c \in Usable :
          /\ ClaimIn(c)
          /\ \/ UNCHANGED <<fat, lost>>
             \/ fat' = [fat EXCEPT ![c] = EOC] /\ lost' = lost \cup {c}
  <2> PICK c \in Usable :
          /\ ClaimIn(c)
          /\ \/ UNCHANGED <<fat, lost>>
             \/ fat' = [fat EXCEPT ![c] = EOC] /\ lost' = lost \cup {c}
    BY <1>3
  <2>1. hint' = c + 1 /\ fat[c] = Free /\ c \in Clusters
    BY <1>1 DEF ClaimIn, Finds
  <2>2. hint' \in 0 .. NumClusters
    BY <2>1, ValuesDiffer DEF Usable
  <2>3. CASE UNCHANGED <<fat, lost>>
    BY <1>1, <2>2, <2>3, RefsKept DEF RestType
  <2>4. CASE fat' = [fat EXCEPT ![c] = EOC] /\ lost' = lost \cup {c}
    <3>1. RestType'
      BY <1>1, <2>1, <2>2, <2>4 DEF RestType
    <3>2. RefsType
      BY DEF RestType, RefsType
    <3>3. Refs'
      BY <2>1, <2>4, <3>2, RefsLose
    <3> QED BY <3>1, <3>3
  <2> QED BY <2>3, <2>4
<1>4. CASE (\E c \in Usable : Finds(c) /\ hint' = c) /\ UNCHANGED <<fat, lost>>
  <2>1. hint' \in 0 .. NumClusters
    BY <1>4, ValuesDiffer DEF Usable
  <2> QED BY <1>1, <1>4, <2>1, RefsKept DEF RestType
<1> QED BY <1>2, <1>3, <1>4 DEF ClaimFails

\* FF_CreateClusterChain: the claimed cluster is held by the task alone.
LEMMA ClaimStep ==
  ASSUME FatInv, NEW t \in Tasks, Claim(t)
  PROVE  FatInv'
<1>1. /\ TypeOK /\ RestType /\ RefsType /\ Refs /\ DirectoriesHaveAChain
      /\ TaskOK("claim", op[t], fat, dirent, stale) /\ op[t] \in OpType
      /\ Usable \subseteq Clusters /\ EOC \in Links
  BY TaskFacts DEF Claim
<1>2. /\ op[t].hand = 0 /\ Bare(op[t].obj, dirent, stale)
      /\ op[t].kind \in {"create", "extend"}
  BY <1>1 DEF TaskOK, Holding, Claiming, CountPcs
<1>3. lock = None /\ UNCHANGED <<count, lock, dirent, stale, raced>>
  BY DEF Claim, LockIsFree
<1>4. ASSUME NEW c \in Usable, ClaimIn(c), fat' = [fat EXCEPT ![c] = EOC],
             Go(t, "check", [op[t] EXCEPT !.hand = c, !.done = 1,
                                          !.why = "less", !.ret = "entry"]),
             UNCHANGED <<lost, failed>>
      PROVE  FatInv'
  <2> DEFINE o == [op[t] EXCEPT !.hand = c, !.done = 1, !.why = "less", !.ret = "entry"]
  <2>1. c \in Clusters /\ fat[c] = Free /\ hint' = c + 1
    BY <1>1, <1>4 DEF ClaimIn, Finds
  <2>2. o \in OpType
    BY <1>1, <2>1 DEF OpType
  <2>3. o.hand = c /\ o.obj = op[t].obj /\ o.kind = op[t].kind /\ o.ret = "entry"
    BY <1>1 DEF OpType
  <2>4. Go(t, "check", o)
    BY <1>4
  <2> HIDE DEF o
  <2>5. HandIs(t, c)
    BY <1>1, <2>3, <2>4, GoMoves DEF HandIs
  <2>6. Refs'
    BY <1>1, <1>2, <1>3, <1>4, <2>1, <2>5, RefsClaim
  <2>7. c + 1 \in 0 .. NumClusters
    BY TaskFacts
  <2>8. RestType'
    BY <1>1, <1>3, <1>4, <2>1, <2>7 DEF RestType
  <2>9. TaskOK("check", o, fat', dirent', stale')
    BY <1>2, <1>3, <2>1, <2>3 DEF TaskOK, Holding, Claiming, Freeing, CountPcs, Bare
  <2>10. DirectoriesHaveAChain'
    BY <1>1, <1>3 DEF DirectoriesHaveAChain
  <2> QED BY <1>3, <2>2, <2>3, <2>4, <2>6, <2>8, <2>9, <2>10, LoudStep
          DEF Pcs, LoopPcs, CountPcs
<1>5. CASE Finish(t) /\ RestType' /\ Refs'
  <2>1. DirectoriesHaveAChain'
    BY <1>1, <1>3 DEF DirectoriesHaveAChain
  <2> QED BY <1>3, <1>5, <2>1, NoOpType, IdleIsOK, LoudStep DEF Finish, Pcs, LoopPcs
<1>6. CASE Finish(t) /\ (ClaimFails \/ UNCHANGED <<fat, hint, lost, failed>>)
  <2>1. \A u \in Tasks : op'[u].hand = op[u].hand
    BY <1>1, <1>2, <1>6, NoOpType, GoMoves DEF Finish
  <2>2. lock' \in Tasks \cup {None}
    BY <1>3
  <2>3. CASE ClaimFails
    BY <1>1, <1>3, <1>5, <1>6, <2>1, <2>2, <2>3, ClaimFailsKeeps
  <2>4. CASE UNCHANGED <<fat, hint, lost, failed>>
    <3>1. RestType' /\ Refs'
      BY <1>1, <1>3, <2>1, <2>4, RefsKept DEF RestType
    <3> QED BY <1>5, <1>6, <3>1
  <2> QED BY <1>6, <2>3, <2>4
<1> QED BY <1>4, <1>6 DEF Claim

\* The cluster passes from the task to the entry, in each outcome.
LEMMA MakeEntryStep ==
  ASSUME FatInv, NEW t \in Tasks, MakeEntry(t)
  PROVE  FatInv'
<1> DEFINE f == op[t].obj
           c == op[t].hand
           made == [dirent EXCEPT ![f] = c]
           after == [op[t] EXCEPT !.hand = 0, !.left = @ - 1]
           dots == [op[t] EXCEPT !.hand = 0]
<1>1. /\ TypeOK /\ RestType /\ RefsType /\ Refs /\ DirectoriesHaveAChain
      /\ TaskOK("entry", op[t], fat, dirent, stale) /\ op[t] \in OpType
  BY TaskFacts DEF MakeEntry
<1>2. /\ c \in Clusters /\ f \in Objects /\ f \notin stale /\ dirent[f] \notin Clusters
      /\ op[t].kind \in {"create", "extend"}
  BY <1>1 DEF TaskOK, Holding, Claiming, Bare
<1>3. UNCHANGED <<fat, hint, count, lock, raced>>
  BY DEF MakeEntry
<1>4. /\ c # 0 /\ \A g \in Objects \ {f} : made[g] = dirent[g]
      /\ made[f] = c /\ made \in [Objects -> {None, 0} \cup Clusters]
  BY <1>1, <1>2, ValuesDiffer DEF RefsType
<1>5. \A g \in Dirs : made[g] # 0
  BY <1>1, <1>2, <1>4 DEF DirectoriesHaveAChain, Objects
<1>6. CASE dirent' = made /\ UNCHANGED <<stale, lost, failed>>
           /\ \/ Go(t, "dots", dots) /\ op[t].kind = "create"
              \/ Go(t, "grow", after) /\ op[t].kind = "extend" /\ op[t].left > 1
              \/ Finish(t)
  <2>1. RestType' /\ DirectoriesHaveAChain'
    BY <1>1, <1>3, <1>4, <1>5, <1>6 DEF RestType, DirectoriesHaveAChain
  <2>2. HandIs(t, 0) => Refs'
    BY <1>1, <1>2, <1>3, <1>6, RefsEnter
  <2>3. Sound(f, dirent', stale')
    BY <1>2, <1>4, <1>6 DEF Sound
  <2>4. \A g \in Objects \ {f} : dirent'[g] = dirent[g] /\ (g \in stale' <=> g \in stale)
    BY <1>4, <1>6
  <2>5. CASE Go(t, "dots", dots) /\ op[t].kind = "create"
    <3>1. dots \in OpType /\ dots.hand = 0 /\ dots.obj = f /\ dots.kind = op[t].kind
      BY <1>1 DEF OpType
    <3> HIDE DEF dots, made
    <3>2. HandIs(t, 0)
      BY <1>1, <2>5, <3>1, GoMoves DEF HandIs
    <3> HIDE DEF f
    <3>3. TaskOK("dots", dots, fat', dirent', stale')
      BY <1>2, <2>3, <2>5, <3>1 DEF TaskOK, Holding, Claiming, Freeing, CountPcs
    <3> QED BY <1>3, <2>1, <2>2, <2>4, <2>5, <3>1, <3>2, <3>3, LoudStep
            DEF Pcs, LoopPcs, f
  <2>6. CASE Go(t, "grow", after) /\ op[t].kind = "extend" /\ op[t].left > 1
    <3>0. op[t].left - 1 \in Nat /\ op[t].left - 1 > 0
      BY <1>1, <2>6, OpFields
    <3>1. after \in OpType /\ after.hand = 0 /\ after.obj = f /\ after.kind = op[t].kind
          /\ after.left = op[t].left - 1
      BY <1>1, <3>0 DEF OpType
    <3> HIDE DEF after, made
    <3>2. HandIs(t, 0)
      BY <1>1, <2>6, <3>1, GoMoves DEF HandIs
    <3> HIDE DEF f
    <3>3. TaskOK("grow", after, fat', dirent', stale')
      BY <1>2, <2>3, <2>6, <3>0, <3>1 DEF TaskOK, Holding, Claiming, Freeing, CountPcs
    <3> QED BY <1>3, <2>1, <2>2, <2>4, <2>6, <3>1, <3>2, <3>3, LoudStep
            DEF Pcs, LoopPcs, f
  <2>7. CASE Finish(t)
    <3>1. HandIs(t, 0)
      BY <1>1, <2>7, NoOpType, GoMoves DEF HandIs, Finish
    <3> HIDE DEF made
    <3> QED BY <1>3, <2>1, <2>2, <2>4, <2>7, <3>1, NoOpType, IdleIsOK, LoudStep
            DEF Finish, Pcs, LoopPcs
  <2> QED BY <1>6, <2>5, <2>6, <2>7
<1>7. CASE op[t].kind = "create" /\ Go(t, "unlink", op[t])
           /\ \/ UNCHANGED <<dirent, stale, lost, failed>>
              \/ Fails /\ dirent' = made /\ stale' = stale \cup {f} /\ UNCHANGED lost
  <2>1. HandIs(t, c) /\ \A u \in Tasks : op'[u].hand = op[u].hand
    BY <1>1, <1>7, GoMoves DEF HandIs
  <2>2. CASE UNCHANGED <<dirent, stale, lost, failed>>
    <3>1. RestType' /\ DirectoriesHaveAChain'
      BY <1>1, <1>3, <2>2 DEF RestType, DirectoriesHaveAChain
    <3>2. Refs'
      BY <1>1, <1>3, <2>1, <2>2, RefsKept
    <3>3. TaskOK("unlink", op[t], fat', dirent', stale')
      BY <1>2, <1>3, <1>7, <2>2 DEF TaskOK, Holding, Claiming, Freeing, CountPcs, Bare
    <3> QED BY <1>1, <1>3, <1>7, <2>2, <3>1, <3>2, <3>3, LoudStep DEF Pcs, LoopPcs
  <2>3. CASE Fails /\ dirent' = made /\ stale' = stale \cup {f} /\ UNCHANGED lost
    <3>1. \A g \in Objects \ {f} : dirent'[g] = dirent[g] /\ (g \in stale' <=> g \in stale)
      BY <1>4, <2>3
    <3>2. RestType' /\ DirectoriesHaveAChain'
      BY <1>1, <1>2, <1>3, <1>4, <1>5, <2>3 DEF RestType, DirectoriesHaveAChain, Fails
    <3>3. Refs'
      BY <1>1, <1>2, <1>3, <2>1, <2>3, <3>1, RefsStale
    <3>4. f \in stale' /\ dirent'[f] = op[t].hand
      BY <1>4, <2>3
    <3> HIDE DEF made
    <3>5. TaskOK("unlink", op[t], fat', dirent', stale')
      BY <1>2, <1>7, <3>4 DEF TaskOK, Holding, Claiming, Freeing, CountPcs
    <3> QED BY <1>1, <1>3, <1>7, <3>1, <3>2, <3>3, <3>5, LoudStep DEF Pcs, LoopPcs
  <2> QED BY <1>7, <2>2, <2>3
<1>8. CASE Fails /\ Finish(t) /\ UNCHANGED stale
           /\ \/ dirent' = made /\ UNCHANGED lost
              \/ lost' = lost \cup {c} /\ UNCHANGED dirent
  <2>1. HandIs(t, 0)
    BY <1>1, <1>8, NoOpType, GoMoves DEF HandIs, Finish
  <2>2. \A g \in Objects \ {f} : dirent'[g] = dirent[g] /\ (g \in stale' <=> g \in stale)
    BY <1>4, <1>8
  <2>3. RestType' /\ DirectoriesHaveAChain'
    BY <1>1, <1>2, <1>3, <1>4, <1>5, <1>8 DEF RestType, DirectoriesHaveAChain, Fails
  <2>4. Refs'
    <3>1. CASE dirent' = made /\ UNCHANGED lost
      BY <1>1, <1>2, <1>3, <1>8, <2>1, <3>1, RefsEnter
    <3>2. CASE lost' = lost \cup {c} /\ UNCHANGED dirent
      BY <1>1, <1>2, <1>3, <1>8, <2>1, <3>2, RefsDrop
    <3> QED BY <1>8, <3>1, <3>2
  <2> HIDE DEF made
  <2> QED BY <1>3, <1>8, <2>2, <2>3, <2>4, NoOpType, IdleIsOK, LoudStep
          DEF Finish, Pcs, LoopPcs
<1> QED
  <2>1. \/ dirent' = made /\ UNCHANGED <<stale, lost, failed>>
           /\ CASE op[t].kind = "create" /\ f \in Dirs -> Go(t, "dots", dots)
                [] op[t].kind = "extend" /\ op[t].left > 1 -> Go(t, "grow", after)
                [] OTHER -> Finish(t)
        \/ op[t].kind = "create" /\ Go(t, "unlink", op[t])
           /\ UNCHANGED <<dirent, stale, lost, failed>>
        \/ op[t].kind = "create" /\ Fails /\ dirent' = made /\ stale' = stale \cup {f}
           /\ Go(t, "unlink", op[t]) /\ UNCHANGED lost
        \/ /\ Fails /\ Finish(t) /\ UNCHANGED stale
           /\ \/ dirent' = made /\ UNCHANGED lost
              \/ lost' = lost \cup {c} /\ UNCHANGED dirent
    BY DEF MakeEntry
  <2> QED BY <1>6, <1>7, <1>8, <2>1

\* FF_MkDir is done, or takes the cluster back from an entry that stays.
LEMMA MakeDotsStep ==
  ASSUME FatInv, NEW t \in Tasks, MakeDots(t)
  PROVE  FatInv'
<1> DEFINE f == op[t].obj
           o == [op[t] EXCEPT !.hand = dirent[f]]
<1>1. /\ TypeOK /\ RestType /\ RefsType /\ Refs /\ DirectoriesHaveAChain
      /\ TaskOK("dots", op[t], fat, dirent, stale) /\ op[t] \in OpType
  BY TaskFacts DEF MakeDots
<1>2. /\ op[t].hand = 0 /\ op[t].kind = "create"
      /\ f \in Objects /\ f \notin stale /\ dirent[f] \in Clusters
  BY <1>1 DEF TaskOK, Holding, Claiming, CountPcs, Sound
<1>3. UNCHANGED <<fat, dirent, hint, count, lock, lost, raced>>
  BY DEF MakeDots, disk
<1>4. CASE Finish(t) /\ UNCHANGED <<stale, failed>>
  <2>1. /\ hint' \in 0 .. NumClusters /\ count' \in 0 .. CountModulus - 1
        /\ failed' \in BOOLEAN /\ raced' \in BOOLEAN
    BY <1>1, <1>3, <1>4 DEF RestType
  <2> QED BY <1>2, <1>3, <1>4, <2>1, NoOpType, IdleIsOK, QuietStep
          DEF Finish, Pcs, LoopPcs
<1>5. CASE Fails /\ Go(t, "unlink", o) /\ stale' = stale \cup {f}
  <2>1. /\ o \in OpType /\ o.hand = dirent[f] /\ o.obj = f /\ o.kind = op[t].kind
    BY <1>1, <1>2 DEF OpType
  <2> HIDE DEF o
  <2>2. HandIs(t, dirent[f])
    BY <1>1, <1>5, <2>1, GoMoves DEF HandIs
  <2>3. \A g \in Objects \ {f} : dirent'[g] = dirent[g] /\ (g \in stale' <=> g \in stale)
    BY <1>3, <1>5
  <2>4. Refs'
    BY <1>1, <1>2, <1>3, <1>5, <2>2, <2>3, RefsStale
  <2>5. RestType' /\ DirectoriesHaveAChain'
    BY <1>1, <1>2, <1>3, <1>5 DEF RestType, DirectoriesHaveAChain, Fails
  <2>6. f \in stale' /\ dirent'[f] = dirent[f]
    BY <1>3, <1>5
  <2> HIDE DEF f
  <2>7. TaskOK("unlink", o, fat', dirent', stale')
    BY <1>2, <2>1, <2>6 DEF TaskOK, Holding, Claiming, Freeing, CountPcs
  <2> QED BY <1>3, <1>5, <2>1, <2>3, <2>4, <2>5, <2>7, LoudStep DEF f, Pcs, LoopPcs
<1> QED BY <1>4, <1>5 DEF MakeDots

\* The chain passes from the entry, or the task, to the loop.
LEMMA BeginUnlinkStep ==
  ASSUME FatInv, NEW t \in Tasks, BeginUnlink(t)
  PROVE  FatInv'
<1> DEFINE f == op[t].obj
           first == IF Frees(t) THEN dirent[f] ELSE op[t].hand
           o == [op[t] EXCEPT !.hand = first, !.low = first, !.done = 0]
<1>1. /\ TypeOK /\ RestType /\ RefsType /\ Refs /\ DirectoriesHaveAChain
      /\ TaskOK("unlink", op[t], fat, dirent, stale) /\ op[t] \in OpType
  BY TaskFacts DEF BeginUnlink
<1>2. /\ IF Frees(t)
         THEN op[t].hand = 0 /\ f \in Objects /\ f \notin stale /\ dirent[f] \in Clusters
         ELSE /\ op[t].hand \in Clusters /\ op[t].kind = "create"
              /\ Bare(f, dirent, stale) \/ (f \in stale /\ dirent[f] = op[t].hand)
      /\ Frees(t) <=> Freeing(op[t])
      /\ op[t].kind = "empty" => f \in Files
  BY <1>1 DEF TaskOK, Holding, Claiming, CountPcs, Sound, Frees, Freeing
<1>3. UNCHANGED <<fat, dirent, hint, count, lost, failed, raced>> /\ lock = None /\ lock' = t
      /\ stale' = IF Frees(t) THEN stale \cup {f} ELSE stale
  BY DEF BeginUnlink, disk, LockIsFree
<1>4. first \in Clusters /\ (~Frees(t) => first = op[t].hand) /\ (Frees(t) => first = dirent[f])
  BY <1>2
<1>5. /\ o \in OpType /\ o.hand = first /\ o.obj = f /\ o.kind = op[t].kind /\ o.done = 0
  BY <1>1, <1>4 DEF OpType
<1>6. Go(t, "unlinking", o)
  BY DEF BeginUnlink
<1> HIDE DEF o, first
<1>7. HandIs(t, first)
  BY <1>1, <1>5, <1>6, GoMoves DEF HandIs
<1>8. \A g \in Objects \ {f} : dirent'[g] = dirent[g] /\ (g \in stale' <=> g \in stale)
  BY <1>3
<1>9. Refs'
  <2>1. CASE Frees(t)
    BY <1>1, <1>2, <1>3, <1>4, <1>7, <1>8, <2>1, RefsStale
  <2>2. CASE ~Frees(t)
    <3>1. \A u \in Tasks : op'[u].hand = op[u].hand
      BY <1>4, <1>7, <2>2 DEF HandIs
    <3> QED BY <1>1, <1>3, <2>2, <3>1, RefsKept
  <2> QED BY <2>1, <2>2
<1>10. RestType' /\ DirectoriesHaveAChain'
  BY <1>1, <1>2, <1>3 DEF RestType, DirectoriesHaveAChain
<1>11. /\ Frees(t) => f \in stale'
       /\ f \in stale' => dirent'[f] = first
  BY <1>2, <1>3, <1>4 DEF Bare
<1> HIDE DEF f
<1>12. TaskOK("unlinking", o, fat', dirent', stale')
  BY <1>1, <1>2, <1>4, <1>5, <1>11
     DEF TaskOK, Holding, Claiming, Freeing, CountPcs, Frees
<1> QED BY <1>3, <1>5, <1>6, <1>8, <1>9, <1>10, <1>12, LoudStep DEF f, Pcs, LoopPcs

\* The tail of the chain passes from the link that is cut to the loop.
LEMMA BeginCutStep ==
  ASSUME FatInv, NEW t \in Tasks, BeginCut(t)
  PROVE  FatInv'
<1>1. /\ TypeOK /\ RestType /\ RefsType /\ Refs /\ DirectoriesHaveAChain
      /\ TaskOK("cut", op[t], fat, dirent, stale) /\ op[t] \in OpType /\ EOC \in Links
  BY TaskFacts DEF BeginCut
<1>2. /\ op[t].hand = 0 /\ op[t].kind = "cut" /\ Sound(op[t].obj, dirent, stale)
  BY <1>1 DEF TaskOK, Holding, Claiming, CountPcs
<1>3. UNCHANGED <<dirent, stale, hint, count, raced>> /\ lock = None /\ lock' = t
  BY DEF BeginCut, LockIsFree
<1> PICK c \in Chain(op[t].obj) :
      /\ fat[c] \in Clusters
      /\ \/ /\ fat' = [fat EXCEPT ![c] = EOC]
            /\ Go(t, "unlinking", [op[t] EXCEPT !.hand = fat[c], !.low = c])
            /\ UNCHANGED <<lost, failed>>
         \/ /\ Fails
            /\ \/ UNCHANGED <<fat, lost>>
               \/ fat' = [fat EXCEPT ![c] = EOC] /\ lost' = lost \cup {fat[c]}
            /\ Go(t, "unlock", [op[t] EXCEPT !.err = TRUE])
  BY DEF BeginCut
<1>4. c \in Clusters
  BY DEF Chain
<1>5. DirectoriesHaveAChain'
  BY <1>1, <1>3 DEF DirectoriesHaveAChain
<1>6. CASE /\ fat' = [fat EXCEPT ![c] = EOC]
           /\ Go(t, "unlinking", [op[t] EXCEPT !.hand = fat[c], !.low = c])
           /\ UNCHANGED <<lost, failed>>
  <2> DEFINE o == [op[t] EXCEPT !.hand = fat[c], !.low = c]
  <2>1. o \in OpType /\ o.hand = fat[c] /\ o.obj = op[t].obj /\ o.kind = op[t].kind
    BY <1>1, <1>4 DEF OpType
  <2>2. Go(t, "unlinking", o)
    BY <1>6
  <2> HIDE DEF o
  <2>3. HandIs(t, fat[c])
    BY <1>1, <2>1, <2>2, GoMoves DEF HandIs
  <2>4. PassedOn(t, fat[c])
    BY <1>6, <2>3 DEF PassedOn
  <2>5. Refs'
    BY <1>1, <1>2, <1>3, <1>4, <1>6, <2>4, RefsCut
  <2>6. RestType'
    BY <1>1, <1>3, <1>4, <1>6 DEF RestType
  <2>7. TaskOK("unlinking", o, fat', dirent', stale')
    BY <1>2, <1>3, <2>1 DEF TaskOK, Holding, Claiming, Freeing, CountPcs, Sound
  <2> QED BY <1>3, <1>5, <2>1, <2>2, <2>5, <2>6, <2>7, LoudStep DEF Pcs, LoopPcs
<1>7. CASE /\ Fails
           /\ \/ UNCHANGED <<fat, lost>>
              \/ fat' = [fat EXCEPT ![c] = EOC] /\ lost' = lost \cup {fat[c]}
           /\ Go(t, "unlock", [op[t] EXCEPT !.err = TRUE])
  <2> DEFINE o == [op[t] EXCEPT !.err = TRUE]
  <2>1. o \in OpType /\ o.hand = 0 /\ o.obj = op[t].obj /\ o.kind = op[t].kind
    BY <1>1, <1>2 DEF OpType
  <2>2. Go(t, "unlock", o)
    BY <1>7
  <2> HIDE DEF o
  <2>3. HandIs(t, 0)
    BY <1>1, <2>1, <2>2, GoMoves DEF HandIs
  <2>4. TaskOK("unlock", o, fat', dirent', stale')
    BY <1>2, <2>1 DEF TaskOK, Holding, Claiming, Freeing, CountPcs
  <2>5. RestType' /\ Refs'
    <3>1. CASE UNCHANGED <<fat, lost>>
      <4>1. \A u \in Tasks : op'[u].hand = op[u].hand
        BY <1>2, <2>3 DEF HandIs
      <4> QED BY <1>1, <1>3, <1>7, <3>1, <4>1, RefsKept DEF RestType, Fails
    <3>2. CASE fat' = [fat EXCEPT ![c] = EOC] /\ lost' = lost \cup {fat[c]}
      <4>1. PassedOn(t, fat[c])
        BY <2>3, <3>2 DEF PassedOn
      <4>2. Refs'
        BY <1>1, <1>2, <1>3, <1>4, <3>2, <4>1, RefsCut
      <4> QED BY <1>1, <1>3, <1>4, <1>7, <3>2, <4>2 DEF RestType, Fails
    <3> QED BY <1>7, <3>1, <3>2
  <2> QED BY <1>3, <1>5, <2>1, <2>2, <2>4, <2>5, LoudStep DEF Pcs, LoopPcs
<1> QED BY <1>6, <1>7

\* The stale entry goes away, or stays stale.
LEMMA EraseStep ==
  ASSUME FatInv, NEW t \in Tasks, Erase(t)
  PROVE  FatInv'
<1> DEFINE f == op[t].obj
           e == IF op[t].kind = "remove" THEN None ELSE 0
<1>1. /\ TypeOK /\ RestType /\ RefsType /\ Refs /\ DirectoriesHaveAChain
      /\ TaskOK("erase", op[t], fat, dirent, stale) /\ op[t] \in OpType
  BY TaskFacts DEF Erase
<1>2. /\ op[t].hand = 0 /\ f \in Objects /\ (f \in stale \/ dirent[f] = 0)
      /\ op[t].kind \in {"remove", "empty"} /\ (op[t].kind = "empty" => f \in Files)
  BY <1>1 DEF TaskOK, Holding, Claiming, CountPcs, Freeing
<1>3. UNCHANGED <<fat, hint, count, lock, lost, raced>> /\ Finish(t)
      /\ \/ /\ dirent' = [dirent EXCEPT ![f] = e] /\ stale' = stale \ {f} /\ UNCHANGED failed
         \/ Fails /\ UNCHANGED <<dirent, stale>>
  BY DEF Erase
<1>4. f \in Objects /\ e \notin Clusters /\ e \in {None, 0} /\ (f \in Dirs => e # 0)
  <2>0. None # 0
    BY ValuesDiffer
  <2>1. e \in {None, 0} /\ (e = 0 => op[t].kind = "empty")
    BY <1>2, <2>0
  <2>2. None \notin Clusters /\ 0 \notin Clusters /\ Files \cap Dirs = {}
    BY ValuesDiffer
  <2> HIDE DEF e
  <2> QED BY <1>2, <2>1, <2>2
<1> HIDE DEF e
<1>5. \A u \in Tasks : op'[u].hand = op[u].hand
  <2>1. Go(t, "idle", NoOp)
    BY <1>3 DEF Finish
  <2>2. op'[t] = NoOp /\ \A u \in Tasks \ {t} : op'[u] = op[u]
    BY <1>1, <2>1, GoMoves
  <2> QED BY <1>2, <2>2, NoOpType
<1>6. Refs'
  BY <1>1, <1>2, <1>3, <1>4, <1>5, ValuesDiffer, RefsErase
<1>7. RestType' /\ DirectoriesHaveAChain'
  BY <1>1, <1>3, <1>4 DEF RestType, DirectoriesHaveAChain, Fails, Objects
<1>8. \A g \in Objects \ {f} : dirent'[g] = dirent[g] /\ (g \in stale' <=> g \in stale)
  BY <1>1, <1>3 DEF RestType
<1> QED BY <1>3, <1>6, <1>7, <1>8, NoOpType, IdleIsOK, LoudStep DEF Finish, Pcs, LoopPcs

\* What follows the loop of FF_UnlinkClusterChain.
LEMMA AfterUnlinkFacts ==
  ASSUME TypeOK, NEW t \in Tasks, NEW n \in Nat, NEW e \in BOOLEAN, AfterUnlink(t, n, e)
  PROVE  \E p \in {"unlock", "check"}, o \in OpType :
           /\ Go(t, p, o) /\ HandIs(t, 0)
           /\ o.hand = 0 /\ o.obj = op[t].obj /\ o.kind = op[t].kind
           /\ o.err = e /\ o.ret = "unlock"
<1> DEFINE o == [op[t] EXCEPT !.hand = 0, !.low = 0, !.done = n, !.err = e,
                              !.why = "more", !.ret = "unlock"]
           p == IF n = 0 THEN "unlock" ELSE "check"
<1>1. op[t] \in OpType
  BY OpFields
<1>2. /\ o \in OpType /\ o.hand = 0 /\ o.obj = op[t].obj /\ o.kind = op[t].kind
      /\ o.err = e /\ o.ret = "unlock"
  BY <1>1 DEF OpType
<1>3. Go(t, p, o) /\ p \in {"unlock", "check"}
  BY DEF AfterUnlink
<1> HIDE DEF o, p
<1>4. HandIs(t, 0)
  BY <1>2, <1>3, GoMoves DEF HandIs
<1> QED BY <1>2, <1>3, <1>4

\* One round of the loop: the task passes from a cluster to the next one.
LEMMA UnlinkStep ==
  ASSUME FatInv, NEW t \in Tasks, Unlink(t)
  PROVE  FatInv'
<1> DEFINE f == op[t].obj
           c == op[t].hand
           low == Lower(op[t].low, c)
           freed == [fat EXCEPT ![c] = Free]
<1>1. /\ TypeOK /\ RestType /\ RefsType /\ Refs /\ DirectoriesHaveAChain
      /\ TaskOK("unlinking", op[t], fat, dirent, stale) /\ op[t] \in OpType
      /\ Free \in Links /\ lock = t
  BY TaskFacts DEF Unlink, FatInv, LoopsHaveTheLock, LoopPcs
<1>2. /\ c \in Clusters /\ op[t].kind \in {"create", "remove", "empty", "cut"}
      /\ Freeing(op[t]) => f \in stale
      /\ f \in stale /\ op[t].done = 0 => dirent[f] = c
      /\ op[t].kind = "empty" => f \in Files
  BY <1>1 DEF TaskOK, Holding, Claiming, CountPcs
<1>3. UNCHANGED <<count, lock, dirent, raced>>
  BY DEF Unlink
<1>4. fat[c] \in Links /\ (fat[c] \in Clusters <=> ~IsEnd(fat[c])) /\ freed \in [Clusters -> Links]
  BY <1>1, <1>2, ValuesDiffer DEF RefsType, IsEnd, Links
<1>5. op[t].done \in Nat /\ op[t].done + 1 \in Nat /\ op[t].low \in {0} \cup Clusters
  BY <1>1, OpFields DEF OpType
<1>6. DirectoriesHaveAChain'
  BY <1>1, <1>3 DEF DirectoriesHaveAChain
<1> HIDE DEF freed
\* How the loop ends: t is at p with o, and has no cluster in hand.
<1>7. ASSUME NEW n \in Nat, NEW e \in BOOLEAN, AfterUnlink(t, n, e),
             HandIs(t, 0) => RestType' /\ Refs',
             e = FALSE => stale' = stale,
             \A g \in Objects \ {f} : g \in stale' <=> g \in stale
      PROVE  FatInv'
  <2> PICK p \in {"unlock", "check"}, o \in OpType :
           /\ Go(t, p, o) /\ HandIs(t, 0)
           /\ o.hand = 0 /\ o.obj = op[t].obj /\ o.kind = op[t].kind
           /\ o.err = e /\ o.ret = "unlock"
    BY <1>1, <1>7, AfterUnlinkFacts
  <2>1. Freeing(o) /\ ~o.err => o.obj \in stale'
    BY <1>2, <1>7 DEF Freeing
  <2>2. TaskOK(p, o, fat', dirent', stale')
    BY <1>2, <2>1 DEF TaskOK, Holding, Claiming, CountPcs, Freeing
  <2> QED BY <1>1, <1>3, <1>6, <1>7, <2>2, LoudStep DEF Pcs, LoopPcs, CountPcs
<1>8. CASE /\ fat' = freed /\ ~IsEnd(fat[c])
           /\ Go(t, "unlinking", [op[t] EXCEPT !.hand = fat[c], !.low = low,
                                               !.done = @ + 1])
           /\ UNCHANGED <<hint, stale, lost, failed>>
  <2> DEFINE o == [op[t] EXCEPT !.hand = fat[c], !.low = low, !.done = @ + 1]
  <2>1. low \in {0} \cup Clusters
    BY <1>2, <1>5 DEF Lower
  <2>2. /\ o \in OpType /\ o.hand = fat[c] /\ o.obj = f /\ o.kind = op[t].kind
        /\ o.done = op[t].done + 1
    BY <1>1, <1>4, <1>5, <1>8, <2>1 DEF OpType
  <2>3. Go(t, "unlinking", o)
    BY <1>8
  <2> HIDE DEF o
  <2>4. PassedOn(t, fat[c])
    BY <1>1, <1>4, <1>8, <2>2, <2>3, GoMoves DEF PassedOn, HandIs
  <2>5. Refs'
    BY <1>1, <1>2, <1>3, <1>8, <2>4, RefsFree DEF freed
  <2>6. RestType'
    BY <1>1, <1>3, <1>4, <1>8 DEF RestType
  <2>7. o.done # 0
    BY <1>5, <2>2
  <2> HIDE DEF f
  <2>8. TaskOK("unlinking", o, fat', dirent', stale')
    BY <1>2, <1>4, <1>8, <2>2, <2>7 DEF TaskOK, Holding, Claiming, CountPcs, Freeing
  <2> QED BY <1>1, <1>3, <1>6, <1>8, <2>2, <2>3, <2>5, <2>6, <2>8, LoudStep
          DEF f, Pcs, LoopPcs
<1>9. CASE /\ fat' = freed /\ IsEnd(fat[c])
           /\ hint' = Lower(hint, low)
           /\ \/ AfterUnlink(t, op[t].done + 1, FALSE) /\ UNCHANGED failed
              \/ AfterUnlink(t, op[t].done + 1, TRUE) /\ Fails
           /\ UNCHANGED <<stale, lost>>
  <2>1. hint' \in 0 .. NumClusters /\ failed' \in BOOLEAN
    <3>1. hint \in 0 .. NumClusters /\ failed \in BOOLEAN
      BY <1>1, OpFields
    <3>2. low \in Nat
      <4>1. Clusters \subseteq Nat
        BY ValuesDiffer
      <4>2. op[t].low \in Nat
        <5>1. op[t].low = 0 \/ op[t].low \in Clusters
          BY <1>5
        <5>2. 0 \in Nat
          OBVIOUS
        <5>3. CASE op[t].low = 0
          BY <5>2, <5>3
        <5>4. CASE op[t].low \in Clusters
          BY <4>1, <5>4
        <5> QED BY <5>1, <5>3, <5>4
      <4>3. c \in Nat
        BY <1>2, <4>1
      <4> QED BY <4>2, <4>3 DEF Lower
    <3>3. Lower(hint, low) \in 0 .. NumClusters
      BY <3>1, <3>2, ValuesDiffer DEF Lower
    <3> QED BY <1>9, <3>1, <3>3 DEF Fails
  <2>2. RestType'
    BY <1>1, <1>3, <1>4, <1>9, <2>1 DEF RestType
  <2>3. HandIs(t, 0) => Refs'
    BY <1>1, <1>2, <1>3, <1>4, <1>9, RefsFree DEF freed, PassedOn
  <2> QED BY <1>5, <1>7, <1>9, <2>2, <2>3
<1>10. CASE /\ Fails
            /\ \E put \in {0, 1} : AfterUnlink(t, op[t].done + put, TRUE)
            /\ IF op[t].done = 0 /\ f \in stale
               THEN stale' = stale \ {f} /\ UNCHANGED lost
               ELSE lost' = lost \cup {c} /\ UNCHANGED stale
            /\ UNCHANGED <<fat, hint>>
  <2> PICK n \in {0, 1} : AfterUnlink(t, op[t].done + n, TRUE)
    BY <1>10
  <2>1. op[t].done + n \in Nat
    BY <1>5
  <2>2. RestType'
    BY <1>1, <1>2, <1>3, <1>10 DEF RestType, Fails
  <2>3. HandIs(t, 0) => Refs'
    BY <1>1, <1>2, <1>3, <1>10, RefsDrop
  <2>4. \A g \in Objects \ {f} : g \in stale' <=> g \in stale
    BY <1>10
  <2> QED BY <1>7, <2>1, <2>2, <2>3, <2>4
<1>11. CASE /\ Fails /\ fat' = freed
            /\ AfterUnlink(t, op[t].done + 1, TRUE)
            /\ lost' = lost \cup ({fat[c]} \cap Clusters)
            /\ UNCHANGED <<hint, stale>>
  <2>1. RestType'
    BY <1>1, <1>3, <1>4, <1>11 DEF RestType, Fails
  <2>2. IF fat[c] \in Clusters THEN lost' = lost \cup {fat[c]} ELSE lost' = lost
    BY <1>11
  <2>3. HandIs(t, 0) => PassedOn(t, fat[c])
    BY <2>2 DEF PassedOn
  <2>4. HandIs(t, 0) => Refs'
    BY <1>1, <1>2, <1>3, <1>11, <2>3, RefsFree DEF freed
  <2> QED BY <1>5, <1>7, <1>11, <2>1, <2>4
<1> QED
  <2>1. \/ /\ fat' = freed /\ ~IsEnd(fat[c])
           /\ Go(t, "unlinking", [op[t] EXCEPT !.hand = fat[c], !.low = low,
                                               !.done = @ + 1])
           /\ UNCHANGED <<hint, stale, lost, failed>>
        \/ /\ fat' = freed /\ IsEnd(fat[c])
           /\ hint' = Lower(hint, low)
           /\ \/ AfterUnlink(t, op[t].done + 1, FALSE) /\ UNCHANGED failed
              \/ AfterUnlink(t, op[t].done + 1, TRUE) /\ Fails
           /\ UNCHANGED <<stale, lost>>
        \/ /\ Fails
           /\ \E put \in {0, 1} : AfterUnlink(t, op[t].done + put, TRUE)
           /\ IF op[t].done = 0 /\ f \in stale
              THEN stale' = stale \ {f} /\ UNCHANGED lost
              ELSE lost' = lost \cup {c} /\ UNCHANGED stale
           /\ UNCHANGED <<fat, hint>>
        \/ /\ Fails /\ fat' = freed
           /\ AfterUnlink(t, op[t].done + 1, TRUE)
           /\ lost' = lost \cup ({fat[c]} \cap Clusters)
           /\ UNCHANGED <<hint, stale>>
    BY DEF Unlink, freed
  <2> QED BY <1>8, <1>9, <1>10, <1>11, <2>1

\* The claimed cluster gets its only reference from the old end of the chain.
LEMMA GrowStep ==
  ASSUME FatInv, NEW t \in Tasks, Grow(t)
  PROVE  FatInv'
<1> DEFINE tail == op[t].tail
<1>1. /\ TypeOK /\ RestType /\ RefsType /\ Refs /\ DirectoriesHaveAChain
      /\ TaskOK("growing", op[t], fat, dirent, stale) /\ op[t] \in OpType
      /\ Usable \subseteq Clusters /\ EOC \in Links /\ Clusters \subseteq Links /\ lock = t
  BY TaskFacts DEF Grow, FatInv, LoopsHaveTheLock, LoopPcs
<1>2. /\ op[t].hand = 0 /\ op[t].kind = "extend" /\ op[t].left > 0
      /\ tail \in Clusters /\ fat[tail] = EOC
  BY <1>1 DEF TaskOK, Holding, Claiming, CountPcs
<1>3. UNCHANGED <<count, lock, dirent, stale, raced>> /\ lock' \in Tasks \cup {None}
  BY <1>1 DEF Grow
<1>4. op[t].left \in Nat /\ op[t].done \in Nat
  BY <1>1, OpFields
<1>5. DirectoriesHaveAChain'
  BY <1>1, <1>3 DEF DirectoriesHaveAChain
\* t leaves the loop.
<1>6. ASSUME NEW o \in OpType, Go(t, "grown", o), o.hand = 0, o.obj = op[t].obj,
             o.kind = "extend",
             (\A u \in Tasks : op'[u].hand = op[u].hand) => RestType' /\ Refs'
      PROVE  FatInv'
  <2>1. \A u \in Tasks : op'[u].hand = op[u].hand
    <3>1. op'[t] = o /\ \A u \in Tasks \ {t} : op'[u] = op[u]
      BY <1>1, <1>6, GoMoves
    <3> QED BY <1>2, <1>6, <3>1
  <2>2. TaskOK("grown", o, fat', dirent', stale')
    BY <1>6 DEF TaskOK, Holding, Claiming, CountPcs, Freeing
  <2> QED BY <1>1, <1>3, <1>5, <1>6, <2>1, <2>2, LoudStep DEF Pcs, LoopPcs
\* A cluster is linked behind the last one.
<1>7. ASSUME NEW c \in Usable, ClaimIn(c), fat' = [fat EXCEPT ![c] = EOC, ![tail] = c],
             lost' = lost, failed' \in BOOLEAN, \A u \in Tasks : op'[u].hand = op[u].hand
      PROVE  RestType' /\ Refs' /\ fat'[c] = EOC
  <2>1. c \in Clusters /\ fat[c] = Free /\ hint' = c + 1 /\ c # tail
    BY <1>1, <1>2, <1>7, ValuesDiffer DEF ClaimIn, Finds
  <2>2. Refs'
    BY <1>1, <1>2, <1>3, <1>7, <2>1, RefsLink
  <2>3. c + 1 \in 0 .. NumClusters
    BY TaskFacts
  <2>4. fat' \in [Clusters -> Links] /\ fat'[c] = EOC
    BY <1>1, <1>2, <1>7, <2>1 DEF RefsType
  <2>5. RestType'
    BY <1>1, <1>3, <1>7, <2>1, <2>3, <2>4 DEF RestType
  <2> QED BY <2>2, <2>4, <2>5
<1>8. ASSUME NEW c \in Usable, ClaimIn(c), fat' = [fat EXCEPT ![c] = EOC, ![tail] = c],
             Go(t, IF op[t].left = 1 THEN "grown" ELSE "growing",
                [op[t] EXCEPT !.tail = c, !.left = @ - 1, !.done = @ + 1]),
             UNCHANGED <<lost, failed>>
      PROVE  FatInv'
  <2> DEFINE o == [op[t] EXCEPT !.tail = c, !.left = @ - 1, !.done = @ + 1]
  <2>1. op[t].left - 1 \in Nat /\ op[t].done + 1 \in Nat /\ c \in Clusters
    BY <1>1, <1>2, <1>4
  <2>2. /\ o \in OpType /\ o.hand = 0 /\ o.obj = op[t].obj /\ o.kind = "extend"
        /\ o.left = op[t].left - 1 /\ o.tail = c
    BY <1>1, <1>2, <2>1 DEF OpType
  <2>3. Go(t, IF op[t].left = 1 THEN "grown" ELSE "growing", o)
    BY <1>8
  <2> HIDE DEF o
  <2>4. failed' \in BOOLEAN
    BY <1>1, <1>8 DEF RestType
  <2>5. \A u \in Tasks : op'[u].hand = op[u].hand
    <3>1. op'[t] = o /\ \A u \in Tasks \ {t} : op'[u] = op[u]
      BY <1>1, <2>3, GoMoves
    <3> QED BY <1>2, <2>2, <3>1
  <2>6. RestType' /\ Refs' /\ fat'[c] = EOC
    BY <1>7, <1>8, <2>4, <2>5
  <2>7. CASE op[t].left = 1
    BY <1>6, <2>2, <2>3, <2>6, <2>7
  <2>8. CASE op[t].left # 1
    <3>1. o.left > 0
      BY <1>2, <1>4, <2>2, <2>8
    <3>2. TaskOK("growing", o, fat', dirent', stale')
      BY <2>1, <2>2, <2>6, <3>1 DEF TaskOK, Holding, Claiming, CountPcs, Freeing
    <3> QED BY <1>1, <1>3, <1>5, <2>2, <2>3, <2>6, <2>8, <3>2, LoudStep DEF Pcs, LoopPcs
  <2> QED BY <2>7, <2>8
<1>9. CASE NoneFound /\ Go(t, "grown", op[t]) /\ UNCHANGED <<fat, hint, lost, failed>>
  <2>1. (\A u \in Tasks : op'[u].hand = op[u].hand) => RestType' /\ Refs'
    BY <1>1, <1>3, <1>9, RefsKept DEF RestType
  <2> QED BY <1>1, <1>2, <1>6, <1>9, <2>1
<1>10. CASE ClaimFails /\ Go(t, "grown", op[t])
  <2>1. (\A u \in Tasks : op'[u].hand = op[u].hand) => RestType' /\ Refs'
    BY <1>1, <1>3, <1>10, ClaimFailsKeeps
  <2> QED BY <1>1, <1>2, <1>6, <1>10, <2>1
<1>11. ASSUME NEW c \in Usable, ClaimIn(c), Fails,
              \/ fat' = [fat EXCEPT ![c] = EOC, ![tail] = c] /\ UNCHANGED lost
              \/ fat' = [fat EXCEPT ![c] = EOC] /\ lost' = lost \cup {c},
              Go(t, "grown", [op[t] EXCEPT !.done = IF op[t].obj \in Dirs THEN 1 ELSE @])
       PROVE  FatInv'
  <2> DEFINE o == [op[t] EXCEPT !.done = IF op[t].obj \in Dirs THEN 1 ELSE @]
  <2>1. o \in OpType /\ o.hand = 0 /\ o.obj = op[t].obj /\ o.kind = "extend"
    BY <1>1, <1>2 DEF OpType
  <2>2. Go(t, "grown", o)
    BY <1>11
  <2> HIDE DEF o
  <2>3. failed' \in BOOLEAN
    BY <1>11 DEF Fails
  <2>4. c \in Clusters /\ fat[c] = Free /\ hint' = c + 1 /\ c + 1 \in 0 .. NumClusters
    BY <1>1, <1>11, TaskFacts DEF ClaimIn, Finds
  <2>5. CASE fat' = [fat EXCEPT ![c] = EOC, ![tail] = c] /\ UNCHANGED lost
    <3>1. (\A u \in Tasks : op'[u].hand = op[u].hand) => RestType' /\ Refs'
      BY <1>7, <1>11, <2>3, <2>5
    <3> QED BY <1>6, <2>1, <2>2, <3>1
  <2>6. CASE fat' = [fat EXCEPT ![c] = EOC] /\ lost' = lost \cup {c}
    <3>1. RestType'
      BY <1>1, <1>3, <2>3, <2>4, <2>6 DEF RestType
    <3>2. (\A u \in Tasks : op'[u].hand = op[u].hand) => Refs'
      BY <1>1, <1>3, <2>4, <2>6, RefsLose
    <3> QED BY <1>6, <2>1, <2>2, <3>1, <3>2
  <2> QED BY <1>11, <2>5, <2>6
<1> QED BY <1>8, <1>9, <1>10, <1>11 DEF Grow

\* FF_Mount takes the FAT as it is.
LEMMA RemountStep ==
  ASSUME FatInv, Remount
  PROVE  FatInv'
<1>1. /\ UNCHANGED <<fat, dirent, lock, pc, op, stale, lost>>
      /\ failed' = FALSE /\ raced' = FALSE
      /\ hint' \in 0 .. NumClusters /\ count' \in 0 .. NumClusters
  BY DEF Remount, disk
<1>2. count' \in 0 .. CountModulus - 1
  BY <1>1, FatAssumption DEF FatAssumption
<1>3. RestType' /\ TypeOK'
  BY <1>1, <1>2 DEF FatInv, TypeOK, RestType
<1>4. OneTaskPerObject' /\ LoopsHaveTheLock' /\ TasksOK' /\ DirectoriesHaveAChain'
  BY <1>1 DEF FatInv, OneTaskPerObject, LoopsHaveTheLock, TasksOK, DirectoriesHaveAChain
<1>5. Refs'
  BY <1>1, RefsKept DEF FatInv
<1> QED BY <1>3, <1>4, <1>5 DEF FatInv

-----------------------------------------------------------------------------
(* The theorems.                                                            *)

\* All operations start in FatInv.
LEMMA StartKeepsFatInv ==
  ASSUME FatInv, NEW t \in Tasks, Start(t)
  PROVE  FatInv'
<1>1. CASE \E f \in Objects : Create(t, f) \/ Remove(t, f)
  BY <1>1, CreateStep, RemoveStep
<1>2. CASE \E f \in Files, n \in 1 .. MaxExtend : ExtendFile(t, f, n)
  BY <1>2, ExtendFileStep
<1>3. CASE \E f \in Files : Empty(t, f) \/ Shorten(t, f)
  BY <1>3, EmptyStep, ShortenStep
<1>4. CASE \E f \in Dirs : ExtendDirectory(t, f)
  BY <1>4, ExtendDirectoryStep
<1>5. CASE GetFreeSize(t)
  BY <1>5, GetFreeSizeStep
<1> QED BY <1>1, <1>2, <1>3, <1>4, <1>5 DEF Start

\* All steps stay in FatInv.
LEMMA StepKeepsFatInv ==
  ASSUME FatInv, NEW t \in Tasks, Step(t)
  PROVE  FatInv'
<1>1. CASE Claim(t) \/ MakeEntry(t) \/ MakeDots(t)
  BY <1>1, ClaimStep, MakeEntryStep, MakeDotsStep
<1>2. CASE CheckCount(t) \/ Recount(t) \/ AssignCount(t) \/ AdjustCount(t)
           \/ TestHint(t) \/ Seek(t)
  BY <1>2, CheckCountStep, RecountStep, AssignCountStep, AdjustCountStep,
     TestHintStep, SeekStep
<1>3. CASE BeginUnlink(t) \/ BeginCut(t) \/ Unlink(t) \/ Unlock(t) \/ Erase(t)
  BY <1>3, BeginUnlinkStep, BeginCutStep, UnlinkStep, UnlockStep, EraseStep
<1>4. CASE Enough(t) \/ BeginGrow(t) \/ Grow(t) \/ EndGrow(t)
  BY <1>4, EnoughStep, BeginGrowStep, GrowStep, EndGrowStep
<1> QED BY <1>1, <1>2, <1>3, <1>4 DEF Step

\* A freshly formatted, mounted partition.
LEMMA InitFatInv ==
  ASSUME Init
  PROVE  FatInv
<1>1. /\ RestType /\ pc \in [Tasks -> Pcs] /\ op \in [Tasks -> OpType]
  <2>1. count \in 0 .. CountModulus - 1
    BY FatAssumption DEF Init, FatAssumption
  <2> QED BY <2>1, NoOpType DEF Init, RestType, Links, Pcs
<1>2. TypeOK
  BY <1>1, TypeParts
<1>3. OneTaskPerObject
  BY NoOpType DEF Init, OneTaskPerObject
<1>4. LoopsHaveTheLock
  BY DEF Init, LoopsHaveTheLock, LoopPcs
<1>5. TasksOK
  <2> SUFFICES ASSUME NEW t \in Tasks
               PROVE  TaskOK(pc[t], op[t], fat, dirent, stale)
    BY DEF TasksOK
  <2>1. pc[t] = "idle" /\ op[t] = NoOp
    BY DEF Init
  <2> QED BY <2>1, IdleIsOK
<1>6. DirectoriesHaveAChain
  BY ValuesDiffer DEF Init, DirectoriesHaveAChain, Objects
<1>7. Refs
  <2>1. /\ \A c \in Clusters : fat[c] = Free
        /\ \A f \in Objects : dirent[f] = None
        /\ \A t \in Tasks : op[t].hand = 0
        /\ lost = {}
    BY NoOpType DEF Init
  <2> QED BY <2>1, ValuesDiffer
          DEF Refs, EntryRefs, LinkRefs, HandRefs, LostRefs, UsedIsNamed
<1> QED BY <1>2, <1>3, <1>4, <1>5, <1>6, <1>7 DEF FatInv

\* So do steps that change nothing.
LEMMA StutterKeepsFatInv ==
  ASSUME FatInv, UNCHANGED vars
  PROVE  FatInv'
BY DEF vars, history, FatInv, TypeOK, OneTaskPerObject, LoopsHaveTheLock, TasksOK,
       DirectoriesHaveAChain, Refs, EntryRefs, LinkRefs, HandRefs, LostRefs,
       UsedIsNamed, Named

\* FatInv is an invariant.
THEOREM FatInvariant == Spec => []FatInv
<1>1. Init => FatInv
  BY InitFatInv
<1>2. FatInv /\ [Next]_vars => FatInv'
  <2> SUFFICES ASSUME FatInv, [Next]_vars PROVE FatInv'
    OBVIOUS
  <2>1. ASSUME NEW t \in Tasks, Start(t) \/ Step(t) PROVE FatInv'
    BY <2>1, StartKeepsFatInv, StepKeepsFatInv
  <2>2. CASE Remount
    BY <2>2, RemountStep
  <2>3. CASE UNCHANGED vars
    BY <2>3, StutterKeepsFatInv
  <2> QED BY <2>1, <2>2, <2>3 DEF Next
<1> QED BY <1>1, <1>2, PTL DEF Spec

\* The fields of the partition and the local variables have their types.
THEOREM FatTypes == Spec => []TypeOK
<1>1. FatInv => TypeOK
  BY DEF FatInv
<1> QED BY <1>1, FatInvariant, PTL

\* What OwnedOnce says, from the pairs of FatInv.
LEMMA RefsAreSingle ==
  ASSUME FatInv
  PROVE  OwnedOnce
<1>1. Refs /\ RefsType
  BY TypeParts DEF FatInv, RestType, RefsType
<1> SUFFICES ASSUME NEW c \in Clusters
             PROVE  IF fat[c] = Free THEN Owners(c) = {}
                    ELSE \E o \in Owners(c) : Owners(c) = {o}
  BY DEF OwnedOnce
<1> DEFINE E == {<<"entry", f>> : f \in {f \in Objects \ stale : dirent[f] = c}}
           L == {<<"link", b>> : b \in {b \in Clusters : fat[b] = c}}
           H == {<<"task", t>> : t \in {t \in Tasks : op[t].hand = c}}
           O == {<<"lost", b>> : b \in lost \cap {c}}
<1>2. Owners(c) = E \cup L \cup H \cup O
  BY DEF Owners
<1>3. CASE fat[c] = Free
  <2>1. /\ c \notin lost /\ \A f \in Objects \ stale : dirent[f] # c
        /\ \A b \in Clusters : fat[b] # c
        /\ \A u \in Tasks : op[u].hand # c
    BY <1>1, <1>3, FreeIsUnnamed
  <2>2. E = {} /\ L = {} /\ H = {} /\ O = {}
    BY <2>1
  <2> QED BY <1>2, <1>3, <2>2
<1>4. CASE fat[c] # Free
  <2>1. Named(c)
    BY <1>1, <1>4 DEF Refs, UsedIsNamed
  <2>2. CASE \E f \in Objects \ stale : dirent[f] = c
    <3> PICK f \in Objects \ stale : dirent[f] = c
      BY <2>2
    <3>1. /\ c \notin lost /\ \A b \in Clusters : fat[b] # c
          /\ \A t \in Tasks : op[t].hand # c
          /\ \A g \in Objects \ stale : dirent[g] = c => g = f
      BY <1>1 DEF Refs, EntryRefs
    <3>2. E = {<<"entry", f>>} /\ L = {} /\ H = {} /\ O = {}
      BY <3>1
    <3> QED BY <1>2, <1>4, <3>2
  <2>3. CASE \E b \in Clusters : fat[b] = c
    <3> PICK b \in Clusters : fat[b] = c
      BY <2>3
    <3>1. /\ c \notin lost /\ \A f \in Objects \ stale : dirent[f] # c
          /\ \A t \in Tasks : op[t].hand # c
          /\ \A a \in Clusters : fat[a] = c => a = b
      BY <1>1 DEF Refs, EntryRefs, LinkRefs
    <3>2. L = {<<"link", b>>} /\ E = {} /\ H = {} /\ O = {}
      BY <3>1
    <3> QED BY <1>2, <1>4, <3>2
  <2>4. CASE \E t \in Tasks : op[t].hand = c
    <3> PICK t \in Tasks : op[t].hand = c
      BY <2>4
    <3>1. /\ c \notin lost /\ \A f \in Objects \ stale : dirent[f] # c
          /\ \A b \in Clusters : fat[b] # c
          /\ \A u \in Tasks : op[u].hand = c => u = t
      BY <1>1 DEF Refs, EntryRefs, LinkRefs, HandRefs
    <3>2. H = {<<"task", t>>} /\ E = {} /\ L = {} /\ O = {}
      BY <3>1
    <3> QED BY <1>2, <1>4, <3>2
  <2>5. CASE c \in lost
    <3>1. /\ \A f \in Objects \ stale : dirent[f] # c
          /\ \A b \in Clusters : fat[b] # c
          /\ \A t \in Tasks : op[t].hand # c
      BY <1>1, <2>5 DEF Refs, EntryRefs, LinkRefs, HandRefs
    <3>2. O = {<<"lost", c>>} /\ E = {} /\ L = {} /\ H = {}
      BY <2>5, <3>1
    <3> QED BY <1>2, <1>4, <3>2
  <2> QED BY <2>1, <2>2, <2>3, <2>4, <2>5 DEF Named
<1> QED BY <1>3, <1>4

\* A cluster in use belongs to exactly one chain, task or list of the lost, a
\* free one to none, for any number of clusters, objects and tasks.
THEOREM ClustersAreOwnedOnce == Spec => []OwnedOnce
<1>1. FatInv => OwnedOnce
  BY RefsAreSingle
<1> QED BY <1>1, FatInvariant, PTL

-----------------------------------------------------------------------------
(* The lock and the hint.                                                   *)

\* Where a task may have the FAT lock.
LockedAt(p, o) == p \in LoopPcs \/ p = "unlock" \/ (p \in CountPcs /\ o.ret = "unlock")

\* A task at p with the variables o, the lock L and the hint H: a directory that was
\* given a cluster moved the hint, so FF_DecreaseFreeClusters does not look for another.
Careful(t, p, o, L, H) ==
  /\ o.kind = "measure" => o.why = "look"
  /\ L = t =>
       /\ LockedAt(p, o)
       /\ p \in CountPcs /\ o.why = "less" => p # "seek" /\ H > 0
       /\ p \in {"growing", "grown"} /\ o.done > 0 => H > 0

AllCareful == \A t \in Tasks : Careful(t, pc[t], op[t], lock, hint)

\* A step of t that leaves the hint alone while another task has the lock.
LEMMA MoveCareful ==
  ASSUME FatInv, AllCareful, NEW t \in Tasks, NEW p, NEW o, Go(t, p, o),
         lock' \in {lock, t, None}, lock \in {t, None} \/ hint' = hint,
         Careful(t, p, o, lock', hint')
  PROVE  AllCareful'
<1> SUFFICES ASSUME NEW u \in Tasks PROVE Careful(u, pc'[u], op'[u], lock', hint')
  BY DEF AllCareful
<1>1. /\ pc'[t] = p /\ op'[t] = o
      /\ \A v \in Tasks \ {t} : pc'[v] = pc[v] /\ op'[v] = op[v]
  BY GoMoves DEF FatInv
<1>2. CASE u = t BY <1>1, <1>2
<1>3. CASE u # t
  <2>1. Careful(u, pc[u], op[u], lock, hint) BY DEF AllCareful
  <2>2. lock' = u => lock = u BY <1>3, ValuesDiffer
  <2>3. lock = u => hint' = hint BY <1>3, ValuesDiffer
  <2> QED BY <1>1, <1>3, <2>1, <2>2, <2>3 DEF Careful
<1> QED BY <1>2, <1>3

\* A step that neither takes the lock nor has it.
LEMMA UnlockedCareful ==
  ASSUME FatInv, AllCareful, NEW t \in Tasks, NEW p, NEW o, Go(t, p, o),
         lock' = lock, lock # t, lock = None \/ hint' = hint,
         o.kind = "measure" => o.why = "look"
  PROVE  AllCareful'
BY MoveCareful DEF Careful

\* An idle task has not the lock.
LEMMA HasNotTheLock ==
  ASSUME AllCareful, NEW t \in Tasks,
         pc[t] \notin LoopPcs, pc[t] # "unlock", pc[t] \in CountPcs => op[t].ret # "unlock"
  PROVE  lock # t
BY DEF AllCareful, Careful, LockedAt

\* Operations start without the lock.
LEMMA BeginCareful ==
  ASSUME FatInv, AllCareful, NEW t \in Tasks, NEW f \in Objects, NEW k, NEW p, NEW o,
         k # "measure", NEW n, Started(k, f, o, n), Begin(t, f, k, p, o)
  PROVE  AllCareful'
<1>1. pc[t] = "idle" /\ lock' = lock /\ hint' = hint BY DEF Begin
<1>2. Go(t, p, n) BY DEF Begin, Started
<1>3. lock # t BY <1>1, HasNotTheLock DEF LoopPcs, CountPcs
<1> QED BY <1>1, <1>2, <1>3, UnlockedCareful DEF Started

\* No call starts with the lock.
LEMMA StartCareful ==
  ASSUME FatInv, AllCareful, NEW t \in Tasks, Start(t)
  PROVE  AllCareful'
<1>1. ASSUME NEW f \in Objects, Create(t, f) \/ Remove(t, f) PROVE AllCareful'
  BY <1>1, StartType, BeginCareful DEF Create, Remove
<1>2. ASSUME NEW f \in Files, NEW n \in 1 .. MaxExtend, ExtendFile(t, f, n) PROVE AllCareful'
  <2>1. f \in Objects /\ n \in Nat BY FatAssumption DEF FatAssumption, Objects
  <2>2. Begin(t, f, "extend", IF dirent[f] = 0 THEN "claim" ELSE "grow",
              [NoOp EXCEPT !.left = n])
    BY <1>2 DEF ExtendFile
  <2> QED BY <2>1, <2>2, StartFileType, BeginCareful
<1>3. ASSUME NEW f \in Files, Empty(t, f) \/ Shorten(t, f) PROVE AllCareful'
  <2>1. f \in Objects BY DEF Objects
  <2> QED BY <1>3, <2>1, StartType, BeginCareful DEF Empty, Shorten
<1>4. ASSUME NEW f \in Dirs, ExtendDirectory(t, f) PROVE AllCareful'
  <2>1. f \in Objects BY DEF Objects
  <2>2. Begin(t, f, "extend", "check", [NoOp EXCEPT !.left = 1, !.why = "look", !.ret = "enough"])
    BY <1>4 DEF ExtendDirectory
  <2> QED BY <2>1, <2>2, StartDirectoryType, BeginCareful
<1>5. CASE GetFreeSize(t)
  <2> DEFINE n == [NoOp EXCEPT !.kind = "measure", !.why = "look"]
  <2>1. pc[t] = "idle" /\ lock' = lock /\ hint' = hint /\ Go(t, "check", n)
    BY <1>5 DEF GetFreeSize
  <2>2. n.why = "look" BY DEF NoOp
  <2> HIDE DEF n
  <2>3. lock # t BY <2>1, HasNotTheLock DEF LoopPcs, CountPcs
  <2> QED BY <2>1, <2>2, <2>3, UnlockedCareful
<1> QED BY <1>1, <1>2, <1>3, <1>4, <1>5 DEF Start

\* A task that gives up has not the lock.
LEMMA FinishCareful ==
  ASSUME FatInv, AllCareful, NEW t \in Tasks, Finish(t),
         lock' = None \/ (lock' = lock /\ lock # t), lock \in {t, None} \/ hint' = hint
  PROVE  AllCareful'
<1>1. Go(t, "idle", NoOp) /\ NoOp.kind = "none" BY DEF Finish, NoOp
<1>2. lock' # t BY ValuesDiffer
<1> QED BY <1>1, <1>2, MoveCareful DEF Careful

\* FF_CreateFile and FF_MkDir claim a cluster and give the lock back.
LEMMA ClaimCareful ==
  ASSUME FatInv, AllCareful, NEW t \in Tasks, Claim(t)
  PROVE  AllCareful'
<1>1. pc[t] = "claim" /\ lock = None /\ lock' = lock /\ lock # t
  BY ValuesDiffer DEF Claim, LockIsFree
<1>2. op[t].kind \in {"create", "extend"} /\ op[t] \in OpType
  BY <1>1, TaskFacts DEF TaskOK
<1>3. ASSUME NEW c \in Usable,
             Go(t, "check", [op[t] EXCEPT !.hand = c, !.done = 1, !.why = "less", !.ret = "entry"])
      PROVE  AllCareful'
  <2> DEFINE o == [op[t] EXCEPT !.hand = c, !.done = 1, !.why = "less", !.ret = "entry"]
  <2>1. o.kind = op[t].kind BY <1>2 DEF OpType
  <2>2. Go(t, "check", o) BY <1>3
  <2> HIDE DEF o
  <2> QED BY <1>1, <1>2, <2>1, <2>2, UnlockedCareful
<1>4. CASE Finish(t) BY <1>1, <1>4, FinishCareful
<1> QED BY <1>3, <1>4 DEF Claim

\* The end of a count: with the lock, a task goes on to unlock.
LEMMA ReturnCareful ==
  ASSUME FatInv, AllCareful, NEW t \in Tasks, pc[t] \in CountPcs, NEW o,
         o.kind = op[t].kind, o.why = op[t].why, o.ret = op[t].ret, Return(t, o),
         lock' = lock, lock \in {t, None} \/ hint' = hint
  PROVE  AllCareful'
<1>1. Careful(t, pc[t], op[t], lock, hint) BY DEF AllCareful
<1>2. lock = t => o.ret = "unlock" BY <1>1 DEF Careful, LockedAt, LoopPcs, CountPcs
<1>3. CASE Finish(t) /\ o.ret # "unlock" BY <1>2, <1>3, FinishCareful
<1>4. CASE Go(t, o.ret, o)
  <2>1. Careful(t, o.ret, o, lock', hint')
    BY <1>1, <1>2 DEF Careful, LockedAt, LoopPcs, CountPcs
  <2> QED BY <1>4, <2>1, MoveCareful
<1> QED BY <1>3, <1>4 DEF Return, Finish

\* A move within the count.
LEMMA CountCareful ==
  ASSUME FatInv, AllCareful, NEW t \in Tasks, pc[t] \in CountPcs, NEW p \in CountPcs, NEW o,
         o.kind = op[t].kind, o.why = op[t].why, o.ret = op[t].ret, Go(t, p, o),
         lock' = lock, hint' = hint, p = "seek" => hint = 0
  PROVE  AllCareful'
<1>1. Careful(t, pc[t], op[t], lock, hint) BY DEF AllCareful
<1>2. Careful(t, p, o, lock', hint')
  BY <1>1 DEF Careful, LockedAt, LoopPcs, CountPcs
<1> QED BY <1>2, MoveCareful

\* The count is looked at with the lock or without it.
LEMMA CheckCountCareful ==
  ASSUME FatInv, AllCareful, NEW t \in Tasks, CheckCount(t)
  PROVE  AllCareful'
<1>1. pc[t] \in CountPcs /\ lock' = lock /\ hint' = hint BY DEF CheckCount, CountPcs
<1>2. CASE \E p \in {"recount", "adjust"} : Go(t, p, op[t])
  <2> PICK p \in {"recount", "adjust"} : Go(t, p, op[t]) BY <1>2
  <2>1. p \in CountPcs BY DEF CountPcs
  <2> QED BY <1>1, <2>1, CountCareful
<1>3. CASE Return(t, op[t]) BY <1>1, <1>3, ReturnCareful
<1> QED BY <1>2, <1>3 DEF CheckCount

\* FF_GetFreeSize counts with the lock.
LEMMA RecountCareful ==
  ASSUME FatInv, AllCareful, NEW t \in Tasks, Recount(t)
  PROVE  AllCareful'
<1> PICK r \in [val : {NumFree}, err : {FALSE}] \cup [val : {0}, err : {TRUE}] :
      Go(t, "assign",
         [op[t] EXCEPT !.val = r.val, !.err = r.err \/ @,
                       !.ret = IF op[t].kind = "measure" THEN "unlock" ELSE @])
  BY DEF Recount
<1> DEFINE o == [op[t] EXCEPT !.val = r.val, !.err = r.err \/ @,
                   !.ret = IF op[t].kind = "measure" THEN "unlock" ELSE @]
<1>1. /\ pc[t] = "recount" /\ hint' = hint /\ lock \in {None, t}
      /\ lock' = IF op[t].kind = "measure" THEN t ELSE lock
  BY DEF Recount, MayCount
<1>2. op[t] \in OpType /\ Careful(t, pc[t], op[t], lock, hint) BY TaskFacts DEF AllCareful
<1>3. /\ o.kind = op[t].kind /\ o.why = op[t].why
      /\ o.ret = IF op[t].kind = "measure" THEN "unlock" ELSE op[t].ret
  BY <1>2 DEF OpType
<1>4. Go(t, "assign", o) OBVIOUS
<1> HIDE DEF o
<1>5. Careful(t, "assign", o, lock', hint')
  BY <1>1, <1>2, <1>3 DEF Careful, LockedAt, LoopPcs, CountPcs
<1> QED BY <1>1, <1>4, <1>5, MoveCareful

\* The count is assigned.
LEMMA AssignCountCareful ==
  ASSUME FatInv, AllCareful, NEW t \in Tasks, AssignCount(t)
  PROVE  AllCareful'
<1> DEFINE o == [op[t] EXCEPT !.val = 0, !.done = 0]
<1>1. pc[t] \in CountPcs /\ lock' = lock /\ hint' = hint /\ op[t] \in OpType
  BY TaskFacts DEF AssignCount, CountPcs
<1>2. o.kind = op[t].kind /\ o.why = op[t].why /\ o.ret = op[t].ret BY <1>1 DEF OpType
<1>3. Return(t, op[t]) \/ Go(t, "hint", o) BY DEF AssignCount
<1> HIDE DEF o
<1> QED BY <1>1, <1>2, <1>3, ReturnCareful, CountCareful DEF CountPcs

\* The count is adjusted.
LEMMA AdjustCountCareful ==
  ASSUME FatInv, AllCareful, NEW t \in Tasks, AdjustCount(t)
  PROVE  AllCareful'
<1> DEFINE o == [op[t] EXCEPT !.done = 0]
<1>1. pc[t] \in CountPcs /\ lock' = lock /\ hint' = hint /\ op[t] \in OpType
  BY TaskFacts DEF AdjustCount, CountPcs
<1>2. o.kind = op[t].kind /\ o.why = op[t].why /\ o.ret = op[t].ret BY <1>1 DEF OpType
<1>3. Go(t, "hint", o) BY DEF AdjustCount
<1> HIDE DEF o
<1> QED BY <1>1, <1>2, <1>3, CountCareful DEF CountPcs

\* A hint that is set is left alone.
LEMMA TestHintCareful ==
  ASSUME FatInv, AllCareful, NEW t \in Tasks, TestHint(t)
  PROVE  AllCareful'
<1>1. pc[t] \in CountPcs /\ lock' = lock /\ hint' = hint
  BY DEF TestHint, CountPcs
<1> QED BY <1>1, ReturnCareful, CountCareful DEF TestHint, CountPcs

\* The search that FF_DecreaseFreeClusters takes the lock for.
LEMMA SeekCareful ==
  ASSUME FatInv, AllCareful, NEW t \in Tasks, Seek(t)
  PROVE  AllCareful'
<1> DEFINE o == [op[t] EXCEPT !.err = TRUE]
<1>1. pc[t] \in CountPcs /\ lock' = lock /\ lock \in {t, None} /\ op[t] \in OpType
  BY TaskFacts DEF Seek, CountPcs, LockIsFree, MayCount
<1>2. o.kind = op[t].kind /\ o.why = op[t].why /\ o.ret = op[t].ret BY <1>1 DEF OpType
<1>3. Return(t, op[t]) \/ Return(t, o) BY DEF Seek
<1> HIDE DEF o
<1> QED BY <1>1, <1>2, <1>3, ReturnCareful

\* The directory entry is made without the lock.
LEMMA MakeEntryCareful ==
  ASSUME FatInv, AllCareful, NEW t \in Tasks, MakeEntry(t)
  PROVE  AllCareful'
<1>1. pc[t] = "entry" /\ lock' = lock /\ hint' = hint /\ op[t] \in OpType
      /\ (op[t].kind = "measure" => op[t].why = "look")
  BY TaskFacts DEF MakeEntry, AllCareful, Careful
<1>2. lock # t BY <1>1, HasNotTheLock DEF LoopPcs, CountPcs
<1> DEFINE after == [op[t] EXCEPT !.hand = 0, !.left = @ - 1]
           dots == [op[t] EXCEPT !.hand = 0]
<1>3. /\ after.kind = op[t].kind /\ after.why = op[t].why
      /\ dots.kind = op[t].kind /\ dots.why = op[t].why
  BY <1>1 DEF OpType
<1>4. Go(t, "dots", dots) \/ Go(t, "grow", after) \/ Finish(t) \/ Go(t, "unlink", op[t])
  BY DEF MakeEntry
<1> HIDE DEF after, dots
<1> QED BY <1>1, <1>2, <1>3, <1>4, UnlockedCareful, FinishCareful

\* So are the entries of a new directory.
LEMMA MakeDotsCareful ==
  ASSUME FatInv, AllCareful, NEW t \in Tasks, MakeDots(t)
  PROVE  AllCareful'
<1>1. pc[t] = "dots" /\ lock' = lock /\ hint' = hint /\ op[t] \in OpType
      /\ (op[t].kind = "measure" => op[t].why = "look")
  BY TaskFacts DEF MakeDots, AllCareful, Careful
<1>2. lock # t BY <1>1, HasNotTheLock DEF LoopPcs, CountPcs
<1> DEFINE o == [op[t] EXCEPT !.hand = dirent[op[t].obj]]
<1>3. o.kind = op[t].kind /\ o.why = op[t].why BY <1>1 DEF OpType
<1>4. Finish(t) \/ Go(t, "unlink", o) BY DEF MakeDots
<1> HIDE DEF o
<1> QED BY <1>1, <1>2, <1>3, <1>4, UnlockedCareful, FinishCareful

\* The FAT lock is taken for a loop.
LEMMA BeginLoopCareful ==
  ASSUME FatInv, AllCareful, NEW t \in Tasks, NEW p \in {"unlinking", "growing", "grown", "unlock"},
         NEW o, Go(t, p, o), o.kind = op[t].kind, o.why = op[t].why,
         p \in {"growing", "grown"} => o.done = 0,
         lock = None, lock' = t, hint' = hint
  PROVE  AllCareful'
<1>1. op[t].kind = "measure" => op[t].why = "look" BY DEF AllCareful, Careful
<1>2. Careful(t, p, o, lock', hint')
  BY <1>1 DEF Careful, LockedAt, LoopPcs, CountPcs
<1> QED BY <1>2, MoveCareful

\* FF_UnlinkClusterChain is called with the lock.
LEMMA BeginUnlinkCareful ==
  ASSUME FatInv, AllCareful, NEW t \in Tasks, BeginUnlink(t)
  PROVE  AllCareful'
<1> DEFINE first == IF Frees(t) THEN dirent[op[t].obj] ELSE op[t].hand
           o == [op[t] EXCEPT !.hand = first, !.low = first, !.done = 0]
<1>1. lock = None /\ lock' = t /\ hint' = hint /\ op[t] \in OpType
  BY TaskFacts DEF BeginUnlink, LockIsFree
<1> HIDE DEF first
<1>2. o.kind = op[t].kind /\ o.why = op[t].why BY <1>1 DEF OpType
<1>3. Go(t, "unlinking", o) BY DEF BeginUnlink, first
<1> HIDE DEF o
<1> QED BY <1>1, <1>2, <1>3, BeginLoopCareful

\* So is FF_Truncate's.
LEMMA BeginCutCareful ==
  ASSUME FatInv, AllCareful, NEW t \in Tasks, BeginCut(t)
  PROVE  AllCareful'
<1>1. lock = None /\ lock' = t /\ hint' = hint /\ op[t] \in OpType
  BY TaskFacts DEF BeginCut, LockIsFree
<1>2. ASSUME NEW c, Go(t, "unlinking", [op[t] EXCEPT !.hand = fat[c], !.low = c])
      PROVE  AllCareful'
  <2> DEFINE o == [op[t] EXCEPT !.hand = fat[c], !.low = c]
  <2>1. o.kind = op[t].kind /\ o.why = op[t].why BY <1>1 DEF OpType
  <2>2. Go(t, "unlinking", o) BY <1>2
  <2> HIDE DEF o
  <2> QED BY <1>1, <2>1, <2>2, BeginLoopCareful
<1>3. CASE Go(t, "unlock", [op[t] EXCEPT !.err = TRUE])
  <2> DEFINE o == [op[t] EXCEPT !.err = TRUE]
  <2>1. o.kind = op[t].kind /\ o.why = op[t].why BY <1>1 DEF OpType
  <2>2. Go(t, "unlock", o) BY <1>3
  <2> HIDE DEF o
  <2> QED BY <1>1, <2>1, <2>2, BeginLoopCareful
<1> QED BY <1>2, <1>3 DEF BeginCut

\* A file or a directory is extended with the lock.
LEMMA BeginGrowCareful ==
  ASSUME FatInv, AllCareful, NEW t \in Tasks, BeginGrow(t)
  PROVE  AllCareful'
<1>1. lock = None /\ lock' = t /\ hint' = hint /\ op[t] \in OpType
  BY TaskFacts DEF BeginGrow, LockIsFree
<1>2. ASSUME NEW c, Go(t, "growing", [op[t] EXCEPT !.tail = c, !.done = 0])
      PROVE  AllCareful'
  <2> DEFINE o == [op[t] EXCEPT !.tail = c, !.done = 0]
  <2>1. o.kind = op[t].kind /\ o.why = op[t].why /\ o.done = 0 BY <1>1 DEF OpType
  <2>2. Go(t, "growing", o) BY <1>2
  <2> HIDE DEF o
  <2> QED BY <1>1, <2>1, <2>2, BeginLoopCareful
<1>3. CASE Go(t, "grown", [op[t] EXCEPT !.done = 0])
  <2> DEFINE o == [op[t] EXCEPT !.done = 0]
  <2>1. o.kind = op[t].kind /\ o.why = op[t].why /\ o.done = 0 BY <1>1 DEF OpType
  <2>2. Go(t, "grown", o) BY <1>3
  <2> HIDE DEF o
  <2> QED BY <1>1, <2>1, <2>2, BeginLoopCareful
<1> QED BY <1>2, <1>3 DEF BeginGrow

\* After the loop the count is raised, never lowered.
LEMMA UnlinkCareful ==
  ASSUME FatInv, AllCareful, NEW t \in Tasks, Unlink(t)
  PROVE  AllCareful'
<1>1. /\ pc[t] = "unlinking" /\ lock' = lock /\ lock = t /\ op[t] \in OpType
      /\ op[t].kind \in {"create", "remove", "empty", "cut"}
  BY TaskFacts DEF Unlink, FatInv, LoopsHaveTheLock, LoopPcs, TaskOK
<1>2. ASSUME NEW c, NEW low,
             Go(t, "unlinking", [op[t] EXCEPT !.hand = c, !.low = low, !.done = @ + 1])
      PROVE  AllCareful'
  <2> DEFINE o == [op[t] EXCEPT !.hand = c, !.low = low, !.done = @ + 1]
  <2>1. o.kind = op[t].kind BY <1>1 DEF OpType
  <2>2. Go(t, "unlinking", o) BY <1>2
  <2> HIDE DEF o
  <2>3. Careful(t, "unlinking", o, lock', hint')
    BY <1>1, <2>1 DEF Careful, LockedAt, LoopPcs, CountPcs
  <2> QED BY <1>1, <2>2, <2>3, MoveCareful
<1>3. ASSUME NEW n, NEW e, AfterUnlink(t, n, e) PROVE AllCareful'
  <2> DEFINE o == [op[t] EXCEPT !.hand = 0, !.low = 0, !.done = n, !.err = e,
                                !.why = "more", !.ret = "unlock"]
             p == IF n = 0 THEN "unlock" ELSE "check"
  <2>1. o.kind = op[t].kind /\ o.why = "more" /\ o.ret = "unlock" BY <1>1 DEF OpType
  <2>2. Go(t, p, o) /\ p \in {"unlock", "check"} BY <1>3 DEF AfterUnlink
  <2> HIDE DEF o, p
  <2>3. Careful(t, p, o, lock', hint')
    BY <1>1, <2>1, <2>2 DEF Careful, LockedAt, LoopPcs, CountPcs
  <2> QED BY <1>1, <2>2, <2>3, MoveCareful
<1> QED BY <1>2, <1>3 DEF Unlink

\* The lock is given back.
LEMMA UnlockCareful ==
  ASSUME FatInv, AllCareful, NEW t \in Tasks, Unlock(t)
  PROVE  AllCareful'
<1>1. lock' = (IF lock = t THEN None ELSE lock) /\ hint' = hint /\ lock' # t
  BY ValuesDiffer DEF Unlock
<1>2. op[t].kind = "measure" => op[t].why = "look" BY DEF AllCareful, Careful
<1>3. CASE Go(t, "erase", op[t])
  <2>1. Careful(t, "erase", op[t], lock', hint') BY <1>1, <1>2 DEF Careful
  <2> QED BY <1>1, <1>3, <2>1, MoveCareful
<1>4. CASE Finish(t)
  <2>1. Go(t, "idle", NoOp) /\ NoOp.kind = "none" BY <1>4 DEF Finish, NoOp
  <2>2. Careful(t, "idle", NoOp, lock', hint') BY <1>1, <2>1 DEF Careful
  <2> QED BY <1>1, <2>1, <2>2, MoveCareful
<1> QED BY <1>3, <1>4 DEF Unlock

\* The entry of a removed file is deleted without the lock.
LEMMA EraseCareful ==
  ASSUME FatInv, AllCareful, NEW t \in Tasks, Erase(t)
  PROVE  AllCareful'
<1>1. pc[t] = "erase" /\ lock' = lock /\ hint' = hint /\ Finish(t) BY DEF Erase
<1>2. lock # t BY <1>1, HasNotTheLock DEF LoopPcs, CountPcs
<1> QED BY <1>1, <1>2, FinishCareful

\* FF_ExtendDirectory goes on or gives up without the lock.
LEMMA EnoughCareful ==
  ASSUME FatInv, AllCareful, NEW t \in Tasks, Enough(t)
  PROVE  AllCareful'
<1>1. pc[t] = "enough" /\ lock' = lock /\ hint' = hint
      /\ (op[t].kind = "measure" => op[t].why = "look")
  BY DEF Enough, AllCareful, Careful
<1>2. lock # t BY <1>1, HasNotTheLock DEF LoopPcs, CountPcs
<1>3. Finish(t) \/ Go(t, "grow", op[t]) BY DEF Enough
<1> QED BY <1>1, <1>2, <1>3, FinishCareful, UnlockedCareful

\* A cluster that was claimed leaves the hint behind it.
LEMMA GrowCareful ==
  ASSUME FatInv, AllCareful, NEW t \in Tasks, Grow(t)
  PROVE  AllCareful'
<1>1. /\ pc[t] = "growing" /\ lock' = lock /\ lock = t /\ op[t] \in OpType
      /\ op[t].kind = "extend"
  BY TaskFacts DEF Grow, FatInv, LoopsHaveTheLock, LoopPcs, TaskOK
<1>2. op[t].done > 0 => hint > 0 BY <1>1 DEF AllCareful, Careful
<1>3. \A c \in Usable : c \in Nat /\ c > 0 BY DEF Usable
<1>4. ASSUME NEW p \in {"growing", "grown"}, NEW o, Go(t, p, o), o.kind = "extend",
             o.done > 0 => hint' > 0
      PROVE  AllCareful'
  <2>1. Careful(t, p, o, lock', hint')
    BY <1>1, <1>4 DEF Careful, LockedAt, LoopPcs, CountPcs
  <2> QED BY <1>1, <1>4, <2>1, MoveCareful
<1>5. ASSUME NEW c \in Usable, ClaimIn(c),
             Go(t, IF op[t].left = 1 THEN "grown" ELSE "growing",
                   [op[t] EXCEPT !.tail = c, !.left = @ - 1, !.done = @ + 1])
      PROVE  AllCareful'
  <2> DEFINE o == [op[t] EXCEPT !.tail = c, !.left = @ - 1, !.done = @ + 1]
             p == IF op[t].left = 1 THEN "grown" ELSE "growing"
  <2>1. o.kind = "extend" BY <1>1 DEF OpType
  <2>2. Go(t, p, o) /\ p \in {"growing", "grown"} BY <1>5
  <2>3. hint' > 0 BY <1>3, <1>5 DEF ClaimIn
  <2> HIDE DEF o, p
  <2> QED BY <1>4, <2>1, <2>2, <2>3
<1>6. CASE Go(t, "grown", op[t]) /\ UNCHANGED hint BY <1>1, <1>2, <1>4, <1>6
<1>7. CASE ClaimFails /\ Go(t, "grown", op[t])
  <2>1. hint' = hint \/ hint' > 0 BY <1>3, <1>7 DEF ClaimFails, ClaimIn
  <2> QED BY <1>1, <1>2, <1>4, <1>7, <2>1
<1>8. ASSUME NEW c \in Usable, ClaimIn(c),
             Go(t, "grown", [op[t] EXCEPT !.done = IF op[t].obj \in Dirs THEN 1 ELSE @])
      PROVE  AllCareful'
  <2> DEFINE o == [op[t] EXCEPT !.done = IF op[t].obj \in Dirs THEN 1 ELSE @]
  <2>1. o.kind = "extend" BY <1>1 DEF OpType
  <2>2. Go(t, "grown", o) BY <1>8
  <2>3. hint' > 0 BY <1>3, <1>8 DEF ClaimIn
  <2> HIDE DEF o
  <2> QED BY <1>4, <2>1, <2>2, <2>3
<1> QED BY <1>5, <1>6, <1>7, <1>8 DEF Grow

\* FF_ExtendDirectory lowers the count with the lock, and only if the hint has moved.
LEMMA EndGrowCareful ==
  ASSUME FatInv, AllCareful, NEW t \in Tasks, EndGrow(t)
  PROVE  AllCareful'
<1> DEFINE file == op[t].obj \in Files
           less == [op[t] EXCEPT !.tail = 0, !.left = 0, !.why = "less",
                                 !.ret = IF file THEN "idle" ELSE "unlock"]
<1>1. /\ pc[t] = "grown" /\ lock = t /\ op[t] \in OpType /\ hint' = hint
      /\ op[t].kind = "extend" /\ (op[t].done > 0 => hint > 0)
      /\ lock' = IF file THEN None ELSE lock
  BY TaskFacts DEF EndGrow, FatInv, LoopsHaveTheLock, LoopPcs, TaskOK, AllCareful, Careful
<1>2. /\ less.kind = "extend" /\ less.why = "less"
      /\ less.ret = IF file THEN "idle" ELSE "unlock"
  BY <1>1 DEF OpType
<1>3. IF file \/ op[t].done = 1 THEN Go(t, "check", less) ELSE Go(t, "unlock", op[t])
  BY DEF EndGrow
<1> HIDE DEF less
<1>4. CASE Go(t, "check", less) /\ (file \/ op[t].done = 1)
  <2>1. Careful(t, "check", less, lock', hint')
    BY <1>1, <1>2, <1>4, ValuesDiffer DEF Careful, LockedAt, LoopPcs, CountPcs
  <2> QED BY <1>1, <1>4, <2>1, MoveCareful
<1>5. CASE Go(t, "unlock", op[t])
  <2>1. Careful(t, "unlock", op[t], lock', hint')
    BY <1>1 DEF Careful, LockedAt, LoopPcs, CountPcs
  <2> QED BY <1>1, <1>5, <2>1, MoveCareful
<1> QED BY <1>3, <1>4, <1>5

\* Every step preserves AllCareful.
LEMMA CarefulStep ==
  ASSUME FatInv, AllCareful, [Next]_vars
  PROVE  AllCareful'
<1>1. ASSUME NEW t \in Tasks, Start(t) PROVE AllCareful' BY <1>1, StartCareful
<1>2. ASSUME NEW t \in Tasks, Step(t) PROVE AllCareful'
  <2>1. CASE Claim(t) \/ MakeEntry(t) \/ MakeDots(t)
    BY <2>1, ClaimCareful, MakeEntryCareful, MakeDotsCareful
  <2>2. CASE CheckCount(t) \/ Recount(t) \/ AssignCount(t) \/ AdjustCount(t)
             \/ TestHint(t) \/ Seek(t)
    BY <2>2, CheckCountCareful, RecountCareful, AssignCountCareful, AdjustCountCareful,
       TestHintCareful, SeekCareful
  <2>3. CASE BeginUnlink(t) \/ BeginCut(t) \/ Unlink(t) \/ Unlock(t) \/ Erase(t)
    BY <2>3, BeginUnlinkCareful, BeginCutCareful, UnlinkCareful, UnlockCareful, EraseCareful
  <2>4. CASE Enough(t) \/ BeginGrow(t) \/ Grow(t) \/ EndGrow(t)
    BY <2>4, EnoughCareful, BeginGrowCareful, GrowCareful, EndGrowCareful
  <2> QED BY <1>2, <2>1, <2>2, <2>3, <2>4 DEF Step
<1>3. CASE Remount
  <2> SUFFICES ASSUME NEW t \in Tasks PROVE Careful(t, pc'[t], op'[t], lock', hint')
    BY DEF AllCareful
  <2>1. pc' = pc /\ op' = op /\ lock' = lock /\ pc[t] = "idle" BY <1>3 DEF Remount
  <2>2. Careful(t, pc[t], op[t], lock, hint) BY DEF AllCareful
  <2> QED BY <2>1, <2>2 DEF Careful, LockedAt, LoopPcs, CountPcs
<1>4. CASE UNCHANGED vars BY <1>4 DEF vars, AllCareful
<1> QED BY <1>1, <1>2, <1>3, <1>4 DEF Next

\* A task that waits for the FAT lock does not have it.
LEMMA CarefulTasksDoNotWait == AllCareful => LockIsNeverTakenTwice
BY DEF AllCareful, Careful, LockedAt, LoopPcs, CountPcs, LockIsNeverTakenTwice

\* No task takes the FAT lock twice, so the configASSERT of FF_LockFAT never fires: before
\* FF_ExtendDirectory calls FF_DecreaseFreeClusters with the lock held the hint has moved
\* past a cluster, and the function does not take the lock to look for another.
THEOREM NoTaskLocksTwice == Spec => []LockIsNeverTakenTwice
<1>1. Init => AllCareful
  BY ValuesDiffer DEF Init, AllCareful, Careful, NoOp
<1>2. FatInv /\ AllCareful /\ [Next]_vars => AllCareful' BY CarefulStep
<1> QED BY <1>1, <1>2, CarefulTasksDoNotWait, FatInvariant, PTL DEF Spec
-----------------------------------------------------------------------------
(* The hint.                                                                *)

\* No free cluster is below the hint, except those a task in FF_UnlinkClusterChain has
\* freed so far: its ulLastFree is at or below them.
HintFollows ==
  ~failed => \A c \in Usable : fat[c] = Free =>
    hint <= c \/ \E t \in Tasks : pc[t] = "unlinking" /\ op[t].low <= c

\* With the FAT lock free, or held by a task that frees nothing, the hint is low.
LEMMA HintIsLowForOne ==
  ASSUME FatInv, HintFollows, ~failed, NEW t, lock \in {None, t},
         t \in Tasks => pc[t] # "unlinking"
  PROVE  \A c \in Usable : fat[c] = Free => hint <= c
BY ValuesDiffer DEF FatInv, LoopsHaveTheLock, LoopPcs, HintFollows

\* A step of t that frees nothing and leaves the hint.
LEMMA QuietHint ==
  ASSUME FatInv, HintFollows, NEW t \in Tasks, pc[t] # "unlinking",
         \E p, o : Go(t, p, o), fat' = fat, hint' = hint, failed => failed'
  PROVE  HintFollows'
<1>1. \A u \in Tasks \ {t} : pc'[u] = pc[u] /\ op'[u] = op[u]
  BY GoMoves DEF FatInv
<1> QED BY <1>1 DEF HintFollows

\* FF_FindFreeCluster moves the hint over clusters in use only.
LEMMA ClaimedHint ==
  ASSUME FatInv, HintFollows, NEW t \in Tasks, pc[t] # "unlinking", lock \in {None, t},
         failed' = failed, NEW c \in Usable, ClaimIn(c), fat'[c] # Free,
         \A d \in Usable \ {c} : fat'[d] = Free => fat[d] = Free
  PROVE  HintFollows'
<1>1. CASE failed BY <1>1 DEF HintFollows
<1>2. CASE ~failed
  <2>1. \A d \in Usable : fat[d] = Free => hint <= d
    BY <1>2, HintIsLowForOne
  <2>2. \A d \in Usable : d \in Int BY ValuesDiffer
  <2>3. \A d \in Usable : fat'[d] = Free => hint' <= d
    BY <2>1, <2>2 DEF ClaimIn, Finds
  <2> QED BY <2>3 DEF HintFollows
<1> QED BY <1>1, <1>2

\* A failing access excuses the hint.
LEMMA FailedHint == ASSUME failed' = TRUE PROVE HintFollows'
BY DEF HintFollows

\* A call that starts leaves the hint.
LEMMA StartHint ==
  ASSUME FatInv, HintFollows, NEW t \in Tasks, Start(t)
  PROVE  HintFollows'
<1>1. /\ pc[t] = "idle" /\ fat' = fat /\ hint' = hint /\ failed' = failed
      /\ \E p, o : Go(t, p, o)
  BY DEF Start, Create, Remove, ExtendFile, Empty, Shorten, ExtendDirectory, GetFreeSize,
         Begin, disk, history
<1> QED BY <1>1, QuietHint

\* FF_CreateClusterChain claims the first free cluster.
LEMMA ClaimHint ==
  ASSUME FatInv, HintFollows, NEW t \in Tasks, Claim(t)
  PROVE  HintFollows'
<1>1. pc[t] = "claim" /\ lock = None /\ fat \in [Clusters -> Links]
  BY DEF Claim, LockIsFree, FatInv, TypeOK
<1>2. ASSUME NEW c \in Usable, ClaimIn(c), fat' = [fat EXCEPT ![c] = EOC], failed' = failed
      PROVE  HintFollows'
  <2>1. fat'[c] # Free /\ \A d \in Usable \ {c} : fat'[d] = fat[d]
    BY <1>1, <1>2, ValuesDiffer
  <2> QED BY <1>1, <1>2, <2>1, ClaimedHint
<1>3. CASE Finish(t) /\ UNCHANGED <<fat, hint, failed>>
  BY <1>1, <1>3, QuietHint DEF Finish
<1>4. CASE ClaimFails BY <1>4, FailedHint DEF ClaimFails, Fails
<1> QED BY <1>2, <1>3, <1>4 DEF Claim

\* The steps of the count, of the directory entry and of the lock leave the FAT and the
\* hint alone.
LEMMA CalmHint ==
  ASSUME FatInv, HintFollows, NEW t \in Tasks,
         \/ CheckCount(t) \/ Recount(t) \/ AssignCount(t) \/ AdjustCount(t) \/ TestHint(t)
         \/ MakeEntry(t) \/ MakeDots(t) \/ BeginUnlink(t) \/ Unlock(t) \/ Erase(t)
         \/ Enough(t) \/ BeginGrow(t) \/ EndGrow(t)
  PROVE  HintFollows'
<1>1. ASSUME NEW o, Return(t, o) PROVE \E p, q : Go(t, p, q)
  BY <1>1 DEF Return, Finish
<1>2. CASE CheckCount(t) \/ TestHint(t)
  <2>1. /\ pc[t] # "unlinking" /\ fat' = fat /\ hint' = hint /\ failed' = failed
        /\ \E p, o : Go(t, p, o)
    BY <1>1, <1>2 DEF CheckCount, TestHint, disk
  <2> QED BY <2>1, QuietHint
<1>3. CASE Recount(t)
  <2>1. /\ pc[t] # "unlinking" /\ fat' = fat /\ hint' = hint /\ (failed => failed')
        /\ \E p, o : Go(t, p, o)
    BY <1>3 DEF Recount, disk, Fails
  <2> QED BY <2>1, QuietHint
<1>4. CASE AssignCount(t) \/ AdjustCount(t)
  <2>1. /\ pc[t] # "unlinking" /\ fat' = fat /\ hint' = hint /\ failed' = failed
        /\ \E p, o : Go(t, p, o)
    BY <1>1, <1>4 DEF AssignCount, AdjustCount, disk
  <2> QED BY <2>1, QuietHint
<1>5. CASE MakeEntry(t) \/ MakeDots(t) \/ Erase(t)
  <2>1. /\ pc[t] # "unlinking" /\ fat' = fat /\ hint' = hint /\ (failed => failed')
        /\ \E p, o : Go(t, p, o)
    BY <1>5 DEF MakeEntry, MakeDots, Erase, Finish, disk, Fails
  <2> QED BY <2>1, QuietHint
<1>6. CASE BeginUnlink(t) \/ Unlock(t) \/ Enough(t) \/ EndGrow(t)
  <2>1. /\ pc[t] # "unlinking" /\ fat' = fat /\ hint' = hint /\ failed' = failed
        /\ \E p, o : Go(t, p, o)
    BY <1>6 DEF BeginUnlink, Unlock, Enough, EndGrow, Finish, disk, history
  <2> QED BY <2>1, QuietHint
<1>7. CASE BeginGrow(t)
  <2>1. /\ pc[t] # "unlinking" /\ fat' = fat /\ hint' = hint /\ (failed => failed')
    <3>1. UNCHANGED failed \/ Fails BY <1>7 DEF BeginGrow
    <3>2. pc[t] = "grow" /\ UNCHANGED <<disk, hint>> BY <1>7 DEF BeginGrow
    <3> QED BY <3>1, <3>2 DEF disk, Fails
  <2>2. \E p, o : Go(t, p, o)
    <3>1. ASSUME NEW c, Go(t, "growing", [op[t] EXCEPT !.tail = c, !.done = 0])
          PROVE  \E p, o : Go(t, p, o)
      BY <3>1
    <3>2. CASE Go(t, "grown", [op[t] EXCEPT !.done = 0]) BY <3>2
    <3> QED BY <1>7, <3>1, <3>2 DEF BeginGrow
  <2> QED BY <2>1, <2>2, QuietHint
<1> QED BY <1>2, <1>3, <1>4, <1>5, <1>6, <1>7

\* The count's search leaves the hint at the first free cluster, or at 0.
LEMMA SeekHint ==
  ASSUME FatInv, HintFollows, NEW t \in Tasks, Seek(t)
  PROVE  HintFollows'
<1>1. pc[t] = "seek" /\ lock \in {None, t} /\ fat' = fat
  BY DEF Seek, LockIsFree, MayCount, disk
<1>2. ASSUME NEW c \in Usable, Finds(c), hint' = c, failed' = failed PROVE HintFollows'
  <2>1. CASE failed BY <1>2, <2>1 DEF HintFollows
  <2>2. CASE ~failed
    <3>1. \A d \in Usable : fat[d] = Free => hint <= d
      BY <1>1, <2>2, HintIsLowForOne
    <3>2. \A d \in Usable : fat'[d] = Free => hint' <= d
      BY <1>1, <1>2, <3>1 DEF Finds
    <3> QED BY <3>2 DEF HintFollows
  <2> QED BY <2>1, <2>2
<1>3. CASE hint' = 0
  <2>1. \A d \in Usable : 0 <= d BY ValuesDiffer DEF Usable
  <2> QED BY <1>3, <2>1 DEF HintFollows
<1> QED BY <1>2, <1>3 DEF Seek

\* The cluster that becomes the end of a chain was not free.
LEMMA BeginCutHint ==
  ASSUME FatInv, HintFollows, NEW t \in Tasks, BeginCut(t)
  PROVE  HintFollows'
<1>1. pc[t] = "cut" /\ lock = None /\ hint' = hint /\ fat \in [Clusters -> Links]
  BY DEF BeginCut, LockIsFree, FatInv, TypeOK
<1>2. CASE Fails BY <1>2, FailedHint DEF Fails
<1>3. ASSUME NEW c \in Clusters, fat' = [fat EXCEPT ![c] = EOC], failed' = failed
      PROVE  HintFollows'
  <2>1. CASE failed BY <1>3, <2>1 DEF HintFollows
  <2>2. CASE ~failed
    <3>1. \A d \in Usable : fat[d] = Free => hint <= d
      BY <1>1, <2>2, HintIsLowForOne
    <3>2. \A d \in Usable : fat'[d] = Free => fat[d] = Free
      BY <1>1, <1>3, ValuesDiffer
    <3> QED BY <1>1, <3>1, <3>2 DEF HintFollows
  <2> QED BY <2>1, <2>2
<1>4. \/ Fails
      \/ \E c \in Clusters : fat' = [fat EXCEPT ![c] = EOC] /\ failed' = failed
  BY DEF BeginCut, Chain
<1> QED BY <1>2, <1>3, <1>4

\* The loop lowers ulLastFree to each cluster it frees, and the hint to ulLastFree when it
\* is done.
LEMMA UnlinkHint ==
  ASSUME FatInv, HintFollows, NEW t \in Tasks, Unlink(t)
  PROVE  HintFollows'
<1> DEFINE c == op[t].hand
           low == Lower(op[t].low, c)
<1>1. /\ pc[t] = "unlinking" /\ lock = t /\ op[t] \in OpType /\ c \in Clusters
      /\ fat \in [Clusters -> Links] /\ TypeOK
  BY TaskFacts DEF Unlink, FatInv, TypeOK, LoopsHaveTheLock, LoopPcs, TaskOK, Holding
<1>2. \A d \in Clusters : d \in Int BY ValuesDiffer
<1>3. op[t].low \in Int /\ c \in Int /\ hint \in Int
  <2>1. op[t].low \in {0} \cup Clusters BY <1>1 DEF OpType
  <2>2. hint \in 0 .. NumClusters BY <1>1 DEF TypeOK
  <2>3. NumClusters \in Nat BY ValuesDiffer
  <2> HIDE DEF c
  <2> QED BY <1>1, <1>2, <2>1, <2>2, <2>3
<1>4. low <= op[t].low /\ low <= c /\ low \in Int BY <1>3 DEF Lower
<1>5. CASE Fails BY <1>5, FailedHint DEF Fails
<1>6. \A u \in Tasks : pc[u] = "unlinking" => u = t
  BY <1>1 DEF FatInv, LoopsHaveTheLock, LoopPcs
\* What is free now is at or above the hint or ulLastFree.
<1>7. ASSUME fat' = [fat EXCEPT ![c] = Free], ~failed
      PROVE  \A d \in Usable : fat'[d] = Free => hint <= d \/ low <= d
  <2> SUFFICES ASSUME NEW d \in Usable, fat'[d] = Free PROVE hint <= d \/ low <= d
    OBVIOUS
  <2>1. d \in Clusters /\ d \in Int BY <1>2, ValuesDiffer
  <2>2. CASE d = c BY <1>4, <2>2
  <2>3. CASE d # c
    <3>1. fat[d] = Free BY <1>1, <1>7, <2>1, <2>3
    <3>2. hint <= d \/ op[t].low <= d BY <1>6, <1>7, <3>1 DEF HintFollows
    <3> QED BY <1>3, <1>4, <2>1, <3>2
  <2> QED BY <2>2, <2>3
<1>8. CASE /\ fat' = [fat EXCEPT ![c] = Free]
           /\ Go(t, "unlinking", [op[t] EXCEPT !.hand = fat[c], !.low = low, !.done = @ + 1])
           /\ UNCHANGED <<hint, failed>>
  <2> DEFINE o == [op[t] EXCEPT !.hand = fat[c], !.low = low, !.done = @ + 1]
  <2>1. o.low = low BY <1>1 DEF OpType
  <2>2. Go(t, "unlinking", o) BY <1>8
  <2> HIDE DEF o
  <2>3. pc'[t] = "unlinking" /\ op'[t].low = low BY <1>1, <2>1, <2>2, GoMoves
  <2> HIDE DEF low, c
  <2> QED BY <1>7, <1>8, <2>3 DEF HintFollows
<1>9. CASE fat' = [fat EXCEPT ![c] = Free] /\ hint' = Lower(hint, low) /\ failed' = failed
  <2>1. hint' <= hint /\ hint' <= low /\ hint' \in Int BY <1>3, <1>4, <1>9 DEF Lower
  <2> HIDE DEF low, c
  <2>2. ASSUME ~failed, NEW d \in Usable, fat'[d] = Free PROVE hint' <= d
    <3>1. hint <= d \/ low <= d BY <1>7, <1>9, <2>2
    <3>2. d \in Int BY <1>2, ValuesDiffer
    <3> QED BY <1>3, <1>4, <2>1, <3>1, <3>2
  <2> QED BY <1>9, <2>2 DEF HintFollows
<1> QED BY <1>5, <1>8, <1>9 DEF Unlink

\* A chain grows by the first free cluster.
LEMMA GrowHint ==
  ASSUME FatInv, HintFollows, NEW t \in Tasks, Grow(t)
  PROVE  HintFollows'
<1> DEFINE tail == op[t].tail
<1>1. /\ pc[t] = "growing" /\ lock = t /\ fat \in [Clusters -> Links] /\ tail \in Clusters
  BY TaskFacts DEF Grow, FatInv, TypeOK, LoopsHaveTheLock, LoopPcs, TaskOK
<1>2. CASE Fails BY <1>2, FailedHint DEF Fails
<1>3. ASSUME NEW c \in Usable, ClaimIn(c), fat' = [fat EXCEPT ![c] = EOC, ![tail] = c],
             failed' = failed
      PROVE  HintFollows'
  <2>1. c \in Clusters /\ c # Free /\ EOC # Free BY ValuesDiffer
  <2> HIDE DEF tail
  <2>2. /\ fat'[c] = (IF c = tail THEN c ELSE EOC)
        /\ \A d \in Usable \ {c} : d \in Clusters => fat'[d] = IF d = tail THEN c ELSE fat[d]
    BY <1>1, <1>3, <2>1
  <2>3. fat'[c] # Free /\ \A d \in Usable \ {c} : fat'[d] = Free => fat[d] = Free
    BY <2>1, <2>2, ValuesDiffer
  <2> QED BY <1>1, <1>3, <2>3, ClaimedHint
<1>4. CASE Go(t, "grown", op[t]) /\ UNCHANGED <<fat, hint, failed>>
  BY <1>1, <1>4, QuietHint
<1> QED BY <1>2, <1>3, <1>4 DEF Grow, ClaimFails

\* FF_Mount finds the first free cluster, or starts at 0.
LEMMA FreshIsLow ==
  ASSUME NEW h, NEW n, Fresh(h, n)
  PROVE  \A c \in Usable : fat[c] = Free => h <= c
<1>1. \A c \in Usable : 0 <= c BY ValuesDiffer DEF Usable
<1> QED BY <1>1 DEF Fresh

\* Every step preserves HintFollows.
LEMMA HintStep ==
  ASSUME FatInv, HintFollows, [Next]_vars
  PROVE  HintFollows'
<1>1. ASSUME NEW t \in Tasks, Start(t) PROVE HintFollows' BY <1>1, StartHint
<1>2. ASSUME NEW t \in Tasks, Step(t) PROVE HintFollows'
  BY <1>2, ClaimHint, CalmHint, SeekHint, BeginCutHint, UnlinkHint, GrowHint DEF Step
<1>3. CASE Remount
  <2>1. fat' = fat /\ \A c \in Usable : fat[c] = Free => hint' <= c
    BY <1>3, FreshIsLow DEF Remount, disk
  <2> QED BY <2>1 DEF HintFollows
<1>4. CASE UNCHANGED vars BY <1>4 DEF vars, history, HintFollows
<1> QED BY <1>1, <1>2, <1>3, <1>4 DEF Next

\* FF_FindFreeCluster starts at or below the first free cluster whenever the FAT lock is
\* free, so "not enough free space" is reported only when there is none: whatever tasks
\* claim and free in between, as long as no access fails.
THEOREM SearchesStartLowEnough == Spec => []HintIsLow
<1>1. Init => HintFollows BY FreshIsLow DEF Init, HintFollows
<1>2. FatInv /\ HintFollows /\ [Next]_vars => HintFollows' BY HintStep
<1>3. FatInv /\ HintFollows => HintIsLow
  BY HintIsLowForOne, ValuesDiffer DEF HintIsLow, LockIsFree
<1> QED BY <1>1, <1>2, <1>3, FatInvariant, PTL DEF Spec
-----------------------------------------------------------------------------
(* The count.                                                               *)

\* The clusters a task has claimed, and those it has freed, that the count does not know
\* of yet: p is where the task is and o its operation.
Taken(p, o) ==
  IF p \in {"growing", "grown"} \/ (p \in {"check", "recount", "adjust"} /\ o.why = "less")
  THEN o.done ELSE 0

Given(p, o) ==
  IF p = "unlinking" \/ (p \in {"check", "recount", "adjust"} /\ o.why = "more")
  THEN o.done ELSE 0

TakenBy == [t \in Tasks |-> Taken(pc[t], op[t])]
GivenBy == [t \in Tasks |-> Given(pc[t], op[t])]

\* g[t] entries for each task t: their number is the sum of g.
Ledger(g) == UNION {{t} \X (0 .. g[t] - 1) : t \in Tasks}

Total(g) == Cardinality(Ledger(g))

\* What the count would be if it had been told of every change but those.
Due == NumFree + Total(TakenBy) - Total(GivenBy)

\* FF_ExtendDirectory adds one cluster, and FF_Truncate has freed none when it starts.
Modest(p, o) ==
  /\ p = "adjust" => o.why # "look"
  /\ p = "cut" => o.done = 0
  /\ p \in {"growing", "grown"} => o.obj \in Objects
  /\ o.kind = "extend" /\ o.obj \in Dirs =>
       /\ p \in {"claim", "entry", "enough", "grow", "growing"}
            \/ (p \in CountPcs /\ o.ret \in {"entry", "enough"})
          => o.left = 1
       /\ p = "growing" => o.done = 0
       /\ p = "grown" => o.done \in {0, 1}

\* The count is what is due, but for its range.
CountAgrees == \E k \in Int : count = Due + k * CountModulus

Balanced ==
  /\ \A t \in Tasks : Modest(pc[t], op[t])
  /\ IsFiniteSet(Ledger(TakenBy)) /\ IsFiniteSet(Ledger(GivenBy))
  /\ \A t, u \in Tasks : pc[t] = "assign" /\ pc[u] = "assign" => t = u
  /\ \A t \in Tasks : pc[t] = "assign" => op[t].val = Due
  /\ (\A t \in Tasks : pc[t] # "assign") =>
       CountAgrees \/ (count = 0 /\ \A t \in Tasks : pc[t] # "adjust")

\* The clusters that are never handed out stay free.
OthersAreFree == \A c \in Clusters \ Usable : fat[c] = Free

CountInv == OthersAreFree /\ (~failed /\ ~raced => Balanced)
-----------------------------------------------------------------------------
(* Sums over the tasks.                                                     *)

Slice(t, n) == {t} \X (0 .. n - 1)

\* Task t has as many entries as it should.
LEMMA SliceSize ==
  ASSUME NEW t, NEW n \in Nat
  PROVE  IsFiniteSet(Slice(t, n)) /\ Cardinality(Slice(t, n)) = n
<1>1. IsFiniteSet({t}) /\ Cardinality({t}) = 1 BY FS_Singleton
<1>2. IsFiniteSet(0 .. n - 1) /\ Cardinality(0 .. n - 1) = n BY FS_Interval
<1>3. /\ IsFiniteSet({t} \X (0 .. n - 1))
      /\ Cardinality({t} \X (0 .. n - 1)) = Cardinality({t}) * Cardinality(0 .. n - 1)
  BY <1>1, <1>2, FS_Product
<1> QED BY <1>1, <1>2, <1>3 DEF Slice

\* Changing what one task has changes the total by as much.
LEMMA LedgerStep ==
  ASSUME NEW g \in [Tasks -> Nat], NEW t \in Tasks, NEW n \in Nat, IsFiniteSet(Ledger(g))
  PROVE  /\ IsFiniteSet(Ledger([g EXCEPT ![t] = n]))
         /\ Total([g EXCEPT ![t] = n]) + g[t] = Total(g) + n
         /\ Total(g) \in Nat /\ Total([g EXCEPT ![t] = n]) \in Nat
<1> DEFINE h == [g EXCEPT ![t] = n]
           R == Ledger(g) \ Slice(t, g[t])
<1>1. /\ IsFiniteSet(Slice(t, g[t])) /\ Cardinality(Slice(t, g[t])) = g[t]
      /\ IsFiniteSet(Slice(t, n)) /\ Cardinality(Slice(t, n)) = n
  BY SliceSize
<1>2. /\ Ledger(g) = R \cup Slice(t, g[t]) /\ R \cap Slice(t, g[t]) = {}
  BY DEF Ledger, Slice
<1>3. Ledger(h) = R \cup Slice(t, n)
  BY DEF Ledger, Slice
<1>4. R \cap Slice(t, n) = {}
  BY DEF Ledger, Slice
<1>5. IsFiniteSet(R) /\ Cardinality(R) \in Nat BY FS_Subset, FS_CardinalityType
<1>8. g[t] \in Nat OBVIOUS
<1> HIDE DEF R, h
<1>6. Total(g) = Cardinality(R) + g[t]
  <2>1. Cardinality(R \cap Slice(t, g[t])) = 0 BY <1>2, FS_EmptySet
  <2>2. Cardinality(R \cup Slice(t, g[t]))
          = Cardinality(R) + Cardinality(Slice(t, g[t])) - Cardinality(R \cap Slice(t, g[t]))
    BY <1>1, <1>5, FS_Union
  <2> QED BY <1>1, <1>2, <1>5, <1>8, <2>1, <2>2 DEF Total
<1>7. Total(h) = Cardinality(R) + n /\ IsFiniteSet(Ledger(h))
  <2>1. Cardinality(R \cap Slice(t, n)) = 0 BY <1>4, FS_EmptySet
  <2> QED BY <1>1, <1>3, <1>4, <1>5, <2>1, FS_Union DEF Total
<1> QED BY <1>5, <1>6, <1>7, <1>8 DEF h

\* Without entries the total is 0.
LEMMA EmptyLedger ==
  ASSUME NEW g, \A t \in Tasks : g[t] = 0
  PROVE  IsFiniteSet(Ledger(g)) /\ Total(g) = 0
<1>1. Ledger(g) = {} BY DEF Ledger
<1> QED BY <1>1, FS_EmptySet DEF Total

-----------------------------------------------------------------------------
(* Steps and the number of free clusters.                                   *)

\* The clusters FF_CountFreeClusters looks at.
Counted == IF Fat12 THEN Usable ELSE Clusters

\* What becomes of the count when one cluster is claimed or freed.
LEMMA FreeCountStep ==
  ASSUME NEW f \in [Clusters -> Links], NEW g \in [Clusters -> Links], NEW c \in Usable,
         \A d \in Clusters \ {c} : (f[d] = Free) <=> (g[d] = Free)
  PROVE  /\ FreeIn(f) \in Nat
         /\ f[c] = Free /\ g[c] # Free => FreeIn(g) = FreeIn(f) - 1
         /\ f[c] # Free /\ g[c] = Free => FreeIn(g) = FreeIn(f) + 1
<1> DEFINE S(e) == {d \in Counted : e[d] = Free}
<1>1. IsFiniteSet(S(f)) /\ IsFiniteSet(S(g))
  <2>1. IsFiniteSet(2 .. NumClusters + 1) BY ValuesDiffer, FS_Interval
  <2>2. S(f) \subseteq 2 .. NumClusters + 1 /\ S(g) \subseteq 2 .. NumClusters + 1
    BY ValuesDiffer DEF Clusters, Usable, Counted
  <2> HIDE DEF S
  <2> QED BY <2>1, <2>2, FS_Subset
<1>2. FreeIn(f) = Cardinality(S(f)) /\ FreeIn(g) = Cardinality(S(g))
  BY DEF FreeIn, Counted
<1>3. c \in Counted /\ Counted \subseteq Clusters BY ValuesDiffer DEF Counted
<1>4. f[c] = Free /\ g[c] # Free => S(g) = S(f) \ {c} /\ c \in S(f) BY <1>3
<1>5. f[c] # Free /\ g[c] = Free => S(g) = S(f) \cup {c} /\ c \notin S(f) BY <1>3
<1> HIDE DEF S
<1>6. Cardinality(S(f)) \in Nat BY <1>1, FS_CardinalityType
<1> QED BY <1>1, <1>2, <1>4, <1>5, <1>6, FS_AddElement, FS_RemoveElement

\* Without either it stays.
LEMMA FreeCountSame ==
  ASSUME NEW f, NEW g, \A d \in Clusters : (f[d] = Free) <=> (g[d] = Free)
  PROVE  FreeIn(f) = FreeIn(g)
<1>1. {d \in Counted : f[d] = Free} = {d \in Counted : g[d] = Free}
  BY ValuesDiffer DEF Counted
<1> QED BY <1>1 DEF FreeIn, Counted

-----------------------------------------------------------------------------
(* What a step of one task does to what is due.                             *)

\* Debts are numbers.
LEMMA DebtType ==
  ASSUME TypeOK
  PROVE  TakenBy \in [Tasks -> Nat] /\ GivenBy \in [Tasks -> Nat]
BY OpFields DEF TakenBy, GivenBy, Taken, Given

\* A step of t changes the debts of t only.
LEMMA DebtStep ==
  ASSUME TypeOK, Balanced, NEW t \in Tasks, NEW p \in Pcs, NEW o \in OpType, Go(t, p, o)
  PROVE  /\ IsFiniteSet(Ledger(TakenBy')) /\ IsFiniteSet(Ledger(GivenBy'))
         /\ Total(TakenBy') + Taken(pc[t], op[t]) = Total(TakenBy) + Taken(p, o)
         /\ Total(GivenBy') + Given(pc[t], op[t]) = Total(GivenBy) + Given(p, o)
         /\ Total(TakenBy) \in Nat /\ Total(GivenBy) \in Nat
         /\ Total(TakenBy') \in Nat /\ Total(GivenBy') \in Nat
         /\ Taken(pc[t], op[t]) \in Nat /\ Given(pc[t], op[t]) \in Nat
<1>1. /\ pc'[t] = p /\ op'[t] = o
      /\ \A u \in Tasks \ {t} : pc'[u] = pc[u] /\ op'[u] = op[u]
  BY GoMoves
<1>2. o.done \in Nat BY DEF OpType
<1>3. Taken(p, o) \in Nat /\ Given(p, o) \in Nat BY <1>2 DEF Taken, Given
<1>4. TakenBy' = [TakenBy EXCEPT ![t] = Taken(p, o)] BY <1>1 DEF TakenBy
<1>5. GivenBy' = [GivenBy EXCEPT ![t] = Given(p, o)] BY <1>1 DEF GivenBy
<1>6. TakenBy[t] = Taken(pc[t], op[t]) /\ GivenBy[t] = Given(pc[t], op[t])
  BY DEF TakenBy, GivenBy
<1>7. IsFiniteSet(Ledger(TakenBy)) /\ IsFiniteSet(Ledger(GivenBy)) BY DEF Balanced
<1>8. /\ IsFiniteSet(Ledger(TakenBy'))
      /\ Total(TakenBy') + TakenBy[t] = Total(TakenBy) + Taken(p, o)
      /\ Total(TakenBy) \in Nat /\ Total(TakenBy') \in Nat
  BY <1>3, <1>4, <1>7, DebtType, LedgerStep
<1>9. /\ IsFiniteSet(Ledger(GivenBy'))
      /\ Total(GivenBy') + GivenBy[t] = Total(GivenBy) + Given(p, o)
      /\ Total(GivenBy) \in Nat /\ Total(GivenBy') \in Nat
  BY <1>3, <1>5, <1>7, DebtType, LedgerStep
<1>10. TakenBy[t] \in Nat /\ GivenBy[t] \in Nat BY DebtType
<1> QED BY <1>6, <1>8, <1>9, <1>10

\* The number of free clusters is a number.
LEMMA DueType ==
  ASSUME TypeOK, Balanced
  PROVE  NumFree \in Nat /\ Total(TakenBy) \in Nat /\ Total(GivenBy) \in Nat /\ Due \in Int
<1>1. NumFree \in Nat BY FreeCountIsBounded, ValuesDiffer
<1>2. Total(TakenBy) \in Nat /\ Total(GivenBy) \in Nat
  BY FS_CardinalityType DEF Balanced, Total
<1> QED BY <1>1, <1>2 DEF Due

\* A step of t that tells the count nothing, and leaves in its debts what it does to the FAT.
LEMMA CalmStep ==
  ASSUME TypeOK, Balanced, NEW t \in Tasks, NEW p \in Pcs, NEW o \in OpType, Go(t, p, o),
         pc[t] \notin {"assign", "adjust"}, p # "assign", p = "adjust" => count # 0,
         Modest(p, o), count' = count,
         NEW n \in Int, NumFree' = NumFree + n,
         n = Taken(pc[t], op[t]) - Taken(p, o) - Given(pc[t], op[t]) + Given(p, o)
  PROVE  Balanced'
<1>1. /\ pc'[t] = p /\ op'[t] = o
      /\ \A u \in Tasks \ {t} : pc'[u] = pc[u] /\ op'[u] = op[u]
  BY GoMoves
<1>2. Due' = Due
  <2>1. Due' = NumFree' + Total(TakenBy') - Total(GivenBy') BY DEF Due
  <2>2. Taken(p, o) \in Nat /\ Given(p, o) \in Nat BY DEF OpType, Taken, Given
  <2>3. NumFree \in Nat BY DueType
  <2> QED BY <2>1, <2>2, <2>3, DebtStep DEF Due
<1>3. \A u \in Tasks : Modest(pc'[u], op'[u]) BY <1>1 DEF Balanced
<1>4. \A u, v \in Tasks : pc'[u] = "assign" /\ pc'[v] = "assign" => u = v
  BY <1>1 DEF Balanced
<1>5. \A u \in Tasks : pc'[u] = "assign" => op'[u].val = Due'
  BY <1>1, <1>2 DEF Balanced
<1>6. (\A u \in Tasks : pc'[u] # "assign") =>
        CountAgrees' \/ (count' = 0 /\ \A u \in Tasks : pc'[u] # "adjust")
  <2> SUFFICES ASSUME \A u \in Tasks : pc'[u] # "assign"
               PROVE  CountAgrees' \/ (count' = 0 /\ \A u \in Tasks : pc'[u] # "adjust")
    OBVIOUS
  <2>1. \A u \in Tasks : pc[u] # "assign" BY <1>1
  <2>2. CASE CountAgrees BY <1>2, <2>2 DEF CountAgrees
  <2>3. CASE count = 0 /\ \A u \in Tasks : pc[u] # "adjust" BY <1>1, <2>3
  <2> QED BY <2>1, <2>2, <2>3 DEF Balanced
<1> QED BY <1>3, <1>4, <1>5, <1>6, DebtStep DEF Balanced

\* A step that leaves the FAT and the count, between places where nothing is due.
LEMMA PlainStep ==
  ASSUME FatInv, Balanced, NEW t \in Tasks, NEW p \in Pcs, NEW o \in OpType, Go(t, p, o),
         pc[t] \notin {"assign", "adjust"}, p \notin {"assign", "adjust"},
         Modest(p, o), UNCHANGED <<fat, count>>,
         Taken(pc[t], op[t]) = Taken(p, o), Given(pc[t], op[t]) = Given(p, o)
  PROVE  Balanced'
<1>1. TypeOK BY DEF FatInv
<1>2. NumFree' = NumFree BY DEF NumFree
<1>3. NumFree \in Nat BY <1>1, DueType
<1>4. Taken(pc[t], op[t]) \in Nat /\ Given(pc[t], op[t]) \in Nat BY <1>1, DebtStep
<1> QED BY <1>1, <1>2, <1>3, <1>4, CalmStep

\* Idle tasks owe nothing.
LEMMA IdleIsModest == Modest("idle", NoOp) /\ Taken("idle", NoOp) = 0 /\ Given("idle", NoOp) = 0
BY DEF Modest, NoOp, Taken, Given, CountPcs

\* A call starts with nothing due.
LEMMA BeginCount ==
  ASSUME FatInv, Balanced, NEW t \in Tasks, NEW f \in Objects, NEW k, NEW o, NEW p \in Pcs,
         Begin(t, f, k, p, o), NEW n \in OpType, n = [o EXCEPT !.kind = k, !.obj = f],
         p \notin {"assign", "adjust"}, Taken(p, n) = 0, Given(p, n) = 0, Modest(p, n)
  PROVE  Balanced'
<1>1. pc[t] = "idle" /\ Go(t, p, n) /\ UNCHANGED <<fat, count>> BY DEF Begin, disk
<1>2. Taken(pc[t], op[t]) = 0 /\ Given(pc[t], op[t]) = 0 BY <1>1 DEF Taken, Given
<1> QED BY <1>1, <1>2, PlainStep

\* Whichever call it is.
LEMMA StartCount ==
  ASSUME FatInv, Balanced, NEW t \in Tasks, Start(t)
  PROVE  Balanced'
<1>1. ASSUME NEW f \in Objects, Create(t, f) PROVE Balanced'
  <2> DEFINE n == [NoOp EXCEPT !.kind = "create", !.obj = f]
  <2>1. Started("create", f, NoOp, n) BY StartType
  <2>2. Begin(t, f, "create", "claim", NoOp) BY <1>1 DEF Create
  <2> HIDE DEF n
  <2>3. Modest("claim", n) /\ Taken("claim", n) = 0 /\ Given("claim", n) = 0
    BY <2>1 DEF Modest, Taken, Given, Started
  <2>4. "claim" \in Pcs BY DEF Pcs
  <2> QED BY <2>1, <2>2, <2>3, <2>4, BeginCount DEF Started
<1>2. ASSUME NEW f \in Objects, Remove(t, f) PROVE Balanced'
  <2> DEFINE n == [NoOp EXCEPT !.kind = "remove", !.obj = f]
             p == IF dirent[f] = 0 THEN "erase" ELSE "unlink"
  <2>1. Started("remove", f, NoOp, n) BY StartType
  <2>2. Begin(t, f, "remove", p, NoOp) BY <1>2 DEF Remove
  <2>3. p \in Pcs /\ p \in {"erase", "unlink"} BY DEF Pcs
  <2> HIDE DEF n, p
  <2>4. Modest(p, n) /\ Taken(p, n) = 0 /\ Given(p, n) = 0
    BY <2>1, <2>3 DEF Modest, Taken, Given, Started
  <2> QED BY <2>1, <2>2, <2>3, <2>4, BeginCount DEF Started
<1>3. ASSUME NEW f \in Files, NEW k \in 1 .. MaxExtend, ExtendFile(t, f, k) PROVE Balanced'
  <2> DEFINE o == [NoOp EXCEPT !.left = k]
             n == [o EXCEPT !.kind = "extend", !.obj = f]
             p == IF dirent[f] = 0 THEN "claim" ELSE "grow"
  <2>1. f \in Objects /\ f \notin Dirs BY ValuesDiffer DEF Objects
  <2>2. Started("extend", f, o, n)
    <3>1. k \in Nat BY FatAssumption DEF FatAssumption
    <3> QED BY <2>1, <3>1, StartFileType
  <2>3. Begin(t, f, "extend", p, o) BY <1>3 DEF ExtendFile
  <2>4. p \in Pcs /\ p \in {"claim", "grow"} BY DEF Pcs
  <2> HIDE DEF n, o, p
  <2>5. Modest(p, n) /\ Taken(p, n) = 0 /\ Given(p, n) = 0
    BY <2>1, <2>2, <2>4 DEF Modest, Taken, Given, Started
  <2> QED BY <2>1, <2>2, <2>3, <2>4, <2>5, BeginCount DEF Started
<1>4. ASSUME NEW f \in Files, Empty(t, f) \/ Shorten(t, f) PROVE Balanced'
  <2> DEFINE n == [NoOp EXCEPT !.kind = "empty", !.obj = f]
             m == [NoOp EXCEPT !.kind = "cut", !.obj = f]
  <2>1. f \in Objects BY DEF Objects
  <2>2. Started("empty", f, NoOp, n) /\ Started("cut", f, NoOp, m) BY <2>1, StartType
  <2>3. Begin(t, f, "empty", "unlink", NoOp) \/ Begin(t, f, "cut", "cut", NoOp)
    BY <1>4 DEF Empty, Shorten
  <2>4. m.done = 0 BY DEF NoOp
  <2> HIDE DEF n, m
  <2>5. Modest("unlink", n) /\ Taken("unlink", n) = 0 /\ Given("unlink", n) = 0
    BY <2>2 DEF Modest, Taken, Given, Started
  <2>6. Modest("cut", m) /\ Taken("cut", m) = 0 /\ Given("cut", m) = 0
    BY <2>2, <2>4 DEF Modest, Taken, Given, Started
  <2>7. "unlink" \in Pcs /\ "cut" \in Pcs BY DEF Pcs
  <2>8. n \in OpType /\ n = [NoOp EXCEPT !.kind = "empty", !.obj = f]
        /\ m \in OpType /\ m = [NoOp EXCEPT !.kind = "cut", !.obj = f]
    BY <2>2 DEF Started
  <2>9. CASE Begin(t, f, "empty", "unlink", NoOp)
    BY <2>1, <2>5, <2>7, <2>8, <2>9, BeginCount
  <2>10. CASE Begin(t, f, "cut", "cut", NoOp)
    BY <2>1, <2>6, <2>7, <2>8, <2>10, BeginCount
  <2> QED BY <2>3, <2>9, <2>10
<1>5. ASSUME NEW f \in Dirs, ExtendDirectory(t, f) PROVE Balanced'
  <2> DEFINE o == [NoOp EXCEPT !.left = 1, !.why = "look", !.ret = "enough"]
             n == [o EXCEPT !.kind = "extend", !.obj = f]
  <2>1. f \in Objects BY DEF Objects
  <2>2. Started("extend", f, o, n) BY <2>1, StartDirectoryType
  <2>3. Begin(t, f, "extend", "check", o) BY <1>5 DEF ExtendDirectory
  <2>4. n.why = "look" /\ n.left = 1 BY DEF NoOp
  <2> HIDE DEF n, o
  <2>5. Modest("check", n) /\ Taken("check", n) = 0 /\ Given("check", n) = 0
    BY <2>2, <2>4 DEF Modest, Taken, Given, Started
  <2>6. "check" \in Pcs BY DEF Pcs, CountPcs
  <2> QED BY <2>1, <2>2, <2>3, <2>5, <2>6, BeginCount DEF Started
<1>6. CASE GetFreeSize(t)
  <2> DEFINE n == [NoOp EXCEPT !.kind = "measure", !.why = "look"]
  <2>1. n \in OpType BY NoOpType DEF OpType
  <2>2. n.why = "look" /\ n.kind = "measure" BY DEF NoOp
  <2>3. pc[t] = "idle" /\ Go(t, "check", n) /\ UNCHANGED <<fat, count>>
    BY <1>6 DEF GetFreeSize, disk
  <2> HIDE DEF n
  <2>4. Modest("check", n) /\ Taken("check", n) = 0 /\ Given("check", n) = 0
    BY <2>2 DEF Modest, Taken, Given
  <2>5. Taken(pc[t], op[t]) = 0 /\ Given(pc[t], op[t]) = 0 BY <2>3 DEF Taken, Given
  <2> QED BY <2>1, <2>3, <2>4, <2>5, PlainStep DEF Pcs, CountPcs
<1> QED BY <1>1, <1>2, <1>3, <1>4, <1>5, <1>6 DEF Start

-----------------------------------------------------------------------------
(* The steps of the count.                                                  *)

\* Where a task goes when it is done with the count, it owes nothing.
LEMMA ReturnTarget ==
  ASSUME NEW t \in Tasks, pc[t] \in CountPcs, Modest(pc[t], op[t]),
         NEW o \in OpType, Same(o, op[t]), Return(t, o)
  PROVE  \E p \in {"idle", "entry", "unlock", "enough"}, q \in OpType :
           Go(t, p, q) /\ Modest(p, q) /\ Taken(p, q) = 0 /\ Given(p, q) = 0
<1>1. CASE Go(t, "idle", NoOp) BY <1>1, NoOpType, IdleIsModest
<1>2. CASE Go(t, o.ret, o)
  <2>1. o.ret \in {"idle", "entry", "unlock", "enough"} BY DEF OpType
  <2>2. Taken(o.ret, o) = 0 /\ Given(o.ret, o) = 0 BY <2>1 DEF Taken, Given
  <2>3. Modest(o.ret, o) BY <2>1 DEF Modest, Same, CountPcs
  <2> QED BY <1>2, <2>1, <2>2, <2>3
<1> QED BY <1>1, <1>2 DEF Return, Finish

\* ulFreeClusterCount is tested: it is 0, or it will be changed, or is only looked at.
LEMMA CheckCountBalance ==
  ASSUME FatInv, Balanced, NEW t \in Tasks, CheckCount(t)
  PROVE  Balanced'
<1>1. /\ pc[t] = "check" /\ UNCHANGED <<fat, count>> /\ TypeOK /\ op[t] \in OpType
      /\ Modest(pc[t], op[t])
  BY OpFields DEF CheckCount, disk, FatInv, Balanced
<1>2. CASE Go(t, "recount", op[t])
  <2>1. Modest("recount", op[t]) BY <1>1 DEF Modest, CountPcs
  <2>2. /\ Taken("recount", op[t]) = Taken(pc[t], op[t])
        /\ Given("recount", op[t]) = Given(pc[t], op[t])
    BY <1>1 DEF Taken, Given
  <2> QED BY <1>1, <1>2, <2>1, <2>2, PlainStep DEF Pcs, CountPcs
<1>3. CASE count # 0 /\ op[t].why # "look" /\ Go(t, "adjust", op[t])
  <2>1. Modest("adjust", op[t]) BY <1>1, <1>3 DEF Modest, CountPcs
  <2>2. /\ Taken("adjust", op[t]) = Taken(pc[t], op[t])
        /\ Given("adjust", op[t]) = Given(pc[t], op[t])
    BY <1>1 DEF Taken, Given
  <2>3. NumFree' = NumFree /\ NumFree \in Nat BY <1>1, DueType DEF NumFree
  <2>4. Taken(pc[t], op[t]) \in Nat /\ Given(pc[t], op[t]) \in Nat
    BY <1>1, OpFields DEF Taken, Given
  <2>5. "adjust" \in Pcs BY DEF Pcs, CountPcs
  <2> QED BY <1>1, <1>3, <2>1, <2>2, <2>3, <2>4, <2>5, CalmStep
<1>4. CASE op[t].why = "look" /\ Return(t, op[t])
  <2>1. Taken(pc[t], op[t]) = 0 /\ Given(pc[t], op[t]) = 0 BY <1>1, <1>4 DEF Taken, Given
  <2>2. pc[t] \in CountPcs /\ Same(op[t], op[t]) BY <1>1 DEF CountPcs, Same
  <2>3. PICK p \in {"idle", "entry", "unlock", "enough"}, q \in OpType :
          Go(t, p, q) /\ Modest(p, q) /\ Taken(p, q) = 0 /\ Given(p, q) = 0
    BY <1>1, <1>4, <2>2, ReturnTarget
  <2> QED BY <1>1, <2>1, <2>3, PlainStep DEF Pcs
<1>5. \/ Go(t, "recount", op[t])
      \/ count # 0 /\ op[t].why # "look" /\ Go(t, "adjust", op[t])
      \/ op[t].why = "look" /\ Return(t, op[t])
  BY <1>1 DEF CheckCount
<1> QED BY <1>2, <1>3, <1>4, <1>5

\* FF_CountFreeClusters: with the FAT lock free and nobody else at the count, nothing
\* is due but what it finds.
LEMMA RecountBalance ==
  ASSUME FatInv, Balanced, NEW t \in Tasks, Recount(t), ~failed', ~raced'
  PROVE  Balanced'
<1> PICK r \in [val : {NumFree}, err : {FALSE}] \cup [val : {0}, err : {TRUE}] :
      /\ IF r.err THEN Fails ELSE UNCHANGED failed
      /\ Go(t, "assign",
            [op[t] EXCEPT !.val = r.val, !.err = r.err \/ @,
                          !.ret = IF op[t].kind = "measure" THEN "unlock" ELSE @])
  BY DEF Recount
<1> DEFINE o == [op[t] EXCEPT !.val = r.val, !.err = r.err \/ @,
                   !.ret = IF op[t].kind = "measure" THEN "unlock" ELSE @]
<1>1. /\ pc[t] = "recount" /\ UNCHANGED <<fat, count>> /\ TypeOK /\ op[t] \in OpType
      /\ Modest(pc[t], op[t]) /\ lock \in {None, t}
  BY OpFields DEF Recount, disk, FatInv, Balanced, MayCount
<1>2. r.val = NumFree /\ r.err = FALSE
  <2>1. r.err = FALSE \/ r.err = TRUE OBVIOUS
  <2>2. r.err # TRUE BY DEF Fails
  <2>3. r \in [val : {NumFree}, err : {FALSE}] BY <2>1, <2>2
  <2> QED BY <2>3
<1>3. /\ o.kind = op[t].kind /\ o.obj = op[t].obj /\ o.left = op[t].left
      /\ o.val = NumFree /\ o.ret \in {op[t].ret, "unlock"}
  BY <1>1, <1>2 DEF OpType
<1>4. Go(t, "assign", o) OBVIOUS
<1> HIDE DEF o
<1>5. /\ pc'[t] = "assign" /\ op'[t] = o
      /\ \A u \in Tasks \ {t} : pc'[u] = pc[u] /\ op'[u] = op[u]
  BY <1>1, <1>4, GoMoves
<1>6. \A u \in Tasks \ {t} : pc[u] \notin {"check", "recount", "assign", "adjust"}
  BY DEF Recount, Tallying
<1>7. \A u \in Tasks \ {t} : pc[u] \notin LoopPcs
  BY <1>1, ValuesDiffer DEF FatInv, LoopsHaveTheLock
<1>8. /\ \A u \in Tasks : TakenBy'[u] = 0
      /\ \A u \in Tasks : GivenBy'[u] = 0
  BY <1>5, <1>6, <1>7 DEF TakenBy, GivenBy, Taken, Given, LoopPcs
<1>9. /\ IsFiniteSet(Ledger(TakenBy')) /\ Total(TakenBy') = 0
      /\ IsFiniteSet(Ledger(GivenBy')) /\ Total(GivenBy') = 0
  BY <1>8, EmptyLedger
<1>10. Due' = NumFree
  <2>1. NumFree' = NumFree /\ NumFree \in Nat BY <1>1, DueType DEF NumFree
  <2> QED BY <1>9, <2>1 DEF Due
<1>11. Modest("assign", o) BY <1>1, <1>3 DEF Modest, CountPcs
<1>12. \A u \in Tasks : Modest(pc'[u], op'[u]) BY <1>5, <1>11 DEF Balanced
<1>13. \A u \in Tasks : pc'[u] = "assign" => u = t BY <1>5, <1>6
<1> QED BY <1>3, <1>5, <1>9, <1>10, <1>12, <1>13 DEF Balanced

\* The task that counted assigns what it found: that is still due.
LEMMA AssignStep ==
  ASSUME FatInv, Balanced, NEW t \in Tasks, pc[t] = "assign",
         NEW p \in Pcs, NEW o \in OpType, Go(t, p, o), p \notin {"assign", "adjust"},
         Modest(p, o), Taken(p, o) = 0, Given(p, o) = 0, fat' = fat, count' = op[t].val
  PROVE  Balanced'
<1>1. TypeOK BY DEF FatInv
<1>2. /\ pc'[t] = p /\ op'[t] = o
      /\ \A u \in Tasks \ {t} : pc'[u] = pc[u] /\ op'[u] = op[u]
  BY <1>1, GoMoves
<1>3. Taken(pc[t], op[t]) = 0 /\ Given(pc[t], op[t]) = 0 BY DEF Taken, Given
<1>4. Due' = Due /\ Due \in Int
  <2>1. NumFree' = NumFree BY DEF NumFree
  <2> QED BY <1>1, <1>3, <2>1, DebtStep, DueType DEF Due
<1>5. count' = Due' BY <1>4 DEF Balanced
<1>6. CountAgrees'
  <2>1. CountModulus \in Nat BY FatAssumption DEF FatAssumption
  <2>2. Due' = Due' + 0 * CountModulus BY <1>4, <2>1
  <2> QED BY <1>5, <2>2 DEF CountAgrees
<1>7. \A u \in Tasks : pc'[u] # "assign" BY <1>2 DEF Balanced
<1>8. \A u \in Tasks : Modest(pc'[u], op'[u]) BY <1>2 DEF Balanced
<1> QED BY <1>1, <1>6, <1>7, <1>8, DebtStep DEF Balanced

\* Whether the caller adjusts the hint next or returns.
LEMMA AssignCountBalance ==
  ASSUME FatInv, Balanced, NEW t \in Tasks, AssignCount(t)
  PROVE  Balanced'
<1>1. /\ pc[t] = "assign" /\ fat' = fat /\ count' = op[t].val /\ TypeOK
      /\ op[t] \in OpType /\ Modest(pc[t], op[t])
  BY OpFields DEF AssignCount, disk, FatInv, Balanced
<1>2. CASE Return(t, op[t])
  <2>1. pc[t] \in CountPcs /\ Same(op[t], op[t]) BY <1>1 DEF CountPcs, Same
  <2>2. PICK p \in {"idle", "entry", "unlock", "enough"}, q \in OpType :
          Go(t, p, q) /\ Modest(p, q) /\ Taken(p, q) = 0 /\ Given(p, q) = 0
    BY <1>1, <1>2, <2>1, ReturnTarget
  <2> QED BY <1>1, <2>2, AssignStep DEF Pcs
<1>3. CASE Go(t, "hint", [op[t] EXCEPT !.val = 0, !.done = 0])
  <2> DEFINE o == [op[t] EXCEPT !.val = 0, !.done = 0]
  <2>1. o \in OpType
    <3>1. 0 \in 0 .. NumClusters BY ValuesDiffer
    <3> QED BY <1>1, <3>1 DEF OpType
  <2>2. o.kind = op[t].kind /\ o.obj = op[t].obj /\ o.left = op[t].left /\ o.ret = op[t].ret
    BY <1>1 DEF OpType
  <2>3. Go(t, "hint", o) BY <1>3
  <2> HIDE DEF o
  <2>4. Modest("hint", o) BY <1>1, <2>2 DEF Modest, CountPcs
  <2>5. Taken("hint", o) = 0 /\ Given("hint", o) = 0 BY DEF Taken, Given
  <2> QED BY <1>1, <2>1, <2>3, <2>4, <2>5, AssignStep DEF Pcs, CountPcs
<1> QED BY <1>2, <1>3 DEF AssignCount

\* A number modulo m differs from it by a multiple of m.
LEMMA WrapsAround ==
  ASSUME NEW x \in Int, NEW m \in Nat \ {0}
  PROVE  \E k \in Int : x % m = x + k * m
<1>1. x \div m \in Int /\ x % m \in 0 .. m - 1 /\ x = m * (x \div m) + (x % m) OBVIOUS
<1>2. PICK q \in Int : x = m * q + (x % m) BY <1>1
<1>3. -q \in Int /\ x % m = x + (-q) * m BY <1>1, <1>2
<1> QED BY <1>3

\* The count changes by what the task owes.
LEMMA AdjustCountBalance ==
  ASSUME FatInv, Balanced, NEW t \in Tasks, AdjustCount(t), ~raced'
  PROVE  Balanced'
<1> DEFINE o == [op[t] EXCEPT !.done = 0]
<1>1. /\ pc[t] = "adjust" /\ fat' = fat /\ TypeOK /\ op[t] \in OpType
      /\ Modest(pc[t], op[t]) /\ count \in 0 .. CountModulus - 1 /\ op[t].done \in Nat
  BY OpFields DEF AdjustCount, disk, FatInv, Balanced
<1>2. \A u \in Tasks : pc[u] # "assign" BY <1>1 DEF AdjustCount, Overtaken
<1>3. CountAgrees BY <1>1, <1>2 DEF Balanced
<1>4. op[t].why \in {"less", "more"} BY <1>1 DEF Modest, OpType
<1>5. /\ o \in OpType /\ o.kind = op[t].kind /\ o.obj = op[t].obj
      /\ o.left = op[t].left /\ o.ret = op[t].ret
  BY <1>1 DEF OpType
<1>6. Go(t, "hint", o) BY DEF AdjustCount
<1> HIDE DEF o
<1>7. /\ pc'[t] = "hint" /\ op'[t] = o
      /\ \A u \in Tasks \ {t} : pc'[u] = pc[u] /\ op'[u] = op[u]
  BY <1>1, <1>6, GoMoves
<1>8. Taken("hint", o) = 0 /\ Given("hint", o) = 0 BY DEF Taken, Given
<1>9. "hint" \in Pcs BY DEF Pcs, CountPcs
<1>10. Due' = IF op[t].why = "less" THEN Due - op[t].done ELSE Due + op[t].done
  <2>1. NumFree' = NumFree BY <1>1 DEF NumFree
  <2>2. /\ Taken(pc[t], op[t]) = (IF op[t].why = "less" THEN op[t].done ELSE 0)
        /\ Given(pc[t], op[t]) = (IF op[t].why = "less" THEN 0 ELSE op[t].done)
    BY <1>1, <1>4 DEF Taken, Given
  <2> QED BY <1>1, <1>5, <1>6, <1>8, <1>9, <2>1, <2>2, DebtStep, DueType DEF Due
<1>11. CountAgrees'
  <2> DEFINE x == IF op[t].why = "less" THEN count + CountModulus - op[t].done
                  ELSE count + op[t].done
  <2>1. PICK k \in Int : count = Due + k * CountModulus BY <1>3 DEF CountAgrees
  <2>2. CountModulus \in Nat \ {0} BY FatAssumption DEF FatAssumption
  <2>3. Due \in Int /\ count \in Int BY <1>1, <2>2, DueType
  <2>4. \E j \in Int : x = Due' + j * CountModulus
    <3>1. CASE op[t].why = "less"
      <4>1. x = Due' + (k + 1) * CountModulus BY <1>1, <1>10, <2>1, <2>2, <2>3, <3>1
      <4> QED BY <4>1
    <3>2. CASE op[t].why # "less"
      <4>1. x = Due' + k * CountModulus BY <1>1, <1>10, <2>1, <2>2, <2>3, <3>2
      <4> QED BY <4>1
    <3> QED BY <3>1, <3>2
  <2>5. PICK j \in Int : x = Due' + j * CountModulus BY <2>4
  <2>6. x \in Int BY <1>1, <2>2, <2>3
  <2>7. count' = x % CountModulus BY DEF AdjustCount
  <2>8. Due' \in Int BY <1>1, <1>10, <2>3
  <2> HIDE DEF x
  <2>9. PICK i \in Int : x % CountModulus = x + i * CountModulus BY <2>2, <2>6, WrapsAround
  <2>10. count' = Due' + (i + j) * CountModulus BY <2>2, <2>5, <2>7, <2>8, <2>9
  <2> QED BY <2>10 DEF CountAgrees
<1>12. Modest("hint", o) BY <1>1, <1>5 DEF Modest, CountPcs
<1>13. \A u \in Tasks : Modest(pc'[u], op'[u]) BY <1>7, <1>12 DEF Balanced
<1>14. \A u \in Tasks : pc'[u] # "assign" BY <1>2, <1>7
<1> QED BY <1>1, <1>5, <1>6, <1>9, <1>11, <1>13, <1>14, DebtStep DEF Balanced

\* The search for a hint changes no number of clusters.
LEMMA HintBalance ==
  ASSUME FatInv, Balanced, NEW t \in Tasks, TestHint(t) \/ Seek(t)
  PROVE  Balanced'
<1> DEFINE e == [op[t] EXCEPT !.err = TRUE]
<1>1. /\ pc[t] \in {"hint", "seek"} /\ UNCHANGED <<fat, count>> /\ TypeOK
      /\ op[t] \in OpType /\ Modest(pc[t], op[t])
  BY OpFields DEF TestHint, Seek, disk, FatInv, Balanced
<1>2. Taken(pc[t], op[t]) = 0 /\ Given(pc[t], op[t]) = 0 BY <1>1 DEF Taken, Given
<1>3. ASSUME NEW o \in OpType, Same(o, op[t]), Return(t, o) PROVE Balanced'
  <2>1. pc[t] \in CountPcs BY <1>1 DEF CountPcs
  <2>2. PICK p \in {"idle", "entry", "unlock", "enough"}, q \in OpType :
          Go(t, p, q) /\ Modest(p, q) /\ Taken(p, q) = 0 /\ Given(p, q) = 0
    BY <1>1, <1>3, <2>1, ReturnTarget
  <2> QED BY <1>1, <1>2, <2>2, PlainStep DEF Pcs
<1>4. e \in OpType /\ Same(e, op[t]) /\ Same(op[t], op[t]) BY <1>1 DEF OpType, Same
<1>5. CASE Go(t, "seek", op[t])
  <2>1. Modest("seek", op[t]) BY <1>1 DEF Modest, CountPcs
  <2>2. Taken("seek", op[t]) = 0 /\ Given("seek", op[t]) = 0 BY DEF Taken, Given
  <2> QED BY <1>1, <1>2, <1>5, <2>1, <2>2, PlainStep DEF Pcs, CountPcs
<1>6. Go(t, "seek", op[t]) \/ Return(t, op[t]) \/ Return(t, e) BY DEF TestHint, Seek
<1> HIDE DEF e
<1> QED BY <1>1, <1>3, <1>4, <1>5, <1>6

-----------------------------------------------------------------------------
(* The other steps.                                                         *)

\* Places at which a task owes nothing.
Quits == {"idle", "claim", "entry", "dots", "unlink", "unlock", "erase", "enough", "grow"}

\* They are none of the places of the count.
LEMMA QuitsOweNothing ==
  ASSUME NEW p \in Quits, NEW o
  PROVE  Taken(p, o) = 0 /\ Given(p, o) = 0 /\ p \in Pcs /\ p \notin {"assign", "adjust"}
BY DEF Quits, Taken, Given, Pcs

\* From one of them to another.
LEMMA QuitStep ==
  ASSUME FatInv, Balanced, NEW t \in Tasks, NEW p \in Quits, NEW o \in OpType, Go(t, p, o),
         pc[t] \in Quits, Modest(p, o), UNCHANGED <<fat, count>>
  PROVE  Balanced'
<1>1. Taken(pc[t], op[t]) = 0 /\ Given(pc[t], op[t]) = 0 BY QuitsOweNothing
<1>2. pc[t] \notin {"assign", "adjust"} BY QuitsOweNothing
<1>3. Taken(p, o) = 0 /\ Given(p, o) = 0 /\ p \in Pcs /\ p \notin {"assign", "adjust"}
  BY QuitsOweNothing
<1> QED BY <1>1, <1>2, <1>3, PlainStep

\* Ending an operation there.
LEMMA FinishCount ==
  ASSUME FatInv, Balanced, NEW t \in Tasks, Finish(t), pc[t] \in Quits, UNCHANGED <<fat, count>>
  PROVE  Balanced'
<1>1. Go(t, "idle", NoOp) /\ "idle" \in Quits BY DEF Finish, Quits
<1> QED BY <1>1, QuitStep, IdleIsModest, NoOpType

\* FF_CreateClusterChain: the cluster that is no longer free is one the task has taken.
LEMMA ClaimBalance ==
  ASSUME FatInv, Balanced, NEW t \in Tasks, Claim(t), ~failed'
  PROVE  Balanced'
<1>1. /\ pc[t] = "claim" /\ count' = count /\ TypeOK /\ op[t] \in OpType
      /\ Modest(pc[t], op[t])
  BY OpFields DEF Claim, FatInv, Balanced
<1>2. ASSUME NEW c \in Usable, ClaimIn(c), fat' = [fat EXCEPT ![c] = EOC],
             Go(t, "check", [op[t] EXCEPT !.hand = c, !.done = 1,
                                          !.why = "less", !.ret = "entry"])
      PROVE  Balanced'
  <2> DEFINE o == [op[t] EXCEPT !.hand = c, !.done = 1, !.why = "less", !.ret = "entry"]
  <2>1. /\ o \in OpType /\ o.kind = op[t].kind /\ o.obj = op[t].obj /\ o.left = op[t].left
        /\ o.done = 1 /\ o.why = "less"
    BY <1>1, ValuesDiffer DEF OpType
  <2>2. Go(t, "check", o) BY <1>2
  <2> HIDE DEF o
  <2>3. Modest("check", o) BY <1>1, <2>1 DEF Modest, CountPcs
  <2>4. Taken("check", o) = 1 /\ Given("check", o) = 0 BY <2>1 DEF Taken, Given
  <2>5. Taken(pc[t], op[t]) = 0 /\ Given(pc[t], op[t]) = 0 BY <1>1 DEF Taken, Given
  <2>6. /\ fat \in [Clusters -> Links] /\ fat' \in [Clusters -> Links]
        /\ fat[c] = Free /\ fat'[c] # Free
        /\ \A d \in Clusters \ {c} : (fat[d] = Free) <=> (fat'[d] = Free)
    BY <1>1, <1>2, ValuesDiffer DEF TypeOK, Links, ClaimIn, Finds
  <2>7. NumFree' = NumFree - 1 /\ NumFree \in Nat BY <2>6, FreeCountStep DEF NumFree
  <2>8. NumFree' = NumFree + (-1) BY <2>7
  <2> QED BY <1>1, <2>1, <2>2, <2>3, <2>4, <2>5, <2>8, CalmStep DEF Pcs, CountPcs
<1>3. CASE Finish(t) /\ fat' = fat
  BY <1>1, <1>3, FinishCount DEF Quits
<1> QED BY <1>2, <1>3 DEF Claim, ClaimFails, Fails

\* The directory entry is made.
LEMMA MakeEntryBalance ==
  ASSUME FatInv, Balanced, NEW t \in Tasks, MakeEntry(t), ~failed'
  PROVE  Balanced'
<1> DEFINE a == [op[t] EXCEPT !.hand = 0, !.left = @ - 1]
           d == [op[t] EXCEPT !.hand = 0]
<1>1. /\ pc[t] = "entry" /\ pc[t] \in Quits /\ UNCHANGED <<fat, count>>
      /\ op[t] \in OpType /\ Modest(pc[t], op[t]) /\ TypeOK
  BY OpFields DEF MakeEntry, FatInv, Balanced, Quits
<1>2. CASE op[t].kind = "create" /\ Go(t, "dots", d)
  <2>1. d \in OpType /\ d.kind = op[t].kind BY <1>1 DEF OpType
  <2> HIDE DEF d
  <2>2. Modest("dots", d) BY <1>2, <2>1 DEF Modest, CountPcs
  <2>3. "dots" \in Quits BY DEF Quits
  <2> QED BY <1>1, <1>2, <2>1, <2>2, <2>3, QuitStep
<1>3. CASE op[t].kind = "extend" /\ op[t].left > 1 /\ Go(t, "grow", a)
  <2>1. op[t].obj \notin Dirs BY <1>1, <1>3 DEF Modest
  <2>2. a \in OpType /\ a.obj = op[t].obj
    <3>1. op[t].left - 1 \in Nat BY <1>1, <1>3 DEF OpType
    <3> QED BY <1>1, <3>1 DEF OpType
  <2> HIDE DEF a
  <2>3. Modest("grow", a) BY <2>1, <2>2 DEF Modest
  <2>4. "grow" \in Quits BY DEF Quits
  <2> QED BY <1>1, <1>3, <2>2, <2>3, <2>4, QuitStep
<1>4. CASE Finish(t) BY <1>1, <1>4, FinishCount
<1>5. CASE op[t].kind = "create" /\ Go(t, "unlink", op[t])
  <2>1. Modest("unlink", op[t]) BY <1>5 DEF Modest
  <2>2. "unlink" \in Quits BY DEF Quits
  <2> QED BY <1>1, <1>5, <2>1, <2>2, QuitStep
<1>6. ASSUME Fails PROVE FALSE BY <1>6 DEF Fails
<1> HIDE DEF a, d
<1>7. \/ op[t].kind = "create" /\ Go(t, "dots", d)
      \/ op[t].kind = "extend" /\ op[t].left > 1 /\ Go(t, "grow", a)
      \/ Finish(t)
      \/ op[t].kind = "create" /\ Go(t, "unlink", op[t])
  BY <1>6 DEF MakeEntry, a, d
<1> QED BY <1>2, <1>3, <1>4, <1>5, <1>7

\* FF_MkDir ends, the lock is given back, the entry is erased.
LEMMA EndBalance ==
  ASSUME FatInv, Balanced, NEW t \in Tasks, MakeDots(t) \/ Unlock(t) \/ Erase(t) \/ Enough(t),
         ~failed'
  PROVE  Balanced'
<1>1. /\ pc[t] \in {"dots", "unlock", "erase", "enough"} /\ pc[t] \in Quits
      /\ UNCHANGED <<fat, count>> /\ op[t] \in OpType /\ Modest(pc[t], op[t])
  BY OpFields DEF MakeDots, Unlock, Erase, Enough, disk, FatInv, Balanced, Quits
<1>2. CASE Finish(t) BY <1>1, <1>2, FinishCount
<1>3. CASE Go(t, "erase", op[t])
  <2>1. Modest("erase", op[t]) /\ "erase" \in Quits BY <1>1 DEF Modest, CountPcs, Quits
  <2> QED BY <1>1, <1>3, <2>1, QuitStep
<1>4. CASE pc[t] = "enough" /\ Go(t, "grow", op[t])
  <2>1. Modest("grow", op[t]) /\ "grow" \in Quits BY <1>1, <1>4 DEF Modest, Quits
  <2> QED BY <1>1, <1>4, <2>1, QuitStep
<1> QED BY <1>2, <1>3, <1>4 DEF MakeDots, Unlock, Erase, Enough, Fails

\* FF_UnlinkClusterChain starts with nothing freed.
LEMMA BeginUnlinkBalance ==
  ASSUME FatInv, Balanced, NEW t \in Tasks, BeginUnlink(t)
  PROVE  Balanced'
<1> DEFINE first == IF Frees(t) THEN dirent[op[t].obj] ELSE op[t].hand
           o == [op[t] EXCEPT !.hand = first, !.low = first, !.done = 0]
<1>1. /\ pc[t] = "unlink" /\ UNCHANGED <<fat, count>> /\ op[t] \in OpType
      /\ TaskOK(pc[t], op[t], fat, dirent, stale) /\ TypeOK
  BY TaskFacts DEF BeginUnlink, disk
<1>2. first \in Clusters
  BY <1>1 DEF TaskOK, Holding, Claiming, CountPcs, Freeing, Frees, Sound
<1> HIDE DEF first
<1>3. o \in OpType /\ o.done = 0 BY <1>1, <1>2 DEF OpType
<1>4. Go(t, "unlinking", o) BY DEF BeginUnlink, first
<1> HIDE DEF o
<1>5. Modest("unlinking", o) BY DEF Modest, CountPcs
<1>6. Taken("unlinking", o) = 0 /\ Given("unlinking", o) = 0 BY <1>3 DEF Taken, Given
<1>7. Taken(pc[t], op[t]) = 0 /\ Given(pc[t], op[t]) = 0 BY <1>1 DEF Taken, Given
<1> QED BY <1>1, <1>3, <1>4, <1>5, <1>6, <1>7, PlainStep DEF Pcs, LoopPcs

\* With xDoTruncate too: the entry put was in use and stays so.
LEMMA BeginCutBalance ==
  ASSUME FatInv, Balanced, NEW t \in Tasks, BeginCut(t), ~failed'
  PROVE  Balanced'
<1>1. /\ pc[t] = "cut" /\ count' = count /\ op[t] \in OpType /\ TypeOK
      /\ op[t].done = 0
  BY TaskFacts DEF BeginCut, Balanced, Modest
<1>2. PICK c \in Clusters :
        /\ fat[c] \in Clusters /\ fat' = [fat EXCEPT ![c] = EOC]
        /\ Go(t, "unlinking", [op[t] EXCEPT !.hand = fat[c], !.low = c])
  BY DEF BeginCut, Chain, Fails
<1> DEFINE o == [op[t] EXCEPT !.hand = fat[c], !.low = c]
<1>3. o \in OpType /\ o.done = 0 BY <1>1, <1>2 DEF OpType
<1>4. Go(t, "unlinking", o) BY <1>2
<1> HIDE DEF o
<1>5. Modest("unlinking", o) BY DEF Modest, CountPcs
<1>6. Taken("unlinking", o) = 0 /\ Given("unlinking", o) = 0 BY <1>3 DEF Taken, Given
<1>7. Taken(pc[t], op[t]) = 0 /\ Given(pc[t], op[t]) = 0 BY <1>1 DEF Taken, Given
<1>8. fat \in [Clusters -> Links] BY <1>1 DEF TypeOK
<1>9. \A d \in Clusters : (fat[d] = Free) <=> (fat'[d] = Free)
  BY <1>2, <1>8, ValuesDiffer
<1>10. NumFree' = NumFree + 0
  <2>1. NumFree' = NumFree BY <1>9, FreeCountSame DEF NumFree
  <2> QED BY <1>1, <2>1, DueType
<1>11. "unlinking" \in Pcs BY DEF Pcs, LoopPcs
<1>12. 0 = Taken(pc[t], op[t]) - Taken("unlinking", o) - Given(pc[t], op[t])
             + Given("unlinking", o)
  BY <1>6, <1>7
<1> QED BY <1>1, <1>3, <1>4, <1>5, <1>10, <1>11, <1>12, CalmStep

\* One round of the loop: the cluster that is free now is one the task has given back.
LEMMA UnlinkBalance ==
  ASSUME FatInv, Balanced, OthersAreFree, NEW t \in Tasks, Unlink(t), ~failed'
  PROVE  Balanced'
<1> DEFINE c == op[t].hand
           low == Lower(op[t].low, c)
           n == op[t].done + 1
           a == [op[t] EXCEPT !.hand = fat[c], !.low = low, !.done = @ + 1]
           b == [op[t] EXCEPT !.hand = 0, !.low = 0, !.done = n, !.err = FALSE,
                              !.why = "more", !.ret = "unlock"]
<1>1. /\ pc[t] = "unlinking" /\ count' = count /\ op[t] \in OpType /\ TypeOK /\ Refs
      /\ c \in Clusters /\ fat \in [Clusters -> Links] /\ Modest(pc[t], op[t])
      /\ op[t].done \in Nat
  BY TaskFacts, OpFields DEF Unlink, TaskOK, Holding, TypeOK, Balanced
<1>2. fat[c] # Free /\ c \in Usable
  BY <1>1 DEF Refs, HandRefs, OthersAreFree
<1>3. fat' = [fat EXCEPT ![c] = Free] BY DEF Unlink, Fails
<1>4. NumFree' = NumFree + 1
  <2>1. /\ fat' \in [Clusters -> Links] /\ fat'[c] = Free
        /\ \A d \in Clusters \ {c} : (fat[d] = Free) <=> (fat'[d] = Free)
    BY <1>1, <1>3 DEF Links
  <2> HIDE DEF c
  <2> QED BY <1>1, <1>2, <2>1, FreeCountStep DEF NumFree
<1>5. Taken(pc[t], op[t]) = 0 /\ Given(pc[t], op[t]) = op[t].done BY <1>1 DEF Taken, Given
<1>6. CASE ~IsEnd(fat[c]) /\ Go(t, "unlinking", a)
  <2>1. low \in {0} \cup Clusters BY <1>1 DEF Lower, OpType
  <2>2. fat[c] \in Clusters BY <1>1, <1>6 DEF IsEnd, Links
  <2> HIDE DEF low
  <2>3. a \in OpType /\ a.done = n
    <3>1. op[t].done + 1 \in Nat BY <1>1
    <3>2. a \in OpType BY <1>1, <2>1, <2>2, <3>1 DEF OpType
    <3>3. a.done = n BY <1>1 DEF OpType
    <3> QED BY <3>2, <3>3
  <2> HIDE DEF a
  <2>4. Modest("unlinking", a) BY DEF Modest, CountPcs
  <2>5. Taken("unlinking", a) = 0 /\ Given("unlinking", a) = n BY <2>3 DEF Taken, Given
  <2>6. 1 = 0 - 0 - op[t].done + n BY <1>1
  <2>7. "unlinking" \in Pcs BY DEF Pcs, LoopPcs
  <2> HIDE DEF c, n
  <2> QED BY <1>1, <1>4, <1>5, <1>6, <2>3, <2>4, <2>5, <2>6, <2>7, CalmStep
<1>7. CASE Go(t, "check", b)
  <2>1. b \in OpType /\ b.done = n /\ b.why = "more" /\ b.ret = "unlock"
    <3>1. n \in Nat BY <1>1
    <3> HIDE DEF n
    <3>2. b \in OpType BY <1>1, <3>1 DEF OpType
    <3>3. b.done = n /\ b.why = "more" /\ b.ret = "unlock" BY <1>1 DEF OpType
    <3> QED BY <3>2, <3>3
  <2> HIDE DEF b
  <2>2. Modest("check", b) BY <2>1 DEF Modest, CountPcs
  <2>3. Taken("check", b) = 0 /\ Given("check", b) = n BY <2>1 DEF Taken, Given
  <2>4. 1 = 0 - 0 - op[t].done + n BY <1>1
  <2>5. "check" \in Pcs BY DEF Pcs, CountPcs
  <2> HIDE DEF c, n
  <2> QED BY <1>1, <1>4, <1>5, <1>7, <2>1, <2>2, <2>3, <2>4, <2>5, CalmStep
<1>8. n # 0 BY <1>1
<1>9. (~IsEnd(fat[c]) /\ Go(t, "unlinking", a)) \/ AfterUnlink(t, n, FALSE)
  BY DEF Unlink, Fails
<1>10. AfterUnlink(t, n, FALSE) => Go(t, "check", b) BY <1>8 DEF AfterUnlink
<1> HIDE DEF a, b, c, n
<1> QED BY <1>6, <1>7, <1>9, <1>10

\* FF_CreateClusterChain begins to extend a chain: nothing is added yet.
LEMMA BeginGrowBalance ==
  ASSUME FatInv, Balanced, NEW t \in Tasks, BeginGrow(t), ~failed'
  PROVE  Balanced'
<1>1. /\ pc[t] = "grow" /\ UNCHANGED <<fat, count>> /\ op[t] \in OpType /\ TypeOK
      /\ Modest(pc[t], op[t]) /\ op[t].obj \in Objects
  BY TaskFacts DEF BeginGrow, disk, Balanced, TaskOK, Sound
<1>2. PICK c \in Clusters : Go(t, "growing", [op[t] EXCEPT !.tail = c, !.done = 0])
  BY DEF BeginGrow, Chain, Fails
<1> DEFINE o == [op[t] EXCEPT !.tail = c, !.done = 0]
<1>3. /\ o \in OpType /\ o.done = 0 /\ o.kind = op[t].kind /\ o.obj = op[t].obj
      /\ o.left = op[t].left
  BY <1>1 DEF OpType
<1>4. Go(t, "growing", o) BY <1>2
<1> HIDE DEF o
<1>5. Modest("growing", o) BY <1>1, <1>3 DEF Modest
<1>6. Taken("growing", o) = 0 /\ Given("growing", o) = 0 BY <1>3 DEF Taken, Given
<1>7. Taken(pc[t], op[t]) = 0 /\ Given(pc[t], op[t]) = 0 BY <1>1 DEF Taken, Given
<1>8. "growing" \in Pcs BY DEF Pcs, LoopPcs
<1> QED BY <1>1, <1>3, <1>4, <1>5, <1>6, <1>7, <1>8, PlainStep

\* A chain grows: the cluster linked to it is one more the task has taken.
LEMMA GrowBalance ==
  ASSUME FatInv, Balanced, NEW t \in Tasks, Grow(t), ~failed'
  PROVE  Balanced'
<1> DEFINE tail == op[t].tail
<1>1. /\ pc[t] = "growing" /\ count' = count /\ op[t] \in OpType /\ TypeOK
      /\ tail \in Clusters /\ fat[tail] = EOC /\ fat \in [Clusters -> Links]
      /\ Modest(pc[t], op[t]) /\ op[t].done \in Nat /\ op[t].left \in Nat /\ op[t].left > 0
  BY TaskFacts, OpFields DEF Grow, TaskOK, TypeOK, Balanced
<1>2. ASSUME NEW c \in Usable, ClaimIn(c), fat' = [fat EXCEPT ![c] = EOC, ![tail] = c],
             Go(t, IF op[t].left = 1 THEN "grown" ELSE "growing",
                [op[t] EXCEPT !.tail = c, !.left = @ - 1, !.done = @ + 1])
      PROVE  Balanced'
  <2> DEFINE o == [op[t] EXCEPT !.tail = c, !.left = @ - 1, !.done = @ + 1]
             p == IF op[t].left = 1 THEN "grown" ELSE "growing"
  <2>1. c \in Clusters /\ c # Free /\ fat[c] = Free /\ EOC # Free /\ c \in Links
    BY <1>2, ValuesDiffer DEF ClaimIn, Finds, Links
  <2>2. o \in OpType
    <3>1. op[t].done + 1 \in Nat /\ op[t].left - 1 \in Nat BY <1>1
    <3> QED BY <1>1, <2>1, <3>1 DEF OpType
  <2>3. /\ o.kind = op[t].kind /\ o.obj = op[t].obj /\ o.done = op[t].done + 1
    BY <1>1 DEF OpType
  <2>4. Go(t, p, o) BY <1>2
  <2> HIDE DEF o
  <2>5. p \in Pcs /\ p \in {"grown", "growing"} /\ (p = "growing" => op[t].left # 1)
    BY DEF Pcs, LoopPcs
  <2> HIDE DEF p
  <2>6. Modest(p, o) BY <1>1, <2>3, <2>5 DEF Modest, CountPcs
  <2>7. /\ Taken(pc[t], op[t]) = op[t].done /\ Given(pc[t], op[t]) = 0
        /\ Taken(p, o) = op[t].done + 1 /\ Given(p, o) = 0
    BY <1>1, <2>3, <2>5 DEF Taken, Given
  <2> HIDE DEF tail
  <2>8. /\ fat' \in [Clusters -> Links] /\ fat'[c] # Free
        /\ \A d \in Clusters \ {c} : (fat[d] = Free) <=> (fat'[d] = Free)
    BY <1>1, <1>2, <2>1, ValuesDiffer DEF Links
  <2>9. NumFree' = NumFree - 1 /\ NumFree \in Nat BY <1>1, <2>1, <2>8, FreeCountStep DEF NumFree
  <2>10. NumFree' = NumFree + (-1) BY <2>9
  <2>11. -1 = Taken(pc[t], op[t]) - Taken(p, o) - Given(pc[t], op[t]) + Given(p, o)
    BY <1>1, <2>7
  <2>12. p \notin {"assign", "adjust"} BY <2>5
  <2> QED BY <1>1, <2>2, <2>4, <2>5, <2>6, <2>10, <2>11, <2>12, CalmStep
<1>3. CASE Go(t, "grown", op[t]) /\ fat' = fat
  <2>1. Modest("grown", op[t]) BY <1>1 DEF Modest, CountPcs
  <2>2. /\ Taken(pc[t], op[t]) = Taken("grown", op[t])
        /\ Given(pc[t], op[t]) = Given("grown", op[t])
    BY <1>1 DEF Taken, Given
  <2>3. "grown" \in Pcs BY DEF Pcs, LoopPcs
  <2> QED BY <1>1, <1>3, <2>1, <2>2, <2>3, PlainStep
<1> QED BY <1>2, <1>3 DEF Grow, ClaimFails, Fails

\* What was added is what FF_DecreaseFreeClusters is told.
LEMMA EndGrowBalance ==
  ASSUME FatInv, Balanced, NEW t \in Tasks, EndGrow(t)
  PROVE  Balanced'
<1> DEFINE file == op[t].obj \in Files
           less == [op[t] EXCEPT !.tail = 0, !.left = 0, !.why = "less",
                                 !.ret = IF file THEN "idle" ELSE "unlock"]
<1>1. /\ pc[t] = "grown" /\ UNCHANGED <<fat, count>> /\ op[t] \in OpType /\ TypeOK
      /\ Modest(pc[t], op[t]) /\ op[t].kind = "extend"
  BY TaskFacts DEF EndGrow, disk, Balanced, TaskOK
<1>2. Taken(pc[t], op[t]) = op[t].done /\ Given(pc[t], op[t]) = 0 BY <1>1 DEF Taken, Given
<1>3. CASE Go(t, "check", less)
  <2>1. /\ less \in OpType /\ less.done = op[t].done /\ less.why = "less"
        /\ less.ret \in {"idle", "unlock"}
    BY <1>1 DEF OpType
  <2> HIDE DEF less
  <2>2. Modest("check", less) BY <2>1 DEF Modest, CountPcs
  <2>3. Taken("check", less) = op[t].done /\ Given("check", less) = 0
    BY <2>1 DEF Taken, Given
  <2>4. "check" \in Pcs BY DEF Pcs, CountPcs
  <2> QED BY <1>1, <1>2, <1>3, <2>1, <2>2, <2>3, <2>4, PlainStep
<1>4. CASE ~file /\ op[t].done # 1 /\ Go(t, "unlock", op[t])
  <2>1. op[t].obj \in Dirs
    <3>1. op[t].obj \in Objects BY <1>1 DEF Modest
    <3> QED BY <1>4, <3>1 DEF Objects
  <2>2. op[t].done = 0 BY <1>1, <1>4, <2>1 DEF Modest
  <2>3. Modest("unlock", op[t]) BY DEF Modest, CountPcs
  <2>4. Taken("unlock", op[t]) = 0 /\ Given("unlock", op[t]) = 0 BY DEF Taken, Given
  <2>5. "unlock" \in Pcs BY DEF Pcs
  <2> QED BY <1>1, <1>2, <1>4, <2>2, <2>3, <2>4, <2>5, PlainStep
<1> QED BY <1>3, <1>4 DEF EndGrow

-----------------------------------------------------------------------------
(* The theorem.                                                             *)

\* The clusters that are never handed out stay free, whatever fails.
LEMMA OthersStayFree ==
  ASSUME FatInv, OthersAreFree, [Next]_vars
  PROVE  OthersAreFree'
<1>1. fat \in [Clusters -> Links] /\ Usable \subseteq Clusters
  BY ValuesDiffer DEF FatInv, TypeOK
<1>2. CASE fat' = fat BY <1>2 DEF OthersAreFree
<1>3. ASSUME NEW c \in Usable, fat' = [fat EXCEPT ![c] = EOC] PROVE OthersAreFree'
  BY <1>1, <1>3 DEF OthersAreFree
<1>4. ASSUME NEW t \in Tasks, Unlink(t), fat' = [fat EXCEPT ![op[t].hand] = Free]
      PROVE  OthersAreFree'
  BY <1>1, <1>4 DEF OthersAreFree
<1>5. ASSUME NEW t \in Tasks, Grow(t) PROVE OthersAreFree'
  <2>1. op[t].tail \in Clusters /\ fat[op[t].tail] = EOC
    BY <1>5, TaskFacts DEF Grow, TaskOK
  <2>2. op[t].tail \in Usable BY <2>1, ValuesDiffer DEF OthersAreFree
  <2>3. ASSUME NEW c \in Usable, fat' = [fat EXCEPT ![c] = EOC, ![op[t].tail] = c]
        PROVE  OthersAreFree'
    BY <1>1, <2>2, <2>3 DEF OthersAreFree
  <2>4. \/ fat' = fat
        \/ \E c \in Usable : \/ fat' = [fat EXCEPT ![c] = EOC]
                             \/ fat' = [fat EXCEPT ![c] = EOC, ![op[t].tail] = c]
    BY <1>5 DEF Grow, ClaimFails
  <2> QED BY <1>2, <1>3, <2>3, <2>4
<1>6. ASSUME NEW t \in Tasks, BeginCut(t) PROVE OthersAreFree'
  <2>1. fat' = fat \/ \E c \in Clusters : fat[c] \in Clusters /\ fat' = [fat EXCEPT ![c] = EOC]
    BY <1>6 DEF BeginCut, Chain
  <2>2. ASSUME NEW c \in Clusters, fat[c] \in Clusters PROVE c \in Usable
    BY <2>2, ValuesDiffer DEF OthersAreFree
  <2> QED BY <1>2, <1>3, <2>1, <2>2
<1>7. ASSUME NEW t \in Tasks, Claim(t) PROVE OthersAreFree'
  <2>1. fat' = fat \/ \E c \in Usable : fat' = [fat EXCEPT ![c] = EOC]
    BY <1>7 DEF Claim, ClaimFails
  <2> QED BY <1>2, <1>3, <2>1
<1>8. ASSUME NEW t \in Tasks, Unlink(t) PROVE OthersAreFree'
  <2>1. fat' = fat \/ fat' = [fat EXCEPT ![op[t].hand] = Free] BY <1>8 DEF Unlink
  <2> QED BY <1>2, <1>4, <1>8, <2>1
<1>9. ASSUME NEW t \in Tasks, Start(t) PROVE fat' = fat
  BY <1>9 DEF Start, Create, Remove, ExtendFile, Empty, Shorten, ExtendDirectory, GetFreeSize,
              Begin, disk
<1>10. ASSUME NEW t \in Tasks, Step(t) PROVE OthersAreFree'
  <2>1. CASE CheckCount(t) \/ Recount(t) \/ AssignCount(t) \/ AdjustCount(t) \/ TestHint(t)
             \/ Seek(t) \/ MakeEntry(t) \/ MakeDots(t) \/ BeginUnlink(t) \/ Unlock(t)
             \/ Erase(t) \/ Enough(t) \/ BeginGrow(t) \/ EndGrow(t)
    <3>1. fat' = fat
      BY <2>1 DEF CheckCount, Recount, AssignCount, AdjustCount, TestHint, Seek, MakeEntry,
                  MakeDots, BeginUnlink, Unlock, Erase, Enough, BeginGrow, EndGrow, disk
    <3> QED BY <1>2, <3>1
  <2> QED BY <1>5, <1>6, <1>7, <1>8, <1>10, <2>1 DEF Step
<1>11. CASE Remount BY <1>2, <1>11 DEF Remount, disk
<1>12. CASE UNCHANGED vars BY <1>2, <1>12 DEF vars
<1> QED BY <1>2, <1>9, <1>10, <1>11, <1>12 DEF Next

\* Every task is idle, and the count is unknown or right.
Settled ==
  (\A t \in Tasks : pc[t] = "idle" /\ op[t] = NoOp) /\ count \in {0, NumFree}

\* With every task idle nothing is due, and FF_Mount counts or forgets the count.
LEMMA FreshIsBalanced == Settled => Balanced
<1> SUFFICES ASSUME \A t \in Tasks : pc[t] = "idle" /\ op[t] = NoOp, count \in {0, NumFree}
             PROVE  Balanced
  BY DEF Settled
<1>1. \A t \in Tasks : Modest(pc[t], op[t]) BY IdleIsModest
<1>2. (\A t \in Tasks : TakenBy[t] = 0) /\ (\A t \in Tasks : GivenBy[t] = 0)
  BY IdleIsModest DEF TakenBy, GivenBy
<1>3. /\ IsFiniteSet(Ledger(TakenBy)) /\ Total(TakenBy) = 0
      /\ IsFiniteSet(Ledger(GivenBy)) /\ Total(GivenBy) = 0
  BY <1>2, EmptyLedger
<1>4. NumFree \in Int /\ CountModulus \in Int
  BY FreeCountIsBounded, FatAssumption DEF FatAssumption
<1>5. Due = NumFree BY <1>3, <1>4 DEF Due
<1>6. count = NumFree => CountAgrees
  <2>1. NumFree = NumFree + 0 * CountModulus BY <1>4
  <2> QED BY <1>5, <2>1 DEF CountAgrees
<1> QED BY <1>1, <1>3, <1>6 DEF Balanced

\* Every step preserves CountInv.
LEMMA CountStep ==
  ASSUME FatInv, CountInv, [Next]_vars
  PROVE  CountInv'
<1>1. OthersAreFree /\ OthersAreFree' BY OthersStayFree DEF CountInv
<1>2. SUFFICES ASSUME ~failed', ~raced' PROVE Balanced'
  BY <1>1 DEF CountInv
<1>3. ASSUME NEW t \in Tasks, Start(t) PROVE Balanced'
  <2>1. failed' = failed /\ raced' = raced
    BY <1>3 DEF Start, Create, Remove, ExtendFile, Empty, Shorten, ExtendDirectory,
                GetFreeSize, Begin, history
  <2> QED BY <1>2, <1>3, <2>1, StartCount DEF CountInv
<1>4. ASSUME NEW t \in Tasks, Step(t) PROVE Balanced'
  <2>1. ~failed
    BY <1>2, <1>4 DEF Step, Claim, CheckCount, Recount, AssignCount, AdjustCount, TestHint,
       Seek, MakeEntry, MakeDots, BeginUnlink, BeginCut, Unlink, Unlock, Erase, Enough,
       BeginGrow, Grow, EndGrow, ClaimFails, Fails, history
  <2>2. ~raced
    BY <1>2, <1>4 DEF Step, Claim, CheckCount, Recount, AssignCount, AdjustCount, TestHint,
       Seek, MakeEntry, MakeDots, BeginUnlink, BeginCut, Unlink, Unlock, Erase, Enough,
       BeginGrow, Grow, EndGrow, history
  <2>3. Balanced BY <2>1, <2>2 DEF CountInv
  <2>4. CASE CheckCount(t) \/ Recount(t) \/ AssignCount(t) \/ AdjustCount(t) \/ TestHint(t)
             \/ Seek(t)
    BY <1>2, <2>3, <2>4, CheckCountBalance, RecountBalance, AssignCountBalance,
       AdjustCountBalance, HintBalance
  <2>5. CASE Claim(t) \/ MakeEntry(t) \/ MakeDots(t) \/ Unlock(t) \/ Erase(t) \/ Enough(t)
    BY <1>2, <2>3, <2>5, ClaimBalance, MakeEntryBalance, EndBalance
  <2>6. CASE BeginUnlink(t) \/ BeginCut(t) \/ Unlink(t)
    BY <1>1, <1>2, <2>3, <2>6, BeginUnlinkBalance, BeginCutBalance, UnlinkBalance
  <2>7. CASE BeginGrow(t) \/ Grow(t) \/ EndGrow(t)
    BY <1>2, <2>3, <2>7, BeginGrowBalance, GrowBalance, EndGrowBalance
  <2> QED BY <1>4, <2>4, <2>5, <2>6, <2>7 DEF Step
<1>5. CASE Remount
  <2>1. \A t \in Tasks : pc[t] = "idle" /\ op[t] = NoOp
    BY <1>5 DEF Remount, FatInv, TasksOK, TaskOK
  <2>2. count' \in {0, NumFree} BY <1>5 DEF Remount, Fresh
  <2>3. NumFree' = NumFree /\ pc' = pc /\ op' = op BY <1>5 DEF Remount, disk, NumFree
  <2>4. Settled' BY <2>1, <2>2, <2>3 DEF Settled
  <2> QED BY <2>4, FreshIsBalanced, PTL
<1>6. CASE UNCHANGED vars
  <2>1. UNCHANGED <<fat, pc, op, count, failed, raced>> BY <1>6 DEF vars, history
  <2>2. Balanced BY <1>2, <2>1 DEF CountInv
  <2>3. NumFree' = NumFree /\ TakenBy' = TakenBy /\ GivenBy' = GivenBy
    BY <2>1 DEF NumFree, TakenBy, GivenBy
  <2>4. Due' = Due BY <2>3 DEF Due
  <2> QED BY <2>1, <2>2, <2>3, <2>4 DEF Balanced, CountAgrees
<1> QED BY <1>3, <1>4, <1>5, <1>6 DEF Next

\* When nothing is going on the count is unknown or exactly the number of free clusters,
\* whatever tasks claimed and freed meanwhile, as long as no access failed and no count was
\* taken or assigned while another task was about to change it: what is due is then nothing,
\* and both numbers are below the range of ulFreeClusterCount.
THEOREM TheCountIsExact == Spec => []CountIsExactUnlessRaced
<1>1. Init => CountInv
  <2> SUFFICES ASSUME Init PROVE CountInv OBVIOUS
  <2>1. OthersAreFree BY DEF Init, OthersAreFree
  <2>2. \A t \in Tasks : pc[t] = "idle" /\ op[t] = NoOp BY DEF Init
  <2>3. count \in {0, NumFree} BY DEF Init, Fresh
  <2> QED BY <2>1, <2>2, <2>3, FreshIsBalanced DEF CountInv, Settled
<1>2. FatInv /\ CountInv /\ [Next]_vars => CountInv' BY CountStep
<1>3. FatInv /\ CountInv => CountIsExactUnlessRaced
  <2> SUFFICES ASSUME FatInv, CountInv, AllIdle, ~failed, ~raced
               PROVE  count \in {0, NumFree}
    BY DEF CountIsExactUnlessRaced
  <2>1. Balanced /\ TypeOK BY DEF CountInv, FatInv
  <2>2. (\A t \in Tasks : TakenBy[t] = 0) /\ (\A t \in Tasks : GivenBy[t] = 0)
    BY DEF AllIdle, TakenBy, GivenBy, Taken, Given
  <2>3. Total(TakenBy) = 0 /\ Total(GivenBy) = 0 BY <2>2, EmptyLedger
  <2>4. NumFree \in Nat /\ NumFree < CountModulus /\ CountModulus \in Nat
    BY FreeCountIsBounded, FatAssumption DEF FatAssumption
  <2>5. Due = NumFree BY <2>3, <2>4 DEF Due
  <2>6. CountAgrees \/ count = 0 BY <2>1 DEF AllIdle, Balanced
  <2>7. ASSUME CountAgrees PROVE count = NumFree
    <3>1. PICK k \in Int : count = NumFree + k * CountModulus
      BY <2>5, <2>7 DEF CountAgrees
    <3>2. count \in Nat /\ count < CountModulus BY <2>1, <2>4 DEF TypeOK
    <3>3. CASE k >= 1
      <4>1. k * CountModulus >= CountModulus BY <2>4, <3>3
      <4>2. k * CountModulus \in Int BY <2>4
      <4> QED BY <2>4, <3>1, <3>2, <4>1, <4>2
    <3>4. CASE k <= -1
      <4>1. k * CountModulus <= -CountModulus BY <2>4, <3>4
      <4>2. k * CountModulus \in Int BY <2>4
      <4> QED BY <2>4, <3>1, <3>2, <4>1, <4>2
    <3>5. CASE k = 0 BY <2>4, <3>1, <3>5
    <3> QED BY <3>3, <3>4, <3>5
  <2> QED BY <2>6, <2>7
<1> QED BY <1>1, <1>2, <1>3, FatInvariant, PTL DEF Spec
=============================================================================
