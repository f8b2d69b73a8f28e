------------------------------- MODULE FFNames -------------------------------
(***************************************************************************)
(* Several tasks open, create, close, remove and move files and make and   *)
(* remove directories at the same time (src/ff_file.c, src/ff_dir.c): the  *)
(* slots of the directories, the list of open handles, the clusters that   *)
(* entries name, under the two locks of FFLocking.                         *)
(*                                                                         *)
(* Most functions first find something and act on it later, and only some  *)
(* of them hold a lock from the one to the other.  `strays' records each   *)
(* way in which a task acts on what is no longer so; what the properties   *)
(* state is that nothing else goes wrong.                                  *)
(*                                                                         *)
(* A long name takes one slot before its entry, and all long names shorten *)
(* to the same stem.  A file has no cluster or one, and its size is 0 or   *)
(* 1.  A directory other than the root has one cluster or two.  Free       *)
(* clusters are handed out lowest first (see FFFat).  There are other      *)
(* files before the slots of the root, so a search has seen a name.        *)
(***************************************************************************)
EXTENDS FFLocking, Sequences, FiniteSets

CONSTANTS
  Root, Clusters,       \* directories and files live in clusters, or in the root
  RootSlots, DirSlots,  \* the size of the root and of another directory (a bound)
  ClusterSlots,         \* the size of a directory that has not been extended
  Long,                 \* the names that do not fit 8.3
  Aliases,              \* the short names that may stand for them, in order
  Starts,               \* what may be on the volume to begin with
  Calls,                \* the calls made
  MaxCalls, MaxFaults   \* how many of them, and how many accesses fail (bounds)

ASSUME TasksAreFinite == IsFiniteSet(Tasks)
ASSUME NamesAssumption ==
  /\ Clusters \subseteq Nat \ {0} /\ Root \in Nat \ ({0} \cup Clusters)
  /\ RootSlots \in Nat /\ DirSlots \in Nat \ {0, 1} /\ ClusterSlots \in 2 .. DirSlots
  /\ Nobody \notin Clusters \cup {0}
  /\ DOMAIN Aliases \subseteq Nat /\ \A k \in DOMAIN Aliases : Aliases[k] \notin Long
  /\ MaxCalls \in Nat /\ MaxFaults \in Nat

VARIABLES
  dirs,      \* the slots of the root and of each cluster that is a directory
  used,      \* the clusters in use
  part,      \* what a cluster is part of that no entry names: the directory that was
             \* extended with it, or Nobody if it was lost
  op,        \* the call each task is in
  file,      \* the handle of each task, or NoFile
  zombies,   \* handles left in the list for ever
  calls, faults,
  strays     \* history: how tasks have acted on what was no longer so

nameVars == <<dirs, used, part, op, file, zombies, calls, faults, strays>>
vars == <<nameVars, lockVars>>

-----------------------------------------------------------------------------
(* Slots and names. *)

End == [kind |-> "end"]
Deleted == [kind |-> "deleted"]
Dots == [kind |-> "dots"]                       \* "." or ".."
Lfn(n, a) == [kind |-> "lfn", name |-> n, alias |-> a]
Entry(a, c, z, d) ==
  [kind |-> "entry", alias |-> a, cluster |-> c, size |-> z, isdir |-> d]

SlotsOf(D) == IF D = Root THEN RootSlots ELSE DirSlots
Blank == [i \in 0 .. DirSlots - 1 |-> End]      \* FF_ClearCluster
Room(D) == IF D = Root THEN RootSlots
           ELSE IF \E c \in Clusters : part[c] = D THEN DirSlots ELSE ClusterSlots

Least(S) == CHOOSE i \in S : \A j \in S : i <= j
Greatest(S) == CHOOSE i \in S : \A j \in S : j <= i

\* The first slot from i on that ends the directory: a zero byte or the last.
EndFrom(s, i) ==
  LET ends == {j \in DOMAIN s : j >= i /\ s[j].kind = "end"} IN
  IF ends = {} THEN Cardinality(DOMAIN s) ELSE Least(ends)

Entries(s) ==
  {i \in DOMAIN s : s[i].kind = "entry" /\ \A j \in 0 .. i - 1 : s[j].kind # "end"}

IsSlot(s) ==
  CASE s.kind = "entry" -> /\ s = Entry(s.alias, s.cluster, s.size, s.isdir)
                           /\ s.cluster \in Clusters \cup {0} /\ s.isdir \in BOOLEAN
    [] s.kind = "lfn" -> s = Lfn(s.name, s.alias)
    [] OTHER -> s \in {End, Deleted, Dots}

AreDirs(ds) ==
  /\ ds = [D \in Clusters \cup {Root} |-> [i \in 0 .. SlotsOf(D) - 1 |-> ds[D][i]]]
  /\ \A D \in DOMAIN ds : \A i \in DOMAIN ds[D] : IsSlot(ds[D][i])

\* After an end mark there is nothing.
EndsAreLast(ds) ==
  \A D \in DOMAIN ds : \A i, j \in DOMAIN ds[D] :
    i < j /\ ds[D][i].kind = "end" => ds[D][j].kind = "end"

\* Directories are made in the root (a bound).
DirsAreInRoot(ds) ==
  \A D \in DOMAIN ds \ {Root} : \A i \in DOMAIN ds[D] : ds[D][i].kind = "entry" => ~ ds[D][i].isdir

\* No short name twice and no long one; before each entry at most its long name.
NamesDiffer(ds) ==
  \A D \in DOMAIN ds : LET s == ds[D] IN
    \A i, j \in DOMAIN s :
      /\ s[i].kind = "entry" => s[i].alias \notin Long
      /\ s[i].kind = "entry" /\ s[j].kind = "entry" /\ s[i].alias = s[j].alias => i = j
      /\ s[i].kind = "lfn" => /\ s[i].name \in Long /\ i + 1 \in DOMAIN s
                              /\ s[i + 1].kind = "entry" /\ s[i + 1].alias = s[i].alias
      /\ s[i].kind = "lfn" /\ s[j].kind = "lfn" /\ s[i].name = s[j].name => i = j

\* FF_MODE_DIR is only for the functions' own use.
ASSUME CallsAssumption ==
  \A c \in Calls :
    /\ c.fn \in {"open", "mkdir", "rmfile", "rmdir", "move"} /\ "D" \notin c.mode
    /\ c.fn \in {"mkdir", "rmdir"} => c.path.in = ""

\* A sound volume: the clusters in use are those that have an entry, and they have one.
ASSUME StartsAssumption ==
  \A v \in Starts :
    LET reached == {Root} \cup {v.dirs[Root][i].cluster :
                     i \in {j \in Entries(v.dirs[Root]) : v.dirs[Root][j].isdir}} IN
    /\ AreDirs(v.dirs) /\ EndsAreLast(v.dirs) /\ DirsAreInRoot(v.dirs) /\ NamesDiffer(v.dirs)
    /\ v.used \subseteq Clusters
    /\ \A D \in Clusters : \A i \in ClusterSlots .. DirSlots - 1 : v.dirs[D][i] = End
    /\ \A D, E \in reached \cap DOMAIN v.dirs : \A i \in Entries(v.dirs[D]), j \in Entries(v.dirs[E]) :
         LET c == v.dirs[D][i].cluster IN
         /\ c = v.dirs[E][j].cluster => c = 0 \/ (D = E /\ i = j)
         /\ c # 0 => c \in v.used
    /\ \A c \in v.used : \E D \in reached \cap DOMAIN v.dirs : \E i \in Entries(v.dirs[D]) :
         v.dirs[D][i].cluster = c

\* The long name before an entry, if the checksums agree.
LongOf(s, i) ==
  {s[j].name : j \in {k \in 0 .. i - 1 :
     /\ s[k].kind = "lfn" /\ s[k].alias = s[i].alias
     /\ \A m \in k + 1 .. i - 1 : s[m] = Deleted}}

Visible(s, i) == IF LongOf(s, i) = {} THEN s[i].alias ELSE CHOOSE n \in LongOf(s, i) : TRUE

Named(s, n) == {i \in Entries(s) : Visible(s, i) = n}
Taken(s, a) == \E i \in Entries(s) : s[i].alias = a          \* FF_ShortNameExists

\* Mutant: one deleted slot is taken for a run of n.
FirstRunShort(s, i, n) ==
  LET end == EndFrom(s, i)
      runs == {j \in i .. end - n : s[j] = Deleted}
  IN  IF runs = {} THEN end ELSE Least(runs)

\* A run of n deleted slots from i on, or else the end.
FirstRun(s, i, n) ==
  LET end == EndFrom(s, i)
      runs == {j \in i .. end - n : \A k \in j .. j + n - 1 : s[k] = Deleted}
  IN  IF runs = {} THEN end ELSE Least(runs)

\* FF_RmDir has freed the directory, not yet removed its entry.
Doomed(D, i) ==
  \E u \in Tasks : /\ op[u].call.fn = "rmdir" /\ op[u].pc \in {"rmlfn", "erase"}
                   /\ file[u].dir = D /\ file[u].slot = i

\* A directory that a path leads to.
Alive(D) ==
  \/ D = Root
  \/ \E i \in Entries(dirs[Root]) : /\ dirs[Root][i].isdir /\ dirs[Root][i].cluster = D
                                    /\ ~ Doomed(Root, i)

\* What there is to know of a name in a directory.
Knowledge(D, n) == [alive |-> Alive(D), at |-> {<<i, dirs[D][i]>> : i \in Named(dirs[D], n)}]
Nothing == [alive |-> TRUE, at |-> {}]

-----------------------------------------------------------------------------
(* Calls and handles. *)

NoPath == [in |-> "", name |-> ""]
NoCall == [fn |-> "none", path |-> NoPath, to |-> NoPath, mode |-> {}]
NoEntry == [cluster |-> 0, size |-> 0, isdir |-> FALSE]
Idle == [call |-> NoCall, phase |-> "only", pc |-> "idle", dir |-> 0, slot |-> 0,
         ent |-> NoEntry, new |-> 0, free |-> 0, checked |-> "no", alias |-> "",
         seen |-> Nothing, goal |-> Nothing]

NoFile == [dir |-> 0, slot |-> 0, object |-> 0, size |-> 0, mode |-> {},
           isdir |-> FALSE, seen |-> Nothing]
IsOpen(t) == file[t] # NoFile
Listed == {file[t] : t \in {u \in Tasks : IsOpen(u)}} \cup zombies
Writes(mode) == "W" \in mode

Fn(o) == o.call.fn
At(t, pc) == op[t].pc = pc /\ asks[t] = {}

\* FF_Move opens the destination for reading (dst), removes it (del), opens the
\* source for writing (src), or as a directory (srcdir).
Path(o) == IF o.phase \in {"dst", "del"} THEN o.call.to ELSE o.call.path
\* Mutant: FF_RmFile opens the file for reading.
ModeReading(o) == CASE Fn(o) = "open" -> o.call.mode
                    [] Fn(o) = "mkdir" -> {"C"}
                    [] o.phase \in {"del", "src"} -> {"W"}
                    [] Fn(o) = "rmdir" \/ o.phase = "srcdir" -> {"D"}
                    [] Fn(o) = "rmfile" \/ o.phase = "dst" -> {"R"}

Mode(o) == CASE Fn(o) = "open" -> o.call.mode
             [] Fn(o) = "mkdir" -> {"C"}
             [] Fn(o) = "rmfile" \/ o.phase \in {"del", "src"} -> {"W"}
             [] Fn(o) = "rmdir" \/ o.phase = "srcdir" -> {"D"}
             [] o.phase = "dst" -> {"R"}
NewPath(o) == IF Fn(o) = "move" THEN o.call.to ELSE o.call.path

Removes(o) == Fn(o) \in {"rmfile", "rmdir"} \/ o.phase = "del"

\* Mutant: FF_RmFile unlocks the FAT when it has the directory.
UnderInTurn(o) ==
  CASE o.pc \in {"claim", "undo", "grow", "cut"} -> {"FAT"}
    [] o.pc = "rmlfn" /\ Fn(o) = "rmfile" -> Locks
    [] o.pc \in {"plan", "unmade", "lfn", "entry", "empty", "quit", "rmlfn", "erase"} -> {"DIR"}
    [] o.pc = "extend" -> Locks
    [] o.pc = "unlink" -> IF Fn(o) = "rmdir" THEN Locks ELSE {"FAT"}
    [] OTHER -> {}

\* The locks that each place of the code is under.
Under(o) ==
  CASE o.pc \in {"claim", "undo", "grow", "cut"} -> {"FAT"}
    [] o.pc \in {"plan", "unmade", "lfn", "entry", "empty", "quit", "rmlfn", "erase"} -> {"DIR"}
    [] o.pc = "extend" -> Locks
    [] o.pc = "unlink" -> IF Fn(o) = "rmdir" THEN Locks ELSE {"FAT"}
    [] OTHER -> {}

Go(t, o) == op' = [op EXCEPT ![t] = o] /\ Turn(t, Under(op'[t]))
To(t, pc) == Go(t, [op[t] EXCEPT !.pc = pc])

Fault == faults < MaxFaults /\ faults' = faults + 1
NoFault == UNCHANGED faults
Stray(reasons) == strays' = strays \cup reasons
When(p, reason) == IF p THEN {reason} ELSE {}

\* A path without a directory part is looked up in the root.
Opening(o) == IF Path(o).in = "" THEN [o EXCEPT !.dir = Root, !.pc = "find"]
              ELSE [o EXCEPT !.pc = "dir"]

\* What follows an FF_Open that fails: FF_Move takes any error but one for "the
\* destination does not exist".
Refused(o, why) ==
  IF o.phase = "dst" /\ why # "isdir" THEN Opening([o EXCEPT !.phase = "src", !.goal = o.seen])
  ELSE IF o.phase = "src" /\ why = "isdir" THEN Opening([o EXCEPT !.phase = "srcdir"])
  ELSE Idle

Start(t) ==
  /\ At(t, "idle") /\ ~ IsOpen(t)
  /\ calls < MaxCalls /\ calls' = calls + 1
  /\ \E c \in Calls :
       Go(t, Opening([Idle EXCEPT !.call = c,
                                  !.phase = IF c.fn = "move" THEN "dst" ELSE "only"]))
  /\ UNCHANGED <<dirs, used, part, file, zombies, faults, strays>>

-----------------------------------------------------------------------------
(* Finding. *)

\* The cluster of the directory that a path goes through, or 0.
DirOf(n) ==
  LET hits == {i \in Named(dirs[Root], n) : dirs[Root][i].isdir} IN
  IF hits = {} THEN 0 ELSE dirs[Root][Least(hits)].cluster

\* FF_FindDir.
FindDir(t) ==
  /\ At(t, "dir")
  /\ LET D == DirOf(Path(op[t]).in) IN
     \/ /\ D # 0 /\ Go(t, [op[t] EXCEPT !.dir = D, !.pc = "find"]) /\ NoFault
        /\ Stray(When(~ Alive(D), "doomed"))
     \/ D = 0 /\ Go(t, Refused(op[t], "path")) /\ NoFault /\ UNCHANGED strays
     \/ Fault /\ Go(t, Refused(op[t], "path")) /\ UNCHANGED strays
  /\ UNCHANGED <<dirs, used, part, file, zombies, calls>>

\* The search has met the short name, or has come to an end mark without it.
Checked(D, n) == IF Taken(dirs[D], n) THEN "found"
                 ELSE IF EndFrom(dirs[D], 0) >= Room(D) THEN "no" ELSE "absent"

\* The entry that a search stops at.
Hits(s, n) == {i \in Named(s, n) : \A j \in Named(s, n) : i <= j}

Creates(o) == "C" \in Mode(o)
Absent(o) == IF Creates(o) THEN [o EXCEPT !.pc = "claim"] ELSE Refused(o, "absent")

\* FF_FindEntryInDir, and what FF_Open or FF_MkDir makes of the answer.  A found
\* file without a cluster is absent for FF_MkDir.
Found(t, o, i, s) ==
  /\ IF Fn(o) = "mkdir"
     THEN /\ Go(t, IF s[i].cluster # 0 THEN Idle ELSE [o EXCEPT !.pc = "claim"])
          /\ Stray(When(s[i].cluster = 0, "empty"))
     ELSE /\ Go(t, IF s[i].isdir /\ "D" \notin Mode(o) THEN Refused(o, "isdir")
                   ELSE [o EXCEPT !.pc = "join", !.slot = i,
                           !.ent = [cluster |-> s[i].cluster, size |-> s[i].size,
                                    isdir |-> s[i].isdir]])
          /\ UNCHANGED strays
  /\ NoFault

\* A sector could not be read after a long name that is the name looked for: FF_Open
\* compares the two, and a file size that was never set, as below.
Unsized(t, o, s) ==
  \E j \in DOMAIN s, c \in Clusters \cup {0} : \E i \in j .. Cardinality(DOMAIN s) - 1 :
    /\ s[j].kind = "lfn" /\ s[j].name = Path(o).name
    /\ \A k \in j + 1 .. i : s[k] = Deleted
    /\ Go(t, [o EXCEPT !.pc = "join", !.slot = i, !.ent.cluster = c])

\* The name is that of a last long name without an entry.  FF_Open compares it and
\* a file size that was never set: the file may be "found", with any cluster.  The
\* attributes of a long name say that the file cannot be written.
Phantom(t, o, s) ==
  LET last == EndFrom(s, 0) - 1
      live == {j \in 0 .. last : s[j] # Deleted}
  IN  /\ Fn(o) # "mkdir" /\ Hits(s, Path(o).name) = {} /\ live # {}
      /\ s[Greatest(live)].kind = "lfn" /\ s[Greatest(live)].name = Path(o).name
      /\ NoFault
      /\ \/ /\ Writes(Mode(o)) /\ s[last] # Deleted
            /\ Go(t, Refused(o, "readonly"))
            /\ UNCHANGED strays
         \/ /\ ~ Writes(Mode(o)) \/ s[last] = Deleted
            /\ \E c \in Clusters \cup {0} :
                 Go(t, [o EXCEPT !.pc = "join", !.slot = last, !.ent.cluster = c])
            /\ Stray({"phantom"})

Find(t) ==
  /\ At(t, "find")
  /\ LET s == dirs[op[t].dir]
         n == Path(op[t]).name
         o == [op[t] EXCEPT !.seen = Knowledge(op[t].dir, n), !.free = FirstRun(s, 0, 2),
                            !.checked = Checked(op[t].dir, n)]
     IN
     \/ \E i \in Hits(s, n) : Found(t, o, i, s)
     \/ Hits(s, n) = {} /\ Go(t, Absent(o)) /\ NoFault /\ UNCHANGED strays
     \/ Phantom(t, o, s)
     \/ Fn(o) # "mkdir" /\ Fault /\ Unsized(t, o, s) /\ Stray({"phantom"})
     \/ \* A sector cannot be read: FF_MkDir gives up, FF_Open has found nothing.
        /\ Fault
        /\ \E k \in {"no", o.checked} \ {"absent"} :
             Go(t, IF Fn(o) = "mkdir" THEN Idle ELSE Absent([o EXCEPT !.free = 0, !.checked = k]))
        /\ Stray(When(Fn(o) # "mkdir" /\ (Creates(o) \/ o.phase = "dst") /\ n \in Long, "blind"))
  /\ UNCHANGED <<dirs, used, part, file, zombies, calls>>

-----------------------------------------------------------------------------
(* Creating. *)

\* Mutant: the reserved cluster before the first is handed out too.
FreeReserved == (Clusters \cup {Root}) \ used

FreeClusters == Clusters \ used

\* A cluster is claimed, and no entry will name it.
Assign(c, owner) == used' = used \cup {c} /\ part' = [part EXCEPT ![c] = owner]

\* FF_UnlinkClusterChain of all of a chain, or of some of it.
Chain(c) == {c} \cup {e \in Clusters : c # 0 /\ part[e] = c}
Release(S) ==
  /\ used' = used \ S
  /\ part' = [e \in Clusters |-> IF e \in S THEN 0 ELSE part[e]]

\* FF_CreateClusterChain returns an error with the cluster: it claimed the last one and
\* another search has found none since, or an access has failed.
Lose(t) ==
  LET c == Least(FreeClusters) IN
  /\ FreeClusters # {} /\ Assign(c, Nobody)
  /\ (FreeClusters = {c} /\ NoFault) \/ Fault
  /\ Go(t, Idle)

\* FF_CreateClusterChain; FF_MkDir clears the cluster.
Claim(t) ==
  /\ At(t, "claim")
  /\ LET o == op[t]
         c == Least(FreeClusters)
         isdir == Fn(o) = "mkdir"
     IN
     \/ /\ FreeClusters # {}
        /\ used' = used \cup {c} /\ UNCHANGED part
        /\ Stray(When(isdir /\ \E u \in Tasks : op[u].dir = c, "recycled"))
        /\ \/ /\ dirs' = IF isdir THEN [dirs EXCEPT ![c] = Blank] ELSE dirs
              /\ Go(t, [o EXCEPT !.new = c, !.pc = "plan"])
              /\ NoFault
           \/ /\ isdir /\ Fault
              /\ Go(t, [o EXCEPT !.new = c, !.pc = "undo"])
              /\ UNCHANGED dirs
     \/ Lose(t) /\ UNCHANGED <<dirs, strays>>
     \/ /\ (FreeClusters = {} /\ NoFault) \/ Fault
        /\ Go(t, Idle)
        /\ UNCHANGED <<dirs, used, part, strays>>
  /\ UNCHANGED <<file, zombies, calls>>

\* Mutant: the cluster claimed for the new entry is kept.
NotCreatedKept(o) == [o EXCEPT !.pc = "leave"]

\* A failing FF_CreateDirent: the cluster is given back; FF_Move closes the source.
NotCreated(o) == [o EXCEPT !.pc = IF Fn(o) = "move" THEN "leave" ELSE "undo"]

\* Mutant: every long name gets the same short name.
FreshAliasFirst(s) == Aliases[1]

FreshAlias(s) ==
  Aliases[Least({k \in DOMAIN Aliases : ~ Taken(s, Aliases[k])})]

\* A short name is free as well if the sector that holds it cannot be read:
\* FF_ShortNameExists forgets the error.
Unread(s) ==
  {Aliases[k] : k \in {m \in DOMAIN Aliases : \A l \in DOMAIN Aliases : l < m => Taken(s, Aliases[l])}}

\* FF_MkDir has not written "." and ".." yet.
Unfinished(D) == \E u \in Tasks : op[u].pc \in {"dot", "dotdot"} /\ op[u].new = D

Needs(o) == IF NewPath(o).name \in Long THEN 2 ELSE 1
Making(o) == IF NewPath(o).name \in Long THEN "lfn" ELSE "entry"

\* FF_FindFreeDirent has found a place, in the directory or at its end.
Settle(t, o, a) ==
  LET last == FirstRun(dirs[o.dir], o.free, Needs(o)) + Needs(o) IN
  /\ last <= SlotsOf(o.dir)               \* no directory is extended twice (a bound)
  /\ Go(t, [o EXCEPT !.slot = last - 1, !.alias = a,
                     !.pc = IF last > Room(o.dir) THEN "extend" ELSE Making(o)])

\* FF_CreateDirent up to FF_FindFreeDirent.  A short name is looked for again only
\* if the search before did not answer; then a file without a cluster is not noticed,
\* nor the short name of a file that has a long one.
Plan(t) ==
  /\ At(t, "plan")
  /\ LET n == NewPath(op[t]).name
         s == dirs[op[t].dir]
         long == n \in Long
         again == ~ long /\ op[t].checked = "no"
         o == IF again THEN [op[t] EXCEPT !.seen = Knowledge(op[t].dir, n)] ELSE op[t]
         hits == Named(s, n)
         exists == IF long THEN \A k \in DOMAIN Aliases : Taken(s, Aliases[k])
                   ELSE IF again THEN hits # {} /\ s[Least(hits)].cluster # 0
                   ELSE o.checked = "found"
         full == /\ FirstRun(s, o.free, Needs(o)) + Needs(o) > Room(o.dir)
                 /\ o.dir = Root \/ FreeClusters = {}      \* the root cannot be extended
     IN
     \/ /\ ~ exists /\ ~ full /\ NoFault
        /\ Settle(t, o, IF long THEN FreshAlias(s) ELSE n)
        /\ Stray(When(again /\ (hits # {} \/ Taken(s, n)), "taken")
                 \cup When(Unfinished(o.dir), "undotted"))
     \/ /\ long /\ ~ full /\ Fault
        /\ \E a \in Unread(s) :
             /\ Settle(t, o, a)
             /\ Stray(When(Taken(s, a), "unread") \cup When(Unfinished(o.dir), "undotted"))
     \/ (exists \/ full) /\ Go(t, NotCreated(op[t])) /\ NoFault /\ UNCHANGED strays
     \/ Fault /\ Go(t, NotCreated(op[t])) /\ UNCHANGED strays
  /\ UNCHANGED <<dirs, used, part, file, zombies, calls>>

\* FF_ExtendDirectory: the cluster is claimed, linked and cleared.  (What a search reads
\* of it before it is cleared, when the FAT lock has been given back, is left out.)
Extend(t) ==
  /\ At(t, "extend")
  /\ LET c == Least(FreeClusters) IN
     \/ /\ FreeClusters # {} /\ NoFault /\ Assign(c, op[t].dir)
        /\ To(t, Making(op[t]))
        /\ Stray(When(~ Alive(op[t].dir), "outdated"))
     \/ /\ FreeClusters # {} /\ Fault
        /\ \/ Assign(c, op[t].dir) /\ Stray({"uncleared"})
           \/ Assign(c, Nobody) /\ UNCHANGED strays
        /\ To(t, "unmade")
     \/ /\ (FreeClusters = {} /\ NoFault) \/ Fault
        /\ To(t, "unmade")
        /\ UNCHANGED <<used, part, strays>>
  /\ UNCHANGED <<dirs, file, zombies, calls>>

\* The FAT lock has been given back, now the directory lock is.
Unmade(t) ==
  /\ At(t, "unmade") /\ Go(t, NotCreated(op[t]))
  /\ UNCHANGED <<dirs, used, part, file, zombies, calls, faults, strays>>

Put(D, i, e) == dirs' = [dirs EXCEPT ![D][i] = e]

\* FF_CreateLFNs, which forgets the error of a write when it has released the buffer:
\* the entry then follows without its long name.
PutLfn(t) ==
  /\ At(t, "lfn")
  /\ LET o == op[t] IN
     \/ Put(o.dir, o.slot - 1, Lfn(NewPath(o).name, o.alias)) /\ To(t, "entry")
        /\ NoFault /\ UNCHANGED strays
     \/ Fault /\ To(t, "entry") /\ Stray({"nameless"}) /\ UNCHANGED dirs
     \/ Fault /\ Go(t, NotCreated(o)) /\ UNCHANGED <<dirs, strays>>
  /\ UNCHANGED <<used, part, file, zombies, calls>>

\* What FF_CreateDirent writes: a new file, a new directory, or the file moved.
NewEntry(t) ==
  LET o == op[t] IN
  CASE Fn(o) = "open" -> Entry(o.alias, o.new, 0, FALSE)
    [] Fn(o) = "mkdir" -> Entry(o.alias, o.new, 0, TRUE)
    [] Fn(o) = "move" -> Entry(o.alias, file[t].object, file[t].size, file[t].isdir)

Outdated(D, n, seen) == Knowledge(D, n) # seen \/ ~ Alive(D)

\* What the search told of the name is no longer so.
Late(o, n) ==
  When(Outdated(o.dir, n, o.seen) \/ (o.checked # "no" /\ Taken(dirs[o.dir], n)), "outdated")

PutNew(t) ==
  /\ At(t, "entry")
  /\ LET o == op[t]
         e == NewEntry(t)
         n == NewPath(o).name
     IN
     \/ /\ Put(o.dir, o.slot, e)
        /\ Stray(Late(o, n))
        /\ Go(t, CASE Fn(o) = "open" ->
                        [o EXCEPT !.pc = "join", !.ent.cluster = o.new, !.new = 0,
                                  !.seen = [alive |-> @.alive, at |-> {<<o.slot, e>>}]]
                   [] Fn(o) = "mkdir" -> [o EXCEPT !.pc = "dot"]
                   [] Fn(o) = "move" -> [o EXCEPT !.pc = "made"])
        /\ NoFault
     \/ \* FF_CreateFile: the file is there, but flushing the cache fails.
        /\ Fn(o) = "open" /\ Fault /\ Put(o.dir, o.slot, e) /\ Go(t, Idle)
        /\ Stray(Late(o, n))
     \/ Fault /\ Go(t, NotCreated(o)) /\ UNCHANGED <<dirs, strays>>
     \/ Fault /\ Put(o.dir, o.slot, e) /\ Go(t, NotCreated(o)) /\ Stray({"failed"})
  /\ UNCHANGED <<used, part, file, zombies, calls>>

\* FF_MkDir gives the cluster back even if the entry that names it is there.
Undo(t) ==
  /\ At(t, "undo")
  /\ \/ Release(Chain(op[t].new)) /\ NoFault
     \/ Fault /\ \E S \in {{}, Chain(op[t].new)} : Release(S)
  /\ Go(t, Idle)
  /\ UNCHANGED <<dirs, file, zombies, calls, strays>>

MakeDots(t) ==
  /\ op[t].pc \in {"dot", "dotdot"} /\ asks[t] = {}
  /\ LET first == op[t].pc = "dot" IN
     \/ /\ Put(op[t].new, IF first THEN 0 ELSE 1, Dots)
        /\ IF first THEN To(t, "dotdot") ELSE Go(t, Idle)
        /\ NoFault /\ UNCHANGED strays
     \/ Fault /\ To(t, "undo") /\ Stray({"undone"}) /\ UNCHANGED dirs
  /\ UNCHANGED <<used, part, file, zombies, calls>>

-----------------------------------------------------------------------------
(* The list of handles. *)

NewHandle(o) ==
  [dir |-> o.dir, slot |-> o.slot, object |-> o.ent.cluster, mode |-> Mode(o),
   size |-> IF "T" \in Mode(o) THEN 0 ELSE o.ent.size, isdir |-> o.ent.isdir,
   seen |-> o.seen]

\* Mutant: only the newcomer's mode is looked at.
ConflictsOneWay(g, h) ==
  g.object = h.object /\ g.dir = h.dir /\ g.slot = h.slot /\ Writes(h.mode)

Conflicts(g, h) ==
  /\ g.object = h.object /\ g.dir = h.dir /\ g.slot = h.slot
  /\ Writes(g.mode) \/ Writes(h.mode)

\* The entry of that slot is written and the handle does not say so yet.
Noting(D, i) ==
  \E u \in Tasks : op[u].pc = "note" /\ file[u].dir = D /\ file[u].slot = i

\* FF_MODE_DIR excludes nobody, though who opens a directory will remove or move it;
\* one that is being moved has two names for a while.
SharesDir(g, h) == "D" \in g.mode \cap h.mode /\ g.object = h.object

\* The end of FF_Open, and what its caller does with the handle.
Join(t) ==
  /\ At(t, "join")
  /\ LET o == op[t]
         h == NewHandle(o)
         busy == \E g \in Listed : Conflicts(g, h)
     IN
     /\ file' = IF busy THEN file ELSE [file EXCEPT ![t] = h]
     /\ Go(t, IF busy THEN Refused(o, "busy")
              ELSE IF Fn(o) = "open" THEN Idle
              ELSE IF Fn(o) = "rmdir" THEN [o EXCEPT !.pc = "empty"]
              ELSE IF Removes(o)
              THEN [o EXCEPT !.pc = IF h.object # 0 THEN "unlink" ELSE "rmlfn"]
              ELSE [o EXCEPT !.pc = IF o.phase = "dst" THEN "leave" ELSE "target"])
     /\ Stray(When(busy /\ o.phase = "dst", "busy")
              \cup When(~ busy /\ Outdated(o.dir, Path(o).name, o.seen), "outdated")
              \cup When(~ busy /\ Noting(o.dir, o.slot), "noting")
              \cup When(~ busy /\ \E g \in Listed : SharesDir(g, h), "shared")
              \cup When(~ busy /\ "D" \in h.mode /\ ~ h.isdir, "notdir"))
  /\ UNCHANGED <<dirs, used, part, zombies, calls, faults>>

-----------------------------------------------------------------------------
(* Removing and moving. *)

\* FF_isDirEmpty looks the path up again, and takes any error for the end.
IsEmpty(o) ==
  LET D == DirOf(Path(o).name) IN D = 0 \/ Entries(dirs[D]) = {}

Empty(t) ==
  /\ At(t, "empty")
  /\ \/ To(t, IF IsEmpty(op[t]) THEN "unlink" ELSE "leave") /\ NoFault
     \/ To(t, "unlink") /\ Fault
  /\ Stray(When(DirOf(Path(op[t]).name) # file[t].object, "outdated")
           \cup When(op'[t].pc = "unlink" /\ ~ IsEmpty(op[t]), "unread"))
  /\ UNCHANGED <<dirs, used, part, file, zombies, calls>>

\* The clusters are freed before the entry is removed.  If that fails the handle of
\* FF_RmFile stays in the list.
Unlink(t) ==
  /\ At(t, "unlink")
  /\ LET o == op[t]
         c == file[t].object
     IN
     \/ /\ Release(Chain(c))
        /\ To(t, "rmlfn")
        /\ Stray(When(Outdated(file[t].dir, Path(o).name, file[t].seen), "outdated")
                 \cup When(Unfinished(c), "undotted"))
        /\ NoFault /\ UNCHANGED <<file, zombies>>
     \/ /\ Fault
        /\ \E S \in {{}, {c}, Chain(c)} : Release(S)
        /\ Stray(When(used' # used, "failed"))
        /\ IF Fn(o) = "rmdir"
           THEN To(t, "quit") /\ UNCHANGED <<file, zombies>>
           ELSE /\ Go(t, Idle)
                /\ file' = [file EXCEPT ![t] = NoFile]
                /\ zombies' = zombies \cup {file[t]}
  /\ UNCHANGED <<dirs, calls>>

Quit(t) ==
  /\ At(t, "quit") /\ To(t, "leave")
  /\ UNCHANGED <<dirs, used, part, file, zombies, calls, faults, strays>>

\* FF_CreateDirent has given back the directory lock, FF_Move takes it again.
Relock(t) ==
  /\ At(t, "made") /\ To(t, "rmlfn")
  /\ UNCHANGED <<dirs, used, part, file, zombies, calls, faults, strays>>

\* FF_RmLFNs: the long names right before the entry.
RmLfn(t) ==
  /\ At(t, "rmlfn")
  /\ LET D == file[t].dir
         i == file[t].slot
         long == {j \in 0 .. i - 1 : \A k \in j .. i - 1 : dirs[D][k].kind = "lfn"}
     IN
     \/ /\ dirs' = [dirs EXCEPT ![D] = [k \in DOMAIN @ |-> IF k \in long THEN Deleted ELSE @[k]]]
        /\ To(t, "erase") /\ NoFault /\ UNCHANGED strays
     \/ Fault /\ To(t, "leave") /\ Stray({"failed"}) /\ UNCHANGED dirs
  /\ UNCHANGED <<used, part, file, zombies, calls>>

Erase(t) ==
  /\ At(t, "erase")
  /\ \/ Put(file[t].dir, file[t].slot, Deleted) /\ To(t, "leave") /\ NoFault /\ UNCHANGED strays
     \/ Fault /\ To(t, "leave") /\ Stray({"failed"}) /\ UNCHANGED dirs
  /\ UNCHANGED <<used, part, file, zombies, calls>>

\* FF_Move finds the directory it moves the file to.
Target(t) ==
  /\ At(t, "target")
  /\ LET o == op[t]
         D == IF o.call.to.in = "" THEN Root ELSE DirOf(o.call.to.in)
     IN
     \/ /\ D # 0 /\ NoFault
        /\ Go(t, [o EXCEPT !.dir = D, !.free = 0, !.checked = "no", !.seen = o.goal,
                           !.pc = "plan"])
        /\ Stray(When(~ Alive(D), "doomed") \cup When(file[t].isdir /\ D # Root, "nested"))
     \/ D = 0 /\ To(t, "leave") /\ NoFault /\ UNCHANGED strays
     \/ Fault /\ To(t, "leave") /\ UNCHANGED strays
  /\ UNCHANGED <<dirs, used, part, file, zombies, calls>>

\* The end of FF_Close, and of the function that had the file open.
Leave(t) ==
  /\ At(t, "leave")
  /\ file' = [file EXCEPT ![t] = NoFile]
  /\ LET o == op[t] IN
     Go(t, CASE o.phase = "dst" -> Opening([o EXCEPT !.phase = "del"])
             [] o.phase = "del" -> Opening([o EXCEPT !.phase = "src", !.goal = Nothing])
             [] OTHER -> Idle)
  /\ UNCHANGED <<dirs, used, part, zombies, calls, faults, strays>>

-----------------------------------------------------------------------------
(* The handle a program has: the first write and the end. *)

PutIn(D, i, c, z) ==
  Put(D, i, IF dirs[D][i].kind = "entry" THEN [dirs[D][i] EXCEPT !.cluster = c, !.size = z]
            ELSE dirs[D][i])

Begin(t, fn, pc) == Go(t, [Idle EXCEPT !.call.fn = fn, !.pc = pc])

\* FF_Write to an empty file, FF_ExtendFile with it.
Write(t) ==
  /\ At(t, "idle") /\ IsOpen(t) /\ Writes(file[t].mode) /\ file[t].size = 0
  /\ IF file[t].object # 0
     THEN file' = [file EXCEPT ![t].size = 1] /\ Go(t, Idle)
     ELSE Begin(t, "write", "grow") /\ UNCHANGED file
  /\ UNCHANGED <<dirs, used, part, zombies, calls, faults, strays>>

Grow(t) ==
  /\ At(t, "grow")
  /\ \/ /\ FreeClusters # {} /\ NoFault
        /\ used' = used \cup {Least(FreeClusters)} /\ UNCHANGED part
        /\ Go(t, [op[t] EXCEPT !.new = Least(FreeClusters), !.pc = "enter"])
     \/ Lose(t)
     \/ /\ (FreeClusters = {} /\ NoFault) \/ Fault
        /\ Go(t, Idle) /\ UNCHANGED <<used, part>>
  /\ UNCHANGED <<dirs, file, zombies, calls, strays>>

\* The entry is written before the handle says so.
Enter(t) ==
  /\ At(t, "enter")
  /\ \/ /\ PutIn(file[t].dir, file[t].slot, op[t].new, 0)
        /\ To(t, "note") /\ NoFault /\ UNCHANGED strays
     \/ Fault /\ Go(t, Idle) /\ UNCHANGED <<dirs, strays>>
     \/ Fault /\ Go(t, Idle) /\ PutIn(file[t].dir, file[t].slot, op[t].new, 0) /\ Stray({"failed"})
  /\ UNCHANGED <<used, part, file, zombies, calls>>

Note(t) ==
  /\ At(t, "note")
  /\ IF Fn(op[t]) = "write"
     THEN file' = [file EXCEPT ![t].object = op[t].new, ![t].size = 1] /\ Go(t, Idle)
     ELSE file' = [file EXCEPT ![t].object = 0] /\ To(t, "size")
  /\ UNCHANGED <<dirs, used, part, zombies, calls, faults, strays>>

\* FF_Close; FF_Truncate takes the cluster of an empty file away.
Close(t) ==
  /\ At(t, "idle") /\ IsOpen(t)
  /\ Begin(t, "close", IF ~ Writes(file[t].mode) THEN "leave"
                       ELSE IF file[t].size = 0 /\ file[t].object # 0 THEN "cut" ELSE "size")
  /\ UNCHANGED <<dirs, used, part, file, zombies, calls, faults, strays>>

Cut(t) ==
  /\ At(t, "cut")
  /\ \/ /\ Release(Chain(file[t].object)) /\ To(t, "detach")
        /\ NoFault /\ UNCHANGED strays
     \/ /\ Fault /\ \E S \in {{}, Chain(file[t].object)} : Release(S)
        /\ To(t, "leave") /\ Stray(When(used' # used, "failed"))
  /\ UNCHANGED <<dirs, file, zombies, calls>>

Detach(t) ==
  /\ At(t, "detach")
  /\ \/ PutIn(file[t].dir, file[t].slot, 0, dirs[file[t].dir][file[t].slot].size)
        /\ To(t, "note") /\ NoFault /\ UNCHANGED strays
     \/ Fault /\ To(t, "leave") /\ Stray({"failed"}) /\ UNCHANGED dirs
  /\ UNCHANGED <<used, part, file, zombies, calls>>

PutSize(t) ==
  /\ At(t, "size")
  /\ LET z == file[t].size
         c == IF z = 0 THEN 0 ELSE dirs[file[t].dir][file[t].slot].cluster
     IN  \/ PutIn(file[t].dir, file[t].slot, c, z) /\ NoFault
         \/ Fault /\ UNCHANGED dirs
  /\ To(t, "leave")
  /\ UNCHANGED <<used, part, file, zombies, calls, strays>>

-----------------------------------------------------------------------------
Init ==
  /\ LockInit
  /\ \E v \in Starts : dirs = v.dirs /\ used = v.used
  /\ part = [c \in Clusters |-> 0]
  /\ op = [t \in Tasks |-> Idle]
  /\ file = [t \in Tasks |-> NoFile]
  /\ zombies = {}
  /\ calls = 0 /\ faults = 0
  /\ strays = {}

\* A task in a call goes on.
Continue(t) ==
  \/ FindDir(t) \/ Find(t) \/ Claim(t) \/ Plan(t) \/ Extend(t) \/ Unmade(t)
  \/ PutLfn(t) \/ PutNew(t) \/ Undo(t) \/ MakeDots(t)
  \/ Join(t) \/ Empty(t) \/ Unlink(t) \/ Quit(t)
  \/ Relock(t) \/ RmLfn(t) \/ Erase(t) \/ Target(t) \/ Leave(t)
  \/ Grow(t) \/ Enter(t) \/ Note(t) \/ Cut(t) \/ Detach(t) \/ PutSize(t)
  \/ (WaitBits(t) \/ ClearBits(t)) /\ UNCHANGED nameVars

\* All calls are made and all files are closed.
Finished ==
  /\ calls = MaxCalls
  /\ \A t \in Tasks : At(t, "idle") /\ ~ IsOpen(t)
  /\ UNCHANGED vars

Next ==
  \/ \E t \in Tasks : Start(t) \/ Write(t) \/ Close(t) \/ Continue(t)
  \/ Finished

Spec == Init /\ [][Next]_vars
-----------------------------------------------------------------------------
(* What correctness means here. *)

TypeOK ==
  /\ LockTypeOK
  /\ used \subseteq Clusters
  /\ part \in [Clusters -> Clusters \cup {0, Nobody}]
  /\ AreDirs(dirs)
  /\ \A t \in Tasks : file[t].object \in Clusters \cup {0} /\ op[t].new \in Clusters \cup {0}
  /\ calls \in 0 .. MaxCalls /\ faults \in 0 .. MaxFaults

\* In every directory no two entries have the same short name, even if accesses fail (a
\* read that FF_ShortNameExists does not see fail is a stray, "unread").  If none fails
\* names are unique too, and a long name is followed by its entry unless its writer is
\* at it.  (A failing access may leave a long name without its entry; the next entry
\* that happens to have that short name then goes by it.)
DirectoriesAreWellFormed ==
  strays = {} => \A D \in {E \in DOMAIN dirs : Alive(E)} :
    LET s == dirs[D] IN
    /\ \A i, j \in Entries(s) : i # j => s[i].alias # s[j].alias
    /\ faults = 0 =>
         /\ \A i, j \in Entries(s) : i # j => Visible(s, i) # Visible(s, j)
         /\ \A i \in DOMAIN s : s[i].kind = "lfn" =>
              \/ i + 1 \in Entries(s) /\ Visible(s, i + 1) = s[i].name
              \/ \E t \in Tasks : op[t].pc = "entry" /\ op[t].dir = D /\ op[t].slot = i + 1

\* The entries of directories that a path leads to.
LiveEntries == UNION {{<<D, i>> : i \in Entries(dirs[D])} : D \in {E \in DOMAIN dirs : Alive(E)}}

\* The tasks that have a cluster in their hands.
Holding(c) == {t \in Tasks : /\ op[t].new = c
                             /\ op[t].pc \in {"plan", "extend", "unmade", "lfn", "entry", "undo", "enter"}}
\* Who has still to remove an entry of it: the cluster was freed or moved before.
Removing(c) == {t \in Tasks : /\ op[t].pc \in {"made", "rmlfn", "erase", "detach"}
                              /\ file[t].object = c}

\* Every cluster in use belongs to one entry, to the directory that was extended with
\* it, to one task that has just claimed it, or it is lost; what is more are entries
\* about to be removed.  So nothing that is removed, replaced or moved shares its cluster
\* with another file, a moved file is never without a name, and if no access fails the
\* only clusters lost are those that FF_CreateClusterChain returned with an error.  The
\* directory that a cluster is part of is there.
ClustersAreNamedOnce ==
  strays = {} =>
    LET live == LiveEntries IN
    \A c \in Clusters :
    LET names == Cardinality({e \in live : dirs[e[1]][e[2]].cluster = c})
                   + Cardinality(Holding(c)) + (IF part[c] = 0 THEN 0 ELSE 1)
        due == (IF c \in used THEN 1 ELSE 0) + Cardinality(Removing(c))
    IN  /\ names <= due /\ (faults = 0 => names = due)
        /\ part[c] \in Clusters => part[c] \in used

\* The comment in FF_Open: "make sure that there are not 2 handles with write access
\* to the same object", nor a reader beside a writer.
OneWriter ==
  strays = {} => \A t, u \in {v \in Tasks : IsOpen(v) /\ op[v].pc # "leave"} :
    t # u /\ file[t].dir = file[u].dir /\ file[t].slot = file[u].slot
      => ~ Writes(file[t].mode) /\ ~ Writes(file[u].mode)

\* While a program has a file open, its entry is where the handle says and names the
\* cluster that the handle names: nobody removes, moves or replaces it.
OpenFilesKeepTheirEntry ==
  strays = {} => \A t \in Tasks :
    IsOpen(t) /\ op[t].pc \in {"idle", "grow", "size"} =>
      LET s == dirs[file[t].dir] IN
      /\ Alive(file[t].dir) /\ file[t].slot \in Entries(s)
      /\ s[file[t].slot].cluster = file[t].object

\* A slot in use is only changed by deleting it, or by the entry that it holds, however
\* old the place is that a creator remembers from its search.
NothingLiveIsOverwritten ==
  [][strays' = {} => \A D \in {E \in DOMAIN dirs : Alive(E)} : \A i \in DOMAIN dirs[D] :
       LET old == dirs[D][i]
           new == dirs'[D][i]
       IN  \/ old.kind \in {"end", "deleted"} \/ new \in {old, Deleted}
           \/ old.kind = "entry" /\ new.kind = "entry" /\ old.alias = new.alias]_vars

\* No two tasks wait for each other: FF_LockFAT is called with the directory locked, never
\* the other way round.
NobodyWaitsInACircle ==
  \A t, u \in Tasks : has[t] \cap asks[u] = {} \/ has[u] \cap asks[t] = {}
=============================================================================
