-------------------------------- MODULE FFFat --------------------------------
(***************************************************************************)
(* Cluster allocation: the FAT (src/ff_fat.c), the hint ulLastFreeCluster  *)
(* and the count ulFreeClusterCount (src/ff_ioman.c), and the operations   *)
(* on files and directories that claim, link and free clusters:            *)
(* FF_CreateFile, FF_MkDir and FF_ExtendDirectory (src/ff_dir.c),          *)
(* FF_ExtendFile, FF_RmFile, FF_RmDir and FF_Truncate (src/ff_file.c).     *)
(*                                                                         *)
(* The FAT is read and written under the FAT lock only, so a step is what  *)
(* one iteration does to it; the count is read and written without the     *)
(* lock, and each access to it is a step of its own.  A FAT access or an   *)
(* entry update that fails may have been carried out all the same: an      *)
(* error of FF_ReleaseBuffer comes after the change.                       *)
(***************************************************************************)
EXTENDS Integers, FiniteSets

CONSTANTS
  Tasks,
  Files, Dirs,     \* what a directory entry may stand for
  NumClusters,     \* ulNumClusters: the clusters of the data area
  Fat12,           \* ucType = FF_T_FAT12
  DriverFails,     \* whether a FAT or directory access may fail
  FindFree,        \* ffconfigMOUNT_FIND_FREE
  MaxExtend,       \* the most clusters one FF_ExtendFile adds (a bound)
  CountModulus,    \* 2^32, the range of ulFreeClusterCount
  None

Objects == Files \cup Dirs

\* Entries 0 and 1 of the FAT are reserved.  The driver hands out clusters
\* below ulNumClusters, although the last cluster is ulNumClusters + 1.
Clusters == 2 .. NumClusters + 1
Usable == 2 .. NumClusters - 1

Free == 0
EOC == 1     \* 0xFFFFFFFF; no link has the value of the reserved cluster 1

ASSUME FatAssumption ==
  /\ NumClusters \in Nat /\ NumClusters > 2
  /\ CountModulus \in Nat /\ CountModulus > NumClusters
  /\ MaxExtend \in Nat \ {0}
  /\ Fat12 \in BOOLEAN /\ DriverFails \in BOOLEAN /\ FindFree \in BOOLEAN
  /\ Files \cap Dirs = {}
  /\ None \notin Tasks \cup Objects \cup Nat

VARIABLES
  fat,       \* the FAT: Free, EOC or the next cluster
  hint,      \* ulLastFreeCluster: where the search for a free cluster starts
  count,     \* ulFreeClusterCount; 0 also stands for unknown
  lock,      \* pvFATLockHandle
  dirent,    \* the directory entry of each object: None, or its first cluster
  pc, op,    \* where each task is, and the variables of its operation
  stale,     \* history: entries that name clusters already freed
  lost,      \* history: clusters in use that nothing names
  failed,    \* history: an access failed since the mount
  raced      \* history: a count was taken or assigned across another task's change

disk == <<fat, dirent>>
history == <<stale, lost, failed, raced>>
vars == <<fat, hint, count, lock, dirent, pc, op, history>>

-----------------------------------------------------------------------------
NoOp == [kind |-> "none", obj |-> None, why |-> "less", ret |-> "idle",
         hand |-> 0,    \* a cluster only this task knows of
         tail |-> 0,    \* the last cluster of the chain being extended
         low  |-> 0,    \* ulLastFree of FF_UnlinkClusterChain
         left |-> 0,    \* clusters still to add
         done |-> 0,    \* clusters added or freed
         val  |-> 0,    \* result of FF_CountFreeClusters
         err  |-> FALSE]

Go(t, p, o) == /\ pc' = [pc EXCEPT ![t] = p]
               /\ op' = [op EXCEPT ![t] = o]

Finish(t) == Go(t, "idle", NoOp)

LockIsFree == lock = None
MayCount(t) == lock \in {None, t}      \* FF_Has_Lock: take it unless it is held

IsEnd(e) == e \in {Free, EOC}          \* FF_isEndOfChain

\* The clusters of f's chain: what every set that holds the first cluster and
\* is closed under the links contains.
Chain(f) ==
  {c \in Clusters : \A S \in SUBSET Clusters :
     (dirent[f] \in S /\ \A b \in S : fat[b] \in Clusters => fat[b] \in S)
       => c \in S}

\* FF_FindFreeCluster: the first free cluster from the hint on.
Finds(c) == /\ c \in Usable /\ c >= hint /\ fat[c] = Free
            /\ \A d \in Usable : d >= hint /\ fat[d] = Free => c <= d

NoneFound == \A d \in Usable : d >= hint => fat[d] # Free

\* FF_CountFreeClusters: for FAT16 and FAT32 it counts entries up to
\* ulNumClusters + 1.
FreeIn(f) ==
  Cardinality({c \in (IF Fat12 THEN Usable ELSE Clusters) : f[c] = Free})

NumFree == FreeIn(fat)

Fails == DriverFails /\ failed' = TRUE

\* Mutant: the hint moves one too far.
ClaimInSkipping(c) == /\ Finds(c)
                      /\ hint' = c + 2

\* Mutant: the hint stays where it was.
ClaimInUnmoved(c) == /\ Finds(c)
                     /\ hint' = hint

\* FF_FindFreeCluster with claim: the hint moves on before the entry is put.
ClaimIn(c) == /\ Finds(c)
              /\ hint' = c + 1

ClaimFails ==
  /\ Fails
  /\ \/ UNCHANGED <<fat, hint, lost>>
     \/ \* prvFindFreeClusterSimple moves the hint to what it finds
        /\ Fat12 /\ \E c \in Usable : Finds(c) /\ hint' = c
        /\ UNCHANGED <<fat, lost>>
     \/ \E c \in Usable :
          /\ ClaimIn(c)
          /\ \/ UNCHANGED <<fat, lost>>
             \/ fat' = [fat EXCEPT ![c] = EOC] /\ lost' = lost \cup {c}

-----------------------------------------------------------------------------
(* The operations.  A handle opened for writing is the only one: no other   *)
(* task works on the object.  What becomes of an object whose entry is      *)
(* stale is not followed.                                                   *)

Unattended(f) == f \notin stale /\ \A t \in Tasks : op[t].obj # f

Begin(t, f, k, p, o) ==
  /\ pc[t] = "idle"
  /\ Unattended(f)
  /\ Go(t, p, [o EXCEPT !.kind = k, !.obj = f])
  /\ UNCHANGED <<disk, hint, count, lock, history>>

\* FF_CreateFile and FF_MkDir.
Create(t, f) == dirent[f] = None /\ Begin(t, f, "create", "claim", NoOp)

\* FF_ExtendFile: the first cluster is claimed as by FF_CreateFile.
ExtendFile(t, f, n) ==
  /\ dirent[f] # None
  /\ Begin(t, f, "extend", IF dirent[f] = 0 THEN "claim" ELSE "grow",
           [NoOp EXCEPT !.left = n])

\* FF_ExtendDirectory looks at the count first.
ExtendDirectory(t, f) ==
  /\ dirent[f] # None
  /\ Begin(t, f, "extend", "check",
           [NoOp EXCEPT !.left = 1, !.why = "look", !.ret = "enough"])

\* FF_RmFile and FF_RmDir: the clusters go before the entry.
Remove(t, f) ==
  /\ dirent[f] # None
  /\ Begin(t, f, "remove", IF dirent[f] = 0 THEN "erase" ELSE "unlink", NoOp)

\* FF_Truncate to nothing, and to a part of the chain.
Empty(t, f) == /\ dirent[f] \in Clusters
               /\ Begin(t, f, "empty", "unlink", NoOp)

Shorten(t, f) ==
  /\ \E c \in Clusters : dirent[f] = c /\ ~IsEnd(fat[c])
  /\ Begin(t, f, "cut", "cut", NoOp)

\* FF_GetFreeSize.
GetFreeSize(t) ==
  /\ pc[t] = "idle"
  /\ Go(t, "check", [NoOp EXCEPT !.kind = "measure", !.why = "look"])
  /\ UNCHANGED <<disk, hint, count, lock, history>>

-----------------------------------------------------------------------------
(* FF_CreateClusterChain.                                                   *)

\* Mutant: the cluster is found but its entry is not put.
ClaimUnmarked(t) ==
  /\ pc[t] = "claim" /\ LockIsFree
  /\ \/ \E c \in Usable :
          /\ ClaimIn(c)
          /\ Go(t, "check", [op[t] EXCEPT !.hand = c, !.done = 1,
                                          !.why = "less", !.ret = "entry"])
     \/ NoneFound /\ Finish(t) /\ UNCHANGED hint
  /\ UNCHANGED <<fat, count, lock, dirent, history>>

Claim(t) ==
  /\ pc[t] = "claim" /\ LockIsFree
  /\ \/ \E c \in Usable :
          /\ ClaimIn(c)
          /\ fat' = [fat EXCEPT ![c] = EOC]
          /\ Go(t, "check", [op[t] EXCEPT !.hand = c, !.done = 1,
                                          !.why = "less", !.ret = "entry"])
          /\ UNCHANGED <<lost, failed>>
     \/ NoneFound /\ Finish(t) /\ UNCHANGED <<fat, hint, lost, failed>>
     \/ ClaimFails /\ Finish(t)
  /\ UNCHANGED <<count, lock, dirent, stale, raced>>

-----------------------------------------------------------------------------
(* FF_DecreaseFreeClusters (why = "less"), FF_IncreaseFreeClusters ("more") *)
(* and callers that only want to know the count ("look").                   *)

\* An error ends FF_CreateClusterChain's callers: the cluster is leaked.
Return(t, o) ==
  IF o.err /\ o.ret \in {"entry", "enough"}
  THEN Finish(t) /\ lost' = lost \cup ({o.hand} \ {0})
  ELSE Go(t, o.ret, IF o.ret = "idle" THEN NoOp ELSE o) /\ UNCHANGED lost

CheckCount(t) ==
  /\ pc[t] = "check"
  /\ CASE count = 0 -> Go(t, "recount", op[t]) /\ UNCHANGED lost
       [] count # 0 /\ op[t].why # "look" -> Go(t, "adjust", op[t]) /\ UNCHANGED lost
       [] OTHER -> Return(t, op[t])
  /\ UNCHANGED <<disk, hint, count, lock, stale, failed, raced>>

Tallying(t) == pc[t] \in {"check", "recount", "assign", "adjust"}

\* FF_CountFreeClusters; FF_GetFreeSize keeps the lock until it is assigned.
Recount(t) ==
  /\ pc[t] = "recount" /\ MayCount(t)
  /\ \E r \in [val : {NumFree}, err : {FALSE}] \cup [val : {0}, err : {TRUE}] :
       /\ IF r.err THEN Fails ELSE UNCHANGED failed
       /\ Go(t, "assign",
             [op[t] EXCEPT !.val = r.val, !.err = r.err \/ @,
                           !.ret = IF op[t].kind = "measure" THEN "unlock" ELSE @])
  /\ lock' = IF op[t].kind = "measure" THEN t ELSE lock
  /\ raced' = (raced \/ \E u \in Tasks \ {t} : Tallying(u))
  /\ UNCHANGED <<disk, hint, count, stale, lost>>

\* Another task is about to assign what it counted earlier.
Overtaken(t) == \E u \in Tasks \ {t} : pc[u] = "assign"

AssignCount(t) ==
  /\ pc[t] = "assign"
  /\ count' = op[t].val
  /\ IF op[t].err \/ op[t].why = "look" THEN Return(t, op[t])
     ELSE Go(t, "hint", [op[t] EXCEPT !.val = 0, !.done = 0]) /\ UNCHANGED lost
  /\ raced' = (raced \/ Overtaken(t))
  /\ UNCHANGED <<disk, hint, lock, stale, failed>>

\* Mutant: one cluster is counted however many were freed.
AdjustCountByOne(t) ==
  /\ pc[t] = "adjust"
  /\ count' = (IF op[t].why = "less" THEN count + CountModulus - 1
               ELSE count + 1) % CountModulus
  /\ Go(t, "hint", [op[t] EXCEPT !.done = 0])
  /\ raced' = (raced \/ Overtaken(t))
  /\ UNCHANGED <<disk, hint, lock, stale, lost, failed>>

AdjustCount(t) ==
  /\ pc[t] = "adjust"
  /\ count' = (IF op[t].why = "less" THEN count + CountModulus - op[t].done
               ELSE count + op[t].done) % CountModulus
  /\ Go(t, "hint", [op[t] EXCEPT !.done = 0])
  /\ raced' = (raced \/ Overtaken(t))
  /\ UNCHANGED <<disk, hint, lock, stale, lost, failed>>

TestHint(t) ==
  /\ pc[t] = "hint"
  /\ IF hint = 0 THEN Go(t, "seek", op[t]) /\ UNCHANGED lost
     ELSE Return(t, op[t])
  /\ UNCHANGED <<disk, hint, count, lock, stale, failed, raced>>

\* FF_DecreaseFreeClusters takes the lock, even if it has it.
Seek(t) ==
  /\ pc[t] = "seek"
  /\ IF op[t].why = "less" THEN LockIsFree ELSE MayCount(t)
  /\ \/ /\ \E c \in Usable : Finds(c) /\ hint' = c
        /\ Return(t, op[t])
        /\ UNCHANGED failed
     \/ /\ NoneFound /\ hint' = 0
        /\ Return(t, [op[t] EXCEPT !.err = TRUE])
        /\ UNCHANGED failed
     \/ /\ Fails /\ hint' = 0
        /\ Return(t, [op[t] EXCEPT !.err = TRUE])
  /\ UNCHANGED <<disk, count, lock, stale, raced>>

-----------------------------------------------------------------------------
(* The directory entry: FF_CreateDirent, or FF_PutEntry in FF_ExtendFile.   *)

MakeEntry(t) ==
  LET f == op[t].obj
      c == op[t].hand
      made == [dirent EXCEPT ![f] = c]
      after == [op[t] EXCEPT !.hand = 0, !.left = @ - 1]
  IN /\ pc[t] = "entry"
     /\ \/ /\ dirent' = made
           /\ CASE op[t].kind = "create" /\ f \in Dirs ->
                     Go(t, "dots", [op[t] EXCEPT !.hand = 0])
                [] op[t].kind = "extend" /\ op[t].left > 1 -> Go(t, "grow", after)
                [] OTHER -> Finish(t)
           /\ UNCHANGED <<stale, lost, failed>>
        \/ \* no room in the directory, or an error before the entry is written
           /\ op[t].kind = "create"
           /\ Go(t, "unlink", op[t])
           /\ UNCHANGED <<dirent, stale, lost, failed>>
        \/ \* an error after it is written
           /\ op[t].kind = "create" /\ Fails
           /\ dirent' = made /\ stale' = stale \cup {f}
           /\ Go(t, "unlink", op[t])
           /\ UNCHANGED lost
        \/ \* FF_ExtendFile returns and does not give the cluster back
           /\ op[t].kind = "extend" /\ Fails
           /\ \/ dirent' = made /\ UNCHANGED lost
              \/ lost' = lost \cup {c} /\ UNCHANGED dirent
           /\ Finish(t)
           /\ UNCHANGED stale
     /\ UNCHANGED <<fat, hint, count, lock, raced>>

\* FF_MkDir writes "." and ".."; on an error it frees the cluster, and leaves
\* the entry in the parent directory.
MakeDots(t) ==
  /\ pc[t] = "dots"
  /\ \/ Finish(t) /\ UNCHANGED <<stale, failed>>
     \/ /\ Fails
        /\ Go(t, "unlink", [op[t] EXCEPT !.hand = dirent[op[t].obj]])
        /\ stale' = stale \cup {op[t].obj}
  /\ UNCHANGED <<disk, hint, count, lock, lost, raced>>

-----------------------------------------------------------------------------
(* FF_UnlinkClusterChain, called with the FAT lock held.                    *)

Frees(t) == op[t].kind \in {"remove", "empty"}

BeginUnlink(t) ==
  LET first == IF Frees(t) THEN dirent[op[t].obj] ELSE op[t].hand
  IN /\ pc[t] = "unlink" /\ LockIsFree
     /\ lock' = t
     /\ stale' = IF Frees(t) THEN stale \cup {op[t].obj} ELSE stale
     /\ Go(t, "unlinking", [op[t] EXCEPT !.hand = first, !.low = first, !.done = 0])
     /\ UNCHANGED <<disk, hint, count, lost, failed, raced>>

\* With xDoTruncate the first cluster becomes the end of the chain.
BeginCut(t) ==
  /\ pc[t] = "cut" /\ LockIsFree
  /\ lock' = t
  /\ \E c \in Chain(op[t].obj) :
       /\ fat[c] \in Clusters
       /\ \/ /\ fat' = [fat EXCEPT ![c] = EOC]
             /\ Go(t, "unlinking", [op[t] EXCEPT !.hand = fat[c], !.low = c])
             /\ UNCHANGED <<lost, failed>>
          \/ /\ Fails
             /\ \/ UNCHANGED <<fat, lost>>
                \/ fat' = [fat EXCEPT ![c] = EOC] /\ lost' = lost \cup {fat[c]}
             /\ Go(t, "unlock", [op[t] EXCEPT !.err = TRUE])
  /\ UNCHANGED <<hint, count, dirent, stale, raced>>

\* Mutant: the hint does not come down to what was freed.
LowerFirst(a, b) == a

Lower(a, b) == IF a < b THEN a ELSE b

\* What follows the loop: FF_IncreaseFreeClusters if an entry was put.
AfterUnlink(t, n, e) ==
  Go(t, IF n = 0 THEN "unlock" ELSE "check",
     [op[t] EXCEPT !.hand = 0, !.low = 0, !.done = n, !.err = e,
                   !.why = "more", !.ret = "unlock"])

\* One round of the loop.  The hint comes down only at the end.
Unlink(t) ==
  LET c == op[t].hand
      low == Lower(op[t].low, c)
      freed == [fat EXCEPT ![c] = Free]
  IN /\ pc[t] = "unlinking"
     /\ \/ /\ fat' = freed /\ ~IsEnd(fat[c])
           /\ Go(t, "unlinking", [op[t] EXCEPT !.hand = fat[c], !.low = low,
                                               !.done = @ + 1])
           /\ UNCHANGED <<hint, stale, lost, failed>>
        \/ /\ fat' = freed /\ IsEnd(fat[c])
           /\ hint' = Lower(hint, low)
           /\ \/ AfterUnlink(t, op[t].done + 1, FALSE) /\ UNCHANGED failed
              \/ AfterUnlink(t, op[t].done + 1, TRUE) /\ Fails
           /\ UNCHANGED <<stale, lost>>
        \/ \* the entry cannot be read, or cannot be put
           /\ Fails
           /\ \E put \in {0, 1} : AfterUnlink(t, op[t].done + put, TRUE)
           /\ IF op[t].done = 0 /\ op[t].obj \in stale
              THEN stale' = stale \ {op[t].obj} /\ UNCHANGED lost
              ELSE lost' = lost \cup {c} /\ UNCHANGED stale
           /\ UNCHANGED <<fat, hint>>
        \/ \* the entry was put all the same
           /\ Fails /\ fat' = freed
           /\ AfterUnlink(t, op[t].done + 1, TRUE)
           /\ lost' = lost \cup ({fat[c]} \cap Clusters)
           /\ UNCHANGED <<hint, stale>>
     /\ UNCHANGED <<count, lock, dirent, raced>>

\* FF_UnlockFAT.
Unlock(t) ==
  /\ pc[t] = "unlock"
  /\ lock' = IF lock = t THEN None ELSE lock
  /\ IF Frees(t) /\ ~op[t].err THEN Go(t, "erase", op[t]) ELSE Finish(t)
  /\ UNCHANGED <<disk, hint, count, history>>

\* The entry is marked deleted by FF_RmFile, or set to no cluster by FF_Truncate.
Erase(t) ==
  LET f == op[t].obj
  IN /\ pc[t] = "erase"
     /\ \/ /\ dirent' = [dirent EXCEPT ![f] = IF op[t].kind = "remove" THEN None ELSE 0]
           /\ stale' = stale \ {f}
           /\ UNCHANGED failed
        \/ Fails /\ UNCHANGED <<dirent, stale>>
     /\ Finish(t)
     /\ UNCHANGED <<fat, hint, count, lock, lost, raced>>

-----------------------------------------------------------------------------
(* Adding clusters to a chain.                                              *)

\* FF_ExtendDirectory gives up if the count is 0.
Enough(t) ==
  /\ pc[t] = "enough"
  /\ IF count = 0 THEN Finish(t) ELSE Go(t, "grow", op[t])
  /\ UNCHANGED <<disk, hint, count, lock, history>>

BeginGrow(t) ==
  /\ pc[t] = "grow" /\ LockIsFree
  /\ lock' = t
  /\ \/ /\ \E c \in Chain(op[t].obj) :
             /\ IsEnd(fat[c])
             /\ Go(t, "growing", [op[t] EXCEPT !.tail = c, !.done = 0])
        /\ UNCHANGED failed
     \/ Fails /\ Go(t, "grown", [op[t] EXCEPT !.done = 0])
  /\ UNCHANGED <<disk, hint, count, stale, lost, raced>>

\* One cluster is claimed and linked behind the last one.
Grow(t) ==
  LET tail == op[t].tail
  IN /\ pc[t] = "growing"
     /\ \/ \E c \in Usable :
             /\ ClaimIn(c)
             /\ fat' = [fat EXCEPT ![c] = EOC, ![tail] = c]
             /\ Go(t, IF op[t].left = 1 THEN "grown" ELSE "growing",
                   [op[t] EXCEPT !.tail = c, !.left = @ - 1, !.done = @ + 1])
             /\ UNCHANGED <<lost, failed>>
        \/ NoneFound /\ Go(t, "grown", op[t]) /\ UNCHANGED <<fat, hint, lost, failed>>
        \/ ClaimFails /\ Go(t, "grown", op[t])
        \/ \* the link fails: a directory counts the cluster, a file does not
           \E c \in Usable :
             /\ ClaimIn(c) /\ Fails
             /\ \/ fat' = [fat EXCEPT ![c] = EOC, ![tail] = c] /\ UNCHANGED lost
                \/ fat' = [fat EXCEPT ![c] = EOC] /\ lost' = lost \cup {c}
             /\ Go(t, "grown",
                   [op[t] EXCEPT !.done = IF op[t].obj \in Dirs THEN 1 ELSE @])
     /\ UNCHANGED <<count, lock, dirent, stale, raced>>

\* FF_ExtendFile unlocks and then lowers the count; FF_ExtendDirectory lowers
\* the count first.
EndGrow(t) ==
  LET file == op[t].obj \in Files
      less == [op[t] EXCEPT !.tail = 0, !.left = 0, !.why = "less",
                            !.ret = IF file THEN "idle" ELSE "unlock"]
  IN /\ pc[t] = "grown"
     /\ lock' = IF file THEN None ELSE lock
     /\ IF file \/ op[t].done = 1 THEN Go(t, "check", less) ELSE Go(t, "unlock", op[t])
     /\ UNCHANGED <<disk, hint, count, history>>

-----------------------------------------------------------------------------
\* FF_Mount: the values of the FAT as it is.
Fresh(h, n) ==
  IF FindFree
  THEN /\ n = NumFree
       /\ IF \E c \in Usable : fat[c] = Free
          THEN h \in Usable /\ fat[h] = Free /\ \A c \in Usable : fat[c] = Free => h <= c
          ELSE h = 0
  ELSE h = 0 /\ n = 0

Remount ==
  /\ \A t \in Tasks : pc[t] = "idle"
  /\ \E h \in 0 .. NumClusters, n \in 0 .. NumClusters :
       Fresh(h, n) /\ hint' = h /\ count' = n
  /\ failed' = FALSE /\ raced' = FALSE
  /\ UNCHANGED <<disk, lock, pc, op, stale, lost>>

Init ==
  /\ fat = [c \in Clusters |-> Free]
  /\ dirent = [f \in Objects |-> None]
  /\ hint \in 0 .. NumClusters /\ count \in 0 .. NumClusters
  /\ Fresh(hint, count)
  /\ lock = None
  /\ pc = [t \in Tasks |-> "idle"]
  /\ op = [t \in Tasks |-> NoOp]
  /\ stale = {} /\ lost = {}
  /\ failed = FALSE /\ raced = FALSE

Step(t) ==
  \/ Claim(t) \/ CheckCount(t) \/ Recount(t) \/ AssignCount(t)
  \/ AdjustCount(t) \/ TestHint(t) \/ Seek(t)
  \/ MakeEntry(t) \/ MakeDots(t)
  \/ BeginUnlink(t) \/ BeginCut(t) \/ Unlink(t) \/ Unlock(t) \/ Erase(t)
  \/ Enough(t) \/ BeginGrow(t) \/ Grow(t) \/ EndGrow(t)

Start(t) ==
  \/ \E f \in Objects : Create(t, f) \/ Remove(t, f)
  \/ \E f \in Files, n \in 1 .. MaxExtend : ExtendFile(t, f, n)
  \/ \E f \in Files : Empty(t, f) \/ Shorten(t, f)
  \/ \E f \in Dirs : ExtendDirectory(t, f)
  \/ GetFreeSize(t)

Next == (\E t \in Tasks : Start(t) \/ Step(t)) \/ Remount

Spec == Init /\ [][Next]_vars

-----------------------------------------------------------------------------
(* Properties.                                                              *)

Links == {Free, EOC} \cup Clusters

OpType ==
  [kind : {"none", "create", "extend", "remove", "empty", "cut", "measure"},
   obj : Objects \cup {None}, why : {"less", "more", "look"},
   ret : {"idle", "entry", "unlock", "enough"},
   hand : {0} \cup Clusters, tail : {0} \cup Clusters, low : {0} \cup Clusters,
   left : Nat, done : Nat, val : 0 .. NumClusters, err : BOOLEAN]

\* The types of the partition's fields and of the tasks' local variables.
TypeOK ==
  /\ fat \in [Clusters -> Links]
  /\ hint \in 0 .. NumClusters
  /\ count \in 0 .. CountModulus - 1
  /\ lock \in Tasks \cup {None}
  /\ dirent \in [Objects -> {None, 0} \cup Clusters]
  /\ pc \in [Tasks -> {"idle", "claim", "check", "recount", "assign", "adjust",
                       "hint", "seek", "entry", "dots", "unlink", "unlinking",
                       "cut", "unlock", "erase", "enough", "grow", "growing",
                       "grown"}]
  /\ op \in [Tasks -> OpType]
  /\ stale \subseteq Objects
  /\ lost \subseteq Clusters
  /\ failed \in BOOLEAN /\ raced \in BOOLEAN

\* What refers to cluster c.
Owners(c) ==
  {<<"entry", f>> : f \in {f \in Objects \ stale : dirent[f] = c}}
    \cup {<<"link", b>> : b \in {b \in Clusters : fat[b] = c}}
    \cup {<<"task", t>> : t \in {t \in Tasks : op[t].hand = c}}
    \cup {<<"lost", b>> : b \in lost \cap {c}}

\* No two chains share a cluster and no chain runs into free space: a cluster
\* in use has exactly one reference, a free one has none, whichever operations
\* of several tasks interleave and whichever of them fail half-way.
OwnedOnce ==
  \A c \in Clusters :
    IF fat[c] = Free THEN Owners(c) = {} ELSE \E o \in Owners(c) : Owners(c) = {o}

\* No free cluster is below the hint, from which FF_FindFreeCluster never goes
\* back: "not enough free space" is reported only when there is none.
HintIsLow ==
  LockIsFree /\ ~failed => \A c \in Usable : fat[c] = Free => hint <= c

\* FF_LockFAT's configASSERT: a task never waits for the lock it has, although
\* FF_ExtendDirectory calls FF_DecreaseFreeClusters with the lock held.
LockIsNeverTakenTwice ==
  \A t \in Tasks : lock = t =>
    /\ pc[t] \notin {"claim", "unlink", "cut", "grow"}
    /\ pc[t] = "seek" => op[t].why # "less"

AllIdle == \A t \in Tasks : pc[t] = "idle"

\* When nothing is going on the count is unknown or right, unless an access
\* failed or the count was taken while another task was about to change it.
CountIsExactUnlessRaced ==
  AllIdle /\ ~failed /\ ~raced => count \in {0, NumFree}

\* The same without that exception.
CountIsExact == AllIdle /\ ~failed => count \in {0, NumFree}

\* Without a failing access no cluster is leaked.
NothingIsLeaked == ~failed => lost = {}
=============================================================================
