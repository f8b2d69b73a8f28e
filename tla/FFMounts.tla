------------------------------- MODULE FFMounts -------------------------------
(***************************************************************************)
(* Where a path leads: the table of file systems of src/ff_sys.c, the      *)
(* calls of src/ff_stdio.c that look a path up in it and then use the I/O  *)
(* manager they found, and FF_Mount and FF_Unmount under them.             *)
(*                                                                         *)
(* The table is changed with the scheduler suspended, but searched without *)
(* any lock, and nothing ties a manager that was found to what happens to  *)
(* it before it is used.  `strays' records each way in which a task acts   *)
(* on what is no longer so, and `unrest' what becomes of the table during  *)
(* a search; the properties state what holds as long as that allows it.    *)
(*                                                                         *)
(* A slot is compared with a path in one step, its manager is read in the  *)
(* next, and the count once more in the last.  The paths of mounts fit     *)
(* into pcPath.  What a file or directory operation does below its path is *)
(* in FFNames and FFFile.                                                  *)
(***************************************************************************)
EXTENDS FFPaths

CONSTANTS
  Tasks, Disks,
  Nothing,        \* NULL: no I/O manager
  MaxFileSys,     \* ffconfigMAX_FILE_SYS
  Starts,         \* tables to begin with: what was mounted where, in order
  Calls, MaxCalls,\* the calls made, and how many (a bound)
  Names, MaxNames \* of the paths that PathsAreResolved looks at (bounds)

\* A mount is not called "." or "..".
IsMountPath(p) == p \in Seq({p[k] : k \in DOMAIN p}) /\ p \notin {<<".">>, <<"..">>}

ASSUME MountsAssumption ==
  /\ Nothing \notin Disks /\ MaxFileSys \in Nat \ {0} /\ MaxCalls \in Nat /\ MaxNames \in Nat
  /\ \A c \in Calls : c.fn \in {"add", "mount", "unmount"} => c.disk \in Disks
  /\ \A c \in Calls : c.fn = "add" => IsMountPath(c.path.names)
  /\ \A s \in Starts :
       /\ Len(s) \in 0 .. MaxFileSys
       /\ \A k \in 1 .. Len(s) :
            /\ IsMountPath(s[k][1]) /\ (s[k][1] = <<>> <=> k = 1)
            /\ s[k][2] \in Disks \/ (k = 1 /\ s[k][2] = Nothing)
            /\ \A j \in 1 .. k - 1 : s[j][1] # s[k][1]

VARIABLES
  slots, count,   \* file_systems
  mounted,        \* ucPartitionMounted of each disk
  list,           \* the tasks whose handle is in FirstFile of each disk
  file,           \* the disk of the handle each task has, or Nothing
  cwd,            \* the working directory of each task
  op,             \* the call each task is in
  calls,
  seen, unrest,   \* history of the search a task is in: the right answers to it, and
                  \* what has become of the table
  steady,         \* history: mounts nobody has touched since the listing a task is in began
  strays          \* history: how tasks have acted on what was no longer so

tableVars == <<slots, count>>
diskVars == <<mounted, list, file>>
vars == <<tableVars, diskVars, cwd, op, calls, seen, unrest, steady, strays>>

-----------------------------------------------------------------------------
(* The table. *)

EmptySlot == [path |-> <<>>, len |-> 0, disk |-> Nothing]
Indices == 0 .. MaxFileSys - 1

Live(i) == i < count /\ slots[i].disk # Nothing
Mounts == {slots[i].path : i \in {j \in Indices \ {0} : Live(j)}}

\* What a path leads to: the deepest mount above it, or else the root.
Above(p) == {i \in Indices \ {0} : Live(i) /\ IsPrefix(slots[i].path, p)}

Cover(p) ==
  LET deepest == CHOOSE i \in Above(p) : \A j \in Above(p) : slots[j].len <= slots[i].len
  IN IF Above(p) = {} THEN [disk |-> slots[0].disk, rest |-> p]
     ELSE [disk |-> slots[deepest].disk, rest |-> After(p, slots[deepest].len)]

\* A slot of the table is empty, and so matches every path.
Holed == \E i \in Indices \ {0} : i < count /\ slots[i].disk = Nothing

\* The first mount above a path is not the deepest.
Nested(p) == \E i, j \in Above(p) : slots[i].len < slots[j].len /\ \A k \in Above(p) : i <= k

\* Mutant: the path is compared up to its own length.
MatchesEither(s, p) == IsPrefix(p, s.path) \/ IsPrefix(s.path, p)

\* The test of FF_FS_Find: xPathlen characters agree, and the path ends there or
\* goes on with '/'.
Matches(s, p) == s.len <= Len(p) /\ SubSeq(s.path, 1, s.len) = SubSeq(p, 1, s.len)

SamePath(s, p) == s.len = Len(p) /\ s.path = p

-----------------------------------------------------------------------------
(* Calls. *)

NoPath == [absolute |-> TRUE, names |-> <<>>]
NoCall == [fn |-> "none", path |-> NoPath, to |-> NoPath, disk |-> Nothing]
NoAnswer == [disk |-> Nothing, rest |-> <<>>]
Idle == [call |-> NoCall, pc |-> "idle", path |-> <<>>, i |-> 0, answer |-> NoAnswer,
         ok |-> FALSE, first |-> Nothing, dots |-> {}, listed |-> <<>>]

At(t, fns, pc) == op[t].call.fn \in fns /\ op[t].pc = pc
Goto(t, pc) == op' = [op EXCEPT ![t].pc = pc]
Return(t) == op' = [op EXCEPT ![t] = Idle]

Searching == {"find", "match", "last", "found"}
Listing == {"entries", "systems", "dots", "listed"}

\* FF_FS_Find begins: prvABSPath has made the path absolute with the task's own
\* working directory.
Lookup(t, call, p, first) ==
  op' = [op EXCEPT ![t] = [Idle EXCEPT !.call = call, !.pc = "find", !.i = 1, !.first = first,
                                       !.path = AbsPath(cwd[t], p)]]

Call(t) ==
  /\ op[t].pc = "idle" /\ calls < MaxCalls
  /\ \E c \in Calls :
       /\ c.fn = "open" => file[t] = Nothing
       /\ c.fn = "close" => file[t] # Nothing
       /\ IF c.fn \in {"open", "rename", "chdir", "list"} THEN Lookup(t, c, c.path, Nothing)
          ELSE op' = [op EXCEPT ![t] = [Idle EXCEPT !.call = c, !.pc = "begin", !.i = 1]]
  /\ calls' = calls + 1
  /\ UNCHANGED <<tableVars, diskVars, cwd, strays>>

-----------------------------------------------------------------------------
(* FF_FS_Find: a walk over the table without any lock. *)

Search(t) ==
  /\ op[t].pc = "find"
  /\ op' = [op EXCEPT ![t] =
       IF op[t].i >= count THEN [@ EXCEPT !.pc = "last"]
       ELSE IF Matches(slots[op[t].i], op[t].path)
         THEN [@ EXCEPT !.pc = "match",
                        !.answer.rest = After(op[t].path, slots[op[t].i].len)]
       ELSE [@ EXCEPT !.i = op[t].i + 1]]
  /\ UNCHANGED <<tableVars, diskVars, cwd, calls, strays>>

\* The manager of the slot that matched, which may be another's by now.
TakeMatch(t) ==
  /\ op[t].pc = "match"
  /\ op' = [op EXCEPT ![t].pc = "last",
       ![t].answer = [disk |-> slots[op[t].i].disk, rest |-> op[t].answer.rest]]
  /\ UNCHANGED <<tableVars, diskVars, cwd, calls, strays>>

FF_Mounted(d) == d \in Disks /\ mounted[d]

Answer(t, d, rest) ==
  op' = [op EXCEPT ![t].pc = "found", ![t].answer = [disk |-> d, rest |-> rest],
                   ![t].ok = FF_Mounted(d)]

\* Where the loop ended at what is now the count, the root is taken instead, also if
\* there was a match; without either the answer is NULL.
TakeRoot(t) ==
  /\ op[t].pc = "last"
  /\ IF op[t].i = count THEN Answer(t, slots[0].disk, op[t].path)
     ELSE Answer(t, op[t].answer.disk, op[t].answer.rest)
  /\ UNCHANGED <<tableVars, diskVars, cwd, calls, strays>>

FF_FS_Find(t) == Search(t) \/ TakeMatch(t) \/ TakeRoot(t)

-----------------------------------------------------------------------------
(* FF_FS_Add and FF_FS_Remove. *)

Put(i, p, d) == slots' = [slots EXCEPT ![i] = [path |-> p, len |-> Len(p), disk |-> d]]

FF_FS_Add(t) ==
  LET p == op[t].call.path.names
      n == IF count = 0 THEN 1 ELSE count                    \* FF_FS_Init
      same == {i \in 1 .. n - 1 : SamePath(slots[i], p)}
      free == {i \in 1 .. n - 1 : slots[i].disk = Nothing}
  IN
  /\ At(t, {"add"}, "begin")
  /\ \/ p = <<>> /\ Put(0, p, op[t].call.disk) /\ count' = n
     \/ /\ p # <<>> /\ same # {}
        /\ Put(CHOOSE i \in same : \A j \in same : i <= j, p, op[t].call.disk) /\ count' = n
     \/ /\ p # <<>> /\ same = {} /\ free # {}
        /\ Put(CHOOSE i \in free : \A j \in free : i <= j, p, op[t].call.disk) /\ count' = n
     \/ /\ p # <<>> /\ same = {} /\ free = {} /\ n < MaxFileSys
        /\ Put(n, p, op[t].call.disk) /\ count' = n + 1
     \/ /\ p # <<>> /\ same = {} /\ free = {} /\ n = MaxFileSys
        /\ count' = n /\ UNCHANGED slots
  /\ Return(t)
  /\ UNCHANGED <<diskVars, cwd, calls, strays>>

\* The search of FF_FS_Remove, without any lock.
RemoveSearch(t) ==
  /\ At(t, {"remove"}, "begin")
  /\ LET p == op[t].call.path.names IN
     IF p = <<>> THEN op' = [op EXCEPT ![t].pc = "clear", ![t].i = 0]
     ELSE IF op[t].i >= count THEN Return(t)
     ELSE IF SamePath(slots[op[t].i], p) THEN Goto(t, "clear")
     ELSE op' = [op EXCEPT ![t].i = @ + 1]
  /\ UNCHANGED <<tableVars, diskVars, cwd, calls, strays>>

\* Mutant: the last slot in use is given up too.
ShrunkTooFar(s) ==
  LET busy == {i \in 1 .. count - 1 : s[i].disk # Nothing} IN
  IF busy = {} THEN 1 ELSE CHOOSE i \in busy : \A j \in busy : j <= i

\* Emptied slots at the end of the table are given up.
Shrunk(s) ==
  LET busy == {i \in 1 .. count - 1 : s[i].disk # Nothing} IN
  IF count = 0 THEN 0
  ELSE IF busy = {} THEN 1 ELSE 1 + CHOOSE i \in busy : \A j \in busy : j <= i

\* The slot is emptied, its path stays; it may have become another's meanwhile.
RemoveClear(t) ==
  /\ At(t, {"remove"}, "clear")
  /\ slots' = [slots EXCEPT ![op[t].i].disk = Nothing, ![op[t].i].len = 0]
  /\ count' = Shrunk(slots')
  /\ strays' = IF Live(op[t].i) /\ slots[op[t].i].path # op[t].call.path.names
               THEN strays \cup {"mistaken"} ELSE strays
  /\ Return(t)
  /\ UNCHANGED <<diskVars, cwd, calls>>

-----------------------------------------------------------------------------
(* FF_Mount and FF_Unmount. *)

\* The handles are forgotten before anything is read.
MountBegin(t) ==
  LET d == op[t].call.disk IN
  /\ At(t, {"mount"}, "begin")
  /\ list' = [list EXCEPT ![d] = {}]
  /\ strays' = IF list[d] = {} THEN strays ELSE strays \cup {"remounted"}
  /\ Goto(t, "mounting")
  /\ UNCHANGED <<tableVars, mounted, file, cwd, calls>>

\* A mount that fails leaves ucPartitionMounted as it was.
MountEnd(t) ==
  /\ At(t, {"mount"}, "mounting")
  /\ \/ mounted' = [mounted EXCEPT ![op[t].call.disk] = TRUE]
     \/ UNCHANGED mounted
  /\ Return(t)
  /\ UNCHANGED <<tableVars, list, file, cwd, calls, strays>>

\* A task that is opening a file may have a buffer at any moment.
MayHoldBuffer(d) ==
  \E u \in Tasks : op[u].pc \in {"opening", "move", "entries"} /\ op[u].answer.disk = d

\* Mutant: open files are not looked for.
UnmountUntested(t) ==
  /\ At(t, {"unmount"}, "begin")
  /\ IF mounted[op[t].call.disk] THEN Goto(t, "flush") ELSE Return(t)
  /\ UNCHANGED <<tableVars, diskVars, cwd, calls, strays>>

\* Handles and buffers in use are looked for under the semaphore, which is then
\* given up for the flush.
UnmountTest(t) ==
  LET d == op[t].call.disk IN
  /\ At(t, {"unmount"}, "begin")
  /\ \/ ~ mounted[d] /\ Return(t)
     \/ mounted[d] /\ (list[d] # {} \/ MayHoldBuffer(d)) /\ Return(t)
     \/ mounted[d] /\ list[d] = {} /\ Goto(t, "flush")
  /\ UNCHANGED <<tableVars, diskVars, cwd, calls, strays>>

Unmounting(d) == \E u \in Tasks : At(u, {"unmount"}, "flush") /\ op[u].call.disk = d

\* The flush has ended, with an error or not.
UnmountEnd(t) ==
  LET d == op[t].call.disk IN
  /\ At(t, {"unmount"}, "flush")
  /\ \/ UNCHANGED mounted
     \/ mounted' = [mounted EXCEPT ![d] = FALSE]
  /\ Return(t)
  /\ UNCHANGED <<tableVars, list, file, cwd, calls, strays>>

-----------------------------------------------------------------------------
(* ff_fopen, ff_fclose, ff_rename, ff_chdir. *)

OpenFound(t) ==
  /\ At(t, {"open"}, "found")
  /\ IF op[t].ok THEN Goto(t, "opening") ELSE Return(t)
  /\ UNCHANGED <<tableVars, diskVars, cwd, calls, strays>>

\* FF_Open does not ask whether the volume is still mounted.
OpenJoin(t) ==
  LET d == op[t].answer.disk IN
  /\ At(t, {"open"}, "opening")
  /\ \/ UNCHANGED <<list, file, strays>>
     \/ /\ list' = [list EXCEPT ![d] = @ \cup {t}]
        /\ file' = [file EXCEPT ![t] = d]
        /\ strays' = IF ~ mounted[d] THEN strays \cup {"late"}
                     ELSE IF Unmounting(d) THEN strays \cup {"overtaken"} ELSE strays
  /\ Return(t)
  /\ UNCHANGED <<tableVars, mounted, cwd, calls>>

\* A handle that is not in the list any more is refused, and lost either way.
Close(t) ==
  /\ At(t, {"close"}, "begin")
  /\ list' = [list EXCEPT ![file[t]] = @ \ {t}]
  /\ file' = [file EXCEPT ![t] = Nothing]
  /\ Return(t)
  /\ UNCHANGED <<tableVars, mounted, cwd, calls, strays>>

\* Both names are looked up, one after the other; FF_Move takes them to be on one
\* volume.
RenameFound(t) ==
  LET o == op[t] IN
  /\ At(t, {"rename"}, "found")
  /\ IF ~ o.ok THEN Return(t)
     ELSE IF o.first = Nothing THEN Lookup(t, o.call, o.call.to, o.answer.disk)
     ELSE IF o.first # o.answer.disk THEN Return(t)            \* EXDEV
     ELSE Goto(t, "move")
  /\ UNCHANGED <<tableVars, diskVars, cwd, calls, strays>>

Move(t) ==
  /\ At(t, {"rename"}, "move") /\ Return(t)
  /\ UNCHANGED <<tableVars, diskVars, cwd, calls, strays>>

\* The root is a directory as soon as there is a table; another path if FF_FindDir
\* finds it.
ChangeDir(t) ==
  /\ At(t, {"chdir"}, "found")
  /\ \/ UNCHANGED cwd /\ op[t].path # <<>>
     \/ /\ count # 0 /\ (op[t].ok \/ op[t].path = <<>>)
        /\ cwd' = [cwd EXCEPT ![t] = op[t].path]
     \/ UNCHANGED cwd /\ count = 0
  /\ Return(t)
  /\ UNCHANGED <<tableVars, diskVars, calls, strays>>

-----------------------------------------------------------------------------
(* ff_findfirst and ff_findnext until there is no more. *)

List(t, names) == op[t].listed \o names

\* Only the root can be listed without a volume under it; it lists the mounts too.
ListFound(t) ==
  LET root == op[t].path = <<>> IN
  /\ At(t, {"list"}, "found")
  /\ IF ~ op[t].ok /\ (~ root \/ count = 0) THEN Return(t)
     ELSE op' = [op EXCEPT ![t].pc = IF op[t].answer.disk = Nothing THEN "systems" ELSE "entries",
                           ![t].i = IF root THEN count ELSE 0,
                           ![t].dots = IF root THEN {"."} ELSE {".", ".."}]
  /\ UNCHANGED <<tableVars, diskVars, cwd, calls, strays>>

\* FF_FindFirst and FF_FindNext: a directory has "." and ".." on disk, the root of a
\* volume has not.  After an error the caller stops.
ListEntries(t) ==
  /\ At(t, {"list"}, "entries")
  /\ \/ Return(t)
     \/ IF op[t].answer.rest = <<>> THEN Goto(t, "systems")
        ELSE op' = [op EXCEPT ![t].pc = "systems", ![t].dots = {},
                              ![t].listed = List(t, <<<<".">>, <<"..">>>>)]
  /\ UNCHANGED <<tableVars, diskVars, cwd, calls, strays>>

\* One slot of the table, from the last to the first; an emptied one still has its path,
\* which may have been mounted in another one again.
ListSystem(t) ==
  LET i == op[t].i - 1 IN
  /\ At(t, {"list"}, "systems")
  /\ IF op[t].i = 0 THEN Goto(t, "dots")
     ELSE op' = [op EXCEPT ![t].i = i,
            ![t].listed = IF i < count /\ slots[i].path # <<>> THEN List(t, <<slots[i].path>>)
                          ELSE @]
  /\ strays' = IF op[t].i # 0 /\ i < count /\ ~ Live(i) /\ slots[i].path \in Mounts
               THEN strays \cup {"doubled"} ELSE strays
  /\ UNCHANGED <<tableVars, diskVars, cwd, calls>>

ListDots(t) ==
  /\ At(t, {"list"}, "dots")
  /\ op' = [op EXCEPT ![t].pc = "listed", ![t].dots = {},
       ![t].listed = List(t, (IF ".." \in op[t].dots THEN <<<<"..">>>> ELSE <<>>)
                             \o (IF "." \in op[t].dots THEN <<<<".">>>> ELSE <<>>))]
  /\ UNCHANGED <<tableVars, diskVars, cwd, calls, strays>>

ListEnd(t) ==
  /\ At(t, {"list"}, "listed") /\ Return(t)
  /\ UNCHANGED <<tableVars, diskVars, cwd, calls, strays>>

-----------------------------------------------------------------------------
Init ==
  /\ \E s \in Starts :
       /\ slots = [i \in Indices |-> IF i < Len(s)
            THEN [path |-> s[i + 1][1], len |-> Len(s[i + 1][1]), disk |-> s[i + 1][2]]
            ELSE EmptySlot]
       /\ count = Len(s)
       /\ mounted = [d \in Disks |-> \E i \in DOMAIN s : s[i][2] = d]
  /\ list = [d \in Disks |-> {}] /\ file = [t \in Tasks |-> Nothing]
  /\ cwd = [t \in Tasks |-> <<>>] /\ op = [t \in Tasks |-> Idle]
  /\ calls = 0
  /\ seen = [t \in Tasks |-> {}] /\ unrest = [t \in Tasks |-> "none"]
  /\ steady = [t \in Tasks |-> {}] /\ strays = {}

Step(t) ==
  \/ Call(t) \/ FF_FS_Find(t)
  \/ FF_FS_Add(t) \/ RemoveSearch(t) \/ RemoveClear(t)
  \/ MountBegin(t) \/ MountEnd(t) \/ UnmountTest(t) \/ UnmountEnd(t)
  \/ OpenFound(t) \/ OpenJoin(t) \/ Close(t)
  \/ RenameFound(t) \/ Move(t) \/ ChangeDir(t)
  \/ ListFound(t) \/ ListEntries(t) \/ ListSystem(t) \/ ListDots(t) \/ ListEnd(t)

\* The mounts that a call is adding or removing.
Touched == {op[u].call.path.names : u \in {v \in Tasks : op[v].call.fn \in {"add", "remove"}}}

\* A search begins.
Begins(t) == op'[t].pc = "find" /\ op[t].pc # "find"

\* What becomes of the table: a slot beyond a count that has fallen may be filled again.
Unrest(before, old, new) ==
  CASE before = "misleading" \/ (before = "shrunk" /\ new > old) -> "misleading"
    [] before # "misleading" /\ new < old -> "shrunk"
    [] before \notin {"misleading", "shrunk"} /\ new > old -> "grown"
    [] OTHER -> before

\* What the history variables see of a step.
Watch ==
  /\ seen' = [t \in Tasks |->
       IF op'[t].pc \notin Searching THEN {}
       ELSE {Cover(op[t].path)}' \cup
            (IF Begins(t) THEN {} ELSE seen[t])]
  /\ unrest' = [t \in Tasks |->
       LET before == IF Begins(t) THEN "none" ELSE unrest[t] IN
       IF op'[t].pc \notin Searching THEN "none"
       ELSE IF Holed' \/ Nested(op[t].path)' THEN "misleading"
       ELSE Unrest(before, count, count')]
  /\ steady' = [t \in Tasks |->
       IF op'[t].pc \notin Listing THEN {}
       ELSE (IF op[t].pc \in Listing THEN steady[t] ELSE Mounts) \ Touched']

Next == (\E t \in Tasks : Step(t)) /\ Watch
Spec == Init /\ [][Next]_vars
-----------------------------------------------------------------------------
(* What correctness means here. *)

\* The strays after which a file may have lost its volume.
Deprived == {"remounted", "late", "overtaken"}

\* FF_FS_Find answers with the volume, and the path on it, that the table gave the path
\* at some moment of the search, that of the deepest mount above it or the root's,
\* while tasks mount, remount and take out what is last in the table.  It may find
\* nothing if the count has changed.  Excepted are tables that have an emptied slot,
\* that have a mount before a deeper one above the path, or that have shrunk and then
\* grown again (unrest is "misleading").
FindAnswersFromTheTable ==
  \A t \in Tasks : op[t].pc = "found" /\ unrest[t] # "misleading" =>
    \/ \E a \in seen[t] : /\ a.disk = op[t].answer.disk
                          /\ a.disk # Nothing => a.rest = op[t].answer.rest
    \/ op[t].answer.disk = Nothing /\ unrest[t] # "none"

Times(x, q) == Cardinality({i \in DOMAIN q : q[i] = x})

\* A listing has "." and, below the root, ".." just once, whether they are on disk or
\* made up; that of the root has each mount that nobody adds or removes meanwhile,
\* whatever other mounts come and go, and has it once unless an emptied slot still has
\* its path.
MountsAreListed ==
  \A t \in Tasks : op[t].pc = "listed" =>
    /\ Times(<<".">>, op[t].listed) = 1
    /\ Times(<<"..">>, op[t].listed) = IF op[t].path = <<>> THEN 0 ELSE 1
    /\ op[t].path = <<>> /\ "mistaken" \notin strays =>
         \A m \in steady[t] : /\ Times(m, op[t].listed) >= 1
                              /\ "doubled" \notin strays => Times(m, op[t].listed) = 1

\* A file that is open is in its volume's list, and the volume is mounted: FF_Unmount
\* refuses while a file is open.
OpenFilesAreServed ==
  \A t \in Tasks : file[t] # Nothing /\ strays \cap Deprived = {} =>
    mounted[file[t]] /\ t \in list[file[t]]

\* Taking ".." out of a path does not make it lead elsewhere.  (That depends on no
\* state, so it is looked at in the initial ones.)
PathsAreResolved ==
  calls = 0 /\ op = [t \in Tasks |-> Idle] =>
    \A n \in 0 .. MaxNames : \A p \in [1 .. n -> Names] : Plain(p) => NamesItself(p)

=============================================================================
