---------------------------- MODULE FFNamesProofs ----------------------------
(***************************************************************************)
(* FFNames takes and gives back its locks the way FFLocking says: whatever *)
(* the tasks do with files and directories, each lock has one owner.  With *)
(* the locks, and as long as nobody acts on what is no longer so, a handle *)
(* keeps its entry, an entry its cluster, and a writer its file.           *)
(***************************************************************************)
EXTENDS FFNames, FFLockingProofs, FFRecursion, FiniteSetTheorems

\* A step of FFNames that leaves the locks alone or takes one step with them.
LockStep == [LockNext]_lockVars

\* Every place in the code is under some of the two locks.
LEMMA UnderIsLocks ==
  ASSUME NEW o PROVE Under(o) \in SUBSET Locks
BY DEF Under, Locks

LEMMA GoIsLockStep ==
  ASSUME NEW t \in Tasks, NEW o, Go(t, o) PROVE LockStep
<1>1. Turn(t, Under(op'[t])) BY DEF Go
<1>2. Under(op'[t]) \in SUBSET Locks BY UnderIsLocks
<1> QED BY <1>1, <1>2 DEF LockStep, LockNext

LEMMA ToIsLockStep ==
  ASSUME NEW t \in Tasks, NEW pc, To(t, pc) PROVE LockStep
BY GoIsLockStep DEF To

LEMMA BeginIsLockStep ==
  ASSUME NEW t \in Tasks, NEW fn, NEW pc, Begin(t, fn, pc) PROVE LockStep
BY GoIsLockStep DEF Begin

\* The calls a program makes.
LEMMA CallIsLockStep ==
  ASSUME NEW t \in Tasks, Start(t) \/ Write(t) \/ Close(t) PROVE LockStep
<1>1. CASE Start(t) BY <1>1, GoIsLockStep DEF Start
<1>2. CASE Write(t) BY <1>2, GoIsLockStep, BeginIsLockStep DEF Write
<1>3. CASE Close(t) BY <1>3, BeginIsLockStep DEF Close
<1> QED BY <1>1, <1>2, <1>3

\* Finding and creating.
LEMMA CreateIsLockStep ==
  ASSUME NEW t \in Tasks,
         FindDir(t) \/ Find(t) \/ Claim(t) \/ Plan(t) \/ Extend(t) \/ Unmade(t)
         \/ PutLfn(t) \/ PutNew(t) \/ Undo(t) \/ MakeDots(t)
  PROVE  LockStep
<1>1. CASE FindDir(t) BY <1>1, GoIsLockStep DEF FindDir
<1>2. CASE Find(t) BY <1>2, GoIsLockStep DEF Find, Found, Phantom, Unsized
<1>3. CASE Claim(t) BY <1>3, GoIsLockStep DEF Claim, Lose
<1>4. CASE Plan(t) BY <1>4, GoIsLockStep DEF Plan, Settle
<1>5. CASE PutLfn(t) BY <1>5, GoIsLockStep, ToIsLockStep DEF PutLfn
<1>6. CASE PutNew(t) BY <1>6, GoIsLockStep DEF PutNew
<1>7. CASE Undo(t) BY <1>7, GoIsLockStep DEF Undo
<1>8. CASE MakeDots(t) BY <1>8, GoIsLockStep, ToIsLockStep DEF MakeDots
<1>9. CASE Extend(t) BY <1>9, ToIsLockStep DEF Extend
<1>10. CASE Unmade(t) BY <1>10, GoIsLockStep DEF Unmade
<1> QED BY <1>1, <1>2, <1>3, <1>4, <1>5, <1>6, <1>7, <1>8, <1>9, <1>10

\* Removing and moving.
LEMMA RemoveIsLockStep ==
  ASSUME NEW t \in Tasks,
         Join(t) \/ Empty(t) \/ Unlink(t) \/ Quit(t) \/ Relock(t) \/ RmLfn(t) \/ Erase(t)
         \/ Target(t) \/ Leave(t)
  PROVE  LockStep
<1>1. CASE Join(t) BY <1>1, GoIsLockStep DEF Join
<1>2. CASE Empty(t) BY <1>2, ToIsLockStep DEF Empty
<1>3. CASE Unlink(t) BY <1>3, GoIsLockStep, ToIsLockStep DEF Unlink
<1>4. CASE Quit(t) BY <1>4, ToIsLockStep DEF Quit
<1>5. CASE RmLfn(t) BY <1>5, ToIsLockStep DEF RmLfn
<1>6. CASE Erase(t) BY <1>6, ToIsLockStep DEF Erase
<1>7. CASE Target(t) BY <1>7, GoIsLockStep, ToIsLockStep DEF Target
<1>8. CASE Leave(t) BY <1>8, GoIsLockStep DEF Leave
<1>9. CASE Relock(t) BY <1>9, ToIsLockStep DEF Relock
<1> QED BY <1>1, <1>2, <1>3, <1>4, <1>5, <1>6, <1>7, <1>8, <1>9

\* Writing to a handle and closing it.
LEMMA HandleIsLockStep ==
  ASSUME NEW t \in Tasks,
         Grow(t) \/ Enter(t) \/ Note(t) \/ Cut(t) \/ Detach(t) \/ PutSize(t)
  PROVE  LockStep
<1>1. CASE Grow(t) BY <1>1, GoIsLockStep DEF Grow, Lose
<1>2. CASE Enter(t) BY <1>2, GoIsLockStep, ToIsLockStep DEF Enter
<1>3. CASE Note(t) BY <1>3, GoIsLockStep, ToIsLockStep DEF Note
<1>4. CASE Cut(t) BY <1>4, ToIsLockStep DEF Cut
<1>5. CASE Detach(t) BY <1>5, ToIsLockStep DEF Detach
<1>6. CASE PutSize(t) BY <1>6, ToIsLockStep DEF PutSize
<1> QED BY <1>1, <1>2, <1>3, <1>4, <1>5, <1>6

LEMMA StepIsLockStep == [Next]_vars => [LockNext]_lockVars
<1> SUFFICES ASSUME [Next]_vars PROVE [LockNext]_lockVars OBVIOUS
<1>1. ASSUME NEW t \in Tasks, Start(t) \/ Write(t) \/ Close(t) PROVE LockStep
  BY <1>1, CallIsLockStep
<1>2. ASSUME NEW t \in Tasks, Continue(t) PROVE LockStep
  <2>1. CASE WaitBits(t) \/ ClearBits(t) BY <2>1 DEF LockStep, LockNext
  <2> QED BY <1>2, <2>1, CreateIsLockStep, RemoveIsLockStep, HandleIsLockStep DEF Continue
<1>3. CASE UNCHANGED vars BY <1>3 DEF vars, LockStep
<1> QED BY <1>1, <1>2, <1>3 DEF Next, Finished, LockStep

\* The functions on files and directories use the two locks as FFLocking describes,
\* so what is proved there of the locks holds here.
THEOREM NamesUseTheLocks == Spec => LockSpec
<1>1. Init => LockInit BY DEF Init
<1> QED BY <1>1, StepIsLockStep, PTL DEF Spec, LockSpec

\* Whatever the tasks open, create, move and remove, whatever fails and whoever times
\* out, the FAT lock and the directory lock are taken only while free and given back
\* only by their owners.
THEOREM NamesLocksAreMutexes == Spec => LocksAreMutexes
BY NamesUseTheLocks, BitsImplementMutexes, PTL

\* A call that a task is in, and a handle.
IsOp(o) ==
  /\ o = [call |-> o.call, phase |-> o.phase, pc |-> o.pc, dir |-> o.dir, slot |-> o.slot,
          ent |-> o.ent, new |-> o.new, free |-> o.free, checked |-> o.checked,
          alias |-> o.alias, seen |-> o.seen, goal |-> o.goal]
  /\ o.ent = [cluster |-> o.ent.cluster, size |-> o.ent.size, isdir |-> o.ent.isdir]
  /\ o.ent.cluster \in Clusters \cup {0} /\ o.ent.isdir \in BOOLEAN
  /\ o.new \in Clusters \cup {0} /\ o.dir \in Clusters \cup {Root, 0}
  /\ o.slot \in Int /\ o.free \in Nat

IsFile(f) ==
  /\ f = [dir |-> f.dir, slot |-> f.slot, object |-> f.object, size |-> f.size,
          mode |-> f.mode, isdir |-> f.isdir, seen |-> f.seen]
  /\ f.object \in Clusters \cup {0} /\ f.dir \in Clusters \cup {Root, 0} /\ f.slot \in Int
  /\ f.isdir \in BOOLEAN /\ (f # NoFile => f.dir # 0)

\* The places of a call before it has a handle, while it makes an entry, and while it has
\* a handle.
Seeking == {"dir", "find", "claim", "join", "undo", "dot", "dotdot"}
Creating == {"plan", "extend", "unmade", "lfn", "entry"}
Using == {"empty", "unlink", "quit", "made", "rmlfn", "erase", "target", "leave",
          "grow", "enter", "note", "cut", "detach", "size"}
\* The functions that are called, and the two that work on a handle.
Called == {"open", "mkdir", "rmfile", "rmdir", "move"}

\* Who gets where with what in its hands.
AtPlace(o, isopen) ==
  /\ o.pc \in {"idle"} \cup Seeking \cup Creating \cup Using
  /\ o.pc = "idle" <=> Fn(o) = "none"
  /\ o.pc = "idle" => o.phase = "only"
  /\ o.pc \in Seeking => ~ isopen
  /\ o.pc \in Using => isopen
  /\ o.pc \in Creating => (isopen <=> Fn(o) = "move")
  /\ o.pc \in Seeking \cup Creating => o.call \in Calls
  /\ o.pc \in Using => o.call \in Calls \/ Fn(o) \in {"write", "close"}
  /\ o.phase # "only" <=> Fn(o) = "move"
  /\ o.phase \in {"only", "dst", "del", "src", "srcdir"}

\* Which functions get there.
FnsAt(o) ==
  /\ o.pc = "dir" => Fn(o) # "mkdir"
  /\ o.pc \in {"find", "claim", "join"} \cup Creating => o.dir # 0
  /\ o.pc \in {"claim", "undo"} => Fn(o) \in {"open", "mkdir"}
  /\ o.pc \in {"dot", "dotdot"} => Fn(o) = "mkdir"
  /\ o.pc \in Creating => Fn(o) \in {"open", "mkdir"} \/ o.phase \in {"src", "srcdir"}
  /\ o.pc \in {"empty", "quit"} => Fn(o) = "rmdir"
  /\ o.pc = "unlink" => Removes(o)
  /\ o.pc = "join" => Fn(o) # "mkdir"
  /\ o.pc \in {"rmlfn", "erase"} => Removes(o) \/ o.phase \in {"src", "srcdir"}
  /\ o.pc = "extend" => o.dir # Root
  /\ o.pc \in {"made", "target"} => o.phase \in {"src", "srcdir"}
  /\ o.pc \in {"grow", "enter"} => Fn(o) = "write"
  /\ o.pc = "note" => Fn(o) \in {"write", "close"}
  /\ o.pc \in {"cut", "detach", "size"} => Fn(o) = "close"
  /\ Fn(o) = "mkdir" /\ o.pc # "idle" => o.dir = Root
  /\ Fn(o) = "open" /\ o.pc \in {"dir", "find", "claim"} \cup Creating => o.ent = NoEntry
  /\ Fn(o) \in {"rmfile", "rmdir", "move", "close"} => o.new = 0

TaskOK(o, f) == IsOp(o) /\ IsFile(f) /\ AtPlace(o, f # NoFile) /\ FnsAt(o)

TasksOK ==
  /\ op = [t \in Tasks |-> op[t]] /\ file = [t \in Tasks |-> file[t]]
  /\ \A t \in Tasks : TaskOK(op[t], file[t])

UsedOK == used \subseteq Clusters /\ part \in [Clusters -> Clusters \cup {0, Nobody}]

TInv ==
  /\ LockInv /\ AreDirs(dirs) /\ UsedOK
  /\ TasksOK
  /\ calls \in 0 .. MaxCalls /\ faults \in 0 .. MaxFaults

-----------------------------------------------------------------------------
(* Steps. *)

LEMMA IdleOK == IsOp(Idle) /\ FnsAt(Idle) /\ \A b : AtPlace(Idle, b)
<1>1. /\ Idle.pc = "idle" /\ Fn(Idle) = "none" /\ Idle.phase = "only" /\ ~ Removes(Idle)
      /\ Idle.new = 0
  BY DEF Idle, NoCall, Fn, Removes
<1>2. IsOp(Idle)
  <2>1. /\ Idle.ent = NoEntry /\ Idle.dir = 0 /\ Idle.slot = 0 /\ Idle.free = 0
        /\ Idle = [call |-> Idle.call, phase |-> Idle.phase, pc |-> Idle.pc, dir |-> Idle.dir,
                   slot |-> Idle.slot, ent |-> Idle.ent, new |-> Idle.new, free |-> Idle.free,
                   checked |-> Idle.checked, alias |-> Idle.alias, seen |-> Idle.seen,
                   goal |-> Idle.goal]
    BY DEF Idle
  <2>2. /\ NoEntry = [cluster |-> NoEntry.cluster, size |-> NoEntry.size, isdir |-> NoEntry.isdir]
        /\ NoEntry.cluster = 0 /\ NoEntry.isdir = FALSE
    BY DEF NoEntry
  <2>3. NoEntry.isdir \in BOOLEAN BY <2>2
  <2> QED BY <1>1, <2>1, <2>2, <2>3 DEF IsOp
<1>3. FnsAt(Idle) BY <1>1 DEF FnsAt, Creating
<1>4. \A b : AtPlace(Idle, b) BY <1>1 DEF AtPlace, Seeking, Creating, Using
<1> QED BY <1>2, <1>3, <1>4

LEMMA NoFileOK == IsFile(NoFile)
BY DEF IsFile, NoFile

LEMMA GoIs ==
  ASSUME TasksOK, NEW t \in Tasks, NEW o, Go(t, o)
  PROVE  /\ op'[t] = o /\ op' = [u \in Tasks |-> op'[u]]
         /\ \A u \in Tasks \ {t} : op'[u] = op[u]
BY DEF TasksOK, Go

\* What the others do not see.
LEMMA StepTypes ==
  ASSUME TInv, NEW t \in Tasks, LockStep, AreDirs(dirs'), UsedOK',
         op' = [u \in Tasks |-> op'[u]], \A u \in Tasks \ {t} : op'[u] = op[u],
         file' = [u \in Tasks |-> file'[u]], \A u \in Tasks \ {t} : file'[u] = file[u],
         TaskOK(op'[t], file'[t]), calls' \in 0 .. MaxCalls, faults' \in 0 .. MaxFaults
  PROVE  TInv'
<1>1. LockInv' BY LockNextInv DEF TInv, LockStep
<1>2. \A u \in Tasks : TaskOK(op'[u], file'[u]) BY DEF TInv, TasksOK
<1>3. TasksOK' BY <1>2 DEF TasksOK
<1> QED BY <1>1, <1>3 DEF TInv

\* A step that changes no handle and makes no call.
LEMMA GoTypes ==
  ASSUME TInv, NEW t \in Tasks, NEW o, Go(t, o), AreDirs(dirs'), UsedOK',
         IsOp(o), AtPlace(o, file[t] # NoFile), FnsAt(o),
         file' = file, calls' = calls, NoFault \/ Fault
  PROVE  TInv'
<1>1. TasksOK /\ LockStep BY GoIsLockStep DEF TInv
<1>2. IsFile(file[t]) BY <1>1 DEF TasksOK, TaskOK
<1>3. TaskOK(op'[t], file'[t]) BY <1>1, <1>2, GoIs DEF TaskOK
<1>4. faults' \in 0 .. MaxFaults BY NamesAssumption DEF TInv, NoFault, Fault
<1>5. calls' \in 0 .. MaxCalls BY DEF TInv
<1>6. file' = [u \in Tasks |-> file'[u]] BY <1>1 DEF TasksOK
<1> QED BY <1>1, <1>3, <1>4, <1>5, <1>6, GoIs, StepTypes

-----------------------------------------------------------------------------
(* Operators. *)

LEMMA LeastIs ==
  ASSUME NEW S, S \subseteq Nat, S # {}
  PROVE  Least(S) \in S /\ \A j \in S : Least(S) <= j
<1>1. \E x \in S : \A y \in S : <<y, x>> \notin OpToRel(<, Nat)
  BY NatLessThanWellFounded, WFMin
<1>2. \E x \in S : \A y \in S : ~ (y < x) BY <1>1 DEF OpToRel
<1>3. \E x \in S : \A y \in S : x <= y BY <1>2
<1> QED BY <1>3 DEF Least

LEMMA OpeningOK ==
  ASSUME NEW o, IsOp(o), o.call \in Calls, o.phase \in {"only", "dst", "del", "src", "srcdir"},
         o.phase # "only" <=> Fn(o) = "move", Fn(o) = "open" => o.ent = NoEntry,
         Fn(o) \in {"rmfile", "rmdir", "move", "close"} => o.new = 0
  PROVE  IsOp(Opening(o)) /\ AtPlace(Opening(o), FALSE) /\ FnsAt(Opening(o))
<1>1. Fn(o) \in Called /\ (Fn(o) = "mkdir" => Path(o).in = "")
  BY CallsAssumption DEF Fn, Called, Path
<1>2. CASE Path(o).in = ""
  <2>1. PICK q : q = [o EXCEPT !.dir = Root, !.pc = "find"] OBVIOUS
  <2>2. /\ q = [call |-> o.call, phase |-> o.phase, pc |-> "find", dir |-> Root, slot |-> o.slot,
                ent |-> o.ent, new |-> o.new, free |-> o.free, checked |-> o.checked,
                alias |-> o.alias, seen |-> o.seen, goal |-> o.goal]
    BY <2>1 DEF IsOp
  <2>3. IsOp(q) BY <2>2 DEF IsOp
  <2>4. AtPlace(q, FALSE) BY <1>1, <2>2 DEF AtPlace, Seeking, Creating, Using, Fn, Called
  <2>5. FnsAt(q) BY <1>1, <2>2, NamesAssumption DEF FnsAt, Seeking, Creating, Using, Fn, Called, Removes
  <2> QED BY <1>2, <2>1, <2>3, <2>4, <2>5 DEF Opening
<1>3. CASE Path(o).in # ""
  <2>1. PICK q : q = [o EXCEPT !.pc = "dir"] OBVIOUS
  <2>2. /\ q = [call |-> o.call, phase |-> o.phase, pc |-> "dir", dir |-> o.dir, slot |-> o.slot,
                ent |-> o.ent, new |-> o.new, free |-> o.free, checked |-> o.checked,
                alias |-> o.alias, seen |-> o.seen, goal |-> o.goal]
    BY <2>1 DEF IsOp
  <2>3. IsOp(q) BY <2>2 DEF IsOp
  <2>4. AtPlace(q, FALSE) BY <1>1, <2>2 DEF AtPlace, Seeking, Creating, Using, Fn, Called
  <2>5. FnsAt(q) BY <1>1, <1>3, <2>2, NamesAssumption DEF FnsAt, Seeking, Creating, Using, Fn, Called, Removes
  <2> QED BY <1>3, <2>1, <2>3, <2>4, <2>5 DEF Opening
<1> QED BY <1>2, <1>3

\* A call that may go on looking for something.
Looks(o) ==
  /\ IsOp(o) /\ o.call \in Calls /\ o.phase \in {"only", "dst", "del", "src", "srcdir"}
  /\ o.phase # "only" <=> Fn(o) = "move"
  /\ Fn(o) = "open" => o.ent = NoEntry
  /\ Fn(o) \in {"rmfile", "rmdir", "move", "close"} => o.new = 0

LEMMA PcIs ==
  ASSUME NEW o, IsOp(o), NEW p, NEW q, q = [o EXCEPT !.pc = p]
  PROVE  /\ q.pc = p /\ q.call = o.call /\ q.phase = o.phase /\ q.dir = o.dir /\ q.slot = o.slot
         /\ q.ent = o.ent /\ q.new = o.new /\ q.free = o.free /\ q.checked = o.checked
         /\ q.alias = o.alias /\ q.seen = o.seen /\ q.goal = o.goal
         /\ IsOp(q) /\ Fn(q) = Fn(o)
<1>1. q = [call |-> o.call, phase |-> o.phase, pc |-> p, dir |-> o.dir, slot |-> o.slot,
           ent |-> o.ent, new |-> o.new, free |-> o.free, checked |-> o.checked,
           alias |-> o.alias, seen |-> o.seen, goal |-> o.goal]
  BY DEF IsOp
<1> QED BY <1>1 DEF IsOp, Fn

LEMMA NextPhaseLooks ==
  ASSUME NEW o, Looks(o), Fn(o) = "move", NEW p \in {"dst", "del", "src", "srcdir"}, NEW g
  PROVE  Looks([o EXCEPT !.phase = p, !.goal = g])
<1>1. PICK q : q = [o EXCEPT !.phase = p, !.goal = g] OBVIOUS
<1>0. IsOp(o) BY DEF Looks
<1>2. IsOp(q) /\ Fn(q) = Fn(o) /\ q.call = o.call /\ q.phase = p /\ q.ent = o.ent /\ q.new = o.new
  <2>1. q = [call |-> o.call, phase |-> p, pc |-> o.pc, dir |-> o.dir, slot |-> o.slot,
             ent |-> o.ent, new |-> o.new, free |-> o.free, checked |-> o.checked,
             alias |-> o.alias, seen |-> o.seen, goal |-> g]
    BY <1>0, <1>1 DEF IsOp
  <2>2. IsOp(q) BY <1>0, <2>1 DEF IsOp
  <2> QED BY <2>1, <2>2 DEF Fn
<1>3. Looks(q) BY <1>2 DEF Looks
<1> QED BY <1>1, <1>3

LEMMA RefusedOK ==
  ASSUME NEW o, Looks(o), NEW why
  PROVE  /\ IsOp(Refused(o, why)) /\ AtPlace(Refused(o, why), FALSE) /\ FnsAt(Refused(o, why))
<1>1. CASE o.phase = "dst" /\ why # "isdir"
  <2>1. PICK q : q = [o EXCEPT !.phase = "src", !.goal = o.seen] OBVIOUS
  <2>2. Fn(o) = "move" BY <1>1 DEF Looks
  <2>3. Looks(q) BY <2>1, <2>2, NextPhaseLooks
  <2>4. Refused(o, why) = Opening(q) BY <1>1, <2>1 DEF Refused
  <2> QED BY <2>3, <2>4, OpeningOK DEF Looks
<1>2. CASE ~ (o.phase = "dst" /\ why # "isdir") /\ o.phase = "src" /\ why = "isdir"
  <2>1. PICK q : q = [o EXCEPT !.phase = "srcdir"] OBVIOUS
  <2>2. Fn(o) = "move" BY <1>2 DEF Looks
  <2>3. q = [o EXCEPT !.phase = "srcdir", !.goal = o.goal] BY <2>1 DEF Looks, IsOp
  <2>4. Looks(q) BY <2>2, <2>3, NextPhaseLooks
  <2>5. Refused(o, why) = Opening(q) BY <1>2, <2>1 DEF Refused
  <2> QED BY <2>4, <2>5, OpeningOK DEF Looks
<1>3. CASE ~ (o.phase = "dst" /\ why # "isdir") /\ ~ (o.phase = "src" /\ why = "isdir")
  <2>1. Refused(o, why) = Idle BY <1>3 DEF Refused
  <2> QED BY <2>1, IdleOK
<1> QED BY <1>1, <1>2, <1>3

\* A task that is at a place of a call has not a handle, or it has.
LEMMA HasTask ==
  ASSUME TInv, NEW t \in Tasks PROVE TaskOK(op[t], file[t])
BY DEF TInv, TasksOK

LEMMA SeekingLooks ==
  ASSUME NEW o, NEW f, TaskOK(o, f), o.pc \in {"dir", "find", "claim"}
  PROVE  Looks(o) /\ f = NoFile
BY DEF TaskOK, Looks, AtPlace, FnsAt, Seeking, Creating

\* The slots of a directory.
LEMMA DirIs ==
  ASSUME TInv, NEW D \in Clusters \cup {Root}
  PROVE  /\ DOMAIN dirs = Clusters \cup {Root}
         /\ DOMAIN dirs[D] = 0 .. SlotsOf(D) - 1
         /\ dirs[D] = [i \in 0 .. SlotsOf(D) - 1 |-> dirs[D][i]]
         /\ \A i \in 0 .. SlotsOf(D) - 1 : IsSlot(dirs[D][i])
         /\ SlotsOf(D) \in Nat
BY NamesAssumption DEF TInv, AreDirs, SlotsOf

LEMMA EntryIs ==
  ASSUME NEW s, IsSlot(s), s.kind = "entry"
  PROVE  /\ s = Entry(s.alias, s.cluster, s.size, s.isdir)
         /\ s.cluster \in Clusters \cup {0} /\ s.isdir \in BOOLEAN
BY DEF IsSlot

LEMMA StartTypes ==
  ASSUME TInv, NEW t \in Tasks, Start(t) PROVE TInv'
<1>1. PICK c \in Calls : Go(t, Opening([Idle EXCEPT !.call = c,
                                 !.phase = IF c.fn = "move" THEN "dst" ELSE "only"]))
  BY DEF Start
<1>2. PICK ph : ph = IF c.fn = "move" THEN "dst" ELSE "only" OBVIOUS
<1>3. PICK q : q = [Idle EXCEPT !.call = c, !.phase = ph] OBVIOUS
<1>4. q = [call |-> c, phase |-> ph, pc |-> Idle.pc, dir |-> Idle.dir, slot |-> Idle.slot,
           ent |-> Idle.ent, new |-> Idle.new, free |-> Idle.free, checked |-> Idle.checked,
           alias |-> Idle.alias, seen |-> Idle.seen, goal |-> Idle.goal]
  BY <1>3, IdleOK DEF IsOp
<1>5. Idle.ent = NoEntry /\ Idle.new = 0 BY DEF Idle
<1>6. Looks(q)
  <2>1. IsOp(q) BY <1>4, IdleOK DEF IsOp
  <2>2. q.call = c /\ q.phase = ph /\ q.ent = NoEntry /\ q.new = 0 /\ Fn(q) = c.fn
    BY <1>4, <1>5 DEF Fn
  <2> QED BY <1>2, <2>1, <2>2 DEF Looks
<1>7. PICK r : r = Opening(q) OBVIOUS
<1>8. IsOp(r) /\ AtPlace(r, FALSE) /\ FnsAt(r) BY <1>6, <1>7, OpeningOK DEF Looks
<1>9. Go(t, r) BY <1>1, <1>2, <1>3, <1>7
<1>10. /\ TasksOK /\ file' = file /\ file[t] = NoFile /\ dirs' = dirs /\ used' = used
       /\ part' = part /\ faults' = faults /\ calls' = calls + 1 /\ calls < MaxCalls
  BY DEF Start, TInv, IsOpen
<1>11. TaskOK(op'[t], file'[t]) BY <1>8, <1>9, <1>10, GoIs, NoFileOK DEF TaskOK
<1>12. file' = [u \in Tasks |-> file'[u]] BY <1>10 DEF TasksOK
<1>13. calls' \in 0 .. MaxCalls BY <1>10, NamesAssumption DEF TInv
<1>14. LockStep BY <1>9, GoIsLockStep
<1>15. AreDirs(dirs') /\ UsedOK' /\ faults' \in 0 .. MaxFaults BY <1>10 DEF UsedOK, TInv
<1> QED BY <1>9, <1>10, <1>11, <1>12, <1>13, <1>14, <1>15, GoIs, StepTypes

LEMMA DirOfIs ==
  ASSUME TInv, NEW n
  PROVE  /\ DirOf(n) \in Clusters \cup {0}
         /\ DirOf(n) # 0 => \E i \in Entries(dirs[Root]) : /\ dirs[Root][i].isdir
                                                          /\ dirs[Root][i].cluster = DirOf(n)
<1>1. PICK hits : hits = {i \in Named(dirs[Root], n) : dirs[Root][i].isdir} OBVIOUS
<1>2. CASE hits = {} BY <1>1, <1>2 DEF DirOf
<1>3. CASE hits # {}
  <2>1. /\ DOMAIN dirs[Root] = 0 .. SlotsOf(Root) - 1 /\ SlotsOf(Root) \in Nat
        /\ \A i \in 0 .. SlotsOf(Root) - 1 : IsSlot(dirs[Root][i])
    BY DirIs
  <2>2. hits \subseteq Entries(dirs[Root]) /\ hits \subseteq DOMAIN dirs[Root]
        /\ \A i \in hits : dirs[Root][i].kind = "entry" /\ dirs[Root][i].isdir
    BY <1>1 DEF Named, Entries
  <2>3. hits \subseteq Nat BY <2>1, <2>2
  <2>4. PICK k : k = Least(hits) OBVIOUS
  <2>5. k \in hits BY <1>3, <2>3, <2>4, LeastIs
  <2>6. dirs[Root][k].cluster \in Clusters \cup {0} BY <2>1, <2>2, <2>5, EntryIs
  <2>7. DirOf(n) = dirs[Root][k].cluster BY <1>1, <1>3, <2>4 DEF DirOf
  <2> QED BY <2>2, <2>5, <2>6, <2>7
<1> QED BY <1>2, <1>3

LEMMA FindDirTypes ==
  ASSUME TInv, NEW t \in Tasks, FindDir(t) PROVE TInv'
<1>1. /\ op[t].pc = "dir" /\ dirs' = dirs /\ used' = used /\ file' = file /\ calls' = calls
      /\ AreDirs(dirs') /\ UsedOK'
  BY DEF UsedOK, FindDir, At, TInv
<1>2. TaskOK(op[t], file[t]) BY HasTask
<1>3. Looks(op[t]) /\ file[t] = NoFile BY <1>1, <1>2, SeekingLooks
<1>4. PICK D : D = DirOf(Path(op[t]).in) OBVIOUS
<1>5. D \in Clusters \cup {0} BY <1>4, DirOfIs
<1>6. CASE D # 0 /\ Go(t, [op[t] EXCEPT !.dir = D, !.pc = "find"]) /\ NoFault
  <2>1. PICK o : o = op[t] OBVIOUS
  <2>2. PICK q : q = [o EXCEPT !.dir = D, !.pc = "find"] OBVIOUS
  <2>3. q = [call |-> o.call, phase |-> o.phase, pc |-> "find", dir |-> D, slot |-> o.slot,
             ent |-> o.ent, new |-> o.new, free |-> o.free, checked |-> o.checked,
             alias |-> o.alias, seen |-> o.seen, goal |-> o.goal]
    BY <1>2, <2>1, <2>2 DEF TaskOK, IsOp
  <2>4. IsOp(q) BY <1>2, <1>5, <2>1, <2>3 DEF TaskOK, IsOp
  <2>5. Fn(q) = Fn(o) /\ Fn(o) # "mkdir" /\ Fn(o) # "none" /\ Fn(o) \in Called
    BY <1>1, <1>2, <1>3, <2>1, <2>3, CallsAssumption DEF Fn, TaskOK, FnsAt, Looks, Called
  <2>6. AtPlace(q, FALSE) BY <1>3, <2>1, <2>3, <2>5 DEF AtPlace, Looks, Seeking, Creating, Using
  <2>7. FnsAt(q) BY <1>3, <1>6, <2>1, <2>3, <2>5 DEF FnsAt, Looks, Creating
  <2>8. Go(t, q) BY <1>6, <2>1, <2>2
  <2> QED BY <1>1, <1>3, <1>6, <2>4, <2>6, <2>7, <2>8, GoTypes
<1>7. CASE Go(t, Refused(op[t], "path")) /\ (NoFault \/ Fault)
  <2>1. PICK q : q = Refused(op[t], "path") OBVIOUS
  <2>2. IsOp(q) /\ AtPlace(q, FALSE) /\ FnsAt(q) BY <1>3, <2>1, RefusedOK
  <2>3. Go(t, q) BY <1>7, <2>1
  <2> QED BY <1>1, <1>3, <1>7, <2>2, <2>3, GoTypes
<1> QED BY <1>4, <1>6, <1>7 DEF FindDir

LEMMA SlotTypes ==
  /\ IsSlot(End) /\ IsSlot(Deleted) /\ IsSlot(Dots)
  /\ \A n, a : IsSlot(Lfn(n, a))
  /\ \A a, z : \A c \in Clusters \cup {0} : \A d \in BOOLEAN : IsSlot(Entry(a, c, z, d))
<1>1. IsSlot(End) BY DEF IsSlot, End
<1>2. IsSlot(Deleted) BY DEF IsSlot, Deleted
<1>3. IsSlot(Dots) BY DEF IsSlot, Dots
<1>4. ASSUME NEW n, NEW a PROVE IsSlot(Lfn(n, a))
  <2>1. /\ Lfn(n, a).kind = "lfn" /\ Lfn(n, a).name = n /\ Lfn(n, a).alias = a BY DEF Lfn
  <2> QED BY <2>1 DEF IsSlot
<1>5. ASSUME NEW a, NEW z, NEW c \in Clusters \cup {0}, NEW d \in BOOLEAN
      PROVE  IsSlot(Entry(a, c, z, d))
  <2>1. PICK e : e = Entry(a, c, z, d) OBVIOUS
  <2>2. e.kind = "entry" /\ e.alias = a /\ e.cluster = c /\ e.size = z /\ e.isdir = d
    BY <2>1 DEF Entry
  <2> QED BY <2>1, <2>2 DEF IsSlot
<1> QED BY <1>1, <1>2, <1>3, <1>4, <1>5

\* One slot is written, or none if there is no such slot.
LEMMA PutIs ==
  ASSUME AreDirs(dirs), NEW D, NEW i, NEW e, Put(D, i, e)
  PROVE  /\ DOMAIN dirs' = DOMAIN dirs
         /\ \A E \in DOMAIN dirs : DOMAIN dirs'[E] = DOMAIN dirs[E]
         /\ \A E \in DOMAIN dirs : \A j \in DOMAIN dirs[E] :
              dirs'[E][j] = IF E = D /\ j = i THEN e ELSE dirs[E][j]
         /\ dirs' = [E \in DOMAIN dirs |-> [j \in DOMAIN dirs[E] |-> dirs'[E][j]]]
<1>1. dirs = [E \in DOMAIN dirs |-> [j \in DOMAIN dirs[E] |-> dirs[E][j]]]
  BY DEF AreDirs
<1>2. dirs' = [E \in DOMAIN dirs |-> IF E = D THEN [dirs[E] EXCEPT ![i] = e] ELSE dirs[E]]
  BY <1>1 DEF Put
<1>3. ASSUME NEW E \in DOMAIN dirs
      PROVE  dirs'[E] = [j \in DOMAIN dirs[E] |-> IF E = D /\ j = i THEN e ELSE dirs[E][j]]
  <2>1. dirs[E] = [j \in DOMAIN dirs[E] |-> dirs[E][j]] BY <1>1
  <2>2. CASE E = D
    <3>1. dirs'[E] = [dirs[E] EXCEPT ![i] = e] BY <1>2, <2>2
    <3> QED BY <2>1, <2>2, <3>1
  <2>3. CASE E # D
    <3>1. dirs'[E] = dirs[E] BY <1>2, <2>3
    <3> QED BY <2>1, <2>3, <3>1
  <2> QED BY <2>2, <2>3
<1> QED BY <1>2, <1>3

LEMMA PutTypes ==
  ASSUME AreDirs(dirs), NEW D, NEW i, NEW e, Put(D, i, e),
         D \in DOMAIN dirs /\ i \in DOMAIN dirs[D] => IsSlot(e)
  PROVE  AreDirs(dirs')
<1>1. /\ DOMAIN dirs = Clusters \cup {Root}
      /\ \A E \in DOMAIN dirs : DOMAIN dirs[E] = 0 .. SlotsOf(E) - 1
      /\ \A E \in DOMAIN dirs : \A j \in DOMAIN dirs[E] : IsSlot(dirs[E][j])
  BY DEF AreDirs
<1>2. ASSUME NEW E \in DOMAIN dirs, NEW j \in DOMAIN dirs[E] PROVE IsSlot(dirs'[E][j])
  <2>1. dirs'[E][j] = IF E = D /\ j = i THEN e ELSE dirs[E][j] BY PutIs
  <2>2. CASE E = D /\ j = i BY <2>1, <2>2
  <2>3. CASE ~ (E = D /\ j = i)
    <3>1. dirs'[E][j] = dirs[E][j] BY <2>1, <2>3
    <3> QED BY <1>1, <3>1
  <2> QED BY <2>2, <2>3
<1>3. DOMAIN dirs' = Clusters \cup {Root} BY <1>1, PutIs
<1>4. \A E \in DOMAIN dirs' : \A j \in DOMAIN dirs'[E] : IsSlot(dirs'[E][j])
  BY <1>2, PutIs
<1>5. dirs' = [E \in Clusters \cup {Root} |-> [j \in 0 .. SlotsOf(E) - 1 |-> dirs'[E][j]]]
  <2>1. dirs' = [E \in DOMAIN dirs |-> [j \in DOMAIN dirs[E] |-> dirs'[E][j]]] BY PutIs
  <2>2. ASSUME NEW E \in Clusters \cup {Root}
        PROVE  dirs'[E] = [j \in 0 .. SlotsOf(E) - 1 |-> dirs'[E][j]]
    <3>1. dirs'[E] = [j \in DOMAIN dirs[E] |-> dirs'[E][j]] BY <1>1, <2>1
    <3>2. DOMAIN dirs[E] = 0 .. SlotsOf(E) - 1 BY <1>1
    <3> QED BY <3>1, <3>2
  <2>3. dirs' = [E \in Clusters \cup {Root} |-> dirs'[E]] BY <1>1, <2>1
  <2> QED BY <2>2, <2>3
<1> QED BY <1>4, <1>5 DEF AreDirs

\* The end of a directory and a run of deleted slots are at numbers.
LEMMA EndFromIs ==
  ASSUME NEW s, NEW n \in Nat, DOMAIN s = 0 .. n - 1, NEW i \in Nat
  PROVE  /\ EndFrom(s, i) \in 0 .. n
         /\ EndFrom(s, i) < n => s[EndFrom(s, i)].kind = "end" /\ i <= EndFrom(s, i)
         /\ \A j \in i .. EndFrom(s, i) - 1 : j \in DOMAIN s => s[j].kind # "end"
<1>1. PICK ends : ends = {j \in DOMAIN s : j >= i /\ s[j].kind = "end"} OBVIOUS
<1>2. Cardinality(DOMAIN s) = n
  <2>1. Cardinality(0 .. n - 1) = IF 0 > n - 1 THEN 0 ELSE n - 1 - 0 + 1 BY FS_Interval
  <2> QED BY <2>1
<1>3. CASE ends = {}
  <2>1. EndFrom(s, i) = n BY <1>1, <1>2, <1>3 DEF EndFrom
  <2>2. \A j \in DOMAIN s : j >= i => s[j].kind # "end" BY <1>1, <1>3
  <2> QED BY <2>1, <2>2
<1>4. CASE ends # {}
  <2>1. ends \subseteq Nat BY <1>1
  <2>2. PICK k : k = Least(ends) OBVIOUS
  <2>3. k \in ends /\ \A j \in ends : k <= j BY <1>4, <2>1, <2>2, LeastIs
  <2>4. EndFrom(s, i) = k BY <1>1, <1>4, <2>2 DEF EndFrom
  <2>5. k \in 0 .. n - 1 /\ s[k].kind = "end" /\ i <= k BY <1>1, <2>3
  <2>6. ASSUME NEW j \in i .. k - 1, j \in DOMAIN s PROVE s[j].kind # "end"
    <3>1. j \notin ends BY <2>3, <2>5, <2>6
    <3> QED BY <1>1, <2>6, <3>1
  <2> QED BY <2>4, <2>5, <2>6
<1> QED BY <1>3, <1>4

LEMMA FirstRunIs ==
  ASSUME NEW s, NEW n \in Nat, DOMAIN s = 0 .. n - 1, NEW i \in Nat, NEW m \in Nat \ {0}
  PROVE  /\ FirstRun(s, i, m) \in 0 .. n
         /\ \/ FirstRun(s, i, m) = EndFrom(s, i)
            \/ /\ FirstRun(s, i, m) >= i /\ FirstRun(s, i, m) + m <= EndFrom(s, i)
               /\ \A k \in FirstRun(s, i, m) .. FirstRun(s, i, m) + m - 1 : s[k] = Deleted
<1>1. PICK end : end = EndFrom(s, i) OBVIOUS
<1>2. end \in 0 .. n BY <1>1, EndFromIs
<1>3. PICK runs : runs = {j \in i .. end - m : \A k \in j .. j + m - 1 : s[k] = Deleted} OBVIOUS
<1>4. CASE runs = {}
  <2>1. FirstRun(s, i, m) = end BY <1>1, <1>3, <1>4 DEF FirstRun
  <2> QED BY <1>1, <1>2, <2>1
<1>5. CASE runs # {}
  <2>1. runs \subseteq Nat BY <1>2, <1>3
  <2>2. PICK k : k = Least(runs) OBVIOUS
  <2>3. k \in runs BY <1>5, <2>1, <2>2, LeastIs
  <2>4. FirstRun(s, i, m) = k BY <1>1, <1>3, <1>5, <2>2 DEF FirstRun
  <2>5. k \in i .. end - m /\ \A l \in k .. k + m - 1 : s[l] = Deleted BY <1>3, <2>3
  <2> QED BY <1>1, <1>2, <2>4, <2>5
<1> QED BY <1>4, <1>5

\* A call that goes on at another place, with what it had.
LEMMA PlaceIs ==
  ASSUME NEW o, IsOp(o), NEW q,
         NEW p, NEW sl, NEW e, NEW c, NEW fr, NEW k, NEW a, NEW s,
         q = [call |-> o.call, phase |-> o.phase, pc |-> p, dir |-> o.dir, slot |-> sl,
              ent |-> e, new |-> c, free |-> fr, checked |-> k,
              alias |-> a, seen |-> s, goal |-> o.goal],
         sl \in Int, fr \in Nat, c \in Clusters \cup {0},
         e = [cluster |-> e.cluster, size |-> e.size, isdir |-> e.isdir],
         e.cluster \in Clusters \cup {0}, e.isdir \in BOOLEAN
  PROVE  /\ IsOp(q) /\ Fn(q) = Fn(o) /\ q.call = o.call /\ q.phase = o.phase /\ q.pc = p
         /\ q.dir = o.dir /\ q.slot = sl /\ q.ent = e /\ q.new = c /\ q.free = fr
         /\ q.seen = s /\ q.goal = o.goal
         /\ Removes(q) = Removes(o)
<1>1. IsOp(q) BY DEF IsOp
<1>2. Fn(q) = Fn(o) BY DEF Fn
<1> QED BY <1>1, <1>2 DEF Removes

\* A call in a directory.
InDir(o) == Looks(o) /\ o.dir # 0 /\ (Fn(o) = "mkdir" => o.dir = Root)

OK(o, isopen) == IsOp(o) /\ AtPlace(o, isopen) /\ FnsAt(o)

LEMMA CreatesIs ==
  ASSUME NEW o, Looks(o), Creates(o) PROVE Fn(o) \in {"open", "mkdir"}
<1>1. Fn(o) \in Called BY CallsAssumption DEF Looks, Fn, Called
<1>2. CASE Fn(o) = "rmfile"
  <2>0. o.phase = "only" BY <1>2 DEF Looks
  <2>1. Mode(o) = {"W"} BY <1>2, <2>0 DEF Mode
  <2> QED BY <2>1 DEF Creates
<1>3. CASE Fn(o) = "rmdir"
  <2>1. o.phase = "only" BY <1>3 DEF Looks
  <2>2. Mode(o) = {"D"} BY <1>3, <2>1 DEF Mode
  <2> QED BY <2>2 DEF Creates
<1>4. CASE Fn(o) = "move"
  <2>1. o.phase \in {"dst", "del", "src", "srcdir"} BY <1>4 DEF Looks
  <2>2. Mode(o) \in {{"W"}, {"D"}, {"R"}} BY <1>4, <2>1 DEF Mode
  <2> QED BY <2>2 DEF Creates
<1> QED BY <1>1, <1>2, <1>3, <1>4 DEF Called

LEMMA ClaimOK ==
  ASSUME NEW o, InDir(o), Fn(o) \in {"open", "mkdir"} PROVE OK([o EXCEPT !.pc = "claim"], FALSE)
<1>1. PICK q : q = [o EXCEPT !.pc = "claim"] OBVIOUS
<1>2. IsOp(o) /\ Looks(o) BY DEF InDir, Looks
<1>3. /\ q.pc = "claim" /\ q.call = o.call /\ q.phase = o.phase /\ q.dir = o.dir
      /\ q.ent = o.ent /\ q.new = o.new /\ IsOp(q) /\ Fn(q) = Fn(o)
  BY <1>1, <1>2, PcIs
<1>4. AtPlace(q, FALSE) BY <1>2, <1>3 DEF AtPlace, Looks, Seeking, Creating, Using
<1>5. FnsAt(q) BY <1>2, <1>3 DEF FnsAt, Looks, InDir, Creating
<1> QED BY <1>1, <1>3, <1>4, <1>5 DEF OK

LEMMA AbsentOK ==
  ASSUME NEW o, InDir(o) PROVE OK(Absent(o), FALSE)
<1>1. CASE Creates(o)
  <2>1. Fn(o) \in {"open", "mkdir"} BY <1>1, CreatesIs DEF InDir
  <2> QED BY <1>1, <2>1, ClaimOK DEF Absent
<1>2. CASE ~ Creates(o)
  <2>1. Absent(o) = Refused(o, "absent") BY <1>2 DEF Absent
  <2> QED BY <2>1, RefusedOK DEF InDir, OK
<1> QED BY <1>1, <1>2

\* The call is about to join the list of handles.
LEMMA JoinOK ==
  ASSUME NEW o, InDir(o), Fn(o) # "mkdir", NEW sl \in Int, NEW e,
         e = [cluster |-> e.cluster, size |-> e.size, isdir |-> e.isdir],
         e.cluster \in Clusters \cup {0}, e.isdir \in BOOLEAN
  PROVE  OK([o EXCEPT !.pc = "join", !.slot = sl, !.ent = e], FALSE)
<1>1. PICK q : q = [o EXCEPT !.pc = "join", !.slot = sl, !.ent = e] OBVIOUS
<1>2. IsOp(o) /\ Looks(o) BY DEF InDir, Looks
<1>3. q = [call |-> o.call, phase |-> o.phase, pc |-> "join", dir |-> o.dir, slot |-> sl,
           ent |-> e, new |-> o.new, free |-> o.free, checked |-> o.checked,
           alias |-> o.alias, seen |-> o.seen, goal |-> o.goal]
  BY <1>1, <1>2 DEF IsOp
<1>4. IsOp(q) BY <1>2, <1>3 DEF IsOp
<1>5. Fn(q) = Fn(o) /\ Fn(o) \in Called BY <1>2, <1>3, CallsAssumption DEF Fn, Looks, Called
<1>6. AtPlace(q, FALSE) BY <1>2, <1>3, <1>5 DEF AtPlace, Looks, Seeking, Creating, Using, Called
<1>7. FnsAt(q) BY <1>2, <1>3, <1>5 DEF FnsAt, Looks, InDir, Creating
<1> QED BY <1>1, <1>4, <1>6, <1>7 DEF OK

LEMMA OKTypes ==
  ASSUME TInv, NEW t \in Tasks, NEW o, Go(t, o), OK(o, file[t] # NoFile),
         AreDirs(dirs'), UsedOK',
         file' = file, calls' = calls, NoFault \/ Fault
  PROVE  TInv'
BY GoTypes DEF OK

LEMMA IdleIsOK == \A b : OK(Idle, b)
BY IdleOK DEF OK

LEMMA FindTypes ==
  ASSUME TInv, NEW t \in Tasks, Find(t) PROVE TInv'
<1>1. /\ op[t].pc = "find" /\ dirs' = dirs /\ used' = used /\ file' = file /\ calls' = calls
      /\ AreDirs(dirs') /\ UsedOK'
  BY DEF UsedOK, Find, At, TInv
<1>2. TaskOK(op[t], file[t]) BY HasTask
<1>3. InDir(op[t]) /\ file[t] = NoFile
  <2>1. Looks(op[t]) /\ file[t] = NoFile BY <1>1, <1>2, SeekingLooks
  <2>2. FnsAt(op[t]) BY <1>2 DEF TaskOK
  <2> QED BY <1>1, <2>1, <2>2 DEF InDir, FnsAt
<1>4. PICK p : p = op[t] OBVIOUS
<1>5. PICK s : s = dirs[p.dir] OBVIOUS
<1>6. PICK n : n = Path(p).name OBVIOUS
<1>7. /\ p.dir \in Clusters \cup {Root} /\ SlotsOf(p.dir) \in Nat
      /\ DOMAIN s = 0 .. SlotsOf(p.dir) - 1 /\ \A i \in DOMAIN s : IsSlot(s[i])
  <2>1. p.dir \in Clusters \cup {Root} BY <1>3, <1>4 DEF InDir, Looks, IsOp
  <2> QED BY <1>5, <2>1, DirIs
<1>8. PICK o : o = [p EXCEPT !.seen = Knowledge(p.dir, n), !.free = FirstRun(s, 0, 2),
                             !.checked = Checked(p.dir, n)]
  OBVIOUS
<1>9. /\ o = [call |-> p.call, phase |-> p.phase, pc |-> p.pc, dir |-> p.dir, slot |-> p.slot,
              ent |-> p.ent, new |-> p.new, free |-> FirstRun(s, 0, 2), checked |-> Checked(p.dir, n),
              alias |-> p.alias, seen |-> Knowledge(p.dir, n), goal |-> p.goal]
      /\ IsOp(p)
  BY <1>3, <1>4, <1>8 DEF InDir, Looks, IsOp
<1>10. FirstRun(s, 0, 2) \in Nat BY <1>7, FirstRunIs
<1>11. InDir(o)
  <2>1. IsOp(o) BY <1>9, <1>10 DEF IsOp
  <2>2. /\ o.call = p.call /\ o.phase = p.phase /\ o.dir = p.dir /\ o.ent = p.ent
        /\ o.new = p.new /\ Fn(o) = Fn(p)
    BY <1>9 DEF Fn
  <2> QED BY <1>3, <1>4, <2>1, <2>2 DEF InDir, Looks
<1>12. ASSUME NEW k, NEW o2, o2 = [o EXCEPT !.free = 0, !.checked = k] PROVE InDir(o2)
  <2>1. IsOp(o) BY <1>11 DEF InDir, Looks
  <2>2. o2 = [call |-> o.call, phase |-> o.phase, pc |-> o.pc, dir |-> o.dir, slot |-> o.slot,
              ent |-> o.ent, new |-> o.new, free |-> 0, checked |-> k,
              alias |-> o.alias, seen |-> o.seen, goal |-> o.goal]
    BY <1>12, <2>1 DEF IsOp
  <2>3. IsOp(o2) BY <2>1, <2>2 DEF IsOp
  <2>4. /\ o2.call = o.call /\ o2.phase = o.phase /\ o2.dir = o.dir /\ o2.ent = o.ent
        /\ o2.new = o.new /\ Fn(o2) = Fn(o)
    BY <2>2 DEF Fn
  <2> QED BY <1>11, <2>3, <2>4 DEF InDir, Looks
<1>14. \/ \E i \in Hits(s, n) : Found(t, o, i, s)
       \/ Go(t, Absent(o)) /\ NoFault
       \/ Phantom(t, o, s)
       \/ Fault /\ Fn(o) # "mkdir" /\ Unsized(t, o, s)
       \/ \E k : Fault /\ Go(t, IF Fn(o) = "mkdir" THEN Idle
                                ELSE Absent([o EXCEPT !.free = 0, !.checked = k]))
  BY <1>4, <1>5, <1>6, <1>8 DEF Find
<1>15. ASSUME NEW i \in Hits(s, n), Found(t, o, i, s) PROVE TInv'
  <2>1. i \in DOMAIN s /\ s[i].kind = "entry" BY DEF Hits, Named, Entries
  <2>2. s[i].cluster \in Clusters \cup {0} /\ s[i].isdir \in BOOLEAN /\ i \in Int
    BY <1>7, <2>1, EntryIs
  <2>3. NoFault BY <1>15 DEF Found
  <2>4. CASE Fn(o) = "mkdir"
    <3>1. PICK q : q = IF s[i].cluster # 0 THEN Idle ELSE [o EXCEPT !.pc = "claim"] OBVIOUS
    <3>2. Go(t, q) BY <1>15, <2>4, <3>1 DEF Found
    <3>3. OK(q, FALSE) BY <1>11, <2>4, <3>1, ClaimOK, IdleIsOK
    <3> QED BY <1>1, <1>3, <2>3, <3>2, <3>3, OKTypes
  <2>5. CASE Fn(o) # "mkdir"
    <3>1. PICK e : e = [cluster |-> s[i].cluster, size |-> s[i].size, isdir |-> s[i].isdir]
      OBVIOUS
    <3>2. PICK q : q = IF s[i].isdir /\ "D" \notin Mode(o) THEN Refused(o, "isdir")
                       ELSE [o EXCEPT !.pc = "join", !.slot = i, !.ent = e]
      OBVIOUS
    <3>3. Go(t, q) BY <1>15, <2>5, <3>1, <3>2 DEF Found
    <3>4. /\ e.cluster = s[i].cluster /\ e.isdir = s[i].isdir
          /\ e = [cluster |-> e.cluster, size |-> e.size, isdir |-> e.isdir]
      BY <3>1
    <3>5. OK([o EXCEPT !.pc = "join", !.slot = i, !.ent = e], FALSE)
      BY <1>11, <2>2, <2>5, <3>4, JoinOK
    <3>6. OK(Refused(o, "isdir"), FALSE) BY <1>11, RefusedOK DEF InDir, OK
    <3>7. OK(q, FALSE) BY <3>2, <3>5, <3>6
    <3> QED BY <1>1, <1>3, <2>3, <3>3, <3>7, OKTypes
  <2> QED BY <2>4, <2>5
<1>16. CASE Go(t, Absent(o)) /\ NoFault
  <2>1. OK(Absent(o), FALSE) BY <1>11, AbsentOK
  <2> QED BY <1>1, <1>3, <1>16, <2>1, OKTypes
<1>19. ASSUME NEW l \in Int, NEW c \in Clusters \cup {0}, Fn(o) # "mkdir", NoFault \/ Fault,
              Go(t, [o EXCEPT !.pc = "join", !.slot = l, !.ent.cluster = c])
       PROVE  TInv'
  <2>1. PICK e : e = [o.ent EXCEPT !.cluster = c] OBVIOUS
  <2>2. IsOp(o) BY <1>11 DEF InDir, Looks
  <2>3. e = [cluster |-> c, size |-> o.ent.size, isdir |-> o.ent.isdir]
    BY <2>1, <2>2 DEF IsOp
  <2>4. /\ e = [cluster |-> e.cluster, size |-> e.size, isdir |-> e.isdir]
        /\ e.cluster \in Clusters \cup {0} /\ e.isdir \in BOOLEAN
    BY <2>2, <2>3 DEF IsOp
  <2>5. [o EXCEPT !.pc = "join", !.slot = l, !.ent.cluster = c]
          = [o EXCEPT !.pc = "join", !.slot = l, !.ent = e]
    BY <2>1, <2>2 DEF IsOp
  <2>6. Go(t, [o EXCEPT !.pc = "join", !.slot = l, !.ent = e]) BY <1>19, <2>5
  <2>7. OK([o EXCEPT !.pc = "join", !.slot = l, !.ent = e], FALSE)
    BY <1>11, <1>19, <2>4, JoinOK
  <2> QED BY <1>1, <1>3, <1>19, <2>6, <2>7, OKTypes
<1>20. ASSUME Fault, Fn(o) # "mkdir", Unsized(t, o, s) PROVE TInv'
  <2>1. PICK j \in DOMAIN s, c \in Clusters \cup {0} :
          \E i \in j .. Cardinality(DOMAIN s) - 1 :
            Go(t, [o EXCEPT !.pc = "join", !.slot = i, !.ent.cluster = c])
    BY <1>20 DEF Unsized
  <2>2. PICK i : i \in j .. Cardinality(DOMAIN s) - 1
                 /\ Go(t, [o EXCEPT !.pc = "join", !.slot = i, !.ent.cluster = c])
    BY <2>1
  <2>3. i \in Int BY <2>2
  <2> QED BY <1>19, <1>20, <2>2, <2>3
<1>17. CASE Phantom(t, o, s)
  <2>1. NoFault /\ Fn(o) # "mkdir" BY <1>17 DEF Phantom
  <2>2. CASE Go(t, Refused(o, "readonly"))
    <3>1. OK(Refused(o, "readonly"), FALSE) BY <1>11, RefusedOK DEF InDir, OK
    <3> QED BY <1>1, <1>3, <2>1, <2>2, <3>1, OKTypes
  <2>3. ASSUME NEW c \in Clusters \cup {0},
               Go(t, [o EXCEPT !.pc = "join", !.slot = EndFrom(s, 0) - 1, !.ent.cluster = c])
        PROVE  TInv'
    <3>1. EndFrom(s, 0) \in 0 .. SlotsOf(p.dir) BY <1>7, EndFromIs
    <3>2. PICK l : l = EndFrom(s, 0) - 1 OBVIOUS
    <3>3. l \in Int BY <1>7, <3>1, <3>2
    <3> QED BY <1>19, <2>1, <2>3, <3>2, <3>3
  <2> QED BY <1>17, <2>2, <2>3 DEF Phantom
<1>18. ASSUME NEW k, NEW o2, o2 = [o EXCEPT !.free = 0, !.checked = k], Fault,
              Go(t, IF Fn(o) = "mkdir" THEN Idle ELSE Absent(o2))
       PROVE  TInv'
  <2>1. InDir(o2) BY <1>12, <1>18
  <2>2. OK(Absent(o2), FALSE) BY <2>1, AbsentOK
  <2>3. PICK q : q = IF Fn(o) = "mkdir" THEN Idle ELSE Absent(o2) OBVIOUS
  <2>4. OK(q, FALSE) /\ Go(t, q) BY <1>18, <2>2, <2>3, IdleIsOK
  <2> QED BY <1>1, <1>3, <1>18, <2>4, OKTypes
<1> QED BY <1>14, <1>15, <1>16, <1>17, <1>18, <1>20

\* A call that is to make an entry.
Makes(o) ==
  /\ Looks(o) /\ o.dir # 0 /\ (Fn(o) = "mkdir" => o.dir = Root)
  /\ Fn(o) \in {"open", "mkdir"} \/ o.phase \in {"src", "srcdir"}

LEMMA MakesIs ==
  ASSUME NEW o, NEW f, TaskOK(o, f), o.pc \in {"claim"} \cup Creating
  PROVE  /\ Makes(o) /\ (f # NoFile <=> Fn(o) = "move") /\ IsOp(o)
         /\ o.dir \in Clusters \cup {Root}
<1>1. IsOp(o) /\ AtPlace(o, f # NoFile) /\ FnsAt(o) BY DEF TaskOK
<1>2. o.pc \in Seeking \cup Creating /\ o.pc # "idle" BY DEF Seeking, Creating
<1>3. Looks(o) BY <1>1, <1>2 DEF Looks, AtPlace, FnsAt
<1>4. o.dir # 0 /\ (Fn(o) = "mkdir" => o.dir = Root) BY <1>1, <1>2 DEF FnsAt
<1>5. Fn(o) \in {"open", "mkdir"} \/ o.phase \in {"src", "srcdir"} BY <1>1 DEF FnsAt
<1>6. f # NoFile <=> Fn(o) = "move"
  <2>1. CASE o.pc = "claim" BY <1>1, <2>1 DEF AtPlace, FnsAt, Seeking
  <2>2. CASE o.pc \in Creating BY <1>1, <2>2 DEF AtPlace
  <2> QED BY <2>1, <2>2
<1>7. o.dir \in Clusters \cup {Root} BY <1>1, <1>4 DEF IsOp
<1> QED BY <1>1, <1>3, <1>4, <1>5, <1>6, <1>7 DEF Makes

LEMMA MakeOK ==
  ASSUME NEW o, Makes(o), NEW p \in Creating, NEW sl \in Int, NEW c \in Clusters \cup {0}, NEW a, NEW s,
         Fn(o) = "move" => c = 0, p = "extend" => o.dir # Root,
         NEW q, q = [o EXCEPT !.pc = p, !.slot = sl, !.new = c, !.alias = a, !.seen = s]
  PROVE  OK(q, Fn(o) = "move")
<1>1. IsOp(o) /\ Looks(o) BY DEF Makes, Looks
<1>2. q = [call |-> o.call, phase |-> o.phase, pc |-> p, dir |-> o.dir, slot |-> sl,
           ent |-> o.ent, new |-> c, free |-> o.free, checked |-> o.checked,
           alias |-> a, seen |-> s, goal |-> o.goal]
  BY <1>1 DEF IsOp
<1>3. IsOp(q) BY <1>1, <1>2 DEF IsOp
<1>4. /\ Fn(q) = Fn(o) /\ Fn(o) \in Called /\ (Fn(o) \in {"open", "mkdir"} \/ Fn(o) = "move")
  BY <1>1, <1>2, CallsAssumption DEF Fn, Looks, Called, Makes
<1>5. AtPlace(q, Fn(o) = "move")
  <2>1. p \notin Seeking \cup Using /\ p # "idle" BY DEF Creating, Seeking, Using
  <2>2. q.pc = p /\ q.call = o.call /\ q.phase = o.phase BY <1>2
  <2>3. Fn(o) # "none" BY <1>4 DEF Called
  <2> QED BY <1>1, <1>4, <2>1, <2>2, <2>3 DEF AtPlace, Looks
<1>6. FnsAt(q)
  <2>1. p \in {"plan", "extend", "unmade", "lfn", "entry"} BY DEF Creating
  <2>2. /\ q.pc = p /\ q.call = o.call /\ q.phase = o.phase /\ q.dir = o.dir /\ q.ent = o.ent
        /\ q.new = c
    BY <1>2
  <2> QED BY <1>1, <1>4, <2>1, <2>2 DEF FnsAt, Makes, Looks, Creating
<1> QED BY <1>3, <1>5, <1>6 DEF OK

LEMMA NotCreatedOK ==
  ASSUME NEW o, Makes(o) PROVE OK(NotCreated(o), Fn(o) = "move")
<1>1. IsOp(o) /\ Looks(o) BY DEF Makes, Looks
<1>2. PICK p : p = IF Fn(o) = "move" THEN "leave" ELSE "undo" OBVIOUS
<1>3. PICK q : q = [o EXCEPT !.pc = p] OBVIOUS
<1>4. /\ q.pc = p /\ q.call = o.call /\ q.phase = o.phase /\ q.dir = o.dir
      /\ q.ent = o.ent /\ q.new = o.new /\ IsOp(q) /\ Fn(q) = Fn(o)
  BY <1>1, <1>3, PcIs
<1>5. Fn(o) \in Called /\ (Fn(o) \in {"open", "mkdir"} \/ Fn(o) = "move")
  BY <1>1, CallsAssumption DEF Fn, Looks, Called, Makes
<1>6. AtPlace(q, Fn(o) = "move")
  BY <1>1, <1>2, <1>4, <1>5 DEF AtPlace, Looks, Creating, Seeking, Using, Called
<1>7. FnsAt(q) BY <1>1, <1>2, <1>4, <1>5 DEF FnsAt, Makes, Looks, Creating
<1>8. NotCreated(o) = q BY <1>2, <1>3 DEF NotCreated
<1> QED BY <1>4, <1>6, <1>7, <1>8 DEF OK

LEMMA LeastFree ==
  ASSUME FreeClusters # {} PROVE Least(FreeClusters) \in FreeClusters /\ Least(FreeClusters) \in Clusters
<1>1. FreeClusters \subseteq Nat /\ FreeClusters \subseteq Clusters BY NamesAssumption DEF FreeClusters
<1> QED BY <1>1, LeastIs

LEMMA ReleaseTypes ==
  ASSUME UsedOK, NEW S, Release(S) PROVE UsedOK'
BY DEF UsedOK, Release

LEMMA AssignTypes ==
  ASSUME UsedOK, NEW c \in Clusters, NEW d \in Clusters \cup {0, Nobody}, Assign(c, d)
  PROVE  UsedOK'
<1>1. part' = [part EXCEPT ![c] = d] /\ used' = used \cup {c} BY DEF Assign
<1>2. part' \in [Clusters -> Clusters \cup {0, Nobody}] BY <1>1 DEF UsedOK
<1> QED BY <1>1, <1>2 DEF UsedOK

LEMMA LoseTypes ==
  ASSUME TInv, NEW t \in Tasks, Lose(t), dirs' = dirs, file' = file, calls' = calls
  PROVE  TInv'
<1>1. PICK c : c = Least(FreeClusters) OBVIOUS
<1>2. c \in Clusters /\ Assign(c, Nobody) /\ Go(t, Idle) /\ (NoFault \/ Fault)
  BY <1>1, LeastFree DEF Lose
<1>3. UsedOK' BY <1>2, AssignTypes DEF TInv
<1>4. AreDirs(dirs') BY DEF TInv
<1> QED BY <1>2, <1>3, <1>4, IdleIsOK, OKTypes

LEMMA BlankTypes ==
  ASSUME AreDirs(dirs), NEW c \in Clusters, dirs' = [dirs EXCEPT ![c] = Blank]
  PROVE  AreDirs(dirs')
<1>1. /\ dirs = [D \in Clusters \cup {Root} |-> [i \in 0 .. SlotsOf(D) - 1 |-> dirs[D][i]]]
      /\ DOMAIN dirs = Clusters \cup {Root}
      /\ \A D \in DOMAIN dirs : DOMAIN dirs[D] = 0 .. SlotsOf(D) - 1
      /\ \A D \in DOMAIN dirs : \A i \in DOMAIN dirs[D] : IsSlot(dirs[D][i])
  BY DEF AreDirs
<1>2. SlotsOf(c) = DirSlots BY NamesAssumption DEF SlotsOf
<1>3. dirs' = [D \in Clusters \cup {Root} |-> IF D = c THEN Blank ELSE dirs[D]] BY <1>1
<1>4. Blank = [i \in 0 .. DirSlots - 1 |-> Blank[i]] /\ \A i \in 0 .. DirSlots - 1 : Blank[i] = End
  BY DEF Blank
<1>5. ASSUME NEW D \in Clusters \cup {Root}
      PROVE  /\ dirs'[D] = [i \in 0 .. SlotsOf(D) - 1 |-> dirs'[D][i]]
             /\ \A i \in 0 .. SlotsOf(D) - 1 : IsSlot(dirs'[D][i])
  <2>1. CASE D = c
    <3>1. dirs'[D] = Blank BY <1>3, <2>1
    <3> QED BY <1>2, <1>4, <2>1, <3>1, SlotTypes
  <2>2. CASE D # c
    <3>1. dirs'[D] = dirs[D] BY <1>3, <2>2
    <3>2. dirs[D] = [i \in 0 .. SlotsOf(D) - 1 |-> dirs[D][i]] BY <1>1
    <3> QED BY <1>1, <3>1, <3>2
  <2> QED BY <2>1, <2>2
<1>6. dirs' = [D \in Clusters \cup {Root} |-> dirs'[D]] BY <1>3
<1>7. dirs' = [D \in Clusters \cup {Root} |-> [i \in 0 .. SlotsOf(D) - 1 |-> dirs'[D][i]]]
  BY <1>5, <1>6
<1>8. \A D \in DOMAIN dirs' : DOMAIN dirs'[D] = 0 .. SlotsOf(D) - 1 BY <1>5, <1>6
<1>9. ASSUME NEW D \in DOMAIN dirs', NEW i \in DOMAIN dirs'[D] PROVE IsSlot(dirs'[D][i])
  <2>1. D \in Clusters \cup {Root} BY <1>6
  <2>2. i \in 0 .. SlotsOf(D) - 1 BY <1>8
  <2> QED BY <1>5, <2>1, <2>2
<1> QED BY <1>7, <1>9 DEF AreDirs

LEMMA ClaimTypes ==
  ASSUME TInv, NEW t \in Tasks, Claim(t) PROVE TInv'
<1>1. /\ op[t].pc = "claim" /\ file' = file /\ calls' = calls
      /\ AreDirs(dirs) /\ UsedOK
  BY DEF UsedOK, Claim, At, TInv
<1>2. TaskOK(op[t], file[t]) BY HasTask
<1>3. PICK o : o = op[t] OBVIOUS
<1>4. /\ Makes(o) /\ (file[t] # NoFile <=> Fn(o) = "move") /\ IsOp(o)
      /\ Fn(o) \in {"open", "mkdir"} /\ Looks(o) /\ Fn(o) # "move"
  BY <1>1, <1>2, <1>3, MakesIs DEF TaskOK, FnsAt, Makes
<1>5. PICK c : c = Least(FreeClusters) OBVIOUS
<1>6. CASE FreeClusters # {} /\ used' = used \cup {c} /\ part' = part
           /\ dirs' = (IF Fn(o) = "mkdir" THEN [dirs EXCEPT ![c] = Blank] ELSE dirs)
           /\ Go(t, [o EXCEPT !.new = c, !.pc = "plan"]) /\ NoFault
  <2>1. c \in Clusters BY <1>5, <1>6, LeastFree
  <2>2. PICK q : q = [o EXCEPT !.new = c, !.pc = "plan"] OBVIOUS
  <2>3. q = [o EXCEPT !.pc = "plan", !.slot = o.slot, !.new = c, !.alias = o.alias, !.seen = o.seen]
    BY <1>4, <2>2 DEF IsOp
  <2>4. o.slot \in Int /\ "plan" \in Creating BY <1>4 DEF IsOp, Creating
  <2>5. OK(q, Fn(o) = "move") BY <1>4, <2>1, <2>3, <2>4, MakeOK
  <2>6. AreDirs(dirs') BY <1>1, <1>6, <2>1, BlankTypes
  <2>7. UsedOK' BY <1>1, <1>6, <2>1 DEF UsedOK
  <2>8. Go(t, q) BY <1>6, <2>2
  <2>9. OK(q, file[t] # NoFile) BY <1>4, <2>5
  <2> QED BY <1>1, <1>6, <2>6, <2>7, <2>8, <2>9, OKTypes
<1>7. CASE FreeClusters # {} /\ used' = used \cup {c} /\ part' = part /\ dirs' = dirs
           /\ Go(t, [o EXCEPT !.new = c, !.pc = "undo"]) /\ Fault
  <2>1. c \in Clusters BY <1>5, <1>7, LeastFree
  <2>2. PICK q : q = [o EXCEPT !.new = c, !.pc = "undo"] OBVIOUS
  <2>3. q = [call |-> o.call, phase |-> o.phase, pc |-> "undo", dir |-> o.dir, slot |-> o.slot,
             ent |-> o.ent, new |-> c, free |-> o.free, checked |-> o.checked,
             alias |-> o.alias, seen |-> o.seen, goal |-> o.goal]
    BY <1>4, <2>2 DEF IsOp
  <2>4. IsOp(q) /\ Fn(q) = Fn(o) BY <1>4, <2>1, <2>3 DEF IsOp, Fn
  <2>5. AtPlace(q, FALSE) BY <1>4, <2>3, <2>4 DEF AtPlace, Looks, Creating, Seeking, Using
  <2>6. FnsAt(q) BY <1>4, <2>3, <2>4 DEF FnsAt, Makes, Looks, Creating
  <2>7. OK(q, FALSE) /\ file[t] = NoFile BY <1>4, <2>4, <2>5, <2>6 DEF OK
  <2>8. AreDirs(dirs') /\ UsedOK' BY <1>1, <1>7, <2>1 DEF UsedOK
  <2>9. Go(t, q) BY <1>7, <2>2
  <2> QED BY <1>1, <1>7, <2>7, <2>8, <2>9, OKTypes
<1>8. CASE Go(t, Idle) /\ dirs' = dirs /\ used' = used /\ part' = part /\ (NoFault \/ Fault)
  <2>1. AreDirs(dirs') /\ UsedOK' BY <1>1, <1>8 DEF UsedOK
  <2> QED BY <1>1, <1>8, <2>1, IdleIsOK, OKTypes
<1>9. CASE Lose(t) /\ dirs' = dirs BY <1>1, <1>9, LoseTypes
<1> QED BY <1>3, <1>5, <1>6, <1>7, <1>8, <1>9 DEF Claim

\* What FF_CreateDirent goes on with when it has found a name and a place.
Chosen(o, last, a, se) ==
  [o EXCEPT !.pc = IF last > Room(o.dir) THEN "extend" ELSE Making(o),
            !.slot = last - 1, !.alias = a, !.seen = se]

LEMMA SettleIs ==
  ASSUME NEW t, NEW o, IsOp(o), NEW se, NEW p, p = [o EXCEPT !.seen = se], NEW a, Settle(t, p, a)
  PROVE  \E last : /\ last = FirstRun(dirs[o.dir], o.free, Needs(o)) + Needs(o)
                   /\ last <= SlotsOf(o.dir) /\ Go(t, Chosen(o, last, a, se))
<1>1. p = [call |-> o.call, phase |-> o.phase, pc |-> o.pc, dir |-> o.dir, slot |-> o.slot,
           ent |-> o.ent, new |-> o.new, free |-> o.free, checked |-> o.checked,
           alias |-> o.alias, seen |-> se, goal |-> o.goal]
  BY DEF IsOp
<1>2. p.dir = o.dir /\ p.free = o.free /\ p.call = o.call BY <1>1
<1>3. Needs(p) = Needs(o) /\ Making(p) = Making(o) BY <1>2 DEF Needs, Making, NewPath, Fn
<1>4. PICK last : last = FirstRun(dirs[o.dir], o.free, Needs(o)) + Needs(o) OBVIOUS
<1>5. PICK pc : pc = IF last > Room(o.dir) THEN "extend" ELSE Making(o) OBVIOUS
<1>6. /\ last <= SlotsOf(o.dir)
      /\ Go(t, [p EXCEPT !.slot = last - 1, !.alias = a, !.pc = pc])
  BY <1>2, <1>3, <1>4, <1>5 DEF Settle
<1>7. [p EXCEPT !.slot = last - 1, !.alias = a, !.pc = pc]
        = [o EXCEPT !.pc = pc, !.slot = last - 1, !.alias = a, !.seen = se]
  BY <1>1 DEF IsOp
<1> QED BY <1>4, <1>5, <1>6, <1>7 DEF Chosen

\* The names it may choose.
Choice(o, s, n, a, se) ==
  /\ ~ Unfinished(o.dir)
  /\ n \in Long => /\ se = o.seen /\ ~ Taken(s, a)
                   /\ \E k \in DOMAIN Aliases : a = Aliases[k]
  /\ n \notin Long => a = n /\ (o.checked = "no" => ~ Taken(s, n))

LEMMA PlanShape ==
  ASSUME NEW t, Plan(t), NEW o, o = op[t], IsOp(o), NEW s, s = dirs[o.dir],
         NEW n, n = NewPath(o).name
  PROVE  /\ NoFault \/ Fault
         /\ \/ Go(t, NotCreated(o))
            \/ \E last, a, se :
                 /\ last = FirstRun(s, o.free, Needs(o)) + Needs(o) /\ last <= SlotsOf(o.dir)
                 /\ last > Room(o.dir) => o.dir # Root
                 /\ Go(t, Chosen(o, last, a, se))
                 /\ strays' = {} => Choice(o, s, n, a, se)
<1>1. PICK long \in BOOLEAN : long <=> n \in Long OBVIOUS
<1>2. PICK again \in BOOLEAN : again <=> ~ long /\ o.checked = "no" OBVIOUS
<1>3. PICK p : p = IF again THEN [o EXCEPT !.seen = Knowledge(o.dir, n)] ELSE o OBVIOUS
<1>4. PICK se : se = IF again THEN Knowledge(o.dir, n) ELSE o.seen OBVIOUS
<1>5. p = [o EXCEPT !.seen = se] BY <1>3, <1>4 DEF IsOp
<1>6. p.dir = o.dir /\ p.free = o.free /\ Needs(p) = Needs(o) /\ p.checked = o.checked
  <2>1. p = [call |-> o.call, phase |-> o.phase, pc |-> o.pc, dir |-> o.dir, slot |-> o.slot,
             ent |-> o.ent, new |-> o.new, free |-> o.free, checked |-> o.checked,
             alias |-> o.alias, seen |-> se, goal |-> o.goal]
    BY <1>5 DEF IsOp
  <2> QED BY <2>1 DEF Needs, NewPath, Fn
<1>7. PICK full \in BOOLEAN :
        full <=> (/\ FirstRun(s, o.free, Needs(o)) + Needs(o) > Room(o.dir)
                  /\ o.dir = Root \/ FreeClusters = {})
  OBVIOUS
<1>8. PICK al : al = IF long THEN FreshAlias(s) ELSE n OBVIOUS
<1>9. PICK hits : hits = Named(s, n) OBVIOUS
<1>10. \/ /\ ~ full /\ NoFault /\ Settle(t, p, al)
          /\ long => \E k \in DOMAIN Aliases : ~ Taken(s, Aliases[k])
          /\ Stray(When(again /\ (hits # {} \/ Taken(s, n)), "taken")
                   \cup When(Unfinished(o.dir), "undotted"))
       \/ /\ long /\ ~ full /\ Fault
          /\ \E a \in Unread(s) :
               /\ Settle(t, p, a)
               /\ Stray(When(Taken(s, a), "unread") \cup When(Unfinished(o.dir), "undotted"))
       \/ (NoFault \/ Fault) /\ Go(t, NotCreated(o))
  BY <1>1, <1>2, <1>3, <1>6, <1>7, <1>8, <1>9 DEF Plan
<1>11. ASSUME ~ full, NEW a, Settle(t, p, a), strays' = {} => Choice(o, s, n, a, se)
       PROVE  \E last, b, sn :
                 /\ last = FirstRun(s, o.free, Needs(o)) + Needs(o) /\ last <= SlotsOf(o.dir)
                 /\ last > Room(o.dir) => o.dir # Root
                 /\ Go(t, Chosen(o, last, b, sn))
                 /\ strays' = {} => Choice(o, s, n, b, sn)
  <2>1. PICK last : /\ last = FirstRun(dirs[o.dir], o.free, Needs(o)) + Needs(o)
                    /\ last <= SlotsOf(o.dir) /\ Go(t, Chosen(o, last, a, se))
    BY <1>5, <1>11, SettleIs
  <2> QED BY <1>7, <1>11, <2>1
<1>12. \A S, b, r : Stray(S \cup When(b, r)) /\ strays' = {} => ~ b /\ S = {}
  BY DEF Stray, When
<1>13. \A b, r : When(b, r) = {} => ~ b BY DEF When
<1>14. CASE /\ ~ full /\ NoFault /\ Settle(t, p, al)
            /\ long => \E k \in DOMAIN Aliases : ~ Taken(s, Aliases[k])
            /\ Stray(When(again /\ (hits # {} \/ Taken(s, n)), "taken")
                     \cup When(Unfinished(o.dir), "undotted"))
  <2>1. ASSUME long PROVE ~ Taken(s, al) /\ \E k \in DOMAIN Aliases : al = Aliases[k]
    <3>1. PICK S : S = {k \in DOMAIN Aliases : ~ Taken(s, Aliases[k])} OBVIOUS
    <3>2. S # {} /\ S \subseteq Nat BY <1>14, <2>1, <3>1, NamesAssumption
    <3>3. PICK k : k = Least(S) OBVIOUS
    <3>4. k \in S BY <3>2, <3>3, LeastIs
    <3>5. al = Aliases[k] BY <1>8, <2>1, <3>1, <3>3 DEF FreshAlias
    <3> QED BY <3>1, <3>4, <3>5
  <2>2. strays' = {} => ~ Unfinished(o.dir) /\ (again => ~ Taken(s, n)) BY <1>12, <1>13, <1>14
  <2>3. strays' = {} => Choice(o, s, n, al, se)
    BY <1>1, <1>2, <1>4, <1>8, <2>1, <2>2 DEF Choice
  <2> QED BY <1>11, <1>14, <2>3
<1>15. ASSUME long, ~ full, Fault, NEW a \in Unread(s), Settle(t, p, a),
              Stray(When(Taken(s, a), "unread") \cup When(Unfinished(o.dir), "undotted"))
       PROVE  \E last, b, sn :
                 /\ last = FirstRun(s, o.free, Needs(o)) + Needs(o) /\ last <= SlotsOf(o.dir)
                 /\ last > Room(o.dir) => o.dir # Root
                 /\ Go(t, Chosen(o, last, b, sn))
                 /\ strays' = {} => Choice(o, s, n, b, sn)
  <2>1. strays' = {} => ~ Unfinished(o.dir) /\ ~ Taken(s, a) BY <1>12, <1>13, <1>15
  <2>2. \E k \in DOMAIN Aliases : a = Aliases[k] BY <1>15 DEF Unread
  <2>3. strays' = {} => Choice(o, s, n, a, se)
    BY <1>1, <1>2, <1>4, <1>15, <2>1, <2>2 DEF Choice
  <2> QED BY <1>11, <1>15, <2>3
<1> QED BY <1>10, <1>14, <1>15

LEMMA MakingIs == ASSUME NEW o PROVE Making(o) = (IF NewPath(o).name \in Long THEN "lfn" ELSE "entry")
BY DEF Making

LEMMA PlanTypes ==
  ASSUME TInv, NEW t \in Tasks, Plan(t) PROVE TInv'
<1>1. /\ op[t].pc = "plan" /\ file' = file /\ calls' = calls /\ dirs' = dirs /\ used' = used
      /\ AreDirs(dirs') /\ UsedOK'
  BY DEF UsedOK, Plan, At, TInv
<1>2. TaskOK(op[t], file[t]) BY HasTask
<1>3. PICK o : o = op[t] OBVIOUS
<1>4. /\ Makes(o) /\ (file[t] # NoFile <=> Fn(o) = "move") /\ IsOp(o)
      /\ o.dir \in Clusters \cup {Root}
  BY <1>1, <1>2, <1>3, MakesIs DEF Creating
<1>5. CASE Go(t, NotCreated(o)) /\ (NoFault \/ Fault)
  <2>1. OK(NotCreated(o), file[t] # NoFile) BY <1>4, NotCreatedOK
  <2> QED BY <1>1, <1>5, <2>1, OKTypes
<1>6. ASSUME NEW last, NEW a, NEW se, NoFault \/ Fault,
             last = FirstRun(dirs[o.dir], o.free, Needs(o)) + Needs(o),
             last > Room(o.dir) => o.dir # Root, Go(t, Chosen(o, last, a, se))
      PROVE  TInv'
  <2>1. last - 1 \in Int
    <3>1. /\ SlotsOf(o.dir) \in Nat /\ DOMAIN dirs[o.dir] = 0 .. SlotsOf(o.dir) - 1 BY <1>4, DirIs
    <3>2. Needs(o) \in Nat \ {0} /\ o.free \in Nat BY <1>4 DEF IsOp, Needs
    <3>3. FirstRun(dirs[o.dir], o.free, Needs(o)) \in 0 .. SlotsOf(o.dir) BY <3>1, <3>2, FirstRunIs
    <3> QED BY <1>6, <3>1, <3>2, <3>3
  <2>2. PICK p : p = IF last > Room(o.dir) THEN "extend" ELSE Making(o) OBVIOUS
  <2>3. p \in {"lfn", "entry", "extend"} /\ (p = "extend" => o.dir # Root)
    BY <1>6, <2>2 DEF Making
  <2>4. PICK q : q = Chosen(o, last, a, se) OBVIOUS
  <2>5. q = [o EXCEPT !.pc = p, !.slot = last - 1, !.new = o.new, !.alias = a, !.seen = se]
    BY <1>4, <2>2, <2>4 DEF IsOp, Chosen
  <2>6. p \in Creating /\ o.new \in Clusters \cup {0} /\ (Fn(o) = "move" => o.new = 0)
    BY <1>4, <2>3 DEF Creating, IsOp, Makes, Looks
  <2>7. OK(q, Fn(o) = "move") BY <1>4, <2>1, <2>3, <2>5, <2>6, MakeOK
  <2>8. Go(t, q) BY <1>6, <2>4
  <2>9. OK(q, file[t] # NoFile) BY <1>4, <2>7
  <2> QED BY <1>1, <1>6, <2>8, <2>9, OKTypes
<1>7. /\ NoFault \/ Fault
      /\ \/ Go(t, NotCreated(o))
         \/ \E last, a, se :
              /\ last = FirstRun(dirs[o.dir], o.free, Needs(o)) + Needs(o)
              /\ last > Room(o.dir) => o.dir # Root
              /\ Go(t, Chosen(o, last, a, se))
  BY <1>3, <1>4, PlanShape
<1>8. CASE ~ Go(t, NotCreated(o))
  <2>1. PICK last, a, se :
          /\ last = FirstRun(dirs[o.dir], o.free, Needs(o)) + Needs(o)
          /\ last > Room(o.dir) => o.dir # Root
          /\ Go(t, Chosen(o, last, a, se))
    BY <1>7, <1>8
  <2> QED BY <1>6, <1>7, <2>1
<1> QED BY <1>5, <1>7, <1>8

LEMMA ExtendTypes ==
  ASSUME TInv, NEW t \in Tasks, Extend(t) PROVE TInv'
<1>1. /\ op[t].pc = "extend" /\ file' = file /\ calls' = calls /\ dirs' = dirs
      /\ AreDirs(dirs') /\ UsedOK
  BY DEF Extend, At, TInv
<1>2. TaskOK(op[t], file[t]) BY HasTask
<1>3. PICK o : o = op[t] OBVIOUS
<1>4. /\ Makes(o) /\ (file[t] # NoFile <=> Fn(o) = "move") /\ IsOp(o)
      /\ o.dir \in Clusters
  BY <1>1, <1>2, <1>3, MakesIs DEF Creating, TaskOK, FnsAt
<1>5. PICK c : c = Least(FreeClusters) OBVIOUS
<1>6. /\ NoFault \/ Fault
      /\ \/ Assign(c, o.dir) /\ FreeClusters # {}
         \/ Assign(c, Nobody) /\ FreeClusters # {}
         \/ used' = used /\ part' = part
      /\ \E p \in {"lfn", "entry", "unmade"} : To(t, p)
  BY <1>3, <1>5 DEF Extend, Making
<1>7. FreeClusters # {} => c \in Clusters BY <1>5, LeastFree
<1>8. UsedOK' BY <1>1, <1>4, <1>6, <1>7, AssignTypes DEF UsedOK
<1>9. PICK p \in {"lfn", "entry", "unmade"} : To(t, p) BY <1>6
<1>10. PICK q : q = [o EXCEPT !.pc = p] OBVIOUS
<1>11. q = [o EXCEPT !.pc = p, !.slot = o.slot, !.new = o.new, !.alias = o.alias, !.seen = o.seen]
  BY <1>4, <1>10 DEF IsOp
<1>12. p \in Creating /\ o.new \in Clusters \cup {0} /\ (Fn(o) = "move" => o.new = 0)
       /\ o.slot \in Int
  BY <1>4, <1>9 DEF Creating, IsOp, Makes, Looks
<1>13. OK(q, Fn(o) = "move") BY <1>4, <1>9, <1>11, <1>12, MakeOK
<1>14. Go(t, q) BY <1>3, <1>9, <1>10 DEF To
<1>15. OK(q, file[t] # NoFile) BY <1>4, <1>13
<1> QED BY <1>1, <1>6, <1>8, <1>14, <1>15, OKTypes

LEMMA UnmadeTypes ==
  ASSUME TInv, NEW t \in Tasks, Unmade(t) PROVE TInv'
<1>1. /\ op[t].pc = "unmade" /\ file' = file /\ calls' = calls /\ Go(t, NotCreated(op[t]))
      /\ AreDirs(dirs') /\ UsedOK' /\ NoFault
  BY DEF Unmade, At, TInv, UsedOK, NoFault
<1>2. /\ Makes(op[t]) /\ (file[t] # NoFile <=> Fn(op[t]) = "move")
  BY <1>1, HasTask, MakesIs DEF Creating
<1>3. OK(NotCreated(op[t]), file[t] # NoFile) BY <1>2, NotCreatedOK
<1> QED BY <1>1, <1>3, OKTypes

LEMMA PutLfnTypes ==
  ASSUME TInv, NEW t \in Tasks, PutLfn(t) PROVE TInv'
<1>1. /\ op[t].pc = "lfn" /\ file' = file /\ calls' = calls /\ used' = used
      /\ AreDirs(dirs) /\ UsedOK'
  BY DEF UsedOK, PutLfn, At, TInv
<1>2. TaskOK(op[t], file[t]) BY HasTask
<1>3. PICK o : o = op[t] OBVIOUS
<1>4. Makes(o) /\ (file[t] # NoFile <=> Fn(o) = "move") /\ IsOp(o)
  BY <1>1, <1>2, <1>3, MakesIs DEF Creating
<1>5. CASE Go(t, NotCreated(o)) /\ Fault /\ dirs' = dirs
  <2>1. OK(NotCreated(o), file[t] # NoFile) /\ AreDirs(dirs') BY <1>1, <1>4, <1>5, NotCreatedOK
  <2> QED BY <1>1, <1>5, <2>1, OKTypes
<1>6. CASE To(t, "entry") /\ (NoFault \/ Fault) /\ AreDirs(dirs')
  <2>1. PICK q : q = [o EXCEPT !.pc = "entry"] OBVIOUS
  <2>2. q = [o EXCEPT !.pc = "entry", !.slot = o.slot, !.new = o.new, !.alias = o.alias, !.seen = o.seen]
    BY <1>4, <2>1 DEF IsOp
  <2>3. /\ "entry" \in Creating /\ o.new \in Clusters \cup {0} /\ (Fn(o) = "move" => o.new = 0)
        /\ o.slot \in Int
    BY <1>4 DEF Creating, IsOp, Makes, Looks
  <2>4. OK(q, Fn(o) = "move") BY <1>4, <2>2, <2>3, MakeOK
  <2>5. Go(t, q) BY <1>3, <1>6, <2>1 DEF To
  <2>6. OK(q, file[t] # NoFile) BY <1>4, <2>4
  <2> QED BY <1>1, <1>6, <2>5, <2>6, OKTypes
<1>7. PICK e : e = Lfn(NewPath(o).name, o.alias) OBVIOUS
<1>8. Put(o.dir, o.slot - 1, e) => AreDirs(dirs') BY <1>1, <1>7, PutTypes, SlotTypes
<1>9. AreDirs(dirs) /\ dirs' = dirs => AreDirs(dirs') OBVIOUS
<1>10. \/ Put(o.dir, o.slot - 1, e) /\ To(t, "entry") /\ NoFault
       \/ Fault /\ To(t, "entry") /\ dirs' = dirs
       \/ Fault /\ Go(t, NotCreated(o)) /\ dirs' = dirs
  BY <1>3, <1>7 DEF PutLfn
<1> QED BY <1>1, <1>5, <1>6, <1>8, <1>9, <1>10

LEMMA NewEntryTypes ==
  ASSUME NEW t \in Tasks, TaskOK(op[t], file[t]), op[t].pc = "entry"
  PROVE  IsSlot(NewEntry(t))
<1>1. PICK o : o = op[t] OBVIOUS
<1>2. Makes(o) /\ IsOp(o) BY <1>1, MakesIs DEF Creating
<1>3. /\ Fn(o) = "open" \/ Fn(o) = "mkdir" \/ Fn(o) = "move"
      /\ o.new \in Clusters \cup {0}
  BY <1>2 DEF Makes, IsOp, Looks
<1>4. file[t].object \in Clusters \cup {0} /\ file[t].isdir \in BOOLEAN BY DEF TaskOK, IsFile
<1>5. CASE Fn(o) = "open"
  <2>1. NewEntry(t) = Entry(o.alias, o.new, 0, FALSE) BY <1>1, <1>5 DEF NewEntry
  <2> QED BY <1>3, <2>1, SlotTypes
<1>6. CASE Fn(o) = "mkdir"
  <2>1. NewEntry(t) = Entry(o.alias, o.new, 0, TRUE) BY <1>1, <1>6 DEF NewEntry
  <2> QED BY <1>3, <2>1, SlotTypes
<1>7. CASE Fn(o) = "move"
  <2>1. NewEntry(t) = Entry(o.alias, file[t].object, file[t].size, file[t].isdir)
    BY <1>1, <1>7 DEF NewEntry
  <2> QED BY <1>4, <2>1, SlotTypes
<1> QED BY <1>3, <1>5, <1>6, <1>7

\* What PutNew goes on to.
AfterNew(o, e) ==
  CASE Fn(o) = "open" ->
         [o EXCEPT !.pc = "join", !.ent.cluster = o.new, !.new = 0,
                   !.seen = [alive |-> @.alive, at |-> {<<o.slot, e>>}]]
    [] Fn(o) = "mkdir" -> [o EXCEPT !.pc = "dot"]
    [] Fn(o) = "move" -> [o EXCEPT !.pc = "made"]

LEMMA AfterNewOpen ==
  ASSUME NEW o, IsOp(o), Fn(o) = "open", NEW e
  PROVE  AfterNew(o, e) =
           [call |-> o.call, phase |-> o.phase, pc |-> "join", dir |-> o.dir, slot |-> o.slot,
            ent |-> [cluster |-> o.new, size |-> o.ent.size, isdir |-> o.ent.isdir],
            new |-> 0, free |-> o.free, checked |-> o.checked, alias |-> o.alias,
            seen |-> [alive |-> o.seen.alive, at |-> {<<o.slot, e>>}], goal |-> o.goal]
<1>1. PICK s : s = [alive |-> o.seen.alive, at |-> {<<o.slot, e>>}] OBVIOUS
<1>2. PICK n : n = [o.ent EXCEPT !.cluster = o.new] OBVIOUS
<1>3. n = [cluster |-> o.new, size |-> o.ent.size, isdir |-> o.ent.isdir] BY <1>2 DEF IsOp
<1>4. AfterNew(o, e) = [o EXCEPT !.pc = "join", !.ent.cluster = o.new, !.new = 0,
                   !.seen = [alive |-> @.alive, at |-> {<<o.slot, e>>}]]
  BY DEF AfterNew
<1>5. AfterNew(o, e) = [o EXCEPT !.pc = "join", !.ent = n, !.new = 0, !.seen = s]
  BY <1>1, <1>2, <1>4 DEF IsOp
<1>6. PICK q : q = [o EXCEPT !.pc = "join", !.ent = n, !.new = 0, !.seen = s] OBVIOUS
<1>7. q = [call |-> o.call, phase |-> o.phase, pc |-> "join", dir |-> o.dir, slot |-> o.slot,
           ent |-> n, new |-> 0, free |-> o.free, checked |-> o.checked, alias |-> o.alias,
           seen |-> s, goal |-> o.goal]
  BY <1>6 DEF IsOp
<1> QED BY <1>1, <1>3, <1>5, <1>6, <1>7

LEMMA AfterNewOK ==
  ASSUME NEW o, Makes(o), o.dir \in Clusters \cup {Root}, o.pc = "entry", NEW e
  PROVE  OK(AfterNew(o, e), Fn(o) = "move")
<1>1. IsOp(o) /\ Looks(o) BY DEF Makes, Looks
<1>2. Fn(o) = "open" \/ Fn(o) = "mkdir" \/ Fn(o) = "move" BY DEF Makes, Looks
<1>3. PICK q : q = AfterNew(o, e) OBVIOUS
<1>4. CASE Fn(o) = "open"
  <2>1. q = [call |-> o.call, phase |-> o.phase, pc |-> "join", dir |-> o.dir, slot |-> o.slot,
             ent |-> [cluster |-> o.new, size |-> o.ent.size, isdir |-> o.ent.isdir],
             new |-> 0, free |-> o.free, checked |-> o.checked, alias |-> o.alias,
             seen |-> [alive |-> o.seen.alive, at |-> {<<o.slot, e>>}], goal |-> o.goal]
    BY <1>1, <1>3, <1>4, AfterNewOpen
  <2>2. PICK n : n = [cluster |-> o.new, size |-> o.ent.size, isdir |-> o.ent.isdir] OBVIOUS
  <2>3. /\ n = [cluster |-> n.cluster, size |-> n.size, isdir |-> n.isdir]
        /\ n.cluster \in Clusters \cup {0} /\ n.isdir \in BOOLEAN
    BY <1>1, <2>2 DEF IsOp
  <2>4. /\ q.ent = n /\ q.pc = "join" /\ q.call = o.call /\ q.phase = o.phase /\ q.dir = o.dir
        /\ q.slot = o.slot /\ q.new = 0 /\ q.free = o.free /\ Fn(q) = Fn(o)
    BY <2>1, <2>2 DEF Fn
  <2>5. IsOp(q) BY <1>1, <2>1, <2>3, <2>4 DEF IsOp
  <2>6. AtPlace(q, FALSE) BY <1>1, <1>4, <2>4 DEF AtPlace, Looks, Creating, Seeking, Using
  <2>7. FnsAt(q) BY <1>1, <1>4, <2>4 DEF FnsAt, Makes, Looks, Creating
  <2> QED BY <1>3, <1>4, <2>5, <2>6, <2>7 DEF OK
<1>5. CASE Fn(o) = "mkdir"
  <2>1. q = [o EXCEPT !.pc = "dot"] BY <1>3, <1>5 DEF AfterNew
  <2>2. /\ q.pc = "dot" /\ q.call = o.call /\ q.phase = o.phase /\ q.dir = o.dir
        /\ q.ent = o.ent /\ q.new = o.new /\ IsOp(q) /\ Fn(q) = Fn(o)
    BY <1>1, <2>1, PcIs
  <2>3. AtPlace(q, FALSE) BY <1>1, <1>5, <2>2 DEF AtPlace, Looks, Creating, Seeking, Using
  <2>4. FnsAt(q) BY <1>1, <1>5, <2>2 DEF FnsAt, Makes, Looks, Creating
  <2> QED BY <1>3, <1>5, <2>2, <2>3, <2>4 DEF OK
<1>6. CASE Fn(o) = "move"
  <2>1. q = [o EXCEPT !.pc = "made"] BY <1>3, <1>6 DEF AfterNew
  <2>2. /\ q.pc = "made" /\ q.call = o.call /\ q.phase = o.phase /\ q.dir = o.dir
        /\ q.ent = o.ent /\ q.new = o.new /\ IsOp(q) /\ Fn(q) = Fn(o)
    BY <1>1, <2>1, PcIs
  <2>3. AtPlace(q, TRUE) BY <1>1, <1>6, <2>2 DEF AtPlace, Looks, Creating, Seeking, Using
  <2>4. FnsAt(q) BY <1>1, <1>6, <2>2 DEF FnsAt, Makes, Looks, Creating
  <2> QED BY <1>3, <1>6, <2>2, <2>3, <2>4 DEF OK
<1> QED BY <1>2, <1>4, <1>5, <1>6

LEMMA PutNewTypes ==
  ASSUME TInv, NEW t \in Tasks, PutNew(t) PROVE TInv'
<1>1. /\ op[t].pc = "entry" /\ file' = file /\ calls' = calls /\ used' = used
      /\ AreDirs(dirs) /\ UsedOK'
  BY DEF UsedOK, PutNew, At, TInv
<1>2. TaskOK(op[t], file[t]) BY HasTask
<1>3. PICK o : o = op[t] OBVIOUS
<1>4. /\ Makes(o) /\ (file[t] # NoFile <=> Fn(o) = "move") /\ IsOp(o)
      /\ o.dir \in Clusters \cup {Root}
  BY <1>1, <1>2, <1>3, MakesIs DEF Creating
<1>5. PICK e : e = NewEntry(t) OBVIOUS
<1>6. IsSlot(e) BY <1>1, <1>2, <1>5, NewEntryTypes
<1>7. Put(o.dir, o.slot, e) => AreDirs(dirs') BY <1>1, <1>6, PutTypes
<1>8. dirs' = dirs => AreDirs(dirs') BY <1>1
<1>9. \/ Put(o.dir, o.slot, e) /\ Go(t, AfterNew(o, e)) /\ NoFault
      \/ Fault /\ Put(o.dir, o.slot, e) /\ Go(t, Idle)
      \/ Fault /\ Go(t, NotCreated(o)) /\ dirs' = dirs
      \/ Fault /\ Put(o.dir, o.slot, e) /\ Go(t, NotCreated(o))
  BY <1>3, <1>5 DEF PutNew, AfterNew
<1>10. /\ OK(AfterNew(o, e), file[t] # NoFile) /\ OK(Idle, file[t] # NoFile)
       /\ OK(NotCreated(o), file[t] # NoFile)
  BY <1>1, <1>3, <1>4, AfterNewOK, IdleIsOK, NotCreatedOK
<1> QED BY <1>1, <1>7, <1>8, <1>9, <1>10, OKTypes

LEMMA UndoTypes ==
  ASSUME TInv, NEW t \in Tasks, Undo(t) PROVE TInv'
<1>1. /\ file' = file /\ calls' = calls /\ dirs' = dirs /\ AreDirs(dirs') /\ UsedOK'
      /\ (NoFault \/ Fault) /\ Go(t, Idle)
  BY ReleaseTypes DEF Undo, TInv
<1> QED BY <1>1, IdleIsOK, OKTypes

LEMMA MakeDotsTypes ==
  ASSUME TInv, NEW t \in Tasks, MakeDots(t) PROVE TInv'
<1>1. /\ op[t].pc \in {"dot", "dotdot"} /\ file' = file /\ calls' = calls /\ used' = used
      /\ AreDirs(dirs) /\ UsedOK'
  BY DEF UsedOK, MakeDots, TInv
<1>2. PICK o : o = op[t] OBVIOUS
<1>3. IsOp(o) /\ AtPlace(o, file[t] # NoFile) /\ FnsAt(o) BY <1>2, HasTask DEF TaskOK
<1>4. /\ file[t] = NoFile /\ Fn(o) = "mkdir" /\ o.call \in Calls /\ o.dir = Root
      /\ o.phase = "only"
  BY <1>1, <1>2, <1>3 DEF AtPlace, FnsAt, Seeking
<1>5. ASSUME NEW p \in {"dotdot", "undo"}, To(t, p) PROVE \E q : OK(q, file[t] # NoFile) /\ Go(t, q)
  <2>1. PICK q : q = [o EXCEPT !.pc = p] OBVIOUS
  <2>2. /\ q.pc = p /\ q.call = o.call /\ q.phase = o.phase /\ q.dir = o.dir
        /\ q.ent = o.ent /\ q.new = o.new /\ IsOp(q) /\ Fn(q) = Fn(o)
    BY <1>3, <2>1, PcIs
  <2>3. AtPlace(q, FALSE) BY <1>3, <1>4, <2>2 DEF AtPlace, Creating, Seeking, Using
  <2>4. FnsAt(q) BY <1>3, <1>4, <2>2 DEF FnsAt, Creating
  <2>5. Go(t, q) BY <1>2, <1>5, <2>1 DEF To
  <2> QED BY <1>4, <2>2, <2>3, <2>4, <2>5 DEF OK
<1>6. /\ \E q : OK(q, file[t] # NoFile) /\ Go(t, q)
      /\ NoFault \/ Fault
      /\ dirs' = dirs \/ Put(o.new, IF o.pc = "dot" THEN 0 ELSE 1, Dots)
  BY <1>2, <1>5, IdleIsOK DEF MakeDots
<1>7. AreDirs(dirs')
  <2>1. CASE dirs' = dirs BY <1>1, <2>1
  <2>2. CASE Put(o.new, IF o.pc = "dot" THEN 0 ELSE 1, Dots) BY <1>1, <2>2, PutTypes, SlotTypes
  <2> QED BY <1>6, <2>1, <2>2
<1> QED BY <1>1, <1>6, <1>7, OKTypes

LEMMA NewHandleIs ==
  ASSUME NEW o, IsOp(o), o.dir # 0, NEW h, h = NewHandle(o)
  PROVE  /\ IsFile(h) /\ h.dir = o.dir /\ h.slot = o.slot /\ h.object = o.ent.cluster
         /\ h.mode = Mode(o) /\ h.isdir = o.ent.isdir /\ h.seen = o.seen
<1>1. PICK z : z = IF "T" \in Mode(o) THEN 0 ELSE o.ent.size OBVIOUS
<1>2. h = [dir |-> o.dir, slot |-> o.slot, object |-> o.ent.cluster, mode |-> Mode(o),
           size |-> z, isdir |-> o.ent.isdir, seen |-> o.seen]
  BY <1>1 DEF NewHandle
<1> QED BY <1>2 DEF IsFile, IsOp

\* What follows when the handle is in the list.
AfterJoin(o, h) ==
  IF Fn(o) = "open" THEN Idle
  ELSE IF Fn(o) = "rmdir" THEN [o EXCEPT !.pc = "empty"]
  ELSE IF Removes(o)
  THEN [o EXCEPT !.pc = IF h.object # 0 THEN "unlink" ELSE "rmlfn"]
  ELSE [o EXCEPT !.pc = IF o.phase = "dst" THEN "leave" ELSE "target"]

LEMMA AfterJoinOK ==
  ASSUME NEW o, InDir(o), Fn(o) # "mkdir", NEW h PROVE OK(AfterJoin(o, h), TRUE)
<1>1. IsOp(o) /\ Looks(o) BY DEF InDir, Looks
<1>2. Fn(o) \in Called BY <1>1, CallsAssumption DEF Fn, Looks, Called
<1>3. CASE Fn(o) = "open"
  <2>1. AfterJoin(o, h) = Idle BY <1>3 DEF AfterJoin
  <2> QED BY <2>1, IdleIsOK
<1>4. CASE Fn(o) # "open"
  <2>1. PICK p : p = IF Fn(o) = "rmdir" THEN "empty"
                     ELSE IF Removes(o) THEN (IF h.object # 0 THEN "unlink" ELSE "rmlfn")
                     ELSE IF o.phase = "dst" THEN "leave" ELSE "target"
    OBVIOUS
  <2>2. PICK q : q = [o EXCEPT !.pc = p] OBVIOUS
  <2>3. AfterJoin(o, h) = q BY <1>4, <2>1, <2>2 DEF AfterJoin
  <2>4. /\ q.pc = p /\ q.call = o.call /\ q.phase = o.phase /\ q.dir = o.dir
        /\ q.ent = o.ent /\ q.new = o.new /\ IsOp(q) /\ Fn(q) = Fn(o)
    BY <1>1, <2>2, PcIs
  <2>5. p \in {"empty", "unlink", "rmlfn", "leave", "target"} BY <2>1
  <2>6. AtPlace(q, TRUE) BY <1>1, <1>2, <2>4, <2>5 DEF AtPlace, Looks, Creating, Seeking, Using, Called
  <2>7. Removes(q) <=> Removes(o) BY <2>4 DEF Removes
  <2>8. /\ p = "empty" => Fn(o) = "rmdir"
        /\ p = "unlink" => Removes(o)
        /\ p = "rmlfn" => Removes(o)
        /\ p = "target" => o.phase \in {"src", "srcdir"}
    <3>1. p = "target" => ~ Removes(o) /\ Fn(o) # "rmdir" /\ o.phase # "dst" BY <2>1
    <3>2. p = "target" => Fn(o) = "move" /\ o.phase \notin {"dst", "del"}
      BY <1>2, <1>4, <3>1 DEF Called, Removes, InDir
    <3>3. p = "target" => o.phase \in {"src", "srcdir"}
      BY <1>1, <3>2 DEF Looks
    <3> QED BY <2>1, <3>3
  <2>9. FnsAt(q) BY <1>1, <1>4, <2>4, <2>5, <2>7, <2>8 DEF FnsAt, InDir, Looks, Creating
  <2> QED BY <2>3, <2>4, <2>6, <2>9 DEF OK
<1> QED BY <1>3, <1>4

LEMMA JoinTypes ==
  ASSUME TInv, NEW t \in Tasks, Join(t) PROVE TInv'
<1>1. /\ op[t].pc = "join" /\ dirs' = dirs /\ calls' = calls /\ used' = used /\ faults' = faults
      /\ AreDirs(dirs') /\ UsedOK' /\ faults' \in 0 .. MaxFaults
      /\ calls' \in 0 .. MaxCalls
  BY DEF UsedOK, Join, At, TInv
<1>2. PICK o : o = op[t] OBVIOUS
<1>3. IsOp(o) /\ AtPlace(o, file[t] # NoFile) /\ FnsAt(o) BY <1>2, HasTask DEF TaskOK
<1>4. /\ Fn(o) # "open" => InDir(o)
      /\ Fn(o) # "mkdir" /\ file[t] = NoFile /\ o.dir # 0
      /\ Fn(o) = "open" => o.phase = "only"
  BY <1>1, <1>2, <1>3 DEF AtPlace, FnsAt, Seeking, InDir, Looks
<1>5. PICK h : h = NewHandle(o) OBVIOUS
<1>6. IsFile(h) /\ h # NoFile
  <2>1. IsFile(h) /\ h.dir = o.dir BY <1>3, <1>4, <1>5, NewHandleIs
  <2>2. NoFile.dir = 0 BY DEF NoFile
  <2> QED BY <1>4, <2>1, <2>2
<1>7. PICK busy : busy = (\E g \in Listed : Conflicts(g, h)) OBVIOUS
<1>8. /\ file' = IF busy THEN file ELSE [file EXCEPT ![t] = h]
      /\ Go(t, IF busy THEN Refused(o, "busy") ELSE AfterJoin(o, h))
  BY <1>2, <1>5, <1>7 DEF Join, AfterJoin
<1>9. CASE busy
  <2>1. OK(Refused(o, "busy"), FALSE)
    <3>1. CASE Fn(o) = "open"
      <4>1. Refused(o, "busy") = Idle BY <1>4, <3>1 DEF Refused
      <4> QED BY <4>1, IdleIsOK
    <3>2. CASE Fn(o) # "open" BY <1>4, <3>2, RefusedOK DEF InDir, OK
    <3> QED BY <3>1, <3>2
  <2>2. Go(t, Refused(o, "busy")) /\ file' = file /\ (NoFault \/ Fault)
    BY <1>1, <1>8, <1>9 DEF NoFault
  <2> QED BY <1>1, <1>4, <2>1, <2>2, OKTypes
<1>10. CASE ~ busy
  <2>1. PICK q : q = AfterJoin(o, h) OBVIOUS
  <2>2. Go(t, q) /\ file' = [file EXCEPT ![t] = h] BY <1>8, <1>10, <2>1
  <2>3. OK(q, TRUE)
    <3>1. CASE Fn(o) = "open"
      <4>1. q = Idle BY <2>1, <3>1 DEF AfterJoin
      <4> QED BY <4>1, IdleIsOK
    <3>2. CASE Fn(o) # "open" BY <1>4, <2>1, <3>2, AfterJoinOK
    <3> QED BY <3>1, <3>2
  <2>4. TasksOK BY DEF TInv
  <2>5. /\ file' = [u \in Tasks |-> file'[u]] /\ file'[t] = h
        /\ \A u \in Tasks \ {t} : file'[u] = file[u]
    BY <2>2, <2>4 DEF TasksOK
  <2>6. TaskOK(op'[t], file'[t]) BY <1>6, <2>2, <2>3, <2>4, <2>5, GoIs DEF TaskOK, OK
  <2> QED BY <1>1, <2>2, <2>4, <2>5, <2>6, GoIs, GoIsLockStep, StepTypes
<1> QED BY <1>9, <1>10

\* Which task may go on there.
MayGo(o, p) ==
  /\ o.pc \in Using
  /\ p \in {"unlink", "quit", "rmlfn", "erase", "leave", "enter", "note", "detach", "size"}
  /\ p = "quit" => Fn(o) = "rmdir"
  /\ p = "unlink" => Removes(o)
  /\ p \in {"rmlfn", "erase"} => Removes(o) \/ o.phase \in {"src", "srcdir"}
  /\ p = "enter" => Fn(o) = "write"
  /\ p = "note" => Fn(o) \in {"write", "close"}
  /\ p \in {"detach", "size"} => Fn(o) = "close"

\* A task that works on a handle goes on.
LEMMA UseOK ==
  ASSUME NEW o, NEW f, TaskOK(o, f), NEW p, MayGo(o, p)
  PROVE  OK([o EXCEPT !.pc = p], f # NoFile)
<1>1. IsOp(o) /\ AtPlace(o, f # NoFile) /\ FnsAt(o) BY DEF TaskOK
<1>2. PICK q : q = [o EXCEPT !.pc = p] OBVIOUS
<1>3. /\ q.pc = p /\ q.call = o.call /\ q.phase = o.phase /\ q.dir = o.dir
      /\ q.ent = o.ent /\ q.new = o.new /\ IsOp(q) /\ Fn(q) = Fn(o)
  BY <1>1, <1>2, PcIs
<1>4. Removes(q) <=> Removes(o) BY <1>3 DEF Removes
<1>5. o.pc # "idle" /\ Fn(o) # "none" /\ f # NoFile
  BY <1>1 DEF AtPlace, Using, MayGo
<1>6. AtPlace(q, f # NoFile)
  <2>1. p \in Using /\ p \notin Seeking \cup Creating /\ p # "idle"
    BY DEF Using, Seeking, Creating, MayGo
  <2> QED BY <1>1, <1>3, <1>5, <2>1 DEF AtPlace, MayGo
<1>7. FnsAt(q)
  BY <1>1, <1>3, <1>4, <1>5 DEF FnsAt, Creating, MayGo
<1> QED BY <1>2, <1>3, <1>6, <1>7 DEF OK

LEMMA ToTypes ==
  ASSUME TInv, NEW t \in Tasks, NEW p, MayGo(op[t], p), To(t, p),
         AreDirs(dirs'), UsedOK',
         file' = file, calls' = calls, NoFault \/ Fault
  PROVE  TInv'
<1>1. TaskOK(op[t], file[t]) BY HasTask
<1>2. PICK q : q = [op[t] EXCEPT !.pc = p] OBVIOUS
<1>3. Go(t, q) BY <1>2 DEF To
<1>4. OK(q, file[t] # NoFile) BY <1>1, <1>2, UseOK
<1> QED BY <1>3, <1>4, OKTypes

LEMMA MayLeave == ASSUME NEW o, o.pc \in Using PROVE MayGo(o, "leave")
BY DEF MayGo

LEMMA EmptyTypes ==
  ASSUME TInv, NEW t \in Tasks, Empty(t) PROVE TInv'
<1>1. /\ op[t].pc = "empty" /\ dirs' = dirs /\ calls' = calls /\ used' = used /\ file' = file
      /\ AreDirs(dirs') /\ UsedOK' /\ op[t].pc \in Using
  BY DEF UsedOK, Empty, At, TInv, Using
<1>2. Fn(op[t]) = "rmdir" BY <1>1, HasTask DEF TaskOK, FnsAt
<1>3. Removes(op[t]) BY <1>2 DEF Removes
<1>4. PICK p \in {"unlink", "leave"} : To(t, p) /\ (NoFault \/ Fault) BY DEF Empty
<1>5. MayGo(op[t], p) BY <1>1, <1>3, <1>4 DEF MayGo
<1> QED BY <1>1, <1>4, <1>5, ToTypes

LEMMA QuitTypes ==
  ASSUME TInv, NEW t \in Tasks, Quit(t) PROVE TInv'
<1>1. /\ dirs' = dirs /\ calls' = calls /\ used' = used /\ file' = file /\ NoFault
      /\ AreDirs(dirs') /\ UsedOK' /\ op[t].pc \in Using /\ To(t, "leave")
  BY DEF UsedOK, Quit, At, TInv, Using, NoFault
<1> QED BY <1>1, MayLeave, ToTypes

LEMMA RelockTypes ==
  ASSUME TInv, NEW t \in Tasks, Relock(t) PROVE TInv'
<1>1. /\ op[t].pc = "made" /\ calls' = calls /\ file' = file /\ NoFault
      /\ AreDirs(dirs') /\ UsedOK' /\ To(t, "rmlfn")
  BY DEF UsedOK, Relock, At, TInv, NoFault
<1>2. MayGo(op[t], "rmlfn") BY <1>1, HasTask DEF MayGo, TaskOK, FnsAt, Using
<1> QED BY <1>1, <1>2, ToTypes

\* A handle is taken out of the list.
LEMMA ClosedTypes ==
  ASSUME TInv, NEW t \in Tasks, NEW q, Go(t, q), OK(q, FALSE),
         AreDirs(dirs'), UsedOK',
         file' = [file EXCEPT ![t] = NoFile], calls' = calls, NoFault \/ Fault
  PROVE  TInv'
<1>1. TasksOK BY DEF TInv
<1>2. /\ file' = [u \in Tasks |-> file'[u]] /\ file'[t] = NoFile
      /\ \A u \in Tasks \ {t} : file'[u] = file[u]
  BY <1>1 DEF TasksOK
<1>3. TaskOK(op'[t], file'[t]) BY <1>1, <1>2, GoIs, NoFileOK DEF TaskOK, OK
<1>4. faults' \in 0 .. MaxFaults BY NamesAssumption DEF TInv, NoFault, Fault
<1>5. calls' \in 0 .. MaxCalls BY DEF TInv
<1> QED BY <1>1, <1>2, <1>3, <1>4, <1>5, GoIs, GoIsLockStep, StepTypes

LEMMA UnlinkTypes ==
  ASSUME TInv, NEW t \in Tasks, Unlink(t) PROVE TInv'
<1>1. /\ op[t].pc = "unlink" /\ dirs' = dirs /\ calls' = calls
      /\ AreDirs(dirs') /\ UsedOK' /\ op[t].pc \in Using
  BY ReleaseTypes DEF Unlink, At, TInv, Using
<1>2. Removes(op[t]) BY <1>1, HasTask DEF TaskOK, FnsAt
<1>3. \/ To(t, "rmlfn") /\ NoFault /\ file' = file
      \/ Fault /\ Fn(op[t]) = "rmdir" /\ To(t, "quit") /\ file' = file
      \/ Fault /\ Go(t, Idle) /\ file' = [file EXCEPT ![t] = NoFile]
  BY DEF Unlink
<1>4. MayGo(op[t], "rmlfn") BY <1>1, <1>2 DEF MayGo
<1>5. Fn(op[t]) = "rmdir" => MayGo(op[t], "quit") BY <1>1, <1>2 DEF MayGo
<1> QED BY <1>1, <1>3, <1>4, <1>5, ToTypes, ClosedTypes, IdleIsOK

LEMMA RmLfnTypes ==
  ASSUME TInv, NEW t \in Tasks, RmLfn(t) PROVE TInv'
<1>1. /\ op[t].pc = "rmlfn" /\ used' = used /\ calls' = calls /\ file' = file
      /\ AreDirs(dirs) /\ UsedOK' /\ op[t].pc \in Using
  BY DEF UsedOK, RmLfn, At, TInv, Using
<1>2. Removes(op[t]) \/ op[t].phase \in {"src", "srcdir"} BY <1>1, HasTask DEF TaskOK, FnsAt
<1>3. PICK D : D = file[t].dir OBVIOUS
<1>4. PICK long : long = {j \in 0 .. file[t].slot - 1 :
                            \A k \in j .. file[t].slot - 1 : dirs[D][k].kind = "lfn"}
  OBVIOUS
<1>5. \/ /\ dirs' = [dirs EXCEPT ![D] = [k \in DOMAIN @ |-> IF k \in long THEN Deleted ELSE @[k]]]
         /\ To(t, "erase") /\ NoFault
      \/ Fault /\ To(t, "leave") /\ dirs' = dirs
  BY <1>3, <1>4 DEF RmLfn
<1>6. ASSUME dirs' = [dirs EXCEPT ![D] = [k \in DOMAIN @ |-> IF k \in long THEN Deleted ELSE @[k]]]
      PROVE  AreDirs(dirs')
  <2>1. /\ dirs = [E \in Clusters \cup {Root} |-> [i \in 0 .. SlotsOf(E) - 1 |-> dirs[E][i]]]
        /\ \A E \in DOMAIN dirs : \A i \in DOMAIN dirs[E] : IsSlot(dirs[E][i])
    BY <1>1 DEF AreDirs
  <2>2. dirs' = [E \in Clusters \cup {Root} |->
                   IF E = D THEN [k \in DOMAIN dirs[E] |-> IF k \in long THEN Deleted ELSE dirs[E][k]]
                   ELSE dirs[E]]
    BY <1>6, <2>1
  <2>3. ASSUME NEW E \in Clusters \cup {Root}
        PROVE  /\ dirs'[E] = [i \in 0 .. SlotsOf(E) - 1 |-> dirs'[E][i]]
               /\ \A i \in 0 .. SlotsOf(E) - 1 : IsSlot(dirs'[E][i])
    <3>1. /\ dirs[E] = [i \in 0 .. SlotsOf(E) - 1 |-> dirs[E][i]]
          /\ DOMAIN dirs[E] = 0 .. SlotsOf(E) - 1
          /\ \A i \in 0 .. SlotsOf(E) - 1 : IsSlot(dirs[E][i])
      BY <2>1
    <3>2. CASE E = D
      <4>1. dirs'[E] = [k \in 0 .. SlotsOf(E) - 1 |-> IF k \in long THEN Deleted ELSE dirs[E][k]]
        BY <2>2, <3>1, <3>2
      <4>2. \A k \in 0 .. SlotsOf(E) - 1 : dirs'[E][k] = IF k \in long THEN Deleted ELSE dirs[E][k]
        BY <4>1
      <4> QED BY <3>1, <4>1, <4>2, SlotTypes
    <3>3. CASE E # D
      <4>1. dirs'[E] = dirs[E] BY <2>2, <3>3
      <4> QED BY <3>1, <4>1
    <3> QED BY <3>2, <3>3
  <2>4. dirs' = [E \in Clusters \cup {Root} |-> dirs'[E]] BY <2>2
  <2>5. dirs' = [E \in Clusters \cup {Root} |-> [i \in 0 .. SlotsOf(E) - 1 |-> dirs'[E][i]]]
    BY <2>3, <2>4
  <2>6. \A E \in DOMAIN dirs' : DOMAIN dirs'[E] = 0 .. SlotsOf(E) - 1 BY <2>3, <2>4
  <2>7. ASSUME NEW E \in DOMAIN dirs', NEW i \in DOMAIN dirs'[E] PROVE IsSlot(dirs'[E][i])
    <3>1. E \in Clusters \cup {Root} BY <2>4
    <3>2. i \in 0 .. SlotsOf(E) - 1 BY <2>6
    <3> QED BY <2>3, <3>1, <3>2
  <2> QED BY <2>5, <2>7 DEF AreDirs
<1>7. MayGo(op[t], "erase") BY <1>1, <1>2 DEF MayGo
<1> QED BY <1>1, <1>5, <1>6, <1>7, MayLeave, ToTypes

LEMMA EraseTypes ==
  ASSUME TInv, NEW t \in Tasks, Erase(t) PROVE TInv'
<1>1. /\ used' = used /\ calls' = calls /\ file' = file
      /\ AreDirs(dirs) /\ UsedOK' /\ op[t].pc \in Using
      /\ To(t, "leave") /\ (NoFault \/ Fault)
      /\ dirs' = dirs \/ Put(file[t].dir, file[t].slot, Deleted)
  BY DEF UsedOK, Erase, At, TInv, Using
<1>2. AreDirs(dirs')
  <2>1. CASE dirs' = dirs BY <1>1, <2>1
  <2>2. CASE Put(file[t].dir, file[t].slot, Deleted) BY <1>1, <2>2, PutTypes, SlotTypes
  <2> QED BY <1>1, <2>1, <2>2
<1> QED BY <1>1, <1>2, MayLeave, ToTypes

LEMMA TargetTypes ==
  ASSUME TInv, NEW t \in Tasks, Target(t) PROVE TInv'
<1>1. /\ op[t].pc = "target" /\ dirs' = dirs /\ calls' = calls /\ file' = file /\ used' = used
      /\ AreDirs(dirs') /\ UsedOK' /\ op[t].pc \in Using
  BY DEF UsedOK, Target, At, TInv, Using
<1>2. PICK o : o = op[t] OBVIOUS
<1>3. IsOp(o) /\ AtPlace(o, file[t] # NoFile) /\ FnsAt(o) BY <1>2, HasTask DEF TaskOK
<1>4. /\ Fn(o) = "move" /\ file[t] # NoFile /\ o.phase \in {"src", "srcdir"} /\ o.call \in Calls
      /\ o.new = 0
  BY <1>1, <1>2, <1>3 DEF AtPlace, FnsAt, Using
<1>5. PICK D : D = IF o.call.to.in = "" THEN Root ELSE DirOf(o.call.to.in) OBVIOUS
<1>6. D \in Clusters \cup {Root, 0} BY <1>5, DirOfIs
<1>7. CASE D # 0 /\ NoFault
           /\ Go(t, [o EXCEPT !.dir = D, !.free = 0, !.checked = "no", !.seen = o.goal,
                              !.pc = "plan"])
  <2>1. PICK q : q = [o EXCEPT !.dir = D, !.free = 0, !.checked = "no", !.seen = o.goal,
                              !.pc = "plan"]
    OBVIOUS
  <2>2. q = [call |-> o.call, phase |-> o.phase, pc |-> "plan", dir |-> D, slot |-> o.slot,
             ent |-> o.ent, new |-> o.new, free |-> 0, checked |-> "no", alias |-> o.alias,
             seen |-> o.goal, goal |-> o.goal]
    BY <1>3, <2>1 DEF IsOp
  <2>3. IsOp(q) /\ Fn(q) = Fn(o) BY <1>3, <1>6, <2>2 DEF IsOp, Fn
  <2>4. AtPlace(q, TRUE) BY <1>4, <2>2, <2>3 DEF AtPlace, Creating, Seeking, Using
  <2>5. FnsAt(q) BY <1>4, <1>7, <2>2, <2>3 DEF FnsAt, Creating
  <2>6. OK(q, file[t] # NoFile) BY <1>4, <2>3, <2>4, <2>5 DEF OK
  <2>7. Go(t, q) BY <1>7, <2>1
  <2> QED BY <1>1, <1>7, <2>6, <2>7, OKTypes
<1>8. CASE To(t, "leave") /\ (NoFault \/ Fault) BY <1>1, <1>8, MayLeave, ToTypes
<1> QED BY <1>2, <1>5, <1>7, <1>8 DEF Target

LEMMA LeaveTypes ==
  ASSUME TInv, NEW t \in Tasks, Leave(t) PROVE TInv'
<1>1. /\ op[t].pc = "leave" /\ dirs' = dirs /\ calls' = calls /\ used' = used /\ NoFault
      /\ AreDirs(dirs') /\ UsedOK' /\ file' = [file EXCEPT ![t] = NoFile]
  BY DEF UsedOK, Leave, At, TInv, NoFault
<1>2. PICK o : o = op[t] OBVIOUS
<1>3. IsOp(o) /\ AtPlace(o, file[t] # NoFile) /\ FnsAt(o) BY <1>2, HasTask DEF TaskOK
<1>4. o.phase # "only" => Looks(o) /\ Fn(o) = "move"
  <2>1. o.phase # "only" => Fn(o) = "move" /\ o.new = 0 /\ o.call \in Calls
    BY <1>1, <1>2, <1>3 DEF AtPlace, FnsAt, Using
  <2> QED BY <1>3, <2>1 DEF Looks, AtPlace
<1>5. Go(t, CASE o.phase = "dst" -> Opening([o EXCEPT !.phase = "del"])
              [] o.phase = "del" -> Opening([o EXCEPT !.phase = "src", !.goal = Nothing])
              [] OTHER -> Idle)
  BY <1>2 DEF Leave
<1>6. CASE o.phase = "dst"
  <2>1. PICK q : q = [o EXCEPT !.phase = "del"] OBVIOUS
  <2>2. q = [o EXCEPT !.phase = "del", !.goal = o.goal] BY <1>3, <2>1 DEF IsOp
  <2>3. Looks(q) BY <1>4, <1>6, <2>2, NextPhaseLooks
  <2>4. Go(t, Opening(q)) BY <1>5, <1>6, <2>1
  <2>5. OK(Opening(q), FALSE) BY <2>3, OpeningOK DEF Looks, OK
  <2> QED BY <1>1, <2>4, <2>5, ClosedTypes
<1>7. CASE o.phase = "del"
  <2>1. PICK q : q = [o EXCEPT !.phase = "src", !.goal = Nothing] OBVIOUS
  <2>2. Looks(q) BY <1>4, <1>7, <2>1, NextPhaseLooks
  <2>3. Go(t, Opening(q)) BY <1>5, <1>7, <2>1
  <2>4. OK(Opening(q), FALSE) BY <2>2, OpeningOK DEF Looks, OK
  <2> QED BY <1>1, <2>3, <2>4, ClosedTypes
<1>8. CASE o.phase # "dst" /\ o.phase # "del"
  <2>1. Go(t, Idle) BY <1>5, <1>8
  <2> QED BY <1>1, <2>1, ClosedTypes, IdleIsOK
<1> QED BY <1>6, <1>7, <1>8

\* The two functions on a handle begin.
LEMMA BeginOK ==
  ASSUME NEW fn \in {"write", "close"}, NEW p,
         p \in IF fn = "write" THEN {"grow"} ELSE {"leave", "cut", "size"}
  PROVE  /\ OK([Idle EXCEPT !.call.fn = fn, !.pc = p], TRUE)
         /\ Fn([Idle EXCEPT !.call.fn = fn, !.pc = p]) = fn
         /\ [Idle EXCEPT !.call.fn = fn, !.pc = p].pc = p
         /\ [Idle EXCEPT !.call.fn = fn, !.pc = p].new = 0
<1>1. PICK c : c = [NoCall EXCEPT !.fn = fn] OBVIOUS
<1>2. c.fn = fn BY <1>1 DEF NoCall
<1>3. PICK q : q = [call |-> c, phase |-> "only", pc |-> p, dir |-> 0, slot |-> 0,
         ent |-> NoEntry, new |-> 0, free |-> 0, checked |-> "no", alias |-> "",
         seen |-> Nothing, goal |-> Nothing]
  OBVIOUS
<1>4. q = [Idle EXCEPT !.call.fn = fn, !.pc = p]
  <2>1. /\ Idle.phase = "only" /\ Idle.dir = 0 /\ Idle.slot = 0 /\ Idle.ent = NoEntry
        /\ Idle.new = 0 /\ Idle.free = 0 /\ Idle.checked = "no" /\ Idle.alias = ""
        /\ Idle.seen = Nothing /\ Idle.goal = Nothing /\ Idle.call = NoCall
    BY DEF Idle
  <2>2. PICK r : r = [Idle EXCEPT !.call = c, !.pc = p] OBVIOUS
  <2>3. r = [call |-> c, phase |-> Idle.phase, pc |-> p, dir |-> Idle.dir, slot |-> Idle.slot,
             ent |-> Idle.ent, new |-> Idle.new, free |-> Idle.free, checked |-> Idle.checked,
             alias |-> Idle.alias, seen |-> Idle.seen, goal |-> Idle.goal]
    BY <2>2, IdleOK DEF IsOp
  <2>4. r = q BY <1>3, <2>1, <2>3
  <2>5. [Idle EXCEPT !.call.fn = fn, !.pc = p] = [Idle EXCEPT !.call = c, !.pc = p]
    BY <1>1, <2>1, IdleOK DEF IsOp
  <2> QED BY <2>2, <2>4, <2>5
<1>5. /\ q.call = c /\ q.pc = p /\ q.phase = "only" /\ q.dir = 0 /\ q.slot = 0 /\ q.new = 0
      /\ q.free = 0 /\ q.ent = NoEntry
  BY <1>3
<1>6. Fn(q) = fn BY <1>2, <1>5 DEF Fn
<1>7. NoEntry = [cluster |-> NoEntry.cluster, size |-> NoEntry.size, isdir |-> NoEntry.isdir]
      /\ NoEntry.cluster = 0 /\ NoEntry.isdir = FALSE
  BY DEF NoEntry
<1>8. NoEntry.isdir \in BOOLEAN BY <1>7
<1>9. IsOp(q)
  <2>1. q = [call |-> q.call, phase |-> q.phase, pc |-> q.pc, dir |-> q.dir, slot |-> q.slot,
             ent |-> q.ent, new |-> q.new, free |-> q.free, checked |-> q.checked,
             alias |-> q.alias, seen |-> q.seen, goal |-> q.goal]
    BY <1>3
  <2> QED BY <2>1, <1>5, <1>7, <1>8 DEF IsOp
<1>10. AtPlace(q, TRUE) BY <1>5, <1>6 DEF AtPlace, Creating, Seeking, Using
<1>11. ~ Removes(q) BY <1>5, <1>6 DEF Removes
<1>12. FnsAt(q) BY <1>5, <1>6, <1>11 DEF FnsAt, Creating
<1>13. OK(q, TRUE) BY <1>9, <1>10, <1>12 DEF OK
<1> QED BY <1>4, <1>5, <1>6, <1>13

\* A handle changes and its task goes on.
LEMMA HandleTypes ==
  ASSUME TInv, NEW t \in Tasks, NEW q, Go(t, q), OK(q, TRUE), NEW h, IsFile(h), h # NoFile,
         AreDirs(dirs'), UsedOK',
         file' = [file EXCEPT ![t] = h], calls' = calls, NoFault \/ Fault
  PROVE  TInv'
<1>1. TasksOK BY DEF TInv
<1>2. /\ file' = [u \in Tasks |-> file'[u]] /\ file'[t] = h
      /\ \A u \in Tasks \ {t} : file'[u] = file[u]
  BY <1>1 DEF TasksOK
<1>3. TaskOK(op'[t], file'[t]) BY <1>1, <1>2, GoIs DEF TaskOK, OK
<1>4. faults' \in 0 .. MaxFaults BY NamesAssumption DEF TInv, NoFault, Fault
<1>5. calls' \in 0 .. MaxCalls BY DEF TInv
<1> QED BY <1>1, <1>2, <1>3, <1>4, <1>5, GoIs, GoIsLockStep, StepTypes

LEMMA WriteTypes ==
  ASSUME TInv, NEW t \in Tasks, Write(t) PROVE TInv'
<1>1. /\ dirs' = dirs /\ calls' = calls /\ used' = used /\ faults' = faults
      /\ AreDirs(dirs') /\ UsedOK' /\ IsOpen(t) /\ NoFault
  BY DEF UsedOK, Write, TInv, NoFault
<1>2. PICK f : f = file[t] OBVIOUS
<1>3. IsFile(f) /\ f # NoFile BY <1>1, <1>2, HasTask DEF TaskOK, IsOpen
<1>4. CASE file' = [file EXCEPT ![t].size = 1] /\ Go(t, Idle)
  <2>1. PICK h : h = [f EXCEPT !.size = 1] OBVIOUS
  <2>2. h = [dir |-> f.dir, slot |-> f.slot, object |-> f.object, size |-> 1,
             mode |-> f.mode, isdir |-> f.isdir, seen |-> f.seen]
    BY <1>3, <2>1 DEF IsFile
  <2>3. h # NoFile
    <3>1. h.size = 1 /\ NoFile.size = 0 BY <2>2 DEF NoFile
    <3> QED BY <3>1
  <2>4. IsFile(h) BY <1>3, <2>2, <2>3 DEF IsFile
  <2>5. file' = [file EXCEPT ![t] = h] BY <1>2, <1>4, <2>1
  <2> QED BY <1>1, <1>4, <2>3, <2>4, <2>5, HandleTypes, IdleIsOK
<1>5. CASE Begin(t, "write", "grow") /\ file' = file
  <2>1. PICK q : q = [Idle EXCEPT !.call.fn = "write", !.pc = "grow"] OBVIOUS
  <2>2. OK(q, TRUE) BY <2>1, BeginOK
  <2>3. Go(t, q) BY <1>5, <2>1 DEF Begin
  <2>4. OK(q, file[t] # NoFile) BY <1>2, <1>3, <2>2
  <2> QED BY <1>1, <1>5, <2>3, <2>4, OKTypes
<1> QED BY <1>4, <1>5 DEF Write

LEMMA CloseTypes ==
  ASSUME TInv, NEW t \in Tasks, Close(t) PROVE TInv'
<1>1. /\ dirs' = dirs /\ calls' = calls /\ used' = used /\ file' = file
      /\ AreDirs(dirs') /\ UsedOK' /\ IsOpen(t) /\ NoFault
  BY DEF UsedOK, Close, TInv, NoFault
<1>2. PICK p \in {"leave", "cut", "size"} : Begin(t, "close", p) BY DEF Close
<1>3. PICK q : q = [Idle EXCEPT !.call.fn = "close", !.pc = p] OBVIOUS
<1>4. OK(q, TRUE) BY <1>2, <1>3, BeginOK
<1>5. Go(t, q) BY <1>2, <1>3 DEF Begin
<1>6. OK(q, file[t] # NoFile) BY <1>1, <1>4 DEF IsOpen
<1> QED BY <1>1, <1>5, <1>6, OKTypes

LEMMA GrowTypes ==
  ASSUME TInv, NEW t \in Tasks, Grow(t) PROVE TInv'
<1>1. /\ op[t].pc = "grow" /\ dirs' = dirs /\ calls' = calls /\ file' = file
      /\ AreDirs(dirs') /\ UsedOK
  BY DEF UsedOK, Grow, At, TInv
<1>2. PICK o : o = op[t] OBVIOUS
<1>3. IsOp(o) /\ AtPlace(o, file[t] # NoFile) /\ FnsAt(o) BY <1>2, HasTask DEF TaskOK
<1>4. Fn(o) = "write" /\ o.phase = "only" /\ file[t] # NoFile
  BY <1>1, <1>2, <1>3 DEF FnsAt, AtPlace, Using
<1>5. PICK c : c = Least(FreeClusters) OBVIOUS
<1>6. CASE FreeClusters # {} /\ NoFault /\ used' = used \cup {c} /\ part' = part
           /\ Go(t, [o EXCEPT !.new = c, !.pc = "enter"])
  <2>1. c \in Clusters BY <1>5, <1>6, LeastFree
  <2>2. PICK q : q = [o EXCEPT !.new = c, !.pc = "enter"] OBVIOUS
  <2>3. q = [call |-> o.call, phase |-> o.phase, pc |-> "enter", dir |-> o.dir, slot |-> o.slot,
             ent |-> o.ent, new |-> c, free |-> o.free, checked |-> o.checked,
             alias |-> o.alias, seen |-> o.seen, goal |-> o.goal]
    BY <1>3, <2>2 DEF IsOp
  <2>4. IsOp(q) /\ Fn(q) = Fn(o) BY <1>3, <2>1, <2>3 DEF IsOp, Fn
  <2>5. AtPlace(q, TRUE) BY <1>4, <2>3, <2>4 DEF AtPlace, Creating, Seeking, Using
  <2>6. FnsAt(q) BY <1>4, <2>3, <2>4 DEF FnsAt, Creating
  <2>7. OK(q, file[t] # NoFile) BY <1>4, <2>4, <2>5, <2>6 DEF OK
  <2>8. Go(t, q) /\ UsedOK' BY <1>1, <1>6, <2>1, <2>2 DEF UsedOK
  <2> QED BY <1>1, <1>6, <2>7, <2>8, OKTypes
<1>7. CASE Go(t, Idle) /\ used' = used /\ part' = part /\ (NoFault \/ Fault)
  <2>1. UsedOK' BY <1>1, <1>7 DEF UsedOK
  <2> QED BY <1>1, <1>7, <2>1, IdleIsOK, OKTypes
<1>8. CASE Lose(t) BY <1>1, <1>8, LoseTypes
<1> QED BY <1>2, <1>5, <1>6, <1>7, <1>8 DEF Grow

LEMMA PutInTypes ==
  ASSUME AreDirs(dirs), NEW D, NEW i, NEW c \in Clusters \cup {0}, NEW z, PutIn(D, i, c, z)
  PROVE  AreDirs(dirs')
<1>1. PICK e : e = IF dirs[D][i].kind = "entry" THEN [dirs[D][i] EXCEPT !.cluster = c, !.size = z]
                   ELSE dirs[D][i]
  OBVIOUS
<1>2. Put(D, i, e) BY <1>1 DEF PutIn
<1>3. ASSUME D \in DOMAIN dirs, i \in DOMAIN dirs[D] PROVE IsSlot(e)
  <2>1. PICK s : s = dirs[D][i] OBVIOUS
  <2>2. IsSlot(s) BY <1>3, <2>1 DEF AreDirs
  <2>3. CASE s.kind = "entry"
    <3>1. /\ s = Entry(s.alias, s.cluster, s.size, s.isdir) /\ s.isdir \in BOOLEAN
      BY <2>2, <2>3, EntryIs
    <3>2. PICK a, b, y, d : a = s.alias /\ b = s.cluster /\ y = s.size /\ d = s.isdir OBVIOUS
    <3>3. s = [kind |-> "entry", alias |-> a, cluster |-> b, size |-> y, isdir |-> d]
      BY <3>1, <3>2 DEF Entry
    <3>4. e = [s EXCEPT !.cluster = c, !.size = z] BY <1>1, <2>1, <2>3
    <3>5. e = [kind |-> "entry", alias |-> a, cluster |-> c, size |-> z, isdir |-> d]
      BY <3>3, <3>4
    <3>6. e = Entry(a, c, z, d) BY <3>5 DEF Entry
    <3> QED BY <3>1, <3>2, <3>6, SlotTypes
  <2>4. CASE s.kind # "entry"
    <3>1. e = s BY <1>1, <2>1, <2>4
    <3> QED BY <2>2, <3>1
  <2> QED BY <2>3, <2>4
<1> QED BY <1>2, <1>3, PutTypes

LEMMA EnterTypes ==
  ASSUME TInv, NEW t \in Tasks, Enter(t) PROVE TInv'
<1>1. /\ op[t].pc = "enter" /\ calls' = calls /\ file' = file /\ used' = used
      /\ AreDirs(dirs) /\ UsedOK'
  BY DEF UsedOK, Enter, At, TInv
<1>2. IsOp(op[t]) /\ AtPlace(op[t], file[t] # NoFile) /\ FnsAt(op[t]) BY HasTask DEF TaskOK
<1>3. MayGo(op[t], "note") /\ op[t].new \in Clusters \cup {0}
  BY <1>1, <1>2 DEF MayGo, FnsAt, Using, IsOp
<1>4. dirs' = dirs \/ PutIn(file[t].dir, file[t].slot, op[t].new, 0) BY DEF Enter
<1>5. AreDirs(dirs')
  <2>1. CASE dirs' = dirs BY <1>1, <2>1
  <2>2. CASE PutIn(file[t].dir, file[t].slot, op[t].new, 0) BY <1>1, <1>3, <2>2, PutInTypes
  <2> QED BY <1>4, <2>1, <2>2
<1>6. (To(t, "note") /\ NoFault) \/ (Fault /\ Go(t, Idle)) BY DEF Enter
<1> QED BY <1>1, <1>3, <1>5, <1>6, ToTypes, OKTypes, IdleIsOK

LEMMA NoteTypes ==
  ASSUME TInv, NEW t \in Tasks, Note(t) PROVE TInv'
<1>1. /\ op[t].pc = "note" /\ dirs' = dirs /\ calls' = calls /\ used' = used
      /\ AreDirs(dirs') /\ UsedOK' /\ NoFault
  BY DEF UsedOK, Note, At, TInv, NoFault
<1>2. PICK o : o = op[t] OBVIOUS
<1>3. PICK f : f = file[t] OBVIOUS
<1>4. TaskOK(o, f) BY <1>2, <1>3, HasTask
<1>5. /\ IsFile(f) /\ IsOp(o) /\ f # NoFile /\ f.dir # 0
      /\ Fn(o) \in {"write", "close"} /\ o.new \in Clusters \cup {0} /\ o.pc \in Using
  BY <1>1, <1>2, <1>4 DEF TaskOK, IsFile, IsOp, AtPlace, FnsAt, Using
<1>6. CASE Fn(o) = "write"
  <2>1. PICK h : h = [f EXCEPT !.object = o.new, !.size = 1] OBVIOUS
  <2>2. h = [dir |-> f.dir, slot |-> f.slot, object |-> o.new, size |-> 1,
             mode |-> f.mode, isdir |-> f.isdir, seen |-> f.seen]
    BY <1>5, <2>1 DEF IsFile
  <2>3. h # NoFile
    <3>1. h.size = 1 /\ NoFile.size = 0 BY <2>2 DEF NoFile
    <3> QED BY <3>1
  <2>4. IsFile(h) BY <1>5, <2>2, <2>3 DEF IsFile
  <2>5. file' = [file EXCEPT ![t].object = o.new, ![t].size = 1] /\ Go(t, Idle)
    BY <1>2, <1>6 DEF Note
  <2>6. TasksOK BY DEF TInv
  <2>7. file' = [file EXCEPT ![t] = h] BY <1>3, <2>1, <2>5, <2>6 DEF TasksOK
  <2> QED BY <1>1, <2>3, <2>4, <2>5, <2>7, HandleTypes, IdleIsOK
<1>7. CASE Fn(o) # "write"
  <2>1. PICK h : h = [f EXCEPT !.object = 0] OBVIOUS
  <2>2. h = [dir |-> f.dir, slot |-> f.slot, object |-> 0, size |-> f.size,
             mode |-> f.mode, isdir |-> f.isdir, seen |-> f.seen]
    BY <1>5, <2>1 DEF IsFile
  <2>3. h # NoFile
    <3>1. h.dir # 0 /\ NoFile.dir = 0 BY <1>5, <2>2 DEF NoFile
    <3> QED BY <3>1
  <2>4. IsFile(h) BY <1>5, <2>2, <2>3 DEF IsFile
  <2>5. file' = [file EXCEPT ![t].object = 0] /\ To(t, "size") BY <1>2, <1>7 DEF Note
  <2>6. file' = [file EXCEPT ![t] = h] BY <1>3, <2>1, <2>5
  <2>7. MayGo(o, "size") BY <1>5, <1>7 DEF MayGo
  <2>8. PICK q : q = [o EXCEPT !.pc = "size"] OBVIOUS
  <2>9. Go(t, q) BY <1>2, <2>5, <2>8 DEF To
  <2>10. OK(q, f # NoFile) BY <1>4, <2>7, <2>8, UseOK
  <2>11. OK(q, TRUE) BY <1>5, <2>10
  <2> QED BY <1>1, <2>3, <2>4, <2>6, <2>9, <2>11, HandleTypes
<1> QED BY <1>6, <1>7

LEMMA CutTypes ==
  ASSUME TInv, NEW t \in Tasks, Cut(t) PROVE TInv'
<1>1. /\ op[t].pc = "cut" /\ dirs' = dirs /\ calls' = calls /\ file' = file
      /\ AreDirs(dirs') /\ UsedOK' /\ op[t].pc \in Using
  BY ReleaseTypes DEF Cut, At, TInv, Using
<1>2. MayGo(op[t], "detach") /\ MayGo(op[t], "leave")
  BY <1>1, HasTask DEF MayGo, FnsAt, TaskOK
<1>3. (To(t, "detach") /\ NoFault) \/ (Fault /\ To(t, "leave")) BY DEF Cut
<1> QED BY <1>1, <1>2, <1>3, ToTypes

LEMMA DetachTypes ==
  ASSUME TInv, NEW t \in Tasks, Detach(t) PROVE TInv'
<1>1. /\ op[t].pc = "detach" /\ used' = used /\ calls' = calls /\ file' = file
      /\ AreDirs(dirs) /\ UsedOK' /\ op[t].pc \in Using
  BY DEF UsedOK, Detach, At, TInv, Using
<1>2. MayGo(op[t], "note") /\ MayGo(op[t], "leave")
  BY <1>1, HasTask DEF MayGo, FnsAt, TaskOK
<1>3. PICK z : z = dirs[file[t].dir][file[t].slot].size OBVIOUS
<1>4. dirs' = dirs \/ PutIn(file[t].dir, file[t].slot, 0, z) BY <1>3 DEF Detach
<1>5. AreDirs(dirs')
  <2>1. CASE dirs' = dirs BY <1>1, <2>1
  <2>2. CASE PutIn(file[t].dir, file[t].slot, 0, z) BY <1>1, <2>2, PutInTypes
  <2> QED BY <1>4, <2>1, <2>2
<1>6. (To(t, "note") /\ NoFault) \/ (Fault /\ To(t, "leave")) BY DEF Detach
<1> QED BY <1>1, <1>2, <1>5, <1>6, ToTypes
LEMMA PutSizeTypes ==
  ASSUME TInv, NEW t \in Tasks, PutSize(t) PROVE TInv'
<1>1. /\ op[t].pc = "size" /\ used' = used /\ calls' = calls /\ file' = file
      /\ AreDirs(dirs) /\ UsedOK' /\ op[t].pc \in Using
      /\ To(t, "leave") /\ (NoFault \/ Fault)
  BY DEF UsedOK, PutSize, At, TInv, Using
<1>2. PICK D : D = file[t].dir OBVIOUS
<1>3. PICK i : i = file[t].slot OBVIOUS
<1>4. PICK z : z = file[t].size OBVIOUS
<1>5. PICK c : c = IF z = 0 THEN 0 ELSE dirs[D][i].cluster OBVIOUS
<1>6. dirs' = dirs \/ PutIn(D, i, c, z) BY <1>2, <1>3, <1>4, <1>5 DEF PutSize
<1>7. CASE dirs[D][i].kind = "entry" /\ D \in DOMAIN dirs /\ i \in DOMAIN dirs[D]
  <2>1. IsSlot(dirs[D][i]) BY <1>1, <1>7 DEF AreDirs
  <2>2. dirs[D][i].cluster \in Clusters \cup {0} BY <1>7, <2>1, EntryIs
  <2>3. c \in Clusters \cup {0} BY <1>5, <2>2
  <2>4. AreDirs(dirs') BY <1>1, <1>6, <2>3, PutInTypes
  <2> QED BY <1>1, <2>4, MayLeave, ToTypes
<1>8. CASE ~ (dirs[D][i].kind = "entry" /\ D \in DOMAIN dirs /\ i \in DOMAIN dirs[D])
  <2>1. PICK e : e = IF dirs[D][i].kind = "entry" THEN [dirs[D][i] EXCEPT !.cluster = c, !.size = z]
                     ELSE dirs[D][i]
    OBVIOUS
  <2>2. PutIn(D, i, c, z) => Put(D, i, e) BY <2>1 DEF PutIn
  <2>3. ASSUME D \in DOMAIN dirs, i \in DOMAIN dirs[D] PROVE IsSlot(e)
    <3>1. e = dirs[D][i] BY <1>8, <2>1, <2>3
    <3> QED BY <1>1, <2>3, <3>1 DEF AreDirs
  <2>4. AreDirs(dirs')
    <3>1. CASE dirs' = dirs BY <1>1, <3>1
    <3>2. CASE Put(D, i, e) BY <1>1, <2>3, <3>2, PutTypes
    <3> QED BY <1>6, <2>2, <3>1, <3>2
  <2> QED BY <1>1, <2>4, MayLeave, ToTypes
<1> QED BY <1>7, <1>8

\* Who waits for a lock changes nothing else.
LEMMA LockTypes ==
  ASSUME TInv, NEW t \in Tasks, WaitBits(t) \/ ClearBits(t), UNCHANGED nameVars PROVE TInv'
<1>1. LockStep BY DEF LockStep, LockNext
<1>2. LockInv' BY <1>1, LockNextInv DEF TInv, LockStep
<1>3. /\ dirs' = dirs /\ used' = used /\ part' = part /\ op' = op /\ file' = file
      /\ calls' = calls /\ faults' = faults
  BY DEF nameVars
<1>4. TasksOK' BY <1>3 DEF TInv, TasksOK
<1> QED BY <1>2, <1>3, <1>4 DEF TInv, UsedOK

LEMMA InitTypes == Init => TInv
<1> SUFFICES ASSUME Init PROVE TInv OBVIOUS
<1>1. LockInv BY LockInitInv DEF Init
<1>2. AreDirs(dirs) /\ UsedOK BY StartsAssumption DEF UsedOK, Init
<1>3. \A t \in Tasks : op[t] = Idle /\ file[t] = NoFile BY DEF Init
<1>4. \A t \in Tasks : TaskOK(op[t], file[t]) BY <1>3, IdleOK, NoFileOK DEF TaskOK
<1>5. TasksOK BY <1>4 DEF Init, TasksOK
<1>6. calls \in 0 .. MaxCalls /\ faults \in 0 .. MaxFaults BY NamesAssumption DEF Init
<1> QED BY <1>1, <1>2, <1>5, <1>6 DEF TInv

LEMMA NextTypes == TInv /\ [Next]_vars => TInv'
<1> SUFFICES ASSUME TInv, [Next]_vars PROVE TInv' OBVIOUS
<1>1. ASSUME NEW t \in Tasks, Start(t) \/ Write(t) \/ Close(t) PROVE TInv'
  BY <1>1, StartTypes, WriteTypes, CloseTypes
<1>2. ASSUME NEW t \in Tasks, Continue(t) PROVE TInv'
  BY <1>2, FindDirTypes, FindTypes, ClaimTypes, PlanTypes, ExtendTypes, UnmadeTypes, PutLfnTypes,
     PutNewTypes, UndoTypes, MakeDotsTypes, JoinTypes, EmptyTypes, UnlinkTypes, QuitTypes,
     RelockTypes, RmLfnTypes, EraseTypes,
     TargetTypes, LeaveTypes, GrowTypes, EnterTypes, NoteTypes, CutTypes, DetachTypes,
     PutSizeTypes, LockTypes
     DEF Continue
<1>3. CASE UNCHANGED vars
  <2>1. /\ UNCHANGED lockVars /\ dirs' = dirs /\ used' = used /\ part' = part /\ op' = op
        /\ file' = file /\ calls' = calls /\ faults' = faults
    BY <1>3 DEF vars, nameVars
  <2>2. LockInv' BY <2>1, LockNextInv DEF TInv
  <2>3. TasksOK' BY <2>1 DEF TInv, TasksOK
  <2> QED BY <2>1, <2>2, <2>3 DEF TInv, UsedOK
<1> QED BY <1>1, <1>2, <1>3 DEF Next, Finished

\* Whatever the tasks do and whatever fails, the slots of the directories stay slots, what
\* handles and calls name are clusters of the volume, and no cluster outside it is in use.
THEOREM NamesTypeOK == Spec => []TypeOK
<1>1. TInv => TypeOK
  <2> SUFFICES ASSUME TInv PROVE TypeOK OBVIOUS
  <2>1. LockTypeOK BY DEF TInv, LockInv
  <2>2. \A t \in Tasks : file[t].object \in Clusters \cup {0} /\ op[t].new \in Clusters \cup {0}
    BY HasTask DEF TaskOK, IsFile, IsOp
  <2> QED BY <2>1, <2>2 DEF TInv, UsedOK, TypeOK
<1> QED BY <1>1, InitTypes, NextTypes, PTL DEF Spec

-----------------------------------------------------------------------------
(* What holds of the directories as long as nobody has acted on what was no *)
(* longer so.                                                               *)

Place(D, i) == D \in DOMAIN dirs /\ i \in DOMAIN dirs[D]
IsEntry(D, i) == Place(D, i) /\ dirs[D][i].kind = "entry"
Live(D, i) == IsEntry(D, i) /\ Alive(D)

\* A slot that a new entry may take: before it there is no end mark.
FreeAt(D, i) ==
  /\ Place(D, i) /\ dirs[D][i].kind \in {"end", "deleted"}
  /\ \A j \in DOMAIN dirs[D] : j < i => dirs[D][j].kind # "end"

\* Where a task has the directory lock since it looked at the directory.
Held(o) ==
  \/ o.pc \in {"extend", "lfn", "entry", "erase"}
  \/ o.pc = "unlink" /\ Fn(o) = "rmdir"
  \/ o.pc = "rmlfn" /\ Fn(o) = "rmdir"

LocksOK ==
  \A t \in Tasks : /\ has[t] \cup asks[t] = Under(op[t])
                   /\ Held(op[t]) => "DIR" \in has[t]

\* What a call knows by itself of its handle,
HandleFits(o, f) ==
  f # NoFile =>
    /\ f.isdir <=> "D" \in f.mode
    /\ ~ (Writes(f.mode) /\ f.isdir)
    /\ Fn(o) \in {"rmfile", "rmdir", "move"} => f.mode = Mode(o)
    /\ o.pc \in {"grow", "enter", "note", "cut", "detach", "size"} => Writes(f.mode)
    /\ o.pc \in {"grow", "enter"} => f.object = 0
    /\ o.pc = "size" /\ f.size = 0 => f.object = 0

\* of the entry it has found,
SoughtOK(o) ==
  o.pc = "join" =>
    \E e : /\ <<o.slot, e>> \in o.seen.at
           /\ e.kind = "entry" /\ e.cluster = o.ent.cluster /\ e.isdir = o.ent.isdir
           /\ e.isdir => "D" \in Mode(o)

\* and of the place for a directory that is moved.
NestedOK(o, f) ==
  /\ Fn(o) = "move" /\ o.phase \in {"src", "srcdir"} /\ f.isdir
  /\ o.pc \in Creating \cup {"made", "rmlfn", "erase"}
  => o.dir = Root

Locals(o, f) == HandleFits(o, f) /\ SoughtOK(o) /\ NestedOK(o, f)

\* A task works on the entry in its handle.
Working(t) == file[t] # NoFile /\ op[t].pc # "leave"
SamePlace(t, u) == file[t].dir = file[u].dir /\ file[t].slot = file[u].slot

\* A handle is that of the entry in its slot.
HandleNamed(t) ==
  Working(t) =>
    LET f == file[t] IN
    /\ Live(f.dir, f.slot)
    /\ dirs[f.dir][f.slot].isdir = f.isdir
    /\ dirs[f.dir][f.slot].cluster = IF op[t].pc = "note" THEN op[t].new ELSE f.object

\* No end mark before the slot that a search has come to,
Unstarted(o) ==
  o.pc \in {"claim", "plan"} =>
    \A j \in DOMAIN dirs[o.dir] : j < o.free => dirs[o.dir][j].kind # "end"

\* and the slots that are chosen are free.
Begun(o) == IF o.pc = "extend" THEN Making(o) ELSE o.pc
Planned(o) ==
  /\ Begun(o) = "lfn" => FreeAt(o.dir, o.slot - 1) /\ Place(o.dir, o.slot)
                         /\ dirs[o.dir][o.slot].kind \in {"end", "deleted"}
  /\ Begun(o) = "entry" => FreeAt(o.dir, o.slot)
  /\ Begun(o) \in {"lfn", "entry"} => ~ Unfinished(o.dir)

\* The directory that is freed is empty.
Emptied(o, f) ==
  o.pc = "unlink" /\ Fn(o) = "rmdir" => \A i : ~ IsEntry(f.object, i)

\* The new entry of a directory is there before the old one goes.
Moving(o) ==
  Fn(o) = "move" /\ o.phase \in {"src", "srcdir"} /\ o.pc \in {"made", "rmlfn", "erase"}
Moved(o, f) ==
  Moving(o) =>
    /\ <<o.dir, o.slot>> # <<f.dir, f.slot>>
    /\ f.isdir => /\ IsEntry(o.dir, o.slot) /\ dirs[o.dir][o.slot].isdir
                  /\ dirs[o.dir][o.slot].cluster = f.object

\* The cluster of a directory that is being made is its maker's.
Dotting == {"dot", "dotdot"}
Fresh(t) ==
  LET o == op[t] IN
  /\ Fn(o) = "mkdir" /\ o.pc \in Creating =>
       o.new # 0 /\ dirs[o.new] = Blank /\ \A u \in Tasks : op[u].dir # o.new
  /\ o.pc \in Dotting =>
       /\ o.new # 0 /\ Alive(o.new)
       /\ dirs[o.new] = IF o.pc = "dot" THEN Blank ELSE [Blank EXCEPT ![0] = Dots]
       /\ \A u \in Tasks \ {t} : op[u].pc \in Dotting => op[u].new # o.new

World(t) ==
  /\ HandleNamed(t) /\ Unstarted(op[t]) /\ Planned(op[t]) /\ Emptied(op[t], file[t])
  /\ Moved(op[t], file[t]) /\ Fresh(t)

\* Who is about to take the entry, or its cluster, away.
Leaving == {"made", "rmlfn", "erase", "detach"}
Parting(D, i) ==
  \E t \in Tasks : op[t].pc \in Leaving /\ file[t].dir = D /\ file[t].slot = i
Settled(D, i, c) == Live(D, i) /\ dirs[D][i].cluster = c /\ ~ Parting(D, i)
Keeping == {"plan", "extend", "unmade", "lfn", "entry", "undo", "enter"}
Holds(t, c) == op[t].pc \in Keeping /\ op[t].new = c

\* A cluster belongs to one entry, to one task or to a directory that was extended,
\* or it is lost; and it is in use.
OwnedOne(c) ==
  /\ \A D, i : Settled(D, i, c) =>
       /\ c \in used
       /\ \A E, j : Settled(E, j, c) => D = E /\ i = j
       /\ \A t \in Tasks : ~ Holds(t, c)
  /\ \A t \in Tasks : Holds(t, c) => c \in used /\ \A u \in Tasks : Holds(u, c) => t = u
  /\ part[c] # 0 => /\ c \in used /\ \A D, i : ~ Settled(D, i, c)
                    /\ \A t \in Tasks : ~ Holds(t, c)
  /\ part[c] \in Clusters => part[c] \in used /\ part[part[c]] = 0
Owned == \A c \in Clusters : OwnedOne(c)

\* Who writes to a file, removes it or moves it has it for itself, and who removes or
\* moves a directory.
Apart ==
  \A t, u \in Tasks :
    t # u /\ Working(t) /\ Working(u) =>
      /\ SamePlace(t, u) => ~ Writes(file[t].mode)
      /\ ~ (file[t].isdir /\ file[u].isdir /\ file[t].object = file[u].object)

Sound ==
  /\ EndsAreLast(dirs) /\ DirsAreInRoot(dirs) /\ Owned /\ Apart
  /\ \A t \in Tasks : Locals(op[t], file[t]) /\ World(t)

NInv == TInv /\ LocksOK /\ (strays = {} => Sound)
Good == TInv /\ LocksOK /\ Sound

-----------------------------------------------------------------------------
(* What follows from it. *)

LEMMA GoodTask ==
  ASSUME Good, NEW t \in Tasks
  PROVE  /\ TaskOK(op[t], file[t]) /\ Locals(op[t], file[t]) /\ World(t)
BY HasTask DEF Good, Sound

LEMMA Shape ==
  ASSUME TInv
  PROVE  /\ DOMAIN dirs = Clusters \cup {Root} /\ Root \notin Clusters /\ Root # 0 /\ 0 \notin Clusters
         /\ \A D, i : Place(D, i) => i \in Nat /\ IsSlot(dirs[D][i])
         /\ \A D \in Clusters \cup {Root} :
              DOMAIN dirs[D] = 0 .. SlotsOf(D) - 1 /\ SlotsOf(D) \in Nat
<1>1. DOMAIN dirs = Clusters \cup {Root} BY DEF TInv, AreDirs
<1>2. \A D \in Clusters \cup {Root} :
        DOMAIN dirs[D] = 0 .. SlotsOf(D) - 1 /\ SlotsOf(D) \in Nat
  BY DirIs
<1>3. \A D, i : Place(D, i) => i \in Nat /\ IsSlot(dirs[D][i])
  <2> SUFFICES ASSUME NEW D, NEW i, Place(D, i) PROVE i \in Nat /\ IsSlot(dirs[D][i]) OBVIOUS
  <2>1. IsSlot(dirs[D][i]) BY DEF TInv, AreDirs, Place
  <2>2. D \in Clusters \cup {Root} /\ i \in DOMAIN dirs[D] BY <1>1 DEF Place
  <2>3. i \in 0 .. SlotsOf(D) - 1 /\ SlotsOf(D) \in Nat BY <1>2, <2>2
  <2> QED BY <2>1, <2>3
<1> QED BY <1>1, <1>2, <1>3, NamesAssumption

LEMMA EntriesAre ==
  ASSUME TInv, EndsAreLast(dirs), NEW D \in DOMAIN dirs, NEW i
  PROVE  i \in Entries(dirs[D]) <=> IsEntry(D, i)
<1>1. CASE IsEntry(D, i)
  <2>1. i \in DOMAIN dirs[D] /\ dirs[D][i].kind = "entry" BY <1>1 DEF IsEntry, Place
  <2>2. DOMAIN dirs[D] = 0 .. SlotsOf(D) - 1 /\ SlotsOf(D) \in Nat BY Shape
  <2>3. \A j \in 0 .. i - 1 : j \in DOMAIN dirs[D] /\ j < i BY <2>1, <2>2
  <2>4. \A j \in 0 .. i - 1 : dirs[D][j].kind # "end" BY <2>1, <2>3 DEF EndsAreLast
  <2> QED BY <1>1, <2>1, <2>4 DEF Entries
<1> QED BY <1>1 DEF Entries, IsEntry, Place

\* The entry of a directory.
Leads(i, D) ==
  IsEntry(Root, i) /\ dirs[Root][i].isdir /\ dirs[Root][i].cluster = D /\ ~ Doomed(Root, i)

LEMMA AliveIs ==
  ASSUME TInv, EndsAreLast(dirs), NEW D
  PROVE  Alive(D) <=> (D = Root \/ \E i : Leads(i, D))
<1>1. Root \in DOMAIN dirs BY Shape
<1> QED BY <1>1, EntriesAre DEF Alive, Leads

LEMMA HeldIsUnder ==
  ASSUME NEW o, Held(o) PROVE "DIR" \in Under(o)
BY DEF Held, Under, Locks

\* Nobody else is at a directory then.
LEMMA Alone ==
  ASSUME TInv, LocksOK, NEW t \in Tasks, NEW u \in Tasks, Held(op[t]), "DIR" \in Under(op[u]),
         asks[u] = {}
  PROVE  u = t
<1>1. "DIR" \in has[t] /\ "DIR" \in has[u] BY DEF LocksOK
<1> QED BY <1>1 DEF TInv, LockInv, Exclusive

LEMMA HeldAlone ==
  ASSUME TInv, LocksOK, NEW t \in Tasks, NEW u \in Tasks, Held(op[t]), Held(op[u])
  PROVE  u = t
<1>1. "DIR" \in has[t] /\ "DIR" \in has[u] BY DEF LocksOK
<1> QED BY <1>1 DEF TInv, LockInv, Exclusive

\* A task that removes or moves something, or that writes.
Strong(t) == Working(t) /\ (Writes(file[t].mode) \/ file[t].isdir)

\* The mode that a function opens its file in.
LEMMA ModeIs ==
  ASSUME NEW o, o.phase # "only" <=> Fn(o) = "move"
  PROVE  /\ Fn(o) = "rmfile" \/ (Fn(o) = "move" /\ o.phase \in {"del", "src"}) => Mode(o) = {"W"}
         /\ Fn(o) = "rmdir" \/ (Fn(o) = "move" /\ o.phase = "srcdir") => Mode(o) = {"D"}
         /\ Fn(o) = "move" /\ o.phase = "dst" => Mode(o) = {"R"}
<1>1. CASE Fn(o) = "rmfile" BY <1>1 DEF Mode
<1>2. CASE Fn(o) = "rmdir" BY <1>2 DEF Mode
<1>3. CASE Fn(o) = "move" BY <1>3 DEF Mode
<1> QED BY <1>1, <1>2, <1>3

LEMMA Strongs ==
  ASSUME Good, NEW t \in Tasks,
         op[t].pc \in {"unlink", "made", "rmlfn", "erase", "grow", "enter", "note", "cut", "detach", "size"}
  PROVE  Strong(t)
<1>1. PICK o : o = op[t] OBVIOUS
<1>2. PICK f : f = file[t] OBVIOUS
<1>3. TaskOK(o, f) /\ HandleFits(o, f) BY <1>1, <1>2, GoodTask DEF Locals
<1>4. f # NoFile /\ o.pc # "leave" BY <1>1, <1>3 DEF TaskOK, AtPlace, Using
<1>5. CASE o.pc \in {"unlink", "made", "rmlfn", "erase"}
  <2>1. Removes(o) \/ o.phase \in {"src", "srcdir"} BY <1>3, <1>5 DEF TaskOK, FnsAt
  <2>2. Fn(o) \in {"rmfile", "rmdir"} \/ (Fn(o) = "move" /\ o.phase \in {"del", "src", "srcdir"})
    BY <1>3, <2>1 DEF Removes, TaskOK, AtPlace
  <2>3. f.mode = Mode(o) BY <1>3, <1>4, <2>2 DEF HandleFits
  <2>4. Mode(o) = {"W"} \/ Mode(o) = {"D"} BY <1>3, <2>2, ModeIs DEF TaskOK, AtPlace
  <2>5. "W" \in f.mode \/ "D" \in f.mode BY <2>3, <2>4
  <2> QED BY <1>1, <1>2, <1>3, <1>4, <2>5 DEF HandleFits, Strong, Working, Writes
<1>6. CASE o.pc \in {"grow", "enter", "note", "cut", "detach", "size"}
  BY <1>1, <1>2, <1>3, <1>4, <1>6 DEF HandleFits, Strong, Working
<1> QED BY <1>1, <1>5, <1>6

LEMMA StrongAlone ==
  ASSUME Good, NEW t \in Tasks, NEW u \in Tasks, t # u, Strong(t), Working(u)
  PROVE  ~ SamePlace(t, u)
<1> SUFFICES ASSUME SamePlace(t, u) PROVE FALSE OBVIOUS
<1>1. /\ ~ Writes(file[t].mode)
      /\ ~ (file[t].isdir /\ file[u].isdir /\ file[t].object = file[u].object)
  BY DEF Good, Sound, Apart, Strong
<1>2. HandleNamed(t) /\ HandleNamed(u) /\ HandleFits(op[t], file[t]) /\ HandleFits(op[u], file[u])
  BY GoodTask DEF World, Locals
<1>3. file[t].isdir /\ file[u].isdir
  BY <1>1, <1>2 DEF HandleNamed, Strong, SamePlace
<1>4. op[t].pc # "note" /\ op[u].pc # "note"
  BY <1>2, <1>3 DEF HandleFits, Strong, Working
<1>5. file[t].object = file[u].object BY <1>2, <1>4 DEF HandleNamed, Strong, SamePlace
<1> QED BY <1>1, <1>3, <1>5

\* Who takes the entry of a directory away: not who removes or moves a file.
LEMMA DirParts ==
  ASSUME Good, NEW t \in Tasks, op[t].pc \in Leaving,
         IsEntry(file[t].dir, file[t].slot), dirs[file[t].dir][file[t].slot].isdir
  PROVE  /\ file[t].isdir /\ op[t].pc \in {"made", "rmlfn", "erase"}
         /\ Fn(op[t]) = "rmdir" \/ Moving(op[t])
         /\ Working(t) /\ file[t].object = dirs[file[t].dir][file[t].slot].cluster
<1>1. PICK o : o = op[t] OBVIOUS
<1>2. PICK f : f = file[t] OBVIOUS
<1>3. TaskOK(o, f) /\ HandleFits(o, f) /\ HandleNamed(t) BY <1>1, <1>2, GoodTask DEF Locals, World
<1>4. f # NoFile /\ o.pc # "leave" BY <1>1, <1>3 DEF TaskOK, AtPlace, Using, Leaving
<1>5. f.isdir BY <1>1, <1>2, <1>3, <1>4 DEF HandleNamed, Working
<1>6. ~ Writes(f.mode) BY <1>3, <1>4, <1>5 DEF HandleFits
<1>7. o.pc \in {"made", "rmlfn", "erase"} BY <1>1, <1>3, <1>4, <1>6 DEF HandleFits, Leaving
<1>8. Removes(o) \/ o.phase \in {"src", "srcdir"} BY <1>3, <1>7 DEF TaskOK, FnsAt
<1>9. Fn(o) \in {"rmfile", "rmdir"} \/ (Fn(o) = "move" /\ o.phase \in {"del", "src", "srcdir"})
  BY <1>3, <1>8 DEF Removes, TaskOK, AtPlace
<1>10. f.mode = Mode(o) BY <1>3, <1>4, <1>9 DEF HandleFits
<1>11. Fn(o) = "rmdir" \/ (Fn(o) = "move" /\ o.phase \in {"src", "srcdir"})
  <2>1. Mode(o) # {"W"} BY <1>6, <1>10 DEF Writes
  <2>2. o.phase # "only" <=> Fn(o) = "move" BY <1>3 DEF TaskOK, AtPlace
  <2>3. ~ (Fn(o) = "rmfile" \/ (Fn(o) = "move" /\ o.phase = "del")) BY <2>1, <2>2, ModeIs
  <2> QED BY <1>9, <2>3
<1>13. Fn(o) = "rmdir" \/ Moving(o) BY <1>7, <1>11 DEF Moving
<1>14. Working(t) BY <1>1, <1>2, <1>4 DEF Working
<1>15. f.object = dirs[f.dir][f.slot].cluster BY <1>1, <1>2, <1>3, <1>7, <1>14 DEF HandleNamed
<1> QED BY <1>1, <1>2, <1>5, <1>7, <1>13, <1>14, <1>15

\* A directory that a path leads to has an entry that stays.
LEMMA AliveSettled ==
  ASSUME Good, NEW D \in Clusters, Alive(D)
  PROVE  /\ D \in used /\ (\A t \in Tasks : ~ Holds(t, D)) /\ part[D] = 0
         /\ \E i : Settled(Root, i, D)
<1>1. TInv /\ EndsAreLast(dirs) /\ Owned /\ Root # D BY Shape DEF Good, Sound
<1>2. PICK i : Leads(i, D) BY <1>1, AliveIs
<1>3. Alive(Root) BY DEF Alive
<1>4. \E j : Settled(Root, j, D)
  <2>1. CASE ~ Parting(Root, i) BY <1>2, <1>3, <2>1 DEF Settled, Live, Leads
  <2>2. CASE Parting(Root, i)
    <3>1. PICK u \in Tasks : op[u].pc \in Leaving /\ file[u].dir = Root /\ file[u].slot = i
      BY <2>2 DEF Parting
    <3>2. /\ file[u].isdir /\ op[u].pc \in {"made", "rmlfn", "erase"} /\ Working(u)
          /\ Fn(op[u]) = "rmdir" \/ Moving(op[u])
          /\ file[u].object = D
      BY <1>2, <3>1, DirParts DEF Leads
    <3>3. Moving(op[u])
      <4>1. op[u].pc = "made" => Fn(op[u]) = "move" BY GoodTask DEF TaskOK, FnsAt, AtPlace
      <4> QED BY <1>2, <3>1, <3>2, <4>1 DEF Leads, Doomed, Fn
    <3>4. Moved(op[u], file[u]) /\ NestedOK(op[u], file[u]) BY GoodTask DEF World, Locals
    <3>7. op[u].dir = Root BY <3>2, <3>3, <3>4 DEF NestedOK, Moving
    <3>8. PICK j : j = op[u].slot OBVIOUS
    <3>9. /\ IsEntry(Root, j) /\ dirs[Root][j].isdir /\ dirs[Root][j].cluster = D /\ j # i
      BY <3>1, <3>2, <3>3, <3>4, <3>7, <3>8 DEF Moved
    <3>10. ~ Parting(Root, j)
      <4> SUFFICES ASSUME NEW v \in Tasks, op[v].pc \in Leaving, file[v].dir = Root, file[v].slot = j
                   PROVE FALSE
        BY DEF Parting
      <4>1. file[v].isdir /\ Working(v) /\ file[v].object = D BY <3>9, DirParts
      <4>2. v = u BY <3>2, <4>1 DEF Good, Sound, Apart
      <4> QED BY <3>1, <3>9, <4>2
    <3> QED BY <1>3, <3>9, <3>10 DEF Settled, Live
  <2> QED BY <2>1, <2>2
<1> QED BY <1>1, <1>4 DEF Owned, OwnedOne

-----------------------------------------------------------------------------
(* What a step does to the slots, and what the other tasks see of it.       *)

\* A new entry or its long name,
Filled(t, D, i) ==
  /\ op[t].pc \in {"lfn", "entry"} /\ D = op[t].dir /\ FreeAt(D, i)
  /\ op[t].pc = "lfn" => dirs'[D][i].kind = "lfn"
  /\ op[t].pc = "entry" => i = op[t].slot /\ dirs'[D][i] = NewEntry(t)

\* "." or "..", and before them the cleared cluster,
Dotted(t, D, i) ==
  op[t].pc \in Dotting /\ D = op[t].new /\ FreeAt(D, i) /\ dirs'[D][i] = Dots
Blanked(t, D, i) ==
  /\ op[t].pc = "claim" /\ D \in Clusters \ used /\ \A u \in Tasks : op[u].dir # D
  /\ \A j \in DOMAIN dirs[D] : dirs'[D][j] = End

\* the entry of an open file,
AtFile(t, D, i) == D = file[t].dir /\ i = file[t].slot
Written(t, D, i) ==
  /\ op[t].pc \in {"enter", "detach", "size"} /\ AtFile(t, D, i)
  /\ dirs'[D][i].kind = "entry"
  /\ dirs'[D][i].alias = dirs[D][i].alias /\ dirs'[D][i].isdir = dirs[D][i].isdir
  /\ op[t].pc = "enter" => dirs'[D][i].cluster = op[t].new
  /\ op[t].pc = "detach" => dirs'[D][i].cluster = 0
  /\ op[t].pc = "size" => dirs'[D][i].cluster = dirs[D][i].cluster

\* or an entry and its long name that are removed.
Dropped(t, D, i) ==
  op[t].pc = "rmlfn" /\ dirs[D][i].kind = "lfn" /\ dirs'[D][i] = Deleted
Erased(t, D, i) == op[t].pc = "erase" /\ AtFile(t, D, i) /\ dirs'[D][i] = Deleted

Effect(t) ==
  \A D, i : Place(D, i) =>
    \/ dirs'[D][i] = dirs[D][i]
    \/ Filled(t, D, i) \/ Dotted(t, D, i) \/ Blanked(t, D, i)
    \/ Written(t, D, i) \/ Dropped(t, D, i) \/ Erased(t, D, i)

\* Who starts to remove a directory has freed it; who was removing goes on or is done.
Dooming(t) == op[t].pc = "unlink" /\ Fn(op[t]) = "rmdir" /\ op'[t].pc = "rmlfn"
Dooms(t) ==
  Fn(op'[t]) = "rmdir" /\ op'[t].pc \in {"rmlfn", "erase"} =>
    Fn(op[t]) = "rmdir" /\ (Dooming(t) \/ op[t].pc = "rmlfn") /\ file'[t] = file[t]
Leaves(t) ==
  op[t].pc \in Leaving =>
    \/ /\ op[t].pc \in {"made", "rmlfn"} /\ op'[t].pc \in {"rmlfn", "erase"}
       /\ file'[t] = file[t] /\ Fn(op'[t]) = Fn(op[t])
    \/ op[t].pc = "erase" /\ dirs'[file[t].dir][file[t].slot] = Deleted
    \/ op[t].pc = "detach" /\ dirs'[file[t].dir][file[t].slot].cluster = 0

\* Where a task goes, and with which handle.
Heads(t) == op'[t].dir \in {op[t].dir, Root, 0} \/ Alive(op'[t].dir)
Completes(t) ==
  op'[t].pc \in Dotting =>
    /\ op'[t].new = op[t].new
    /\ op[t].pc \in Dotting \/ (op[t].pc = "entry" /\ Fn(op[t]) = "mkdir")
Frees(t) == Dooming(t) => ~ Unfinished(file[t].object)
Carries(t) ==
  Working(t)' =>
    /\ Working(t) /\ file'[t].dir = file[t].dir /\ file'[t].slot = file[t].slot
    /\ file'[t].mode = file[t].mode /\ file'[t].isdir = file[t].isdir
    /\ file[t].isdir => file'[t].object = file[t].object

OthersStay(t) == \A u \in Tasks \ {t} : op'[u] = op[u] /\ file'[u] = file[u]

StepOK(t) ==
  /\ asks[t] = {} /\ OthersStay(t) /\ Effect(t)
  /\ Dooms(t) /\ Leaves(t) /\ Heads(t) /\ Completes(t) /\ Frees(t)

LEMMA SamePlaces ==
  ASSUME TInv, TInv', NEW D, NEW i
  PROVE  Place(D, i)' <=> Place(D, i)
<1>1. DOMAIN dirs = Clusters \cup {Root} /\ DOMAIN dirs' = Clusters \cup {Root}
  BY DEF TInv, AreDirs
<1>2. \A E \in Clusters \cup {Root} : DOMAIN dirs[E] = 0 .. SlotsOf(E) - 1 BY DirIs
<1>3. \A E \in Clusters \cup {Root} : DOMAIN dirs'[E] = 0 .. SlotsOf(E) - 1
  BY DEF TInv, AreDirs
<1> QED BY <1>1, <1>2, <1>3 DEF Place

LEMMA NewEntryIs ==
  ASSUME Good, NEW t \in Tasks, op[t].pc = "entry", NEW e, e = NewEntry(t)
  PROVE  /\ e.kind = "entry"
         /\ \/ Fn(op[t]) \in {"open", "mkdir"} /\ e.cluster = op[t].new
               /\ (e.isdir <=> Fn(op[t]) = "mkdir")
            \/ /\ Fn(op[t]) = "move" /\ op[t].phase \in {"src", "srcdir"} /\ Working(t)
               /\ e.cluster = file[t].object /\ e.isdir = file[t].isdir
         /\ e.isdir => op[t].dir = Root
<1>1. TaskOK(op[t], file[t]) /\ NestedOK(op[t], file[t]) BY GoodTask DEF Locals
<1>2. Fn(op[t]) \in {"open", "mkdir"} \/ (Fn(op[t]) = "move" /\ op[t].phase \in {"src", "srcdir"})
  BY <1>1 DEF TaskOK, FnsAt, AtPlace, Creating
<1>3. CASE Fn(op[t]) = "open" BY <1>3 DEF NewEntry, Entry
<1>4. CASE Fn(op[t]) = "mkdir"
  <2>1. op[t].dir = Root BY <1>1, <1>4 DEF TaskOK, FnsAt
  <2> QED BY <1>4, <2>1 DEF NewEntry, Entry
<1>5. CASE Fn(op[t]) = "move"
  <2>1. file[t] # NoFile BY <1>1, <1>5 DEF TaskOK, AtPlace, Creating
  <2>2. /\ e.kind = "entry" /\ e.cluster = file[t].object /\ e.isdir = file[t].isdir
    BY <1>5 DEF NewEntry, Entry
  <2>3. e.isdir => op[t].dir = Root BY <1>1, <1>2, <1>5, <2>2 DEF NestedOK, Creating
  <2> QED BY <1>2, <1>5, <2>1, <2>2, <2>3 DEF Working
<1> QED BY <1>2, <1>3, <1>4, <1>5

LEMMA NotBlanked ==
  ASSUME Good, NEW t, NEW D, NEW i, Alive(D) \/ \E u \in Tasks : op[u].dir = D
  PROVE  ~ Blanked(t, D, i)
BY AliveSettled DEF Blanked

\* Entries are changed by who removes them or writes to them.
LEMMA EntryKept ==
  ASSUME Good, TInv', NEW t \in Tasks, StepOK(t), NEW D, NEW i, IsEntry(D, i),
         Alive(D) \/ \E u \in Tasks : op[u].dir = D,
         ~ (op[t].pc = "erase" /\ AtFile(t, D, i))
  PROVE  /\ IsEntry(D, i)' /\ dirs'[D][i].isdir = dirs[D][i].isdir
         /\ dirs'[D][i].alias = dirs[D][i].alias
         /\ \/ dirs'[D][i].cluster = dirs[D][i].cluster
            \/ op[t].pc = "enter" /\ AtFile(t, D, i) /\ dirs'[D][i].cluster = op[t].new
            \/ op[t].pc = "detach" /\ AtFile(t, D, i) /\ dirs'[D][i].cluster = 0
<1>1. Place(D, i) /\ Place(D, i)' /\ dirs[D][i].kind = "entry" BY SamePlaces DEF IsEntry, Good
<1>2. ~ Blanked(t, D, i) BY NotBlanked
<1>3. dirs'[D][i] = dirs[D][i] \/ Written(t, D, i)
  BY <1>1, <1>2 DEF StepOK, Effect, Filled, Dotted, FreeAt, Dropped, Erased
<1> QED BY <1>1, <1>3 DEF IsEntry, Written

\* A new entry is that of its creator.
LEMMA EntryNew ==
  ASSUME Good, TInv', NEW t \in Tasks, StepOK(t), NEW D, NEW i, IsEntry(D, i)'
  PROVE  \/ /\ ~ IsEntry(D, i) /\ FreeAt(D, i) /\ op[t].pc = "entry" /\ D = op[t].dir
            /\ i = op[t].slot /\ dirs'[D][i] = NewEntry(t)
         \/ /\ IsEntry(D, i) /\ dirs'[D][i].isdir = dirs[D][i].isdir
            /\ \/ dirs'[D][i].cluster = dirs[D][i].cluster
               \/ op[t].pc = "enter" /\ AtFile(t, D, i) /\ dirs'[D][i].cluster = op[t].new
               \/ op[t].pc = "detach" /\ AtFile(t, D, i) /\ dirs'[D][i].cluster = 0
<1>1. Place(D, i) /\ dirs'[D][i].kind = "entry" BY SamePlaces DEF IsEntry, Good
<1>2. End.kind = "end" /\ Deleted.kind = "deleted" /\ Dots.kind = "dots" BY DEF End, Deleted, Dots
<1>3. dirs'[D][i] = dirs[D][i] \/ Filled(t, D, i) \/ Written(t, D, i)
  BY <1>1, <1>2 DEF StepOK, Effect, Dotted, Blanked, Dropped, Erased, Place
<1>4. CASE dirs'[D][i] = dirs[D][i] BY <1>1, <1>4 DEF IsEntry
<1>5. CASE Filled(t, D, i) BY <1>1, <1>5 DEF Filled, FreeAt, IsEntry
<1>6. CASE Written(t, D, i)
  <2>1. op[t].pc \in {"enter", "detach", "size"} /\ AtFile(t, D, i) BY <1>6 DEF Written
  <2>2. Strong(t) /\ HandleNamed(t) BY <2>1, Strongs, GoodTask DEF World
  <2>3. IsEntry(D, i) BY <2>1, <2>2 DEF HandleNamed, Strong, AtFile, Live
  <2> QED BY <1>6, <2>1, <2>3 DEF Written
<1> QED BY <1>3, <1>4, <1>5, <1>6

LEMMA DoomedNew ==
  ASSUME NEW t \in Tasks, StepOK(t), NEW D, NEW i, Doomed(D, i)'
  PROVE  Doomed(D, i) \/ (Dooming(t) /\ AtFile(t, D, i))
<1>1. PICK u \in Tasks : /\ Fn(op'[u]) = "rmdir" /\ op'[u].pc \in {"rmlfn", "erase"}
                         /\ file'[u].dir = D /\ file'[u].slot = i
  BY DEF Doomed, Fn
<1>2. CASE u # t BY <1>1, <1>2 DEF StepOK, OthersStay, Doomed, Fn
<1>3. CASE u = t BY <1>1, <1>3 DEF StepOK, Dooms, Doomed, Fn, AtFile
<1> QED BY <1>2, <1>3

LEMMA DoomedKept ==
  ASSUME NEW t \in Tasks, StepOK(t), NEW D, NEW i, Doomed(D, i), IsEntry(D, i)'
  PROVE  Doomed(D, i)'
<1>1. PICK u \in Tasks : /\ Fn(op[u]) = "rmdir" /\ op[u].pc \in {"rmlfn", "erase"}
                         /\ file[u].dir = D /\ file[u].slot = i
  BY DEF Doomed, Fn
<1>2. CASE u # t BY <1>1, <1>2 DEF StepOK, OthersStay, Doomed, Fn
<1>3. CASE u = t
  <2>1. Deleted.kind # "entry" BY DEF Deleted
  <2>2. op'[t].pc \in {"rmlfn", "erase"} /\ file'[t] = file[t] /\ Fn(op'[t]) = Fn(op[t])
    BY <1>1, <1>3, <2>1 DEF StepOK, Leaves, Leaving, IsEntry
  <2> QED BY <1>1, <1>3, <2>2 DEF Doomed, Fn
<1> QED BY <1>2, <1>3

\* A path leads to the same directories as before, but for one that is freed or made.
AliveRight == \A D : Alive(D) <=> (D = Root \/ \E i : Leads(i, D))

LEMMA AliveDirs == TInv /\ EndsAreLast(dirs) => AliveRight
BY AliveIs DEF AliveRight

LEMMA AliveKept ==
  ASSUME Good, TInv', EndsAreLast(dirs)', NEW t \in Tasks, StepOK(t), NEW D, Alive(D),
         ~ (Dooming(t) /\ D = file[t].object)
  PROVE  Alive(D)'
<1>1. TInv /\ EndsAreLast(dirs) /\ LocksOK BY DEF Good, Sound
<1>0. AliveRight' BY AliveDirs, PTL
<1>2. \A E : Alive(E)' <=> (E = Root \/ \E i : Leads(i, E)') BY <1>0 DEF AliveRight
<1>3. CASE D = Root BY <1>2, <1>3
<1>4. CASE D # Root
  <2>1. PICK i : Leads(i, D) BY <1>1, <1>4, AliveDirs DEF AliveRight
  <2>2. Alive(Root) BY DEF Alive
  <2>3. CASE ~ (op[t].pc = "erase" /\ AtFile(t, Root, i))
    <3>1. /\ IsEntry(Root, i)' /\ dirs'[Root][i].isdir = dirs[Root][i].isdir
          /\ \/ dirs'[Root][i].cluster = dirs[Root][i].cluster
             \/ op[t].pc \in {"enter", "detach"} /\ AtFile(t, Root, i)
      <4>1. IsEntry(Root, i) BY <2>1 DEF Leads
      <4> QED BY <2>2, <2>3, <4>1, EntryKept
    <3>2. ~ (op[t].pc \in {"enter", "detach"} /\ AtFile(t, Root, i))
      <4> SUFFICES ASSUME op[t].pc \in {"enter", "detach"}, AtFile(t, Root, i) PROVE FALSE OBVIOUS
      <4>1. Strong(t) /\ HandleNamed(t) /\ HandleFits(op[t], file[t])
        BY Strongs, GoodTask DEF World, Locals
      <4> QED BY <2>1, <4>1 DEF Strong, HandleNamed, HandleFits, AtFile, Working, Leads
    <3>3. ~ Doomed(Root, i)'
      <4> SUFFICES ASSUME Doomed(Root, i)' PROVE FALSE OBVIOUS
      <4>1. Dooming(t) /\ AtFile(t, Root, i) BY <2>1, DoomedNew DEF Leads
      <4>2. Strong(t) /\ HandleNamed(t) BY <4>1, Strongs, GoodTask DEF World, Dooming
      <4>3. file[t].object = D BY <2>1, <4>1, <4>2 DEF Strong, HandleNamed, AtFile, Dooming, Leads
      <4> QED BY <4>1, <4>3
    <3>4. Leads(i, D)' BY <2>1, <3>1, <3>2, <3>3 DEF Leads
    <3> QED BY <1>2, <3>4
  <2>4. CASE op[t].pc = "erase" /\ AtFile(t, Root, i)
    <3>1. file[t].isdir /\ Held(op[t]) /\ (Fn(op[t]) = "rmdir" \/ Moving(op[t]))
      BY <2>1, <2>4, DirParts DEF Leads, AtFile, Leaving, Held
    <3>2. Fn(op[t]) # "rmdir" BY <2>1, <2>4 DEF Leads, Doomed, Fn, AtFile
    <3>3. Moved(op[t], file[t]) /\ NestedOK(op[t], file[t]) /\ HandleNamed(t) /\ Strong(t)
      BY <2>4, GoodTask, Strongs DEF World, Locals
    <3>4. file[t].object = D BY <2>1, <2>4, <3>3 DEF HandleNamed, AtFile, Leads, Strong
    <3>5. op[t].dir = Root BY <2>4, <3>1, <3>2, <3>3 DEF NestedOK, Moving
    <3>6. PICK j : j = op[t].slot OBVIOUS
    <3>7. /\ IsEntry(Root, j) /\ dirs[Root][j].isdir /\ dirs[Root][j].cluster = D
          /\ ~ AtFile(t, Root, j)
      BY <2>4, <3>1, <3>2, <3>3, <3>4, <3>5, <3>6 DEF Moved, AtFile
    <3>8. /\ IsEntry(Root, j)' /\ dirs'[Root][j].isdir /\ dirs'[Root][j].cluster = D
      BY <2>2, <3>7, EntryKept
    <3>9. ~ Doomed(Root, j)'
      <4> SUFFICES ASSUME Doomed(Root, j)' PROVE FALSE OBVIOUS
      <4>1. Doomed(Root, j) BY <2>4, DoomedNew DEF Dooming
      <4>2. PICK v \in Tasks : /\ Fn(op[v]) = "rmdir" /\ op[v].pc \in {"rmlfn", "erase"}
                               /\ file[v].dir = Root /\ file[v].slot = j
        BY <4>1 DEF Doomed, Fn
      <4>3. Held(op[v]) BY <4>2 DEF Held
      <4>4. v = t BY <1>1, <3>1, <4>3, HeldAlone
      <4> QED BY <3>2, <4>2, <4>4
    <3>10. Leads(j, D)' BY <3>8, <3>9 DEF Leads
    <3> QED BY <1>2, <3>10
  <2> QED BY <2>3, <2>4
<1> QED BY <1>3, <1>4

LEMMA AliveNew ==
  ASSUME Good, TInv', EndsAreLast(dirs)', NEW t \in Tasks, StepOK(t), NEW D, Alive(D)'
  PROVE  Alive(D) \/ (op[t].pc = "entry" /\ Fn(op[t]) = "mkdir" /\ D = op[t].new)
<1>1. TInv /\ EndsAreLast(dirs) /\ LocksOK BY DEF Good, Sound
<1>0. AliveRight' BY AliveDirs, PTL
<1>2. \A E : Alive(E)' <=> (E = Root \/ \E i : Leads(i, E)') BY <1>0 DEF AliveRight
<1>3. CASE D = Root BY <1>1, <1>3, AliveDirs DEF AliveRight
<1>4. CASE D # Root
  <2>1. PICK i : Leads(i, D)' BY <1>2, <1>4
  <2>2. IsEntry(Root, i)' /\ dirs'[Root][i].isdir /\ dirs'[Root][i].cluster = D /\ ~ Doomed(Root, i)'
    BY <2>1 DEF Leads
  <2>3. ~ Doomed(Root, i) BY <2>2, DoomedKept
  <2>4. CASE ~ IsEntry(Root, i)
    <3>1. /\ op[t].pc = "entry" /\ Root = op[t].dir /\ i = op[t].slot
          /\ dirs'[Root][i] = NewEntry(t)
      BY <2>2, <2>4, EntryNew
    <3>2. PICK e : e = NewEntry(t) OBVIOUS
    <3>3. e.isdir /\ e.cluster = D BY <2>2, <3>1, <3>2
    <3>4. CASE Fn(op[t]) \in {"open", "mkdir"} /\ e.cluster = op[t].new /\ (e.isdir <=> Fn(op[t]) = "mkdir")
      BY <3>1, <3>3, <3>4
    <3>5. CASE Fn(op[t]) = "move" /\ Working(t) /\ e.cluster = file[t].object /\ e.isdir = file[t].isdir
      <4>1. PICK E, j : E = file[t].dir /\ j = file[t].slot OBVIOUS
      <4>2. HandleNamed(t) /\ Strong(t) BY <3>3, <3>5, GoodTask DEF World, Strong
      <4>3. IsEntry(E, j) /\ dirs[E][j].isdir /\ dirs[E][j].cluster = D
        BY <3>1, <3>3, <3>5, <4>1, <4>2 DEF HandleNamed, Live
      <4>4. E = Root BY <4>3 DEF Good, Sound, DirsAreInRoot, IsEntry, Place
      <4>5. ~ Doomed(Root, j)
        <5> SUFFICES ASSUME Doomed(Root, j) PROVE FALSE OBVIOUS
        <5>1. PICK v \in Tasks : /\ Fn(op[v]) = "rmdir" /\ op[v].pc \in {"rmlfn", "erase"}
                                 /\ file[v].dir = Root /\ file[v].slot = j
          BY DEF Doomed, Fn
        <5>2. v # t BY <3>1, <5>1
        <5>3. Working(v) BY <5>1, Strongs DEF Strong
        <5>4. SamePlace(t, v) BY <4>1, <4>4, <5>1 DEF SamePlace
        <5> QED BY <4>2, <5>2, <5>3, <5>4, StrongAlone
      <4> QED BY <1>1, <4>3, <4>4, <4>5, AliveDirs DEF Leads, AliveRight
    <3> QED BY <3>1, <3>2, <3>4, <3>5, NewEntryIs
  <2>5. CASE IsEntry(Root, i)
    <3>1. dirs[Root][i].isdir /\ \/ dirs[Root][i].cluster = D
                                 \/ op[t].pc \in {"enter", "detach"} /\ AtFile(t, Root, i)
      BY <2>2, <2>5, EntryNew
    <3>2. ~ (op[t].pc \in {"enter", "detach"} /\ AtFile(t, Root, i))
      <4> SUFFICES ASSUME op[t].pc \in {"enter", "detach"}, AtFile(t, Root, i) PROVE FALSE OBVIOUS
      <4>1. Strong(t) /\ HandleNamed(t) /\ HandleFits(op[t], file[t])
        BY Strongs, GoodTask DEF World, Locals
      <4> QED BY <3>1, <4>1 DEF Strong, HandleNamed, HandleFits, AtFile, Working
    <3> QED BY <1>1, <2>3, <2>5, <3>1, <3>2, AliveDirs DEF Leads, AliveRight
  <2> QED BY <2>4, <2>5
<1> QED BY <1>3, <1>4

LEMMA LiveKept ==
  ASSUME Good, TInv', EndsAreLast(dirs)', NEW t \in Tasks, StepOK(t), NEW D, NEW i, Live(D, i),
         ~ (op[t].pc = "erase" /\ AtFile(t, D, i))
  PROVE  /\ Live(D, i)' /\ dirs'[D][i].isdir = dirs[D][i].isdir
         /\ \/ dirs'[D][i].cluster = dirs[D][i].cluster
            \/ op[t].pc = "enter" /\ AtFile(t, D, i) /\ dirs'[D][i].cluster = op[t].new
            \/ op[t].pc = "detach" /\ AtFile(t, D, i) /\ dirs'[D][i].cluster = 0
<1>1. IsEntry(D, i) /\ Alive(D) BY DEF Live
<1>2. ~ (Dooming(t) /\ D = file[t].object)
  BY <1>1, GoodTask DEF World, Emptied, Dooming
<1>3. Alive(D)' BY <1>1, <1>2, AliveKept
<1>4. /\ IsEntry(D, i)' /\ dirs'[D][i].isdir = dirs[D][i].isdir
      /\ \/ dirs'[D][i].cluster = dirs[D][i].cluster
         \/ op[t].pc = "enter" /\ AtFile(t, D, i) /\ dirs'[D][i].cluster = op[t].new
         \/ op[t].pc = "detach" /\ AtFile(t, D, i) /\ dirs'[D][i].cluster = 0
  BY <1>1, EntryKept
<1> QED BY <1>3, <1>4 DEF Live

LEMMA OthersNamed ==
  ASSUME Good, TInv', EndsAreLast(dirs)', NEW t \in Tasks, StepOK(t), NEW u \in Tasks, u # t
  PROVE  HandleNamed(u)'
<1>1. op'[u] = op[u] /\ file'[u] = file[u] BY DEF StepOK, OthersStay
<1> SUFFICES ASSUME Working(u) PROVE HandleNamed(u)' BY <1>1 DEF HandleNamed, Working
<1>2. HandleNamed(u) BY GoodTask DEF World
<1>3. PICK D, i : D = file[u].dir /\ i = file[u].slot OBVIOUS
<1>4. op[t].pc \in {"erase", "enter", "detach"} => ~ AtFile(t, D, i)
  BY <1>3, Strongs, StrongAlone DEF AtFile, SamePlace
<1>5. Live(D, i) BY <1>2, <1>3 DEF HandleNamed
<1>6. /\ Live(D, i)' /\ dirs'[D][i].isdir = dirs[D][i].isdir
      /\ dirs'[D][i].cluster = dirs[D][i].cluster
  BY <1>4, <1>5, LiveKept
<1> QED BY <1>1, <1>2, <1>3, <1>6 DEF HandleNamed

\* No end mark comes up where a task is at work.
LEMMA NoNewEnd ==
  ASSUME Good, NEW t \in Tasks, StepOK(t), NEW u \in Tasks, NEW j, Place(op[u].dir, j),
         dirs[op[u].dir][j].kind # "end"
  PROVE  dirs'[op[u].dir][j].kind # "end"
<1>1. PICK D : D = op[u].dir OBVIOUS
<1>2. ~ Blanked(t, D, j) BY <1>1, NotBlanked
<1>3. Deleted.kind = "deleted" /\ Dots.kind = "dots" BY DEF Deleted, Dots
<1>4. op[t].pc = "entry" => NewEntry(t).kind = "entry" BY NewEntryIs
<1>5. CASE dirs'[D][j] = dirs[D][j] BY <1>1, <1>5
<1>6. CASE Filled(t, D, j) BY <1>1, <1>4, <1>6 DEF Filled
<1>7. CASE Dotted(t, D, j) BY <1>1, <1>3, <1>7 DEF Dotted
<1>8. CASE Written(t, D, j) BY <1>1, <1>8 DEF Written
<1>9. CASE Dropped(t, D, j) \/ Erased(t, D, j) BY <1>1, <1>3, <1>9 DEF Dropped, Erased
<1> QED BY <1>1, <1>2, <1>5, <1>6, <1>7, <1>8, <1>9 DEF StepOK, Effect

\* Who fills slots has the directory lock.
LEMMA OthersFree ==
  ASSUME Good, TInv', NEW t \in Tasks, StepOK(t), NEW u \in Tasks, u # t, Held(op[u]),
         ~ Unfinished(op[u].dir), NEW j, Place(op[u].dir, j),
         dirs[op[u].dir][j].kind \in {"end", "deleted"}
  PROVE  dirs'[op[u].dir][j].kind \in {"end", "deleted"}
<1>1. PICK D : D = op[u].dir OBVIOUS
<1>2. ~ Blanked(t, D, j) BY <1>1, NotBlanked
<1>3. asks[t] = {} BY DEF StepOK
<1>4. "DIR" \notin Under(op[t]) BY <1>3, Alone DEF Good
<1>5. op[t].pc \notin {"lfn", "entry", "rmlfn", "erase"} BY <1>4 DEF Under
<1>6. ~ Dotted(t, D, j) BY <1>1 DEF Dotted, Unfinished, Dotting
<1>7. ~ Written(t, D, j)
  <2> SUFFICES ASSUME Written(t, D, j) PROVE FALSE OBVIOUS
  <2>1. op[t].pc \in {"enter", "detach", "size"} /\ AtFile(t, D, j) BY DEF Written
  <2>2. Strong(t) /\ HandleNamed(t) BY <2>1, Strongs, GoodTask DEF World
  <2>3. IsEntry(D, j) BY <2>1, <2>2 DEF HandleNamed, Strong, AtFile, Live
  <2> QED BY <1>1, <2>3 DEF IsEntry
<1>8. dirs'[D][j] = dirs[D][j]
  BY <1>1, <1>2, <1>5, <1>6, <1>7 DEF StepOK, Effect, Filled, Dropped, Erased
<1> QED BY <1>1, <1>8

LEMMA OthersFreeAt ==
  ASSUME Good, TInv', NEW t \in Tasks, StepOK(t), NEW u \in Tasks, u # t, Held(op[u]),
         ~ Unfinished(op[u].dir), NEW i, FreeAt(op[u].dir, i)
  PROVE  FreeAt(op[u].dir, i)'
<1>1. PICK D : D = op[u].dir OBVIOUS
<1>2. op'[u] = op[u] BY DEF StepOK, OthersStay
<1>3. Place(D, i) /\ Place(D, i)' /\ dirs'[D][i].kind \in {"end", "deleted"}
  BY <1>1, SamePlaces, OthersFree DEF FreeAt, Good
<1>4. ASSUME NEW j \in DOMAIN dirs'[D], j < i PROVE dirs'[D][j].kind # "end"
  <2>1. Place(D, j)' BY <1>3, <1>4 DEF Place
  <2>2. Place(D, j) BY <2>1, SamePlaces DEF Good
  <2>3. dirs[D][j].kind # "end" BY <1>1, <1>4, <2>2 DEF FreeAt, Place
  <2> QED BY <1>1, <2>2, <2>3, NoNewEnd
<1> QED BY <1>1, <1>2, <1>3, <1>4 DEF FreeAt

LEMMA OthersPlanned ==
  ASSUME Good, TInv', NEW t \in Tasks, StepOK(t), NEW u \in Tasks, u # t
  PROVE  Unstarted(op[u])' /\ Planned(op[u])'
<1>1. PICK o : o = op[u] OBVIOUS
<1>2. op'[u] = o BY <1>1 DEF StepOK, OthersStay
<1>3. Unstarted(o) /\ Planned(o) BY <1>1, GoodTask DEF World
<1>4. Unstarted(op[u])'
  <2> SUFFICES ASSUME o.pc \in {"claim", "plan"}, NEW j \in DOMAIN dirs'[o.dir], j < o.free
               PROVE  dirs'[o.dir][j].kind # "end"
    BY <1>2 DEF Unstarted
  <2>1. o.dir # 0 /\ o.dir \in Clusters \cup {Root, 0} BY <1>1, GoodTask DEF TaskOK, FnsAt, IsOp, Creating
  <2>2. o.dir \in DOMAIN dirs' BY <2>1 DEF TInv, AreDirs
  <2>3. Place(o.dir, j)' BY <1>2, <2>2 DEF Place
  <2>4. Place(o.dir, j) BY <2>3, <1>1, <1>2, SamePlaces DEF Good
  <2>5. dirs[o.dir][j].kind # "end" BY <1>3, <2>4 DEF Unstarted, Place
  <2> QED BY <1>1, <2>4, <2>5, NoNewEnd
<1>5. Planned(op[u])'
  <2> SUFFICES ASSUME Begun(o) \in {"lfn", "entry"} PROVE Planned(op[u])'
    BY <1>2 DEF Planned, Begun, Making, NewPath, Fn
  <2>0. Begun(op[u])' = Begun(o) BY <1>2 DEF Begun, Making, NewPath, Fn
  <2>1. Held(o) /\ ~ Unfinished(o.dir) BY <1>3 DEF Held, Planned, Begun
  <2>2. "DIR" \notin Under(op[t]) BY <1>1, <2>1, Alone DEF Good, StepOK
  <2>3. op[t].pc # "entry" BY <2>2 DEF Under
  <2>4. ~ Unfinished(o.dir)'
    <3> SUFFICES ASSUME NEW v \in Tasks, op'[v].pc \in Dotting, op'[v].new = o.dir PROVE FALSE
      BY <1>2 DEF Unfinished, Dotting
    <3>1. CASE v = t BY <2>1, <2>3, <3>1 DEF StepOK, Completes, Unfinished, Dotting
    <3>2. CASE v # t BY <2>1, <3>2 DEF StepOK, OthersStay, Unfinished, Dotting
    <3> QED BY <3>1, <3>2
  <2>5. CASE Begun(o) = "lfn"
    <3>1. FreeAt(o.dir, o.slot - 1) /\ Place(o.dir, o.slot)
          /\ dirs[o.dir][o.slot].kind \in {"end", "deleted"}
      BY <1>3, <2>5 DEF Planned
    <3>2. FreeAt(op[u].dir, o.slot - 1)' BY <1>1, <2>1, <3>1, OthersFreeAt
    <3>3. Place(o.dir, o.slot)' BY <3>1, SamePlaces DEF Good
    <3>4. dirs'[o.dir][o.slot].kind \in {"end", "deleted"} BY <1>1, <2>1, <3>1, OthersFree
    <3> QED BY <1>1, <1>2, <2>0, <2>4, <2>5, <3>2, <3>3, <3>4 DEF Planned
  <2>6. CASE Begun(o) = "entry"
    <3>1. FreeAt(o.dir, o.slot) BY <1>3, <2>6 DEF Planned
    <3>2. FreeAt(op[u].dir, o.slot)' BY <1>1, <2>1, <3>1, OthersFreeAt
    <3> QED BY <1>1, <1>2, <2>0, <2>4, <2>6, <3>2 DEF Planned
  <2> QED BY <2>5, <2>6
<1> QED BY <1>4, <1>5

LEMMA OthersEmptied ==
  ASSUME Good, TInv', NEW t \in Tasks, StepOK(t), NEW u \in Tasks, u # t
  PROVE  Emptied(op[u], file[u])'
<1>1. PICK o, f : o = op[u] /\ f = file[u] OBVIOUS
<1>2. op'[u] = o /\ file'[u] = f BY <1>1 DEF StepOK, OthersStay
<1> SUFFICES ASSUME o.pc = "unlink", Fn(o) = "rmdir", NEW i, IsEntry(f.object, i)' PROVE FALSE
  BY <1>2 DEF Emptied
<1>3. Held(o) BY DEF Held
<1>4. "DIR" \notin Under(op[t]) BY <1>1, <1>3, Alone DEF Good, StepOK
<1>5. op[t].pc # "entry" BY <1>4 DEF Under
<1>6. IsEntry(f.object, i) BY <1>5, EntryNew
<1> QED BY <1>1, <1>6, GoodTask DEF World, Emptied

LEMMA OthersMoved ==
  ASSUME Good, TInv', NEW t \in Tasks, StepOK(t), NEW u \in Tasks, u # t
  PROVE  Moved(op[u], file[u])'
<1>1. PICK o, f : o = op[u] /\ f = file[u] OBVIOUS
<1>2. op'[u] = o /\ file'[u] = f BY <1>1 DEF StepOK, OthersStay
<1>3. Moved(o, f) /\ NestedOK(o, f) BY <1>1, GoodTask DEF World, Locals
<1> SUFFICES ASSUME Moving(o), f.isdir PROVE Moved(op[u], file[u])'
  BY <1>2, <1>3 DEF Moved, Moving, Fn
<1>4. PICK i : i = o.slot OBVIOUS
<1>5. /\ o.dir = Root /\ <<Root, i>> # <<f.dir, f.slot>>
      /\ IsEntry(Root, i) /\ dirs[Root][i].isdir /\ dirs[Root][i].cluster = f.object
  BY <1>3, <1>4 DEF Moved, NestedOK, Moving
<1>6. Working(u)
  <2>1. TaskOK(o, f) BY <1>1, GoodTask
  <2> QED BY <1>1, <2>1 DEF Working, Moving, TaskOK, AtPlace, Using
<1>7. ~ (Strong(t) /\ op[t].pc # "note" /\ AtFile(t, Root, i))
  <2> SUFFICES ASSUME Strong(t), op[t].pc # "note", AtFile(t, Root, i) PROVE FALSE OBVIOUS
  <2>1. HandleNamed(t) BY GoodTask DEF World
  <2>2. file[t].isdir /\ file[t].object = f.object /\ Working(t)
    BY <1>5, <2>1 DEF HandleNamed, AtFile, Strong
  <2> QED BY <1>1, <1>6, <2>2 DEF Good, Sound, Apart
<1>8. op[t].pc \in {"erase", "enter", "detach"} => ~ AtFile(t, Root, i) BY <1>7, Strongs
<1>9. Alive(Root) BY DEF Alive
<1>10. /\ IsEntry(Root, i)' /\ dirs'[Root][i].isdir = dirs[Root][i].isdir
       /\ dirs'[Root][i].cluster = dirs[Root][i].cluster
  <2>1. ~ (op[t].pc = "erase" /\ AtFile(t, Root, i)) BY <1>8
  <2>2. IsEntry(Root, i) BY <1>5
  <2>3. ~ (op[t].pc \in {"enter", "detach"} /\ AtFile(t, Root, i)) BY <1>8
  <2>4. \/ dirs'[Root][i].cluster = dirs[Root][i].cluster
        \/ op[t].pc \in {"enter", "detach"} /\ AtFile(t, Root, i)
    BY <1>9, <2>1, <2>2, EntryKept
  <2>5. IsEntry(Root, i)' /\ dirs'[Root][i].isdir = dirs[Root][i].isdir
    BY <1>9, <2>1, <2>2, EntryKept
  <2> QED BY <2>3, <2>4, <2>5
<1> QED BY <1>2, <1>4, <1>5, <1>10 DEF Moved, IsEntry, Place

LEMMA SameDir ==
  ASSUME TInv, TInv', NEW D \in Clusters \cup {Root},
         \A i : Place(D, i) => dirs'[D][i] = dirs[D][i]
  PROVE  dirs'[D] = dirs[D]
<1>1. D \in DOMAIN dirs /\ DOMAIN dirs[D] = 0 .. SlotsOf(D) - 1 BY Shape
<1>2. dirs'[D] = [i \in 0 .. SlotsOf(D) - 1 |-> dirs'[D][i]] BY DEF TInv, AreDirs
<1>3. dirs[D] = [i \in 0 .. SlotsOf(D) - 1 |-> dirs[D][i]] BY DirIs
<1>4. \A i \in 0 .. SlotsOf(D) - 1 : dirs'[D][i] = dirs[D][i] BY <1>1 DEF Place
<1> QED BY <1>2, <1>3, <1>4

\* Nothing is in a directory that is not finished.
LEMMA BlankSlots ==
  ASSUME TInv, NEW D, dirs[D] = Blank \/ dirs[D] = [Blank EXCEPT ![0] = Dots], NEW i, Place(D, i)
  PROVE  dirs[D][i].kind \in {"end", "dots"}
<1>1. \A j \in 0 .. DirSlots - 1 : Blank[j] = End BY DEF Blank
<1>2. DOMAIN Blank = 0 .. DirSlots - 1 BY DEF Blank
<1>3. i \in 0 .. DirSlots - 1 BY <1>2 DEF Place
<1>4. dirs[D][i] = End \/ dirs[D][i] = Dots BY <1>1, <1>2, <1>3
<1> QED BY <1>4 DEF End, Dots

LEMMA BlankStays ==
  ASSUME Good, TInv', NEW t \in Tasks, StepOK(t), NEW D \in Clusters,
         dirs[D] = Blank \/ dirs[D] = [Blank EXCEPT ![0] = Dots],
         op[t].pc \in {"lfn", "entry"} => op[t].dir # D,
         op[t].pc \in Dotting => op[t].new # D, D \in used
  PROVE  dirs'[D] = dirs[D]
<1>1. TInv BY DEF Good
<1> SUFFICES ASSUME NEW i, Place(D, i) PROVE dirs'[D][i] = dirs[D][i] BY <1>1, SameDir
<1>2. dirs[D][i].kind \in {"end", "dots"} BY <1>1, BlankSlots
<1>3. ~ Filled(t, D, i) /\ ~ Dotted(t, D, i) /\ ~ Blanked(t, D, i) /\ ~ Dropped(t, D, i)
  BY <1>2 DEF Filled, Dotted, Blanked, Dropped
<1>4. ~ Written(t, D, i) /\ ~ Erased(t, D, i)
  <2> SUFFICES ASSUME op[t].pc \in {"enter", "detach", "size", "erase"}, AtFile(t, D, i) PROVE FALSE
    BY DEF Written, Erased
  <2>1. Strong(t) /\ HandleNamed(t) BY Strongs, GoodTask DEF World
  <2>2. IsEntry(D, i) BY <2>1 DEF HandleNamed, Strong, AtFile, Live
  <2> QED BY <1>2, <2>2 DEF IsEntry
<1> QED BY <1>3, <1>4 DEF StepOK, Effect

LEMMA OthersFresh ==
  ASSUME Good, TInv', EndsAreLast(dirs)', NEW t \in Tasks, StepOK(t), NEW u \in Tasks, u # t
  PROVE  Fresh(u)'
<1>1. PICK o : o = op[u] OBVIOUS
<1>2. op'[u] = o BY <1>1 DEF StepOK, OthersStay
<1>3. Fresh(u) /\ Fresh(t) /\ Planned(op[t]) /\ TaskOK(o, file[u]) BY <1>1, GoodTask DEF World
<1>4. PICK c : c = o.new OBVIOUS
<1>5. c \in Clusters \cup {0} BY <1>3, <1>4 DEF TaskOK, IsOp
<1>6. CASE Fn(o) = "mkdir" /\ o.pc \in Creating
  <2>1. c \in Clusters /\ dirs[c] = Blank /\ \A v \in Tasks : op[v].dir # c
    BY <1>1, <1>3, <1>4, <1>5, <1>6 DEF Fresh
  <2>2. Holds(u, c) BY <1>1, <1>4, <1>6 DEF Holds, Creating, Keeping
  <2>3. c \in used BY <2>1, <2>2 DEF Good, Sound, Owned, OwnedOne
  <2>4. ~ Alive(c) BY <2>1, <2>2, AliveSettled
  <2>5. op[t].pc \in Dotting => op[t].new # c BY <1>3, <2>4 DEF Fresh
  <2>6. dirs'[c] = Blank BY <2>1, <2>3, <2>5, BlankStays
  <2>7. \A v \in Tasks : op'[v].dir # c
    <3>1. op'[t].dir # c BY <2>1, <2>4, Shape DEF StepOK, Heads, Good
    <3> QED BY <2>1, <3>1 DEF StepOK, OthersStay
  <2>8. c # 0 BY <2>1, Shape DEF Good
  <2>9. o.pc \notin Dotting BY <1>6 DEF Creating, Dotting
  <2> QED BY <1>2, <1>4, <2>6, <2>7, <2>8, <2>9 DEF Fresh
<1>7. CASE o.pc \in Dotting
  <2>1. /\ c \in Clusters /\ Alive(c)
        /\ dirs[c] = IF o.pc = "dot" THEN Blank ELSE [Blank EXCEPT ![0] = Dots]
        /\ \A v \in Tasks \ {u} : op[v].pc \in Dotting => op[v].new # c
    BY <1>1, <1>3, <1>4, <1>5, <1>7 DEF Fresh
  <2>2. c \in used /\ \A v \in Tasks : ~ Holds(v, c) BY <2>1, AliveSettled
  <2>3. op[t].pc \in {"lfn", "entry"} => op[t].dir # c
    BY <1>1, <1>3, <1>4, <1>7 DEF Planned, Begun, Unfinished, Dotting
  <2>4. dirs[c] = Blank \/ dirs[c] = [Blank EXCEPT ![0] = Dots] BY <2>1
  <2>5. op[t].pc \in Dotting => op[t].new # c BY <2>1
  <2>6. dirs'[c] = dirs[c] BY <2>1, <2>2, <2>3, <2>4, <2>5, BlankStays
  <2>7. ~ (Dooming(t) /\ c = file[t].object)
    BY <1>1, <1>4, <1>7 DEF StepOK, Frees, Unfinished, Dotting
  <2>8. Alive(c)' BY <2>1, <2>7, AliveKept
  <2>9. ASSUME NEW v \in Tasks \ {u}, op'[v].pc \in Dotting PROVE op'[v].new # c
    <3>1. CASE v # t BY <2>1, <2>9, <3>1 DEF StepOK, OthersStay
    <3>2. CASE v = t
      <4>1. op'[t].new = op[t].new /\ (op[t].pc \in Dotting \/ op[t].pc = "entry")
        BY <2>9, <3>2 DEF StepOK, Completes
      <4>2. op[t].pc = "entry" => op[t].new # c BY <2>2 DEF Holds, Keeping
      <4> QED BY <2>5, <3>2, <4>1, <4>2
    <3> QED BY <3>1, <3>2
  <2>10. c # 0 BY <2>1, Shape DEF Good
  <2>11. ~ (Fn(o) = "mkdir" /\ o.pc \in Creating) BY <1>7 DEF Creating, Dotting
  <2>12. Alive(op[u].new)' BY <1>2, <1>4, <2>8 DEF Alive
  <2> QED BY <1>2, <1>4, <2>1, <2>6, <2>9, <2>10, <2>11, <2>12 DEF Fresh
<1>8. CASE ~ (Fn(o) = "mkdir" /\ o.pc \in Creating) /\ o.pc \notin Dotting
  BY <1>2, <1>8 DEF Fresh
<1> QED BY <1>6, <1>7, <1>8

LEMMA OthersWorld ==
  ASSUME Good, TInv', EndsAreLast(dirs)', NEW t \in Tasks, StepOK(t), NEW u \in Tasks, u # t
  PROVE  (Locals(op[u], file[u]) /\ World(u))'
<1>1. op'[u] = op[u] /\ file'[u] = file[u] BY DEF StepOK, OthersStay
<1>2. Locals(op[u], file[u]) BY GoodTask
<1>3. Locals(op[u], file[u])' BY <1>1, <1>2 DEF Locals, HandleFits, SoughtOK, NestedOK
<1>4. HandleNamed(u)' BY OthersNamed
<1>5. Unstarted(op[u])' /\ Planned(op[u])' BY OthersPlanned
<1>6. Emptied(op[u], file[u])' BY OthersEmptied
<1>7. Moved(op[u], file[u])' BY OthersMoved
<1>8. Fresh(u)' BY OthersFresh
<1> QED BY <1>3, <1>4, <1>5, <1>6, <1>7, <1>8 DEF World

-----------------------------------------------------------------------------
(* What a step leaves sound.                                                *)

LEMMA EndsStay ==
  ASSUME Good, TInv', NEW t \in Tasks, StepOK(t)
  PROVE  EndsAreLast(dirs)'
<1> SUFFICES ASSUME NEW D \in DOMAIN dirs', NEW i \in DOMAIN dirs'[D], NEW j \in DOMAIN dirs'[D],
                    i < j, dirs'[D][i].kind = "end"
             PROVE  dirs'[D][j].kind = "end"
  BY DEF EndsAreLast
<1>1. Place(D, i) /\ Place(D, j)
  <2>1. Place(D, i)' /\ Place(D, j)' BY DEF Place
  <2> QED BY <2>1, SamePlaces DEF Good
<1>2. Deleted.kind = "deleted" /\ Dots.kind = "dots" /\ End.kind = "end" BY DEF Deleted, Dots, End
<1>3. op[t].pc = "entry" => NewEntry(t).kind = "entry" BY NewEntryIs
<1>4. CASE Blanked(t, D, i) \/ Blanked(t, D, j)
  <2>1. dirs'[D][j] = End BY <1>1, <1>4 DEF Blanked, Place
  <2> QED BY <1>2, <2>1
<1>5. CASE ~ Blanked(t, D, i) /\ ~ Blanked(t, D, j)
  <2>1. ~ Filled(t, D, i) /\ ~ Dotted(t, D, i) /\ ~ Written(t, D, i) /\ ~ Dropped(t, D, i) /\ ~ Erased(t, D, i)
    BY <1>2, <1>3 DEF Filled, Dotted, Written, Dropped, Erased
  <2>2. dirs'[D][i] = dirs[D][i] BY <1>1, <1>5, <2>1 DEF StepOK, Effect
  <2>3. dirs[D][j].kind = "end" BY <1>1, <2>2 DEF Good, Sound, EndsAreLast, Place
  <2>4. ~ FreeAt(D, j) BY <1>1, <2>2 DEF FreeAt, Place
  <2>5. ASSUME op[t].pc \in {"enter", "detach", "size", "erase"}, AtFile(t, D, j) PROVE FALSE
    <3>1. Strong(t) /\ HandleNamed(t) BY <2>5, Strongs, GoodTask DEF World
    <3>2. IsEntry(D, j) BY <2>5, <3>1 DEF HandleNamed, Strong, AtFile, Live
    <3> QED BY <2>3, <3>2 DEF IsEntry
  <2>6. ~ Filled(t, D, j) /\ ~ Dotted(t, D, j) /\ ~ Written(t, D, j) /\ ~ Dropped(t, D, j) /\ ~ Erased(t, D, j)
    BY <2>3, <2>4, <2>5 DEF Filled, Dotted, Written, Dropped, Erased
  <2>7. dirs'[D][j] = dirs[D][j] BY <1>1, <1>5, <2>6 DEF StepOK, Effect
  <2> QED BY <2>3, <2>7
<1> QED BY <1>4, <1>5

LEMMA RootStays ==
  ASSUME Good, TInv', NEW t \in Tasks, StepOK(t)
  PROVE  DirsAreInRoot(dirs)'
<1> SUFFICES ASSUME NEW D \in DOMAIN dirs' \ {Root}, NEW i \in DOMAIN dirs'[D],
                    dirs'[D][i].kind = "entry", dirs'[D][i].isdir
             PROVE  FALSE
  BY DEF DirsAreInRoot
<1>1. IsEntry(D, i)' BY DEF IsEntry, Place
<1>2. CASE op[t].pc = "entry" /\ D = op[t].dir /\ dirs'[D][i] = NewEntry(t)
  BY <1>2, NewEntryIs
<1>3. CASE IsEntry(D, i) /\ dirs'[D][i].isdir = dirs[D][i].isdir
  BY <1>3 DEF Good, Sound, DirsAreInRoot, IsEntry, Place
<1> QED BY <1>1, <1>2, <1>3, EntryNew

LEMMA ApartStays ==
  ASSUME Good, NEW t \in Tasks, StepOK(t), Carries(t)
  PROVE  Apart'
<1>1. \A u \in Tasks : Working(u)' =>
        /\ Working(u) /\ file'[u].dir = file[u].dir /\ file'[u].slot = file[u].slot
        /\ file'[u].mode = file[u].mode /\ file'[u].isdir = file[u].isdir
        /\ file[u].isdir => file'[u].object = file[u].object
  <2> TAKE u \in Tasks
  <2>1. CASE u = t BY <2>1 DEF Carries
  <2>2. CASE u # t BY <2>2 DEF StepOK, OthersStay, Working
  <2> QED BY <2>1, <2>2
<1> SUFFICES ASSUME NEW u \in Tasks, NEW v \in Tasks, u # v, Working(u)', Working(v)'
             PROVE  /\ SamePlace(u, v)' => ~ Writes(file'[u].mode)
                    /\ ~ (file'[u].isdir /\ file'[v].isdir /\ file'[u].object = file'[v].object)
  BY DEF Apart
<1>2. Working(u) /\ Working(v) /\ (SamePlace(u, v)' => SamePlace(u, v)) BY <1>1 DEF SamePlace
<1>3. /\ SamePlace(u, v) => ~ Writes(file[u].mode)
      /\ ~ (file[u].isdir /\ file[v].isdir /\ file[u].object = file[v].object)
  BY <1>2 DEF Good, Sound, Apart
<1> QED BY <1>1, <1>2, <1>3

LEMMA SettledBack ==
  ASSUME Good, TInv', EndsAreLast(dirs)', NEW t \in Tasks, StepOK(t),
         NEW D, NEW i, NEW c \in Clusters, Settled(D, i, c)'
  PROVE  \/ Settled(D, i, c)
         \/ /\ op[t].pc = "entry" /\ ~ IsEntry(D, i) /\ D = op[t].dir /\ i = op[t].slot
            /\ dirs'[D][i] = NewEntry(t)
         \/ op[t].pc = "enter" /\ AtFile(t, D, i) /\ dirs'[D][i].cluster = op[t].new /\ Live(D, i)
<1>1. IsEntry(D, i)' /\ Alive(D)' /\ dirs'[D][i].cluster = c /\ ~ Parting(D, i)'
  BY DEF Settled, Live
<1>2. 0 \notin Clusters BY NamesAssumption
<1>3. CASE ~ IsEntry(D, i) BY <1>1, <1>3, EntryNew
<1>4. CASE IsEntry(D, i)
  <2>1. \/ dirs[D][i].cluster = c
        \/ op[t].pc = "enter" /\ AtFile(t, D, i) /\ dirs'[D][i].cluster = op[t].new
    BY <1>1, <1>2, <1>4, EntryNew
  <2>2. Alive(D)
    <3> SUFFICES ASSUME op[t].pc = "entry", Fn(op[t]) = "mkdir", D = op[t].new PROVE FALSE
      BY <1>1, AliveNew
    <3>1. dirs[D] = Blank BY GoodTask DEF World, Fresh, Creating
    <3>2. dirs[D][i].kind \in {"end", "dots"} BY <1>4, <3>1, BlankSlots DEF IsEntry, Good
    <3> QED BY <1>4, <3>2 DEF IsEntry
  <2>3. Live(D, i) BY <1>4, <2>2 DEF Live
  <2>4. ~ Parting(D, i)
    <3> SUFFICES ASSUME NEW u \in Tasks, op[u].pc \in Leaving, file[u].dir = D, file[u].slot = i
                 PROVE  FALSE
      BY DEF Parting
    <3>1. CASE u # t BY <1>1, <3>1 DEF StepOK, OthersStay, Parting
    <3>2. CASE u = t
      <4>1. Deleted.kind # "entry" BY DEF Deleted
      <4>2. op'[t].pc \in {"rmlfn", "erase"} /\ file'[t] = file[t]
        BY <1>1, <1>2, <3>2, <4>1 DEF StepOK, Leaves, IsEntry
      <4> QED BY <1>1, <3>2, <4>2 DEF Parting, Leaving
    <3> QED BY <3>1, <3>2
  <2> QED BY <2>1, <2>3, <2>4 DEF Settled
<1> QED BY <1>3, <1>4

\* A cluster whose owners are as before.
LEMMA OwnedSame ==
  ASSUME Good, NEW c \in Clusters,
         \A D, i : Settled(D, i, c)' => Settled(D, i, c) /\ c \in used',
         \A u \in Tasks : Holds(u, c)' => Holds(u, c) /\ c \in used',
         part'[c] # 0 => part'[c] = part[c] /\ c \in used',
         part'[c] \in Clusters => part'[c] \in used' /\ part'[part'[c]] = 0
  PROVE  OwnedOne(c)'
<1>1. OwnedOne(c) BY DEF Good, Sound, Owned
<1> QED BY <1>1 DEF OwnedOne

\* A cluster that a task has got, or has given to an entry.
LEMMA OwnedByTask ==
  ASSUME NEW t \in Tasks, NEW c \in Clusters, c \in used', part'[c] = 0,
         \A D, i : ~ Settled(D, i, c)', \A u \in Tasks : Holds(u, c)' => u = t
  PROVE  OwnedOne(c)'
<1>1. 0 \notin Clusters BY NamesAssumption
<1> QED BY <1>1 DEF OwnedOne

LEMMA OwnedByEntry ==
  ASSUME NEW c \in Clusters, c \in used', part'[c] = 0, NEW D, NEW i,
         \A E, j : Settled(E, j, c)' => E = D /\ j = i, \A u \in Tasks : ~ Holds(u, c)'
  PROVE  OwnedOne(c)'
<1>1. 0 \notin Clusters BY NamesAssumption
<1> QED BY <1>1 DEF OwnedOne

LEMMA OwnedUsed ==
  ASSUME Good, NEW c \in Clusters
  PROVE  /\ \A D, i : Settled(D, i, c) => c \in used
         /\ \A t \in Tasks : Holds(t, c) => c \in used
BY DEF Good, Sound, Owned, OwnedOne

LEMMA OwnedPart ==
  ASSUME Good, NEW c \in Clusters
  PROVE  /\ part[c] # 0 => /\ c \in used /\ \A D, i : ~ Settled(D, i, c)
                           /\ \A t \in Tasks : ~ Holds(t, c)
         /\ part[c] \in Clusters => part[c] \in used /\ part[part[c]] = 0
BY DEF Good, Sound, Owned, OwnedOne

\* A step that gives clusters to nobody, frees what nobody has, or claims one that no
\* entry will name.
Accounts(t) ==
  \/ used' = used /\ part' = part
  \/ \E S : /\ Release(S)
            /\ \A e \in Clusters : part[e] # 0 /\ part[e] \in S => e \in S
            /\ \A c \in Clusters : c \in S => /\ \A D, i : ~ Settled(D, i, c)'
                                              /\ \A u \in Tasks : ~ Holds(u, c)'
  \/ \E c \in Clusters \ used, d \in Clusters \cup {Nobody} :
       Assign(c, d) /\ (d \in Clusters => d \in used /\ part[d] = 0)
HoldsOn(t) ==
  op'[t].pc \in Keeping /\ op'[t].new \in Clusters => op[t].pc \in Keeping /\ op'[t].new = op[t].new

LEMMA AssignIs ==
  ASSUME TInv, NEW c \in Clusters, NEW d, Assign(c, d)
  PROVE  /\ used' = used \cup {c} /\ part'[c] = d
         /\ \A b \in Clusters : b # c => part'[b] = part[b]
BY DEF TInv, UsedOK, Assign

LEMMA OwnedAssigned ==
  ASSUME Good, NEW c \in Clusters \ used, NEW d \in Clusters \cup {Nobody}, Assign(c, d),
         d \in Clusters => d \in used /\ part[d] = 0, NEW b \in Clusters,
         \A D, i : Settled(D, i, b)' => Settled(D, i, b),
         \A u \in Tasks : Holds(u, b)' => Holds(u, b)
  PROVE  OwnedOne(b)'
<1>1. /\ used' = used \cup {c} /\ part'[c] = d
      /\ \A e \in Clusters : e # c => part'[e] = part[e]
  BY AssignIs DEF Good
<1>2. OwnedOne(b) BY DEF Good, Sound, Owned
<1>3. CASE b = c
  <2>1. (\A D, i : ~ Settled(D, i, b)) /\ \A u \in Tasks : ~ Holds(u, b) BY <1>3, OwnedUsed
  <2>2. (\A D, i : ~ Settled(D, i, b)') /\ \A u \in Tasks : ~ Holds(u, b)' BY <2>1
  <2>3. part'[b] \in Clusters => part'[b] \in used' /\ part'[part'[b]] = 0 BY <1>1, <1>3
  <2> QED BY <1>1, <1>3, <2>2, <2>3 DEF OwnedOne
<1>4. CASE b # c
  <2>1. part'[b] = part[b] /\ (b \in used => b \in used') BY <1>1, <1>4
  <2>2. part[b] \in Clusters => part[b] \in used' /\ part'[part[b]] = 0 BY <1>1, OwnedPart
  <2> QED BY <2>1, <2>2, OwnedUsed, OwnedPart, OwnedSame
<1> QED BY <1>3, <1>4

LEMMA OwnedReleased ==
  ASSUME Good, NEW S, Release(S), NEW b \in Clusters,
         \A e \in Clusters : part[e] # 0 /\ part[e] \in S => e \in S,
         b \in S => (\A D, i : ~ Settled(D, i, b)') /\ \A u \in Tasks : ~ Holds(u, b)',
         \A D, i : Settled(D, i, b)' => Settled(D, i, b),
         \A u \in Tasks : Holds(u, b)' => Holds(u, b)
  PROVE  OwnedOne(b)'
<1>1. used' = used \ S /\ \A e \in Clusters : part'[e] = IF e \in S THEN 0 ELSE part[e]
  BY DEF Release
<1>2. 0 \notin Clusters BY NamesAssumption
<1>3. \A D, i : Settled(D, i, b)' => b \in used' BY <1>1, OwnedUsed
<1>4. \A u \in Tasks : Holds(u, b)' => b \in used' BY <1>1, OwnedUsed
<1>5. part'[b] # 0 => part'[b] = part[b] /\ b \in used' BY <1>1, OwnedPart
<1>6. part'[b] \in Clusters => part'[b] \in used' /\ part'[part'[b]] = 0
  <2> SUFFICES ASSUME part'[b] \in Clusters PROVE part'[b] \in used' /\ part'[part'[b]] = 0 OBVIOUS
  <2>1. b \notin S /\ part'[b] = part[b] /\ part[b] # 0 BY <1>1, <1>2
  <2>2. part[b] \notin S /\ part[b] \in used /\ part[part[b]] = 0 BY <2>1, OwnedPart
  <2> QED BY <1>1, <2>1, <2>2
<1> QED BY <1>3, <1>4, <1>5, <1>6, OwnedSame

LEMMA OwnedStays ==
  ASSUME Good, NEW t \in Tasks, StepOK(t), Accounts(t), HoldsOn(t),
         \A D, i : \A c \in Clusters : Settled(D, i, c)' => Settled(D, i, c)
  PROVE  Owned'
<1> SUFFICES ASSUME NEW c \in Clusters PROVE OwnedOne(c)' BY DEF Owned
<1>1. \A u \in Tasks : Holds(u, c)' => Holds(u, c)
  <2> TAKE u \in Tasks
  <2>1. CASE u = t BY <2>1 DEF HoldsOn, Holds
  <2>2. CASE u # t BY <2>2 DEF StepOK, OthersStay, Holds
  <2> QED BY <2>1, <2>2
<1>2. CASE used' = used /\ part' = part BY <1>1, <1>2, OwnedUsed, OwnedPart, OwnedSame
<1>3. ASSUME NEW S, Release(S), \A e \in Clusters : part[e] # 0 /\ part[e] \in S => e \in S,
             c \in S => (\A D, i : ~ Settled(D, i, c)') /\ \A u \in Tasks : ~ Holds(u, c)'
      PROVE  OwnedOne(c)'
  BY <1>1, <1>3, OwnedReleased
<1>4. ASSUME NEW e \in Clusters \ used, NEW d \in Clusters \cup {Nobody}, Assign(e, d),
             d \in Clusters => d \in used /\ part[d] = 0
      PROVE  OwnedOne(c)'
  BY <1>1, <1>4, OwnedAssigned
<1> QED BY <1>2, <1>3, <1>4 DEF Accounts

\* A step that claims a cluster.
LEMMA OwnedGained ==
  ASSUME Good, TInv', EndsAreLast(dirs)', NEW t \in Tasks, StepOK(t), op[t].pc \in {"claim", "grow"},
         NEW c, c \notin used, used' = used \cup {c}, part' = part,
         op'[t].pc \in Keeping => op'[t].new = c
  PROVE  Owned'
<1> SUFFICES ASSUME NEW b \in Clusters PROVE OwnedOne(b)' BY DEF Owned
<1>1. \A D, i : Settled(D, i, b)' => Settled(D, i, b) BY SettledBack
<1>2. \A u \in Tasks \ {t} : Holds(u, b)' => Holds(u, b) BY DEF StepOK, OthersStay, Holds
<1>3. CASE b = c
  <2>1. \A D, i : ~ Settled(D, i, b)' BY <1>1, <1>3, OwnedUsed
  <2>2. \A u \in Tasks : Holds(u, b)' => u = t BY <1>2, <1>3, OwnedUsed
  <2>3. b \in used' /\ part'[b] = 0 BY <1>3, OwnedPart
  <2> QED BY <2>1, <2>2, <2>3, OwnedByTask
<1>4. CASE b # c
  <2>1. ~ Holds(t, b)' BY <1>4 DEF Holds
  <2>2. \A u \in Tasks : Holds(u, b)' => Holds(u, b) BY <1>2, <2>1
  <2>3. \A D, i : Settled(D, i, b)' => b \in used' BY <1>1, OwnedUsed
  <2>4. \A u \in Tasks : Holds(u, b)' => b \in used' BY <2>2, OwnedUsed
  <2>5. /\ part'[b] # 0 => b \in used'
        /\ part'[b] \in Clusters => part'[b] \in used' /\ part'[part'[b]] = 0
    BY OwnedPart
  <2> QED BY <1>1, <2>2, <2>3, <2>4, <2>5, OwnedSame
<1> QED BY <1>3, <1>4

\* A step that gives the cluster to an entry: of those who had it nobody has it still.
Passes(t, c, D, i) ==
  /\ used' = used /\ part' = part /\ op'[t].pc \notin Keeping
  /\ \A E, j : \A b \in Clusters : Settled(E, j, b)' => Settled(E, j, b) \/ (E = D /\ j = i /\ b = c)
  /\ c \in Clusters => Holds(t, c) \/ \E E, j : Settled(E, j, c) /\ ~ Settled(E, j, c)'

LEMMA OwnedPassed ==
  ASSUME Good, NEW t \in Tasks, StepOK(t), NEW c, NEW D, NEW i, Passes(t, c, D, i)
  PROVE  Owned'
<1>0. /\ used' = used /\ part' = part /\ op'[t].pc \notin Keeping
      /\ \A E, j : \A b \in Clusters : Settled(E, j, b)' => Settled(E, j, b) \/ (E = D /\ j = i /\ b = c)
      /\ c \in Clusters => Holds(t, c) \/ \E E, j : Settled(E, j, c) /\ ~ Settled(E, j, c)'
  BY DEF Passes
<1> SUFFICES ASSUME NEW b \in Clusters PROVE OwnedOne(b)' BY DEF Owned
<1>1. \A u \in Tasks : Holds(u, b)' => Holds(u, b) /\ u # t
  BY <1>0 DEF StepOK, OthersStay, Holds
<1>2. OwnedOne(b) BY DEF Good, Sound, Owned
<1>3. CASE b = c
  <2>1. CASE Holds(t, c)
    <3>1. c \in used' /\ \A u \in Tasks : ~ Holds(u, c)' BY <1>0, <1>1, <1>2, <1>3, <2>1 DEF OwnedOne
    <3>2. \A E, j : ~ Settled(E, j, c) BY <1>2, <1>3, <2>1 DEF OwnedOne
    <3>3. \A E, j : Settled(E, j, b)' => E = D /\ j = i BY <1>0, <1>3, <3>2
    <3>4. part'[b] = 0 BY <1>0, <1>3, <2>1, OwnedPart
    <3> QED BY <1>3, <3>1, <3>3, <3>4, OwnedByEntry
  <2>2. CASE \E E, j : Settled(E, j, c) /\ ~ Settled(E, j, c)'
    <3>0. PICK E, j : Settled(E, j, c) /\ ~ Settled(E, j, c)' BY <2>2
    <3>1. c \in used' /\ \A u \in Tasks : ~ Holds(u, c)' BY <1>0, <1>1, <1>2, <1>3, <3>0 DEF OwnedOne
    <3>2. \A F, k : Settled(F, k, c) => F = E /\ k = j BY <1>2, <1>3, <3>0 DEF OwnedOne
    <3>3. \A F, k : Settled(F, k, b)' => F = D /\ k = i BY <1>0, <1>3, <3>0, <3>2
    <3>4. part'[b] = 0 BY <1>0, <1>3, <3>0, OwnedPart
    <3> QED BY <1>3, <3>1, <3>3, <3>4, OwnedByEntry
  <2> QED BY <1>0, <1>3, <2>1, <2>2
<1>4. CASE b # c
  <2>1. \A E, j : Settled(E, j, b)' => Settled(E, j, b) BY <1>0, <1>4
  <2>2. \A E, j : Settled(E, j, b)' => b \in used' BY <1>0, <2>1, OwnedUsed
  <2>3. \A u \in Tasks : Holds(u, b)' => b \in used' BY <1>0, <1>1, OwnedUsed
  <2>4. /\ part'[b] # 0 => b \in used'
        /\ part'[b] \in Clusters => part'[b] \in used' /\ part'[part'[b]] = 0
    BY <1>0, OwnedPart
  <2> QED BY <1>0, <1>1, <2>1, <2>2, <2>3, <2>4, OwnedSame
<1> QED BY <1>3, <1>4

-----------------------------------------------------------------------------
(* The steps.                                                               *)

Mine(t) == Locals(op[t], file[t]) /\ World(t)

LEMMA SoundStep ==
  ASSUME Good, TInv', NEW t \in Tasks, StepOK(t), Owned', Apart', Mine(t)'
  PROVE  Sound'
<1>1. EndsAreLast(dirs)' /\ DirsAreInRoot(dirs)' BY EndsStay, RootStays
<1>2. \A u \in Tasks : (Locals(op[u], file[u]) /\ World(u))'
  <2> TAKE u \in Tasks
  <2>1. CASE u = t BY <2>1 DEF Mine
  <2>2. CASE u # t BY <1>1, <2>2, OthersWorld
  <2> QED BY <2>1, <2>2
<1> QED BY <1>1, <1>2 DEF Sound

LEMMA GoLocks ==
  ASSUME TInv, LocksOK, NEW t \in Tasks, NEW q, Go(t, q), Held(q) => "DIR" \in Under(op[t])
  PROVE  LocksOK'
<1>1. op'[t] = q /\ \A u \in Tasks \ {t} : op'[u] = op[u] BY GoIs DEF TInv
<1>2. Turn(t, Under(q)) BY <1>1 DEF Go
<1>3. has \in [Tasks -> SUBSET Locks] /\ asks \in [Tasks -> SUBSET Locks] BY DEF TInv, LockInv, LockTypeOK
<1>4. asks[t] = {} /\ has[t] = Under(op[t]) BY <1>2 DEF Turn, LocksOK
<1>5. /\ has'[t] = has[t] \cap Under(q) /\ asks'[t] = Under(q) \ has[t]
      /\ \A u \in Tasks \ {t} : has'[u] = has[u] /\ asks'[u] = asks[u]
  BY <1>2, <1>3 DEF Turn
<1>6. has'[t] \cup asks'[t] = Under(q) BY <1>5
<1>7. Held(q) => "DIR" \in has'[t] BY <1>4, <1>5, HeldIsUnder
<1>8. ASSUME NEW u \in Tasks
      PROVE  (has[u] \cup asks[u] = Under(op[u]) /\ (Held(op[u]) => "DIR" \in has[u]))'
  <2>1. CASE u = t BY <1>1, <1>6, <1>7, <2>1 DEF Held, Under, Fn
  <2>2. CASE u # t BY <1>1, <1>5, <2>2 DEF LocksOK, Held, Under, Fn
  <2> QED BY <2>1, <2>2
<1> QED BY <1>8 DEF LocksOK

LEMMA WaitLocks ==
  ASSUME TInv, LocksOK, NEW t \in Tasks, WaitBits(t) \/ ClearBits(t), op' = op
  PROVE  LocksOK'
<1>1. has \in [Tasks -> SUBSET Locks] /\ asks \in [Tasks -> SUBSET Locks] BY DEF TInv, LockInv, LockTypeOK
<1>2. \A u \in Tasks : has'[u] \cup asks'[u] = has[u] \cup asks[u] /\ has[u] \subseteq has'[u]
  BY <1>1 DEF WaitBits, ClearBits
<1> QED BY <1>2 DEF LocksOK

\* A step that changes no slot.
Onward(t) == op'[t].pc \notin {"rmlfn", "erase"} \/ (Dooms(t) /\ Frees(t))

LEMMA QuietStep ==
  ASSUME Good, TInv', NEW t \in Tasks, asks[t] = {}, OthersStay(t), dirs' = dirs,
         op[t].pc \notin Leaving, Onward(t), Heads(t), op'[t].pc \notin Dotting
  PROVE  /\ StepOK(t) /\ EndsAreLast(dirs)'
         /\ \A D, i : \A c \in Clusters : Settled(D, i, c)' => Settled(D, i, c)
<1>1. Effect(t) BY DEF Effect
<1>2. Dooms(t) /\ Frees(t) BY DEF Dooms, Frees, Dooming, Onward
<1>3. Leaves(t) /\ Completes(t) BY DEF Leaves, Completes
<1>4. StepOK(t) BY <1>1, <1>2, <1>3 DEF StepOK
<1>5. EndsAreLast(dirs)' BY <1>4, EndsStay
<1>6. ASSUME NEW D, NEW i, NEW c \in Clusters, Settled(D, i, c)' PROVE Settled(D, i, c)
  <2>1. IsEntry(D, i)' /\ dirs'[D][i].cluster = c BY <1>6 DEF Settled, Live
  <2>2. IsEntry(D, i) /\ dirs[D][i].cluster = c BY <2>1 DEF IsEntry, Place
  <2>3. ASSUME op[t].pc = "enter", AtFile(t, D, i), dirs'[D][i].cluster = op[t].new, Live(D, i)
        PROVE  Settled(D, i, c)
    <3>1. ASSUME NEW u \in Tasks, op[u].pc \in Leaving, file[u].dir = D, file[u].slot = i PROVE FALSE
      <4>1. u # t BY <3>1 DEF Leaving
      <4> QED BY <1>6, <3>1, <4>1 DEF Settled, Parting, OthersStay
    <3> QED BY <2>2, <2>3, <3>1 DEF Settled, Parting
  <2> QED BY <1>4, <1>5, <1>6, <2>2, <2>3, SettledBack
<1> QED BY <1>4, <1>5, <1>6

LEMMA QuietSound ==
  ASSUME Good, TInv', NEW t \in Tasks, asks[t] = {}, OthersStay(t), dirs' = dirs,
         op[t].pc \notin Leaving, Onward(t), Heads(t), op'[t].pc \notin Dotting,
         Accounts(t), HoldsOn(t), Carries(t), StepOK(t) => Mine(t)'
  PROVE  StepOK(t) /\ Sound'
<1>1. StepOK(t) /\ \A D, i : \A c \in Clusters : Settled(D, i, c)' => Settled(D, i, c)
  BY QuietStep
<1>2. Owned' BY <1>1, OwnedStays
<1>3. Apart' BY <1>1, ApartStays
<1> QED BY <1>1, <1>2, <1>3, SoundStep

-----------------------------------------------------------------------------
(* What the task that goes on knows.                                        *)

\* At most places there is nothing more to know than the handle.
LEMMA PlainWorld ==
  ASSUME NEW t, HandleNamed(t)',
         op'[t].pc \notin {"claim", "plan", "extend", "unmade", "lfn", "entry", "unlink",
                         "made", "rmlfn", "erase", "dot", "dotdot"}
  PROVE  World(t)'
BY DEF World, Unstarted, Planned, Begun, Emptied, Moved, Moving, Fresh, Creating, Dotting

LEMMA OwnNamed ==
  ASSUME Good, TInv', NEW t \in Tasks, StepOK(t), Carries(t), 
         op[t].pc \notin {"erase", "enter", "detach", "note"}, op'[t].pc # "note",
         Working(t)' => file'[t].object = file[t].object
  PROVE  HandleNamed(t)'
<1> SUFFICES ASSUME Working(t)' PROVE HandleNamed(t)' BY DEF HandleNamed
<1>1. /\ Working(t) /\ file'[t].dir = file[t].dir /\ file'[t].slot = file[t].slot
      /\ file'[t].object = file[t].object /\ file'[t].isdir = file[t].isdir
  BY DEF Carries
<1>2. PICK D, i : D = file[t].dir /\ i = file[t].slot OBVIOUS
<1>3. HandleNamed(t) BY GoodTask DEF World
<1>4. /\ Live(D, i) /\ dirs[D][i].isdir = file[t].isdir /\ dirs[D][i].cluster = file[t].object
  BY <1>1, <1>2, <1>3 DEF HandleNamed
<1>5. EndsAreLast(dirs)' BY EndsStay
<1>6. Live(D, i)' /\ dirs'[D][i].isdir = dirs[D][i].isdir /\ dirs'[D][i].cluster = dirs[D][i].cluster
  BY <1>4, <1>5, LiveKept
<1>7. Live(file[t].dir, file[t].slot)' BY <1>1, <1>2, <1>6 DEF Live, IsEntry, Place, Alive
<1> QED BY <1>1, <1>2, <1>4, <1>6, <1>7 DEF HandleNamed

\* A task without a handle that searches or is idle.
LEMMA BackMine ==
  ASSUME NEW t \in Tasks, ~ Working(t)', file'[t] = NoFile, op'[t].pc \in {"idle", "dir", "find"}
  PROVE  Mine(t)'
<1>1. HandleNamed(t)' BY DEF HandleNamed
<1>2. World(t)' BY <1>1, PlainWorld
<1>3. Locals(op[t], file[t])' BY DEF Locals, HandleFits, SoughtOK, NestedOK, Creating
<1> QED BY <1>2, <1>3 DEF Mine

LEMMA BackSound ==
  ASSUME Good, TInv', NEW t \in Tasks, asks[t] = {}, OthersStay(t), dirs' = dirs, Accounts(t),
         op[t].pc \notin Leaving, file'[t] = NoFile, op'[t].pc \in {"idle", "dir", "find"}, Heads(t)
  PROVE  StepOK(t) /\ Sound'
<1>1. ~ Working(t)' BY DEF Working
<1>2. Mine(t)' BY <1>1, BackMine
<1>3. Onward(t) /\ op'[t].pc \notin Dotting /\ HoldsOn(t) /\ Carries(t)
  BY <1>1 DEF Onward, Dotting, HoldsOn, Keeping, Carries
<1> QED BY <1>2, <1>3, QuietSound

LEMMA OpeningIs ==
  ASSUME NEW o, IsOp(o) PROVE Opening(o).pc \in {"dir", "find"} /\ Opening(o).dir \in {o.dir, Root}
<1>1. CASE Path(o).in = ""
  <2>1. PICK q : q = [o EXCEPT !.dir = Root, !.pc = "find"] OBVIOUS
  <2>2. q.pc = "find" /\ q.dir = Root BY <2>1 DEF IsOp
  <2> QED BY <1>1, <2>1, <2>2 DEF Opening
<1>2. CASE Path(o).in # ""
  <2>1. PICK q : q = [o EXCEPT !.pc = "dir"] OBVIOUS
  <2>2. q.pc = "dir" /\ q.dir = o.dir BY <2>1 DEF IsOp
  <2> QED BY <1>2, <2>1, <2>2 DEF Opening
<1> QED BY <1>1, <1>2

LEMMA RefusedIs ==
  ASSUME NEW o, Looks(o), NEW why
  PROVE  Refused(o, why).pc \in {"idle", "dir", "find"} /\ Refused(o, why).dir \in {o.dir, Root, 0}
<1>0. IsOp(o) BY DEF Looks
<1>1. CASE o.phase = "dst" /\ why # "isdir"
  <2>1. PICK q : q = [o EXCEPT !.phase = "src", !.goal = o.seen] OBVIOUS
  <2>2. Fn(o) = "move" BY <1>1 DEF Looks
  <2>3. Looks(q) BY <2>1, <2>2, NextPhaseLooks
  <2>4. q.dir = o.dir BY <1>0, <2>1 DEF IsOp
  <2>5. Refused(o, why) = Opening(q) BY <1>1, <2>1 DEF Refused
  <2> QED BY <2>3, <2>4, <2>5, OpeningIs DEF Looks
<1>2. CASE ~ (o.phase = "dst" /\ why # "isdir") /\ o.phase = "src" /\ why = "isdir"
  <2>1. PICK q : q = [o EXCEPT !.phase = "srcdir"] OBVIOUS
  <2>2. Fn(o) = "move" BY <1>2 DEF Looks
  <2>3. q = [o EXCEPT !.phase = "srcdir", !.goal = o.goal] BY <1>0, <2>1 DEF IsOp
  <2>4. Looks(q) BY <2>2, <2>3, NextPhaseLooks
  <2>5. q.dir = o.dir BY <1>0, <2>1 DEF IsOp
  <2>6. Refused(o, why) = Opening(q) BY <1>2, <2>1 DEF Refused
  <2> QED BY <2>4, <2>5, <2>6, OpeningIs DEF Looks
<1>3. CASE ~ (o.phase = "dst" /\ why # "isdir") /\ ~ (o.phase = "src" /\ why = "isdir")
  <2>1. Refused(o, why) = Idle BY <1>3 DEF Refused
  <2>2. Idle.pc = "idle" /\ Idle.dir = 0 BY DEF Idle
  <2> QED BY <2>1, <2>2
<1> QED BY <1>1, <1>2, <1>3

-----------------------------------------------------------------------------

LEMMA GoStays ==
  ASSUME TInv, NEW t \in Tasks, NEW q, Go(t, q),
         file' = file \/ \E h : file' = [file EXCEPT ![t] = h]
  PROVE  /\ op'[t] = q /\ OthersStay(t) /\ asks[t] = {}
         /\ file' = file => file'[t] = file[t]
         /\ \A h : file' = [file EXCEPT ![t] = h] => file'[t] = h
<1>1. op'[t] = q /\ \A u \in Tasks \ {t} : op'[u] = op[u] BY GoIs DEF TInv
<1>2. asks[t] = {} BY DEF Go, Turn
<1>3. \A u \in Tasks \ {t} : file'[u] = file[u] BY DEF TInv, TasksOK
<1>4. \A h : file' = [file EXCEPT ![t] = h] => file'[t] = h BY DEF TInv, TasksOK
<1> QED BY <1>1, <1>2, <1>3, <1>4 DEF OthersStay

LEMMA NoStray ==
  ASSUME NEW S, Stray(S), strays' = {} PROVE S = {}
BY DEF Stray

LEMMA NotLate ==
  ASSUME NEW o, NEW n, Stray(Late(o, n)), strays' = {}
  PROVE  /\ ~ Outdated(o.dir, n, o.seen)
         /\ o.checked = "no" \/ ~ Taken(dirs[o.dir], n)
<1>1. Late(o, n) = {} BY NoStray
<1> QED BY <1>1 DEF Late, When

\* A step back, or to the next thing to look for.
LEMMA GoBack ==
  ASSUME Good, TInv', NEW t \in Tasks, NEW q, Go(t, q), dirs' = dirs, Accounts(t),
         op[t].pc \notin Leaving,
         (file' = file /\ file[t] = NoFile) \/ file' = [file EXCEPT ![t] = NoFile],
         q.pc \in {"idle", "dir", "find"}, q.dir \in {op[t].dir, Root, 0} \/ Alive(q.dir)
  PROVE  StepOK(t) /\ Sound'
<1>1. TInv BY DEF Good
<1>2. op'[t] = q /\ OthersStay(t) /\ asks[t] = {} /\ file'[t] = NoFile BY <1>1, GoStays
<1>3. Heads(t)
  <2>1. CASE q.dir \in {op[t].dir, Root, 0} BY <1>2, <2>1 DEF Heads
  <2>2. CASE Alive(q.dir)
    <3>1. PICK D : D = q.dir OBVIOUS
    <3>2. Alive(D) /\ op'[t].dir = D BY <1>2, <2>2, <3>1
    <3> QED BY <3>2 DEF Heads, Alive
  <2> QED BY <2>1, <2>2
<1> QED BY <1>2, <1>3, BackSound

LEMMA SeekerIs ==
  ASSUME Good, NEW t \in Tasks, op[t].pc \in Seeking
  PROVE  file[t] = NoFile /\ IsOp(op[t]) /\ TaskOK(op[t], file[t])
BY GoodTask DEF TaskOK, AtPlace

LEMMA StartSound ==
  ASSUME Good, TInv', NEW t \in Tasks, Start(t) PROVE StepOK(t) /\ Sound'
<1>1. /\ op[t].pc = "idle" /\ dirs' = dirs /\ used' = used /\ part' = part /\ file' = file /\ file[t] = NoFile
  BY DEF Start, At, IsOpen
<1>2. PICK c \in Calls :
        Go(t, Opening([Idle EXCEPT !.call = c, !.phase = IF c.fn = "move" THEN "dst" ELSE "only"]))
  BY DEF Start
<1>3. PICK p : p = IF c.fn = "move" THEN "dst" ELSE "only" OBVIOUS
<1>4. PICK o : o = [Idle EXCEPT !.call = c, !.phase = p] OBVIOUS
<1>5. IsOp(o) /\ o.dir = 0
  <2>1. o = [call |-> c, phase |-> p, pc |-> Idle.pc, dir |-> Idle.dir, slot |-> Idle.slot,
             ent |-> Idle.ent, new |-> Idle.new, free |-> Idle.free, checked |-> Idle.checked,
             alias |-> Idle.alias, seen |-> Idle.seen, goal |-> Idle.goal]
    BY <1>4, IdleOK DEF IsOp
  <2>2. Idle.dir = 0 BY DEF Idle
  <2>3. IsOp(o) BY <2>1, IdleOK DEF IsOp
  <2> QED BY <2>1, <2>2, <2>3
<1>6. Go(t, Opening(o)) BY <1>2, <1>3, <1>4
<1>7. Opening(o).pc \in {"dir", "find"} /\ Opening(o).dir \in {0, Root} BY <1>5, OpeningIs
<1> QED BY <1>1, <1>6, <1>7, GoBack DEF Accounts, Leaving

LEMMA FindDirSound ==
  ASSUME Good, TInv', NEW t \in Tasks, FindDir(t), strays' = {} PROVE StepOK(t) /\ Sound'
<1>1. /\ op[t].pc = "dir" /\ dirs' = dirs /\ used' = used /\ part' = part /\ file' = file
  BY DEF FindDir, At
<1>2. file[t] = NoFile /\ IsOp(op[t]) /\ TaskOK(op[t], file[t]) BY <1>1, SeekerIs DEF Seeking
<1>3. PICK o : o = op[t] OBVIOUS
<1>4. Looks(o) BY <1>1, <1>2, <1>3, SeekingLooks
<1>5. PICK D : D = DirOf(Path(o).in) OBVIOUS
<1>6. CASE Go(t, [o EXCEPT !.dir = D, !.pc = "find"]) /\ Stray(When(~ Alive(D), "doomed"))
  <2>1. PICK q : q = [o EXCEPT !.dir = D, !.pc = "find"] OBVIOUS
  <2>2. q.pc = "find" /\ q.dir = D BY <1>2, <1>3, <2>1 DEF IsOp
  <2>3. When(~ Alive(D), "doomed") = {} BY <1>6, NoStray
  <2>4. Alive(D) BY <2>3 DEF When
  <2>5. Go(t, q) /\ Alive(q.dir) BY <1>6, <2>1, <2>2, <2>4
  <2> QED BY <1>1, <1>2, <2>2, <2>5, GoBack DEF Accounts, Leaving
<1>7. CASE Go(t, Refused(o, "path"))
  <2>1. Refused(o, "path").pc \in {"idle", "dir", "find"} /\ Refused(o, "path").dir \in {op[t].dir, Root, 0}
    BY <1>3, <1>4, RefusedIs
  <2> QED BY <1>1, <1>2, <1>7, <2>1, GoBack DEF Accounts, Leaving
<1> QED BY <1>3, <1>5, <1>6, <1>7 DEF FindDir

LEMMA LeaveSound ==
  ASSUME Good, TInv', NEW t \in Tasks, Leave(t) PROVE StepOK(t) /\ Sound'
<1>1. /\ op[t].pc = "leave" /\ dirs' = dirs /\ used' = used /\ part' = part /\ file' = [file EXCEPT ![t] = NoFile]
  BY DEF Leave, At
<1>2. PICK o : o = op[t] OBVIOUS
<1>3. IsOp(o) BY <1>2, GoodTask DEF TaskOK
<1>4. PICK a : a = [o EXCEPT !.phase = "del"] OBVIOUS
<1>5. PICK b : b = [o EXCEPT !.phase = "src", !.goal = Nothing] OBVIOUS
<1>6. IsOp(a) /\ IsOp(b) /\ a.dir = o.dir /\ b.dir = o.dir
  <2>1. a = [call |-> o.call, phase |-> "del", pc |-> o.pc, dir |-> o.dir, slot |-> o.slot,
             ent |-> o.ent, new |-> o.new, free |-> o.free, checked |-> o.checked,
             alias |-> o.alias, seen |-> o.seen, goal |-> o.goal]
    BY <1>3, <1>4 DEF IsOp
  <2>2. b = [call |-> o.call, phase |-> "src", pc |-> o.pc, dir |-> o.dir, slot |-> o.slot,
             ent |-> o.ent, new |-> o.new, free |-> o.free, checked |-> o.checked,
             alias |-> o.alias, seen |-> o.seen, goal |-> Nothing]
    BY <1>3, <1>5 DEF IsOp
  <2>3. IsOp(a) BY <1>3, <2>1 DEF IsOp
  <2>4. IsOp(b) BY <1>3, <2>2 DEF IsOp
  <2> QED BY <2>1, <2>2, <2>3, <2>4
<1>7. PICK q \in {Opening(a), Opening(b), Idle} : Go(t, q) BY <1>2, <1>4, <1>5 DEF Leave
<1>8. Idle.pc = "idle" /\ Idle.dir = 0 BY DEF Idle
<1>9. q.pc \in {"idle", "dir", "find"} /\ q.dir \in {op[t].dir, Root, 0}
  BY <1>2, <1>6, <1>7, <1>8, OpeningIs
<1> QED BY <1>1, <1>7, <1>9, GoBack DEF Accounts, Leaving

\* No end mark before a slot.
Clear(D, k) == \A j \in DOMAIN dirs[D] : j < k => dirs[D][j].kind # "end"

LEMMA ClearRun ==
  ASSUME TInv, NEW D \in Clusters \cup {Root}, NEW i \in Nat, Clear(D, i), NEW m \in Nat \ {0}
  PROVE  Clear(D, FirstRun(dirs[D], i, m)) /\ FirstRun(dirs[D], i, m) \in Nat
<1>1. PICK s : s = dirs[D] OBVIOUS
<1>2. PICK n : n = SlotsOf(D) OBVIOUS
<1>3. n \in Nat /\ DOMAIN s = 0 .. n - 1 BY <1>1, <1>2, DirIs
<1>4. PICK e : e = EndFrom(s, i) OBVIOUS
<1>5. PICK f : f = FirstRun(s, i, m) OBVIOUS
<1>6. e \in 0 .. n /\ \A j \in i .. e - 1 : j \in DOMAIN s => s[j].kind # "end"
  BY <1>3, <1>4, EndFromIs
<1>7. f \in 0 .. n /\ f <= e
  <2>1. f \in 0 .. n /\ (f = e \/ f + m <= e) BY <1>3, <1>4, <1>5, FirstRunIs
  <2> QED BY <1>6, <2>1
<1>8. ASSUME NEW j \in DOMAIN s, j < f PROVE s[j].kind # "end"
  <2>1. CASE j < i BY <1>1, <1>8, <2>1 DEF Clear
  <2>2. CASE ~ (j < i)
    <3>1. j \in i .. e - 1 BY <1>3, <1>6, <1>7, <1>8, <2>2
    <3> QED BY <1>6, <3>1
  <2> QED BY <2>1, <2>2
<1> QED BY <1>1, <1>5, <1>7, <1>8 DEF Clear

\* What a search knows.
Searched(o, p, s, n) ==
  o = [p EXCEPT !.seen = Knowledge(p.dir, n), !.free = FirstRun(s, 0, 2), !.checked = Checked(p.dir, n)]

LEMMA SearchIs ==
  ASSUME Good, NEW t \in Tasks, op[t].pc = "find", NEW p, p = op[t], NEW n, NEW s, s = dirs[p.dir],
         NEW o, Searched(o, p, s, n)
  PROVE  /\ Looks(o) /\ IsOp(o) /\ p.dir \in Clusters \cup {Root} /\ o.dir = p.dir /\ o.pc = "find"
         /\ o.seen = Knowledge(p.dir, n) /\ Clear(p.dir, o.free)
         /\ o.call = p.call /\ o.phase = p.phase /\ Fn(o) = Fn(p) /\ Mode(o) = Mode(p)
         /\ file[t] = NoFile
<1>1. TInv /\ TaskOK(p, file[t]) BY GoodTask DEF Good
<1>2. Looks(p) /\ file[t] = NoFile /\ IsOp(p) BY <1>1, SeekingLooks DEF Looks
<1>3. p.dir \in Clusters \cup {Root} BY <1>1, <1>2 DEF TaskOK, FnsAt, IsOp
<1>4. PICK f : f = FirstRun(s, 0, 2) OBVIOUS
<1>5. Clear(p.dir, f) /\ f \in Nat
  <2>1. Clear(p.dir, 0)
    <3>1. DOMAIN dirs[p.dir] = 0 .. SlotsOf(p.dir) - 1 BY <1>1, <1>3, DirIs
    <3> QED BY <3>1 DEF Clear
  <2> QED BY <1>1, <1>3, <1>4, <2>1, ClearRun
<1>6. o = [call |-> p.call, phase |-> p.phase, pc |-> p.pc, dir |-> p.dir, slot |-> p.slot,
           ent |-> p.ent, new |-> p.new, free |-> f, checked |-> Checked(p.dir, n),
           alias |-> p.alias, seen |-> Knowledge(p.dir, n), goal |-> p.goal]
  BY <1>2, <1>4 DEF IsOp, Searched
<1>7. IsOp(o) BY <1>2, <1>5, <1>6 DEF IsOp
<1>8. /\ o.call = p.call /\ o.phase = p.phase /\ o.dir = p.dir /\ o.ent = p.ent
      /\ o.new = p.new /\ o.pc = p.pc /\ o.free = f /\ o.seen = Knowledge(p.dir, n)
  BY <1>6
<1>9. Fn(o) = Fn(p) BY <1>8 DEF Fn
<1>10. Mode(o) = Mode(p) BY <1>8, <1>9 DEF Mode
<1>11. Looks(o) BY <1>2, <1>7, <1>8, <1>9 DEF Looks
<1> QED BY <1>2, <1>3, <1>5, <1>7, <1>8, <1>9, <1>10, <1>11

\* A step to where a new entry is begun.
LEMMA GoClaim ==
  ASSUME Good, TInv', NEW t \in Tasks, NEW q, Go(t, q), dirs' = dirs, used' = used, part' = part, file' = file,
         file[t] = NoFile, op[t].pc = "find", q.pc = "claim", q.dir = op[t].dir, Clear(q.dir, q.free)
  PROVE  StepOK(t) /\ Sound'
<1>1. TInv BY DEF Good
<1>2. op'[t] = q /\ OthersStay(t) /\ asks[t] = {} /\ file'[t] = NoFile BY <1>1, GoStays
<1>3. ~ Working(t)' BY <1>2 DEF Working
<1>4. HandleNamed(t)' BY <1>3 DEF HandleNamed
<1>5. Unstarted(op[t])' BY <1>2 DEF Unstarted, Clear
<1>6. World(t)' BY <1>2, <1>4, <1>5 DEF World, Planned, Begun, Emptied, Moved, Moving, Fresh, Creating, Dotting
<1>7. Locals(op[t], file[t])' BY <1>2 DEF Locals, HandleFits, SoughtOK, NestedOK, Creating
<1>8. Mine(t)' BY <1>6, <1>7 DEF Mine
<1>9. Heads(t) BY <1>2 DEF Heads
<1>10. Onward(t) /\ op'[t].pc \notin Dotting /\ HoldsOn(t) /\ Carries(t)
  BY <1>2, <1>3 DEF Onward, Dotting, HoldsOn, Keeping, Carries
<1> QED BY <1>2, <1>8, <1>9, <1>10, QuietSound DEF Accounts, Leaving

\* A step to where a file is opened.
LEMMA GoJoin ==
  ASSUME Good, TInv', NEW t \in Tasks, NEW q, Go(t, q), dirs' = dirs, used' = used, part' = part, file' = file,
         file[t] = NoFile, op[t].pc = "find", q.pc = "join", q.dir = op[t].dir, SoughtOK(q)
  PROVE  StepOK(t) /\ Sound'
<1>1. TInv BY DEF Good
<1>2. op'[t] = q /\ OthersStay(t) /\ asks[t] = {} /\ file'[t] = NoFile BY <1>1, GoStays
<1>3. ~ Working(t)' BY <1>2 DEF Working
<1>4. HandleNamed(t)' BY <1>3 DEF HandleNamed
<1>5. World(t)' BY <1>2, <1>4, PlainWorld
<1>6. SoughtOK(op[t])' BY <1>2 DEF SoughtOK, Mode, Fn
<1>7. Locals(op[t], file[t])' BY <1>2, <1>6 DEF Locals, HandleFits, NestedOK, Creating
<1>8. Mine(t)' BY <1>5, <1>7 DEF Mine
<1>9. Heads(t) BY <1>2 DEF Heads
<1>10. Onward(t) /\ op'[t].pc \notin Dotting /\ HoldsOn(t) /\ Carries(t)
  BY <1>2, <1>3 DEF Onward, Dotting, HoldsOn, Keeping, Carries
<1> QED BY <1>2, <1>8, <1>9, <1>10, QuietSound DEF Accounts, Leaving

LEMMA AbsentSound ==
  ASSUME Good, TInv', NEW t \in Tasks, NEW o, Go(t, Absent(o)), dirs' = dirs, used' = used, part' = part,
         file' = file, file[t] = NoFile, op[t].pc = "find", Looks(o), o.dir = op[t].dir, Clear(o.dir, o.free)
  PROVE  StepOK(t) /\ Sound'
<1>1. IsOp(o) BY DEF Looks
<1>2. CASE Creates(o)
  <2>1. PICK q : q = [o EXCEPT !.pc = "claim"] OBVIOUS
  <2>2. q.pc = "claim" /\ q.dir = o.dir /\ q.free = o.free BY <1>1, <2>1, PcIs
  <2>3. Go(t, q) /\ Clear(q.dir, q.free) BY <1>2, <2>1, <2>2 DEF Absent
  <2> QED BY <2>2, <2>3, GoClaim
<1>3. CASE ~ Creates(o)
  <2>1. Go(t, Refused(o, "absent")) BY <1>3 DEF Absent
  <2>2. Refused(o, "absent").pc \in {"idle", "dir", "find"} /\ Refused(o, "absent").dir \in {op[t].dir, Root, 0}
    BY RefusedIs
  <2> QED BY <2>1, <2>2, GoBack DEF Accounts, Leaving
<1> QED BY <1>2, <1>3

LEMMA FindSound ==
  ASSUME Good, TInv', NEW t \in Tasks, Find(t), strays' = {} PROVE StepOK(t) /\ Sound'
<1>1. /\ op[t].pc = "find" /\ dirs' = dirs /\ used' = used /\ part' = part /\ file' = file
  BY DEF Find, At
<1>2. PICK p : p = op[t] OBVIOUS
<1>3. PICK s : s = dirs[p.dir] OBVIOUS
<1>4. PICK n : n = Path(p).name OBVIOUS
<1>5. PICK o : o = [p EXCEPT !.seen = Knowledge(p.dir, n), !.free = FirstRun(s, 0, 2),
                             !.checked = Checked(p.dir, n)]
  OBVIOUS
<1>6. /\ Looks(o) /\ IsOp(o) /\ p.dir \in Clusters \cup {Root} /\ o.dir = p.dir /\ o.pc = "find"
      /\ o.seen = Knowledge(p.dir, n) /\ Clear(p.dir, o.free)
      /\ o.call = p.call /\ o.phase = p.phase /\ Fn(o) = Fn(p) /\ Mode(o) = Mode(p)
      /\ file[t] = NoFile
  <2>1. Searched(o, p, s, n) BY <1>5 DEF Searched
  <2> QED BY <1>1, <1>2, <1>3, <2>1, SearchIs
<1>8. Idle.pc = "idle" /\ Idle.dir = 0 BY DEF Idle
<1>9. ASSUME Go(t, Idle) PROVE StepOK(t) /\ Sound'
  BY <1>1, <1>6, <1>8, <1>9, GoBack DEF Accounts, Leaving
<1>10. ASSUME NEW why, Go(t, Refused(o, why)) PROVE StepOK(t) /\ Sound'
  <2>1. Refused(o, why).pc \in {"idle", "dir", "find"} /\ Refused(o, why).dir \in {op[t].dir, Root, 0}
    BY <1>2, <1>6, RefusedIs
  <2> QED BY <1>1, <1>6, <1>10, <2>1, GoBack DEF Accounts, Leaving
<1>11. \/ \E i \in Hits(s, n) : Found(t, o, i, s)
       \/ Go(t, Absent(o))
       \/ Phantom(t, o, s)
       \/ \E k : Go(t, IF Fn(o) = "mkdir" THEN Idle
                       ELSE Absent([o EXCEPT !.free = 0, !.checked = k]))
  <2>1. ~ Stray({"phantom"}) BY NoStray
  <2> QED BY <1>2, <1>3, <1>4, <1>5, <2>1 DEF Find
<1>12. ASSUME NEW i \in Hits(s, n), Found(t, o, i, s) PROVE StepOK(t) /\ Sound'
  <2>1. i \in Named(s, n) /\ s[i].kind = "entry" BY DEF Hits, Named, Entries
  <2>2. CASE Fn(o) = "mkdir"
    <3>1. Stray(When(s[i].cluster = 0, "empty")) BY <1>12, <2>2 DEF Found
    <3>2. s[i].cluster # 0 BY <3>1, NoStray DEF When
    <3> QED BY <1>9, <1>12, <2>2, <3>2 DEF Found
  <2>3. CASE Fn(o) # "mkdir" /\ s[i].isdir /\ "D" \notin Mode(o)
    BY <1>10, <1>12, <2>3 DEF Found
  <2>4. CASE Fn(o) # "mkdir" /\ ~ (s[i].isdir /\ "D" \notin Mode(o))
    <3>1. PICK e : e = [cluster |-> s[i].cluster, size |-> s[i].size, isdir |-> s[i].isdir] OBVIOUS
    <3>2. PICK q : q = [o EXCEPT !.pc = "join", !.slot = i, !.ent = e] OBVIOUS
    <3>3. Go(t, q) BY <1>12, <2>4, <3>1, <3>2 DEF Found
    <3>4. q = [call |-> o.call, phase |-> o.phase, pc |-> "join", dir |-> o.dir, slot |-> i,
               ent |-> e, new |-> o.new, free |-> o.free, checked |-> o.checked,
               alias |-> o.alias, seen |-> o.seen, goal |-> o.goal]
      BY <1>6, <3>2 DEF IsOp
    <3>5. Fn(q) = Fn(o) /\ q.phase = o.phase /\ q.call = o.call BY <3>4 DEF Fn
    <3>6. Mode(q) = Mode(o) BY <3>5 DEF Mode
    <3>7. <<i, s[i]>> \in q.seen.at BY <1>3, <1>6, <2>1, <3>4 DEF Knowledge
    <3>8. SoughtOK(q)
      <4>1. q.slot = i /\ q.ent.cluster = s[i].cluster /\ q.ent.isdir = s[i].isdir BY <3>1, <3>4
      <4>2. s[i].isdir => "D" \in Mode(q) BY <2>4, <3>6
      <4> QED BY <2>1, <3>7, <4>1, <4>2 DEF SoughtOK
    <3>9. q.pc = "join" /\ q.dir = op[t].dir BY <1>2, <1>6, <3>4
    <3> QED BY <1>1, <1>6, <3>3, <3>8, <3>9, GoJoin
  <2> QED BY <2>2, <2>3, <2>4
<1>13. CASE Go(t, Absent(o)) BY <1>1, <1>2, <1>6, <1>13, AbsentSound
<1>14. CASE Phantom(t, o, s)
  <2>1. CASE Go(t, Refused(o, "readonly")) BY <1>10, <2>1
  <2>2. ~ Stray({"phantom"}) BY NoStray
  <2>3. Go(t, Refused(o, "readonly")) BY <1>14, <2>2 DEF Phantom
  <2> QED BY <2>1, <2>3
<1>15. ASSUME NEW k, NEW o2, o2 = [o EXCEPT !.free = 0, !.checked = k],
              Go(t, IF Fn(o) = "mkdir" THEN Idle ELSE Absent(o2))
       PROVE  StepOK(t) /\ Sound'
  <2>1. CASE Fn(o) = "mkdir" BY <1>9, <1>15, <2>1
  <2>2. CASE Fn(o) # "mkdir"
    <3>1. o2 = [call |-> o.call, phase |-> o.phase, pc |-> o.pc, dir |-> o.dir, slot |-> o.slot,
                ent |-> o.ent, new |-> o.new, free |-> 0, checked |-> k,
                alias |-> o.alias, seen |-> o.seen, goal |-> o.goal]
      BY <1>6, <1>15 DEF IsOp
    <3>2. IsOp(o2) BY <1>6, <3>1 DEF IsOp
    <3>3. /\ o2.call = o.call /\ o2.phase = o.phase /\ o2.dir = o.dir /\ o2.ent = o.ent
          /\ o2.new = o.new /\ Fn(o2) = Fn(o) /\ o2.free = 0
      BY <3>1 DEF Fn
    <3>4. Looks(o2) BY <1>6, <3>2, <3>3 DEF Looks
    <3>5. Clear(o2.dir, o2.free)
      <4>1. DOMAIN dirs[p.dir] = 0 .. SlotsOf(p.dir) - 1 BY <1>6, DirIs DEF Good
      <4> QED BY <1>6, <3>3, <4>1 DEF Clear
    <3>6. Go(t, Absent(o2)) BY <1>15, <2>2
    <3> QED BY <1>1, <1>2, <1>6, <3>3, <3>4, <3>5, <3>6, AbsentSound
  <2> QED BY <2>1, <2>2
<1> QED BY <1>11, <1>12, <1>13, <1>14, <1>15

LEMMA LoseAccounts ==
  ASSUME NEW t, Lose(t) PROVE Accounts(t) /\ Go(t, Idle)
<1>1. PICK c : c = Least(FreeClusters) OBVIOUS
<1>2. c \in Clusters \ used /\ Assign(c, Nobody) /\ Go(t, Idle)
  BY <1>1, LeastFree DEF Lose, FreeClusters
<1> QED BY <1>2, NamesAssumption DEF Accounts

LEMMA ClaimSound ==
  ASSUME Good, TInv', NEW t \in Tasks, Claim(t), strays' = {} PROVE StepOK(t) /\ Sound'
<1>1. op[t].pc = "claim" /\ file' = file /\ TInv BY DEF Claim, At, Good
<1>2. file[t] = NoFile /\ IsOp(op[t]) /\ TaskOK(op[t], file[t]) BY <1>1, SeekerIs DEF Seeking
<1>3. PICK o : o = op[t] OBVIOUS
<1>4. PICK c : c = Least(FreeClusters) OBVIOUS
<1>5. PICK isdir \in BOOLEAN : isdir <=> Fn(o) = "mkdir" OBVIOUS
<1>6. ASSUME FreeClusters # {}, used' = used \cup {c}, part' = part,
             Stray(When(isdir /\ \E u \in Tasks : op[u].dir = c, "recycled")),
             NEW p \in {"plan", "undo"}, Go(t, [o EXCEPT !.new = c, !.pc = p]),
             dirs' = IF isdir /\ p = "plan" THEN [dirs EXCEPT ![c] = Blank] ELSE dirs
      PROVE  StepOK(t) /\ Sound'
  <2>1. c \in Clusters /\ c \notin used BY <1>4, <1>6, LeastFree DEF FreeClusters
  <2>2. isdir => \A u \in Tasks : op[u].dir # c BY <1>6, NoStray DEF When
  <2>3. PICK q : q = [o EXCEPT !.new = c, !.pc = p] OBVIOUS
  <2>4. q = [call |-> o.call, phase |-> o.phase, pc |-> p, dir |-> o.dir, slot |-> o.slot,
             ent |-> o.ent, new |-> c, free |-> o.free, checked |-> o.checked,
             alias |-> o.alias, seen |-> o.seen, goal |-> o.goal]
    BY <1>2, <1>3, <2>3 DEF IsOp
  <2>5. q.pc = p /\ q.dir = o.dir /\ q.new = c /\ q.free = o.free /\ Fn(q) = Fn(o) BY <2>4 DEF Fn
  <2>6. op'[t] = q /\ OthersStay(t) /\ asks[t] = {} /\ file'[t] = NoFile
    BY <1>1, <1>2, <1>6, <2>3, GoStays
  <2>7. DOMAIN dirs = Clusters \cup {Root} /\ DOMAIN dirs[c] = 0 .. DirSlots - 1
    BY <1>1, <2>1, Shape, DirIs DEF SlotsOf
  <2>8. \A D : D # c => dirs'[D] = dirs[D] BY <1>1, <1>6
  <2>9. isdir /\ p = "plan" => dirs'[c] = Blank BY <1>6, <2>1, <2>7
  <2>10. Effect(t)
    <3> SUFFICES ASSUME NEW D, NEW i, Place(D, i), dirs'[D][i] # dirs[D][i] PROVE Blanked(t, D, i)
      BY DEF Effect
    <3>1. D = c /\ isdir /\ p = "plan" BY <1>6, <2>8
    <3>2. \A j \in DOMAIN dirs[c] : dirs'[c][j] = End BY <2>7, <2>9, <3>1 DEF Blank
    <3> QED BY <1>1, <2>1, <2>2, <3>1, <3>2 DEF Blanked
  <2>11. Heads(t) /\ Dooms(t) /\ Leaves(t) /\ Frees(t) /\ Completes(t)
    BY <1>1, <1>3, <2>5, <2>6 DEF Heads, Dooms, Leaves, Leaving, Frees, Dooming, Completes, Dotting
  <2>12. StepOK(t) BY <2>6, <2>10, <2>11 DEF StepOK
  <2>13. EndsAreLast(dirs)' BY <2>12, EndsStay
  <2>14. Owned' BY <1>1, <1>6, <2>1, <2>5, <2>6, <2>12, <2>13, OwnedGained
  <2>15. ~ Working(t)' BY <2>6 DEF Working
  <2>16. Apart' BY <2>12, <2>15, ApartStays DEF Carries
  <2>17. HandleNamed(t)' BY <2>15 DEF HandleNamed
  <2>18. World(t)'
    <3>1. CASE p = "undo" BY <2>5, <2>6, <2>17, <3>1, PlainWorld
    <3>2. CASE p = "plan"
      <4>1. Unstarted(op[t])'
        <5>1. Unstarted(o) BY <1>3, GoodTask DEF World
        <5>2. dirs'[o.dir] = dirs[o.dir] BY <1>3, <1>6, <2>2, <2>8
        <5> QED BY <1>1, <1>3, <2>5, <2>6, <5>1, <5>2 DEF Unstarted
      <4>2. Fresh(t)'
        <5> SUFFICES ASSUME Fn(o) = "mkdir" PROVE Fresh(t)'
          BY <2>5, <2>6, <3>2 DEF Fresh, Dotting
        <5>1. dirs'[c] = Blank /\ c # 0 BY <1>1, <1>5, <2>1, <2>9, <3>2, Shape
        <5>2. \A u \in Tasks : op'[u].dir # c BY <1>3, <1>5, <2>2, <2>5, <2>6 DEF OthersStay
        <5> QED BY <2>5, <2>6, <3>2, <5>1, <5>2 DEF Fresh, Dotting
      <4> QED BY <2>5, <2>6, <2>17, <3>2, <4>1, <4>2 DEF World, Planned, Begun, Emptied, Moved, Moving
    <3> QED BY <3>1, <3>2
  <2>19. Locals(op[t], file[t])'
    <3>1. NestedOK(op[t], file[t])'
      <4>1. NoFile.isdir = FALSE BY DEF NoFile
      <4> QED BY <2>6, <4>1 DEF NestedOK
    <3> QED BY <2>5, <2>6, <3>1 DEF Locals, HandleFits, SoughtOK
  <2> QED BY <2>10, <2>12, <2>14, <2>16, <2>18, <2>19, SoundStep DEF Mine
<1>7. ASSUME Go(t, Idle), dirs' = dirs, Accounts(t) PROVE StepOK(t) /\ Sound'
  <2>1. Idle.pc = "idle" /\ Idle.dir = 0 BY DEF Idle
  <2> QED BY <1>1, <1>2, <1>7, <2>1, GoBack DEF Leaving
<1>8. CASE /\ FreeClusters # {} /\ used' = used \cup {c} /\ part' = part
           /\ Stray(When(isdir /\ \E u \in Tasks : op[u].dir = c, "recycled"))
           /\ dirs' = IF isdir THEN [dirs EXCEPT ![c] = Blank] ELSE dirs
           /\ Go(t, [o EXCEPT !.new = c, !.pc = "plan"])
  <2>1. dirs' = IF isdir /\ "plan" = "plan" THEN [dirs EXCEPT ![c] = Blank] ELSE dirs BY <1>8
  <2> QED BY <1>6, <1>8, <2>1
<1>9. CASE /\ FreeClusters # {} /\ used' = used \cup {c} /\ part' = part
           /\ Stray(When(isdir /\ \E u \in Tasks : op[u].dir = c, "recycled"))
           /\ dirs' = dirs
           /\ Go(t, [o EXCEPT !.new = c, !.pc = "undo"])
  <2>1. dirs' = IF isdir /\ "undo" = "plan" THEN [dirs EXCEPT ![c] = Blank] ELSE dirs BY <1>9
  <2> QED BY <1>6, <1>9, <2>1
<1>10. CASE Go(t, Idle) /\ dirs' = dirs /\ used' = used /\ part' = part
  BY <1>7, <1>10 DEF Accounts
<1>11. CASE Lose(t) /\ dirs' = dirs BY <1>7, <1>11, LoseAccounts
<1> QED BY <1>3, <1>4, <1>5, <1>8, <1>9, <1>10, <1>11 DEF Claim

\* A slot that FF_FindFreeDirent finds.
LEMMA RunIsFree ==
  ASSUME TInv, EndsAreLast(dirs), NEW D \in Clusters \cup {Root}, NEW i \in Nat, Clear(D, i),
         NEW m \in {1, 2}, NEW k, k = FirstRun(dirs[D], i, m), k + m <= SlotsOf(D)
  PROVE  /\ FreeAt(D, k) /\ k \in Nat
         /\ m = 2 => Place(D, k + 1) /\ dirs[D][k + 1].kind \in {"end", "deleted"}
<1>1. Clear(D, k) /\ k \in Nat BY ClearRun
<1>2. PICK s : s = dirs[D] OBVIOUS
<1>3. PICK n : n = SlotsOf(D) OBVIOUS
<1>4. n \in Nat /\ DOMAIN s = 0 .. n - 1 /\ DOMAIN dirs = Clusters \cup {Root} BY <1>2, <1>3, DirIs
<1>5. PICK e : e = EndFrom(s, i) OBVIOUS
<1>6. e < n => s[e].kind = "end" BY <1>4, <1>5, EndFromIs
<1>7. k = e \/ \A j \in k .. k + m - 1 : s[j] = Deleted
  <2>1. m \in Nat \ {0} BY NamesAssumption
  <2>2. k = FirstRun(s, i, m) BY <1>2
  <2>3. PICK r : r = FirstRun(s, i, m) OBVIOUS
  <2>4. r = EndFrom(s, i) \/ \A j \in r .. r + m - 1 : s[j] = Deleted BY <1>4, <2>1, <2>3, FirstRunIs
  <2> QED BY <1>5, <2>2, <2>3, <2>4
<1>8. k + m <= n /\ k \in DOMAIN s /\ (m = 2 => k + 1 \in DOMAIN s) BY <1>1, <1>3, <1>4
<1>9. Deleted.kind = "deleted" BY DEF Deleted
<1>10. CASE k = e
  <2>1. s[k].kind = "end" BY <1>1, <1>4, <1>6, <1>8, <1>10
  <2>2. ASSUME m = 2 PROVE s[k + 1].kind = "end"
    <3>1. k < k + 1 /\ k + 1 \in DOMAIN s BY <1>1, <1>8, <2>2
    <3> QED BY <1>2, <1>4, <1>8, <2>1, <3>1 DEF EndsAreLast
  <2> QED BY <1>1, <1>2, <1>4, <1>8, <2>1, <2>2 DEF FreeAt, Place, Clear
<1>11. CASE \A j \in k .. k + m - 1 : s[j] = Deleted
  <2>1. k \in k .. k + m - 1 /\ (m = 2 => k + 1 \in k .. k + m - 1) BY <1>1
  <2>2. s[k] = Deleted /\ (m = 2 => s[k + 1] = Deleted) BY <1>11, <2>1
  <2> QED BY <1>1, <1>2, <1>4, <1>8, <1>9, <2>2 DEF FreeAt, Place, Clear
<1> QED BY <1>7, <1>10, <1>11

\* FF_CreateDirent has failed.
LEMMA NotCreatedSound ==
  ASSUME Good, TInv', NEW t \in Tasks, op[t].pc \in Creating, Go(t, NotCreated(op[t])),
         dirs' = dirs, used' = used, part' = part, file' = file
  PROVE  StepOK(t) /\ Sound'
<1>1. PICK o : o = op[t] OBVIOUS
<1>2. PICK q : q = NotCreated(o) OBVIOUS
<1>3. TInv /\ IsOp(o) /\ HandleFits(o, file[t]) BY <1>1, GoodTask DEF Good, TaskOK, Locals
<1>4. q.pc \in {"leave", "undo"} /\ q.dir = o.dir /\ q.new = o.new /\ Fn(q) = Fn(o) /\ q.phase = o.phase
      /\ q.call = o.call
  <2>1. q = [o EXCEPT !.pc = IF Fn(o) = "move" THEN "leave" ELSE "undo"] BY <1>2 DEF NotCreated
  <2> QED BY <1>3, <2>1, PcIs
<1>5. op'[t] = q /\ OthersStay(t) /\ asks[t] = {} /\ file'[t] = file[t] BY <1>1, <1>2, <1>3, GoStays
<1>6. Heads(t) /\ Onward(t) /\ HoldsOn(t) /\ Carries(t) /\ op'[t].pc \notin Dotting
  BY <1>1, <1>4, <1>5 DEF Heads, Onward, HoldsOn, Carries, Dotting, Creating, Keeping, Working
<1>7. ASSUME StepOK(t) PROVE Mine(t)'
  <2>1. HandleNamed(t)' BY <1>4, <1>5, <1>6, <1>7, OwnNamed DEF Creating
  <2>2. World(t)' BY <1>4, <1>5, <2>1, PlainWorld
  <2>3. Mode(q) = Mode(o) BY <1>4 DEF Mode
  <2>4. HandleFits(q, file[t]) BY <1>3, <1>4, <2>3 DEF HandleFits
  <2>5. Locals(op[t], file[t])'
    BY <1>4, <1>5, <2>4 DEF Locals, HandleFits, SoughtOK, NestedOK, Creating, Mode, Fn
  <2> QED BY <2>2, <2>5 DEF Mine
<1>8. op[t].pc \notin Leaving BY DEF Leaving, Creating
<1> QED BY <1>5, <1>6, <1>7, <1>8, QuietSound DEF Accounts

\* What is not changed by a step that keeps the handle and what it is for.
LEMMA SameMine ==
  ASSUME NEW t \in Tasks, NEW o, NEW f, NEW q, HandleFits(o, f), NestedOK(o, f),
         op'[t] = q, file'[t] = f, Fn(q) = Fn(o), q.phase = o.phase, q.call = o.call, q.dir = o.dir,
         q.pc \notin {"join", "grow", "enter", "note", "cut", "detach", "size"},
         q.pc \in Creating \cup {"made", "rmlfn", "erase"} /\ o.phase \in {"src", "srcdir"}
           => o.pc \in Creating \cup {"made", "rmlfn", "erase"}
  PROVE  Locals(op[t], file[t])'
<1>1. Mode(q) = Mode(o) BY DEF Mode
<1>2. HandleFits(q, f) BY <1>1 DEF HandleFits
<1>3. NestedOK(q, f) BY DEF NestedOK
<1>4. SoughtOK(q) BY DEF SoughtOK
<1> QED BY <1>2, <1>3, <1>4 DEF Locals, HandleFits, NestedOK, SoughtOK, Mode, Fn

LEMMA UnfinishedOnly ==
  ASSUME NEW t \in Tasks, OthersStay(t), op'[t].pc \notin Dotting, NEW D, ~ Unfinished(D)
  PROVE  ~ Unfinished(D)'
BY DEF Unfinished, OthersStay, Dotting

LEMMA PlanSound ==
  ASSUME Good, TInv', NEW t \in Tasks, Plan(t), strays' = {} PROVE StepOK(t) /\ Sound'
<1>1. op[t].pc = "plan" /\ file' = file /\ dirs' = dirs /\ used' = used /\ part' = part /\ TInv BY DEF Plan, At, Good
<1>2. PICK o : o = op[t] OBVIOUS
<1>3. PICK f : f = file[t] OBVIOUS
<1>4. /\ TaskOK(o, f) /\ IsOp(o) /\ HandleFits(o, f) /\ NestedOK(o, f) /\ Unstarted(o) /\ Fresh(t)
      /\ EndsAreLast(dirs)
  BY <1>2, <1>3, GoodTask DEF TaskOK, Locals, World, Good, Sound
<1>5. o.dir \in Clusters \cup {Root} /\ o.free \in Nat
  BY <1>1, <1>2, <1>4 DEF TaskOK, FnsAt, IsOp, Creating
<1>6. PICK s : s = dirs[o.dir] OBVIOUS
<1>7. PICK n : n = NewPath(o).name OBVIOUS
<1>9. PICK m \in {1, 2} : m = Needs(o) BY DEF Needs
<1>10. PICK k : k = FirstRun(s, o.free, m) OBVIOUS
<1>11. \/ \E last, a, sn : /\ last = k + m /\ last <= SlotsOf(o.dir)
                           /\ Go(t, Chosen(o, last, a, sn)) /\ ~ Unfinished(o.dir)
       \/ Go(t, NotCreated(o))
  <2>1. \/ Go(t, NotCreated(o))
        \/ \E last, a, se :
             /\ last = FirstRun(s, o.free, Needs(o)) + Needs(o) /\ last <= SlotsOf(o.dir)
             /\ Go(t, Chosen(o, last, a, se)) /\ Choice(o, s, n, a, se)
    BY <1>2, <1>4, <1>6, <1>7, PlanShape
  <2> QED BY <1>9, <1>10, <2>1 DEF Choice
<1>12. CASE Go(t, NotCreated(o)) BY <1>1, <1>2, <1>12, NotCreatedSound DEF Creating
<1>13. ASSUME NEW last, last = k + m, NEW a, NEW sn, last <= SlotsOf(o.dir), ~ Unfinished(o.dir),
              Go(t, Chosen(o, last, a, sn))
       PROVE  StepOK(t) /\ Sound'
  <2>1. PICK p : p = IF last > Room(o.dir) THEN "extend" ELSE Making(o) OBVIOUS
  <2>2. PICK q : q = Chosen(o, last, a, sn) OBVIOUS
  <2>3. q = [call |-> o.call, phase |-> o.phase, pc |-> p, dir |-> o.dir, slot |-> last - 1,
             ent |-> o.ent, new |-> o.new, free |-> o.free, checked |-> o.checked,
             alias |-> a, seen |-> sn, goal |-> o.goal]
    BY <1>4, <2>1, <2>2 DEF IsOp, Chosen
  <2>4. /\ q.pc = p /\ q.dir = o.dir /\ q.new = o.new /\ Fn(q) = Fn(o) /\ q.phase = o.phase
        /\ q.call = o.call /\ q.slot = last - 1 /\ p \in {"lfn", "entry", "extend"}
    BY <2>1, <2>3 DEF Fn, Making
  <2>14. Begun(q) = Making(o)
    <3>1. NewPath(q) = NewPath(o) BY <2>4 DEF NewPath
    <3>2. Making(q) = Making(o) /\ Making(o) # "extend" BY <3>1 DEF Making
    <3> QED BY <2>1, <2>4, <3>2 DEF Begun
  <2>5. op'[t] = q /\ OthersStay(t) /\ asks[t] = {} /\ file'[t] = f
    BY <1>1, <1>3, <1>13, <2>1, <2>2, GoStays
  <2>6. Heads(t) /\ Onward(t) /\ HoldsOn(t) /\ Carries(t) /\ op'[t].pc \notin Dotting
    BY <1>1, <1>2, <1>3, <2>4, <2>5 DEF Heads, Onward, HoldsOn, Carries, Dotting, Keeping, Working
  <2>7. Clear(o.dir, o.free) BY <1>1, <1>2, <1>4 DEF Unstarted, Clear
  <2>8. /\ FreeAt(o.dir, k) /\ k \in Nat
        /\ m = 2 => Place(o.dir, k + 1) /\ dirs[o.dir][k + 1].kind \in {"end", "deleted"}
    BY <1>1, <1>4, <1>5, <1>6, <1>10, <1>13, <2>7, RunIsFree
  <2>9. ASSUME StepOK(t) PROVE Mine(t)'
    <3>1. HandleNamed(t)' BY <1>1, <1>3, <2>4, <2>5, <2>6, <2>9, OwnNamed
    <3>2. ~ Unfinished(o.dir)' BY <1>13, <2>5, <2>6, UnfinishedOnly
    <3>3. Planned(op[t])'
      <4>0. op[t]' = q /\ Begun(op[t])' = Begun(q) BY <2>5 DEF Begun, Making, NewPath, Fn
      <4>1. CASE n \in Long
        <5>1. Making(o) = "lfn" /\ m = 2 /\ q.slot = k + 1 /\ q.slot - 1 = k
          BY <1>7, <1>9, <1>13, <2>4, <2>8, <4>1 DEF Making, Needs
        <5>2. FreeAt(o.dir, k)' /\ Place(o.dir, k + 1)' BY <1>1, <2>8, <5>1 DEF FreeAt, Place
        <5> QED BY <1>1, <2>4, <2>5, <2>8, <2>14, <3>2, <4>0, <5>1, <5>2 DEF Planned, FreeAt, Place, Unfinished
      <4>2. CASE n \notin Long
        <5>1. Making(o) = "entry" /\ q.slot = k
          BY <1>7, <1>9, <1>13, <2>4, <2>8, <4>2 DEF Making, Needs
        <5>2. FreeAt(o.dir, k)' BY <1>1, <2>8 DEF FreeAt, Place
        <5> QED BY <1>1, <2>4, <2>5, <2>14, <3>2, <4>0, <5>1, <5>2 DEF Planned, FreeAt, Place, Unfinished
      <4> QED BY <4>1, <4>2
    <3>4. Fresh(t)'
      <4> SUFFICES ASSUME Fn(o) = "mkdir" PROVE Fresh(t)' BY <2>4, <2>5 DEF Fresh, Dotting
      <4>1. o.new # 0 /\ dirs[o.new] = Blank /\ \A u \in Tasks : op[u].dir # o.new
        BY <1>1, <1>2, <1>4 DEF Fresh, Creating
      <4>2. \A u \in Tasks : op'[u].dir # o.new BY <1>2, <2>4, <2>5, <4>1 DEF OthersStay
      <4> QED BY <1>1, <2>4, <2>5, <4>1, <4>2 DEF Fresh, Dotting
    <3>5. World(t)' BY <2>4, <2>5, <3>1, <3>3, <3>4 DEF World, Unstarted, Emptied, Moved, Moving
    <3>6. Mode(q) = Mode(o) BY <2>4 DEF Mode
    <3>7. HandleFits(q, f) /\ NestedOK(q, f)
      BY <1>1, <1>2, <1>4, <2>4, <3>6 DEF HandleFits, NestedOK, Creating
    <3>8. Locals(op[t], file[t])'
      <4>1. HandleFits(op[t], file[t])' BY <2>5, <3>7 DEF HandleFits, Mode, Fn
      <4>2. NestedOK(op[t], file[t])' BY <2>5, <3>7 DEF NestedOK, Fn
      <4>3. SoughtOK(op[t])' BY <2>4, <2>5 DEF SoughtOK
      <4> QED BY <4>1, <4>2, <4>3 DEF Locals
    <3> QED BY <3>5, <3>8 DEF Mine
  <2> QED BY <1>1, <2>5, <2>6, <2>9, QuietSound DEF Accounts, Leaving
<1> QED BY <1>11, <1>12, <1>13

\* FF_ExtendDirectory.
LEMMA ExtendSound ==
  ASSUME Good, TInv', NEW t \in Tasks, Extend(t), strays' = {} PROVE StepOK(t) /\ Sound'
<1>1. op[t].pc = "extend" /\ file' = file /\ dirs' = dirs /\ TInv BY DEF Extend, At, Good
<1>2. PICK o : o = op[t] OBVIOUS
<1>3. PICK f : f = file[t] OBVIOUS
<1>4. /\ TaskOK(o, f) /\ IsOp(o) /\ HandleFits(o, f) /\ NestedOK(o, f) /\ Planned(o) /\ Fresh(t)
  BY <1>2, <1>3, GoodTask DEF TaskOK, Locals, World
<1>5. PICK D \in Clusters : D = o.dir
  BY <1>1, <1>2, <1>4 DEF TaskOK, FnsAt, IsOp, Creating
<1>6. PICK c : c = Least(FreeClusters) OBVIOUS
<1>7. Making(o) \in {"lfn", "entry"} BY DEF Making
<1>8. \/ FreeClusters # {} /\ Assign(c, D) /\ To(t, Making(o)) /\ Alive(D)
      \/ FreeClusters # {} /\ Assign(c, Nobody) /\ To(t, "unmade")
      \/ used' = used /\ part' = part /\ To(t, "unmade")
  <2>1. ~ Stray({"uncleared"}) BY NoStray
  <2>2. ASSUME Stray(When(~ Alive(D), "outdated")) PROVE Alive(D) BY <2>2, NoStray DEF When
  <2> QED BY <1>2, <1>5, <1>6, <2>1, <2>2 DEF Extend
<1>9. FreeClusters # {} => c \in Clusters \ used BY <1>6, LeastFree DEF FreeClusters
<1>10. Accounts(t)
  <2>1. Alive(D) => D \in used /\ part[D] = 0 BY AliveSettled
  <2>2. Nobody \notin Clusters BY NamesAssumption
  <2> QED BY <1>8, <1>9, <2>1, <2>2 DEF Accounts
<1>11. PICK p \in {Making(o), "unmade"} : To(t, p) BY <1>8
<1>12. PICK q : q = [o EXCEPT !.pc = p] OBVIOUS
<1>13. /\ q.pc = p /\ q.dir = o.dir /\ q.new = o.new /\ Fn(q) = Fn(o) /\ q.phase = o.phase
       /\ q.call = o.call /\ q.slot = o.slot
  BY <1>4, <1>12, PcIs
<1>14. Go(t, q) BY <1>2, <1>11, <1>12 DEF To
<1>15. op'[t] = q /\ OthersStay(t) /\ asks[t] = {} /\ file'[t] = f BY <1>1, <1>3, <1>14, GoStays
<1>16. q.pc \in {"lfn", "entry", "unmade"} BY <1>7, <1>11, <1>13
<1>17. Heads(t) /\ Onward(t) /\ HoldsOn(t) /\ Carries(t) /\ op'[t].pc \notin Dotting
  BY <1>1, <1>2, <1>3, <1>13, <1>15, <1>16 DEF Heads, Onward, HoldsOn, Carries, Dotting, Keeping, Working
<1>18. ASSUME StepOK(t) PROVE Mine(t)'
  <2>1. HandleNamed(t)' BY <1>1, <1>3, <1>13, <1>15, <1>16, <1>17, <1>18, OwnNamed
  <2>2. Planned(op[t])'
    <3>0. op[t]' = q /\ Begun(op[t])' = Begun(q) BY <1>15 DEF Begun, Making, NewPath, Fn
    <3>1. Begun(o) = Making(o) BY <1>1, <1>2 DEF Begun
    <3>2. Begun(q) \in {Making(o), "unmade"} BY <1>11, <1>13, <1>16 DEF Begun
    <3>3. ~ Unfinished(D) BY <1>4, <1>5, <1>7, <3>1 DEF Planned
    <3>4. ~ Unfinished(D)' BY <1>15, <1>17, <3>3, UnfinishedOnly
    <3> QED BY <1>1, <1>4, <1>5, <1>13, <3>0, <3>1, <3>2, <3>4 DEF Planned, FreeAt, Place, Unfinished
  <2>3. Fresh(t)'
    <3> SUFFICES ASSUME Fn(o) = "mkdir" PROVE Fresh(t)' BY <1>13, <1>15, <1>16 DEF Fresh, Dotting
    <3>1. o.new # 0 /\ dirs[o.new] = Blank /\ \A u \in Tasks : op[u].dir # o.new
      BY <1>1, <1>2, <1>4 DEF Fresh, Creating
    <3>2. \A u \in Tasks : op'[u].dir # o.new BY <1>2, <1>13, <1>15, <3>1 DEF OthersStay
    <3> QED BY <1>1, <1>13, <1>15, <1>16, <3>1, <3>2 DEF Fresh, Dotting
  <2>4. World(t)' BY <1>13, <1>15, <1>16, <2>1, <2>2, <2>3 DEF World, Unstarted, Emptied, Moved, Moving
  <2>5. Locals(op[t], file[t])' BY <1>1, <1>2, <1>4, <1>13, <1>15, <1>16, SameMine DEF Creating
  <2> QED BY <2>4, <2>5 DEF Mine
<1> QED BY <1>1, <1>10, <1>15, <1>17, <1>18, QuietSound DEF Leaving

LEMMA UnmadeSound ==
  ASSUME Good, TInv', NEW t \in Tasks, Unmade(t) PROVE StepOK(t) /\ Sound'
BY NotCreatedSound DEF Unmade, At, Creating

LEMMA PutPlaces ==
  ASSUME TInv, TInv', NEW D, NEW i, NEW e, Put(D, i, e)
  PROVE  /\ \A E, j : Place(E, j) => dirs'[E][j] = IF E = D /\ j = i THEN e ELSE dirs[E][j]
         /\ \A E \in DOMAIN dirs : E # D => dirs'[E] = dirs[E]
<1>1. AreDirs(dirs) BY DEF TInv
<1>2. \A E, j : Place(E, j) => dirs'[E][j] = IF E = D /\ j = i THEN e ELSE dirs[E][j]
  BY <1>1, PutIs DEF Place
<1>3. \A E \in DOMAIN dirs : E # D => dirs'[E] = dirs[E]
  <2> SUFFICES ASSUME NEW E \in DOMAIN dirs, E # D PROVE dirs'[E] = dirs[E] OBVIOUS
  <2>1. DOMAIN dirs = Clusters \cup {Root} BY Shape
  <2>2. \A j : Place(E, j) => dirs'[E][j] = dirs[E][j] BY <1>2
  <2> QED BY <2>1, <2>2, SameDir
<1> QED BY <1>2, <1>3

LEMMA PutLfnSound ==
  ASSUME Good, TInv', NEW t \in Tasks, PutLfn(t), strays' = {} PROVE StepOK(t) /\ Sound'
<1>1. op[t].pc = "lfn" /\ file' = file /\ used' = used /\ part' = part /\ TInv BY DEF PutLfn, At, Good
<1>2. PICK o : o = op[t] OBVIOUS
<1>3. PICK f : f = file[t] OBVIOUS
<1>4. /\ TaskOK(o, f) /\ IsOp(o) /\ HandleFits(o, f) /\ NestedOK(o, f) /\ Planned(o) /\ Fresh(t)
  BY <1>2, <1>3, GoodTask DEF TaskOK, Locals, World
<1>5. PICK e : e = Lfn(NewPath(o).name, o.alias) OBVIOUS
<1>6. PICK q : q = [o EXCEPT !.pc = "entry"] OBVIOUS
<1>7. \/ Put(o.dir, o.slot - 1, e) /\ Go(t, q)
      \/ Go(t, NotCreated(o)) /\ dirs' = dirs
  <2>1. ~ Stray({"nameless"}) BY NoStray
  <2> QED BY <1>2, <1>5, <1>6, <2>1 DEF PutLfn, To
<1>8. CASE Go(t, NotCreated(o)) /\ dirs' = dirs
  BY <1>1, <1>2, <1>8, NotCreatedSound DEF Creating
<1>9. CASE Put(o.dir, o.slot - 1, e) /\ Go(t, q)
  <2>1. /\ q.pc = "entry" /\ q.dir = o.dir /\ q.new = o.new /\ Fn(q) = Fn(o) /\ q.phase = o.phase
        /\ q.call = o.call /\ q.slot = o.slot
    BY <1>4, <1>6, PcIs
  <2>2. op'[t] = q /\ OthersStay(t) /\ asks[t] = {} /\ file'[t] = f
    BY <1>1, <1>3, <1>9, GoStays
  <2>3. PICK k : k = o.slot - 1 OBVIOUS
  <2>4. PICK D : D = o.dir OBVIOUS
  <2>5. /\ FreeAt(D, k) /\ Place(D, o.slot) /\ dirs[D][o.slot].kind \in {"end", "deleted"}
        /\ ~ Unfinished(D) /\ e.kind = "lfn"
    BY <1>1, <1>2, <1>4, <1>5, <2>3, <2>4 DEF Planned, Begun, Lfn
  <2>6. Put(D, k, e) BY <1>9, <2>3, <2>4
  <2>7. /\ \A E, j : Place(E, j) => dirs'[E][j] = IF E = D /\ j = k THEN e ELSE dirs[E][j]
        /\ \A E \in DOMAIN dirs : E # D => dirs'[E] = dirs[E]
    BY <1>1, <2>6, PutPlaces
  <2>8. Effect(t)
    BY <1>1, <1>2, <2>4, <2>5, <2>7 DEF Effect, Filled
  <2>9. Dooms(t) /\ Leaves(t) /\ Heads(t) /\ Completes(t) /\ Frees(t) /\ op'[t].pc \notin Dotting
    BY <1>1, <1>2, <2>1, <2>2 DEF Dooms, Leaves, Leaving, Heads, Completes, Dotting, Frees, Dooming
  <2>10. StepOK(t) BY <2>2, <2>8, <2>9 DEF StepOK
  <2>11. HoldsOn(t) /\ Carries(t)
    BY <1>1, <1>2, <1>3, <2>1, <2>2 DEF HoldsOn, Keeping, Carries, Working
  <2>12. EndsAreLast(dirs)' BY <2>10, EndsStay
  <2>13. \A E, j : \A c \in Clusters : Settled(E, j, c)' => Settled(E, j, c)
    BY <1>1, <2>10, <2>12, SettledBack
  <2>14. Owned' BY <1>1, <2>10, <2>11, <2>13, OwnedStays DEF Accounts
  <2>15. Apart' BY <2>10, <2>11, ApartStays
  <2>16. HandleNamed(t)' BY <1>1, <1>3, <2>1, <2>2, <2>10, <2>11, OwnNamed
  <2>17. Planned(op[t])'
    <3>1. o.slot \in Int BY <1>4 DEF IsOp
    <3>2. Place(D, o.slot)' BY <1>1, <2>5, SamePlaces
    <3>3. dirs'[D][o.slot] = dirs[D][o.slot] BY <2>3, <2>5, <2>7, <3>1
    <3>4. ASSUME NEW j \in DOMAIN dirs'[D], j < o.slot PROVE dirs'[D][j].kind # "end"
      <4>1. Place(D, j)' BY <3>2, <3>4 DEF Place
      <4>2. Place(D, j) /\ j \in Nat BY <1>1, <4>1, SamePlaces, Shape
      <4>3. CASE j = k BY <2>5, <2>7, <4>2, <4>3
      <4>4. CASE j # k
        <5>1. j < k BY <2>3, <3>1, <3>4, <4>2, <4>4
        <5>2. dirs[D][j].kind # "end" BY <2>5, <4>2, <5>1 DEF FreeAt, Place
        <5> QED BY <2>7, <4>2, <4>4, <5>2
      <4> QED BY <4>3, <4>4
    <3>5. FreeAt(D, o.slot)' BY <2>5, <3>2, <3>3, <3>4 DEF FreeAt, Place
    <3>6. ~ Unfinished(D)' BY <2>2, <2>5, <2>9, UnfinishedOnly
    <3> QED BY <2>1, <2>2, <2>4, <3>5, <3>6 DEF Planned, Begun, FreeAt, Place, Unfinished
  <2>18. Fresh(t)'
    <3> SUFFICES ASSUME Fn(o) = "mkdir" PROVE Fresh(t)' BY <2>1, <2>2 DEF Fresh, Dotting
    <3>1. o.new # 0 /\ dirs[o.new] = Blank /\ \A u \in Tasks : op[u].dir # o.new
      BY <1>1, <1>2, <1>4 DEF Fresh, Creating
    <3>2. \A u \in Tasks : op'[u].dir # o.new BY <1>2, <2>1, <2>2, <3>1 DEF OthersStay
    <3>3. o.new \in DOMAIN dirs /\ o.new # D BY <1>1, <1>2, <1>4, <2>4, <3>1, Shape DEF IsOp
    <3>4. dirs'[o.new] = Blank BY <2>7, <3>1, <3>3
    <3> QED BY <2>1, <2>2, <3>1, <3>2, <3>4 DEF Fresh, Dotting
  <2>19. World(t)' BY <2>1, <2>2, <2>16, <2>17, <2>18 DEF World, Unstarted, Emptied, Moved, Moving
  <2>20. Locals(op[t], file[t])' BY <1>1, <1>2, <1>4, <2>1, <2>2, SameMine DEF Creating
  <2> QED BY <2>8, <2>10, <2>14, <2>15, <2>19, <2>20, SoundStep DEF Mine
<1> QED BY <1>7, <1>8, <1>9

\* A new entry takes its free slot.
LEMMA PutNewStep ==
  ASSUME Good, TInv', NEW t \in Tasks, op[t].pc = "entry", NEW o, o = op[t], NEW e, e = NewEntry(t),
         Put(o.dir, o.slot, e), Alive(o.dir), used' = used, part' = part, file' = file,
         NEW q, Go(t, q), q.dir \in {o.dir, 0},
         q.pc \in {"join", "idle"} \/ (q.pc = "dot" /\ Fn(o) = "mkdir" /\ q.new = o.new)
         \/ (q.pc = "made" /\ Fn(q) = "move"),
         Fn(o) = "move" => q.pc = "made"
  PROVE  /\ StepOK(t) /\ EndsAreLast(dirs)' /\ Apart' /\ Owned' /\ OthersStay(t)
         /\ op'[t] = q /\ file'[t] = file[t]
         /\ FreeAt(o.dir, o.slot) /\ dirs'[o.dir][o.slot] = e /\ IsEntry(o.dir, o.slot)'
         /\ \A E \in DOMAIN dirs : E # o.dir => dirs'[E] = dirs[E]
<1>1. TInv BY DEF Good
<1>2. PICK f : f = file[t] OBVIOUS
<1>3. TaskOK(o, f) /\ Planned(o) /\ HandleNamed(t) /\ IsOp(o)
  BY <1>2, GoodTask DEF World, TaskOK
<1>4. PICK D, i : D = o.dir /\ i = o.slot OBVIOUS
<1>5. FreeAt(D, i) BY <1>3, <1>4 DEF Planned, Begun
<1>6. op'[t] = q /\ OthersStay(t) /\ asks[t] = {} /\ file'[t] = file[t] BY <1>1, GoStays
<1>7. Put(D, i, e) BY <1>4
<1>8. /\ \A E, j : Place(E, j) => dirs'[E][j] = IF E = D /\ j = i THEN e ELSE dirs[E][j]
      /\ \A E \in DOMAIN dirs : E # D => dirs'[E] = dirs[E]
  BY <1>1, <1>7, PutPlaces
<1>9. Effect(t) BY <1>4, <1>5, <1>8 DEF Effect, Filled
<1>10. Heads(t)
  BY <1>6 DEF Heads
<1>11. Dooms(t) /\ Leaves(t) /\ Completes(t) /\ Frees(t)
  BY <1>6 DEF Dooms, Leaves, Leaving, Completes, Dotting, Frees, Dooming
<1>12. StepOK(t) BY <1>6, <1>9, <1>10, <1>11 DEF StepOK
<1>13. EndsAreLast(dirs)' BY <1>12, EndsStay
<1>14. Carries(t) BY <1>6 DEF Carries, Working
<1>15. Apart' BY <1>12, <1>14, ApartStays
<1>16. dirs'[D][i] = e /\ Place(D, i)' BY <1>1, <1>5, <1>8, SamePlaces DEF FreeAt
<1>17. e.kind = "entry" BY NewEntryIs
<1>18. IsEntry(D, i)' BY <1>16, <1>17 DEF IsEntry, Place
<1>19. PICK c : c = e.cluster OBVIOUS
<1>20. \A E, j : \A b \in Clusters : Settled(E, j, b)' => Settled(E, j, b) \/ (E = D /\ j = i /\ b = c)
  <2> SUFFICES ASSUME NEW E, NEW j, NEW b \in Clusters, Settled(E, j, b)', ~ Settled(E, j, b)
               PROVE  E = D /\ j = i /\ b = c
    OBVIOUS
  <2>1. E = o.dir /\ j = o.slot /\ dirs'[E][j] = NewEntry(t) BY <1>1, <1>12, <1>13, SettledBack
  <2>2. dirs'[E][j].cluster = b BY DEF Settled
  <2> QED BY <1>4, <1>19, <2>1, <2>2
<1>21. c \in Clusters => Holds(t, c) \/ \E E, j : Settled(E, j, c) /\ ~ Settled(E, j, c)'
  <2> SUFFICES ASSUME c \in Clusters PROVE Holds(t, c) \/ \E E, j : Settled(E, j, c) /\ ~ Settled(E, j, c)'
    OBVIOUS
  <2>1. CASE Fn(o) \in {"open", "mkdir"} /\ e.cluster = o.new BY <1>19, <2>1 DEF Holds, Keeping
  <2>2. CASE Fn(o) = "move" /\ Working(t) /\ e.cluster = f.object
    <3>1. PICK E, j : E = f.dir /\ j = f.slot OBVIOUS
    <3>2. Live(E, j) /\ dirs[E][j].cluster = c
      BY <1>2, <1>3, <1>19, <2>2, <3>1 DEF HandleNamed
    <3>3. ~ Parting(E, j)
      <4> SUFFICES ASSUME NEW u \in Tasks, op[u].pc \in Leaving, file[u].dir = E, file[u].slot = j
                   PROVE FALSE
        BY DEF Parting
      <4>1. Strong(u) /\ u # t BY Strongs DEF Leaving
      <4>2. SamePlace(u, t) BY <1>2, <3>1 DEF SamePlace
      <4> QED BY <2>2, <4>1, <4>2, StrongAlone
    <3>4. Settled(E, j, c) BY <3>2, <3>3 DEF Settled
    <3>5. Parting(E, j)' BY <1>2, <1>6, <2>2, <3>1 DEF Parting, Leaving
    <3> QED BY <3>4, <3>5 DEF Settled, Parting
  <2> QED BY <1>2, <2>1, <2>2, NewEntryIs
<1>22. op'[t].pc \notin Keeping BY <1>6 DEF Keeping
<1>23. Passes(t, c, D, i) BY <1>20, <1>21, <1>22 DEF Passes
<1>24. Owned' BY <1>12, <1>23, OwnedPassed
<1> QED BY <1>4, <1>5, <1>6, <1>8, <1>12, <1>13, <1>15, <1>16, <1>18, <1>24 DEF IsEntry, Place

\* Nobody is removing what takes a free slot.
LEMMA FreeNotDoomed ==
  ASSUME Good, NEW t \in Tasks, StepOK(t), ~ Dooming(t), NEW D, NEW i, FreeAt(D, i)
  PROVE  ~ Doomed(D, i)'
<1> SUFFICES ASSUME Doomed(D, i)' PROVE FALSE OBVIOUS
<1>1. Doomed(D, i) BY DoomedNew
<1>2. PICK u \in Tasks : /\ Fn(op[u]) = "rmdir" /\ op[u].pc \in {"rmlfn", "erase"}
                         /\ file[u].dir = D /\ file[u].slot = i
  BY <1>1 DEF Doomed, Fn
<1>3. Strong(u) /\ HandleNamed(u) BY <1>2, Strongs, GoodTask DEF World
<1> QED BY <1>2, <1>3 DEF Strong, HandleNamed, Live, IsEntry, FreeAt

LEMMA PutNewSound ==
  ASSUME Good, TInv', NEW t \in Tasks, PutNew(t), strays' = {} PROVE StepOK(t) /\ Sound'
<1>1. op[t].pc = "entry" /\ file' = file /\ used' = used /\ part' = part /\ TInv BY DEF PutNew, At, Good
<1>2. PICK o : o = op[t] OBVIOUS
<1>3. PICK f : f = file[t] OBVIOUS
<1>4. /\ TaskOK(o, f) /\ IsOp(o) /\ HandleFits(o, f) /\ NestedOK(o, f) /\ Fresh(t) /\ HandleNamed(t)
  BY <1>2, <1>3, GoodTask DEF TaskOK, Locals, World
<1>5. PICK e : e = NewEntry(t) OBVIOUS
<1>6. PICK q : q = AfterNew(o, e) OBVIOUS
<1>7. \/ Put(o.dir, o.slot, e) /\ Alive(o.dir) /\ Go(t, q)
      \/ Put(o.dir, o.slot, e) /\ Alive(o.dir) /\ Fn(o) = "open" /\ Go(t, Idle)
      \/ Go(t, NotCreated(o)) /\ dirs' = dirs
  <2>1. ~ Stray({"failed"}) BY NoStray
  <2>2. ASSUME NEW n, Stray(Late(o, n)) PROVE ~ Outdated(o.dir, n, o.seen) BY <2>2, NotLate
  <2> QED BY <1>2, <1>5, <1>6, <2>1, <2>2 DEF PutNew, AfterNew, Outdated
<1>8. CASE Go(t, NotCreated(o)) /\ dirs' = dirs
  BY <1>1, <1>2, <1>8, NotCreatedSound DEF Creating
<1>9. /\ e.kind = "entry"
      /\ \/ Fn(o) \in {"open", "mkdir"} /\ e.cluster = o.new /\ (e.isdir <=> Fn(o) = "mkdir")
         \/ Fn(o) = "move" /\ o.phase \in {"src", "srcdir"} /\ Working(t)
            /\ e.cluster = f.object /\ e.isdir = f.isdir
      /\ Fn(o) # "move" <=> f = NoFile
  <2>1. Fn(o) # "move" <=> f = NoFile BY <1>1, <1>2, <1>4 DEF TaskOK, AtPlace, Creating
  <2> QED BY <1>1, <1>2, <1>3, <1>5, <2>1, NewEntryIs
<1>10. NoFile.isdir = FALSE BY DEF NoFile
<1>11. CASE Put(o.dir, o.slot, e) /\ Alive(o.dir) /\ Fn(o) = "open" /\ Go(t, Idle)
  <2>1. Idle.pc = "idle" /\ Idle.dir = 0 BY DEF Idle
  <2>2. StepOK(t) /\ Apart' /\ Owned' /\ op'[t] = Idle /\ file'[t] = NoFile
    BY <1>1, <1>2, <1>3, <1>5, <1>9, <1>11, <2>1, PutNewStep
  <2>3. Mine(t)' BY <2>1, <2>2, BackMine DEF Working
  <2> QED BY <2>2, <2>3, SoundStep DEF StepOK
<1>12. CASE Put(o.dir, o.slot, e) /\ Alive(o.dir) /\ Go(t, q) /\ Fn(o) = "open"
  <2>1. q = [call |-> o.call, phase |-> o.phase, pc |-> "join", dir |-> o.dir, slot |-> o.slot,
             ent |-> [cluster |-> o.new, size |-> o.ent.size, isdir |-> o.ent.isdir],
             new |-> 0, free |-> o.free, checked |-> o.checked, alias |-> o.alias,
             seen |-> [alive |-> o.seen.alive, at |-> {<<o.slot, e>>}], goal |-> o.goal]
    BY <1>4, <1>6, <1>12, AfterNewOpen
  <2>2. /\ q.pc = "join" /\ q.dir = o.dir /\ q.slot = o.slot /\ q.ent.cluster = o.new
        /\ q.ent.isdir = o.ent.isdir /\ <<q.slot, e>> \in q.seen.at
    BY <2>1
  <2>3. StepOK(t) /\ Apart' /\ Owned' /\ op'[t] = q /\ file'[t] = NoFile
    BY <1>1, <1>2, <1>3, <1>5, <1>9, <1>12, <2>2, PutNewStep
  <2>4. o.ent = NoEntry BY <1>1, <1>2, <1>4, <1>12 DEF TaskOK, FnsAt, Creating
  <2>5. SoughtOK(q)
    <3>1. q.ent.isdir = FALSE BY <2>2, <2>4 DEF NoEntry
    <3>2. e.isdir = FALSE BY <1>5, <1>2, <1>12 DEF NewEntry, Entry
    <3> QED BY <1>9, <1>12, <2>2, <3>1, <3>2 DEF SoughtOK
  <2>6. Locals(op[t], file[t])'
    BY <2>2, <2>3, <2>5, <1>10 DEF Locals, HandleFits, SoughtOK, NestedOK, Mode, Fn
  <2>7. HandleNamed(t)' BY <2>3 DEF HandleNamed, Working
  <2>8. World(t)' BY <2>2, <2>3, <2>7, PlainWorld
  <2> QED BY <2>3, <2>6, <2>8, SoundStep DEF StepOK, Mine
<1>13. CASE Put(o.dir, o.slot, e) /\ Alive(o.dir) /\ Go(t, q) /\ Fn(o) = "mkdir"
  <2>1. q = [o EXCEPT !.pc = "dot"] BY <1>6, <1>13 DEF AfterNew
  <2>2. q.pc = "dot" /\ q.dir = o.dir /\ q.new = o.new BY <1>4, <2>1, PcIs
  <2>3. /\ StepOK(t) /\ EndsAreLast(dirs)' /\ Apart' /\ Owned' /\ OthersStay(t)
        /\ op'[t] = q /\ file'[t] = NoFile
        /\ FreeAt(o.dir, o.slot) /\ dirs'[o.dir][o.slot] = e /\ IsEntry(o.dir, o.slot)'
        /\ \A E \in DOMAIN dirs : E # o.dir => dirs'[E] = dirs[E]
    BY <1>1, <1>2, <1>3, <1>5, <1>9, <1>13, <2>2, PutNewStep
  <2>4. o.dir = Root BY <1>1, <1>2, <1>4, <1>13 DEF TaskOK, FnsAt
  <2>5. o.new # 0 /\ dirs[o.new] = Blank /\ \A u \in Tasks : op[u].dir # o.new
    BY <1>1, <1>2, <1>4, <1>13 DEF Fresh, Creating
  <2>6. PICK c \in Clusters : c = o.new BY <1>4, <2>5 DEF IsOp
  <2>7. PICK i : i = o.slot OBVIOUS
  <2>8. ~ Doomed(Root, i)'
    <3>1. FreeAt(Root, i) /\ ~ Dooming(t) BY <1>1, <2>3, <2>4, <2>7 DEF Dooming
    <3> QED BY <2>3, <3>1, FreeNotDoomed
  <2>9. IsEntry(Root, i)' /\ dirs'[Root][i].isdir /\ dirs'[Root][i].cluster = c
    <3>1. IsEntry(Root, i)' BY <2>3, <2>4, <2>7 DEF IsEntry, Place
    <3> QED BY <1>9, <1>13, <2>3, <2>4, <2>6, <2>7, <3>1
  <2>10. Leads(i, c)' BY <2>8, <2>9 DEF Leads
  <2>11. AliveRight' BY <2>3, AliveDirs, PTL
  <2>12. Alive(c)' BY <2>10, <2>11 DEF AliveRight
  <2>13. dirs'[c] = Blank BY <1>1, <1>2, <2>3, <2>5, <2>6, Shape
  <2>14. \A u \in Tasks \ {t} : op'[u].pc \in Dotting => op'[u].new # c
    <3> SUFFICES ASSUME NEW u \in Tasks \ {t}, op[u].pc \in Dotting, op[u].new = c PROVE FALSE
      BY <2>3 DEF OthersStay
    <3>1. Alive(op[u].new) BY GoodTask DEF World, Fresh
    <3>2. Alive(c) BY <3>1
    <3>3. Holds(t, c) BY <1>1, <1>2, <2>6 DEF Holds, Keeping
    <3> QED BY <3>2, <3>3, AliveSettled
  <2>15. Fresh(t)'
    <3>1. Alive(op[t].new)' BY <2>2, <2>3, <2>6, <2>12 DEF Alive, Doomed
    <3> QED BY <2>2, <2>3, <2>5, <2>6, <2>13, <2>14, <3>1 DEF Fresh, Dotting, Creating
  <2>16. HandleNamed(t)' BY <2>3 DEF HandleNamed, Working
  <2>17. World(t)' BY <2>2, <2>3, <2>15, <2>16 DEF World, Unstarted, Planned, Begun, Emptied, Moved, Moving
  <2>18. Locals(op[t], file[t])' BY <1>10, <2>2, <2>3 DEF Locals, HandleFits, SoughtOK, NestedOK
  <2> QED BY <2>3, <2>17, <2>18, SoundStep DEF StepOK, Mine
<1>14. CASE Put(o.dir, o.slot, e) /\ Alive(o.dir) /\ Go(t, q) /\ Fn(o) = "move"
  <2>1. q = [o EXCEPT !.pc = "made"] BY <1>6, <1>14 DEF AfterNew
  <2>2. /\ q.pc = "made" /\ q.dir = o.dir /\ q.slot = o.slot /\ Fn(q) = Fn(o) /\ q.phase = o.phase
        /\ q.call = o.call /\ q.new = o.new
    BY <1>4, <2>1, PcIs
  <2>3. /\ StepOK(t) /\ EndsAreLast(dirs)' /\ Apart' /\ Owned' /\ OthersStay(t)
        /\ op'[t] = q /\ file'[t] = f
        /\ FreeAt(o.dir, o.slot) /\ dirs'[o.dir][o.slot] = e /\ IsEntry(o.dir, o.slot)'
    BY <1>1, <1>2, <1>3, <1>5, <1>14, <2>2, PutNewStep
  <2>4. Carries(t) BY <1>1, <1>3, <2>3 DEF Carries, Working
  <2>5. HandleNamed(t)' BY <1>1, <1>3, <2>2, <2>3, <2>4, OwnNamed
  <2>6. <<o.dir, o.slot>> # <<f.dir, f.slot>>
    <3>1. IsEntry(f.dir, f.slot) BY <1>3, <1>4, <1>9, <1>14 DEF HandleNamed, Live
    <3> QED BY <2>3, <3>1 DEF IsEntry, FreeAt
  <2>7. Moved(op[t], file[t])'
    <3>1. IsEntry(q.dir, q.slot)' BY <2>2, <2>3 DEF IsEntry, Place
    <3>2. dirs'[q.dir][q.slot].isdir = f.isdir /\ dirs'[q.dir][q.slot].cluster = f.object
      BY <1>9, <1>14, <2>2, <2>3
    <3> QED BY <2>2, <2>3, <2>6, <3>1, <3>2 DEF Moved, Moving, IsEntry, Place
  <2>8. World(t)' BY <1>14, <2>2, <2>3, <2>5, <2>7 DEF World, Unstarted, Planned, Begun, Emptied, Fresh, Dotting, Creating
  <2>9. Locals(op[t], file[t])' BY <1>1, <1>2, <1>4, <2>2, <2>3, SameMine DEF Creating
  <2> QED BY <2>3, <2>8, <2>9, SoundStep DEF StepOK, Mine
<1>15. Fn(o) = "open" \/ Fn(o) = "mkdir" \/ Fn(o) = "move" BY <1>9
<1> QED BY <1>7, <1>8, <1>11, <1>12, <1>13, <1>14, <1>15

\* Of a cluster that is not in use there is nothing to forget.
LEMMA ReleaseSame ==
  ASSUME Good, NEW S, Release(S), used' = used PROVE part' = part
<1>1. used' = used \ S /\ part' = [e \in Clusters |-> IF e \in S THEN 0 ELSE part[e]] BY DEF Release
<1>2. part \in [Clusters -> Clusters \cup {0, Nobody}] BY DEF Good, TInv, UsedOK
<1>3. \A e \in Clusters : e \in S => part[e] = 0 BY <1>1, OwnedPart
<1> QED BY <1>1, <1>2, <1>3

\* What a directory was extended with is freed with it.
LEMMA FreedChain ==
  ASSUME Good, NEW t, NEW c \in Clusters \cup {0}, Release(Chain(c)),
         \A D, i : \A b \in Clusters : Settled(D, i, b)' => Settled(D, i, b),
         \A u \in Tasks : \A b \in Clusters : Holds(u, b)' => Holds(u, b),
         c \in Clusters => (\A D, i : ~ Settled(D, i, c)') /\ \A u \in Tasks : ~ Holds(u, c)'
  PROVE  Accounts(t)
<1>1. PICK S : S = Chain(c) OBVIOUS
<1>2. 0 \notin Clusters BY NamesAssumption
<1>3. \A e : e \in S <=> e = c \/ (e \in Clusters /\ c # 0 /\ part[e] = c) BY <1>1 DEF Chain
<1>4. ASSUME NEW e \in Clusters, part[e] # 0, part[e] \in S PROVE e \in S
  <2>1. CASE part[e] = c BY <1>3, <1>4, <2>1
  <2>2. CASE part[e] # c
    <3>1. part[e] \in Clusters /\ c # 0 /\ part[part[e]] = c BY <1>3, <1>4, <2>2
    <3> QED BY <3>1, OwnedPart
  <2> QED BY <2>1, <2>2
<1>5. ASSUME NEW b \in Clusters, b \in S
      PROVE  (\A D, i : ~ Settled(D, i, b)') /\ \A u \in Tasks : ~ Holds(u, b)'
  <2>1. CASE b = c BY <2>1
  <2>2. CASE b # c
    <3>1. part[b] # 0 BY <1>3, <1>5, <2>2
    <3>2. (\A D, i : ~ Settled(D, i, b)) /\ \A u \in Tasks : ~ Holds(u, b) BY <3>1, OwnedPart
    <3> QED BY <3>2
  <2> QED BY <2>1, <2>2
<1>6. Release(S) BY <1>1
<1> QED BY <1>4, <1>5, <1>6 DEF Accounts

LEMMA UndoSound ==
  ASSUME Good, TInv', NEW t \in Tasks, Undo(t) PROVE StepOK(t) /\ Sound'
<1>1. op[t].pc = "undo" /\ file' = file /\ dirs' = dirs /\ Go(t, Idle) /\ TInv
  BY DEF Undo, At, Good
<1>2. file[t] = NoFile /\ IsOp(op[t]) BY <1>1, SeekerIs DEF Seeking
<1>3. PICK c \in Clusters \cup {0} : c = op[t].new BY <1>2 DEF IsOp
<1>4. Release(Chain(c)) \/ Release({}) BY <1>3 DEF Undo
<1>5. Idle.pc = "idle" /\ Idle.dir = 0 BY DEF Idle
<1>6. op'[t] = Idle /\ OthersStay(t) /\ asks[t] = {} BY <1>1, GoStays
<1>7. Accounts(t)
  <2>1. Onward(t) /\ Heads(t) /\ op'[t].pc \notin Dotting /\ op[t].pc \notin Leaving
    BY <1>1, <1>5, <1>6 DEF Onward, Heads, Dotting, Leaving
  <2>2. \A D, i : \A b \in Clusters : Settled(D, i, b)' => Settled(D, i, b) BY <1>1, <1>6, <2>1, QuietStep
  <2>3. \A u \in Tasks : \A b \in Clusters : Holds(u, b)' => Holds(u, b) /\ u # t
    BY <1>5, <1>6 DEF OthersStay, Holds, Keeping
  <2>4. ASSUME c \in Clusters PROVE (\A D, i : ~ Settled(D, i, c)') /\ \A u \in Tasks : ~ Holds(u, c)'
    <3>1. Holds(t, c) BY <1>1, <1>3 DEF Holds, Keeping
    <3>2. OwnedOne(c) BY <2>4 DEF Good, Sound, Owned
    <3> QED BY <2>2, <2>3, <2>4, <3>1, <3>2 DEF OwnedOne
  <2>5. CASE Release(Chain(c)) BY <2>2, <2>3, <2>4, <2>5, FreedChain
  <2>6. CASE Release({})
    <3>1. used' = used BY <2>6 DEF Release
    <3> QED BY <2>6, <3>1, ReleaseSame DEF Accounts
  <2> QED BY <1>4, <2>5, <2>6
<1> QED BY <1>1, <1>2, <1>5, <1>7, GoBack DEF Leaving

LEMMA MakeDotsSound ==
  ASSUME Good, TInv', NEW t \in Tasks, MakeDots(t), strays' = {} PROVE StepOK(t) /\ Sound'
<1>1. op[t].pc \in {"dot", "dotdot"} /\ file' = file /\ used' = used /\ part' = part /\ TInv
  BY DEF MakeDots, Good
<1>2. PICK o : o = op[t] OBVIOUS
<1>3. file[t] = NoFile /\ IsOp(o) BY <1>1, <1>2, SeekerIs DEF Seeking
<1>4. Fresh(t) BY GoodTask DEF World
<1>5. PICK c : c = o.new OBVIOUS
<1>6. PICK k : k = IF o.pc = "dot" THEN 0 ELSE 1 OBVIOUS
<1>7. PICK q : q = IF o.pc = "dot" THEN [o EXCEPT !.pc = "dotdot"] ELSE Idle OBVIOUS
<1>8. Put(c, k, Dots) /\ Go(t, q)
  <2>1. ~ Stray({"undone"}) BY NoStray
  <2> QED BY <1>2, <1>5, <1>6, <1>7, <2>1 DEF MakeDots, To
<1>9. Idle.pc = "idle" /\ Idle.dir = 0 BY DEF Idle
<1>10. /\ o.pc = "dot" => q.pc = "dotdot" /\ q.dir = o.dir /\ q.new = o.new
       /\ o.pc # "dot" => q.pc = "idle" /\ q.dir = 0
  BY <1>3, <1>7, <1>9, PcIs
<1>11. op'[t] = q /\ OthersStay(t) /\ asks[t] = {} /\ file'[t] = NoFile BY <1>1, <1>3, <1>8, GoStays
<1>12. /\ c # 0 /\ Alive(c) /\ dirs[c] = IF o.pc = "dot" THEN Blank ELSE [Blank EXCEPT ![0] = Dots]
       /\ \A u \in Tasks \ {t} : op[u].pc \in Dotting => op[u].new # c
  <2>1. Alive(op[t].new) => Alive(c) BY <1>2, <1>5
  <2> QED BY <1>1, <1>2, <1>4, <1>5, <2>1 DEF Fresh, Dotting
<1>13. c \in Clusters BY <1>3, <1>5, <1>12 DEF IsOp
<1>14. /\ \A E, j : Place(E, j) => dirs'[E][j] = IF E = c /\ j = k THEN Dots ELSE dirs[E][j]
       /\ \A E \in DOMAIN dirs : E # c => dirs'[E] = dirs[E]
  BY <1>1, <1>8, PutPlaces
<1>15. FreeAt(c, k)
  <2>1. c \in DOMAIN dirs /\ DOMAIN dirs[c] = 0 .. DirSlots - 1
    BY <1>1, <1>13, Shape, DirIs DEF SlotsOf
  <2>2. DirSlots \in Nat /\ DirSlots >= 2 BY NamesAssumption
  <2>3. k \in {0, 1} /\ k \in DOMAIN dirs[c] /\ k \in 0 .. DirSlots - 1 BY <1>6, <2>1, <2>2
  <2>4. End.kind = "end" /\ Dots.kind = "dots" BY DEF End, Dots
  <2>5. dirs[c][k] = End BY <1>6, <1>12, <2>3 DEF Blank
  <2>6. ASSUME NEW j \in DOMAIN dirs[c], j < k PROVE dirs[c][j].kind # "end"
    <3>1. k = 1 /\ j = 0 /\ o.pc # "dot" BY <1>6, <2>1, <2>2, <2>6
    <3>2. dirs[c][0] = Dots BY <1>12, <2>1, <2>2, <3>1 DEF Blank
    <3> QED BY <2>4, <3>1, <3>2
  <2> QED BY <2>1, <2>3, <2>4, <2>5, <2>6 DEF FreeAt, Place
<1>16. Effect(t) BY <1>1, <1>2, <1>5, <1>14, <1>15 DEF Effect, Dotted, Dotting
<1>17. Dooms(t) /\ Leaves(t) /\ Heads(t) /\ Completes(t) /\ Frees(t)
  BY <1>1, <1>2, <1>10, <1>11 DEF Dooms, Leaves, Leaving, Heads, Completes, Dotting, Frees, Dooming
<1>18. StepOK(t) BY <1>11, <1>16, <1>17 DEF StepOK
<1>19. ~ Working(t)' /\ HoldsOn(t)
  BY <1>1, <1>2, <1>10, <1>11 DEF Working, HoldsOn, Keeping
<1>20. EndsAreLast(dirs)' BY <1>18, EndsStay
<1>21. \A E, j : \A b \in Clusters : Settled(E, j, b)' => Settled(E, j, b)
  BY <1>1, <1>18, <1>20, SettledBack
<1>22. Owned' BY <1>1, <1>18, <1>19, <1>21, OwnedStays DEF Accounts
<1>23. Apart' BY <1>18, <1>19, ApartStays DEF Carries
<1>24. CASE o.pc = "dot"
  <2>1. HandleNamed(t)' BY <1>19 DEF HandleNamed
  <2>2. ~ Dooming(t) BY <1>1 DEF Dooming
  <2>3. Alive(c)' BY <1>12, <1>18, <1>20, <2>2, AliveKept
  <2>4. dirs'[c] = [Blank EXCEPT ![0] = Dots]
    <3>1. dirs' = [dirs EXCEPT ![c][0] = Dots] BY <1>6, <1>8, <1>24 DEF Put
    <3>2. c \in DOMAIN dirs BY <1>1, <1>13, Shape
    <3>3. dirs'[c] = [dirs[c] EXCEPT ![0] = Dots] BY <3>1, <3>2
    <3> QED BY <1>12, <1>24, <3>3
  <2>5. Fresh(t)'
    <3>1. Alive(op[t].new)' BY <1>5, <1>10, <1>11, <1>24, <2>3 DEF Alive, Doomed
    <3> QED BY <1>5, <1>10, <1>11, <1>12, <1>24, <2>4, <3>1 DEF Fresh, Dotting, Creating, OthersStay
  <2>6. World(t)' BY <1>10, <1>11, <1>24, <2>1, <2>5 DEF World, Unstarted, Planned, Begun, Emptied, Moved, Moving
  <2>7. Locals(op[t], file[t])'
    BY <1>10, <1>11, <1>24 DEF Locals, HandleFits, SoughtOK, NestedOK, Creating
  <2> QED BY <1>16, <1>18, <1>22, <1>23, <2>6, <2>7, SoundStep DEF Mine
<1>25. CASE o.pc # "dot"
  <2>1. Mine(t)' BY <1>10, <1>11, <1>19, <1>25, BackMine
  <2> QED BY <1>16, <1>18, <1>22, <1>23, <2>1, SoundStep
<1> QED BY <1>24, <1>25

\* A task with a handle goes on and changes no slot.
LEMMA OnSound ==
  ASSUME Good, TInv', NEW t \in Tasks, op[t].pc \in Using \ (Leaving \cup {"note", "enter", "leave"}), NEW o, o = op[t],
         NEW p \in {"unlink", "quit", "leave"}, To(t, p), dirs' = dirs, used' = used, part' = part, file' = file,
         p = "unlink" => Emptied([o EXCEPT !.pc = p], file[t])
  PROVE  StepOK(t) /\ Sound'
<1>1. TInv BY DEF Good
<1>2. PICK f : f = file[t] OBVIOUS
<1>3. TaskOK(o, f) /\ IsOp(o) /\ HandleFits(o, f) /\ NestedOK(o, f)
  BY <1>2, GoodTask DEF TaskOK, Locals
<1>4. PICK q : q = [o EXCEPT !.pc = p] OBVIOUS
<1>5. q.pc = p /\ q.dir = o.dir /\ q.new = o.new /\ Fn(q) = Fn(o) /\ q.phase = o.phase /\ q.call = o.call
  BY <1>3, <1>4, PcIs
<1>6. Go(t, q) BY <1>4 DEF To
<1>7. op'[t] = q /\ OthersStay(t) /\ asks[t] = {} /\ file'[t] = f BY <1>1, <1>2, <1>6, GoStays
<1>8. /\ Heads(t) /\ Onward(t) /\ HoldsOn(t) /\ Carries(t) /\ op'[t].pc \notin Dotting
      /\ op[t].pc \notin Leaving
  BY <1>2, <1>5, <1>7 DEF Heads, Onward, HoldsOn, Carries, Dotting, Using, Leaving, Keeping, Working
<1>9. ASSUME StepOK(t) PROVE Mine(t)'
  <2>1. HandleNamed(t)'
    BY <1>2, <1>5, <1>7, <1>8, <1>9, OwnNamed DEF Using, Leaving
  <2>2. Emptied(op[t], file[t])'
    <3>1. CASE p = "unlink"
      <4>1. Emptied(q, f) BY <1>2, <1>4, <3>1
      <4> QED BY <1>7, <4>1 DEF Emptied, Fn, IsEntry, Place
    <3>2. CASE p # "unlink" BY <1>5, <1>7, <3>2 DEF Emptied
    <3> QED BY <3>1, <3>2
  <2>3. World(t)'
    BY <1>5, <1>7, <2>1, <2>2 DEF World, Unstarted, Planned, Begun, Moved, Moving, Fresh, Creating, Dotting
  <2>4. Locals(op[t], file[t])' BY <1>3, <1>5, <1>7, SameMine DEF Creating
  <2> QED BY <2>3, <2>4 DEF Mine
<1> QED BY <1>7, <1>8, <1>9, QuietSound DEF Accounts

LEMMA EmptySound ==
  ASSUME Good, TInv', NEW t \in Tasks, Empty(t), strays' = {} PROVE StepOK(t) /\ Sound'
<1>1. op[t].pc = "empty" /\ dirs' = dirs /\ used' = used /\ part' = part /\ file' = file /\ TInv
  BY DEF Empty, At, Good
<1>2. PICK o : o = op[t] OBVIOUS
<1>3. op[t].pc \in Using \ (Leaving \cup {"note", "enter", "leave"}) BY <1>1 DEF Using, Leaving
<1>4. PICK p \in {"unlink", "leave"} : To(t, p) BY DEF Empty
<1>5. TaskOK(o, file[t]) /\ IsOp(o) /\ Fn(o) = "rmdir" BY <1>1, <1>2, GoodTask DEF TaskOK, FnsAt
<1>6. PICK q : q = [o EXCEPT !.pc = p] OBVIOUS
<1>7. q.pc = p /\ q.dir = o.dir /\ Fn(q) = Fn(o) /\ op'[t] = q
  <2>1. Go(t, q) BY <1>2, <1>4, <1>6 DEF To
  <2> QED BY <1>1, <1>5, <1>6, <2>1, PcIs, GoStays
<1>8. ASSUME p = "unlink" PROVE Emptied(q, file[t])
  <2>1. DirOf(Path(o).name) = file[t].object /\ IsEmpty(o)
    <3>1. PICK a, b : /\ a <=> DirOf(Path(o).name) # file[t].object
                      /\ b <=> op'[t].pc = "unlink" /\ ~ IsEmpty(o)
      OBVIOUS
    <3>2. Stray(When(a, "outdated") \cup When(b, "unread")) BY <1>2, <3>1 DEF Empty, When
    <3>3. ~ a /\ ~ b BY <3>2, NoStray DEF When
    <3> QED BY <1>7, <1>8, <3>1, <3>3
  <2>2. PICK D : D = file[t].object OBVIOUS
  <2>3. D = 0 \/ Entries(dirs[D]) = {} BY <2>1, <2>2 DEF IsEmpty
  <2>4. D \in Clusters \cup {0} BY <1>5, <2>2 DEF TaskOK, IsFile
  <2>5. DOMAIN dirs = Clusters \cup {Root} /\ Root # 0 /\ 0 \notin Clusters BY <1>1, Shape
  <2>6. ASSUME NEW i PROVE ~ IsEntry(D, i)
    <3>1. CASE D = 0 BY <2>5, <3>1 DEF IsEntry, Place
    <3>2. CASE D # 0 BY <1>1, <2>3, <2>4, <2>5, <3>2, EntriesAre DEF Good, Sound
    <3> QED BY <3>1, <3>2
  <2> QED BY <2>2, <2>6 DEF Emptied
<1> QED BY <1>1, <1>2, <1>3, <1>4, <1>6, <1>8, OnSound

LEMMA QuitSound ==
  ASSUME Good, TInv', NEW t \in Tasks, Quit(t) PROVE StepOK(t) /\ Sound'
<1>1. /\ op[t].pc = "quit" /\ dirs' = dirs /\ used' = used /\ part' = part /\ file' = file /\ To(t, "leave")
  BY DEF Quit, At
<1> QED BY <1>1, OnSound DEF Using, Leaving

\* The cluster of a handle that nobody else may touch is that of a settled entry.
LEMMA HandleSettled ==
  ASSUME Good, NEW t \in Tasks, Strong(t), op[t].pc \notin Leaving \cup {"note"},
         NEW f, f = file[t]
  PROVE  Settled(f.dir, f.slot, f.object)
<1>1. HandleNamed(t) BY GoodTask DEF World
<1>2. PICK D, i : D = f.dir /\ i = f.slot OBVIOUS
<1>3. Live(D, i) /\ dirs[D][i].cluster = f.object BY <1>1, <1>2 DEF HandleNamed, Strong
<1>4. ~ Parting(D, i)
  <2> SUFFICES ASSUME NEW u \in Tasks, op[u].pc \in Leaving, file[u].dir = D, file[u].slot = i
               PROVE FALSE
    BY DEF Parting
  <2>1. Strong(u) /\ u # t BY Strongs DEF Leaving
  <2>2. SamePlace(t, u) BY <1>2 DEF SamePlace
  <2> QED BY <2>1, <2>2, StrongAlone DEF Strong
<1> QED BY <1>2, <1>3, <1>4 DEF Settled

\* The cluster of the handle is freed while its entry is there.
LEMMA FreedWithEntry ==
  ASSUME Good, TInv', NEW t \in Tasks, Strong(t), op[t].pc \notin Leaving \cup {"note"},
         asks[t] = {}, OthersStay(t), dirs' = dirs, file'[t] = file[t], op'[t].pc \in Leaving,
         Onward(t), Heads(t), NEW c, c = file[t].object, Release(Chain(c))
  PROVE  Accounts(t)
<1>1. c \in Clusters \cup {0} BY GoodTask DEF TaskOK, IsFile
<1>2. op'[t].pc \notin Dotting \cup Keeping /\ op[t].pc \notin Leaving BY DEF Leaving, Dotting, Keeping
<1>3. \A D, i : \A b \in Clusters : Settled(D, i, b)' => Settled(D, i, b) BY <1>2, QuietStep
<1>4. \A u \in Tasks : \A b \in Clusters : Holds(u, b)' => Holds(u, b) BY <1>2 DEF Holds, OthersStay
<1>5. ASSUME c \in Clusters PROVE (\A D, i : ~ Settled(D, i, c)') /\ \A u \in Tasks : ~ Holds(u, c)'
  <2>1. PICK E, j : E = file[t].dir /\ j = file[t].slot OBVIOUS
  <2>2. Settled(E, j, c) BY <2>1, HandleSettled
  <2>3. OwnedOne(c) BY <1>5 DEF Good, Sound, Owned
  <2>4. Parting(E, j)' BY <2>1 DEF Parting
  <2>5. \A D, i : ~ Settled(D, i, c)' BY <1>3, <1>5, <2>2, <2>3, <2>4 DEF OwnedOne, Settled, Parting
  <2> QED BY <1>4, <1>5, <2>2, <2>3, <2>5 DEF OwnedOne
<1> QED BY <1>1, <1>3, <1>4, <1>5, FreedChain

LEMMA UnlinkSound ==
  ASSUME Good, TInv', NEW t \in Tasks, Unlink(t), strays' = {} PROVE StepOK(t) /\ Sound'
<1>1. op[t].pc = "unlink" /\ dirs' = dirs /\ TInv BY DEF Unlink, At, Good
<1>2. PICK o : o = op[t] OBVIOUS
<1>3. PICK f : f = file[t] OBVIOUS
<1>4. TaskOK(o, f) /\ IsOp(o) /\ HandleFits(o, f) /\ NestedOK(o, f) /\ Strong(t) /\ Removes(o)
  BY <1>1, <1>2, <1>3, GoodTask, Strongs DEF TaskOK, Locals, FnsAt
<1>5. PICK c : c = f.object OBVIOUS
<1>6. \/ Release(Chain(c)) /\ To(t, "rmlfn") /\ ~ Unfinished(c) /\ file' = file
      \/ used' = used /\ part' = part /\ Fn(o) = "rmdir" /\ To(t, "quit") /\ file' = file
      \/ used' = used /\ part' = part /\ Go(t, Idle) /\ file' = [file EXCEPT ![t] = NoFile]
  <2>1. ASSUME NEW a, NEW b, Stray(When(a, "outdated") \cup When(b, "undotted")) PROVE ~ b
    BY <2>1, NoStray DEF When
  <2>2. ASSUME NEW b, Stray(When(b, "failed")) PROVE ~ b BY <2>2, NoStray DEF When
  <2>3. ASSUME NEW S, Release(S), used' = used PROVE part' = part BY <2>3, ReleaseSame
  <2> QED BY <1>2, <1>3, <1>5, <2>1, <2>2, <2>3 DEF Unlink
<1>7. CASE Release(Chain(c)) /\ To(t, "rmlfn") /\ ~ Unfinished(c) /\ file' = file
  <2>1. PICK q : q = [o EXCEPT !.pc = "rmlfn"] OBVIOUS
  <2>2. /\ q.pc = "rmlfn" /\ q.dir = o.dir /\ q.new = o.new /\ Fn(q) = Fn(o) /\ q.phase = o.phase
        /\ q.call = o.call
    BY <1>4, <2>1, PcIs
  <2>3. Go(t, q) BY <1>2, <1>7, <2>1 DEF To
  <2>4. op'[t] = q /\ OthersStay(t) /\ asks[t] = {} /\ file'[t] = f
    BY <1>1, <1>3, <1>7, <2>3, GoStays
  <2>5. o.phase \notin {"src", "srcdir"} BY <1>4 DEF Removes, TaskOK, AtPlace
  <2>6. Dooms(t) /\ Frees(t)
    BY <1>1, <1>2, <1>3, <1>5, <1>7, <2>2, <2>4 DEF Dooms, Dooming, Frees
  <2>7. /\ Heads(t) /\ Onward(t) /\ HoldsOn(t) /\ Carries(t) /\ op'[t].pc \notin Dotting
        /\ op[t].pc \notin Leaving /\ op[t].pc \notin Leaving \cup {"note"} /\ op'[t].pc \in Leaving
    BY <1>1, <1>2, <1>3, <2>2, <2>4, <2>6
       DEF Heads, Onward, HoldsOn, Carries, Dotting, Leaving, Keeping, Working
  <2>8. Accounts(t) BY <1>1, <1>3, <1>4, <1>5, <1>7, <2>4, <2>7, FreedWithEntry
  <2>9. ASSUME StepOK(t) PROVE Mine(t)'
    <3>1. HandleNamed(t)' BY <1>1, <1>3, <2>2, <2>4, <2>7, <2>9, OwnNamed
    <3>2. World(t)'
      BY <2>2, <2>4, <2>5, <3>1 DEF World, Unstarted, Planned, Begun, Emptied, Moved, Moving, Fresh, Creating, Dotting
    <3>3. Locals(op[t], file[t])' BY <1>4, <2>2, <2>4, <2>5, SameMine
    <3> QED BY <3>2, <3>3 DEF Mine
  <2> QED BY <1>1, <2>4, <2>7, <2>8, <2>9, QuietSound
<1>8. CASE used' = used /\ part' = part /\ Fn(o) = "rmdir" /\ To(t, "quit") /\ file' = file
  <2>1. op[t].pc \in Using \ (Leaving \cup {"note", "enter", "leave"}) BY <1>1 DEF Using, Leaving
  <2> QED BY <1>1, <1>8, <2>1, OnSound
<1>9. CASE used' = used /\ part' = part /\ Go(t, Idle) /\ file' = [file EXCEPT ![t] = NoFile]
  <2>1. Idle.pc = "idle" /\ Idle.dir = 0 BY DEF Idle
  <2> QED BY <1>1, <1>9, <2>1, GoBack DEF Accounts, Leaving
<1> QED BY <1>6, <1>7, <1>8, <1>9

LEMMA RmLfnSound ==
  ASSUME Good, TInv', NEW t \in Tasks, RmLfn(t), strays' = {} PROVE StepOK(t) /\ Sound'
<1>1. op[t].pc = "rmlfn" /\ used' = used /\ part' = part /\ file' = file /\ TInv BY DEF RmLfn, At, Good
<1>2. PICK o : o = op[t] OBVIOUS
<1>3. PICK f : f = file[t] OBVIOUS
<1>4. /\ TaskOK(o, f) /\ IsOp(o) /\ IsFile(f) /\ HandleFits(o, f) /\ NestedOK(o, f) /\ Strong(t)
      /\ Moved(o, f)
  BY <1>1, <1>2, <1>3, GoodTask, Strongs DEF TaskOK, Locals, World
<1>5. PICK D : D = f.dir OBVIOUS
<1>6. PICK i : i = f.slot OBVIOUS
<1>7. PICK long : long = {j \in 0 .. i - 1 : \A k \in j .. i - 1 : dirs[D][k].kind = "lfn"} OBVIOUS
<1>8. /\ dirs' = [dirs EXCEPT ![D] = [k \in DOMAIN @ |-> IF k \in long THEN Deleted ELSE @[k]]]
      /\ To(t, "erase")
  <2>1. ~ Stray({"failed"}) BY NoStray
  <2> QED BY <1>3, <1>5, <1>6, <1>7, <2>1 DEF RmLfn
<1>9. PICK q : q = [o EXCEPT !.pc = "erase"] OBVIOUS
<1>10. /\ q.pc = "erase" /\ q.dir = o.dir /\ q.new = o.new /\ Fn(q) = Fn(o) /\ q.phase = o.phase
       /\ q.call = o.call /\ q.slot = o.slot
  BY <1>4, <1>9, PcIs
<1>11. op'[t] = q /\ OthersStay(t) /\ asks[t] = {} /\ file'[t] = f
  <2>1. Go(t, q) BY <1>2, <1>8, <1>9 DEF To
  <2> QED BY <1>1, <1>3, <2>1, GoStays
<1>12. DOMAIN dirs = Clusters \cup {Root} /\ D \in DOMAIN dirs
  BY <1>1, <1>3, <1>4, <1>5, Shape DEF IsFile, Strong, Working
<1>13. ASSUME NEW E, NEW j, Place(E, j), dirs'[E][j] # dirs[E][j] PROVE Dropped(t, E, j)
  <2>1. E = D BY <1>8, <1>12, <1>13 DEF Place
  <2>2. dirs'[D] = [k \in DOMAIN dirs[D] |-> IF k \in long THEN Deleted ELSE dirs[D][k]]
    BY <1>8, <1>12
  <2>3. j \in long /\ dirs'[E][j] = Deleted BY <1>13, <2>1, <2>2 DEF Place
  <2>4. i \in Int BY <1>4, <1>6 DEF IsFile
  <2>5. j \in j .. i - 1 BY <1>7, <2>3, <2>4
  <2>6. dirs[D][j].kind = "lfn" BY <1>7, <2>3, <2>5
  <2> QED BY <1>1, <2>1, <2>3, <2>6 DEF Dropped
<1>14. Effect(t) BY <1>13 DEF Effect
<1>15. Dooms(t) /\ Leaves(t) /\ Heads(t) /\ Completes(t) /\ Frees(t)
  BY <1>1, <1>2, <1>3, <1>10, <1>11 DEF Dooms, Leaves, Leaving, Heads, Completes, Dotting, Frees, Dooming
<1>16. StepOK(t) BY <1>11, <1>14, <1>15 DEF StepOK
<1>17. HoldsOn(t) /\ Carries(t)
  BY <1>1, <1>2, <1>3, <1>10, <1>11 DEF HoldsOn, Keeping, Carries, Working
<1>18. EndsAreLast(dirs)' BY <1>16, EndsStay
<1>19. \A E, j : \A b \in Clusters : Settled(E, j, b)' => Settled(E, j, b)
  BY <1>1, <1>16, <1>18, SettledBack
<1>20. Owned' BY <1>1, <1>16, <1>17, <1>19, OwnedStays DEF Accounts
<1>21. Apart' BY <1>16, <1>17, ApartStays
<1>22. HandleNamed(t)' BY <1>1, <1>3, <1>10, <1>11, <1>16, <1>17, OwnNamed
<1>23. Moved(op[t], file[t])'
  <2> SUFFICES ASSUME Fn(o) = "move" /\ o.phase \in {"src", "srcdir"} PROVE Moved(q, f)'
    BY <1>10, <1>11 DEF Moved, Moving, Fn, IsEntry, Place
  <2>1. PICK E, j : E = o.dir /\ j = o.slot OBVIOUS
  <2>2. /\ <<E, j>> # <<f.dir, f.slot>>
        /\ f.isdir => IsEntry(E, j) /\ dirs[E][j].isdir /\ dirs[E][j].cluster = f.object
    BY <1>1, <1>2, <1>4, <2>1 DEF Moved, Moving
  <2>3. ASSUME f.isdir
        PROVE  IsEntry(q.dir, q.slot)' /\ dirs'[E][j].isdir /\ dirs'[E][j].cluster = f.object
    <3>1. /\ IsEntry(E, j)' /\ dirs'[E][j].isdir = dirs[E][j].isdir
          /\ dirs'[E][j].cluster = dirs[E][j].cluster
      BY <1>1, <1>2, <1>16, <2>1, <2>2, <2>3, EntryKept
    <3> QED BY <1>10, <2>1, <2>2, <2>3, <3>1 DEF IsEntry, Place
  <2> QED BY <1>10, <2>1, <2>2, <2>3 DEF Moved, IsEntry, Place
<1>24. World(t)'
  BY <1>10, <1>11, <1>22, <1>23 DEF World, Unstarted, Planned, Begun, Emptied, Fresh, Creating, Dotting
<1>25. Locals(op[t], file[t])' BY <1>1, <1>2, <1>4, <1>10, <1>11, SameMine
<1> QED BY <1>14, <1>16, <1>20, <1>21, <1>24, <1>25, SoundStep DEF Mine

LEMMA RelockSound ==
  ASSUME Good, TInv', NEW t \in Tasks, Relock(t) PROVE StepOK(t) /\ Sound'
<1>1. /\ op[t].pc = "made" /\ dirs' = dirs /\ used' = used /\ part' = part /\ file' = file
      /\ To(t, "rmlfn") /\ TInv
  BY DEF Relock, At, Good
<1>2. PICK o : o = op[t] OBVIOUS
<1>3. PICK f : f = file[t] OBVIOUS
<1>4. /\ TaskOK(o, f) /\ IsOp(o) /\ HandleFits(o, f) /\ NestedOK(o, f) /\ Moved(o, f)
      /\ Fn(o) = "move" /\ o.phase \in {"src", "srcdir"}
  <2>1. TaskOK(o, f) /\ HandleFits(o, f) /\ NestedOK(o, f) /\ Moved(o, f)
    BY <1>2, <1>3, GoodTask DEF Locals, World
  <2> QED BY <1>1, <1>2, <2>1 DEF TaskOK, FnsAt, AtPlace
<1>5. PICK q : q = [o EXCEPT !.pc = "rmlfn"] OBVIOUS
<1>6. /\ q.pc = "rmlfn" /\ q.dir = o.dir /\ q.new = o.new /\ Fn(q) = Fn(o) /\ q.phase = o.phase
      /\ q.call = o.call /\ q.slot = o.slot
  BY <1>4, <1>5, PcIs
<1>7. op'[t] = q /\ OthersStay(t) /\ asks[t] = {} /\ file'[t] = f
  <2>1. Go(t, q) BY <1>1, <1>2, <1>5 DEF To
  <2> QED BY <1>1, <1>3, <2>1, GoStays
<1>8. Effect(t) BY <1>1 DEF Effect
<1>9. Dooms(t) /\ Leaves(t) /\ Heads(t) /\ Completes(t) /\ Frees(t)
  BY <1>1, <1>2, <1>3, <1>4, <1>6, <1>7
     DEF Dooms, Leaves, Leaving, Heads, Completes, Dotting, Frees, Dooming
<1>10. StepOK(t) BY <1>7, <1>8, <1>9 DEF StepOK
<1>11. HoldsOn(t) /\ Carries(t)
  BY <1>1, <1>2, <1>3, <1>6, <1>7 DEF HoldsOn, Keeping, Carries, Working
<1>12. EndsAreLast(dirs)' BY <1>10, EndsStay
<1>13. \A E, j : \A b \in Clusters : Settled(E, j, b)' => Settled(E, j, b)
  BY <1>1, <1>10, <1>12, SettledBack
<1>14. Owned' BY <1>1, <1>10, <1>11, <1>13, OwnedStays DEF Accounts
<1>15. Apart' BY <1>10, <1>11, ApartStays
<1>16. HandleNamed(t)' BY <1>1, <1>3, <1>6, <1>7, <1>10, <1>11, OwnNamed
<1>17. Moved(op[t], file[t])'
  <2>1. Moving(o) BY <1>1, <1>2, <1>4 DEF Moving
  <2> QED BY <1>1, <1>4, <1>6, <1>7, <2>1 DEF Moved, IsEntry, Place
<1>18. World(t)'
  BY <1>6, <1>7, <1>16, <1>17 DEF World, Unstarted, Planned, Begun, Emptied, Fresh, Creating, Dotting
<1>19. Locals(op[t], file[t])' BY <1>1, <1>2, <1>4, <1>6, <1>7, SameMine
<1> QED BY <1>10, <1>14, <1>15, <1>18, <1>19, SoundStep DEF Mine

LEMMA EraseSound ==
  ASSUME Good, TInv', NEW t \in Tasks, Erase(t), strays' = {} PROVE StepOK(t) /\ Sound'
<1>1. op[t].pc = "erase" /\ used' = used /\ part' = part /\ file' = file /\ TInv BY DEF Erase, At, Good
<1>2. PICK o : o = op[t] OBVIOUS
<1>3. PICK f : f = file[t] OBVIOUS
<1>4. /\ TaskOK(o, f) /\ IsOp(o) /\ HandleFits(o, f) /\ NestedOK(o, f) /\ Strong(t) /\ HandleNamed(t)
  BY <1>1, <1>2, <1>3, GoodTask, Strongs DEF TaskOK, Locals, World
<1>5. PICK D, i : D = f.dir /\ i = f.slot OBVIOUS
<1>6. Put(D, i, Deleted) /\ To(t, "leave")
  <2>1. ~ Stray({"failed"}) BY NoStray
  <2> QED BY <1>3, <1>5, <2>1 DEF Erase
<1>7. PICK q : q = [o EXCEPT !.pc = "leave"] OBVIOUS
<1>8. /\ q.pc = "leave" /\ q.dir = o.dir /\ q.new = o.new /\ Fn(q) = Fn(o) /\ q.phase = o.phase
      /\ q.call = o.call
  BY <1>4, <1>7, PcIs
<1>9. op'[t] = q /\ OthersStay(t) /\ asks[t] = {} /\ file'[t] = f
  <2>1. Go(t, q) BY <1>2, <1>6, <1>7 DEF To
  <2> QED BY <1>1, <1>3, <2>1, GoStays
<1>10. \A E, j : Place(E, j) => dirs'[E][j] = IF E = D /\ j = i THEN Deleted ELSE dirs[E][j]
  BY <1>1, <1>6, PutPlaces
<1>11. Effect(t) BY <1>1, <1>3, <1>5, <1>10 DEF Effect, Erased, AtFile
<1>12. dirs'[D][i] = Deleted
  BY <1>3, <1>4, <1>5, <1>10 DEF HandleNamed, Strong, Live, IsEntry
<1>13. Dooms(t) /\ Leaves(t) /\ Heads(t) /\ Completes(t) /\ Frees(t)
  BY <1>1, <1>2, <1>3, <1>5, <1>8, <1>9, <1>12
     DEF Dooms, Leaves, Leaving, Heads, Completes, Dotting, Frees, Dooming
<1>14. StepOK(t) BY <1>9, <1>11, <1>13 DEF StepOK
<1>15. HoldsOn(t) /\ Carries(t) /\ ~ Working(t)'
  BY <1>8, <1>9 DEF HoldsOn, Keeping, Carries, Working
<1>16. EndsAreLast(dirs)' BY <1>14, EndsStay
<1>17. \A E, j : \A b \in Clusters : Settled(E, j, b)' => Settled(E, j, b)
  BY <1>1, <1>14, <1>16, SettledBack
<1>18. Owned' BY <1>1, <1>14, <1>15, <1>17, OwnedStays DEF Accounts
<1>19. Apart' BY <1>14, <1>15, ApartStays
<1>20. HandleNamed(t)' BY <1>15 DEF HandleNamed
<1>21. World(t)' BY <1>8, <1>9, <1>20, PlainWorld
<1>22. Locals(op[t], file[t])' BY <1>4, <1>8, <1>9, SameMine DEF Creating
<1> QED BY <1>11, <1>14, <1>18, <1>19, <1>21, <1>22, SoundStep DEF Mine

LEMMA TargetSound ==
  ASSUME Good, TInv', NEW t \in Tasks, Target(t), strays' = {} PROVE StepOK(t) /\ Sound'
<1>1. op[t].pc = "target" /\ dirs' = dirs /\ used' = used /\ part' = part /\ file' = file /\ TInv
  BY DEF Target, At, Good
<1>2. PICK o : o = op[t] OBVIOUS
<1>3. PICK f : f = file[t] OBVIOUS
<1>4. /\ TaskOK(o, f) /\ IsOp(o) /\ HandleFits(o, f) /\ o.phase \in {"src", "srcdir"}
  BY <1>1, <1>2, <1>3, GoodTask DEF TaskOK, Locals, FnsAt
<1>5. Fn(o) = "move" /\ o.new = 0 BY <1>4 DEF TaskOK, AtPlace, FnsAt
<1>6. PICK D : D = IF o.call.to.in = "" THEN Root ELSE DirOf(o.call.to.in) OBVIOUS
<1>7. PICK q : q = [o EXCEPT !.dir = D, !.free = 0, !.checked = "no", !.seen = o.goal, !.pc = "plan"]
  OBVIOUS
<1>8. \/ Go(t, q) /\ Alive(D) /\ ~ (f.isdir /\ D # Root)
      \/ To(t, "leave")
  <2>1. ASSUME NEW a, NEW b, Stray(When(a, "doomed") \cup When(b, "nested")) PROVE ~ a /\ ~ b
    BY <2>1, NoStray DEF When
  <2> QED BY <1>2, <1>3, <1>6, <1>7, <2>1 DEF Target
<1>9. CASE To(t, "leave")
  <2>1. op[t].pc \in Using \ (Leaving \cup {"note", "enter", "leave"}) BY <1>1 DEF Using, Leaving
  <2> QED BY <1>1, <1>9, <2>1, OnSound
<1>10. CASE Go(t, q) /\ Alive(D) /\ ~ (f.isdir /\ D # Root)
  <2>1. q = [call |-> o.call, phase |-> o.phase, pc |-> "plan", dir |-> D, slot |-> o.slot,
             ent |-> o.ent, new |-> o.new, free |-> 0, checked |-> "no", alias |-> o.alias,
             seen |-> o.goal, goal |-> o.goal]
    BY <1>4, <1>7 DEF IsOp
  <2>2. /\ q.pc = "plan" /\ q.dir = D /\ q.new = 0 /\ q.free = 0 /\ Fn(q) = "move"
        /\ q.phase = o.phase /\ q.call = o.call
    BY <1>5, <2>1 DEF Fn
  <2>3. op'[t] = q /\ OthersStay(t) /\ asks[t] = {} /\ file'[t] = f
    BY <1>1, <1>3, <1>10, GoStays
  <2>4. Heads(t)
    <3>1. Alive(D) /\ op'[t].dir = D BY <1>10, <2>2, <2>3
    <3> QED BY <3>1 DEF Heads, Alive
  <2>5. 0 \notin Clusters BY <1>1, Shape
  <2>6. /\ Onward(t) /\ HoldsOn(t) /\ Carries(t) /\ op'[t].pc \notin Dotting
        /\ op[t].pc \notin Leaving
    BY <1>1, <1>3, <2>2, <2>3, <2>5 DEF Onward, HoldsOn, Carries, Dotting, Leaving, Working
  <2>7. ASSUME StepOK(t) PROVE Mine(t)'
    <3>1. HandleNamed(t)' BY <1>1, <1>3, <2>2, <2>3, <2>6, <2>7, OwnNamed
    <3>2. Unstarted(op[t])'
      <4>1. D \in Clusters \cup {Root}
        <5>1. Alive(D) => D \in Clusters \cup {Root}
          <6>1. D \in Clusters \cup {Root, 0} BY <1>1, <1>6, DirOfIs
          <6>2. TaskOK(op'[t], file'[t]) BY DEF TInv, TasksOK
          <6>3. q.dir # 0 BY <2>2, <2>3, <6>2 DEF TaskOK, FnsAt, Creating
          <6> QED BY <2>2, <6>1, <6>3
        <5> QED BY <1>10, <5>1
      <4>2. DOMAIN dirs[D] = 0 .. SlotsOf(D) - 1 /\ SlotsOf(D) \in Nat BY <1>1, <4>1, Shape
      <4>3. \A j \in DOMAIN dirs[D] : ~ (j < 0) BY <4>2
      <4> QED BY <1>1, <2>2, <2>3, <4>3 DEF Unstarted
    <3>3. World(t)'
      BY <2>2, <2>3, <3>1, <3>2 DEF World, Planned, Begun, Emptied, Moved, Moving, Fresh, Creating, Dotting
    <3>4. Mode(q) = Mode(o) BY <1>5, <2>2 DEF Mode
    <3>5. HandleFits(q, f) BY <1>4, <1>5, <2>2, <3>4 DEF HandleFits
    <3>6. NestedOK(q, f) BY <1>10, <2>2 DEF NestedOK
    <3>7. Locals(op[t], file[t])'
      BY <2>2, <2>3, <3>5, <3>6 DEF Locals, HandleFits, SoughtOK, NestedOK, Mode, Fn
    <3> QED BY <3>3, <3>7 DEF Mine
  <2> QED BY <1>1, <2>3, <2>4, <2>6, <2>7, QuietSound DEF Accounts
<1> QED BY <1>8, <1>9, <1>10

\* A task uses its handle and no slot changes.
LEMMA QuietNamed ==
  ASSUME Good, TInv', NEW t \in Tasks, StepOK(t), Carries(t), dirs' = dirs, Working(t),
         op[t].pc \in {"idle", "grow", "enter", "note"}, op'[t].pc # "note",
         file'[t].object = IF op[t].pc = "note" THEN op[t].new ELSE file[t].object
  PROVE  HandleNamed(t)'
<1> SUFFICES ASSUME Working(t)' PROVE HandleNamed(t)' BY DEF HandleNamed
<1>1. file'[t].dir = file[t].dir /\ file'[t].slot = file[t].slot /\ file'[t].isdir = file[t].isdir
  BY DEF Carries
<1>2. PICK D, i : D = file[t].dir /\ i = file[t].slot OBVIOUS
<1>3. HandleNamed(t) BY GoodTask DEF World
<1>4. Live(D, i) /\ dirs[D][i].isdir = file[t].isdir /\ dirs[D][i].cluster = file'[t].object
  BY <1>2, <1>3 DEF HandleNamed
<1>5. ~ Dooming(t) BY DEF Dooming
<1>6. EndsAreLast(dirs)' BY EndsStay
<1>7. Alive(D)' BY <1>4, <1>5, <1>6, AliveKept DEF Live
<1>8. Live(file[t].dir, file[t].slot)'
  BY <1>1, <1>2, <1>4, <1>7 DEF Live, IsEntry, Place, Alive, Doomed
<1> QED BY <1>1, <1>2, <1>4, <1>8 DEF HandleNamed

LEMMA HandleSound ==
  ASSUME Good, TInv', NEW t \in Tasks, Working(t), op[t].pc \in {"idle", "grow", "enter", "note"},
         dirs' = dirs, Accounts(t), NEW q, Go(t, q), NEW f, f = file[t], NEW h,
         (file' = file /\ h = f) \/ file' = [file EXCEPT ![t] = h],
         h # NoFile, h.dir = f.dir, h.slot = f.slot, h.mode = f.mode, h.isdir = f.isdir,
         h.object = IF op[t].pc = "note" THEN op[t].new ELSE f.object,
         HandleFits(q, h), q.pc \in {"idle", "grow", "cut", "size", "leave"},
         q.dir \in {op[t].dir, 0}
  PROVE  StepOK(t) /\ Sound'
<1>1. TInv BY DEF Good
<1>2. op'[t] = q /\ OthersStay(t) /\ asks[t] = {} /\ file'[t] = h BY <1>1, GoStays
<1>0. op[t].pc = "note" => ~ f.isdir BY GoodTask DEF Locals, HandleFits, Working
<1>3. /\ Heads(t) /\ Onward(t) /\ HoldsOn(t) /\ Carries(t) /\ op'[t].pc \notin Dotting
      /\ op[t].pc \notin Leaving
  BY <1>0, <1>2 DEF Heads, Onward, HoldsOn, Carries, Dotting, Leaving, Keeping, Working
<1>4. ASSUME StepOK(t) PROVE Mine(t)'
  <2>1. HandleNamed(t)' BY <1>2, <1>3, <1>4, QuietNamed
  <2>2. World(t)' BY <1>2, <2>1, PlainWorld
  <2>3. Locals(op[t], file[t])' BY <1>2 DEF Locals, HandleFits, SoughtOK, NestedOK, Creating, Mode, Fn
  <2> QED BY <2>2, <2>3 DEF Mine
<1> QED BY <1>2, <1>3, <1>4, QuietSound

\* A handle is for writing or not wherever the call goes.
LEMMA FitsOn ==
  ASSUME NEW o, NEW f, HandleFits(o, f), NEW q, Fn(q) \notin {"rmfile", "rmdir", "move"}, NEW h,
         h.mode = f.mode, h.isdir = f.isdir, f # NoFile, 
         q.pc \in {"grow", "enter", "note", "cut", "detach", "size"} => Writes(f.mode),
         q.pc \in {"grow", "enter"} => h.object = 0,
         q.pc = "size" /\ h.size = 0 => h.object = 0
  PROVE  HandleFits(q, h)
BY DEF HandleFits

LEMMA BeginDir ==
  ASSUME NEW fn, NEW p PROVE [Idle EXCEPT !.call.fn = fn, !.pc = p].dir = 0
BY DEF Idle

LEMMA BeginIs ==
  ASSUME NEW fn, NEW p, NEW q, q = [Idle EXCEPT !.call.fn = fn, !.pc = p]
  PROVE  Fn(q) = fn /\ q.pc = p
BY DEF Idle, Fn, NoCall

LEMMA IdleIs == Idle.pc = "idle" /\ Idle.dir = 0 /\ Fn(Idle) = "none"
BY DEF Idle, Fn, NoCall

LEMMA WriteSound ==
  ASSUME Good, TInv', NEW t \in Tasks, Write(t) PROVE StepOK(t) /\ Sound'
<1>1. op[t].pc = "idle" /\ dirs' = dirs /\ used' = used /\ part' = part /\ IsOpen(t) BY DEF Write, At
<1>2. PICK f : f = file[t] OBVIOUS
<1>3. IsFile(f) /\ f # NoFile /\ Working(t) /\ HandleFits(op[t], f)
  BY <1>1, <1>2, GoodTask DEF TaskOK, IsOpen, Working, Locals
<1>4. CASE file' = [file EXCEPT ![t].size = 1] /\ Go(t, Idle)
  <2>1. PICK h : h = [f EXCEPT !.size = 1] OBVIOUS
  <2>2. h = [dir |-> f.dir, slot |-> f.slot, object |-> f.object, size |-> 1,
             mode |-> f.mode, isdir |-> f.isdir, seen |-> f.seen]
    BY <1>3, <2>1 DEF IsFile
  <2>3. h # NoFile
    <3>1. h.size = 1 /\ NoFile.size = 0 BY <2>2 DEF NoFile
    <3> QED BY <3>1
  <2>4. h.dir = f.dir /\ h.slot = f.slot /\ h.mode = f.mode /\ h.isdir = f.isdir /\ h.object = f.object
    BY <2>2
  <2>5. file' = [file EXCEPT ![t] = h] BY <1>2, <1>4, <2>1
  <2>6. HandleFits(Idle, h) BY <1>3, <2>4, IdleIs, FitsOn
  <2> QED BY <1>1, <1>2, <1>3, <1>4, <2>3, <2>4, <2>5, <2>6, IdleIs, HandleSound DEF Accounts
<1>5. CASE Begin(t, "write", "grow") /\ file' = file /\ Writes(f.mode) /\ f.object = 0
  <2>0. PICK fn, p : fn = "write" /\ p = "grow" OBVIOUS
  <2>1. PICK q : q = [Idle EXCEPT !.call.fn = fn, !.pc = p] OBVIOUS
  <2>2. q.pc = "grow" /\ Fn(q) = "write" /\ q.dir = 0
    <3>1. Fn(q) = fn /\ q.pc = p BY <2>1 DEF Idle, Fn, NoCall
    <3>2. q.dir = 0 BY <2>1, BeginDir
    <3> QED BY <2>0, <3>1, <3>2
  <2>3. Go(t, q) BY <1>5, <2>0, <2>1 DEF Begin
  <2>4. HandleFits(q, f) BY <1>3, <1>5, <2>2, FitsOn
  <2> QED BY <1>1, <1>2, <1>3, <1>5, <2>2, <2>3, <2>4, HandleSound DEF Accounts
<1> QED BY <1>2, <1>4, <1>5 DEF Write

LEMMA CloseSound ==
  ASSUME Good, TInv', NEW t \in Tasks, Close(t) PROVE StepOK(t) /\ Sound'
<1>1. op[t].pc = "idle" /\ dirs' = dirs /\ used' = used /\ part' = part /\ IsOpen(t) /\ file' = file BY DEF Close, At
<1>2. PICK f : f = file[t] OBVIOUS
<1>3. IsFile(f) /\ f # NoFile /\ Working(t) /\ HandleFits(op[t], f)
  BY <1>1, <1>2, GoodTask DEF TaskOK, IsOpen, Working, Locals
<1>0. PICK fn : fn = "close" OBVIOUS
<1>4. PICK p \in {"leave", "cut", "size"} :
        /\ Begin(t, fn, p)
        /\ p # "leave" => Writes(f.mode)
        /\ p = "size" /\ f.size = 0 => f.object = 0
  BY <1>0, <1>2 DEF Close
<1>5. PICK q : q = [Idle EXCEPT !.call.fn = fn, !.pc = p] OBVIOUS
<1>6. q.pc = p /\ Fn(q) = "close" /\ q.dir = 0
  <2>1. Fn(q) = fn /\ q.pc = p BY <1>5 DEF Idle, Fn, NoCall
  <2>2. q.dir = 0 BY <1>5, BeginDir
  <2> QED BY <1>0, <2>1, <2>2
<1>7. Go(t, q) BY <1>4, <1>5 DEF Begin
<1>8. HandleFits(q, f) BY <1>3, <1>4, <1>6, FitsOn
<1> QED BY <1>1, <1>2, <1>3, <1>6, <1>7, <1>8, HandleSound DEF Accounts

LEMMA GrowSound ==
  ASSUME Good, TInv', NEW t \in Tasks, Grow(t) PROVE StepOK(t) /\ Sound'
<1>1. op[t].pc = "grow" /\ dirs' = dirs /\ file' = file /\ TInv BY DEF Grow, At, Good
<1>2. PICK o : o = op[t] OBVIOUS
<1>3. PICK f : f = file[t] OBVIOUS
<1>4. /\ TaskOK(o, f) /\ IsOp(o) /\ f # NoFile /\ Working(t) /\ HandleFits(o, f) /\ Fn(o) = "write"
      /\ Writes(f.mode) /\ f.object = 0
  <2>1. TaskOK(o, f) /\ HandleFits(o, f) /\ Strong(t) BY <1>1, <1>2, <1>3, GoodTask, Strongs DEF Locals
  <2> QED BY <1>1, <1>2, <1>3, <2>1 DEF TaskOK, FnsAt, Strong, Working, HandleFits
<1>5. PICK c : c = Least(FreeClusters) OBVIOUS
<1>6. PICK q : q = [o EXCEPT !.new = c, !.pc = "enter"] OBVIOUS
<1>7. \/ FreeClusters # {} /\ used' = used \cup {c} /\ part' = part /\ Go(t, q)
      \/ Accounts(t) /\ Go(t, Idle)
  <2>1. Lose(t) => Accounts(t) /\ Go(t, Idle) BY LoseAccounts
  <2>2. (used' = used /\ part' = part) => Accounts(t) BY DEF Accounts
  <2> QED BY <1>2, <1>5, <1>6, <2>1, <2>2 DEF Grow
<1>8. CASE Accounts(t) /\ Go(t, Idle)
  <2>1. HandleFits(Idle, f) BY <1>4, IdleIs, FitsOn
  <2> QED BY <1>1, <1>3, <1>4, <1>8, <2>1, IdleIs, HandleSound
<1>9. CASE FreeClusters # {} /\ used' = used \cup {c} /\ part' = part /\ Go(t, q)
  <2>1. c \in Clusters /\ c \notin used BY <1>5, <1>9, LeastFree DEF FreeClusters
  <2>2. q = [call |-> o.call, phase |-> o.phase, pc |-> "enter", dir |-> o.dir, slot |-> o.slot,
             ent |-> o.ent, new |-> c, free |-> o.free, checked |-> o.checked,
             alias |-> o.alias, seen |-> o.seen, goal |-> o.goal]
    BY <1>4, <1>6 DEF IsOp
  <2>3. q.pc = "enter" /\ q.dir = o.dir /\ q.new = c /\ Fn(q) = "write" BY <1>4, <2>2 DEF Fn
  <2>4. op'[t] = q /\ OthersStay(t) /\ asks[t] = {} /\ file'[t] = f BY <1>1, <1>3, <1>9, GoStays
  <2>5. /\ Heads(t) /\ Onward(t) /\ Carries(t) /\ op'[t].pc \notin Dotting /\ op[t].pc \notin Leaving
    BY <1>1, <1>2, <1>3, <2>3, <2>4 DEF Heads, Onward, Carries, Dotting, Leaving, Working
  <2>6. StepOK(t) /\ EndsAreLast(dirs)' BY <1>1, <2>4, <2>5, QuietStep
  <2>7. Owned' BY <1>1, <1>9, <2>1, <2>3, <2>4, <2>6, OwnedGained
  <2>8. Apart' BY <2>5, <2>6, ApartStays
  <2>9. HandleNamed(t)' BY <1>1, <1>3, <1>4, <2>3, <2>4, <2>5, <2>6, QuietNamed
  <2>10. World(t)' BY <2>3, <2>4, <2>9, PlainWorld
  <2>11. HandleFits(q, f) BY <1>4, <2>3, FitsOn
  <2>12. Locals(op[t], file[t])'
    BY <2>3, <2>4, <2>11 DEF Locals, HandleFits, SoughtOK, NestedOK, Creating, Mode, Fn
  <2> QED BY <2>6, <2>7, <2>8, <2>10, <2>12, SoundStep DEF Mine
<1> QED BY <1>7, <1>8, <1>9

LEMMA NoteSound ==
  ASSUME Good, TInv', NEW t \in Tasks, Note(t) PROVE StepOK(t) /\ Sound'
<1>1. op[t].pc = "note" /\ dirs' = dirs /\ used' = used /\ part' = part /\ TInv BY DEF Note, At, Good
<1>2. PICK o : o = op[t] OBVIOUS
<1>3. PICK f : f = file[t] OBVIOUS
<1>4. /\ TaskOK(o, f) /\ IsFile(f) /\ IsOp(o) /\ f # NoFile /\ f.dir # 0 /\ Working(t)
      /\ HandleFits(o, f) /\ Writes(f.mode) /\ Fn(o) \in {"write", "close"}
  <2>1. TaskOK(o, f) /\ HandleFits(o, f) /\ Strong(t) BY <1>1, <1>2, <1>3, GoodTask, Strongs DEF Locals
  <2> QED BY <1>1, <1>2, <1>3, <2>1 DEF TaskOK, FnsAt, Strong, Working, HandleFits, IsFile
<1>5. CASE Fn(o) = "write"
  <2>1. PICK h : h = [f EXCEPT !.object = o.new, !.size = 1] OBVIOUS
  <2>2. h = [dir |-> f.dir, slot |-> f.slot, object |-> o.new, size |-> 1,
             mode |-> f.mode, isdir |-> f.isdir, seen |-> f.seen]
    BY <1>4, <2>1 DEF IsFile
  <2>3. h # NoFile
    <3>1. h.size = 1 /\ NoFile.size = 0 BY <2>2 DEF NoFile
    <3> QED BY <3>1
  <2>4. h.dir = f.dir /\ h.slot = f.slot /\ h.mode = f.mode /\ h.isdir = f.isdir /\ h.object = o.new
    BY <2>2
  <2>5. file' = [file EXCEPT ![t].object = o.new, ![t].size = 1] /\ Go(t, Idle)
    BY <1>2, <1>5 DEF Note
  <2>6. TasksOK BY <1>1 DEF TInv
  <2>7. file' = [file EXCEPT ![t] = h] BY <1>3, <2>1, <2>5, <2>6 DEF TasksOK
  <2>8. HandleFits(Idle, h) BY <1>4, <2>4, IdleIs, FitsOn
  <2> QED BY <1>1, <1>2, <1>3, <1>4, <2>3, <2>4, <2>5, <2>7, <2>8, IdleIs, HandleSound DEF Accounts
<1>6. CASE Fn(o) = "close"
  <2>1. PICK h : h = [f EXCEPT !.object = 0] OBVIOUS
  <2>2. h = [dir |-> f.dir, slot |-> f.slot, object |-> 0, size |-> f.size,
             mode |-> f.mode, isdir |-> f.isdir, seen |-> f.seen]
    BY <1>4, <2>1 DEF IsFile
  <2>3. h # NoFile
    <3>1. h.dir # 0 /\ NoFile.dir = 0 BY <1>4, <2>2 DEF NoFile
    <3> QED BY <3>1
  <2>4. h.dir = f.dir /\ h.slot = f.slot /\ h.mode = f.mode /\ h.isdir = f.isdir /\ h.object = 0
    BY <2>2
  <2>5. file' = [file EXCEPT ![t].object = 0] /\ To(t, "size") BY <1>2, <1>6 DEF Note
  <2>6. file' = [file EXCEPT ![t] = h] BY <1>3, <2>1, <2>5
  <2>7. PICK q : q = [o EXCEPT !.pc = "size"] OBVIOUS
  <2>8. Go(t, q) BY <1>2, <2>5, <2>7 DEF To
  <2>9. q.pc = "size" /\ q.dir = o.dir /\ Fn(q) = "close" BY <1>4, <1>6, <2>7, PcIs
  <2>10. HandleFits(q, h) BY <1>4, <2>4, <2>9, FitsOn
  <2>11. o.new = 0 BY <1>4, <1>6 DEF TaskOK, FnsAt
  <2> QED BY <1>1, <1>2, <1>3, <1>4, <2>3, <2>4, <2>6, <2>8, <2>9, <2>10, <2>11, HandleSound DEF Accounts
<1> QED BY <1>4, <1>5, <1>6

LEMMA CutSound ==
  ASSUME Good, TInv', NEW t \in Tasks, Cut(t), strays' = {} PROVE StepOK(t) /\ Sound'
<1>1. op[t].pc = "cut" /\ dirs' = dirs /\ file' = file /\ TInv BY DEF Cut, At, Good
<1>2. PICK o : o = op[t] OBVIOUS
<1>3. PICK f : f = file[t] OBVIOUS
<1>4. /\ TaskOK(o, f) /\ IsOp(o) /\ f # NoFile /\ Strong(t) /\ HandleFits(o, f) /\ Fn(o) = "close"
      /\ Writes(f.mode)
  <2>1. TaskOK(o, f) /\ HandleFits(o, f) /\ Strong(t) BY <1>1, <1>2, <1>3, GoodTask, Strongs DEF Locals
  <2> QED BY <1>1, <1>2, <1>3, <2>1 DEF TaskOK, FnsAt, Strong, Working, HandleFits
<1>5. PICK c : c = f.object OBVIOUS
<1>6. PICK q : q = [o EXCEPT !.pc = "detach"] OBVIOUS
<1>7. \/ Release(Chain(c)) /\ Go(t, q)
      \/ used' = used /\ part' = part /\ To(t, "leave")
  <2>1. ASSUME NEW b, Stray(When(b, "failed")) PROVE ~ b BY <2>1, NoStray DEF When
  <2>2. ASSUME NEW S, Release(S), used' = used PROVE part' = part BY <2>2, ReleaseSame
  <2> QED BY <1>2, <1>3, <1>5, <1>6, <2>1, <2>2 DEF Cut, To
<1>8. CASE used' = used /\ part' = part /\ To(t, "leave")
  <2>1. op[t].pc \in Using \ (Leaving \cup {"note", "enter", "leave"}) BY <1>1 DEF Using, Leaving
  <2> QED BY <1>1, <1>8, <2>1, OnSound
<1>9. CASE Release(Chain(c)) /\ Go(t, q)
  <2>1. q.pc = "detach" /\ q.dir = o.dir /\ q.new = o.new /\ Fn(q) = "close" BY <1>4, <1>6, PcIs
  <2>2. op'[t] = q /\ OthersStay(t) /\ asks[t] = {} /\ file'[t] = f BY <1>1, <1>3, <1>9, GoStays
  <2>3. /\ Heads(t) /\ Onward(t) /\ HoldsOn(t) /\ Carries(t) /\ op'[t].pc \notin Dotting
        /\ op[t].pc \notin Leaving /\ op[t].pc \notin Leaving \cup {"note"} /\ op'[t].pc \in Leaving
    BY <1>1, <1>2, <1>3, <2>1, <2>2 DEF Heads, Onward, HoldsOn, Carries, Dotting, Leaving, Keeping, Working
  <2>4. Accounts(t) BY <1>1, <1>3, <1>4, <1>5, <1>9, <2>2, <2>3, FreedWithEntry
  <2>5. ASSUME StepOK(t) PROVE Mine(t)'
    <3>1. HandleNamed(t)' BY <1>1, <1>3, <2>1, <2>2, <2>3, <2>5, OwnNamed
    <3>2. World(t)' BY <2>1, <2>2, <3>1, PlainWorld
    <3>3. HandleFits(q, f) BY <1>4, <2>1, FitsOn
    <3>4. Locals(op[t], file[t])'
      BY <2>1, <2>2, <3>3 DEF Locals, HandleFits, SoughtOK, NestedOK, Creating, Mode, Fn
    <3> QED BY <3>2, <3>4 DEF Mine
  <2> QED BY <1>1, <2>2, <2>3, <2>4, <2>5, QuietSound
<1> QED BY <1>7, <1>8, <1>9

\* Only the entry of that slot is written, and in it the cluster and the size.
LEMMA PutInIs ==
  ASSUME TInv, TInv', NEW D, NEW i, IsEntry(D, i), NEW c, NEW z, PutIn(D, i, c, z)
  PROVE  /\ \A E, j : Place(E, j) /\ ~ (E = D /\ j = i) => dirs'[E][j] = dirs[E][j]
         /\ dirs'[D][i].kind = "entry" /\ dirs'[D][i].cluster = c
         /\ dirs'[D][i].alias = dirs[D][i].alias /\ dirs'[D][i].isdir = dirs[D][i].isdir
<1>1. PICK s : s = dirs[D][i] OBVIOUS
<1>2. PICK e : e = [s EXCEPT !.cluster = c, !.size = z] OBVIOUS
<1>3. Place(D, i) /\ s.kind = "entry" BY <1>1 DEF IsEntry
<1>4. IsSlot(s) BY <1>1, <1>3, Shape
<1>5. PICK a, b, y, d : a = s.alias /\ b = s.cluster /\ y = s.size /\ d = s.isdir OBVIOUS
<1>6. e = [kind |-> "entry", alias |-> a, cluster |-> c, size |-> z, isdir |-> d]
  <2>1. s = Entry(s.alias, s.cluster, s.size, s.isdir) BY <1>3, <1>4, EntryIs
  <2>2. s = [kind |-> "entry", alias |-> a, cluster |-> b, size |-> y, isdir |-> d]
    BY <1>5, <2>1 DEF Entry
  <2> QED BY <1>2, <2>2
<1>7. Put(D, i, e) BY <1>1, <1>2, <1>3 DEF PutIn
<1>8. \A E, j : Place(E, j) => dirs'[E][j] = IF E = D /\ j = i THEN e ELSE dirs[E][j]
  BY <1>7, PutPlaces
<1>9. dirs'[D][i] = e BY <1>3, <1>8
<1>10. e.kind = "entry" /\ e.cluster = c /\ e.alias = s.alias /\ e.isdir = s.isdir BY <1>5, <1>6
<1> QED BY <1>1, <1>8, <1>9, <1>10

\* The entry of the handle is written.
LEMMA PutInStep ==
  ASSUME Good, TInv', NEW t \in Tasks, op[t].pc \in {"enter", "detach", "size"}, NEW f, f = file[t],
         NEW c, NEW z, PutIn(f.dir, f.slot, c, z), used' = used, part' = part, file' = file,
         op[t].pc = "enter" => c = op[t].new, op[t].pc = "detach" => c = 0,
         op[t].pc = "size" => c = f.object,
         NEW q, Go(t, q), q.pc \in {"note", "leave"}, q.dir = op[t].dir, q.pc = "note" => q.new = c,
         HandleFits(q, f)
  PROVE  StepOK(t) /\ Sound'
<1>1. PICK o : o = op[t] OBVIOUS
<1>2. PICK D, i : D = f.dir /\ i = f.slot OBVIOUS
<1>3. Strong(t) /\ HandleNamed(t) /\ TaskOK(o, f) /\ TInv BY <1>1, Strongs, GoodTask DEF World, Good
<1>4. Live(D, i) /\ (op[t].pc # "note" => dirs[D][i].cluster = f.object)
  BY <1>2, <1>3 DEF Strong, HandleNamed
<1>5. /\ \A E, j : Place(E, j) /\ ~ (E = D /\ j = i) => dirs'[E][j] = dirs[E][j]
      /\ dirs'[D][i].kind = "entry" /\ dirs'[D][i].cluster = c
      /\ dirs'[D][i].alias = dirs[D][i].alias /\ dirs'[D][i].isdir = dirs[D][i].isdir
  BY <1>2, <1>3, <1>4, PutInIs DEF Live
<1>6. op'[t] = q /\ OthersStay(t) /\ asks[t] = {} /\ file'[t] = f BY <1>3, GoStays
<1>7. Written(t, D, i)
  <2>1. op[t].pc = "size" => dirs'[D][i].cluster = dirs[D][i].cluster BY <1>4, <1>5
  <2> QED BY <1>2, <1>5, <2>1 DEF Written, AtFile
<1>8. Effect(t) BY <1>5, <1>7 DEF Effect
<1>9. Dooms(t) /\ Leaves(t) /\ Heads(t) /\ Completes(t) /\ Frees(t)
  BY <1>2, <1>5, <1>6 DEF Dooms, Leaves, Leaving, Heads, Completes, Dotting, Frees, Dooming
<1>10. StepOK(t) BY <1>6, <1>8, <1>9 DEF StepOK
<1>11. HoldsOn(t) /\ Carries(t)
  BY <1>6 DEF HoldsOn, Keeping, Carries, Working
<1>12. EndsAreLast(dirs)' BY <1>10, EndsStay
<1>13. Apart' BY <1>10, <1>11, ApartStays
<1>14. Owned'
  <2>1. CASE op[t].pc = "enter"
    <3>1. ASSUME NEW E, NEW j, NEW b \in Clusters, Settled(E, j, b)'
          PROVE  Settled(E, j, b) \/ (E = D /\ j = i /\ b = c)
      <4>1. Settled(E, j, b) \/ (AtFile(t, E, j) /\ dirs'[E][j].cluster = op[t].new)
        BY <1>10, <1>12, <2>1, <3>1, SettledBack
      <4>2. dirs'[E][j].cluster = b BY <3>1 DEF Settled
      <4> QED BY <1>2, <2>1, <4>1, <4>2 DEF AtFile
    <3>2. Holds(t, c) BY <2>1 DEF Holds, Keeping
    <3>3. op'[t].pc \notin Keeping BY <1>6 DEF Keeping
    <3>4. Passes(t, c, D, i) BY <3>1, <3>2, <3>3 DEF Passes
    <3> QED BY <1>10, <3>4, OwnedPassed
  <2>2. CASE op[t].pc # "enter"
    <3>1. \A E, j : \A b \in Clusters : Settled(E, j, b)' => Settled(E, j, b)
      BY <1>10, <1>12, <2>2, SettledBack
    <3> QED BY <1>10, <1>11, <3>1, OwnedStays DEF Accounts
  <2> QED BY <2>1, <2>2
<1>15. HandleNamed(t)'
  <2>1. CASE q.pc = "leave" BY <1>6, <2>1 DEF HandleNamed, Working
  <2>2. CASE q.pc = "note"
    <3>1. ~ (op[t].pc = "erase" /\ AtFile(t, D, i)) OBVIOUS
    <3>2. Live(D, i)' BY <1>4, <1>10, <1>12, <3>1, LiveKept
    <3>3. dirs[D][i].isdir = f.isdir BY <1>2, <1>3 DEF Strong, HandleNamed
    <3>4. Live(file[t].dir, file[t].slot)'
      BY <1>2, <1>6, <3>2 DEF Live, IsEntry, Place, Alive, Doomed
    <3> QED BY <1>2, <1>5, <1>6, <2>2, <3>3, <3>4 DEF HandleNamed
  <2> QED BY <2>1, <2>2
<1>16. World(t)' BY <1>6, <1>15, PlainWorld
<1>17. Locals(op[t], file[t])'
  BY <1>6 DEF Locals, HandleFits, SoughtOK, NestedOK, Creating, Mode, Fn
<1> QED BY <1>8, <1>10, <1>13, <1>14, <1>16, <1>17, SoundStep DEF Mine

LEMMA EnterSound ==
  ASSUME Good, TInv', NEW t \in Tasks, Enter(t), strays' = {} PROVE StepOK(t) /\ Sound'
<1>1. op[t].pc = "enter" /\ used' = used /\ part' = part /\ file' = file /\ TInv BY DEF Enter, At, Good
<1>2. PICK o : o = op[t] OBVIOUS
<1>3. PICK f : f = file[t] OBVIOUS
<1>4. TaskOK(o, f) /\ IsOp(o) /\ f # NoFile /\ HandleFits(o, f) /\ Working(t) /\ Fn(o) = "write"
      /\ Writes(f.mode)
  <2>1. TaskOK(o, f) /\ HandleFits(o, f) /\ Strong(t) BY <1>1, <1>2, <1>3, GoodTask, Strongs DEF Locals
  <2> QED BY <1>1, <1>2, <1>3, <2>1 DEF TaskOK, FnsAt, Strong, Working, HandleFits
<1>5. \/ PutIn(f.dir, f.slot, o.new, 0) /\ To(t, "note")
      \/ Go(t, Idle) /\ dirs' = dirs
  <2>1. ~ Stray({"failed"}) BY NoStray
  <2> QED BY <1>2, <1>3, <2>1 DEF Enter
<1>6. CASE PutIn(f.dir, f.slot, o.new, 0) /\ To(t, "note")
  <2>1. PICK q : q = [o EXCEPT !.pc = "note"] OBVIOUS
  <2>2. q.pc = "note" /\ q.dir = o.dir /\ q.new = o.new /\ Fn(q) = Fn(o) BY <1>4, <2>1, PcIs
  <2>3. Go(t, q) BY <1>2, <1>6, <2>1 DEF To
  <2>4. HandleFits(q, f) BY <1>4, <2>2, FitsOn
  <2> QED BY <1>1, <1>2, <1>3, <1>6, <2>2, <2>3, <2>4, PutInStep
<1>7. CASE Go(t, Idle) /\ dirs' = dirs
  <2>1. HandleFits(Idle, f) BY <1>4, IdleIs, FitsOn
  <2> QED BY <1>1, <1>3, <1>4, <1>7, <2>1, IdleIs, HandleSound DEF Accounts
<1> QED BY <1>5, <1>6, <1>7

LEMMA DetachSound ==
  ASSUME Good, TInv', NEW t \in Tasks, Detach(t), strays' = {} PROVE StepOK(t) /\ Sound'
<1>1. op[t].pc = "detach" /\ used' = used /\ part' = part /\ file' = file /\ TInv BY DEF Detach, At, Good
<1>2. PICK o : o = op[t] OBVIOUS
<1>3. PICK f : f = file[t] OBVIOUS
<1>4. TaskOK(o, f) /\ IsOp(o) /\ f # NoFile /\ HandleFits(o, f) /\ Fn(o) = "close" /\ o.new = 0
      /\ Writes(f.mode)
  <2>1. TaskOK(o, f) /\ HandleFits(o, f) /\ Strong(t) BY <1>1, <1>2, <1>3, GoodTask, Strongs DEF Locals
  <2> QED BY <1>1, <1>2, <1>3, <2>1 DEF TaskOK, FnsAt, Strong, Working, HandleFits
<1>5. PutIn(f.dir, f.slot, 0, dirs[f.dir][f.slot].size) /\ To(t, "note")
  <2>1. ~ Stray({"failed"}) BY NoStray
  <2> QED BY <1>2, <1>3, <2>1 DEF Detach
<1>6. PICK q : q = [o EXCEPT !.pc = "note"] OBVIOUS
<1>7. q.pc = "note" /\ q.dir = o.dir /\ q.new = 0 /\ Fn(q) = Fn(o) BY <1>4, <1>6, PcIs
<1>8. Go(t, q) BY <1>2, <1>5, <1>6 DEF To
<1>9. HandleFits(q, f) BY <1>4, <1>7, FitsOn
<1> QED BY <1>1, <1>2, <1>3, <1>5, <1>7, <1>8, <1>9, PutInStep

LEMMA PutSizeSound ==
  ASSUME Good, TInv', NEW t \in Tasks, PutSize(t) PROVE StepOK(t) /\ Sound'
<1>1. op[t].pc = "size" /\ used' = used /\ part' = part /\ file' = file /\ TInv BY DEF PutSize, At, Good
<1>2. PICK o : o = op[t] OBVIOUS
<1>3. PICK f : f = file[t] OBVIOUS
<1>4. TaskOK(o, f) /\ IsOp(o) /\ f # NoFile /\ HandleFits(o, f) /\ Fn(o) = "close" /\ Writes(f.mode)
      /\ HandleNamed(t) /\ Working(t)
  <2>1. TaskOK(o, f) /\ HandleFits(o, f) /\ Strong(t) /\ HandleNamed(t)
    BY <1>1, <1>2, <1>3, GoodTask, Strongs DEF Locals, World
  <2> QED BY <1>1, <1>2, <1>3, <2>1 DEF TaskOK, FnsAt, Strong, Working, HandleFits
<1>5. PICK c : c = IF f.size = 0 THEN 0 ELSE dirs[f.dir][f.slot].cluster OBVIOUS
<1>6. PutIn(f.dir, f.slot, c, f.size) \/ dirs' = dirs BY <1>3, <1>5 DEF PutSize
<1>7. To(t, "leave") BY DEF PutSize
<1>8. CASE PutIn(f.dir, f.slot, c, f.size)
  <2>1. c = f.object
    <3>1. dirs[f.dir][f.slot].cluster = f.object BY <1>1, <1>3, <1>4 DEF HandleNamed
    <3>2. f.size = 0 => f.object = 0 BY <1>1, <1>2, <1>4 DEF HandleFits
    <3> QED BY <1>5, <3>1, <3>2
  <2>2. PICK q : q = [o EXCEPT !.pc = "leave"] OBVIOUS
  <2>3. q.pc = "leave" /\ q.dir = o.dir /\ Fn(q) = Fn(o) BY <1>4, <2>2, PcIs
  <2>4. Go(t, q) BY <1>2, <1>7, <2>2 DEF To
  <2>5. HandleFits(q, f) BY <1>4, <2>3, FitsOn
  <2> QED BY <1>1, <1>2, <1>3, <1>8, <2>1, <2>3, <2>4, <2>5, PutInStep
<1>9. CASE dirs' = dirs
  <2>1. op[t].pc \in Using \ (Leaving \cup {"note", "enter", "leave"}) BY <1>1 DEF Using, Leaving
  <2> QED BY <1>1, <1>7, <1>9, <2>1, OnSound
<1> QED BY <1>6, <1>8, <1>9

\* Nobody opens a directory for writing.
LEMMA ModesDiffer ==
  ASSUME NEW o, o.call \in Calls, Fn(o) # "mkdir", o.phase # "only" <=> Fn(o) = "move",
         o.phase \in {"only", "dst", "del", "src", "srcdir"}
  PROVE  ~ ("W" \in Mode(o) /\ "D" \in Mode(o))
<1>1. Fn(o) \in {"open", "rmfile", "rmdir", "move"} /\ "D" \notin o.call.mode
  BY CallsAssumption DEF Fn
<1>2. CASE Fn(o) = "open" BY <1>1, <1>2 DEF Mode
<1>3. CASE Fn(o) # "open"
  <2>1. Mode(o) = {"W"} \/ Mode(o) = {"D"} \/ Mode(o) = {"R"} BY <1>1, <1>3, ModeIs
  <2> QED BY <2>1
<1> QED BY <1>2, <1>3

\* The entry that was found is there still.
LEMMA SoughtIs ==
  ASSUME Good, NEW t \in Tasks, op[t].pc = "join", NEW o, o = op[t], NEW n,
         ~ Outdated(o.dir, n, o.seen)
  PROVE  /\ Live(o.dir, o.slot) /\ dirs[o.dir][o.slot].cluster = o.ent.cluster
         /\ dirs[o.dir][o.slot].isdir = o.ent.isdir /\ (o.ent.isdir => "D" \in Mode(o))
<1>1. PICK D, i : D = o.dir /\ i = o.slot OBVIOUS
<1>2. TaskOK(o, file[t]) /\ SoughtOK(o) BY GoodTask DEF Locals
<1>3. PICK e : /\ <<i, e>> \in o.seen.at /\ e.kind = "entry" /\ e.cluster = o.ent.cluster
               /\ e.isdir = o.ent.isdir /\ (e.isdir => "D" \in Mode(o))
  BY <1>1, <1>2 DEF SoughtOK
<1>4. Knowledge(D, n) = o.seen /\ Alive(D) BY <1>1 DEF Outdated
<1>5. o.seen.at = {<<j, dirs[D][j]>> : j \in Named(dirs[D], n)} BY <1>4 DEF Knowledge
<1>6. i \in Named(dirs[D], n) /\ e = dirs[D][i] BY <1>3, <1>5
<1>7. i \in Entries(dirs[D]) BY <1>6 DEF Named
<1>8. D \in DOMAIN dirs
  <2>1. TInv BY DEF Good
  <2>2. o.dir # 0 /\ o.dir \in Clusters \cup {Root, 0} BY <1>2 DEF TaskOK, FnsAt, IsOp
  <2> QED BY <1>1, <2>1, <2>2, Shape
<1>9. IsEntry(D, i) BY <1>7, <1>8, EntriesAre DEF Good, Sound
<1> QED BY <1>1, <1>3, <1>4, <1>6, <1>9 DEF Live

\* Where a call goes with its handle.
LEMMA AfterJoinIs ==
  ASSUME NEW o, IsOp(o), Fn(o) # "mkdir", NEW h, NEW q, q = AfterJoin(o, h)
  PROVE  \/ q.pc = "idle" /\ q.dir = 0 /\ Fn(q) = "none"
         \/ /\ q.pc \in {"empty", "unlink", "rmlfn", "leave", "target"} /\ q.dir = o.dir
            /\ Fn(q) = Fn(o) /\ q.phase = o.phase /\ q.call = o.call
            /\ q.pc \in {"unlink", "rmlfn"} => Fn(o) # "rmdir" /\ Removes(o)
<1>1. CASE Fn(o) = "open"
  <2>1. q = Idle BY <1>1 DEF AfterJoin
  <2> QED BY <2>1, IdleIs
<1>2. CASE Fn(o) # "open"
  <2>1. PICK p : /\ q = [o EXCEPT !.pc = p] /\ p \in {"empty", "unlink", "rmlfn", "leave", "target"}
                 /\ p \in {"unlink", "rmlfn"} => Fn(o) # "rmdir" /\ Removes(o)
    BY <1>2 DEF AfterJoin
  <2> QED BY <2>1, PcIs
<1> QED BY <1>1, <1>2

\* Whose handle is on the same entry, or the same directory.
LEMMA SameEntry ==
  ASSUME Good, NEW u \in Tasks, Working(u), NEW D, NEW i, NEW h, file[u].dir = D, file[u].slot = i,
         h.dir = D, h.slot = i, h.object = dirs[D][i].cluster,
         ~ Noting(D, i), \A g \in Listed : ~ Conflicts(g, h)
  PROVE  ~ Writes(file[u].mode) /\ ~ Writes(h.mode)
<1>1. PICK g : g = file[u] OBVIOUS
<1>2. HandleNamed(u) BY GoodTask DEF World
<1>3. op[u].pc # "note" BY DEF Noting
<1>4. g.object = h.object /\ g.dir = h.dir /\ g.slot = h.slot BY <1>1, <1>2, <1>3 DEF HandleNamed
<1>5. g \in Listed BY <1>1 DEF Listed, IsOpen, Working
<1> QED BY <1>1, <1>4, <1>5 DEF Conflicts

LEMMA SameDirectory ==
  ASSUME Good, NEW u \in Tasks, Working(u), NEW h, h.isdir => "D" \in h.mode,
         \A g \in Listed : ~ SharesDir(g, h)
  PROVE  ~ (h.isdir /\ file[u].isdir /\ file[u].object = h.object)
<1>1. file[u] \in Listed BY DEF Listed, IsOpen, Working
<1>2. file[u].isdir => "D" \in file[u].mode BY GoodTask DEF Locals, HandleFits, Working
<1> QED BY <1>1, <1>2 DEF SharesDir

LEMMA JoinSound ==
  ASSUME Good, TInv', NEW t \in Tasks, Join(t), strays' = {} PROVE StepOK(t) /\ Sound'
<1>1. op[t].pc = "join" /\ dirs' = dirs /\ used' = used /\ part' = part /\ TInv BY DEF Join, At, Good
<1>2. PICK o : o = op[t] OBVIOUS
<1>3. /\ TaskOK(o, file[t]) /\ IsOp(o) /\ file[t] = NoFile /\ Fn(o) # "mkdir" /\ o.dir # 0
      /\ o.call \in Calls /\ (o.phase # "only" <=> Fn(o) = "move")
      /\ o.phase \in {"only", "dst", "del", "src", "srcdir"}
  <2>1. TaskOK(o, file[t]) BY <1>2, GoodTask
  <2> QED BY <1>1, <1>2, <2>1 DEF TaskOK, FnsAt, AtPlace, Seeking
<1>4. PICK h : h = NewHandle(o) OBVIOUS
<1>5. /\ IsFile(h) /\ h.dir = o.dir /\ h.slot = o.slot /\ h.object = o.ent.cluster
      /\ h.mode = Mode(o) /\ h.isdir = o.ent.isdir
  BY <1>3, <1>4, NewHandleIs
<1>6. PICK busy : busy = (\E g \in Listed : Conflicts(g, h)) OBVIOUS
<1>7. /\ file' = IF busy THEN file ELSE [file EXCEPT ![t] = h]
      /\ Go(t, IF busy THEN Refused(o, "busy") ELSE AfterJoin(o, h))
  BY <1>2, <1>4, <1>6 DEF Join, AfterJoin
<1>8. CASE busy
  <2>1. PICK q : q = Refused(o, "busy") OBVIOUS
  <2>2. q.pc \in {"idle", "dir", "find"} /\ q.dir \in {op[t].dir, Root, 0}
    <3>1. CASE Fn(o) = "open"
      <4>1. q = Idle BY <1>3, <2>1, <3>1 DEF Refused
      <4> QED BY <4>1, IdleIs
    <3>2. CASE Fn(o) # "open"
      <4>1. Looks(o) BY <1>3, <3>2 DEF Looks, TaskOK, FnsAt
      <4> QED BY <1>2, <2>1, <4>1, RefusedIs
    <3> QED BY <3>1, <3>2
  <2>3. Go(t, q) /\ file' = file BY <1>7, <1>8, <2>1
  <2> QED BY <1>1, <1>3, <2>2, <2>3, GoBack DEF Accounts, Leaving
<1>9. CASE ~ busy
  <2>1. PICK n : n = Path(o).name OBVIOUS
  <2>2. /\ ~ Outdated(o.dir, n, o.seen) /\ ~ Noting(o.dir, o.slot)
        /\ ~ (\E g \in Listed : SharesDir(g, h)) /\ ("D" \in h.mode => h.isdir)
    <3>1. PICK a, b, c, d, e : /\ a = (o.phase = "dst") /\ b = Outdated(o.dir, n, o.seen)
                               /\ c = Noting(o.dir, o.slot)
                               /\ d = (\E g \in Listed : SharesDir(g, h))
                               /\ e = ("D" \in h.mode /\ ~ h.isdir)
      OBVIOUS
    <3>2. Stray(When(busy /\ a, "busy") \cup When(~ busy /\ b, "outdated")
                \cup When(~ busy /\ c, "noting") \cup When(~ busy /\ d, "shared")
                \cup When(~ busy /\ e, "notdir"))
      BY <1>2, <1>4, <1>6, <2>1, <3>1 DEF Join
    <3>3. ~ b /\ ~ c /\ ~ d /\ ~ e BY <1>9, <3>2, NoStray DEF When
    <3> QED BY <3>1, <3>3
  <2>3. PICK D, i : D = o.dir /\ i = o.slot OBVIOUS
  <2>4. /\ Live(D, i) /\ dirs[D][i].cluster = h.object /\ dirs[D][i].isdir = h.isdir
        /\ (h.isdir => "D" \in h.mode)
    BY <1>1, <1>2, <1>5, <2>2, <2>3, SoughtIs
  <2>5. PICK q : q = AfterJoin(o, h) OBVIOUS
  <2>6. \/ q.pc = "idle" /\ q.dir = 0 /\ Fn(q) = "none"
        \/ /\ q.pc \in {"empty", "unlink", "rmlfn", "leave", "target"} /\ q.dir = o.dir
           /\ Fn(q) = Fn(o) /\ q.phase = o.phase /\ q.call = o.call
           /\ q.pc \in {"unlink", "rmlfn"} => Fn(o) # "rmdir" /\ Removes(o)
    BY <1>3, <2>5, AfterJoinIs
  <2>7. Go(t, q) /\ file' = [file EXCEPT ![t] = h] BY <1>7, <1>9, <2>5
  <2>8. op'[t] = q /\ OthersStay(t) /\ asks[t] = {} /\ file'[t] = h BY <1>1, <2>7, GoStays
  <2>9. HandleFits(q, h)
    <3>1. ~ (Writes(h.mode) /\ h.isdir) BY <1>3, <1>5, <2>4, ModesDiffer DEF Writes
    <3>2. Fn(q) \in {"rmfile", "rmdir", "move"} => Mode(q) = Mode(o) BY <2>6 DEF Mode
    <3> QED BY <1>5, <2>2, <2>4, <2>6, <3>1, <3>2 DEF HandleFits
  <2>10. q.pc \in {"unlink", "rmlfn"} => Fn(q) # "rmdir" /\ q.phase \notin {"src", "srcdir"}
    BY <1>3, <2>6 DEF Removes
  <2>11. Locals(op[t], file[t])'
    <3>1. NestedOK(q, h) BY <2>6, <2>10 DEF NestedOK, Creating
    <3> QED BY <2>6, <2>8, <2>9, <3>1 DEF Locals, HandleFits, SoughtOK, NestedOK, Mode, Fn
  <2>12. /\ Heads(t) /\ Onward(t) /\ HoldsOn(t) /\ op'[t].pc \notin Dotting /\ op[t].pc \notin Leaving
    BY <1>1, <1>2, <2>6, <2>8, <2>10
       DEF Heads, Onward, Dooms, Frees, Dooming, HoldsOn, Dotting, Leaving, Keeping
  <2>13. /\ StepOK(t) /\ EndsAreLast(dirs)'
         /\ \A E, j : \A c \in Clusters : Settled(E, j, c)' => Settled(E, j, c)
    BY <1>1, <2>8, <2>12, QuietStep
  <2>14. Owned' BY <1>1, <2>12, <2>13, OwnedStays DEF Accounts
  <2>15. Apart'
    <3>1. ASSUME NEW u \in Tasks, u # t, Working(u)'
          PROVE  /\ file'[u].dir = h.dir /\ file'[u].slot = h.slot
                      => ~ Writes(file'[u].mode) /\ ~ Writes(h.mode)
                 /\ ~ (h.isdir /\ file'[u].isdir /\ file'[u].object = h.object)
      <4>1. Working(u) /\ file'[u] = file[u] BY <2>8, <3>1 DEF Working, OthersStay
      <4>2. \A g \in Listed : ~ Conflicts(g, h) /\ ~ SharesDir(g, h) BY <1>6, <1>9, <2>2
      <4>3. ~ Noting(D, i) /\ h.dir = D /\ h.slot = i /\ h.object = dirs[D][i].cluster
        BY <1>5, <2>2, <2>3, <2>4
      <4>4. ASSUME file[u].dir = D, file[u].slot = i PROVE ~ Writes(file[u].mode) /\ ~ Writes(h.mode)
        BY <4>1, <4>2, <4>3, <4>4, SameEntry
      <4>5. ~ (h.isdir /\ file[u].isdir /\ file[u].object = h.object)
        BY <2>4, <4>1, <4>2, SameDirectory
      <4> QED BY <4>1, <4>3, <4>4, <4>5
    <3> SUFFICES ASSUME NEW v \in Tasks, NEW u \in Tasks, v # u, Working(v)', Working(u)'
                 PROVE  /\ SamePlace(v, u)' => ~ Writes(file'[v].mode)
                        /\ ~ (file'[v].isdir /\ file'[u].isdir /\ file'[v].object = file'[u].object)
      BY DEF Apart
    <3>2. CASE v = t BY <2>8, <3>1, <3>2 DEF SamePlace
    <3>3. CASE u = t BY <2>8, <3>1, <3>3 DEF SamePlace
    <3>4. CASE v # t /\ u # t
      <4>1. file'[v] = file[v] /\ file'[u] = file[u] /\ Working(v) /\ Working(u)
        BY <2>8, <3>4 DEF OthersStay, Working
      <4>2. SamePlace(v, u)' <=> SamePlace(v, u) BY <4>1 DEF SamePlace
      <4> QED BY <4>1, <4>2 DEF Good, Sound, Apart
    <3> QED BY <3>2, <3>3, <3>4
  <2>16. HandleNamed(t)'
    <3>1. Live(D, i)' BY <1>1, <2>4, <2>13, LiveKept
    <3>2. Live(file[t].dir, file[t].slot)'
      BY <1>5, <2>3, <2>8, <3>1 DEF Live, IsEntry, Place, Alive, Doomed
    <3>3. q.pc # "note" BY <2>6
    <3> QED BY <1>1, <1>5, <2>3, <2>4, <2>8, <3>2, <3>3 DEF HandleNamed
  <2>17. World(t)'
    <3>1. Emptied(q, h)' /\ Moved(q, h)' BY <2>6, <2>10 DEF Emptied, Moved, Moving
    <3> QED BY <2>6, <2>8, <2>10, <2>16
            DEF World, Unstarted, Planned, Begun, Emptied, Moved, Moving, Fresh, Creating, Dotting, Fn
  <2> QED BY <2>11, <2>13, <2>14, <2>15, <2>17, SoundStep DEF Mine
<1> QED BY <1>8, <1>9

-----------------------------------------------------------------------------
(* Who needs the directory lock has it since it looked at the directory.    *)

HasPc(o) == "pc" \in DOMAIN o

LEMMA OpHasPc == ASSUME NEW o, IsOp(o) PROVE HasPc(o)
BY DEF IsOp, HasPc

LEMMA PcOnly ==
  ASSUME NEW o, HasPc(o), NEW p, p \notin {"extend", "lfn", "entry", "erase", "unlink", "rmlfn"},
         NEW q, q = [o EXCEPT !.pc = p]
  PROVE  ~ Held(q)
<1>1. q.pc = p BY DEF HasPc
<1> QED BY <1>1 DEF Held

LEMMA IdleFree == ~ Held(Idle)
BY IdleIs DEF Held

LEMMA OpeningFree == ASSUME NEW o, HasPc(o) PROVE ~ Held(Opening(o))
<1>1. PICK r : r = [o EXCEPT !.dir = Root] OBVIOUS
<1>2. HasPc(r) BY <1>1 DEF HasPc
<1>3. PICK a, b : a = [o EXCEPT !.dir = Root, !.pc = "find"] /\ b = [o EXCEPT !.pc = "dir"] OBVIOUS
<1>4. a.pc = "find" /\ b.pc = "dir" BY <1>3 DEF HasPc
<1>5. ~ Held(a) /\ ~ Held(b) BY <1>4 DEF Held
<1> QED BY <1>3, <1>5 DEF Opening

LEMMA RefusedFree == ASSUME NEW o, HasPc(o), NEW why PROVE ~ Held(Refused(o, why))
<1>1. PICK a, b : a = [o EXCEPT !.phase = "src", !.goal = o.seen] /\ b = [o EXCEPT !.phase = "srcdir"]
  OBVIOUS
<1>2. HasPc(a) /\ HasPc(b) BY <1>1 DEF HasPc
<1>3. ~ Held(Opening(a)) /\ ~ Held(Opening(b)) BY <1>2, OpeningFree
<1> QED BY <1>1, <1>3, IdleFree DEF Refused

LEMMA AbsentFree == ASSUME NEW o, HasPc(o) PROVE ~ Held(Absent(o))
<1>1. ~ Held([o EXCEPT !.pc = "claim"]) BY PcOnly
<1> QED BY <1>1, RefusedFree DEF Absent

\* A step to where the lock is not needed, or from where it is had.
Goes(t) == \E q : Go(t, q) /\ (Held(q) => "DIR" \in Under(op[t]))

LEMMA GoesLocks ==
  ASSUME TInv, LocksOK, NEW t \in Tasks, Goes(t) PROVE LocksOK'
BY GoLocks DEF Goes

LEMMA ToGoes ==
  ASSUME TInv, NEW t \in Tasks, NEW p, p \notin {"extend", "lfn", "entry", "erase", "unlink", "rmlfn"}, To(t, p)
  PROVE  Goes(t)
<1>1. PICK o : o = op[t] OBVIOUS
<1>2. HasPc(o) BY <1>1, HasTask, OpHasPc DEF TaskOK
<1>3. ~ Held([o EXCEPT !.pc = p]) BY <1>2, PcOnly
<1> QED BY <1>1, <1>3 DEF To, Goes

\* Under the lock every step is one.
LEMMA UnderGoes ==
  ASSUME TInv, NEW t \in Tasks,
         \/ Plan(t) \/ Extend(t) \/ Unmade(t) \/ PutLfn(t) \/ PutNew(t) \/ Empty(t) \/ Quit(t)
         \/ RmLfn(t) \/ Erase(t)
  PROVE  Goes(t)
<1>1. op[t].pc \in {"plan", "extend", "unmade", "lfn", "entry", "empty", "quit", "rmlfn", "erase"}
  BY DEF Plan, Extend, Unmade, PutLfn, PutNew, Empty, Quit, RmLfn, Erase, At
<1>2. "DIR" \in Under(op[t]) BY <1>1 DEF Under, Locks
<1>3. \E q : Go(t, q)
  BY DEF Plan, Settle, Extend, Unmade, PutLfn, PutNew, Empty, Quit, RmLfn, Erase, To
<1> QED BY <1>2, <1>3 DEF Goes

LEMMA SeekGoes ==
  ASSUME TInv, NEW t \in Tasks, Start(t) \/ FindDir(t) \/ Leave(t) PROVE Goes(t)
<1>1. HasPc(op[t]) BY HasTask, OpHasPc DEF TaskOK
<1>2. HasPc(Idle) BY IdleOK, OpHasPc
<1>3. CASE Start(t)
  <2>1. PICK c : Go(t, Opening([Idle EXCEPT !.call = c, !.phase = IF c.fn = "move" THEN "dst" ELSE "only"]))
    BY <1>3 DEF Start
  <2>2. PICK p : p = IF c.fn = "move" THEN "dst" ELSE "only" OBVIOUS
  <2>3. PICK o : o = [Idle EXCEPT !.call = c, !.phase = p] OBVIOUS
  <2>4. HasPc(o) BY <1>2, <2>3 DEF HasPc
  <2>5. Go(t, Opening(o)) BY <2>1, <2>2, <2>3
  <2> QED BY <2>4, <2>5, OpeningFree DEF Goes
<1>4. CASE FindDir(t)
  <2>1. PICK D : D = DirOf(Path(op[t]).in) OBVIOUS
  <2>2. PICK q : q = [op[t] EXCEPT !.dir = D, !.pc = "find"] OBVIOUS
  <2>3. q.pc = "find" BY <1>1, <2>2 DEF HasPc
  <2>4. Go(t, q) \/ Go(t, Refused(op[t], "path")) BY <1>4, <2>1, <2>2 DEF FindDir
  <2>5. ~ Held(q) BY <2>3 DEF Held
  <2> QED BY <1>1, <2>4, <2>5, RefusedFree DEF Goes
<1>5. CASE Leave(t)
  <2>1. PICK a, b : a = [op[t] EXCEPT !.phase = "del"] /\ b = [op[t] EXCEPT !.phase = "src", !.goal = Nothing]
    OBVIOUS
  <2>2. HasPc(a) /\ HasPc(b) BY <1>1, <2>1 DEF HasPc
  <2>3. Go(t, Opening(a)) \/ Go(t, Opening(b)) \/ Go(t, Idle) BY <1>5, <2>1 DEF Leave
  <2> QED BY <2>2, <2>3, OpeningFree, IdleFree DEF Goes
<1> QED BY <1>3, <1>4, <1>5

LEMMA FindGoes ==
  ASSUME TInv, NEW t \in Tasks, Find(t) PROVE Goes(t)
<1>1. PICK p : p = op[t] OBVIOUS
<1>2. HasPc(p) BY <1>1, HasTask, OpHasPc DEF TaskOK
<1>3. PICK s, n : s = dirs[p.dir] /\ n = Path(p).name OBVIOUS
<1>4. PICK o : o = [p EXCEPT !.seen = Knowledge(p.dir, n), !.free = FirstRun(s, 0, 2),
                             !.checked = Checked(p.dir, n)]
  OBVIOUS
<1>5. \A k : HasPc([o EXCEPT !.free = 0, !.checked = k]) BY <1>2, <1>4 DEF HasPc
<1>6. HasPc(o) BY <1>2, <1>4 DEF HasPc
<1>7. \/ \E i \in Hits(s, n) : Found(t, o, i, s)
      \/ Go(t, Absent(o))
      \/ Phantom(t, o, s)
      \/ Unsized(t, o, s)
      \/ \E k : Go(t, IF Fn(o) = "mkdir" THEN Idle
                      ELSE Absent([o EXCEPT !.free = 0, !.checked = k]))
  BY <1>1, <1>3, <1>4 DEF Find
<1>8. ASSUME NEW i \in Hits(s, n), Found(t, o, i, s) PROVE Goes(t)
  <2>1. PICK e : e = [cluster |-> s[i].cluster, size |-> s[i].size, isdir |-> s[i].isdir] OBVIOUS
  <2>2. PICK q : q = [o EXCEPT !.pc = "join", !.slot = i, !.ent = e] OBVIOUS
  <2>3. q.pc = "join" BY <1>6, <2>2 DEF HasPc
  <2>4. ~ Held(q) BY <2>3 DEF Held
  <2>5. ~ Held([o EXCEPT !.pc = "claim"]) BY <1>6, PcOnly
  <2>6. Go(t, Idle) \/ Go(t, [o EXCEPT !.pc = "claim"]) \/ Go(t, Refused(o, "isdir")) \/ Go(t, q)
    BY <1>8, <2>1, <2>2 DEF Found
  <2> QED BY <1>6, <2>4, <2>5, <2>6, IdleFree, RefusedFree DEF Goes
<1>9. CASE Phantom(t, o, s)
  <2>1. CASE Go(t, Refused(o, "readonly")) BY <1>6, <2>1, RefusedFree DEF Goes
  <2>2. CASE ~ Go(t, Refused(o, "readonly"))
    <3>1. PICK l : l = EndFrom(s, 0) - 1 OBVIOUS
    <3>2. PICK c : Go(t, [o EXCEPT !.pc = "join", !.slot = l, !.ent.cluster = c])
      BY <1>9, <2>2, <3>1 DEF Phantom
    <3>3. PICK q : q = [o EXCEPT !.pc = "join", !.slot = l, !.ent.cluster = c] OBVIOUS
    <3>4. q.pc = "join" BY <1>6, <3>3 DEF HasPc
    <3>5. ~ Held(q) BY <3>4 DEF Held
    <3> QED BY <3>2, <3>3, <3>5 DEF Goes
  <2> QED BY <2>1, <2>2
<1>10. ASSUME NEW k, NEW o2, o2 = [o EXCEPT !.free = 0, !.checked = k],
              Go(t, IF Fn(o) = "mkdir" THEN Idle ELSE Absent(o2))
       PROVE  Goes(t)
  BY <1>5, <1>10, AbsentFree, IdleFree DEF Goes
<1>11. CASE Unsized(t, o, s)
  <2>1. PICK i, c : Go(t, [o EXCEPT !.pc = "join", !.slot = i, !.ent.cluster = c])
    BY <1>11 DEF Unsized
  <2>2. PICK q : q = [o EXCEPT !.pc = "join", !.slot = i, !.ent.cluster = c] OBVIOUS
  <2>3. q.pc = "join" BY <1>6, <2>2 DEF HasPc
  <2>4. ~ Held(q) BY <2>3 DEF Held
  <2> QED BY <2>1, <2>2, <2>4 DEF Goes
<1> QED BY <1>6, <1>7, <1>8, <1>9, <1>10, <1>11, AbsentFree DEF Goes

LEMMA MakeGoes ==
  ASSUME TInv, NEW t \in Tasks, Claim(t) \/ Undo(t) \/ MakeDots(t) \/ Target(t) \/ Relock(t)
  PROVE  Goes(t)
<1>1. PICK o : o = op[t] OBVIOUS
<1>2. HasPc(o) BY <1>1, HasTask, OpHasPc DEF TaskOK
<1>3. CASE Claim(t)
  <2>1. PICK c : c = Least(FreeClusters) OBVIOUS
  <2>2. PICK a, b : a = [o EXCEPT !.new = c, !.pc = "plan"] /\ b = [o EXCEPT !.new = c, !.pc = "undo"]
    OBVIOUS
  <2>3. a.pc = "plan" /\ b.pc = "undo" BY <1>2, <2>2 DEF HasPc
  <2>4. Go(t, a) \/ Go(t, b) \/ Go(t, Idle) BY <1>1, <1>3, <2>1, <2>2 DEF Claim, Lose
  <2>5. ~ Held(a) /\ ~ Held(b) BY <2>3 DEF Held
  <2> QED BY <2>4, <2>5, IdleFree DEF Goes
<1>4. CASE Undo(t) BY <1>4, IdleFree DEF Undo, Goes
<1>5. CASE MakeDots(t)
  <2>1. To(t, "dotdot") \/ Go(t, Idle) \/ To(t, "undo") BY <1>5 DEF MakeDots
  <2> QED BY <2>1, ToGoes, IdleFree DEF Goes
<1>6. CASE Target(t)
  <2>1. PICK D : D = IF o.call.to.in = "" THEN Root ELSE DirOf(o.call.to.in) OBVIOUS
  <2>2. PICK q : q = [o EXCEPT !.dir = D, !.free = 0, !.checked = "no", !.seen = o.goal, !.pc = "plan"]
    OBVIOUS
  <2>3. q.pc = "plan" BY <1>2, <2>2 DEF HasPc
  <2>4. Go(t, q) \/ To(t, "leave") BY <1>1, <1>6, <2>1, <2>2 DEF Target
  <2>5. ~ Held(q) BY <2>3 DEF Held
  <2> QED BY <2>4, <2>5, ToGoes DEF Goes
<1>7. CASE Relock(t)
  <2>1. PICK q : q = [o EXCEPT !.pc = "rmlfn"] OBVIOUS
  <2>2. Fn(o) = "move" BY <1>1, <1>7, HasTask DEF Relock, At, TaskOK, FnsAt, AtPlace
  <2>3. q.pc = "rmlfn" /\ Fn(q) = Fn(o) BY <1>1, <2>1, HasTask, PcIs DEF TaskOK
  <2>4. ~ Held(q) BY <2>2, <2>3 DEF Held
  <2> QED BY <1>1, <1>7, <2>1, <2>4 DEF Relock, To, Goes
<1> QED BY <1>3, <1>4, <1>5, <1>6, <1>7

\* FF_RmDir has both locks when it frees the directory.
LEMMA RemoveGoes ==
  ASSUME TInv, NEW t \in Tasks, Join(t) \/ Unlink(t) PROVE Goes(t)
<1>1. PICK o : o = op[t] OBVIOUS
<1>2. IsOp(o) /\ HasPc(o) /\ AtPlace(o, file[t] # NoFile) /\ FnsAt(o) BY <1>1, HasTask, OpHasPc DEF TaskOK
<1>3. CASE Join(t)
  <2>1. Fn(o) # "mkdir" BY <1>1, <1>2, <1>3 DEF Join, At, FnsAt
  <2>2. PICK h : h = NewHandle(o) OBVIOUS
  <2>3. PICK q : q = AfterJoin(o, h) OBVIOUS
  <2>4. Go(t, Refused(o, "busy")) \/ Go(t, q) BY <1>1, <1>3, <2>2, <2>3 DEF Join, AfterJoin
  <2>5. ~ Held(q)
    <3>1. \/ q.pc = "idle"
          \/ /\ q.pc \in {"empty", "unlink", "rmlfn", "leave", "target"}
             /\ Fn(q) = Fn(o) /\ q.phase = o.phase
             /\ q.pc \in {"unlink", "rmlfn"} => Fn(o) # "rmdir" /\ Removes(o)
      BY <1>2, <2>1, <2>3, AfterJoinIs
    <3>2. o.phase # "only" <=> Fn(o) = "move" BY <1>2 DEF AtPlace
    <3> QED BY <3>1, <3>2 DEF Held, Removes
  <2> QED BY <1>2, <2>4, <2>5, RefusedFree DEF Goes
<1>4. CASE Unlink(t)
  <2>1. op[t].pc = "unlink" /\ Removes(o) BY <1>1, <1>2, <1>4 DEF Unlink, At, FnsAt
  <2>2. To(t, "rmlfn") \/ To(t, "quit") \/ Go(t, Idle) BY <1>4 DEF Unlink
  <2>3. CASE To(t, "rmlfn")
    <3>1. PICK q : q = [o EXCEPT !.pc = "rmlfn"] OBVIOUS
    <3>2. q.pc = "rmlfn" /\ Fn(q) = Fn(o) /\ q.phase = o.phase BY <1>2, <3>1, PcIs
    <3>3. o.phase # "only" <=> Fn(o) = "move" BY <1>2 DEF AtPlace
    <3>4. Held(q) => Fn(o) = "rmdir" BY <2>1, <3>2, <3>3 DEF Held, Removes
    <3>5. Fn(o) = "rmdir" => "DIR" \in Under(op[t]) BY <1>1, <2>1 DEF Under, Locks
    <3> QED BY <1>1, <2>3, <3>1, <3>4, <3>5 DEF To, Goes
  <2> QED BY <2>2, <2>3, ToGoes, IdleFree DEF Goes
<1> QED BY <1>3, <1>4

LEMMA HandleGoes ==
  ASSUME TInv, NEW t \in Tasks,
         Write(t) \/ Close(t) \/ Grow(t) \/ Enter(t) \/ Note(t) \/ Cut(t) \/ Detach(t) \/ PutSize(t)
  PROVE  Goes(t)
<1>1. HasPc(op[t]) BY HasTask, OpHasPc DEF TaskOK
<1>2. CASE Enter(t) \/ Note(t) \/ Cut(t) \/ Detach(t) \/ PutSize(t)
  <2>1. To(t, "note") \/ To(t, "size") \/ To(t, "detach") \/ To(t, "leave") \/ Go(t, Idle)
    BY <1>2 DEF Enter, Note, Cut, Detach, PutSize
  <2> QED BY <2>1, ToGoes, IdleFree DEF Goes
<1>3. CASE Grow(t)
  <2>1. PICK c : c = Least(FreeClusters) OBVIOUS
  <2>2. PICK q : q = [op[t] EXCEPT !.new = c, !.pc = "enter"] OBVIOUS
  <2>3. q.pc = "enter" BY <1>1, <2>2 DEF HasPc
  <2>4. Go(t, q) \/ Go(t, Idle) BY <1>3, <2>1, <2>2 DEF Grow, Lose
  <2>5. ~ Held(q) BY <2>3 DEF Held
  <2> QED BY <2>4, <2>5, IdleFree DEF Goes
<1>4. CASE Write(t) \/ Close(t)
  <2>1. Go(t, Idle) \/ \E fn : \E p \in {"grow", "leave", "cut", "size"} : Begin(t, fn, p)
    BY <1>4 DEF Write, Close
  <2>2. ASSUME NEW fn, NEW p \in {"grow", "leave", "cut", "size"}, Begin(t, fn, p) PROVE Goes(t)
    <3>1. PICK q : q = [Idle EXCEPT !.call.fn = fn, !.pc = p] OBVIOUS
    <3>2. q.pc = p BY <3>1, BeginIs
    <3>3. ~ Held(q) BY <3>2 DEF Held
    <3> QED BY <2>2, <3>1, <3>3 DEF Begin, Goes
  <2> QED BY <2>1, <2>2, IdleFree DEF Goes
<1> QED BY <1>2, <1>3, <1>4

LEMMA NextLocks ==
  ASSUME TInv, LocksOK, [Next]_vars PROVE LocksOK'
<1>1. ASSUME NEW t \in Tasks, Start(t) \/ Write(t) \/ Close(t) PROVE LocksOK'
  BY <1>1, SeekGoes, HandleGoes, GoesLocks
<1>2. ASSUME NEW t \in Tasks, Continue(t) PROVE LocksOK'
  <2>1. CASE (WaitBits(t) \/ ClearBits(t)) /\ UNCHANGED nameVars BY <2>1, WaitLocks DEF nameVars
  <2>2. CASE ~ ((WaitBits(t) \/ ClearBits(t)) /\ UNCHANGED nameVars)
    <3>1. Goes(t)
      BY <1>2, <2>2, SeekGoes, UnderGoes, FindGoes, MakeGoes, RemoveGoes, HandleGoes DEF Continue
    <3> QED BY <3>1, GoesLocks
  <2> QED BY <2>1, <2>2
<1>3. CASE UNCHANGED vars
  <2>1. op' = op /\ has' = has /\ asks' = asks BY <1>3 DEF vars, nameVars, lockVars
  <2> QED BY <2>1 DEF LocksOK, Held, Under, Fn
<1> QED BY <1>1, <1>2, <1>3 DEF Next, Finished

-----------------------------------------------------------------------------
(* Every step.                                                              *)

\* How tasks have acted on what was no longer so is not forgotten.
LEMMA StraysStay ==
  ASSUME [Next]_vars PROVE strays \subseteq strays'
<1>1. ASSUME NEW t \in Tasks, Start(t) \/ Write(t) \/ Close(t) PROVE strays \subseteq strays'
  BY <1>1 DEF Start, Write, Close
<1>2. ASSUME NEW t \in Tasks, FindDir(t) \/ Claim(t) \/ Plan(t) \/ Extend(t) \/ Unmade(t)
      PROVE  strays \subseteq strays'
  BY <1>2 DEF FindDir, Claim, Plan, Extend, Unmade, Stray
<1>3. ASSUME NEW t \in Tasks, Find(t) PROVE strays \subseteq strays'
  <2>1. PICK s, n, o : \/ \E i \in Hits(s, n) : Found(t, o, i, s)
                       \/ strays' = strays
                       \/ Phantom(t, o, s)
                       \/ \E S : Stray(S)
    BY <1>3 DEF Find
  <2>2. ASSUME NEW i, Found(t, o, i, s) PROVE strays \subseteq strays'
    BY <2>2 DEF Found, Stray
  <2>3. CASE Phantom(t, o, s) BY <2>3 DEF Phantom, Stray
  <2> QED BY <2>1, <2>2, <2>3 DEF Stray
<1>4. ASSUME NEW t \in Tasks, PutLfn(t) \/ PutNew(t) \/ Undo(t) \/ MakeDots(t)
      PROVE  strays \subseteq strays'
  BY <1>4 DEF PutLfn, PutNew, Undo, MakeDots, Stray
<1>5. ASSUME NEW t \in Tasks, Join(t) \/ Empty(t) \/ Unlink(t) \/ Quit(t) \/ RmLfn(t) \/ Erase(t)
      PROVE  strays \subseteq strays'
  BY <1>5 DEF Join, Empty, Unlink, Quit, RmLfn, Erase, Stray
<1>6. ASSUME NEW t \in Tasks, Target(t) \/ Leave(t) \/ Grow(t) \/ Enter(t) PROVE strays \subseteq strays'
  BY <1>6 DEF Target, Leave, Grow, Enter, Stray
<1>7. ASSUME NEW t \in Tasks, Relock(t) \/ Note(t) \/ Cut(t) \/ Detach(t) \/ PutSize(t)
      PROVE  strays \subseteq strays'
  BY <1>7 DEF Relock, Note, Cut, Detach, PutSize, Stray
<1>8. CASE UNCHANGED nameVars BY <1>8 DEF nameVars
<1> QED BY <1>1, <1>2, <1>3, <1>4, <1>5, <1>6, <1>7, <1>8 DEF Next, Continue, Finished, vars

\* Who waits for a lock changes nothing of it.
LEMMA SameWorld ==
  ASSUME NEW t \in Tasks, Locals(op[t], file[t]), World(t),
         dirs' = dirs, op' = op, file' = file
  PROVE  (Locals(op[t], file[t]) /\ World(t))'
<1>1. Locals(op[t], file[t])'
  BY DEF Locals, HandleFits, SoughtOK, NestedOK, Creating, Mode, Fn
<1>2. \A D : Alive(D)' = Alive(D) BY DEF Alive, Doomed
<1>3. \A D, i : Live(D, i)' = Live(D, i) /\ IsEntry(D, i)' = IsEntry(D, i) /\ Place(D, i)' = Place(D, i)
  BY <1>2 DEF Live, IsEntry, Place
<1>4. HandleNamed(t)'
  <2>1. Working(t)' = Working(t) /\ Live(file[t].dir, file[t].slot)' = Live(file[t].dir, file[t].slot)
    BY <1>2 DEF Working, Live, IsEntry, Place, Alive, Doomed
  <2> QED BY <2>1 DEF World, HandleNamed
<1>5. Unstarted(op[t])' /\ Planned(op[t])'
  <2>1. Unstarted(op[t])' BY DEF World, Unstarted
  <2>2. Unfinished(op[t].dir)' = Unfinished(op[t].dir) BY DEF Unfinished
  <2> QED BY <2>1, <2>2 DEF World, Planned, Begun, FreeAt, Place
<1>6. Emptied(op[t], file[t])' BY DEF World, Emptied, IsEntry, Place, Fn
<1>7. Moved(op[t], file[t])' BY DEF World, Moved, Moving, IsEntry, Place, Fn
<1>8. Fresh(t)'
  <2>1. Alive(op[t].new)' = Alive(op[t].new) BY DEF Alive, Doomed
  <2> QED BY <2>1 DEF World, Fresh, Creating, Dotting, Fn
<1> QED BY <1>1, <1>4, <1>5, <1>6, <1>7, <1>8 DEF World

LEMMA SameSound ==
  ASSUME Sound, dirs' = dirs, used' = used, part' = part, op' = op, file' = file PROVE Sound'
<1>1. ASSUME NEW t \in Tasks PROVE (Locals(op[t], file[t]) /\ World(t))'
  BY SameWorld DEF Sound
<1>2. EndsAreLast(dirs)' /\ DirsAreInRoot(dirs)' BY DEF Sound, EndsAreLast, DirsAreInRoot
<1>3. Apart' BY DEF Sound, Apart, Working, SamePlace
<1>4. ASSUME NEW c \in Clusters PROVE OwnedOne(c)'
  <2>1. \A D : Alive(D)' = Alive(D) BY DEF Alive, Doomed
  <2>2. \A D, i : Settled(D, i, c)' = Settled(D, i, c)
    BY <2>1 DEF Settled, Live, IsEntry, Place, Parting
  <2>3. \A t : Holds(t, c)' = Holds(t, c) BY DEF Holds
  <2>4. OwnedOne(c) BY DEF Sound, Owned
  <2> QED BY <2>2, <2>3, <2>4 DEF OwnedOne
<1> QED BY <1>1, <1>2, <1>3, <1>4 DEF Sound, Owned

\* A step of a task in its program, not one that waits for a lock.
Acts(t) ==
  \/ Start(t) \/ Write(t) \/ Close(t)
  \/ FindDir(t) \/ Find(t) \/ Claim(t) \/ Plan(t) \/ Extend(t) \/ Unmade(t) \/ PutLfn(t)
  \/ PutNew(t) \/ Undo(t) \/ MakeDots(t) \/ Join(t) \/ Empty(t) \/ Unlink(t) \/ Quit(t)
  \/ Relock(t) \/ RmLfn(t) \/ Erase(t) \/ Target(t) \/ Leave(t)
  \/ Grow(t) \/ Enter(t) \/ Note(t) \/ Cut(t) \/ Detach(t) \/ PutSize(t)

LEMMA SomebodyActs == [Next]_vars => (\E t \in Tasks : Acts(t)) \/ UNCHANGED nameVars
BY DEF Next, Continue, Finished, vars, Acts

LEMMA StepSound ==
  ASSUME Good, TInv', [Next]_vars, strays' = {}
  PROVE  Sound' /\ ((\E t \in Tasks : Acts(t) /\ StepOK(t)) \/ UNCHANGED <<dirs, used, part, op, file>>)
<1>1. ASSUME NEW t \in Tasks, Start(t) \/ Write(t) \/ Close(t) PROVE StepOK(t) /\ Sound'
  BY <1>1, StartSound, WriteSound, CloseSound
<1>2. ASSUME NEW t \in Tasks, FindDir(t) \/ Find(t) \/ Plan(t) \/ Undo(t) \/ Join(t) \/ Empty(t)
      PROVE  StepOK(t) /\ Sound'
  BY <1>2, FindDirSound, FindSound, PlanSound, UndoSound, JoinSound, EmptySound
<1>3. ASSUME NEW t \in Tasks, Unlink(t) \/ Quit(t) \/ Target(t) \/ Leave(t) \/ Grow(t) \/ Note(t) \/ Cut(t)
      PROVE  StepOK(t) /\ Sound'
  BY <1>3, UnlinkSound, QuitSound, TargetSound, LeaveSound, GrowSound, NoteSound, CutSound
<1>4. ASSUME NEW t \in Tasks, Claim(t) \/ PutLfn(t) \/ PutNew(t) \/ MakeDots(t) \/ RmLfn(t) \/ Erase(t)
                              \/ Enter(t) \/ Detach(t) \/ PutSize(t) \/ Extend(t) \/ Unmade(t) \/ Relock(t)
      PROVE  StepOK(t) /\ Sound'
  BY <1>4, ClaimSound, PutLfnSound, PutNewSound, MakeDotsSound, RmLfnSound, EraseSound, EnterSound,
     DetachSound, PutSizeSound, ExtendSound, UnmadeSound, RelockSound
<1>5. ASSUME NEW t \in Tasks, Acts(t) PROVE StepOK(t) /\ Sound'
  BY <1>1, <1>2, <1>3, <1>4, <1>5 DEF Acts
<1>6. CASE UNCHANGED nameVars
  <2>1. dirs' = dirs /\ used' = used /\ part' = part /\ op' = op /\ file' = file BY <1>6 DEF nameVars
  <2> QED BY <2>1, SameSound DEF Good
<1> QED BY <1>5, <1>6, SomebodyActs

LEMMA InitNInv == Init => NInv
<1> SUFFICES ASSUME Init PROVE NInv OBVIOUS
<1>1. TInv BY InitTypes
<1>2. \A t \in Tasks : op[t] = Idle /\ file[t] = NoFile BY DEF Init
<1>3. LocksOK
  <2>1. \A t \in Tasks : has[t] = {} /\ asks[t] = {} BY DEF Init, LockInit
  <2>2. Under(Idle) = {} BY IdleIs DEF Under
  <2> QED BY <1>2, <2>1, <2>2, IdleFree DEF LocksOK
<1>4. PICK v \in Starts : dirs = v.dirs /\ used = v.used BY DEF Init
<1>5. PICK reached : reached = {Root} \cup {dirs[Root][i].cluster :
                                  i \in {j \in Entries(dirs[Root]) : dirs[Root][j].isdir}}
  OBVIOUS
<1>6. /\ EndsAreLast(dirs) /\ DirsAreInRoot(dirs)
      /\ \A D, E \in reached \cap DOMAIN dirs : \A i \in Entries(dirs[D]), j \in Entries(dirs[E]) :
           /\ dirs[D][i].cluster = dirs[E][j].cluster =>
                dirs[D][i].cluster = 0 \/ (D = E /\ i = j)
           /\ dirs[D][i].cluster # 0 => dirs[D][i].cluster \in used
  BY <1>4, <1>5, StartsAssumption
<1>7. ASSUME NEW c \in Clusters PROVE OwnedOne(c)
  <2>1. c # 0 BY NamesAssumption
  <2>2. ASSUME NEW D, NEW i, Settled(D, i, c)
        PROVE  D \in reached \cap DOMAIN dirs /\ i \in Entries(dirs[D]) /\ dirs[D][i].cluster = c
    <3>1. D \in DOMAIN dirs /\ Alive(D) /\ IsEntry(D, i) /\ dirs[D][i].cluster = c
      BY <2>2 DEF Settled, Live, IsEntry, Place
    <3>2. D \in reached BY <1>5, <3>1 DEF Alive
    <3> QED BY <1>1, <1>6, <3>1, <3>2, EntriesAre
  <2>3. \A t \in Tasks : ~ Holds(t, c) BY <1>2, IdleIs DEF Holds, Keeping
  <2>4. part[c] = 0 /\ 0 \notin Clusters BY NamesAssumption DEF Init
  <2>5. ASSUME NEW D, NEW i, Settled(D, i, c)
        PROVE  c \in used /\ \A E, j : Settled(E, j, c) => D = E /\ i = j
    BY <1>6, <2>1, <2>2, <2>5
  <2> QED BY <2>3, <2>4, <2>5 DEF OwnedOne
<1>8. ASSUME NEW t \in Tasks PROVE Locals(op[t], file[t]) /\ World(t)
  <2>1. op[t].pc = "idle" /\ Fn(op[t]) = "none" /\ file[t] = NoFile BY <1>2, IdleIs
  <2>2. Locals(op[t], file[t]) BY <2>1 DEF Locals, HandleFits, SoughtOK, NestedOK
  <2>3. World(t)
    BY <2>1 DEF World, HandleNamed, Working, Unstarted, Planned, Begun, Emptied, Moved, Moving, Fresh, Creating, Dotting
  <2> QED BY <2>2, <2>3
<1>9. Apart BY <1>2 DEF Apart, Working
<1> QED BY <1>1, <1>3, <1>6, <1>7, <1>8, <1>9 DEF NInv, Sound, Owned

LEMMA NextNInv == NInv /\ [Next]_vars => NInv'
<1> SUFFICES ASSUME NInv, [Next]_vars PROVE NInv' OBVIOUS
<1>1. TInv /\ LocksOK BY DEF NInv
<1>2. TInv' BY <1>1, NextTypes
<1>3. LocksOK' BY <1>1, NextLocks
<1>4. ASSUME strays' = {} PROVE Sound'
  <2>1. strays = {} BY <1>4, StraysStay
  <2>2. Good BY <2>1 DEF NInv, Good
  <2> QED BY <1>2, <1>4, <2>2, StepSound
<1> QED BY <1>2, <1>3, <1>4 DEF NInv

\* As long as nobody has acted on what was no longer so, whoever has a file open for
\* writing, removes it or moves it has it alone: FF_Open sees every handle, however the
\* opens, closes, creations and removals of the tasks interleave.
THEOREM NamesOneWriter == Spec => []OneWriter
<1>1. NInv => OneWriter BY DEF NInv, Sound, Apart, Working, SamePlace, IsOpen, OneWriter
<1> QED BY <1>1, InitNInv, NextNInv, PTL DEF Spec

\* As long as nobody has, the entry of a file that a program has open stays where its
\* handle says, in a directory that a path leads to, and names its cluster.
THEOREM NamesKeepEntries == Spec => []OpenFilesKeepTheirEntry
<1>1. NInv => OpenFilesKeepTheirEntry
  <2> SUFFICES ASSUME NInv, strays = {}, NEW t \in Tasks, IsOpen(t), op[t].pc \in {"idle", "grow", "size"}
               PROVE  /\ Alive(file[t].dir) /\ file[t].slot \in Entries(dirs[file[t].dir])
                      /\ dirs[file[t].dir][file[t].slot].cluster = file[t].object
    BY DEF OpenFilesKeepTheirEntry
  <2>1. TInv /\ EndsAreLast(dirs) /\ World(t) BY DEF NInv, Sound
  <2>2. Working(t) BY DEF Working, IsOpen
  <2>3. /\ Live(file[t].dir, file[t].slot)
        /\ dirs[file[t].dir][file[t].slot].cluster = file[t].object
    BY <2>1, <2>2 DEF World, HandleNamed
  <2>4. file[t].dir \in DOMAIN dirs BY <2>3 DEF Live, IsEntry, Place
  <2> QED BY <2>1, <2>3, <2>4, EntriesAre DEF Live
<1> QED BY <1>1, InitNInv, NextNInv, PTL DEF Spec

\* A step writes only to slots that are free, to the entry of its own handle and, where
\* it removes something, to deleted entries and long names.
LEMMA EffectIs ==
  ASSUME Good, NEW t \in Tasks, Effect(t), NEW D, Alive(D), NEW i, Place(D, i),
         NEW old, old = dirs[D][i], NEW new, new = dirs'[D][i]
  PROVE  \/ old.kind \in {"end", "deleted"} \/ new \in {old, Deleted}
         \/ old.kind = "entry" /\ new.kind = "entry" /\ old.alias = new.alias
<1>1. ~ Blanked(t, D, i) BY NotBlanked
<1>2. CASE Written(t, D, i)
  <2>1. op[t].pc \in {"enter", "detach", "size"} /\ AtFile(t, D, i) BY <1>2 DEF Written
  <2>2. Strong(t) /\ HandleNamed(t) BY <2>1, Strongs, GoodTask DEF World
  <2>3. IsEntry(D, i) BY <2>1, <2>2 DEF HandleNamed, Strong, AtFile, Live
  <2> QED BY <1>2, <2>3 DEF Written, IsEntry
<1> QED BY <1>1, <1>2 DEF Effect, Filled, Dotted, FreeAt, Dropped, Erased

\* However old the place is that a creator remembers from its search, no slot in use is
\* changed but by deleting it or by the holder of its entry.
THEOREM NamesOverwriteNothing == Spec => NothingLiveIsOverwritten
<1>1. NInv /\ [Next]_vars =>
        [strays' = {} => \A D \in {E \in DOMAIN dirs : Alive(E)} : \A i \in DOMAIN dirs[D] :
           LET old == dirs[D][i]
               new == dirs'[D][i]
           IN  \/ old.kind \in {"end", "deleted"} \/ new \in {old, Deleted}
               \/ old.kind = "entry" /\ new.kind = "entry" /\ old.alias = new.alias]_vars
  <2> SUFFICES ASSUME NInv, [Next]_vars, strays' = {}, NEW D \in DOMAIN dirs, Alive(D),
                      NEW i \in DOMAIN dirs[D],
                      NEW old, old = dirs[D][i], NEW new, new = dirs'[D][i]
               PROVE  \/ old.kind \in {"end", "deleted"} \/ new \in {old, Deleted}
                      \/ old.kind = "entry" /\ new.kind = "entry" /\ old.alias = new.alias
    OBVIOUS
  <2>1. strays = {} BY StraysStay
  <2>2. Good BY <2>1 DEF NInv, Good
  <2>3. TInv' BY NextTypes DEF NInv
  <2>4. dirs' = dirs \/ \E t \in Tasks : Effect(t) BY <2>2, <2>3, StepSound DEF StepOK
  <2>5. Place(D, i) BY DEF Place
  <2> QED BY <2>2, <2>4, <2>5, EffectIs
<1> QED BY <1>1, InitNInv, NextNInv, PTL DEF Spec, NothingLiveIsOverwritten

\* Whatever tasks do at once and whatever fails, no two wait for a lock that the other
\* has: who needs both locks has the directory before it asks for the FAT.
THEOREM NamesNeverDeadlock == Spec => []NobodyWaitsInACircle
<1>1. NInv => NobodyWaitsInACircle
  <2> SUFFICES ASSUME NInv, NEW t \in Tasks, NEW u \in Tasks, NEW x \in has[t], x \in asks[u],
                      NEW y \in has[u], y \in asks[t]
               PROVE  FALSE
    BY DEF NobodyWaitsInACircle
  <2>1. LockInv BY DEF NInv, TInv
  <2>2. t # u BY <2>1 DEF LockInv, AsksAreSound
  <2>3. x # y BY <2>1, <2>2 DEF LockInv, Exclusive, AsksAreSound
  <2>4. x \in Under(op[t]) /\ y \in Under(op[t]) /\ x \in Under(op[u]) /\ y \in Under(op[u])
    BY DEF NInv, LocksOK
  <2>5. \A o : x \in Under(o) /\ y \in Under(o) => Held(o) BY <2>3 DEF Under, Held
  <2>6. Held(op[t]) /\ Held(op[u]) BY <2>4, <2>5
  <2> QED BY <2>2, <2>6, HeldAlone DEF NInv
<1> QED BY <1>1, InitNInv, NextNInv, PTL DEF Spec

-----------------------------------------------------------------------------
(* No cluster is lost, as long as nothing fails either.                    *)

Owner(c) == (\E D, i : Settled(D, i, c)) \/ (\E t \in Tasks : Holds(t, c)) \/ part[c] # 0
Kept == \A c \in used : Owner(c)

\* What a step without a fault does with clusters.  Who begins to remove an entry has
\* freed its cluster, or has made another entry for it;
MadeEntry(t) ==
  /\ op[t].pc = "entry" /\ FreeAt(op[t].dir, op[t].slot) /\ Alive(op[t].dir)
  /\ dirs'[op[t].dir][op[t].slot] = NewEntry(t) /\ file'[t] = file[t]
  /\ Fn(op[t]) # "move" => op'[t].pc \notin Leaving
Parts(t) ==
  op'[t].pc \in Leaving =>
    \/ op[t].pc \in Leaving /\ file'[t] = file[t]
    \/ file'[t].object \notin used'
    \/ MadeEntry(t) /\ Fn(op[t]) = "move"
\* who has a cluster keeps it, gives it to an entry or frees it;
Hands(t) ==
  op[t].pc \in Keeping /\ op[t].new \in used' =>
    \/ op'[t].pc \in Keeping /\ op'[t].new = op[t].new
    \/ MadeEntry(t) /\ Fn(op[t]) \in {"open", "mkdir"}
    \/ /\ op[t].pc = "enter" /\ op'[t].pc = "note" /\ op'[t].new = op[t].new
       /\ file'[t] = file[t]
\* who claims one has it or gives it a part.
Claims(t) ==
  /\ \A c \in used' \ used : (op'[t].pc \in Keeping /\ op'[t].new = c) \/ part'[c] # 0
  /\ \A c \in used' : c \in Clusters /\ part[c] # 0 => part'[c] # 0
Minds(t) == Parts(t) /\ Hands(t) /\ Claims(t)

\* An entry that nobody was removing is removed by the task that begins it.
LEMMA PartingNew ==
  ASSUME NEW t \in Tasks, OthersStay(t), NEW D, NEW i, ~ Parting(D, i), Parting(D, i)'
  PROVE  /\ op'[t].pc \in Leaving /\ file'[t].dir = D /\ file'[t].slot = i
         /\ ~ (op[t].pc \in Leaving /\ file'[t] = file[t])
<1>1. PICK u \in Tasks : op'[u].pc \in Leaving /\ file'[u].dir = D /\ file'[u].slot = i
  BY DEF Parting
<1>2. CASE u # t BY <1>1, <1>2 DEF OthersStay, Parting
<1>3. CASE u = t BY <1>1, <1>3 DEF Parting
<1> QED BY <1>2, <1>3

\* The tasks know of their handles after the step, too.
StrongNamed == \A t \in Tasks : /\ HandleNamed(t)
                                /\ op[t].pc \in Leaving => Strong(t)

LEMMA StrongsNamed == Good => StrongNamed
<1> SUFFICES ASSUME Good PROVE StrongNamed OBVIOUS
<1>1. ASSUME NEW t \in Tasks PROVE HandleNamed(t) /\ (op[t].pc \in Leaving => Strong(t))
  <2>1. HandleNamed(t) BY GoodTask DEF World
  <2>2. op[t].pc \in Leaving => Strong(t) BY Strongs DEF Leaving
  <2> QED BY <2>1, <2>2
<1> QED BY <1>1 DEF StrongNamed

\* What is put in a free slot is an entry that nobody removes.
LEMMA MadeSettled ==
  ASSUME Good, TInv', Sound', NEW t \in Tasks, StepOK(t), MadeEntry(t), NEW c, c = NewEntry(t).cluster
  PROVE  \E D, i : Settled(D, i, c)'
<1>1. PICK D, i : D = op[t].dir /\ i = op[t].slot OBVIOUS
<1>2. FreeAt(D, i) /\ Alive(D) /\ dirs'[D][i] = NewEntry(t) /\ op[t].pc = "entry"
  BY <1>1 DEF MadeEntry
<1>3. NewEntry(t).kind = "entry" BY <1>2, NewEntryIs
<1>4. IsEntry(D, i)' BY <1>2, <1>3, SamePlaces DEF IsEntry, FreeAt, Good
<1>5. EndsAreLast(dirs)' /\ ~ Dooming(t) BY <1>2 DEF Sound, Dooming
<1>6. Alive(D)' BY <1>2, <1>5, AliveKept
<1>7. Live(D, i)' BY <1>4, <1>6 DEF Live
<1>8. \A u \in Tasks : Working(u) => ~ (file[u].dir = D /\ file[u].slot = i)
  BY <1>2, GoodTask DEF World, HandleNamed, Live, IsEntry, FreeAt
<1>9. ~ Parting(D, i)
  <2> SUFFICES ASSUME NEW u \in Tasks, op[u].pc \in Leaving, file[u].dir = D, file[u].slot = i
               PROVE FALSE
    BY DEF Parting
  <2>1. Strong(u) BY Strongs DEF Leaving
  <2> QED BY <1>8, <2>1 DEF Strong
<1>10. ~ Parting(D, i)'
  <2> SUFFICES ASSUME Parting(D, i)' PROVE FALSE OBVIOUS
  <2>1. op'[t].pc \in Leaving /\ file'[t].dir = D /\ file'[t].slot = i
    BY <1>9, PartingNew DEF StepOK
  <2>2. Fn(op[t]) = "move" /\ file'[t] = file[t] BY <2>1 DEF MadeEntry
  <2>3. Working(t) BY <1>2, <2>2, NewEntryIs
  <2> QED BY <1>8, <2>1, <2>2, <2>3
<1>11. Settled(D, i, c)' BY <1>2, <1>7, <1>10 DEF Settled
<1> QED BY <1>11

\* The entry of a cluster stays, or the cluster goes to another one or is freed.
LEMMA SettledStays ==
  ASSUME Good, TInv', Sound', StrongNamed', NEW t \in Tasks, StepOK(t), Parts(t),
         NEW c \in Clusters, c \in used', NEW D, NEW i, Settled(D, i, c)
  PROVE  \E E, j : Settled(E, j, c)'
<1>1. Live(D, i) /\ dirs[D][i].cluster = c /\ ~ Parting(D, i) BY DEF Settled
<1>2. ~ (op[t].pc \in Leaving /\ AtFile(t, D, i)) BY <1>1 DEF Parting, AtFile
<1>3. EndsAreLast(dirs)' BY DEF Sound
<1>4. ~ (op[t].pc = "enter" /\ AtFile(t, D, i))
  <2> SUFFICES ASSUME op[t].pc = "enter", AtFile(t, D, i) PROVE FALSE OBVIOUS
  <2>1. Strong(t) /\ HandleNamed(t) /\ HandleFits(op[t], file[t])
    BY Strongs, GoodTask DEF World, Locals
  <2>2. c = 0 BY <1>1, <2>1 DEF Strong, HandleNamed, HandleFits, AtFile, Working
  <2> QED BY <2>2, NamesAssumption
<1>5. Live(D, i)' /\ dirs'[D][i].cluster = c
  BY <1>1, <1>2, <1>3, <1>4, LiveKept DEF Leaving
<1>6. CASE ~ Parting(D, i)' BY <1>5, <1>6 DEF Settled
<1>7. CASE Parting(D, i)'
  <2>1. /\ op'[t].pc \in Leaving /\ file'[t].dir = D /\ file'[t].slot = i
        /\ ~ (op[t].pc \in Leaving /\ file'[t] = file[t])
    BY <1>1, <1>7, PartingNew DEF StepOK
  <2>2. file'[t].object = c
    <3>1. HandleNamed(t)' /\ Strong(t)' BY <2>1 DEF StrongNamed
    <3>2. Working(t)' BY <3>1 DEF Strong
    <3> QED BY <1>5, <2>1, <3>1, <3>2 DEF HandleNamed, Leaving
  <2>3. MadeEntry(t) /\ Fn(op[t]) = "move" BY <2>1, <2>2 DEF Parts
  <2>4. NewEntry(t).cluster = file[t].object BY <2>3, NewEntryIs DEF MadeEntry
  <2>5. NewEntry(t).cluster = c BY <2>2, <2>3, <2>4 DEF MadeEntry
  <2> QED BY <2>3, <2>5, MadeSettled
<1> QED BY <1>6, <1>7

LEMMA HoldsStays ==
  ASSUME Good, TInv', Sound', StrongNamed', NEW t \in Tasks, StepOK(t), Hands(t),
         NEW c \in Clusters, c \in used', NEW u \in Tasks, Holds(u, c)
  PROVE  Owner(c)'
<1>1. CASE u # t
  <2>1. Holds(u, c)' BY <1>1 DEF StepOK, OthersStay, Holds
  <2> QED BY <2>1 DEF Owner
<1>2. CASE u = t
  <2>1. op[t].pc \in Keeping /\ op[t].new = c BY <1>2 DEF Holds
  <2>2. CASE op'[t].pc \in Keeping /\ op'[t].new = c
    <3>1. Holds(t, c)' BY <2>2 DEF Holds
    <3> QED BY <3>1 DEF Owner
  <2>3. CASE MadeEntry(t) /\ Fn(op[t]) \in {"open", "mkdir"}
    <3>1. NewEntry(t).cluster = c BY <2>1, <2>3, NewEntryIs DEF MadeEntry
    <3>2. \E D, i : Settled(D, i, c)' BY <2>3, <3>1, MadeSettled
    <3> QED BY <3>2 DEF Owner
  <2>4. CASE op[t].pc = "enter" /\ op'[t].pc = "note" /\ op'[t].new = c /\ file'[t] = file[t]
    <3>1. PICK D, i : D = file[t].dir /\ i = file[t].slot OBVIOUS
    <3>2. Strong(t) BY <2>4, Strongs
    <3>3. Working(t)' /\ HandleNamed(t)' BY <2>4, <3>2 DEF Strong, Working, StrongNamed
    <3>4. Live(file[t].dir, file[t].slot)' /\ dirs'[D][i].cluster = c
      BY <2>4, <3>1, <3>3 DEF HandleNamed
    <3>5. Live(D, i)' BY <2>4, <3>1, <3>4 DEF Live, IsEntry, Place, Alive, Doomed
    <3>6. ~ Parting(D, i)
      <4> SUFFICES ASSUME NEW v \in Tasks, op[v].pc \in Leaving, file[v].dir = D, file[v].slot = i
                   PROVE FALSE
        BY DEF Parting
      <4>1. Strong(v) /\ v # t BY <2>4, Strongs DEF Leaving
      <4>2. SamePlace(t, v) BY <3>1 DEF SamePlace
      <4> QED BY <3>2, <4>1, <4>2, StrongAlone DEF Strong
    <3>7. ~ Parting(D, i)' BY <2>4, <3>6, PartingNew DEF StepOK, Leaving
    <3>8. Settled(D, i, c)' BY <3>4, <3>5, <3>7 DEF Settled
    <3> QED BY <3>8 DEF Owner
  <2> QED BY <2>1, <2>2, <2>3, <2>4 DEF Hands
<1> QED BY <1>1, <1>2

LEMMA KeptStays ==
  ASSUME Good, Kept, TInv', Sound', StrongNamed', NEW t \in Tasks, StepOK(t), Minds(t)
  PROVE  Kept'
<1> SUFFICES ASSUME NEW c \in used' PROVE Owner(c)' BY DEF Kept
<1>1. c \in Clusters BY DEF TInv, UsedOK
<1>2. CASE c \notin used
  <2>1. Holds(t, c)' \/ part'[c] # 0 BY <1>2 DEF Minds, Claims, Holds
  <2> QED BY <2>1 DEF Owner
<1>3. CASE c \in used
  <2>1. Owner(c) BY <1>3 DEF Kept
  <2>2. ASSUME NEW D, NEW i, Settled(D, i, c) PROVE Owner(c)'
    <3>1. \E E, j : Settled(E, j, c)' BY <1>1, <2>2, SettledStays DEF Minds
    <3> QED BY <3>1 DEF Owner
  <2>3. ASSUME NEW u \in Tasks, Holds(u, c) PROVE Owner(c)' BY <1>1, <2>3, HoldsStays DEF Minds
  <2>4. part[c] # 0 => Owner(c)' BY <1>1 DEF Minds, Claims, Owner
  <2> QED BY <2>1, <2>2, <2>3, <2>4 DEF Owner
<1> QED BY <1>2, <1>3

LEMMA NoFaultNow == ASSUME TInv, faults' = 0 PROVE ~ Fault
BY NamesAssumption DEF TInv, Fault

\* A step that leaves the clusters alone.
LEMMA Plainly ==
  ASSUME NEW t \in Tasks, used' = used, part' = part, op[t].pc \notin Keeping,
         op'[t].pc \notin Leaving \/ (op[t].pc \in Leaving /\ file'[t] = file[t])
  PROVE  Minds(t)
BY DEF Minds, Parts, Hands, Claims

\* A step of a task without a handle.
LEMMA Bare ==
  ASSUME StrongNamed', NEW t \in Tasks, file'[t] = NoFile PROVE op'[t].pc \notin Leaving
BY DEF StrongNamed, Strong, Working

LEMMA BareMinds ==
  ASSUME Good, StrongNamed', NEW t \in Tasks,
         Start(t) \/ FindDir(t) \/ Find(t) \/ Leave(t) \/ MakeDots(t)
  PROVE  Minds(t)
<1>1. TInv /\ TaskOK(op[t], file[t]) BY GoodTask DEF Good
<1>2. CASE Start(t) \/ FindDir(t) \/ Find(t) \/ MakeDots(t)
  <2>1. /\ file' = file /\ used' = used /\ part' = part
        /\ op[t].pc \in {"dir", "find", "dot", "dotdot"} \/ (op[t].pc = "idle" /\ file[t] = NoFile)
    <3>1. CASE Start(t)
      <4>1. op[t].pc = "idle" /\ used' = used /\ part' = part /\ file' = file /\ file[t] = NoFile
        BY <3>1 DEF Start, At, IsOpen
      <4> QED BY <4>1
    <3>2. CASE FindDir(t) BY <3>2 DEF FindDir, At
    <3>3. CASE Find(t) BY <3>3 DEF Find, At
    <3>4. CASE MakeDots(t) BY <3>4 DEF MakeDots
    <3> QED BY <1>2, <3>1, <3>2, <3>3, <3>4
  <2>2. file[t] = NoFile BY <1>1, <2>1 DEF TaskOK, AtPlace, Seeking
  <2>3. op'[t].pc \notin Leaving BY <2>1, <2>2, Bare
  <2> QED BY <2>1, <2>3, Plainly DEF Keeping
<1>3. CASE Leave(t)
  <2>1. used' = used /\ part' = part /\ op[t].pc = "leave" /\ file' = [file EXCEPT ![t] = NoFile]
    BY <1>3 DEF Leave, At
  <2>2. file'[t] = NoFile BY <1>1, <2>1 DEF TInv, TasksOK
  <2>3. op'[t].pc \notin Leaving BY <2>2, Bare
  <2> QED BY <2>1, <2>3, Plainly DEF Keeping
<1> QED BY <1>2, <1>3

\* To another place with the call as it was.
LEMMA ToIs ==
  ASSUME TInv, NEW t \in Tasks, NEW p, To(t, p)
  PROVE  op'[t].pc = p /\ op'[t].new = op[t].new
<1>1. PICK q : q = [op[t] EXCEPT !.pc = p] OBVIOUS
<1>2. IsOp(op[t]) BY HasTask DEF TaskOK
<1>3. q.pc = p /\ q.new = op[t].new BY <1>1, <1>2, PcIs
<1>4. Go(t, q) BY <1>1 DEF To
<1>5. op'[t] = q BY <1>4, GoIs DEF TInv
<1> QED BY <1>3, <1>5

\* The steps to a fixed place: nothing is claimed or freed.
LEMMA ToMinds ==
  ASSUME Good, NEW t \in Tasks, faults' = 0,
         Empty(t) \/ Quit(t) \/ Relock(t) \/ RmLfn(t) \/ Erase(t) \/ Detach(t) \/ PutSize(t)
  PROVE  Minds(t)
<1>1. TInv /\ ~ Fault BY NoFaultNow DEF Good
<1>2. CASE Empty(t)
  <2>1. /\ used' = used /\ part' = part /\ op[t].pc = "empty"
        /\ To(t, IF IsEmpty(op[t]) THEN "unlink" ELSE "leave") \/ To(t, "unlink")
    BY <1>2 DEF Empty, At
  <2>2. op'[t].pc \in {"unlink", "leave"} BY <1>1, <2>1, ToIs
  <2> QED BY <2>1, <2>2, Plainly DEF Keeping, Leaving
<1>3. CASE Quit(t)
  <2>1. used' = used /\ part' = part /\ op[t].pc = "quit" /\ To(t, "leave") BY <1>3 DEF Quit, At
  <2>2. op'[t].pc = "leave" BY <1>1, <2>1, ToIs
  <2> QED BY <2>1, <2>2, Plainly DEF Keeping, Leaving
<1>4. CASE RmLfn(t)
  <2>1. used' = used /\ part' = part /\ file' = file /\ op[t].pc = "rmlfn" BY <1>4 DEF RmLfn, At
  <2> QED BY <2>1, Plainly DEF Keeping, Leaving
<1>5. CASE Erase(t)
  <2>1. used' = used /\ part' = part /\ file' = file /\ op[t].pc = "erase" BY <1>5 DEF Erase, At
  <2> QED BY <2>1, Plainly DEF Keeping, Leaving
<1>6. CASE Detach(t)
  <2>1. used' = used /\ part' = part /\ file' = file /\ op[t].pc = "detach" BY <1>6 DEF Detach, At
  <2> QED BY <2>1, Plainly DEF Keeping, Leaving
<1>7. CASE PutSize(t)
  <2>1. used' = used /\ part' = part /\ op[t].pc = "size" /\ To(t, "leave") BY <1>7 DEF PutSize, At
  <2>2. op'[t].pc = "leave" BY <1>1, <2>1, ToIs
  <2> QED BY <2>1, <2>2, Plainly DEF Keeping, Leaving
<1>8. CASE Relock(t)
  <2>1. used' = used /\ part' = part /\ file' = file /\ op[t].pc = "made" BY <1>8 DEF Relock, At
  <2> QED BY <2>1, Plainly DEF Keeping, Leaving
<1> QED BY <1>2, <1>3, <1>4, <1>5, <1>6, <1>7, <1>8

LEMMA BeginGoes ==
  ASSUME TInv, NEW t \in Tasks, NEW fn, NEW p, Begin(t, fn, p) PROVE op'[t].pc = p
<1>1. PICK q : q = [Idle EXCEPT !.call.fn = fn, !.pc = p] OBVIOUS
<1>2. q.pc = p BY <1>1, BeginIs
<1>3. Go(t, q) BY <1>1 DEF Begin
<1> QED BY <1>2, <1>3, GoIs DEF TInv

\* The calls on a handle.
LEMMA HandleMinds ==
  ASSUME Good, NEW t \in Tasks, Write(t) \/ Close(t) \/ Note(t) PROVE Minds(t)
<1>1. TInv BY DEF Good
<1>2. CASE Write(t)
  <2>1. used' = used /\ part' = part /\ op[t].pc = "idle" BY <1>2 DEF Write, At
  <2>2. Go(t, Idle) \/ Begin(t, "write", "grow") BY <1>2 DEF Write
  <2>3. op'[t].pc \in {"idle", "grow"}
    <3>1. CASE Go(t, Idle) BY <1>1, <3>1, GoIs, IdleIs DEF TInv
    <3>2. CASE Begin(t, "write", "grow") BY <1>1, <3>2, BeginGoes
    <3> QED BY <2>2, <3>1, <3>2
  <2> QED BY <2>1, <2>3, Plainly DEF Keeping, Leaving
<1>3. CASE Close(t)
  <2>1. used' = used /\ part' = part /\ op[t].pc = "idle" BY <1>3 DEF Close, At
  <2>2. PICK p \in {"leave", "cut", "size"} : Begin(t, "close", p) BY <1>3 DEF Close
  <2>3. op'[t].pc = p BY <1>1, <2>2, BeginGoes
  <2> QED BY <2>1, <2>3, Plainly DEF Keeping, Leaving
<1>4. CASE Note(t)
  <2>1. used' = used /\ part' = part /\ op[t].pc = "note" BY <1>4 DEF Note, At
  <2>2. Go(t, Idle) \/ To(t, "size") BY <1>4 DEF Note
  <2>3. op'[t].pc \in {"idle", "size"}
    <3>1. CASE Go(t, Idle) BY <1>1, <3>1, GoIs, IdleIs DEF TInv
    <3>2. CASE To(t, "size") BY <1>1, <3>2, ToIs
    <3> QED BY <2>2, <3>1, <3>2
  <2> QED BY <2>1, <2>3, Plainly DEF Keeping, Leaving
<1> QED BY <1>2, <1>3, <1>4

LEMMA TargetMinds ==
  ASSUME Good, NEW t \in Tasks, Target(t) PROVE Minds(t)
<1>1. op[t].pc = "target" /\ dirs' = dirs /\ used' = used /\ part' = part /\ file' = file /\ TInv
  BY DEF Target, At, Good
<1>2. PICK o : o = op[t] OBVIOUS
<1>3. IsOp(o) BY <1>2, GoodTask DEF TaskOK
<1>4. PICK D : D = IF o.call.to.in = "" THEN Root ELSE DirOf(o.call.to.in) OBVIOUS
<1>5. PICK q : q = [o EXCEPT !.dir = D, !.free = 0, !.checked = "no", !.seen = o.goal, !.pc = "plan"]
  OBVIOUS
<1>6. q.pc = "plan" BY <1>3, <1>5 DEF IsOp
<1>7. Go(t, q) \/ To(t, "leave") BY <1>2, <1>4, <1>5 DEF Target
<1>8. op'[t].pc \in {"plan", "leave"}
  <2>1. CASE Go(t, q) BY <1>1, <1>6, <2>1, GoIs DEF TInv
  <2>2. CASE To(t, "leave") BY <1>1, <2>2, ToIs
  <2> QED BY <1>7, <2>1, <2>2
<1> QED BY <1>1, <1>8, Plainly DEF Keeping, Leaving

\* A cluster is claimed and becomes part of something, or is lost.
LEMMA AssignMinds ==
  ASSUME Good, NEW t \in Tasks, op[t].pc \in {"claim", "grow", "extend"},
         NEW c \in Clusters, NEW d \in Clusters \cup {Nobody}, Assign(c, d),
         op'[t].pc \notin Leaving,
         op[t].pc = "extend" => op'[t].pc \in Keeping /\ op'[t].new = op[t].new
  PROVE  Minds(t)
<1>1. d # 0 BY NamesAssumption
<1>2. /\ used' = used \cup {c} /\ part'[c] = d
      /\ \A b \in Clusters : b # c => part'[b] = part[b]
  BY AssignIs DEF Good
<1>3. Claims(t) BY <1>1, <1>2 DEF Claims
<1> QED BY <1>3 DEF Minds, Parts, Hands, Keeping

\* Claiming a cluster, and freeing one.
LEMMA ClaimMinds ==
  ASSUME Good, StrongNamed', NEW t \in Tasks, faults' = 0, Claim(t) \/ Grow(t) PROVE Minds(t)
<1>1. TInv /\ ~ Fault /\ IsOp(op[t]) BY NoFaultNow, GoodTask DEF Good, TaskOK
<1>2. PICK o : o = op[t] OBVIOUS
<1>3. op[t].pc \in {"claim", "grow"} /\ file' = file BY DEF Claim, Grow, At
<1>4. PICK c : c = Least(FreeClusters) OBVIOUS
<1>5. \/ \E p \in {"plan", "enter"} : /\ used' = used \cup {c} /\ part' = part
                                       /\ Go(t, [o EXCEPT !.new = c, !.pc = p])
      \/ used' = used /\ part' = part /\ Go(t, Idle)
      \/ Lose(t)
  BY <1>1, <1>2, <1>4 DEF Claim, Grow
<1>6. ASSUME NEW p \in {"plan", "enter"}, used' = used \cup {c}, part' = part,
             Go(t, [o EXCEPT !.new = c, !.pc = p])
      PROVE  Minds(t)
  <2>1. PICK q : q = [o EXCEPT !.new = c, !.pc = p] OBVIOUS
  <2>2. q.pc = p /\ q.new = c BY <1>1, <1>2, <2>1 DEF IsOp
  <2>3. Go(t, q) BY <1>6, <2>1
  <2>4. op'[t] = q BY <1>1, <2>3, GoIs DEF TInv
  <2> QED BY <1>3, <1>6, <2>2, <2>4 DEF Minds, Parts, Hands, Claims, Keeping, Leaving
<1>7. CASE used' = used /\ part' = part /\ Go(t, Idle)
  <2>1. op'[t].pc = "idle" BY <1>1, <1>7, GoIs, IdleIs DEF TInv
  <2> QED BY <1>3, <1>7, <2>1, Plainly DEF Keeping, Leaving
<1>8. CASE Lose(t)
  <2>1. Assign(c, Nobody) /\ FreeClusters # {} /\ Go(t, Idle) BY <1>4, <1>8 DEF Lose
  <2>2. c \in Clusters BY <1>1, <1>4, <2>1, LeastFree
  <2>3. op'[t].pc = "idle" BY <1>1, <2>1, GoIs, IdleIs DEF TInv
  <2> QED BY <1>3, <2>1, <2>2, <2>3, AssignMinds DEF Leaving
<1> QED BY <1>5, <1>6, <1>7, <1>8

\* Extending a directory, or not.
LEMMA ExtendMinds ==
  ASSUME Good, NEW t \in Tasks, faults' = 0, Extend(t) PROVE Minds(t)
<1>1. TInv /\ ~ Fault BY NoFaultNow DEF Good
<1>2. PICK o : o = op[t] OBVIOUS
<1>3. TaskOK(o, file[t]) /\ IsOp(o) /\ o.pc = "extend" BY <1>2, GoodTask DEF TaskOK, Extend, At
<1>4. PICK c : c = Least(FreeClusters) OBVIOUS
<1>5. PICK p : p \in {"lfn", "entry", "unmade"} /\ To(t, p)
  BY <1>1, <1>2 DEF Extend, Making
<1>6. op'[t].pc = p /\ op'[t].new = o.new BY <1>1, <1>2, <1>5, ToIs
<1>7. CASE FreeClusters # {} /\ Assign(c, o.dir)
  <2>1. c \in Clusters BY <1>1, <1>4, <1>7, LeastFree
  <2>2. o.dir \in Clusters BY <1>3 DEF TaskOK, FnsAt, IsOp, Creating
  <2> QED BY <1>2, <1>3, <1>5, <1>6, <1>7, <2>1, <2>2, AssignMinds DEF Keeping, Leaving
<1>8. CASE used' = used /\ part' = part
  BY <1>2, <1>3, <1>5, <1>6, <1>8 DEF Minds, Parts, Hands, Claims, Keeping, Leaving
<1> QED BY <1>1, <1>2, <1>4, <1>7, <1>8 DEF Extend

LEMMA FreeMinds ==
  ASSUME Good, NEW t \in Tasks, faults' = 0, Undo(t) \/ Unlink(t) \/ Cut(t) PROVE Minds(t)
<1>1. TInv /\ ~ Fault BY NoFaultNow DEF Good
<1>2. ASSUME NEW c, Release(Chain(c)) PROVE c \notin used' /\ Claims(t)
  <2>1. PICK S : S = Chain(c) OBVIOUS
  <2>2. used' = used \ S /\ \A e \in Clusters : part'[e] = IF e \in S THEN 0 ELSE part[e]
    BY <1>2, <2>1 DEF Release
  <2>3. c \in S BY <2>1 DEF Chain
  <2> QED BY <2>2, <2>3 DEF Claims
<1>3. CASE Undo(t)
  <2>1. Release(Chain(op[t].new)) /\ op[t].pc = "undo" /\ Go(t, Idle)
    BY <1>1, <1>3 DEF Undo, At
  <2>2. op'[t].pc = "idle" BY <1>1, <2>1, GoIs, IdleIs DEF TInv
  <2> QED BY <1>2, <2>1, <2>2 DEF Minds, Parts, Hands, Leaving
<1>4. CASE Unlink(t)
  <2>1. Release(Chain(file[t].object)) /\ op[t].pc = "unlink" /\ file' = file
    BY <1>1, <1>4 DEF Unlink, At
  <2> QED BY <1>2, <2>1 DEF Minds, Parts, Hands, Keeping
<1>5. CASE Cut(t)
  <2>1. Release(Chain(file[t].object)) /\ op[t].pc = "cut" /\ file' = file
    BY <1>1, <1>5 DEF Cut, At
  <2> QED BY <1>2, <2>1 DEF Minds, Parts, Hands, Keeping
<1> QED BY <1>3, <1>4, <1>5

LEMMA EnterMinds ==
  ASSUME Good, NEW t \in Tasks, faults' = 0, Enter(t) PROVE Minds(t)
<1>1. TInv /\ ~ Fault BY NoFaultNow DEF Good
<1>2. used' = used /\ part' = part /\ file' = file /\ op[t].pc = "enter" /\ To(t, "note") BY <1>1 DEF Enter, At
<1>3. op'[t].pc = "note" /\ op'[t].new = op[t].new BY <1>1, <1>2, ToIs
<1> QED BY <1>2, <1>3 DEF Minds, Parts, Hands, Claims, Leaving

\* An entry that cannot be made, and one that is.
LEMMA FailMinds ==
  ASSUME Good, NEW t \in Tasks, op[t].pc \in Creating, Go(t, NotCreated(op[t])), used' = used /\ part' = part
  PROVE  Minds(t)
<1>1. PICK o : o = op[t] OBVIOUS
<1>2. TInv /\ TaskOK(o, file[t]) /\ IsOp(o) BY <1>1, GoodTask DEF Good, TaskOK
<1>3. PICK p : p = IF Fn(o) = "move" THEN "leave" ELSE "undo" OBVIOUS
<1>4. To(t, p) BY <1>1, <1>3 DEF NotCreated, To
<1>5. op'[t].pc = p /\ op'[t].new = o.new BY <1>1, <1>2, <1>4, ToIs
<1>6. Fn(o) = "move" => o.new \notin used'
  BY <1>2, NamesAssumption DEF TaskOK, FnsAt, TInv, UsedOK
<1> QED BY <1>1, <1>3, <1>5, <1>6 DEF Minds, Parts, Hands, Claims, Keeping, Leaving

LEMMA MakeMinds ==
  ASSUME Good, NEW t \in Tasks, faults' = 0, Plan(t) \/ Unmade(t) \/ PutLfn(t) PROVE Minds(t)
<1>1. TInv /\ ~ Fault BY NoFaultNow DEF Good
<1>2. PICK o : o = op[t] OBVIOUS
<1>3. IsOp(o) BY <1>2, GoodTask DEF TaskOK
<1>4. used' = used /\ part' = part /\ op[t].pc \in {"plan", "unmade", "lfn"}
  BY DEF Plan, Unmade, PutLfn, At
<1>5. ASSUME op'[t].new = o.new, op'[t].pc \in {"extend", "lfn", "entry"} PROVE Minds(t)
  BY <1>2, <1>4, <1>5 DEF Minds, Parts, Hands, Claims, Keeping, Leaving
<1>6. CASE PutLfn(t)
  <2>1. To(t, "entry") \/ Go(t, NotCreated(o)) BY <1>2, <1>6 DEF PutLfn
  <2>2. CASE Go(t, NotCreated(o)) BY <1>2, <1>4, <2>2, FailMinds DEF Creating
  <2>3. CASE To(t, "entry") BY <1>1, <1>2, <1>5, <2>3, ToIs
  <2> QED BY <2>1, <2>2, <2>3
<1>7. CASE Plan(t)
  <2>1. \/ Go(t, NotCreated(o)) \/ \E last, a, se : Go(t, Chosen(o, last, a, se))
    BY <1>2, <1>3, <1>7, PlanShape
  <2>2. CASE Go(t, NotCreated(o)) BY <1>2, <1>4, <2>2, FailMinds DEF Creating
  <2>3. ASSUME NEW last, NEW a, NEW se, Go(t, Chosen(o, last, a, se)) PROVE Minds(t)
    <3>1. PICK q : q = Chosen(o, last, a, se) OBVIOUS
    <3>2. q.pc \in {"extend", "lfn", "entry"} /\ q.new = o.new
      BY <1>3, <3>1 DEF IsOp, Chosen, Making
    <3>3. Go(t, q) BY <2>3, <3>1
    <3>4. op'[t] = q BY <1>1, <3>3, GoIs DEF TInv
    <3> QED BY <1>5, <3>2, <3>4
  <2> QED BY <2>1, <2>2, <2>3
<1>8. CASE Unmade(t)
  <2>1. Go(t, NotCreated(o)) BY <1>2, <1>8 DEF Unmade
  <2> QED BY <1>2, <1>4, <2>1, FailMinds DEF Creating
<1> QED BY <1>6, <1>7, <1>8

LEMMA JoinMinds ==
  ASSUME Good, StrongNamed', TInv', NEW t \in Tasks, Join(t) PROVE Minds(t)
<1>1. op[t].pc = "join" /\ used' = used /\ part' = part /\ TInv BY DEF Join, At, Good
<1>2. PICK o : o = op[t] OBVIOUS
<1>3. TaskOK(o, file[t]) /\ IsOp(o) BY <1>2, GoodTask DEF TaskOK
<1>4. file[t] = NoFile BY <1>1, <1>2, <1>3 DEF TaskOK, AtPlace, Seeking
<1>5. PICK h : h = NewHandle(o) OBVIOUS
<1>6. PICK busy : busy = (\E g \in Listed : Conflicts(g, h)) OBVIOUS
<1>7. /\ file' = IF busy THEN file ELSE [file EXCEPT ![t] = h]
      /\ Go(t, IF busy THEN Refused(o, "busy") ELSE AfterJoin(o, h))
  BY <1>2, <1>5, <1>6 DEF Join, AfterJoin
<1>8. CASE busy
  <2>1. file'[t] = NoFile BY <1>4, <1>7, <1>8
  <2>2. op'[t].pc \notin Leaving BY <2>1, Bare
  <2> QED BY <1>1, <2>2, Plainly DEF Keeping
<1>9. CASE ~ busy
  <2>1. PICK q : q = AfterJoin(o, h) OBVIOUS
  <2>2. q.pc \notin Leaving \/ h.object = 0
    <3>1. CASE Fn(o) = "open" BY <2>1, <3>1, IdleIs DEF AfterJoin, Leaving
    <3>2. CASE Fn(o) # "open"
      <4>1. PICK p : /\ q = [o EXCEPT !.pc = p] /\ p \in {"empty", "unlink", "rmlfn", "leave", "target"}
                     /\ p = "rmlfn" => h.object = 0
        BY <2>1, <3>2 DEF AfterJoin
      <4> QED BY <1>3, <4>1, PcIs DEF Leaving
    <3> QED BY <3>1, <3>2
  <2>3. Go(t, q) /\ file' = [file EXCEPT ![t] = h] BY <1>7, <1>9, <2>1
  <2>4. op'[t] = q /\ file'[t] = h BY <1>1, <2>3, GoStays
  <2>5. 0 \notin used' BY NamesAssumption DEF TInv, UsedOK
  <2> QED BY <1>1, <2>2, <2>4, <2>5 DEF Minds, Parts, Hands, Claims, Keeping
<1> QED BY <1>8, <1>9

LEMMA PutNewMinds ==
  ASSUME Good, TInv', NEW t \in Tasks, faults' = 0, strays' = {}, PutNew(t) PROVE Minds(t)
<1>1. op[t].pc = "entry" /\ file' = file /\ used' = used /\ part' = part /\ TInv /\ ~ Fault
  BY NoFaultNow DEF PutNew, At, Good
<1>2. PICK o : o = op[t] OBVIOUS
<1>3. TaskOK(o, file[t]) /\ IsOp(o) /\ FreeAt(o.dir, o.slot)
  BY <1>1, <1>2, GoodTask DEF TaskOK, World, Planned, Begun
<1>4. PICK e : e = NewEntry(t) OBVIOUS
<1>5. PICK q : q = AfterNew(o, e) OBVIOUS
<1>6. Put(o.dir, o.slot, e) /\ Alive(o.dir) /\ Go(t, q)
  <2>1. ASSUME NEW n, Stray(Late(o, n)) PROVE ~ Outdated(o.dir, n, o.seen) BY <2>1, NotLate
  <2> QED BY <1>1, <1>2, <1>4, <1>5, <2>1 DEF PutNew, AfterNew, Outdated
<1>7. op'[t] = q BY <1>1, <1>6, GoIs DEF TInv
<1>8. dirs'[o.dir][o.slot] = e BY <1>1, <1>3, <1>6, PutPlaces DEF FreeAt
<1>9. Fn(o) \in {"open", "mkdir", "move"} BY <1>1, <1>2, NewEntryIs
<1>10. Fn(o) # "move" => q.pc \notin Leaving
  <2>1. CASE Fn(o) = "open"
    <3>1. q.pc = "join" BY <1>3, <1>5, <2>1, AfterNewOpen
    <3> QED BY <3>1 DEF Leaving
  <2>2. CASE Fn(o) = "mkdir"
    <3>1. q = [o EXCEPT !.pc = "dot"] BY <1>5, <2>2 DEF AfterNew
    <3> QED BY <1>3, <3>1, PcIs DEF Leaving
  <2> QED BY <1>9, <2>1, <2>2
<1>11. MadeEntry(t) BY <1>1, <1>2, <1>3, <1>4, <1>6, <1>7, <1>8, <1>10 DEF MadeEntry
<1>12. Fn(o) = "move" => o.new \notin used' BY <1>3, NamesAssumption DEF TaskOK, FnsAt, TInv, UsedOK
<1> QED BY <1>1, <1>2, <1>7, <1>9, <1>10, <1>11, <1>12 DEF Minds, Parts, Hands, Claims

LEMMA ActMinds ==
  ASSUME Good, TInv', StrongNamed', faults' = 0, strays' = {}, NEW t \in Tasks, Acts(t)
  PROVE  Minds(t)
<1>1. CASE Start(t) \/ FindDir(t) \/ Find(t) \/ Leave(t) \/ MakeDots(t) BY <1>1, BareMinds
<1>2. CASE Empty(t) \/ Quit(t) \/ Relock(t) \/ RmLfn(t) \/ Erase(t) \/ Detach(t) \/ PutSize(t)
  BY <1>2, ToMinds
<1>3. CASE Write(t) \/ Close(t) \/ Note(t) \/ Target(t) BY <1>3, HandleMinds, TargetMinds
<1>4. CASE Claim(t) \/ Grow(t) \/ Enter(t) BY <1>4, ClaimMinds, EnterMinds
<1>5. CASE Undo(t) \/ Unlink(t) \/ Cut(t) BY <1>5, FreeMinds
<1>6. CASE Plan(t) \/ Unmade(t) \/ PutLfn(t) \/ PutNew(t) BY <1>6, MakeMinds, PutNewMinds
<1>7. CASE Join(t) \/ Extend(t) BY <1>7, JoinMinds, ExtendMinds
<1> QED BY <1>1, <1>2, <1>3, <1>4, <1>5, <1>6, <1>7 DEF Acts

\* A fault is not forgotten.
LEMMA FaultsStay == ASSUME TInv, [Next]_vars, faults' = 0 PROVE faults = 0
<1>1. ASSUME NEW t \in Tasks, Start(t) \/ Write(t) \/ Close(t) PROVE NoFault \/ Fault
  BY <1>1 DEF Start, Write, Close, NoFault
<1>2. ASSUME NEW t \in Tasks, FindDir(t) \/ Claim(t) \/ Plan(t) PROVE NoFault \/ Fault
  BY <1>2 DEF FindDir, Claim, Lose, Plan
<1>3. ASSUME NEW t \in Tasks, Find(t) PROVE NoFault \/ Fault
  <2>1. PICK s, n, o : (\E i \in Hits(s, n) : Found(t, o, i, s)) \/ NoFault \/ Phantom(t, o, s) \/ Fault
    BY <1>3 DEF Find
  <2> QED BY <2>1 DEF Found, Phantom
<1>4. ASSUME NEW t \in Tasks, PutLfn(t) \/ PutNew(t) \/ Undo(t) \/ MakeDots(t) PROVE NoFault \/ Fault
  BY <1>4 DEF PutLfn, PutNew, Undo, MakeDots
<1>5. ASSUME NEW t \in Tasks, Join(t) \/ Empty(t) \/ Unlink(t) \/ Quit(t) \/ RmLfn(t) \/ Erase(t)
      PROVE  NoFault \/ Fault
  BY <1>5 DEF Join, Empty, Unlink, Quit, RmLfn, Erase, NoFault
<1>6. ASSUME NEW t \in Tasks, Target(t) \/ Leave(t) \/ Grow(t) \/ Enter(t) PROVE NoFault \/ Fault
  BY <1>6 DEF Target, Leave, Grow, Lose, Enter, NoFault
<1>7. ASSUME NEW t \in Tasks, Note(t) \/ Cut(t) \/ Detach(t) \/ PutSize(t) PROVE NoFault \/ Fault
  BY <1>7 DEF Note, Cut, Detach, PutSize, NoFault
<1>8. UNCHANGED nameVars => NoFault BY DEF nameVars, NoFault
<1>10. ASSUME NEW t \in Tasks, Extend(t) \/ Unmade(t) \/ Relock(t) PROVE NoFault \/ Fault
  BY <1>10 DEF Extend, Unmade, Relock, NoFault
<1>9. NoFault \/ Fault
  <2>1. ASSUME NEW t \in Tasks, Acts(t) PROVE NoFault \/ Fault
    BY <1>1, <1>2, <1>3, <1>4, <1>5, <1>6, <1>7, <1>10, <2>1 DEF Acts
  <2> QED BY <1>8, <2>1, SomebodyActs
<1> QED BY <1>9, NamesAssumption DEF TInv, NoFault, Fault

LEMMA StepKept ==
  ASSUME Good, Kept, Good', [Next]_vars, strays' = {}, faults' = 0 PROVE Kept'
<1>1. StrongNamed' BY StrongsNamed, PTL
<1>2. TInv' /\ Sound' BY DEF Good
<1>3. ASSUME NEW t \in Tasks, Acts(t), StepOK(t) PROVE Kept'
  <2>1. Minds(t) BY <1>1, <1>2, <1>3, ActMinds
  <2> QED BY <1>1, <1>2, <1>3, <2>1, KeptStays
<1>4. CASE UNCHANGED <<dirs, used, part, op, file>>
  <2>1. \A D : Alive(D)' = Alive(D) BY <1>4 DEF Alive, Doomed
  <2>2. \A D, i, c : Settled(D, i, c)' = Settled(D, i, c)
    BY <1>4, <2>1 DEF Settled, Live, IsEntry, Place, Parting
  <2>3. \A t, c : Holds(t, c)' = Holds(t, c) BY <1>4 DEF Holds
  <2>4. \A c : (part[c] # 0)' <=> part[c] # 0 BY <1>4
  <2> QED BY <1>4, <2>2, <2>3, <2>4 DEF Kept, Owner
<1> QED BY <1>2, <1>3, <1>4, StepSound

\* Without a stray and a fault no cluster is lost.
LInv == NInv /\ (strays = {} /\ faults = 0 => Kept)

LEMMA InitLInv == Init => LInv
<1> SUFFICES ASSUME Init PROVE LInv OBVIOUS
<1>1. NInv BY InitNInv
<1>2. TInv BY <1>1 DEF NInv
<1>3. PICK v \in Starts : dirs = v.dirs /\ used = v.used BY DEF Init
<1>4. PICK reached : reached = {Root} \cup {dirs[Root][i].cluster :
                                  i \in {j \in Entries(dirs[Root]) : dirs[Root][j].isdir}}
  OBVIOUS
<1>5. /\ EndsAreLast(dirs)
      /\ \A c \in used : \E D \in reached \cap DOMAIN dirs : \E i \in Entries(dirs[D]) :
           dirs[D][i].cluster = c
  BY <1>3, <1>4, StartsAssumption
<1>6. \A t \in Tasks : op[t].pc = "idle" BY IdleIs DEF Init
<1>7. ASSUME NEW c \in used PROVE Owner(c)
  <2>1. PICK D \in reached \cap DOMAIN dirs : \E i \in Entries(dirs[D]) : dirs[D][i].cluster = c
    BY <1>5
  <2>2. PICK i \in Entries(dirs[D]) : dirs[D][i].cluster = c BY <2>1
  <2>3. IsEntry(D, i) BY <1>2, <1>5, <2>1, <2>2, EntriesAre
  <2>4. Alive(D)
    <3>1. \A E, j : ~ Doomed(E, j) BY <1>6 DEF Doomed
    <3> QED BY <1>4, <2>1, <3>1 DEF Alive
  <2>5. ~ Parting(D, i) BY <1>6 DEF Parting, Leaving
  <2> QED BY <2>2, <2>3, <2>4, <2>5 DEF Owner, Settled, Live
<1> QED BY <1>1, <1>7 DEF LInv, Kept

LEMMA NextLInv == LInv /\ [Next]_vars => LInv'
<1> SUFFICES ASSUME LInv, [Next]_vars PROVE LInv' OBVIOUS
<1>1. NInv /\ NInv' BY NextNInv DEF LInv
<1>2. ASSUME strays' = {}, faults' = 0 PROVE Kept'
  <2>1. strays = {} /\ faults = 0 BY <1>1, <1>2, StraysStay, FaultsStay DEF NInv
  <2>2. Good /\ Kept BY <2>1 DEF LInv, NInv, Good
  <2>3. Good' BY <1>1, <1>2 DEF NInv, Good
  <2> QED BY <1>2, <2>2, <2>3, StepKept
<1> QED BY <1>1, <1>2 DEF LInv

\* The live entries, as pairs.
LEMMA LiveAre ==
  ASSUME Good, NEW D, NEW i PROVE <<D, i>> \in LiveEntries <=> Live(D, i)
<1>1. TInv /\ EndsAreLast(dirs) BY DEF Good, Sound
<1>2. <<D, i>> \in LiveEntries <=> D \in DOMAIN dirs /\ Alive(D) /\ i \in Entries(dirs[D])
  BY DEF LiveEntries
<1> QED BY <1>1, <1>2, EntriesAre DEF Live, IsEntry, Place

LEMMA LivePairs ==
  ASSUME NEW e \in LiveEntries PROVE e = <<e[1], e[2]>>
BY DEF LiveEntries

\* Those of a cluster that are being removed are as many as the tasks that do.
LEMMA PartingAre ==
  ASSUME Good, NEW c \in Clusters,
         NEW P, P = {e \in LiveEntries : dirs[e[1]][e[2]].cluster = c /\ Parting(e[1], e[2])}
  PROVE  /\ IsFiniteSet(P) /\ IsFiniteSet(Removing(c))
         /\ Cardinality(P) = Cardinality(Removing(c))
<1>1. PICK R : R = Removing(c) OBVIOUS
<1>2. IsFiniteSet(R) BY <1>1, TasksAreFinite, FS_Subset DEF Removing
<1>3. ASSUME NEW t \in Tasks, op[t].pc \in Leaving
      PROVE  /\ Strong(t) /\ Live(file[t].dir, file[t].slot)
             /\ dirs[file[t].dir][file[t].slot].cluster = file[t].object
  <2>1. Strong(t) /\ HandleNamed(t) BY <1>3, Strongs, GoodTask DEF World, Leaving
  <2> QED BY <1>3, <2>1 DEF HandleNamed, Strong, Leaving
<1>4. PICK f : f = [t \in R |-> <<file[t].dir, file[t].slot>>] OBVIOUS
<1>5. \A t \in R : t \in Tasks /\ op[t].pc \in Leaving /\ file[t].object = c
  BY <1>1 DEF Removing, Leaving
<1>6. ASSUME NEW t \in R PROVE f[t] \in P
  <2>1. PICK D, i : D = file[t].dir /\ i = file[t].slot OBVIOUS
  <2>2. f[t] = <<D, i>> BY <1>4, <2>1
  <2>3. Live(D, i) /\ dirs[D][i].cluster = c BY <1>3, <1>5, <2>1
  <2>4. Parting(D, i) BY <1>5, <2>1 DEF Parting
  <2>5. <<D, i>> \in LiveEntries BY <2>3, LiveAre
  <2> QED BY <2>2, <2>3, <2>4, <2>5
<1>7. ASSUME NEW t \in R, NEW u \in R, f[t] = f[u] PROVE t = u
  <2>1. SamePlace(t, u) BY <1>4, <1>7 DEF SamePlace
  <2>2. Strong(t) /\ Strong(u) BY <1>3, <1>5
  <2> QED BY <1>5, <2>1, <2>2, StrongAlone DEF Strong
<1>8. ASSUME NEW e \in P PROVE \E t \in R : f[t] = e
  <2>1. e = <<e[1], e[2]>> BY LivePairs
  <2>2. PICK t \in Tasks : op[t].pc \in Leaving /\ file[t].dir = e[1] /\ file[t].slot = e[2]
    BY DEF Parting
  <2>3. file[t].object = c BY <1>3, <2>2
  <2>4. t \in R BY <1>1, <2>2, <2>3 DEF Removing, Leaving
  <2> QED BY <1>4, <2>1, <2>2, <2>4
<1>9. f \in Bijection(R, P) BY <1>4, <1>6, <1>7, <1>8 DEF Bijection, Injection, Surjection, IsInjective
<1>10. ExistsBijection(R, P) BY <1>9 DEF ExistsBijection
<1> QED BY <1>1, <1>2, <1>10, FS_Bijection

LEMMA AtMostOne ==
  ASSUME NEW S, NEW x, S \subseteq {x}
  PROVE  IsFiniteSet(S) /\ Cardinality(S) = IF S = {} THEN 0 ELSE 1
<1>1. CASE S = {} BY <1>1, FS_EmptySet
<1>2. CASE S = {x}
  <2>1. IsFiniteSet({x}) /\ Cardinality({x}) = 1 BY FS_Singleton
  <2> QED BY <1>2, <2>1
<1> QED BY <1>1, <1>2

\* The other entry of a cluster, or else the task that has it.
LEMMA OwnersAre ==
  ASSUME Good, NEW c \in Clusters,
         NEW S, S = {e \in LiveEntries : dirs[e[1]][e[2]].cluster = c /\ ~ Parting(e[1], e[2])}
  PROVE  /\ IsFiniteSet(S) /\ Cardinality(S) \in Nat /\ Cardinality(Holding(c)) \in Nat
         /\ Cardinality(S) + Cardinality(Holding(c)) + (IF part[c] = 0 THEN 0 ELSE 1)
              = IF Owner(c) THEN 1 ELSE 0
         /\ Owner(c) => c \in used
         /\ part[c] \in Clusters => part[c] \in used
<1>1. OwnedOne(c) BY DEF Good, Sound, Owned
<1>2. PICK H : H = Holding(c) OBVIOUS
<1>3. \A t : t \in H <=> t \in Tasks /\ Holds(t, c) BY <1>2 DEF Holding, Holds, Keeping
<1>4. \A e \in S : e = <<e[1], e[2]>> /\ Settled(e[1], e[2], c)
  BY LiveAre, LivePairs DEF Settled
<1>5. \A D, i : Settled(D, i, c) => <<D, i>> \in S BY LiveAre DEF Settled
<1>6. PICK e : S # {} => e \in S OBVIOUS
<1>7. PICK t : H # {} => t \in H OBVIOUS
<1>8. S \subseteq {e} BY <1>1, <1>4, <1>6 DEF OwnedOne
<1>9. H \subseteq {t} BY <1>1, <1>3, <1>7 DEF OwnedOne
<1>10. S = {} \/ H = {} BY <1>1, <1>3, <1>4 DEF OwnedOne
<1>11. Owner(c) <=> S # {} \/ H # {} \/ part[c] # 0 BY <1>3, <1>4, <1>5 DEF Owner
<1>12. Owner(c) => c \in used BY <1>1 DEF Owner, OwnedOne
<1>13. IsFiniteSet(S) /\ Cardinality(S) = IF S = {} THEN 0 ELSE 1 BY <1>8, AtMostOne
<1>14. Cardinality(H) = IF H = {} THEN 0 ELSE 1 BY <1>9, AtMostOne
<1>15. part[c] # 0 => S = {} /\ H = {} BY <1>1, <1>3, <1>4 DEF OwnedOne
<1>16. part[c] \in Clusters => part[c] \in used BY <1>1 DEF OwnedOne
<1> QED BY <1>2, <1>10, <1>11, <1>12, <1>13, <1>14, <1>15, <1>16

\* As long as nobody has acted on what was no longer so, the entries that name a cluster
\* are at most its one owner and those that tasks are removing, and without a fault they
\* are all of these but for clusters that belong to an extended directory or that
\* FF_CreateClusterChain has lost: no two files share a cluster.
THEOREM NamesNameClustersOnce == Spec => []ClustersAreNamedOnce
<1>1. LInv => ClustersAreNamedOnce
  <2> SUFFICES ASSUME LInv, strays = {}, NEW c \in Clusters,
                      NEW N, N = {e \in LiveEntries : dirs[e[1]][e[2]].cluster = c},
                      NEW apart, apart = IF part[c] = 0 THEN 0 ELSE 1,
                      NEW names, names = Cardinality(N) + Cardinality(Holding(c)) + apart,
                      NEW due, due = (IF c \in used THEN 1 ELSE 0) + Cardinality(Removing(c))
               PROVE  /\ names <= due /\ (faults = 0 => names = due)
                      /\ part[c] \in Clusters => part[c] \in used
    BY DEF ClustersAreNamedOnce
  <2>1. Good /\ (faults = 0 => Kept) BY DEF LInv, NInv, Good
  <2>2. PICK S : S = {e \in LiveEntries : dirs[e[1]][e[2]].cluster = c /\ ~ Parting(e[1], e[2])}
    OBVIOUS
  <2>3. PICK P : P = {e \in LiveEntries : dirs[e[1]][e[2]].cluster = c /\ Parting(e[1], e[2])}
    OBVIOUS
  <2>4. /\ IsFiniteSet(S) /\ Cardinality(S) \in Nat /\ Cardinality(Holding(c)) \in Nat
        /\ Cardinality(S) + Cardinality(Holding(c)) + apart = IF Owner(c) THEN 1 ELSE 0
        /\ Owner(c) => c \in used
        /\ part[c] \in Clusters => part[c] \in used
    BY <2>1, <2>2, OwnersAre
  <2>5. /\ IsFiniteSet(P) /\ IsFiniteSet(Removing(c)) /\ Cardinality(P) = Cardinality(Removing(c))
    BY <2>1, <2>3, PartingAre
  <2>6. Cardinality(P) \in Nat BY <2>5, FS_CardinalityType
  <2>7. N = S \cup P /\ S \cap P = {} BY <2>2, <2>3
  <2>8. Cardinality(N) = Cardinality(S) + Cardinality(P)
    <3>1. Cardinality(N) = Cardinality(S) + Cardinality(P) - Cardinality(S \cap P)
      BY <2>4, <2>5, <2>7, FS_Union
    <3>2. Cardinality(S \cap P) = 0 BY <2>7, FS_EmptySet
    <3> QED BY <2>4, <2>6, <3>1, <3>2
  <2>9. faults = 0 /\ c \in used => Owner(c) BY <2>1 DEF Kept
  <2> QED BY <2>4, <2>5, <2>6, <2>8, <2>9
<1> QED BY <1>1, InitLInv, NextLInv, PTL DEF Spec
-----------------------------------------------------------------------------
(* Names.                                                                   *)

Name(o) == NewPath(o).name
Naming == {"extend", "lfn", "entry"}

\* Nothing in the directory has the short name yet.
Unique(o) == \A i : IsEntry(o.dir, i) => dirs[o.dir][i].alias # o.alias

\* A short name that was chosen, or found to be free, still is.
Spare(o) ==
  o.pc \in Naming =>
    /\ o.alias \notin Long
    /\ Name(o) \in Long \/ (Begun(o) = "entry" /\ o.alias = Name(o))
    /\ Name(o) \in Long \/ o.checked = "no" => Unique(o)

ShortsAreShort == \A D, i : IsEntry(D, i) => dirs[D][i].alias \notin Long
ShortsDiffer ==
  \A D, i, j : IsEntry(D, i) /\ IsEntry(D, j) /\ dirs[D][i].alias = dirs[D][j].alias => i = j
Shorts == ShortsAreShort /\ ShortsDiffer /\ \A t \in Tasks : Spare(op[t])

\* A long name stands before the entry that it is of, or that its writer will put there.
LongAt(D, i) == Place(D, i) /\ dirs[D][i].kind = "lfn"
Pair(D, i) == LongAt(D, i) /\ IsEntry(D, i + 1)
WriterOf(t, D, i) ==
  op[t].pc = "entry" /\ op[t].dir = D /\ op[t].slot = i + 1
Titled(D, i) ==
  LET l == dirs[D][i] IN
  /\ l.name \in Long
  /\ \/ IsEntry(D, i + 1) /\ dirs[D][i + 1].alias = l.alias
     \/ \E t \in Tasks : WriterOf(t, D, i) /\ op[t].alias = l.alias /\ Name(op[t]) = l.name
LongsAreTitles == \A D, i : LongAt(D, i) => Titled(D, i)
LongsDiffer ==
  \A D, i, j : Pair(D, i) /\ Pair(D, j) /\ dirs[D][i].name = dirs[D][j].name => i = j

\* Who removes an entry has removed its long name.
Untitled(o, f) == o.pc = "erase" => ~ LongAt(f.dir, f.slot - 1)

\* The search has not met the long name that is to be made.
Unmet(o) ==
  /\ o.pc \in {"claim"} \cup Creating /\ Name(o) \in Long => o.seen.at = {}
  /\ o.phase \in {"src", "srcdir"} => o.goal.at = {}
  /\ o.phase = "dst" /\ o.pc = "dir" => o.seen.at = {}
Longs ==
  /\ LongsAreTitles /\ LongsDiffer
  /\ \A t \in Tasks : Untitled(op[t], file[t]) /\ Unmet(op[t])

LEMMA NewAlias ==
  ASSUME Good, NEW t \in Tasks, op[t].pc = "entry" PROVE NewEntry(t).alias = op[t].alias
<1>1. Fn(op[t]) \in {"open", "mkdir", "move"} BY NewEntryIs
<1> QED BY <1>1 DEF NewEntry, Entry

\* An entry has had its short name before, or is the new one.
LEMMA EntryBack ==
  ASSUME Good, TInv', NEW t \in Tasks, StepOK(t), NEW D, NEW i, IsEntry(D, i)'
  PROVE  \/ IsEntry(D, i) /\ dirs'[D][i].alias = dirs[D][i].alias
         \/ /\ ~ IsEntry(D, i) /\ op[t].pc = "entry" /\ D = op[t].dir /\ i = op[t].slot
            /\ dirs'[D][i].alias = op[t].alias
<1>1. Place(D, i) /\ dirs'[D][i].kind = "entry" BY SamePlaces DEF IsEntry, Good
<1>2. End.kind = "end" /\ Deleted.kind = "deleted" /\ Dots.kind = "dots" BY DEF End, Deleted, Dots
<1>3. dirs'[D][i] = dirs[D][i] \/ Filled(t, D, i) \/ Written(t, D, i)
  BY <1>1, <1>2 DEF StepOK, Effect, Dotted, Blanked, Dropped, Erased, Place
<1>4. CASE dirs'[D][i] = dirs[D][i] BY <1>1, <1>4 DEF IsEntry
<1>5. CASE Filled(t, D, i) BY <1>1, <1>5, NewAlias DEF Filled, FreeAt, IsEntry
<1>6. CASE Written(t, D, i)
  <2>1. op[t].pc \in {"enter", "detach", "size"} /\ AtFile(t, D, i) BY <1>6 DEF Written
  <2>2. Strong(t) /\ HandleNamed(t) BY <2>1, Strongs, GoodTask DEF World
  <2>3. IsEntry(D, i) BY <2>1, <2>2 DEF HandleNamed, Strong, AtFile, Live
  <2> QED BY <1>6, <2>3 DEF Written
<1> QED BY <1>3, <1>4, <1>5, <1>6

LEMMA TakenIs ==
  ASSUME TInv, EndsAreLast(dirs), NEW D \in DOMAIN dirs, NEW a
  PROVE  Taken(dirs[D], a) <=> \E i : IsEntry(D, i) /\ dirs[D][i].alias = a
BY EntriesAre DEF Taken

LEMMA ActGoes == ASSUME TInv, NEW t \in Tasks, Acts(t) PROVE Goes(t)
BY SeekGoes, UnderGoes, FindGoes, MakeGoes, RemoveGoes, HandleGoes DEF Acts

\* What there is to do at some places.
LEMMA StepAt ==
  ASSUME NEW t, Acts(t)
  PROVE  /\ op[t].pc = "entry" => PutNew(t)
         /\ op[t].pc = "lfn" => PutLfn(t)
BY DEF Acts, Start, Write, Close, FindDir, Find, Claim, Plan, Extend, Unmade, PutLfn, PutNew, Undo,
       MakeDots, Join, Empty, Unlink, Quit, Relock, RmLfn, Erase, Target, Leave, Grow, Enter, Note, Cut,
       Detach, PutSize, At

\* The places that only four steps lead to.
LEMMA LockedFrom ==
  ASSUME Good, NEW t \in Tasks, Acts(t), op'[t].pc \in Naming \cup {"erase"}
  PROVE  Plan(t) \/ Extend(t) \/ PutLfn(t) \/ RmLfn(t)
<1>1. TInv /\ Goes(t) BY ActGoes DEF Good
<1>2. PICK q : Go(t, q) /\ (Held(q) => "DIR" \in Under(op[t])) BY <1>1 DEF Goes
<1>3. op'[t] = q BY <1>1, <1>2, GoIs DEF TInv
<1>4. "DIR" \in Under(op[t]) BY <1>2, <1>3 DEF Held, Naming
<1>5. op[t].pc \in {"plan", "extend", "unmade", "lfn", "entry", "empty", "quit", "rmlfn", "erase",
                    "unlink"}
  BY <1>4 DEF Under
<1>6. \/ Plan(t) \/ Extend(t) \/ PutLfn(t) \/ RmLfn(t)
      \/ Unmade(t) \/ PutNew(t) \/ Empty(t) \/ Quit(t) \/ Erase(t) \/ Unlink(t)
  <2>1. ~ (Start(t) \/ Write(t) \/ Close(t) \/ FindDir(t) \/ Find(t) \/ Claim(t))
    BY <1>5 DEF Start, Write, Close, FindDir, Find, Claim, At
  <2>2. ~ (Undo(t) \/ MakeDots(t) \/ Join(t) \/ Target(t) \/ Leave(t) \/ Relock(t))
    BY <1>5 DEF Undo, MakeDots, Join, Target, Leave, Relock, At
  <2>3. ~ (Grow(t) \/ Enter(t) \/ Note(t) \/ Cut(t) \/ Detach(t) \/ PutSize(t))
    BY <1>5 DEF Grow, Enter, Note, Cut, Detach, PutSize, At
  <2> QED BY <2>1, <2>2, <2>3 DEF Acts
<1>7. ASSUME NEW p, p \notin Naming \cup {"erase"}, To(t, p) PROVE FALSE
  BY <1>1, <1>7, ToIs
<1>8. ~ Go(t, Idle) BY <1>1, GoIs, IdleIs DEF TInv, Naming
<1>9. CASE Empty(t) \/ Quit(t) \/ Erase(t) \/ Unlink(t)
  <2>1. To(t, "unlink") \/ To(t, "leave") \/ To(t, "rmlfn") \/ To(t, "quit") \/ Go(t, Idle)
    BY <1>9 DEF Empty, Quit, Erase, Unlink
  <2> QED BY <1>7, <1>8, <2>1 DEF Naming
<1>11. ~ Go(t, NotCreated(op[t]))
  <2>1. PICK p : p = IF Fn(op[t]) = "move" THEN "leave" ELSE "undo" OBVIOUS
  <2>2. Go(t, NotCreated(op[t])) => To(t, p) BY <2>1 DEF NotCreated, To
  <2> QED BY <1>7, <2>1, <2>2 DEF Naming
<1>10. CASE PutNew(t)
  <2>1. PICK o : o = op[t] OBVIOUS
  <2>2. IsOp(o) /\ op[t].pc = "entry" BY <1>10, <2>1, GoodTask DEF TaskOK, PutNew, At
  <2>3. Fn(o) \in {"open", "mkdir", "move"} BY <2>1, <2>2, NewEntryIs
  <2>4. PICK r : r = AfterNew(o, NewEntry(t)) OBVIOUS
  <2>5. Go(t, r) \/ Go(t, Idle) \/ Go(t, NotCreated(o)) BY <1>10, <2>1, <2>4 DEF PutNew, AfterNew
  <2>6. ~ Go(t, NotCreated(o)) BY <1>11, <2>1
  <2>7. r.pc \notin Naming \cup {"erase"}
    <3>1. CASE Fn(o) = "open"
      <4>1. r.pc = "join" BY <2>2, <2>4, <3>1, AfterNewOpen
      <4> QED BY <4>1 DEF Naming
    <3>2. CASE Fn(o) # "open"
      <4>1. PICK p \in {"dot", "made"} : r = [o EXCEPT !.pc = p] BY <2>3, <2>4, <3>2 DEF AfterNew
      <4>2. r.pc = p BY <2>2, <4>1, PcIs
      <4> QED BY <4>1, <4>2 DEF Naming
    <3> QED BY <3>1, <3>2
  <2> QED BY <1>1, <1>8, <2>5, <2>6, <2>7, GoIs DEF TInv
<1> QED BY <1>6, <1>9, <1>10, <1>11 DEF Unmade

\* What a creator has chosen.
LEMMA PlanIs ==
  ASSUME Good, NEW t \in Tasks, Plan(t), strays' = {}, op'[t].pc \in Naming,
         NEW o, o = op[t], NEW q, q = op'[t]
  PROVE  /\ op[t].pc = "plan" /\ dirs' = dirs /\ file' = file
         /\ q.call = o.call /\ q.phase = o.phase /\ q.dir = o.dir /\ q.goal = o.goal
         /\ q.checked = o.checked /\ o.dir \in DOMAIN dirs /\ Begun(q) = Making(o)
         /\ Choice(o, dirs[o.dir], Name(o), q.alias, q.seen)
<1>1. op[t].pc = "plan" /\ file' = file /\ dirs' = dirs /\ TInv BY DEF Plan, At, Good
<1>2. TaskOK(o, file[t]) /\ IsOp(o) BY GoodTask DEF TaskOK
<1>3. o.dir \in DOMAIN dirs
  BY <1>1, <1>2, Shape DEF TaskOK, FnsAt, IsOp, Creating
<1>4. ~ Go(t, NotCreated(o))
  <2>1. PICK r : r = IF Fn(o) = "move" THEN "leave" ELSE "undo" OBVIOUS
  <2>2. Go(t, NotCreated(o)) => To(t, r) BY <2>1 DEF NotCreated, To
  <2>3. To(t, r) => op'[t].pc = r BY <1>1, ToIs
  <2> QED BY <2>1, <2>2, <2>3 DEF Naming
<1>5. PICK last, a, se : Go(t, Chosen(o, last, a, se)) /\ Choice(o, dirs[o.dir], Name(o), a, se)
  BY <1>2, <1>4, PlanShape DEF Name
<1>6. PICK p : p = IF last > Room(o.dir) THEN "extend" ELSE Making(o) OBVIOUS
<1>7. q = [o EXCEPT !.pc = p, !.slot = last - 1, !.alias = a, !.seen = se]
  BY <1>1, <1>5, <1>6, GoIs DEF TInv, Chosen
<1>8. q = [call |-> o.call, phase |-> o.phase, pc |-> p, dir |-> o.dir, slot |-> last - 1,
           ent |-> o.ent, new |-> o.new, free |-> o.free, checked |-> o.checked,
           alias |-> a, seen |-> se, goal |-> o.goal]
  BY <1>2, <1>7 DEF IsOp
<1>9. Making(q) = Making(o) /\ Making(o) # "extend" BY <1>8 DEF Making, NewPath, Fn
<1> QED BY <1>1, <1>3, <1>5, <1>6, <1>8, <1>9 DEF Begun

LEMMA PlanSpare ==
  ASSUME Good, NEW t \in Tasks, Plan(t), strays' = {}, op'[t].pc \in Naming
  PROVE  Spare(op[t])'
<1>1. TInv /\ EndsAreLast(dirs) BY DEF Good, Sound
<1>2. PICK o, q : o = op[t] /\ q = op'[t] OBVIOUS
<1>3. /\ dirs' = dirs /\ q.call = o.call /\ q.dir = o.dir
      /\ q.checked = o.checked /\ o.dir \in DOMAIN dirs /\ Begun(q) = Making(o)
      /\ Choice(o, dirs[o.dir], Name(o), q.alias, q.seen)
  BY <1>2, PlanIs
<1>4. Name(q) = Name(o) BY <1>3 DEF Name, NewPath, Fn
<1>5. PICK s : s = dirs[o.dir] OBVIOUS
<1>6. ASSUME Name(o) \in Long PROVE q.alias \notin Long /\ ~ Taken(s, q.alias)
  BY <1>3, <1>5, <1>6, NamesAssumption DEF Choice
<1>7. ~ Taken(s, q.alias) => \A i : IsEntry(q.dir, i) => dirs[q.dir][i].alias # q.alias
  BY <1>1, <1>3, <1>5, TakenIs
<1>8. ~ Taken(s, q.alias) => Unique(op[t])'
  BY <1>2, <1>3, <1>7 DEF Unique, IsEntry, Place
<1>9. Name(o) \notin Long => q.alias = Name(o) /\ (q.checked = "no" => ~ Taken(s, q.alias))
  BY <1>3, <1>5 DEF Choice
<1>10. Name(o) \notin Long => Begun(q) = "entry" BY <1>3 DEF Making, Name
<1> QED BY <1>2, <1>4, <1>6, <1>8, <1>9, <1>10 DEF Spare, Name, NewPath, Fn, Begun, Making

\* A directory that is extended is entered next.
LEMMA ExtendIs ==
  ASSUME Good, NEW t \in Tasks, Extend(t), NEW o, o = op[t], NEW q, q = op'[t]
  PROVE  /\ op[t].pc = "extend" /\ dirs' = dirs /\ file' = file
         /\ q.call = o.call /\ q.phase = o.phase /\ q.dir = o.dir /\ q.goal = o.goal
         /\ q.checked = o.checked /\ q.alias = o.alias /\ q.seen = o.seen
         /\ q.pc \in {Making(o), "unmade"}
<1>1. op[t].pc = "extend" /\ file' = file /\ dirs' = dirs /\ TInv BY DEF Extend, At, Good
<1>2. IsOp(o) BY GoodTask DEF TaskOK
<1>3. PICK p \in {Making(o), "unmade"} : To(t, p) BY DEF Extend
<1>4. q = [o EXCEPT !.pc = p] BY <1>1, <1>3, GoIs DEF TInv, To
<1>5. q = [call |-> o.call, phase |-> o.phase, pc |-> p, dir |-> o.dir, slot |-> o.slot,
           ent |-> o.ent, new |-> o.new, free |-> o.free, checked |-> o.checked,
           alias |-> o.alias, seen |-> o.seen, goal |-> o.goal]
  BY <1>2, <1>4 DEF IsOp
<1> QED BY <1>1, <1>3, <1>5

LEMMA PutLfnIs ==
  ASSUME Good, NEW t \in Tasks, PutLfn(t), strays' = {}, op'[t].pc \in Naming \/ dirs' # dirs,
         NEW o, o = op[t]
  PROVE  /\ op[t].pc = "lfn" /\ Put(o.dir, o.slot - 1, Lfn(Name(o), o.alias)) /\ file' = file
         /\ op'[t].pc = "entry" /\ op'[t].call = o.call /\ op'[t].phase = o.phase
         /\ op'[t].dir = o.dir /\ op'[t].slot = o.slot /\ op'[t].checked = o.checked
         /\ op'[t].alias = o.alias /\ op'[t].seen = o.seen /\ op'[t].goal = o.goal
<1>1. op[t].pc = "lfn" /\ file' = file /\ TInv BY DEF PutLfn, At, Good
<1>2. IsOp(o) BY GoodTask DEF TaskOK
<1>3. ~ (Go(t, NotCreated(o)) /\ dirs' = dirs)
  <2>1. PICK r : r = IF Fn(o) = "move" THEN "leave" ELSE "undo" OBVIOUS
  <2>2. Go(t, NotCreated(o)) => To(t, r) BY <2>1 DEF NotCreated, To
  <2>3. To(t, r) => op'[t].pc = r BY <1>1, ToIs
  <2> QED BY <2>1, <2>2, <2>3 DEF Naming
<1>4. ~ Stray({"nameless"}) BY NoStray
<1>5. Put(o.dir, o.slot - 1, Lfn(Name(o), o.alias)) /\ To(t, "entry")
  BY <1>3, <1>4 DEF PutLfn, Name
<1>6. PICK q : q = [o EXCEPT !.pc = "entry"] OBVIOUS
<1>7. op'[t] = q BY <1>1, <1>5, <1>6, GoIs DEF To, TInv
<1> QED BY <1>1, <1>2, <1>5, <1>6, <1>7, PcIs

LEMMA PutNewIs ==
  ASSUME Good, NEW t \in Tasks, PutNew(t), strays' = {}, dirs' # dirs, NEW o, o = op[t]
  PROVE  /\ op[t].pc = "entry" /\ Put(o.dir, o.slot, NewEntry(t))
         /\ ~ Outdated(o.dir, Name(o), o.seen)
         /\ o.checked = "no" \/ ~ Taken(dirs[o.dir], Name(o))
<1>1. ~ Stray({"failed"}) BY NoStray
<1>2. ASSUME NEW n, Stray(Late(o, n))
      PROVE  ~ Outdated(o.dir, n, o.seen) /\ (o.checked = "no" \/ ~ Taken(dirs[o.dir], n))
  BY <1>2, NotLate
<1> QED BY <1>1, <1>2 DEF PutNew, At, Name

\* A short name that is put in a directory is new there.
LEMMA NewUnique ==
  ASSUME Good, NEW t \in Tasks, Acts(t), Spare(op[t]), op[t].pc = "entry", strays' = {}, dirs' # dirs
  PROVE  Unique(op[t])
<1>1. PICK o : o = op[t] OBVIOUS
<1>2. TInv /\ EndsAreLast(dirs) /\ TaskOK(o, file[t]) BY <1>1, GoodTask DEF Good, Sound
<1>3. PutNew(t) BY StepAt
<1>4. o.checked = "no" \/ ~ Taken(dirs[o.dir], Name(o)) BY <1>1, <1>3, PutNewIs
<1>5. o.dir \in DOMAIN dirs BY <1>1, <1>2, Shape DEF TaskOK, FnsAt, IsOp, Creating
<1>6. CASE Name(o) \in Long \/ o.checked = "no" BY <1>1, <1>6 DEF Spare, Naming
<1>7. CASE Name(o) \notin Long /\ o.checked # "no"
  <2>1. o.alias = Name(o) BY <1>1, <1>7 DEF Spare, Naming
  <2> QED BY <1>1, <1>2, <1>4, <1>5, <1>7, <2>1, TakenIs DEF Unique
<1> QED BY <1>6, <1>7

\* Nobody else makes an entry while a creator is between its choice and its entry.
LEMMA SpareStays ==
  ASSUME Good, TInv', NEW t \in Tasks, StepOK(t), NEW u \in Tasks \ {t}, Spare(op[u])
  PROVE  Spare(op[u])'
<1>1. op'[u] = op[u] BY DEF StepOK, OthersStay
<1>2. PICK o : o = op[u] OBVIOUS
<1>3. ASSUME o.pc \in Naming, Unique(o)
      PROVE  \A i : IsEntry(o.dir, i)' => dirs'[o.dir][i].alias # o.alias
  <2> SUFFICES ASSUME NEW D, D = o.dir, NEW i, IsEntry(D, i)' PROVE dirs'[D][i].alias # o.alias
    BY DEF IsEntry, Place
  <2>1. op[t].pc # "entry"
    <3> SUFFICES ASSUME op[t].pc = "entry" PROVE FALSE OBVIOUS
    <3>1. Held(op[t]) /\ Held(op[u]) BY <1>2, <1>3 DEF Held, Naming
    <3> QED BY <3>1, HeldAlone DEF Good
  <2>2. IsEntry(D, i) /\ dirs'[D][i].alias = dirs[D][i].alias BY <2>1, EntryBack
  <2> QED BY <1>3, <2>2 DEF Unique
<1>4. Unique(o) /\ o.pc \in Naming => Unique(op[u])'
  BY <1>1, <1>2, <1>3 DEF Unique, IsEntry, Place
<1> QED BY <1>1, <1>2, <1>4 DEF Spare, Name, NewPath, Fn, Begun, Making

LEMMA SpareOn ==
  ASSUME Good, TInv', NEW t \in Tasks, Acts(t), StepOK(t), strays' = {}, Spare(op[t])
  PROVE  Spare(op[t])'
<1> SUFFICES ASSUME op'[t].pc \in Naming PROVE Spare(op[t])' BY DEF Spare
<1>1. Plan(t) \/ Extend(t) \/ PutLfn(t) \/ RmLfn(t) BY LockedFrom
<1>2. ~ RmLfn(t)
  <2>1. RmLfn(t) => To(t, "erase") \/ To(t, "leave") BY DEF RmLfn
  <2>2. To(t, "erase") => op'[t].pc = "erase" BY ToIs DEF Good
  <2>3. To(t, "leave") => op'[t].pc = "leave" BY ToIs DEF Good
  <2> QED BY <2>1, <2>2, <2>3 DEF Naming
<1>3. CASE PutLfn(t)
  <2>1. PICK o, q : o = op[t] /\ q = op'[t] OBVIOUS
  <2>2. /\ op[t].pc = "lfn" /\ q.pc = "entry" /\ q.call = o.call /\ q.dir = o.dir
        /\ q.checked = o.checked /\ q.alias = o.alias
    BY <1>3, <2>1, PutLfnIs
  <2>3. Name(q) = Name(o) BY <2>2 DEF Name, NewPath, Fn
  <2>4. o.alias \notin Long /\ Name(o) \in Long /\ Unique(o) BY <2>1, <2>2 DEF Spare, Naming, Begun
  <2>5. \A D, i : D = o.dir /\ IsEntry(D, i)' => dirs'[D][i].alias # o.alias
    BY <2>1, <2>2, <2>4, EntryBack DEF Unique
  <2>6. Unique(op[t])' BY <2>1, <2>2, <2>5 DEF Unique, IsEntry, Place
  <2> QED BY <2>1, <2>2, <2>3, <2>4, <2>6 DEF Spare, Name, NewPath, Fn
<1>4. CASE Extend(t)
  <2>1. PICK o, q : o = op[t] /\ q = op'[t] OBVIOUS
  <2>2. /\ op[t].pc = "extend" /\ dirs' = dirs /\ q.pc = Making(o) /\ q.call = o.call
        /\ q.dir = o.dir /\ q.checked = o.checked /\ q.alias = o.alias
    BY <1>4, <2>1, ExtendIs DEF Naming
  <2>3. Name(q) = Name(o) BY <2>2 DEF Name, NewPath, Fn
  <2>4. /\ o.alias \notin Long
        /\ Name(o) \in Long \/ (Making(o) = "entry" /\ o.alias = Name(o))
        /\ Name(o) \in Long \/ o.checked = "no" => Unique(o)
    BY <2>1, <2>2 DEF Spare, Naming, Begun
  <2>5. Unique(o) => Unique(op[t])' BY <2>1, <2>2 DEF Unique, IsEntry, Place
  <2> QED BY <2>1, <2>2, <2>3, <2>4, <2>5 DEF Spare, Name, NewPath, Fn, Begun
<1> QED BY <1>1, <1>2, <1>3, <1>4, PlanSpare

LEMMA ShortsStay ==
  ASSUME Good, TInv', Shorts, NEW t \in Tasks, Acts(t), StepOK(t), strays' = {} PROVE Shorts'
<1>1. \A u \in Tasks : Spare(op[u])' BY SpareStays, SpareOn DEF Shorts
<1>2. PICK o : o = op[t] OBVIOUS
<1>3. ASSUME NEW D, NEW i, IsEntry(D, i)', ~ IsEntry(D, i)
      PROVE  /\ D = o.dir /\ i = o.slot /\ dirs'[D][i].alias = o.alias /\ o.alias \notin Long
             /\ \A j : IsEntry(D, j) => dirs[D][j].alias # o.alias
  <2>1. op[t].pc = "entry" /\ D = o.dir /\ i = o.slot /\ dirs'[D][i].alias = o.alias
    BY <1>2, <1>3, EntryBack
  <2>2. dirs' # dirs
    <3>1. Place(D, i)' <=> Place(D, i) BY SamePlaces DEF Good
    <3> QED BY <1>3, <3>1 DEF IsEntry
  <2>3. Unique(o) /\ o.alias \notin Long BY <1>2, <2>1, <2>2, NewUnique DEF Shorts, Spare, Naming
  <2> QED BY <2>1, <2>3 DEF Unique
<1>4. ASSUME NEW D, NEW i, IsEntry(D, i)', IsEntry(D, i) PROVE dirs'[D][i].alias = dirs[D][i].alias
  BY <1>4, EntryBack
<1>5. ASSUME NEW D, NEW i, IsEntry(D, i)' PROVE dirs'[D][i].alias \notin Long
  BY <1>3, <1>4, <1>5 DEF Shorts, ShortsAreShort
<1>6. ASSUME NEW D, NEW i, NEW j, IsEntry(D, i)', IsEntry(D, j)', dirs'[D][i].alias = dirs'[D][j].alias
      PROVE  i = j
  <2>1. CASE IsEntry(D, i) /\ IsEntry(D, j) BY <1>4, <1>6, <2>1 DEF Shorts, ShortsDiffer
  <2>2. CASE ~ IsEntry(D, i) /\ ~ IsEntry(D, j) BY <1>3, <1>6, <2>2
  <2>3. CASE ~ IsEntry(D, i) /\ IsEntry(D, j) BY <1>3, <1>4, <1>6, <2>3
  <2>4. CASE IsEntry(D, i) /\ ~ IsEntry(D, j) BY <1>3, <1>4, <1>6, <2>4
  <2> QED BY <2>1, <2>2, <2>3, <2>4
<1>7. ShortsAreShort' BY <1>5 DEF ShortsAreShort
<1>8. ShortsDiffer' BY <1>6 DEF ShortsDiffer
<1> QED BY <1>1, <1>7, <1>8 DEF Shorts

\* A long name was there before, or is that of a new entry.
LEMMA LongBack ==
  ASSUME Good, TInv', NEW t \in Tasks, Acts(t), StepOK(t), strays' = {}, NEW D, NEW i, LongAt(D, i)'
  PROVE  \/ LongAt(D, i) /\ dirs'[D][i] = dirs[D][i]
         \/ /\ PutLfn(t) /\ dirs' # dirs /\ op[t].pc = "lfn"
            /\ D = op[t].dir /\ i + 1 = op[t].slot
            /\ dirs'[D][i] = Lfn(Name(op[t]), op[t].alias) /\ ~ IsEntry(D, i + 1)
<1>1. Place(D, i) /\ dirs'[D][i].kind = "lfn" BY SamePlaces DEF LongAt, Good
<1>2. End.kind = "end" /\ Deleted.kind = "deleted" /\ Dots.kind = "dots" BY DEF End, Deleted, Dots
<1>3. op[t].pc = "entry" => NewEntry(t).kind = "entry" BY NewEntryIs
<1>4. \/ dirs'[D][i] = dirs[D][i]
      \/ op[t].pc = "lfn" /\ D = op[t].dir /\ FreeAt(D, i)
  BY <1>1, <1>2, <1>3 DEF StepOK, Effect, Filled, Dotted, Blanked, Written, Dropped, Erased, Place
<1>5. CASE dirs'[D][i] = dirs[D][i] BY <1>1, <1>5 DEF LongAt
<1>6. CASE op[t].pc = "lfn" /\ D = op[t].dir /\ FreeAt(D, i) /\ dirs'[D][i] # dirs[D][i]
  <2>1. PICK o : o = op[t] OBVIOUS
  <2>2. PutLfn(t) BY <1>6, StepAt
  <2>3. dirs' # dirs BY <1>6
  <2>4. Put(o.dir, o.slot - 1, Lfn(Name(o), o.alias)) BY <2>1, <2>2, <2>3, PutLfnIs
  <2>5. /\ i = o.slot - 1 /\ dirs'[D][i] = Lfn(Name(o), o.alias)
    BY <1>1, <1>6, <2>1, <2>4, PutPlaces DEF Good
  <2>6. o.slot \in Int /\ Planned(o) BY <2>1, GoodTask DEF TaskOK, IsOp, World
  <2>7. i + 1 = o.slot BY <2>5, <2>6
  <2>8. ~ IsEntry(D, i + 1) BY <1>6, <2>1, <2>6, <2>7 DEF Planned, Begun, IsEntry
  <2> QED BY <1>6, <2>1, <2>2, <2>3, <2>5, <2>7, <2>8
<1> QED BY <1>1, <1>4, <1>5, <1>6

\* The writer of an entry has its slot for itself.
LEMMA WriterIs ==
  ASSUME Good, NEW t \in Tasks, NEW D, NEW i, WriterOf(t, D, i)
  PROVE  /\ FreeAt(D, i + 1) /\ ~ IsEntry(D, i + 1)
         /\ \A u \in Tasks : op[u].pc \in Naming => u = t
<1>1. FreeAt(D, i + 1) BY GoodTask DEF World, Planned, Begun, WriterOf
<1>2. ASSUME NEW u \in Tasks, op[u].pc \in Naming PROVE u = t
  <2>1. Held(op[t]) /\ Held(op[u]) BY <1>2 DEF Held, WriterOf, Naming
  <2> QED BY <2>1, HeldAlone DEF Good
<1> QED BY <1>1, <1>2 DEF FreeAt, IsEntry

\* Both of a pair were there before, or the entry has just been put behind its name.
LEMMA PairBack ==
  ASSUME Good, TInv', LongsAreTitles, NEW t \in Tasks, Acts(t), StepOK(t), strays' = {},
         NEW D, NEW i, Pair(D, i)'
  PROVE  /\ LongAt(D, i) /\ dirs'[D][i].name = dirs[D][i].name
         /\ \/ Pair(D, i)
            \/ /\ op[t].pc = "entry" /\ D = op[t].dir /\ i + 1 = op[t].slot /\ dirs' # dirs
               /\ dirs[D][i].name = Name(op[t]) /\ Name(op[t]) \in Long
<1>1. LongAt(D, i)' /\ IsEntry(D, i + 1)' BY DEF Pair
<1>2. \/ IsEntry(D, i + 1)
      \/ ~ IsEntry(D, i + 1) /\ op[t].pc = "entry" /\ D = op[t].dir /\ i + 1 = op[t].slot
  BY <1>1, EntryBack
<1>3. LongAt(D, i) /\ dirs'[D][i] = dirs[D][i]
  <2>1. \/ LongAt(D, i) /\ dirs'[D][i] = dirs[D][i]
        \/ op[t].pc = "lfn" /\ ~ IsEntry(D, i + 1)
    BY <1>1, LongBack
  <2> QED BY <1>2, <2>1
<1>4. CASE IsEntry(D, i + 1) BY <1>3, <1>4 DEF Pair
<1>5. CASE ~ IsEntry(D, i + 1)
  <2>1. op[t].pc = "entry" /\ D = op[t].dir /\ i + 1 = op[t].slot BY <1>2, <1>5
  <2>2. Titled(D, i) BY <1>3 DEF LongsAreTitles
  <2>3. PICK u \in Tasks : WriterOf(u, D, i) /\ Name(op[u]) = dirs[D][i].name
    BY <1>5, <2>2 DEF Titled
  <2>4. u = t BY <2>1, <2>3, WriterIs DEF Naming
  <2>5. dirs' # dirs
    <3>1. Place(D, i + 1)' <=> Place(D, i + 1) BY SamePlaces DEF Good
    <3> QED BY <1>1, <1>5, <3>1 DEF IsEntry
  <2> QED BY <1>3, <2>1, <2>2, <2>3, <2>4, <2>5 DEF Titled
<1> QED BY <1>4, <1>5

\* An entry goes by the long name right before it, or else by its short name.
LEMMA VisibleIs ==
  ASSUME Good, Shorts, LongsAreTitles, NEW D, NEW j, IsEntry(D, j)
  PROVE  /\ LongAt(D, j - 1) => Visible(dirs[D], j) = dirs[D][j - 1].name
         /\ ~ LongAt(D, j - 1) => Visible(dirs[D], j) = dirs[D][j].alias
<1>1. PICK s : s = dirs[D] OBVIOUS
<1>2. TInv /\ j \in Nat /\ D \in DOMAIN dirs /\ j \in DOMAIN s
  BY <1>1, Shape DEF Good, IsEntry, Place
<1>3. DOMAIN s = 0 .. SlotsOf(D) - 1 /\ SlotsOf(D) \in Nat BY <1>1, <1>2, Shape
<1>4. \A k \in 0 .. j - 1 : Place(D, k) BY <1>1, <1>2, <1>3 DEF Place
<1>5. ASSUME LongAt(D, j - 1) PROVE s[j - 1].alias = s[j].alias
  <2>1. (j - 1) + 1 = j BY <1>2
  <2>2. ~ \E t \in Tasks : WriterOf(t, D, j - 1) BY <2>1, WriterIs
  <2>3. Titled(D, j - 1) BY <1>5 DEF LongsAreTitles
  <2> QED BY <1>1, <2>1, <2>2, <2>3 DEF Titled
<1>6. ASSUME NEW k \in 0 .. j - 1, s[k].kind = "lfn", s[k].alias = s[j].alias,
             \A m \in k + 1 .. j - 1 : s[m] = Deleted
      PROVE  k = j - 1
  <2>1. LongAt(D, k) BY <1>1, <1>4, <1>6 DEF LongAt
  <2>2. Titled(D, k) BY <2>1 DEF LongsAreTitles
  <2>3. ~ \E t \in Tasks : WriterOf(t, D, k) /\ op[t].alias = s[k].alias /\ Name(op[t]) = s[k].name
    <3> SUFFICES ASSUME NEW t \in Tasks, WriterOf(t, D, k), op[t].alias = s[k].alias,
                        Name(op[t]) = s[k].name
                 PROVE  FALSE
      OBVIOUS
    <3>1. Name(op[t]) \in Long BY <1>1, <2>2 DEF Titled
    <3>2. Unique(op[t]) BY <3>1 DEF Shorts, Spare, WriterOf, Naming
    <3> QED BY <1>1, <1>6, <3>2 DEF Unique, WriterOf
  <2>4. IsEntry(D, k + 1) BY <1>1, <2>2, <2>3 DEF Titled
  <2>5. s[k + 1].kind = "entry" BY <1>1, <2>4 DEF IsEntry
  <2>6. Deleted.kind # "entry" BY DEF Deleted
  <2>7. k + 1 \notin k + 1 .. j - 1 BY <1>6, <2>5, <2>6
  <2> QED BY <1>2, <2>7
<1>7. CASE LongAt(D, j - 1)
  <2>1. j - 1 \in 0 .. j - 1 BY <1>1, <1>2, <1>3, <1>7 DEF LongAt, Place
  <2>2. s[j - 1].kind = "lfn" BY <1>1, <1>7 DEF LongAt
  <2>3. \A m \in (j - 1) + 1 .. j - 1 : FALSE BY <1>2
  <2>4. LongOf(s, j) = {s[j - 1].name}
    <3>1. s[j - 1].name \in LongOf(s, j) BY <1>5, <1>7, <2>1, <2>2, <2>3 DEF LongOf
    <3>2. \A n \in LongOf(s, j) : n = s[j - 1].name BY <1>6 DEF LongOf
    <3> QED BY <3>1, <3>2
  <2>5. Visible(s, j) = CHOOSE n \in {s[j - 1].name} : TRUE BY <2>4 DEF Visible
  <2> QED BY <1>1, <1>7, <2>5
<1>8. CASE ~ LongAt(D, j - 1)
  <2>1. LongOf(s, j) = {}
    <3> SUFFICES ASSUME NEW k \in 0 .. j - 1, s[k].kind = "lfn", s[k].alias = s[j].alias,
                        \A m \in k + 1 .. j - 1 : s[m] = Deleted
                 PROVE  FALSE
      BY DEF LongOf
    <3>1. k = j - 1 BY <1>6
    <3> QED BY <1>1, <1>4, <1>8, <3>1 DEF LongAt
  <2> QED BY <1>1, <1>8, <2>1 DEF Visible
<1> QED BY <1>7, <1>8

LEMMA LongsDifferStays ==
  ASSUME Good, TInv', Shorts, LongsAreTitles, LongsDiffer,
         NEW t \in Tasks, Acts(t), StepOK(t), strays' = {}, Unmet(op[t])
  PROVE  LongsDiffer'
<1> SUFFICES ASSUME NEW D, NEW i, NEW j, Pair(D, i)', Pair(D, j)', dirs'[D][i].name = dirs'[D][j].name
             PROVE  i = j
  BY DEF LongsDiffer
<1>1. PICK o : o = op[t] OBVIOUS
<1>2. dirs[D][i].name = dirs[D][j].name /\ LongAt(D, i) /\ LongAt(D, j) BY PairBack
<1>3. i \in Nat /\ j \in Nat BY <1>2, Shape DEF LongAt, Good
<1>4. ASSUME NEW k, NEW l, k \in Nat, l \in Nat, Pair(D, k), Pair(D, l)', ~ Pair(D, l),
             dirs[D][k].name = dirs[D][l].name
      PROVE  FALSE
  <2>1. /\ o.pc = "entry" /\ D = o.dir /\ dirs' # dirs
        /\ dirs[D][l].name = Name(o) /\ Name(o) \in Long
    BY <1>1, <1>4, PairBack
  <2>2. PutNew(t) BY <1>1, <2>1, StepAt
  <2>3. ~ Outdated(o.dir, Name(o), o.seen) BY <1>1, <2>1, <2>2, PutNewIs
  <2>4. o.seen.at = {} BY <1>1, <2>1 DEF Unmet, Creating
  <2>5. PICK m : m = k + 1 OBVIOUS
  <2>6. IsEntry(D, m) /\ m - 1 = k BY <1>4, <2>5 DEF Pair
  <2>7. Visible(dirs[D], m) = Name(o) BY <1>4, <2>1, <2>6, VisibleIs DEF Pair
  <2>8. m \in Entries(dirs[D]) BY <2>6, EntriesAre DEF Good, Sound, IsEntry, Place
  <2>9. m \in Named(dirs[D], Name(o)) BY <2>7, <2>8 DEF Named
  <2>10. Knowledge(o.dir, Name(o)) = o.seen BY <2>3 DEF Outdated
  <2>11. <<m, dirs[D][m]>> \in o.seen.at BY <2>1, <2>9, <2>10 DEF Knowledge
  <2> QED BY <2>4, <2>11
<1>5. CASE Pair(D, i) /\ Pair(D, j) BY <1>2, <1>5 DEF LongsDiffer
<1>6. CASE ~ Pair(D, i) /\ ~ Pair(D, j)
  <2>1. i + 1 = op[t].slot /\ j + 1 = op[t].slot BY <1>6, PairBack
  <2> QED BY <1>3, <2>1
<1>7. CASE Pair(D, i) /\ ~ Pair(D, j) BY <1>2, <1>3, <1>4, <1>7
<1>8. CASE ~ Pair(D, i) /\ Pair(D, j)
  <2>1. dirs[D][j].name = dirs[D][i].name BY <1>2
  <2> QED BY <1>3, <1>4, <1>8, <2>1
<1> QED BY <1>5, <1>6, <1>7, <1>8

\* What only the removal of its long name leads to.
LEMMA RmLfnIs ==
  ASSUME Good, NEW t \in Tasks, Acts(t), op'[t].pc = "erase", NEW f, f = file[t]
  PROVE  /\ RmLfn(t) /\ file'[t] = f /\ ~ (To(t, "leave") /\ Stray({"failed"}))
         /\ \A j : Place(f.dir, j) /\ dirs[f.dir][j].kind = "lfn"
                     /\ (\A k \in j .. f.slot - 1 : dirs[f.dir][k].kind = "lfn") /\ j \in 0 .. f.slot - 1
                   => dirs'[f.dir][j] = Deleted
         /\ \A j : Place(f.dir, j) => dirs'[f.dir][j] \in {dirs[f.dir][j], Deleted}
<1>1. TInv /\ IsOp(op[t]) BY GoodTask DEF Good, TaskOK
<1>2. Plan(t) \/ Extend(t) \/ PutLfn(t) \/ RmLfn(t) BY LockedFrom
<1>3. PICK o : o = op[t] OBVIOUS
<1>4. ~ Go(t, NotCreated(o))
  <2>1. PICK r : r = IF Fn(o) = "move" THEN "leave" ELSE "undo" OBVIOUS
  <2>2. Go(t, NotCreated(o)) => To(t, r) BY <1>3, <2>1 DEF NotCreated, To
  <2>3. To(t, r) => op'[t].pc = r BY <1>1, ToIs
  <2> QED BY <2>1, <2>2, <2>3
<1>5. ~ PutLfn(t)
  <2>1. PutLfn(t) => To(t, "entry") BY <1>3, <1>4 DEF PutLfn
  <2>2. To(t, "entry") => op'[t].pc = "entry" BY <1>1, ToIs
  <2> QED BY <2>1, <2>2
<1>6. ~ Plan(t)
  <2> SUFFICES ASSUME NEW last, NEW a, NEW se, Go(t, Chosen(o, last, a, se)) PROVE FALSE
    BY <1>1, <1>3, <1>4, PlanShape
  <2>1. PICK q : q = Chosen(o, last, a, se) OBVIOUS
  <2>2. q.pc \in {"extend", "lfn", "entry"} BY <1>1, <1>3, <2>1 DEF IsOp, Chosen, Making
  <2>3. Go(t, q) BY <2>1
  <2>4. op'[t] = q BY <1>1, <2>3, GoIs DEF TInv
  <2> QED BY <2>2, <2>4
<1>12. ~ Extend(t) BY <1>3, ExtendIs DEF Making
<1>7. RmLfn(t) BY <1>2, <1>5, <1>6, <1>12
<1>8. ~ To(t, "leave") BY <1>1, ToIs
<1>9. PICK long : long = {j \in 0 .. f.slot - 1 : \A k \in j .. f.slot - 1 : dirs[f.dir][k].kind = "lfn"}
  OBVIOUS
<1>10. file' = file
       /\ dirs' = [dirs EXCEPT ![f.dir] = [k \in DOMAIN @ |-> IF k \in long THEN Deleted ELSE @[k]]]
  BY <1>7, <1>8, <1>9 DEF RmLfn
<1>11. \A j : Place(f.dir, j) => dirs'[f.dir][j] = IF j \in long THEN Deleted ELSE dirs[f.dir][j]
  BY <1>10 DEF Place
<1> QED BY <1>7, <1>8, <1>9, <1>10, <1>11

LEMMA UntitledStays ==
  ASSUME Good, TInv', NEW t \in Tasks, Acts(t), StepOK(t), strays' = {},
         NEW u \in Tasks, Untitled(op[u], file[u])
  PROVE  Untitled(op[u], file[u])'
<1> SUFFICES ASSUME op'[u].pc = "erase", NEW D, D = file'[u].dir, NEW i, i = file'[u].slot - 1,
                    LongAt(D, i)'
             PROVE  FALSE
  BY DEF Untitled, LongAt, Place
<1>1. CASE u # t
  <2>1. op'[u] = op[u] /\ file'[u] = file[u] BY <1>1 DEF StepOK, OthersStay
  <2>2. ~ LongAt(D, i) BY <2>1 DEF Untitled
  <2>3. op[t].pc = "lfn" BY <2>2, LongBack
  <2>4. Held(op[t]) /\ Held(op[u]) BY <2>1, <2>3 DEF Held
  <2> QED BY <1>1, <2>4, HeldAlone DEF Good
<1>2. CASE u = t
  <2>1. PICK f : f = file[t] OBVIOUS
  <2>2. /\ RmLfn(t) /\ file'[t] = f
        /\ Place(f.dir, i) /\ dirs[f.dir][i].kind = "lfn"
             /\ (\A k \in i .. f.slot - 1 : dirs[f.dir][k].kind = "lfn") /\ i \in 0 .. f.slot - 1
             => dirs'[f.dir][i] = Deleted
    BY <1>2, <2>1, RmLfnIs
  <2>3. D = f.dir /\ i = f.slot - 1 /\ f.slot \in Int
    BY <1>2, <2>1, <2>2, GoodTask DEF TaskOK, IsFile
  <2>4. LongAt(D, i) /\ dirs'[D][i].kind = "lfn"
    <3>1. op[t].pc # "lfn" BY <2>2 DEF RmLfn, At
    <3> QED BY <3>1, LongBack DEF LongAt
  <2>5. i \in Nat BY <2>4, Shape DEF Good, LongAt
  <2>6. i \in 0 .. f.slot - 1 /\ \A k \in i .. f.slot - 1 : k = i BY <2>3, <2>5
  <2>7. dirs'[D][i] = Deleted BY <2>2, <2>3, <2>4, <2>6 DEF LongAt
  <2>8. Deleted.kind # "lfn" BY DEF Deleted
  <2> QED BY <2>4, <2>7, <2>8
<1> QED BY <1>1, <1>2

LEMMA TitlesStay ==
  ASSUME Good, TInv', LongsAreTitles, NEW t \in Tasks, Acts(t), StepOK(t), strays' = {}, faults' = 0,
         Spare(op[t]), Untitled(op[t], file[t])
  PROVE  LongsAreTitles'
<1> SUFFICES ASSUME NEW D, NEW i, LongAt(D, i)' PROVE Titled(D, i)' BY DEF LongsAreTitles
<1>1. PICK o : o = op[t] OBVIOUS
<1>2. TInv /\ ~ Fault BY NoFaultNow DEF Good
<1>3. CASE LongAt(D, i) /\ dirs'[D][i] = dirs[D][i]
  <2>1. Titled(D, i) BY <1>3 DEF LongsAreTitles
  <2>2. CASE IsEntry(D, i + 1) /\ dirs[D][i + 1].alias = dirs[D][i].alias
    <3>1. PICK j : j = i + 1 OBVIOUS
    <3>2. i \in Nat /\ j - 1 = i BY <1>2, <1>3, <3>1, Shape DEF LongAt
    <3>3. /\ End.kind = "end" /\ Deleted.kind = "deleted" /\ dirs'[D][i].kind = "lfn"
          /\ i \in DOMAIN dirs[D]
      BY <1>3 DEF End, Deleted, LongAt, Place
    <3>4. ~ Blanked(t, D, j) BY <3>3 DEF Blanked
    <3>5. ~ Erased(t, D, j)
      <4> SUFFICES ASSUME op[t].pc = "erase", D = file[t].dir, j = file[t].slot PROVE FALSE
        BY DEF Erased, AtFile
      <4>1. ~ LongAt(D, j - 1) BY DEF Untitled
      <4> QED BY <1>3, <3>2, <4>1
    <3>6. dirs'[D][j] = dirs[D][j] \/ Written(t, D, j)
      BY <2>2, <3>1, <3>4, <3>5 DEF StepOK, Effect, Filled, Dotted, FreeAt, Dropped, IsEntry
    <3>7. IsEntry(D, j)' /\ dirs'[D][j].alias = dirs[D][j].alias
      <4>1. Place(D, j)' BY <1>2, <2>2, <3>1, SamePlaces DEF IsEntry
      <4> QED BY <2>2, <3>1, <3>6, <4>1 DEF Written, IsEntry
    <3> QED BY <1>3, <2>1, <2>2, <3>1, <3>7 DEF Titled
  <2>3. ASSUME NEW u \in Tasks, WriterOf(u, D, i), op[u].alias = dirs[D][i].alias,
               Name(op[u]) = dirs[D][i].name
        PROVE  Titled(D, i)'
    <3>1. CASE u # t
      <4>1. op'[u] = op[u] BY <3>1 DEF StepOK, OthersStay
      <4>2. WriterOf(u, D, i)' /\ Name(op[u])' = Name(op[u])
        BY <2>3, <4>1 DEF WriterOf, Name, NewPath, Fn
      <4> QED BY <1>3, <2>1, <2>3, <4>1, <4>2 DEF Titled
    <3>2. CASE u = t
      <4>1. o.pc = "entry" /\ o.dir = D /\ o.slot = i + 1 /\ o.alias = dirs[D][i].alias
        BY <1>1, <2>3, <3>2 DEF WriterOf
      <4>2. PutNew(t) BY <1>1, <4>1, StepAt
      <4>3. Put(o.dir, o.slot, NewEntry(t)) BY <1>1, <1>2, <4>2 DEF PutNew
      <4>4. Place(D, i + 1)
        <5>1. FreeAt(D, i + 1) BY <2>3, WriterIs
        <5> QED BY <5>1 DEF FreeAt
      <4>5. dirs'[D][i + 1] = NewEntry(t) BY <1>2, <4>1, <4>3, <4>4, PutPlaces
      <4>6. NewEntry(t).kind = "entry" /\ NewEntry(t).alias = o.alias
        BY <1>1, <4>1, NewEntryIs, NewAlias
      <4>7. Place(D, i + 1)' BY <1>2, <4>4, SamePlaces
      <4>8. IsEntry(D, i + 1)' BY <4>5, <4>6, <4>7 DEF IsEntry
      <4> QED BY <1>3, <2>1, <4>1, <4>5, <4>6, <4>8 DEF Titled
    <3> QED BY <3>1, <3>2
  <2> QED BY <2>1, <2>2, <2>3 DEF Titled
<1>4. CASE /\ PutLfn(t) /\ dirs' # dirs /\ D = o.dir /\ i + 1 = o.slot
           /\ dirs'[D][i] = Lfn(Name(o), o.alias) /\ op[t].pc = "lfn"
  <2>1. PICK q : q = op'[t] OBVIOUS
  <2>2. /\ q.pc = "entry" /\ q.call = o.call /\ q.dir = o.dir /\ q.slot = o.slot /\ q.alias = o.alias
    BY <1>1, <1>4, <2>1, PutLfnIs
  <2>3. Name(q) = Name(o) BY <2>2 DEF Name, NewPath, Fn
  <2>4. Name(o) \in Long BY <1>1, <1>4 DEF Spare, Naming, Begun
  <2>5. dirs'[D][i].name = Name(o) /\ dirs'[D][i].alias = o.alias BY <1>4 DEF Lfn
  <2>6. WriterOf(t, D, i)' /\ Name(op[t])' = Name(o)
    BY <1>4, <2>1, <2>2, <2>3 DEF WriterOf, Name, NewPath, Fn
  <2> QED BY <2>1, <2>2, <2>4, <2>5, <2>6 DEF Titled
<1> QED BY <1>1, <1>3, <1>4, LongBack

\* A call that goes on to where the name does not matter.
LEMMA UnmetKept ==
  ASSUME NEW o, Unmet(o), NEW q, q.phase = o.phase, q.goal = o.goal,
         q.pc \notin {"claim", "dir"} \cup Creating
  PROVE  Unmet(q)
BY DEF Unmet

LEMMA UnmetGo ==
  ASSUME TInv, NEW t \in Tasks, NEW q, Go(t, q), Unmet(q) PROVE Unmet(op[t])'
<1>1. op'[t] = q BY GoIs DEF TInv
<1> QED BY <1>1 DEF Unmet, Name, NewPath, Fn

LEMMA IdleUnmet == Unmet(Idle)
<1>1. Idle.phase = "only" /\ Idle.pc = "idle" BY DEF Idle
<1> QED BY <1>1 DEF Unmet, Creating

LEMMA ToUnmet ==
  ASSUME TInv, NEW t \in Tasks, Unmet(op[t]), NEW p, p \notin {"claim", "dir"} \cup Creating, To(t, p)
  PROVE  Unmet(op[t])'
<1>1. PICK o : o = op[t] OBVIOUS
<1>2. PICK q : q = [o EXCEPT !.pc = p] OBVIOUS
<1>3. q.pc = p /\ q.phase = o.phase /\ q.goal = o.goal BY <1>1, <1>2, HasTask, PcIs DEF TaskOK
<1>4. Unmet(q) BY <1>1, <1>3, UnmetKept
<1>5. Go(t, q) BY <1>1, <1>2 DEF To
<1> QED BY <1>4, <1>5, UnmetGo

LEMMA OpeningUnmet ==
  ASSUME NEW o, IsOp(o), o.phase \in {"src", "srcdir"} => o.goal.at = {},
         o.phase = "dst" => o.seen.at = {}
  PROVE  Unmet(Opening(o))
<1>1. PICK q : q = [o EXCEPT !.dir = Root, !.pc = "find"] OBVIOUS
<1>2. q.pc = "find" /\ q.phase = o.phase /\ q.goal = o.goal BY <1>1 DEF IsOp
<1>3. Unmet(q) BY <1>2 DEF Unmet, Creating
<1>4. PICK r : r = [o EXCEPT !.pc = "dir"] OBVIOUS
<1>5. r.pc = "dir" /\ r.phase = o.phase /\ r.goal = o.goal /\ r.seen = o.seen BY <1>4, PcIs
<1>6. Unmet(r) BY <1>5 DEF Unmet, Creating
<1> QED BY <1>1, <1>3, <1>4, <1>6 DEF Opening

LEMMA RefusedUnmet ==
  ASSUME NEW o, IsOp(o), NEW why, o.phase = "dst" /\ why # "isdir" => o.seen.at = {},
         o.phase = "src" => o.goal.at = {}
  PROVE  Unmet(Refused(o, why))
<1>1. CASE o.phase = "dst" /\ why # "isdir"
  <2>1. PICK g : g = o.seen OBVIOUS
  <2>2. PICK q : q = [o EXCEPT !.phase = "src", !.goal = g] OBVIOUS
  <2>3. q = [call |-> o.call, phase |-> "src", pc |-> o.pc, dir |-> o.dir, slot |-> o.slot,
             ent |-> o.ent, new |-> o.new, free |-> o.free, checked |-> o.checked,
             alias |-> o.alias, seen |-> o.seen, goal |-> g]
    BY <2>2 DEF IsOp
  <2>4. IsOp(q) BY <2>3 DEF IsOp
  <2>5. Unmet(Opening(q)) BY <1>1, <2>1, <2>3, <2>4, OpeningUnmet
  <2> QED BY <1>1, <2>1, <2>2, <2>5 DEF Refused
<1>2. CASE o.phase = "src" /\ why = "isdir"
  <2>1. PICK q : q = [o EXCEPT !.phase = "srcdir"] OBVIOUS
  <2>2. q = [call |-> o.call, phase |-> "srcdir", pc |-> o.pc, dir |-> o.dir, slot |-> o.slot,
             ent |-> o.ent, new |-> o.new, free |-> o.free, checked |-> o.checked,
             alias |-> o.alias, seen |-> o.seen, goal |-> o.goal]
    BY <2>1 DEF IsOp
  <2>3. IsOp(q) BY <2>2 DEF IsOp
  <2>4. Unmet(Opening(q)) BY <1>2, <2>2, <2>3, OpeningUnmet
  <2> QED BY <1>2, <2>1, <2>4 DEF Refused
<1> QED BY <1>1, <1>2, IdleUnmet DEF Refused

\* The steps to a fixed place, and those on a handle.
LEMMA PlainUnmet ==
  ASSUME Good, NEW t \in Tasks, Unmet(op[t]),
         \/ Empty(t) \/ Quit(t) \/ RmLfn(t) \/ Erase(t) \/ Detach(t) \/ PutSize(t) \/ MakeDots(t)
         \/ Enter(t) \/ Note(t) \/ Cut(t) \/ Undo(t) \/ Unlink(t) \/ Relock(t)
  PROVE  Unmet(op[t])'
<1>1. TInv BY DEF Good
<1>2. \/ Go(t, Idle)
      \/ \E p \in {"unlink", "leave", "rmlfn", "quit", "erase", "dotdot", "undo", "note", "size", "detach"} :
           To(t, p)
  <2>1. CASE Empty(t) \/ Quit(t) \/ RmLfn(t) \/ Erase(t) \/ Detach(t) \/ PutSize(t)
    BY <2>1 DEF Empty, Quit, RmLfn, Erase, Detach, PutSize
  <2>2. CASE MakeDots(t) \/ Enter(t) \/ Note(t) \/ Cut(t) \/ Undo(t) \/ Unlink(t) \/ Relock(t)
    BY <2>2 DEF MakeDots, Enter, Note, Cut, Undo, Unlink, Relock
  <2> QED BY <2>1, <2>2
<1> QED BY <1>1, <1>2, ToUnmet, IdleUnmet, UnmetGo DEF Creating

LEMMA HandleUnmet ==
  ASSUME Good, NEW t \in Tasks, Unmet(op[t]), Write(t) \/ Close(t) \/ Grow(t)
  PROVE  Unmet(op[t])'
<1>1. TInv /\ IsOp(op[t]) BY GoodTask DEF Good, TaskOK
<1>2. ASSUME NEW fn, NEW p \in {"grow", "leave", "cut", "size"}, Begin(t, fn, p) PROVE Unmet(op[t])'
  <2>1. PICK q : q = [Idle EXCEPT !.call.fn = fn, !.pc = p] OBVIOUS
  <2>2. q.pc = p /\ q.phase = "only" BY <2>1 DEF Idle
  <2>3. Unmet(q) BY <2>2 DEF Unmet, Creating
  <2>4. Go(t, q) BY <1>2, <2>1 DEF Begin
  <2> QED BY <1>1, <2>3, <2>4, UnmetGo
<1>3. CASE Write(t) BY <1>1, <1>2, <1>3, IdleUnmet, UnmetGo DEF Write
<1>4. CASE Close(t) BY <1>2, <1>4 DEF Close
<1>5. CASE Grow(t)
  <2>1. PICK o, c : o = op[t] /\ c = Least(FreeClusters) OBVIOUS
  <2>2. PICK q : q = [o EXCEPT !.new = c, !.pc = "enter"] OBVIOUS
  <2>3. q.pc = "enter" /\ q.phase = o.phase /\ q.goal = o.goal BY <1>1, <2>1, <2>2 DEF IsOp
  <2>4. Unmet(q) BY <2>1, <2>3, UnmetKept DEF Creating
  <2>5. Go(t, q) \/ Go(t, Idle) BY <1>5, <2>1, <2>2 DEF Grow, Lose
  <2> QED BY <1>1, <2>4, <2>5, IdleUnmet, UnmetGo
<1> QED BY <1>3, <1>4, <1>5

LEMMA SeekUnmet ==
  ASSUME Good, NEW t \in Tasks, Unmet(op[t]), Start(t) \/ FindDir(t) \/ Leave(t)
  PROVE  Unmet(op[t])'
<1>1. TInv /\ IsOp(op[t]) BY GoodTask DEF Good, TaskOK
<1>2. PICK o : o = op[t] OBVIOUS
<1>3. Nothing.at = {} BY DEF Nothing
<1>4. CASE Start(t)
  <2>1. PICK c : Go(t, Opening([Idle EXCEPT !.call = c, !.phase = IF c.fn = "move" THEN "dst" ELSE "only"]))
    BY <1>4 DEF Start
  <2>2. PICK p : p = IF c.fn = "move" THEN "dst" ELSE "only" OBVIOUS
  <2>3. PICK q : q = [Idle EXCEPT !.call = c, !.phase = p] OBVIOUS
  <2>4. q = [call |-> c, phase |-> p, pc |-> Idle.pc, dir |-> Idle.dir, slot |-> Idle.slot,
             ent |-> Idle.ent, new |-> Idle.new, free |-> Idle.free, checked |-> Idle.checked,
             alias |-> Idle.alias, seen |-> Idle.seen, goal |-> Idle.goal]
    BY <2>3, IdleOK DEF IsOp
  <2>5. IsOp(q) BY <2>4, IdleOK DEF IsOp
  <2>6. Idle.seen = Nothing BY DEF Idle
  <2>7. Unmet(Opening(q)) BY <1>3, <2>2, <2>4, <2>5, <2>6, OpeningUnmet
  <2>8. Go(t, Opening(q)) BY <2>1, <2>2, <2>3
  <2> QED BY <1>1, <2>7, <2>8, UnmetGo
<1>5. CASE FindDir(t)
  <2>1. o.pc = "dir" BY <1>2, <1>5 DEF FindDir, At
  <2>2. PICK D : D = DirOf(Path(o).in) OBVIOUS
  <2>3. PICK q : q = [o EXCEPT !.dir = D, !.pc = "find"] OBVIOUS
  <2>4. q.pc = "find" /\ q.phase = o.phase /\ q.goal = o.goal BY <1>1, <1>2, <2>3 DEF IsOp
  <2>5. Unmet(q) BY <1>2, <2>4, UnmetKept DEF Creating
  <2>6. Unmet(Refused(o, "path"))
    <3>1. o.phase = "dst" => o.seen.at = {} BY <1>2, <2>1 DEF Unmet
    <3>2. o.phase = "src" => o.goal.at = {} BY <1>2 DEF Unmet
    <3> QED BY <1>1, <1>2, <3>1, <3>2, RefusedUnmet
  <2>7. Go(t, q) \/ Go(t, Refused(o, "path")) BY <1>2, <1>5, <2>2, <2>3 DEF FindDir
  <2> QED BY <1>1, <2>5, <2>6, <2>7, UnmetGo
<1>6. CASE Leave(t)
  <2>1. PICK a, b : a = [o EXCEPT !.phase = "del"] /\ b = [o EXCEPT !.phase = "src", !.goal = Nothing]
    OBVIOUS
  <2>2. a = [call |-> o.call, phase |-> "del", pc |-> o.pc, dir |-> o.dir, slot |-> o.slot,
             ent |-> o.ent, new |-> o.new, free |-> o.free, checked |-> o.checked,
             alias |-> o.alias, seen |-> o.seen, goal |-> o.goal]
    BY <1>1, <1>2, <2>1 DEF IsOp
  <2>3. b = [call |-> o.call, phase |-> "src", pc |-> o.pc, dir |-> o.dir, slot |-> o.slot,
             ent |-> o.ent, new |-> o.new, free |-> o.free, checked |-> o.checked,
             alias |-> o.alias, seen |-> o.seen, goal |-> Nothing]
    BY <1>1, <1>2, <2>1 DEF IsOp
  <2>4. IsOp(a) BY <1>1, <1>2, <2>2 DEF IsOp
  <2>5. IsOp(b) BY <1>1, <1>2, <2>3 DEF IsOp
  <2>6. Unmet(Opening(a)) BY <2>2, <2>4, OpeningUnmet
  <2>7. Unmet(Opening(b)) BY <1>3, <2>3, <2>5, OpeningUnmet
  <2>8. Go(t, Opening(a)) \/ Go(t, Opening(b)) \/ Go(t, Idle) BY <1>2, <1>6, <2>1 DEF Leave
  <2> QED BY <1>1, <2>6, <2>7, <2>8, IdleUnmet, UnmetGo
<1> QED BY <1>4, <1>5, <1>6

\* A search that stops at no entry has met none of that name.
LEMMA NoHits ==
  ASSUME TInv, NEW D \in Clusters \cup {Root}, NEW n, Hits(dirs[D], n) = {}
  PROVE  Knowledge(D, n).at = {}
<1>1. PICK S : S = Named(dirs[D], n) OBVIOUS
<1>2. S \subseteq Nat
  <2>1. DOMAIN dirs[D] = 0 .. SlotsOf(D) - 1 BY DirIs
  <2>2. S \subseteq DOMAIN dirs[D] BY <1>1 DEF Named, Entries
  <2> QED BY <2>1, <2>2
<1>3. S = {}
  <2> SUFFICES ASSUME S # {} PROVE FALSE OBVIOUS
  <2>1. PICK k : k = Least(S) OBVIOUS
  <2>2. k \in S /\ \A j \in S : k <= j BY <1>2, <2>1, LeastIs
  <2> QED BY <1>1, <2>2 DEF Hits
<1> QED BY <1>1, <1>3 DEF Knowledge

LEMMA FindUnmet ==
  ASSUME Good, NEW t \in Tasks, Unmet(op[t]), Find(t), strays' = {}, ~ Fault PROVE Unmet(op[t])'
<1>1. TInv /\ op[t].pc = "find" BY DEF Good, Find, At
<1>2. PICK p : p = op[t] OBVIOUS
<1>3. PICK n, s : n = Path(p).name /\ s = dirs[p.dir] OBVIOUS
<1>4. PICK o : Searched(o, p, s, n) BY DEF Searched
<1>5. /\ Looks(o) /\ IsOp(o) /\ p.dir \in Clusters \cup {Root} /\ o.pc = "find"
      /\ o.seen = Knowledge(p.dir, n) /\ o.call = p.call /\ o.phase = p.phase
  BY <1>1, <1>2, <1>3, <1>4, SearchIs
<1>6. o.goal = p.goal
  <2>1. IsOp(p) BY <1>2, GoodTask DEF TaskOK
  <2> QED BY <1>4, <2>1 DEF Searched, IsOp
<1>7. o.phase \in {"src", "srcdir"} => o.goal.at = {} BY <1>2, <1>5, <1>6 DEF Unmet
<1>8. Unmet(o) BY <1>5, <1>7 DEF Unmet, Creating
<1>9. \/ \E i \in Hits(s, n) : Found(t, o, i, s)
      \/ Hits(s, n) = {} /\ Go(t, Absent(o))
      \/ Phantom(t, o, s)
  BY <1>2, <1>3, <1>4 DEF Find, Searched
<1>10. Hits(s, n) = {} => o.seen.at = {} BY <1>1, <1>3, <1>5, NoHits
<1>11. ASSUME NEW i \in Hits(s, n), Found(t, o, i, s) PROVE Unmet(op[t])'
  <2>1. PICK e : e = [cluster |-> s[i].cluster, size |-> s[i].size, isdir |-> s[i].isdir] OBVIOUS
  <2>2. PICK q : q = [o EXCEPT !.pc = "join", !.slot = i, !.ent = e] OBVIOUS
  <2>3. q.pc = "join" /\ q.phase = o.phase /\ q.goal = o.goal BY <1>5, <2>2 DEF IsOp
  <2>4. Unmet(q) BY <1>8, <2>3, UnmetKept DEF Creating
  <2>5. Unmet(Refused(o, "isdir")) BY <1>5, <1>7, RefusedUnmet
  <2>6. Fn(o) = "mkdir" => s[i].cluster # 0 BY <1>11, NoStray DEF Found, When
  <2>7. Go(t, Idle) \/ Go(t, Refused(o, "isdir")) \/ Go(t, q) BY <1>11, <2>1, <2>2, <2>6 DEF Found
  <2> QED BY <1>1, <2>4, <2>5, <2>7, IdleUnmet, UnmetGo
<1>12. CASE Hits(s, n) = {} /\ Go(t, Absent(o))
  <2>1. PICK q : q = [o EXCEPT !.pc = "claim"] OBVIOUS
  <2>2. q.pc = "claim" /\ q.phase = o.phase /\ q.goal = o.goal /\ q.seen = o.seen BY <1>5, <2>1, PcIs
  <2>3. Unmet(q) BY <1>7, <1>10, <1>12, <2>2 DEF Unmet, Creating
  <2>4. Unmet(Refused(o, "absent")) BY <1>5, <1>7, <1>10, <1>12, RefusedUnmet
  <2> QED BY <1>1, <1>12, <2>1, <2>3, <2>4, UnmetGo DEF Absent
<1>13. CASE Phantom(t, o, s)
  <2>1. Writes(Mode(o)) /\ Go(t, Refused(o, "readonly"))
    <3>1. ~ Stray({"phantom"}) BY NoStray
    <3> QED BY <1>13, <3>1 DEF Phantom
  <2>2. o.phase # "dst"
    <3> SUFFICES ASSUME o.phase = "dst" PROVE FALSE OBVIOUS
    <3>1. Mode(o) = {"R"} BY <1>5, ModeIs DEF Looks
    <3> QED BY <2>1, <3>1 DEF Writes
  <2>3. Unmet(Refused(o, "readonly")) BY <1>5, <1>7, <2>2, RefusedUnmet
  <2> QED BY <1>1, <2>1, <2>3, UnmetGo
<1> QED BY <1>9, <1>11, <1>12, <1>13

LEMMA CreateUnmet ==
  ASSUME Good, NEW t \in Tasks, Unmet(op[t]),
         Claim(t) \/ Plan(t) \/ Extend(t) \/ Unmade(t) \/ PutLfn(t) \/ PutNew(t), strays' = {}, ~ Fault
  PROVE  Unmet(op[t])'
<1>1. TInv /\ TaskOK(op[t], file[t]) /\ IsOp(op[t]) BY GoodTask DEF Good, TaskOK
<1>2. PICK o : o = op[t] OBVIOUS
<1>3. ASSUME Go(t, NotCreated(o)) PROVE Unmet(op[t])'
  <2>1. PICK p : p = IF Fn(o) = "move" THEN "leave" ELSE "undo" OBVIOUS
  <2>2. To(t, p) BY <1>2, <1>3, <2>1 DEF NotCreated, To
  <2> QED BY <1>1, <2>1, <2>2, ToUnmet DEF Creating
<1>4. CASE Claim(t)
  <2>1. o.pc = "claim" BY <1>2, <1>4 DEF Claim, At
  <2>2. PICK c : c = Least(FreeClusters) OBVIOUS
  <2>3. PICK q : q = [o EXCEPT !.new = c, !.pc = "plan"] OBVIOUS
  <2>4. /\ q.pc = "plan" /\ q.phase = o.phase /\ q.goal = o.goal /\ q.seen = o.seen /\ q.call = o.call
    BY <1>1, <1>2, <2>3 DEF IsOp
  <2>5. Unmet(q) BY <1>2, <2>1, <2>4 DEF Unmet, Creating, Name, NewPath, Fn
  <2>6. Go(t, q) \/ Go(t, Idle) BY <1>2, <1>4, <2>2, <2>3 DEF Claim, Lose
  <2> QED BY <1>1, <2>5, <2>6, IdleUnmet, UnmetGo
<1>5. ASSUME op[t].pc \in Creating, NEW q, q = op'[t], q.call = o.call, q.phase = o.phase,
             q.goal = o.goal, Name(o) \in Long => q.seen = o.seen
      PROVE  Unmet(op[t])'
  <2>1. q.pc # "dir" \/ q.phase # "dst"
    <3>1. o.phase # "dst" BY <1>1, <1>2, <1>5 DEF TaskOK, FnsAt, AtPlace
    <3> QED BY <1>5, <3>1
  <2>2. Name(q) = Name(o) BY <1>5 DEF Name, NewPath, Fn
  <2>3. Unmet(q) BY <1>2, <1>5, <2>1, <2>2 DEF Unmet
  <2> QED BY <1>5, <2>3 DEF Unmet, Name, NewPath, Fn
<1>6. CASE Plan(t)
  <2>1. CASE op'[t].pc \in Naming
    <3>1. PICK q : q = op'[t] OBVIOUS
    <3>2. /\ op[t].pc = "plan" /\ q.call = o.call /\ q.phase = o.phase /\ q.goal = o.goal
          /\ Choice(o, dirs[o.dir], Name(o), q.alias, q.seen)
      BY <1>2, <1>6, <2>1, <3>1, PlanIs
    <3>3. Name(o) \in Long => q.seen = o.seen BY <3>2 DEF Choice
    <3> QED BY <1>5, <3>1, <3>2, <3>3 DEF Creating
  <2>2. CASE op'[t].pc \notin Naming
    <3>1. ASSUME NEW last, NEW a, NEW se, Go(t, Chosen(o, last, a, se)) PROVE FALSE
      <4>1. PICK q : q = Chosen(o, last, a, se) OBVIOUS
      <4>2. q.pc \in Naming BY <1>1, <1>2, <4>1 DEF IsOp, Chosen, Making, Naming
      <4>3. Go(t, q) BY <3>1, <4>1
      <4>4. op'[t] = q BY <1>1, <4>3, GoIs DEF TInv
      <4> QED BY <2>2, <4>2, <4>4
    <3>2. Go(t, NotCreated(o)) BY <1>1, <1>2, <1>6, <3>1, PlanShape
    <3> QED BY <1>3, <3>2
  <2> QED BY <2>1, <2>2
<1>9. CASE Extend(t)
  <2>1. PICK q : q = op'[t] OBVIOUS
  <2>2. /\ op[t].pc = "extend" /\ q.call = o.call /\ q.phase = o.phase /\ q.goal = o.goal
        /\ q.seen = o.seen
    BY <1>2, <1>9, <2>1, ExtendIs
  <2> QED BY <1>5, <2>1, <2>2 DEF Creating
<1>10. CASE Unmade(t) BY <1>2, <1>3, <1>10 DEF Unmade
<1>7. CASE PutLfn(t)
  <2>1. CASE op'[t].pc \in Naming
    <3>1. /\ op[t].pc = "lfn" /\ op'[t].call = o.call /\ op'[t].phase = o.phase
          /\ op'[t].goal = o.goal /\ op'[t].seen = o.seen
      BY <1>2, <1>7, <2>1, PutLfnIs
    <3> QED BY <1>5, <3>1 DEF Creating
  <2>2. CASE op'[t].pc \notin Naming
    <3>1. ~ To(t, "entry") BY <1>1, <2>2, ToIs DEF Naming
    <3>2. Go(t, NotCreated(o)) BY <1>2, <1>7, <3>1 DEF PutLfn
    <3> QED BY <1>3, <3>2
  <2> QED BY <2>1, <2>2
<1>8. CASE PutNew(t)
  <2>1. op[t].pc = "entry" BY <1>8 DEF PutNew, At
  <2>2. PICK q : q = AfterNew(o, NewEntry(t)) OBVIOUS
  <2>3. Fn(o) \in {"open", "mkdir", "move"} BY <1>2, <2>1, NewEntryIs
  <2>4. q.pc \in {"join", "dot", "made"} /\ q.phase = o.phase /\ q.goal = o.goal
    <3>1. CASE Fn(o) = "open" BY <1>1, <1>2, <2>2, <3>1, AfterNewOpen
    <3>2. CASE Fn(o) # "open"
      <4>1. PICK p \in {"dot", "made"} : q = [o EXCEPT !.pc = p] BY <2>2, <2>3, <3>2 DEF AfterNew
      <4> QED BY <1>1, <1>2, <4>1, PcIs
    <3> QED BY <3>1, <3>2
  <2>5. Unmet(q) BY <1>2, <2>4, UnmetKept DEF Creating
  <2>6. Go(t, q) \/ Go(t, Idle) \/ Go(t, NotCreated(o)) BY <1>2, <1>8, <2>2 DEF PutNew, AfterNew
  <2> QED BY <1>1, <1>3, <2>5, <2>6, IdleUnmet, UnmetGo
<1> QED BY <1>4, <1>6, <1>7, <1>8, <1>9, <1>10

LEMMA JoinUnmet ==
  ASSUME Good, NEW t \in Tasks, Unmet(op[t]), Join(t) \/ Target(t), strays' = {}
  PROVE  Unmet(op[t])'
<1>1. TInv /\ TaskOK(op[t], file[t]) /\ IsOp(op[t]) BY GoodTask DEF Good, TaskOK
<1>2. PICK o : o = op[t] OBVIOUS
<1>3. CASE Join(t)
  <2>1. PICK h : h = NewHandle(o) OBVIOUS
  <2>2. PICK busy \in BOOLEAN : busy <=> \E g \in Listed : Conflicts(g, h) OBVIOUS
  <2>3. Go(t, IF busy THEN Refused(o, "busy") ELSE AfterJoin(o, h))
    BY <1>2, <1>3, <2>1, <2>2 DEF Join, AfterJoin
  <2>4. ~ (busy /\ o.phase = "dst")
    <3> SUFFICES ASSUME busy, o.phase = "dst" PROVE FALSE OBVIOUS
    <3>1. "busy" \in strays' BY <1>2, <1>3, <2>1, <2>2 DEF Join, Stray, When
    <3> QED BY <3>1
  <2>5. CASE busy
    <3>1. Unmet(Refused(o, "busy")) BY <1>1, <1>2, <2>4, <2>5, RefusedUnmet DEF Unmet
    <3> QED BY <1>1, <2>3, <2>5, <3>1, UnmetGo
  <2>6. CASE ~ busy
    <3>1. PICK q : q = AfterJoin(o, h) OBVIOUS
    <3>2. CASE Fn(o) = "open"
      <4>1. q = Idle BY <3>1, <3>2 DEF AfterJoin
      <4> QED BY <1>1, <2>3, <2>6, <3>1, <4>1, IdleUnmet, UnmetGo
    <3>3. CASE Fn(o) # "open"
      <4>1. PICK p \in {"empty", "unlink", "rmlfn", "leave", "target"} : q = [o EXCEPT !.pc = p]
        BY <3>1, <3>3 DEF AfterJoin
      <4>2. To(t, p) BY <1>2, <2>3, <2>6, <3>1, <4>1 DEF To
      <4> QED BY <1>1, <4>2, ToUnmet DEF Creating
    <3> QED BY <3>2, <3>3
  <2> QED BY <2>5, <2>6
<1>4. CASE Target(t)
  <2>1. o.phase \in {"src", "srcdir"} BY <1>1, <1>2, <1>4 DEF Target, At, TaskOK, FnsAt
  <2>2. o.goal.at = {} BY <1>2, <2>1 DEF Unmet
  <2>3. PICK D : D = IF o.call.to.in = "" THEN Root ELSE DirOf(o.call.to.in) OBVIOUS
  <2>4. PICK g : g = o.goal OBVIOUS
  <2>5. PICK q : q = [o EXCEPT !.dir = D, !.free = 0, !.checked = "no", !.seen = g, !.pc = "plan"]
    OBVIOUS
  <2>6. q.pc = "plan" /\ q.phase = o.phase /\ q.goal = o.goal /\ q.seen = o.goal
    BY <1>1, <1>2, <2>4, <2>5 DEF IsOp
  <2>7. Unmet(q) BY <2>1, <2>2, <2>6 DEF Unmet
  <2>8. Go(t, q) \/ To(t, "leave") BY <1>2, <1>4, <2>3, <2>4, <2>5 DEF Target
  <2> QED BY <1>1, <2>7, <2>8, ToUnmet, UnmetGo DEF Creating
<1> QED BY <1>3, <1>4

LEMMA UnmetStays ==
  ASSUME Good, NEW t \in Tasks, Unmet(op[t]), Acts(t), strays' = {}, faults' = 0
  PROVE  Unmet(op[t])'
<1>1. ~ Fault BY NoFaultNow DEF Good
<1>2. CASE Start(t) \/ FindDir(t) \/ Leave(t) \/ Find(t) BY <1>1, <1>2, SeekUnmet, FindUnmet
<1>3. CASE \/ Claim(t) \/ Plan(t) \/ Extend(t) \/ Unmade(t) \/ PutLfn(t) \/ PutNew(t)
           \/ Join(t) \/ Target(t)
  BY <1>1, <1>3, CreateUnmet, JoinUnmet
<1>4. CASE Write(t) \/ Close(t) \/ Grow(t) BY <1>4, HandleUnmet
<1>5. CASE ~ (Start(t) \/ FindDir(t) \/ Leave(t) \/ Find(t) \/ Write(t) \/ Close(t) \/ Grow(t)
              \/ Claim(t) \/ Plan(t) \/ Extend(t) \/ Unmade(t) \/ PutLfn(t) \/ PutNew(t)
              \/ Join(t) \/ Target(t))
  BY <1>5, PlainUnmet DEF Acts
<1> QED BY <1>2, <1>3, <1>4, <1>5

LEMMA LongsStay ==
  ASSUME Good, TInv', Shorts, Longs, NEW t \in Tasks, Acts(t), StepOK(t), strays' = {}, faults' = 0
  PROVE  Longs'
<1>1. LongsAreTitles' BY TitlesStay DEF Longs, Shorts
<1>2. LongsDiffer' BY LongsDifferStays DEF Longs
<1>3. ASSUME NEW u \in Tasks PROVE Untitled(op[u], file[u])' BY UntitledStays DEF Longs
<1>4. ASSUME NEW u \in Tasks PROVE Unmet(op[u])'
  <2>1. CASE u = t BY <2>1, UnmetStays DEF Longs
  <2>2. CASE u # t
    <3>1. op'[u] = op[u] BY <2>2 DEF StepOK, OthersStay
    <3> QED BY <3>1 DEF Longs, Unmet, Name, NewPath, Fn
  <2> QED BY <2>1, <2>2
<1> QED BY <1>1, <1>2, <1>3, <1>4 DEF Longs

\* Without a stray short names differ, and without a fault long names stand where they belong.
WInv ==
  /\ LInv
  /\ strays = {} => Shorts
  /\ strays = {} /\ faults = 0 => Longs

LEMMA InitWInv == Init => WInv
<1> SUFFICES ASSUME Init PROVE WInv OBVIOUS
<1>1. LInv BY InitLInv
<1>2. NamesDiffer(dirs) BY StartsAssumption DEF Init
<1>3. \A t \in Tasks : op[t] = Idle BY DEF Init
<1>4. ASSUME NEW t \in Tasks PROVE Spare(op[t]) /\ Untitled(op[t], file[t]) /\ Unmet(op[t])
  BY <1>3, IdleIs, IdleUnmet DEF Spare, Untitled, Naming
<1>5. ShortsAreShort /\ ShortsDiffer
  BY <1>2 DEF NamesDiffer, ShortsAreShort, ShortsDiffer, IsEntry, Place
<1>6. LongsAreTitles BY <1>2 DEF NamesDiffer, LongsAreTitles, Titled, LongAt, IsEntry, Place
<1>7. LongsDiffer BY <1>2 DEF NamesDiffer, LongsDiffer, Pair, LongAt, Place
<1> QED BY <1>1, <1>4, <1>5, <1>6, <1>7 DEF WInv, Shorts, Longs

LEMMA NextWInv == WInv /\ [Next]_vars => WInv'
<1> SUFFICES ASSUME WInv, [Next]_vars PROVE WInv' OBVIOUS
<1>1. LInv' BY NextLInv DEF WInv
<1>2. NInv /\ NInv' BY <1>1 DEF WInv, LInv
<1>3. ASSUME strays' = {} PROVE Shorts' /\ (faults' = 0 => Longs')
  <2>1. strays = {} BY <1>3, StraysStay
  <2>2. Good /\ TInv /\ TInv' BY <1>2, <2>1 DEF NInv, Good
  <2>3. Shorts BY <2>1 DEF WInv
  <2>4. faults' = 0 => Longs BY <2>1, <2>2, FaultsStay DEF WInv
  <2>5. CASE \E t \in Tasks : Acts(t) /\ StepOK(t)
    <3>1. PICK t \in Tasks : Acts(t) /\ StepOK(t) BY <2>5
    <3>2. Shorts' BY <1>3, <2>2, <2>3, <3>1, ShortsStay
    <3>3. faults' = 0 => Longs' BY <1>3, <2>2, <2>3, <2>4, <3>1, LongsStay
    <3> QED BY <3>2, <3>3
  <2>6. CASE UNCHANGED <<dirs, used, part, op, file>>
    <3>1. dirs' = dirs /\ op' = op /\ file' = file BY <2>6
    <3>2. Shorts'
      BY <2>3, <3>1 DEF Shorts, ShortsAreShort, ShortsDiffer, Spare, Unique, IsEntry, Place, Name,
                        NewPath, Fn, Begun, Making
    <3>3. ASSUME Longs PROVE Longs'
      <4>1. LongsAreTitles'
        BY <3>1, <3>3 DEF Longs, LongsAreTitles, Titled, WriterOf, LongAt, IsEntry, Place, Name, NewPath, Fn
      <4>2. LongsDiffer' BY <3>1, <3>3 DEF Longs, LongsDiffer, Pair, LongAt, IsEntry, Place
      <4>3. \A t \in Tasks : Untitled(op[t], file[t])' BY <3>1, <3>3 DEF Longs, Untitled, LongAt, Place
      <4>4. \A t \in Tasks : Unmet(op[t])' BY <3>1, <3>3 DEF Longs, Unmet, Name, NewPath, Fn
      <4> QED BY <4>1, <4>2, <4>3, <4>4 DEF Longs
    <3> QED BY <2>4, <3>2, <3>3
  <2> QED BY <1>3, <2>2, <2>5, <2>6, StepSound
<1> QED BY <1>1, <1>3 DEF WInv

\* As long as nobody acts on what is no longer so, two entries of a directory never have
\* the same short name, whatever the tasks create, move and remove there at once; and if no
\* access fails no two go by the same name, and a long name is followed by its entry.
THEOREM NamesAreWellFormed == Spec => []DirectoriesAreWellFormed
<1>1. WInv => DirectoriesAreWellFormed
  <2> SUFFICES ASSUME WInv, strays = {}, NEW D \in DOMAIN dirs, NEW s, s = dirs[D]
               PROVE  /\ \A i, j \in Entries(s) : i # j => s[i].alias # s[j].alias
                      /\ faults = 0 =>
                           /\ \A i, j \in Entries(s) : i # j => Visible(s, i) # Visible(s, j)
                           /\ \A i \in DOMAIN s : s[i].kind = "lfn" =>
                                \/ i + 1 \in Entries(s) /\ Visible(s, i + 1) = s[i].name
                                \/ \E t \in Tasks : op[t].pc = "entry" /\ op[t].dir = D /\ op[t].slot = i + 1
    BY DEF DirectoriesAreWellFormed
  <2>1. Good /\ Shorts /\ TInv /\ EndsAreLast(dirs) BY DEF WInv, LInv, NInv, Good, Sound
  <2>2. \A i : i \in Entries(s) <=> IsEntry(D, i) BY <2>1, EntriesAre
  <2>3. \A i, j \in Entries(s) : i # j => s[i].alias # s[j].alias
    BY <2>1, <2>2 DEF Shorts, ShortsDiffer
  <2>4. ASSUME faults = 0, NEW i \in Entries(s), NEW j \in Entries(s), Visible(s, i) = Visible(s, j)
        PROVE  i = j
    <3>1. Longs /\ IsEntry(D, i) /\ IsEntry(D, j) BY <2>2, <2>4 DEF WInv
    <3>2. i \in Nat /\ j \in Nat BY <2>1, <3>1, Shape DEF IsEntry
    <3>3. \A k : LongAt(D, k) => s[k].name \in Long BY <3>1 DEF Longs, LongsAreTitles, Titled
    <3>4. \A k : IsEntry(D, k) => s[k].alias \notin Long BY <2>1 DEF Shorts, ShortsAreShort
    <3>5. ASSUME NEW k, IsEntry(D, k)
          PROVE  /\ LongAt(D, k - 1) => Visible(s, k) = s[k - 1].name
                 /\ ~ LongAt(D, k - 1) => Visible(s, k) = s[k].alias
      BY <2>1, <3>1, <3>5, VisibleIs DEF Longs
    <3>6. CASE LongAt(D, i - 1) /\ LongAt(D, j - 1)
      <4>1. PICK k, l : k = i - 1 /\ l = j - 1 OBVIOUS
      <4>2. k + 1 = i /\ l + 1 = j BY <3>2, <4>1
      <4>3. Pair(D, k) /\ Pair(D, l) BY <3>1, <3>6, <4>1, <4>2 DEF Pair
      <4>4. s[k].name = s[l].name BY <2>4, <3>1, <3>5, <3>6, <4>1
      <4>5. k = l BY <3>1, <4>3, <4>4 DEF Longs, LongsDiffer
      <4> QED BY <4>2, <4>5
    <3>7. CASE ~ LongAt(D, i - 1) /\ ~ LongAt(D, j - 1)
      <4>1. s[i].alias = s[j].alias BY <2>4, <3>1, <3>5, <3>7
      <4> QED BY <2>3, <4>1
    <3>8. CASE LongAt(D, i - 1) /\ ~ LongAt(D, j - 1)
      <4>1. s[i - 1].name = s[j].alias BY <2>4, <3>1, <3>5, <3>8
      <4> QED BY <3>1, <3>3, <3>4, <3>8, <4>1
    <3>9. CASE ~ LongAt(D, i - 1) /\ LongAt(D, j - 1)
      <4>1. s[j - 1].name = s[i].alias BY <2>4, <3>1, <3>5, <3>9
      <4> QED BY <3>1, <3>3, <3>4, <3>9, <4>1
    <3> QED BY <3>6, <3>7, <3>8, <3>9
  <2>5. ASSUME faults = 0, NEW i \in DOMAIN s, s[i].kind = "lfn"
        PROVE  \/ i + 1 \in Entries(s) /\ Visible(s, i + 1) = s[i].name
               \/ \E t \in Tasks : op[t].pc = "entry" /\ op[t].dir = D /\ op[t].slot = i + 1
    <3>1. Longs /\ LongAt(D, i) BY <2>5 DEF WInv, LongAt, Place
    <3>2. Titled(D, i) BY <3>1 DEF Longs, LongsAreTitles
    <3>3. i \in Nat BY <2>1, <3>1, Shape DEF LongAt
    <3>4. PICK j : j = i + 1 OBVIOUS
    <3>5. j - 1 = i BY <3>3, <3>4
    <3>6. CASE IsEntry(D, j)
      <4>1. Visible(s, j) = s[i].name BY <2>1, <3>1, <3>5, <3>6, VisibleIs DEF Longs
      <4> QED BY <2>2, <3>4, <3>6, <4>1
    <3> QED BY <3>2, <3>4, <3>6 DEF Titled, WriterOf
  <2> QED BY <2>3, <2>4, <2>5
<1> QED BY <1>1, InitWInv, NextWInv, PTL DEF Spec
=============================================================================
