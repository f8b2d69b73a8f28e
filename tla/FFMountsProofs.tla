--------------------------- MODULE FFMountsProofs ---------------------------
(***************************************************************************)
(* For any number of tasks, disks and slots, whatever they do at once:     *)
(* FF_Unmount refuses while a file is open, so that a file loses its       *)
(* volume only in one of the three ways of Deprived; FF_FS_Find answers    *)
(* with what the table said at some moment of the search, as long as the   *)
(* table does not mislead it; a listing of the root has the mounts that    *)
(* nobody touches meanwhile; and what is made of a path with ".." in it    *)
(* leads where it led.  The first needs nothing of the table (MountInv);   *)
(* the listing needs what the table is like at rest, what a walk over it   *)
(* has in its hands at each place, and where the untouched mounts are      *)
(* (TableInv); the search needs besides that the walk has passed no mount  *)
(* above its path, also when the table changes behind it (FoundInv); the   *)
(* last is about prvProcessRelativePaths and depends on no state.          *)
(***************************************************************************)
EXTENDS FFMounts, FFRecursion, FiniteSetTheorems, SequenceTheorems, TLAPS

DisksOK ==
  /\ mounted \in [Disks -> BOOLEAN]
  /\ list \in [Disks -> SUBSET Tasks]
  /\ file \in [Tasks -> Disks \cup {Nothing}]

\* A call has the fields of Idle.
IsCall(o) ==
  o = [call |-> o.call, pc |-> o.pc, path |-> o.path, i |-> o.i, answer |-> o.answer,
       ok |-> o.ok, first |-> o.first, dots |-> o.dots, listed |-> o.listed]

\* What a task has in its hands at each place of a call.
CallOK(o) ==
  /\ IsCall(o)
  /\ o.pc = "found" /\ o.ok => o.answer.disk \in Disks
  /\ o.pc = "opening" => o.answer.disk \in Disks
  /\ o.call.fn \in {"add", "mount", "unmount"} => o.call.disk \in Disks
  /\ o.pc = "flush" => o.call.fn = "unmount"

CallsOK ==
  /\ op = [t \in Tasks |-> op[t]]
  /\ \A t \in Tasks : CallOK(op[t])

\* A volume whose flush has begun in FF_Unmount has no open files.
FlushedAreUnused ==
  strays \cap Deprived = {} =>
    \A t \in Tasks : op[t].pc = "flush" => list[op[t].call.disk] = {}

MountInv == DisksOK /\ CallsOK /\ FlushedAreUnused /\ OpenFilesAreServed

-----------------------------------------------------------------------------
(* Steps within a call. *)

\* One task goes on, to a place for which it has what it needs.
OpStep(t) ==
  /\ op' = [u \in Tasks |-> op'[u]]
  /\ \A u \in Tasks \ {t} : op'[u] = op[u]
  /\ CallOK(op'[t])

LEMMA OpStepOK ==
  ASSUME CallsOK, NEW t \in Tasks, OpStep(t) PROVE CallsOK'
<1>1. \A u \in Tasks : CallOK(op'[u]) BY DEF CallsOK, OpStep
<1> QED BY <1>1 DEF CallsOK, OpStep, CallOK, IsCall

\* A step that changes no disk and no handle, and begins no flush.
LEMMA QuietStep ==
  ASSUME MountInv, NEW t \in Tasks, OpStep(t), op'[t].pc # "flush",
         UNCHANGED diskVars, strays \subseteq strays'
  PROVE  MountInv'
<1> USE DEF MountInv, diskVars
<1>1. CallsOK' BY OpStepOK
<1>2. DisksOK' BY DEF DisksOK
<1>3. FlushedAreUnused' BY DEF FlushedAreUnused, OpStep
<1>4. OpenFilesAreServed' BY DEF OpenFilesAreServed
<1> QED BY <1>1, <1>2, <1>3, <1>4

LEMMA IdleOK == CallOK(Idle) /\ Idle.pc # "flush"
BY DEF Idle, CallOK, IsCall, NoCall, NoAnswer

\* The call of a task is replaced by another.
LEMMA Replace ==
  ASSUME CallsOK, NEW t \in Tasks, NEW o, CallOK(o), op' = [op EXCEPT ![t] = o]
  PROVE  OpStep(t) /\ op'[t] = o
<1>1. DOMAIN op = Tasks BY DEF CallsOK
<1>2. op' = [u \in Tasks |-> IF u = t THEN o ELSE op[u]] BY <1>1
<1> QED BY <1>2 DEF OpStep

LEMMA ReturnStep ==
  ASSUME MountInv, NEW t \in Tasks, Return(t) PROVE OpStep(t) /\ op'[t].pc = "idle"
<1>1. OpStep(t) /\ op'[t] = Idle BY Replace, IdleOK DEF Return, MountInv
<1> QED BY <1>1 DEF Idle

\* A task that goes on in its call, to a place that needs nothing.
LEMMA GotoStep ==
  ASSUME MountInv, NEW t \in Tasks, NEW pc, Goto(t, pc), pc \notin {"found", "opening", "flush"}
  PROVE  OpStep(t) /\ op'[t].pc # "flush"
<1> DEFINE o == [op[t] EXCEPT !.pc = pc]
<1>1. CallOK(op[t]) /\ DOMAIN op = Tasks BY DEF MountInv, CallsOK
<1>2. op' = [op EXCEPT ![t] = o] BY DEF Goto
<1>3. IsCall(o) /\ o.pc = pc /\ o.call = op[t].call BY <1>1 DEF CallOK, IsCall
<1>4. CallOK(o) BY <1>1, <1>3 DEF CallOK
<1>5. OpStep(t) /\ op'[t] = o BY <1>2, <1>4, Replace DEF MountInv
<1> QED BY <1>3, <1>5

\* FF_FS_Find begins.
LEMMA LookupStep ==
  ASSUME MountInv, NEW t \in Tasks, NEW c, NEW p, NEW d, Lookup(t, c, p, d),
         c.fn \notin {"add", "mount", "unmount"}
  PROVE  OpStep(t) /\ op'[t].pc = "find"
<1> DEFINE o == [Idle EXCEPT !.call = c, !.pc = "find", !.i = 1, !.first = d,
                             !.path = AbsPath(cwd[t], p)]
<1>1. CallOK(o) /\ o.pc = "find"
  <2> DEFINE q == AbsPath(cwd[t], p)
  <2>1. o = [Idle EXCEPT !.call = c, !.pc = "find", !.i = 1, !.first = d, !.path = q] OBVIOUS
  <2> HIDE DEF o, q
  <2>2. o = [call |-> c, pc |-> "find", path |-> q, i |-> 1, answer |-> NoAnswer,
             ok |-> FALSE, first |-> d, dots |-> {}, listed |-> <<>>]
    BY <2>1 DEF Idle
  <2>3. IsCall(o) BY <2>2 DEF IsCall
  <2>4. o.pc = "find" /\ o.call = c BY <2>2
  <2> QED BY <2>3, <2>4 DEF CallOK
<1>2. op' = [op EXCEPT ![t] = o] BY DEF Lookup
<1>3. OpStep(t) /\ op'[t] = o BY <1>1, <1>2, Replace DEF MountInv
<1> QED BY <1>1, <1>3

\* A task goes on in its call with other variables.
LEMMA UpdateStep ==
  ASSUME MountInv, NEW t \in Tasks, NEW o, IsCall(o), o.call = op[t].call,
         o.pc \notin {"found", "opening", "flush"}, op' = [op EXCEPT ![t] = o]
  PROVE  OpStep(t) /\ op'[t].pc # "flush"
<1>1. CallOK(o) BY DEF MountInv, CallsOK, CallOK
<1>2. OpStep(t) /\ op'[t] = o BY <1>1, Replace DEF MountInv
<1> QED BY <1>2

\* FF_FS_Find answers; FF_Mounted is false of no manager.
LEMMA AnswerStep ==
  ASSUME MountInv, NEW t \in Tasks, NEW d, NEW rest, Answer(t, d, rest)
  PROVE  OpStep(t) /\ op'[t].pc # "flush"
<1> DEFINE a == [disk |-> d, rest |-> rest]
           o == [op[t] EXCEPT !.pc = "found", !.answer = a, !.ok = FF_Mounted(d)]
<1>1. CallOK(op[t]) /\ DOMAIN op = Tasks BY DEF MountInv, CallsOK
<1>2. op' = [op EXCEPT ![t] = o] BY DEF Answer
<1> HIDE DEF a
<1>3. /\ IsCall(o) /\ o.pc = "found" /\ o.call = op[t].call
      /\ o.answer = a /\ o.ok = FF_Mounted(d)
  <2> DEFINE k == FF_Mounted(d)
             p == op[t]
  <2>1. p = [call |-> p.call, pc |-> p.pc, path |-> p.path, i |-> p.i, answer |-> p.answer,
             ok |-> p.ok, first |-> p.first, dots |-> p.dots, listed |-> p.listed]
    BY <1>1 DEF CallOK, IsCall
  <2>2. o = [p EXCEPT !.pc = "found", !.answer = a, !.ok = k] OBVIOUS
  <2> HIDE DEF k, o, p
  <2>3. o = [call |-> p.call, pc |-> "found", path |-> p.path, i |-> p.i, answer |-> a,
             ok |-> k, first |-> p.first, dots |-> p.dots, listed |-> p.listed]
    BY <2>1, <2>2
  <2>4. IsCall(o) BY <2>3 DEF IsCall
  <2> QED BY <2>3, <2>4 DEF p, k
<1>4. FF_Mounted(d) => a.disk \in Disks BY DEF FF_Mounted, a
<1>5. CallOK(o) BY <1>1, <1>3, <1>4 DEF CallOK
<1>6. OpStep(t) /\ op'[t] = o BY <1>2, <1>5, Replace DEF MountInv
<1> QED BY <1>3, <1>6

\* A walk over the table goes on to the next slot.
LEMMA NextSlot ==
  ASSUME NEW p, IsCall(p)
  PROVE  LET o == [p EXCEPT !.i = p.i + 1] IN IsCall(o) /\ o.call = p.call /\ o.pc = p.pc
<1> DEFINE n == p.i + 1
           o == [p EXCEPT !.i = n]
<1>1. p = [call |-> p.call, pc |-> p.pc, path |-> p.path, i |-> p.i, answer |-> p.answer,
           ok |-> p.ok, first |-> p.first, dots |-> p.dots, listed |-> p.listed]
  BY DEF IsCall
<1>2. o = [p EXCEPT !.i = n] OBVIOUS
<1> HIDE DEF n, o
<1>3. o = [call |-> p.call, pc |-> p.pc, path |-> p.path, i |-> n, answer |-> p.answer,
           ok |-> p.ok, first |-> p.first, dots |-> p.dots, listed |-> p.listed]
  BY <1>1, <1>2
<1>4. IsCall(o) BY <1>3 DEF IsCall
<1>5. [p EXCEPT !.i = p.i + 1] = o BY DEF o, n
<1> QED BY <1>3, <1>4, <1>5

-----------------------------------------------------------------------------
(* The table. *)

LEMMA CallInv ==
  ASSUME MountInv, NEW t \in Tasks, Call(t) PROVE MountInv'
<1>1. PICK c \in Calls :
        IF c.fn \in {"open", "rename", "chdir", "list"} THEN Lookup(t, c, c.path, Nothing)
        ELSE op' = [op EXCEPT ![t] = [Idle EXCEPT !.call = c, !.pc = "begin", !.i = 1]]
  BY DEF Call
<1>2. OpStep(t) /\ op'[t].pc # "flush"
  <2>1. CASE c.fn \in {"open", "rename", "chdir", "list"} BY <1>1, <2>1, LookupStep
  <2>2. CASE c.fn \notin {"open", "rename", "chdir", "list"}
    <3> DEFINE o == [Idle EXCEPT !.call = c, !.pc = "begin", !.i = 1]
    <3>1. IsCall(o) /\ o.call = c /\ o.pc = "begin"
      <4>1. o = [Idle EXCEPT !.call = c, !.pc = "begin", !.i = 1] OBVIOUS
      <4> HIDE DEF o
      <4>2. o = [call |-> c, pc |-> "begin", path |-> <<>>, i |-> 1, answer |-> NoAnswer,
                 ok |-> FALSE, first |-> Nothing, dots |-> {}, listed |-> <<>>]
        BY <4>1 DEF Idle
      <4>3. IsCall(o) BY <4>2 DEF IsCall
      <4> QED BY <4>2, <4>3
    <3>2. CallOK(o) BY <3>1, MountsAssumption DEF CallOK, MountsAssumption
    <3>3. op' = [op EXCEPT ![t] = o] BY <1>1, <2>2
    <3>4. OpStep(t) /\ op'[t] = o BY <3>2, <3>3, Replace DEF MountInv
    <3> QED BY <3>1, <3>4
  <2> QED BY <2>1, <2>2
<1> QED BY <1>2, QuietStep DEF Call

LEMMA SearchInv ==
  ASSUME MountInv, NEW t \in Tasks, Search(t) PROVE MountInv'
<1>1. IsCall(op[t]) /\ DOMAIN op = Tasks /\ op[t].pc = "find"
  BY DEF MountInv, CallsOK, CallOK, Search
<1>2. CASE op[t].i >= count
  <2>1. Goto(t, "last") BY <1>1, <1>2 DEF Search, Goto
  <2>2. OpStep(t) /\ op'[t].pc # "flush" BY <2>1, GotoStep
  <2> QED BY <2>2, QuietStep DEF Search
<1>3. CASE ~ (op[t].i >= count) /\ Matches(slots[op[t].i], op[t].path)
  <2> DEFINE rest == After(op[t].path, slots[op[t].i].len)
             o == [op[t] EXCEPT !.pc = "match", !.answer.rest = rest]
  <2>1. op' = [op EXCEPT ![t] = o] BY <1>3 DEF Search
  <2>2. IsCall(o) /\ o.call = op[t].call /\ o.pc = "match"
    <3> DEFINE p == op[t]
               a == [p.answer EXCEPT !.rest = rest]
    <3>1. p = [call |-> p.call, pc |-> p.pc, path |-> p.path, i |-> p.i, answer |-> p.answer,
               ok |-> p.ok, first |-> p.first, dots |-> p.dots, listed |-> p.listed]
      BY <1>1 DEF IsCall
    <3>2. o = [[p EXCEPT !.pc = "match"] EXCEPT !.answer = a]
      <4> HIDE DEF rest
      <4> QED BY <3>1
    <3> HIDE DEF o, p, a
    <3>3. o = [call |-> p.call, pc |-> "match", path |-> p.path, i |-> p.i, answer |-> a,
               ok |-> p.ok, first |-> p.first, dots |-> p.dots, listed |-> p.listed]
      BY <3>1, <3>2
    <3>4. IsCall(o) BY <3>3 DEF IsCall
    <3> QED BY <3>3, <3>4 DEF p
  <2> HIDE DEF o
  <2>3. OpStep(t) /\ op'[t].pc # "flush" BY <2>1, <2>2, UpdateStep
  <2>4. strays \subseteq strays' BY DEF Search
  <2> QED BY <2>3, <2>4, QuietStep DEF Search
<1>4. CASE ~ (op[t].i >= count) /\ ~ Matches(slots[op[t].i], op[t].path)
  <2> DEFINE o == [op[t] EXCEPT !.i = op[t].i + 1]
  <2>1. op' = [op EXCEPT ![t] = o] BY <1>4 DEF Search
  <2>2. IsCall(o) /\ o.call = op[t].call /\ o.pc = "find" BY <1>1, NextSlot
  <2> HIDE DEF o
  <2>3. OpStep(t) /\ op'[t].pc # "flush" BY <2>1, <2>2, UpdateStep
  <2>4. strays \subseteq strays' BY DEF Search
  <2> QED BY <2>3, <2>4, QuietStep DEF Search
<1> QED BY <1>2, <1>3, <1>4

\* The manager of the slot that matched.
LEMMA TakenFields ==
  ASSUME NEW p, IsCall(p), NEW a
  PROVE  LET o == [p EXCEPT !.pc = "last", !.answer = a] IN
         /\ IsCall(o) /\ o.call = p.call /\ o.pc = "last" /\ o.path = p.path /\ o.i = p.i
         /\ o.listed = p.listed /\ o.answer = a
<1> DEFINE o == [p EXCEPT !.pc = "last", !.answer = a]
<1>0. p = [call |-> p.call, pc |-> p.pc, path |-> p.path, i |-> p.i, answer |-> p.answer,
           ok |-> p.ok, first |-> p.first, dots |-> p.dots, listed |-> p.listed]
  BY DEF IsCall
<1>4. o = [p EXCEPT !.pc = "last", !.answer = a] OBVIOUS
<1> HIDE DEF o
<1>1. o = [call |-> p.call, pc |-> "last", path |-> p.path, i |-> p.i, answer |-> a,
           ok |-> p.ok, first |-> p.first, dots |-> p.dots, listed |-> p.listed]
  BY <1>0, <1>4
<1>2. IsCall(o) BY <1>1 DEF IsCall
<1>3. /\ o.call = p.call /\ o.pc = "last" /\ o.path = p.path /\ o.i = p.i
      /\ o.listed = p.listed /\ o.answer = a
  BY <1>1
<1> QED BY <1>2, <1>3 DEF o

LEMMA TakeInv ==
  ASSUME MountInv, NEW t \in Tasks, TakeMatch(t) \/ TakeRoot(t) PROVE MountInv'
<1>1. CASE TakeMatch(t)
  <2> DEFINE a == [disk |-> slots[op[t].i].disk, rest |-> op[t].answer.rest]
             o == [op[t] EXCEPT !.pc = "last", !.answer = a]
  <2>1. op' = [op EXCEPT ![t] = o] BY <1>1 DEF TakeMatch
  <2>2. IsCall(op[t]) BY DEF MountInv, CallsOK, CallOK
  <2> HIDE DEF a
  <2>3. IsCall(o) /\ o.call = op[t].call /\ o.pc = "last" BY <2>2, TakenFields
  <2> HIDE DEF o
  <2>4. OpStep(t) /\ op'[t].pc # "flush" BY <2>1, <2>3, UpdateStep
  <2>5. strays \subseteq strays' BY <1>1 DEF TakeMatch
  <2> QED BY <1>1, <2>4, <2>5, QuietStep DEF TakeMatch
<1>2. CASE TakeRoot(t)
  <2>1. OpStep(t) /\ op'[t].pc # "flush" BY <1>2, AnswerStep DEF TakeRoot
  <2>2. strays \subseteq strays' BY <1>2 DEF TakeRoot
  <2> QED BY <1>2, <2>1, <2>2, QuietStep DEF TakeRoot
<1> QED BY <1>1, <1>2

LEMMA AddInv ==
  ASSUME MountInv, NEW t \in Tasks, FF_FS_Add(t) PROVE MountInv'
<1>1. Return(t) /\ UNCHANGED diskVars /\ strays \subseteq strays' BY DEF FF_FS_Add
<1> QED BY <1>1, ReturnStep, QuietStep

LEMMA RemoveInv ==
  ASSUME MountInv, NEW t \in Tasks, RemoveSearch(t) \/ RemoveClear(t) PROVE MountInv'
<1>1. CASE RemoveSearch(t)
  <2>1. CallOK(op[t]) /\ op[t].pc = "begin" BY <1>1 DEF MountInv, CallsOK, RemoveSearch, At
  <2>2. CASE op' = [op EXCEPT ![t].pc = "clear", ![t].i = 0]
    <3> DEFINE o == [op[t] EXCEPT !.pc = "clear", !.i = 0]
    <3>1. IsCall(o) /\ o.call = op[t].call /\ o.pc = "clear"
      <4> DEFINE p == op[t]
      <4>1. p = [call |-> p.call, pc |-> p.pc, path |-> p.path, i |-> p.i, answer |-> p.answer,
                 ok |-> p.ok, first |-> p.first, dots |-> p.dots, listed |-> p.listed]
        BY <2>1 DEF CallOK, IsCall
      <4>2. o = [p EXCEPT !.pc = "clear", !.i = 0] OBVIOUS
      <4> HIDE DEF o, p
      <4>3. o = [call |-> p.call, pc |-> "clear", path |-> p.path, i |-> 0, answer |-> p.answer,
                 ok |-> p.ok, first |-> p.first, dots |-> p.dots, listed |-> p.listed]
        BY <4>1, <4>2
      <4>4. IsCall(o) BY <4>3 DEF IsCall
      <4> QED BY <4>3, <4>4 DEF p
    <3>2. op' = [op EXCEPT ![t] = o] BY <2>2 DEF MountInv, CallsOK
    <3> QED BY <3>1, <3>2, UpdateStep, QuietStep, <1>1 DEF RemoveSearch
  <2>3. CASE Return(t) BY <1>1, <2>3, ReturnStep, QuietStep DEF RemoveSearch
  <2>4. CASE Goto(t, "clear") BY <1>1, <2>4, GotoStep, QuietStep DEF RemoveSearch
  <2>5. CASE op' = [op EXCEPT ![t].i = @ + 1]
    <3> DEFINE o == [op[t] EXCEPT !.i = op[t].i + 1]
    <3>1. IsCall(o) /\ o.call = op[t].call /\ o.pc = "begin" BY <2>1, NextSlot DEF CallOK
    <3>2. op' = [op EXCEPT ![t] = o] BY <2>5 DEF MountInv, CallsOK
    <3> QED BY <3>1, <3>2, UpdateStep, QuietStep, <1>1 DEF RemoveSearch
  <2> QED BY <1>1, <2>2, <2>3, <2>4, <2>5 DEF RemoveSearch
<1>2. CASE RemoveClear(t)
  <2>1. Return(t) /\ UNCHANGED diskVars /\ strays \subseteq strays' BY <1>2 DEF RemoveClear
  <2> QED BY <2>1, ReturnStep, QuietStep
<1> QED BY <1>1, <1>2

-----------------------------------------------------------------------------
(* The volumes. *)

LEMMA MountBeginInv ==
  ASSUME MountInv, NEW t \in Tasks, MountBegin(t) PROVE MountInv'
<1> DEFINE d == op[t].call.disk
<1>1. CallOK(op[t]) BY DEF MountInv, CallsOK
<1>2. d \in Disks BY <1>1 DEF CallOK, MountBegin, At
<1>3. OpStep(t) /\ op'[t].pc # "flush" BY GotoStep DEF MountBegin
<1>4. CallsOK' BY <1>3, OpStepOK DEF MountInv
<1>5. list' = [list EXCEPT ![d] = {}] /\ UNCHANGED <<mounted, file>> BY DEF MountBegin
<1>6. DisksOK' BY <1>2, <1>5 DEF MountInv, DisksOK
<1>7. strays' \cap Deprived = {} => strays \cap Deprived = {} /\ list[d] = {}
  BY DEF MountBegin, Deprived
<1>8. strays' \cap Deprived = {} => list' = list BY <1>5, <1>6, <1>7 DEF MountInv, DisksOK
<1>9. FlushedAreUnused' BY <1>3, <1>7, <1>8 DEF MountInv, FlushedAreUnused, OpStep
<1>10. OpenFilesAreServed' BY <1>5, <1>7, <1>8 DEF MountInv, OpenFilesAreServed
<1> QED BY <1>4, <1>6, <1>9, <1>10 DEF MountInv

LEMMA MountEndInv ==
  ASSUME MountInv, NEW t \in Tasks, MountEnd(t) PROVE MountInv'
<1>1. OpStep(t) /\ op'[t].pc = "idle" BY ReturnStep DEF MountEnd
<1>2. CallsOK' BY <1>1, OpStepOK DEF MountInv
<1>3. UNCHANGED <<list, file, strays>> BY DEF MountEnd
<1>4. DisksOK' BY <1>3 DEF MountInv, DisksOK, MountEnd
<1>5. \A d \in Disks : mounted[d] => mounted'[d] BY DEF MountInv, DisksOK, MountEnd
<1>6. FlushedAreUnused' BY <1>1, <1>3 DEF MountInv, FlushedAreUnused, OpStep
<1>7. OpenFilesAreServed' BY <1>3, <1>5 DEF MountInv, DisksOK, OpenFilesAreServed
<1> QED BY <1>2, <1>4, <1>6, <1>7 DEF MountInv

\* The flush begins only when the list is empty.
LEMMA UnmountTestInv ==
  ASSUME MountInv, NEW t \in Tasks, UnmountTest(t) PROVE MountInv'
<1> DEFINE d == op[t].call.disk
<1>1. UNCHANGED diskVars /\ strays' = strays BY DEF UnmountTest
<1>2. CASE Return(t) BY <1>1, <1>2, ReturnStep, QuietStep
<1>3. CASE list[d] = {} /\ Goto(t, "flush")
  <2> DEFINE o == [op[t] EXCEPT !.pc = "flush"]
  <2>1. CallOK(op[t]) /\ op[t].call.fn = "unmount"
    BY DEF MountInv, CallsOK, UnmountTest, At
  <2>2. op' = [op EXCEPT ![t] = o] BY <1>3 DEF Goto
  <2>3. IsCall(o) /\ o.pc = "flush" /\ o.call = op[t].call BY <2>1 DEF CallOK, IsCall
  <2>4. CallOK(o) BY <2>1, <2>3 DEF CallOK
  <2>5. OpStep(t) /\ op'[t] = o BY <2>2, <2>4, Replace DEF MountInv
  <2>6. CallsOK' BY <2>5, OpStepOK DEF MountInv
  <2>7. DisksOK' /\ OpenFilesAreServed'
    BY <1>1 DEF MountInv, diskVars, DisksOK, OpenFilesAreServed
  <2>8. FlushedAreUnused'
    <3> HIDE DEF o
    <3> QED BY <1>1, <1>3, <2>3, <2>5 DEF MountInv, diskVars, FlushedAreUnused, OpStep
  <2> QED BY <2>6, <2>7, <2>8 DEF MountInv
<1> QED BY <1>2, <1>3 DEF UnmountTest

\* No open file is on a volume that has been flushed.
LEMMA UnmountEndInv ==
  ASSUME MountInv, NEW t \in Tasks, UnmountEnd(t) PROVE MountInv'
<1> DEFINE d == op[t].call.disk
<1>1. OpStep(t) /\ op'[t].pc = "idle" BY ReturnStep DEF UnmountEnd
<1>2. CallsOK' BY <1>1, OpStepOK DEF MountInv
<1>3. UNCHANGED <<list, file, strays>> BY DEF UnmountEnd
<1>4. op[t].pc = "flush" BY DEF UnmountEnd, At
<1>5. DisksOK' BY <1>3 DEF MountInv, DisksOK, UnmountEnd
<1>6. FlushedAreUnused' BY <1>1, <1>3 DEF MountInv, FlushedAreUnused, OpStep
<1>7. OpenFilesAreServed'
  <2> SUFFICES ASSUME NEW u \in Tasks, file[u] # Nothing, strays \cap Deprived = {}
               PROVE  mounted'[file[u]] /\ u \in list[file[u]]
    BY <1>3 DEF OpenFilesAreServed
  <2>1. mounted[file[u]] /\ u \in list[file[u]] BY DEF MountInv, OpenFilesAreServed
  <2>2. list[d] = {} BY <1>4 DEF MountInv, FlushedAreUnused
  <2>3. file[u] # d /\ file[u] \in Disks BY <2>1, <2>2 DEF MountInv, DisksOK
  <2>4. mounted'[file[u]] = mounted[file[u]] BY <2>3 DEF MountInv, DisksOK, UnmountEnd
  <2> QED BY <2>1, <2>4
<1> QED BY <1>2, <1>5, <1>6, <1>7 DEF MountInv

-----------------------------------------------------------------------------
(* The handles. *)

LEMMA OpenFoundInv ==
  ASSUME MountInv, NEW t \in Tasks, OpenFound(t) PROVE MountInv'
<1>1. UNCHANGED diskVars /\ strays' = strays BY DEF OpenFound
<1>2. CASE Return(t) BY <1>1, <1>2, ReturnStep, QuietStep
<1>3. CASE op[t].ok /\ Goto(t, "opening")
  <2> DEFINE o == [op[t] EXCEPT !.pc = "opening"]
  <2>1. CallOK(op[t]) /\ op[t].pc = "found" BY DEF MountInv, CallsOK, OpenFound, At
  <2>2. op' = [op EXCEPT ![t] = o] BY <1>3 DEF Goto
  <2>3. /\ IsCall(o) /\ o.pc = "opening"
        /\ o.call = op[t].call /\ o.answer = op[t].answer
    BY <2>1 DEF CallOK, IsCall
  <2>4. CallOK(o) BY <1>3, <2>1, <2>3 DEF CallOK
  <2>5. OpStep(t) /\ op'[t] = o BY <2>2, <2>4, Replace DEF MountInv
  <2> HIDE DEF o
  <2> QED BY <1>1, <2>3, <2>5, QuietStep
<1> QED BY <1>2, <1>3 DEF OpenFound

\* A handle joins the list of a volume that is mounted and not being flushed, or
\* `strays' says that it did not.
LEMMA OpenJoinInv ==
  ASSUME MountInv, NEW t \in Tasks, OpenJoin(t) PROVE MountInv'
<1> DEFINE d == op[t].answer.disk
<1>1. OpStep(t) /\ op'[t].pc = "idle" BY ReturnStep DEF OpenJoin
<1>2. CASE UNCHANGED <<list, file, strays>>
  BY <1>1, <1>2, QuietStep DEF OpenJoin, diskVars
<1>3. CASE /\ list' = [list EXCEPT ![d] = @ \cup {t}]
           /\ file' = [file EXCEPT ![t] = d]
           /\ strays' = IF ~ mounted[d] THEN strays \cup {"late"}
                        ELSE IF Unmounting(d) THEN strays \cup {"overtaken"} ELSE strays
  <2>1. CallOK(op[t]) /\ op[t].pc = "opening" BY DEF MountInv, CallsOK, OpenJoin, At
  <2>2. d \in Disks BY <2>1 DEF CallOK
  <2>3. CallsOK' BY <1>1, OpStepOK DEF MountInv
  <2>4. mounted' = mounted BY DEF OpenJoin
  <2>5. DisksOK' BY <1>3, <2>2, <2>4 DEF MountInv, DisksOK
  <2>6. strays' \cap Deprived = {} =>
          strays \cap Deprived = {} /\ mounted[d] /\ ~ Unmounting(d)
    BY <1>3 DEF Deprived
  <2>7. FlushedAreUnused'
    <3> SUFFICES ASSUME strays' \cap Deprived = {}, NEW u \in Tasks, op'[u].pc = "flush"
                 PROVE  list'[op'[u].call.disk] = {}
      BY DEF FlushedAreUnused
    <3>1. u # t /\ op'[u] = op[u] BY <1>1 DEF OpStep
    <3>2. list[op[u].call.disk] = {} BY <2>6, <3>1 DEF MountInv, FlushedAreUnused
    <3>3. op[u].call.fn = "unmount" BY <3>1 DEF MountInv, CallsOK, CallOK
    <3>4. op[u].call.disk # d BY <2>6, <3>1, <3>3 DEF Unmounting, At
    <3>5. op[u].call.disk \in Disks BY <3>3 DEF MountInv, CallsOK, CallOK
    <3> QED BY <1>3, <3>1, <3>2, <3>4, <3>5 DEF MountInv, DisksOK
  <2>8. OpenFilesAreServed'
    <3> SUFFICES ASSUME strays' \cap Deprived = {}, NEW u \in Tasks, file'[u] # Nothing
                 PROVE  mounted[file'[u]] /\ u \in list'[file'[u]]
      BY <2>4 DEF OpenFilesAreServed
    <3>1. CASE u = t BY <1>3, <2>2, <2>6, <3>1 DEF MountInv, DisksOK
    <3>2. CASE u # t
      <4>1. file'[u] = file[u] /\ file[u] \in Disks BY <1>3, <3>2 DEF MountInv, DisksOK
      <4>2. mounted[file[u]] /\ u \in list[file[u]]
        BY <2>6, <4>1 DEF MountInv, OpenFilesAreServed
      <4>3. u \in list'[file[u]] BY <1>3, <4>1, <4>2 DEF MountInv, DisksOK
      <4> QED BY <4>1, <4>2, <4>3
    <3> QED BY <3>1, <3>2
  <2> QED BY <2>3, <2>5, <2>7, <2>8 DEF MountInv
<1> QED BY <1>2, <1>3 DEF OpenJoin

LEMMA CloseInv ==
  ASSUME MountInv, NEW t \in Tasks, Close(t) PROVE MountInv'
<1>1. OpStep(t) /\ op'[t].pc = "idle" BY ReturnStep DEF Close
<1>2. CallsOK' BY <1>1, OpStepOK DEF MountInv
<1>3. /\ list' = [list EXCEPT ![file[t]] = @ \ {t}]
      /\ file' = [file EXCEPT ![t] = Nothing] /\ UNCHANGED <<mounted, strays>>
  BY DEF Close
<1>4. DisksOK' BY <1>3 DEF MountInv, DisksOK
<1>5. \A d \in Disks : list[d] \ {t} \subseteq list'[d] /\ list'[d] \subseteq list[d]
  BY <1>3 DEF MountInv, DisksOK
<1>6. FlushedAreUnused'
  <2> SUFFICES ASSUME strays \cap Deprived = {}, NEW u \in Tasks, op'[u].pc = "flush"
               PROVE  list'[op'[u].call.disk] = {}
    BY <1>3 DEF FlushedAreUnused
  <2>1. op'[u] = op[u] BY <1>1 DEF OpStep
  <2>2. list[op[u].call.disk] = {} BY <2>1 DEF MountInv, FlushedAreUnused
  <2>3. op[u].call.disk \in Disks BY <2>1 DEF MountInv, CallsOK, CallOK
  <2> QED BY <1>5, <2>1, <2>2, <2>3
<1>7. OpenFilesAreServed'
  <2> SUFFICES ASSUME strays \cap Deprived = {}, NEW u \in Tasks, file'[u] # Nothing
               PROVE  mounted[file'[u]] /\ u \in list'[file'[u]]
    BY <1>3 DEF OpenFilesAreServed
  <2>1. u # t /\ file'[u] = file[u] /\ file[u] \in Disks BY <1>3 DEF MountInv, DisksOK
  <2>2. mounted[file[u]] /\ u \in list[file[u]] BY <2>1 DEF MountInv, OpenFilesAreServed
  <2> QED BY <1>5, <2>1, <2>2
<1> QED BY <1>2, <1>4, <1>6, <1>7 DEF MountInv

LEMMA RenameInv ==
  ASSUME MountInv, NEW t \in Tasks, RenameFound(t) \/ Move(t) PROVE MountInv'
<1>1. CASE Return(t)
  BY <1>1, ReturnStep, QuietStep DEF RenameFound, Move
<1>2. CASE RenameFound(t) /\ Lookup(t, op[t].call, op[t].call.to, op[t].answer.disk)
  BY <1>2, LookupStep, QuietStep DEF RenameFound, At
<1>3. CASE RenameFound(t) /\ Goto(t, "move")
  BY <1>3, GotoStep, QuietStep DEF RenameFound
<1> QED BY <1>1, <1>2, <1>3 DEF RenameFound, Move

LEMMA ChangeDirInv ==
  ASSUME MountInv, NEW t \in Tasks, ChangeDir(t) PROVE MountInv'
BY ReturnStep, QuietStep DEF ChangeDir

\* A step of a listing changes these of its variables.
LEMMA ListStep ==
  ASSUME MountInv, NEW t \in Tasks, UNCHANGED diskVars, strays \subseteq strays',
         NEW pc \in {"systems", "entries", "listed"}, NEW i, NEW dots, NEW listed,
         \/ op' = [op EXCEPT ![t].pc = pc, ![t].i = i, ![t].dots = dots]
         \/ op' = [op EXCEPT ![t].pc = pc, ![t].dots = dots, ![t].listed = listed]
         \/ op' = [op EXCEPT ![t].i = i, ![t].listed = listed] /\ op[t].pc = "systems"
  PROVE  MountInv'
<1>1. IsCall(op[t]) /\ DOMAIN op = Tasks BY DEF MountInv, CallsOK, CallOK
<1>2. PICK o : /\ op' = [op EXCEPT ![t] = o]
               /\ \/ o = [op[t] EXCEPT !.pc = pc, !.i = i, !.dots = dots]
                  \/ o = [op[t] EXCEPT !.pc = pc, !.dots = dots, !.listed = listed]
                  \/ /\ o = [op[t] EXCEPT !.i = i, !.listed = listed]
                     /\ op[t].pc = "systems"
  <2>1. CASE op' = [op EXCEPT ![t].pc = pc, ![t].i = i, ![t].dots = dots]
    <3> WITNESS [op[t] EXCEPT !.pc = pc, !.i = i, !.dots = dots]
    <3> QED BY <1>1, <2>1
  <2>2. CASE op' = [op EXCEPT ![t].pc = pc, ![t].dots = dots, ![t].listed = listed]
    <3> WITNESS [op[t] EXCEPT !.pc = pc, !.dots = dots, !.listed = listed]
    <3> QED BY <1>1, <2>2
  <2>3. CASE op' = [op EXCEPT ![t].i = i, ![t].listed = listed] /\ op[t].pc = "systems"
    <3> WITNESS [op[t] EXCEPT !.i = i, !.listed = listed]
    <3> QED BY <1>1, <2>3
  <2> QED BY <2>1, <2>2, <2>3
<1>3. IsCall(o) /\ o.call = op[t].call /\ o.pc \in {pc, op[t].pc}
  <2> DEFINE p == op[t]
  <2>1. \/ o = [p EXCEPT !.pc = pc, !.i = i, !.dots = dots]
        \/ o = [p EXCEPT !.pc = pc, !.dots = dots, !.listed = listed]
        \/ o = [p EXCEPT !.i = i, !.listed = listed]
    BY <1>2
  <2>2. p = [call |-> p.call, pc |-> p.pc, path |-> p.path, i |-> p.i, answer |-> p.answer,
             ok |-> p.ok, first |-> p.first, dots |-> p.dots, listed |-> p.listed]
    BY <1>1 DEF IsCall
  <2> HIDE DEF p
  <2>3. IsCall(o) /\ o.call = p.call /\ o.pc \in {pc, p.pc}
    <3>1. CASE o = [p EXCEPT !.pc = pc, !.i = i, !.dots = dots]
      <4>1. o = [call |-> p.call, pc |-> pc, path |-> p.path, i |-> i, answer |-> p.answer,
                 ok |-> p.ok, first |-> p.first, dots |-> dots, listed |-> p.listed]
        BY <2>2, <3>1
      <4> QED BY <4>1 DEF IsCall
    <3>2. CASE o = [p EXCEPT !.pc = pc, !.dots = dots, !.listed = listed]
      <4>1. o = [call |-> p.call, pc |-> pc, path |-> p.path, i |-> p.i, answer |-> p.answer,
                 ok |-> p.ok, first |-> p.first, dots |-> dots, listed |-> listed]
        BY <2>2, <3>2
      <4> QED BY <4>1 DEF IsCall
    <3>3. CASE o = [p EXCEPT !.i = i, !.listed = listed]
      <4>1. o = [call |-> p.call, pc |-> p.pc, path |-> p.path, i |-> i, answer |-> p.answer,
                 ok |-> p.ok, first |-> p.first, dots |-> p.dots, listed |-> listed]
        BY <2>2, <3>3
      <4> QED BY <4>1 DEF IsCall
    <3> QED BY <2>1, <3>1, <3>2, <3>3
  <2> QED BY <2>3 DEF p
<1>4. o.pc \in {"systems", "entries", "listed"}
  <2>1. CASE op[t].pc = "systems" BY <1>3, <2>1
  <2>2. CASE op[t].pc # "systems" BY <1>1, <1>2, <2>2 DEF IsCall
  <2> QED BY <2>1, <2>2
<1>5. OpStep(t) /\ op'[t].pc # "flush" BY <1>2, <1>3, <1>4, UpdateStep
<1> QED BY <1>5, QuietStep

LEMMA ListInv ==
  ASSUME MountInv, NEW t \in Tasks,
         ListFound(t) \/ ListEntries(t) \/ ListSystem(t) \/ ListDots(t) \/ ListEnd(t)
  PROVE  MountInv'
<1>1. UNCHANGED diskVars /\ strays \subseteq strays'
  BY DEF ListFound, ListEntries, ListSystem, ListDots, ListEnd
<1>2. CASE Return(t) BY <1>1, <1>2, ReturnStep, QuietStep
<1>3. CASE Goto(t, "systems") BY <1>1, <1>3, GotoStep, QuietStep
<1>4. CASE Goto(t, "dots") BY <1>1, <1>4, GotoStep, QuietStep
<1>5. CASE ListFound(t) /\ ~ Return(t)
  <2>1. \E pc \in {"systems", "entries"} : \E i, dots :
          op' = [op EXCEPT ![t].pc = pc, ![t].i = i, ![t].dots = dots]
    BY <1>5 DEF ListFound
  <2> QED BY <1>1, <2>1, ListStep
<1>6. CASE ListEntries(t) /\ ~ Return(t) /\ ~ Goto(t, "systems")
  BY <1>1, <1>6, ListStep DEF ListEntries
<1>7. CASE ListSystem(t) /\ ~ Goto(t, "dots")
  <2> DEFINE i == op[t].i - 1
             listed == IF i < count /\ slots[i].path # <<>> THEN List(t, <<slots[i].path>>)
                       ELSE op[t].listed
  <2>1. op' = [op EXCEPT ![t].i = i, ![t].listed = listed] BY <1>7 DEF ListSystem
  <2> HIDE DEF i, listed
  <2> QED BY <1>1, <1>7, <2>1, ListStep DEF ListSystem, At
<1>8. CASE ListDots(t) BY <1>1, <1>8, ListStep DEF ListDots
<1>9. CASE ListEnd(t) BY <1>2, <1>9 DEF ListEnd
<1> QED BY <1>2, <1>3, <1>4, <1>5, <1>6, <1>7, <1>8, <1>9

-----------------------------------------------------------------------------
LEMMA InitMount == Init => MountInv
<1> SUFFICES ASSUME Init PROVE MountInv OBVIOUS
<1>1. op = [t \in Tasks |-> Idle] BY DEF Init
<1>2. \A t \in Tasks : CallOK(op[t]) /\ op[t].pc # "flush" BY <1>1, IdleOK
<1>3. CallsOK BY <1>1, <1>2 DEF CallsOK
<1>4. FlushedAreUnused BY <1>2 DEF FlushedAreUnused
<1>5. \A t \in Tasks : file[t] = Nothing BY DEF Init
<1>6. DisksOK BY DEF Init, DisksOK
<1>7. OpenFilesAreServed BY <1>5 DEF OpenFilesAreServed
<1> QED BY <1>3, <1>4, <1>6, <1>7 DEF MountInv

LEMMA NextMount == MountInv /\ [Next]_vars => MountInv'
<1> SUFFICES ASSUME MountInv, [Next]_vars PROVE MountInv' OBVIOUS
<1>1. CASE UNCHANGED vars
  BY <1>1 DEF vars, diskVars, MountInv, DisksOK, CallsOK, FlushedAreUnused, OpenFilesAreServed
<1>2. ASSUME NEW t \in Tasks, Step(t) PROVE MountInv'
  <2>1. CASE Call(t) BY <2>1, CallInv
  <2>2. CASE FF_FS_Find(t) BY <2>2, SearchInv, TakeInv DEF FF_FS_Find
  <2>3. CASE FF_FS_Add(t) BY <2>3, AddInv
  <2>4. CASE RemoveSearch(t) \/ RemoveClear(t) BY <2>4, RemoveInv
  <2>5. CASE MountBegin(t) BY <2>5, MountBeginInv
  <2>6. CASE MountEnd(t) BY <2>6, MountEndInv
  <2>7. CASE UnmountTest(t) BY <2>7, UnmountTestInv
  <2>8. CASE UnmountEnd(t) BY <2>8, UnmountEndInv
  <2>9. CASE OpenFound(t) BY <2>9, OpenFoundInv
  <2>10. CASE OpenJoin(t) BY <2>10, OpenJoinInv
  <2>11. CASE Close(t) BY <2>11, CloseInv
  <2>12. CASE RenameFound(t) \/ Move(t) BY <2>12, RenameInv
  <2>13. CASE ChangeDir(t) BY <2>13, ChangeDirInv
  <2>14. CASE ListFound(t) \/ ListEntries(t) \/ ListSystem(t) \/ ListDots(t) \/ ListEnd(t)
    BY <2>14, ListInv
  <2> QED BY <1>2, <2>1, <2>2, <2>3, <2>4, <2>5, <2>6, <2>7, <2>8, <2>9, <2>10, <2>11,
             <2>12, <2>13, <2>14 DEF Step
<1> QED BY <1>1, <1>2 DEF Next

\* As long as no volume with open files is mounted again, and no file opened on a volume
\* that is unmounted or being unmounted, an open file is in the list of its volume and
\* the volume is mounted, whatever has become of the table: the test of FF_Unmount is
\* enough.
THEOREM OpenFilesStayServed == Spec => []OpenFilesAreServed
<1>1. MountInv => OpenFilesAreServed BY DEF MountInv
<1> QED BY InitMount, NextMount, <1>1, PTL DEF Spec

-----------------------------------------------------------------------------
(* FF_FS_Find answers from the table, and the root's listing has its mounts. *)

\* Slot 0 is the root's.  A slot in use has its path's length; one that is not has
\* length 0 and matches every path; none is in use from count on; and no path is in use
\* twice.
SlotOK(s) ==
  /\ s = [path |-> s.path, len |-> s.len, disk |-> s.disk]
  /\ IsMountPath(s.path)

TableOK ==
  /\ slots = [i \in Indices |-> slots[i]] /\ count \in 0 .. MaxFileSys
  /\ \A i \in Indices : SlotOK(slots[i]) /\ (slots[i].disk # Nothing => i < count)
  /\ slots[0].path = <<>>
  /\ \A i \in Indices \ {0} :
       IF slots[i].disk = Nothing THEN slots[i].len = 0
       ELSE slots[i].path # <<>> /\ slots[i].len = Len(slots[i].path)
  /\ \A i, j \in Indices \ {0} :
       slots[i].disk # Nothing /\ slots[j].disk # Nothing /\ slots[i].path = slots[j].path
         => i = j

\* The dots that a listing has to show, and whether it has.
DotsOf(o) == IF o.path = <<>> THEN {"."} ELSE {".", ".."}

DotsOK(o) ==
  /\ o.dots \subseteq DotsOf(o)
  /\ \A x \in {".", ".."} :
       Times(<<x>>, o.listed) = IF x \in DotsOf(o) \ o.dots THEN 1 ELSE 0

IsSeq(q) == \E S : q \in Seq(S)

\* What a walk over the table has in its hands at each place.
WalkOK(o) ==
  /\ o.answer = [disk |-> o.answer.disk, rest |-> o.answer.rest]
  /\ o.call.fn = "add" => IsMountPath(o.call.path.names)
  /\ o.pc \in Searching => o.listed = <<>>
  /\ o.pc \in {"begin", "find"} => o.i \in Nat \ {0}
  /\ o.pc = "match" => o.i \in Indices \ {0}
  /\ o.pc = "clear" => o.i \in Indices
  /\ o.pc \in Searching \cup {"entries"} /\ o.path = <<>> => o.answer.rest = <<>>
  /\ o.pc \in Listing =>
       /\ IsSeq(o.listed) /\ DotsOK(o)
       /\ o.i \in IF o.path = <<>> THEN 0 .. MaxFileSys ELSE {0}
  /\ o.pc = "entries" => o.dots = DotsOf(o) /\ o.listed = <<>>
  /\ o.pc = "systems" /\ o.path = <<>> => o.dots = DotsOf(o)
  /\ o.pc \in {"dots", "listed"} => o.i = 0
  /\ o.pc = "listed" => o.dots = {}

WalksOK == \A t \in Tasks : WalkOK(op[t])

\* A mount nobody has touched is where it was when the listing began, and listed as soon
\* as the walk has come past it.
MountListed(o, m) ==
  \E j \in Indices \ {0} :
    /\ slots[j].disk # Nothing /\ slots[j].path = m
    /\ IF j >= o.i THEN /\ Times(m, o.listed) >= 1
                        /\ "doubled" \notin strays => Times(m, o.listed) = 1
       ELSE "doubled" \notin strays => Times(m, o.listed) = 0

ListingsOK ==
  \A t \in Tasks : op[t].pc \in Listing =>
    /\ steady[t] \cap Touched = {}
    /\ op[t].path = <<>> /\ "mistaken" \notin strays =>
         \A m \in steady[t] : MountListed(op[t], m)

TableInv == MountInv /\ TableOK /\ WalksOK /\ ListingsOK

-----------------------------------------------------------------------------
(* How often a name is in a listing. *)

LEMMA TimesNone == \A x : Times(x, <<>>) = 0 /\ IsSeq(<<>>)
<1>1. \A x : {i \in DOMAIN <<>> : <<>>[i] = x} = {} OBVIOUS
<1>2. <<>> \in Seq({}) OBVIOUS
<1> QED BY <1>1, <1>2, FS_EmptySet DEF Times, IsSeq

\* One more name.
LEMMA TimesMore ==
  ASSUME NEW q, IsSeq(q), NEW y
  PROVE  /\ IsSeq(q \o <<y>>)
         /\ \A x : /\ Times(x, q) \in Nat
                   /\ Times(x, q \o <<y>>) = Times(x, q) + IF x = y THEN 1 ELSE 0
<1>1. PICK S : q \in Seq(S) BY DEF IsSeq
<1>2. q \o <<y>> \in Seq(S \cup {y}) BY <1>1
<1> DEFINE n == Len(q)
           r == q \o <<y>>
<1>3. /\ n \in Nat /\ DOMAIN q = 1 .. n /\ DOMAIN r = 1 .. n + 1
      /\ \A i \in 1 .. n : r[i] = q[i]
      /\ r[n + 1] = y
  BY <1>1
<1> HIDE DEF n, r
<1>4. ASSUME NEW x
      PROVE  /\ Times(x, q) \in Nat
             /\ Times(x, r) = Times(x, q) + IF x = y THEN 1 ELSE 0
  <2> DEFINE A == {i \in DOMAIN q : q[i] = x}
             B == {i \in DOMAIN r : r[i] = x}
  <2>1. IsFiniteSet(A)
    <3>1. IsFiniteSet(1 .. n) BY <1>3, FS_Interval
    <3>2. A \subseteq 1 .. n BY <1>3
    <3> QED BY <3>1, <3>2, FS_Subset
  <2>2. Cardinality(A) \in Nat BY <2>1, FS_CardinalityType
  <2>3. n + 1 \notin A BY <1>3
  <2>4. B = IF x = y THEN A \cup {n + 1} ELSE A BY <1>3
  <2>5. Cardinality(A \cup {n + 1}) = Cardinality(A) + 1 BY <2>1, <2>3, FS_AddElement
  <2> HIDE DEF A, B
  <2>6. Cardinality(B) = Cardinality(A) + IF x = y THEN 1 ELSE 0 BY <2>2, <2>4, <2>5
  <2> QED BY <2>2, <2>6 DEF Times, A, B
<1> QED BY <1>2, <1>4 DEF IsSeq, r

\* A set of numbers has a greatest and a least one.
LEMMA HasGreatest ==
  ASSUME NEW n \in Nat, NEW S, S \subseteq 0 .. n, S # {}
  PROVE  \E k \in S : \A j \in S : j <= k
<1> DEFINE D == {m \in 0 .. n :
                   \A T \in SUBSET (0 .. m) : T # {} => \E k \in T : \A j \in T : j <= k}
<1>1. 0 \in D
  <2> SUFFICES ASSUME NEW T \in SUBSET (0 .. 0), T # {} PROVE \E k \in T : \A j \in T : j <= k
    OBVIOUS
  <2>0. \A j \in T : j = 0 OBVIOUS
  <2>1. PICK k \in T : TRUE OBVIOUS
  <2>2. k = 0 /\ 0 <= 0 BY <2>0
  <2> QED BY <2>0, <2>1, <2>2
<1>2. ASSUME NEW m \in 0 .. n - 1, m \in D PROVE m + 1 \in D
  <2> SUFFICES ASSUME NEW T \in SUBSET (0 .. m + 1), T # {}
               PROVE  \E k \in T : \A j \in T : j <= k
    OBVIOUS
  <2>1. CASE m + 1 \in T BY <2>1
  <2>2. CASE m + 1 \notin T
    <3>1. T \in SUBSET (0 .. m) BY <2>2
    <3> QED BY <1>2, <3>1
  <2> QED BY <2>1, <2>2
<1> HIDE DEF D
<1>3. \A m \in 0 .. n : m \in D BY <1>1, <1>2, BoundedInduction
<1>4. n \in D BY <1>3
<1> QED BY <1>4 DEF D

LEMMA HasLeast ==
  ASSUME NEW S, S \subseteq Nat, S # {}
  PROVE  \E k \in S : \A j \in S : k <= j
<1>1. \E x \in S : \A y \in S : <<y, x>> \notin OpToRel(<, Nat)
  BY NatLessThanWellFounded, WFMin
<1>2. \E x \in S : \A y \in S : ~ (y < x) BY <1>1 DEF OpToRel
<1> QED BY <1>2

-----------------------------------------------------------------------------
(* The table. *)

LEMMA IndicesAre ==
  /\ MaxFileSys \in Nat \ {0} /\ 0 \in Indices
  /\ \A i : i \in Indices <=> i \in Nat /\ i < MaxFileSys
BY MountsAssumption DEF Indices

LEMMA InitTable == Init => TableOK
<1> SUFFICES ASSUME Init PROVE TableOK OBVIOUS
<1>1. PICK s \in Starts :
        /\ slots = [i \in Indices |-> IF i < Len(s)
             THEN [path |-> s[i + 1][1], len |-> Len(s[i + 1][1]), disk |-> s[i + 1][2]]
             ELSE EmptySlot]
        /\ count = Len(s)
  BY DEF Init
<1>2. /\ Len(s) \in 0 .. MaxFileSys
      /\ \A k \in 1 .. Len(s) :
           /\ IsMountPath(s[k][1]) /\ (s[k][1] = <<>> <=> k = 1)
           /\ s[k][2] \in Disks \/ (k = 1 /\ s[k][2] = Nothing)
           /\ \A j \in 1 .. k - 1 : s[j][1] # s[k][1]
      /\ Nothing \notin Disks
  BY MountsAssumption
<1> DEFINE n == Len(s)
           p(k) == s[k][1]
           d(k) == s[k][2]
<1>3. /\ n \in Nat /\ n <= MaxFileSys
      /\ \A i \in Indices : i < n =>
           /\ slots[i].path = p(i + 1) /\ slots[i].len = Len(p(i + 1))
           /\ slots[i].disk = d(i + 1)
           /\ slots[i] = [path |-> slots[i].path, len |-> slots[i].len, disk |-> slots[i].disk]
      /\ \A i \in Indices : ~ (i < n) => slots[i] = EmptySlot
  BY <1>1, <1>2, IndicesAre
<1>4. /\ \A k \in 1 .. n : IsMountPath(p(k)) /\ (p(k) = <<>> <=> k = 1)
      /\ \A k \in 1 .. n : k # 1 => d(k) # Nothing
      /\ \A k \in 1 .. n : \A j \in 1 .. k - 1 : p(j) # p(k)
  BY <1>2
<1>5. slots = [i \in Indices |-> slots[i]] /\ count = n BY <1>1
<1> HIDE DEF n, p, d
<1>6. IsMountPath(<<>>) BY DEF IsMountPath
<1>7. ASSUME NEW i \in Indices
      PROVE  SlotOK(slots[i]) /\ (slots[i].disk # Nothing => i < count)
  <2>1. CASE i < n
    <3>1. i + 1 \in 1 .. n BY <1>3, <2>1, IndicesAre
    <3> QED BY <1>3, <1>4, <1>5, <2>1, <3>1 DEF SlotOK
  <2>2. CASE ~ (i < n) BY <1>3, <1>6, <2>2 DEF SlotOK, EmptySlot
  <2> QED BY <2>1, <2>2
<1>8. slots[0].path = <<>>
  <2>1. CASE 0 < n
    <3>0. PICK i \in Indices : i = 0 BY IndicesAre
    <3>1. slots[i].path = p(i + 1) BY <1>3, <2>1, <3>0
    <3>3. i + 1 = 1 BY <3>0
    <3>4. p(i + 1) = p(1) BY <3>3
    <3>2. 1 \in 1 .. n BY <1>3, <2>1
    <3> QED BY <1>4, <3>0, <3>1, <3>2, <3>4
  <2>2. CASE ~ (0 < n) BY <1>3, <2>2, IndicesAre DEF EmptySlot
  <2> QED BY <2>1, <2>2
<1>9. ASSUME NEW i \in Indices \ {0}
      PROVE  IF slots[i].disk = Nothing THEN slots[i].len = 0
             ELSE slots[i].path # <<>> /\ slots[i].len = Len(slots[i].path)
  <2>1. CASE i < n
    <3>1. i + 1 \in 1 .. n /\ i + 1 # 1 BY <1>3, <2>1, IndicesAre
    <3> QED BY <1>3, <1>4, <2>1, <3>1
  <2>2. CASE ~ (i < n) BY <1>3, <2>2 DEF EmptySlot
  <2> QED BY <2>1, <2>2
<1>10. ASSUME NEW i \in Indices \ {0}, NEW j \in Indices \ {0}, i # j,
              slots[i].disk # Nothing, slots[j].disk # Nothing, slots[i].path = slots[j].path
       PROVE  FALSE
  <2>1. i < n /\ j < n BY <1>5, <1>7, <1>10
  <2>2. i + 1 \in 1 .. n /\ j + 1 \in 1 .. n /\ i \in Nat /\ j \in Nat
    BY <1>3, <2>1, IndicesAre
  <2>3. p(i + 1) = p(j + 1) BY <1>3, <1>10, <2>1
  <2>4. i + 1 \in 1 .. (j + 1) - 1 \/ j + 1 \in 1 .. (i + 1) - 1 BY <1>10, <2>2
  <2> QED BY <1>4, <2>2, <2>3, <2>4
<1>11. count \in 0 .. MaxFileSys BY <1>3, <1>5, IndicesAre
<1> QED BY <1>5, <1>7, <1>8, <1>9, <1>10, <1>11 DEF TableOK

\* A table in which one slot has been filled: its path is nowhere else.
LEMMA PutTable ==
  ASSUME TableOK, NEW i \in Indices, NEW p, NEW d, Put(i, p, d), IsMountPath(p),
         d # Nothing, p = <<>> <=> i = 0,
         \A j \in Indices \ {0} : slots[j].disk # Nothing /\ slots[j].path = p => j = i,
         count' \in 0 .. MaxFileSys, count <= count', i < count'
  PROVE  TableOK'
<1> DEFINE s == [path |-> p, len |-> Len(p), disk |-> d]
<1>1. slots' = [slots EXCEPT ![i] = s] BY DEF Put
<1>2. DOMAIN slots = Indices BY DEF TableOK
<1>3. /\ slots'[i] = s /\ slots' = [j \in Indices |-> slots'[j]]
      /\ \A j \in Indices : j # i => slots'[j] = slots[j]
  BY <1>1, <1>2
<1>4. s.path = p /\ s.len = Len(p) /\ s.disk = d OBVIOUS
<1>5. SlotOK(s) BY DEF SlotOK
<1> HIDE DEF s
<1>6. \A j \in Indices : SlotOK(slots'[j]) /\ (slots'[j].disk # Nothing => j < count')
  BY <1>3, <1>4, <1>5, IndicesAre DEF TableOK
<1>7. slots'[0].path = <<>> BY <1>3, <1>4, IndicesAre DEF TableOK
<1>8. \A j \in Indices \ {0} :
        IF slots'[j].disk = Nothing THEN slots'[j].len = 0
        ELSE slots'[j].path # <<>> /\ slots'[j].len = Len(slots'[j].path)
  BY <1>3, <1>4 DEF TableOK
<1>9. \A j, k \in Indices \ {0} :
        slots'[j].disk # Nothing /\ slots'[k].disk # Nothing /\ slots'[j].path = slots'[k].path
          => j = k
  BY <1>3, <1>4 DEF TableOK
<1> QED BY <1>3, <1>6, <1>7, <1>8, <1>9 DEF TableOK

\* What one step leaves of the mounts nobody is adding or removing.
Keeps(m) ==
  \A j \in Indices \ {0} : slots[j].disk # Nothing /\ slots[j].path = m =>
                             slots'[j].disk # Nothing /\ slots'[j].path = m

KeepsUntouched == "mistaken" \notin strays' => \A m : m \notin Touched => Keeps(m)

LEMMA Least ==
  ASSUME NEW S, S \subseteq Nat, S # {}
  PROVE  LET k == CHOOSE i \in S : \A j \in S : i <= j IN k \in S /\ \A j \in S : k <= j
BY HasLeast

LEMMA AddTable ==
  ASSUME TableOK, MountInv, NEW t \in Tasks, FF_FS_Add(t), IsMountPath(op[t].call.path.names)
  PROVE  TableOK' /\ KeepsUntouched
<1> DEFINE p == op[t].call.path.names
           d == op[t].call.disk
           n == IF count = 0 THEN 1 ELSE count
           same == {i \in 1 .. n - 1 : SamePath(slots[i], p)}
           free == {i \in 1 .. n - 1 : slots[i].disk = Nothing}
           first(S) == CHOOSE i \in S : \A j \in S : i <= j
<1>1. \/ p = <<>> /\ Put(0, p, d) /\ count' = n
      \/ p # <<>> /\ same # {} /\ Put(first(same), p, d) /\ count' = n
      \/ p # <<>> /\ same = {} /\ free # {} /\ Put(first(free), p, d) /\ count' = n
      \/ p # <<>> /\ same = {} /\ free = {} /\ n < MaxFileSys /\ Put(n, p, d) /\ count' = n + 1
      \/ p # <<>> /\ same = {} /\ free = {} /\ n = MaxFileSys /\ count' = n /\ UNCHANGED slots
  BY DEF FF_FS_Add
<1>2. d \in Disks /\ d # Nothing
  BY MountsAssumption DEF MountInv, CallsOK, CallOK, FF_FS_Add, At
<1>3. /\ n \in 1 .. MaxFileSys /\ count \in 0 .. MaxFileSys /\ count <= n
      /\ \A i : i \in 1 .. n - 1 => i \in Indices /\ i # 0 /\ i < n
      /\ same \subseteq Nat /\ free \subseteq Nat
  BY IndicesAre DEF TableOK
<1>4. p \in Touched BY DEF Touched, FF_FS_Add, At
<1>5. \A j \in Indices \ {0} : slots[j].disk # Nothing /\ slots[j].path = p =>
        j \in same /\ p # <<>>
  <2> SUFFICES ASSUME NEW j \in Indices \ {0}, slots[j].disk # Nothing, slots[j].path = p
               PROVE  j \in same /\ p # <<>>
    OBVIOUS
  <2>1. j < count /\ p # <<>> /\ slots[j].len = Len(p) BY DEF TableOK
  <2>2. j \in 1 .. n - 1 BY <1>3, <2>1, IndicesAre
  <2> QED BY <2>1, <2>2 DEF SamePath
<1> DEFINE i == IF p = <<>> THEN 0 ELSE IF same # {} THEN first(same)
                ELSE IF free # {} THEN first(free) ELSE n
<1>6. /\ same # {} => first(same) \in same
      /\ free # {} => first(free) \in free
  BY <1>3, Least
<1>7. \A j \in same : slots[j].path = p BY DEF SamePath
<1>8. \A j, k \in Indices \ {0} :
        slots[j].disk # Nothing /\ slots[k].disk # Nothing /\ slots[j].path = slots[k].path
          => j = k
  BY DEF TableOK
\* a slot of the same length is in use
<1>9. p # <<>> => \A j \in same : slots[j].disk # Nothing
  <2> SUFFICES ASSUME p # <<>>, NEW j \in same, slots[j].disk = Nothing PROVE FALSE OBVIOUS
  <2>1. j \in Indices \ {0} BY <1>3
  <2>2. slots[j].len = 0 /\ slots[j].len = Len(p) BY <2>1 DEF TableOK, SamePath
  <2>3. p = <<>> BY <2>2 DEF IsMountPath
  <2> QED BY <2>3
<1>10. CASE UNCHANGED slots /\ count' = n
  <2>1. TableOK'
    <3>1. \A j \in Indices : slots[j].disk # Nothing => j < n BY <1>3, IndicesAre DEF TableOK
    <3> QED BY <1>3, <1>10, <3>1 DEF TableOK
  <2> QED BY <1>10, <2>1 DEF KeepsUntouched, Keeps
<1>11. CASE /\ Put(i, p, d) /\ i \in Indices /\ i < count'
            /\ count' \in {n, n + 1} /\ count' \in 0 .. MaxFileSys
  <2>1. \A j \in Indices \ {0} : slots[j].disk # Nothing /\ slots[j].path = p => j = i
    BY <1>3, <1>5, <1>6, <1>7, <1>8, <1>9
  <2>2. p = <<>> <=> i = 0
    <3>1. same # {} => first(same) # 0 BY <1>3, <1>6
    <3>2. free # {} => first(free) # 0 BY <1>3, <1>6
    <3>3. n # 0 BY <1>3
    <3> HIDE DEF same, free, n, first
    <3> QED BY <3>1, <3>2, <3>3
  <2>3. count <= count' BY <1>3, <1>11
  <2>4. TableOK'
    <3>1. IsMountPath(p) OBVIOUS
    <3> HIDE DEF i, p, d, n
    <3> QED BY <1>2, <1>11, <2>1, <2>2, <2>3, <3>1, PutTable
  <2>5. \A j \in Indices \ {0} : j # i => slots'[j] = slots[j]
    <3> HIDE DEF i, p, d
    <3> QED BY <1>11 DEF Put, TableOK
  <2>6. ASSUME NEW m, m \notin Touched, NEW j \in Indices \ {0},
               slots[j].disk # Nothing, slots[j].path = m
        PROVE  j # i
    <3>1. m # p BY <1>4, <2>6
    <3>2. j # n
      <4>1. j < count BY <2>6 DEF TableOK
      <4> QED BY <1>3, <4>1, IndicesAre
    <3> QED BY <1>3, <1>6, <1>7, <2>6, <3>1, <3>2
  <2>7. KeepsUntouched
    <3> HIDE DEF i
    <3> QED BY <2>5, <2>6 DEF KeepsUntouched, Keeps
  <2> QED BY <2>4, <2>7
<1>12. CASE p = <<>> /\ Put(0, p, d) /\ count' = n
  BY <1>3, <1>11, <1>12, IndicesAre
<1>13. CASE p # <<>> /\ same # {} /\ Put(first(same), p, d) /\ count' = n
  BY <1>3, <1>6, <1>11, <1>13, IndicesAre
<1>14. CASE p # <<>> /\ same = {} /\ free # {} /\ Put(first(free), p, d) /\ count' = n
  BY <1>3, <1>6, <1>11, <1>14, IndicesAre
<1>15. CASE p # <<>> /\ same = {} /\ free = {} /\ n < MaxFileSys /\ Put(n, p, d) /\ count' = n + 1
  BY <1>3, <1>11, <1>15, IndicesAre
<1> QED BY <1>1, <1>10, <1>12, <1>13, <1>14, <1>15

\* FF_FS_Remove empties a slot and gives up those behind the last one in use.
LEMMA RemoveTable ==
  ASSUME TableOK, NEW t \in Tasks, RemoveClear(t), op[t].i \in Indices
  PROVE  TableOK' /\ KeepsUntouched
<1> DEFINE i == op[t].i
<1>1. /\ slots' = [slots EXCEPT ![i].disk = Nothing, ![i].len = 0]
      /\ count' = Shrunk(slots')
      /\ strays' = IF Live(i) /\ slots[i].path # op[t].call.path.names
                   THEN strays \cup {"mistaken"} ELSE strays
  BY DEF RemoveClear
<1>2. /\ slots = [j \in Indices |-> slots[j]] /\ count \in 0 .. MaxFileSys
      /\ slots[i] = [path |-> slots[i].path, len |-> slots[i].len, disk |-> slots[i].disk]
  BY DEF TableOK, SlotOK
<1>3. /\ slots' = [j \in Indices |-> slots'[j]]
      /\ slots'[i] = [path |-> slots[i].path, len |-> 0, disk |-> Nothing]
      /\ \A j \in Indices : j # i => slots'[j] = slots[j]
  BY <1>1, <1>2
<1>4. slots'[i].path = slots[i].path /\ slots'[i].len = 0 /\ slots'[i].disk = Nothing
  BY <1>3
<1>5. \A j \in Indices : slots'[j].disk # Nothing => slots[j].disk # Nothing /\ j # i /\ j < count
  BY <1>3, <1>4 DEF TableOK
<1> DEFINE s == slots'
           busy == {j \in 1 .. count - 1 : s[j].disk # Nothing}
           last == CHOOSE j \in busy : \A k \in busy : k <= j
<1>6. /\ count' \in 0 .. MaxFileSys
      /\ \A j \in Indices : slots'[j].disk # Nothing => j < count'
  <2>1. busy \subseteq 0 .. count BY <1>2
  <2>2. busy # {} => last \in busy /\ \A k \in busy : k <= last
    <3> HIDE DEF busy
    <3> QED BY <1>2, <2>1, HasGreatest
  <2>3. count' = IF count = 0 THEN 0 ELSE IF busy = {} THEN 1 ELSE 1 + last BY <1>1 DEF Shrunk
  <2> HIDE DEF last
  <2>4. count' \in 0 .. MaxFileSys BY <1>2, <2>2, <2>3, IndicesAre
  <2>5. ASSUME NEW j \in Indices, slots'[j].disk # Nothing PROVE j < count'
    <3>1. j < count /\ j \in Nat BY <1>5, <2>5, IndicesAre
    <3>2. j # 0 => j \in busy BY <1>2, <2>5, <3>1
    <3>3. j # 0 => j <= last /\ last \in Nat BY <1>2, <2>2, <3>2
    <3>4. count # 0 BY <1>2, <3>1
    <3>5. j # 0 => count' = 1 + last BY <2>3, <3>2, <3>4
    <3>6. j = 0 => j < count'
      <4>1. busy # {} => last \in Nat BY <1>2, <2>2
      <4> QED BY <2>3, <3>4, <4>1
    <3> QED BY <3>1, <3>3, <3>5, <3>6
  <2> QED BY <2>4, <2>5
<1>7. TableOK'
  <2>1. \A j \in Indices : SlotOK(slots'[j])
    <3>1. SlotOK(slots'[i]) BY <1>3, <1>4 DEF TableOK, SlotOK
    <3> QED BY <1>3, <3>1 DEF TableOK
  <2>2. slots'[0].path = <<>> BY <1>3, <1>4, IndicesAre DEF TableOK
  <2>3. \A j \in Indices \ {0} :
          IF slots'[j].disk = Nothing THEN slots'[j].len = 0
          ELSE slots'[j].path # <<>> /\ slots'[j].len = Len(slots'[j].path)
    BY <1>3, <1>4 DEF TableOK
  <2>4. \A j, k \in Indices \ {0} :
          slots'[j].disk # Nothing /\ slots'[k].disk # Nothing /\ slots'[j].path = slots'[k].path
            => j = k
    BY <1>3, <1>5 DEF TableOK
  <2> QED BY <1>3, <1>6, <2>1, <2>2, <2>3, <2>4 DEF TableOK
<1>8. KeepsUntouched
  <2> SUFFICES ASSUME "mistaken" \notin strays', NEW m, m \notin Touched,
                      NEW j \in Indices \ {0}, slots[j].disk # Nothing, slots[j].path = m
               PROVE  slots'[j].disk # Nothing /\ slots'[j].path = m
    BY DEF KeepsUntouched, Keeps
  <2>1. op[t].call.path.names \in Touched BY DEF Touched, RemoveClear, At
  <2>2. Live(j) BY DEF Live, TableOK
  <2>3. j # i BY <1>1, <2>1, <2>2
  <2> QED BY <1>3, <2>3
<1> QED BY <1>7, <1>8

-----------------------------------------------------------------------------
(* A step of one task. *)

LEMMA SameTable ==
  ASSUME TableOK, UNCHANGED tableVars PROVE TableOK' /\ KeepsUntouched
<1>1. slots' = slots /\ count' = count BY DEF tableVars
<1> QED BY <1>1 DEF TableOK, KeepsUntouched, Keeps

\* What remains to be shown of a step of t.
LEMMA TableStep ==
  ASSUME TableInv, Watch, NEW t \in Tasks, MountInv', TableOK', KeepsUntouched,
         strays \subseteq strays', \A u \in Tasks \ {t} : op'[u] = op[u], WalkOK(op'[t]),
         op'[t].pc \in Listing /\ op'[t].path = <<>> /\ "mistaken" \notin strays' =>
           \A m \in steady'[t] : MountListed(op[t], m)'
  PROVE  TableInv'
<1>1. WalksOK' BY DEF TableInv, WalksOK
<1>2. ListingsOK'
  <2> SUFFICES ASSUME NEW u \in Tasks, op'[u].pc \in Listing
               PROVE  /\ steady'[u] \cap Touched' = {}
                      /\ op'[u].path = <<>> /\ "mistaken" \notin strays' =>
                           \A m \in steady'[u] : MountListed(op[u], m)'
    BY DEF ListingsOK
  <2>1. steady'[u] \cap Touched' = {} BY DEF Watch
  <2>2. CASE u = t BY <2>1, <2>2
  <2>3. CASE u # t
    <3>1. op'[u] = op[u] BY <2>3
    <3>2. steady'[u] \subseteq steady[u] BY <3>1 DEF Watch
    <3>3. ASSUME op'[u].path = <<>>, "mistaken" \notin strays', NEW m \in steady'[u]
          PROVE  MountListed(op[u], m)'
      <4>1. MountListed(op[u], m) /\ m \notin Touched
        BY <3>1, <3>2, <3>3 DEF TableInv, ListingsOK
      <4>2. Keeps(m) BY <3>3, <4>1 DEF KeepsUntouched
      <4>3. "doubled" \notin strays' => "doubled" \notin strays OBVIOUS
      <4> QED BY <3>1, <4>1, <4>2, <4>3 DEF MountListed, Keeps
    <3> QED BY <2>1, <3>3
  <2> QED BY <2>2, <2>3
<1> QED BY <1>1, <1>2 DEF TableInv

\* A step that leaves the table, and lists nothing.
LEMMA QuietTable ==
  ASSUME TableInv, Watch, NEW t \in Tasks, MountInv', UNCHANGED tableVars,
         strays \subseteq strays', OpStep(t), WalkOK(op'[t]),
         op'[t].pc \notin Listing
  PROVE  TableInv'
<1>1. TableOK' /\ KeepsUntouched BY SameTable DEF TableInv
<1>2. \A u \in Tasks \ {t} : op'[u] = op[u] BY DEF OpStep
<1> QED BY <1>1, <1>2, TableStep

LEMMA IdleWalks == WalkOK(Idle) /\ Idle.pc \notin Listing
BY DEF Idle, WalkOK, Searching, Listing, NoCall, NoAnswer

LEMMA ReturnFields ==
  ASSUME MountInv, NEW t \in Tasks, Return(t) PROVE OpStep(t) /\ op'[t] = Idle
BY Replace, IdleOK DEF Return, MountInv

LEMMA ReturnTable ==
  ASSUME TableInv, Watch, NEW t \in Tasks, MountInv', UNCHANGED tableVars,
         strays \subseteq strays', Return(t)
  PROVE  TableInv'
BY ReturnFields, IdleWalks, QuietTable DEF TableInv

\* The fields of a call that goes on.
LEMMA GotoFields ==
  ASSUME MountInv, NEW t \in Tasks, NEW pc, Goto(t, pc)
  PROVE  /\ \A u \in Tasks \ {t} : op'[u] = op[u]
         /\ op' = [u \in Tasks |-> op'[u]]
         /\ op'[t].pc = pc /\ op'[t].call = op[t].call /\ op'[t].path = op[t].path
         /\ op'[t].i = op[t].i /\ op'[t].answer = op[t].answer /\ op'[t].ok = op[t].ok
         /\ op'[t].dots = op[t].dots /\ op'[t].listed = op[t].listed
<1>1. IsCall(op[t]) /\ op = [u \in Tasks |-> op[u]] BY DEF MountInv, CallsOK, CallOK
<1> QED BY <1>1 DEF Goto, IsCall

LEMMA LookupFields ==
  ASSUME MountInv, NEW t \in Tasks, NEW c, NEW p, NEW d, Lookup(t, c, p, d)
  PROVE  /\ \A u \in Tasks \ {t} : op'[u] = op[u]
         /\ op' = [u \in Tasks |-> op'[u]]
         /\ op'[t].pc = "find" /\ op'[t].call = c /\ op'[t].i = 1 /\ op'[t].answer = NoAnswer
         /\ op'[t].listed = <<>>
<1>1. op = [u \in Tasks |-> op[u]] BY DEF MountInv, CallsOK
<1> DEFINE q == AbsPath(cwd[t], p)
<1>2. op' = [op EXCEPT ![t] = [Idle EXCEPT !.call = c, !.pc = "find", !.i = 1, !.first = d,
                                           !.path = q]]
  BY DEF Lookup
<1> HIDE DEF q
<1> QED BY <1>1, <1>2 DEF Idle

LEMMA CallTable ==
  ASSUME TableInv, Watch, NEW t \in Tasks, Call(t), MountInv' PROVE TableInv'
<1>1. PICK c \in Calls :
        IF c.fn \in {"open", "rename", "chdir", "list"} THEN Lookup(t, c, c.path, Nothing)
        ELSE op' = [op EXCEPT ![t] = [Idle EXCEPT !.call = c, !.pc = "begin", !.i = 1]]
  BY DEF Call
<1>2. /\ \A u \in Tasks \ {t} : op'[u] = op[u]
      /\ op'[t].pc \in {"begin", "find"} /\ op'[t].call = c /\ op'[t].i = 1
      /\ op'[t].answer = NoAnswer /\ op'[t].listed = <<>>
  <2>1. CASE c.fn \in {"open", "rename", "chdir", "list"}
    BY <1>1, <2>1, LookupFields DEF TableInv
  <2>2. CASE c.fn \notin {"open", "rename", "chdir", "list"}
    <3>1. op = [u \in Tasks |-> op[u]] BY DEF TableInv, MountInv, CallsOK
    <3> QED BY <1>1, <2>2, <3>1 DEF Idle
  <2> QED BY <2>1, <2>2
<1>3. WalkOK(op'[t])
  <2>1. c.fn = "add" => IsMountPath(c.path.names) BY MountsAssumption
  <2> QED BY <1>2, <2>1 DEF WalkOK, Listing, Searching, NoAnswer
<1>4. op'[t].pc \notin Listing BY <1>2 DEF Listing
<1>5. TableOK' /\ KeepsUntouched BY SameTable DEF TableInv, Call
<1>6. strays \subseteq strays' BY DEF Call
<1> QED BY <1>2, <1>3, <1>4, <1>5, <1>6, TableStep

\* A task goes on to a place where it needs nothing of the table.
LEMMA GotoTable ==
  ASSUME TableInv, Watch, NEW t \in Tasks, MountInv', UNCHANGED tableVars,
         strays \subseteq strays',
         NEW pc \in {"mounting", "flush", "opening", "move"}, Goto(t, pc)
  PROVE  TableInv'
<1>1. /\ \A u \in Tasks \ {t} : op'[u] = op[u]
      /\ op'[t].pc = pc /\ op'[t].call = op[t].call /\ op'[t].answer = op[t].answer
  BY GotoFields DEF TableInv
<1>2. WalkOK(op[t]) BY DEF TableInv, WalksOK
<1>3. WalkOK(op'[t]) /\ op'[t].pc \notin Listing
  BY <1>1, <1>2 DEF WalkOK, Listing, Searching
<1>4. TableOK' /\ KeepsUntouched BY SameTable DEF TableInv
<1> QED BY <1>1, <1>3, <1>4, TableStep

-----------------------------------------------------------------------------
(* A search: FF_FS_Find. *)

\* What lies below the root's own path is nothing.
LEMMA NothingBelow == \A k \in Nat : After(<<>>, k) = <<>>
BY DEF After

LEMMA SlotLen ==
  ASSUME TableOK, NEW i \in Indices \ {0}
  PROVE  /\ slots[i].len \in Nat
         /\ slots[i].disk # Nothing =>
              /\ i < count /\ slots[i].path # <<>> /\ slots[i].len = Len(slots[i].path)
              /\ slots[i].len > 0
              /\ SubSeq(slots[i].path, 1, slots[i].len) = slots[i].path
<1>1. IsMountPath(slots[i].path) BY DEF TableOK, SlotOK
<1>2. PICK S : slots[i].path \in Seq(S) BY <1>1 DEF IsMountPath
<1>3. CASE slots[i].disk = Nothing BY <1>3 DEF TableOK
<1>4. CASE slots[i].disk # Nothing
  <2> DEFINE q == slots[i].path
  <2>1. i < count /\ q # <<>> /\ slots[i].len = Len(q) BY <1>4 DEF TableOK
  <2> HIDE DEF q
  <2>2. q \in Seq(S) BY <1>2 DEF q
  <2>3. Len(q) \in Nat /\ Len(q) > 0 BY <2>1, <2>2
  <2>4. SubSeq(q, 1, Len(q)) = q BY <2>2
  <2> QED BY <2>1, <2>3, <2>4 DEF q
<1> QED BY <1>3, <1>4

LEMMA Updated ==
  ASSUME MountInv, NEW t \in Tasks, NEW o, op' = [op EXCEPT ![t] = o]
  PROVE  op'[t] = o /\ \A u \in Tasks \ {t} : op'[u] = op[u]
BY DEF MountInv, CallsOK

LEMMA SearchFields ==
  ASSUME MountInv, NEW t \in Tasks, WalkOK(op[t]), Search(t)
  PROVE  /\ \A u \in Tasks \ {t} : op'[u] = op[u]
         /\ op'[t].call = op[t].call /\ op'[t].path = op[t].path
         /\ op'[t].listed = op[t].listed
         /\ op'[t].answer = [disk |-> op'[t].answer.disk, rest |-> op'[t].answer.rest]
         /\ op'[t].answer.disk = op[t].answer.disk
         /\ \/ /\ op'[t].pc = "last" /\ op'[t].i = op[t].i /\ op[t].i >= count
               /\ op'[t].answer = op[t].answer
            \/ /\ op'[t].pc = "match" /\ op'[t].i = op[t].i /\ ~ (op[t].i >= count)
               /\ Matches(slots[op[t].i], op[t].path)
               /\ op'[t].answer.rest = After(op[t].path, slots[op[t].i].len)
            \/ /\ op'[t].pc = "find" /\ op'[t].i = op[t].i + 1 /\ ~ (op[t].i >= count)
               /\ ~ Matches(slots[op[t].i], op[t].path) /\ op'[t].answer = op[t].answer
<1>1. IsCall(op[t]) /\ op[t].pc = "find" BY DEF MountInv, CallsOK, CallOK, Search
<1> DEFINE p == op[t]
           rest == After(op[t].path, slots[op[t].i].len)
           a == [disk |-> p.answer.disk, rest |-> rest]
           n == p.i + 1
<1>2. p = [call |-> p.call, pc |-> p.pc, path |-> p.path, i |-> p.i, answer |-> p.answer,
           ok |-> p.ok, first |-> p.first, dots |-> p.dots, listed |-> p.listed]
  BY <1>1 DEF IsCall
<1>3. CASE p.i >= count
  <2>1. op' = [op EXCEPT ![t] = [p EXCEPT !.pc = "last"]] BY <1>3 DEF Search
  <2>2. op'[t] = [p EXCEPT !.pc = "last"] /\ \A u \in Tasks \ {t} : op'[u] = op[u]
    BY <2>1, Updated
  <2> HIDE DEF p
  <2>3. /\ op'[t].pc = "last" /\ op'[t].call = p.call /\ op'[t].path = p.path
        /\ op'[t].listed = p.listed /\ op'[t].i = p.i
        /\ op'[t].answer = p.answer BY <1>2, <2>2
  <2> QED BY <1>3, <2>2, <2>3 DEF p, WalkOK
<1>4. CASE ~ (p.i >= count) /\ Matches(slots[op[t].i], op[t].path)
  <2>1. op' = [op EXCEPT ![t] = [p EXCEPT !.pc = "match", !.answer = a]]
    <3>1. op' = [op EXCEPT ![t] = [p EXCEPT !.pc = "match", !.answer.rest = rest]]
      BY <1>4 DEF Search
    <3> HIDE DEF rest
    <3>2. [p EXCEPT !.pc = "match", !.answer.rest = rest] = [p EXCEPT !.pc = "match", !.answer = a]
      <4> DEFINE q == p
      <4>1. q = [call |-> q.call, pc |-> q.pc, path |-> q.path, i |-> q.i, answer |-> q.answer,
           ok |-> q.ok, first |-> q.first, dots |-> q.dots, listed |-> q.listed] BY <1>2
      <4>2. q.answer = [disk |-> q.answer.disk, rest |-> q.answer.rest] BY DEF WalkOK
      <4>3. [q.answer EXCEPT !.rest = rest] = a BY <4>2
      <4> QED BY <4>1, <4>3
    <3> HIDE DEF a, p
    <3> QED BY <3>1, <3>2
  <2> DEFINE o == [p EXCEPT !.pc = "match", !.answer = a]
  <2>2. op'[t] = o /\ \A u \in Tasks \ {t} : op'[u] = op[u]
    <3> HIDE DEF o
    <3> QED BY <2>1, Updated DEF o
  <2>4. a.rest = rest /\ a.disk = p.answer.disk /\ a = [disk |-> a.disk, rest |-> a.rest] OBVIOUS
  <2> HIDE DEF p, a
  <2>3. o.pc = "match" /\ o.call = p.call /\ o.path = p.path /\ o.i = p.i /\ o.answer = a
      /\ o.listed = p.listed
    BY <1>2
  <2> QED BY <1>4, <2>2, <2>3, <2>4 DEF p
<1>5. CASE ~ (p.i >= count) /\ ~ Matches(slots[op[t].i], op[t].path)
  <2>1. op' = [op EXCEPT ![t] = [p EXCEPT !.i = n]] BY <1>5 DEF Search
  <2>2. op'[t] = [p EXCEPT !.i = n] /\ \A u \in Tasks \ {t} : op'[u] = op[u]
    BY <2>1, Updated
  <2> HIDE DEF p, n
  <2>3. /\ op'[t].pc = p.pc /\ op'[t].call = p.call /\ op'[t].path = p.path
        /\ op'[t].listed = p.listed /\ op'[t].i = n
        /\ op'[t].answer = p.answer
    BY <1>2, <2>2
  <2> QED BY <1>1, <1>5, <2>2, <2>3 DEF p, n, WalkOK
<1> QED BY <1>3, <1>4, <1>5

LEMMA AfterRoot ==
  ASSUME TableOK, NEW i \in Indices \ {0}, NEW p, p = <<>>
  PROVE  After(p, slots[i].len) = <<>>
BY SlotLen, NothingBelow

LEMMA SearchTable ==
  ASSUME TableInv, Watch, NEW t \in Tasks, Search(t), MountInv' PROVE TableInv'
<1> USE DEF TableInv
<1>1. WalkOK(op[t]) /\ op[t].pc = "find" BY DEF WalksOK, Search
<1>2. TableOK' /\ KeepsUntouched BY SameTable DEF Search
<1>3. strays \subseteq strays' BY DEF Search
<1>4. /\ \A u \in Tasks \ {t} : op'[u] = op[u]
      /\ op'[t].call = op[t].call /\ op'[t].path = op[t].path
      /\ op'[t].listed = <<>>
      /\ op'[t].answer = [disk |-> op'[t].answer.disk, rest |-> op'[t].answer.rest]
      /\ \/ op'[t].pc = "last" /\ op'[t].answer = op[t].answer
         \/ /\ op'[t].pc = "match" /\ op'[t].i = op[t].i /\ ~ (op[t].i >= count)
            /\ op'[t].answer.rest = After(op[t].path, slots[op[t].i].len)
         \/ op'[t].pc = "find" /\ op'[t].i = op[t].i + 1 /\ op'[t].answer = op[t].answer
  BY <1>1, SearchFields DEF WalkOK, Searching
<1>5. WalkOK(op'[t])
  <2>1. /\ op[t].call.fn = "add" => IsMountPath(op[t].call.path.names)
        /\ op[t].path = <<>> => op[t].answer.rest = <<>>
    BY <1>1 DEF WalkOK, Searching
  <2>2. op[t].i \in Nat \ {0} BY <1>1 DEF WalkOK
  <2>3. CASE op'[t].pc = "last" /\ op'[t].answer = op[t].answer
    BY <1>4, <2>1, <2>3 DEF WalkOK, Listing, Searching
  <2>4. CASE op'[t].pc = "find" /\ op'[t].i = op[t].i + 1 /\ op'[t].answer = op[t].answer
    <3>1. op'[t].i \in Nat \ {0} BY <2>2, <2>4
    <3> QED BY <1>4, <2>1, <2>4, <3>1 DEF WalkOK, Listing, Searching
  <2>5. CASE /\ op'[t].pc = "match" /\ op'[t].i = op[t].i /\ ~ (op[t].i >= count)
             /\ op'[t].answer.rest = After(op[t].path, slots[op[t].i].len)
    <3>1. op[t].i \in Indices \ {0} BY <2>2, <2>5, IndicesAre DEF TableOK
    <3>2. op[t].path = <<>> => op'[t].answer.rest = <<>> BY <2>5, <3>1, AfterRoot
    <3> QED BY <1>4, <2>1, <2>5, <3>1, <3>2 DEF WalkOK, Listing, Searching
  <2> QED BY <1>4, <2>3, <2>4, <2>5
<1>6. op'[t].pc \notin Listing BY <1>4 DEF Listing
<1> QED BY <1>2, <1>3, <1>4, <1>5, <1>6, TableStep

LEMMA AnswerFields ==
  ASSUME MountInv, NEW t \in Tasks, NEW d, NEW rest, Answer(t, d, rest)
  PROVE  /\ \A u \in Tasks \ {t} : op'[u] = op[u]
         /\ op'[t].pc = "found" /\ op'[t].call = op[t].call /\ op'[t].path = op[t].path
         /\ op'[t].answer = [disk |-> d, rest |-> rest] /\ op'[t].listed = op[t].listed
<1> DEFINE p == op[t]
           a == [disk |-> d, rest |-> rest]
           k == FF_Mounted(d)
<1>1. p = [call |-> p.call, pc |-> p.pc, path |-> p.path, i |-> p.i, answer |-> p.answer,
           ok |-> p.ok, first |-> p.first, dots |-> p.dots, listed |-> p.listed]
  BY DEF MountInv, CallsOK, CallOK, IsCall
<1>2. op' = [op EXCEPT ![t] = [p EXCEPT !.pc = "found", !.answer = a, !.ok = k]]
  BY DEF Answer, MountInv, CallsOK
<1> HIDE DEF a, k
<1>3. op'[t] = [p EXCEPT !.pc = "found", !.answer = a, !.ok = k]
      /\ \A u \in Tasks \ {t} : op'[u] = op[u]
  BY <1>2, Updated
<1> HIDE DEF p
<1>4. op'[t].pc = "found" /\ op'[t].call = p.call /\ op'[t].path = p.path /\ op'[t].answer = a
      /\ op'[t].listed = p.listed
  BY <1>1, <1>3
<1> QED BY <1>3, <1>4 DEF p, a

\* The fields of a call in which the manager of a slot was taken.
LEMMA TakeFields ==
  ASSUME MountInv, NEW t \in Tasks, TakeMatch(t)
  PROVE  /\ \A u \in Tasks \ {t} : op'[u] = op[u]
         /\ op'[t].pc = "last" /\ op'[t].call = op[t].call /\ op'[t].path = op[t].path
         /\ op'[t].i = op[t].i /\ op'[t].listed = op[t].listed
         /\ op'[t].answer = [disk |-> slots[op[t].i].disk, rest |-> op[t].answer.rest]
<1> DEFINE a == [disk |-> slots[op[t].i].disk, rest |-> op[t].answer.rest]
           q == op[t]
           o == [q EXCEPT !.pc = "last", !.answer = a]
<1>1. op' = [op EXCEPT ![t] = o] BY DEF TakeMatch
<1>2. IsCall(q) BY DEF MountInv, CallsOK, CallOK
<1> HIDE DEF a, q
<1>3. /\ o.call = q.call /\ o.pc = "last" /\ o.path = q.path /\ o.i = q.i
      /\ o.listed = q.listed /\ o.answer = a
  BY <1>2, TakenFields
<1> HIDE DEF o
<1>4. op'[t] = o /\ \A u \in Tasks \ {t} : op'[u] = op[u] BY <1>1, Updated
<1> QED BY <1>3, <1>4 DEF a, q

LEMMA TakeTable ==
  ASSUME TableInv, Watch, NEW t \in Tasks, TakeMatch(t) \/ TakeRoot(t), MountInv'
  PROVE  TableInv'
<1> USE DEF TableInv
<1>1. WalkOK(op[t]) BY DEF WalksOK
<1>2. UNCHANGED tableVars BY DEF TakeMatch, TakeRoot
<1>3. TableOK' /\ KeepsUntouched BY <1>2, SameTable
<1>4. strays \subseteq strays' BY DEF TakeMatch, TakeRoot
<1>5. ASSUME NEW d, NEW rest, op[t].path = <<>> => rest = <<>>,
             \A u \in Tasks \ {t} : op'[u] = op[u],
             op[t].pc \in Searching, op'[t].pc \in {"last", "found"}, op'[t].call = op[t].call,
             op'[t].path = op[t].path, op'[t].listed = op[t].listed,
             op'[t].answer = [disk |-> d, rest |-> rest]
      PROVE  TableInv'
  <2>1. op'[t].answer.disk = d /\ op'[t].answer.rest = rest BY <1>5
  <2>2. op[t].call.fn = "add" => IsMountPath(op[t].call.path.names) BY <1>1 DEF WalkOK
  <2>3. op[t].listed = <<>> BY <1>1, <1>5 DEF WalkOK
  <2>4. WalkOK(op'[t]) BY <1>5, <2>1, <2>2, <2>3 DEF WalkOK, Listing, Searching
  <2>5. op'[t].pc \notin Listing BY <1>5 DEF Listing
  <2> HIDE DEF TableInv
  <2> QED BY <1>3, <1>4, <1>5, <2>4, <2>5, TableStep
<1>6. CASE TakeMatch(t)
  <2>1. op[t].pc \in Searching /\ (op[t].path = <<>> => op[t].answer.rest = <<>>)
    BY <1>1, <1>6 DEF WalkOK, TakeMatch, Searching
  <2>2. PICK d, rest : d = slots[op[t].i].disk /\ rest = op[t].answer.rest OBVIOUS
  <2>3. /\ \A u \in Tasks \ {t} : op'[u] = op[u]
        /\ op'[t].pc = "last" /\ op'[t].call = op[t].call /\ op'[t].path = op[t].path
        /\ op'[t].listed = op[t].listed /\ op'[t].answer = [disk |-> d, rest |-> rest]
    BY <1>6, <2>2, TakeFields
  <2> HIDE DEF TableInv
  <2> QED BY <1>5, <2>1, <2>2, <2>3
<1>7. CASE TakeRoot(t)
  <2>1. op[t].pc \in Searching /\ (op[t].path = <<>> => op[t].answer.rest = <<>>)
    BY <1>1, <1>7 DEF WalkOK, TakeRoot, Searching
  <2>2. PICK d, rest : /\ Answer(t, d, rest)
                       /\ \/ d = slots[0].disk /\ rest = op[t].path
                          \/ d = op[t].answer.disk /\ rest = op[t].answer.rest
    BY <1>7 DEF TakeRoot
  <2>3. /\ \A u \in Tasks \ {t} : op'[u] = op[u]
        /\ op'[t].pc = "found" /\ op'[t].call = op[t].call /\ op'[t].path = op[t].path
        /\ op'[t].answer = [disk |-> d, rest |-> rest] /\ op'[t].listed = op[t].listed
    BY <2>2, AnswerFields
  <2>4. op[t].path = <<>> => rest = <<>> BY <2>1, <2>2
  <2> HIDE DEF TableInv
  <2> QED BY <1>5, <2>1, <2>3, <2>4
<1> QED BY <1>6, <1>7

-----------------------------------------------------------------------------
(* The table changes, and the calls that only use it. *)

\* A call that ends with a change of the table.
LEMMA ChangeTable ==
  ASSUME TableInv, Watch, NEW t \in Tasks, MountInv', TableOK', KeepsUntouched,
         strays \subseteq strays', Return(t)
  PROVE  TableInv'
BY ReturnFields, IdleWalks, TableStep DEF TableInv, OpStep

LEMMA AddTableInv ==
  ASSUME TableInv, Watch, NEW t \in Tasks, FF_FS_Add(t), MountInv' PROVE TableInv'
<1>1. IsMountPath(op[t].call.path.names) BY DEF TableInv, WalksOK, WalkOK, FF_FS_Add, At
<1>2. TableOK' /\ KeepsUntouched BY <1>1, AddTable DEF TableInv
<1>3. Return(t) /\ strays \subseteq strays' BY DEF FF_FS_Add
<1> QED BY <1>2, <1>3, ChangeTable

LEMMA RemoveTableInv ==
  ASSUME TableInv, Watch, NEW t \in Tasks, RemoveClear(t), MountInv' PROVE TableInv'
<1>1. op[t].i \in Indices BY DEF TableInv, WalksOK, WalkOK, RemoveClear, At
<1>2. TableOK' /\ KeepsUntouched BY <1>1, RemoveTable DEF TableInv
<1>3. Return(t) /\ strays \subseteq strays' BY DEF RemoveClear
<1> QED BY <1>2, <1>3, ChangeTable

LEMMA RemoveSearchTable ==
  ASSUME TableInv, Watch, NEW t \in Tasks, RemoveSearch(t), MountInv' PROVE TableInv'
<1> DEFINE p == op[t]
           n == p.i + 1
<1>1. /\ WalkOK(op[t]) /\ op[t].pc = "begin" /\ op[t].call.fn = "remove"
      /\ op[t].i \in Nat \ {0}
  BY DEF TableInv, WalksOK, WalkOK, RemoveSearch, At
<1>2. TableOK' /\ KeepsUntouched BY SameTable DEF RemoveSearch, TableInv
<1>3. strays \subseteq strays' BY DEF RemoveSearch
<1>4. p = [call |-> p.call, pc |-> p.pc, path |-> p.path, i |-> p.i, answer |-> p.answer,
           ok |-> p.ok, first |-> p.first, dots |-> p.dots, listed |-> p.listed]
  BY DEF TableInv, MountInv, CallsOK, CallOK, IsCall
<1>5. CASE Return(t)
  <2>1. UNCHANGED tableVars BY DEF RemoveSearch
  <2> QED BY <1>3, <1>5, <2>1, ReturnTable
<1>6. ASSUME NEW o, op' = [op EXCEPT ![t] = o], o.call = op[t].call, o.answer = op[t].answer,
             o.pc \in {"clear", "begin"}, o.pc = "clear" => o.i \in Indices,
             o.pc = "begin" => o.i \in Nat \ {0}
      PROVE  TableInv'
  <2>1. op'[t] = o /\ \A u \in Tasks \ {t} : op'[u] = op[u]
    BY <1>6, Updated DEF TableInv
  <2>3. WalkOK(op'[t]) BY <1>1, <1>6, <2>1 DEF WalkOK, Listing, Searching
  <2>4. op'[t].pc \notin Listing BY <1>6, <2>1 DEF Listing
  <2> QED BY <1>2, <1>3, <2>1, <2>3, <2>4, TableStep
<1>7. CASE op' = [op EXCEPT ![t].pc = "clear", ![t].i = 0]
  <2> DEFINE o == [p EXCEPT !.pc = "clear", !.i = 0]
  <2>1. op' = [op EXCEPT ![t] = o]
    BY <1>7 DEF TableInv, MountInv, CallsOK
  <2>2. o.call = op[t].call /\ o.answer = op[t].answer /\ o.pc = "clear" /\ o.i \in Indices
    <3> HIDE DEF p
    <3>1. o.call = p.call /\ o.answer = p.answer /\ o.pc = "clear" /\ o.i = 0 BY <1>4
    <3> QED BY <3>1, IndicesAre DEF p
  <2> HIDE DEF o
  <2> QED BY <1>6, <2>1, <2>2
<1>8. CASE ~ (p.i >= count) /\ Goto(t, "clear")
  <2> DEFINE o == [p EXCEPT !.pc = "clear"]
  <2>1. op' = [op EXCEPT ![t] = o] BY <1>8 DEF Goto
  <2>2. p.i \in Indices BY <1>1, <1>8, IndicesAre DEF TableInv, TableOK
  <2>3. o.call = op[t].call /\ o.answer = op[t].answer /\ o.pc = "clear" /\ o.i \in Indices
    <3> HIDE DEF p
    <3>1. o.call = p.call /\ o.answer = p.answer /\ o.pc = "clear" /\ o.i = p.i BY <1>4
    <3> QED BY <2>2, <3>1 DEF p
  <2> HIDE DEF o
  <2> QED BY <1>6, <2>1, <2>3
<1>9. CASE op' = [op EXCEPT ![t].i = @ + 1]
  <2> DEFINE o == [p EXCEPT !.i = n]
  <2>1. op' = [op EXCEPT ![t] = o] BY <1>9 DEF TableInv, MountInv, CallsOK
  <2>2. n \in Nat \ {0} BY <1>1
  <2>3. o.call = op[t].call /\ o.answer = op[t].answer /\ o.pc = "begin" /\ o.i = n
    <3> HIDE DEF p, n
    <3>1. o.call = p.call /\ o.answer = p.answer /\ o.pc = p.pc /\ o.i = n BY <1>4
    <3> QED BY <1>1, <3>1 DEF p
  <2> HIDE DEF o, n
  <2> QED BY <1>6, <2>1, <2>2, <2>3
<1> QED BY <1>5, <1>7, <1>8, <1>9 DEF RemoveSearch

\* FF_Mount, FF_Unmount and the calls that use what they found leave the table alone.
LEMMA OtherTable ==
  ASSUME TableInv, Watch, NEW t \in Tasks, MountInv',
         \/ MountBegin(t) \/ MountEnd(t) \/ UnmountTest(t) \/ UnmountEnd(t)
         \/ OpenFound(t) \/ OpenJoin(t) \/ Close(t) \/ RenameFound(t) \/ Move(t) \/ ChangeDir(t)
  PROVE  TableInv'
<1>1. UNCHANGED tableVars
  BY DEF MountBegin, MountEnd, UnmountTest, UnmountEnd, OpenFound, OpenJoin, Close,
         RenameFound, Move, ChangeDir
<1>2. strays \subseteq strays'
  BY DEF MountBegin, MountEnd, UnmountTest, UnmountEnd, OpenFound, OpenJoin, Close,
         RenameFound, Move, ChangeDir
<1>3. \/ Return(t)
      \/ \E pc \in {"mounting", "flush", "opening", "move"} : Goto(t, pc)
      \/ op[t].call.fn = "rename" /\ \E d : Lookup(t, op[t].call, op[t].call.to, d)
  BY DEF MountBegin, MountEnd, UnmountTest, UnmountEnd, OpenFound, OpenJoin, Close,
         RenameFound, Move, ChangeDir, At
<1>4. CASE Return(t) BY <1>1, <1>2, <1>4, ReturnTable
<1>5. CASE \E pc \in {"mounting", "flush", "opening", "move"} : Goto(t, pc)
  BY <1>1, <1>2, <1>5, GotoTable
<1>6. CASE op[t].call.fn = "rename" /\ \E d : Lookup(t, op[t].call, op[t].call.to, d)
  <2>1. /\ \A u \in Tasks \ {t} : op'[u] = op[u]
        /\ op'[t].pc = "find" /\ op'[t].call = op[t].call /\ op'[t].i = 1
        /\ op'[t].answer = NoAnswer /\ op'[t].listed = <<>>
    BY <1>6, LookupFields DEF TableInv
  <2>2. WalkOK(op'[t]) BY <1>6, <2>1 DEF WalkOK, Listing, Searching, NoAnswer
  <2>3. op'[t].pc \notin Listing BY <2>1 DEF Listing
  <2>4. TableOK' /\ KeepsUntouched BY <1>1, SameTable DEF TableInv
  <2> QED BY <1>2, <2>1, <2>2, <2>3, <2>4, TableStep
<1> QED BY <1>3, <1>4, <1>5, <1>6

-----------------------------------------------------------------------------
(* A listing. *)

\* A mount listed stays listed when the listing goes on with the other names.
LEMMA NotDots == \A p : IsMountPath(p) => p # <<".">> /\ p # <<"..">> BY DEF IsMountPath

LEMMA TimesTwo ==
  ASSUME NEW q, IsSeq(q), NEW y, NEW z
  PROVE  /\ IsSeq(q \o <<y, z>>)
         /\ \A x : Times(x, q \o <<y, z>>) = Times(x, q) + (IF x = y THEN 1 ELSE 0)
                                                         + (IF x = z THEN 1 ELSE 0)
<1> DEFINE r == q \o <<y>>
<1>1. /\ IsSeq(r)
      /\ \A x : Times(x, q) \in Nat /\ Times(x, r) = Times(x, q) + IF x = y THEN 1 ELSE 0
  BY TimesMore
<1>2. /\ IsSeq(r \o <<z>>)
      /\ \A x : Times(x, r \o <<z>>) = Times(x, r) + IF x = z THEN 1 ELSE 0
  <2> HIDE DEF r
  <2> QED BY <1>1, TimesMore
<1>3. q \o <<y, z>> = r \o <<z>>
  <2>1. PICK S : q \in Seq(S) BY DEF IsSeq
  <2> DEFINE T == S \cup {y, z}
  <2>2. q \in Seq(T) /\ <<y>> \in Seq(T) /\ <<z>> \in Seq(T) BY <2>1
  <2>3. <<y, z>> = <<y>> \o <<z>>
    <3>1. <<y, z>> = Append(<<y>>, z) OBVIOUS
    <3>2. <<y>> \in Seq(T) /\ z \in T BY <2>2
    <3> HIDE DEF T
    <3>3. Append(<<y>>, z) = <<y>> \o <<z>> BY <3>2
    <3> QED BY <3>1, <3>3
  <2> HIDE DEF T
  <2>4. (q \o <<y>>) \o <<z>> = q \o (<<y>> \o <<z>>) BY <2>2, ConcatAssociative
  <2> QED BY <2>3, <2>4
<1> HIDE DEF r
<1> QED BY <1>1, <1>2, <1>3

\* A step of a listing that is going on.
LEMMA ListTable ==
  ASSUME TableInv, Watch, NEW t \in Tasks, MountInv', UNCHANGED tableVars,
         strays \subseteq strays', op[t].pc \in Listing,
         NEW o, op' = [op EXCEPT ![t] = o], WalkOK(o), o.pc \in Listing, o.path = op[t].path,
         \A m : /\ o.path = <<>> /\ "mistaken" \notin strays' /\ MountListed(op[t], m)
                => MountListed(o, m)'
  PROVE  TableInv'
<1>1. op'[t] = o /\ \A u \in Tasks \ {t} : op'[u] = op[u] BY Updated DEF TableInv
<1>2. TableOK' /\ KeepsUntouched BY SameTable DEF TableInv
<1>3. ASSUME op'[t].path = <<>>, "mistaken" \notin strays', NEW m \in steady'[t]
      PROVE  MountListed(op[t], m)'
  <2>1. steady'[t] \subseteq steady[t] BY <1>1 DEF Watch
  <2>2. MountListed(op[t], m) BY <1>1, <1>3, <2>1 DEF TableInv, ListingsOK
  <2>3. MountListed(o, m)' BY <1>1, <1>3, <2>2
  <2> QED BY <1>1, <2>3 DEF MountListed
<1>4. op'[t].pc # "found" BY <1>1 DEF Listing
<1> QED BY <1>1, <1>2, <1>3, <1>4, TableStep

\* Neither the place nor the names of a listing change.
LEMMA SameListing ==
  ASSUME UNCHANGED tableVars, strays \subseteq strays', NEW o, NEW p, o.i = p.i,
         o.listed = p.listed, NEW m, MountListed(p, m)
  PROVE  MountListed(o, m)'
BY DEF MountListed, tableVars

LEMMA ListFoundTable ==
  ASSUME TableInv, Watch, NEW t \in Tasks, ListFound(t), MountInv' PROVE TableInv'
<1> DEFINE p == op[t]
           root == p.path = <<>>
           pc == IF p.answer.disk = Nothing THEN "systems" ELSE "entries"
           i == IF root THEN count ELSE 0
           dots == IF root THEN {"."} ELSE {".", ".."}
<1>1. WalkOK(p) /\ p.pc = "found" /\ p.listed = <<>> /\ p.call.fn = "list"
  BY DEF TableInv, WalksOK, WalkOK, ListFound, At, Searching
<1>2. UNCHANGED tableVars /\ strays' = strays BY DEF ListFound
<1>3. p = [call |-> p.call, pc |-> p.pc, path |-> p.path, i |-> p.i, answer |-> p.answer,
           ok |-> p.ok, first |-> p.first, dots |-> p.dots, listed |-> p.listed]
  BY DEF TableInv, MountInv, CallsOK, CallOK, IsCall
<1>4. CASE Return(t) BY <1>2, <1>4, ReturnTable
<1>5. CASE op' = [op EXCEPT ![t].pc = pc, ![t].i = i, ![t].dots = dots]
  <2> DEFINE new == [p EXCEPT !.pc = pc, !.i = i, !.dots = dots]
  <2>0. PICK o : o = new OBVIOUS
  <2>1. op' = [op EXCEPT ![t] = o]
    <3> USE <2>0
    <3> HIDE DEF pc, i, dots
    <3> QED BY <1>5 DEF TableInv, MountInv, CallsOK
  <2>2. /\ o.pc = pc /\ o.i = i /\ o.dots = dots /\ o.path = p.path /\ o.call = p.call
        /\ o.answer = p.answer /\ o.listed = p.listed
    <3> HIDE DEF p, pc, i, dots
    <3> QED BY <1>3, <2>0
  <2> HIDE DEF new
  <2>3. op'[t] = o /\ \A u \in Tasks \ {t} : op'[u] = op[u] BY <2>1, Updated DEF TableInv
  <2>4. TableOK' /\ KeepsUntouched BY <1>2, SameTable DEF TableInv
  <2>5. WalkOK(o)
    <3>1. dots = DotsOf(o) /\ o.dots = DotsOf(o) BY <2>2 DEF DotsOf
    <3>2. DotsOK(o) /\ IsSeq(o.listed) BY <1>1, <2>2, <3>1, TimesNone DEF DotsOK
    <3>3. i \in IF p.path = <<>> THEN 0 .. MaxFileSys ELSE {0} BY DEF TableInv, TableOK
    <3>4. pc \in {"systems", "entries"} OBVIOUS
    <3>5. o.path = <<>> => o.answer.rest = <<>> BY <1>1, <2>2 DEF WalkOK, Searching
    <3> HIDE DEF pc, i, dots, root
    <3> QED BY <1>1, <2>2, <3>1, <3>2, <3>3, <3>4, <3>5 DEF WalkOK, Listing, Searching
  <2>6. ASSUME o.path = <<>>, NEW m \in steady'[t] PROVE MountListed(o, m)'
    <3>1. steady'[t] \subseteq Mounts BY <1>1, <2>2, <2>3 DEF Watch, Listing
    <3>2. PICK j \in Indices \ {0} : Live(j) /\ slots[j].path = m BY <3>1 DEF Mounts
    <3>3. o.i = count BY <2>2, <2>6
    <3>4. j < count /\ slots[j].disk # Nothing BY <3>2 DEF Live
    <3>5. ~ (j >= o.i)
      <4>1. count \in Nat /\ j \in Nat BY IndicesAre DEF TableInv, TableOK
      <4> QED BY <3>3, <3>4, <4>1
    <3>6. Times(m, o.listed) = 0 BY <1>1, <2>2, TimesNone
    <3> QED BY <1>2, <3>2, <3>4, <3>5, <3>6 DEF MountListed, tableVars
  <2>7. ASSUME op'[t].path = <<>>, NEW m \in steady'[t] PROVE MountListed(op[t], m)'
    <3>1. MountListed(o, m)' BY <2>3, <2>6, <2>7
    <3> QED BY <2>3, <3>1 DEF MountListed
  <2>8. op'[t].pc # "found" BY <2>2, <2>3
  <2>9. strays \subseteq strays' BY <1>2
  <2> QED BY <2>3, <2>4, <2>5, <2>7, <2>8, <2>9, TableStep
<1> QED BY <1>4, <1>5 DEF ListFound

\* A step of a listing from one place to the next.
LEMMA GotoListing ==
  ASSUME TableInv, Watch, NEW t \in Tasks, MountInv', UNCHANGED tableVars,
         strays \subseteq strays', NEW pc \in {"systems", "dots"}, Goto(t, pc),
         op[t].pc = IF pc = "systems" THEN "entries" ELSE "systems", pc = "dots" => op[t].i = 0
  PROVE  TableInv'
<1> DEFINE p == op[t]
<1>1. WalkOK(p) BY DEF TableInv, WalksOK
<1>9. PICK o : o = [p EXCEPT !.pc = pc] OBVIOUS
<1>3. op' = [op EXCEPT ![t] = o] BY <1>9 DEF Goto
<1>4. p = [call |-> p.call, pc |-> p.pc, path |-> p.path, i |-> p.i, answer |-> p.answer,
           ok |-> p.ok, first |-> p.first, dots |-> p.dots, listed |-> p.listed]
  BY DEF TableInv, MountInv, CallsOK, CallOK, IsCall
<1>5. /\ o.pc = pc /\ o.i = p.i /\ o.dots = p.dots /\ o.path = p.path /\ o.call = p.call
      /\ o.answer = p.answer /\ o.listed = p.listed
  <2> HIDE DEF p
  <2> QED BY <1>4, <1>9
<1>6. WalkOK(o)
  <2>1. DotsOK(o) BY <1>1, <1>5 DEF WalkOK, Listing, DotsOK, DotsOf
  <2> QED BY <1>1, <1>5, <2>1 DEF WalkOK, Listing, Searching, DotsOf
<1>7. \A m : MountListed(op[t], m) => MountListed(o, m)' BY <1>5, SameListing
<1>8. op[t].pc \in Listing /\ o.pc \in Listing BY <1>5 DEF Listing
<1> QED BY <1>3, <1>5, <1>6, <1>7, <1>8, ListTable

\* The dots are counted as they are listed.
LEMMA DotsCount ==
  ASSUME NEW q, IsSeq(q), NEW names \in {<<>>, <<<<".">>>>, <<<<"..">>>>, <<<<".">>, <<"..">>>>,
                                         <<<<"..">>, <<".">>>>}
  PROVE  /\ IsSeq(q \o names)
         /\ \A m : IsMountPath(m) => Times(m, q \o names) = Times(m, q)
         /\ Times(<<".">>, q \o names) =
              Times(<<".">>, q) + IF names \in {<<>>, <<<<"..">>>>} THEN 0 ELSE 1
         /\ Times(<<"..">>, q \o names) =
              Times(<<"..">>, q) + IF names \in {<<>>, <<<<".">>>>} THEN 0 ELSE 1
<1>0. \A x : Times(x, q) \in Nat BY TimesMore
<1>1. <<".">> # <<"..">> OBVIOUS
<1>2. PICK a : a = <<".">> OBVIOUS
<1>3. PICK b : b = <<"..">> OBVIOUS
<1>4. a # b BY <1>1, <1>2, <1>3
<1>5. names \in {<<>>, <<a>>, <<b>>, <<a, b>>, <<b, a>>} BY <1>2, <1>3
<1>6. /\ <<>> # <<a>> /\ <<>> # <<b>> /\ <<a>> # <<b>> /\ <<a, b>> # <<a>> /\ <<a, b>> # <<b>>
      /\ <<a, b>> # <<>> /\ <<b, a>> # <<a>> /\ <<b, a>> # <<b>> /\ <<b, a>> # <<>>
  BY <1>4
<1>7. /\ IsSeq(q \o names)
      /\ \A m : m # a /\ m # b => Times(m, q \o names) = Times(m, q)
      /\ Times(a, q \o names) = Times(a, q) + IF names \in {<<>>, <<b>>} THEN 0 ELSE 1
      /\ Times(b, q \o names) = Times(b, q) + IF names \in {<<>>, <<a>>} THEN 0 ELSE 1
  <2>1. CASE names = <<>>
    <3>1. q \o names = q
      <4>1. PICK S : q \in Seq(S) BY DEF IsSeq
      <4> QED BY <2>1, <4>1
    <3> QED BY <1>0, <2>1, <3>1
  <2>2. CASE names = <<a>> BY <1>0, <1>4, <1>6, <2>2, TimesMore
  <2>3. CASE names = <<b>> BY <1>0, <1>4, <1>6, <2>3, TimesMore
  <2>4. CASE names = <<a, b>> BY <1>0, <1>4, <1>6, <2>4, TimesTwo
  <2>5. CASE names = <<b, a>> BY <1>0, <1>4, <1>6, <2>5, TimesTwo
  <2> QED BY <1>5, <2>1, <2>2, <2>3, <2>4, <2>5
<1>8. \A m : IsMountPath(m) => m # a /\ m # b BY <1>2, <1>3, NotDots
<1> QED BY <1>2, <1>3, <1>7, <1>8

LEMMA ListEntriesTable ==
  ASSUME TableInv, Watch, NEW t \in Tasks, ListEntries(t), MountInv' PROVE TableInv'
<1> DEFINE p == op[t]
<1>1. WalkOK(p) /\ p.pc = "entries" BY DEF TableInv, WalksOK, ListEntries, At
<1>2. UNCHANGED tableVars /\ strays' = strays BY DEF ListEntries
<1>3. p = [call |-> p.call, pc |-> p.pc, path |-> p.path, i |-> p.i, answer |-> p.answer,
           ok |-> p.ok, first |-> p.first, dots |-> p.dots, listed |-> p.listed]
  BY DEF TableInv, MountInv, CallsOK, CallOK, IsCall
<1>4. CASE Return(t) BY <1>2, <1>4, ReturnTable
<1>5. CASE Goto(t, "systems")
  <2>1. strays \subseteq strays' BY <1>2
  <2>2. op[t].pc = "entries" BY <1>1
  <2> QED BY <1>2, <1>5, <2>1, <2>2, GotoListing
<1>6. CASE /\ p.answer.rest # <<>>
           /\ op' = [op EXCEPT ![t].pc = "systems", ![t].dots = {},
                               ![t].listed = List(t, <<<<".">>, <<"..">>>>)]
  <2> DEFINE names == <<<<".">>, <<"..">>>>
             listed == p.listed \o names
  <2>1. PICK o : o = [p EXCEPT !.pc = "systems", !.dots = {}, !.listed = listed] OBVIOUS
  <2>2. op' = [op EXCEPT ![t] = o]
    <3>1. op' = [op EXCEPT ![t].pc = "systems", ![t].dots = {}, ![t].listed = listed]
      BY <1>6 DEF List
    <3> HIDE DEF listed
    <3> QED BY <2>1, <3>1 DEF TableInv, MountInv, CallsOK
  <2>3. /\ o.pc = "systems" /\ o.i = p.i /\ o.dots = {} /\ o.path = p.path /\ o.call = p.call
        /\ o.answer = p.answer /\ o.listed = listed
    <3> HIDE DEF p, listed
    <3> QED BY <1>3, <2>1
  <2>4. p.path # <<>> BY <1>1, <1>6 DEF WalkOK
  <2>5. p.listed = <<>> /\ IsSeq(p.listed) BY <1>1, TimesNone DEF WalkOK
  <2>6. /\ IsSeq(listed)
        /\ Times(<<".">>, listed) = 1 /\ Times(<<"..">>, listed) = 1
    <3>1. /\ IsSeq(listed)
          /\ \A x : Times(x, listed) = Times(x, p.listed) + (IF x = <<".">> THEN 1 ELSE 0)
                                       + (IF x = <<"..">> THEN 1 ELSE 0)
      <4>1. PICK a : a = <<".">> OBVIOUS
      <4>2. PICK b : b = <<"..">> OBVIOUS
      <4>3. PICK q : q = p.listed OBVIOUS
      <4>4. IsSeq(q) BY <2>5, <4>3
      <4>5. /\ IsSeq(q \o <<a, b>>)
            /\ \A x : Times(x, q \o <<a, b>>) = Times(x, q) + (IF x = a THEN 1 ELSE 0)
                                                 + (IF x = b THEN 1 ELSE 0)
        BY <4>4, TimesTwo
      <4>6. listed = q \o <<a, b>> BY <4>1, <4>2, <4>3
      <4> HIDE DEF p, listed
      <4> QED BY <4>1, <4>2, <4>3, <4>5, <4>6
    <3>2. \A x : Times(x, p.listed) = 0 BY <2>5, TimesNone
    <3>3. <<".">> # <<"..">> OBVIOUS
    <3> HIDE DEF listed
    <3> QED BY <3>1, <3>2, <3>3
  <2> HIDE DEF listed
  <2>7. DotsOK(o) BY <2>3, <2>4, <2>6 DEF DotsOK, DotsOf
  <2>8. WalkOK(o) BY <1>1, <2>3, <2>4, <2>6, <2>7 DEF WalkOK, Listing, Searching
  <2>9. p.pc \in Listing /\ o.pc \in Listing BY <1>1, <2>3 DEF Listing
  <2>10. \A m : o.path = <<>> => MountListed(o, m)' BY <2>3, <2>4
  <2> HIDE DEF TableInv
  <2> QED BY <1>2, <2>2, <2>3, <2>8, <2>9, <2>10, ListTable
<1> QED BY <1>4, <1>5, <1>6 DEF ListEntries

LEMMA ListDotsTable ==
  ASSUME TableInv, Watch, NEW t \in Tasks, ListDots(t), MountInv' PROVE TableInv'
<1> DEFINE p == op[t]
           names == (IF ".." \in p.dots THEN <<<<"..">>>> ELSE <<>>)
                    \o (IF "." \in p.dots THEN <<<<".">>>> ELSE <<>>)
           listed == p.listed \o names
<1>1. /\ WalkOK(p) /\ p.pc = "dots" /\ IsSeq(p.listed) /\ DotsOK(p) /\ p.i = 0
  BY DEF TableInv, WalksOK, WalkOK, ListDots, At, Listing
<1>2. UNCHANGED tableVars /\ strays' = strays BY DEF ListDots
<1>3. p = [call |-> p.call, pc |-> p.pc, path |-> p.path, i |-> p.i, answer |-> p.answer,
           ok |-> p.ok, first |-> p.first, dots |-> p.dots, listed |-> p.listed]
  BY DEF TableInv, MountInv, CallsOK, CallOK, IsCall
<1>4. PICK o : o = [p EXCEPT !.pc = "listed", !.dots = {}, !.listed = listed] OBVIOUS
<1>5. op' = [op EXCEPT ![t] = o]
  <2>1. op' = [op EXCEPT ![t].pc = "listed", ![t].dots = {}, ![t].listed = listed]
    BY DEF ListDots, List
  <2> HIDE DEF listed
  <2> QED BY <1>4, <2>1 DEF TableInv, MountInv, CallsOK
<1>6. /\ o.pc = "listed" /\ o.i = p.i /\ o.dots = {} /\ o.path = p.path /\ o.call = p.call
      /\ o.answer = p.answer /\ o.listed = listed
  <2> HIDE DEF p, listed
  <2> QED BY <1>3, <1>4
<1>7. names = IF ".." \in p.dots THEN IF "." \in p.dots THEN <<<<"..">>, <<".">>>> ELSE <<<<"..">>>>
              ELSE IF "." \in p.dots THEN <<<<".">>>> ELSE <<>>
  <2>1. PICK a : a = <<".">> OBVIOUS
  <2>2. PICK b : b = <<"..">> OBVIOUS
  <2>3. <<b>> \o <<a>> = <<b, a>> /\ <<b>> \o <<>> = <<b>> /\ <<>> \o <<a>> = <<a>>
        /\ <<>> \o <<>> = <<>>
    <3>1. <<b, a>> = Append(<<b>>, a) OBVIOUS
    <3>2. Append(<<b>>, a) = <<b>> \o <<a>>
      <4>1. <<b>> \in Seq({a, b}) /\ a \in {a, b} OBVIOUS
      <4> QED BY <4>1
    <3>3. <<b>> \o <<>> = <<b>> OBVIOUS
    <3>4. <<>> \o <<a>> = <<a>> OBVIOUS
    <3>5. <<>> \o <<>> = <<>> OBVIOUS
    <3> QED BY <3>1, <3>2, <3>3, <3>4, <3>5
  <2> HIDE DEF p
  <2> QED BY <2>1, <2>2, <2>3
<1> HIDE DEF names
<1>8. /\ IsSeq(listed)
      /\ \A m : IsMountPath(m) => Times(m, listed) = Times(m, p.listed)
      /\ Times(<<".">>, listed) =
           Times(<<".">>, p.listed) + IF names \in {<<>>, <<<<"..">>>>} THEN 0 ELSE 1
      /\ Times(<<"..">>, listed) =
           Times(<<"..">>, p.listed) + IF names \in {<<>>, <<<<".">>>>} THEN 0 ELSE 1
  <2>1. names \in {<<>>, <<<<".">>>>, <<<<"..">>>>, <<<<".">>, <<"..">>>>, <<<<"..">>, <<".">>>>}
    BY <1>7
  <2> HIDE DEF p
  <2> QED BY <1>1, <2>1, DotsCount
<1> HIDE DEF listed
<1>9. DotsOK(o)
  <2>1. (names \in {<<>>, <<<<"..">>>>}) <=> "." \notin p.dots BY <1>7
  <2>2. (names \in {<<>>, <<<<".">>>>}) <=> ".." \notin p.dots BY <1>7
  <2>3. /\ Times(<<".">>, p.listed) = IF "." \in DotsOf(p) \ p.dots THEN 1 ELSE 0
        /\ Times(<<"..">>, p.listed) = IF ".." \in DotsOf(p) \ p.dots THEN 1 ELSE 0
        /\ p.dots \subseteq DotsOf(p)
    BY <1>1 DEF DotsOK
  <2>4. DotsOf(o) = DotsOf(p) BY <1>6 DEF DotsOf
  <2>5. Times(<<".">>, listed) = IF "." \in DotsOf(p) THEN 1 ELSE 0 BY <1>8, <2>1, <2>3
  <2>6. Times(<<"..">>, listed) = IF ".." \in DotsOf(p) THEN 1 ELSE 0 BY <1>8, <2>2, <2>3
  <2> QED BY <1>6, <2>4, <2>5, <2>6 DEF DotsOK
<1>10. WalkOK(o) BY <1>1, <1>6, <1>8, <1>9 DEF WalkOK, Listing, Searching
<1>11. p.pc \in Listing /\ o.pc \in Listing BY <1>1, <1>6 DEF Listing
<1>12. ASSUME NEW m, MountListed(p, m) PROVE MountListed(o, m)'
  <2>1. IsMountPath(m) BY <1>12 DEF MountListed, TableInv, TableOK, SlotOK
  <2>2. Times(m, o.listed) = Times(m, p.listed) BY <1>6, <1>8, <2>1
  <2> QED BY <1>2, <1>6, <1>12, <2>2 DEF MountListed, tableVars
<1> HIDE DEF TableInv
<1>13. \A m : MountListed(op[t], m) => MountListed(o, m)' BY <1>12
<1> QED BY <1>2, <1>5, <1>6, <1>10, <1>11, <1>13, ListTable

\* The walk comes to a slot: the mount is there, or further on, or has been listed.
LEMMA SlotListed ==
  ASSUME TableOK, NEW p, NEW o, NEW m, IsSeq(p.listed),
         p.i \in 1 .. MaxFileSys, o.i = p.i - 1, strays \subseteq strays', UNCHANGED tableVars,
         LET i == p.i - 1 IN
           /\ o.listed = IF i < count /\ slots[i].path # <<>> THEN p.listed \o <<slots[i].path>>
                         ELSE p.listed
           /\ i < count /\ ~ Live(i) /\ slots[i].path \in Mounts => "doubled" \in strays',
         MountListed(p, m)
  PROVE  MountListed(o, m)'
<1> DEFINE i == p.i - 1
           one == i < count /\ slots[i].path = m
<1>1. PICK j \in Indices \ {0} :
        /\ slots[j].disk # Nothing /\ slots[j].path = m
        /\ IF j >= p.i THEN /\ Times(m, p.listed) >= 1
                            /\ "doubled" \notin strays => Times(m, p.listed) = 1
           ELSE "doubled" \notin strays => Times(m, p.listed) = 0
  BY DEF MountListed
<1>2. i \in Indices /\ j \in Nat /\ i \in Nat /\ p.i = i + 1 /\ o.i = i BY IndicesAre
<1>3. m # <<>> /\ j < count /\ Live(j) /\ m \in Mounts BY <1>1 DEF TableOK, Live, Mounts
<1>4. Times(m, o.listed) = Times(m, p.listed) + (IF one THEN 1 ELSE 0) /\ Times(m, p.listed) \in Nat
  <2>0. /\ Times(m, p.listed) \in Nat
        /\ \A y : Times(m, p.listed \o <<y>>) = Times(m, p.listed) + IF m = y THEN 1 ELSE 0
    BY TimesMore
  <2>1. CASE i < count /\ slots[i].path # <<>>
    <3>1. o.listed = p.listed \o <<slots[i].path>> BY <2>1
    <3> QED BY <2>0, <2>1, <3>1
  <2>2. CASE ~ (i < count /\ slots[i].path # <<>>)
    <3>1. o.listed = p.listed /\ ~ one BY <1>3, <2>2
    <3> QED BY <2>0, <3>1
  <2> QED BY <2>1, <2>2
\* another slot with its path has been emptied
<1>5. one /\ i # j => "doubled" \in strays'
  <2> SUFFICES ASSUME one, i # j PROVE "doubled" \in strays' OBVIOUS
  <2>1. i # 0 BY <1>3 DEF TableOK
  <2>2. ~ Live(i) BY <1>1, <1>2, <2>1 DEF TableOK, Live
  <2> QED BY <1>3, <2>2
<1>6. i = j => one BY <1>1, <1>3
<1>7. "doubled" \notin strays' => "doubled" \notin strays OBVIOUS
<1> HIDE DEF i, one
<1>8. IF j >= o.i THEN /\ Times(m, o.listed) >= 1
                       /\ "doubled" \notin strays' => Times(m, o.listed) = 1
      ELSE "doubled" \notin strays' => Times(m, o.listed) = 0
  <2>1. CASE j > i BY <1>1, <1>2, <1>4, <1>5, <1>7, <2>1
  <2>2. CASE j = i BY <1>1, <1>2, <1>4, <1>6, <1>7, <2>2
  <2>3. CASE j < i BY <1>1, <1>2, <1>4, <1>5, <1>7, <2>3
  <2> QED BY <1>2, <2>1, <2>2, <2>3
<1> QED BY <1>1, <1>8 DEF MountListed, tableVars

LEMMA ListSystemTable ==
  ASSUME TableInv, Watch, NEW t \in Tasks, ListSystem(t), MountInv' PROVE TableInv'
<1> DEFINE p == op[t]
           i == p.i - 1
           listed == IF i < count /\ slots[i].path # <<>> THEN p.listed \o <<slots[i].path>>
                     ELSE p.listed
<1>1. /\ WalkOK(p) /\ p.pc = "systems" /\ IsSeq(p.listed) /\ DotsOK(p)
      /\ p.i \in IF p.path = <<>> THEN 0 .. MaxFileSys ELSE {0}
  BY DEF TableInv, WalksOK, WalkOK, ListSystem, At, Listing
<1>2. UNCHANGED tableVars /\ strays \subseteq strays' BY DEF ListSystem
<1>3. p = [call |-> p.call, pc |-> p.pc, path |-> p.path, i |-> p.i, answer |-> p.answer,
           ok |-> p.ok, first |-> p.first, dots |-> p.dots, listed |-> p.listed]
  BY DEF TableInv, MountInv, CallsOK, CallOK, IsCall
<1>4. CASE p.i = 0
  <2>1. Goto(t, "dots") BY <1>4 DEF ListSystem
  <2> QED BY <1>1, <1>2, <1>4, <2>1, GotoListing
<1>5. CASE p.i # 0
  <2>1. PICK o : o = [p EXCEPT !.i = i, !.listed = listed] OBVIOUS
  <2>2. op' = [op EXCEPT ![t] = o]
    <3>1. op' = [op EXCEPT ![t].i = i, ![t].listed = listed] BY <1>5 DEF ListSystem, List
    <3> HIDE DEF i, listed
    <3> QED BY <2>1, <3>1 DEF TableInv, MountInv, CallsOK
  <2>3. /\ o.pc = p.pc /\ o.i = i /\ o.dots = p.dots /\ o.path = p.path /\ o.call = p.call
        /\ o.answer = p.answer /\ o.listed = listed
    <3> HIDE DEF p, i, listed
    <3> QED BY <1>3, <2>1
  <2>4. p.path = <<>> /\ p.i \in 1 .. MaxFileSys /\ i \in 0 .. MaxFileSys /\ i \in Indices
    BY <1>1, <1>5, IndicesAre
  <2>5. /\ IsSeq(listed)
        /\ Times(<<".">>, listed) = Times(<<".">>, p.listed)
        /\ Times(<<"..">>, listed) = Times(<<"..">>, p.listed)
    <3>1. CASE i < count /\ slots[i].path # <<>>
      <4>1. IsMountPath(slots[i].path) BY <2>4 DEF TableInv, TableOK, SlotOK
      <4>2. PICK y : y = slots[i].path OBVIOUS
      <4>3. y # <<".">> /\ y # <<"..">> BY <4>1, <4>2, NotDots
      <4>4. PICK q : q = p.listed OBVIOUS
      <4>5. /\ IsSeq(q \o <<y>>)
            /\ \A x : /\ Times(x, q) \in Nat
                      /\ Times(x, q \o <<y>>) = Times(x, q) + IF x = y THEN 1 ELSE 0
        BY <1>1, <4>4, TimesMore
      <4>6. listed = q \o <<y>> BY <3>1, <4>2, <4>4
      <4>7. Times(<<".">>, q \o <<y>>) = Times(<<".">>, q) BY <4>3, <4>5
      <4>8. Times(<<"..">>, q \o <<y>>) = Times(<<"..">>, q) BY <4>3, <4>5
      <4> HIDE DEF listed, p, i
      <4> QED BY <4>4, <4>5, <4>6, <4>7, <4>8
    <3>2. CASE ~ (i < count /\ slots[i].path # <<>>)
      <4>1. listed = p.listed BY <3>2
      <4> QED BY <1>1, <4>1
    <3> QED BY <3>1, <3>2
  <2>6. ASSUME NEW m, MountListed(p, m) PROVE MountListed(o, m)'
    <3>1. i < count /\ ~ Live(i) /\ slots[i].path \in Mounts => "doubled" \in strays'
      BY <1>5 DEF ListSystem
    <3>2. PICK q : q = p OBVIOUS
    <3>3. /\ q.i \in 1 .. MaxFileSys /\ o.i = q.i - 1 /\ IsSeq(q.listed) /\ MountListed(q, m)
          /\ LET k == q.i - 1 IN
               /\ o.listed = IF k < count /\ slots[k].path # <<>> THEN q.listed \o <<slots[k].path>>
                             ELSE q.listed
               /\ k < count /\ ~ Live(k) /\ slots[k].path \in Mounts => "doubled" \in strays'
      BY <1>1, <2>3, <2>4, <2>6, <3>1, <3>2
    <3>4. TableOK BY DEF TableInv
    <3> QED BY <1>2, <3>3, <3>4, SlotListed
  <2> HIDE DEF i, listed
  <2>7. DotsOK(o) BY <1>1, <2>3, <2>5 DEF DotsOK, DotsOf
  <2>8. WalkOK(o) BY <1>1, <2>3, <2>4, <2>5, <2>7 DEF WalkOK, Listing, Searching, DotsOf
  <2>9. p.pc \in Listing /\ o.pc \in Listing BY <1>1, <2>3 DEF Listing
  <2>10. \A m : MountListed(op[t], m) => MountListed(o, m)' BY <2>6
  <2> HIDE DEF TableInv
  <2> QED BY <1>2, <2>2, <2>3, <2>8, <2>9, <2>10, ListTable
<1> QED BY <1>4, <1>5

-----------------------------------------------------------------------------
LEMMA InitTableInv == Init => TableInv
<1> SUFFICES ASSUME Init PROVE TableInv OBVIOUS
<1>1. \A t \in Tasks : op[t] = Idle BY DEF Init
<1>2. WalksOK BY <1>1, IdleWalks DEF WalksOK
<1>3. ListingsOK BY <1>1, IdleWalks DEF ListingsOK
<1> QED BY <1>2, <1>3, InitMount, InitTable DEF TableInv

LEMMA NextTableInv == TableInv /\ [Next]_vars => TableInv'
<1> SUFFICES ASSUME TableInv, [Next]_vars PROVE TableInv' OBVIOUS
<1>1. MountInv' BY NextMount DEF TableInv
<1>2. CASE UNCHANGED vars
  <2>1. /\ slots' = slots /\ count' = count /\ op' = op /\ seen' = seen /\ steady' = steady
        /\ strays' = strays
    BY <1>2 DEF vars, tableVars
  <2>2. TableOK' BY <2>1 DEF TableInv, TableOK
  <2>3. WalksOK' BY <2>1 DEF TableInv, WalksOK
  <2>4. ListingsOK' BY <2>1 DEF TableInv, ListingsOK, MountListed, Touched
  <2> QED BY <1>1, <2>2, <2>3, <2>4 DEF TableInv
<1>3. ASSUME NEW t \in Tasks, Step(t), Watch PROVE TableInv'
  <2>1. CASE Call(t) BY <1>1, <1>3, <2>1, CallTable
  <2>2. CASE FF_FS_Find(t) BY <1>1, <1>3, <2>2, SearchTable, TakeTable DEF FF_FS_Find
  <2>3. CASE FF_FS_Add(t) BY <1>1, <1>3, <2>3, AddTableInv
  <2>4. CASE RemoveSearch(t) BY <1>1, <1>3, <2>4, RemoveSearchTable
  <2>5. CASE RemoveClear(t) BY <1>1, <1>3, <2>5, RemoveTableInv
  <2>6. CASE \/ MountBegin(t) \/ MountEnd(t) \/ UnmountTest(t) \/ UnmountEnd(t)
             \/ OpenFound(t) \/ OpenJoin(t) \/ Close(t) \/ RenameFound(t) \/ Move(t)
             \/ ChangeDir(t)
    BY <1>1, <1>3, <2>6, OtherTable
  <2>7. CASE ListFound(t) BY <1>1, <1>3, <2>7, ListFoundTable
  <2>8. CASE ListEntries(t) BY <1>1, <1>3, <2>8, ListEntriesTable
  <2>9. CASE ListSystem(t) BY <1>1, <1>3, <2>9, ListSystemTable
  <2>10. CASE ListDots(t) BY <1>1, <1>3, <2>10, ListDotsTable
  <2>11. CASE ListEnd(t)
    <3>1. UNCHANGED tableVars /\ strays \subseteq strays' /\ Return(t) BY <2>11 DEF ListEnd
    <3> QED BY <1>1, <1>3, <3>1, ReturnTable
  <2> QED BY <1>3, <2>1, <2>2, <2>3, <2>4, <2>5, <2>6, <2>7, <2>8, <2>9, <2>10, <2>11 DEF Step
<1> QED BY <1>2, <1>3 DEF Next

-----------------------------------------------------------------------------
(* What a search has passed, and what it answers. *)

Right(t) == \E a \in seen[t] : /\ a.disk = op[t].answer.disk
                               /\ a.disk # Nothing => a.rest = op[t].answer.rest

\* No mount that the walk has passed leads to the path, and the walk is not beyond the
\* table, unless that has shrunk.
PassedOK(t) ==
  /\ op[t].i \in Nat \ {0}
  /\ \A j \in Above(op[t].path) : op[t].i <= j
  /\ unrest[t] # "shrunk" => op[t].i <= count \/ op[t].i = 1

\* A slot that matched is the first mount that leads to the path, or beyond the table now.
MatchedOK(t) ==
  LET i == op[t].i IN
  /\ unrest[t] # "shrunk" => i < count
  /\ i < count => i \in Above(op[t].path) /\ op[t].answer.rest = After(op[t].path, slots[i].len)

\* What the walk ended with.
EndedOK(t) ==
  \/ Right(t)
  \/ op[t].answer.disk = Nothing /\ (unrest[t] # "none" \/ op[t].i = count \/ count = 0)

SearchOK(t) ==
  op[t].pc \in Searching /\ unrest[t] # "misleading" =>
    /\ ~ Holed /\ ~ Nested(op[t].path) /\ Cover(op[t].path) \in seen[t]
    /\ unrest[t] \in {"none", "grown", "shrunk"}
    /\ op[t].pc # "found" => PassedOK(t)
    /\ op[t].pc \in {"find", "match"} => op[t].answer.disk = Nothing
    /\ op[t].pc = "match" => MatchedOK(t)
    /\ op[t].pc = "last" => EndedOK(t)
    /\ op[t].pc = "found" => Right(t) \/ (op[t].answer.disk = Nothing /\ unrest[t] # "none")

SearchesOK == \A t \in Tasks : SearchOK(t)

\* A table without emptied slots, before a step and after it, keeps the paths of its slots.
KeepsPaths ==
  ~ Holed /\ ~ Holed' =>
    \A j \in Indices \ {0} : j < count /\ j < count' =>
      slots'[j].path = slots[j].path /\ slots'[j].len = slots[j].len

LEMMA SamePaths == ASSUME UNCHANGED tableVars PROVE KeepsPaths
BY DEF KeepsPaths, tableVars

LEMMA AddKeeps ==
  ASSUME TableOK, NEW t \in Tasks, FF_FS_Add(t) PROVE KeepsPaths
<1> SUFFICES ASSUME ~ Holed, NEW j \in Indices \ {0}, j < count
             PROVE  slots'[j].path = slots[j].path /\ slots'[j].len = slots[j].len
  BY DEF KeepsPaths
<1> DEFINE p == op[t].call.path.names
           d == op[t].call.disk
           n == IF count = 0 THEN 1 ELSE count
           same == {i \in 1 .. n - 1 : SamePath(slots[i], p)}
           free == {i \in 1 .. n - 1 : slots[i].disk = Nothing}
           first(S) == CHOOSE i \in S : \A k \in S : i <= k
<1>1. \/ p = <<>> /\ Put(0, p, d)
      \/ p # <<>> /\ same # {} /\ Put(first(same), p, d)
      \/ p # <<>> /\ same = {} /\ free # {}
      \/ p # <<>> /\ same = {} /\ free = {} /\ n < MaxFileSys /\ Put(n, p, d)
      \/ UNCHANGED slots
  BY DEF FF_FS_Add
<1>2. /\ DOMAIN slots = Indices /\ count \in 0 .. MaxFileSys /\ n \in Nat /\ count <= n
      /\ same \subseteq Nat
  BY IndicesAre DEF TableOK
<1>3. free = {}
  <2> SUFFICES ASSUME NEW i \in free PROVE FALSE OBVIOUS
  <2>1. i \in Indices \ {0} /\ i < count /\ slots[i].disk = Nothing BY <1>2, IndicesAre
  <2> QED BY <2>1 DEF Holed
<1>4. CASE p = <<>> /\ Put(0, p, d) BY <1>2, <1>4 DEF Put
<1>5. CASE p # <<>> /\ same # {} /\ Put(first(same), p, d)
  <2> DEFINE f == first(same)
  <2>1. f \in same BY <1>2, <1>5, Least
  <2>2. slots[f].path = p /\ slots[f].len = Len(p) BY <2>1 DEF SamePath
  <2> HIDE DEF f, p, d
  <2>3. slots' = [slots EXCEPT ![f] = [path |-> p, len |-> Len(p), disk |-> d]]
    BY <1>5 DEF Put, f
  <2>4. CASE f = j BY <1>2, <2>2, <2>3, <2>4
  <2>5. CASE f # j BY <1>2, <2>3, <2>5
  <2> QED BY <2>4, <2>5
<1>6. CASE Put(n, p, d)
  <2>1. j # n BY <1>2, IndicesAre
  <2> HIDE DEF n, p, d
  <2> QED BY <1>2, <1>6, <2>1 DEF Put
<1>7. CASE UNCHANGED slots BY <1>7
<1> QED BY <1>1, <1>3, <1>4, <1>5, <1>6, <1>7

LEMMA RemoveKeeps ==
  ASSUME TableOK, TableOK', NEW t \in Tasks, RemoveClear(t) PROVE KeepsPaths
<1> SUFFICES ASSUME ~ Holed', NEW j \in Indices \ {0}, j < count'
             PROVE  slots'[j].path = slots[j].path /\ slots'[j].len = slots[j].len
  BY DEF KeepsPaths
<1> DEFINE i == op[t].i
<1>1. slots' = [slots EXCEPT ![i].disk = Nothing, ![i].len = 0] BY DEF RemoveClear
<1>2. SlotOK(slots[i]) \/ i \notin Indices BY DEF TableOK
<1>3. slots'[j].disk # Nothing BY DEF Holed
<1>4. DOMAIN slots = Indices BY DEF TableOK
<1>5. CASE i = j
  <2>1. slots[j] = [path |-> slots[j].path, len |-> slots[j].len, disk |-> slots[j].disk]
    BY <1>2, <1>5 DEF SlotOK
  <2>2. slots'[j].disk = Nothing BY <1>1, <1>4, <1>5, <2>1
  <2> QED BY <1>3, <2>2
<1>6. CASE i # j BY <1>1, <1>4, <1>6
<1> QED BY <1>5, <1>6

\* What has become of the table when a search is not misled.
LEMMA UnrestIs ==
  ASSUME NEW before \in {"none", "grown", "shrunk", "misleading"}, NEW old \in Int, NEW new \in Int,
         Unrest(before, old, new) # "misleading"
  PROVE  /\ before # "misleading" /\ Unrest(before, old, new) \in {"none", "grown", "shrunk"}
         /\ before = "shrunk" => new <= old
         /\ new < old \/ before = "shrunk" => Unrest(before, old, new) = "shrunk"
         /\ new # old \/ before # "none" => Unrest(before, old, new) # "none"
<1>1. CASE before = "misleading" BY <1>1 DEF Unrest
<1>2. CASE before = "shrunk" /\ new > old BY <1>2 DEF Unrest
<1>3. CASE before # "misleading" /\ new < old
  <2>1. Unrest(before, old, new) = "shrunk" BY <1>3 DEF Unrest
  <2> QED BY <1>3, <2>1
<1>4. CASE before \notin {"misleading", "shrunk"} /\ new > old
  <2>1. Unrest(before, old, new) = "grown" BY <1>4 DEF Unrest
  <2> QED BY <1>4, <2>1
<1>5. CASE before # "misleading" /\ new = old
  <2>1. Unrest(before, old, new) = before BY <1>5 DEF Unrest
  <2> QED BY <1>5, <2>1
<1> QED BY <1>1, <1>2, <1>3, <1>4, <1>5

UnrestOK == unrest \in [Tasks -> {"none", "grown", "shrunk", "misleading"}]

\* What the history variables say of a search that is not misled.
LEMMA Watched ==
  ASSUME Watch, UnrestOK, TableOK, TableOK', NEW t \in Tasks,
         op'[t].pc \in Searching, unrest'[t] # "misleading"
  PROVE  /\ ~ Holed' /\ ~ Nested(op[t].path)' /\ Cover(op[t].path)' \in seen'[t]
         /\ unrest'[t] \in {"none", "grown", "shrunk"}
         /\ Begins(t) \/ seen[t] \subseteq seen'[t]
         /\ LET before == IF Begins(t) THEN "none" ELSE unrest[t] IN
            /\ before # "misleading"
            /\ before = "shrunk" => count' <= count
            /\ count' < count \/ before = "shrunk" => unrest'[t] = "shrunk"
            /\ count' # count \/ before # "none" => unrest'[t] # "none"
<1> DEFINE before == IF Begins(t) THEN "none" ELSE unrest[t]
<1>1. /\ ~ Holed' /\ ~ Nested(op[t].path)'
      /\ unrest'[t] = Unrest(before, count, count')
  BY DEF Watch
<1>2. before \in {"none", "grown", "shrunk", "misleading"} BY DEF UnrestOK
<1>3. count \in Int /\ count' \in Int BY IndicesAre DEF TableOK
<1>4. /\ before # "misleading" /\ unrest'[t] \in {"none", "grown", "shrunk"}
      /\ before = "shrunk" => count' <= count
      /\ count' < count \/ before = "shrunk" => unrest'[t] = "shrunk"
      /\ count' # count \/ before # "none" => unrest'[t] # "none"
  <2> HIDE DEF before
  <2> QED BY <1>1, <1>2, <1>3, UnrestIs
<1>5. Cover(op[t].path)' \in seen'[t] /\ (Begins(t) \/ seen[t] \subseteq seen'[t])
  BY DEF Watch
<1> QED BY <1>1, <1>4, <1>5

LEMMA UnrestStays ==
  ASSUME Watch, UnrestOK, TableOK, TableOK' PROVE UnrestOK'
<1>1. count \in Int /\ count' \in Int BY IndicesAre DEF TableOK
<1>2. ASSUME NEW before \in {"none", "grown", "shrunk", "misleading"}
      PROVE  Unrest(before, count, count') \in {"none", "grown", "shrunk", "misleading"}
  <2>1. CASE Unrest(before, count, count') = "misleading" BY <2>1
  <2>2. CASE Unrest(before, count, count') # "misleading" BY <1>1, <2>2, UnrestIs
  <2> QED BY <2>1, <2>2
<1>3. ASSUME NEW t \in Tasks
      PROVE  unrest'[t] \in {"none", "grown", "shrunk", "misleading"}
  <2> DEFINE before == IF Begins(t) THEN "none" ELSE unrest[t]
  <2>1. before \in {"none", "grown", "shrunk", "misleading"} BY DEF UnrestOK
  <2>2. unrest'[t] = IF op'[t].pc \notin Searching THEN "none"
                     ELSE IF Holed' \/ Nested(op[t].path)' THEN "misleading"
                     ELSE Unrest(before, count, count')
    BY DEF Watch
  <2> HIDE DEF before
  <2> QED BY <1>2, <2>1, <2>2
<1>4. unrest' = [t \in Tasks |-> unrest'[t]] BY DEF Watch
<1> QED BY <1>3, <1>4 DEF UnrestOK

LEMMA AboveIs ==
  ASSUME TableOK, NEW p
  PROVE  \A j : j \in Above(p) <=> /\ j \in Indices \ {0} /\ j < count /\ slots[j].disk # Nothing
                                   /\ IsPrefix(slots[j].path, p)
BY DEF Above, Live

\* What the walk has passed, while others change the table.
LEMMA StepOfOther ==
  ASSUME TableOK, TableOK', Watch, UnrestOK, KeepsPaths, NEW t \in Tasks, SearchOK(t),
         op'[t] = op[t]
  PROVE  SearchOK(t)'
<1> SUFFICES ASSUME op'[t].pc \in Searching, unrest'[t] # "misleading"
             PROVE  /\ ~ Holed' /\ ~ Nested(op[t].path)' /\ Cover(op[t].path)' \in seen'[t]
                    /\ unrest'[t] \in {"none", "grown", "shrunk"}
                    /\ op'[t].pc # "found" => PassedOK(t)'
                    /\ op'[t].pc \in {"find", "match"} => op'[t].answer.disk = Nothing
                    /\ op'[t].pc = "match" => MatchedOK(t)'
                    /\ op'[t].pc = "last" => EndedOK(t)'
                    /\ op'[t].pc = "found" => \/ Right(t)'
                                              \/ op'[t].answer.disk = Nothing /\ unrest'[t] # "none"
  BY DEF SearchOK
<1> DEFINE p == op[t].path
           i == op[t].i
<1>1. ~ Begins(t) BY DEF Begins
<1>2. /\ ~ Holed' /\ ~ Nested(op[t].path)' /\ Cover(op[t].path)' \in seen'[t]
      /\ unrest'[t] \in {"none", "grown", "shrunk"} /\ seen[t] \subseteq seen'[t]
      /\ unrest[t] # "misleading"
      /\ unrest[t] = "shrunk" => count' <= count
      /\ count' < count \/ unrest[t] = "shrunk" => unrest'[t] = "shrunk"
      /\ count' # count \/ unrest[t] # "none" => unrest'[t] # "none"
  BY <1>1, Watched
<1>3. /\ ~ Holed
      /\ op[t].pc # "found" => PassedOK(t)
      /\ op[t].pc \in {"find", "match"} => op[t].answer.disk = Nothing
      /\ op[t].pc = "match" => MatchedOK(t)
      /\ op[t].pc = "last" => EndedOK(t)
      /\ op[t].pc = "found" => Right(t) \/ (op[t].answer.disk = Nothing /\ unrest[t] # "none")
  BY <1>2 DEF SearchOK
<1>4. count \in Nat /\ count' \in Nat /\ \A j \in Indices : j \in Nat
  BY IndicesAre DEF TableOK
<1>5. \A j \in Indices \ {0} : j < count /\ j < count' =>
        slots'[j].path = slots[j].path /\ slots'[j].len = slots[j].len
  BY <1>2, <1>3 DEF KeepsPaths
<1>6. \A j \in Indices \ {0} : /\ j < count => slots[j].disk # Nothing
                               /\ j < count' => slots'[j].disk # Nothing
  BY <1>2, <1>3 DEF Holed
<1>7. ASSUME PassedOK(t) PROVE PassedOK(t)'
  <2>1. /\ i \in Nat \ {0} /\ (\A j \in Above(p) : i <= j)
        /\ unrest[t] # "shrunk" => i <= count \/ i = 1
    BY <1>7 DEF PassedOK
  <2>2. ASSUME NEW j \in Above(p)' PROVE i <= j
    <3>1. /\ j \in Indices \ {0} /\ j < count' /\ slots'[j].disk # Nothing
          /\ IsPrefix(slots'[j].path, p)
      BY <2>2 DEF Above, Live
    <3>2. CASE j < count
      <4>1. j \in Above(p) BY <1>5, <1>6, <3>1, <3>2, AboveIs
      <4> QED BY <2>1, <4>1
    <3>3. CASE j >= count
      <4>1. unrest[t] # "shrunk" BY <1>2, <1>4, <3>1, <3>3
      <4> QED BY <1>4, <2>1, <3>1, <3>3, <4>1
    <3> QED BY <1>4, <3>1, <3>2, <3>3
  <2>3. unrest'[t] # "shrunk" => i <= count' \/ i = 1 BY <1>2, <1>4, <2>1
  <2> QED BY <2>1, <2>2, <2>3 DEF PassedOK
<1>8. ASSUME MatchedOK(t), PassedOK(t) PROVE MatchedOK(t)'
  <2>0. i \in Nat BY <1>8 DEF PassedOK
  <2>1. /\ unrest[t] # "shrunk" => i < count
        /\ i < count => i \in Above(p) /\ op[t].answer.rest = After(p, slots[i].len)
    BY <1>8 DEF MatchedOK
  <2>2. unrest'[t] # "shrunk" => i < count' BY <1>2, <1>4, <2>0, <2>1
  <2>3. ASSUME i < count' PROVE i \in Above(p)' /\ op[t].answer.rest = After(p, slots'[i].len)
    <3>1. i < count BY <1>2, <1>4, <2>0, <2>1, <2>3
    <3>2. i \in Indices \ {0} /\ IsPrefix(slots[i].path, p) BY <2>1, <3>1, AboveIs
    <3>3. slots'[i].path = slots[i].path /\ slots'[i].len = slots[i].len
      BY <1>5, <2>3, <3>1, <3>2
    <3>4. i \in Above(p)' BY <1>6, <2>3, <3>2, <3>3 DEF Above, Live
    <3> QED BY <2>1, <3>1, <3>3, <3>4
  <2> QED BY <2>2, <2>3 DEF MatchedOK
<1>9. Right(t) => Right(t)' BY <1>2 DEF Right
<1>10. EndedOK(t) => EndedOK(t)' BY <1>2, <1>9 DEF EndedOK
<1>11. op'[t].pc # "found" => PassedOK(t)' BY <1>3, <1>7
<1>12. op'[t].pc = "match" => MatchedOK(t)' BY <1>3, <1>8
<1>13. op'[t].pc = "last" => EndedOK(t)' BY <1>3, <1>10
<1> QED BY <1>2, <1>3, <1>9, <1>11, <1>12, <1>13

\* The first mount that leads to a path, if it is the deepest, is what leads there.
LEMMA CoverMatch ==
  ASSUME TableOK, NEW p, ~ Nested(p), NEW i \in Above(p), \A j \in Above(p) : i <= j
  PROVE  Cover(p) = [disk |-> slots[i].disk, rest |-> After(p, slots[i].len)]
<1> DEFINE above == Above(p)
           deepest == CHOOSE k \in above : \A j \in above : slots[j].len <= slots[k].len
<1>1. \A k \in above :
        /\ k \in Indices \ {0} /\ Live(k) /\ IsPrefix(slots[k].path, p)
        /\ slots[k].len \in Nat /\ slots[k].len = Len(slots[k].path)
        /\ SubSeq(slots[k].path, 1, slots[k].len) = slots[k].path
  BY SlotLen DEF Live, Above
<1>3. \A j \in above : slots[j].len <= slots[i].len
  <2> SUFFICES ASSUME NEW j \in above PROVE slots[j].len <= slots[i].len OBVIOUS
  <2>1. ~ (slots[i].len < slots[j].len) BY DEF Nested
  <2> QED BY <1>1, <2>1
<1>4. deepest \in above /\ \A j \in above : slots[j].len <= slots[deepest].len
  <2> HIDE DEF above
  <2> QED BY <1>3 DEF above
<1>5. deepest = i
  <2> HIDE DEF deepest
  <2>1. slots[deepest].len = slots[i].len BY <1>1, <1>3, <1>4
  <2>2. slots[deepest].path = slots[i].path BY ZenonT(40), <1>1, <1>4, <2>1 DEF IsPrefix
  <2> QED BY <1>1, <1>4, <2>2 DEF TableOK, Live
<1>6. Cover(p) = IF above = {} THEN [disk |-> slots[0].disk, rest |-> p]
                 ELSE [disk |-> slots[deepest].disk, rest |-> After(p, slots[deepest].len)]
  BY DEF Cover
<1> HIDE DEF deepest
<1> QED BY <1>5, <1>6


\* The table is left alone by a step of the search itself.
LEMMA OwnStep ==
  ASSUME TableOK, Watch, UnrestOK, NEW t \in Tasks, SearchOK(t), UNCHANGED tableVars,
         op[t].pc \in Searching, op'[t].pc \in Searching, ~ Begins(t),
         op'[t].path = op[t].path, unrest'[t] # "misleading"
  PROVE  /\ unrest[t] # "misleading" /\ seen[t] \subseteq seen'[t]
         /\ unrest'[t] = unrest[t] /\ unrest[t] \in {"none", "grown", "shrunk"}
         /\ slots' = slots /\ count' = count
         /\ ~ Holed /\ ~ Holed' /\ ~ Nested(op[t].path) /\ ~ Nested(op[t].path)'
         /\ Cover(op[t].path)' \in seen'[t] /\ Cover(op[t].path)' = Cover(op[t].path)
         /\ Above(op[t].path)' = Above(op[t].path)
<1>1. slots' = slots /\ count' = count BY DEF tableVars
<1>2. TableOK' BY <1>1 DEF TableOK
<1>3. /\ unrest[t] # "misleading" /\ seen[t] \subseteq seen'[t]
      /\ ~ Holed' /\ ~ Nested(op[t].path)' /\ Cover(op[t].path)' \in seen'[t]
  BY <1>2, Watched
<1>4. /\ ~ Holed /\ ~ Nested(op[t].path) /\ unrest[t] \in {"none", "grown", "shrunk"}
  BY <1>3 DEF SearchOK
<1>5. Above(op[t].path)' = Above(op[t].path) BY <1>1 DEF Above, Live
<1>6. Cover(op[t].path)' = Cover(op[t].path) BY <1>1, <1>5 DEF Cover
<1>7. unrest'[t] = unrest[t]
  <2>1. unrest'[t] = Unrest(unrest[t], count, count) BY <1>1, <1>3 DEF Watch
  <2>2. count \in Int BY IndicesAre DEF TableOK
  <2>3. ~ (count < count) /\ ~ (count > count) BY <2>2
  <2> QED BY <1>4, <2>1, <2>3 DEF Unrest
<1> QED BY <1>1, <1>3, <1>4, <1>5, <1>6, <1>7

\* A slot in use matches the paths it leads to.
LEMMA MatchesAbove ==
  ASSUME TableOK, ~ Holed, NEW i \in Indices \ {0}, i < count, NEW p
  PROVE  Matches(slots[i], p) <=> i \in Above(p)
<1>1. slots[i].disk # Nothing BY DEF Holed
<1>2. /\ slots[i].len = Len(slots[i].path)
      /\ SubSeq(slots[i].path, 1, slots[i].len) = slots[i].path
  BY <1>1, SlotLen
<1> QED BY <1>1, <1>2 DEF Matches, Above, Live, IsPrefix

LEMMA SearchStep ==
  ASSUME TableInv, Watch, UnrestOK, NEW t \in Tasks, SearchOK(t), Search(t)
  PROVE  SearchOK(t)'
<1> DEFINE p == op[t].path
           i == op[t].i
<1>1. /\ op[t].pc = "find" /\ UNCHANGED tableVars /\ WalkOK(op[t]) /\ TableOK /\ MountInv
  BY DEF Search, TableInv, WalksOK
<1>2. /\ op'[t].path = p /\ op'[t].answer.disk = op[t].answer.disk
      /\ \/ /\ op'[t].pc = "last" /\ op'[t].i = i /\ i >= count
            /\ op'[t].answer = op[t].answer
         \/ /\ op'[t].pc = "match" /\ op'[t].i = i /\ ~ (i >= count)
            /\ Matches(slots[i], p)
            /\ op'[t].answer.rest = After(p, slots[i].len)
         \/ /\ op'[t].pc = "find" /\ op'[t].i = i + 1 /\ ~ (i >= count)
            /\ ~ Matches(slots[i], p) /\ op'[t].answer = op[t].answer
  BY <1>1, SearchFields
<1>3. op'[t].pc \in {"last", "match", "find"} /\ op[t].pc \in Searching /\ op'[t].pc \in Searching
      /\ ~ Begins(t)
  BY <1>1, <1>2 DEF Searching, Begins
<1> SUFFICES ASSUME unrest'[t] # "misleading"
             PROVE  /\ ~ Holed' /\ ~ Nested(p)' /\ Cover(p)' \in seen'[t]
                    /\ unrest'[t] \in {"none", "grown", "shrunk"}
                    /\ PassedOK(t)' /\ op'[t].answer.disk = Nothing
                    /\ op'[t].pc = "match" => MatchedOK(t)'
                    /\ op'[t].pc = "last" => EndedOK(t)'
  BY <1>2, <1>3 DEF SearchOK
<1>4. /\ unrest[t] # "misleading" /\ unrest'[t] = unrest[t]
      /\ unrest[t] \in {"none", "grown", "shrunk"}
      /\ slots' = slots /\ count' = count /\ ~ Holed /\ ~ Holed' /\ ~ Nested(p)'
      /\ Cover(p)' \in seen'[t] /\ Above(p)' = Above(p)
  BY <1>1, <1>2, <1>3, OwnStep
<1>5. PassedOK(t) /\ op[t].answer.disk = Nothing BY <1>1, <1>3, <1>4 DEF SearchOK
<1>6. /\ i \in Nat \ {0} /\ (\A j \in Above(p) : i <= j)
      /\ unrest[t] # "shrunk" => i <= count \/ i = 1
  BY <1>5 DEF PassedOK
<1>7. count \in 0 .. MaxFileSys /\ \A j \in Indices : j \in Nat BY <1>1, IndicesAre DEF TableOK
<1>8. i < count => i \in Indices \ {0} BY <1>6, <1>7, IndicesAre
<1>9. CASE op'[t].pc = "last" /\ op'[t].i = i /\ i >= count
  <2>1. PassedOK(t)' BY <1>2, <1>4, <1>6, <1>9 DEF PassedOK
  <2>2. unrest'[t] # "none" \/ i = count' \/ count' = 0 BY <1>4, <1>6, <1>7, <1>9
  <2>3. EndedOK(t)' BY <1>2, <1>5, <1>9, <2>2 DEF EndedOK
  <2> QED BY <1>2, <1>4, <1>5, <1>9, <2>1, <2>3
<1>10. CASE /\ op'[t].pc = "match" /\ op'[t].i = i /\ ~ (i >= count)
            /\ Matches(slots[i], p) /\ op'[t].answer.rest = After(p, slots[i].len)
  <2>1. PassedOK(t)' BY <1>2, <1>4, <1>6, <1>10 DEF PassedOK
  <2>2. i < count BY <1>6, <1>7, <1>10
  <2>3. i \in Above(p) BY <1>1, <1>4, <1>8, <1>10, <2>2, MatchesAbove
  <2>4. MatchedOK(t)' BY <1>2, <1>4, <1>10, <2>2, <2>3 DEF MatchedOK
  <2> QED BY <1>2, <1>4, <1>5, <1>10, <2>1, <2>4
<1>11. CASE /\ op'[t].pc = "find" /\ op'[t].i = i + 1 /\ ~ (i >= count) /\ ~ Matches(slots[i], p)
  <2>1. i < count BY <1>6, <1>7, <1>11
  <2>2. i \notin Above(p) BY <1>1, <1>4, <1>8, <1>11, <2>1, MatchesAbove
  <2>3. \A j \in Above(p) : j \in Nat BY <1>7 DEF Above
  <2>4. \A j \in Above(p) : i + 1 <= j BY <1>6, <2>2, <2>3
  <2>5. i + 1 \in Nat \ {0} /\ i + 1 <= count BY <1>6, <1>7, <2>1
  <2>6. PassedOK(t)' BY <1>2, <1>4, <1>11, <2>4, <2>5 DEF PassedOK
  <2> QED BY <1>2, <1>4, <1>5, <1>11, <2>6
<1> QED BY <1>2, <1>9, <1>10, <1>11

LEMMA TakeMatchStep ==
  ASSUME TableInv, Watch, UnrestOK, NEW t \in Tasks, SearchOK(t), TakeMatch(t)
  PROVE  SearchOK(t)'
<1> DEFINE p == op[t].path
           i == op[t].i
<1>1. op[t].pc = "match" /\ UNCHANGED tableVars /\ WalkOK(op[t]) /\ TableOK /\ MountInv
  BY DEF TakeMatch, TableInv, WalksOK
<1>2. /\ op'[t].path = p /\ op'[t].pc = "last" /\ op'[t].i = i
      /\ op'[t].answer = [disk |-> slots[i].disk, rest |-> op[t].answer.rest]
  BY <1>1, TakeFields
<1>3. op[t].pc \in Searching /\ op'[t].pc \in Searching /\ ~ Begins(t)
  BY <1>1, <1>2 DEF Searching, Begins
<1> SUFFICES ASSUME unrest'[t] # "misleading"
             PROVE  /\ ~ Holed' /\ ~ Nested(p)' /\ Cover(p)' \in seen'[t]
                    /\ unrest'[t] \in {"none", "grown", "shrunk"}
                    /\ PassedOK(t)' /\ EndedOK(t)'
  BY <1>2, <1>3 DEF SearchOK
<1>4. /\ unrest[t] # "misleading" /\ unrest'[t] = unrest[t]
      /\ unrest[t] \in {"none", "grown", "shrunk"}
      /\ slots' = slots /\ count' = count /\ ~ Nested(p) /\ ~ Holed' /\ ~ Nested(p)'
      /\ Cover(p)' \in seen'[t] /\ Cover(p)' = Cover(p) /\ Above(p)' = Above(p)
  BY <1>1, <1>2, <1>3, OwnStep
<1>5. PassedOK(t) /\ MatchedOK(t) BY <1>1, <1>3, <1>4 DEF SearchOK
<1>6. PassedOK(t)' BY <1>2, <1>4, <1>5 DEF PassedOK
<1>7. EndedOK(t)'
  <2>0. i \in Nat /\ count \in Nat BY <1>1, <1>5, IndicesAre DEF PassedOK, TableOK
  <2>1. CASE i < count
    <3>1. /\ i \in Above(p) /\ op[t].answer.rest = After(p, slots[i].len)
          /\ \A j \in Above(p) : i <= j
      BY <1>5, <2>1 DEF MatchedOK, PassedOK
    <3>2. Cover(p) = [disk |-> slots[i].disk, rest |-> After(p, slots[i].len)]
      <4> HIDE DEF p, i
      <4> QED BY <1>1, <1>4, <3>1, CoverMatch
    <3>3. op'[t].answer = Cover(p) BY <1>2, <3>1, <3>2
    <3> QED BY <1>4, <3>3 DEF EndedOK, Right
  <2>2. CASE i >= count
    <3>1. unrest[t] = "shrunk" BY <1>5, <2>0, <2>2 DEF MatchedOK
    <3>2. i \in Indices BY <1>1 DEF WalkOK
    <3>3. slots[i].disk = Nothing BY <1>1, <2>0, <2>2, <3>2 DEF TableOK
    <3>4. op'[t].answer.disk = Nothing BY <1>2, <3>3
    <3> QED BY <1>4, <3>1, <3>4 DEF EndedOK
  <2> QED BY <2>0, <2>1, <2>2
<1> QED BY <1>4, <1>6, <1>7

LEMMA TakeRootStep ==
  ASSUME TableInv, Watch, UnrestOK, NEW t \in Tasks, SearchOK(t), TakeRoot(t)
  PROVE  SearchOK(t)'
<1> DEFINE p == op[t].path
           i == op[t].i
<1>1. op[t].pc = "last" /\ UNCHANGED tableVars /\ WalkOK(op[t]) /\ TableOK /\ MountInv
  BY DEF TakeRoot, TableInv, WalksOK
<1>2. PICK d, rest :
        /\ Answer(t, d, rest)
        /\ \/ i = count /\ d = slots[0].disk /\ rest = p
           \/ i # count /\ d = op[t].answer.disk /\ rest = op[t].answer.rest
  BY DEF TakeRoot
<1>3. /\ op'[t].path = p /\ op'[t].pc = "found" /\ op'[t].answer = [disk |-> d, rest |-> rest]
  BY <1>1, <1>2, AnswerFields
<1>4. op[t].pc \in Searching /\ op'[t].pc \in Searching /\ ~ Begins(t)
  BY <1>1, <1>3 DEF Searching, Begins
<1> SUFFICES ASSUME unrest'[t] # "misleading"
             PROVE  /\ ~ Holed' /\ ~ Nested(p)' /\ Cover(p)' \in seen'[t]
                    /\ unrest'[t] \in {"none", "grown", "shrunk"}
                    /\ Right(t)' \/ (op'[t].answer.disk = Nothing /\ unrest'[t] # "none")
  BY <1>3, <1>4 DEF SearchOK
<1>5. /\ unrest[t] # "misleading" /\ unrest'[t] = unrest[t] /\ seen[t] \subseteq seen'[t]
      /\ unrest[t] \in {"none", "grown", "shrunk"}
      /\ ~ Holed' /\ ~ Nested(p)' /\ Cover(p)' \in seen'[t] /\ Cover(p)' = Cover(p)
  BY <1>1, <1>3, <1>4, OwnStep
<1>6. PassedOK(t) /\ EndedOK(t) BY <1>1, <1>4, <1>5 DEF SearchOK
<1>7. \A j \in Indices : j \in Nat BY IndicesAre
<1>8. CASE i = count
  <2>1. Above(p) = {}
    <3> SUFFICES ASSUME NEW j \in Above(p) PROVE FALSE OBVIOUS
    <3>1. j \in Nat /\ j < count BY <1>7 DEF Above, Live
    <3>2. i <= j /\ i \in Nat BY <1>6 DEF PassedOK
    <3> QED BY <1>8, <3>1, <3>2
  <2>2. Cover(p) = [disk |-> slots[0].disk, rest |-> p] BY <2>1 DEF Cover
  <2>3. op'[t].answer = Cover(p) BY <1>2, <1>3, <1>8, <2>2
  <2> QED BY <1>5, <2>3 DEF Right
<1>9. CASE i # count
  <2>1. op'[t].answer.disk = op[t].answer.disk /\ op'[t].answer.rest = op[t].answer.rest
    BY <1>2, <1>3, <1>9
  <2>2. CASE Right(t) BY <1>5, <2>1, <2>2 DEF Right
  <2>3. CASE op[t].answer.disk = Nothing /\ unrest[t] # "none" BY <1>5, <2>1, <2>3
  <2>4. CASE op[t].answer.disk = Nothing /\ count = 0
    <3>1. Above(p) = {}
      <4> SUFFICES ASSUME NEW j \in Above(p) PROVE FALSE OBVIOUS
      <4>1. j \in Nat /\ j < count BY <1>7 DEF Above, Live
      <4> QED BY <2>4, <4>1
    <3>2. Cover(p) = [disk |-> slots[0].disk, rest |-> p] BY <3>1 DEF Cover
    <3>3. slots[0].disk = Nothing BY <1>1, <2>4, IndicesAre DEF TableOK
    <3> QED BY <1>5, <2>1, <2>4, <3>2, <3>3 DEF Right
  <2> QED BY <1>6, <1>9, <2>2, <2>3, <2>4 DEF EndedOK
<1> QED BY <1>5, <1>8, <1>9

\* The other steps of a call do not search, or begin to.
LEMMA NoSearch ==
  ASSUME TableInv, NEW t \in Tasks, Step(t), ~ FF_FS_Find(t)
  PROVE  /\ \A u \in Tasks \ {t} : op'[u] = op[u]
         /\ \/ op'[t].pc \notin Searching
            \/ /\ UNCHANGED tableVars /\ op'[t].pc = "find" /\ op[t].pc # "find"
               /\ op'[t].i = 1 /\ op'[t].answer = NoAnswer
<1>1. op = [u \in Tasks |-> op[u]] /\ IsCall(op[t]) /\ MountInv
  BY DEF TableInv, MountInv, CallsOK, CallOK
<1>2. CASE Return(t)
  <2>1. op'[t] = Idle /\ \A u \in Tasks \ {t} : op'[u] = op[u]
    BY <1>1, <1>2, ReturnFields DEF OpStep
  <2> QED BY <2>1 DEF Idle, Searching
<1>3. ASSUME NEW pc \in {"clear", "mounting", "flush", "opening", "move", "dots", "systems"},
             Goto(t, pc)
      PROVE  op'[t].pc \notin Searching /\ \A u \in Tasks \ {t} : op'[u] = op[u]
  BY <1>1, <1>3, GotoFields DEF Searching
<1>4. ASSUME NEW c, NEW p, NEW d, Lookup(t, c, p, d)
      PROVE  /\ op'[t].pc = "find" /\ op'[t].i = 1 /\ op'[t].answer = NoAnswer
             /\ \A u \in Tasks \ {t} : op'[u] = op[u]
  BY <1>1, <1>4, LookupFields
<1>5. CASE Call(t)
  <2>1. op[t].pc = "idle" /\ UNCHANGED tableVars BY <1>5 DEF Call
  <2>2. PICK c \in Calls :
          IF c.fn \in {"open", "rename", "chdir", "list"} THEN Lookup(t, c, c.path, Nothing)
          ELSE op' = [op EXCEPT ![t] = [Idle EXCEPT !.call = c, !.pc = "begin", !.i = 1]]
    BY <1>5 DEF Call
  <2>3. CASE c.fn \in {"open", "rename", "chdir", "list"} BY <1>4, <2>1, <2>2, <2>3
  <2>4. CASE c.fn \notin {"open", "rename", "chdir", "list"}
    BY <1>1, <2>2, <2>4 DEF Idle, Searching
  <2> QED BY <2>3, <2>4
<1>6. CASE FF_FS_Add(t) BY <1>2, <1>6 DEF FF_FS_Add
<1>7. CASE RemoveSearch(t) /\ ~ Return(t) /\ ~ Goto(t, "clear")
  <2>1. \/ op' = [op EXCEPT ![t].pc = "clear", ![t].i = 0]
        \/ op' = [op EXCEPT ![t].i = @ + 1] /\ op[t].pc = "begin"
    BY <1>7 DEF RemoveSearch, At
  <2>2. CASE op' = [op EXCEPT ![t].pc = "clear", ![t].i = 0]
    BY <1>1, <2>2 DEF Searching, IsCall
  <2>3. CASE op' = [op EXCEPT ![t].i = @ + 1] /\ op[t].pc = "begin"
    <3> DEFINE n == op[t].i + 1
    <3>1. op' = [op EXCEPT ![t].i = n] BY <1>1, <2>3
    <3> HIDE DEF n
    <3>2. op'[t].pc = "begin" /\ \A u \in Tasks \ {t} : op'[u] = op[u]
      BY <1>1, <2>3, <3>1 DEF IsCall
    <3> QED BY <3>2 DEF Searching
  <2> QED BY <2>1, <2>2, <2>3
<1>8. CASE RemoveSearch(t) /\ (Return(t) \/ Goto(t, "clear")) BY <1>2, <1>3, <1>8
<1>9. CASE RemoveClear(t) BY <1>2, <1>9 DEF RemoveClear
<1>10. CASE \/ MountBegin(t) \/ MountEnd(t) \/ UnmountTest(t) \/ UnmountEnd(t)
            \/ OpenFound(t) \/ OpenJoin(t) \/ Close(t) \/ Move(t) \/ ChangeDir(t)
            \/ ListEnd(t)
  <2>1. \/ Return(t) \/ Goto(t, "mounting") \/ Goto(t, "flush") \/ Goto(t, "opening")
    BY <1>10 DEF MountBegin, MountEnd, UnmountTest, UnmountEnd, OpenFound, OpenJoin, Close,
                 Move, ChangeDir, ListEnd
  <2> QED BY <1>2, <1>3, <2>1
<1>11. CASE RenameFound(t)
  <2>1. op[t].pc = "found" /\ UNCHANGED tableVars BY <1>11 DEF RenameFound, At
  <2>2. \/ Return(t) \/ Goto(t, "move")
        \/ Lookup(t, op[t].call, op[t].call.to, op[t].answer.disk)
    BY <1>11 DEF RenameFound
  <2>3. CASE Lookup(t, op[t].call, op[t].call.to, op[t].answer.disk) BY <1>4, <2>1, <2>3
  <2> QED BY <1>2, <1>3, <2>2, <2>3
<1>12. CASE ListFound(t) /\ ~ Return(t)
  <2> DEFINE pc == IF op[t].answer.disk = Nothing THEN "systems" ELSE "entries"
             i == IF op[t].path = <<>> THEN count ELSE 0
             dots == IF op[t].path = <<>> THEN {"."} ELSE {".", ".."}
  <2>1. op' = [op EXCEPT ![t].pc = pc, ![t].i = i, ![t].dots = dots]
    BY <1>12 DEF ListFound
  <2>2. pc \in {"systems", "entries"} OBVIOUS
  <2> HIDE DEF pc, i, dots
  <2>3. op'[t].pc = pc /\ \A u \in Tasks \ {t} : op'[u] = op[u] BY <1>1, <2>1 DEF IsCall
  <2> QED BY <2>2, <2>3 DEF Searching
<1>13. CASE ListEntries(t) /\ ~ Return(t) /\ ~ Goto(t, "systems")
  <2> DEFINE names == List(t, <<<<".">>, <<"..">>>>)
  <2>1. op' = [op EXCEPT ![t].pc = "systems", ![t].dots = {}, ![t].listed = names]
    BY <1>13 DEF ListEntries
  <2> HIDE DEF names
  <2>2. op'[t].pc = "systems" /\ \A u \in Tasks \ {t} : op'[u] = op[u] BY <1>1, <2>1 DEF IsCall
  <2> QED BY <2>2 DEF Searching
<1>14. CASE ListSystem(t) /\ ~ Goto(t, "dots")
  <2> DEFINE i == op[t].i - 1
             names == IF i < count /\ slots[i].path # <<>> THEN List(t, <<slots[i].path>>)
                      ELSE op[t].listed
  <2>1. op[t].pc = "systems" /\ op' = [op EXCEPT ![t].i = i, ![t].listed = names]
    BY <1>1, <1>14 DEF ListSystem, At
  <2> HIDE DEF i, names
  <2>2. op'[t].pc = "systems" /\ \A u \in Tasks \ {t} : op'[u] = op[u] BY <1>1, <2>1 DEF IsCall
  <2> QED BY <2>2 DEF Searching
<1>15. CASE ListDots(t)
  <2> DEFINE names == List(t, (IF ".." \in op[t].dots THEN <<<<"..">>>> ELSE <<>>)
                              \o (IF "." \in op[t].dots THEN <<<<".">>>> ELSE <<>>))
  <2>1. op' = [op EXCEPT ![t].pc = "listed", ![t].dots = {}, ![t].listed = names]
    BY <1>15 DEF ListDots
  <2> HIDE DEF names
  <2>2. op'[t].pc = "listed" /\ \A u \in Tasks \ {t} : op'[u] = op[u] BY <1>1, <2>1 DEF IsCall
  <2> QED BY <2>2 DEF Searching
<1> QED BY <1>2, <1>3, <1>5, <1>6, <1>7, <1>8, <1>9, <1>10, <1>11, <1>12, <1>13, <1>14, <1>15
        DEF Step

\* A search begins with nothing passed.
LEMMA BeginStep ==
  ASSUME TableInv, TableInv', Watch, UnrestOK, NEW t \in Tasks, UNCHANGED tableVars,
         op'[t].pc = "find", op[t].pc # "find", op'[t].i = 1, op'[t].answer = NoAnswer
  PROVE  SearchOK(t)'
<1> SUFFICES ASSUME unrest'[t] # "misleading"
             PROVE  /\ ~ Holed' /\ ~ Nested(op[t].path)' /\ Cover(op[t].path)' \in seen'[t]
                    /\ unrest'[t] \in {"none", "grown", "shrunk"}
                    /\ PassedOK(t)' /\ op'[t].answer.disk = Nothing
  BY DEF SearchOK
<1>1. TableOK /\ TableOK' /\ op'[t].pc \in Searching BY DEF TableInv, Searching
<1>2. /\ ~ Holed' /\ ~ Nested(op[t].path)' /\ Cover(op[t].path)' \in seen'[t]
      /\ unrest'[t] \in {"none", "grown", "shrunk"}
  BY <1>1, Watched
<1>3. \A j \in Above(op[t].path)' : 1 <= j
  <2> SUFFICES ASSUME NEW j \in Above(op[t].path)' PROVE 1 <= j OBVIOUS
  <2>1. j \in Nat \ {0} BY IndicesAre DEF Above
  <2> QED BY <2>1
<1>4. PassedOK(t)' BY <1>3 DEF PassedOK
<1> QED BY <1>2, <1>4 DEF NoAnswer


FoundInv == TableInv /\ UnrestOK /\ SearchesOK

LEMMA InitFound == Init => FoundInv
<1> SUFFICES ASSUME Init PROVE FoundInv OBVIOUS
<1>1. TableInv BY InitTableInv
<1>2. UnrestOK BY DEF Init, UnrestOK
<1>3. \A t \in Tasks : op[t] = Idle BY DEF Init
<1>4. SearchesOK BY <1>3 DEF SearchesOK, SearchOK, Idle, Searching
<1> QED BY <1>1, <1>2, <1>4 DEF FoundInv

LEMMA NextFound == FoundInv /\ [Next]_vars => FoundInv'
<1> SUFFICES ASSUME FoundInv, [Next]_vars PROVE FoundInv' OBVIOUS
<1> USE DEF FoundInv
<1>1. TableInv' BY NextTableInv
<1>2. CASE UNCHANGED vars
  <2>1. /\ slots' = slots /\ count' = count /\ op' = op /\ seen' = seen /\ unrest' = unrest
    BY <1>2 DEF vars, tableVars
  <2>2. UnrestOK' BY <2>1 DEF UnrestOK
  <2>3. ASSUME NEW t \in Tasks PROVE SearchOK(t)'
    <3>1. /\ Holed' = Holed /\ Nested(op[t].path)' = Nested(op[t].path)
          /\ Above(op[t].path)' = Above(op[t].path)
      BY <2>1 DEF Holed, Nested, Above, Live
    <3>2. Cover(op[t].path)' = Cover(op[t].path) BY <2>1, <3>1 DEF Cover
    <3>3. /\ PassedOK(t)' = PassedOK(t) /\ MatchedOK(t)' = MatchedOK(t)
          /\ EndedOK(t)' = EndedOK(t) /\ Right(t)' = Right(t)
      BY <2>1, <3>1 DEF PassedOK, MatchedOK, EndedOK, Right
    <3>4. SearchOK(t) BY DEF SearchesOK
    <3> QED BY <2>1, <3>1, <3>2, <3>3, <3>4 DEF SearchOK
  <2>4. SearchesOK' BY <2>3 DEF SearchesOK
  <2> QED BY <1>1, <2>2, <2>4
<1>3. ASSUME NEW t \in Tasks, Step(t), Watch PROVE FoundInv'
  <2>1. TableOK /\ TableOK' BY <1>1 DEF TableInv
  <2>2. UnrestOK' BY <1>3, <2>1, UnrestStays
  <2>3. KeepsPaths
    <3>1. CASE FF_FS_Add(t) BY <2>1, <3>1, AddKeeps
    <3>2. CASE RemoveClear(t) BY <2>1, <3>2, RemoveKeeps
    <3>3. CASE ~ FF_FS_Add(t) /\ ~ RemoveClear(t)
      <4>1. UNCHANGED tableVars
        BY <1>3, <3>3 DEF Step, Call, FF_FS_Find, Search, TakeMatch, TakeRoot, RemoveSearch,
             MountBegin, MountEnd, UnmountTest, UnmountEnd, OpenFound, OpenJoin, Close,
             RenameFound, Move, ChangeDir, ListFound, ListEntries, ListSystem, ListDots, ListEnd
      <4> QED BY <4>1, SamePaths
    <3> QED BY <3>1, <3>2, <3>3
  <2>4. \A u \in Tasks \ {t} : op'[u] = op[u]
    <3>1. CASE FF_FS_Find(t)
      <4>1. MountInv /\ WalkOK(op[t]) BY DEF TableInv, WalksOK
      <4>2. CASE Search(t) BY <4>1, <4>2, SearchFields
      <4>3. CASE TakeMatch(t) BY <4>1, <4>3, TakeFields
      <4>4. CASE TakeRoot(t) BY <4>1, <4>4, AnswerFields DEF TakeRoot
      <4> QED BY <3>1, <4>2, <4>3, <4>4 DEF FF_FS_Find
    <3>2. CASE ~ FF_FS_Find(t) BY <1>3, <3>2, NoSearch
    <3> QED BY <3>1, <3>2
  <2>5. SearchOK(t)'
    <3>1. CASE Search(t) BY <1>3, <3>1, SearchStep DEF SearchesOK
    <3>2. CASE TakeMatch(t) BY <1>3, <3>2, TakeMatchStep DEF SearchesOK
    <3>3. CASE TakeRoot(t) BY <1>3, <3>3, TakeRootStep DEF SearchesOK
    <3>4. CASE ~ FF_FS_Find(t)
      <4>1. CASE op'[t].pc \notin Searching BY <4>1 DEF SearchOK
      <4>2. CASE /\ UNCHANGED tableVars /\ op'[t].pc = "find" /\ op[t].pc # "find"
                 /\ op'[t].i = 1 /\ op'[t].answer = NoAnswer
        BY <1>1, <1>3, <4>2, BeginStep
      <4> QED BY <1>3, <3>4, <4>1, <4>2, NoSearch
    <3> QED BY <3>1, <3>2, <3>3, <3>4 DEF FF_FS_Find
  <2>6. \A u \in Tasks \ {t} : SearchOK(u)' BY <1>3, <2>1, <2>3, <2>4, StepOfOther DEF SearchesOK
  <2>7. SearchesOK' BY <2>5, <2>6 DEF SearchesOK
  <2> QED BY <1>1, <2>2, <2>7
<1> QED BY <1>2, <1>3 DEF Next

\* FF_FS_Find answers with what the table said at some moment of the search, while mounts
\* are put in, are given other disks and are taken out at the end of the table, however
\* many tasks do so; a search in which the table grew or shrank may find nothing.  The
\* theorem says nothing of tables with emptied slots or with a mount before a deeper
\* one, nor of those that shrink and grow within one search.
THEOREM SearchesAnswerFromTheTable == Spec => []FindAnswersFromTheTable
<1>1. FoundInv => FindAnswersFromTheTable
  <2> SUFFICES ASSUME FoundInv, NEW t \in Tasks, op[t].pc = "found", unrest[t] # "misleading"
               PROVE  Right(t) \/ (op[t].answer.disk = Nothing /\ unrest[t] # "none")
    BY DEF FindAnswersFromTheTable, Right
  <2> QED BY DEF FoundInv, SearchesOK, SearchOK, Searching
<1> QED BY InitFound, NextFound, <1>1, PTL DEF Spec

-----------------------------------------------------------------------------
LEMMA ListedAreListed == TableInv => MountsAreListed
<1> SUFFICES ASSUME TableInv, NEW t \in Tasks, op[t].pc = "listed"
             PROVE  /\ Times(<<".">>, op[t].listed) = 1
                    /\ Times(<<"..">>, op[t].listed) = IF op[t].path = <<>> THEN 0 ELSE 1
                    /\ op[t].path = <<>> /\ "mistaken" \notin strays =>
                         \A m \in steady[t] :
                           /\ Times(m, op[t].listed) >= 1
                           /\ "doubled" \notin strays => Times(m, op[t].listed) = 1
  BY DEF MountsAreListed
<1>1. op[t].pc \in Listing /\ DotsOK(op[t]) /\ op[t].i = 0 /\ op[t].dots = {}
  BY DEF TableInv, WalksOK, WalkOK, Listing
<1>2. /\ Times(<<".">>, op[t].listed) = 1
      /\ Times(<<"..">>, op[t].listed) = IF op[t].path = <<>> THEN 0 ELSE 1
  BY <1>1 DEF DotsOK, DotsOf
<1>3. ASSUME op[t].path = <<>>, "mistaken" \notin strays, NEW m \in steady[t]
      PROVE  /\ Times(m, op[t].listed) >= 1
             /\ "doubled" \notin strays => Times(m, op[t].listed) = 1
  <2>1. MountListed(op[t], m) BY <1>1, <1>3 DEF TableInv, ListingsOK
  <2>2. \A j \in Indices \ {0} : j >= op[t].i BY <1>1, IndicesAre
  <2> QED BY <2>1, <2>2 DEF MountListed
<1> QED BY <1>2, <1>3

\* A listing has its dots just once, and that of the root every mount that nobody adds or
\* removes while it runs: once, or more than once if an emptied slot kept its path.  Only
\* a removal that empties a slot which has become another mount's can take one from it.
THEOREM MountsStayListed == Spec => []MountsAreListed
BY InitTableInv, NextTableInv, ListedAreListed, PTL DEF Spec

-----------------------------------------------------------------------------
(* Paths. *)

LEMMA WalkType ==
  ASSUME NEW N, NEW d \in Seq(N), NEW n \in N PROVE Walk(d, n) \in Seq(N)
<1>1. CASE n = "." BY <1>1 DEF Walk
<1>2. CASE n # "." /\ n = ".." /\ d = <<>> BY <1>2 DEF Walk
<1>3. CASE n # "." /\ n = ".." /\ d # <<>>
  <2>1. Front(d) \in Seq(N) BY <1>3 DEF Front
  <2> QED BY <1>3, <2>1 DEF Walk
<1>4. CASE n # "." /\ n # ".."
  <2>1. Append(d, n) \in Seq(N) OBVIOUS
  <2> QED BY <1>4, <2>1 DEF Walk
<1> QED BY <1>1, <1>2, <1>3, <1>4

\* d are the directories that p leads through.
LeadsThrough(p, d) ==
  /\ d[0] = <<>>
  /\ \A n \in 1 .. Len(p) : d[n] = Walk(d[n - 1], p[n])

LEMMA MeaningIs ==
  ASSUME NEW N, NEW p \in Seq(N)
  PROVE  \E d \in [0 .. Len(p) -> Seq(N)] : LeadsThrough(p, d) /\ Meaning(p) = d[Len(p)]
<1> DEFINE G(d) == d = [n \in 0 .. Len(p) |-> IF n = 0 THEN <<>> ELSE Walk(d[n - 1], p[n])]
<1> DEFINE step == [x \in (1 .. Len(p)) \X Seq(N) |-> Walk(x[2], p[x[1]])]
<1>1. Len(p) \in Nat /\ <<>> \in Seq(N) OBVIOUS
<1>2. step \in [(1 .. Len(p)) \X Seq(N) -> Seq(N)]
  <2>1. ASSUME NEW x \in (1 .. Len(p)) \X Seq(N) PROVE Walk(x[2], p[x[1]]) \in Seq(N)
    <3>1. p[x[1]] \in N /\ x[2] \in Seq(N) OBVIOUS
    <3> QED BY <3>1, WalkType
  <2> QED BY <2>1
<1>3. \A i \in 1 .. Len(p) : \A s \in Seq(N) : step[<<i, s>>] = Walk(s, p[i]) OBVIOUS
<1> HIDE DEF step
<1>4. PICK f \in [0 .. Len(p) -> Seq(N)] : Iterates(f, Len(p), <<>>, step)
  <2>1. \A st \in [(1 .. Len(p)) \X Seq(N) -> Seq(N)] :
          \E f \in [0 .. Len(p) -> Seq(N)] : Iterates(f, Len(p), <<>>, st)
    BY <1>1, IterationExists
  <2> QED BY <1>2, <2>1
<1>5. \A i \in 0 .. Len(p) : i # 0 => i \in 1 .. Len(p) /\ f[i - 1] \in Seq(N)
  BY <1>1
<1>6. G(f)
  <2>1. f = [i \in 0 .. Len(p) |-> IF i = 0 THEN <<>> ELSE step[<<i, f[i - 1]>>]]
    BY <1>4 DEF Iterates
  <2>2. \A i \in 0 .. Len(p) : (IF i = 0 THEN <<>> ELSE step[<<i, f[i - 1]>>])
                             = (IF i = 0 THEN <<>> ELSE Walk(f[i - 1], p[i]))
    BY <1>3, <1>5
  <2>3. f = [i \in 0 .. Len(p) |-> f[i]] OBVIOUS
  <2>4. \A i \in 0 .. Len(p) : f[i] = IF i = 0 THEN <<>> ELSE Walk(f[i - 1], p[i])
    BY <2>1, <2>2
  <2> QED BY <2>3, <2>4
<1>7. PICK c : c = CHOOSE d : G(d) OBVIOUS
<1>8. G(c) BY <1>6, <1>7
<1>9. Meaning(p) = c[Len(p)] BY <1>7 DEF Meaning
<1> HIDE DEF G
<1>10. ASSUME NEW d, G(d) PROVE d = f
  <2>1. d = [n \in 0 .. Len(p) |-> IF n = 0 THEN <<>> ELSE Walk(d[n - 1], p[n])]
    BY <1>10 DEF G
  <2>2. f = [n \in 0 .. Len(p) |-> IF n = 0 THEN <<>> ELSE Walk(f[n - 1], p[n])]
    BY <1>6 DEF G
  <2>3. \A n \in 0 .. Len(p) : d[n] = IF n = 0 THEN <<>> ELSE Walk(d[n - 1], p[n])
    BY <2>1
  <2>4. \A n \in 0 .. Len(p) : f[n] = IF n = 0 THEN <<>> ELSE Walk(f[n - 1], p[n])
    BY <2>2
  <2> DEFINE S == {n \in 0 .. Len(p) : d[n] = f[n]}
  <2>5. 0 \in S BY <1>1, <2>3, <2>4
  <2>6. \A i \in 0 .. Len(p) - 1 : i \in S => i + 1 \in S
    <3> SUFFICES ASSUME NEW i \in 0 .. Len(p) - 1, d[i] = f[i] PROVE i + 1 \in S OBVIOUS
    <3>1. i + 1 \in 0 .. Len(p) /\ i + 1 # 0 /\ (i + 1) - 1 = i BY <1>1
    <3> QED BY <2>3, <2>4, <3>1
  <2> HIDE DEF S
  <2>7. \A i \in 0 .. Len(p) : i \in S BY <1>1, <2>5, <2>6, BoundedInduction
  <2>8. \A i \in 0 .. Len(p) : d[i] = f[i] BY <2>7 DEF S
  <2>9. DOMAIN d = 0 .. Len(p) /\ d = [i \in 0 .. Len(p) |-> d[i]] BY <2>1
  <2> QED BY <2>8, <2>9
<1>11. c = f BY <1>8, <1>10
<1>12. LeadsThrough(p, f)
  <2>1. f = [n \in 0 .. Len(p) |-> IF n = 0 THEN <<>> ELSE Walk(f[n - 1], p[n])]
    BY <1>6 DEF G
  <2>2. \A n \in 0 .. Len(p) : f[n] = IF n = 0 THEN <<>> ELSE Walk(f[n - 1], p[n])
    BY <2>1
  <2> QED BY <1>1, <2>2 DEF LeadsThrough
<1> QED BY <1>9, <1>11, <1>12

\* What is left of p when the names k - 1 and k go.
WithoutPair(p, k) == SubSeq(p, 1, k - 2) \o SubSeq(p, k + 1, Len(p))

LEMMA WithoutIs ==
  ASSUME NEW N, NEW p \in Seq(N), NEW k \in 2 .. Len(p)
  PROVE  /\ WithoutPair(p, k) \in Seq(N)
         /\ Len(WithoutPair(p, k)) = Len(p) - 2
         /\ \A i \in 1 .. k - 2 : WithoutPair(p, k)[i] = p[i]
         /\ \A i \in k - 1 .. Len(p) - 2 : WithoutPair(p, k)[i] = p[i + 2]
<1>1. Len(p) \in Nat OBVIOUS
<1>2. PICK a : a = SubSeq(p, 1, k - 2) OBVIOUS
<1>3. PICK b : b = SubSeq(p, k + 1, Len(p)) OBVIOUS
<1>4. a \in Seq(N) /\ Len(a) = k - 2 /\ \A i \in 1 .. k - 2 : a[i] = p[i]
  BY <1>1, <1>2
<1>5. b \in Seq(N) /\ Len(b) = Len(p) - k /\ \A i \in 1 .. Len(p) - k : b[i] = p[k + i]
  BY <1>1, <1>3
<1>6. WithoutPair(p, k) = a \o b BY <1>2, <1>3 DEF WithoutPair
<1>7. /\ a \o b \in Seq(N) /\ Len(a \o b) = Len(a) + Len(b)
      /\ \A i \in 1 .. Len(a) + Len(b) :
           (a \o b)[i] = IF i <= Len(a) THEN a[i] ELSE b[i - Len(a)]
  <2>1. \A x, y \in Seq(N) :
          /\ x \o y \in Seq(N) /\ Len(x \o y) = Len(x) + Len(y)
          /\ \A i \in 1 .. Len(x) + Len(y) :
               (x \o y)[i] = IF i <= Len(x) THEN x[i] ELSE y[i - Len(x)]
    OBVIOUS
  <2> QED BY <1>4, <1>5, <2>1
<1>8. PICK q : q = a \o b OBVIOUS
<1>9. ASSUME NEW i \in 1 .. k - 2 PROVE q[i] = p[i]
  BY <1>1, <1>4, <1>5, <1>7, <1>8
<1>10. ASSUME NEW i \in k - 1 .. Len(p) - 2 PROVE q[i] = p[i + 2]
  <2>1. /\ i \in 1 .. Len(a) + Len(b) /\ ~ (i <= Len(a)) /\ i - Len(a) = i - k + 2
        /\ i - k + 2 \in 1 .. Len(p) - k /\ k + (i - k + 2) = i + 2
    BY <1>1, <1>4, <1>5
  <2>2. q[i] = b[i - k + 2] BY <1>7, <1>8, <2>1
  <2>3. b[i - k + 2] = p[k + (i - k + 2)] BY <1>5, <2>1
  <2> QED BY <2>1, <2>2, <2>3
<1>11. q \in Seq(N) /\ Len(q) = Len(p) - 2 BY <1>1, <1>4, <1>5, <1>7, <1>8
<1> QED BY <1>6, <1>8, <1>9, <1>10, <1>11

\* A name and the ".." behind it lead nowhere, and nor do two ".." at the start.
LEMMA DotsLeadBack ==
  ASSUME NEW N, NEW p \in Seq(N), NEW k \in 2 .. Len(p), p[k] = "..", p[k - 1] # ".",
         p[k - 1] = ".." => k = 2
  PROVE  Meaning(WithoutPair(p, k)) = Meaning(p)
<1>1. PICK q : q = WithoutPair(p, k) OBVIOUS
<1>2. Len(p) \in Nat /\ \A i \in 1 .. Len(p) : p[i] \in N OBVIOUS
<1>3. /\ q \in Seq(N) /\ Len(q) = Len(p) - 2
      /\ \A i \in 1 .. k - 2 : q[i] = p[i]
      /\ \A i \in k - 1 .. Len(p) - 2 : q[i] = p[i + 2]
  BY <1>1, WithoutIs
<1>4. PICK d \in [0 .. Len(p) -> Seq(N)] : LeadsThrough(p, d) /\ Meaning(p) = d[Len(p)]
  BY MeaningIs
<1>5. PICK e \in [0 .. Len(q) -> Seq(N)] : LeadsThrough(q, e) /\ Meaning(q) = e[Len(q)]
  BY <1>3, MeaningIs
<1>6. d[0] = <<>> /\ \A n \in 1 .. Len(p) : d[n] = Walk(d[n - 1], p[n])
  BY <1>4 DEF LeadsThrough
<1>7. e[0] = <<>> /\ \A n \in 1 .. Len(p) - 2 : e[n] = Walk(e[n - 1], q[n])
  BY <1>3, <1>5 DEF LeadsThrough
<1>8. e[k - 2] = d[k - 2]
  <2> DEFINE S == {i \in 0 .. k - 2 : e[i] = d[i]}
  <2>1. 0 \in S BY <1>6, <1>7
  <2>2. \A i \in 0 .. (k - 2) - 1 : i \in S => i + 1 \in S
    <3> SUFFICES ASSUME NEW i \in 0 .. (k - 2) - 1, e[i] = d[i] PROVE i + 1 \in S OBVIOUS
    <3>1. /\ i + 1 \in 1 .. k - 2 /\ i + 1 \in 0 .. k - 2 /\ i + 1 \in 1 .. Len(p)
          /\ i + 1 \in 1 .. Len(p) - 2 /\ (i + 1) - 1 = i
      BY <1>2
    <3>2. q[i + 1] = p[i + 1] BY <1>3, <3>1
    <3>3. d[i + 1] = Walk(d[i], p[i + 1]) BY <1>6, <3>1
    <3>4. e[i + 1] = Walk(e[i], q[i + 1]) BY <1>7, <3>1
    <3>5. e[i + 1] = d[i + 1] BY <3>2, <3>3, <3>4
    <3> QED BY <3>1, <3>5
  <2> HIDE DEF S
  <2>3. k - 2 \in Nat BY <1>2
  <2>4. \A i \in 0 .. k - 2 : i \in S BY <2>1, <2>2, <2>3, BoundedInduction
  <2>5. k - 2 \in 0 .. k - 2 BY <2>3
  <2>6. k - 2 \in S BY <2>4, <2>5
  <2> QED BY <2>6 DEF S
<1>9. d[k] = d[k - 2]
  <2>1. k - 1 \in 1 .. Len(p) /\ k \in 1 .. Len(p) /\ (k - 1) - 1 = k - 2
    BY <1>2
  <2>2. d[k - 1] = Walk(d[k - 2], p[k - 1]) BY <1>6, <2>1
  <2>3. d[k] = Walk(d[k - 1], "..") BY <1>6, <2>1
  <2>4. CASE p[k - 1] = ".."
    <3>1. k = 2 BY <2>4
    <3>2. d[k - 2] = <<>> BY <1>6, <3>1
    <3>3. d[k - 1] = <<>> BY <2>2, <2>4, <3>2 DEF Walk
    <3>4. d[k] = <<>> BY <2>3, <3>3 DEF Walk
    <3> QED BY <3>2, <3>4
  <2>5. CASE p[k - 1] # ".."
    <3>1. PICK s : s = d[k - 2] OBVIOUS
    <3>2. s \in Seq(N) BY <3>1, <1>2
    <3>3. PICK n : n = p[k - 1] OBVIOUS
    <3>4. n \in N /\ n # "." /\ n # ".." BY <1>2, <2>1, <2>5, <3>3
    <3>5. d[k - 1] = Append(s, n) BY <2>2, <3>1, <3>3, <3>4 DEF Walk
    <3>6. Append(s, n) # <<>> /\ Front(Append(s, n)) = s
      <4>1. PICK u : u = Append(s, n) OBVIOUS
      <4>2. u \in Seq(N) /\ Len(u) = Len(s) + 1 /\ \A i \in 1 .. Len(s) : u[i] = s[i]
        BY <3>2, <3>4, <4>1
      <4>3. u # <<>> BY <3>2, <4>2
      <4>4. Front(u) = SubSeq(u, 1, Len(u) - 1) BY DEF Front
      <4>5. PICK v : v = SubSeq(u, 1, Len(u) - 1) OBVIOUS
      <4>6. v \in Seq(N) /\ Len(v) = Len(s) /\ \A i \in 1 .. Len(s) : v[i] = u[i]
        BY <3>2, <4>2, <4>5
      <4>7. v = s BY <3>2, <4>2, <4>6, SeqEqual
      <4> QED BY <4>1, <4>3, <4>4, <4>5, <4>7
    <3>7. d[k] = s BY <2>3, <3>5, <3>6 DEF Walk
    <3> QED BY <3>1, <3>7
  <2> QED BY <2>4, <2>5
<1>10. e[Len(p) - 2] = d[Len(p)]
  <2> DEFINE S == {i \in 0 .. Len(p) - k : e[k - 2 + i] = d[k + i]}
  <2>1. 0 \in S BY <1>2, <1>8, <1>9
  <2>2. \A i \in 0 .. (Len(p) - k) - 1 : i \in S => i + 1 \in S
    <3> SUFFICES ASSUME NEW i \in 0 .. (Len(p) - k) - 1, e[k - 2 + i] = d[k + i]
                 PROVE  i + 1 \in S
      OBVIOUS
    <3>1. PICK m : m = k - 2 + i OBVIOUS
    <3>2. /\ m \in Int /\ k - 2 + (i + 1) = m + 1 /\ k + (i + 1) = m + 3 /\ k + i = m + 2
          /\ m + 3 \in 1 .. Len(p) /\ m + 1 \in 1 .. Len(p) - 2
          /\ m + 1 \in k - 1 .. Len(p) - 2 /\ (m + 1) - 1 = m /\ (m + 3) - 1 = m + 2
          /\ (m + 1) + 2 = m + 3 /\ i + 1 \in 0 .. Len(p) - k
      BY <1>2, <3>1
    <3>3. q[m + 1] = p[m + 3] BY <1>3, <3>2
    <3>4. d[m + 3] = Walk(d[m + 2], p[m + 3]) BY <1>6, <3>2
    <3>5. e[m + 1] = Walk(e[m], q[m + 1]) BY <1>7, <3>2
    <3>6. e[m] = d[m + 2] BY <3>1, <3>2
    <3>7. e[m + 1] = d[m + 3] BY <3>3, <3>4, <3>5, <3>6
    <3> QED BY <3>2, <3>7
  <2> HIDE DEF S
  <2>3. Len(p) - k \in Nat BY <1>2
  <2>4. \A i \in 0 .. Len(p) - k : i \in S BY <2>1, <2>2, <2>3, BoundedInduction
  <2>5. Len(p) - k \in 0 .. Len(p) - k BY <2>3
  <2>6. Len(p) - k \in S BY <2>4, <2>5
  <2>7. k - 2 + (Len(p) - k) = Len(p) - 2 /\ k + (Len(p) - k) = Len(p) BY <1>2
  <2> QED BY <2>6, <2>7 DEF S
<1> QED BY <1>1, <1>3, <1>4, <1>5, <1>10

-----------------------------------------------------------------------------

\* A round keeps what a plain path means, and keeps it plain.
LEMMA ShortenSound ==
  ASSUME NEW N, NEW p \in Seq(N), Plain(p)
  PROVE  Shorten(p) \in Seq(N) /\ Plain(Shorten(p)) /\ Meaning(Shorten(p)) = Meaning(p)
<1>1. PICK at : at = {k \in DOMAIN p : Bites(p, k)} OBVIOUS
<1>2. Len(p) \in Nat /\ DOMAIN p = 1 .. Len(p) OBVIOUS
<1>3. \A k \in at : k \in 1 .. Len(p) /\ k > 1 /\ p[k] = ".."
  <2> SUFFICES ASSUME NEW k \in at PROVE k \in 1 .. Len(p) /\ k > 1 /\ p[k] = ".." OBVIOUS
  <2>1. k \in 1 .. Len(p) /\ p[k] \in DOMAIN AfterDots /\ (k > 1 \/ p[k] \notin Leading)
    BY <1>1, <1>2 DEF Bites
  <2>2. p[k] = ".." BY <1>2, <2>1 DEF Plain
  <2> QED BY <2>1, <2>2, PathsAssumption
<1>4. CASE at = {}
  <2>1. Shorten(p) = p BY <1>1, <1>4 DEF Shorten
  <2> QED BY <2>1
<1>5. CASE at # {}
  <2>1. at \subseteq Nat BY <1>2, <1>3
  <2>2. PICK x \in at : \A y \in at : x <= y BY <1>5, <2>1, HasLeast
  <2>4. PICK k : k = CHOOSE i \in at : \A j \in at : i <= j OBVIOUS
  <2>5. k \in at /\ \A j \in at : k <= j BY <2>2, <2>4
  <2>6. k \in 2 .. Len(p) /\ p[k] = ".." /\ k - 1 \in 1 .. Len(p) /\ k - 2 \in Nat
    BY <1>2, <1>3, <2>5
  <2>7. Shorten(p) = Drop(p, k) BY <1>1, <1>5, <2>4 DEF Shorten
  <2>8. Drop(p, k) = (SubSeq(p, 1, k - 2) \o <<>>) \o SubSeq(p, k + 1, Len(p))
    <3>1. Rest("..") = <<>> BY PathsAssumption DEF Rest
    <3>2. (k - 1) - 1 = k - 2 BY <2>6
    <3>3. Cut(p, k - 1) = SubSeq(p, 1, k - 2) BY <3>2 DEF Cut
    <3> QED BY <2>6, <3>1, <3>3, PathsAssumption DEF Drop, After
  <2>9. SubSeq(p, 1, k - 2) \o <<>> = SubSeq(p, 1, k - 2)
    <3>1. SubSeq(p, 1, k - 2) \in Seq(N) BY <1>2, <2>6
    <3> QED BY <3>1
  <2>10. PICK q : q = WithoutPair(p, k) OBVIOUS
  <2>11. Shorten(p) = q BY <2>7, <2>8, <2>9, <2>10 DEF WithoutPair
  <2>12. /\ q \in Seq(N) /\ Len(q) = Len(p) - 2
         /\ \A i \in 1 .. k - 2 : q[i] = p[i]
         /\ \A i \in k - 1 .. Len(p) - 2 : q[i] = p[i + 2]
    BY <2>6, <2>10, WithoutIs
  <2>13. ASSUME NEW i \in DOMAIN q PROVE \E j \in DOMAIN p : q[i] = p[j]
    <3>1. i \in 1 .. Len(p) - 2 BY <2>12, <2>13
    <3>2. CASE i <= k - 2
      <4>1. i \in 1 .. k - 2 /\ i \in DOMAIN p BY <1>2, <2>6, <3>1, <3>2
      <4> QED BY <2>12, <4>1
    <3>3. CASE i > k - 2
      <4>1. i \in k - 1 .. Len(p) - 2 /\ i + 2 \in DOMAIN p BY <1>2, <2>6, <3>1, <3>3
      <4> QED BY <2>12, <4>1
    <3> QED BY <2>6, <3>1, <3>2, <3>3
  <2>14. Plain(q) BY <2>13 DEF Plain
  <2>15. p[k - 1] # "." BY <1>2, <2>6 DEF Plain
  <2>16. p[k - 1] = ".." => k = 2
    <3> SUFFICES ASSUME p[k - 1] = "..", k # 2 PROVE FALSE OBVIOUS
    <3>1. k - 1 > 1 /\ k - 1 \in DOMAIN p /\ ~ (k <= k - 1) BY <1>2, <2>6
    <3>2. p[k - 1] \in DOMAIN AfterDots BY PathsAssumption
    <3>3. k - 1 \in at BY <1>1, <3>1, <3>2 DEF Bites
    <3> QED BY <2>5, <3>1, <3>3
  <2>17. Meaning(q) = Meaning(p) BY <2>6, <2>10, <2>15, <2>16, DotsLeadBack
  <2> QED BY <2>11, <2>12, <2>14, <2>17
<1> QED BY <1>4, <1>5

\* What prvProcessRelativePaths makes of a path with names and ".." only, or with names
\* and "." only, of any length, leads where the path led.
LEMMA ProcessedNamesItself ==
  ASSUME NEW N, NEW p \in Seq(N), Plain(p) PROVE NamesItself(p)
<1> DEFINE G(d) == d = [n \in 0 .. Len(p) |-> IF n = 0 THEN p ELSE Shorten(d[n - 1])]
<1> DEFINE A == {q \in Seq(N) : Plain(q)}
<1> DEFINE step == [x \in (1 .. Len(p)) \X A |-> Shorten(x[2])]
<1>1. Len(p) \in Nat /\ p \in A OBVIOUS
<1>2. \A q \in A : Shorten(q) \in A BY ShortenSound
<1>3. step \in [(1 .. Len(p)) \X A -> A]
  <2>1. ASSUME NEW x \in (1 .. Len(p)) \X A PROVE Shorten(x[2]) \in A
    <3>1. x[2] \in A OBVIOUS
    <3> QED BY <1>2, <3>1
  <2> QED BY <2>1
<1>4. \A i \in 1 .. Len(p) : \A q \in A : step[<<i, q>>] = Shorten(q) OBVIOUS
<1> HIDE DEF step
<1>5. PICK f \in [0 .. Len(p) -> A] : Iterates(f, Len(p), p, step)
  <2> HIDE DEF A
  <2>1. \A st \in [(1 .. Len(p)) \X A -> A] :
          \E f \in [0 .. Len(p) -> A] : Iterates(f, Len(p), p, st)
    BY <1>1, IterationExists
  <2> QED BY <1>3, <2>1
<1>6. \A i \in 0 .. Len(p) : i # 0 => i \in 1 .. Len(p) /\ f[i - 1] \in A
  <2> HIDE DEF A
  <2> QED BY <1>1
<1>7. G(f)
  <2> HIDE DEF A
  <2>1. f = [i \in 0 .. Len(p) |-> IF i = 0 THEN p ELSE step[<<i, f[i - 1]>>]]
    BY <1>5 DEF Iterates
  <2>2. \A i \in 0 .. Len(p) : (IF i = 0 THEN p ELSE step[<<i, f[i - 1]>>])
                             = (IF i = 0 THEN p ELSE Shorten(f[i - 1]))
    BY <1>4, <1>6
  <2>3. f = [i \in 0 .. Len(p) |-> f[i]] OBVIOUS
  <2>4. \A i \in 0 .. Len(p) : f[i] = IF i = 0 THEN p ELSE Shorten(f[i - 1])
    BY <2>1, <2>2
  <2> QED BY <2>3, <2>4
<1>8. PICK c : c = CHOOSE d : G(d) OBVIOUS
<1>9. G(c) BY <1>7, <1>8
<1>10. Processed(p) = c[Len(p)] BY <1>8 DEF Processed
<1>11. \A n \in 0 .. Len(p) : c[n] = IF n = 0 THEN p ELSE Shorten(c[n - 1])
  <2>1. c = [n \in 0 .. Len(p) |-> IF n = 0 THEN p ELSE Shorten(c[n - 1])] BY <1>9
  <2> QED BY <2>1
<1> DEFINE S == {n \in 0 .. Len(p) : c[n] \in A /\ Meaning(c[n]) = Meaning(p)}
<1>12. 0 \in S BY <1>1, <1>11
<1>13. \A i \in 0 .. Len(p) - 1 : i \in S => i + 1 \in S
  <2> SUFFICES ASSUME NEW i \in 0 .. Len(p) - 1, c[i] \in A, Meaning(c[i]) = Meaning(p)
               PROVE  i + 1 \in S
    OBVIOUS
  <2>1. i + 1 \in 0 .. Len(p) /\ i + 1 # 0 /\ (i + 1) - 1 = i BY <1>1
  <2>2. c[i + 1] = Shorten(c[i]) BY <1>11, <2>1
  <2>3. PICK q : q = c[i] OBVIOUS
  <2>4. q \in Seq(N) /\ Plain(q) BY <2>3
  <2>5. Shorten(q) \in A /\ Meaning(Shorten(q)) = Meaning(q) BY <2>4, ShortenSound
  <2> QED BY <2>1, <2>2, <2>3, <2>5
<1> HIDE DEF S, G, A
<1>14. \A i \in 0 .. Len(p) : i \in S BY <1>1, <1>12, <1>13, BoundedInduction
<1>15. Len(p) \in S BY <1>1, <1>14
<1>16. Meaning(c[Len(p)]) = Meaning(p) BY <1>15 DEF S
<1> QED BY <1>10, <1>16 DEF NamesItself

\* Taking ".." out of a path together with the name before it does not make the path lead
\* elsewhere: paths of any length, of any names, and as many ".." as there may be.
THEOREM DotsAreTakenRightly == Spec => []PathsAreResolved
<1>1. PathsAreResolved
  <2> SUFFICES ASSUME NEW n \in 0 .. MaxNames, NEW p \in [1 .. n -> Names], Plain(p)
               PROVE  NamesItself(p)
    BY DEF PathsAreResolved
  <2>1. p \in Seq(Names) BY MountsAssumption
  <2> QED BY <2>1, ProcessedNamesItself
<1> QED BY <1>1, PTL
=============================================================================
