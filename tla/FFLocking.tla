------------------------------ MODULE FFLocking ------------------------------
(***************************************************************************)
(* FF_LockFAT, FF_LockDirectory and their unlocks (src/ff_locking.c) over  *)
(* the bits of one event group.  A bit that is set is a lock that is free. *)
(* Waiting for a bit does not take it: the wait ends when the bit is seen  *)
(* set or after a time-out, and only then is the bit cleared; what it was  *)
(* before says whether the lock was won.  The wait is repeated otherwise.  *)
(***************************************************************************)
EXTENDS Naturals

CONSTANTS Tasks, Nobody

Locks == {"DIR", "FAT"}

VARIABLES
  bits,      \* the bits that are set
  handle,    \* pvFATLockHandle
  has,       \* the locks a task is between locking and unlocking
  asks,      \* the lock a task is waiting for, at most one
  tests      \* whether its wait is over and the bit is to be cleared

lockVars == <<bits, handle, has, asks, tests>>

ASSUME NobodyIsNoTask == Nobody \notin Tasks

LockInit ==
  /\ bits = Locks                             \* FF_CreateEvents
  /\ handle = Nobody
  /\ has = [t \in Tasks |-> {}]
  /\ asks = [t \in Tasks |-> {}]
  /\ tests = [t \in Tasks |-> FALSE]

Single(K) == \A k, m \in K : k = m

\* A task goes on to a place in the code that is under these locks: it unlocks
\* what it has besides (FF_UnlockFAT, FF_UnlockDirectory) and calls FF_LockFAT or
\* FF_LockDirectory for what it lacks.
Turn(t, under) ==
  /\ asks[t] = {}
  /\ Single(has[t] \ under) /\ Single(under \ has[t])
  /\ bits' = bits \cup (has[t] \ under)
  /\ handle' = IF "FAT" \in has[t] \ under THEN Nobody ELSE handle
  /\ has' = [has EXCEPT ![t] = @ \cap under]
  /\ asks' = [asks EXCEPT ![t] = under \ has[t]]
  /\ UNCHANGED tests

\* xEventGroupWaitBits returns, with the bit set or without.
WaitBits(t) ==
  /\ asks[t] # {} /\ ~ tests[t]
  /\ tests' = [tests EXCEPT ![t] = TRUE]
  /\ UNCHANGED <<bits, handle, has, asks>>

\* Mutant: the wait alone decides.
WonByWaiting(t) == TRUE

Won(t) == asks[t] \subseteq bits

\* xEventGroupClearBits returns what the bits were.
ClearBits(t) ==
  /\ tests[t]
  /\ tests' = [tests EXCEPT ![t] = FALSE]
  /\ bits' = bits \ asks[t]
  /\ IF Won(t)
     THEN /\ has' = [has EXCEPT ![t] = @ \cup asks[t]]
          /\ asks' = [asks EXCEPT ![t] = {}]
          /\ handle' = IF "FAT" \in asks[t] THEN t ELSE handle
     ELSE UNCHANGED <<has, asks, handle>>

LockNext ==
  \E t \in Tasks :
    \/ \E under \in SUBSET Locks : Turn(t, under)
    \/ WaitBits(t) \/ ClearBits(t)

LockSpec == LockInit /\ [][LockNext]_lockVars
-----------------------------------------------------------------------------
LockTypeOK ==
  /\ bits \subseteq Locks
  /\ handle \in Tasks \cup {Nobody}
  /\ has \in [Tasks -> SUBSET Locks]
  /\ asks \in [Tasks -> SUBSET Locks]
  /\ tests \in [Tasks -> BOOLEAN]

\* No lock has two holders, and the bit of a lock that somebody has is clear: the
\* assertions of FF_UnlockDirectory and FF_UnlockFAT.
Exclusive ==
  \A t \in Tasks : \A k \in has[t] :
    k \notin bits /\ \A u \in Tasks \ {t} : k \notin has[u]

\* pvFATLockHandle is who has the FAT lock, whenever FF_Has_Lock or FF_LockFAT looks.
HandleIsHolder == \A t \in Tasks : handle = t <=> "FAT" \in has[t]

Holder(k) == IF \E t \in Tasks : k \in has[t]
             THEN CHOOSE t \in Tasks : k \in has[t] ELSE Nobody

Mutex == INSTANCE FFMutex WITH holder <- [k \in Locks |-> Holder(k)]

\* Set bits that are tested and cleared, with time-outs, are locks with one owner.
LocksAreMutexes == Mutex!Spec
=============================================================================
