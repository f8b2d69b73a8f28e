--------------------------- MODULE FFLockingProofs ---------------------------
(***************************************************************************)
(* Proofs about FFLocking: two bits that are waited for, tested and        *)
(* cleared are two locks with one owner each, for any number of tasks.     *)
(***************************************************************************)
EXTENDS FFLocking, TLAPS

\* A task waits for at most one lock, one it has not, and tests only what it asks for.
AsksAreSound ==
  \A t \in Tasks : /\ Single(asks[t]) /\ asks[t] \cap has[t] = {}
                   /\ tests[t] => asks[t] # {}

\* The inductive invariant.
LockInv == LockTypeOK /\ Exclusive /\ HandleIsHolder /\ AsksAreSound

-----------------------------------------------------------------------------
(* The holder of a lock.                                                    *)

LEMMA HeldHasHolder ==
  ASSUME Exclusive, NEW t \in Tasks, NEW k \in has[t]
  PROVE  Holder(k) = t
BY DEF Exclusive, Holder

LEMMA FreeHasNoHolder ==
  ASSUME NEW k, \A t \in Tasks : k \notin has[t]
  PROVE  Holder(k) = Nobody
BY DEF Holder

\* Nobody has a lock whose bit is set.
LEMMA SetBitIsFree ==
  ASSUME Exclusive, NEW k \in bits
  PROVE  \A t \in Tasks : k \notin has[t]
BY DEF Exclusive

\* Who holds a lock is determined by `has' alone.
LEMMA HolderIsStable ==
  ASSUME NEW k, Exclusive, Exclusive',
         \A t \in Tasks : k \in has[t] <=> k \in has'[t]
  PROVE  Holder(k)' = Holder(k)
<1>1. CASE \E t \in Tasks : k \in has[t]
  <2>1. PICK t \in Tasks : k \in has[t] BY <1>1
  <2>2. Holder(k) = t BY <2>1, HeldHasHolder
  <2>3. k \in has'[t] BY <2>1
  <2>4. Holder(k)' = t BY <2>3 DEF Exclusive, Holder
  <2> QED BY <2>2, <2>4
<1>2. CASE \A t \in Tasks : k \notin has[t] BY <1>2 DEF Holder
<1> QED BY <1>1, <1>2

-----------------------------------------------------------------------------
LEMMA LockInitInv == LockInit => LockInv
<1> SUFFICES ASSUME LockInit PROVE LockInv OBVIOUS
<1>1. LockTypeOK BY DEF LockInit, LockTypeOK
<1>2. Exclusive BY DEF LockInit, Exclusive
<1>3. HandleIsHolder BY NobodyIsNoTask DEF LockInit, HandleIsHolder
<1>4. AsksAreSound BY DEF LockInit, AsksAreSound, Single
<1> QED BY <1>1, <1>2, <1>3, <1>4 DEF LockInv

LEMMA TurnInv ==
  ASSUME LockInv, NEW t \in Tasks, NEW under \in SUBSET Locks, Turn(t, under)
  PROVE  LockInv'
<1> USE DEF LockInv
<1>1. LockTypeOK' BY DEF LockTypeOK, Turn
<1>2. \A u \in Tasks : has'[u] = IF u = t THEN has[t] \cap under ELSE has[u]
  BY DEF LockTypeOK, Turn
<1>3. \A u \in Tasks : asks'[u] = IF u = t THEN under \ has[t] ELSE asks[u]
  BY DEF LockTypeOK, Turn
<1>4. Exclusive'
  <2> SUFFICES ASSUME NEW u \in Tasks, NEW k \in has'[u]
               PROVE  k \notin bits' /\ \A v \in Tasks \ {u} : k \notin has'[v]
    BY DEF Exclusive
  <2>1. k \in has[u] BY <1>2
  <2>2. k \notin bits /\ \A v \in Tasks \ {u} : k \notin has[v] BY <2>1 DEF Exclusive
  <2>3. k \notin has[t] \ under BY <2>2, <1>2
  <2>4. k \notin bits' BY <2>2, <2>3 DEF Turn
  <2> QED BY <2>2, <2>4, <1>2
<1>5. HandleIsHolder'
  <2> SUFFICES ASSUME NEW u \in Tasks PROVE handle' = u <=> "FAT" \in has'[u]
    BY DEF HandleIsHolder
  <2>1. handle = u <=> "FAT" \in has[u] BY DEF HandleIsHolder
  <2>2. CASE "FAT" \in has[t] \ under
    <3>1. handle' = Nobody BY <2>2 DEF Turn
    <3>2. "FAT" \notin has'[u] BY <2>2, <1>2 DEF Exclusive
    <3> QED BY <3>1, <3>2, NobodyIsNoTask
  <2>3. CASE "FAT" \notin has[t] \ under
    <3>1. handle' = handle BY <2>3 DEF Turn
    <3>2. "FAT" \in has'[u] <=> "FAT" \in has[u] BY <2>3, <1>2
    <3> QED BY <2>1, <3>1, <3>2
  <2> QED BY <2>2, <2>3
<1>6. AsksAreSound'
  <2> SUFFICES ASSUME NEW u \in Tasks
               PROVE  /\ Single(asks'[u]) /\ asks'[u] \cap has'[u] = {}
                      /\ tests'[u] => asks'[u] # {}
    BY DEF AsksAreSound, Single
  <2>1. tests' = tests /\ asks[t] = {} /\ Single(under \ has[t]) BY DEF Turn
  <2>2. ~ tests[t] BY <2>1 DEF AsksAreSound
  <2>3. CASE u = t BY <2>1, <2>2, <2>3, <1>2, <1>3
  <2>4. CASE u # t BY <2>1, <2>4, <1>2, <1>3 DEF AsksAreSound
  <2> QED BY <2>3, <2>4
<1> QED BY <1>1, <1>4, <1>5, <1>6

LEMMA WaitBitsInv ==
  ASSUME LockInv, NEW t \in Tasks, WaitBits(t)
  PROVE  LockInv'
<1> USE DEF LockInv, WaitBits
<1>1. LockTypeOK' BY DEF LockTypeOK
<1>2. Exclusive' /\ HandleIsHolder' BY DEF Exclusive, HandleIsHolder
<1>3. AsksAreSound' BY DEF LockTypeOK, AsksAreSound
<1> QED BY <1>1, <1>2, <1>3

LEMMA ClearBitsInv ==
  ASSUME LockInv, NEW t \in Tasks, ClearBits(t)
  PROVE  LockInv'
<1> USE DEF LockInv
<1>1. LockTypeOK' BY DEF LockTypeOK, ClearBits
<1>2. \A u \in Tasks : tests'[u] = (u # t /\ tests[u]) BY DEF LockTypeOK, ClearBits
<1>3. CASE Won(t)
  <2>1. \A u \in Tasks : has'[u] = IF u = t THEN has[t] \cup asks[t] ELSE has[u]
    BY <1>3 DEF LockTypeOK, ClearBits
  <2>2. \A u \in Tasks : asks'[u] = IF u = t THEN {} ELSE asks[u]
    BY <1>3 DEF LockTypeOK, ClearBits
  <2>3. bits' = bits \ asks[t] /\ asks[t] \subseteq bits BY <1>3 DEF ClearBits, Won
  <2>4. Exclusive'
    <3> SUFFICES ASSUME NEW u \in Tasks, NEW k \in has'[u]
                 PROVE  k \notin bits' /\ \A v \in Tasks \ {u} : k \notin has'[v]
      BY DEF Exclusive
    <3>1. CASE k \in asks[t]
      <4>1. \A v \in Tasks : k \notin has[v] BY <3>1, <2>3 DEF Exclusive
      <4> QED BY <3>1, <4>1, <2>1, <2>3
    <3>2. CASE k \notin asks[t]
      <4>1. k \in has[u] BY <3>2, <2>1
      <4> QED BY <4>1, <3>2, <2>1, <2>3 DEF Exclusive
    <3> QED BY <3>1, <3>2
  <2>5. HandleIsHolder'
    <3> SUFFICES ASSUME NEW u \in Tasks PROVE handle' = u <=> "FAT" \in has'[u]
      BY DEF HandleIsHolder
    <3>1. CASE "FAT" \in asks[t]
      <4>1. handle' = t BY <1>3, <3>1 DEF ClearBits
      <4>2. "FAT" \notin has[u] BY <3>1, <2>3 DEF Exclusive
      <4> QED BY <4>1, <4>2, <3>1, <2>1
    <3>2. CASE "FAT" \notin asks[t]
      <4>1. handle' = handle BY <1>3, <3>2 DEF ClearBits
      <4> QED BY <4>1, <3>2, <2>1 DEF HandleIsHolder
    <3> QED BY <3>1, <3>2
  <2>6. AsksAreSound' BY <1>2, <2>1, <2>2 DEF AsksAreSound, Single
  <2> QED BY <1>1, <2>4, <2>5, <2>6
<1>4. CASE ~ Won(t)
  <2>1. UNCHANGED <<has, asks, handle>> BY <1>4 DEF ClearBits
  <2>2. bits' \subseteq bits BY DEF ClearBits
  <2>3. Exclusive' BY <2>1, <2>2 DEF Exclusive
  <2>4. HandleIsHolder' BY <2>1 DEF HandleIsHolder
  <2>5. AsksAreSound' BY <1>2, <2>1 DEF AsksAreSound, Single
  <2> QED BY <1>1, <2>3, <2>4, <2>5
<1> QED BY <1>3, <1>4

LEMMA LockNextInv == LockInv /\ [LockNext]_lockVars => LockInv'
<1> SUFFICES ASSUME LockInv, [LockNext]_lockVars PROVE LockInv' OBVIOUS
<1>1. ASSUME NEW t \in Tasks, NEW under \in SUBSET Locks, Turn(t, under) PROVE LockInv'
  BY <1>1, TurnInv
<1>2. ASSUME NEW t \in Tasks, WaitBits(t) PROVE LockInv' BY <1>2, WaitBitsInv
<1>3. ASSUME NEW t \in Tasks, ClearBits(t) PROVE LockInv' BY <1>3, ClearBitsInv
<1>4. CASE UNCHANGED lockVars
  BY <1>4 DEF lockVars, LockInv, LockTypeOK, Exclusive, HandleIsHolder, AsksAreSound, Single
<1> QED BY <1>1, <1>2, <1>3, <1>4 DEF LockNext

LEMMA LockInvariance == LockSpec => []LockInv
BY LockInitInv, LockNextInv, PTL DEF LockSpec

\* The variables of the locks keep their types.
THEOREM LockTypeCorrect == LockSpec => []LockTypeOK
<1>1. LockInv => LockTypeOK BY DEF LockInv
<1> QED BY <1>1, LockInvariance, PTL

\* A lock has one holder, and its bit is clear as long: what FF_UnlockFAT and
\* FF_UnlockDirectory assert.
THEOREM LocksAreExclusive == LockSpec => []Exclusive
<1>1. LockInv => Exclusive BY DEF LockInv
<1> QED BY <1>1, LockInvariance, PTL

\* pvFATLockHandle says who has the FAT lock, so FF_Has_Lock and the assertion in
\* FF_LockFAT answer for the calling task whatever the others do.
THEOREM HandleNamesTheHolder == LockSpec => []HandleIsHolder
<1>1. LockInv => HandleIsHolder BY DEF LockInv
<1> QED BY <1>1, LockInvariance, PTL

-----------------------------------------------------------------------------
(* The refinement.                                                          *)

LEMMA InitIsMutexInit == LockInit => Mutex!Init
BY FreeHasNoHolder DEF LockInit, Mutex!Init

\* Holders change in one place at most.
LEMMA HoldersExcept ==
  ASSUME NEW k \in Locks, NEW w, Holder(k)' = w,
         \A m \in Locks \ {k} : Holder(m)' = Holder(m)
  PROVE  [m \in Locks |-> Holder(m)]' = [[m \in Locks |-> Holder(m)] EXCEPT ![k] = w]
OBVIOUS

LEMMA TurnReleases ==
  ASSUME LockInv, LockInv', NEW t \in Tasks, NEW under \in SUBSET Locks, Turn(t, under)
  PROVE  [Mutex!Next]_([k \in Locks |-> Holder(k)])
<1> USE DEF LockInv
<1>1. \A u \in Tasks : has'[u] = IF u = t THEN has[t] \cap under ELSE has[u]
  BY DEF LockTypeOK, Turn
<1>2. CASE has[t] \ under = {}
  <2>1. \A u \in Tasks : has'[u] = has[u] BY <1>1, <1>2
  <2>2. \A k \in Locks : Holder(k)' = Holder(k) BY <2>1, HolderIsStable
  <2> QED BY <2>2
<1>3. ASSUME NEW k \in has[t] \ under PROVE Mutex!Next
  <2>1. k \in Locks BY <1>3 DEF LockTypeOK
  <2>2. \A m \in has[t] \ under : m = k BY <1>3 DEF Turn, Single
  <2>3. Holder(k) = t BY <1>3, HeldHasHolder
  <2>4. \A u \in Tasks : k \notin has'[u] BY <1>1, <1>3 DEF Exclusive
  <2>5. Holder(k)' = Nobody BY <2>4 DEF Holder
  <2>6. ASSUME NEW m \in Locks \ {k} PROVE Holder(m)' = Holder(m)
    <3>1. \A u \in Tasks : m \in has[u] <=> m \in has'[u] BY <1>1, <2>2, <2>6
    <3> QED BY <3>1, HolderIsStable
  <2>7. [m \in Locks |-> Holder(m)]' = [[m \in Locks |-> Holder(m)] EXCEPT ![k] = Nobody]
    BY <2>1, <2>5, <2>6, HoldersExcept
  <2>8. Mutex!Release(t, k) BY <2>1, <2>3, <2>7 DEF Mutex!Release
  <2> QED BY <2>1, <2>8 DEF Mutex!Next
<1> QED BY <1>2, <1>3

LEMMA ClearBitsAcquires ==
  ASSUME LockInv, LockInv', NEW t \in Tasks, ClearBits(t)
  PROVE  [Mutex!Next]_([k \in Locks |-> Holder(k)])
<1> USE DEF LockInv
<1>1. CASE ~ Won(t)
  <2>1. has' = has BY <1>1 DEF ClearBits
  <2> QED BY <2>1 DEF Holder
<1>2. CASE Won(t)
  <2>1. PICK k \in asks[t] : \A m \in asks[t] : m = k
    BY DEF AsksAreSound, Single, ClearBits
  <2>2. k \in Locks /\ k \in bits BY <2>1, <1>2 DEF LockTypeOK, Won
  <2>3. \A u \in Tasks : has'[u] = IF u = t THEN has[t] \cup {k} ELSE has[u]
    BY <1>2, <2>1 DEF LockTypeOK, ClearBits
  <2>4. Holder(k) = Nobody BY <2>2, SetBitIsFree, FreeHasNoHolder
  <2>5. Holder(k)' = t
    <3>1. k \in has'[t] BY <2>3
    <3> QED BY <3>1 DEF Exclusive, Holder
  <2>6. ASSUME NEW m \in Locks \ {k} PROVE Holder(m)' = Holder(m)
    <3>1. \A u \in Tasks : m \in has[u] <=> m \in has'[u] BY <2>3, <2>6
    <3> QED BY <3>1, HolderIsStable
  <2>7. [m \in Locks |-> Holder(m)]' = [[m \in Locks |-> Holder(m)] EXCEPT ![k] = t]
    BY <2>2, <2>5, <2>6, HoldersExcept
  <2>8. Mutex!Acquire(t, k) BY <2>2, <2>4, <2>7 DEF Mutex!Acquire
  <2> QED BY <2>2, <2>8 DEF Mutex!Next
<1> QED BY <1>1, <1>2

LEMMA StepIsMutexStep ==
  LockInv /\ LockInv' /\ [LockNext]_lockVars => [Mutex!Next]_([k \in Locks |-> Holder(k)])
<1> SUFFICES ASSUME LockInv, LockInv', [LockNext]_lockVars
             PROVE  [Mutex!Next]_([k \in Locks |-> Holder(k)])
  OBVIOUS
<1>1. ASSUME NEW t \in Tasks, NEW under \in SUBSET Locks, Turn(t, under)
      PROVE  [Mutex!Next]_([k \in Locks |-> Holder(k)])
  BY <1>1, TurnReleases
<1>2. ASSUME NEW t \in Tasks, ClearBits(t)
      PROVE  [Mutex!Next]_([k \in Locks |-> Holder(k)])
  BY <1>2, ClearBitsAcquires
<1>3. CASE has' = has BY <1>3 DEF Holder
<1>4. ASSUME NEW t \in Tasks, WaitBits(t) PROVE has' = has BY <1>4 DEF WaitBits
<1> QED BY <1>1, <1>2, <1>3, <1>4 DEF LockNext, lockVars

\* Bits that are waited for, tested and cleared implement locks with one owner: a lock
\* is taken only while it is free, and given back only by who has it.
THEOREM BitsImplementMutexes == LockSpec => LocksAreMutexes
BY LockInvariance, InitIsMutexInit, StepIsMutexStep, PTL
   DEF LockSpec, LocksAreMutexes, Mutex!Spec
=============================================================================
