------------------------------ MODULE FFBuffers ------------------------------
(***************************************************************************)
(* The sector cache of the I/O manager (src/ff_ioman.c): FF_GetBuffer,     *)
(* FF_ReleaseBuffer, FF_FlushCache, FF_BlockRead, FF_BlockWrite and the    *)
(* sector-clearing part of FF_ClearCluster (src/ff_fat.c), used by several *)
(* tasks over a block device that may fail and may lose power.             *)
(*                                                                         *)
(* A client is one FF_Buffer_t pointer of one task: it is idle, it is      *)
(* inside FF_GetBuffer, or it holds a buffer.  A task that holds two       *)
(* buffers (the two FAT copies) is two clients.                            *)
(*                                                                         *)
(* Everything FF_GetBuffer and FF_ReleaseBuffer do between FF_PendSemaphore*)
(* and FF_ReleaseSemaphore is one step; FF_FlushCache is one step per      *)
(* buffer, with `sem' held in between.  ulLRU and usPersistence only pick  *)
(* one of the unoccupied buffers as victim: here every unoccupied buffer   *)
(* may be picked.                                                          *)
(***************************************************************************)
EXTENDS Naturals, FiniteSets

CONSTANTS
  Clients,       \* FF_Buffer_t pointers held by tasks
  CacheSize,     \* usCacheSize
  Cached, Asked, \* sectors and modes asked for through FF_GetBuffer
  Direct,        \* sectors accessed with FF_BlockRead/FF_BlockWrite only
  Partition,     \* sectors inside ulBeginLBA + ulTotalSectors
  Values, Zero,  \* sector contents; Zero is a sector of zero bytes
  WriteThrough,  \* ffconfigCACHE_WRITE_THROUGH
  DriverFails,   \* whether the block driver may return an error
  Reentrant,     \* FF_IOMAN_BLOCK_DEVICE_IS_REENTRANT
  LoopCount,     \* FF_GETBUFFER_WAIT_TIME_MS: the start value of xLoopCount
  Nobody, NoBuffer

Sectors == Cached \cup Direct
Buffers == 1 .. CacheSize
Modes == {"READ", "WRITE", "WR_ONLY"}

ASSUME CacheAssumption ==
  /\ IsFiniteSet(Clients)
  /\ CacheSize \in Nat \ {0, 1}   \* FF_ERR_IOMAN_BAD_MEMSIZE otherwise
  /\ Sectors \subseteq Nat
  /\ 0 \in Sectors
  /\ Asked \subseteq Modes
  /\ Zero \in Values
  /\ LoopCount \in Nat \ {0}
  /\ WriteThrough \in BOOLEAN
  /\ DriverFails \in BOOLEAN
  /\ Reentrant \in BOOLEAN
  /\ Nobody \notin Clients
  /\ NoBuffer \notin Buffers

VARIABLES
  buf,       \* pxBuffers: the buffer descriptors and their memory
  disk,      \* the sectors of the block device
  pc,        \* where each client is
  req,       \* the arguments ulSector and ucMode of its FF_GetBuffer
  held,      \* the buffer it was given
  tries,     \* its xLoopCount
  sem,       \* owner of pvSemaphore between two steps: a flushing client
  next,      \* xIndex of the FF_FlushCache that owns the semaphore
  bufBit,    \* FF_BUF_LOCK bit of the event group
  suspect    \* history: sectors a driver error may have cost their data

vars == <<buf, disk, pc, req, held, tries, sem, next, bufBit, suspect>>
clientVars == <<pc, req, held, tries>>

-----------------------------------------------------------------------------
\* ucMode & FF_MODE_RD_WR, the part of the mode a buffer keeps.
RdWr(m) == IF m = "READ" THEN "READ" ELSE "WRITE"

NoRequest == [sector |-> 0, mode |-> "READ"]

\* A descriptor after memset; its memory is not looked at until it is valid.
EmptyBuffer ==
  [sector |-> 0, mode |-> "NONE", modified |-> FALSE, valid |-> FALSE,
   handles |-> 0, data |-> Zero]

Using(c) == pc[c] \in {"have", "cleared"}

Holders(b) == {c \in Clients : held[c] = b}

Match(s) == {b \in Buffers : buf[b].valid /\ buf[b].sector = s}

FirstMatch(b, s) == b \in Match(s) /\ \A a \in Match(s) : b <= a

\* What the next FF_GetBuffer of sector s would find in it.
Content(s) ==
  IF Match(s) = {} THEN disk[s]
  ELSE buf[CHOOSE b \in Match(s) : TRUE].data

-----------------------------------------------------------------------------
(* FF_BlockRead and FF_BlockWrite of one sector: in bounds they call the    *)
(* driver, which may fail; out of bounds they fail without calling it.      *)

CanTransfer(s) == s \in Partition

\* A caller that does not own the semaphore takes it around the driver call,
\* unless the device is reentrant.
DriverIsFree == Reentrant \/ sem = Nobody

WriteFails(s, v) ==
  \/ s \notin Partition /\ UNCHANGED disk
  \/ /\ s \in Partition /\ DriverFails
     /\ disk' \in {disk, [disk EXCEPT ![s] = v]}

\* A driver that fails half-way leaves anything in the caller's memory.
ReadFails(s, b) ==
  \/ s \notin Partition /\ UNCHANGED <<buf, suspect>>
  \/ /\ s \in Partition /\ DriverFails
     /\ \E v \in Values : buf' = [buf EXCEPT ![b].data = v]
     /\ suspect' = IF buf[b].valid THEN suspect \cup {buf[b].sector}
                   ELSE suspect

-----------------------------------------------------------------------------
(* FF_BufferProceed and FF_BufferWait: the BUF bit of the event group.      *)

Blocked == {c \in Clients : pc[c] = "blocked"}

\* xEventGroupSetBits wakes every blocked task and a waiter clears the bit.
Proceed(c) ==
  /\ pc' = [d \in Clients |-> IF d = c THEN "idle"
                              ELSE IF d \in Blocked THEN "get" ELSE pc[d]]
  /\ bufBit' = (Blocked = {})

BufferWait(c) ==
  /\ pc[c] = "sleep"
  /\ pc' = [pc EXCEPT ![c] = IF bufBit THEN "get" ELSE "blocked"]
  /\ bufBit' = FALSE
  /\ UNCHANGED <<buf, disk, req, held, tries, sem, next, suspect>>

WaitTimeout(c) ==
  /\ pc[c] = "blocked"
  /\ pc' = [pc EXCEPT ![c] = "get"]
  /\ UNCHANGED <<buf, disk, req, held, tries, sem, next, bufBit, suspect>>

-----------------------------------------------------------------------------
(* FF_GetBuffer.                                                            *)

GetBuffer(c, s, m) ==
  /\ pc[c] = "idle"
  /\ pc' = [pc EXCEPT ![c] = "get"]
  /\ req' = [req EXCEPT ![c] = [sector |-> s, mode |-> m]]
  /\ tries' = [tries EXCEPT ![c] = LoopCount]
  /\ UNCHANGED <<buf, disk, held, sem, next, bufBit, suspect>>

\* Mutant: the loop does not end when xLoopCount runs out.
AttemptForEver(c) == pc[c] = "get" /\ sem = Nobody

\* One round of the while loop: xLoopCount is not used up, semaphore free.
Attempt(c) == pc[c] = "get" /\ tries[c] > 1 /\ sem = Nobody

Granted(c, b) ==
  /\ pc' = [pc EXCEPT ![c] = "have"]
  /\ held' = [held EXCEPT ![c] = b]
  /\ tries' = [tries EXCEPT ![c] = 0]
  /\ UNCHANGED <<req, sem, next, bufBit>>

ReturnNull(c) ==
  /\ pc' = [pc EXCEPT ![c] = "idle"]
  /\ req' = [req EXCEPT ![c] = NoRequest]
  /\ tries' = [tries EXCEPT ![c] = 0]
  /\ UNCHANGED <<held, sem, next, bufBit>>

\* Mutant: only the mode asked for is looked at.
SharedReadUnchecked(c, b) == req[c].mode = "READ"

SharedRead(c, b) == req[c].mode = "READ" /\ buf[b].mode = "READ"

\* Mutant: a second reader is not counted.
HitSharedUncounted(c) ==
  /\ Attempt(c)
  /\ \E b \in Buffers :
       FirstMatch(b, req[c].sector) /\ SharedRead(c, b) /\ Granted(c, b)
  /\ UNCHANGED <<buf, disk, suspect>>

\* A match in read mode is shared with another reader.
HitShared(c) ==
  /\ Attempt(c)
  /\ \E b \in Buffers :
       /\ FirstMatch(b, req[c].sector)
       /\ SharedRead(c, b)
       /\ buf' = [buf EXCEPT ![b].handles = @ + 1]
       /\ Granted(c, b)
  /\ UNCHANGED <<disk, suspect>>

\* Mutant: a buffer that is hit for writing is not marked modified.
HitFreeUnmarked(c) ==
  /\ Attempt(c)
  /\ \E b \in Buffers :
       /\ FirstMatch(b, req[c].sector)
       /\ ~SharedRead(c, b) /\ buf[b].handles = 0
       /\ buf' = [buf EXCEPT ![b].mode = RdWr(req[c].mode), ![b].handles = 1]
       /\ Granted(c, b)
  /\ UNCHANGED <<disk, suspect>>

\* Mutant: a reader clears the mark the last writer left.
HitFreeForgetful(c) ==
  /\ Attempt(c)
  /\ \E b \in Buffers :
       /\ FirstMatch(b, req[c].sector)
       /\ ~SharedRead(c, b) /\ buf[b].handles = 0
       /\ buf' = [buf EXCEPT ![b].mode = RdWr(req[c].mode),
                             ![b].modified = req[c].mode # "READ",
                             ![b].handles = 1]
       /\ Granted(c, b)
  /\ UNCHANGED <<disk, suspect>>

\* A match nobody holds takes the mode asked for.
HitFree(c) ==
  /\ Attempt(c)
  /\ \E b \in Buffers :
       /\ FirstMatch(b, req[c].sector)
       /\ ~SharedRead(c, b) /\ buf[b].handles = 0
       /\ buf' = [buf EXCEPT ![b].mode = RdWr(req[c].mode),
                             ![b].modified = @ \/ req[c].mode # "READ",
                             ![b].handles = 1]
       /\ Granted(c, b)
  /\ UNCHANGED <<disk, suspect>>

\* The sector is in use in another mode, or every buffer is in use.
MustWait(c) ==
  IF Match(req[c].sector) = {}
  THEN \A b \in Buffers : buf[b].handles # 0
  ELSE \E b \in Buffers : /\ FirstMatch(b, req[c].sector)
                          /\ ~SharedRead(c, b) /\ buf[b].handles # 0

\* Mutant: a round that waits does not use up xLoopCount.
YieldUncounted(c) ==
  /\ Attempt(c)
  /\ MustWait(c)
  /\ pc' = [pc EXCEPT ![c] = "sleep"]
  /\ UNCHANGED <<buf, disk, req, held, tries, sem, next, bufBit, suspect>>

Yield(c) ==
  /\ Attempt(c)
  /\ MustWait(c)
  /\ pc' = [pc EXCEPT ![c] = "sleep"]
  /\ tries' = [tries EXCEPT ![c] = @ - 1]
  /\ UNCHANGED <<buf, disk, req, held, sem, next, bufBit, suspect>>

GiveUp(c) ==
  /\ pc[c] = "get" /\ tries[c] = 1
  /\ ReturnNull(c)
  /\ UNCHANGED <<buf, disk, suspect>>

\* Mutant: a victim is taken without searching the table for the sector.
MissUnsearched(c, b) == Attempt(c) /\ buf[b].handles = 0

\* Mutant: a victim is taken although somebody holds it.
MissOccupied(c, b) == Attempt(c) /\ Match(req[c].sector) = {}

Miss(c, b) ==
  /\ Attempt(c)
  /\ Match(req[c].sector) = {}
  /\ buf[b].handles = 0

\* The device after the modified contents of victim b were written back.
WrittenBack(b) ==
  IF buf[b].modified THEN [disk EXCEPT ![buf[b].sector] = buf[b].data]
  ELSE disk

CanWriteBack(b) == buf[b].modified => CanTransfer(buf[b].sector)

EvictFails(c, b) ==
  /\ Miss(c, b)
  /\ buf[b].modified
  /\ WriteFails(buf[b].sector, buf[b].data)
  /\ ReturnNull(c)
  /\ UNCHANGED <<buf, suspect>>

FetchFails(c, b) ==
  /\ Miss(c, b)
  /\ CanWriteBack(b)
  /\ disk' = WrittenBack(b)
  /\ req[c].mode # "WR_ONLY"
  /\ ReadFails(req[c].sector, b)
  /\ ReturnNull(c)

Install(c, b) ==
  /\ Miss(c, b)
  /\ CanWriteBack(b)
  /\ disk' = WrittenBack(b)
  /\ req[c].mode # "WR_ONLY" => CanTransfer(req[c].sector)
  /\ buf' = [buf EXCEPT ![b] =
       [sector |-> req[c].sector, mode |-> RdWr(req[c].mode),
        modified |-> req[c].mode # "READ", valid |-> TRUE, handles |-> 1,
        data |-> IF req[c].mode = "WR_ONLY" THEN Zero
                 ELSE disk'[req[c].sector]]]
  /\ Granted(c, b)
  /\ UNCHANGED suspect

-----------------------------------------------------------------------------
(* What the holder of a buffer does.                                        *)

\* memcpy into pucBuffer by a holder that asked to write.
Modify(c, v) ==
  /\ pc[c] = "have" /\ req[c].mode # "READ"
  /\ buf' = [buf EXCEPT ![held[c]].data = v]
  /\ UNCHANGED <<disk, clientVars, sem, next, bufBit, suspect>>

\* FF_ClearCluster on its first sector: the buffer is zeroed, written with
\* FF_BlockWrite past the cache, and marked clean even if that failed.
ClearSector(c) ==
  /\ pc[c] = "have" /\ req[c].mode = "WR_ONLY" /\ DriverIsFree
  /\ buf' = [buf EXCEPT ![held[c]].data = Zero, ![held[c]].modified = FALSE]
  /\ pc' = [pc EXCEPT ![c] = "cleared"]
  /\ \/ /\ CanTransfer(req[c].sector)
        /\ disk' = [disk EXCEPT ![req[c].sector] = Zero]
        /\ UNCHANGED suspect
     \/ /\ WriteFails(req[c].sector, Zero)
        /\ suspect' = suspect \cup {req[c].sector}
  /\ UNCHANGED <<req, held, tries, sem, next, bufBit>>

\* Mutant: the buffer is released without being written through.
ReleaseUnwritten(c) ==
  /\ Using(c) /\ sem = Nobody
  /\ buf' = [buf EXCEPT ![held[c]].handles = @ - 1]
  /\ Proceed(c)
  /\ req' = [req EXCEPT ![c] = NoRequest]
  /\ held' = [held EXCEPT ![c] = NoBuffer]
  /\ UNCHANGED <<disk, tries, sem, next, suspect>>

\* FF_ReleaseBuffer; the buffer stays modified if writing it through failed.
ReleaseBuffer(c) ==
  /\ Using(c) /\ sem = Nobody
  /\ LET b == held[c]
     IN \/ /\ ~(WriteThrough /\ buf[b].modified)
           /\ buf' = [buf EXCEPT ![b].handles = @ - 1]
           /\ UNCHANGED disk
        \/ /\ WriteThrough /\ buf[b].modified /\ CanTransfer(buf[b].sector)
           /\ disk' = [disk EXCEPT ![buf[b].sector] = buf[b].data]
           /\ buf' = [buf EXCEPT ![b].handles = @ - 1, ![b].modified = FALSE]
        \/ /\ WriteThrough /\ buf[b].modified
           /\ WriteFails(buf[b].sector, buf[b].data)
           /\ buf' = [buf EXCEPT ![b].handles = @ - 1]
  /\ Proceed(c)
  /\ req' = [req EXCEPT ![c] = NoRequest]
  /\ held' = [held EXCEPT ![c] = NoBuffer]
  /\ UNCHANGED <<tries, sem, next, suspect>>

-----------------------------------------------------------------------------
(* FF_FlushCache: one step per descriptor, holding the semaphore.           *)

FlushBegin(c) ==
  /\ pc[c] = "idle" /\ sem = Nobody
  /\ pc' = [pc EXCEPT ![c] = "flush"]
  /\ sem' = c
  /\ next' = 1
  /\ UNCHANGED <<buf, disk, req, held, tries, bufBit, suspect>>

\* The descriptor just flushed is clean and in read mode; any other
\* descriptor of that sector in read mode is marked modified.
Flushed(b) ==
  [a \in Buffers |->
     IF a = b THEN [buf[a] EXCEPT !.mode = "READ", !.modified = FALSE]
     ELSE [buf[a] EXCEPT !.modified =
             @ \/ (buf[a].sector = buf[b].sector /\ buf[a].mode = "READ")]]

\* Mutant: buffers in use are flushed, and put in read mode, as well.
FlushHeldToo(c) ==
  /\ sem = c /\ next <= CacheSize
  /\ IF buf[next].modified
     THEN buf' = Flushed(next) /\ CanTransfer(buf[next].sector)
          /\ disk' = [disk EXCEPT ![buf[next].sector] = buf[next].data]
     ELSE UNCHANGED <<buf, disk>>
  /\ next' = next + 1
  /\ UNCHANGED <<clientVars, sem, bufBit, suspect>>

\* The result of FF_BlockWrite is not looked at.
FlushBuffer(c) ==
  /\ sem = c /\ next <= CacheSize
  /\ IF buf[next].handles = 0 /\ buf[next].modified
     THEN /\ buf' = Flushed(next)
          /\ \/ /\ CanTransfer(buf[next].sector)
                /\ disk' = [disk EXCEPT ![buf[next].sector] = buf[next].data]
                /\ UNCHANGED suspect
             \/ /\ WriteFails(buf[next].sector, buf[next].data)
                /\ suspect' = suspect \cup {buf[next].sector}
     ELSE UNCHANGED <<buf, disk, suspect>>
  /\ next' = next + 1
  /\ UNCHANGED <<clientVars, sem, bufBit>>

\* Mutant: the loop ends before the last buffer.
FlushEndEarly(c) ==
  /\ sem = c /\ next >= CacheSize
  /\ sem' = Nobody
  /\ next' = 1
  /\ pc' = [pc EXCEPT ![c] = "idle"]
  /\ UNCHANGED <<buf, disk, req, held, tries, bufBit, suspect>>

FlushEnd(c) ==
  /\ sem = c /\ next = CacheSize + 1
  /\ sem' = Nobody
  /\ next' = 1
  /\ pc' = [pc EXCEPT ![c] = "idle"]
  /\ UNCHANGED <<buf, disk, req, held, tries, bufBit, suspect>>

-----------------------------------------------------------------------------
\* A FF_BlockWrite of whole sectors by FF_Write, FF_WriteClusters or
\* FF_ClearCluster: the descriptors are not looked at.
DirectWrite(c, s, v) ==
  /\ pc[c] = "idle" /\ DriverIsFree
  /\ \/ CanTransfer(s) /\ disk' = [disk EXCEPT ![s] = v]
     \/ WriteFails(s, v)
  /\ UNCHANGED <<buf, clientVars, sem, next, bufBit, suspect>>

\* Power fails; FF_CreateIOManager starts again from what the device holds.
PowerLoss ==
  /\ buf' = [b \in Buffers |-> EmptyBuffer]
  /\ pc' = [c \in Clients |-> "idle"]
  /\ req' = [c \in Clients |-> NoRequest]
  /\ held' = [c \in Clients |-> NoBuffer]
  /\ tries' = [c \in Clients |-> 0]
  /\ sem' = Nobody
  /\ next' = 1
  /\ bufBit' = TRUE
  /\ UNCHANGED <<disk, suspect>>

-----------------------------------------------------------------------------
Init ==
  /\ buf = [b \in Buffers |-> EmptyBuffer]
  /\ disk \in [Sectors -> Values]
  /\ pc = [c \in Clients |-> "idle"]
  /\ req = [c \in Clients |-> NoRequest]
  /\ held = [c \in Clients |-> NoBuffer]
  /\ tries = [c \in Clients |-> 0]
  /\ sem = Nobody
  /\ next = 1
  /\ bufBit = TRUE
  /\ suspect = {}

\* The rounds of FF_GetBuffer's loop: one of them is enabled whenever the
\* client is inside FF_GetBuffer and the semaphore is free.
GetStep(c) ==
  \/ HitShared(c)
  \/ HitFree(c)
  \/ Yield(c)
  \/ GiveUp(c)
  \/ \E b \in Buffers : EvictFails(c, b) \/ FetchFails(c, b) \/ Install(c, b)

WaitStep(c) == BufferWait(c) \/ WaitTimeout(c)

FlushStep(c) == FlushBuffer(c) \/ FlushEnd(c)

Next ==
  \/ \E c \in Clients :
       \/ \E s \in Cached, m \in Asked : GetBuffer(c, s, m)
       \/ GetStep(c)
       \/ WaitStep(c)
       \/ \E v \in Values : Modify(c, v)
       \/ ClearSector(c)
       \/ ReleaseBuffer(c)
       \/ FlushBegin(c)
       \/ FlushStep(c)
       \/ \E s \in Direct, v \in Values : DirectWrite(c, s, v)
  \/ PowerLoss

Spec == Init /\ [][Next]_vars

\* A task in FF_GetBuffer, in FF_BufferWait or in FF_FlushCache is scheduled
\* again; a task that pends on the semaphore gets it after the tasks queued
\* before it, so it is not passed over for ever (strong fairness).
Fairness ==
  \A c \in Clients : /\ SF_vars(GetStep(c))
                     /\ WF_vars(WaitStep(c))
                     /\ WF_vars(FlushStep(c))

FairSpec == Spec /\ Fairness
-----------------------------------------------------------------------------
(* Properties.                                                              *)

BufferType ==
  [sector : Sectors, mode : {"NONE", "READ", "WRITE"}, modified : BOOLEAN,
   valid : BOOLEAN, handles : Nat, data : Values]

\* The types of the descriptors and of the clients' local variables.
TypeOK ==
  /\ buf \in [Buffers -> BufferType]
  /\ disk \in [Sectors -> Values]
  /\ pc \in [Clients -> {"idle", "get", "sleep", "blocked", "have", "cleared", "flush"}]
  /\ req \in [Clients -> [sector : Sectors, mode : Modes]]
  /\ held \in [Clients -> Buffers \cup {NoBuffer}]
  /\ tries \in [Clients -> Nat]
  /\ sem \in Clients \cup {Nobody}
  /\ next \in 1 .. CacheSize + 1
  /\ bufBit \in BOOLEAN
  /\ suspect \subseteq Sectors

\* Two descriptors never cache the same sector: FF_GetBuffer installs a sector
\* only after the whole table was searched under the same semaphore.
OneBufferPerSector ==
  \A a, b \in Buffers :
    buf[a].valid /\ buf[b].valid /\ buf[a].sector = buf[b].sector => a = b

\* usNumHandles counts the pointers handed out, so the configASSERT of
\* FF_ReleaseBuffer holds and a descriptor is reused only when unreferenced.
HandlesMatchHolders ==
  /\ \A b \in Buffers : buf[b].handles = Cardinality(Holders(b))
  /\ \A c \in Clients : Using(c) <=> held[c] # NoBuffer

\* A pointer returned by FF_GetBuffer keeps describing the sector and the mode
\* asked for until it is released, whatever other tasks get, evict or flush.
HeldBufferIsTheOneAskedFor ==
  \A c \in Clients : Using(c) =>
    LET b == buf[held[c]]
    IN b.valid /\ b.sector = req[c].sector /\ b.mode = RdWr(req[c].mode)

\* While a task has a sector for writing nobody else has that sector at all.
ExclusiveWriter ==
  \A c, d \in Clients :
    (c # d /\ Using(c) /\ Using(d) /\ req[c].sector = req[d].sector)
      => req[c].mode = "READ" /\ req[d].mode = "READ"

\* A descriptor with bModified FALSE holds what is on disk, so evicting it
\* without writing loses nothing; only a driver error makes an exception.
CleanIsOnDisk ==
  \A b \in Buffers :
    buf[b].valid /\ ~buf[b].modified /\ buf[b].sector \notin suspect
      => buf[b].data = disk[buf[b].sector]

\* A reader's view of its sector does not change under it.
ReaderIsUndisturbed ==
  [][\A c \in Clients :
       Using(c) /\ req[c].mode = "READ" /\ Using(c)'
         => held'[c] = held[c] /\ buf'[held[c]].data = buf[held[c]].data]_vars

OnDisk(s) == Content(s) = disk[s]

Unused(s) == \A c \in Clients : ~(Using(c) /\ req[c].sector = s)

\* When FF_FlushCache returns, every sector nobody holds is on disk, and a
\* power failure now loses none of them.
FlushMakesDurable ==
  [][\A c \in Clients : FlushEnd(c) =>
       \A s \in Sectors : Unused(s) => OnDisk(s) \/ s \in suspect]_vars

\* The same without the exception for driver errors: FF_FlushCache always
\* returns FF_ERR_NONE, which its header comment calls "Success".
FlushSuccessIsDurable ==
  [][\A c \in Clients : FlushEnd(c) =>
       \A s \in Sectors : Unused(s) => OnDisk(s)]_vars

\* A descriptor's memory is the sector ulSector names ("The LBA of the Cached
\* sector."): an FF_GetBuffer that cannot read its sector changes no other one.
ReadErrorIsLocal ==
  [][\A c \in Clients, b \in Buffers : FetchFails(c, b) =>
       \A s \in Sectors : Content(s)' = Content(s)]_vars

\* With ffconfigCACHE_WRITE_THROUGH and a device that does not fail, a sector
\* of the partition that nobody holds is already on disk.
ReleasedIsDurable ==
  WriteThrough => \A s \in Sectors \cap Partition : Unused(s) => OnDisk(s)

\* FF_Read and FF_Write give what the other wrote (fread, fwrite): after a
\* direct write the sector reads as written.
DirectWriteIsRead ==
  [][\A s \in Direct : disk'[s] # disk[s] => Content(s)' = disk'[s]]_vars

\* FF_GetBuffer always returns, with a buffer or with NULL: tasks that wait
\* for each other's buffers, or for one that is never released, do not hang.
GetBufferReturns ==
  \A c \in Clients :
    (pc[c] \in {"get", "sleep", "blocked"}) ~> (pc[c] \in {"have", "idle"})

-----------------------------------------------------------------------------
\* The interface of FFSectorStore this cache implements.
Users ==
  [c \in Clients |->
     [at |-> IF Using(c) THEN "using"
             ELSE IF pc[c] \in {"idle", "flush"} THEN "idle" ELSE "asking",
      sector |-> req[c].sector, mode |-> req[c].mode]]

Store == INSTANCE FFSectorStore WITH
  content <- [s \in Sectors |-> Content(s)], durable <- disk,
  user <- Users, doubt <- suspect

\* The cache refines the sector store.
ImplementsStore == Store!Spec
=============================================================================
