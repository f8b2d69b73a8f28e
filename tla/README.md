# FreeRTOS+FAT: verification project

TLA+ models of FreeRTOS+FAT V2.3.3, the DOS-compatible file system of FreeRTOS,
model-checked with TLC and proved with TLAPS. Line numbers below refer to the
source of this repository; `PROJECT.json` maps each definition to its lines.

## 1. The system and its parts

An application task calls the POSIX-like interface (`ff_stdio.c`), which finds
the mounted file system of a path (`ff_sys.c`) and calls the file and directory
functions (`ff_file.c`, `ff_dir.c`). These find, claim and free clusters in the
FAT (`ff_fat.c`) and read and write sectors through the I/O manager
(`ff_ioman.c`), a small write-back cache over the two function pointers of a
media driver. Several tasks may be anywhere in this stack at the same time. They
are kept apart by one semaphore per I/O manager and by three bits of one event
group (`ff_locking.c`): FAT, DIR and BUF.

| Component | State | Operations | Talks to | Model |
|---|---|---|---|---|
| Sector cache (`ff_ioman.c` 296-690) | `pxBuffers`: sector, mode, modified, valid, handle count, memory | `FF_GetBuffer`, `FF_ReleaseBuffer`, `FF_FlushCache`, `FF_BlockRead`, `FF_BlockWrite` | driver (calls), semaphore, BUF bit | FFBuffers |
| Mount (`ff_ioman.c` 700-1797) | `xPartition`, `FirstFile` | `FF_Mount`, `FF_Unmount`, `FF_PartitionSearch` | cache, FAT | FFVolume (what is found on the disk), FFMounts (handles, unmounting) |
| Locks (`ff_locking.c`) | event group bits, `pvFATLockHandle` | `FF_LockFAT`, `FF_LockDirectory`, `FF_BufferWait`, ... | scheduler | FFLocking; BUF bit in FFBuffers |
| FAT and allocation (`ff_fat.c`, `ff_ioman.c` 1802-1962) | the table on disk, `ulLastFreeCluster`, `ulFreeClusterCount` | find, claim, link, unlink, count | cache, FAT lock | FFFat; walks along chains in FFFile |
| Files (`ff_file.c`) | list of handles; size, position, cluster cursor, chain length | open, read, write, seek, set end, truncate, remove, move, close | FAT, directories, cache | FFFile (one handle in depth), FFNames (many handles), FFFat (clusters) |
| Directories (`ff_dir.c`) | 32-byte slots, path cache, hash cache | find, create, extend, remove, rename | FAT, cache, DIR lock | FFNames; effect on clusters in FFFat |
| POSIX-like API (`ff_stdio.c`, `ff_sys.c`) | mount table, working directory, errno per task | `FF_FS_Add`, `FF_FS_Find`, `ff_fopen`, `ff_chdir`, `ff_findfirst`, ... | files, directories | FFPaths, FFMounts |
| Formatter (`ff_format.c`) | none between calls; the disk | `FF_Partition`, `FF_Format` | cache, driver | FFVolume |
| Conversions (`ff_string.c`, `ff_crc.c`, `ff_time.c`, `ff_memory.c`) | none | UTF-8/16, CRC, calendar, byte order | - | not modelled |
| Error table, `/dev` stubs, drivers, unit tests | - | - | - | not modelled: wording, stubs, pure I/O, tests |

What is hard in it, and what makes each part correct:

- *Sector cache.* A descriptor is shared by readers, owned by one writer, reused
  when nobody holds it, flushed while others run, and its transfers fail. It is
  right when no two descriptors cache one sector, nobody's buffer is changed
  under him, no contents are lost except by a reported error, what was flushed
  survives a power failure, and everyone who asks for a buffer gets an answer.
- *Allocation.* A chain of clusters is built and torn down in many small writes,
  each of which may fail before or after it took effect, while other tasks do
  the same. It is right when every cluster in use belongs to exactly one chain
  (or is known to be lost to an error), the search for free clusters misses
  none, the number of free clusters is what it says, and the lock, which is not
  recursive, is never asked for by the task that has it.
- *Locks.* Waiting is a loop of a timed wait and a test-and-clear: mutual
  exclusion must come from the test, progress from the time-out.
- *Files and handles.* The list of handles is what excludes two writers; what it
  compares was read earlier, and changes while the file is open. The cursor and
  the cached chain length must follow the chain.
- *Directories.* "Does not exist" is tested before the lock under which the entry
  is made. Removing and moving take two writes with a power failure in between.
- *Volumes.* The tables, boot sectors and FATs are laid out by one piece of code
  and found again by another, which shares nothing with it but the sectors; in
  between any write may fail. It is right when what is found is what was asked
  for, partitions never overlap, and what was formatted mounts as it was meant.
- *Mount points.* The table is searched without a lock while it changes, and
  nothing ties a volume that was found to what happens to it before it is used.

`PROJECT.json` lists under "hazards" 40 places where this bites, and which
property is for it; a hazard without one says why.

## 2. Modules

    FFSectorStore   what the cache promises (abstract)
        ^ refined by
    FFBuffers       the cache               <- MCFFBuffers (TLC), FFBuffersProofs (TLAPS)
    FFFat           cluster allocation      <- MCFFFat,  FFFatProofs
    FFFile          one open file           <- MCFFFile, FFFileProofs
    FFMutex         what a lock promises (abstract)
        ^ refined by
    FFLocking       the locks               <- FFLockingProofs
        ^ extended by
    FFNames         names, handles, locks   <- MCFFNames, FFNamesProofs
    FFVolume        partitions and formats  <- MCFFVolume, FFVolumeProofs
    FFPaths         paths
        ^ extended by
    FFMounts        mount points            <- MCFFMounts, FFMountsProofs
    FFRecursion     induction and arithmetic used by the proofs of FFFile, FFVolume and FFMounts

Each module takes what the one below it shows as given. FFFat stands on FFBuffers:
a FAT sector got for writing has one owner, and its contents are what was written
last; so it has the FAT as a function of clusters and not as sectors. FFNames
stands on FFFat: a claimed cluster is nobody else's. FFFile stands on FFNames: a
handle that may write is its file's only handle. FFMounts stands on both for what
an operation does below its path.

### 2.1 FFBuffers: the sector cache

State: `buf` is `pxBuffers` with the memory of each descriptor; `disk` the
device; `pc`, `req`, `held`, `tries` are where a client is in `FF_GetBuffer`, its
arguments, its result and `xLoopCount`; `sem` is the owner of `pvSemaphore`
between two steps; `next` is `xIndex` of the flush; `bufBit` is the BUF bit;
`suspect` is a history variable with the sectors a driver error may have cost
their data. A *client* is one `FF_Buffer_t` pointer of one task, since a task
may hold two.

Actions: `GetBuffer` enters the function; each round of its loop under the
semaphore is one step and has one action per way out: `HitShared`, `HitFree`,
`Yield` (must wait), `GiveUp`, `EvictFails`, `FetchFails`, `Install`.
`BufferWait` and `WaitTimeout` are `FF_BufferWait`; `ReleaseBuffer` includes the
write-through and the wake-up of `FF_BufferProceed`. The flush holds the
semaphore across `FlushBegin`, one `FlushBuffer` per descriptor and `FlushEnd`.
`ClearSector` is what `FF_ClearCluster` does to its first buffer, `DirectWrite`
a `FF_BlockWrite` past the cache, `PowerLoss` a restart of `FF_CreateIOManager`.

Abstracted: `ulLRU` and `usPersistence` choose among the unoccupied buffers, so
any of them may be chosen here; a sector's bytes are one value; a driver that
answers "busy" is retried inside one transfer. A write that fails may have
reached the device, a read that fails may have changed the memory.

FFSectorStore says what the code above relies on: readers share a sector, a
writer is alone, contents change only through a writer, contents may become
durable at any time nobody uses them (and not before they were written), and a
power failure goes back to what is durable. `ImplementsStore` is the refinement,
with the contents a reader would see as `content` and the device as `durable`.

### 2.2 FFFat: cluster allocation

State: `fat` is the table (`Free`, `EOC` or the next cluster); `hint` and `count`
are `ulLastFreeCluster` and `ulFreeClusterCount`; `lock` is `pvFATLockHandle`;
`dirent` is the first cluster in the entry of each file and directory (`None`: no
entry, 0: an entry without clusters); `pc` and `op` hold the place and the local
variables of the operation each task is in. Four history variables say what the
code cannot know: `stale`, the entries that still name clusters already freed
(or about to be), `lost`, clusters in use that nothing names, `failed` and
`raced`, whether an access failed or a count overlapped another change.

Operations start in `Create` (`FF_CreateFile`, `FF_MkDir`), `ExtendFile`,
`ExtendDirectory`, `Remove` (`FF_RmFile`, `FF_RmDir`), `Empty` and `Shorten` (the
two halves of `FF_Truncate`) and `GetFreeSize`. They share the steps:

- `Claim` is `FF_CreateClusterChain`: search from the hint, move the hint, put the
  entry, all under the lock.
- `CheckCount`, `Recount`, `AssignCount`, `AdjustCount`, `TestHint`, `Seek` are
  `FF_DecreaseFreeClusters` and `FF_IncreaseFreeClusters`. The count is tested,
  computed and assigned outside any lock, so each is a step of its own;
  `Seek` takes the lock (for the decrease without asking whether the task has
  it, as the code does).
- `MakeEntry` and `MakeDots` are the directory entry, with every outcome: made,
  not made, made and an error reported, "." or ".." not written.
- `BeginUnlink`, `Unlink` (one round of the loop), `Unlock`, `Erase` free a chain;
  `BeginCut` makes the first cluster the end of the chain.
- `Enough`, `BeginGrow`, `Grow` (one round), `EndGrow` add clusters.
- `Remount` is what `FF_Mount` sets, while nothing is going on.

Abstracted: all access to the FAT is under the FAT lock, so what an iteration
does to it is one step although it takes several sectors. One file handle open
for writing excludes others (the list of `FF_Open`), so an object has one
operation at a time; the directory that an entry goes into may be extended by
"another" task of the model at any moment. What a program does with an object
whose entry is stale is not followed. The `FSINFO` options are off, as in the
default configuration. Truncating at the last cluster, which changes nothing, is
left out.

### 2.3 FFFile: one open file

State: `file` is the `FF_FILE`: mode, `ulFilePointer`, `ulFileSize`,
`ulObjectCluster`, `ulCurrentCluster`, `ulAddrCurrentCluster`, `ulChainLength`,
`ulEndOfChain`; `fat` the table; `entry` the directory entry; `call` the call in
progress with its variables. Positions count units, several to a sector and
several sectors to a cluster, so that a transfer of part of a sector, of sectors
and of runs of clusters are all different, as they are in `FF_Read` and `FF_Write`.
What a unit contains is abstracted to where it is: `home` (history) has the place
each unit was written to last, `misread` whether one was read from elsewhere.

Entry and links are written through the cache of FFBuffers, which writes sectors
back in the order of its descriptors or when it evicts one, not in that in which they
were changed. `kept` has, of the entry and of each link, every version since
`FF_FlushCache` was last called and wrote all: each of them may be the one on the disk, the
entry's new and the link's old included. A flush that leaves a sector behind (the device
refuses it, or another task has its buffer, `ff_ioman.c` 338-350) still reports success;
then the handle is astray ("flush").

`Open`, `Read`, `Write`, `Seek`, `SetEof` and `BeginClose` start calls. The steps of
`FF_ExtendFile` are `ClaimFirst`, `EnterFirst`, `CountChain`, `Grow`, `EndGrow`,
`StopGrow` (full disk or failure), `Resync` and `ExtendFlushes`; those of a transfer
`Head`, `RestOfCluster`, `BeginRuns`, `Run`, `Sectors` and `Tail`; those of closing
`Truncate`, `Detach`, `PutSize` and `Leave`. `Crash` loses the power between any two and
leaves one version of the entry and one of each link. What comes after is followed only
if everything had been flushed ("crash" otherwise).

`Sectors` has the error that `FF_Read` forgets: a failed `FF_BlockRead` only leaves the loop
(1928), `FF_SetCluster` overwrites the error, and `Tail` copies all that is left out of one
buffer, behind which it may go on (`BufferUnits`), and reports success. `FF_Write` returns
its error there.

### 2.4 FFLocking and FFMutex: the locks

`bits` are the bits of the event group, set when a lock is free; `handle` is
`pvFATLockHandle`; `has`, `asks` and `tests` say where each task is in the locking
functions. `WaitBits` ends a wait with the bit set or after a time-out;
`ClearBits` clears the bit and learns what it was; only then is the lock won.
`Turn` gives a lock back and asks for the next. FFMutex is the promise: a lock
has one holder or none.

### 2.5 FFNames: names, handles and locks

State: `dirs` has the slots of each directory (end mark, deleted, long name, entry,
dots); `used` the clusters in use; `part`, of a cluster that no entry names, the directory
that was extended with it, or that it was lost; `file` the handle of each task and `zombies` handles
that stay in the list for ever; `op` the call each task is in. The locks are
those of FFLocking: each place in a call is under the locks that `Under` names,
and a step that goes from one place to the next takes and gives back what that
requires, one lock at a time, also where a function gives a lock back only for
the next to take it again: `FF_CreateDirent` the directory lock before `FF_Move` removes the old
entry (`Relock`; `ff_dir.c` 3084, `ff_file.c` 1034), `FF_ExtendDirectory` the FAT lock
before `FF_CreateDirent` gives up the directory's (`Unmade`).

The actions follow the functions: `FindDir` and `Find` (`FF_FindDir`,
`FF_FindEntryInDir`), `Claim`, `Plan`, `Extend` (`FF_ExtendDirectory`), `PutLfn`, `PutNew`, `Undo`, `MakeDots`
(`FF_CreateFile`, `FF_MkDir`, `FF_CreateDirent`), `Join` (the list of handles in
`FF_Open`), `Empty`, `Unlink`, `Quit`, `RmLfn`, `Erase` (`FF_RmFile`, `FF_RmDir`),
`Target` (`FF_Move`), `Grow`, `Enter`, `Note` (the first write of `FF_ExtendFile`),
`Cut`, `Detach`, `PutSize`, `Leave` (`FF_Close`).

Three outcomes of these functions are easily left out of a model. `Lose`:
`FF_CreateClusterChain` returns a cluster together with an error, because a driver failed
or merely because it took the last one (`ff_fat.c` 1245-1266; FFFat has the reason), and
its callers drop the cluster. `Unread`: `FF_ShortNameExists` forgets a read error
(`ff_dir.c` 283), so `FF_FindShortName` may settle for a short name that is taken (2492).
`Unsized`: a name that `FF_Open` could not read to its end may still be "found", if the
size that was never set happens to be 0 (`ff_file.c` 341).

Bounds of the model itself: a long name takes one slot, directories are made in the root,
a directory is extended once. The step of `Extend` claims, links and clears the cluster; what a
search without the lock reads of it before it is cleared is left out.

### 2.6 FFVolume: partitions and formats

A sector is what a reader can tell of it: a partition table, a boot sector with
its geometry, the start of a FAT, a labelled root directory, FSInfo, or none of
these. `FF_Partition` and `FF_Format` are lists of writes, computed as the code
computes them (sizes, hidden sectors, extended chain; type, cluster size, FAT
size, alignment), carried out one by one by `WriteNext`, where `WriteFails`,
`FlushFails` and `Crash` may come in between. `Search` and `Mount` are what
`FF_PartitionSearch` and `FF_Mount` make of the sectors at any moment. Numbers are
real sector numbers of disks of 32 MB to 2 GB, not scaled.

### 2.7 FFPaths and FFMounts: paths and mount points

FFPaths has `prvABSPath` and `prvProcessRelativePaths` on paths as sequences of names,
next to what a path means (`Meaning`). FFMounts has the table of `ff_sys.c` (`slots`,
`count`), of each disk whether it is mounted and the tasks with a handle in its
list, and of each task its working directory, handle and call. The walk of
`FF_FS_Find` is one slot per step (`Search`), with the manager read in a step of its
own (`TakeMatch`), and the count read again at the end (`TakeRoot`; `ff_sys.c` 250): a
count that has fallen to the slot that matched gives the path to the root after all; `FF_FS_Add` and the last part of `FF_FS_Remove` run with
the scheduler suspended and are one step each. `UnmountTest` and `UnmountEnd` are the
two ends of the flush in `FF_Unmount`.

### 2.8 Strays

The code has windows in which a task acts on what it read before and is no
longer so. FFFile, FFNames and FFMounts do not forbid them: each has a history
variable (`astray`, `strays`) that records by name which window a behaviour went
through, next to the action with the window in it. The properties state that
nothing goes wrong unless one of these windows was hit; in FFFile and FFNames TLC explores
a behaviour up to the first hit (`CONSTRAINT NotAstray`, `NotStrayed`), since what may
follow is anything. The list of names is therefore part of the result: it is the complete list,
for these instances, of the ways in which the promise can be broken. Where the
code allows it the record is made only if the step really went wrong (the name was
taken meanwhile), not whenever the window was open. What the properties show is that
nothing else goes wrong; of the harm that a stray does they say nothing.

The search of FFMounts is not treated this way. `unrest` records what becomes of the table
during a search (it has grown, it has shrunk), whether or not the answer suffers; the
property excepts only tables that were "misleading": an emptied slot, a mount before a
deeper one above the path, or growth after shrinking.

| Module | Name | What the task acts on |
|---|---|---|
| FFFile | grow | an extension cut short by a full disk or a failing access: `ulEndOfChain` and the cursor are set from a link that was not made (`ff_file.c` 1459) |
| | seek, unlink | a walk along the chain that failed: the cursor is set to cluster 0 (1622), `FF_Read` goes on (1821), a truncation stops half-way |
| | count | a chain length whose error was overwritten (`ff_fat.c` 1296) |
| | cut | `FF_SetEof` after a write: `ulChainLength` stays as it was (3338) |
| | detach, close | a truncation that freed clusters and did not get to the entry (3307) |
| | flush | a flush that left a sector behind and reported success (`ff_ioman.c` 338-350) |
| | crash | power lost while changes waited in the cache, or while a file was being cut |
| FFNames | outdated | a name, slot or directory found before the lock was taken or the handle listed |
| | busy, blind | `FF_Move` takes any error for "not there" (972); a long name is not looked for again under the lock |
| | noting | `ulObjectCluster` compared before `FF_ExtendFile` has set it (425) |
| | phantom | a file size that was never set compares equal, for a long name without an entry or with one that could not be read (341) |
| | nested | `FF_Move` of a directory into another one: the model knows of directories only in the root (a bound; the run has no such call) |
| | shared, notdir | `FF_RmDir` with a handle of another user, or on a file (614, 711) |
| | unread | a directory that could not be read is taken for empty (`ff_dir.c` 528), a short name for free (283) |
| | uncleared | `FF_ExtendDirectory` fails when the cluster is linked already |
| | doomed | a directory found by its path that `FF_RmDir` has freed and not removed yet, or whose entry is gone |
| | recycled | `FF_MkDir` clears a cluster that another task still has as its directory |
| | empty | `FF_MkDir` on a name that exists as a file without a cluster |
| | taken | a name looked for again under the lock: neither a file without a cluster nor a short name that stands for a long one is noticed (`ff_dir.c` 2407-2422) |
| | undotted | `FF_MkDir` has published a directory that has no "." and ".." yet |
| | nameless, undone, failed | an access that failed after half of the change was made |
| FFMounts (`unrest`) | misleading | an emptied slot matches every path (`ff_sys.c` 197, 232); the first match is taken, not the deepest; a table that shrinks and grows again has another mount where the walk is |
| FFMounts | mistaken | the slot that `FF_FS_Remove` found has become another's |
| | doubled | an emptied slot keeps the path of a mount that is now in another one, and a listing shows both (`ff_sys.c` 197, `ff_stdio.c` 1442) |
| | remounted | `FF_Mount` of a volume with open files drops their handles (`ff_ioman.c` 1489) |
| | late, overtaken | a file opened on a volume that is, or is being, unmounted (1757) |

## 3. What the runs check

| Run | Question | Result |
|---|---|---|
| buffers | structure, pinning, exclusion, durability, refinement of FFSectorStore | holds |
| buffers_wait | with write-through: is every released sector on disk; does every `FF_GetBuffer` return (liveness) | holds |
| flush_error | does a successful flush mean durable | violated (finding) |
| direct_stale | is a direct write read back | violated (finding) |
| read_error | does a failed read leave other sectors alone | violated (finding) |
| fat | one owner per cluster, hint, lock, count | holds |
| fat_count | is the count exact whenever nobody is working | violated (finding) |
| fat_leak | is no cluster leaked when nothing fails | violated (finding) |
| files | do cursor, length and data of an open file follow its chain | holds unless astray |
| names | unique names, one owner per cluster, one writer, locks, no two tasks wait for each other | holds unless strayed; locks and waiting whatever happens |
| volumes | is what was partitioned and formatted what is found and mounted | holds |
| mounts | does a path lead where the mount table says; are open files served | holds but for the cases named |

### 3.1 Properties of the cache

`OneBufferPerSector`, `HandlesMatchHolders`, `HeldBufferIsTheOneAskedFor` and
`ExclusiveWriter` are the structure on which everything above the cache stands.
`CleanIsOnDisk` says that an eviction loses nothing unless a driver error made the
sector suspect. `ReaderIsUndisturbed` says that what a reader sees does not move
under him. `FlushMakesDurable` is what `FF_Close` and `FF_Unmount` rely on; without
its exception for driver errors it is `FlushSuccessIsDurable`, and false:
`FF_FlushCache` ignores the result of the write and returns `FF_ERR_NONE`.
`ReadErrorIsLocal` is false: after a failed read the victim's descriptor stays
valid over memory that no longer holds its sector. `DirectWriteIsRead` is false:
whole sectors are written past the cache without looking for a cached copy.
`ImplementsStore` has the rest: what a reader would be shown changes only by a
writer that holds the sector, by a driver error or by a power failure, and a power
failure goes back to nothing older than what was flushed.

Bounds: two clients and two buffers give sharing, exclusion, eviction and full
pools; two sectors give hits and misses; two values tell old from new. The bounds
check of the partition is exercised by sectors outside it (buffers_wait), the
time-outs by three clients for two buffers and a loop count of 3 (in the source 20
rounds or more: only the order of rounds matters).

Fairness (buffers_wait only): a task inside `FF_GetBuffer` gets the semaphore
sooner or later (strong fairness of its round: FreeRTOS queues the waiters of a
semaphore by priority and age, and the driver call under it returns), a timed
wait ends (weak fairness; it is 10 ms), and a flush goes on (weak fairness). This
is what FreeRTOS gives tasks of equal priority that do not spin; a task of higher
priority that never blocks can starve any other and is outside the claim.
Nothing is assumed of holders: a buffer may be kept for ever and the waiters
still return.

### 3.2 Properties of allocation

`OwnedOnce` is the main one. Every cluster in use has exactly one owner among: an
entry that is not stale, the link of one other cluster, a task that has it in its
hands, or the set of lost clusters. A free cluster has none. So no two files
share data, no chain runs into free space where another file will grow, and no
cluster goes missing without being accounted for, whichever steps of two tasks
interleave and whichever access fails in the middle.
`HintIsLow`: the search starts at the hint and never goes back, so a free cluster
below it could not be found until the next mount.
`LockIsNeverTakenTwice`: `FF_ExtendDirectory` calls `FF_DecreaseFreeClusters` with
the FAT lock held, and that function may take it again; it does not, because the
claim just made has moved the hint away from 0.
`CountIsExactUnlessRaced`: at rest the count is unknown (0) or right.
Without its exception it is `CountIsExact`, and false: counting overlaps other
changes. `NothingIsLeaked` is false even without failures: when another task has
just found the volume full and set the hint to 0, `FF_CreateClusterChain` claims
the last cluster and then fails in the search for a next one; it returns both the
cluster and the error, and its callers drop the cluster.

Bounds: two tasks, one file and one directory, so that each kind of operation
runs against each other. Four clusters, of which two can be handed out (the driver never
hands out the last two), so that the volume is full most of the time, a chain can
be cut, and a directory takes what a file frees; five clusters in the two
violated runs. `MaxExtend` 2 gives a loop of two rounds in `FF_ExtendFile`.
`CountModulus` 16 stands for 2^32 and is larger than any count that can be
reached, so that wrapping below zero is visible and not confused with a count.
The proofs remove these bounds for the type and owner properties.

`Fat12` is FALSE in the runs; the FAT12 search differs in that a search that
fails at the end leaves the hint on what it found, and the FAT12 count in that it
leaves out the last two clusters. The proofs cover both. The properties of `fat`
that are not proved also hold with `Fat12` TRUE (1.5 million states), and with six
clusters and no failing access (2.8 million states): change these constants in
`fat.cfg` to repeat it.

### 3.3 Properties of an open file

`CursorInSyncUnlessAstray` is the comment in `FF_ExtendFile` (1459): the cluster
address of the cursor is the one its index names. `BytesAreInPlace`: every unit that
was written is where the chain leads to. `ReadsFindWhatWasWritten`: the pieces in
which a read is carried out meet those in which the write was; excepted is the rest of a
read one of whose sectors the device failed, since `FF_Read` forgets the error and returns what
it finds (`call.failed`, section 2.3). `LengthIsKnown`: the
cached chain length is that of the chain. `EntryIsServable`: whenever the handle goes,
closed or with the power, and in whatever order the cache has written entry and links back, the entry
on the disk counts on no more than its chain there holds. This is what the flush in
`FF_ExtendFile` is for (`ffconfigFILE_EXTEND_FLUSHES_BUFFERS`, 1465): without it TLC finds an entry
whose chain is still in the cache. Excepted are a file that is about to be cut (clusters
are freed before the entry follows) and the very first cluster of a file, whose
claim the code does not flush before the entry that names it (`Fresh`). `NoClusterToSpare`: closing gives back
the cluster that `FF_ExtendFile` keeps ahead.

Bounds: sectors of two units and clusters of two sectors, so that all kinds of
pieces differ; transfers of one, three and eight units (part of a sector, across a
sector and a cluster, two whole clusters); files of up to nine units, which need
three clusters of four, one of which may be taken, leaving a gap: full disks,
runs of several clusters and fragmented chains all occur. One file is enough,
since other handles on it are excluded by `OneWriter` or only read.

### 3.4 Properties of names, handles and locks

`DirectoriesAreWellFormed`: short names are unique in a directory, those that stand for
long ones too, even if accesses fail, as long as no name was taken for free because the
sector that has it could not be read ("unread"). If none fails, names are unique, and a long name is
followed by its entry. `ClustersAreNamedOnce`: a cluster belongs to one entry, to one
directory that was extended, to one task, or to nobody, so
that removing, replacing or moving a file harms no other; without a failing access the only
clusters that belong to nobody are those `FF_CreateClusterChain` returned with an error, and
`fat_leak` (3.2) shows that there are such. `OneWriter` is the comment
in `FF_Open` ("make sure that there are not 2 handles with write access to the same
object"). `OpenFilesKeepTheirEntry`: nobody removes or moves what is open.
`NothingLiveIsOverwritten`: a slot remembered from a search is not written over when it
came into use meanwhile. `LocksAreMutexes` is the refinement of FFMutex.
`NobodyWaitsInACircle`: no task waits for a lock that another has while that one waits for a
lock of the first, nor for one of its own. The waits of `FF_LockFAT` and `FF_LockDirectory` are
repeated without end, so nothing in the code would resolve such a circle; what prevents it
is that the FAT lock is asked for with the directory locked (`FF_RmDir`,
`FF_ExtendDirectory`) and never the other way round. Both hold in every state, after strays
too. TLC looks for deadlocks besides.

Bounds: two tasks with up to two of seventeen calls between them, two directories,
one of them full, four clusters, names that collide when shortened, two failing accesses
anywhere. The conflicts of this code are between one call and another that overtakes it
within one of its windows, so two calls show them. No fairness is assumed and nothing
is claimed of progress: with a bound on the calls nobody can be starved, and without
one the code does not prevent it, for a task that gets the bit between
another's wait and its test may do so again and again.

### 3.5 Properties of volumes

`PartitionsAreAsAsked`: once `FF_Partition` has returned success, the search finds what
was asked for, whatever was on the disk before: of a request, what comes to at least one
sector (`NotEmpty`), for the entry of an empty share is written but skipped by the search
(`ff_ioman.c` 1006), and the partition after it takes its number. Which shares these are the code decides in two ways that do not agree:
it counts the shares that are not zero, wherever they are in the array (943-950), and
lays out as many places from the first on (1033-1035). With zero shares in front the last
ones are left out, and what they would have got stays unallocated; the model does the same
(`Wanted`), so the property holds of it, but see section 6. `PartitionsAreDisjoint`: whatever tables
are on the disk, old, new or half of each, partitions found lie on the disk and do
not overlap. `FormattedMounts`: what was formatted mounts as the type chosen, and all
of its FATs and root directory was written. `EveryClusterExists`: the sectors of each
cluster are in the partition, and all clusters have entries in the FAT but for two at
most. Those two come from `prvFormatGetClusterSize`, which leaves up to two clusters more
than the FAT has entries for; what is read as their entries are the first two of the
second FAT, which are never free, so they are never handed out. Left out of the second half
(`Squeezed`) are FAT32 partitions of 512 MB or more that start in sectors 8161 to 8191:
aligning the FAT leaves them fewer than 32 reserved sectors. `FormatStaysInside`:
formatting writes to its partition only.

Bounds: disks of 66595, 1049900 and 4200000 sectors give FAT16 and FAT32 and their limits,
with clusters left over at the end; requests in all three units, with primary, mixed and only logical
partitions (chains of tables), two of which have their first two tables in the
same sectors, so that a new chain may go on into an old one, one with a share that
comes to no sector and one with a zero share in front; three jobs, so that a
partitioning can be overtaken by another and formatted; one failing write and
power loss at any write. Deadlock is not looked for: with all jobs done the system
stops.

### 3.6 Properties of mount points

`FindAnswersFromTheTable`: `FF_FS_Find` answers as the table did at some moment of the
search, by the deepest mount above the path or else the root, though it takes no lock while slots are
filled, given to another disk and, at the end of the table, emptied. If the count changed it may
also answer with nothing. The exceptions are states of the table, not of the
answer ("misleading", 2.8); whether an answer is right is compared with `Cover`, which is
defined on the table alone. `MountsAreListed`: a listing has "." and
".." once, and that of the root each mount that nobody touched meanwhile, however
the table shrinks and grows under it: once, or also as often as emptied slots still have
its path ("doubled"). `OpenFilesAreServed`: the volume of an open file
stays mounted and knows of it. `PathsAreResolved`: removing ".." leaves a path that means
the same.

Bounds: a table of four slots (with three, no emptied slot below the count can keep the
path of a mount in another one), two disks, four mount paths, of which one is
below another; two tasks with four of twenty-one calls between them; paths of up to five of five
names. Deadlock is not looked for, as above. Here TLC goes on after a stray: each of the first
three properties says which it gives way to (`unrest`, `"mistaken"` and
`"doubled"`, `Deprived`) and holds across all others.

## 4. What is proved

All theorems hold for every value of the constants that satisfies the named
assumptions: `CacheAssumption` (finitely many clients, at least two buffers as
`FF_CreateIOManager` demands, sectors that are numbers), `FatAssumption` (more than
two clusters, a counter that can hold their number, files and directories distinct),
`FileAssumption` (finitely many clusters numbered from 2, sectors and clusters that
are not empty, and modes as `FF_GetModeBits` makes them: not empty, and never "T"
without "W"), `NobodyIsNoTask`, `MountsAssumption` (no mount is called "." or "..", which
`FF_FS_Add` leaves to its callers, and a table begins with the root, then each path
once, as `FF_FS_Add` fills it), `TasksAreFinite`, `NamesAssumption`, `CallsAssumption` and
`StartsAssumption` (directories have room for "." and ".." and are made in the root, a
bound; no caller passes `FF_MODE_DIR`; a volume is sound when the tasks start: a cluster
is in use if and only if an entry has it, and one entry has it; its short names differ, and
a long name stands before its entry; generated short names are not long), `BoundsAssumption` and
`VolumeAssumption` (old boot sectors on the disk have fields of 16 and 32 bits, and
a request names at most as many shares as there are partitions, any of which may be zero,
whose sum fits in 32 bits, and leaves room for a partition). TLC evaluates them in every run.

**FFBuffersProofs.** `StructInv` is the inductive invariant: types, the four
structural properties, and two facts they need and no run asks for. A descriptor in
write mode has at most one handle (`WriteModeIsSingle`), without which a hit could
be shared with a writer; and the semaphore stays taken between two steps only inside
a flush (`SemaphoreOwner`), without which a flush could change a descriptor in the
middle of a round. The counting lemmas (`GrantCounts`, `ReturnCounts`) tie
`usNumHandles` to the cardinality of the set of holders; one lemma per action then
shows that it keeps StructInv. `WritersAreExclusive` follows because two holders of
a sector hold one descriptor, and its mode says which of them may write.

`ContentInv` adds the contents: a descriptor that is not marked modified has what is
on disk or its sector is suspect (`CleanIsOnDisk`), a writer's descriptor is marked,
the descriptors that a running flush has passed are clean or in use
(`FlushedSoFar`), and an idle client asks for nothing. From it follow
`CleanBuffersAreOnDisk`, `FlushIsDurable`, `WriteThroughIsDurable` (`DurableInv`)
and, action by action, the refinement `CacheImplementsStore`: what the store shows
of a sector is the descriptor that caches it or else the disk (`ContentIsShown`).
These have a hypothesis, `Separate`: no sector is both asked for with `FF_GetBuffer`
and written past the cache. The code does not guarantee that for the sectors of a
file - that is the finding of `direct_stale`, whose instance overlaps the two on
purpose - but it holds for the FAT and directory sectors, and for files accessed by
whole sectors. `WriteThroughIsDurable` also assumes a driver that does not fail,
since a failed write-through is not reported. `ReadersAreUndisturbed` needs neither.

**FFFatProofs.** `OwnedOnce` is not inductive: it does not say what a task is going
to do with the cluster in its hands. `FatInv` adds, for every place a task can be at
(`TaskOK`), whether it has a cluster, what its object's entry names there, and
whether that entry is stale; that loops over the FAT have the lock; and that no two
tasks work on one object. Owners are stated pair by pair (`EntryRefs`, `LinkRefs`,
`HandRefs`, `LostRefs`, `UsedIsNamed`), which is what the provers can work with;
`RefsAreSingle` shows that they add up to `OwnedOnce`. Each way of passing a cluster
on is a lemma of its own: claimed (`RefsClaim`), linked (`RefsLink`), entered
(`RefsEnter`), taken from an entry (`RefsStale`), freed (`RefsFree`), cut off
(`RefsCut`), lost (`RefsLose`, `RefsDrop`). Actions that change no reference go
through `QuietStep`, the others through `LoudStep`, and the many steps of counting
through `CountMove` and `ReturnStep`. The chain of a file is defined as the least
set closed under the links, and the only fact needed of it, that its members are
clusters in use, is `ChainIsUsed`.

`NoTaskLocksTwice` needs to know why `FF_DecreaseFreeClusters`, called with the lock
held, does not search: `AllCareful` says that a task that has claimed a cluster with
the lock held finds the hint above 0 for as long as it has the lock.
`SearchesStartLowEnough` needs `HintFollows`: a free cluster below the hint was
freed by a task that is still in its loop and will lower the hint (`ulLastFree`) to
it before it gives the lock back.

`TheCountIsExact` proves `CountIsExactUnlessRaced`. At rest the count can only be right
if at every moment it is wrong by exactly what the tasks have not reported yet.
`TakenBy` and `GivenBy` say what each task has claimed and freed that the count does not
know of; `Due` is the number of free clusters with the first added and the second taken
away. A sum over any number of tasks is the size of a set with so many entries for each
(`Ledger`, `LedgerStep`). `CountInv` says that, unless an access failed or the count was
raced, the count is `Due` modulo 2^32 or unknown; that a task that has counted and not
assigned yet is alone and holds `Due`; and (`Modest`) that `FF_ExtendDirectory` adds one
cluster, which is why it may test `done = 1`. Steps on the FAT move a cluster between
the free ones and a ledger and leave `Due` (`CalmStep`), an adjustment changes both
sides by the same (`AdjustCountBalance`), and `FF_CountFreeClusters` finds every ledger
empty: nobody else is at the count and the lock keeps everybody out of the loops
(`RecountBalance`). It also needs that a cluster outside the range that is handed out is
never freed, since for FAT12 it is not counted (`OthersAreFree`, whatever fails).

**FFFileProofs.** Two invariants of what is in memory, `Typed` and `Sound`, and two of
what is on the disk, `KeptTyped` and `KeptSound`, together `IInv`. `Typed` holds whatever fails.
Beside types it bounds the numbers of a transfer: what is left to move stays inside
the file and the caller's length, pieces begin where the place in the code says they
do (`AlignedAt`), and a run has as many clusters as are left and as follow each
other (`RunTyped`). `Sound` holds while `astray` is empty. It says that the clusters
of the file are one chain (`Links`: a sequence of distinct clusters, each the link
of the one before), and, for each place in a call, how far that chain reaches
against the size, the position and the entry (`GrowSound`, `MoveSound`,
`CloseSound`, `HomeSound`). That is what the six properties need and do not say:
`CursorInSync`, for instance, is kept by a walk only if the walk ends on the chain,
and that depends on the chain reaching to the position, which in turn is what an
earlier `FF_ExtendFile` has established. The walks themselves are recursive
functions in the code's loops; `TraverseOnChain`, `LengthOnChain` and `SequentialIs`
say what they answer on a chain of any length, by induction in the set form of
FFRecursion. Positions are quotients and remainders of unknown divisors
(`PositionsAreUnique`, `PlaceInReach`), so the theorems hold for every size of
sector and cluster. What a transfer keeps is proved once for a piece within a
cluster (`PieceSound`) and once for a run (`RunSound`). `Sound` implies each
property of the run `files` (`SoundCursor`, `SoundLength`, `SoundBytes`,
`SoundReads`, `SoundEntry`, `SoundClose`). A read that has failed may have more than a
sector left for its last piece, which is why `MoveSound` excepts it; the rest
of such a read is wrong, and `ReadsFindWhatWasWritten` says so.

`KeptSound` is what a power loss meets. The cache may write back any version of any
sector since the last flush, so it speaks of all of them: today's versions are among them
(`Recent`), each entry that counts units names the first cluster of the handle
(`EntryFits`), and of the clusters that the handle counts on the disk has every link,
and has the last one claimed (`ChainHeld`). The last part holds only because
`FF_ExtendFile` flushes the cache before it enlarges the length that the handle knows:
while it adds clusters `Known` is still the old length. Not of the first cluster: nothing
flushes its claim before the entry that names it. Whatever mixture of versions is on the
disk, `DiskServes` shows that the entry there leads through a chain as long as its size
needs, except in the state named `Fresh`: an entry on the disk whose first cluster may be
free there. TLC checked `IInv` on the instance of
`files` before it was proved. Two points came out of the proof: a run ends where a
hop from it would not go on, even if that hop stays at the end of the chain, so
`Sequential` now says it by the walk and not by the link; and the modes have to be
those `FF_Open` is documented with, since a truncating reader would shorten what it
may not write.

**FFVolumeProofs.** `LayoutsAreGood` is about one call: for every partition of every
disk what `FF_Format` chooses has its parts in the partition in order. It follows
from the arithmetic of one turn of `prvFormatGetClusterSize` (`TryFits`), cluster
size by cluster size. `IInv` carries it through behaviours: the disk keeps its size,
sectors hold numbers of sectors (`AllReadable`), the function at work has a plan
with a good layout and writes inside it (`JobIsPlanned`, `WritesAreGood`), and what
was formatted had one (`FormattedIsGood`). `AllReadable` is needed because
`FF_Format` starts from what the search finds in tables that may be old or half
written. `FormatIsConfined` and `ClustersExist` follow.
The other three properties of the run are about the disk once `FF_Partition` has
succeeded (`asked` is not empty), and `TInv` and `FInv` carry them. `TablesGoOn` says
which of the tables planned are on the disk while `FF_Partition` writes them, last
to first; `AskedIsThere`, that from its success on they all are. `RequestIsFound` then
reads them back the way the search does: a request is a primary table and a chain of
extended ones (`RequestIsChained`), what the search takes from a table are its entries
with sectors (`Picks`), one turn of the search finds one entry and goes on to the next
table (`TurnFinds`), and by induction along the chain all of them are found
(`ChainIsFound`). Formatting does not disturb this: the tables lie
outside every partition (`TablesAreOutside`), and `FF_Format` writes inside one
(`OutsideStays`). So `RequestsAreFound` holds of every disk and every request that
fits, and `PartitionsAreKeptApart` follows from the sums of sizes and gaps
(`RequestIsApart`). `FormatGoesOn` says what of a volume has been written while
`FF_Format` runs, `VolumesStand` that what it returned success for stays: by
`OthersStand`, for partitions that do not overlap do not touch each other's sectors.
That the type chosen is the type mounted is `TypeIsKept`: a FAT16 layout has at least
4086 clusters, and the limits of both sides are compared there. `FormattedVolumesMount`
follows. Two things came out of these proofs. `PartitionsAreAsAsked` had been false of
requests with an empty share, which no request of the run had: it now says `NotEmpty`,
and the run has one. And before the first success, or between its writes, nothing keeps
partitions apart: a disk may come with tables that overlap, so what the run shows of its
disks in those states, old tables behind new ones included, is not a theorem for every
value of `Starts`.

**FFLockingProofs.** `LockInv` is types, `Exclusive` (a lock has one holder, and its
bit is clear as long) and `HandleIsHolder`. It is inductive because a lock is won
only by the task that sees its bit go from set to clear; the wait before that
decides nothing, so it does not matter how it ends. `BitsImplementMutexes` is the
refinement: winning maps to `Acquire`, giving back to `Release`, everything else to
stuttering. **FFNamesProofs** shows that each action of FFNames is a step of
FFLocking or leaves the locks alone (`StepIsLockStep`), so `NamesLocksAreMutexes`
follows for any number of tasks, names, clusters and calls. For `NamesTypeOK` it has to be known where
in the code each function may be, with a handle or without (`AtPlace`, `FnsAt`): only
`FF_Open` and `FF_MkDir` get to a claim, only `FF_Move` has a handle when it makes an entry.

`NInv` carries the three properties of names. Beside the types and `LocksOK` (a task
has asked for or has the locks of its place in the code, and has the directory lock
from its look at a directory to what it does there, `Held`; `FF_Move` gives it back when
its new entry is made and has to ask again, `made`) it says `Sound`, as long as
`strays` is empty: after a stray anything may follow, and `StraysStay` shows that none
is forgotten. `Sound` is about all directories, `EndsAreLast` (nothing behind an end
mark, or a search would miss it) and `DirsAreInRoot`; about clusters, `Owned`: each
belongs to one entry that nobody is removing, to one task that has claimed it, or as
second part to one directory (`part`), or it is lost, and is in use (`Accounts` says what a
step does to the clusters in use and to the parts); about handles, `Apart`: who writes to, removes or moves an entry has it
alone. The rest is what each task knows. `Locals` is what its call says of its handle
and of what it found; `World`, what is on the disk because of it: its entry is in its
slot with its cluster (`HandleNamed`), a directory that it has emptied stays empty
until it is freed, the place planned for a new entry has no end mark before it, a
cluster claimed for a directory is blank and nobody else's. None of these can be
left out: `OneWriter` needs that two handles are of one file only if they have the same
slot, which needs that an entry does not move while it is open, which needs that
who removes it has it alone. `HandleNamed` keeps `Owned`, for without it a task could
free the cluster of another's file.
For a step it is said what it writes (`Effect`: it fills a free slot, puts in the dots,
blanks a directory of its own, writes to the entry of its handle, drops a
long name, or erases its entry) and what becomes of its handle; each action is
shown to be one of these once, and that these keep `Sound` is shown for the task itself
and for the others (`StepSound`). `NamesOneWriter` and `NamesKeepEntries` are parts of
`Sound`, `NamesOverwriteNothing` is `Effect` seen from the slot (`EffectIs`).
`NamesNeverDeadlock` follows from `LocksOK` alone, whatever fails and whatever has gone
astray: the code asks for the FAT lock with the directory lock in its hands
(`FF_ExtendDirectory`) and nowhere for the directory lock with the FAT lock.
`LInv` adds to it, as long as nothing fails either, that every cluster in use has an owner
(`Kept`). Each action is shown to mind what it does with clusters (`ActMinds`): who begins
to remove an entry has freed its cluster or made the other entry of it; who has a
cluster in its hands keeps it, gives it to an entry or frees it; who takes one has it.
`NamesNameClustersOnce` then counts: the entries of a cluster that are being removed are as
many as the tasks that do it, since each has its handle alone (`PartingAre`), and beside
them there is at most one entry or task (`OwnersAre`), and one if the cluster is in use.
`WInv` adds the names. `Shorts`: entries have different short names, and a creator with the
directory lock has one that no entry has, unless it goes by the flags of its first search
or by a look that a fault has spoilt (`Spare`); then the step that makes the entry notes a stray if the name was taken. `Longs`, as
long as nothing fails: a long name stands before the entry it is of, or before the slot its
writer is at (`LongsAreTitles`), and long names with an entry differ (`LongsDiffer`). For this
a task that erases an entry has removed its long name (`Untitled`), and a creator of a long
name has met none in its search (`Unmet`), which `FF_Move` carries from the search for its
destination (`goal`) through those for its source. Each of these is kept by the task that acts
and by the others; `VisibleIs` says what name an entry goes by, and
`NamesAreWellFormed` follows. TLC checked `WInv` first. The proof corrected the model three
times: a creator takes the first search's word although it met the short name of another
file, the second search compares visible names only, and a directory where all
generated names are taken is full. It also corrected the property, which had
spoken of names where an access had failed: a long name may be left without its entry,
and an entry that later gets that short name then goes by it.

**FFMountsProofs.** `MountInv` adds to `OpenFilesAreServed` what a task has in its
hands at each place of a call (`CallsOK`: who goes on to open a file found a disk)
and that a volume whose flush has begun in `FF_Unmount` has no handles
(`FlushedAreUnused`), without which the end of the flush could take a volume from
under a file. Nothing is said of the table: `OpenFilesStayServed` holds whatever the
searches answer. `TableInv` adds the table. At rest it has the root in slot 0, no path
in use twice, none in use from the count on, and length 0 in every emptied slot
(`TableOK`; adding and removing keep it, `AddTable` and `RemoveTable`, which needs that
`FF_FS_Add` takes the slot of its own path if there is one). A walk has a slot below
the table's size in its hands (`WalkOK`), although the count may shrink between its
steps. `FoundInv` is about the answer. For each place of a walk it says what the walk
knows of a table that others change behind it (`SearchOK`): no mount that it has passed
leads to the path (`PassedOK`: the first that does is at its slot or after), a slot that
matched still leads there unless the count has fallen below it (`MatchedOK`), and what
it took at the end was the answer of the table at some moment of the call
(`EndedOK`, `Right`, by `CoverMatch`: where no two mounts lead to the path one inside the
other, the first that does is `Cover`). What others may do meanwhile without spoiling
this is to add, which puts no mount into a slot already passed unless a slot had been
emptied, and to remove the last, which lowers the count; then the walk may find
nothing, and `FindAnswersFromTheTable` says in which case it may. A table with a hole or
with nested mounts on the path makes the walk unreliable, and is named by its shape
("misleading"), whatever the walk answers: `SearchesAnswerFromTheTable`.
For a listing,
`MountListed` says of each mount that nobody touches that its slot is where it was, and
how often it is in the listing on either side of the walk's place; a step of another
task keeps this if it keeps untouched mounts where they are (`KeepsUntouched`, one step
of the listing is `SlotListed`): `MountsStayListed`. TLC checked `TableInv` first. The
proof corrected the model: `MountsAreListed` had said "once" without exception, which is
false of a table of four slots. Remove "/a" and "/b", add "/b" again: it goes to the
slot of "/a", its own keeps the path, and as long as a later slot is in use the listing
shows it twice. `DotsAreTakenRightly` is about the scan for "..": the first ".." that
can be taken out stands behind an ordinary name or behind another ".." at the start of the
path, and in both cases the pair leads nowhere (`DotsLeadBack`); so each round keeps what
the path means (`ShortenSound`), however many rounds there are.

**Only model-checked.** Liveness under fairness (`GetBufferReturns`)
is out of the prover's reach. Every other property of a passing run is a theorem.

## 5. What is not modelled

- Byte layout: FAT12 entries across sectors, mirrored FATs, the FSINFO sector
  (`ff_fat.c` 424-1002 in part, options off by default), directory slots as bytes, long
  names of several slots, a second extension of a directory, and the short name generation (`ff_dir.c` 2170-2510 in part).
- `FF_FindFirst` and `FF_FindNext` with wild cards, the path cache and the hash cache
  (off by default), `FF_SetTime`, `FF_SetPerm`, `ff_stat`, `ff_deltree`, errno mapping,
  removable media (off by default), GPT.
- Conversions and checksums (`ff_string.c`, `ff_crc.c`, `ff_time.c`, `ff_memory.c`): no
  state and no interaction; unit tests reach them.
- Drivers and board support code. About 33000 of the 50000 lines under `src/` are
  vendor HAL code and drivers under `src/portable`: pure I/O, outside the promise that a
  transfer succeeds or fails. Of the file system itself, 16700 lines of `ff_*.c` and
  their headers, the map covers over 40 %.
- The error table (wording), the `/dev` stubs, the unit tests.

The options are those of the default configuration, except that long names and
the working directory are on. `ffconfigPROTECT_FF_FOPEN_WITH_SEMAPHORE` is off.

## 6. What the models show of the code

Beside the findings, which have runs of their own, these were met while
modelling. They are in the models, as strays or as named exceptions of properties.

- Files: a full disk or failed extension leaves `ulEndOfChain` wrong
  (`ff_file.c` 1459); `FF_SetEof` leaves `ulChainLength` (3338); a failed walk sets the
  cursor to cluster 0 (1622) and `FF_Read` ignores it (1821); errors of walks are
  overwritten (`ff_fat.c` 1296, `ff_file.c` 1265); clusters are freed before the entry
  is changed (3137, 3307); a "w" file with shorter new contents keeps clusters.
  A failed `FF_BlockRead` of whole clusters is forgotten: the loop ends, the next call
  overwrites the error, and `FF_Read` reports every byte as read (1928-1938; `FF_Write`
  has the test, 2450). The cache writes its sectors back in the order of its
  descriptors, not of the calls (`ff_ioman.c` 338), and the claim of the first cluster is not
  flushed before the entry that names it: after a power loss an entry may name a free
  cluster.
- Opening: the entry is read before the handle is listed (335, 412), and
  `ulObjectCluster` compared before it is set (425); a size never set (341), also
  after a read that failed.
- Creating, moving, removing: `FF_CreateDirent` trusts flags from before the lock and never
  looks for a long name again; where it does look, it misses the short name that stands for
  a long one, so that renaming "a" to another file's "LONGNA~1" makes two entries with that
  short name (`ff_dir.c` 2407); `FF_ShortNameExists` forgets a read error (283), so that
  a short name in use is taken for free (2492); `FF_CreateClusterChain` may return an error
  with a cluster claimed, which its callers drop (`ff_fat.c` 1245-1266); a long name orphaned by a failed access is
  adopted by the next entry with its short name; `FF_MkDir` on an empty long-named file makes a second entry
  (`ff_dir.c` 3297), and publishes a directory without "." and ".." (3357);
  `FF_Move` takes any error for "absent" (972) and makes the new entry before the old
  one goes (1028), and deletes a file moved to itself with replacing on; `FF_RmDir`
  removes a regular file; `FF_isDirEmpty` takes an unreadable directory for empty
  (`ff_dir.c` 528); a failed unlink leaves a handle in the list (777).
- Unmounting: a file opened during the flush survives (`ff_ioman.c` 1757); `FF_Mount` of a
  volume with open files forgets them (1489).
- Formatting: FAT16 with 65525 clusters or more is mounted as FAT32 (`ff_format.c` 268);
  the boot sector is written before the FATs (415); on a small disk a share may come to no
  sector, `FF_Partition` reports success and the partition does not exist (1027-1065);
  shares of zero are left out of the count but not out of the array (943-950, 1033), so
  that {0, 50, 50} lays out the second share only and reports success, where
  `include/ff_format.h` 51 says that all disk space will be allocated; results of
  `FF_FlushCache` are ignored (789, 903).
- Mount table: an emptied slot that is not the last matches every path
  (`ff_sys.c` 197, 232); nested mounts are found by their order in the table; the
  walk is unprotected and reads the count again after it has matched (250), so that a
  removal meanwhile gives the path to the root; that of `FF_FS_Remove` (184) may clear another's slot. An emptied slot
  keeps its path and is listed as long as a later one is in use: a mount removed
  is still listed, one that has moved to another slot is listed twice
  (`ff_stdio.c` 1442).
- Paths: a name with two dots inside loses its first part ("a..b" becomes "b"), and
  "/a/./.." becomes "/a" (`ff_stdio.c` 2055).

## 7. Plan

Done: the cache, allocation, files, names with locks, volumes, mount points. Left,
most important first:

1. A composition of FFBuffers and FFLocking: a FAT sector that stays pinned when
   the FAT lock is given back (`ff_fat.c` 692).
2. FAT12 packing and the short name generation as pure algorithms against reference
   definitions.
