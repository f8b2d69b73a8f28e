------------------------------- MODULE FFFile -------------------------------
(***************************************************************************)
(* One open file: position, size and cluster cursor of its handle, the     *)
(* cluster chain and the directory entry, and the operations of            *)
(* src/ff_file.c on them: FF_Open, FF_Read, FF_Write, FF_Seek, FF_SetEof,  *)
(* FF_Close and what they call (FF_ExtendFile, FF_SetCluster,              *)
(* FF_WriteClusters, FF_ReadClusters, FF_Truncate).                        *)
(*                                                                         *)
(* A handle that may write is its file's only handle, so the file is the   *)
(* business of one task; the FAT lock and the allocation seen by several   *)
(* tasks are the subject of FFFat.  Positions count units, of which a      *)
(* sector holds SectorUnits: transfers of a part of a sector, of sectors   *)
(* and of clusters are all different.  What a unit contains is abstracted  *)
(* to where it is: `home` remembers in which unit of which cluster each    *)
(* unit of the file was written last.                                      *)
(*                                                                         *)
(* FAT and directory sectors are written through the cache of FFBuffers,   *)
(* which writes them back when it likes and in no particular order.  `kept'*)
(* has, of the directory entry and of the link of each cluster, every      *)
(* version since the last FF_FlushCache: a power loss leaves one of each.  *)
(***************************************************************************)
EXTENDS Integers, FiniteSets

CONSTANTS
  SectorUnits,        \* usSectorSize
  SectorsPerCluster,  \* ulSectorsPerCluster
  Clusters,           \* the clusters that can be handed out
  FreeSets,           \* which of them may be free to begin with
  Modes,              \* the modes the file is opened with
  Lengths,            \* how many units a call reads or writes
  MaxSize,            \* the largest size of the file (a bound)
  FatFails,           \* whether a FAT access may fail
  DiskFails,          \* whether another access may fail
  MayCut              \* whether FF_SetEof is called

ASSUME FileAssumption ==
  /\ SectorUnits \in Nat \ {0} /\ SectorsPerCluster \in Nat \ {0}
  /\ Clusters \subseteq Nat \ {0, 1} /\ IsFiniteSet(Clusters)
  /\ FreeSets \subseteq SUBSET Clusters /\ Lengths \subseteq Nat \ {0}
  /\ \A m \in Modes : m # {} /\ m \subseteq {"R", "W", "A", "C", "T"} /\ ("T" \in m => "W" \in m)
  /\ MaxSize \in Nat
  /\ FatFails \in BOOLEAN /\ DiskFails \in BOOLEAN /\ MayCut \in BOOLEAN

ClusterUnits == SectorUnits * SectorsPerCluster

Free == 0
EOC == 1        \* 0xFFFFFFFF; no link has the value of the reserved cluster 1
Other == -1     \* a cluster of another file
LinkValues == Clusters \cup {Free, EOC, Other}

VARIABLES
  fat,       \* of each cluster: Free, EOC, Other or the next cluster
  entry,     \* the directory entry: first cluster (0 for none) and size
  file,      \* the handle, or Closed
  call,      \* the call in progress and its variables
  kept,      \* of the entry and of each link: what the disk may still have
  home,      \* history: where each unit of the file was written last
  misread,   \* history: a unit was read from another place than it was written to
  astray     \* history: what the cursor of the handle has lived through

vars == <<fat, entry, file, call, kept, home, misread, astray>>

Closed == [mode |-> {}, ptr |-> 0, size |-> 0, object |-> 0, cur |-> 0,
           addr |-> 0, length |-> 0, end |-> 0, extended |-> FALSE]
IsOpen == file.mode # {}

\* `failed': the device has failed a read of this call, and the call goes on.
Idle == [op |-> "none", at |-> "idle", left |-> 0, want |-> 0, done |-> 0, new |-> 0,
         failed |-> FALSE]

-----------------------------------------------------------------------------
(* Arithmetic and the FAT. *)

\* FF_getClusterChainNumber, FF_getClusterPosition, FF_getMajorBlockNumber and
\* FF_getMinorBlockEntry for entries of one unit.
ClusterOf(p) == p \div ClusterUnits
ClusterPosition(p) == p % ClusterUnits
Major(p) == ClusterPosition(p) \div SectorUnits
Minor(p) == ClusterPosition(p) % SectorUnits

Least(m, n) == IF m < n THEN m ELSE n
CeilDiv(m, n) == (m + n - 1) \div n

IsEnd(e) == e \in {Free, EOC}                          \* FF_isEndOfChain

\* The link of a cluster; what is not a cluster ends the chain at once.
Link(c) == IF c \in Clusters THEN fat[c] ELSE EOC

\* FF_TraverseFAT: n links on from c, at most to the end of the chain.
TraverseFAT(c, n) ==
  LET hop[i \in 0 .. n] ==
        IF i = 0 THEN c
        ELSE LET d == hop[i - 1] IN IF IsEnd(Link(d)) THEN d ELSE Link(d)
  IN  hop[n]

FindEndOfChain(c) == IF IsEnd(c) THEN c ELSE TraverseFAT(c, Cardinality(Clusters))

\* FF_GetChainLength.
ChainLength(c) ==
  IF IsEnd(c) THEN 0
  ELSE 1 + CHOOSE n \in 0 .. Cardinality(Clusters) :
             /\ IsEnd(Link(TraverseFAT(c, n)))
             /\ \A m \in 0 .. n - 1 : ~ IsEnd(Link(TraverseFAT(c, m)))

Chain == {TraverseFAT(entry.cluster, i) : i \in 0 .. ChainLength(entry.cluster) - 1}

\* FF_GetSequentialClusters: how many of the next n clusters follow c on disk.
Sequential(c, n) ==
  CHOOSE k \in 0 .. n : /\ \A i \in 1 .. k : TraverseFAT(c, i) = c + i
                        /\ k < n => TraverseFAT(c, k + 1) # c + (k + 1)

\* FF_UnlinkClusterChain, all of it or what follows c.
Unlinked(c, keep) ==
  LET rest == {TraverseFAT(c, i) : i \in 0 .. ChainLength(c) - 1}
  IN  [d \in Clusters |-> IF d = c /\ keep THEN EOC
                          ELSE IF d \in rest THEN Free ELSE fat[d]]

\* FF_SetCluster: the cursor is moved on from where it is, or from the start.
MovesCluster(f) == ClusterOf(f.ptr) # f.cur
SetCluster(f) ==
  LET k == ClusterOf(f.ptr) IN
  IF k > f.cur
  THEN [f EXCEPT !.addr = TraverseFAT(f.addr, k - f.cur), !.cur = k]
  ELSE IF k < f.cur
  THEN [f EXCEPT !.addr = TraverseFAT(f.object, k), !.cur = k]
  ELSE f

\* FF_FileLBA: n units from offset o of cluster c on; clusters follow each other.
Units(c, o, n) ==
  [i \in 0 .. n - 1 |-> <<c + ((o + i) \div ClusterUnits), (o + i) % ClusterUnits>>]

-----------------------------------------------------------------------------
Calls(op, at) == call.op = op /\ call.at = at
Step(at) == call' = [call EXCEPT !.at = at]
Return == call' = Idle

Below(n) == [i \in {k \in DOMAIN home : k < n} |-> home[i]]

FatFault(why) == FatFails /\ astray' = astray \cup {why}
NoFault == UNCHANGED astray

Writes(m) == m \cap {"W", "A", "C"} # {}

\* What is changed joins what the disk may have.
Written == kept' = [entry |-> kept.entry \cup {entry'},
                    fat |-> [c \in Clusters |-> kept.fat[c] \cup {fat'[c]}]]

\* What the disk has when nothing waits in the cache.
Flushed == [entry |-> {entry}, fat |-> [c \in Clusters |-> {fat[c]}]]

\* FF_FlushCache, which never fails: a sector the device does not take, or one
\* that another task holds, stays behind.
FlushCache(why) ==
  \/ kept' = Flushed /\ astray' = astray \cup why
  \/ UNCHANGED kept /\ astray' = astray \cup why \cup {"flush"}

\* FF_Open of this file, with what GetModeBits makes of the mode.  Truncating
\* only forgets the size.
Open(m) ==
  /\ call = Idle /\ ~ IsOpen
  /\ m \in Modes
  /\ file' = [Closed EXCEPT !.mode = m, !.object = entry.cluster,
                            !.addr = entry.cluster,
                            !.size = IF "T" \in m THEN 0 ELSE entry.size]
  /\ home' = IF "T" \in m THEN <<>> ELSE home
  /\ UNCHANGED <<fat, entry, call, kept, astray, misread>>

\* Mutant: a read does not stop at the end of the file.
ReadLengthUnbounded(n) == n

ReadLength(n) == Least(n, file.size - file.ptr)

\* FF_Read and FF_GetC.
Read(n) ==
  /\ call = Idle /\ IsOpen
  /\ "R" \in file.mode /\ file.ptr < file.size
  /\ call' = [Idle EXCEPT !.op = "read", !.at = "head",
                          !.left = ReadLength(n)]
  /\ UNCHANGED <<fat, entry, file, kept, home, astray, misread>>

\* FF_Write and FF_PutC; with FF_MODE_APPEND they seek to the end first.
Write(n) ==
  /\ call = Idle /\ IsOpen
  /\ "W" \in file.mode
  /\ LET append == "A" \in file.mode /\ file.ptr < file.size
         f == IF append THEN [file EXCEPT !.ptr = file.size] ELSE file IN
     /\ f.ptr + n <= MaxSize
     /\ \/ /\ file' = IF append THEN SetCluster(f) ELSE file
           /\ call' = [Idle EXCEPT !.op = "write", !.left = n, !.want = f.ptr + n + 1,
                         !.at = IF f.size = 0 /\ f.object = 0 THEN "first" ELSE "length"]
           /\ NoFault
        \/ /\ append /\ MovesCluster(f) /\ FatFault("seek")
           /\ file' = [f EXCEPT !.addr = 0]
           /\ UNCHANGED call
        \/ /\ append /\ DiskFails
           /\ UNCHANGED <<file, call, astray>>
  /\ UNCHANGED <<fat, entry, kept, home, misread>>

-----------------------------------------------------------------------------
(* FF_ExtendFile. *)

\* The first cluster of an empty file: claimed, then entered, then noted.
ClaimFirst ==
  /\ Calls("write", "first")
  /\ \/ \E c \in Clusters :
          /\ fat[c] = Free
          /\ fat' = [fat EXCEPT ![c] = EOC]
          /\ file' = [file EXCEPT !.addr = c]
          /\ call' = [call EXCEPT !.at = "enter", !.new = c]
     \/ /\ DiskFails \/ \A c \in Clusters : fat[c] # Free
        /\ file' = [file EXCEPT !.addr = 0]
        /\ Return
        /\ UNCHANGED fat
  /\ UNCHANGED <<entry, home, misread, astray>>
  /\ Written

EnterFirst ==
  /\ Calls("write", "enter")
  /\ \/ /\ entry' = [entry EXCEPT !.cluster = call.new]
        /\ file' = [file EXCEPT !.object = call.new, !.length = 1, !.cur = 0,
                                !.end = call.new]
        /\ Step("length")
     \/ /\ DiskFails
        /\ entry' \in {entry, [entry EXCEPT !.cluster = call.new]}
        /\ Return
        /\ UNCHANGED file
  /\ UNCHANGED <<fat, home, misread, astray>>
  /\ Written

\* The length of the chain is counted once, and kept.  FF_GetChainLength leaves
\* the end mark it has found in ulEndOfChain, and its error is overwritten.
CountChain ==
  /\ Calls("write", "length")
  /\ \/ /\ file' = IF file.length # 0 THEN file
                   ELSE [file EXCEPT !.length = ChainLength(file.object), !.end = EOC]
        /\ NoFault
     \/ /\ file.length = 0 /\ FatFault("count")
        /\ UNCHANGED file
  /\ call' = LET needed == CeilDiv(call.want, ClusterUnits)
                 short == needed - file'.length IN
             IF short > 0 THEN [call EXCEPT !.at = "grow", !.want = short]
             ELSE [call EXCEPT !.at = "head"]
  /\ UNCHANGED <<fat, entry, kept, home, misread>>

\* Mutant: the cursor stays where it was before the chain grew.
ResyncNever(f) == f

\* FF_ExtendFile after its loop: a cursor at the last cluster of the longer
\* chain is set to its end; the first time a file grows at its end, the cursor
\* is set to the position.
Resync(f) ==
  LET g == IF f.cur = f.length - 1 /\ f.addr # f.end
           THEN [f EXCEPT !.addr = f.end] ELSE f
      k == ClusterOf(g.ptr)
  IN  IF g.ptr = g.size /\ ~ g.extended
      THEN [g EXCEPT !.extended = TRUE, !.addr = TraverseFAT(g.object, k), !.cur = k]
      ELSE g

\* One cluster claimed and linked; `done' counts them.
Grow ==
  /\ Calls("write", "grow")
  /\ call.done < call.want
  /\ LET last == IF call.done = 0 THEN FindEndOfChain(file.addr) ELSE call.new IN
     \E c \in Clusters :
       /\ fat[c] = Free
       /\ fat' = [d \in Clusters |-> IF d = c THEN EOC ELSE IF d = last THEN c ELSE fat[d]]
       /\ call' = [call EXCEPT !.done = call.done + 1, !.new = c]
  /\ UNCHANGED <<entry, file, home, misread, astray>>
  /\ Written

\* Mutant: with ffconfigFILE_EXTEND_FLUSHES_BUFFERS 0 the links stay in the cache.
ExtendFlushesNothing(why) == UNCHANGED kept /\ astray' = astray \cup why

\* By default the new links are flushed before the size can count on them.
ExtendFlushes(why) == FlushCache(why)

\* Mutant: the chain is taken to have grown by one cluster.
GrownByOne(f, n) == [f EXCEPT !.length = @ + 1]

Grown(f, n) == [f EXCEPT !.length = @ + n]

EndGrow ==
  /\ Calls("write", "grow")
  /\ call.done = call.want
  /\ LET f == Resync(Grown([file EXCEPT !.end = call.new], call.done)) IN
     \/ /\ file' = f
        /\ \/ call' = [call EXCEPT !.at = "head", !.done = 0, !.want = 0, !.new = 0]
           \/ DiskFails /\ Return        \* FF_DecreaseFreeClusters
        /\ ExtendFlushes({})
     \/ /\ f.extended # file.extended /\ FatFails
        /\ file' = [f EXCEPT !.addr = 0]
        /\ Return
        /\ ExtendFlushes({"seek"})
  /\ UNCHANGED <<fat, entry, home, misread>>

\* No free cluster, or a FAT access fails: what was linked stays, and the end
\* of the chain is not noted.
StopGrow ==
  /\ Calls("write", "grow")
  /\ call.done < call.want
  /\ FatFails \/ \A c \in Clusters : fat[c] # Free
  /\ file' = Resync(Grown(file, call.done))
  /\ ExtendFlushes({"grow"})
  /\ Return
  /\ UNCHANGED <<fat, entry, home, misread>>

-----------------------------------------------------------------------------
(* The transfers of FF_Read and FF_Write, one piece at a time: the rest of a *)
(* sector, the rest of a cluster, clusters, sectors, a part of a sector.     *)

IsTransfer(at) == call.op \in {"read", "write"} /\ call.at = at

\* The units of the file from p on move from or to these places.
Transfer(p, unit) ==
  IF call.op = "write"
  THEN /\ home' = [i \in (DOMAIN home) \cup {p + k : k \in DOMAIN unit} |->
                     IF i - p \in DOMAIN unit THEN unit[i - p] ELSE home[i]]
       /\ UNCHANGED misread
  ELSE /\ misread' = (misread \/ (/\ ~ call.failed
                                   /\ \E k \in DOMAIN unit :
                                        p + k \in DOMAIN home /\ home[p + k] # unit[k]))
       /\ UNCHANGED home

Advance(f, n) ==
  [f EXCEPT !.ptr = @ + n,
            !.size = IF call.op = "write" /\ f.ptr + n > @ THEN f.ptr + n ELSE @]

Moved(f, place, n, next) ==
  /\ Transfer(f.ptr, place)
  /\ file' = Advance(f, n)
  /\ call' = IF call.left = n THEN Idle
             ELSE [call EXCEPT !.at = next, !.left = @ - n]

\* n units from or to these places.  When the buffer of a part of a sector cannot
\* be released, a read has moved the position all the same.
Move(f, place, n, next) ==
  \/ Moved(f, place, n, next)
  \/ /\ DiskFails
     /\ file' \in {f, IF call.op = "read" /\ call.at \in {"head", "tail"} THEN Advance(f, n) ELSE f}
     /\ Return
     /\ UNCHANGED <<home, misread>>

\* A failing FF_SetCluster loses the address of the cursor, not its number.
CursorIsLost == /\ MovesCluster(file)
                /\ FatFault("seek")
                /\ file' = [file EXCEPT !.addr = 0]

\* A piece of n units that starts at offset rel of the sector of the position.
Piece(n, rel, next) ==
  \/ LET f == SetCluster(file) IN
     Move(f, Units(f.addr, Major(f.ptr) * SectorUnits + rel, n), n, next) /\ NoFault
  \/ CursorIsLost /\ Return /\ UNCHANGED <<home, misread>>

Skip(next) == Step(next) /\ UNCHANGED <<file, home, misread, astray>>

\* FF_Read does not look at what its first FF_SetCluster returned, and reads
\* sector 0 of the disk.
ReadAstray(n, rel) ==
  /\ call.op = "read" /\ MovesCluster(file)
  /\ FatFault("seek")
  /\ Move([file EXCEPT !.addr = 0], Units(0, rel, n), n, "rest")

Head ==
  /\ IsTransfer("head")
  /\ LET rel == Minor(file.ptr)
         n == IF rel + call.left <= SectorUnits THEN call.left ELSE SectorUnits - rel
     IN IF n = call.left \/ rel # 0
        THEN Piece(n, rel, "rest") \/ ReadAstray(n, rel)
        ELSE /\ \/ file' = SetCluster(file) /\ Step("rest") /\ NoFault
                \/ CursorIsLost /\ IF call.op = "read" THEN Step("rest") ELSE Return
             /\ UNCHANGED <<home, misread>>
  /\ UNCHANGED <<fat, entry, kept>>

\* Mutant: a cluster's worth of sectors whatever the position.
RestUnitsWhole(p) == ClusterUnits

\* What is left of the cluster, in whole sectors.
RestUnits(p) == (SectorsPerCluster - (ClusterPosition(p) \div SectorUnits)) * SectorUnits

RestOfCluster ==
  /\ IsTransfer("rest")
  /\ LET pos == ClusterPosition(file.ptr) IN
     IF pos # 0 /\ pos + call.left >= ClusterUnits
     THEN Piece(RestUnits(file.ptr), 0, "clusters")
     ELSE Skip("clusters")
  /\ UNCHANGED <<fat, entry, kept>>

\* FF_ReadClusters and FF_WriteClusters: runs of clusters that follow each other
\* on the disk; `want' clusters to go, `done' behind.
BeginRuns ==
  /\ IsTransfer("clusters")
  /\ IF call.left < ClusterUnits
     THEN Skip("sectors")
     ELSE /\ \/ /\ file' = SetCluster(file)
                /\ call' = [call EXCEPT !.at = "run", !.done = 0,
                                        !.want = call.left \div ClusterUnits]
                /\ NoFault
             \/ CursorIsLost /\ Return
          /\ UNCHANGED <<home, misread>>
  /\ UNCHANGED <<fat, entry, kept>>

\* Mutant: the number of the cursor falls behind its address.
AfterRunShort(f, run) == [f EXCEPT !.addr = TraverseFAT(@, run), !.cur = @ + run - 1]

AfterRun(f, run) == [f EXCEPT !.addr = TraverseFAT(@, run), !.cur = @ + run]

\* An error of FF_GetSequentialClusters is overwritten: one cluster is moved.
RunLengths ==
  {IF call.want > 1 THEN 1 + Sequential(file.addr, call.want - 1) ELSE 1}
    \cup (IF FatFails THEN {1} ELSE {})

Run ==
  /\ IsTransfer("run")
  /\ \E run \in RunLengths :
     LET n == (call.done + run) * ClusterUnits
         place == Units(file.addr, 0, run * ClusterUnits)
         f == AfterRun(file, run)
     IN
     \/ /\ Transfer(file.ptr + call.done * ClusterUnits, place)
        /\ IF run < call.want
           THEN /\ file' = f
                /\ call' = [call EXCEPT !.done = @ + run, !.want = @ - run]
           ELSE /\ file' = Advance(f, n)
                /\ call' = IF call.left = n THEN Idle
                           ELSE [call EXCEPT !.at = "sectors", !.left = @ - n,
                                             !.done = 0, !.want = 0]
        /\ NoFault
     \/ /\ DiskFails /\ Return
        /\ UNCHANGED <<file, home, misread, astray>>
     \/ /\ FatFault("seek") /\ Return
        /\ Transfer(file.ptr + call.done * ClusterUnits, place)
        /\ file' = [file EXCEPT !.addr = 0]
  /\ UNCHANGED <<fat, entry, kept>>

SectorRun(p, n) ==
  SectorUnits * Least(n \div SectorUnits,
                      SectorsPerCluster - ((p \div SectorUnits) % SectorsPerCluster))

\* The device fails to move the sectors.  FF_Write returns the error; FF_Read
\* only leaves its loop, and forgets it.
SectorsFail ==
  /\ call' = IF call.op = "read" THEN [call EXCEPT !.at = "tail", !.failed = TRUE] ELSE Idle
  /\ UNCHANGED <<home, misread>>

Sectors ==
  /\ IsTransfer("sectors")
  /\ IF call.left < SectorUnits
     THEN Skip("tail")
     ELSE \/ LET n == SectorRun(file.ptr, call.left)
                 f == SetCluster(file)
             IN  /\ \/ Moved(f, Units(f.addr, Major(f.ptr) * SectorUnits, n), n, "sectors")
                    \/ DiskFails /\ file' = f /\ SectorsFail
                 /\ NoFault
          \/ CursorIsLost /\ SectorsFail
  /\ UNCHANGED <<fat, entry, kept>>

\* What is left is taken from one buffer.  When the sectors before it have failed
\* that is more than a sector, and goes on behind the buffer.
BufferUnits(c, o, n) ==
  [i \in 0 .. n - 1 |-> IF i < SectorUnits THEN <<c, o + i>> ELSE <<Other, i>>]

Tail ==
  /\ IsTransfer("tail")
  /\ LET n == call.left IN
     \/ LET f == SetCluster(file) IN
        Move(f, BufferUnits(f.addr, Major(f.ptr) * SectorUnits, n), n, "idle") /\ NoFault
     \/ CursorIsLost /\ Return /\ UNCHANGED <<home, misread>>
  /\ UNCHANGED <<fat, entry, kept>>

-----------------------------------------------------------------------------
\* FF_Seek: it flushes first; the position is at most the size.
Seek(p) ==
  /\ call = Idle /\ IsOpen
  /\ LET f == [file EXCEPT !.ptr = p] IN
     IF p <= file.size /\ p # file.ptr
     THEN \/ file' = SetCluster(f) /\ FlushCache({})
          \/ MovesCluster(f) /\ FatFails /\ file' = [f EXCEPT !.addr = 0] /\ FlushCache({"seek"})
     ELSE UNCHANGED file /\ FlushCache({})
  /\ UNCHANGED <<fat, entry, call, home, misread>>

\* FF_SetEof: the file ends at the position.
SetEof ==
  /\ MayCut
  /\ call = Idle /\ IsOpen
  /\ Writes(file.mode)
  /\ file' = [file EXCEPT !.size = file.ptr]
  /\ home' = Below(file.ptr)
  /\ call' = IF file.object # 0 THEN [Idle EXCEPT !.op = "eof", !.at = "truncate"]
             ELSE Idle
  /\ UNCHANGED <<fat, entry, kept, astray, misread>>

EndsOnBoundary(f) == f.size % ClusterUnits = 0 /\ f.object # 0

\* FF_Close: a file that ends on a boundary has a cluster too many.
BeginClose ==
  /\ call = Idle /\ IsOpen
  /\ call' = [Idle EXCEPT !.op = "close",
                !.at = IF ~ Writes(file.mode) THEN "leave"
                       ELSE IF EndsOnBoundary(file)
                       THEN "truncate" ELSE "size"]
  /\ UNCHANGED <<fat, entry, file, kept, home, astray, misread>>

\* Mutant: closing the file keeps the cluster ahead too.
ClustersNeededAhead == (file.size + ClusterUnits) \div ClusterUnits

\* FF_Truncate keeps the cluster of the position after the end, unless the file
\* is being closed.
ClustersNeeded ==
  IF call.op = "close" THEN file.size \div ClusterUnits
  ELSE (file.size + ClusterUnits) \div ClusterUnits

AfterTruncate == IF call.op = "close" THEN Step("size") ELSE Return
TruncateFailed == IF call.op = "close" THEN Step("fail") ELSE Return

Truncate ==
  /\ call.at = "truncate"
  /\ LET count == ChainLength(file.object)
         last == TraverseFAT(file.object, ClustersNeeded - 1)
         rest == IF ClustersNeeded = 0 THEN Unlinked(file.object, FALSE)
                 ELSE Unlinked(last, TRUE)
     IN
     \/ /\ count <= ClustersNeeded
        /\ AfterTruncate
        /\ UNCHANGED <<fat, astray>>
     \/ /\ count > ClustersNeeded
        /\ fat' = rest
        /\ IF ClustersNeeded = 0 THEN Step("detach") ELSE AfterTruncate
        /\ astray' = astray \cup (IF call.op = "eof" /\ (file.length # 0 \/ file.cur >= ClustersNeeded)
                                  THEN {"cut"} ELSE {})
     \/ /\ FatFault("count")
        /\ AfterTruncate
        /\ UNCHANGED fat
     \/ /\ count > ClustersNeeded
        /\ FatFault("unlink")
        /\ fat' \in {fat, rest}
        /\ TruncateFailed
  /\ UNCHANGED <<entry, file, home, misread>>
  /\ Written

\* An empty file gives up its first cluster: the entry follows the FAT.
Detach ==
  /\ call.at = "detach"
  /\ \/ /\ entry' = [entry EXCEPT !.cluster = 0]
        /\ file' = [file EXCEPT !.object = 0, !.length = 0, !.cur = 0, !.end = 0]
        /\ AfterTruncate
        /\ NoFault
     \/ /\ DiskFails /\ astray' = astray \cup {"detach"}
        /\ TruncateFailed
        /\ UNCHANGED <<entry, file>>
  /\ UNCHANGED <<fat, home, misread>>
  /\ Written

NewEntry(e, size) ==
  [cluster |-> IF size = 0 THEN 0 ELSE e.cluster, size |-> size]

PutSize ==
  /\ Calls("close", "size")
  /\ \/ entry' = NewEntry(entry, file.size) /\ Step("leave") /\ NoFault
     \/ DiskFails /\ astray' = astray \cup {"close"} /\ Step("fail") /\ UNCHANGED entry
  /\ UNCHANGED <<fat, file, home, misread>>
  /\ Written

\* Without an error the cache is flushed.
Leave ==
  /\ \/ Calls("close", "leave") /\ FlushCache({})
     \/ Calls("close", "fail") /\ UNCHANGED <<kept, astray>>
  /\ file' = Closed
  /\ home' = Below(entry.size)
  /\ Return
  /\ UNCHANGED <<fat, entry, misread>>

\* The chain is cut before the entry follows.
BeingShortened ==
  IsOpen /\ ((\E e \in kept.entry : file.size < e.size) \/ call.at = "detach")

\* The links that may not have reached the disk.
Unwritten == {c \in Clusters : kept.fat[c] # {fat[c]}}

\* Power is lost: of everything not yet flushed the disk has one version or another.
Crash ==
  /\ IsOpen
  /\ \E e \in kept.entry, link \in [Unwritten -> LinkValues] :
       /\ \A c \in Unwritten : link[c] \in kept.fat[c]
       /\ entry' = e
       /\ fat' = [c \in Clusters |-> IF c \in Unwritten THEN link[c] ELSE fat[c]]
  /\ kept' = Flushed'
  /\ file' = Closed
  /\ call' = Idle
  /\ home' = Below(entry'.size)
  /\ astray' = astray \cup (IF kept # Flushed \/ BeingShortened THEN {"crash"} ELSE {})
  /\ UNCHANGED misread

-----------------------------------------------------------------------------
Init ==
  /\ \E F \in FreeSets : fat = [c \in Clusters |-> IF c \in F THEN Free ELSE Other]
  /\ entry = [cluster |-> 0, size |-> 0]
  /\ file = Closed
  /\ call = Idle
  /\ kept = Flushed
  /\ home = <<>>
  /\ misread = FALSE
  /\ astray = {}

Next ==
  \/ \E m \in Modes : Open(m)
  \/ \E n \in Lengths : Read(n) \/ Write(n)
  \/ \E p \in 0 .. MaxSize : Seek(p)
  \/ SetEof \/ BeginClose \/ Truncate \/ Detach \/ PutSize \/ Leave
  \/ ClaimFirst \/ EnterFirst \/ CountChain \/ Grow \/ EndGrow \/ StopGrow
  \/ Head \/ RestOfCluster \/ BeginRuns \/ Run \/ Sectors \/ Tail
  \/ Crash

Spec == Init /\ [][Next]_vars
-----------------------------------------------------------------------------
(* What correctness means here. *)

TypeOK ==
  /\ fat \in [Clusters -> LinkValues]
  /\ entry \in [cluster : Clusters \cup {0}, size : 0 .. MaxSize]
  /\ file.mode \subseteq {"R", "W", "A", "C", "T"}
  /\ file.size \in 0 .. MaxSize /\ file.ptr \in 0 .. MaxSize
  /\ file.object \in Clusters \cup {0}
  /\ call.op \in {"none", "read", "write", "eof", "close"}
  /\ DOMAIN home \subseteq 0 .. MaxSize - 1
  /\ misread \in BOOLEAN

\* The chain and the handle are not being changed by a call under way.
Settled == call.at \notin {"enter", "grow", "truncate", "detach", "size", "leave", "fail"}

Start == IF IsOpen THEN file.object ELSE entry.cluster
Size == IF IsOpen THEN file.size ELSE entry.size

\* The comment in FF_ExtendFile: "We must ensure that the ulAddrCurrentCluster is
\* not out-of-sync with the CurrentCluster number."  One step behind the last
\* cluster the address is that of the last cluster.
CursorInSync ==
  IsOpen /\ Settled /\ file.object # 0 => file.addr = TraverseFAT(file.object, file.cur)

\* That holds as long as no FAT access has failed under the handle, no extension
\* was cut short by a full disk, and the file was not cut after a write.
CursorInSyncUnlessAstray == astray = {} => CursorInSync

\* Every unit that was written is where the chain leads to, so a later open finds
\* it, no two units share a place, and the file ends within its chain.
BytesAreInPlace ==
  astray = {} /\ Settled =>
    \A i \in {k \in DOMAIN home : k < Size} :
      /\ ClusterOf(i) < ChainLength(Start)
      /\ home[i] = <<TraverseFAT(Start, ClusterOf(i)), ClusterPosition(i)>>

\* A read gets each unit from the place it was last written to, whatever mixture
\* of partial sectors, sectors and runs of clusters either was carried out with.
\* Not so the rest of a read one of whose sectors the device has failed: FF_Read
\* forgets that error (ff_file.c:1928) and returns other units as if they were these.
ReadsFindWhatWasWritten ==
  astray = {} => ~ misread

\* ulChainLength, once known, is the length of the chain.
LengthIsKnown ==
  astray = {} /\ Settled /\ file.length # 0 => file.length = ChainLength(file.object)

\* The units the entry counts are in clusters that are linked one to the next, and
\* none of them is free or another file's.
Serves(F, e) ==
  LET n == CeilDiv(e.size, ClusterUnits) IN
  n > 0 => \E s \in [0 .. n - 1 -> Clusters] :
             /\ s[0] = e.cluster
             /\ \A i, j \in 0 .. n - 1 : s[i] = s[j] => i = j
             /\ \A i \in 1 .. n - 1 : F[s[i - 1]] = s[i]
             /\ F[s[n - 1]] \notin {Free, Other}

\* The first cluster of the file has been claimed in the cache only: the entry that
\* names it may reach the disk, and the claim not.
Fresh == \E e \in kept.entry : e.cluster # 0 /\ Free \in kept.fat[e.cluster]

\* When the handle goes, closed or with the power, the entry on the disk names no
\* more than its chain there holds, in whatever order the cache has written them:
\* FF_ExtendFile flushes the links of a chain before a size can count on them.
EntryIsServable ==
  [][IsOpen /\ ~ IsOpen' /\ astray = {} /\ ~ BeingShortened /\ ~ Fresh
       => Serves(fat', entry')]_vars

\* The cluster that FF_ExtendFile keeps ahead of the position is given back when a
\* file that ends on a boundary is closed, and an empty file keeps none.
NoClusterToSpare ==
  [][call.at = "leave" /\ Writes(file.mode) /\ astray' = {} /\ entry.size % ClusterUnits = 0
       => ChainLength(entry.cluster) = entry.size \div ClusterUnits]_vars
=============================================================================
