------------------------------ MODULE FFVolume ------------------------------
(***************************************************************************)
(* The life of a disk: FF_Partition and FF_Format (src/ff_format.c) write  *)
(* tables, boot sectors, FATs and root directories one sector after the    *)
(* other, any write may fail and the power may fail between any two.       *)
(* FF_PartitionSearch and FF_Mount (src/ff_ioman.c) must later find on the *)
(* disk what was laid out: they share nothing with the writers but the     *)
(* sectors.                                                                *)
(*                                                                         *)
(* A sector is what a reader can tell of it.  Sectors of 512 bytes, two    *)
(* FATs, default configuration.  The numbers of sectors are those that     *)
(* fit in the int32_t of FF_FormatDisk, and disks are larger than what     *)
(* FF_Partition sets apart, so that no sum or difference of them wraps.    *)
(***************************************************************************)
EXTENDS Integers, Sequences, FiniteSets

CONSTANTS
  Starts,        \* disks to begin with: what is on them and their sizes
  Requests,      \* what FF_Partition is asked for
  MaxParts,      \* ffconfigMAX_PARTITIONS
  MaxJobs, MaxFaults   \* how many functions are called, how many writes fail (bounds)

ASSUME BoundsAssumption == MaxParts \in 1 .. 4 /\ MaxJobs \in Nat /\ MaxFaults \in Nat

VARIABLES
  size,        \* the sectors of the disk
  disk,        \* what is in those that were written
  job,         \* the function that runs, and the writes it has still to do
  asked,       \* history: what FF_Partition made when it last returned success
  formatted,   \* history: what FF_Format has returned success for, by first sector
  jobs, faults

vars == <<size, disk, job, asked, formatted, jobs, faults>>

Least(m, n) == IF m < n THEN m ELSE n

-----------------------------------------------------------------------------
(* Sectors. *)

Blank == [kind |-> "blank"]
Fat == [kind |-> "fat"]                  \* the first of a FAT: FAT[0] has its mark
Label == [kind |-> "label"]              \* the first of the root directory
Info == [kind |-> "info"]                \* FSInfo
Table(parts) == [kind |-> "table", parts |-> parts]
Boot(g) == [kind |-> "boot", reserved |-> g.reserved, per |-> g.per, spc |-> g.spc,
            roots |-> g.roots, total |-> g.count]

Part(id, start, count) == [id |-> id, start |-> start, count |-> count]
NoPart == Part("none", 0, 0)

Sector(d, lba) == IF lba \in DOMAIN d THEN d[lba] ELSE Blank
INT32_MAX == 2147483647
LBA == 0 .. INT32_MAX                    \* int32_t lFatBeginLBA, not negative

\* What the sectors of a disk may say before anything here has written to it.
Sound(s) ==
  /\ s.kind \in {"blank", "fat", "label", "info", "table", "boot"}
  /\ s.kind = "boot" => s.total \in LBA
  /\ s.kind = "table" =>
       s.parts \in [1 .. 4 -> [id : {"none", "fat", "extended"}, start : LBA, count : LBA]]

Signed(s) == s.kind \in {"table", "boot", "info"}
ReadParts(s) == IF s.kind = "table" THEN s.parts ELSE [i \in 1 .. 4 |-> NoPart]

\* The members of s at a set of places, in order.
Select(s, places) ==
  LET picked[i \in 0 .. Len(s)] ==
        IF i = 0 THEN <<>>
        ELSE LET q == picked[i - 1] IN IF i \in places THEN Append(q, s[i]) ELSE q
  IN  picked[Len(s)]

\* The places of s where there is a partition with a sector.
NotEmpty(s) == {i \in DOMAIN s : s[i].count # 0}

-----------------------------------------------------------------------------
(* Searching: FF_PartitionSearch and FF_ParseExtended. *)

IsExtended(p) == p.id = "extended"

\* A partition in the extended one that begins at `first' may not reach beyond the
\* part of it that the last table gave to this one.
Sane(p, w, first, count) ==
  /\ p.count # 0 /\ ~ IsExtended(p)
  /\ p.start + p.count <= w.count /\ w.at + p.start <= first + count

Capped(found) == SubSeq(found, 1, Least(Len(found), MaxParts))

\* One turn of the loop over the tables of an extended partition.
NextTable(d, w, first, count) ==
  LET parts == ReadParts(Sector(d, w.at))
      here == Select(parts, {i \in 1 .. 4 : Sane(parts[i], w, first, count)})
      links == Select(parts, {i \in 1 .. 4 : IsExtended(parts[i]) /\ parts[i].count # 0})
      found == Capped(w.found \o [i \in DOMAIN here |-> [here[i] EXCEPT !.start = @ + w.at]])
  IN  CASE Len(w.found) >= MaxParts \/ ~ Signed(Sector(d, w.at)) -> [w EXCEPT !.on = FALSE]
        [] links = <<>> -> [w EXCEPT !.found = found, !.on = FALSE]
        [] OTHER -> [w EXCEPT !.found = found, !.at = first + links[1].start,
                              !.count = links[1].count]

\* The loop is left after 100 tables without a partition; a shorter one is enough
\* where that many tables are not on the disk.
ParseExtended(d, p, found) ==
  LET turns == 2 * MaxParts + 2
      walk[k \in 0 .. turns] ==
        IF k = 0 THEN [at |-> p.start, count |-> p.count, found |-> found, on |-> TRUE]
        ELSE LET w == walk[k - 1] IN IF w.on THEN NextTable(d, w, p.start, p.count) ELSE w
  IN  walk[turns].found

\* The partitions found, in order; none stands for an error.
Search(d) ==
  LET mbr == Sector(d, 0)
      parts == ReadParts(mbr)
      primary == {i \in 1 .. 4 : ~ IsExtended(parts[i]) /\ parts[i].count # 0}
      found[i \in 0 .. 4] ==
        IF i = 0 THEN Capped(Select(parts, primary))
        ELSE LET q == found[i - 1] IN
             IF IsExtended(parts[i]) /\ Len(q) < MaxParts THEN ParseExtended(d, parts[i], q)
             ELSE q
  IN  CASE ~ Signed(mbr) -> <<>>
        [] found[4] = <<>> /\ mbr.kind = "boot" -> <<Part("fat", 0, mbr.total)>>
        [] OTHER -> found[4]

-----------------------------------------------------------------------------
(* Mounting. *)

Entries(type) == IF type = 32 THEN 128 ELSE 256        \* in a sector of a FAT

\* prvDetermineFatType: by the number of clusters alone, if FAT[0] has a mark.
TypeByCount(n) == IF n < 4085 THEN 12 ELSE IF n < 65525 THEN 16 ELSE 32

\* Mutant: a volume without a fixed root directory is not taken for FAT32.
TypeCountOnly(n, roots) == TypeByCount(n)

TypeOf(n, roots) == IF roots = 0 THEN 32 ELSE TypeByCount(n)

\* What FF_Mount makes of a boot sector at `begin'.
Volume(b, begin) ==
  LET fat == begin + b.reserved
      clusters == (b.total - (b.reserved + 2 * b.per + b.roots)) \div b.spc
  IN  [fat |-> fat, per |-> b.per, root |-> fat + 2 * b.per, roots |-> b.roots,
       data |-> fat + 2 * b.per + b.roots, spc |-> b.spc, clusters |-> clusters,
       type |-> TypeOf(clusters, b.roots)]

\* What is found at the beginning of the nth partition.
First(d, n) == Sector(d, Search(d)[n].start)

Mountable(d, n) ==
  LET b == First(d, n) IN b.kind = "boot" /\ Sector(d, Search(d)[n].start + b.reserved) = Fat

Mount(d, n) == Volume(First(d, n), Search(d)[n].start)

-----------------------------------------------------------------------------
(* Layouts: the arithmetic of FF_Partition and FF_Format. *)

\* The sum of the first k members of s.
SumTo(s, k) ==
  LET sum[i \in 0 .. Len(s)] == IF i = 0 THEN 0 ELSE LET b == sum[i - 1] IN b + s[i]
  IN  sum[k]

Sum(s) == SumTo(s, Len(s))

\* The shares asked for; one of everything if there is none.
NotZero(s) == {i \in DOMAIN s : s[i] # 0}
Shares(r, n) == IF NotZero(r.sizes) # {} THEN r.sizes
                ELSE IF r.unit = "sectors" THEN <<n>> ELSE <<100>>

\* FF_Partition counts the shares that are not zero, wherever they are, and lays out as
\* many places from the first on.  A zero share there is laid out without a sector, and
\* a share behind them is left out.
Wanted(r, n) == SubSeq(Shares(r, n), 1, Cardinality(NotZero(Shares(r, n))))

Primaries(r, n) == Least(r.primary, Len(Wanted(r, n)))
Logicals(r, n) == Len(Wanted(r, n)) - Primaries(r, n)
Gap(r) == IF r.inter = 0 THEN 2048 ELSE r.inter
Hidden(r, n) == LET least == IF Logicals(r, n) > 0 THEN 4096 ELSE 1 IN
                IF r.hidden < least THEN least ELSE r.hidden
Available(r, n) == n - Hidden(r, n) - Gap(r) * Logicals(r, n)

Refused(r, n) ==
  \/ r.unit = "percent" /\ Sum(Shares(r, n)) > 100
  \/ r.unit = "sectors" /\ Sum(Shares(r, n)) > Available(r, n)

\* The sizes of the partitions, each at most what remains.
Sizes(r, n) ==
  LET wanted == Wanted(r, n)
      whole == IF r.unit = "percent" THEN 100 ELSE Sum(Shares(r, n))
      ideal(x) == IF r.unit = "sectors" THEN x ELSE (x * Available(r, n)) \div whole
      left[i \in 0 .. Len(wanted)] ==
        IF i = 0 THEN Available(r, n)
        ELSE LET rest == left[i - 1] IN rest - Least(ideal(wanted[i]), rest)
  IN  [i \in 1 .. Len(wanted) |-> left[i - 1] - left[i]]

\* Mutant: the gap before a logical partition is not counted as a part of the next link.
LinkCountBare(r, count) == count

LinkCount(r, count) == count + Gap(r)

\* The first sector of a logical partition, seen from its table.
LogicalStart(r) == Gap(r)

Four(parts) == [i \in 1 .. 4 |-> IF i <= Len(parts) THEN parts[i] ELSE NoPart]

\* Mutant: the last primary partition is forgotten.
ExtendedBeginEarly(r, n) ==
  Hidden(r, n) + (IF Primaries(r, n) = 0 THEN 0 ELSE SumTo(Sizes(r, n), Primaries(r, n) - 1))

\* The first sector of the extended partition, after the primary ones.
ExtendedBegin(r, n) == Hidden(r, n) + SumTo(Sizes(r, n), Primaries(r, n))

\* The tables: sector 0, and one before each logical partition, which says where the
\* next one is, seen from the first.
Tables(r, n) ==
  LET sizes == Sizes(r, n)
      k == Primaries(r, n)
      first == ExtendedBegin(r, n)
      at(i) == first + SumTo(sizes, i - 1) - SumTo(sizes, k) + Gap(r) * (i - k - 1)
      primary == [i \in 1 .. k |-> Part("fat", Hidden(r, n) + SumTo(sizes, i - 1), sizes[i])]
      logical(i) == Part("fat", LogicalStart(r), sizes[i])
      link(i) == Part("extended", at(i) - first, LinkCount(r, sizes[i]))
      rest == IF Logicals(r, n) > 0 THEN <<Part("extended", first, n - first)>> ELSE <<>>
  IN  <<[at |-> 0, what |-> Table(Four(primary \o rest))]>>
      \o [j \in 1 .. Logicals(r, n) |->
            [at |-> at(k + j),
             what |-> Table(Four(IF k + j = Len(sizes) THEN <<logical(k + j)>>
                                 ELSE <<logical(k + j), link(k + j + 1)>>))]]

\* What FF_Partition says it has made of a request: the partitions one after the other,
\* from the first sector that is not hidden, with a gap before each logical one.
Request(r, n) ==
  LET sizes == Sizes(r, n)
      gaps(i) == IF i > Primaries(r, n) THEN Gap(r) * (i - Primaries(r, n)) ELSE 0
  IN  [i \in DOMAIN sizes |->
         Part("fat", Hidden(r, n) + SumTo(sizes, i - 1) + gaps(i), sizes[i])]

-----------------------------------------------------------------------------
\* Mutant: the size of a FAT is rounded down.
TryRoundedDown(count, type, nondata, spc) ==
  LET usable == count - nondata
      per == usable \div (2 + Entries(type) * spc)
  IN  [spc |-> spc, per |-> per, clusters |-> (usable - 2 * per) \div spc]

\* prvFormatGetClusterSize for one cluster size.
Try(count, type, nondata, spc) ==
  LET usable == count - nondata
      group == 2 + Entries(type) * spc
      per == (usable + group - spc - 2) \div group
  IN  [spc |-> spc, per |-> per,
       clusters |-> Least((usable - 2 * per) \div spc, Entries(type) * per)]

Fits(type, n) == IF type = 16 THEN n >= 4086 /\ n < 65536 ELSE n >= 65536

ChosenType(count, prefer16) ==
  IF \/ ~ prefer16 /\ count - 32 >= 65536
     \/ count - 32 >= 64 * 65525 THEN 32 ELSE 16

ClusterSizes(type, small) ==
  IF small THEN <<1, 2, 4, 8, 16, 32>>
  ELSE IF type = 32 THEN <<64, 32, 16, 8, 4, 2, 1>> ELSE <<32, 16, 8, 4, 2, 1>>

SIZE_512_MB == 1048576
MX_LBA_TO_MOVE_FAT == 8192

\* prvFormatOptimiseFATLocation: on a large disk the FATs are moved up so that the
\* clusters are aligned.
Reserved(count, start, type, per) ==
  IF type = 32 /\ count >= SIZE_512_MB /\ start < MX_LBA_TO_MOVE_FAT
  THEN LET r == MX_LBA_TO_MOVE_FAT - start
           over == (r + 2 * per) % 128
       IN  IF over = 0 THEN r ELSE r + 128 - over
  ELSE IF type = 32 THEN 32 ELSE 1

\* The layout that FF_Format chooses for a partition, if there is one.
Layouts(p, prefer16, small) ==
  LET type == ChosenType(p.count, prefer16)
      roots == IF type = 32 THEN 0 ELSE 32
      nondata == (IF type = 32 THEN 32 ELSE 1) + roots
      trials == [i \in DOMAIN ClusterSizes(type, small) |->
                   Try(p.count, type, nondata, ClusterSizes(type, small)[i])]
  IN  {[start |-> p.start, count |-> p.count, type |-> type, spc |-> trials[i].spc,
        per |-> trials[i].per, roots |-> roots,
        reserved |-> Reserved(p.count, p.start, type, trials[i].per)] :
         i \in {j \in DOMAIN trials :
                  /\ Fits(type, trials[j].clusters)
                  /\ \A k \in 1 .. j - 1 : ~ Fits(type, trials[k].clusters)}}

\* The writes of FF_Format: `count' sectors from `at' on and the same `copy' sectors
\* further on.  Failing to write FSInfo is not noticed.
Write(at, what) == [at |-> at, count |-> 1, copy |-> 0, what |-> what, firm |-> TRUE]

ClearFats(g, fat) == [Write(fat + 1, Blank) EXCEPT !.count = g.per - 1, !.copy = g.per]

\* Mutant: the hidden sectors are forgotten.
FatBeginAtReserved(g) == g.reserved

FatBegin(g) == g.start + g.reserved

FormatWrites(g) ==
  LET fat == FatBegin(g)
      root == fat + 2 * g.per
      rest == (IF g.roots # 0 THEN g.roots ELSE g.spc) - 1
  IN  <<Write(g.start, Boot(g))>>
      \o (IF g.type # 32 THEN <<>>
          ELSE <<Write(g.start + 6, Boot(g)),
                 [Write(g.start + 1, Info) EXCEPT !.firm = FALSE],
                 [Write(g.start + 7, Info) EXCEPT !.firm = FALSE]>>)
      \o <<Write(fat, Fat), Write(fat + g.per, Fat), ClearFats(g, fat), Write(root, Label),
           [Write(root + 1, Blank) EXCEPT !.count = rest]>>

ASSUME VolumeAssumption ==
  /\ \A v \in Starts : v.size \in LBA /\ \A s \in DOMAIN v.disk : Sound(v.disk[s])
  /\ \A r \in Requests :
       /\ Len(r.sizes) \in 0 .. MaxParts /\ r.sizes \in Seq(LBA) /\ Sum(r.sizes) \in LBA
       /\ r.unit \in {"quota", "percent", "sectors"}
       /\ r.primary \in Nat /\ r.hidden \in LBA /\ r.inter \in LBA
       /\ \A v \in Starts : Available(r, v.size) > 0
-----------------------------------------------------------------------------
(* The functions at work. *)

NoJob == [fn |-> "none", todo |-> <<>>]

Init ==
  /\ \E v \in Starts : size = v.size /\ disk = v.disk
  /\ job = NoJob
  /\ asked = <<>> /\ formatted = {}
  /\ jobs = 0 /\ faults = 0

\* FF_Partition.
Partition(r) ==
  /\ job = NoJob /\ jobs < MaxJobs /\ jobs' = jobs + 1
  /\ ~ Refused(r, size)
  /\ job' = [fn |-> "partition", plan |-> Request(r, size), lost |-> FALSE,
             todo |-> [i \in DOMAIN Tables(r, size) |->
                         Write(Tables(r, size)[i].at, Tables(r, size)[i].what)]]
  /\ asked' = <<>> /\ formatted' = {}
  /\ UNCHANGED <<size, disk, faults>>

\* FF_FormatDisk.
Format(n, prefer16, small) ==
  /\ job = NoJob /\ jobs < MaxJobs /\ jobs' = jobs + 1
  /\ n \in DOMAIN Search(disk)
  /\ \E g \in Layouts(Search(disk)[n], prefer16, small) :
       /\ job' = [fn |-> "format", plan |-> g, todo |-> FormatWrites(g), written |-> {}]
       /\ formatted' = {f \in formatted : f.plan.start # g.start}
  /\ UNCHANGED <<size, disk, asked, faults>>

\* The disk after the first k sectors of a write.
After(d, w, k) ==
  LET hit(s) == s \in w.at .. w.at + k - 1
                \/ s \in w.at + w.copy .. w.at + w.copy + k - 1
  IN  [s \in {x \in DOMAIN d : ~ hit(x)} \cup (IF w.what = Blank \/ k = 0 THEN {} ELSE {w.at}) |->
         IF hit(s) THEN w.what ELSE d[s]]

\* The ranges of sectors that a write covers.
Ranges(w) == {<<w.at, w.at + w.count - 1>>, <<w.at + w.copy, w.at + w.copy + w.count - 1>>}

Performed(w) ==
  /\ disk' = After(disk, w, w.count)
  /\ job' = IF job.fn = "format"
            THEN [job EXCEPT !.todo = Tail(@), !.written = @ \cup Ranges(w)]
            ELSE [job EXCEPT !.todo = Tail(@)]

WriteNext ==
  /\ job.todo # <<>>
  /\ Performed(Head(job.todo))
  /\ UNCHANGED <<size, asked, formatted, jobs, faults>>

\* A write fails, or stops half-way.  FF_FormatDisk gives up, but for FSInfo.
\* FF_Partition gives up if it does not get the buffer; it does not look at what
\* FF_FlushCache says.
WriteFails ==
  /\ job.todo # <<>>
  /\ LET w == Head(job.todo) IN
     /\ faults < MaxFaults /\ faults' = faults + 1
     /\ \E k \in {0, w.count \div 2} : disk' = After(disk, w, k)
     /\ job' = IF job.fn = "format" /\ ~ w.firm THEN [job EXCEPT !.todo = Tail(@)]
               ELSE NoJob
  /\ UNCHANGED <<size, asked, formatted, jobs>>

FlushFails ==
  /\ job.todo # <<>> /\ job.fn = "partition"
  /\ faults < MaxFaults /\ faults' = faults + 1
  /\ job' = [job EXCEPT !.todo = Tail(@), !.lost = TRUE]
  /\ UNCHANGED <<size, disk, asked, formatted, jobs>>

\* The function returns success.
Done ==
  /\ job # NoJob /\ job.todo = <<>>
  /\ job' = NoJob
  /\ IF job.fn = "partition"
     THEN asked' = (IF job.lost THEN <<>> ELSE job.plan) /\ UNCHANGED formatted
     ELSE formatted' = formatted \cup {[plan |-> job.plan, written |-> job.written]} /\ UNCHANGED asked
  /\ UNCHANGED <<size, disk, jobs, faults>>

\* The power fails.
Crash ==
  /\ job.todo # <<>>
  /\ \E k \in {0, Head(job.todo).count \div 2} : disk' = After(disk, Head(job.todo), k)
  /\ job' = NoJob
  /\ UNCHANGED <<size, asked, formatted, jobs, faults>>

Next ==
  \/ \E r \in Requests : Partition(r)
  \/ \E n \in 1 .. MaxParts, prefer16, small \in BOOLEAN : Format(n, prefer16, small)
  \/ WriteNext \/ WriteFails \/ FlushFails \/ Done \/ Crash

Spec == Init /\ [][Next]_vars
-----------------------------------------------------------------------------
(* What correctness means here. *)

\* What FF_Partition has returned success for is what the search finds, in that order,
\* from then on: as primary and logical partitions, whatever was on the disk before
\* and however its partitions are formatted.  A share of zero, or one that comes to no
\* sector on a small disk, has an entry, but no partition is found there and the next
\* one takes its number.  A share that is not among the first places that FF_Partition
\* counts (Wanted) is not there at all, and success is returned without it.
PartitionsAreAsAsked == asked # <<>> => Search(disk) = Select(asked, NotEmpty(asked))

\* The search finds partitions that lie on the disk and do not overlap each other, also
\* when only some of the tables were written and old ones follow.
PartitionsAreDisjoint ==
  LET found == Search(disk) IN
  \A i \in DOMAIN found :
    /\ found[i].start + found[i].count <= size
    /\ \A j \in DOMAIN found \ {i} :
         \/ found[i].start + found[i].count <= found[j].start
         \/ found[j].start + found[j].count <= found[i].start

\* FF_Format makes a FAT16 of up to 65535 clusters, which FF_Mount takes for a FAT32
\* from 65525 on.
Ambiguous(g) ==
  g.type = 16 /\ Volume(Boot(g), g.start).clusters >= 65525

Within(a, b, ranges) == \E r \in ranges : r[1] <= a /\ b <= r[2]

\* A volume that FF_Format has returned success for can be mounted; its type is the
\* one chosen, and all sectors that the mounted volume takes for the FATs and for the
\* root directory were written by FF_Format.
FormattedMounts ==
  \A f \in {f \in formatted : ~ Ambiguous(f.plan)} :
    \E n \in DOMAIN Search(disk) :
      LET g == f.plan
          v == Mount(disk, n) IN
      /\ Search(disk)[n].start = g.start /\ Mountable(disk, n)
      /\ v.type = g.type
      /\ \A b \in {v.fat, v.fat + v.per} :
           /\ Within(b, b, f.written)
           /\ v.per > 1 => Within(b + 1, b + v.per - 1, f.written)
      /\ LET last == IF v.roots # 0 THEN v.root + v.roots - 1 ELSE v.data + v.spc - 1 IN
         Within(v.root, v.root, f.written)
         /\ (last > v.root => Within(v.root + 1, last, f.written))

\* On a disk of 512 MB or more the FATs begin at sector 8192 of it.  Of a partition that
\* begins in one of the 31 sectors before, fewer may then be reserved than were counted.
Squeezed(g) == g.type = 32 /\ g.reserved < 32

\* Every cluster of it has its sectors in the partition and an entry in the FAT, but
\* for one or two at the end: the sectors that are left when the FATs are full are not
\* taken from the number of sectors of the volume.  What is found in place of their
\* entries are the first two of the second FAT, which never say free.
EveryClusterExists ==
  \A f \in formatted :
    LET v == Volume(Boot(f.plan), f.plan.start) IN
    /\ v.data + v.clusters * v.spc <= f.plan.start + f.plan.count
    /\ ~ Squeezed(f.plan) => v.clusters <= v.per * Entries(f.plan.type) + 2

\* FF_Format writes to its partition and nowhere else, no table and no other volume:
\* FF_BlockWrite, which knows where the partition ends but not where it begins, never
\* has to refuse.
FormatStaysInside ==
  job.fn = "format" =>
    \A i \in DOMAIN job.todo : \A r \in Ranges(job.todo[i]) :
      Within(r[1], r[2], {<<job.plan.start, job.plan.start + job.plan.count - 1>>})
=============================================================================
