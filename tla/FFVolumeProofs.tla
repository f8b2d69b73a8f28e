--------------------------- MODULE FFVolumeProofs ---------------------------
(***************************************************************************)
(* Proofs about FFVolume: for disks, partitions and requests of every size *)
(* that VolumeAssumption allows, FF_Format writes to its partition only,   *)
(* what it lays out has its clusters in the partition and its entries in   *)
(* the FAT.  What FF_Partition has returned success for is found on the    *)
(* disk from then on, does not overlap, and mounts once it is formatted.   *)
(***************************************************************************)
EXTENDS FFVolume, FFRecursion, SequenceTheorems, FiniteSetTheorems

-----------------------------------------------------------------------------
(* The arithmetic of a layout. *)

\* More than FF_Format ever reserves before the FATs.
MaxReserved == 8320

SectorsPerCluster == {1, 2, 4, 8, 16, 32, 64}

\* One turn of prvFormatGetClusterSize, if it is the last.  The FAT has a sector at
\* least; it and a cluster leave no less than nothing of the partition; and what is left
\* when each sector of the FAT has its clusters makes two more at most.
LEMMA TryFits ==
  ASSUME NEW count \in Nat, NEW type \in {16, 32}, NEW spc \in SectorsPerCluster,
         NEW nondata \in Nat, nondata = (IF type = 32 THEN 32 ELSE 33),
         Fits(type, Try(count, type, nondata, spc).clusters)
  PROVE  LET per == Try(count, type, nondata, spc).per IN
         /\ per \in Nat \ {0}
         /\ nondata + 2 * per + spc <= count
         /\ count >= SIZE_512_MB => MaxReserved + 2 * per + spc <= count
         /\ (count - nondata - 2 * per) \div spc <= per * Entries(type) + 2
<1> DEFINE t == Try(count, type, nondata, spc)
<1> SUFFICES /\ t.per \in Nat \ {0}
             /\ nondata + 2 * t.per + spc <= count
             /\ count >= SIZE_512_MB => MaxReserved + 2 * t.per + spc <= count
             /\ (count - nondata - 2 * t.per) \div spc <= t.per * Entries(type) + 2
  OBVIOUS
<1>1. CASE type = 32
  <2>1. nondata = 32 /\ Entries(type) = 128 BY <1>1 DEF Entries
  <2>2. t.clusters >= 65536 BY <1>1 DEF Fits
  <2>3. CASE spc = 1 BY <1>1, <2>1, <2>2, <2>3 DEF Try, Least, SIZE_512_MB, MaxReserved
  <2>4. CASE spc = 2 BY <1>1, <2>1, <2>2, <2>4 DEF Try, Least, SIZE_512_MB, MaxReserved
  <2>5. CASE spc = 4 BY <1>1, <2>1, <2>2, <2>5 DEF Try, Least, SIZE_512_MB, MaxReserved
  <2>6. CASE spc = 8 BY <1>1, <2>1, <2>2, <2>6 DEF Try, Least, SIZE_512_MB, MaxReserved
  <2>7. CASE spc = 16 BY <1>1, <2>1, <2>2, <2>7 DEF Try, Least, SIZE_512_MB, MaxReserved
  <2>8. CASE spc = 32 BY <1>1, <2>1, <2>2, <2>8 DEF Try, Least, SIZE_512_MB, MaxReserved
  <2>9. CASE spc = 64 BY <1>1, <2>1, <2>2, <2>9 DEF Try, Least, SIZE_512_MB, MaxReserved
  <2> QED BY <2>3, <2>4, <2>5, <2>6, <2>7, <2>8, <2>9 DEF SectorsPerCluster
<1>2. CASE type = 16
  <2>1. nondata = 33 /\ Entries(type) = 256 BY <1>2 DEF Entries
  <2>2. t.clusters >= 4086 BY <1>2 DEF Fits
  <2>3. CASE spc = 1 BY <1>2, <2>1, <2>2, <2>3 DEF Try, Least, SIZE_512_MB, MaxReserved
  <2>4. CASE spc = 2 BY <1>2, <2>1, <2>2, <2>4 DEF Try, Least, SIZE_512_MB, MaxReserved
  <2>5. CASE spc = 4 BY <1>2, <2>1, <2>2, <2>5 DEF Try, Least, SIZE_512_MB, MaxReserved
  <2>6. CASE spc = 8 BY <1>2, <2>1, <2>2, <2>6 DEF Try, Least, SIZE_512_MB, MaxReserved
  <2>7. CASE spc = 16 BY <1>2, <2>1, <2>2, <2>7 DEF Try, Least, SIZE_512_MB, MaxReserved
  <2>8. CASE spc = 32 BY <1>2, <2>1, <2>2, <2>8 DEF Try, Least, SIZE_512_MB, MaxReserved
  <2>9. CASE spc = 64 BY <1>2, <2>1, <2>2, <2>9 DEF Try, Least, SIZE_512_MB, MaxReserved
  <2> QED BY <2>3, <2>4, <2>5, <2>6, <2>7, <2>8, <2>9 DEF SectorsPerCluster
<1> QED BY <1>1, <1>2

\* What a layout is good for, whatever the disk: FATs of a sector at least, room for them
\* and for the root directory, the clusters of EveryClusterExists, and no fewer than a
\* FAT16 has.
GoodLayout(g) ==
  /\ g.start \in Nat /\ g.count \in Nat /\ g.type \in {16, 32}
  /\ g.spc \in SectorsPerCluster /\ g.per \in Nat \ {0} /\ g.reserved \in Nat \ {0}
  /\ g.roots = (IF g.type = 32 THEN 0 ELSE 32)
  /\ g.type = 32 => g.count >= 8
  /\ g.reserved + 2 * g.per + g.roots + g.spc <= g.count
  /\ ~ Squeezed(g) =>
       (g.count - (g.reserved + 2 * g.per + g.roots)) \div g.spc <= g.per * Entries(g.type) + 2
  /\ g.type = 16 => (g.count - (g.reserved + 2 * g.per + g.roots)) \div g.spc >= 4086

\* Where the FATs of a layout begin: there is always room for them.
LEMMA ReservedFits ==
  ASSUME NEW count \in Nat, NEW start \in Nat, NEW type \in {16, 32}, NEW per \in Nat,
         NEW r, r = Reserved(count, start, type, per)
  PROVE  /\ r \in Nat /\ r > 0
         /\ type = 16 => r = 1
         /\ type = 32 => r = 32 \/ (count >= SIZE_512_MB /\ r < MaxReserved)
<1>1. CASE type = 32 /\ count >= SIZE_512_MB /\ start < MX_LBA_TO_MOVE_FAT
  <2> DEFINE m == MX_LBA_TO_MOVE_FAT - start
             over == (m + 2 * per) % 128
  <2>1. m \in 1 .. 8192 BY <1>1 DEF MX_LBA_TO_MOVE_FAT
  <2>2. over \in 0 .. 127
    <3> HIDE DEF m
    <3>1. m + 2 * per \in Int BY <2>1
    <3> QED BY <3>1
  <2>3. Reserved(count, start, type, per) = IF over = 0 THEN m ELSE m + 128 - over
    BY <1>1 DEF Reserved
  <2>4. \A x \in 1 .. 8192, y \in 0 .. 127 :
          (IF y = 0 THEN x ELSE x + 128 - y) \in Nat
    OBVIOUS
  <2>5. \A x \in 1 .. 8192, y \in 0 .. 127 :
          (IF y = 0 THEN x ELSE x + 128 - y) > 0
    OBVIOUS
  <2>6. \A x \in 1 .. 8192, y \in 0 .. 127 :
          (IF y = 0 THEN x ELSE x + 128 - y) < 8320
    OBVIOUS
  <2> HIDE DEF m, over
  <2>7. r \in Nat BY <2>1, <2>2, <2>3, <2>4
  <2>8. r > 0 BY <2>1, <2>2, <2>3, <2>5
  <2>9. r < MaxReserved BY <2>1, <2>2, <2>3, <2>6 DEF MaxReserved
  <2> QED BY <1>1, <2>7, <2>8, <2>9
<1>2. CASE ~ (type = 32 /\ count >= SIZE_512_MB /\ start < MX_LBA_TO_MOVE_FAT)
  BY <1>2 DEF Reserved
<1> QED BY <1>1, <1>2

\* A layout with a trial that fits is good.
LEMMA FittingIsGood ==
  ASSUME NEW start \in Nat, NEW count \in Nat, NEW type \in {16, 32},
         NEW spc \in SectorsPerCluster,
         NEW nondata, nondata = (IF type = 32 THEN 32 ELSE 33),
         NEW t, t = Try(count, type, nondata, spc), Fits(type, t.clusters),
         NEW g, g.start = start, g.count = count, g.type = type, g.spc = t.spc,
         g.per = t.per, g.roots = (IF type = 32 THEN 0 ELSE 32),
         g.reserved = Reserved(count, start, type, t.per)
  PROVE  GoodLayout(g)
<1>1. nondata \in Nat OBVIOUS
<1>2. /\ t.per \in Nat \ {0}
      /\ nondata + 2 * t.per + spc <= count
      /\ count >= SIZE_512_MB => MaxReserved + 2 * t.per + spc <= count
      /\ (count - nondata - 2 * t.per) \div spc <= t.per * Entries(type) + 2
  BY <1>1, TryFits
<1>3. t.spc = spc BY DEF Try
<1>4. PICK per \in Nat \ {0} : per = t.per BY <1>2
<1>5. PICK r : r = g.reserved OBVIOUS
<1>6. /\ r \in Nat /\ r > 0
      /\ type = 16 => r = 1
      /\ type = 32 => r = 32 \/ (count >= SIZE_512_MB /\ r < MaxReserved)
  <2>1. r = Reserved(count, start, type, per) BY <1>4, <1>5
  <2>2. per \in Nat BY <1>4
  <2>3. r \in Nat BY <2>1, <2>2, ReservedFits
  <2>6. r > 0 BY <2>1, <2>2, ReservedFits
  <2>4. type = 16 => r = 1 BY <2>1, <2>2, ReservedFits
  <2>5. type = 32 => r = 32 \/ (count >= SIZE_512_MB /\ r < MaxReserved)
    BY <2>1, <2>2, ReservedFits
  <2> QED BY <2>3, <2>4, <2>5, <2>6
<1>8. spc \in Nat \ {0} BY DEF SectorsPerCluster
<1>7. g.type = 32 => g.count >= 8 BY <1>2, <1>4, <1>8
<1>9. g.reserved + 2 * g.per + g.roots + g.spc <= g.count
  BY <1>2, <1>3, <1>4, <1>5, <1>6, <1>8 DEF MaxReserved
<1>10. ASSUME ~ Squeezed(g)
       PROVE  (g.count - (g.reserved + 2 * g.per + g.roots)) \div g.spc
                <= g.per * Entries(g.type) + 2
  <2>1. r + g.roots >= nondata BY <1>5, <1>6, <1>10 DEF Squeezed
  <2> DEFINE x == count - (r + 2 * per + g.roots)
             y == count - nondata - 2 * per
  <2>2. x \in Int /\ y \in Int /\ x <= y BY <1>6, <2>1
  <2> HIDE DEF x, y
  <2>3. x \div spc <= y \div spc BY <2>2 DEF SectorsPerCluster
  <2>4. x \div spc \in Int /\ y \div spc \in Int BY <2>2, <1>8
  <2>5. per * Entries(type) \in Int BY DEF Entries
  <2>6. y \div spc <= per * Entries(type) + 2 BY <1>2, <1>4 DEF y
  <2>7. x \div spc <= per * Entries(type) + 2 BY <2>3, <2>4, <2>5, <2>6
  <2> QED BY <2>7, <1>3, <1>4, <1>5 DEF x
<1>11. ASSUME type = 16
       PROVE  (g.count - (g.reserved + 2 * g.per + g.roots)) \div g.spc >= 4086
  <2> DEFINE most == Entries(type) * per
             fit == (count - nondata - 2 * per) \div spc
  <2>1. t.clusters = Least(fit, most)
    <3>1. t.clusters = Least((count - nondata - 2 * t.per) \div spc, Entries(type) * t.per)
      BY DEF Try
    <3> QED BY <1>4, <3>1
  <2>2. t.clusters >= 4086 BY <1>11 DEF Fits
  <2>3. most \in Int BY DEF Entries
  <2>4. fit \in Int BY <1>1, <1>4, <1>8
  <2>5. count - nondata - 2 * per = g.count - (g.reserved + 2 * g.per + g.roots)
    BY <1>4, <1>5, <1>6, <1>11
  <2> HIDE DEF most, fit
  <2>6. fit >= 4086 BY <2>1, <2>2, <2>3, <2>4 DEF Least
  <2> QED BY <1>3, <2>5, <2>6 DEF fit
<1> QED BY <1>3, <1>4, <1>5, <1>6, <1>7, <1>9, <1>10, <1>11 DEF GoodLayout

\* The layouts that FF_Format chooses are good, for a partition of any size.
THEOREM LayoutsAreGood ==
  ASSUME NEW p, p.start \in Nat, p.count \in Nat, NEW prefer16, NEW small,
         NEW g \in Layouts(p, prefer16, small)
  PROVE  GoodLayout(g) /\ g.start = p.start /\ g.count = p.count
<1> DEFINE type == ChosenType(p.count, prefer16)
           nondata == (IF type = 32 THEN 32 ELSE 1) + (IF type = 32 THEN 0 ELSE 32)
           sizes == ClusterSizes(type, small)
           trials == [i \in DOMAIN sizes |-> Try(p.count, type, nondata, sizes[i])]
           chosen == {j \in DOMAIN trials :
                        /\ Fits(type, trials[j].clusters)
                        /\ \A k \in 1 .. j - 1 : ~ Fits(type, trials[k].clusters)}
           layout(i) == [start |-> p.start, count |-> p.count, type |-> type,
                         spc |-> trials[i].spc, per |-> trials[i].per,
                         roots |-> IF type = 32 THEN 0 ELSE 32,
                         reserved |-> Reserved(p.count, p.start, type, trials[i].per)]
<1>10. Layouts(p, prefer16, small) = {layout(i) : i \in chosen} BY DEF Layouts
<1> HIDE DEF layout
<1>11. PICK i \in chosen : g = layout(i) BY <1>10
<1> USE DEF layout
<1>1. i \in DOMAIN trials /\ Fits(type, trials[i].clusters) BY <1>11
<1>2. i \in DOMAIN sizes /\ trials[i] = Try(p.count, type, nondata, sizes[i])
  BY <1>1
<1> HIDE DEF trials, chosen
<1>3. type \in {16, 32} BY DEF ChosenType
<1>4. nondata = (IF type = 32 THEN 32 ELSE 33) OBVIOUS
<1> HIDE DEF nondata
<1>5. PICK t : t = trials[i] OBVIOUS
<1>6. PICK spc \in SectorsPerCluster : spc = sizes[i]
  BY <1>2, SMT DEF ClusterSizes, SectorsPerCluster
<1> HIDE DEF type, sizes
<1>7. /\ g.start = p.start /\ g.count = p.count /\ g.type = type /\ g.spc = t.spc
      /\ g.per = t.per /\ g.roots = (IF type = 32 THEN 0 ELSE 32)
      /\ g.reserved = Reserved(p.count, p.start, type, t.per)
  BY <1>5, <1>11
<1>8. t = Try(p.count, type, nondata, spc) /\ Fits(type, t.clusters)
  BY <1>1, <1>2, <1>5, <1>6
<1>9. GoodLayout(g)
  BY <1>3, <1>4, <1>7, <1>8, FittingIsGood
<1> QED BY <1>7, <1>9
-----------------------------------------------------------------------------
(* What FF_Format writes. *)

\* The fields of a sector that are numbers are numbers of sectors.
Readable(s) ==
  /\ s.kind = "boot" => s.total \in Nat
  /\ s.kind = "table" =>
       s.parts \in [1 .. 4 -> [id : {"none", "fat", "extended"}, start : Nat, count : Nat]]

GoodWrite(w) == w.at \in Nat /\ w.count \in Nat /\ w.copy \in Nat /\ Readable(w.what)

Inside(w, g) ==
  \A r \in Ranges(w) : Within(r[1], r[2], {<<g.start, g.start + g.count - 1>>})

LEMMA WriteIsInside ==
  ASSUME NEW g, g.start \in Nat, g.count \in Nat,
         NEW w, NEW at \in Nat, w.at = at, NEW count \in Nat, w.count = count,
         NEW copy \in Nat, w.copy = copy, Readable(w.what),
         g.start <= at, at + copy + count <= g.start + g.count
  PROVE  GoodWrite(w) /\ Inside(w, g)
<1>1. GoodWrite(w) BY DEF GoodWrite
<1>2. Ranges(w) = {<<at, at + count - 1>>, <<at + copy, at + copy + count - 1>>} BY DEF Ranges
<1>3. g.start <= at /\ at + count - 1 <= g.start + g.count - 1 OBVIOUS
<1>4. g.start <= at + copy /\ at + copy + count - 1 <= g.start + g.count - 1 OBVIOUS
<1>5. Inside(w, g) BY <1>2, <1>3, <1>4 DEF Inside, Within
<1> QED BY <1>1, <1>5

\* All of them are in the partition: for FSInfo and the copy of the boot sector there are
\* 8 sectors, the rest is laid out.
LEMMA FormatWritesInside ==
  ASSUME NEW g, GoodLayout(g)
  PROVE  \E S : /\ FormatWrites(g) \in Seq(S)
                /\ \A w \in S : GoodWrite(w) /\ Inside(w, g)
<1> DEFINE fat == FatBegin(g)
           root == fat + 2 * g.per
           rest == (IF g.roots # 0 THEN g.roots ELSE g.spc) - 1
           copies == {Write(g.start + 6, Boot(g)),
                      [Write(g.start + 1, Info) EXCEPT !.firm = FALSE],
                      [Write(g.start + 7, Info) EXCEPT !.firm = FALSE]}
           others == {Write(g.start, Boot(g)), Write(fat, Fat), Write(fat + g.per, Fat),
                      ClearFats(g, fat), Write(root, Label),
                      [Write(root + 1, Blank) EXCEPT !.count = rest]}
           S == others \cup (IF g.type = 32 THEN copies ELSE {})
<1>0. PICK start, count, per, reserved, roots, spc :
        /\ start = g.start /\ count = g.count /\ per = g.per /\ reserved = g.reserved
        /\ roots = g.roots /\ spc = g.spc
  OBVIOUS
<1>1. /\ start \in Nat /\ count \in Nat /\ per \in Nat /\ per > 0
      /\ reserved \in Nat /\ reserved > 0 /\ spc \in Nat /\ spc > 0
      /\ roots \in {0, 32}
      /\ reserved + 2 * per + roots + spc <= count
  BY <1>0 DEF GoodLayout, SectorsPerCluster
<1>2. fat = start + reserved BY <1>0 DEF FatBegin
<1>3. root = start + reserved + 2 * per BY <1>0, <1>1, <1>2
<1>4. rest \in Nat /\ root + 1 + rest <= start + count
  <2>1. CASE roots = 0 BY <1>0, <1>1, <1>3, <2>1
  <2>2. CASE roots = 32 BY <1>0, <1>1, <1>3, <2>2
  <2> QED BY <1>1, <2>1, <2>2
<1>5. /\ Readable(Boot(g)) /\ Readable(Info) /\ Readable(Fat) /\ Readable(Label)
      /\ Readable(Blank)
  BY <1>0, <1>1 DEF Readable, Boot, Info, Fat, Label, Blank
<1>6. FormatWrites(g) \in Seq(S)
  <2>1. FormatWrites(g) =
          <<Write(g.start, Boot(g))>>
          \o (IF g.type # 32 THEN <<>>
              ELSE <<Write(g.start + 6, Boot(g)),
                     [Write(g.start + 1, Info) EXCEPT !.firm = FALSE],
                     [Write(g.start + 7, Info) EXCEPT !.firm = FALSE]>>)
          \o <<Write(fat, Fat), Write(fat + g.per, Fat), ClearFats(g, fat), Write(root, Label),
               [Write(root + 1, Blank) EXCEPT !.count = rest]>>
    BY DEF FormatWrites
  <2> DEFINE a == Write(g.start, Boot(g))
             b == Write(g.start + 6, Boot(g))
             c == [Write(g.start + 1, Info) EXCEPT !.firm = FALSE]
             d == [Write(g.start + 7, Info) EXCEPT !.firm = FALSE]
             e == Write(fat, Fat)
             f == Write(fat + g.per, Fat)
             h == ClearFats(g, fat)
             k == Write(root, Label)
             m == [Write(root + 1, Blank) EXCEPT !.count = rest]
  <2>2. a \in S /\ e \in S /\ f \in S /\ h \in S /\ k \in S /\ m \in S OBVIOUS
  <2>3. g.type = 32 => b \in S /\ c \in S /\ d \in S OBVIOUS
  <2> HIDE DEF a, b, c, d, e, f, h, k, m, S
  <2>4. <<a>> \in Seq(S) /\ <<e, f, h, k, m>> \in Seq(S) BY <2>2
  <2>5. (IF g.type # 32 THEN <<>> ELSE <<b, c, d>>) \in Seq(S) BY <2>3
  <2>6. <<a>> \o (IF g.type # 32 THEN <<>> ELSE <<b, c, d>>) \o <<e, f, h, k, m>> \in Seq(S)
    BY <2>4, <2>5, ConcatProperties
  <2> QED BY <2>1, <2>6 DEF a, b, c, d, e, f, h, k, m
<1>7. ASSUME NEW w \in S PROVE GoodWrite(w) /\ Inside(w, g)
  <2>1. CASE w = Write(g.start, Boot(g))
    <3>1. w.at = start /\ w.count = 1 /\ w.copy = 0 /\ w.what = Boot(g)
      BY <1>0, <2>1 DEF Write
    <3> QED BY <1>0, <1>1, <1>5, <3>1, WriteIsInside
  <2>2. CASE g.type = 32 /\ w = Write(g.start + 6, Boot(g))
    <3>1. w.at = start + 6 /\ w.count = 1 /\ w.copy = 0 /\ w.what = Boot(g)
      BY <1>0, <2>2 DEF Write
    <3>2. count >= 8 BY <1>0, <2>2 DEF GoodLayout
    <3> QED BY <1>0, <1>1, <1>5, <3>1, <3>2, WriteIsInside
  <2>3. CASE g.type = 32 /\ w = [Write(g.start + 1, Info) EXCEPT !.firm = FALSE]
    <3>1. w.at = start + 1 /\ w.count = 1 /\ w.copy = 0 /\ w.what = Info
      BY <1>0, <2>3 DEF Write
    <3>2. count >= 8 BY <1>0, <2>3 DEF GoodLayout
    <3> QED BY <1>0, <1>1, <1>5, <3>1, <3>2, WriteIsInside
  <2>4. CASE g.type = 32 /\ w = [Write(g.start + 7, Info) EXCEPT !.firm = FALSE]
    <3>1. w.at = start + 7 /\ w.count = 1 /\ w.copy = 0 /\ w.what = Info
      BY <1>0, <2>4 DEF Write
    <3>2. count >= 8 BY <1>0, <2>4 DEF GoodLayout
    <3> QED BY <1>0, <1>1, <1>5, <3>1, <3>2, WriteIsInside
  <2>5. CASE w = Write(fat, Fat)
    <3>1. w.at = start + reserved /\ w.count = 1 /\ w.copy = 0 /\ w.what = Fat
      BY <1>2, <2>5 DEF Write
    <3> QED BY <1>0, <1>1, <1>5, <3>1, WriteIsInside
  <2>6. CASE w = Write(fat + g.per, Fat)
    <3>1. w.at = start + reserved + per /\ w.count = 1 /\ w.copy = 0 /\ w.what = Fat
      BY <1>0, <1>2, <2>6 DEF Write
    <3> QED BY <1>0, <1>1, <1>5, <3>1, WriteIsInside
  <2>7. CASE w = ClearFats(g, fat)
    <3>1. /\ w.at = start + reserved + 1 /\ w.count = per - 1 /\ w.copy = per
          /\ w.what = Blank
      BY <1>0, <1>2, <2>7 DEF ClearFats, Write
    <3>2. per - 1 \in Nat BY <1>1
    <3> QED BY <1>0, <1>1, <1>5, <3>1, <3>2, WriteIsInside
  <2>8. CASE w = Write(root, Label)
    <3>1. w.at = start + reserved + 2 * per /\ w.count = 1 /\ w.copy = 0 /\ w.what = Label
      BY <1>3, <2>8 DEF Write
    <3> QED BY <1>0, <1>1, <1>5, <3>1, WriteIsInside
  <2>9. CASE w = [Write(root + 1, Blank) EXCEPT !.count = rest]
    <3>1. /\ w.at = start + reserved + 2 * per + 1 /\ w.count = rest /\ w.copy = 0
          /\ w.what = Blank
      BY <1>3, <2>9 DEF Write
    <3> HIDE DEF root, rest
    <3> QED BY <1>0, <1>1, <1>3, <1>4, <1>5, <3>1, WriteIsInside
  <2> QED BY <2>1, <2>2, <2>3, <2>4, <2>5, <2>6, <2>7, <2>8, <2>9
<1> HIDE DEF S
<1> QED BY <1>6, <1>7

-----------------------------------------------------------------------------
(* What the search finds. *)

\* The members at the places that are among the first i, for each i.
Picks(f, s, places) ==
  /\ f[0] = <<>> /\ Select(s, places) = f[Len(s)]
  /\ \A i \in 1 .. Len(s) :
       f[i] = IF i \in places THEN Append(f[i - 1], s[i]) ELSE f[i - 1]

\* A selection goes through the sequence once.
LEMMA SelectFunction ==
  ASSUME NEW S, NEW s \in Seq(S), NEW places
  PROVE  \E f : Picks(f, s, places) /\ \A i \in 0 .. Len(s) : f[i] \in Seq(S)
<1> DEFINE n == Len(s)
           A == Seq(S)
           step == [x \in (1 .. n) \X A |->
                      IF x[1] \in places THEN Append(x[2], s[x[1]]) ELSE x[2]]
           E(f) == f = [i \in 0 .. n |->
                          IF i = 0 THEN <<>>
                          ELSE LET q == f[i - 1] IN
                               IF i \in places THEN Append(q, s[i]) ELSE q]
           picked == CHOOSE f : E(f)
<1>1. Select(s, places) = picked[n] BY DEF Select
<1>2. n \in Nat /\ <<>> \in A OBVIOUS
<1>3. \A i \in 1 .. n, q \in A :
        step[<<i, q>>] = IF i \in places THEN Append(q, s[i]) ELSE q
  OBVIOUS
<1>4. step \in [(1 .. n) \X A -> A]
  <2>1. \A x \in (1 .. n) \X A : s[x[1]] \in S /\ x[2] \in A OBVIOUS
  <2>2. \A x \in (1 .. n) \X A : Append(x[2], s[x[1]]) \in A BY <2>1, AppendProperties
  <2> QED BY <2>1, <2>2
<1> HIDE DEF step, A, n
<1>5. PICK g \in [0 .. n -> A] : Iterates(g, n, <<>>, step)
  BY <1>2, <1>4, IterationExists
<1>6. E(g)
  <2>1. \A i \in 0 .. n : g[i] = IF i = 0 THEN <<>> ELSE step[<<i, g[i - 1]>>]
    BY <1>5 DEF Iterates
  <2>2. \A i \in 0 .. n : i # 0 => i \in 1 .. n /\ g[i - 1] \in A BY <1>2
  <2>3. \A i \in 0 .. n : g[i] = IF i = 0 THEN <<>>
                                 ELSE IF i \in places THEN Append(g[i - 1], s[i]) ELSE g[i - 1]
    BY <1>3, <2>1, <2>2
  <2> QED BY <2>3
<1> HIDE DEF E
<1>7. E(picked) BY <1>6
<1> HIDE DEF picked
<1> USE DEF E
<1>8. picked[0] = <<>> BY <1>2, <1>7
<1>10. \A i \in 1 .. n : picked[i] = IF i \in places THEN Append(picked[i - 1], s[i])
                                     ELSE picked[i - 1]
  <2>1. \A i \in 0 .. n : picked[i] = IF i = 0 THEN <<>>
                                 ELSE IF i \in places THEN Append(picked[i - 1], s[i])
                                 ELSE picked[i - 1]
    BY <1>7
  <2>2. \A i \in 1 .. n : i \in 0 .. n /\ i # 0 BY <1>2
  <2> QED BY <2>1, <2>2
<1>9. \A i \in 1 .. n : picked[i - 1] \in A => picked[i] = step[<<i, picked[i - 1]>>]
  BY <1>3, <1>10
<1>11. \A i \in 0 .. n : picked[i] \in A
  <2> HIDE DEF E
  <2> QED BY <1>2, <1>4, <1>8, <1>9, RecursionType
<1> HIDE DEF E
<1> QED BY <1>1, <1>8, <1>10, <1>11 DEF n, A, Picks

\* A selection of members is a sequence of members.
LEMMA SelectType ==
  ASSUME NEW S, NEW s \in Seq(S), NEW places
  PROVE  Select(s, places) \in Seq(S)
<1>1. PICK f : Picks(f, s, places) /\ \A i \in 0 .. Len(s) : f[i] \in Seq(S) BY SelectFunction
<1>2. Len(s) \in 0 .. Len(s) BY LenProperties
<1> QED BY <1>1, <1>2 DEF Picks

Parts == [id : {"none", "fat", "extended"}, start : Nat, count : Nat]

AllReadable(d) == \A s \in DOMAIN d : Readable(d[s])

\* Where the search in an extended partition is.
Walks == [at : Nat, count : Nat, found : Seq(Parts), on : BOOLEAN]

LEMMA ReadPartsType ==
  ASSUME NEW d, AllReadable(d), NEW lba
  PROVE  /\ ReadParts(Sector(d, lba)) \in [1 .. 4 -> Parts]
         /\ ReadParts(Sector(d, lba)) \in Seq(Parts)
<1>1. Readable(Sector(d, lba)) BY DEF AllReadable, Sector, Blank, Readable
<1>2. NoPart \in Parts BY DEF NoPart, Part, Parts
<1>3. ReadParts(Sector(d, lba)) \in [1 .. 4 -> Parts]
  BY <1>1, <1>2 DEF ReadParts, Readable, Parts
<1>4. \A f \in [1 .. 4 -> Parts] : f \in Seq(Parts) BY SeqDef
<1> QED BY <1>3, <1>4

LEMMA CappedType ==
  ASSUME NEW q \in Seq(Parts)
  PROVE  Capped(q) \in Seq(Parts)
<1> DEFINE m == Least(Len(q), MaxParts)
<1>1. m \in Int /\ m <= Len(q) BY BoundsAssumption DEF Least
<1> HIDE DEF m
<1>2. \A i \in 1 .. m : q[i] \in Parts BY <1>1, ElementOfSeq
<1>3. SubSeq(q, 1, m) \in Seq(Parts) BY <1>1, <1>2, SubSeqProperties
<1> QED BY <1>3 DEF Capped, m

LEMMA NextTableType ==
  ASSUME NEW d, AllReadable(d), NEW w \in Walks, NEW first \in Nat, NEW count
  PROVE  NextTable(d, w, first, count) \in Walks
<1> DEFINE parts == ReadParts(Sector(d, w.at))
           here == Select(parts, {i \in 1 .. 4 : Sane(parts[i], w, first, count)})
           links == Select(parts, {i \in 1 .. 4 : IsExtended(parts[i]) /\ parts[i].count # 0})
           moved == [i \in DOMAIN here |-> [here[i] EXCEPT !.start = @ + w.at]]
           found == Capped(w.found \o moved)
<1>1. w.at \in Nat /\ w.count \in Nat /\ w.found \in Seq(Parts) /\ w.on \in BOOLEAN
      /\ w = [at |-> w.at, count |-> w.count, found |-> w.found, on |-> w.on]
  BY DEF Walks
<1>2. parts \in Seq(Parts) BY ReadPartsType
<1>3. here \in Seq(Parts) /\ links \in Seq(Parts) BY <1>2, SelectType
<1>4. moved \in Seq(Parts)
  <2> HIDE DEF here
  <2>1. Len(here) \in Nat /\ DOMAIN here = 1 .. Len(here) BY <1>3, LenProperties
  <2>2. \A p \in Parts : [p EXCEPT !.start = @ + w.at] \in Parts BY <1>1 DEF Parts
  <2>3. \A i \in 1 .. Len(here) : here[i] \in Parts BY <1>3, ElementOfSeq
  <2>4. moved \in [1 .. Len(here) -> Parts] BY <2>1, <2>2, <2>3
  <2> HIDE DEF moved
  <2> QED BY <2>1, <2>4, SeqDef
<1>5. found \in Seq(Parts)
  <2> HIDE DEF moved
  <2> QED BY <1>1, <1>4, ConcatProperties, CappedType
<1>6. ASSUME links # <<>> PROVE links[1].start \in Nat /\ links[1].count \in Nat
  <2> HIDE DEF links
  <2>1. Len(links) \in Nat \ {0} BY <1>3, <1>6, EmptySeq
  <2>2. links[1] \in Parts BY <1>3, <2>1, ElementOfSeq
  <2> QED BY <2>2 DEF Parts
<1>7. NextTable(d, w, first, count) =
        CASE Len(w.found) >= MaxParts \/ ~ Signed(Sector(d, w.at)) -> [w EXCEPT !.on = FALSE]
          [] links = <<>> -> [w EXCEPT !.found = found, !.on = FALSE]
          [] OTHER -> [w EXCEPT !.found = found, !.at = first + links[1].start,
                                !.count = links[1].count]
  BY DEF NextTable
<1> HIDE DEF parts, here, links, moved, found
<1> DEFINE over == Len(w.found) >= MaxParts \/ ~ Signed(Sector(d, w.at))
<1>8. CASE over
  <2>1. NextTable(d, w, first, count) = [w EXCEPT !.on = FALSE]
        \/ (links = <<>> /\ NextTable(d, w, first, count) = [w EXCEPT !.found = found, !.on = FALSE])
    BY <1>7, <1>8
  <2> QED BY <1>1, <1>5, <2>1 DEF Walks
<1>9. CASE ~ over /\ links = <<>>
  <2>1. NextTable(d, w, first, count) = [w EXCEPT !.found = found, !.on = FALSE] BY <1>7, <1>9
  <2> QED BY <1>1, <1>5, <2>1 DEF Walks
<1>10. CASE ~ over /\ links # <<>>
  <2>1. NextTable(d, w, first, count) =
          [w EXCEPT !.found = found, !.at = first + links[1].start, !.count = links[1].count]
    BY <1>7, <1>10
  <2>2. first + links[1].start \in Nat /\ links[1].count \in Nat BY <1>6, <1>10
  <2> QED BY <1>1, <1>5, <2>1, <2>2 DEF Walks
<1> QED BY <1>8, <1>9, <1>10

\* Where the search in an extended partition is after each turn of its loop.
Walked(walk, d, p, found) ==
  /\ walk[0] = [at |-> p.start, count |-> p.count, found |-> found, on |-> TRUE]
  /\ ParseExtended(d, p, found) = walk[2 * MaxParts + 2].found
  /\ \A k \in 1 .. 2 * MaxParts + 2 :
       walk[k] = IF walk[k - 1].on THEN NextTable(d, walk[k - 1], p.start, p.count)
                 ELSE walk[k - 1]

LEMMA ParseExtendedWalks ==
  ASSUME NEW d, AllReadable(d), NEW p \in Parts, NEW found \in Seq(Parts)
  PROVE  \E walk : Walked(walk, d, p, found) /\ walk[2 * MaxParts + 2] \in Walks
<1> DEFINE n == 2 * MaxParts + 2
           b == [at |-> p.start, count |-> p.count, found |-> found, on |-> TRUE]
           Turn(w) == IF w.on THEN NextTable(d, w, p.start, p.count) ELSE w
           step == [x \in (1 .. n) \X Walks |-> Turn(x[2])]
           E(f) == f = [k \in 0 .. n |->
                          IF k = 0 THEN b
                          ELSE LET w == f[k - 1] IN
                               IF w.on THEN NextTable(d, w, p.start, p.count) ELSE w]
           walk == CHOOSE f : E(f)
<1>1. ParseExtended(d, p, found) = walk[n].found BY DEF ParseExtended
<1>2. n \in Nat BY BoundsAssumption
<1>3. b \in Walks BY DEF Walks, Parts
<1>4. p.start \in Nat BY DEF Parts
<1>5. \A w \in Walks : Turn(w) \in Walks BY <1>4, NextTableType
<1> HIDE DEF b, Turn
<1>6. step \in [(1 .. n) \X Walks -> Walks] BY <1>5
<1>7. \A k \in 1 .. n, w \in Walks : step[<<k, w>>] = Turn(w) OBVIOUS
<1> HIDE DEF step, n
<1>8. PICK g \in [0 .. n -> Walks] : Iterates(g, n, b, step)
  BY <1>2, <1>3, <1>6, IterationExists
<1>9. E(g)
  <2>1. \A k \in 0 .. n : g[k] = IF k = 0 THEN b ELSE step[<<k, g[k - 1]>>]
    BY <1>8 DEF Iterates
  <2>2. \A k \in 0 .. n : k # 0 => k \in 1 .. n /\ g[k - 1] \in Walks BY <1>2
  <2>3. \A k \in 0 .. n : g[k] = IF k = 0 THEN b ELSE Turn(g[k - 1])
    BY <1>7, <2>1, <2>2
  <2> QED BY <2>3 DEF Turn
<1> HIDE DEF E
<1>10. E(walk) BY <1>9
<1> HIDE DEF walk
<1>11. \A k \in 0 .. n : walk[k] = IF k = 0 THEN b ELSE Turn(walk[k - 1])
  BY <1>10 DEF E, Turn
<1>12. walk[0] = b BY <1>2, <1>11
<1>13. \A k \in 1 .. n : walk[k] = Turn(walk[k - 1])
  <2>1. \A k \in 1 .. n : k \in 0 .. n /\ k # 0 BY <1>2
  <2> QED BY <1>11, <2>1
<1>14. \A k \in 0 .. n : walk[k] \in Walks
  <2>1. \A k \in 1 .. n : walk[k - 1] \in Walks => walk[k] = step[<<k, walk[k - 1]>>]
    BY <1>7, <1>13
  <2> QED BY <1>2, <1>3, <1>6, <1>12, <2>1, RecursionType
<1>15. walk[n] \in Walks BY <1>2, <1>14
<1> QED BY <1>1, <1>12, <1>13, <1>15 DEF Walked, Turn, b, n

LEMMA ParseExtendedType ==
  ASSUME NEW d, AllReadable(d), NEW p \in Parts, NEW found \in Seq(Parts)
  PROVE  ParseExtended(d, p, found) \in Seq(Parts)
<1>1. PICK walk : Walked(walk, d, p, found) /\ walk[2 * MaxParts + 2] \in Walks
  BY ParseExtendedWalks
<1> QED BY <1>1 DEF Walked, Walks

\* What has been found after each entry of the first table.
Searched(found, d) ==
  LET parts == ReadParts(Sector(d, 0)) IN
  /\ found[0] = Capped(Select(parts, {i \in 1 .. 4 : ~ IsExtended(parts[i]) /\ parts[i].count # 0}))
  /\ \A i \in 1 .. 4 :
       found[i] = IF IsExtended(parts[i]) /\ Len(found[i - 1]) < MaxParts
                  THEN ParseExtended(d, parts[i], found[i - 1]) ELSE found[i - 1]
  /\ Search(d) = CASE ~ Signed(Sector(d, 0)) -> <<>>
                   [] found[4] = <<>> /\ Sector(d, 0).kind = "boot" ->
                        <<Part("fat", 0, Sector(d, 0).total)>>
                   [] OTHER -> found[4]

LEMMA SearchSearches ==
  ASSUME NEW d, AllReadable(d)
  PROVE  \E found : Searched(found, d) /\ found[4] \in Seq(Parts)
<1> DEFINE parts == ReadParts(Sector(d, 0))
           primary == {i \in 1 .. 4 : ~ IsExtended(parts[i]) /\ parts[i].count # 0}
           b == Capped(Select(parts, primary))
           Turn(i, q) == IF IsExtended(parts[i]) /\ Len(q) < MaxParts
                         THEN ParseExtended(d, parts[i], q) ELSE q
           A == Seq(Parts)
           step == [x \in (1 .. 4) \X A |-> Turn(x[1], x[2])]
           E(f) == f = [i \in 0 .. 4 |->
                          IF i = 0 THEN b
                          ELSE LET q == f[i - 1] IN
                               IF IsExtended(parts[i]) /\ Len(q) < MaxParts
                               THEN ParseExtended(d, parts[i], q) ELSE q]
           found == CHOOSE f : E(f)
<1>1. Search(d) = CASE ~ Signed(Sector(d, 0)) -> <<>>
                    [] found[4] = <<>> /\ Sector(d, 0).kind = "boot" ->
                         <<Part("fat", 0, Sector(d, 0).total)>>
                    [] OTHER -> found[4]
  BY DEF Search
<1>2. parts \in Seq(Parts) /\ parts \in [1 .. 4 -> Parts] BY ReadPartsType
<1>3. b \in A
  <2> HIDE DEF parts, primary
  <2> QED BY <1>2, SelectType, CappedType
<1>4. \A i \in 1 .. 4, q \in A : Turn(i, q) \in A
  <2> HIDE DEF parts
  <2>1. \A i \in 1 .. 4 : parts[i] \in Parts BY <1>2
  <2>2. \A i \in 1 .. 4, q \in A : ParseExtended(d, parts[i], q) \in A
    BY <2>1, ParseExtendedType
  <2> QED BY <2>2
<1> HIDE DEF b, Turn, A
<1>5. step \in [(1 .. 4) \X A -> A] BY <1>4
<1>6. \A i \in 1 .. 4, q \in A : step[<<i, q>>] = Turn(i, q) OBVIOUS
<1> HIDE DEF step, parts
<1>7. PICK g \in [0 .. 4 -> A] : Iterates(g, 4, b, step)
  BY <1>3, <1>5, IterationExists
<1>8. E(g)
  <2>1. \A i \in 0 .. 4 : g[i] = IF i = 0 THEN b ELSE step[<<i, g[i - 1]>>]
    BY <1>7 DEF Iterates
  <2>2. \A i \in 0 .. 4 : i # 0 => i \in 1 .. 4 /\ g[i - 1] \in A OBVIOUS
  <2>3. \A i \in 0 .. 4 : g[i] = IF i = 0 THEN b ELSE Turn(i, g[i - 1])
    BY <1>6, <2>1, <2>2
  <2> QED BY <2>3 DEF Turn
<1> HIDE DEF E
<1>9. E(found) BY <1>8
<1> HIDE DEF found
<1>10. \A i \in 0 .. 4 : found[i] = IF i = 0 THEN b ELSE Turn(i, found[i - 1])
  BY <1>9 DEF E, Turn
<1>11. found[0] = b BY <1>10
<1>12. \A i \in 1 .. 4 : found[i] = Turn(i, found[i - 1])
  <2>1. \A i \in 1 .. 4 : i \in 0 .. 4 /\ i # 0 OBVIOUS
  <2> QED BY <1>10, <2>1
<1>13. \A i \in 0 .. 4 : found[i] \in A
  <2>1. \A i \in 1 .. 4 : found[i - 1] \in A => found[i] = step[<<i, found[i - 1]>>]
    BY <1>6, <1>12
  <2> QED BY <1>3, <1>5, <1>11, <2>1, RecursionType
<1>14. found[4] \in Seq(Parts) BY <1>13 DEF A
<1>15. Searched(found, d)
  BY <1>1, <1>11, <1>12 DEF Searched, Turn, b, parts
<1> QED BY <1>14, <1>15

\* What the search finds are partitions with a first sector and a size, whatever the
\* tables say.
LEMMA SearchType ==
  ASSUME NEW d, AllReadable(d)
  PROVE  Search(d) \in Seq(Parts)
<1>1. PICK found : Searched(found, d) /\ found[4] \in Seq(Parts) BY SearchSearches
<1>2. ASSUME Sector(d, 0).kind = "boot"
      PROVE  <<Part("fat", 0, Sector(d, 0).total)>> \in Seq(Parts)
  <2>1. Sector(d, 0).total \in Nat BY <1>2 DEF AllReadable, Sector, Blank, Readable
  <2>2. Part("fat", 0, Sector(d, 0).total) \in Parts BY <2>1 DEF Part, Parts
  <2> QED BY <2>2
<1> QED BY <1>1, <1>2 DEF Searched

-----------------------------------------------------------------------------
(* What FF_Partition lays out. *)

\* The sums of a sequence of numbers.
LEMMA SumToType ==
  ASSUME NEW s \in Seq(Nat)
  PROVE  /\ \A k \in 0 .. Len(s) : SumTo(s, k) \in Nat
         /\ SumTo(s, 0) = 0
         /\ \A k \in 1 .. Len(s) : SumTo(s, k) = SumTo(s, k - 1) + s[k]
<1> DEFINE n == Len(s)
           step == [x \in (1 .. n) \X Nat |-> x[2] + s[x[1]]]
           E(f) == f = [i \in 0 .. n |-> IF i = 0 THEN 0 ELSE LET b == f[i - 1] IN b + s[i]]
           sum == CHOOSE f : E(f)
<1>1. \A k : SumTo(s, k) = sum[k] BY DEF SumTo
<1>2. n \in Nat OBVIOUS
<1>3. \A i \in 1 .. n : s[i] \in Nat BY ElementOfSeq
<1>4. step \in [(1 .. n) \X Nat -> Nat]
  <2>1. \A x \in (1 .. n) \X Nat : x[2] \in Nat /\ s[x[1]] \in Nat BY <1>3
  <2> QED BY <2>1
<1>5. \A i \in 1 .. n, b \in Nat : step[<<i, b>>] = b + s[i] OBVIOUS
<1> HIDE DEF step, n
<1>6. PICK g \in [0 .. n -> Nat] : Iterates(g, n, 0, step)
  BY <1>2, <1>4, IterationExists
<1>7. E(g)
  <2>1. \A i \in 0 .. n : g[i] = IF i = 0 THEN 0 ELSE step[<<i, g[i - 1]>>]
    BY <1>6 DEF Iterates
  <2>2. \A i \in 0 .. n : i # 0 => i \in 1 .. n /\ g[i - 1] \in Nat BY <1>2
  <2>3. \A i \in 0 .. n : g[i] = IF i = 0 THEN 0 ELSE g[i - 1] + s[i]
    BY <1>5, <2>1, <2>2
  <2> QED BY <2>3
<1> HIDE DEF E
<1>8. E(sum) BY <1>7
<1> HIDE DEF sum
<1>9. \A i \in 0 .. n : sum[i] = IF i = 0 THEN 0 ELSE sum[i - 1] + s[i] BY <1>8 DEF E
<1>10. sum[0] = 0 BY <1>2, <1>9
<1>11. \A i \in 1 .. n : sum[i] = sum[i - 1] + s[i]
  <2>1. \A i \in 1 .. n : i \in 0 .. n /\ i # 0 BY <1>2
  <2> QED BY <1>9, <2>1
<1>12. \A i \in 1 .. n : sum[i - 1] \in Nat => sum[i] = step[<<i, sum[i - 1]>>]
  BY <1>5, <1>11
<1>13. \A i \in 0 .. n : sum[i] \in Nat
  <2>1. PICK b \in Nat : b = sum[0] BY <1>10
  <2> QED BY ZenonT(40), <1>2, <1>4, <1>12, <2>1, RecursionType
<1> QED BY <1>1, <1>10, <1>11, <1>13 DEF n

\* The more members, the larger the sum.
LEMMA SumToGrows ==
  ASSUME NEW s \in Seq(Nat), NEW k \in 0 .. Len(s)
  PROVE  \A i \in k .. Len(s) : SumTo(s, k) <= SumTo(s, i)
<1> DEFINE n == Len(s) - k
           S == {i \in 0 .. n : SumTo(s, k) <= SumTo(s, k + i)}
<1>1. n \in Nat /\ Len(s) \in Nat BY LenProperties
<1>2. \A i \in 0 .. Len(s) : SumTo(s, i) \in Nat BY SumToType
<1>3. \A i \in 1 .. Len(s) : SumTo(s, i) = SumTo(s, i - 1) + s[i] BY SumToType
<1>4. 0 \in S BY <1>1, <1>2
<1>5. ASSUME NEW i \in 0 .. n - 1, i \in S PROVE i + 1 \in S
  <2>1. SumTo(s, k + i + 1) = SumTo(s, k + i) + s[k + i + 1]
    <3>1. k + i + 1 \in 1 .. Len(s) /\ (k + i + 1) - 1 = k + i BY <1>1
    <3> QED BY <1>3, <3>1
  <2>2. s[k + i + 1] \in Nat
    <3>1. k + i + 1 \in 1 .. Len(s) BY <1>1
    <3> QED BY <3>1, ElementOfSeq
  <2>3. SumTo(s, k) \in Nat /\ SumTo(s, k + i) \in Nat
    <3>1. k \in 0 .. Len(s) /\ k + i \in 0 .. Len(s) BY <1>1
    <3> QED BY <1>2, <3>1
  <2>4. SumTo(s, k) <= SumTo(s, k + i) BY <1>5
  <2>5. SumTo(s, k) <= SumTo(s, k + i + 1) BY <2>1, <2>2, <2>3, <2>4
  <2>6. i + 1 \in 0 .. n /\ k + (i + 1) = k + i + 1 BY <1>1
  <2> QED BY <2>5, <2>6
<1> HIDE DEF S
<1>6. \A i \in 0 .. n : i \in S
  <2> HIDE DEF n
  <2> QED BY <1>1, <1>4, <1>5, BoundedInduction
<1>7. SUFFICES ASSUME NEW i \in k .. Len(s) PROVE SumTo(s, k) <= SumTo(s, i) OBVIOUS
<1>8. i - k \in 0 .. n /\ k + (i - k) = i BY <1>1
<1>9. i - k \in S BY <1>6, <1>8
<1> QED BY <1>8, <1>9 DEF S

\* What VolumeAssumption says of a request for a disk of n sectors.
Possible(r, n) ==
  /\ n \in Nat /\ r.sizes \in Seq(Nat)
  /\ r.unit \in {"quota", "percent", "sectors"}
  /\ r.primary \in Nat /\ r.hidden \in Nat /\ r.inter \in Nat
  /\ Available(r, n) > 0

\* The shares, and how many of them are counted.
Counted(r, n) == Cardinality(NotZero(Shares(r, n)))

LEMMA SharesType ==
  ASSUME NEW r, NEW n, r.sizes \in Seq(Nat), n \in Nat
  PROVE  /\ Shares(r, n) \in Seq(Nat)
         /\ n > 0 => NotZero(Shares(r, n)) # {} /\ Counted(r, n) > 0
         /\ Counted(r, n) \in 0 .. Len(Shares(r, n))
         /\ Wanted(r, n) \in Seq(Nat) /\ Len(Wanted(r, n)) = Counted(r, n)
<1> DEFINE S == Shares(r, n)
           m == Len(S)
<1>1. S \in Seq(Nat) /\ (n > 0 => NotZero(S) # {})
  <2>1. CASE NotZero(r.sizes) # {} BY <2>1 DEF Shares
  <2>2. CASE ~ NotZero(r.sizes) # {}
    <3>1. S = <<n>> \/ S = <<100>> BY <2>2 DEF Shares
    <3>2. <<n>> \in Seq(Nat) /\ <<100>> \in Seq(Nat) OBVIOUS
    <3>3. 1 \in NotZero(<<100>>) /\ (n > 0 => 1 \in NotZero(<<n>>)) BY DEF NotZero
    <3> HIDE DEF S
    <3> QED BY <3>1, <3>2, <3>3
  <2> QED BY <2>1, <2>2
<1> HIDE DEF S
<1>2. m \in Nat BY <1>1
<1>3. NotZero(S) \subseteq 1 .. m BY <1>1 DEF NotZero
<1> HIDE DEF m
<1>4. IsFiniteSet(1 .. m) /\ Cardinality(1 .. m) = m BY <1>2, FS_Interval
<1>5. Cardinality(NotZero(S)) \in Nat /\ Cardinality(NotZero(S)) <= m
  BY <1>2, <1>3, <1>4, FS_Subset, FS_CardinalityType
<1>6. n > 0 => Cardinality(NotZero(S)) # 0
  BY <1>1, <1>3, <1>4, FS_Subset, FS_EmptySet
<1>7. Cardinality(NotZero(S)) \in 0 .. m BY <1>2, <1>5
<1>8. \A c \in 0 .. Len(S) : SubSeq(S, 1, c) \in Seq(Nat) /\ Len(SubSeq(S, 1, c)) = c
  BY <1>1, <1>2, SubSeqProperties DEF m
<1> QED BY <1>1, <1>5, <1>6, <1>7, <1>8 DEF Counted, Wanted, S, m

LEMMA WantedType ==
  ASSUME NEW r, NEW n, Possible(r, n)
  PROVE  /\ Wanted(r, n) \in Seq(Nat) /\ Len(Wanted(r, n)) \in Nat /\ Len(Wanted(r, n)) > 0
         /\ Primaries(r, n) \in 0 .. Len(Wanted(r, n)) /\ Logicals(r, n) \in Nat
         /\ Hidden(r, n) \in Nat /\ Gap(r) \in Nat /\ Available(r, n) \in Nat
         /\ Hidden(r, n) + Available(r, n) <= n
<1> DEFINE W == Wanted(r, n)
<1>1. n \in Nat /\ r.sizes \in Seq(Nat) /\ Available(r, n) > 0 BY DEF Possible
<1>2. W \in Seq(Nat) /\ Len(W) \in Nat /\ Len(W) = Counted(r, n)
  BY <1>1, SharesType
<1>6. Primaries(r, n) \in 0 .. Len(W) /\ Logicals(r, n) \in Nat
  <2>1. r.primary \in Nat BY DEF Possible
  <2>2. Primaries(r, n) = Least(r.primary, Len(W)) BY DEF Primaries
  <2>3. Primaries(r, n) \in 0 .. Len(W) BY <1>2, <2>1, <2>2 DEF Least
  <2>4. Logicals(r, n) = Len(W) - Primaries(r, n) BY DEF Logicals
  <2> HIDE DEF W
  <2> QED BY <1>2, <2>3, <2>4
<1>7. Gap(r) \in Nat /\ Hidden(r, n) \in Nat BY DEF Possible, Gap, Hidden
<1>8. PICK more \in Nat : more = Gap(r) * Logicals(r, n)
  <2>1. \A x, y \in Nat : x * y \in Nat OBVIOUS
  <2> QED BY <1>6, <1>7, <2>1
<1>9. Available(r, n) = n - Hidden(r, n) - more BY <1>8 DEF Available
<1>10. Available(r, n) \in Nat /\ Hidden(r, n) + Available(r, n) <= n
  BY <1>1, <1>7, <1>9
<1>11. n > 0 BY <1>1, <1>7, <1>10
<1>12. Len(W) > 0 BY <1>1, <1>2, <1>11, SharesType
<1> HIDE DEF W
<1> QED BY <1>2, <1>6, <1>7, <1>10, <1>12 DEF W

LEMMA RequestIsOnDisk ==
  ASSUME NEW r, NEW n, Possible(r, n)
  PROVE  n > 0
BY WantedType DEF Possible

\* A member that is not zero makes the sum more than zero.
LEMMA SumIsPositive ==
  ASSUME NEW s \in Seq(Nat), NotZero(s) # {}
  PROVE  Sum(s) \in Nat /\ Sum(s) > 0
<1>1. PICK i \in DOMAIN s : s[i] # 0 BY DEF NotZero
<1>2. Len(s) \in Nat /\ i \in 1 .. Len(s) OBVIOUS
<1>3. s[i] \in Nat /\ s[i] > 0
  <2>1. s[i] \in Nat BY <1>2, ElementOfSeq
  <2> QED BY <1>1, <2>1
<1>4. /\ SumTo(s, i) = SumTo(s, i - 1) + s[i]
      /\ SumTo(s, i - 1) \in Nat /\ SumTo(s, Len(s)) \in Nat
  <2>1. i - 1 \in 0 .. Len(s) /\ Len(s) \in 0 .. Len(s) BY <1>2
  <2> QED BY <1>2, <2>1, SumToType
<1>5. SumTo(s, i) <= SumTo(s, Len(s))
  <2>1. i \in 0 .. Len(s) /\ Len(s) \in i .. Len(s) BY <1>2
  <2> QED BY <2>1, SumToGrows
<1>6. SumTo(s, Len(s)) > 0 BY <1>3, <1>4, <1>5
<1> QED BY <1>4, <1>6 DEF Sum

\* The sizes of the partitions are no more than what there is to share.
LEMMA SizesType ==
  ASSUME NEW r, NEW n, Possible(r, n)
  PROVE  /\ Sizes(r, n) \in Seq(Nat) /\ Len(Sizes(r, n)) = Len(Wanted(r, n))
         /\ \A k \in 0 .. Len(Sizes(r, n)) : SumTo(Sizes(r, n), k) <= Available(r, n)
<1> DEFINE W == Wanted(r, n)
           m == Len(W)
           V == Available(r, n)
           whole == IF r.unit = "percent" THEN 100 ELSE Sum(Shares(r, n))
           ideal(x) == IF r.unit = "sectors" THEN x ELSE (x * V) \div whole
           A == 0 .. V
           Rest(i, left) == left - Least(ideal(W[i]), left)
           step == [x \in (1 .. m) \X A |-> Rest(x[1], x[2])]
           E(f) == f = [i \in 0 .. m |->
                          IF i = 0 THEN V
                          ELSE LET rest == f[i - 1] IN rest - Least(ideal(W[i]), rest)]
           left == CHOOSE f : E(f)
           sizes == [i \in 1 .. m |-> left[i - 1] - left[i]]
<1>1. Sizes(r, n) = sizes BY DEF Sizes
<1>2. W \in Seq(Nat) /\ m \in Nat /\ m > 0 /\ V \in Nat BY WantedType
<1>3. \A i \in 1 .. m : W[i] \in Nat BY <1>2, ElementOfSeq
<1>4. whole \in Nat /\ whole > 0
  <2>1. n \in Nat /\ n > 0 /\ r.sizes \in Seq(Nat) BY RequestIsOnDisk DEF Possible
  <2>2. Sum(Shares(r, n)) \in Nat /\ Sum(Shares(r, n)) > 0 BY <2>1, SharesType, SumIsPositive
  <2> QED BY <2>2
<1> HIDE DEF W, m, V, whole
<1>5. \A i \in 1 .. m : ideal(W[i]) \in Nat
  <2> SUFFICES ASSUME NEW i \in 1 .. m PROVE ideal(W[i]) \in Nat OBVIOUS
  <2>1. W[i] \in Nat BY <1>3
  <2>2. \A x, y \in Nat : x * y \in Nat OBVIOUS
  <2>3. \A x, y \in Nat : y > 0 => x \div y \in Nat OBVIOUS
  <2>4. W[i] * V \in Nat BY <1>2, <2>1, <2>2
  <2>5. (W[i] * V) \div whole \in Nat BY <1>4, <2>3, <2>4
  <2> QED BY <2>1, <2>5
<1> HIDE DEF ideal
<1>6. \A i \in 1 .. m, l \in A : Rest(i, l) \in A /\ l - Rest(i, l) \in Nat
  <2> SUFFICES ASSUME NEW i \in 1 .. m, NEW l \in A
               PROVE  Rest(i, l) \in A /\ l - Rest(i, l) \in Nat
    OBVIOUS
  <2>1. PICK x \in Nat : x = ideal(W[i]) BY <1>5
  <2>2. Rest(i, l) = l - Least(x, l) BY <2>1
  <2>3. l \in Nat /\ l <= V BY <1>2
  <2>4. Least(x, l) \in 0 .. l BY <2>3 DEF Least
  <2> QED BY <1>2, <2>2, <2>3, <2>4
<1> HIDE DEF Rest
<1>7. step \in [(1 .. m) \X A -> A]
  <2> HIDE DEF A
  <2> QED BY <1>6
<1>8. \A i \in 1 .. m, l \in A : step[<<i, l>>] = Rest(i, l) OBVIOUS
<1> HIDE DEF step
<1>9. V \in A BY <1>2
<1> HIDE DEF A
<1>10. PICK g \in [0 .. m -> A] : Iterates(g, m, V, step)
  BY <1>2, <1>7, <1>9, IterationExists
<1>11. E(g)
  <2>1. \A i \in 0 .. m : g[i] = IF i = 0 THEN V ELSE step[<<i, g[i - 1]>>]
    BY <1>10 DEF Iterates
  <2>2. \A i \in 0 .. m : i # 0 => i \in 1 .. m /\ g[i - 1] \in A BY <1>2
  <2>3. \A i \in 0 .. m : g[i] = IF i = 0 THEN V ELSE Rest(i, g[i - 1])
    BY <1>8, <2>1, <2>2
  <2> QED BY <2>3 DEF Rest
<1> HIDE DEF E
<1>12. E(left) BY <1>11
<1> HIDE DEF left
<1>13. \A i \in 0 .. m : left[i] = IF i = 0 THEN V ELSE Rest(i, left[i - 1])
  BY <1>12 DEF E, Rest
<1>14. left[0] = V BY <1>2, <1>13
<1>15. \A i \in 1 .. m : left[i] = Rest(i, left[i - 1])
  <2>1. \A i \in 1 .. m : i \in 0 .. m /\ i # 0 BY <1>2
  <2> QED BY <1>13, <2>1
<1>16. \A i \in 1 .. m : left[i - 1] \in A => left[i] = step[<<i, left[i - 1]>>]
  BY <1>8, <1>15
<1>17. \A i \in 0 .. m : left[i] \in A
  BY <1>2, <1>7, <1>9, <1>14, <1>16, RecursionType
<1>18. \A i \in 1 .. m : left[i - 1] - left[i] \in Nat
  <2>1. \A i \in 1 .. m : left[i - 1] \in A BY <1>2, <1>17
  <2> QED BY <1>6, <1>15, <2>1
<1>19. sizes \in Seq(Nat) /\ Len(sizes) = m
  <2>1. sizes \in [1 .. m -> Nat] BY <1>18
  <2> QED BY <1>2, <2>1, SeqDef
<1>20. \A i \in 1 .. m : sizes[i] = left[i - 1] - left[i] OBVIOUS
<1> HIDE DEF sizes
<1>21. \A k \in 0 .. m : SumTo(sizes, k) = V - left[k]
  <2> DEFINE S == {k \in 0 .. m : SumTo(sizes, k) = V - left[k]}
  <2>1. 0 \in S
    <3>1. SumTo(sizes, 0) = 0 BY <1>19, SumToType
    <3> QED BY <1>2, <1>14, <3>1
  <2>2. ASSUME NEW k \in 0 .. m - 1, k \in S PROVE k + 1 \in S
    <3>1. k + 1 \in 1 .. m /\ (k + 1) - 1 = k BY <1>2
    <3>2. SumTo(sizes, k + 1) = SumTo(sizes, k) + sizes[k + 1]
      BY <1>19, <3>1, SumToType
    <3>3. sizes[k + 1] = left[k] - left[k + 1] BY <1>20, <3>1
    <3>4. left[k] \in Nat /\ left[k + 1] \in Nat BY <1>2, <1>17, <3>1 DEF A
    <3>5. SumTo(sizes, k) = V - left[k] BY <2>2
    <3> QED BY <1>2, <3>1, <3>2, <3>3, <3>4, <3>5
  <2> HIDE DEF S
  <2>3. \A k \in 0 .. m : k \in S BY <1>2, <2>1, <2>2, BoundedInduction
  <2> QED BY <2>3 DEF S
<1>22. \A k \in 0 .. m : SumTo(sizes, k) <= V
  <2>1. V \in Nat /\ \A k \in 0 .. m : left[k] \in Nat BY <1>2, <1>17 DEF A
  <2> QED BY <1>21, <2>1
<1> QED BY <1>1, <1>19, <1>22 DEF m, V, W

TableSectors == [kind : {"table"}, parts : [1 .. 4 -> Parts]]

LEMMA FourType ==
  ASSUME NEW q \in Seq(Parts)
  PROVE  Table(Four(q)) \in TableSectors
<1>1. NoPart \in Parts BY DEF NoPart, Part, Parts
<1>2. Len(q) \in Nat BY LenProperties
<1>3. \A i \in 1 .. Len(q) : q[i] \in Parts BY ElementOfSeq
<1>4. \A i \in 1 .. 4 : i <= Len(q) => i \in 1 .. Len(q) BY <1>2
<1>5. Four(q) \in [1 .. 4 -> Parts] BY <1>1, <1>3, <1>4 DEF Four
<1> QED BY <1>5 DEF Table, TableSectors

\* The tables that FF_Partition writes are tables with numbers of sectors, at sectors.
LEMMA TablesType ==
  ASSUME NEW r, NEW n, Possible(r, n)
  PROVE  Tables(r, n) \in Seq([at : Nat, what : TableSectors])
<1> DEFINE sizes == Sizes(r, n)
           k == Primaries(r, n)
           l == Logicals(r, n)
           first == ExtendedBegin(r, n)
           at(i) == first + SumTo(sizes, i - 1) - SumTo(sizes, k) + Gap(r) * (i - k - 1)
           primary == [i \in 1 .. k |-> Part("fat", Hidden(r, n) + SumTo(sizes, i - 1), sizes[i])]
           logical(i) == Part("fat", LogicalStart(r), sizes[i])
           link(i) == Part("extended", at(i) - first, LinkCount(r, sizes[i]))
           rest == IF l > 0 THEN <<Part("extended", first, n - first)>> ELSE <<>>
           R == [at : Nat, what : TableSectors]
           chain == [j \in 1 .. l |->
                       [at |-> at(k + j),
                        what |-> Table(Four(IF k + j = Len(sizes) THEN <<logical(k + j)>>
                                            ELSE <<logical(k + j), link(k + j + 1)>>))]]
<1>1. Tables(r, n) = <<[at |-> 0, what |-> Table(Four(primary \o rest))]>> \o chain
  BY DEF Tables
<1>2. PICK m \in Nat : m = Len(sizes) BY SizesType
<1>3. /\ sizes \in Seq(Nat) /\ k \in 0 .. m /\ l \in Nat /\ l = m - k
      /\ Hidden(r, n) \in Nat /\ Gap(r) \in Nat /\ Available(r, n) \in Nat
      /\ Hidden(r, n) + Available(r, n) <= n /\ n \in Nat
  <2>1. m = Len(Wanted(r, n)) BY <1>2, SizesType
  <2>2. l = Len(Wanted(r, n)) - k BY DEF Logicals
  <2> HIDE DEF k, l
  <2> QED BY <2>1, <2>2, SizesType, WantedType DEF Possible, k, l
<1>4. \A i \in 0 .. m : SumTo(sizes, i) \in Nat
  <2> HIDE DEF sizes
  <2> QED BY <1>2, <1>3, SumToType
<1>5. \A i \in 1 .. m : sizes[i] \in Nat
  <2> HIDE DEF sizes
  <2> QED BY <1>2, <1>3, ElementOfSeq
<1>6. SumTo(sizes, k) \in Nat /\ SumTo(sizes, k) <= Available(r, n)
  <2> HIDE DEF k
  <2> QED BY <1>2, <1>3, <1>4, SizesType
<1>7. \A i \in k .. m : SumTo(sizes, k) <= SumTo(sizes, i)
  <2> HIDE DEF sizes, k
  <2> QED BY <1>2, <1>3, SumToGrows
<1>8. first = Hidden(r, n) + SumTo(sizes, k) BY DEF ExtendedBegin
<1> HIDE DEF sizes, k, l, first
<1>9. first \in Nat /\ n - first \in Nat BY <1>3, <1>6, <1>8
<1>10. \A i \in k + 1 .. m + 1 : at(i) \in Nat /\ at(i) - first \in Nat
  <2> SUFFICES ASSUME NEW i \in k + 1 .. m + 1
               PROVE  at(i) \in Nat /\ at(i) - first \in Nat
    OBVIOUS
  <2>1. i \in Int /\ i - 1 \in k .. m /\ i - 1 \in 0 .. m /\ i - k - 1 \in Nat BY <1>3
  <2>2. PICK x \in Nat : x = SumTo(sizes, i - 1) BY <1>4, <2>1
  <2>3. PICK y \in Nat : y = SumTo(sizes, k) BY <1>6
  <2>4. y <= x BY <1>7, <2>1, <2>2, <2>3
  <2>5. PICK z \in Nat : z = Gap(r) * (i - k - 1)
    <3>1. \A a, b \in Nat : a * b \in Nat OBVIOUS
    <3> QED BY <1>3, <2>1, <3>1
  <2>6. at(i) = first + x - y + z BY <2>2, <2>3, <2>5
  <2> HIDE DEF at
  <2> QED BY <1>9, <2>4, <2>6
<1> HIDE DEF at
<1>11. \A i \in 1 .. m : logical(i) \in Parts
  BY <1>3, <1>5 DEF LogicalStart, Part, Parts
<1>12. \A i \in k + 1 .. m : link(i) \in Parts
  <2> SUFFICES ASSUME NEW i \in k + 1 .. m PROVE link(i) \in Parts OBVIOUS
  <2>1. i \in k + 1 .. m + 1 /\ i \in 1 .. m BY <1>3
  <2>2. at(i) - first \in Nat /\ sizes[i] \in Nat BY <1>5, <1>10, <2>1
  <2>3. LinkCount(r, sizes[i]) \in Nat BY <1>3, <2>2 DEF LinkCount
  <2> QED BY <2>2, <2>3 DEF Part, Parts
<1>13. primary \o rest \in Seq(Parts)
  <2>1. \A i \in 1 .. k : Part("fat", Hidden(r, n) + SumTo(sizes, i - 1), sizes[i]) \in Parts
    <3> SUFFICES ASSUME NEW i \in 1 .. k
                 PROVE  Part("fat", Hidden(r, n) + SumTo(sizes, i - 1), sizes[i]) \in Parts
      OBVIOUS
    <3>1. i \in 1 .. m /\ i - 1 \in 0 .. m BY <1>3
    <3>2. SumTo(sizes, i - 1) \in Nat /\ sizes[i] \in Nat BY <1>4, <1>5, <3>1
    <3> QED BY <1>3, <3>2 DEF Part, Parts
  <2>2. primary \in [1 .. k -> Parts] BY <2>1
  <2>3. primary \in Seq(Parts) BY <1>3, <2>2, SeqDef
  <2>4. Part("extended", first, n - first) \in Parts BY <1>9 DEF Part, Parts
  <2>5. rest \in Seq(Parts) BY <2>4
  <2> HIDE DEF primary, rest
  <2> QED BY <2>3, <2>5, ConcatProperties
<1>14. [at |-> 0, what |-> Table(Four(primary \o rest))] \in R
  <2>1. Table(Four(primary \o rest)) \in TableSectors BY <1>13, FourType
  <2> HIDE DEF primary, rest
  <2> QED BY <2>1
<1>15. chain \in Seq(R)
  <2> SUFFICES ASSUME NEW j \in 1 .. l PROVE chain[j] \in R
    <3>1. ASSUME \A j \in 1 .. l : chain[j] \in R PROVE chain \in [1 .. l -> R] BY <3>1
    <3> HIDE DEF chain, R
    <3>2. chain \in [1 .. l -> R] => chain \in Seq(R) BY <1>3, SeqDef
    <3> QED BY <3>1, <3>2
  <2>1. k + j \in k + 1 .. m + 1 /\ k + j \in 1 .. m BY <1>3
  <2>2. at(k + j) \in Nat /\ logical(k + j) \in Parts BY <1>10, <1>11, <2>1
  <2>3. ASSUME k + j # Len(sizes) PROVE link(k + j + 1) \in Parts
    <3>1. k + j + 1 \in k + 1 .. m BY <1>2, <1>3, <2>1, <2>3
    <3> QED BY <1>12, <3>1
  <2> HIDE DEF logical, link
  <2>4. (IF k + j = Len(sizes) THEN <<logical(k + j)>>
         ELSE <<logical(k + j), link(k + j + 1)>>) \in Seq(Parts)
    BY <2>2, <2>3
  <2>5. PICK q \in Seq(Parts) :
          q = IF k + j = Len(sizes) THEN <<logical(k + j)>>
              ELSE <<logical(k + j), link(k + j + 1)>>
    BY <2>4
  <2>6. chain[j] = [at |-> at(k + j), what |-> Table(Four(q))] BY <2>5
  <2>7. Table(Four(q)) \in TableSectors BY FourType
  <2> QED BY <2>2, <2>6, <2>7
<1> HIDE DEF primary, rest, chain, R
<1>16. <<[at |-> 0, what |-> Table(Four(primary \o rest))]>> \in Seq(R) BY <1>14
<1> QED BY <1>1, <1>15, <1>16, ConcatProperties DEF R

-----------------------------------------------------------------------------
(* The functions at work. *)

\* A write leaves a disk that can be read, also one that stops half-way.
LEMMA AfterReadable ==
  ASSUME NEW d, AllReadable(d), NEW w, GoodWrite(w), NEW k \in Nat
  PROVE  AllReadable(After(d, w, k))
<1> SUFFICES ASSUME NEW s \in DOMAIN After(d, w, k) PROVE Readable(After(d, w, k)[s])
  BY DEF AllReadable
<1> DEFINE hit == s \in w.at .. w.at + k - 1
                  \/ s \in w.at + w.copy .. w.at + w.copy + k - 1
<1>1. After(d, w, k)[s] = IF hit THEN w.what ELSE d[s] BY DEF After
<1>2. \/ s \in DOMAIN d
      \/ k # 0 /\ s = w.at
  BY DEF After
<1>3. k # 0 /\ s = w.at => hit BY DEF GoodWrite
<1> HIDE DEF hit
<1>4. CASE hit BY <1>1, <1>4 DEF GoodWrite
<1>5. CASE ~ hit
  <2>1. s \in DOMAIN d BY <1>2, <1>3, <1>5
  <2> QED BY <1>1, <1>5, <2>1 DEF AllReadable
<1> QED BY <1>4, <1>5

\* The disk keeps its size, its sectors hold numbers of sectors; the function at work
\* knows what it does and has writes of numbers of sectors to do, those of FF_Format in
\* the partition; and what is formatted has a good layout.
SizeIsKnown == \E v \in Starts : size = v.size

JobIsPlanned ==
  /\ job.fn \in {"none", "partition", "format"} /\ {"fn", "todo"} \subseteq DOMAIN job
  /\ job.fn # "none" => "plan" \in DOMAIN job
  /\ job.fn = "none" => job = NoJob
  /\ job.fn = "format" => GoodLayout(job.plan)

WritesAreGood ==
  \E S : /\ job.todo \in Seq(S)
         /\ \A w \in S : GoodWrite(w) /\ (job.fn = "format" => Inside(w, job.plan))

FormattedIsGood == \A f \in formatted : GoodLayout(f.plan)

IInv ==
  SizeIsKnown /\ AllReadable(disk) /\ JobIsPlanned /\ WritesAreGood /\ FormattedIsGood

LEMMA NoJobIsFine ==
  ASSUME job' = NoJob
  PROVE  JobIsPlanned' /\ WritesAreGood'
<1>1. JobIsPlanned' BY DEF NoJob, JobIsPlanned
<1>2. job'.todo \in Seq({}) BY DEF NoJob
<1>3. WritesAreGood' BY <1>2 DEF WritesAreGood
<1> QED BY <1>1, <1>3

\* A function that goes on to its next write.
LEMMA NextWriteIsFine ==
  ASSUME JobIsPlanned, WritesAreGood, job.todo # <<>>,
         DOMAIN job' = DOMAIN job, job'.fn = job.fn, job'.todo = Tail(job.todo),
         job.fn # "none" => job'.plan = job.plan
  PROVE  JobIsPlanned' /\ WritesAreGood'
<1>1. JobIsPlanned'
  <2>1. job.fn # "none" BY DEF JobIsPlanned, NoJob
  <2> QED BY <2>1 DEF JobIsPlanned
<1>2. PICK S : /\ job.todo \in Seq(S)
               /\ \A w \in S : GoodWrite(w) /\ (job.fn = "format" => Inside(w, job.plan))
  BY DEF WritesAreGood
<1>3. job'.todo \in Seq(S) BY <1>2, HeadTailProperties
<1>4. \A w \in S : GoodWrite(w) /\ (job'.fn = "format" => Inside(w, job'.plan))
  BY <1>2
<1>5. WritesAreGood' BY <1>3, <1>4 DEF WritesAreGood
<1> QED BY <1>1, <1>5

LEMMA HeadIsGood ==
  ASSUME WritesAreGood, job.todo # <<>>
  PROVE  GoodWrite(Head(job.todo))
BY HeadTailProperties DEF WritesAreGood

LEMMA InitIInv == Init => IInv
<1> SUFFICES ASSUME Init PROVE IInv OBVIOUS
<1>1. PICK v \in Starts : size = v.size /\ disk = v.disk BY DEF Init
<1>2. AllReadable(disk)
  <2> SUFFICES ASSUME NEW s \in DOMAIN disk PROVE Readable(disk[s]) BY DEF AllReadable
  <2>1. Sound(v.disk[s]) BY <1>1, VolumeAssumption
  <2>2. LBA \subseteq Nat BY DEF LBA
  <2> QED BY <1>1, <2>1, <2>2 DEF Sound, Readable
<1>3. SizeIsKnown BY <1>1 DEF SizeIsKnown
<1>4. JobIsPlanned BY DEF Init, NoJob, JobIsPlanned
<1>5. WritesAreGood
  <2>1. job.todo \in Seq({}) BY DEF Init, NoJob
  <2> QED BY <2>1 DEF WritesAreGood
<1>6. FormattedIsGood BY DEF Init, FormattedIsGood
<1> QED BY <1>2, <1>3, <1>4, <1>5, <1>6 DEF IInv

LEMMA PartitionIInv ==
  ASSUME IInv, NEW r \in Requests, Partition(r)
  PROVE  IInv'
<1>1. PICK v \in Starts : size = v.size BY DEF IInv, SizeIsKnown
<1>2. Possible(r, size)
  <2>1. LBA \subseteq Nat BY DEF LBA
  <2>2. r.sizes \in Seq(Nat) BY <2>1, VolumeAssumption, SeqMonotonic
  <2> QED BY <1>1, <2>1, <2>2, VolumeAssumption DEF Possible
<1> DEFINE T == Tables(r, size)
           S == {Write(T[i].at, T[i].what) : i \in DOMAIN T}
<1>3. T \in Seq([at : Nat, what : TableSectors]) BY <1>2, TablesType
<1>4. job' = [fn |-> "partition", plan |-> Request(r, size), lost |-> FALSE,
              todo |-> [i \in DOMAIN T |-> Write(T[i].at, T[i].what)]]
  BY DEF Partition
<1>5. size' = size /\ disk' = disk /\ formatted' = {} BY DEF Partition
<1> HIDE DEF T
<1>6. DOMAIN T = 1 .. Len(T) /\ Len(T) \in Nat BY <1>3, LenProperties
<1>7. JobIsPlanned' BY <1>4 DEF JobIsPlanned
<1>8. WritesAreGood'
  <2>1. job'.todo \in [1 .. Len(T) -> S] BY <1>4, <1>6
  <2>2. job'.todo \in Seq(S)
    <3> HIDE DEF S
    <3> QED BY <1>6, <2>1, SeqDef
  <2>3. \A w \in S : GoodWrite(w)
    <3> SUFFICES ASSUME NEW i \in 1 .. Len(T) PROVE GoodWrite(Write(T[i].at, T[i].what))
      BY <1>6
    <3>1. T[i] \in [at : Nat, what : TableSectors] BY <1>3, ElementOfSeq
    <3>2. T[i].at \in Nat /\ T[i].what \in TableSectors BY <3>1
    <3>3. Readable(T[i].what) BY <3>2 DEF Readable, TableSectors, Parts
    <3> QED BY <3>2, <3>3 DEF GoodWrite, Write
  <2>4. job'.fn # "format" BY <1>4
  <2> HIDE DEF S
  <2> QED BY <2>2, <2>3, <2>4 DEF WritesAreGood
<1>9. SizeIsKnown' /\ AllReadable(disk)' /\ FormattedIsGood'
  BY <1>5 DEF IInv, SizeIsKnown, FormattedIsGood
<1> QED BY <1>7, <1>8, <1>9 DEF IInv

LEMMA FormatIInv ==
  ASSUME IInv, NEW n, NEW prefer16, NEW small, Format(n, prefer16, small)
  PROVE  IInv'
<1>1. PICK g \in Layouts(Search(disk)[n], prefer16, small) :
        /\ job' = [fn |-> "format", plan |-> g, todo |-> FormatWrites(g), written |-> {}]
        /\ formatted' = {f \in formatted : f.plan.start # g.start}
  BY DEF Format
<1>2. n \in DOMAIN Search(disk) /\ size' = size /\ disk' = disk BY DEF Format
<1>3. PICK p \in Parts : p = Search(disk)[n]
  <2>1. Search(disk) \in Seq(Parts) BY SearchType DEF IInv
  <2>2. n \in 1 .. Len(Search(disk)) BY <1>2, <2>1, LenProperties
  <2> QED BY <2>1, <2>2, ElementOfSeq
<1>4. p.start \in Nat /\ p.count \in Nat BY DEF Parts
<1>5. GoodLayout(g) BY <1>1, <1>3, <1>4, LayoutsAreGood
<1>6. PICK S : /\ FormatWrites(g) \in Seq(S)
               /\ \A w \in S : GoodWrite(w) /\ Inside(w, g)
  BY <1>5, FormatWritesInside
<1>7. JobIsPlanned' BY <1>1, <1>5 DEF JobIsPlanned
<1>8. WritesAreGood'
  <2>1. job'.todo = FormatWrites(g) /\ job'.plan = g BY <1>1
  <2> QED BY <1>6, <2>1 DEF WritesAreGood
<1>9. SizeIsKnown' /\ AllReadable(disk)' /\ FormattedIsGood'
  BY <1>1, <1>2 DEF IInv, SizeIsKnown, FormattedIsGood
<1> QED BY <1>7, <1>8, <1>9 DEF IInv

\* A write, or the first part of one.
LEMMA WrittenReadable ==
  ASSUME IInv, job.todo # <<>>, NEW k,
         k \in {0, Head(job.todo).count \div 2} \/ k = Head(job.todo).count,
         disk' = After(disk, Head(job.todo), k)
  PROVE  AllReadable(disk)'
<1>1. GoodWrite(Head(job.todo)) BY HeadIsGood DEF IInv
<1>2. Head(job.todo).count \in Nat BY <1>1 DEF GoodWrite
<1>3. k \in Nat BY <1>2
<1>4. AllReadable(After(disk, Head(job.todo), k)) BY <1>1, <1>3, AfterReadable DEF IInv
<1> QED BY <1>4

LEMMA WriteNextIInv == ASSUME IInv, WriteNext PROVE IInv'
<1>1. job.todo # <<>> /\ size' = size /\ formatted' = formatted BY DEF WriteNext
<1>2. disk' = After(disk, Head(job.todo), Head(job.todo).count)
  BY DEF WriteNext, Performed
<1>3. AllReadable(disk)' BY <1>1, <1>2, WrittenReadable
<1>4. /\ DOMAIN job' = DOMAIN job /\ job'.fn = job.fn /\ job'.todo = Tail(job.todo)
      /\ job.fn # "none" => job'.plan = job.plan
  <2>1. {"fn", "todo"} \subseteq DOMAIN job /\ (job.fn # "none" => "plan" \in DOMAIN job)
    BY DEF IInv, JobIsPlanned
  <2>2. \/ job' = [job EXCEPT !.todo = Tail(@), !.written = @ \cup Ranges(Head(job.todo))]
        \/ job' = [job EXCEPT !.todo = Tail(@)]
    BY DEF WriteNext, Performed
  <2> QED BY <2>1, <2>2
<1>5. JobIsPlanned' /\ WritesAreGood' BY <1>1, <1>4, NextWriteIsFine DEF IInv
<1> QED BY <1>1, <1>3, <1>5 DEF IInv, SizeIsKnown, FormattedIsGood

LEMMA WriteFailsIInv == ASSUME IInv, WriteFails PROVE IInv'
<1>1. job.todo # <<>> /\ size' = size /\ formatted' = formatted BY DEF WriteFails
<1>2. AllReadable(disk)'
  <2>1. \E k \in {0, Head(job.todo).count \div 2} : disk' = After(disk, Head(job.todo), k)
    BY DEF WriteFails
  <2> QED BY <1>1, <2>1, WrittenReadable
<1>3. CASE job' = NoJob
  <2>1. JobIsPlanned' /\ WritesAreGood' BY <1>3, NoJobIsFine
  <2> QED BY <1>1, <1>2, <2>1 DEF IInv, SizeIsKnown, FormattedIsGood
<1>4. CASE job' = [job EXCEPT !.todo = Tail(@)]
  <2>1. {"fn", "todo"} \subseteq DOMAIN job /\ (job.fn # "none" => "plan" \in DOMAIN job)
    BY DEF IInv, JobIsPlanned
  <2>2. /\ DOMAIN job' = DOMAIN job /\ job'.fn = job.fn /\ job'.todo = Tail(job.todo)
        /\ job.fn # "none" => job'.plan = job.plan
    BY <1>4, <2>1
  <2>3. JobIsPlanned' /\ WritesAreGood' BY <1>1, <2>2, NextWriteIsFine DEF IInv
  <2> QED BY <1>1, <1>2, <2>3 DEF IInv, SizeIsKnown, FormattedIsGood
<1> QED BY <1>3, <1>4 DEF WriteFails

LEMMA FlushFailsIInv == ASSUME IInv, FlushFails PROVE IInv'
<1>1. /\ job.todo # <<>> /\ size' = size /\ disk' = disk /\ formatted' = formatted
      /\ job' = [job EXCEPT !.todo = Tail(@), !.lost = TRUE]
  BY DEF FlushFails
<1>2. {"fn", "todo"} \subseteq DOMAIN job /\ (job.fn # "none" => "plan" \in DOMAIN job)
  BY DEF IInv, JobIsPlanned
<1>3. /\ DOMAIN job' = DOMAIN job /\ job'.fn = job.fn /\ job'.todo = Tail(job.todo)
      /\ job.fn # "none" => job'.plan = job.plan
  BY <1>1, <1>2
<1>4. JobIsPlanned' /\ WritesAreGood' BY <1>1, <1>3, NextWriteIsFine DEF IInv
<1> QED BY <1>1, <1>4 DEF IInv, SizeIsKnown, FormattedIsGood

LEMMA DoneIInv == ASSUME IInv, Done PROVE IInv'
<1>1. job' = NoJob /\ job # NoJob /\ size' = size /\ disk' = disk BY DEF Done
<1>2. JobIsPlanned' /\ WritesAreGood' BY <1>1, NoJobIsFine
<1>3. FormattedIsGood'
  <2>1. CASE formatted' = formatted BY <2>1 DEF IInv, FormattedIsGood
  <2>2. CASE /\ job.fn # "partition"
             /\ formatted' = formatted \cup {[plan |-> job.plan, written |-> job.written]}
    <3>1. GoodLayout(job.plan) BY <1>1, <2>2 DEF IInv, JobIsPlanned
    <3> QED BY <2>2, <3>1 DEF IInv, FormattedIsGood
  <2> QED BY <2>1, <2>2 DEF Done
<1> QED BY <1>1, <1>2, <1>3 DEF IInv, SizeIsKnown

LEMMA CrashIInv == ASSUME IInv, Crash PROVE IInv'
<1>1. job' = NoJob /\ job.todo # <<>> /\ size' = size /\ formatted' = formatted
  BY DEF Crash
<1>2. AllReadable(disk)'
  <2>1. \E k \in {0, Head(job.todo).count \div 2} : disk' = After(disk, Head(job.todo), k)
    BY DEF Crash
  <2> QED BY <1>1, <2>1, WrittenReadable
<1>3. JobIsPlanned' /\ WritesAreGood' BY <1>1, NoJobIsFine
<1> QED BY <1>1, <1>2, <1>3 DEF IInv, SizeIsKnown, FormattedIsGood

LEMMA NextIInv == IInv /\ [Next]_vars => IInv'
<1> SUFFICES ASSUME IInv, [Next]_vars PROVE IInv' OBVIOUS
<1>1. CASE \E r \in Requests : Partition(r) BY <1>1, PartitionIInv
<1>2. CASE \E n \in 1 .. MaxParts, prefer16, small \in BOOLEAN : Format(n, prefer16, small)
  BY <1>2, FormatIInv
<1>3. CASE WriteNext BY <1>3, WriteNextIInv
<1>4. CASE WriteFails BY <1>4, WriteFailsIInv
<1>5. CASE FlushFails BY <1>5, FlushFailsIInv
<1>6. CASE Done BY <1>6, DoneIInv
<1>7. CASE Crash BY <1>7, CrashIInv
<1>8. CASE UNCHANGED vars
  BY <1>8 DEF vars, IInv, SizeIsKnown, JobIsPlanned, WritesAreGood, FormattedIsGood
<1> QED BY <1>1, <1>2, <1>3, <1>4, <1>5, <1>6, <1>7, <1>8 DEF Next

LEMMA Invariance == Spec => []IInv
<1> QED BY InitIInv, NextIInv, PTL DEF Spec

-----------------------------------------------------------------------------
(* What follows of the layouts alone. *)

\* FF_Format writes to its partition and nowhere else, whatever the tables on the disk
\* say, on disks and in partitions of every size.
THEOREM FormatIsConfined == Spec => []FormatStaysInside
<1>1. ASSUME IInv PROVE FormatStaysInside
  <2> SUFFICES ASSUME job.fn = "format", NEW i \in DOMAIN job.todo,
                      NEW r \in Ranges(job.todo[i])
               PROVE  Within(r[1], r[2], {<<job.plan.start, job.plan.start + job.plan.count - 1>>})
    BY DEF FormatStaysInside
  <2>1. PICK S : /\ job.todo \in Seq(S)
                 /\ \A w \in S : GoodWrite(w) /\ Inside(w, job.plan)
    BY <1>1 DEF IInv, WritesAreGood
  <2>2. job.todo[i] \in S
    <3>1. i \in 1 .. Len(job.todo) BY <2>1, LenProperties
    <3> QED BY <2>1, <3>1, ElementOfSeq
  <2> QED BY <2>1, <2>2 DEF Inside
<1> QED BY <1>1, Invariance, PTL

\* The sectors of n clusters of x sectors are not more than x.
LEMMA ClustersFit ==
  ASSUME NEW x \in Int, NEW spc \in SectorsPerCluster
  PROVE  (x \div spc) * spc <= x
<1>1. CASE spc = 1 BY <1>1
<1>2. CASE spc = 2 BY <1>2
<1>3. CASE spc = 4 BY <1>3
<1>4. CASE spc = 8 BY <1>4
<1>5. CASE spc = 16 BY <1>5
<1>6. CASE spc = 32 BY <1>6
<1>7. CASE spc = 64 BY <1>7
<1> QED BY <1>1, <1>2, <1>3, <1>4, <1>5, <1>6, <1>7 DEF SectorsPerCluster

\* The clusters of what FF_Format lays out are in its partition, and their entries in
\* the FAT or, of the last two at most, found in use: for partitions of every size.
THEOREM ClustersExist == Spec => []EveryClusterExists
<1>1. ASSUME IInv PROVE EveryClusterExists
  <2> SUFFICES ASSUME NEW f \in formatted
               PROVE  LET v == Volume(Boot(f.plan), f.plan.start) IN
                      /\ v.data + v.clusters * v.spc <= f.plan.start + f.plan.count
                      /\ ~ Squeezed(f.plan) => v.clusters <= v.per * Entries(f.plan.type) + 2
    BY DEF EveryClusterExists
  <2> DEFINE g == f.plan
             x == g.count - (g.reserved + 2 * g.per + g.roots)
             v == Volume(Boot(g), g.start)
  <2>1. GoodLayout(g) BY <1>1 DEF IInv, FormattedIsGood
  <2>2. /\ v.data = g.start + g.reserved + 2 * g.per + g.roots
        /\ v.clusters = x \div g.spc /\ v.spc = g.spc /\ v.per = g.per
    BY DEF Volume, Boot
  <2>3. g.start \in Nat /\ x \in Int /\ g.spc \in SectorsPerCluster
    BY <2>1 DEF GoodLayout
  <2>4. v.clusters * v.spc <= x
    <3> HIDE DEF x, v
    <3> QED BY <2>2, <2>3, ClustersFit
  <2>5. v.data + v.clusters * v.spc <= g.start + g.count
    <3>1. v.clusters * v.spc \in Int
      <4>1. v.clusters \in Int /\ v.spc \in Int
        <5> HIDE DEF x, v
        <5> QED BY <2>2, <2>3 DEF SectorsPerCluster
      <4> HIDE DEF v
      <4> QED BY <4>1
    <3>2. PICK y \in Int : y = v.clusters * v.spc BY <3>1
    <3> HIDE DEF v
    <3> QED BY <2>1, <2>2, <2>4, <3>2 DEF GoodLayout
  <2>6. ~ Squeezed(g) => v.clusters <= v.per * Entries(g.type) + 2
    BY <2>1, <2>2 DEF GoodLayout
  <2> QED BY <2>5, <2>6
<1> QED BY <1>1, Invariance, PTL

-----------------------------------------------------------------------------
(* What FF_Partition asks for.                                              *)

\* The partitions lie on a disk of n sectors and do not overlap each other.
Apart(found, n) ==
  \A i \in DOMAIN found :
    /\ found[i].start + found[i].count <= n
    /\ \A j \in DOMAIN found \ {i} :
         \/ found[i].start + found[i].count <= found[j].start
         \/ found[j].start + found[j].count <= found[i].start

\* The gap before the ith partition, which begins after what is hidden, the partitions
\* before it and their gaps.
GapBefore(r, n, i) == IF i > Primaries(r, n) THEN Gap(r) * (i - Primaries(r, n)) ELSE 0

\* The gaps grow, up to the last one, and are sectors set apart by Available.
LEMMA GapsGrow ==
  ASSUME NEW r, NEW n, Possible(r, n), NEW j \in 1 .. Len(Wanted(r, n)), NEW i \in 1 .. j
  PROVE  /\ GapBefore(r, n, i) \in Nat /\ GapBefore(r, n, j) \in Nat
         /\ GapBefore(r, n, i) <= GapBefore(r, n, j)
         /\ Hidden(r, n) + Available(r, n) + GapBefore(r, n, i) <= n
<1>1. PICK k \in Nat : k = Primaries(r, n) BY WantedType
<1>2. PICK g \in Nat : g = Gap(r) BY WantedType
<1>3. PICK m \in Nat : m = Len(Wanted(r, n)) BY WantedType
<1>4. i \in Nat /\ j \in Nat /\ i <= j /\ j <= m BY <1>3
<1>5. Logicals(r, n) = m - k /\ k <= m BY <1>1, <1>3, WantedType DEF Logicals
<1>6. /\ GapBefore(r, n, i) = (IF i > k THEN g * (i - k) ELSE 0)
      /\ GapBefore(r, n, j) = (IF j > k THEN g * (j - k) ELSE 0)
  BY <1>1, <1>2 DEF GapBefore
<1>7. \A a, b \in Nat : a <= b => g * a \in Nat /\ g * b \in Nat /\ g * a <= g * b
  BY <1>2
<1>8. /\ GapBefore(r, n, i) \in Nat /\ GapBefore(r, n, j) \in Nat
      /\ GapBefore(r, n, i) <= GapBefore(r, n, j)
  <2>1. CASE i > k
    <3>1. i - k \in Nat /\ j - k \in Nat /\ i - k <= j - k /\ j > k BY <1>1, <1>4, <2>1
    <3> QED BY <1>6, <1>7, <2>1, <3>1
  <2>2. CASE ~ (i > k)
    <3>1. j > k => j - k \in Nat BY <1>1, <1>4
    <3>2. GapBefore(r, n, i) = 0 BY <1>6, <2>2
    <3>3. j > k => g * (j - k) \in Nat BY <1>7, <3>1
    <3>4. GapBefore(r, n, j) \in Nat BY <1>6, <3>3
    <3> QED BY <3>2, <3>4
  <2> QED BY <2>1, <2>2
<1>9. PICK all \in Nat : all = g * (m - k)
  <2>1. m - k \in Nat BY <1>1, <1>3, <1>5
  <2> QED BY <1>7, <2>1
<1>10. GapBefore(r, n, i) <= all
  <2>1. CASE i > k
    <3>1. i - k \in Nat /\ m - k \in Nat /\ i - k <= m - k BY <1>1, <1>3, <1>4, <1>5, <2>1
    <3> QED BY <1>6, <1>7, <1>9, <2>1, <3>1
  <2>2. CASE ~ (i > k) BY <1>6, <1>9, <2>2
  <2> QED BY <2>1, <2>2
<1>11. Available(r, n) = n - Hidden(r, n) - all BY <1>2, <1>5, <1>9 DEF Available
<1>12. Hidden(r, n) \in Nat /\ n \in Nat BY WantedType DEF Possible
<1> QED BY <1>8, <1>9, <1>10, <1>11, <1>12

\* FF_Partition plans partitions that lie on the disk one after the other.
LEMMA RequestIsApart ==
  ASSUME NEW r, NEW n, Possible(r, n)
  PROVE  Apart(Request(r, n), n)
<1> DEFINE s == Sizes(r, n)
           q == Request(r, n)
<1>1. PICK m \in Nat : m = Len(Wanted(r, n)) BY WantedType
<1>2. s \in Seq(Nat) /\ Len(s) = m /\ DOMAIN s = 1 .. m BY <1>1, SizesType, LenProperties
<1>3. PICK h \in Nat : h = Hidden(r, n) BY WantedType
<1>4. /\ DOMAIN q = 1 .. m
      /\ \A i \in 1 .. m : /\ q[i].start = h + SumTo(s, i - 1) + GapBefore(r, n, i)
                           /\ q[i].count = s[i]
  BY <1>2, <1>3 DEF Request, Part, GapBefore
<1>5. \A i \in 0 .. m : SumTo(s, i) \in Nat /\ SumTo(s, i) <= Available(r, n)
  <2> HIDE DEF s
  <2>1. \A i \in 0 .. m : SumTo(s, i) \in Nat BY <1>2, SumToType
  <2>2. \A i \in 0 .. m : SumTo(s, i) <= Available(r, n) BY <1>2, SizesType DEF s
  <2> QED BY <2>1, <2>2
<1>6. \A i \in 1 .. m : SumTo(s, i) = SumTo(s, i - 1) + s[i] /\ s[i] \in Nat
  <2> HIDE DEF s
  <2> QED BY <1>2, SumToType, ElementOfSeq
<1> HIDE DEF s, q
<1>7. ASSUME NEW i \in 1 .. m
      PROVE  /\ q[i].start + q[i].count = h + SumTo(s, i) + GapBefore(r, n, i)
             /\ q[i].start \in Nat /\ GapBefore(r, n, i) \in Nat
             /\ q[i].start + q[i].count <= n
  <2>1. i - 1 \in 0 .. m /\ i \in 0 .. m /\ i \in 1 .. i BY <1>1
  <2>2. PICK x \in Nat : x = SumTo(s, i - 1) BY <1>5, <2>1
  <2>3. PICK y \in Nat : y = SumTo(s, i) BY <1>5, <2>1
  <2>4. PICK g \in Nat : g = GapBefore(r, n, i) BY <1>1, <2>1, GapsGrow
  <2>5. h + Available(r, n) + g <= n BY <1>1, <1>3, <2>1, <2>4, GapsGrow
  <2>6. Available(r, n) \in Nat /\ n \in Nat /\ y <= Available(r, n)
    BY <1>5, <2>1, <2>3, WantedType DEF Possible
  <2>7. q[i].start = h + x + g /\ q[i].count = s[i] /\ y = x + s[i] /\ s[i] \in Nat
    BY <1>4, <1>6, <2>2, <2>3, <2>4
  <2> QED BY <2>3, <2>4, <2>5, <2>6, <2>7
<1>8. ASSUME NEW j \in 1 .. m, NEW i \in 1 .. j - 1
      PROVE  q[i].start + q[i].count <= q[j].start
  <2>1. i \in 1 .. m /\ i \in 1 .. j /\ j - 1 \in i .. m /\ i \in 0 .. m /\ j - 1 \in 0 .. m
    BY <1>1
  <2>2. SumTo(s, i) <= SumTo(s, j - 1)
    BY <1>2, <2>1, SumToGrows
  <2>3. /\ GapBefore(r, n, i) \in Nat /\ GapBefore(r, n, j) \in Nat
        /\ GapBefore(r, n, i) <= GapBefore(r, n, j)
    BY <1>1, <2>1, GapsGrow
  <2>4. SumTo(s, i) \in Nat /\ SumTo(s, j - 1) \in Nat BY <1>5, <2>1
  <2>5. q[j].start = h + SumTo(s, j - 1) + GapBefore(r, n, j) BY <1>4
  <2>6. q[i].start + q[i].count = h + SumTo(s, i) + GapBefore(r, n, i) BY <1>7, <2>1
  <2> QED BY <2>2, <2>3, <2>4, <2>5, <2>6
<1>9. ASSUME NEW i \in 1 .. m, NEW j \in (1 .. m) \ {i}
      PROVE  \/ q[i].start + q[i].count <= q[j].start
             \/ q[j].start + q[j].count <= q[i].start
  <2>1. i \in 1 .. j - 1 \/ j \in 1 .. i - 1 BY <1>1
  <2> QED BY <1>8, <2>1
<1>10. Apart(q, n) BY <1>4, <1>7, <1>9 DEF Apart
<1> QED BY <1>10 DEF q

LEMMA NothingIsApart == ASSUME NEW n PROVE Apart(<<>>, n)
BY DEF Apart

-----------------------------------------------------------------------------
(* What the search finds of what FF_Partition has written. *)

\* The places are among the first n and have the same members.
SamePlaces(s, places, t, others, n) ==
  /\ n \in Nat /\ n <= Len(s) /\ n <= Len(t)
  /\ \A i \in 1 .. n : (i \in places <=> i \in others) /\ (i \in places => s[i] = t[i])
  /\ \A i \in n + 1 .. Len(s) : i \notin places
  /\ \A i \in n + 1 .. Len(t) : i \notin others

\* What is selected depends on the members at the places only.
LEMMA SelectSame ==
  ASSUME NEW S, NEW s \in Seq(S), NEW places, NEW t \in Seq(S), NEW others,
         NEW n, SamePlaces(s, places, t, others, n)
  PROVE  Select(s, places) = Select(t, others)
<1>1. PICK f : Picks(f, s, places) BY SelectFunction
<1>2. PICK g : Picks(g, t, others) BY SelectFunction
<1>0. Len(s) \in Nat /\ Len(t) \in Nat /\ n \in Nat /\ n <= Len(s) /\ n <= Len(t)
  BY LenProperties DEF SamePlaces
<1>3. f[n] = g[n]
  <2> DEFINE X == {i \in 0 .. n : f[i] = g[i]}
  <2>1. 0 \in X BY <1>0, <1>1, <1>2 DEF Picks
  <2>2. ASSUME NEW i \in 0 .. n - 1, i \in X PROVE i + 1 \in X
    <3>1. i + 1 \in 1 .. Len(s) /\ i + 1 \in 1 .. Len(t) /\ i + 1 \in 1 .. n /\ (i + 1) - 1 = i
      BY <1>0
    <3>2. f[i] = g[i] BY <2>2
    <3>3. f[i + 1] = IF i + 1 \in places THEN Append(f[i], s[i + 1]) ELSE f[i] BY <1>1, <3>1 DEF Picks
    <3>4. g[i + 1] = IF i + 1 \in others THEN Append(g[i], t[i + 1]) ELSE g[i] BY <1>2, <3>1 DEF Picks
    <3>5. f[i + 1] = g[i + 1] BY <3>1, <3>2, <3>3, <3>4 DEF SamePlaces
    <3> QED BY <3>1, <3>5
  <2> HIDE DEF X
  <2>3. \A i \in 0 .. n : i \in X BY <1>0, <2>1, <2>2, BoundedInduction
  <2> QED BY <1>0, <2>3 DEF X
<1>4. f[Len(s)] = f[n]
  <2> DEFINE m == Len(s) - n
             X == {i \in 0 .. m : f[n + i] = f[n]}
  <2>0. m \in Nat BY <1>0
  <2>1. 0 \in X BY <1>0, <2>0
  <2>2. ASSUME NEW i \in 0 .. m - 1, i \in X PROVE i + 1 \in X
    <3>1. /\ n + i + 1 \in 1 .. Len(s) /\ n + i + 1 \in n + 1 .. Len(s) /\ (n + i + 1) - 1 = n + i
          /\ i + 1 \in 0 .. m /\ n + (i + 1) = n + i + 1
      BY <1>0
    <3>2. f[n + i + 1] = f[n + i] BY <1>1, <3>1 DEF Picks, SamePlaces
    <3>3. f[n + i] = f[n] BY <2>2
    <3> QED BY <3>1, <3>2, <3>3
  <2> HIDE DEF X, m
  <2>3. \A i \in 0 .. m : i \in X BY <2>0, <2>1, <2>2, BoundedInduction
  <2>4. m \in 0 .. m /\ n + m = Len(s) BY <1>0, <2>0 DEF m
  <2> QED BY <2>3, <2>4 DEF X
<1>5. g[Len(t)] = g[n]
  <2> DEFINE m == Len(t) - n
             X == {i \in 0 .. m : g[n + i] = g[n]}
  <2>0. m \in Nat BY <1>0
  <2>1. 0 \in X BY <1>0, <2>0
  <2>2. ASSUME NEW i \in 0 .. m - 1, i \in X PROVE i + 1 \in X
    <3>1. /\ n + i + 1 \in 1 .. Len(t) /\ n + i + 1 \in n + 1 .. Len(t) /\ (n + i + 1) - 1 = n + i
          /\ i + 1 \in 0 .. m /\ n + (i + 1) = n + i + 1
      BY <1>0
    <3>2. g[n + i + 1] = g[n + i] BY <1>2, <3>1 DEF Picks, SamePlaces
    <3>3. g[n + i] = g[n] BY <2>2
    <3> QED BY <3>1, <3>2, <3>3
  <2> HIDE DEF X, m
  <2>3. \A i \in 0 .. m : i \in X BY <2>0, <2>1, <2>2, BoundedInduction
  <2>4. m \in 0 .. m /\ n + m = Len(t) BY <1>0, <2>0 DEF m
  <2> QED BY <2>3, <2>4 DEF X
<1> QED BY <1>1, <1>2, <1>3, <1>4, <1>5 DEF Picks

\* Nothing is selected at no place.
LEMMA SelectNothing ==
  ASSUME NEW S, NEW s \in Seq(S), NEW places, \A i \in 1 .. Len(s) : i \notin places
  PROVE  Select(s, places) = <<>>
<1>1. <<>> \in Seq(S) OBVIOUS
<1>2. Select(<<>>, {}) = <<>> 
  <2>1. PICK f : Picks(f, <<>>, {}) BY <1>1, SelectFunction
  <2> QED BY <2>1 DEF Picks
<1>3. Len(s) \in Nat /\ Len(<<>>) = 0 BY LenProperties
<1>4. Select(s, places) = Select(<<>>, {})
  <2>1. PICK e \in Seq(S) : e = <<>> /\ Len(e) = 0 BY <1>1, <1>3
  <2>2. PICK none : none = {} OBVIOUS
  <2>3. SamePlaces(s, places, e, none, 0) BY <1>3, <2>1, <2>2 DEF SamePlaces
  <2>4. Select(s, places) = Select(e, none) BY <2>3, SelectSame
  <2> QED BY <2>1, <2>2, <2>4
<1> QED BY <1>2, <1>4

\* The last place that is selected gives the last member.
LEMMA SelectLast ==
  ASSUME NEW S, NEW s \in Seq(S), NEW places, NEW j \in 1 .. Len(s), j \in places,
         \A i \in j + 1 .. Len(s) : i \notin places
  PROVE  Select(s, places) = Append(Select(s, places \ {j}), s[j])
<1>0. Len(s) \in Nat /\ j \in Nat /\ j - 1 \in Nat /\ j - 1 <= Len(s) BY LenProperties
<1> DEFINE t == SubSeq(s, 1, j)
           u == SubSeq(s, 1, j - 1)
<1>1. /\ t \in Seq(S) /\ Len(t) = j /\ \A i \in 1 .. j : t[i] = s[i]
  <2>1. \A i \in 1 .. j : s[i] \in S BY <1>0, ElementOfSeq
  <2> QED BY <1>0, <2>1, SubSeqProperties
<1> HIDE DEF t
<1>2. Select(s, places) = Select(t, places)
  <2>1. \A i \in 1 .. j : (i \in places <=> i \in places) /\ (i \in places => s[i] = t[i])
    BY <1>1
  <2>2. \A i \in j + 1 .. Len(t) : i \notin places BY <1>1, <1>0
  <2>3. j <= Len(s) /\ j <= Len(t) BY <1>0, <1>1
  <2>4. SamePlaces(s, places, t, places, j) BY <1>0, <2>1, <2>2, <2>3 DEF SamePlaces
  <2> QED BY <1>1, <2>4, SelectSame
<1>3. PICK f : Picks(f, t, places) BY <1>1, SelectFunction
<1>4. PICK g : Picks(g, t, places \ {j}) BY <1>1, SelectFunction
<1>5. Select(s, places \ {j}) = Select(t, places \ {j})
  <2> DEFINE P == places \ {j}
  <2>1. \A i \in 1 .. j : (i \in P <=> i \in P) /\ (i \in P => s[i] = t[i])
    BY <1>1
  <2>2. \A i \in j + 1 .. Len(t) : i \notin P BY <1>1, <1>0
  <2>4. \A i \in j + 1 .. Len(s) : i \notin P BY <1>0
  <2>3. j <= Len(s) /\ j <= Len(t) BY <1>0, <1>1
  <2> HIDE DEF P
  <2>6. SamePlaces(s, P, t, P, j) BY <1>0, <2>1, <2>2, <2>3, <2>4 DEF SamePlaces
  <2>5. Select(s, P) = Select(t, P) BY <1>1, <2>6, SelectSame
  <2> QED BY <2>5 DEF P
<1>6. \A i \in 0 .. j - 1 : f[i] = g[i]
  <2> DEFINE X == {i \in 0 .. j - 1 : f[i] = g[i]}
  <2>1. 0 \in X BY <1>0, <1>3, <1>4 DEF Picks
  <2>2. ASSUME NEW i \in 0 .. (j - 1) - 1, i \in X PROVE i + 1 \in X
    <3>1. i + 1 \in 1 .. Len(t) /\ i + 1 # j /\ (i + 1) - 1 = i /\ i + 1 \in 0 .. j - 1
      BY <1>0, <1>1
    <3>2. f[i] = g[i] BY <2>2
    <3>3. f[i + 1] = g[i + 1] BY <1>3, <1>4, <3>1, <3>2 DEF Picks
    <3> QED BY <3>1, <3>3
  <2> HIDE DEF X
  <2>3. \A i \in 0 .. j - 1 : i \in X BY <1>0, <2>1, <2>2, BoundedInduction
  <2> QED BY <2>3 DEF X
<1>7. j \in 1 .. Len(t) /\ Len(t) = j /\ j - 1 \in 0 .. j - 1 BY <1>0, <1>1
<1>8. f[j] = Append(f[j - 1], t[j]) BY <1>3, <1>7 DEF Picks
<1>9. g[j] = g[j - 1] BY <1>4, <1>7 DEF Picks
<1>10. f[j - 1] = g[j - 1] BY <1>6, <1>7
<1>11. t[j] = s[j] BY <1>1, <1>7
<1> QED BY <1>2, <1>3, <1>4, <1>5, <1>7, <1>8, <1>9, <1>10, <1>11 DEF Picks

-----------------------------------------------------------------------------
(* The tables of FF_Partition and the partitions asked for. *)

\* The sector of the table before the ith partition, a logical one.
TableAt(r, n, i) ==
  ExtendedBegin(r, n) + SumTo(Sizes(r, n), i - 1) - SumTo(Sizes(r, n), Primaries(r, n))
    + Gap(r) * (i - Primaries(r, n) - 1)

\* The tables say where the partitions asked for are: the first names the primary ones and
\* the extended one, each other one a logical partition and the next table.
MainTable(r, n) ==
  LET q == Request(r, n)
      k == Primaries(r, n)
  IN  [i \in 1 .. 4 |->
         IF i <= k THEN q[i]
         ELSE IF i = k + 1 /\ k < Len(q)
              THEN Part("extended", TableAt(r, n, k + 1), n - TableAt(r, n, k + 1))
              ELSE NoPart]

ChainTable(r, n, i) ==
  LET q == Request(r, n)
      begin == TableAt(r, n, Primaries(r, n) + 1)
  IN  [j \in 1 .. 4 |->
         IF j = 1 THEN Part("fat", Gap(r), q[i].count)
         ELSE IF j = 2 /\ i < Len(q)
              THEN Part("extended", TableAt(r, n, i + 1) - begin, q[i + 1].count + Gap(r))
              ELSE NoPart]

\* A request for no more partitions than a table has entries.
Small(r, n) == Possible(r, n) /\ Len(Wanted(r, n)) <= MaxParts

\* The partitions asked for, and the tables of the logical ones before each of them.
Chained(q, r, n, k) ==
  /\ q = Request(r, n) /\ q \in Seq(Parts) /\ Len(q) \in 1 .. MaxParts
  /\ k = Primaries(r, n) /\ k \in 0 .. Len(q) /\ Gap(r) \in Nat \ {0}
  /\ \A i \in 1 .. Len(q) : /\ q[i].id = "fat" /\ q[i].start > 0
                            /\ q[i].start + q[i].count <= n
                            /\ q[i] = Part("fat", q[i].start, q[i].count)
  /\ \A i \in k + 1 .. Len(q) : /\ TableAt(r, n, i) \in Nat \ {0}
                                /\ q[i].start = TableAt(r, n, i) + Gap(r)
  /\ \A i \in k + 1 .. Len(q) : i + 1 <= Len(q) => TableAt(r, n, i + 1) = q[i].start + q[i].count
  /\ k < Len(q) => \A i \in 1 .. k : q[i].start + q[i].count <= TableAt(r, n, k + 1)

LEMMA RequestIsChained ==
  ASSUME NEW r, NEW n, Small(r, n)
  PROVE  Chained(Request(r, n), r, n, Primaries(r, n))
<1> DEFINE s == Sizes(r, n)
           q == Request(r, n)
<1>0. Possible(r, n) BY DEF Small
<1>1. PICK m \in Nat : m = Len(Wanted(r, n)) BY <1>0, WantedType
<1>2. s \in Seq(Nat) /\ Len(s) = m /\ DOMAIN s = 1 .. m
  BY <1>0, <1>1, SizesType, LenProperties
<1>3. PICK h \in Nat : h = Hidden(r, n) BY <1>0, WantedType
<1>a. h > 0 BY <1>0, <1>3 DEF Hidden, Possible
<1>4. PICK k \in Nat : k = Primaries(r, n) /\ k <= m BY <1>0, <1>1, WantedType
<1>5. PICK g \in Nat : g = Gap(r) /\ g > 0
  BY <1>0, WantedType DEF Gap, Possible
<1>6. /\ DOMAIN q = 1 .. m
      /\ \A i \in 1 .. m : /\ q[i] = Part("fat", h + SumTo(s, i - 1) + GapBefore(r, n, i), s[i])
                           /\ q[i].start = h + SumTo(s, i - 1) + GapBefore(r, n, i)
                           /\ q[i].count = s[i] /\ q[i].id = "fat"
  BY <1>2, <1>3 DEF Request, Part, GapBefore
<1>7. \A i \in 0 .. m : SumTo(s, i) \in Nat
  <2> HIDE DEF s
  <2> QED BY <1>2, SumToType
<1>8. \A i \in 1 .. m : SumTo(s, i) = SumTo(s, i - 1) + s[i] /\ s[i] \in Nat
  <2> HIDE DEF s
  <2> QED BY <1>2, SumToType, ElementOfSeq
<1>9. Apart(q, n) BY <1>0, RequestIsApart
<1>10. \A i \in 1 .. m : q[i].start + q[i].count <= n BY <1>6, <1>9 DEF Apart
<1>11. \A i \in 1 .. m : GapBefore(r, n, i) \in Nat
       /\ GapBefore(r, n, i) = (IF i > k THEN g * (i - k) ELSE 0)
  <2> SUFFICES ASSUME NEW i \in 1 .. m
               PROVE  GapBefore(r, n, i) \in Nat
                      /\ GapBefore(r, n, i) = (IF i > k THEN g * (i - k) ELSE 0)
    OBVIOUS
  <2>1. i \in 1 .. i OBVIOUS
  <2>2. GapBefore(r, n, i) \in Nat BY <1>0, <1>1, <2>1, GapsGrow
  <2> QED BY <1>4, <1>5, <2>2 DEF GapBefore
<1>12. \A i \in k + 1 .. m + 1 :
         TableAt(r, n, i) = h + SumTo(s, i - 1) + g * (i - k - 1)
  <2> SUFFICES ASSUME NEW i \in k + 1 .. m + 1
               PROVE  TableAt(r, n, i) = h + SumTo(s, i - 1) + g * (i - k - 1)
    OBVIOUS
  <2>1. i - 1 \in 0 .. m /\ k \in 0 .. m /\ i - k - 1 \in Nat BY <1>4
  <2>2. PICK x \in Nat : x = SumTo(s, i - 1) BY <1>7, <2>1
  <2>3. PICK y \in Nat : y = SumTo(s, k) BY <1>7, <2>1
  <2>4. PICK z \in Nat : z = g * (i - k - 1)
    <3>1. \A a, b \in Nat : a * b \in Nat OBVIOUS
    <3> QED BY <2>1, <3>1
  <2>5. ExtendedBegin(r, n) = h + y BY <1>3, <1>4, <2>3 DEF ExtendedBegin
  <2>6. TableAt(r, n, i) = ExtendedBegin(r, n) + x - y + z
    BY <1>4, <1>5, <2>2, <2>3, <2>4 DEF TableAt
  <2> QED BY <2>2, <2>4, <2>5, <2>6
<1> HIDE DEF s, q
<1>13. \A i \in k + 1 .. m : /\ TableAt(r, n, i) \in Nat \ {0}
                             /\ q[i].start = TableAt(r, n, i) + g
  <2> SUFFICES ASSUME NEW i \in k + 1 .. m
               PROVE  TableAt(r, n, i) \in Nat \ {0} /\ q[i].start = TableAt(r, n, i) + g
    OBVIOUS
  <2>1. i \in 1 .. m /\ i - 1 \in 0 .. m /\ i > k /\ i \in k + 1 .. m + 1 /\ i - k - 1 \in Nat
    BY <1>4
  <2>2. PICK x \in Nat : x = SumTo(s, i - 1) BY <1>7, <2>1
  <2>3. PICK c \in Nat : c = i - k - 1 BY <2>1
  <2>4. g * (c + 1) = g * c + g /\ g * c \in Nat OBVIOUS
  <2>5. i - k = c + 1 BY <1>4, <2>1, <2>3
  <2>6. GapBefore(r, n, i) = g * (c + 1) BY <1>11, <2>1, <2>5
  <2>7. TableAt(r, n, i) = h + x + g * c BY <1>12, <2>1, <2>2, <2>3
  <2>8. q[i].start = h + x + g * (c + 1) BY <1>6, <2>1, <2>2, <2>6
  <2>9. PICK z \in Nat : z = g * c BY <2>4
  <2> QED BY <1>a, <2>4, <2>7, <2>8, <2>9
<1>14. \A i \in k + 1 .. m : i + 1 <= m => TableAt(r, n, i + 1) = q[i].start + q[i].count
  <2> SUFFICES ASSUME NEW i \in k + 1 .. m
               PROVE  TableAt(r, n, i + 1) = q[i].start + q[i].count
    OBVIOUS
  <2>1. i \in 1 .. m /\ i \in 0 .. m /\ i - 1 \in 0 .. m /\ i > k /\ i + 1 \in k + 1 .. m + 1
        /\ i - k \in Nat /\ (i + 1) - 1 = i /\ (i + 1) - k - 1 = i - k
    BY <1>4
  <2>2. PICK x \in Nat : x = SumTo(s, i - 1) BY <1>7, <2>1
  <2>3. PICK y \in Nat : y = s[i] BY <1>8, <2>1
  <2>4. SumTo(s, i) = x + y BY <1>8, <2>1, <2>2, <2>3
  <2>5. PICK z \in Nat : z = g * (i - k) /\ z = GapBefore(r, n, i) BY <1>11, <2>1
  <2>6. TableAt(r, n, i + 1) = h + (x + y) + z BY <1>12, <2>1, <2>4, <2>5
  <2>7. q[i].start = h + x + z /\ q[i].count = y BY <1>6, <2>1, <2>2, <2>3, <2>5
  <2> QED BY <2>6, <2>7
<1>15. k < m => \A i \in 1 .. k : q[i].start + q[i].count <= TableAt(r, n, k + 1)
  <2> SUFFICES ASSUME k < m, NEW i \in 1 .. k
               PROVE  q[i].start + q[i].count <= TableAt(r, n, k + 1)
    OBVIOUS
  <2>1. i \in 1 .. m /\ i \in 0 .. m /\ i - 1 \in 0 .. m /\ ~ (i > k) /\ k \in 0 .. m
        /\ k + 1 \in k + 1 .. m + 1 /\ (k + 1) - 1 = k /\ (k + 1) - k - 1 = 0 /\ k \in i .. m
    BY <1>4
  <2>2. PICK x \in Nat : x = SumTo(s, i - 1) BY <1>7, <2>1
  <2>3. PICK y \in Nat : y = s[i] BY <1>8, <2>1
  <2>4. SumTo(s, i) = x + y BY <1>8, <2>1, <2>2, <2>3
  <2>5. PICK z \in Nat : z = SumTo(s, k) BY <1>7, <2>1
  <2>6. SumTo(s, i) <= SumTo(s, k) BY <1>2, <2>1, SumToGrows
  <2>7. TableAt(r, n, k + 1) = h + z + g * 0 BY <1>12, <2>1, <2>5
  <2>8. q[i].start = h + x + 0 /\ q[i].count = y BY <1>6, <1>11, <2>1, <2>2, <2>3
  <2> QED BY <2>4, <2>5, <2>6, <2>7, <2>8
<1>16. \A i \in 1 .. m : /\ q[i].start \in Nat /\ q[i].start > 0
                         /\ q[i] = Part("fat", q[i].start, q[i].count) /\ q[i] \in Parts
  <2> SUFFICES ASSUME NEW i \in 1 .. m
               PROVE  /\ q[i].start \in Nat /\ q[i].start > 0
                      /\ q[i] = Part("fat", q[i].start, q[i].count) /\ q[i] \in Parts
    OBVIOUS
  <2>1. PICK x \in Nat : x = SumTo(s, i - 1)
    <3>1. i - 1 \in 0 .. m OBVIOUS
    <3> QED BY <1>7, <3>1
  <2>2. PICK z \in Nat : z = GapBefore(r, n, i) BY <1>11
  <2>3. q[i].start = h + x + z BY <1>6, <2>1, <2>2
  <2>4. q[i].start \in Nat /\ q[i].start > 0 BY <1>a, <2>3
  <2>5. q[i] = Part("fat", q[i].start, q[i].count) BY <1>6
  <2>6. q[i].count \in Nat BY <1>6, <1>8
  <2>7. Part("fat", q[i].start, q[i].count) \in Parts BY <2>4, <2>6 DEF Part, Parts
  <2> QED BY <2>4, <2>5, <2>7
<1>17. q \in Seq(Parts) /\ Len(q) = m
  <2>1. q = [i \in 1 .. m |-> q[i]]
    <3>1. q = [i \in DOMAIN s |-> q[i]] BY DEF q, Request, s
    <3> QED BY <1>2, <3>1
  <2>2. q \in [1 .. m -> Parts] BY <1>16, <2>1
  <2> QED BY <1>1, <2>2, SeqDef
<1>18. m \in 1 .. MaxParts BY <1>0, <1>1, WantedType, BoundsAssumption DEF Small
<1> QED BY <1>4, <1>5, <1>6, <1>10, <1>13, <1>14, <1>15, <1>16, <1>17, <1>18 DEF Chained, q

\* The tables written are these.
LEMMA TablesAre ==
  ASSUME NEW r, NEW n, Small(r, n)
  PROVE  /\ Tables(r, n) \in Seq([at : Nat, what : TableSectors])
         /\ Len(Tables(r, n)) = 1 + Len(Request(r, n)) - Primaries(r, n)
         /\ Tables(r, n)[1] = [at |-> 0, what |-> Table(MainTable(r, n))]
         /\ \A i \in Primaries(r, n) + 1 .. Len(Request(r, n)) :
              Tables(r, n)[1 + i - Primaries(r, n)]
                = [at |-> TableAt(r, n, i), what |-> Table(ChainTable(r, n, i))]
<1> DEFINE sizes == Sizes(r, n)
           k == Primaries(r, n)
           l == Logicals(r, n)
           first == ExtendedBegin(r, n)
           q == Request(r, n)
           at(i) == first + SumTo(sizes, i - 1) - SumTo(sizes, k) + Gap(r) * (i - k - 1)
           primary == [i \in 1 .. k |-> Part("fat", Hidden(r, n) + SumTo(sizes, i - 1), sizes[i])]
           logical(i) == Part("fat", LogicalStart(r), sizes[i])
           link(i) == Part("extended", at(i) - first, LinkCount(r, sizes[i]))
           rest == IF l > 0 THEN <<Part("extended", first, n - first)>> ELSE <<>>
           last(i) == IF i = Len(sizes) THEN <<logical(i)>> ELSE <<logical(i), link(i + 1)>>
           chain == [j \in 1 .. l |->
                       [at |-> at(k + j),
                        what |-> Table(Four(IF k + j = Len(sizes) THEN <<logical(k + j)>>
                                            ELSE <<logical(k + j), link(k + j + 1)>>))]]
<1>0. Possible(r, n) BY DEF Small
<1>1. Tables(r, n) = <<[at |-> 0, what |-> Table(Four(primary \o rest))]>> \o chain
  BY DEF Tables
<1>2. Chained(q, r, n, k) BY RequestIsChained
<1>3. PICK m \in Nat : m = Len(q) /\ m = Len(sizes) /\ m = Len(Wanted(r, n))
                       /\ DOMAIN sizes = 1 .. m /\ sizes \in Seq(Nat)
  <2>1. sizes \in Seq(Nat) /\ Len(sizes) = Len(Wanted(r, n)) BY <1>0, SizesType
  <2>2. DOMAIN q = DOMAIN sizes BY DEF Request
  <2>3. q \in Seq(Parts) BY <1>2 DEF Chained
  <2> HIDE DEF q, sizes
  <2>4. Len(q) = Len(sizes) /\ Len(q) \in Nat /\ DOMAIN sizes = 1 .. Len(sizes)
    BY <2>1, <2>2, <2>3, LenProperties
  <2> QED BY <2>1, <2>4
<1>4. l = m - k /\ k \in 0 .. m /\ l \in Nat
  <2>1. k \in 0 .. m BY <1>2, <1>3 DEF Chained
  <2>2. l = m - k BY <1>3 DEF Logicals
  <2> QED BY <2>1, <2>2
<1>5. \A i : at(i) = TableAt(r, n, i) BY DEF TableAt
<1>6. \A i \in 1 .. m : q[i] = Part("fat", Hidden(r, n) + SumTo(sizes, i - 1)
                                            + (IF i > k THEN Gap(r) * (i - k) ELSE 0), sizes[i])
                        /\ q[i].count = sizes[i]
  BY <1>3 DEF Request, Part
<1>7. first = TableAt(r, n, k + 1)
  <2>1. SumTo(sizes, k) \in Nat
    <3> HIDE DEF sizes, k
    <3> QED BY <1>3, <1>4, SumToType
  <2>2. first = Hidden(r, n) + SumTo(sizes, k) BY DEF ExtendedBegin
  <2>3. Hidden(r, n) \in Nat /\ Gap(r) \in Nat BY <1>0, WantedType
  <2>4. (k + 1) - 1 = k /\ (k + 1) - k - 1 = 0 BY <1>4
  <2>5. TableAt(r, n, k + 1) = first + SumTo(sizes, k) - SumTo(sizes, k) + Gap(r) * 0
    <3> HIDE DEF k
    <3>1. TableAt(r, n, k + 1)
            = first + SumTo(sizes, (k + 1) - 1) - SumTo(sizes, k) + Gap(r) * ((k + 1) - k - 1)
      BY DEF TableAt, k
    <3> QED BY <2>4, <3>1
  <2> HIDE DEF first, sizes, k
  <2> QED BY <2>1, <2>2, <2>3, <2>5
<1>8. \A i \in 1 .. k : SumTo(sizes, i - 1) \in Nat
  <2> HIDE DEF sizes
  <2> QED BY <1>3, <1>4, SumToType
<1>9. Hidden(r, n) \in Nat BY <1>0, WantedType
<1>10. Table(Four(primary \o rest)) = Table(MainTable(r, n))
  <2>1. \A i \in 1 .. k : primary[i] = q[i]
    <3> SUFFICES ASSUME NEW i \in 1 .. k PROVE primary[i] = q[i] OBVIOUS
    <3>1. i \in 1 .. m /\ ~ (i > k) BY <1>4
    <3>2. SumTo(sizes, i - 1) \in Nat BY <1>8
    <3>3. Hidden(r, n) + SumTo(sizes, i - 1) + 0 = Hidden(r, n) + SumTo(sizes, i - 1)
      BY <1>9, <3>2
    <3>4. q[i] = Part("fat", Hidden(r, n) + SumTo(sizes, i - 1), sizes[i])
      BY <1>6, <3>1, <3>3
    <3> HIDE DEF q
    <3> QED BY <3>4
  <2>2. primary \in Seq(Parts) /\ Len(primary) = k
    <3>1. \A i \in 1 .. k : q[i] \in Parts
      <4>1. q \in Seq(Parts) BY <1>2 DEF Chained
      <4>2. \A i \in 1 .. k : i \in 1 .. Len(q) BY <1>3, <1>4
      <4> HIDE DEF q, k
      <4> QED BY <4>1, <4>2, ElementOfSeq
    <3>2. primary \in [1 .. k -> Parts] BY <2>1, <3>1
    <3> HIDE DEF primary
    <3> QED BY <1>4, <3>2, SeqDef
  <2> DEFINE e == Part("extended", TableAt(r, n, k + 1), n - TableAt(r, n, k + 1))
  <2>3. rest = IF k < m THEN <<e>> ELSE <<>> BY <1>4, <1>7
  <2> HIDE DEF primary, rest, e, q, l
  <2>4. CASE k < m
    <3>1. rest = <<e>> BY <2>3, <2>4
    <3> DEFINE p == primary \o rest
    <3>2. p = Append(primary, e) BY <2>2, <3>1
    <3>3. Len(p) = k + 1 /\ (\A i \in 1 .. k : p[i] = primary[i]) /\ p[k + 1] = e
      BY <2>2, <3>2
    <3> HIDE DEF p
    <3>4. Four(p) = MainTable(r, n)
      <4>1. \A i \in 1 .. 4 : (IF i <= Len(p) THEN p[i] ELSE NoPart)
               = (IF i <= k THEN q[i] ELSE IF i = k + 1 /\ k < m THEN e ELSE NoPart)
        <5> SUFFICES ASSUME NEW i \in 1 .. 4
                     PROVE  (IF i <= Len(p) THEN p[i] ELSE NoPart)
               = (IF i <= k THEN q[i] ELSE IF i = k + 1 /\ k < m THEN e ELSE NoPart)
          OBVIOUS
        <5>1. CASE i <= k BY <1>4, <2>1, <3>3, <5>1
        <5>2. CASE i = k + 1 BY <1>4, <2>4, <3>3, <5>2
        <5>3. CASE i > k + 1 BY <1>4, <3>3, <5>3
        <5> QED BY <1>4, <5>1, <5>2, <5>3
      <4> QED BY <1>3, <4>1 DEF Four, MainTable, q, e
    <3> QED BY <3>4 DEF p
  <2>5. CASE ~ (k < m)
    <3>1. primary \o rest = primary BY <2>2, <2>3, <2>5
    <3>2. Four(primary) = MainTable(r, n)
      <4>1. \A i \in 1 .. 4 : (IF i <= Len(primary) THEN primary[i] ELSE NoPart)
               = (IF i <= k THEN q[i] ELSE IF i = k + 1 /\ k < m THEN e ELSE NoPart)
        BY <1>4, <2>1, <2>2, <2>5
      <4> QED BY <1>3, <4>1 DEF Four, MainTable, q, e
    <3> QED BY <3>1, <3>2
  <2> QED BY <2>4, <2>5
<1>11. \A i \in k + 1 .. m : Table(Four(last(i))) = Table(ChainTable(r, n, i))
  <2> SUFFICES ASSUME NEW i \in k + 1 .. m
               PROVE  Four(last(i)) = ChainTable(r, n, i)
    OBVIOUS
  <2>1. i \in 1 .. m /\ (i # m => i + 1 \in 1 .. m) BY <1>4
  <2>2. logical(i) = Part("fat", Gap(r), q[i].count) BY <1>6, <2>1 DEF LogicalStart
  <2>3. i # m => link(i + 1) = Part("extended", TableAt(r, n, i + 1) - TableAt(r, n, k + 1),
                                    q[i + 1].count + Gap(r))
    <3>1. at(i + 1) = TableAt(r, n, i + 1) BY <1>5
    <3>2. i # m => sizes[i + 1] = q[i + 1].count BY <1>6, <2>1
    <3> HIDE DEF at, first, q, sizes
    <3> QED BY <1>7, <3>1, <3>2 DEF LinkCount
  <2> DEFINE a == logical(i)
             b == link(i + 1)
  <2>4. Four(last(i)) = Four(IF i = m THEN <<a>> ELSE <<a, b>>) BY <1>3
  <2>5. Four(IF i = m THEN <<a>> ELSE <<a, b>>)
          = [j \in 1 .. 4 |-> IF j = 1 THEN a ELSE IF j = 2 /\ i < m THEN b ELSE NoPart]
    <3> HIDE DEF a, b
    <3>1. CASE i = m BY <3>1 DEF Four
    <3>2. CASE i # m
      <4>1. i < m BY <2>1, <3>2
      <4> QED BY <3>2, <4>1 DEF Four
    <3> QED BY <3>1, <3>2
  <2>6. i < m => i # m BY <2>1
  <2>7. ChainTable(r, n, i)
          = [j \in 1 .. 4 |-> IF j = 1 THEN a ELSE IF j = 2 /\ i < m THEN b ELSE NoPart]
    <3>1. a = Part("fat", Gap(r), q[i].count) BY <2>2
    <3>2. i < m => b = Part("extended", TableAt(r, n, i + 1) - TableAt(r, n, k + 1),
                            q[i + 1].count + Gap(r))
      BY <2>3, <2>6
    <3> HIDE DEF a, b
    <3> QED BY <1>3, <3>1, <3>2 DEF ChainTable
  <2> HIDE DEF a, b, last
  <2> QED BY <2>4, <2>5, <2>7
<1>12. \A j \in 1 .. l : chain[j] = [at |-> TableAt(r, n, k + j),
                                     what |-> Table(ChainTable(r, n, k + j))]
  <2> SUFFICES ASSUME NEW j \in 1 .. l
               PROVE  chain[j] = [at |-> TableAt(r, n, k + j),
                                  what |-> Table(ChainTable(r, n, k + j))]
    OBVIOUS
  <2>1. k + j \in k + 1 .. m BY <1>4
  <2>2. chain[j] = [at |-> at(k + j), what |-> Table(Four(last(k + j)))] OBVIOUS
  <2>3. at(k + j) = TableAt(r, n, k + j) BY <1>5
  <2>4. Table(Four(last(k + j))) = Table(ChainTable(r, n, k + j)) BY <1>11, <2>1
  <2> HIDE DEF chain, last, at
  <2> QED BY <2>2, <2>3, <2>4
<1>13. Tables(r, n) \in Seq([at : Nat, what : TableSectors]) BY <1>0, TablesType
<1>14. DOMAIN chain = 1 .. l OBVIOUS
<1> DEFINE head == [at |-> 0, what |-> Table(MainTable(r, n))]
           T == Tables(r, n)
<1>15. T = <<head>> \o chain BY <1>1, <1>10
<1>18. chain = [j \in 1 .. l |-> [at |-> TableAt(r, n, k + j),
                                   what |-> Table(ChainTable(r, n, k + j))]]
  BY <1>12
<1> DEFINE W == {head} \cup {[at |-> TableAt(r, n, k + j),
                              what |-> Table(ChainTable(r, n, k + j))] : j \in 1 .. l}
<1>19. chain \in Seq(W) /\ Len(chain) = l /\ head \in W
  <2>1. chain \in [1 .. l -> W] BY <1>18
  <2>2. head \in W OBVIOUS
  <2> HIDE DEF chain, W, l, head
  <2> QED BY <1>4, <2>1, <2>2, SeqDef
<1> HIDE DEF chain, head, T, l, k, q, W
<1>16. Len(T) = 1 + l /\ T[1] = head /\ \A j \in 1 .. l : T[1 + j] = chain[j]
  <2>1. <<head>> \in Seq(W) /\ Len(<<head>>) = 1 /\ <<head>>[1] = head BY <1>19
  <2>2. Len(T) = 1 + l BY <1>15, <1>19, <2>1, ConcatProperties
  <2>3. T[1] = head BY <1>15, <1>19, <2>1, <1>4, ConcatProperties
  <2>4. ASSUME NEW j \in 1 .. l PROVE T[1 + j] = chain[j]
    <3>1. 1 + j \in 1 .. 1 + l /\ 1 + j > 1 /\ (1 + j) - 1 = j BY <1>4
    <3> QED BY <1>15, <1>19, <2>1, <3>1, ConcatProperties
  <2> QED BY <2>2, <2>3, <2>4
<1>17. \A i \in k + 1 .. m : T[1 + i - k] = [at |-> TableAt(r, n, i),
                                            what |-> Table(ChainTable(r, n, i))]
  <2> SUFFICES ASSUME NEW i \in k + 1 .. m
               PROVE  T[1 + i - k] = [at |-> TableAt(r, n, i),
                                      what |-> Table(ChainTable(r, n, i))]
    OBVIOUS
  <2>1. i - k \in 1 .. l /\ k + (i - k) = i /\ 1 + i - k = 1 + (i - k) BY <1>4
  <2>2. T[1 + (i - k)] = chain[i - k] BY <1>16, <2>1
  <2>3. chain[i - k] = [at |-> TableAt(r, n, k + (i - k)),
                        what |-> Table(ChainTable(r, n, k + (i - k)))]
    BY <1>12, <2>1
  <2> QED BY <2>1, <2>2, <2>3
<1>20. Len(T) = 1 + m - k BY <1>4, <1>16
<1> QED BY <1>3, <1>13, <1>16, <1>17, <1>20 DEF T, head, k, q

-----------------------------------------------------------------------------
(* What the search finds where these tables are. *)

\* The partitions with a sector among the first j.
Kept(q, j) == Select(q, {i \in NotEmpty(q) : i <= j})

LEMMA KeptGrows ==
  ASSUME NEW q \in Seq(Parts)
  PROVE  /\ \A j \in 0 .. Len(q) : Kept(q, j) \in Seq(Parts) /\ Len(Kept(q, j)) <= j
         /\ Kept(q, 0) = <<>>
         /\ \A j \in 1 .. Len(q) : Kept(q, j) = IF q[j].count # 0 THEN Append(Kept(q, j - 1), q[j])
                                               ELSE Kept(q, j - 1)
         /\ Kept(q, Len(q)) = Select(q, NotEmpty(q))
<1>0. Len(q) \in Nat /\ DOMAIN q = 1 .. Len(q) BY LenProperties
<1>1. \A j : Kept(q, j) \in Seq(Parts) BY SelectType DEF Kept
<1>2. Kept(q, 0) = <<>>
  <2>1. \A i \in 1 .. Len(q) : i \notin {x \in NotEmpty(q) : x <= 0} BY <1>0
  <2> QED BY <2>1, SelectNothing DEF Kept
<1>3. ASSUME NEW j \in 1 .. Len(q)
      PROVE  Kept(q, j) = IF q[j].count # 0 THEN Append(Kept(q, j - 1), q[j])
                          ELSE Kept(q, j - 1)
  <2> DEFINE P(x) == {i \in NotEmpty(q) : i <= x}
  <2>0. j \in Nat /\ NotEmpty(q) = {i \in 1 .. Len(q) : q[i].count # 0} BY <1>0 DEF NotEmpty
  <2>1. CASE q[j].count # 0
    <3>1. P(j) \ {j} = P(j - 1) BY <2>0, <2>1
    <3>2. j \in P(j) /\ \A i \in j + 1 .. Len(q) : i \notin P(j) BY <2>0, <2>1
    <3> HIDE DEF P
    <3>3. Select(q, P(j)) = Append(Select(q, P(j) \ {j}), q[j]) BY <3>2, SelectLast
    <3> QED BY <2>1, <3>1, <3>3 DEF P, Kept
  <2>2. CASE q[j].count = 0
    <3>1. P(j) = P(j - 1) BY <2>0, <2>2
    <3> QED BY <2>2, <3>1 DEF Kept
  <2> QED BY <2>1, <2>2
<1>4. \A j \in 0 .. Len(q) : Len(Kept(q, j)) <= j
  <2> DEFINE X == {j \in 0 .. Len(q) : Len(Kept(q, j)) <= j}
  <2>1. 0 \in X BY <1>0, <1>2
  <2>2. ASSUME NEW j \in 0 .. Len(q) - 1, j \in X PROVE j + 1 \in X
    <3>1. j + 1 \in 1 .. Len(q) /\ (j + 1) - 1 = j /\ j + 1 \in 0 .. Len(q) BY <1>0
    <3>2. PICK s \in Seq(Parts) : s = Kept(q, j) BY <1>1
    <3>3. Len(s) \in Nat /\ Len(s) <= j BY <2>2, <3>2
    <3>4. Kept(q, j + 1) = Append(s, q[j + 1]) \/ Kept(q, j + 1) = s BY <1>3, <3>1, <3>2
    <3>5. q[j + 1] \in Parts BY <3>1, ElementOfSeq
    <3>6. Len(Append(s, q[j + 1])) = Len(s) + 1 BY <3>5, AppendProperties
    <3> QED BY <3>1, <3>3, <3>4, <3>6
  <2> HIDE DEF X
  <2>3. \A j \in 0 .. Len(q) : j \in X BY <1>0, <2>1, <2>2, BoundedInduction
  <2> QED BY <2>3 DEF X
<1>5. Kept(q, Len(q)) = Select(q, NotEmpty(q))
  <2>1. {i \in NotEmpty(q) : i <= Len(q)} = NotEmpty(q) BY <1>0 DEF NotEmpty
  <2> QED BY <2>1 DEF Kept
<1> QED BY <1>1, <1>2, <1>3, <1>4, <1>5

\* No more partitions than there is room for are all kept.
LEMMA CappedIs == ASSUME NEW s \in Seq(Parts), Len(s) <= MaxParts PROVE Capped(s) = s
<1>1. Len(s) \in Nat BY LenProperties
<1>2. Least(Len(s), MaxParts) = Len(s) BY <1>1, BoundsAssumption DEF Least
<1>3. SubSeq(s, 1, Len(s)) = s BY <1>1
<1> QED BY <1>2, <1>3 DEF Capped

\* Each table lies behind the tables before it, and behind their partitions.
LEMMA TablesGrow ==
  ASSUME NEW r, NEW n, NEW q, NEW k, Chained(q, r, n, k), NEW i \in k + 1 .. Len(q)
  PROVE  /\ \A j \in i .. Len(q) : TableAt(r, n, i) <= TableAt(r, n, j)
         /\ \A j \in i + 1 .. Len(q) : q[i].start + q[i].count <= TableAt(r, n, j)
<1>1. PICK m \in Nat : m = Len(q) /\ k \in 0 .. m /\ q \in Seq(Parts)
  BY BoundsAssumption DEF Chained
<1>2. i \in k + 1 .. m /\ i \in Nat /\ i <= m BY <1>1
<1>3. \A j \in k + 1 .. m : TableAt(r, n, j) \in Nat BY <1>1 DEF Chained
<1>4. \A j \in k + 1 .. m : TableAt(r, n, j) + Gap(r) = q[j].start /\ Gap(r) \in Nat
  BY <1>1 DEF Chained
<1>5. \A j \in k + 1 .. m : j + 1 <= m => TableAt(r, n, j + 1) = q[j].start + q[j].count
  BY <1>1 DEF Chained
<1>6. \A j \in k + 1 .. m : q[j].count \in Nat /\ q[j].start \in Nat
  <2>1. \A j \in k + 1 .. m : j \in 1 .. Len(q) BY <1>1
  <2>2. \A j \in k + 1 .. m : q[j] \in Parts BY <1>1, <2>1, ElementOfSeq
  <2> QED BY <2>2 DEF Parts
<1>7. ASSUME NEW j \in k + 1 .. m, j + 1 <= m
      PROVE  TableAt(r, n, j) <= TableAt(r, n, j + 1)
  <2>1. PICK a \in Nat : a = TableAt(r, n, j) BY <1>3
  <2>2. PICK g \in Nat : g = Gap(r) BY <1>4
  <2>3. PICK c \in Nat : c = q[j].count BY <1>6
  <2>4. TableAt(r, n, j + 1) = (a + g) + c BY <1>4, <1>5, <1>7, <2>1, <2>2, <2>3
  <2> QED BY <2>1, <2>4
<1> DEFINE Z(b) == {x \in 0 .. m - b : TableAt(r, n, b) <= TableAt(r, n, b + x)}
<1>8. ASSUME NEW b \in k + 1 .. m, NEW j \in b .. m
      PROVE  TableAt(r, n, b) <= TableAt(r, n, j)
  <2>0. m \in Nat /\ k \in Nat /\ b \in Int /\ b <= m BY <1>1
  <2>9. m - b \in Nat BY <2>0
  <2>1. PICK z \in Nat : z = m - b BY <2>9
  <2>2. PICK X : X = Z(b) OBVIOUS
  <2>3. 0 \in X
    <3>1. b + 0 = b /\ 0 \in 0 .. m - b BY <1>1
    <3> QED BY <1>3, <2>2, <3>1
  <2>4. ASSUME NEW x \in 0 .. z - 1, x \in X PROVE x + 1 \in X
    <3>1. b + x \in k + 1 .. m /\ (b + x) + 1 <= m /\ b + (x + 1) = (b + x) + 1
          /\ x + 1 \in 0 .. m - b /\ (b + x) + 1 \in k + 1 .. m
      BY <1>1, <2>1
    <3>2. TableAt(r, n, b) <= TableAt(r, n, b + x) BY <2>2, <2>4
    <3>3. TableAt(r, n, b + x) <= TableAt(r, n, (b + x) + 1) BY <1>7, <3>1
    <3>4. TableAt(r, n, b) \in Nat /\ TableAt(r, n, b + x) \in Nat
          /\ TableAt(r, n, (b + x) + 1) \in Nat
      BY <1>3, <3>1
    <3>5. TableAt(r, n, b) <= TableAt(r, n, b + (x + 1)) BY <3>1, <3>2, <3>3, <3>4
    <3> QED BY <2>2, <3>1, <3>5
  <2>5. \A x \in 0 .. z : x \in X BY <2>1, <2>3, <2>4, BoundedInduction
  <2>6. j - b \in 0 .. z /\ b + (j - b) = j BY <1>1, <2>1
  <2>7. j - b \in Z(b) BY <2>2, <2>5, <2>6
  <2> QED BY <2>6, <2>7
<1>9. \A j \in i .. m : TableAt(r, n, i) <= TableAt(r, n, j) BY <1>2, <1>8
<1>10. ASSUME NEW j \in i + 1 .. m PROVE q[i].start + q[i].count <= TableAt(r, n, j)
  <2>1. i + 1 \in k + 1 .. m /\ j \in i + 1 .. m /\ i + 1 <= m BY <1>1, <1>2
  <2>2. PICK b \in k + 1 .. m : b = i + 1 BY <2>1
  <2>3. TableAt(r, n, b) <= TableAt(r, n, j) BY <1>8, <2>1, <2>2
  <2>4. TableAt(r, n, i + 1) = q[i].start + q[i].count BY <1>2, <1>5, <2>1
  <2> QED BY <2>2, <2>3, <2>4
<1> QED BY <1>1, <1>9, <1>10

\* A table that names one partition and perhaps a next table.
LEMMA OneIsSelected ==
  ASSUME NEW parts \in Seq(Parts), NEW n \in 1 .. Len(parts), NEW places,
         \A i \in 1 .. Len(parts) : i \in places <=> i = n
  PROVE  Select(parts, places) = <<parts[n]>>
<1>0. Len(parts) \in Nat BY LenProperties
<1>1. Select(parts, places) = Append(Select(parts, places \ {n}), parts[n])
  BY <1>0, SelectLast
<1>2. Select(parts, places \ {n}) = <<>> BY SelectNothing
<1> QED BY <1>1, <1>2

\* Where the search is when it has gone through the logical partitions before the ith.
Place(q, r, n, i, count) ==
  [at |-> TableAt(r, n, i), count |-> count, found |-> Kept(q, i - 1), on |-> TRUE]

\* The turn of the loop over the table of the ith partition: it is found if it has a
\* sector, and the search goes on to the next table if there is a next partition.
LEMMA TurnFinds ==
  ASSUME NEW r, NEW n \in Nat, NEW q, NEW k, Chained(q, r, n, k), NEW i \in k + 1 .. Len(q),
         NEW d, Sector(d, TableAt(r, n, i)) = Table(ChainTable(r, n, i)),
         NEW count \in Nat, Gap(r) + q[i].count <= count,
         NEW first, first = TableAt(r, n, k + 1)
  PROVE  LET w == Place(q, r, n, i, count)
             v == NextTable(d, w, first, n - first)
         IN  IF i = Len(q) THEN v.found = Kept(q, i) /\ ~ v.on
             ELSE v = Place(q, r, n, i + 1, q[i + 1].count + Gap(r))
<1> DEFINE w == Place(q, r, n, i, count)
           v == NextTable(d, w, first, n - first)
           at == TableAt(r, n, i)
           parts == ChainTable(r, n, i)
           sane == {x \in 1 .. 4 : Sane(parts[x], w, first, n - first)}
           linked == {x \in 1 .. 4 : IsExtended(parts[x]) /\ parts[x].count # 0}
           here == Select(parts, sane)
           links == Select(parts, linked)
           moved == [x \in DOMAIN here |-> [here[x] EXCEPT !.start = @ + w.at]]
           found == Capped(w.found \o moved)
<1>1. /\ q \in Seq(Parts) /\ Len(q) \in 1 .. MaxParts /\ Len(q) \in Nat
      /\ k \in 0 .. Len(q) /\ Gap(r) \in Nat \ {0}
      /\ i \in 1 .. Len(q) /\ q = Request(r, n) /\ k = Primaries(r, n)
  BY DEF Chained
<1>2. /\ q[i].start + q[i].count <= n /\ q[i].start = at + Gap(r) /\ at \in Nat \ {0}
      /\ q[i].start \in Nat /\ q[i].count \in Nat /\ q[i] = Part("fat", q[i].start, q[i].count)
  <2>1. q[i] \in Parts BY <1>1, ElementOfSeq
  <2>2. q[i].start \in Nat /\ q[i].count \in Nat BY <2>1 DEF Parts
  <2> QED BY <1>1, <2>2 DEF Chained
<1>3. /\ first \in Nat \ {0}
      /\ i < Len(q) => /\ i + 1 \in 1 .. Len(q) /\ q[i + 1].count \in Nat
                       /\ TableAt(r, n, i + 1) - first \in Nat /\ TableAt(r, n, i + 1) \in Nat
  <2>1. k + 1 \in k + 1 .. Len(q) BY <1>1
  <2>2. first \in Nat \ {0} BY <2>1 DEF Chained
  <2>3. first <= at
    <3>1. i \in k + 1 .. Len(q) BY <1>1
    <3> QED BY <2>1, <3>1, TablesGrow
  <2>4. ASSUME i < Len(q)
        PROVE  /\ i + 1 \in 1 .. Len(q) /\ q[i + 1].count \in Nat
               /\ TableAt(r, n, i + 1) - first \in Nat /\ TableAt(r, n, i + 1) \in Nat
    <3>1. i + 1 \in 1 .. Len(q) /\ i + 1 <= Len(q) BY <1>1, <2>4
    <3>2. q[i + 1] \in Parts BY <1>1, <3>1, ElementOfSeq
    <3>3. q[i + 1].count \in Nat BY <3>2 DEF Parts
    <3>4. TableAt(r, n, i + 1) = q[i].start + q[i].count BY <3>1 DEF Chained
    <3>5. PICK g \in Nat : g = Gap(r) BY <1>1
    <3>6. PICK z \in Nat : z = at BY <1>2
    <3>7. PICK c \in Nat : c = q[i].count BY <1>2
    <3>8. TableAt(r, n, i + 1) = (z + g) + c BY <1>2, <3>4, <3>5, <3>6, <3>7
    <3>9. TableAt(r, n, i + 1) - first \in Nat /\ TableAt(r, n, i + 1) \in Nat
      BY <2>2, <2>3, <3>6, <3>8
    <3> QED BY <3>1, <3>3, <3>9
  <2> QED BY <2>2, <2>4
<1> DEFINE a == Part("fat", Gap(r), q[i].count)
           b == Part("extended", TableAt(r, n, i + 1) - first, q[i + 1].count + Gap(r))
<1>4. parts = [j \in 1 .. 4 |-> IF j = 1 THEN a ELSE IF j = 2 /\ i < Len(q) THEN b ELSE NoPart]
  BY <1>1 DEF ChainTable
<1>5. /\ a \in Parts /\ (i < Len(q) => b \in Parts) /\ NoPart \in Parts
      /\ a.id = "fat" /\ b.id = "extended" /\ NoPart.id = "none"
      /\ a.start = Gap(r) /\ a.count = q[i].count /\ NoPart.count = 0
      /\ b.start = TableAt(r, n, i + 1) - first /\ b.count = q[i + 1].count + Gap(r)
  <2>1. Gap(r) \in Nat /\ q[i].count \in Nat BY <1>1, <1>2
  <2>2. a \in Parts BY <2>1 DEF Part, Parts
  <2>3. i < Len(q) => b \in Parts
    <3>1. i < Len(q) => TableAt(r, n, i + 1) - first \in Nat /\ q[i + 1].count + Gap(r) \in Nat
      BY SMTT(40), <1>3, <2>1
    <3> QED BY <3>1 DEF Part, Parts
  <2>4. NoPart \in Parts /\ NoPart.id = "none" /\ NoPart.count = 0 BY DEF NoPart, Part, Parts
  <2>5. a.id = "fat" /\ a.start = Gap(r) /\ a.count = q[i].count BY DEF Part
  <2>6. /\ b.id = "extended" /\ b.start = TableAt(r, n, i + 1) - first
        /\ b.count = q[i + 1].count + Gap(r)
    BY DEF Part
  <2> QED BY <2>2, <2>3, <2>4, <2>5, <2>6
<1>6. w.at = at /\ w.count = count /\ w.found = Kept(q, i - 1) /\ w.on = TRUE
  BY DEF Place
<1> HIDE DEF parts, a, b, at, w
<1>7. parts \in Seq(Parts) /\ Len(parts) = 4
  <2>1. parts \in [1 .. 4 -> Parts] BY <1>4, <1>5
  <2>2. \A f \in [1 .. 4 -> Parts] : f \in Seq(Parts) BY SeqDef
  <2>3. parts \in Seq(Parts) /\ DOMAIN parts = 1 .. 4 BY <2>1, <2>2
  <2>4. Len(parts) \in Nat /\ DOMAIN parts = 1 .. Len(parts) BY <2>3, LenProperties
  <2> QED BY <2>3, <2>4
<1>8. parts[1] = a /\ parts[3] = NoPart /\ parts[4] = NoPart
      /\ parts[2] = (IF i < Len(q) THEN b ELSE NoPart)
  BY <1>4
<1>9. ReadParts(Sector(d, w.at)) = parts /\ Signed(Sector(d, w.at))
  BY <1>6 DEF ReadParts, Signed, Table, at, parts
<1>10. Len(w.found) < MaxParts /\ w.found \in Seq(Parts)
  <2>1. i - 1 \in 0 .. Len(q) BY <1>1
  <2>2. w.found \in Seq(Parts) /\ Len(w.found) <= i - 1 BY <1>1, <1>6, <2>1, KeptGrows
  <2>3. Len(w.found) \in Nat BY <2>2, LenProperties
  <2> QED BY <1>1, <2>2, <2>3, BoundsAssumption
<1>11. \A x \in 2 .. 4 : ~ Sane(parts[x], w, first, n - first)
  BY <1>5, <1>8 DEF Sane, IsExtended
<1>12. Sane(parts[1], w, first, n - first) <=> q[i].count # 0
  <2>1. Sane(parts[1], w, first, n - first) <=>
          /\ a.count # 0 /\ a.id # "extended"
          /\ a.start + a.count <= w.count /\ w.at + a.start <= first + (n - first)
    BY <1>8 DEF Sane, IsExtended
  <2>2. first + (n - first) = n BY <1>3
  <2>3. w.at + a.start <= n
    <3>1. PICK c \in Nat : c = q[i].count BY <1>2
    <3>2. PICK z \in Nat : z = q[i].start BY <1>2
    <3>3. z + c <= n /\ w.at + a.start = z BY <1>2, <1>5, <1>6, <3>1, <3>2
    <3> QED BY <3>3
  <2>4. a.start + a.count <= w.count BY <1>5, <1>6
  <2> QED BY <1>5, <2>1, <2>2, <2>3, <2>4
<1>13. found = Kept(q, i)
  <2>1. CASE q[i].count # 0
    <3>1. \A x \in 1 .. Len(parts) : x \in sane <=> x = 1 BY <1>7, <1>11, <1>12, <2>1
    <3> HIDE DEF sane
    <3>9. 1 \in 1 .. Len(parts) BY <1>7
    <3>2. here = <<parts[1]>> BY <1>7, <3>1, <3>9, OneIsSelected
    <3>3. moved = <<[a EXCEPT !.start = @ + w.at]>> BY <1>8, <3>2
    <3>4. [a EXCEPT !.start = @ + w.at] = q[i]
      BY SMTT(40), <1>1, <1>2, <1>6 DEF a, Part
    <3> HIDE DEF here, moved
    <3>5. w.found \o moved = Append(w.found, q[i]) BY <1>10, <3>3, <3>4
    <3>6. Kept(q, i) = Append(w.found, q[i])
      <4>1. Kept(q, i) = IF q[i].count # 0 THEN Append(Kept(q, i - 1), q[i]) ELSE Kept(q, i - 1)
        BY <1>1, KeptGrows
      <4> QED BY <1>6, <2>1, <4>1
    <3>7. Kept(q, i) \in Seq(Parts) /\ Len(Kept(q, i)) <= i
      <4>1. i \in 0 .. Len(q) BY <1>1
      <4> QED BY <1>1, <4>1, KeptGrows
    <3>8. Len(Kept(q, i)) <= MaxParts
      <4>1. Len(Kept(q, i)) \in Nat BY <3>7, LenProperties
      <4> QED BY <1>1, <3>7, <4>1, BoundsAssumption
    <3> QED BY <3>5, <3>6, <3>7, <3>8, CappedIs
  <2>2. CASE q[i].count = 0
    <3>1. \A x \in 1 .. Len(parts) : x \notin sane BY <1>7, <1>11, <1>12, <2>2
    <3> HIDE DEF sane
    <3>2. here = <<>> BY <1>7, <3>1, SelectNothing
    <3>3. moved = <<>> BY <3>2
    <3> HIDE DEF here, moved
    <3>5. w.found \o moved = w.found BY <1>10, <3>3
    <3>6. Kept(q, i) = w.found BY <1>1, <1>6, <2>2, KeptGrows
    <3>7. Len(w.found) <= MaxParts
      <4>1. Len(w.found) \in Nat BY <1>10, LenProperties
      <4> QED BY <1>10, <4>1, BoundsAssumption
    <3> QED BY <1>10, <3>5, <3>6, <3>7, CappedIs
  <2> QED BY <2>1, <2>2
<1>14. IF i < Len(q) THEN links = <<b>> ELSE links = <<>>
  <2>1. CASE i < Len(q)
    <3>1. \A x \in 1 .. Len(parts) : x \in linked <=> x = 2
      <4>1. b.count # 0
        <5>1. PICK g \in Nat \ {0} : g = Gap(r) BY <1>1
        <5>2. PICK c \in Nat : c = q[i + 1].count BY <1>3, <2>1
        <5> QED BY <1>5, <5>1, <5>2
      <4>2. parts[2] = b BY <1>8, <2>1
      <4> QED BY <1>5, <1>7, <1>8, <4>1, <4>2 DEF IsExtended
    <3> HIDE DEF linked
    <3>2. 2 \in 1 .. Len(parts) BY <1>7
    <3>3. links = <<parts[2]>> BY <1>7, <3>1, <3>2, OneIsSelected
    <3> QED BY <1>8, <2>1, <3>3
  <2>2. CASE ~ (i < Len(q))
    <3>1. \A x \in 1 .. Len(parts) : x \notin linked
      BY <1>5, <1>7, <1>8, <2>2 DEF IsExtended
    <3> HIDE DEF linked
    <3>2. links = <<>> BY <1>7, <3>1, SelectNothing
    <3> QED BY <2>2, <3>2
  <2> QED BY <2>1, <2>2
<1>15. v = CASE Len(w.found) >= MaxParts \/ ~ Signed(Sector(d, w.at)) -> [w EXCEPT !.on = FALSE]
             [] links = <<>> -> [w EXCEPT !.found = found, !.on = FALSE]
             [] OTHER -> [w EXCEPT !.found = found, !.at = first + links[1].start,
                                   !.count = links[1].count]
  BY <1>9 DEF NextTable
<1> HIDE DEF v, links, found
<1>16. ~ (Len(w.found) >= MaxParts \/ ~ Signed(Sector(d, w.at)))
  <2>1. Len(w.found) \in Nat BY <1>10, LenProperties
  <2> QED BY <1>9, <1>10, <2>1, BoundsAssumption
<1>17. CASE i = Len(q)
  <2>1. links = <<>> BY <1>1, <1>14, <1>17
  <2>2. v = [w EXCEPT !.found = found, !.on = FALSE] BY <1>15, <1>16, <2>1
  <2>3. v.found = found /\ ~ v.on BY <2>2 DEF w, Place
  <2> QED BY <1>13, <1>17, <2>3 DEF v, w
<1>18. CASE i # Len(q)
  <2>1. i < Len(q) BY <1>1, <1>18
  <2>2. links = <<b>> /\ links # <<>> /\ links[1] = b BY <1>14, <2>1
  <2>3. v = [w EXCEPT !.found = found, !.at = first + b.start, !.count = b.count]
    BY <1>15, <1>16, <2>2
  <2>4. first + b.start = TableAt(r, n, i + 1) BY <1>3, <1>5, <2>1
  <2>5. v = [at |-> TableAt(r, n, i + 1), count |-> q[i + 1].count + Gap(r),
             found |-> Kept(q, i), on |-> TRUE]
    BY <1>5, <1>13, <2>3, <2>4 DEF w, Place
  <2>6. (i + 1) - 1 = i BY <1>1
  <2>7. v = Place(q, r, n, i + 1, q[i + 1].count + Gap(r)) BY <2>5, <2>6 DEF Place
  <2> QED BY <1>18, <2>7 DEF v, w
<1> QED BY <1>17, <1>18

\* The chain of tables before the logical partitions gives them all.
LEMMA ChainIsFound ==
  ASSUME NEW r, NEW n \in Nat, NEW q, NEW k, Chained(q, r, n, k), k < Len(q),
         NEW d, AllReadable(d),
         \A i \in k + 1 .. Len(q) :
           Sector(d, TableAt(r, n, i)) = Table(ChainTable(r, n, i)),
         NEW first, first = TableAt(r, n, k + 1)
  PROVE  ParseExtended(d, Part("extended", first, n - first), Kept(q, k)) = Kept(q, Len(q))
<1> DEFINE p == Part("extended", first, n - first)
           T == 2 * MaxParts + 2
<1>1. /\ q \in Seq(Parts) /\ Gap(r) \in Nat \ {0}
      /\ \A i \in 1 .. Len(q) : q[i].start + q[i].count <= n
  BY DEF Chained
<1>2. PICK m \in Nat : m = Len(q) /\ m <= MaxParts /\ k \in 0 .. m /\ k \in Nat /\ k < m
  BY BoundsAssumption DEF Chained
<1>3. T \in Nat /\ m <= T BY <1>2, BoundsAssumption
<1>4. \A i \in 1 .. m : q[i].count \in Nat /\ q[i].start \in Nat
  <2>1. \A i \in 1 .. m : q[i] \in Parts BY <1>1, <1>2, ElementOfSeq
  <2> QED BY <2>1 DEF Parts
<1>5. first \in Nat \ {0} /\ q[k + 1].start = first + Gap(r)
  <2>1. k + 1 \in k + 1 .. Len(q) BY <1>2
  <2> QED BY <2>1 DEF Chained
<1>6. Gap(r) + q[k + 1].count <= n - first
  <2>1. k + 1 \in 1 .. m /\ k + 1 \in 1 .. Len(q) BY <1>2
  <2>2. q[k + 1].start + q[k + 1].count <= n BY <1>1, <2>1
  <2>3. PICK g \in Nat : g = Gap(r) BY <1>1
  <2>4. PICK c \in Nat : c = q[k + 1].count BY <1>4, <2>1
  <2>5. (first + g) + c <= n BY <1>5, <2>2, <2>3, <2>4
  <2>6. PICK f \in Nat : f = first BY <1>5
  <2>7. g + c <= n - f BY <2>5, <2>6
  <2> QED BY <2>3, <2>4, <2>6, <2>7
<1>7. n - first \in Nat
  <2>1. k + 1 \in 1 .. m BY <1>2
  <2>2. PICK c \in Nat : c = q[k + 1].count BY <1>4, <2>1
  <2>3. PICK g \in Nat : g = Gap(r) BY <1>1
  <2> QED BY <1>5, <1>6, <2>2, <2>3
<1>8. p \in Parts /\ p.start = first /\ p.count = n - first BY <1>5, <1>7 DEF Part, Parts
<1>9. Kept(q, k) \in Seq(Parts)
  <2>1. k \in 0 .. Len(q) BY <1>2
  <2> QED BY <1>1, <2>1, KeptGrows
<1> HIDE DEF p
<1>10. PICK walk : Walked(walk, d, p, Kept(q, k)) BY <1>8, <1>9, ParseExtendedWalks
<1> DEFINE share(j) == IF j = k + 1 THEN n - first ELSE q[j].count + Gap(r)
<1>11. walk[0] = Place(q, r, n, k + 1, share(k + 1))
  <2>1. walk[0] = [at |-> p.start, count |-> p.count, found |-> Kept(q, k), on |-> TRUE]
    BY <1>10 DEF Walked
  <2>2. (k + 1) - 1 = k BY <1>2
  <2> QED BY <1>8, <2>1, <2>2 DEF Place
<1>12. \A j \in 1 .. T : walk[j] = IF walk[j - 1].on THEN NextTable(d, walk[j - 1], first, n - first)
                                   ELSE walk[j - 1]
  BY <1>8, <1>10 DEF Walked
<1>13. \A i \in k + 1 .. m : /\ share(i) \in Nat /\ Gap(r) + q[i].count <= share(i)
                             /\ i < m => share(i + 1) = q[i + 1].count + Gap(r)
  <2> SUFFICES ASSUME NEW i \in k + 1 .. m
               PROVE  /\ share(i) \in Nat /\ Gap(r) + q[i].count <= share(i)
                      /\ i < m => share(i + 1) = q[i + 1].count + Gap(r)
    OBVIOUS
  <2>1. PICK g \in Nat : g = Gap(r) BY <1>1
  <2>2. i \in 1 .. m BY <1>2
  <2>3. PICK c \in Nat : c = q[i].count BY <1>4, <2>2
  <2>4. share(i) \in Nat /\ g + c <= share(i)
    <3>1. CASE i = k + 1 BY <1>6, <1>7, <2>1, <2>3, <3>1
    <3>2. CASE i # k + 1
      <4>1. share(i) = c + g BY <2>1, <2>3, <3>2
      <4> QED BY <4>1
    <3> QED BY <3>1, <3>2
  <2>5. i + 1 # k + 1 BY <1>2
  <2> QED BY <2>1, <2>3, <2>4, <2>5
<1> HIDE DEF share, T
<1> DEFINE X == {j \in 0 .. T :
                   IF j < m - k THEN walk[j] = Place(q, r, n, k + 1 + j, share(k + 1 + j))
                   ELSE walk[j].found = Kept(q, m) /\ ~ walk[j].on}
<1>14. 0 \in X
  <2>1. 0 \in 0 .. T /\ 0 < m - k /\ k + 1 + 0 = k + 1 BY <1>2, <1>3
  <2> QED BY <1>11, <2>1
<1>15. ASSUME NEW j \in 0 .. T - 1, j \in X PROVE j + 1 \in X
  <2>1. j + 1 \in 1 .. T /\ j + 1 \in 0 .. T /\ (j + 1) - 1 = j BY <1>3
  <2>2. walk[j + 1] = IF walk[j].on THEN NextTable(d, walk[j], first, n - first) ELSE walk[j]
    BY <1>12, <2>1
  <2>3. CASE ~ (j < m - k)
    <3>1. ~ (j + 1 < m - k) BY <1>2, <2>3
    <3>2. walk[j].found = Kept(q, m) /\ ~ walk[j].on BY <1>15, <2>3
    <3> QED BY <2>1, <2>2, <3>1, <3>2
  <2>4. CASE j < m - k
    <3>1. PICK i \in k + 1 .. m : i = k + 1 + j BY <1>2, <2>4
    <3>2. walk[j] = Place(q, r, n, i, share(i)) BY <1>15, <2>4, <3>1
    <3>3. walk[j].on BY <3>2 DEF Place
    <3>4. PICK count \in Nat : count = share(i) /\ Gap(r) + q[i].count <= count BY <1>13
    <3>5. i \in k + 1 .. Len(q) BY <1>2
    <3>6. Sector(d, TableAt(r, n, i)) = Table(ChainTable(r, n, i)) BY <3>5
    <3>7. LET v == NextTable(d, Place(q, r, n, i, count), first, n - first)
          IN  IF i = Len(q) THEN v.found = Kept(q, i) /\ ~ v.on
              ELSE v = Place(q, r, n, i + 1, q[i + 1].count + Gap(r))
      BY <3>4, <3>5, <3>6, TurnFinds
    <3>8. walk[j + 1] = NextTable(d, Place(q, r, n, i, count), first, n - first)
      BY <2>2, <3>2, <3>3, <3>4
    <3>9. CASE i = m
      <4>1. ~ (j + 1 < m - k) BY <1>2, <3>1, <3>9
      <4>2. walk[j + 1].found = Kept(q, m) /\ ~ walk[j + 1].on BY <1>2, <3>7, <3>8, <3>9
      <4> QED BY <2>1, <4>1, <4>2
    <3>10. CASE i # m
      <4>1. j + 1 < m - k /\ i + 1 = k + 1 + (j + 1) /\ i < m BY <1>2, <3>1, <3>10
      <4>2. walk[j + 1] = Place(q, r, n, i + 1, q[i + 1].count + Gap(r))
        BY <1>2, <3>7, <3>8, <3>10
      <4>3. share(i + 1) = q[i + 1].count + Gap(r) BY <1>13, <4>1
      <4>4. walk[j + 1] = Place(q, r, n, k + 1 + (j + 1), share(k + 1 + (j + 1)))
        BY <4>1, <4>2, <4>3
      <4> QED BY <2>1, <4>1, <4>4
    <3> QED BY <3>9, <3>10
  <2> QED BY <2>3, <2>4
<1> HIDE DEF X
<1>16. \A j \in 0 .. T : j \in X BY <1>3, <1>14, <1>15, BoundedInduction
<1>17. T \in X /\ ~ (T < m - k) BY <1>2, <1>3, <1>16
<1>18. walk[T].found = Kept(q, m) BY <1>17 DEF X
<1>19. ParseExtended(d, p, Kept(q, k)) = walk[T].found BY <1>10 DEF Walked, T
<1> QED BY <1>2, <1>18, <1>19 DEF p

\* The tables of a request are on a disk.
TablesOn(d, r, n) ==
  \A i \in 1 .. Len(Tables(r, n)) : Sector(d, Tables(r, n)[i].at) = Tables(r, n)[i].what

\* Where they are, the search finds the partitions asked for that have a sector.
LEMMA RequestIsFound ==
  ASSUME NEW r, NEW n \in Nat, Small(r, n), NEW d, AllReadable(d), TablesOn(d, r, n)
  PROVE  Search(d) = Select(Request(r, n), NotEmpty(Request(r, n)))
<1>1. PICK q : q = Request(r, n) OBVIOUS
<1>2. PICK k : k = Primaries(r, n) OBVIOUS
<1>3. Chained(q, r, n, k) BY <1>1, <1>2, RequestIsChained
<1>4. PICK m \in Nat : m = Len(q) /\ m <= MaxParts /\ k \in 0 .. m /\ k \in Nat /\ m > 0
  BY <1>3, BoundsAssumption DEF Chained
<1>5. q \in Seq(Parts) BY <1>3 DEF Chained
<1>6. /\ Sector(d, 0) = Table(MainTable(r, n))
      /\ \A i \in k + 1 .. m : Sector(d, TableAt(r, n, i)) = Table(ChainTable(r, n, i))
  <2> DEFINE t == Tables(r, n)
  <2>1. /\ t \in Seq([at : Nat, what : TableSectors]) /\ Len(t) = 1 + m - k
        /\ t[1] = [at |-> 0, what |-> Table(MainTable(r, n))]
        /\ \A i \in k + 1 .. m :
             t[1 + i - k] = [at |-> TableAt(r, n, i), what |-> Table(ChainTable(r, n, i))]
    BY <1>1, <1>2, <1>4, TablesAre
  <2>2. \A i \in 1 .. Len(t) : Sector(d, t[i].at) = t[i].what BY DEF TablesOn
  <2> HIDE DEF t
  <2>3. 1 \in 1 .. Len(t) BY <1>4, <2>1
  <2>4. Sector(d, 0) = Table(MainTable(r, n)) BY <2>1, <2>2, <2>3
  <2>5. ASSUME NEW i \in k + 1 .. m
        PROVE  Sector(d, TableAt(r, n, i)) = Table(ChainTable(r, n, i))
    <3>1. 1 + i - k \in 1 .. Len(t) BY <1>4, <2>1
    <3>2. t[1 + i - k] = [at |-> TableAt(r, n, i), what |-> Table(ChainTable(r, n, i))] BY <2>1
    <3>3. t[1 + i - k].at = TableAt(r, n, i) /\ t[1 + i - k].what = Table(ChainTable(r, n, i))
      BY <3>2
    <3>4. Sector(d, t[1 + i - k].at) = t[1 + i - k].what BY <2>2, <3>1
    <3> QED BY <3>3, <3>4
  <2> QED BY <2>4, <2>5
<1> DEFINE parts == MainTable(r, n)
           first == TableAt(r, n, k + 1)
           e == Part("extended", first, n - first)
           primary == {i \in 1 .. 4 : ~ IsExtended(parts[i]) /\ parts[i].count # 0}
<1>7. parts = [i \in 1 .. 4 |-> IF i <= k THEN q[i] ELSE IF i = k + 1 /\ k < m THEN e ELSE NoPart]
  BY <1>1, <1>2, <1>4 DEF MainTable
<1>8. ReadParts(Sector(d, 0)) = parts /\ Signed(Sector(d, 0)) /\ Sector(d, 0).kind # "boot"
  BY <1>6 DEF ReadParts, Signed, Table
<1>9. parts \in Seq(Parts) /\ Len(parts) = 4
  <2>1. parts \in Seq(Parts) BY <1>8, ReadPartsType
  <2>2. DOMAIN parts = 1 .. 4 BY <1>7
  <2>3. Len(parts) \in Nat /\ DOMAIN parts = 1 .. Len(parts) BY <2>1, LenProperties
  <2> QED BY <2>1, <2>2, <2>3
<1>10. e.id = "extended" /\ NoPart.id = "none" /\ NoPart.count = 0
  BY DEF Part, NoPart
<1> HIDE DEF parts, e
<1>11. k <= 4 /\ (k < m => k + 1 \in 1 .. 4) BY <1>4, BoundsAssumption
<1>12. \A i \in 1 .. k : parts[i] = q[i] /\ q[i].id = "fat" /\ i \in 1 .. 4 /\ i \in 1 .. Len(q)
  <2>1. \A i \in 1 .. k : i \in 1 .. 4 /\ i \in 1 .. Len(q) BY <1>4, <1>11
  <2>2. \A i \in 1 .. k : parts[i] = q[i] BY <1>7, <2>1
  <2> QED BY <1>3, <2>1, <2>2 DEF Chained
<1>13. Kept(q, k) = Select(parts, primary)
  <2>1. \A i \in 1 .. 4 : i \in primary <=> i <= k /\ q[i].count # 0
    <3> SUFFICES ASSUME NEW i \in 1 .. 4 PROVE i \in primary <=> i <= k /\ q[i].count # 0
      OBVIOUS
    <3>1. CASE i <= k
      <4>1. i \in 1 .. k BY <1>4, <3>1
      <4> QED BY <1>12, <3>1, <4>1 DEF IsExtended
    <3>2. CASE ~ (i <= k)
      <4>1. parts[i] = e \/ parts[i] = NoPart BY <1>7, <3>2
      <4> QED BY <1>10, <3>2, <4>1 DEF IsExtended
    <3> QED BY <3>1, <3>2
  <2> DEFINE P == {i \in NotEmpty(q) : i <= k}
  <2>2. P = {i \in 1 .. m : i <= k /\ q[i].count # 0}
    <3>1. DOMAIN q = 1 .. m BY <1>4, <1>5, LenProperties
    <3> QED BY <3>1 DEF NotEmpty
  <2>3. primary \subseteq 1 .. 4 OBVIOUS
  <2> HIDE DEF P, primary
  <2>4. SamePlaces(q, P, parts, primary, k)
    <3>1. k \in Nat /\ k <= Len(q) /\ k <= Len(parts) BY <1>4, <1>9, <1>11
    <3>2. \A i \in 1 .. k : (i \in P <=> i \in primary) /\ (i \in P => q[i] = parts[i])
      BY <1>4, <1>12, <2>1, <2>2
    <3>3. \A i \in k + 1 .. Len(q) : i \notin P BY <1>4, <2>2
    <3>4. \A i \in k + 1 .. Len(parts) : i \notin primary BY <1>4, <1>9, <2>1
    <3> QED BY <3>1, <3>2, <3>3, <3>4 DEF SamePlaces
  <2>5. Select(q, P) = Select(parts, primary) BY <1>5, <1>9, <2>4, SelectSame
  <2> QED BY <2>5 DEF P, Kept
<1>14. PICK found : Searched(found, d) BY SearchSearches
<1>15. /\ found[0] = Capped(Kept(q, k))
       /\ \A i \in 1 .. 4 : found[i] = IF IsExtended(parts[i]) /\ Len(found[i - 1]) < MaxParts
                                     THEN ParseExtended(d, parts[i], found[i - 1])
                                     ELSE found[i - 1]
       /\ Search(d) = found[4]
  BY <1>8, <1>13, <1>14 DEF Searched
<1>16. /\ \A j \in 0 .. m : Kept(q, j) \in Seq(Parts) /\ Len(Kept(q, j)) <= j
       /\ Kept(q, m) = Select(q, NotEmpty(q))
  BY <1>4, <1>5, KeptGrows
<1>17. found[0] = Kept(q, k)
  <2>1. Kept(q, k) \in Seq(Parts) /\ Len(Kept(q, k)) <= k BY <1>4, <1>16
  <2>2. Len(Kept(q, k)) \in Nat BY <2>1, LenProperties
  <2>3. Len(Kept(q, k)) <= MaxParts BY <1>4, <2>1, <2>2, BoundsAssumption
  <2> QED BY <1>15, <2>1, <2>3, CappedIs
<1>18. \A i \in 1 .. 4 : IsExtended(parts[i]) <=> i = k + 1 /\ k < m
  <2> SUFFICES ASSUME NEW i \in 1 .. 4
               PROVE  IsExtended(parts[i]) <=> i = k + 1 /\ k < m
    OBVIOUS
  <2>1. CASE i <= k
    <3>1. i \in 1 .. k /\ i # k + 1 BY <1>4, <2>1
    <3> QED BY <1>12, <3>1 DEF IsExtended
  <2>2. CASE i = k + 1 /\ k < m
    <3>1. ~ (i <= k) BY <1>4, <2>2
    <3> QED BY <1>7, <1>10, <2>2, <3>1 DEF IsExtended
  <2>3. CASE ~ (i <= k) /\ ~ (i = k + 1 /\ k < m)
    BY <1>7, <1>10, <2>3 DEF IsExtended
  <2> QED BY <2>1, <2>2, <2>3
<1>19. CASE ~ (k < m)
  <2>1. k = m BY <1>4, <1>19
  <2>2. \A i \in 1 .. 4 : found[i] = found[i - 1] BY <1>15, <1>18, <1>19
  <2>3. found[1] = found[0] /\ found[2] = found[1] /\ found[3] = found[2] /\ found[4] = found[3]
    BY <2>2
  <2> QED BY <1>1, <1>15, <1>16, <1>17, <2>1, <2>3
<1>20. CASE k < m
  <2>1. parts[k + 1] = e
    <3>1. k + 1 \in 1 .. 4 /\ ~ (k + 1 <= k) BY <1>4, <1>11, <1>20
    <3> QED BY <1>7, <1>20, <3>1
  <2>2. Len(Kept(q, k)) < MaxParts
    <3>1. Kept(q, k) \in Seq(Parts) /\ Len(Kept(q, k)) <= k BY <1>4, <1>16
    <3>2. Len(Kept(q, k)) \in Nat BY <3>1, LenProperties
    <3> QED BY <1>4, <1>20, <3>1, <3>2, BoundsAssumption
  <2>3. ParseExtended(d, e, Kept(q, k)) = Kept(q, m)
    <3>1. \A i \in k + 1 .. Len(q) :
            Sector(d, TableAt(r, n, i)) = Table(ChainTable(r, n, i))
      BY <1>4, <1>6
    <3>2. k < Len(q) BY <1>4, <1>20
    <3>3. PICK f : f = TableAt(r, n, k + 1) OBVIOUS
    <3>4. ParseExtended(d, Part("extended", f, n - f), Kept(q, k)) = Kept(q, Len(q))
      BY <1>3, <3>1, <3>2, <3>3, ChainIsFound
    <3> QED BY <1>4, <3>3, <3>4 DEF e
  <2>4. \A i \in 1 .. 4 : i # k + 1 => found[i] = found[i - 1] BY <1>15, <1>18
  <2>5. found[k] = Kept(q, k) => found[k + 1] = Kept(q, m)
    <3>1. k + 1 \in 1 .. 4 /\ (k + 1) - 1 = k BY <1>4, <1>11, <1>20
    <3> QED BY <1>15, <1>18, <1>20, <2>1, <2>2, <2>3, <3>1
  <2>6. k \in {0, 1, 2, 3} BY <1>4, <1>11, <1>20
  <2>7. found[4] = Kept(q, m)
    <3>1. CASE k = 0 BY <1>17, <2>4, <2>5, <3>1
    <3>2. CASE k = 1 BY <1>17, <2>4, <2>5, <3>2
    <3>3. CASE k = 2 BY <1>17, <2>4, <2>5, <3>3
    <3>4. CASE k = 3 BY <1>17, <2>4, <2>5, <3>4
    <3> QED BY <2>6, <3>1, <3>2, <3>3, <3>4
  <2> QED BY <1>1, <1>15, <1>16, <2>7
<1> QED BY <1>19, <1>20

\* No table lies in a partition, and no two in the same sector.
LEMMA TablesAreOutside ==
  ASSUME NEW r, NEW n, Small(r, n), NEW x \in 1 .. Len(Tables(r, n))
  PROVE  /\ \A i \in 1 .. Len(Request(r, n)) :
              \/ Tables(r, n)[x].at < Request(r, n)[i].start
              \/ Request(r, n)[i].start + Request(r, n)[i].count <= Tables(r, n)[x].at
         /\ \A y \in 1 .. Len(Tables(r, n)) : y # x => Tables(r, n)[y].at # Tables(r, n)[x].at
<1>1. PICK q : q = Request(r, n) OBVIOUS
<1>2. PICK k : k = Primaries(r, n) OBVIOUS
<1>3. Chained(q, r, n, k) BY <1>1, <1>2, RequestIsChained
<1>4. PICK m \in Nat : m = Len(q) /\ k \in 0 .. m /\ k \in Nat /\ q \in Seq(Parts)
  BY <1>3, BoundsAssumption DEF Chained
<1>5. PICK t : t = Tables(r, n) OBVIOUS
<1>6. /\ Len(t) = 1 + m - k /\ t[1].at = 0
      /\ \A i \in k + 1 .. m : t[1 + i - k].at = TableAt(r, n, i)
  <2>1. /\ Len(t) = 1 + m - k /\ t[1] = [at |-> 0, what |-> Table(MainTable(r, n))]
        /\ \A i \in k + 1 .. m :
             t[1 + i - k] = [at |-> TableAt(r, n, i), what |-> Table(ChainTable(r, n, i))]
    BY <1>1, <1>2, <1>4, <1>5, TablesAre
  <2>2. ASSUME NEW i \in k + 1 .. m PROVE t[1 + i - k].at = TableAt(r, n, i)
    <3>1. t[1 + i - k] = [at |-> TableAt(r, n, i), what |-> Table(ChainTable(r, n, i))] BY <2>1
    <3> QED BY <3>1
  <2>3. t[1].at = 0 BY <2>1
  <2> QED BY <2>1, <2>2, <2>3
<1>7. \A y \in 1 .. Len(t) : \/ y = 1 /\ t[y].at = 0
                           \/ \E i \in k + 1 .. m : y = 1 + i - k /\ t[y].at = TableAt(r, n, i)
  <2> SUFFICES ASSUME NEW y \in 1 .. Len(t), y # 1
               PROVE  \E i \in k + 1 .. m : y = 1 + i - k /\ t[y].at = TableAt(r, n, i)
    BY <1>6
  <2>1. PICK i \in k + 1 .. m : i = y - 1 + k BY <1>4, <1>6
  <2>2. y = 1 + i - k BY <1>4, <2>1
  <2> QED BY <1>6, <2>2
<1>8. \A i \in 1 .. m : q[i].start \in Nat \ {0} /\ q[i].count \in Nat
  <2>1. \A i \in 1 .. m : q[i] \in Parts BY <1>4, ElementOfSeq
  <2>2. \A i \in 1 .. m : q[i].start > 0 BY <1>3, <1>4 DEF Chained
  <2> QED BY <2>1, <2>2 DEF Parts
<1>9. \A i \in k + 1 .. m : TableAt(r, n, i) \in Nat \ {0} /\ TableAt(r, n, i) < q[i].start
  <2> SUFFICES ASSUME NEW i \in k + 1 .. m
               PROVE  TableAt(r, n, i) \in Nat \ {0} /\ TableAt(r, n, i) < q[i].start
    OBVIOUS
  <2>1. TableAt(r, n, i) \in Nat \ {0} /\ q[i].start = TableAt(r, n, i) + Gap(r)
    BY <1>3, <1>4 DEF Chained
  <2>2. Gap(r) \in Nat \ {0} BY <1>3 DEF Chained
  <2> QED BY <2>1, <2>2
<1>10. \A i \in k + 1 .. m, j \in k + 1 .. m :
         i < j => q[i].start + q[i].count <= TableAt(r, n, j)
  <2> SUFFICES ASSUME NEW i \in k + 1 .. m, NEW j \in k + 1 .. m, i < j
               PROVE  q[i].start + q[i].count <= TableAt(r, n, j)
    OBVIOUS
  <2>1. i \in k + 1 .. Len(q) /\ j \in i + 1 .. Len(q) BY <1>4
  <2> QED BY <1>3, <2>1, TablesGrow
<1>11. \A i \in 1 .. k, j \in k + 1 .. m : q[i].start + q[i].count <= TableAt(r, n, j)
  <2> SUFFICES ASSUME NEW i \in 1 .. k, NEW j \in k + 1 .. m
               PROVE  q[i].start + q[i].count <= TableAt(r, n, j)
    OBVIOUS
  <2>1. k < m /\ k + 1 \in k + 1 .. Len(q) /\ j \in k + 1 .. Len(q) /\ i \in 1 .. m
        /\ k + 1 \in k + 1 .. m
    BY <1>4
  <2>2. q[i].start + q[i].count <= TableAt(r, n, k + 1) BY <1>3, <1>4, <2>1 DEF Chained
  <2>3. TableAt(r, n, k + 1) <= TableAt(r, n, j)
    <3>1. PICK b \in k + 1 .. Len(q) : b = k + 1 BY <2>1
    <3>2. j \in b .. Len(q) BY <1>4, <3>1
    <3>3. TableAt(r, n, b) <= TableAt(r, n, j) BY <1>3, <3>2, TablesGrow
    <3> QED BY <3>1, <3>3
  <2>4. PICK a \in Nat : a = TableAt(r, n, k + 1) BY <1>9, <2>1
  <2>5. PICK b \in Nat : b = TableAt(r, n, j) BY <1>9
  <2>6. PICK c \in Nat : c = q[i].start + q[i].count BY <1>8, <2>1
  <2> QED BY <2>2, <2>3, <2>4, <2>5, <2>6
<1>12. ASSUME NEW i \in 1 .. m
       PROVE  t[x].at < q[i].start \/ q[i].start + q[i].count <= t[x].at
  <2>1. CASE t[x].at = 0 BY <1>8, <2>1
  <2>2. ASSUME NEW j \in k + 1 .. m, t[x].at = TableAt(r, n, j)
        PROVE  t[x].at < q[i].start \/ q[i].start + q[i].count <= t[x].at
    <3>1. CASE i <= k
      <4>1. i \in 1 .. k BY <1>4, <3>1
      <4> QED BY <1>11, <2>2, <4>1
    <3>2. CASE i > k /\ i < j
      <4>1. i \in k + 1 .. m BY <1>4, <3>2
      <4> QED BY <1>10, <2>2, <3>2, <4>1
    <3>3. CASE i > k /\ i >= j
      <4>1. i \in k + 1 .. m /\ j \in k + 1 .. Len(q) /\ i \in j .. Len(q) BY <1>4, <3>3
      <4>2. TableAt(r, n, j) <= TableAt(r, n, i) BY <1>3, <4>1, TablesGrow
      <4>3. TableAt(r, n, i) < q[i].start /\ TableAt(r, n, i) \in Nat BY <1>9, <4>1
      <4>4. TableAt(r, n, j) \in Nat /\ q[i].start \in Nat BY <1>8, <1>9
      <4>5. TableAt(r, n, j) < q[i].start BY <4>2, <4>3, <4>4
      <4> QED BY <2>2, <4>5
    <3> QED BY <1>4, <3>1, <3>2, <3>3
  <2> QED BY <1>5, <1>7, <2>1, <2>2
<1>13. \A i \in k + 1 .. m, j \in k + 1 .. m : i < j => TableAt(r, n, i) < TableAt(r, n, j)
  <2> SUFFICES ASSUME NEW i \in k + 1 .. m, NEW j \in k + 1 .. m, i < j
               PROVE  TableAt(r, n, i) < TableAt(r, n, j)
    OBVIOUS
  <2>1. i \in 1 .. m BY <1>4
  <2>2. PICK a \in Nat : a = TableAt(r, n, i) BY <1>9
  <2>3. PICK b \in Nat : b = TableAt(r, n, j) BY <1>9
  <2>4. PICK c \in Nat : c = q[i].start BY <1>8, <2>1
  <2>5. PICK e \in Nat : e = q[i].count BY <1>8, <2>1
  <2>6. c + e <= b /\ a < c BY <1>9, <1>10, <2>2, <2>3, <2>4, <2>5
  <2> QED BY <2>2, <2>3, <2>6
<1>14. ASSUME NEW y \in 1 .. Len(t), y # x PROVE t[y].at # t[x].at
  <2>1. CASE y = 1 \/ x = 1
    <3>1. \A z \in 1 .. Len(t) : z # 1 => t[z].at # 0 BY <1>7, <1>9
    <3> QED BY <1>5, <1>6, <1>14, <2>1, <3>1
  <2>2. CASE y # 1 /\ x # 1
    <3>1. PICK i \in k + 1 .. m : y = 1 + i - k /\ t[y].at = TableAt(r, n, i) BY <1>7, <2>2
    <3>2. PICK j \in k + 1 .. m : x = 1 + j - k /\ t[x].at = TableAt(r, n, j)
      BY <1>5, <1>7, <2>2
    <3>3. i < j \/ j < i BY <1>4, <1>14, <3>1, <3>2
    <3>4. TableAt(r, n, i) \in Nat /\ TableAt(r, n, j) \in Nat BY <1>9
    <3> QED BY <1>13, <3>1, <3>2, <3>3, <3>4
  <2> QED BY <2>1, <2>2
<1> QED BY <1>1, <1>4, <1>5, <1>12, <1>14

\* What is kept of partitions that do not overlap does not overlap either; it is those with
\* a sector.
LEMMA KeptIsApart ==
  ASSUME NEW q \in Seq(Parts), NEW n, Apart(q, n), NEW j \in 0 .. Len(q)
  PROVE  /\ Apart(Kept(q, j), n)
         /\ \A x \in 1 .. Len(Kept(q, j)) : \E i \in 1 .. j : Kept(q, j)[x] = q[i] /\ q[i].count # 0
         /\ \A i \in 1 .. j : q[i].count # 0 => \E x \in 1 .. Len(Kept(q, j)) : Kept(q, j)[x] = q[i]
<1>0. Len(q) \in Nat /\ DOMAIN q = 1 .. Len(q) BY LenProperties
<1> DEFINE Good(s, b) ==
             /\ Apart(s, n)
             /\ \A x \in 1 .. Len(s) : \E i \in 1 .. b : s[x] = q[i] /\ q[i].count # 0
             /\ \A i \in 1 .. b : q[i].count # 0 => \E x \in 1 .. Len(s) : s[x] = q[i]
           X == {b \in 0 .. Len(q) : Good(Kept(q, b), b)}
<1>1. 0 \in X
  <2>1. Kept(q, 0) = <<>> BY KeptGrows
  <2>2. Apart(<<>>, n) BY NothingIsApart
  <2>3. Len(<<>>) = 0 OBVIOUS
  <2> QED BY <1>0, <2>1, <2>2, <2>3
<1>2. ASSUME NEW b \in 0 .. Len(q) - 1, b \in X PROVE b + 1 \in X
  <2>0. b + 1 \in 1 .. Len(q) /\ (b + 1) - 1 = b /\ b \in 0 .. Len(q) /\ b + 1 \in 0 .. Len(q)
    BY <1>0
  <2>1. PICK s \in Seq(Parts) : s = Kept(q, b) BY <2>0, KeptGrows
  <2>2. Good(s, b) BY <1>2, <2>1
  <2>3. PICK c \in 1 .. Len(q) : c = b + 1 BY <2>0
  <2>4. PICK t \in Seq(Parts) : t = Kept(q, c) BY <2>0, <2>3, KeptGrows
  <2>5. t = IF q[c].count # 0 THEN Append(s, q[c]) ELSE s
    BY ZenonT(60), <2>0, <2>1, <2>3, <2>4, KeptGrows
  <2>6. \A i \in 1 .. c : i \in 1 .. b \/ i = c BY <2>0, <2>3
  <2>7. \A i \in 1 .. b : i \in 1 .. c BY <2>0, <2>3
  <2>8. CASE q[c].count = 0
    <3>1. t = s BY <2>5, <2>8
    <3>2. Good(t, c) BY <2>2, <2>6, <2>7, <2>8, <3>1
    <3> QED BY <2>0, <2>3, <2>4, <3>2
  <2>9. CASE q[c].count # 0
    <3>1. q[c] \in Parts BY ElementOfSeq
    <3>2. PICK m \in Nat : m = Len(s) BY LenProperties
    <3>3. /\ Len(t) = m + 1 /\ t[m + 1] = q[c] /\ \A x \in 1 .. m : t[x] = s[x]
      BY <2>5, <2>9, <3>1, <3>2, AppendProperties
    <3>4. \A x \in 1 .. m + 1 : x \in 1 .. m \/ x = m + 1 BY <3>2
    <3>5. DOMAIN t = 1 .. m + 1 /\ DOMAIN s = 1 .. m BY <3>2, <3>3, LenProperties
    <3>6. \A x \in 1 .. Len(t) : \E i \in 1 .. c : t[x] = q[i] /\ q[i].count # 0
      <4> SUFFICES ASSUME NEW x \in 1 .. m + 1 PROVE \E i \in 1 .. c : t[x] = q[i] /\ q[i].count # 0
        BY <3>3
      <4>1. CASE x = m + 1
        <5>1. c \in 1 .. c BY <2>0, <2>3
        <5> QED BY <2>9, <3>3, <4>1, <5>1
      <4>2. CASE x \in 1 .. m
        <5>1. PICK i \in 1 .. b : s[x] = q[i] /\ q[i].count # 0 BY <2>2, <3>2, <4>2
        <5> QED BY <2>7, <3>3, <4>2, <5>1
      <4> QED BY <3>4, <4>1, <4>2
    <3>7. \A i \in 1 .. c : q[i].count # 0 => \E x \in 1 .. Len(t) : t[x] = q[i]
      <4> SUFFICES ASSUME NEW i \in 1 .. c, q[i].count # 0
                   PROVE  \E x \in 1 .. m + 1 : t[x] = q[i]
        BY <3>3
      <4>1. CASE i = c
        <5>1. m + 1 \in 1 .. m + 1 BY <3>2
        <5> QED BY <3>3, <4>1, <5>1
      <4>2. CASE i \in 1 .. b
        <5>1. PICK x \in 1 .. m : s[x] = q[i] BY <2>2, <3>2, <4>2
        <5>2. x \in 1 .. m + 1 BY <3>2
        <5> QED BY <3>3, <5>1, <5>2
      <4> QED BY <2>6, <4>1, <4>2
    <3>8. Apart(t, n)
      <4>0. DOMAIN q = 1 .. Len(q) BY <1>0
      <4>1. \A i \in 1 .. Len(q) : q[i].start + q[i].count <= n BY <4>0 DEF Apart
      <4>2. ASSUME NEW x \in 1 .. m + 1 PROVE t[x].start + t[x].count <= n
        <5>1. PICK i \in 1 .. c : t[x] = q[i] BY <3>3, <3>6
        <5>2. i \in 1 .. Len(q) BY <1>0, <2>3
        <5> QED BY <4>1, <5>1, <5>2
      <4>3. ASSUME NEW x \in 1 .. m
            PROVE  \/ t[x].start + t[x].count <= q[c].start
                   \/ q[c].start + q[c].count <= t[x].start
        <5>1. PICK i \in 1 .. b : s[x] = q[i] BY <2>2, <3>2
        <5>2. i \in DOMAIN q /\ c \in DOMAIN q \ {i} BY <1>0, <2>0, <2>3
        <5>3. t[x] = q[i] BY <3>3, <5>1
        <5> QED BY <5>2, <5>3 DEF Apart
      <4>4. ASSUME NEW x \in 1 .. m, NEW y \in (1 .. m) \ {x}
            PROVE  \/ t[x].start + t[x].count <= t[y].start
                   \/ t[y].start + t[y].count <= t[x].start
        <5>1. x \in DOMAIN s /\ y \in DOMAIN s \ {x} BY <3>5
        <5>2. t[x] = s[x] /\ t[y] = s[y] BY <3>3
        <5> QED BY <2>2, <5>1, <5>2 DEF Apart
      <4>5. ASSUME NEW x \in DOMAIN t, NEW y \in DOMAIN t \ {x}
            PROVE  \/ t[x].start + t[x].count <= t[y].start
                   \/ t[y].start + t[y].count <= t[x].start
        <5>1. CASE x = m + 1
          <6>1. y \in 1 .. m BY <3>4, <3>5, <5>1
          <6> QED BY <3>3, <4>3, <5>1, <6>1
        <5>2. CASE y = m + 1
          <6>1. x \in 1 .. m BY <3>4, <3>5, <5>2
          <6> QED BY <3>3, <4>3, <5>2, <6>1
        <5>3. CASE x # m + 1 /\ y # m + 1
          <6>1. x \in 1 .. m /\ y \in (1 .. m) \ {x} BY <3>4, <3>5, <5>3
          <6> QED BY <4>4, <6>1
        <5> QED BY <5>1, <5>2, <5>3
      <4> QED BY <3>5, <4>2, <4>5 DEF Apart
    <3>9. Good(t, c) BY <3>6, <3>7, <3>8
    <3> QED BY <2>0, <2>3, <2>4, <3>9
  <2> QED BY <2>8, <2>9
<1> HIDE DEF X
<1>3. \A b \in 0 .. Len(q) : b \in X BY <1>0, <1>1, <1>2, BoundedInduction
<1>4. Good(Kept(q, j), j) BY <1>3 DEF X
<1> QED BY <1>4

\* Sectors that a write does not cover stay as they are, those that it sets are as it says.
LEMMA AfterElsewhere ==
  ASSUME NEW d, NEW w, GoodWrite(w), NEW k \in Nat, NEW s,
         ~ (s \in w.at .. w.at + k - 1), ~ (s \in w.at + w.copy .. w.at + w.copy + k - 1)
  PROVE  Sector(After(d, w, k), s) = Sector(d, s)
<1> DEFINE e == After(d, w, k)
<1>0. k # 0 => w.at \in w.at .. w.at + k - 1 BY DEF GoodWrite
<1>1. s \in DOMAIN e <=> s \in DOMAIN d BY <1>0 DEF After
<1>2. s \in DOMAIN e => e[s] = d[s] BY DEF After
<1> QED BY <1>1, <1>2 DEF Sector

LEMMA AfterIsSet ==
  ASSUME NEW d, NEW at \in Nat, NEW what, what # Blank
  PROVE  Sector(After(d, Write(at, what), 1), at) = what
<1> DEFINE w == Write(at, what)
           e == After(d, w, 1)
<1>1. w.at = at /\ w.what = what /\ w.copy = 0 BY DEF Write
<1>2. at \in w.at .. w.at + 1 - 1 BY <1>1
<1> HIDE DEF w
<1>3. at \in DOMAIN e BY <1>1 DEF After
<1>4. e[at] = what BY <1>1, <1>2, <1>3 DEF After
<1> QED BY <1>3, <1>4 DEF Sector, w

\* A write of one sector touches no other.
LEMMA AfterOne ==
  ASSUME NEW d, NEW at \in Nat, NEW what \in TableSectors, NEW s \in Nat, s # at
  PROVE  Sector(After(d, Write(at, what), 1), s) = Sector(d, s)
<1> DEFINE w == Write(at, what)
<1>1. w.at = at /\ w.what = what /\ w.copy = 0 /\ w.count = 1 BY DEF Write
<1>2. Readable(what) BY DEF Readable, TableSectors, Parts
<1> HIDE DEF w
<1>3. GoodWrite(w) BY <1>1, <1>2 DEF GoodWrite
<1>4. ~ (s \in w.at .. w.at + 1 - 1) /\ ~ (s \in w.at + w.copy .. w.at + w.copy + 1 - 1) BY <1>1
<1>5. Sector(After(d, w, 1), s) = Sector(d, s) BY <1>3, <1>4, AfterElsewhere
<1> QED BY <1>5 DEF w

\* A write to a partition touches no sector outside of it.
LEMMA OutsideStays ==
  ASSUME NEW d, NEW w, GoodWrite(w), NEW g, g.start \in Nat, g.count \in Nat, Inside(w, g),
         NEW k \in Nat, k <= w.count, NEW s \in Nat,
         s < g.start \/ g.start + g.count <= s
  PROVE  Sector(After(d, w, k), s) = Sector(d, s)
<1>1. w.at \in Nat /\ w.count \in Nat /\ w.copy \in Nat BY DEF GoodWrite
<1>2. /\ g.start <= w.at /\ w.at + w.count - 1 <= g.start + g.count - 1
      /\ g.start <= w.at + w.copy /\ w.at + w.copy + w.count - 1 <= g.start + g.count - 1
  BY DEF Inside, Ranges, Within
<1>3. ~ (s \in w.at .. w.at + k - 1) /\ ~ (s \in w.at + w.copy .. w.at + w.copy + k - 1)
  BY <1>1, <1>2
<1> QED BY <1>3, AfterElsewhere

-----------------------------------------------------------------------------
(* FF_Partition at work, and afterwards. *)

\* The members of s after the first i.
Rest(s, i) == [x \in 1 .. Len(s) - i |-> s[i + x]]

\* The writes of FF_Partition.
TableWrites(r, n) ==
  [x \in DOMAIN Tables(r, n) |-> Write(Tables(r, n)[x].at, Tables(r, n)[x].what)]

\* FF_Partition has been through the first i tables, which are on the disk if no flush failed.
At(r, i, lost) ==
  /\ job = [fn |-> "partition", plan |-> Request(r, size), lost |-> lost,
            todo |-> Rest(TableWrites(r, size), i)]
  /\ lost \/ \A x \in 1 .. i : Sector(disk, Tables(r, size)[x].at) = Tables(r, size)[x].what

TablesGoOn ==
  job.fn = "partition" =>
    /\ asked = <<>>
    /\ \E r \in Requests, lost \in BOOLEAN : \E i \in 0 .. Len(Tables(r, size)) : At(r, i, lost)

\* The tables of what was asked for are on the disk.
AskedIsThere ==
  asked # <<>> => \E r \in Requests : asked = Request(r, size) /\ TablesOn(disk, r, size)

\* What FF_Format is at work on is one of the partitions asked for.
IsAsked(g) ==
  \E i \in 1 .. Len(asked) :
    asked[i].start = g.start /\ asked[i].count = g.count /\ asked[i].count # 0

FormatIsOfAsked == job.fn = "format" /\ asked # <<>> => IsAsked(job.plan)

TInv == TablesGoOn /\ AskedIsThere /\ FormatIsOfAsked

LEMMA RequestsAreSmall ==
  ASSUME SizeIsKnown, NEW r \in Requests
  PROVE  Small(r, size) /\ size \in Nat
<1>1. PICK v \in Starts : size = v.size BY DEF SizeIsKnown
<1>2. LBA \subseteq Nat BY DEF LBA
<1>3. Possible(r, size)
  <2>1. r.sizes \in Seq(Nat) BY <1>2, VolumeAssumption, SeqMonotonic
  <2> QED BY <1>1, <1>2, <2>1, VolumeAssumption DEF Possible
<1>4. Len(r.sizes) \in 0 .. MaxParts BY VolumeAssumption
<1>5. Len(Wanted(r, size)) <= MaxParts
  <2>1. size \in Nat /\ size > 0 BY <1>3, RequestIsOnDisk DEF Possible
  <2>2. Len(Wanted(r, size)) \in 1 .. Len(Shares(r, size))
    BY <1>3, <2>1, SharesType DEF Possible
  <2>3. Len(<<size>>) = 1 /\ Len(<<100>>) = 1 OBVIOUS
  <2>4. MaxParts \in Nat /\ 1 <= MaxParts BY BoundsAssumption
  <2>5. Len(Shares(r, size)) \in Nat /\ Len(Shares(r, size)) <= MaxParts
    BY <1>4, <2>3, <2>4 DEF Shares
  <2> QED BY <2>2, <2>4, <2>5
<1> QED BY <1>3, <1>5 DEF Small, Possible

\* What is asked for is found, as long as its tables are there.
LEMMA AskedIsFound ==
  ASSUME IInv, AskedIsThere, asked # <<>>
  PROVE  /\ Search(disk) = Kept(asked, Len(asked)) /\ Search(disk) = Select(asked, NotEmpty(asked))
         /\ asked \in Seq(Parts) /\ Apart(asked, size)
<1>1. PICK r \in Requests : asked = Request(r, size) /\ TablesOn(disk, r, size) BY DEF AskedIsThere
<1>2. Small(r, size) /\ size \in Nat BY RequestsAreSmall DEF IInv
<1>3. AllReadable(disk) BY DEF IInv
<1>4. Search(disk) = Select(asked, NotEmpty(asked)) BY <1>1, <1>2, <1>3, RequestIsFound
<1>5. asked \in Seq(Parts) BY <1>1, <1>2, RequestIsChained DEF Chained
<1>6. Kept(asked, Len(asked)) = Select(asked, NotEmpty(asked)) BY <1>5, KeptGrows
<1>7. Apart(asked, size) BY <1>1, <1>2, RequestIsApart DEF Small
<1> QED BY <1>4, <1>5, <1>6, <1>7

\* A function goes on to its next write.
LEMMA RestLess ==
  ASSUME NEW S, NEW t \in Seq(S), NEW i \in 0 .. Len(t)
  PROVE  /\ Rest(t, i) # <<>> => /\ i + 1 \in 1 .. Len(t) /\ Head(Rest(t, i)) = t[i + 1]
                                 /\ Tail(Rest(t, i)) = Rest(t, i + 1)
         /\ Rest(t, i) = <<>> => i = Len(t)
         /\ Rest(t, 0) = t
<1>1. PICK m \in Nat : m = Len(t) /\ DOMAIN t = 1 .. m BY LenProperties
<1>2. i \in 0 .. m BY <1>1
<1>3. Rest(t, i) = [x \in 1 .. m - i |-> t[i + x]] BY <1>1 DEF Rest
<1>4. Rest(t, i + 1) = [x \in 1 .. m - (i + 1) |-> t[(i + 1) + x]] BY <1>1 DEF Rest
<1>5. Rest(t, 0) = t
  <2>1. Rest(t, 0) = [x \in 1 .. m - 0 |-> t[0 + x]] BY <1>1 DEF Rest
  <2>2. m - 0 = m /\ \A x \in 1 .. m : 0 + x = x BY <1>1
  <2>3. Rest(t, 0) = [x \in 1 .. m |-> t[x]] BY <2>1, <2>2
  <2> QED BY <1>1, <2>3
<1>8. CASE i = m
  <2>1. 1 .. m - i = {} BY <1>2, <1>8
  <2>2. Rest(t, i) = <<>> BY <1>3, <2>1
  <2> QED BY <1>1, <1>5, <1>8, <2>2
<1>9. CASE i < m
  <2>1. PICK z \in Nat : z = m - i
    <3>1. m - i \in Nat BY <1>2, <1>9
    <3> QED BY <3>1
  <2>2. z > 0 /\ m - (i + 1) = z - 1 BY <1>2, <1>9, <2>1
  <2>3. PICK s : s = Rest(t, i) OBVIOUS
  <2>4. s = [x \in 1 .. z |-> t[i + x]] BY <1>3, <2>1, <2>3
  <2>5. s \in Seq(S) /\ Len(s) = z
    <3>1. \A x \in 1 .. z : i + x \in 1 .. m BY <1>2, <2>1
    <3>2. \A x \in 1 .. z : t[i + x] \in S BY <1>1, <3>1, ElementOfSeq
    <3>3. s \in [1 .. z -> S] BY <2>4, <3>2
    <3>5. s \in Seq(S) BY <3>3, SeqDef
    <3>6. DOMAIN s = 1 .. z BY <3>3
    <3>7. DOMAIN s = 1 .. Len(s) /\ Len(s) \in Nat BY <3>5, LenProperties
    <3> QED BY <3>5, <3>6, <3>7
  <2>6. s # <<>> BY <2>2, <2>5
  <2>7. Head(s) = t[i + 1]
    <3>1. Head(s) = s[1] BY <2>5, <2>6, HeadTailProperties
    <3>2. 1 \in 1 .. z BY <2>2
    <3> QED BY <2>4, <3>1, <3>2
  <2>8. Tail(s) = Rest(t, i + 1)
    <3>1. PICK u : u = Tail(s) OBVIOUS
    <3>2. u \in Seq(S) /\ Len(u) = z - 1 /\ \A x \in 1 .. Len(u) : u[x] = s[x + 1]
      BY <2>5, <2>6, <3>1, HeadTailProperties
    <3>3. u = [x \in 1 .. Len(u) |-> u[x]] BY <3>2
    <3>4. \A x \in 1 .. z - 1 : x + 1 \in 1 .. z /\ i + (x + 1) = (i + 1) + x BY <1>2
    <3>5. \A x \in 1 .. z - 1 : u[x] = t[(i + 1) + x]
      <4>1. \A x \in 1 .. z - 1 : s[x + 1] = t[i + (x + 1)] BY <2>4, <3>4
      <4> QED BY <3>2, <3>4, <4>1
    <3> QED BY <1>4, <2>2, <3>1, <3>2, <3>3, <3>5
  <2>9. i + 1 \in 1 .. m BY <1>2, <1>9
  <2> QED BY <1>1, <1>5, <2>3, <2>6, <2>7, <2>8, <2>9
<1> QED BY <1>2, <1>8, <1>9

LEMMA TableWritesAre ==
  ASSUME NEW r, NEW n, Small(r, n)
  PROVE  /\ \E S : TableWrites(r, n) \in Seq(S)
         /\ Len(TableWrites(r, n)) = Len(Tables(r, n))
         /\ \A x \in 1 .. Len(Tables(r, n)) :
              TableWrites(r, n)[x] = Write(Tables(r, n)[x].at, Tables(r, n)[x].what)
<1>1. PICK t : t = Tables(r, n) OBVIOUS
<1>2. t \in Seq([at : Nat, what : TableSectors]) BY <1>1, TablesAre
<1>3. PICK m \in Nat : m = Len(t) /\ DOMAIN t = 1 .. m BY <1>2, LenProperties
<1> DEFINE W(x) == Write(t[x].at, t[x].what)
<1>4. TableWrites(r, n) = [x \in 1 .. m |-> W(x)] BY <1>1, <1>3 DEF TableWrites
<1>5. PICK S : S = {W(x) : x \in 1 .. m} OBVIOUS
<1> HIDE DEF W
<1>6. TableWrites(r, n) \in [1 .. m -> S] BY <1>4, <1>5
<1>7. TableWrites(r, n) \in Seq(S) BY <1>6, SeqDef
<1>8. Len(TableWrites(r, n)) = m
  <2>1. DOMAIN TableWrites(r, n) = 1 .. m BY <1>6
  <2>2. /\ DOMAIN TableWrites(r, n) = 1 .. Len(TableWrites(r, n))
        /\ Len(TableWrites(r, n)) \in Nat
    BY <1>7, LenProperties
  <2> QED BY <2>1, <2>2
<1>9. \A x \in 1 .. m : TableWrites(r, n)[x] = W(x) BY <1>4
<1> QED BY <1>1, <1>3, <1>7, <1>8, <1>9 DEF W

LEMMA StillLess ==
  ASSUME NEW r, NEW n, Small(r, n), NEW i \in 0 .. Len(Tables(r, n)),
         NEW rest, rest = Rest(TableWrites(r, n), i)
  PROVE  /\ rest # <<>> =>
              /\ i + 1 \in 1 .. Len(Tables(r, n))
              /\ Head(rest) = Write(Tables(r, n)[i + 1].at, Tables(r, n)[i + 1].what)
              /\ Tail(rest) = Rest(TableWrites(r, n), i + 1)
         /\ rest = <<>> => i = Len(Tables(r, n))
<1>1. PICK W : W = TableWrites(r, n) OBVIOUS
<1>2. PICK S : W \in Seq(S) BY <1>1, TableWritesAre
<1>3. Len(W) = Len(Tables(r, n)) BY <1>1, TableWritesAre
<1>4. i \in 0 .. Len(W) BY <1>3
<1>5. rest # <<>> => i + 1 \in 1 .. Len(W) /\ Head(rest) = W[i + 1] /\ Tail(rest) = Rest(W, i + 1)
  BY <1>1, <1>2, <1>4, RestLess
<1>6. rest = <<>> => i = Len(W) BY <1>1, <1>2, <1>4, RestLess
<1>7. \A x \in 1 .. Len(Tables(r, n)) :
        W[x] = Write(Tables(r, n)[x].at, Tables(r, n)[x].what)
  BY <1>1, TableWritesAre
<1> QED BY <1>1, <1>3, <1>5, <1>6, <1>7

\* A write of FF_Format to one of the partitions asked for leaves the tables alone.
LEMMA TablesStay ==
  ASSUME IInv, TInv, job.fn = "format", job.todo # <<>>, NEW k \in Nat,
         k <= Head(job.todo).count, disk' = After(disk, Head(job.todo), k),
         size' = size, asked' = asked
  PROVE  AskedIsThere'
<1> SUFFICES ASSUME asked # <<>>
             PROVE  \E r \in Requests : asked = Request(r, size) /\ TablesOn(disk', r, size)
  BY DEF AskedIsThere
<1>1. PICK r \in Requests : asked = Request(r, size) /\ TablesOn(disk, r, size)
  BY DEF TInv, AskedIsThere
<1>2. Small(r, size) /\ size \in Nat BY RequestsAreSmall DEF IInv
<1>3. PICK t : t = Tables(r, size) OBVIOUS
<1>4. t \in Seq([at : Nat, what : TableSectors]) BY <1>2, <1>3, TablesAre
<1>5. PICK w : w = Head(job.todo) OBVIOUS
<1>6. PICK g : g = job.plan OBVIOUS
<1>7. GoodWrite(w) /\ Inside(w, g)
  BY <1>5, <1>6, HeadTailProperties DEF IInv, WritesAreGood
<1>8. PICK i \in 1 .. Len(asked) : asked[i].start = g.start /\ asked[i].count = g.count
  BY <1>6 DEF TInv, FormatIsOfAsked, IsAsked
<1>9. g.start \in Nat /\ g.count \in Nat
  BY <1>6 DEF IInv, JobIsPlanned, GoodLayout
<1>10. ASSUME NEW x \in 1 .. Len(t) PROVE Sector(disk', t[x].at) = t[x].what
  <2>1. t[x].at < g.start \/ g.start + g.count <= t[x].at
    BY <1>1, <1>2, <1>3, <1>8, TablesAreOutside
  <2>2. t[x].at \in Nat
    <3>1. t[x] \in [at : Nat, what : TableSectors] BY <1>4, ElementOfSeq
    <3> QED BY <3>1
  <2>3. Sector(After(disk, w, k), t[x].at) = Sector(disk, t[x].at)
    BY <1>5, <1>7, <1>9, <2>1, <2>2, OutsideStays
  <2>4. Sector(disk, t[x].at) = t[x].what BY <1>1, <1>3 DEF TablesOn
  <2> QED BY <1>5, <2>3, <2>4
<1>11. TablesOn(disk', r, size) BY <1>3, <1>10 DEF TablesOn
<1> QED BY <1>1, <1>11

LEMMA InitTInv == Init => TInv
BY DEF Init, NoJob, TInv, TablesGoOn, AskedIsThere, FormatIsOfAsked, IsAsked

LEMMA PartitionTInv ==
  ASSUME IInv, NEW r \in Requests, Partition(r)
  PROVE  TInv'
<1>1. Small(r, size) BY RequestsAreSmall DEF IInv
<1>2. PICK t : t = Tables(r, size) OBVIOUS
<1>3. t \in Seq([at : Nat, what : TableSectors]) BY <1>1, <1>2, TablesAre
<1>4. DOMAIN t = 1 .. Len(t) /\ Len(t) \in Nat BY <1>3, LenProperties
<1>5. /\ job' = [fn |-> "partition", plan |-> Request(r, size), lost |-> FALSE,
                 todo |-> [i \in DOMAIN t |-> Write(t[i].at, t[i].what)]]
      /\ asked' = <<>> /\ size' = size
  BY <1>2 DEF Partition
<1>6. [i \in DOMAIN t |-> Write(t[i].at, t[i].what)] = Rest(TableWrites(r, size), 0)
  <2>1. PICK S : TableWrites(r, size) \in Seq(S) BY <1>1, TableWritesAre
  <2>2. Len(TableWrites(r, size)) \in Nat BY <2>1, LenProperties
  <2>3. 0 \in 0 .. Len(TableWrites(r, size)) BY <2>2
  <2>4. Rest(TableWrites(r, size), 0) = TableWrites(r, size) BY <2>1, <2>3, RestLess
  <2> QED BY <1>2, <2>4 DEF TableWrites
<1>7. At(r, 0, FALSE)'
  <2>1. \A x \in 1 .. 0 : Sector(disk', t[x].at) = t[x].what OBVIOUS
  <2> QED BY <1>2, <1>5, <1>6, <2>1 DEF At
<1>8. 0 \in 0 .. Len(Tables(r, size')) BY <1>2, <1>4, <1>5
<1>9. TablesGoOn' BY <1>5, <1>7, <1>8 DEF TablesGoOn
<1>10. AskedIsThere' /\ FormatIsOfAsked' BY <1>5 DEF AskedIsThere, FormatIsOfAsked, IsAsked
<1> QED BY <1>9, <1>10 DEF TInv

LEMMA FormatTInv ==
  ASSUME IInv, TInv, NEW n, NEW prefer16, NEW small, Format(n, prefer16, small)
  PROVE  TInv'
<1>1. PICK g \in Layouts(Search(disk)[n], prefer16, small) :
        job' = [fn |-> "format", plan |-> g, todo |-> FormatWrites(g), written |-> {}]
  BY DEF Format
<1>2. n \in DOMAIN Search(disk) /\ asked' = asked /\ size' = size /\ disk' = disk BY DEF Format
<1>3. TablesGoOn' BY <1>1 DEF TablesGoOn
<1>4. AskedIsThere' BY <1>2 DEF TInv, AskedIsThere
<1>5. FormatIsOfAsked'
  <2> SUFFICES ASSUME asked # <<>>
               PROVE  \E i \in 1 .. Len(asked) : /\ asked[i].start = g.start
                                                 /\ asked[i].count = g.count /\ asked[i].count # 0
    BY <1>1, <1>2 DEF FormatIsOfAsked, IsAsked
  <2>1. PICK p : p = Search(disk)[n] OBVIOUS
  <2>2. g.start = p.start /\ g.count = p.count
    <3>1. Search(disk) \in Seq(Parts) BY SearchType DEF IInv
    <3>2. n \in 1 .. Len(Search(disk)) BY <1>2, <3>1, LenProperties
    <3>3. p \in Parts BY <2>1, <3>1, <3>2, ElementOfSeq
    <3>4. p.start \in Nat /\ p.count \in Nat BY <3>3 DEF Parts
    <3> QED BY <1>1, <2>1, <3>4, LayoutsAreGood
  <2>3. /\ Search(disk) = Kept(asked, Len(asked)) /\ asked \in Seq(Parts) /\ Apart(asked, size)
    BY AskedIsFound DEF TInv
  <2>4. Len(asked) \in 0 .. Len(asked) BY <2>3, LenProperties
  <2>5. Search(disk) \in Seq(Parts) BY SearchType DEF IInv
  <2>6. n \in 1 .. Len(Search(disk)) BY <1>2, <2>5, LenProperties
  <2>7. \E i \in 1 .. Len(asked) : p = asked[i] /\ asked[i].count # 0
    <3>1. PICK K : K = Kept(asked, Len(asked)) OBVIOUS
    <3>2. \A x \in 1 .. Len(K) : \E i \in 1 .. Len(asked) : K[x] = asked[i] /\ asked[i].count # 0
      BY <2>3, <2>4, <3>1, KeptIsApart
    <3>3. n \in 1 .. Len(K) /\ p = K[n] BY <2>1, <2>3, <2>6, <3>1
    <3> QED BY <3>2, <3>3
  <2> QED BY <2>2, <2>7
<1> QED BY <1>3, <1>4, <1>5 DEF TInv

\* A function at work that writes is one of the two.
LEMMA WriterIs ==
  ASSUME IInv, job.todo # <<>>
  PROVE  job.fn = "partition" \/ job.fn = "format"
BY DEF IInv, JobIsPlanned, NoJob

\* Nothing was asked for that FF_Partition could spoil, and FF_Format leaves the tables.
LEMMA StoppedTInv ==
  ASSUME IInv, TInv, job.todo # <<>>, NEW k \in Nat, k <= Head(job.todo).count,
         disk' = After(disk, Head(job.todo), k), size' = size, asked' = asked, job' = NoJob
  PROVE  TInv'
<1>1. AskedIsThere'
  <2>1. CASE job.fn = "partition" BY <2>1 DEF TInv, TablesGoOn, AskedIsThere
  <2>2. CASE job.fn = "format" BY <2>2, TablesStay
  <2> QED BY <2>1, <2>2, WriterIs
<1> QED BY <1>1 DEF TInv, TablesGoOn, FormatIsOfAsked, IsAsked, NoJob

LEMMA FormatStepTInv ==
  ASSUME IInv, TInv, job.todo # <<>>, job.fn = "format", NEW k \in Nat, k <= Head(job.todo).count,
         disk' = After(disk, Head(job.todo), k), size' = size, asked' = asked,
         job'.fn = "format", job'.plan = job.plan
  PROVE  TInv'
<1>1. AskedIsThere' BY TablesStay
<1>2. FormatIsOfAsked' BY DEF TInv, FormatIsOfAsked, IsAsked
<1>3. TablesGoOn' BY DEF TablesGoOn
<1> QED BY <1>1, <1>2, <1>3 DEF TInv

LEMMA WriteNextTInv == ASSUME IInv, TInv, WriteNext PROVE TInv'
<1>1. /\ job.todo # <<>> /\ size' = size /\ asked' = asked
      /\ disk' = After(disk, Head(job.todo), Head(job.todo).count)
  BY DEF WriteNext, Performed
<1>2. CASE job.fn = "format"
  <2>1. job' = [job EXCEPT !.todo = Tail(@), !.written = @ \cup Ranges(Head(job.todo))]
    BY <1>2 DEF WriteNext, Performed
  <2>2. "plan" \in DOMAIN job /\ "fn" \in DOMAIN job BY <1>2 DEF IInv, JobIsPlanned
  <2>3. job'.fn = "format" /\ job'.plan = job.plan BY <1>2, <2>1, <2>2
  <2>4. Head(job.todo).count \in Nat BY <1>1, HeadIsGood DEF IInv, GoodWrite
  <2>5. Head(job.todo).count <= Head(job.todo).count BY <2>4
  <2> QED BY <1>1, <1>2, <2>3, <2>4, <2>5, FormatStepTInv
<1>3. CASE job.fn = "partition"
  <2>1. job' = [job EXCEPT !.todo = Tail(@)] BY <1>3 DEF WriteNext, Performed
  <2>2. asked = <<>> BY <1>3 DEF TInv, TablesGoOn
  <2>3. PICK r \in Requests, lost \in BOOLEAN : \E i \in 0 .. Len(Tables(r, size)) : At(r, i, lost)
    BY <1>3 DEF TInv, TablesGoOn
  <2>4. PICK i \in 0 .. Len(Tables(r, size)) : At(r, i, lost) BY <2>3
  <2>5. Small(r, size) BY RequestsAreSmall DEF IInv
  <2>6. PICK t : t = Tables(r, size) OBVIOUS
  <2>7. t \in Seq([at : Nat, what : TableSectors]) BY <2>5, <2>6, TablesAre
  <2>8. job = [fn |-> "partition", plan |-> Request(r, size), lost |-> lost,
               todo |-> Rest(TableWrites(r, size), i)]
    BY <2>4 DEF At
  <2>9. job.todo = Rest(TableWrites(r, size), i) BY <2>8
  <2>10. /\ i + 1 \in 1 .. Len(t) /\ Head(job.todo) = Write(t[i + 1].at, t[i + 1].what)
         /\ Tail(job.todo) = Rest(TableWrites(r, size), i + 1)
    BY <1>1, <2>5, <2>6, <2>9, StillLess
  <2>11. job' = [fn |-> "partition", plan |-> Request(r, size), lost |-> lost,
                 todo |-> Rest(TableWrites(r, size), i + 1)]
    <3>1. PICK a : a = Tail(job.todo) OBVIOUS
    <3>2. job' = [job EXCEPT !.todo = a] BY <2>1, <3>1
    <3>3. job' = [fn |-> "partition", plan |-> Request(r, size), lost |-> lost, todo |-> a]
      BY <2>8, <3>2
    <3> QED BY <2>10, <3>1, <3>3
  <2>12. PICK at \in Nat, what \in TableSectors : at = t[i + 1].at /\ what = t[i + 1].what
    <3>1. t[i + 1] \in [at : Nat, what : TableSectors] BY <2>7, <2>10, ElementOfSeq
    <3> QED BY <3>1
  <2>13. disk' = After(disk, Write(at, what), 1)
    <3>1. Head(job.todo) = Write(at, what) BY <2>10, <2>12
    <3>2. Head(job.todo).count = 1 BY <3>1 DEF Write
    <3> QED BY <1>1, <3>1, <3>2
  <2>14. what # Blank BY DEF TableSectors, Blank
  <2>15. ASSUME ~ lost, NEW x \in 1 .. i + 1 PROVE Sector(disk', t[x].at) = t[x].what
    <3>0. x \in 1 .. Len(t) BY <2>10, <2>6
    <3>1. CASE x = i + 1
      BY <2>12, <2>13, <2>14, <3>1, AfterIsSet
    <3>2. CASE x \in 1 .. i
      <4>1. Sector(disk, t[x].at) = t[x].what BY <2>4, <2>6, <2>15, <3>2 DEF At
      <4>2. x # i + 1 BY <3>2
      <4>3. t[x].at # at
        BY <2>5, <2>6, <2>10, <2>12, <3>0, <4>2, TablesAreOutside
      <4>4. t[x].at \in Nat
        <5>1. t[x] \in [at : Nat, what : TableSectors] BY <2>7, <3>0, ElementOfSeq
        <5> QED BY <5>1
      <4> QED BY <2>13, <4>1, <4>3, <4>4, AfterOne
    <3> QED BY <3>1, <3>2
  <2>16. At(r, i + 1, lost)' BY <1>1, <2>6, <2>11, <2>15 DEF At
  <2>17. i + 1 \in 0 .. Len(Tables(r, size)) BY <2>6, <2>10
  <2>18. TablesGoOn' BY <1>1, <2>2, <2>16, <2>17 DEF TablesGoOn
  <2>19. AskedIsThere' /\ FormatIsOfAsked' BY <1>1, <2>2 DEF AskedIsThere, FormatIsOfAsked, IsAsked
  <2> QED BY <2>18, <2>19 DEF TInv
<1> QED BY <1>1, <1>2, <1>3, WriterIs

\* What is written when a write stops half-way.
LEMMA HalfIsLess ==
  ASSUME IInv, job.todo # <<>>, NEW k \in {0, Head(job.todo).count \div 2}
  PROVE  k \in Nat /\ k <= Head(job.todo).count
<1>1. Head(job.todo).count \in Nat BY HeadIsGood DEF IInv, GoodWrite
<1> QED BY <1>1

LEMMA WriteFailsTInv == ASSUME IInv, TInv, WriteFails PROVE TInv'
<1>1. job.todo # <<>> /\ size' = size /\ asked' = asked BY DEF WriteFails
<1>2. PICK k \in {0, Head(job.todo).count \div 2} : disk' = After(disk, Head(job.todo), k)
  BY DEF WriteFails
<1>3. k \in Nat /\ k <= Head(job.todo).count BY <1>1, HalfIsLess
<1>4. CASE job' = NoJob BY <1>1, <1>2, <1>3, <1>4, StoppedTInv
<1>5. CASE job.fn = "format" /\ job' = [job EXCEPT !.todo = Tail(@)]
  <2>1. "plan" \in DOMAIN job /\ "fn" \in DOMAIN job BY <1>5 DEF IInv, JobIsPlanned
  <2>2. job'.fn = "format" /\ job'.plan = job.plan BY <1>5, <2>1
  <2> QED BY <1>1, <1>2, <1>3, <1>5, <2>2, FormatStepTInv
<1> QED BY <1>4, <1>5 DEF WriteFails

LEMMA FlushFailsTInv == ASSUME IInv, TInv, FlushFails PROVE TInv'
<1>1. /\ job.todo # <<>> /\ size' = size /\ disk' = disk /\ asked' = asked
      /\ job' = [job EXCEPT !.todo = Tail(@), !.lost = TRUE] /\ job.fn = "partition"
  BY DEF FlushFails
<1>2. asked = <<>> BY <1>1 DEF TInv, TablesGoOn
<1>3. PICK r \in Requests, lost \in BOOLEAN : \E i \in 0 .. Len(Tables(r, size)) : At(r, i, lost)
  BY <1>1 DEF TInv, TablesGoOn
<1>4. PICK i \in 0 .. Len(Tables(r, size)) : At(r, i, lost) BY <1>3
<1>5. Small(r, size) BY RequestsAreSmall DEF IInv
<1>6. job = [fn |-> "partition", plan |-> Request(r, size), lost |-> lost,
             todo |-> Rest(TableWrites(r, size), i)]
  BY <1>4 DEF At
<1>7. job.todo = Rest(TableWrites(r, size), i) BY <1>6
<1>8. /\ i + 1 \in 1 .. Len(Tables(r, size)) /\ Tail(job.todo) = Rest(TableWrites(r, size), i + 1)
  BY <1>1, <1>5, <1>7, StillLess
<1>9. job' = [fn |-> "partition", plan |-> Request(r, size), lost |-> TRUE,
              todo |-> Rest(TableWrites(r, size), i + 1)]
  <2>1. PICK a : a = Tail(job.todo) OBVIOUS
  <2>2. job' = [job EXCEPT !.todo = a, !.lost = TRUE] BY <1>1, <2>1
  <2>3. job' = [fn |-> "partition", plan |-> Request(r, size), lost |-> TRUE, todo |-> a]
    BY <1>6, <2>2
  <2> QED BY <1>8, <2>1, <2>3
<1>10. At(r, i + 1, TRUE)' BY <1>1, <1>9 DEF At
<1>11. i + 1 \in 0 .. Len(Tables(r, size)) BY <1>8
<1>12. TablesGoOn' BY <1>1, <1>2, <1>10, <1>11 DEF TablesGoOn
<1>13. AskedIsThere' /\ FormatIsOfAsked' BY <1>1, <1>2 DEF AskedIsThere, FormatIsOfAsked, IsAsked
<1> QED BY <1>12, <1>13 DEF TInv

LEMMA DoneTInv == ASSUME IInv, TInv, Done PROVE TInv'
<1>1. job' = NoJob /\ job # NoJob /\ job.todo = <<>> /\ size' = size /\ disk' = disk BY DEF Done
<1>2. TablesGoOn' /\ FormatIsOfAsked' BY <1>1 DEF NoJob, TablesGoOn, FormatIsOfAsked, IsAsked
<1>3. CASE job.fn # "partition"
  <2>1. asked' = asked BY <1>3 DEF Done
  <2> QED BY <1>1, <1>2, <2>1 DEF TInv, AskedIsThere
<1>4. CASE job.fn = "partition"
  <2>1. asked' = IF job.lost THEN <<>> ELSE job.plan BY <1>4 DEF Done
  <2>2. PICK r \in Requests, lost \in BOOLEAN : \E i \in 0 .. Len(Tables(r, size)) : At(r, i, lost)
    BY <1>4 DEF TInv, TablesGoOn
  <2>3. PICK i \in 0 .. Len(Tables(r, size)) : At(r, i, lost) BY <2>2
  <2>4. Small(r, size) BY RequestsAreSmall DEF IInv
  <2>5. job = [fn |-> "partition", plan |-> Request(r, size), lost |-> lost,
               todo |-> Rest(TableWrites(r, size), i)]
    BY <2>3 DEF At
  <2>6. job.todo = Rest(TableWrites(r, size), i) /\ job.plan = Request(r, size) /\ job.lost = lost BY <2>5
  <2>7. i = Len(Tables(r, size)) BY <1>1, <2>4, <2>6, StillLess
  <2>8. CASE lost BY <1>2, <2>1, <2>6, <2>8 DEF TInv, AskedIsThere
  <2>9. CASE ~ lost
    <3>1. TablesOn(disk, r, size) BY <2>3, <2>7, <2>9 DEF At, TablesOn
    <3>2. AskedIsThere' BY <1>1, <2>1, <2>6, <2>9, <3>1 DEF AskedIsThere
    <3> QED BY <1>2, <3>2 DEF TInv
  <2> QED BY <2>8, <2>9
<1> QED BY <1>3, <1>4

LEMMA CrashTInv == ASSUME IInv, TInv, Crash PROVE TInv'
<1>1. job' = NoJob /\ job.todo # <<>> /\ size' = size /\ asked' = asked BY DEF Crash
<1>2. PICK k \in {0, Head(job.todo).count \div 2} : disk' = After(disk, Head(job.todo), k)
  BY DEF Crash
<1>3. k \in Nat /\ k <= Head(job.todo).count BY <1>1, HalfIsLess
<1> QED BY <1>1, <1>2, <1>3, StoppedTInv

LEMMA NextTInv == IInv /\ TInv /\ [Next]_vars => TInv'
<1> SUFFICES ASSUME IInv, TInv, [Next]_vars PROVE TInv' OBVIOUS
<1>1. CASE \E r \in Requests : Partition(r) BY <1>1, PartitionTInv
<1>2. CASE \E n \in 1 .. MaxParts, prefer16, small \in BOOLEAN : Format(n, prefer16, small)
  BY <1>2, FormatTInv
<1>3. CASE WriteNext BY <1>3, WriteNextTInv
<1>4. CASE WriteFails BY <1>4, WriteFailsTInv
<1>5. CASE FlushFails BY <1>5, FlushFailsTInv
<1>6. CASE Done BY <1>6, DoneTInv
<1>7. CASE Crash BY <1>7, CrashTInv
<1>8. CASE UNCHANGED vars
  BY <1>8 DEF vars, TInv, TablesGoOn, At, AskedIsThere, FormatIsOfAsked, IsAsked
<1> QED BY <1>1, <1>2, <1>3, <1>4, <1>5, <1>6, <1>7, <1>8 DEF Next

LEMMA TablesInvariance == Spec => [](IInv /\ TInv)
<1> QED BY InitIInv, InitTInv, NextIInv, NextTInv, PTL DEF Spec

\* What FF_Partition has returned success for is found, in that order, from then on.
THEOREM RequestsAreFound == Spec => []PartitionsAreAsAsked
<1>1. IInv /\ TInv => PartitionsAreAsAsked BY AskedIsFound DEF TInv, PartitionsAreAsAsked
<1> QED BY <1>1, TablesInvariance, PTL

\* After it has, what is found lies on the disk and does not overlap.
THEOREM PartitionsAreKeptApart == Spec => [](asked # <<>> => PartitionsAreDisjoint)
<1>1. IInv /\ TInv => (asked # <<>> => PartitionsAreDisjoint)
  <2> SUFFICES ASSUME IInv, TInv, asked # <<>> PROVE PartitionsAreDisjoint OBVIOUS
  <2>1. Search(disk) = Kept(asked, Len(asked)) /\ asked \in Seq(Parts) /\ Apart(asked, size)
    BY AskedIsFound DEF TInv
  <2>2. Len(asked) \in 0 .. Len(asked) BY <2>1, LenProperties
  <2>3. Apart(Search(disk), size) BY <2>1, <2>2, KeptIsApart
  <2> QED BY <2>3 DEF Apart, PartitionsAreDisjoint
<1> QED BY <1>1, TablesInvariance, PTL

-----------------------------------------------------------------------------
(* FF_Format at work, and the volumes it has made. *)

\* A concatenation by its members.
LEMMA Concatenation ==
  ASSUME NEW S, NEW s \in Seq(S), NEW t \in Seq(S), NEW u \in Seq(S),
         Len(u) = Len(s) + Len(t), \A i \in 1 .. Len(s) : u[i] = s[i],
         \A i \in 1 .. Len(t) : u[Len(s) + i] = t[i]
  PROVE  s \o t = u
<1>1. PICK v \in Seq(S) : v = s \o t BY ConcatProperties
<1>2. Len(s) \in Nat /\ Len(t) \in Nat BY LenProperties
<1>3. Len(v) = Len(u) /\ DOMAIN v = 1 .. Len(u) /\ DOMAIN u = 1 .. Len(u)
  BY <1>1, ConcatProperties, LenProperties
<1>4. ASSUME NEW i \in 1 .. Len(u) PROVE v[i] = u[i]
  <2>1. CASE i <= Len(s)
    <3>1. i \in 1 .. Len(s) BY <1>2, <2>1
    <3> QED BY <1>1, <3>1, ConcatProperties
  <2>2. CASE i > Len(s)
    <3>1. PICK j \in 1 .. Len(t) : i = Len(s) + j
      <4>1. i - Len(s) \in 1 .. Len(t) /\ i = Len(s) + (i - Len(s)) BY <1>2, <2>2
      <4> QED BY <4>1
    <3>2. v[i] = t[j] BY <1>1, <1>2, <2>2, <3>1, ConcatProperties
    <3> QED BY <3>1, <3>2
  <2> QED BY <1>2, <2>1, <2>2
<1> QED BY <1>1, <1>3, <1>4

\* The writes of FF_Format one by one.
LEMMA FormatWritesAre ==
  ASSUME NEW g, NEW fat, fat = FatBegin(g), NEW root, root = fat + 2 * g.per,
         NEW rest, rest = (IF g.roots # 0 THEN g.roots ELSE g.spc) - 1
  PROVE  FormatWrites(g) =
           IF g.type # 32
           THEN <<Write(g.start, Boot(g)), Write(fat, Fat), Write(fat + g.per, Fat),
                  ClearFats(g, fat), Write(root, Label),
                  [Write(root + 1, Blank) EXCEPT !.count = rest]>>
           ELSE <<Write(g.start, Boot(g)), Write(g.start + 6, Boot(g)),
                  [Write(g.start + 1, Info) EXCEPT !.firm = FALSE],
                  [Write(g.start + 7, Info) EXCEPT !.firm = FALSE],
                  Write(fat, Fat), Write(fat + g.per, Fat),
                  ClearFats(g, fat), Write(root, Label),
                  [Write(root + 1, Blank) EXCEPT !.count = rest]>>
<1> DEFINE a == Write(g.start, Boot(g))
           b == Write(g.start + 6, Boot(g))
           c == [Write(g.start + 1, Info) EXCEPT !.firm = FALSE]
           d == [Write(g.start + 7, Info) EXCEPT !.firm = FALSE]
           e == Write(fat, Fat)
           f == Write(fat + g.per, Fat)
           h == ClearFats(g, fat)
           k == Write(root, Label)
           m == [Write(root + 1, Blank) EXCEPT !.count = rest]
<1>1. FormatWrites(g) =
        <<a>> \o (IF g.type # 32 THEN <<>> ELSE <<b, c, d>>) \o <<e, f, h, k, m>>
  BY DEF FormatWrites
<1> HIDE DEF a, b, c, d, e, f, h, k, m
<1>0. PICK S : S = {a, b, c, d, e, f, h, k, m} OBVIOUS
<1>5. a \in S /\ b \in S /\ c \in S /\ d \in S /\ e \in S /\ f \in S /\ h \in S /\ k \in S /\ m \in S
  BY <1>0
<1>6t. <<e, f, h, k, m>> \in Seq(S) BY <1>5
<1>6. PICK tail : tail = <<e, f, h, k, m>> /\ tail \in Seq(S) BY <1>6t
<1>7. Len(tail) = 5 /\ tail[1] = e /\ tail[2] = f /\ tail[3] = h /\ tail[4] = k /\ tail[5] = m
  BY <1>6
<1>2. <<a>> \o <<>> \o <<e, f, h, k, m>> = <<a, e, f, h, k, m>>
  <2>1t. <<a>> \in Seq(S) BY <1>5
  <2>1. PICK s : s = <<a>> /\ s \in Seq(S) BY <2>1t
  <2>2. <<a>> \o <<>> = s BY <2>1
  <2>3t. <<a, e, f, h, k, m>> \in Seq(S) BY <1>5
  <2>3. PICK u : u = <<a, e, f, h, k, m>> /\ u \in Seq(S) BY <2>3t
  <2>4. Len(u) = 6 /\ u[1] = a /\ u[2] = e /\ u[3] = f /\ u[4] = h /\ u[5] = k /\ u[6] = m
    BY <2>3
  <2>5. Len(s) = 1 /\ s[1] = a BY <2>1
  <2>6. \A i \in 1 .. Len(tail) : u[Len(s) + i] = tail[i] BY <1>7, <2>4, <2>5
  <2>8. \A i \in 1 .. Len(s) : u[i] = s[i] BY <2>4, <2>5
  <2>9. Len(u) = Len(s) + Len(tail) BY <1>7, <2>4, <2>5
  <2>s. s \in Seq(S) /\ tail \in Seq(S) /\ u \in Seq(S) BY <1>6, <2>1, <2>3
  <2>7. s \o tail = u BY <2>s, <2>6, <2>8, <2>9, Concatenation
  <2> QED BY <1>6, <2>2, <2>3, <2>7
<1>3. <<a>> \o <<b, c, d>> \o <<e, f, h, k, m>> = <<a, b, c, d, e, f, h, k, m>>
  <2>1t. <<a, b, c, d>> \in Seq(S) BY <1>5
  <2>1. PICK s : s = <<a, b, c, d>> /\ s \in Seq(S) BY <2>1t
  <2>5. Len(s) = 4 /\ s[1] = a /\ s[2] = b /\ s[3] = c /\ s[4] = d BY <2>1
  <2>2. <<a>> \o <<b, c, d>> = s
    <3>1t. <<a>> \in Seq(S) BY <1>5
    <3>1. PICK x : x = <<a>> /\ x \in Seq(S) BY <3>1t
    <3>2t. <<b, c, d>> \in Seq(S) BY <1>5
    <3>2. PICK y : y = <<b, c, d>> /\ y \in Seq(S) BY <3>2t
    <3>3. Len(x) = 1 /\ x[1] = a BY <3>1
    <3>4. Len(y) = 3 /\ y[1] = b /\ y[2] = c /\ y[3] = d BY <3>2
    <3>5. \A i \in 1 .. Len(y) : s[Len(x) + i] = y[i] BY <2>5, <3>3, <3>4
    <3>7. Len(s) = Len(x) + Len(y) BY <2>5, <3>3, <3>4
    <3>8. \A i \in 1 .. Len(x) : s[i] = x[i] BY <2>5, <3>3
    <3>6. x \o y = s BY ZenonT(40), <2>1, <3>1, <3>2, <3>5, <3>7, <3>8, Concatenation
    <3> QED BY <3>1, <3>2, <3>6
  <2>3t. <<a, b, c, d, e, f, h, k, m>> \in Seq(S) BY <1>5
  <2>3. PICK u : u = <<a, b, c, d, e, f, h, k, m>> /\ u \in Seq(S) BY <2>3t
  <2>4. /\ Len(u) = 9 /\ u[1] = a /\ u[2] = b /\ u[3] = c /\ u[4] = d /\ u[5] = e /\ u[6] = f
        /\ u[7] = h /\ u[8] = k /\ u[9] = m
    BY <2>3
  <2>6. \A i \in 1 .. Len(tail) : u[Len(s) + i] = tail[i] BY <1>7, <2>4, <2>5
  <2>8. \A i \in 1 .. Len(s) : u[i] = s[i] BY <2>4, <2>5
  <2>9. Len(u) = Len(s) + Len(tail) BY <1>7, <2>4, <2>5
  <2>s. s \in Seq(S) /\ tail \in Seq(S) /\ u \in Seq(S) BY <1>6, <2>1, <2>3
  <2>7. s \o tail = u BY <2>s, <2>6, <2>8, <2>9, Concatenation
  <2> QED BY <1>6, <2>2, <2>3, <2>7
<1>4. FormatWrites(g) = IF g.type # 32 THEN <<a, e, f, h, k, m>>
                        ELSE <<a, b, c, d, e, f, h, k, m>>
  BY <1>1, <1>2, <1>3
<1> QED BY <1>4 DEF a, b, c, d, e, f, h, k, m

\* The two writes by which a volume is known.
Marks(g) == {Write(g.start, Boot(g)), Write(FatBegin(g), Fat)}

\* What a write leaves alone.
Spares(w, s) == /\ w.at \in Nat /\ w.count \in Nat /\ w.copy \in Nat
                /\ ~ (s \in w.at .. w.at + w.count - 1)
                /\ ~ (s \in w.at + w.copy .. w.at + w.copy + w.count - 1)

LEMMA SparesAbove ==
  ASSUME NEW w, NEW at \in Nat, NEW count \in Nat, NEW copy \in Nat, w.at = at, w.count = count,
         w.copy = copy, NEW s \in Nat, s < at
  PROVE  Spares(w, s)
BY DEF Spares

\* No write touches what an earlier one has marked, and those that matter are done.
LEMMA MarksStay ==
  ASSUME NEW g, GoodLayout(g), NEW F, F = FormatWrites(g)
  PROVE  /\ \E S : F \in Seq(S)
         /\ \A x, y \in 1 .. Len(F) : x < y /\ F[x] \in Marks(g) => Spares(F[y], F[x].at)
         /\ \A m \in Marks(g) : /\ \E x \in 1 .. Len(F) : F[x] = m
                                /\ m.at \in Nat /\ m.count = 1 /\ m.what # Blank /\ m.copy = 0
                                /\ m.firm /\ g.start <= m.at /\ m.at < g.start + g.count
<1>0. PICK start, count, per, reserved, roots, spc :
        /\ start = g.start /\ count = g.count /\ per = g.per /\ reserved = g.reserved
        /\ roots = g.roots /\ spc = g.spc
  OBVIOUS
<1>1. /\ start \in Nat /\ count \in Nat /\ per \in Nat /\ per > 0
      /\ reserved \in Nat /\ reserved > 0 /\ spc \in Nat /\ spc > 0
      /\ roots \in {0, 32} /\ g.type \in {16, 32}
      /\ reserved + 2 * per + roots + spc <= count
  BY <1>0 DEF GoodLayout, SectorsPerCluster
<1>2. PICK fat \in Nat : fat = FatBegin(g) /\ fat = start + reserved
  <2>1. FatBegin(g) = start + reserved BY <1>0 DEF FatBegin
  <2> QED BY <1>1, <2>1
<1>3. PICK root \in Nat : root = fat + 2 * g.per /\ root = fat + 2 * per BY <1>0, <1>1
<1>4. PICK rest \in Nat : rest = (IF g.roots # 0 THEN g.roots ELSE g.spc) - 1
  <2>1. (IF roots # 0 THEN roots ELSE spc) - 1 \in Nat BY <1>1
  <2> QED BY <1>0, <2>1
<1>5. PICK a, b, c, d, e, f, h, k, m :
        /\ a = Write(g.start, Boot(g)) /\ b = Write(g.start + 6, Boot(g))
        /\ c = [Write(g.start + 1, Info) EXCEPT !.firm = FALSE]
        /\ d = [Write(g.start + 7, Info) EXCEPT !.firm = FALSE]
        /\ e = Write(fat, Fat) /\ f = Write(fat + g.per, Fat)
        /\ h = ClearFats(g, fat) /\ k = Write(root, Label)
        /\ m = [Write(root + 1, Blank) EXCEPT !.count = rest]
  OBVIOUS
<1>6. F = IF g.type # 32 THEN <<a, e, f, h, k, m>> ELSE <<a, b, c, d, e, f, h, k, m>>
  <2>1. CASE g.type # 32
    <3>1. F = <<Write(g.start, Boot(g)), Write(fat, Fat), Write(fat + g.per, Fat),
                ClearFats(g, fat), Write(root, Label),
                [Write(root + 1, Blank) EXCEPT !.count = rest]>>
      BY <1>2, <1>3, <1>4, <2>1, FormatWritesAre
    <3> QED BY <1>5, <2>1, <3>1
  <2>2. CASE g.type = 32
    <3>1. F = <<Write(g.start, Boot(g)), Write(g.start + 6, Boot(g)),
                [Write(g.start + 1, Info) EXCEPT !.firm = FALSE],
                [Write(g.start + 7, Info) EXCEPT !.firm = FALSE],
                Write(fat, Fat), Write(fat + g.per, Fat),
                ClearFats(g, fat), Write(root, Label),
                [Write(root + 1, Blank) EXCEPT !.count = rest]>>
      <4>1. \A q, z, y : z = FatBegin(g) /\ q = z + 2 * g.per /\ y = (IF g.roots # 0 THEN g.roots ELSE g.spc) - 1 =>
               FormatWrites(g) = <<Write(g.start, Boot(g)), Write(g.start + 6, Boot(g)),
                [Write(g.start + 1, Info) EXCEPT !.firm = FALSE],
                [Write(g.start + 7, Info) EXCEPT !.firm = FALSE],
                Write(z, Fat), Write(z + g.per, Fat),
                ClearFats(g, z), Write(q, Label),
                [Write(q + 1, Blank) EXCEPT !.count = y]>>
        BY <2>2, FormatWritesAre
      <4> QED BY <1>2, <1>3, <1>4, <4>1
    <3> QED BY <1>5, <2>2, <3>1
  <2> QED BY <2>1, <2>2
<1>7. Marks(g) = {a, e} BY <1>2, <1>5 DEF Marks
<1>8. /\ a.at = start /\ a.count = 1 /\ a.copy = 0 /\ a.what = Boot(g) /\ a.firm = TRUE
      /\ b.at = start + 6 /\ b.count = 1 /\ b.copy = 0 /\ b.what = Boot(g)
      /\ c.at = start + 1 /\ c.count = 1 /\ c.copy = 0 /\ c.what = Info
      /\ d.at = start + 7 /\ d.count = 1 /\ d.copy = 0 /\ d.what = Info
      /\ e.at = fat /\ e.count = 1 /\ e.copy = 0 /\ e.what = Fat /\ e.firm = TRUE
      /\ f.at = fat + per /\ f.count = 1 /\ f.copy = 0 /\ f.what = Fat
      /\ h.at = fat + 1 /\ h.count = per - 1 /\ h.copy = per /\ h.what = Blank
      /\ k.at = root /\ k.count = 1 /\ k.copy = 0 /\ k.what = Label
      /\ m.at = root + 1 /\ m.count = rest /\ m.copy = 0 /\ m.what = Blank
  BY <1>0, <1>5 DEF Write, ClearFats
<1>9. /\ Boot(g).kind = "boot" /\ Fat.kind = "fat" /\ Info.kind = "info" /\ Label.kind = "label"
      /\ Blank.kind = "blank"
  BY DEF Boot, Fat, Info, Label, Blank
<1>10. per - 1 \in Nat /\ start + 6 \in Nat /\ start + 1 \in Nat /\ start + 7 \in Nat
       /\ fat + per \in Nat /\ fat + 1 \in Nat /\ root + 1 \in Nat /\ start < fat /\ fat < root
       /\ fat < fat + per
  BY <1>1, <1>2, <1>3
<1>16. /\ start < start + 6 /\ start < start + 1 /\ start < start + 7 /\ start < fat + per
       /\ start < fat + 1 /\ start < root /\ start < root + 1
       /\ fat < fat + 1 /\ fat < root + 1
  BY <1>1, <1>10
<1>17. /\ 1 \in Nat /\ 0 \in Nat /\ per \in Nat /\ rest \in Nat /\ root \in Nat /\ fat \in Nat
       /\ start \in Nat
  BY <1>1
<1>11. \A w \in {b, c, d, e, f, h, k, m} : Spares(w, start)
  <2>1. Spares(b, start) /\ Spares(c, start) BY <1>8, <1>10, <1>16, <1>17, SparesAbove
  <2>2. Spares(d, start) /\ Spares(e, start) BY <1>8, <1>10, <1>16, <1>17, SparesAbove
  <2>3. Spares(f, start) /\ Spares(h, start) BY <1>8, <1>10, <1>16, <1>17, SparesAbove
  <2>4. Spares(k, start) /\ Spares(m, start) BY <1>8, <1>10, <1>16, <1>17, SparesAbove
  <2> QED BY <2>1, <2>2, <2>3, <2>4
<1>12. \A w \in {f, h, k, m} : Spares(w, fat)
  <2>1. Spares(f, fat) /\ Spares(h, fat) BY <1>8, <1>10, <1>16, <1>17, SparesAbove
  <2>2. Spares(k, fat) /\ Spares(m, fat) BY <1>8, <1>10, <1>16, <1>17, SparesAbove
  <2> QED BY <2>1, <2>2
<1>13. /\ \A w \in {b, c, d, e, f, h, k, m} : w # a
       /\ \A w \in {a, b, c, d, f, h, k, m} : w # e
  <2>1. b # a /\ c # a /\ d # a /\ e # a /\ f # a /\ h # a /\ k # a /\ m # a
    BY <1>1, <1>2, <1>3, <1>8, <1>10
  <2>2. b # e /\ c # e /\ d # e /\ f # e /\ h # e /\ k # e /\ m # e
    BY <1>1, <1>2, <1>3, <1>8, <1>9, <1>10
  <2> QED BY <2>1, <2>2
<1>14. CASE g.type # 32
  <2>1. F = <<a, e, f, h, k, m>> BY <1>6, <1>14
  <2>2. /\ Len(F) = 6 /\ F[1] = a /\ F[2] = e /\ F[3] = f /\ F[4] = h /\ F[5] = k /\ F[6] = m
    BY <2>1
  <2>3. F \in Seq({a, e, f, h, k, m}) BY <2>1
  <2>4. ASSUME NEW x \in 1 .. 6, NEW y \in 1 .. 6, x < y, F[x] \in {a, e}
        PROVE  Spares(F[y], F[x].at)
    <3>1. CASE x = 1
      <4>1. F[y] \in {e, f, h, k, m} BY <2>2, <2>4, <3>1
      <4> QED BY <1>8, <1>11, <2>2, <3>1, <4>1
    <3>2. CASE x = 2
      <4>1. F[y] \in {f, h, k, m} BY <2>2, <2>4, <3>2
      <4> QED BY <1>8, <1>12, <2>2, <3>2, <4>1
    <3>3. CASE x > 2
      <4>1. F[x] \in {f, h, k, m} BY <2>2, <3>3
      <4> QED BY <1>13, <2>4, <4>1
    <3> QED BY <3>1, <3>2, <3>3
  <2>5. 1 \in 1 .. Len(F) /\ 2 \in 1 .. Len(F) BY <2>2
  <2>6. \A w \in Marks(g) : \E x \in 1 .. Len(F) : F[x] = w BY <1>7, <2>2, <2>5
  <2>7. \A w \in Marks(g) : /\ w.at \in Nat /\ w.count = 1 /\ w.what # Blank /\ w.copy = 0
                            /\ w.firm /\ g.start <= w.at /\ w.at < g.start + g.count
    BY <1>0, <1>1, <1>2, <1>7, <1>8, <1>9
  <2> QED BY <1>7, <2>2, <2>3, <2>4, <2>6, <2>7
<1>15. CASE g.type = 32
  <2>1. F = <<a, b, c, d, e, f, h, k, m>> BY <1>6, <1>15
  <2>2. /\ Len(F) = 9 /\ F[1] = a /\ F[2] = b /\ F[3] = c /\ F[4] = d /\ F[5] = e /\ F[6] = f
        /\ F[7] = h /\ F[8] = k /\ F[9] = m
    BY <2>1
  <2>3. F \in Seq({a, b, c, d, e, f, h, k, m}) BY <2>1
  <2>4. ASSUME NEW x \in 1 .. 9, NEW y \in 1 .. 9, x < y, F[x] \in {a, e}
        PROVE  Spares(F[y], F[x].at)
    <3>1. CASE x = 1
      <4>1. F[y] \in {b, c, d, e, f, h, k, m} BY <2>2, <2>4, <3>1
      <4> QED BY <1>8, <1>11, <2>2, <3>1, <4>1
    <3>2. CASE x = 5
      <4>1. F[y] \in {f, h, k, m} BY <2>2, <2>4, <3>2
      <4> QED BY <1>8, <1>12, <2>2, <3>2, <4>1
    <3>3. CASE x # 1 /\ x # 5
      <4>1. F[x] \in {b, c, d, f, h, k, m} BY <2>2, <3>3
      <4> QED BY <1>13, <2>4, <4>1
    <3> QED BY <3>1, <3>2, <3>3
  <2>5. 1 \in 1 .. Len(F) /\ 5 \in 1 .. Len(F) BY <2>2
  <2>6. \A w \in Marks(g) : \E x \in 1 .. Len(F) : F[x] = w BY <1>7, <2>2, <2>5
  <2>7. \A w \in Marks(g) : /\ w.at \in Nat /\ w.count = 1 /\ w.what # Blank /\ w.copy = 0
                            /\ w.firm /\ g.start <= w.at /\ w.at < g.start + g.count
    BY <1>0, <1>1, <1>2, <1>7, <1>8, <1>9
  <2> QED BY <1>7, <2>2, <2>3, <2>4, <2>6, <2>7
<1> QED BY <1>14, <1>15

\* Everything that a mounted volume takes for its FATs and its root directory is among the
\* writes that may not fail.
LEMMA VolumeIsWritten ==
  ASSUME NEW g, GoodLayout(g), NEW F, F = FormatWrites(g), NEW written,
         \A x \in 1 .. Len(F) : F[x].firm => Ranges(F[x]) \subseteq written
  PROVE  LET v == Volume(Boot(g), g.start) IN
         /\ \A b \in {v.fat, v.fat + v.per} :
              /\ Within(b, b, written)
              /\ v.per > 1 => Within(b + 1, b + v.per - 1, written)
         /\ LET last == IF v.roots # 0 THEN v.root + v.roots - 1 ELSE v.data + v.spc - 1 IN
            Within(v.root, v.root, written)
            /\ (last > v.root => Within(v.root + 1, last, written))
<1>0. PICK start, per, reserved, roots, spc :
        /\ start = g.start /\ per = g.per /\ reserved = g.reserved
        /\ roots = g.roots /\ spc = g.spc
  OBVIOUS
<1>1. /\ start \in Nat /\ per \in Nat /\ per > 0
      /\ reserved \in Nat /\ reserved > 0 /\ spc \in Nat /\ spc > 0 /\ roots \in {0, 32}
  BY <1>0 DEF GoodLayout, SectorsPerCluster
<1>2. PICK fat \in Nat : fat = FatBegin(g) /\ fat = start + reserved
  <2>1. FatBegin(g) = start + reserved BY <1>0 DEF FatBegin
  <2> QED BY <1>1, <2>1
<1>3. PICK root \in Nat : root = fat + 2 * g.per /\ root = fat + 2 * per BY <1>0, <1>1
<1>4. PICK rest \in Nat : /\ rest = (IF g.roots # 0 THEN g.roots ELSE g.spc) - 1
                          /\ rest = (IF roots # 0 THEN roots ELSE spc) - 1
  <2>1. (IF roots # 0 THEN roots ELSE spc) - 1 \in Nat BY <1>1
  <2> QED BY <1>0, <2>1
<1>5. PICK v : v = Volume(Boot(g), g.start) OBVIOUS
<1>6. /\ v.fat = fat /\ v.per = per /\ v.root = root /\ v.roots = roots /\ v.spc = spc
      /\ v.data = root + roots
  <2>1. /\ v.fat = g.start + g.reserved /\ v.per = g.per /\ v.roots = g.roots /\ v.spc = g.spc
        /\ v.root = (g.start + g.reserved) + 2 * g.per
        /\ v.data = ((g.start + g.reserved) + 2 * g.per) + g.roots
    BY <1>5 DEF Volume, Boot
  <2> QED BY <1>0, <1>1, <1>2, <1>3, <2>1
<1>7. PICK e, f, h, k, m :
        /\ e = Write(fat, Fat) /\ f = Write(fat + g.per, Fat)
        /\ h = ClearFats(g, fat) /\ k = Write(root, Label)
        /\ m = [Write(root + 1, Blank) EXCEPT !.count = rest]
  OBVIOUS
<1>8. \A w \in {e, f, h, k, m} : \E x \in 1 .. Len(F) : F[x] = w
  <2>1. CASE g.type # 32
    <3>1. F = <<Write(g.start, Boot(g)), e, f, h, k, m>>
      BY <1>2, <1>3, <1>4, <1>7, <2>1, FormatWritesAre
    <3>2. /\ Len(F) = 6 /\ F[2] = e /\ F[3] = f /\ F[4] = h /\ F[5] = k /\ F[6] = m BY <3>1
    <3> QED BY <3>2
  <2>2. CASE g.type = 32
    <3>1. F = <<Write(g.start, Boot(g)), Write(g.start + 6, Boot(g)),
                [Write(g.start + 1, Info) EXCEPT !.firm = FALSE],
                [Write(g.start + 7, Info) EXCEPT !.firm = FALSE], e, f, h, k, m>>
      <4>1. F = <<Write(g.start, Boot(g)), Write(g.start + 6, Boot(g)),
                  [Write(g.start + 1, Info) EXCEPT !.firm = FALSE],
                  [Write(g.start + 7, Info) EXCEPT !.firm = FALSE],
                  Write(fat, Fat), Write(fat + g.per, Fat),
                  ClearFats(g, fat), Write(root, Label),
                  [Write(root + 1, Blank) EXCEPT !.count = rest]>>
        BY <1>2, <1>3, <1>4, <2>2, FormatWritesAre
      <4> QED BY <1>7, <4>1
    <3>2. /\ Len(F) = 9 /\ F[5] = e /\ F[6] = f /\ F[7] = h /\ F[8] = k /\ F[9] = m BY <3>1
    <3> QED BY <3>2
  <2> QED BY <2>1, <2>2
<1>9. /\ e.at = fat /\ e.count = 1 /\ e.copy = 0 /\ e.firm = TRUE
      /\ f.at = fat + per /\ f.count = 1 /\ f.copy = 0 /\ f.firm = TRUE
      /\ h.at = fat + 1 /\ h.count = per - 1 /\ h.copy = per /\ h.firm = TRUE
      /\ k.at = root /\ k.count = 1 /\ k.copy = 0 /\ k.firm = TRUE
      /\ m.at = root + 1 /\ m.count = rest /\ m.copy = 0 /\ m.firm = TRUE
  BY <1>0, <1>7 DEF Write, ClearFats
<1>10. \A w \in {e, f, h, k, m} : Ranges(w) \subseteq written
  <2> SUFFICES ASSUME NEW w \in {e, f, h, k, m} PROVE Ranges(w) \subseteq written OBVIOUS
  <2>1. PICK x \in 1 .. Len(F) : F[x] = w BY <1>8
  <2>2. w.firm BY <1>9
  <2> QED BY <2>1, <2>2
<1>11. \A w \in {e, f, h, k, m} :
         /\ <<w.at, w.at + w.count - 1>> \in written
         /\ <<w.at + w.copy, w.at + w.copy + w.count - 1>> \in written
  BY <1>10 DEF Ranges
<1>12. \A a \in Int, b \in Int : <<a, b>> \in written => Within(a, b, written)
  BY DEF Within
<1>13. Within(fat, fat, written)
  <2>1. <<fat, fat + 1 - 1>> \in written BY <1>9, <1>11
  <2>2. fat + 1 - 1 = fat OBVIOUS
  <2>3. <<fat, fat>> \in written BY <2>1, <2>2
  <2> QED BY <1>12, <2>3
<1>14. Within(fat + per, fat + per, written)
  <2>1. <<fat + per, fat + per + 1 - 1>> \in written BY <1>9, <1>11
  <2>2. fat + per + 1 - 1 = fat + per BY <1>1
  <2>3. <<fat + per, fat + per>> \in written BY <2>1, <2>2
  <2>4. fat + per \in Int BY <1>1
  <2> QED BY <1>12, <2>3, <2>4
<1>15. Within(fat + 1, fat + per - 1, written)
  <2>1. <<fat + 1, fat + 1 + (per - 1) - 1>> \in written BY <1>9, <1>11
  <2>2. fat + 1 + (per - 1) - 1 = fat + per - 1 BY <1>1
  <2>3. <<fat + 1, fat + per - 1>> \in written BY <2>1, <2>2
  <2>4. fat + 1 \in Int /\ fat + per - 1 \in Int BY <1>1
  <2> QED BY <1>12, <2>3, <2>4
<1>16. Within(fat + per + 1, fat + per + per - 1, written)
  <2>1. <<fat + 1 + per, fat + 1 + per + (per - 1) - 1>> \in written BY <1>9, <1>11
  <2>2. fat + 1 + per + (per - 1) - 1 = fat + per + per - 1 /\ fat + 1 + per = fat + per + 1
    BY <1>1
  <2>3. <<fat + per + 1, fat + per + per - 1>> \in written BY <2>1, <2>2
  <2>4. fat + per + 1 \in Int /\ fat + per + per - 1 \in Int BY <1>1
  <2> QED BY <1>12, <2>3, <2>4
<1>17. Within(root, root, written)
  <2>1. <<root, root + 1 - 1>> \in written BY <1>9, <1>11
  <2>2. root + 1 - 1 = root OBVIOUS
  <2>3. <<root, root>> \in written BY <2>1, <2>2
  <2> QED BY <1>12, <2>3
<1>18. Within(root + 1, root + rest, written)
  <2>1. <<root + 1, root + 1 + rest - 1>> \in written BY <1>9, <1>11
  <2>2. root + 1 + rest - 1 = root + rest OBVIOUS
  <2>3. <<root + 1, root + rest>> \in written BY <2>1, <2>2
  <2> QED BY <1>12, <2>3
<1>19. (IF v.roots # 0 THEN v.root + v.roots - 1 ELSE v.data + v.spc - 1) = root + rest
  <2>1. CASE roots = 0 BY <1>1, <1>4, <1>6, <2>1
  <2>2. CASE roots = 32
    <3>1. rest = 32 - 1 BY <1>4, <2>2
    <3>2. v.root + v.roots - 1 = root + 32 - 1 /\ v.roots # 0 BY <1>6, <2>2
    <3> QED BY <3>1, <3>2
  <2> QED BY <1>1, <2>1, <2>2
<1>20. \A b \in {v.fat, v.fat + v.per} :
         /\ Within(b, b, written)
         /\ v.per > 1 => Within(b + 1, b + v.per - 1, written)
  BY <1>6, <1>13, <1>14, <1>15, <1>16
<1> QED BY <1>5, <1>6, <1>17, <1>18, <1>19, <1>20

\* The type that a mounted volume has is the one of its layout.
LEMMA TypeIsKept ==
  ASSUME NEW g, GoodLayout(g), ~ Ambiguous(g)
  PROVE  Volume(Boot(g), g.start).type = g.type
<1> DEFINE n == (g.count - (g.reserved + 2 * g.per + g.roots)) \div g.spc
           v == Volume(Boot(g), g.start)
<1>1. v.clusters = n /\ v.type = TypeOf(n, g.roots) BY DEF Volume, Boot
<1>2. CASE g.type = 32 BY <1>1, <1>2 DEF GoodLayout, TypeOf
<1>3. CASE g.type = 16
  <2>1. n >= 4086 /\ g.roots = 32 BY <1>3 DEF GoodLayout
  <2>2. ~ (n >= 65525) BY <1>1, <1>3 DEF Ambiguous
  <2>3. n \in Int
    <3>1. /\ g.count \in Nat /\ g.reserved \in Nat /\ g.per \in Nat /\ g.roots \in Nat
          /\ g.spc \in SectorsPerCluster
      BY <1>3 DEF GoodLayout
    <3>2. PICK x \in Int : x = g.count - (g.reserved + 2 * g.per + g.roots) BY <3>1
    <3>3. g.spc \in Nat \ {0} BY <3>1 DEF SectorsPerCluster
    <3> QED BY <3>2, <3>3
  <2> HIDE DEF n
  <2> QED BY <1>1, <1>3, <2>1, <2>2, <2>3 DEF TypeOf, TypeByCount
<1> QED BY <1>2, <1>3 DEF GoodLayout

\* The first i writes of a format are done: those that may not fail are in `written', and
\* the two sectors by which the volume is known are on the disk.
Laid(g, written, d, i) ==
  \A x \in 1 .. i : LET w == FormatWrites(g)[x] IN
    /\ w.firm => Ranges(w) \subseteq written
    /\ w \in Marks(g) => Sector(d, w.at) = w.what

\* FF_Format has been through the first i writes; it is at work on none of the volumes that
\* it has made.
FormatGoesOn ==
  job.fn = "format" =>
    /\ "written" \in DOMAIN job
    /\ \A f \in formatted : f.plan.start # job.plan.start
    /\ \E i \in 0 .. Len(FormatWrites(job.plan)) :
         /\ job.todo = Rest(FormatWrites(job.plan), i)
         /\ Laid(job.plan, job.written, disk, i)

\* The volumes made in the partitions asked for are there.
VolumesStand ==
  asked # <<>> =>
    \A f \in formatted :
      IsAsked(f.plan) /\ Laid(f.plan, f.written, disk, Len(FormatWrites(f.plan)))

NothingIsFormatted == job.fn = "partition" => formatted = {}

FInv == FormatGoesOn /\ VolumesStand /\ NothingIsFormatted

LEMMA InitFInv == Init => FInv
BY DEF Init, NoJob, FInv, FormatGoesOn, VolumesStand, NothingIsFormatted

\* A write of FF_Format to another partition leaves a volume as it is.
LEMMA OthersStand ==
  ASSUME IInv, TInv, FInv, job.fn = "format", job.todo # <<>>, NEW k \in Nat,
         k <= Head(job.todo).count, disk' = After(disk, Head(job.todo), k),
         size' = size, asked' = asked, formatted' = formatted
  PROVE  VolumesStand'
<1> SUFFICES ASSUME asked # <<>>, NEW f \in formatted
             PROVE  IsAsked(f.plan) /\ Laid(f.plan, f.written, disk', Len(FormatWrites(f.plan)))
  BY DEF VolumesStand, IsAsked
<1>1. IsAsked(f.plan) /\ Laid(f.plan, f.written, disk, Len(FormatWrites(f.plan)))
  BY DEF FInv, VolumesStand
<1>2. PICK g : g = f.plan OBVIOUS
<1>3. PICK p : p = job.plan OBVIOUS
<1>4. GoodLayout(g) BY <1>2 DEF IInv, FormattedIsGood
<1>5. GoodLayout(p) BY <1>3 DEF IInv, JobIsPlanned
<1>6. p.start \in Nat /\ p.count \in Nat /\ g.start \in Nat /\ g.count \in Nat
  BY <1>4, <1>5 DEF GoodLayout
<1>7. PICK w : w = Head(job.todo) OBVIOUS
<1>8. GoodWrite(w) /\ Inside(w, p)
  BY <1>3, <1>7, HeadTailProperties DEF IInv, WritesAreGood
<1>9. PICK i \in 1 .. Len(asked) : asked[i].start = g.start /\ asked[i].count = g.count
  BY <1>1, <1>2 DEF IsAsked
<1>10. PICK j \in 1 .. Len(asked) : asked[j].start = p.start /\ asked[j].count = p.count
  BY <1>3 DEF TInv, FormatIsOfAsked, IsAsked
<1>11. g.start # p.start BY <1>2, <1>3 DEF FInv, FormatGoesOn
<1>12. g.start + g.count <= p.start \/ p.start + p.count <= g.start
  <2>1. asked \in Seq(Parts) /\ Apart(asked, size) BY AskedIsFound DEF TInv
  <2>2. DOMAIN asked = 1 .. Len(asked) BY <2>1, LenProperties
  <2>3. i # j BY <1>9, <1>10, <1>11
  <2>4. i \in DOMAIN asked /\ j \in DOMAIN asked \ {i} BY <2>2, <2>3
  <2> QED BY <1>9, <1>10, <2>1, <2>4 DEF Apart
<1>13. PICK F : F = FormatWrites(g) OBVIOUS
<1>14. ASSUME NEW x \in 1 .. Len(F), F[x] \in Marks(g)
       PROVE  Sector(disk', F[x].at) = F[x].what
  <2>1. PICK s : s = F[x].at OBVIOUS
  <2>2. s \in Nat /\ g.start <= s /\ s < g.start + g.count BY <1>4, <1>13, <1>14, <2>1, MarksStay
  <2>3. s < p.start \/ p.start + p.count <= s BY SMTT(40), <1>6, <1>12, <2>2
  <2>4. Sector(After(disk, w, k), s) = Sector(disk, s)
    BY <1>6, <1>7, <1>8, <2>2, <2>3, OutsideStays
  <2>5. Sector(disk, s) = F[x].what BY <1>1, <1>2, <1>13, <1>14, <2>1 DEF Laid
  <2> QED BY <1>7, <2>1, <2>4, <2>5
<1>15. Laid(g, f.written, disk', Len(F))
  <2>1. \A x \in 1 .. Len(F) : F[x].firm => Ranges(F[x]) \subseteq f.written
    BY <1>1, <1>2, <1>13 DEF Laid
  <2> QED BY <1>13, <1>14, <2>1 DEF Laid
<1> QED BY <1>1, <1>2, <1>13, <1>15

LEMMA PartitionFInv ==
  ASSUME NEW r \in Requests, Partition(r)
  PROVE  FInv'
<1>1. job'.fn = "partition" /\ asked' = <<>> /\ formatted' = {} BY DEF Partition
<1> QED BY <1>1 DEF FInv, FormatGoesOn, VolumesStand, NothingIsFormatted

LEMMA FormatFInv ==
  ASSUME IInv, IInv', FInv, NEW n, NEW prefer16, NEW small, Format(n, prefer16, small)
  PROVE  FInv'
<1>1. PICK g \in Layouts(Search(disk)[n], prefer16, small) :
        /\ job' = [fn |-> "format", plan |-> g, todo |-> FormatWrites(g), written |-> {}]
        /\ formatted' = {f \in formatted : f.plan.start # g.start}
  BY DEF Format
<1>2. asked' = asked /\ disk' = disk BY DEF Format
<1>3. job'.plan = g /\ job'.todo = FormatWrites(g) /\ job'.fn = "format" /\ "written" \in DOMAIN job'
  BY <1>1
<1>4. GoodLayout(g) BY <1>3 DEF IInv, JobIsPlanned
<1>5. PICK F : F = FormatWrites(g) OBVIOUS
<1>6. PICK S : F \in Seq(S) BY <1>4, <1>5, MarksStay
<1>7. 0 \in 0 .. Len(F) BY <1>6, LenProperties
<1>8. Rest(F, 0) = F BY <1>6, <1>7, RestLess
<1>9. Laid(g, job'.written, disk', 0) BY DEF Laid
<1>10. FormatGoesOn' BY <1>1, <1>3, <1>5, <1>7, <1>8, <1>9 DEF FormatGoesOn
<1>11. VolumesStand' BY <1>1, <1>2 DEF FInv, VolumesStand, IsAsked
<1>12. NothingIsFormatted' BY <1>3 DEF NothingIsFormatted
<1> QED BY <1>10, <1>11, <1>12 DEF FInv

\* A function that stops half-way leaves the volumes.
LEMMA StoppedFInv ==
  ASSUME IInv, TInv, FInv, job.todo # <<>>, NEW k \in Nat, k <= Head(job.todo).count,
         disk' = After(disk, Head(job.todo), k), size' = size, asked' = asked, job' = NoJob,
         formatted' = formatted
  PROVE  FInv'
<1>1. VolumesStand'
  <2>1. CASE job.fn = "partition" BY <2>1 DEF TInv, TablesGoOn, VolumesStand
  <2>2. CASE job.fn = "format" BY <2>2, OthersStand
  <2> QED BY <2>1, <2>2, WriterIs
<1> QED BY <1>1 DEF FInv, FormatGoesOn, NothingIsFormatted, NoJob

\* FF_Format goes on after a write, done in full or allowed to fail.
LEMMA NextMark ==
  ASSUME IInv, TInv, FInv, job.fn = "format", job.todo # <<>>, NEW k \in Nat,
         k <= Head(job.todo).count, disk' = After(disk, Head(job.todo), k),
         size' = size, asked' = asked, formatted' = formatted,
         job'.fn = "format", job'.plan = job.plan, job'.todo = Tail(job.todo),
         "written" \in DOMAIN job', job.written \subseteq job'.written,
         Head(job.todo).firm =>
           k = Head(job.todo).count /\ Ranges(Head(job.todo)) \subseteq job'.written
  PROVE  FInv'
<1>1. VolumesStand' BY OthersStand
<1>2. NothingIsFormatted' BY DEF NothingIsFormatted
<1>3. PICK g : g = job.plan OBVIOUS
<1>4. PICK F : F = FormatWrites(g) OBVIOUS
<1>5. PICK i \in 0 .. Len(F) : job.todo = Rest(F, i) /\ Laid(g, job.written, disk, i)
  BY <1>3, <1>4 DEF FInv, FormatGoesOn
<1>6. GoodLayout(g) BY <1>3 DEF IInv, JobIsPlanned
<1>7. PICK S : F \in Seq(S) BY <1>4, <1>6, MarksStay
<1>8. i + 1 \in 1 .. Len(F) /\ Head(job.todo) = F[i + 1] /\ Tail(job.todo) = Rest(F, i + 1)
  BY <1>5, <1>7, RestLess
<1>9. PICK w : w = F[i + 1] OBVIOUS
<1>10. GoodWrite(w) BY <1>8, <1>9, HeadIsGood DEF IInv
<1>11. k \in Nat /\ k <= w.count /\ disk' = After(disk, w, k) BY <1>8, <1>9
<1>12. Len(F) \in Nat BY <1>7, LenProperties
<1>13. ASSUME NEW x \in 1 .. i + 1
       PROVE  /\ F[x].firm => Ranges(F[x]) \subseteq job'.written
              /\ F[x] \in Marks(g) => Sector(disk', F[x].at) = F[x].what
  <2>1. CASE x = i + 1
    <3>1. F[x].firm => Ranges(F[x]) \subseteq job'.written BY <1>8, <2>1
    <3>2. ASSUME F[x] \in Marks(g) PROVE Sector(disk', F[x].at) = F[x].what
      <4>1. w.at \in Nat /\ w.count = 1 /\ w.what # Blank /\ w.firm
        BY <1>4, <1>6, <1>9, <2>1, <3>2, MarksStay
      <4>2. disk' = After(disk, w, 1) BY <1>8, <1>9, <1>11, <4>1
      <4>3. w = Write(w.at, w.what)
        <5>1. \A a, b : Write(a, b).at = a /\ Write(a, b).what = b BY DEF Write
        <5>2. w = Write(g.start, Boot(g)) \/ w = Write(FatBegin(g), Fat)
          BY <1>9, <2>1, <3>2 DEF Marks
        <5> QED BY <5>1, <5>2
      <4>4. PICK at, what : at \in Nat /\ at = w.at /\ what = w.what BY <4>1
      <4>5. w = Write(at, what) /\ what # Blank BY <4>1, <4>3, <4>4
      <4>6. Sector(After(disk, Write(at, what), 1), at) = what BY <4>4, <4>5, AfterIsSet
      <4> QED BY <1>9, <2>1, <4>2, <4>4, <4>5, <4>6
    <3> QED BY <3>1, <3>2
  <2>2. CASE x \in 1 .. i
    <3>1. F[x].firm => Ranges(F[x]) \subseteq job'.written BY <1>4, <1>5, <2>2 DEF Laid
    <3>2. ASSUME F[x] \in Marks(g) PROVE Sector(disk', F[x].at) = F[x].what
      <4>1. x \in 1 .. Len(F) /\ i + 1 \in 1 .. Len(F) /\ x < i + 1 BY <1>8, <1>12, <2>2
      <4>2. PICK y \in 1 .. Len(F) : y = i + 1 BY <4>1
      <4>3. Spares(F[y], F[x].at) BY <1>4, <1>6, <3>2, <4>1, <4>2, MarksStay
      <4>4. PICK s : s = F[x].at OBVIOUS
      <4>5. Spares(w, s) BY <1>9, <4>2, <4>3, <4>4
      <4>6. ~ (s \in w.at .. w.at + k - 1) /\ ~ (s \in w.at + w.copy .. w.at + w.copy + k - 1)
        <5>1. s \in Nat BY <1>4, <1>6, <3>2, <4>1, <4>4, MarksStay
        <5>2. /\ w.at \in Nat /\ w.count \in Nat /\ w.copy \in Nat
              /\ ~ (s \in w.at .. w.at + w.count - 1)
              /\ ~ (s \in w.at + w.copy .. w.at + w.copy + w.count - 1)
          BY <4>5 DEF Spares
        <5>3. PICK at, count, copy : at = w.at /\ count = w.count /\ copy = w.copy OBVIOUS
        <5>4. at \in Nat /\ count \in Nat /\ copy \in Nat /\ k <= count BY <1>11, <5>2, <5>3
        <5>5. s < at \/ at + count - 1 < s BY <5>1, <5>2, <5>3, <5>4
        <5>6. s < at + copy \/ at + copy + count - 1 < s BY <5>1, <5>2, <5>3, <5>4
        <5>7. ~ (s \in at .. at + k - 1) BY <1>11, <5>1, <5>4, <5>5
        <5>8. ~ (s \in at + copy .. at + copy + k - 1) BY <1>11, <5>1, <5>4, <5>6
        <5> QED BY <5>3, <5>7, <5>8
      <4>7. Sector(After(disk, w, k), s) = Sector(disk, s) BY <1>10, <1>11, <4>6, AfterElsewhere
      <4>8. Sector(disk, s) = F[x].what BY <1>4, <1>5, <2>2, <3>2, <4>4 DEF Laid
      <4> QED BY <1>11, <4>4, <4>7, <4>8
    <3> QED BY <3>1, <3>2
  <2> QED BY <1>12, <2>1, <2>2
<1>14. Laid(g, job'.written, disk', i + 1) BY <1>4, <1>13 DEF Laid
<1>15. i + 1 \in 0 .. Len(F) BY <1>8, <1>12
<1>16. \A f \in formatted : f.plan.start # job.plan.start BY DEF FInv, FormatGoesOn
<1>17. FormatGoesOn' BY <1>3, <1>4, <1>8, <1>14, <1>15, <1>16 DEF FormatGoesOn
<1> QED BY <1>1, <1>2, <1>17 DEF FInv

LEMMA WriteNextFInv == ASSUME IInv, TInv, FInv, WriteNext PROVE FInv'
<1>1. /\ job.todo # <<>> /\ size' = size /\ asked' = asked /\ formatted' = formatted
      /\ disk' = After(disk, Head(job.todo), Head(job.todo).count)
  BY DEF WriteNext, Performed
<1>2. CASE job.fn = "format"
  <2>1. job' = [job EXCEPT !.todo = Tail(@), !.written = @ \cup Ranges(Head(job.todo))]
    BY <1>2 DEF WriteNext, Performed
  <2>2. {"fn", "todo", "plan", "written"} \subseteq DOMAIN job
    BY <1>2 DEF IInv, JobIsPlanned, FInv, FormatGoesOn
  <2>3. /\ job'.fn = "format" /\ job'.plan = job.plan /\ job'.todo = Tail(job.todo)
        /\ "written" \in DOMAIN job' /\ job'.written = job.written \cup Ranges(Head(job.todo))
    BY <1>2, <2>1, <2>2
  <2>4. Head(job.todo).count \in Nat BY <1>1, HeadIsGood DEF IInv, GoodWrite
  <2>5. Head(job.todo).count <= Head(job.todo).count BY <2>4
  <2>6. /\ job.written \subseteq job'.written /\ Ranges(Head(job.todo)) \subseteq job'.written
    BY <2>3
  <2> QED BY <1>1, <1>2, <2>3, <2>4, <2>5, <2>6, NextMark
<1>3. CASE job.fn = "partition"
  <2>1. job' = [job EXCEPT !.todo = Tail(@)] BY <1>3 DEF WriteNext, Performed
  <2>2. asked = <<>> /\ formatted = {}
    BY <1>3 DEF TInv, TablesGoOn, FInv, NothingIsFormatted
  <2>3. "fn" \in DOMAIN job BY DEF IInv, JobIsPlanned
  <2>4. job'.fn = "partition" BY <1>3, <2>1, <2>3
  <2> QED BY <1>1, <2>2, <2>4 DEF FInv, FormatGoesOn, VolumesStand, NothingIsFormatted
<1> QED BY <1>1, <1>2, <1>3, WriterIs

LEMMA WriteFailsFInv == ASSUME IInv, TInv, FInv, WriteFails PROVE FInv'
<1>1. job.todo # <<>> /\ size' = size /\ asked' = asked /\ formatted' = formatted BY DEF WriteFails
<1>2. PICK k \in {0, Head(job.todo).count \div 2} : disk' = After(disk, Head(job.todo), k)
  BY DEF WriteFails
<1>3. k \in Nat /\ k <= Head(job.todo).count BY <1>1, HalfIsLess
<1>4. CASE job' = NoJob BY <1>1, <1>2, <1>3, <1>4, StoppedFInv
<1>5. CASE job.fn = "format" /\ ~ Head(job.todo).firm /\ job' = [job EXCEPT !.todo = Tail(@)]
  <2>2. {"fn", "todo", "plan", "written"} \subseteq DOMAIN job
    BY <1>5 DEF IInv, JobIsPlanned, FInv, FormatGoesOn
  <2>3. /\ job'.fn = "format" /\ job'.plan = job.plan /\ job'.todo = Tail(job.todo)
        /\ "written" \in DOMAIN job' /\ job'.written = job.written
    BY <1>5, <2>2
  <2> QED BY <1>1, <1>2, <1>3, <1>5, <2>3, NextMark
<1> QED BY <1>4, <1>5 DEF WriteFails

LEMMA FlushFailsFInv == ASSUME IInv, TInv, FInv, FlushFails PROVE FInv'
<1>1. /\ asked' = asked /\ formatted' = formatted /\ job.fn = "partition"
      /\ job' = [job EXCEPT !.todo = Tail(@), !.lost = TRUE]
  BY DEF FlushFails
<1>2. asked = <<>> /\ formatted = {}
  BY <1>1 DEF TInv, TablesGoOn, FInv, NothingIsFormatted
<1>3. "fn" \in DOMAIN job BY DEF IInv, JobIsPlanned
<1>4. job'.fn = "partition" BY <1>1, <1>3
<1> QED BY <1>1, <1>2, <1>4 DEF FInv, FormatGoesOn, VolumesStand, NothingIsFormatted

LEMMA DoneFInv == ASSUME IInv, TInv, FInv, Done PROVE FInv'
<1>1. job' = NoJob /\ job # NoJob /\ job.todo = <<>> /\ disk' = disk BY DEF Done
<1>2. FormatGoesOn' /\ NothingIsFormatted' BY <1>1 DEF NoJob, FormatGoesOn, NothingIsFormatted
<1>3. CASE job.fn = "partition"
  <2>1. formatted' = {} BY <1>3 DEF Done, FInv, NothingIsFormatted
  <2> QED BY <1>2, <2>1 DEF FInv, VolumesStand
<1>4. CASE job.fn = "format"
  <2>1. /\ formatted' = formatted \cup {[plan |-> job.plan, written |-> job.written]}
        /\ asked' = asked
    BY <1>4 DEF Done
  <2>2. PICK g : g = job.plan OBVIOUS
  <2>3. PICK F : F = FormatWrites(g) OBVIOUS
  <2>4. PICK i \in 0 .. Len(F) : job.todo = Rest(F, i) /\ Laid(g, job.written, disk, i)
    BY <1>4, <2>2, <2>3 DEF FInv, FormatGoesOn
  <2>5. GoodLayout(g) BY <1>4, <2>2 DEF IInv, JobIsPlanned
  <2>6. PICK S : F \in Seq(S) BY <2>3, <2>5, MarksStay
  <2>7. i = Len(F) BY <1>1, <2>4, <2>6, RestLess
  <2>8. ASSUME asked # <<>>, NEW f \in formatted'
        PROVE  IsAsked(f.plan) /\ Laid(f.plan, f.written, disk, Len(FormatWrites(f.plan)))
    <3>1. CASE f \in formatted BY <2>8, <3>1 DEF FInv, VolumesStand
    <3>2. CASE f = [plan |-> job.plan, written |-> job.written]
      <4>1. f.plan = g /\ f.written = job.written BY <2>2, <3>2
      <4>2. IsAsked(g) BY <1>4, <2>2, <2>8 DEF TInv, FormatIsOfAsked
      <4> QED BY <2>3, <2>4, <2>7, <4>1, <4>2
    <3> QED BY <2>1, <3>1, <3>2
  <2>9. VolumesStand' BY <1>1, <2>1, <2>8 DEF VolumesStand, IsAsked
  <2> QED BY <1>2, <2>9 DEF FInv
<1> QED BY <1>1, <1>3, <1>4 DEF IInv, JobIsPlanned

LEMMA CrashFInv == ASSUME IInv, TInv, FInv, Crash PROVE FInv'
<1>1. job' = NoJob /\ job.todo # <<>> /\ size' = size /\ asked' = asked /\ formatted' = formatted
  BY DEF Crash
<1>2. PICK k \in {0, Head(job.todo).count \div 2} : disk' = After(disk, Head(job.todo), k)
  BY DEF Crash
<1>3. k \in Nat /\ k <= Head(job.todo).count BY <1>1, HalfIsLess
<1> QED BY <1>1, <1>2, <1>3, StoppedFInv

LEMMA NextFInv == IInv /\ TInv /\ FInv /\ [Next]_vars => FInv'
<1> SUFFICES ASSUME IInv, TInv, FInv, [Next]_vars PROVE FInv' OBVIOUS
<1>1. CASE \E r \in Requests : Partition(r) BY <1>1, PartitionFInv
<1>2. CASE \E n \in 1 .. MaxParts, prefer16, small \in BOOLEAN : Format(n, prefer16, small)
  <2>1. IInv' BY NextIInv
  <2> QED BY <1>2, <2>1, FormatFInv
<1>3. CASE WriteNext BY <1>3, WriteNextFInv
<1>4. CASE WriteFails BY <1>4, WriteFailsFInv
<1>5. CASE FlushFails BY <1>5, FlushFailsFInv
<1>6. CASE Done BY <1>6, DoneFInv
<1>7. CASE Crash BY <1>7, CrashFInv
<1>8. CASE UNCHANGED vars
  BY <1>8 DEF vars, FInv, FormatGoesOn, VolumesStand, IsAsked, NothingIsFormatted
<1> QED BY <1>1, <1>2, <1>3, <1>4, <1>5, <1>6, <1>7, <1>8 DEF Next

LEMMA VolumesInvariance == Spec => [](IInv /\ TInv /\ FInv)
<1> QED BY InitIInv, InitTInv, InitFInv, NextIInv, NextTInv, NextFInv, PTL DEF Spec

\* A volume made in one of the partitions asked for mounts with the type it was given, and
\* all of it was written.
THEOREM FormattedVolumesMount == Spec => [](asked # <<>> => FormattedMounts)
<1>1. ASSUME IInv, TInv, FInv, asked # <<>>, NEW f \in formatted, ~ Ambiguous(f.plan)
      PROVE  \E n \in DOMAIN Search(disk) :
               LET g == f.plan
                   v == Mount(disk, n) IN
               /\ Search(disk)[n].start = g.start /\ Mountable(disk, n)
               /\ v.type = g.type
               /\ \A b \in {v.fat, v.fat + v.per} :
                    /\ Within(b, b, f.written)
                    /\ v.per > 1 => Within(b + 1, b + v.per - 1, f.written)
               /\ LET last == IF v.roots # 0 THEN v.root + v.roots - 1
                              ELSE v.data + v.spc - 1 IN
                  Within(v.root, v.root, f.written)
                  /\ (last > v.root => Within(v.root + 1, last, f.written))
  <2>1. PICK g : g = f.plan OBVIOUS
  <2>2. PICK F : F = FormatWrites(g) OBVIOUS
  <2>3. IsAsked(g) /\ Laid(g, f.written, disk, Len(F)) BY <1>1, <2>1, <2>2 DEF FInv, VolumesStand
  <2>4. GoodLayout(g) BY <1>1, <2>1 DEF IInv, FormattedIsGood
  <2>5. PICK i \in 1 .. Len(asked) : asked[i].start = g.start /\ asked[i].count # 0
    BY <2>3 DEF IsAsked
  <2>6. /\ Search(disk) = Kept(asked, Len(asked)) /\ asked \in Seq(Parts) /\ Apart(asked, size)
    BY <1>1, AskedIsFound DEF TInv
  <2>7. Len(asked) \in 0 .. Len(asked) BY <2>6, LenProperties
  <2>8. PICK n \in 1 .. Len(Search(disk)) : Search(disk)[n] = asked[i]
    BY <2>5, <2>6, <2>7, KeptIsApart
  <2>9. n \in DOMAIN Search(disk)
    <3>1. Search(disk) \in Seq(Parts) BY <1>1, SearchType DEF IInv
    <3> QED BY <2>8, <3>1, LenProperties
  <2>10. Search(disk)[n].start = g.start BY <2>5, <2>8
  <2>11. ASSUME NEW m \in Marks(g) PROVE Sector(disk, m.at) = m.what
    <3>1. PICK x \in 1 .. Len(F) : F[x] = m BY <2>2, <2>4, MarksStay
    <3> QED BY <2>2, <2>3, <3>1 DEF Laid
  <2>12. Sector(disk, g.start) = Boot(g) /\ Sector(disk, FatBegin(g)) = Fat
    <3>1. Write(g.start, Boot(g)) \in Marks(g) /\ Write(FatBegin(g), Fat) \in Marks(g)
      BY DEF Marks
    <3>2. /\ Write(g.start, Boot(g)).at = g.start /\ Write(g.start, Boot(g)).what = Boot(g)
          /\ Write(FatBegin(g), Fat).at = FatBegin(g) /\ Write(FatBegin(g), Fat).what = Fat
      BY DEF Write
    <3> QED BY <2>11, <3>1, <3>2
  <2>13. First(disk, n) = Boot(g) BY <2>10, <2>12 DEF First
  <2>14. Mountable(disk, n)
    <3>1. Boot(g).kind = "boot" /\ Boot(g).reserved = g.reserved BY DEF Boot
    <3> QED BY <2>10, <2>12, <2>13, <3>1 DEF Mountable, FatBegin
  <2>15. PICK v : v = Mount(disk, n) OBVIOUS
  <2>16. v = Volume(Boot(g), g.start) BY <2>10, <2>13, <2>15 DEF Mount
  <2>17. v.type = g.type BY <1>1, <2>1, <2>4, <2>16, TypeIsKept
  <2>18. \A x \in 1 .. Len(F) : F[x].firm => Ranges(F[x]) \subseteq f.written
    BY <2>2, <2>3 DEF Laid
  <2>19. /\ \A b \in {v.fat, v.fat + v.per} :
              /\ Within(b, b, f.written)
              /\ v.per > 1 => Within(b + 1, b + v.per - 1, f.written)
         /\ LET last == IF v.roots # 0 THEN v.root + v.roots - 1 ELSE v.data + v.spc - 1 IN
            Within(v.root, v.root, f.written)
            /\ (last > v.root => Within(v.root + 1, last, f.written))
    BY <2>2, <2>4, <2>16, <2>18, VolumeIsWritten
  <2> QED BY <2>1, <2>9, <2>10, <2>14, <2>15, <2>17, <2>19
<1>2. IInv /\ TInv /\ FInv => (asked # <<>> => FormattedMounts) BY <1>1 DEF FormattedMounts
<1> QED BY <1>2, VolumesInvariance, PTL
=============================================================================
