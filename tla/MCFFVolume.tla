----------------------------- MODULE MCFFVolume -----------------------------
(* TLC instances of FFVolume. *)
EXTENDS FFVolume

Ask(sizes, unit, primary) ==
  [sizes |-> sizes, unit |-> unit, primary |-> primary, hidden |-> 0, inter |-> 0]

\* The fourth and the fifth have their first two tables in the same sectors: a chain of
\* new tables can go on with old ones.  On the smallest disk the last has one percent of
\* 74 sectors for its first partition, which is none.  Of the second's three shares
\* the last is left out: a primary partition without a sector takes its place.
MCRequests ==
  {Ask(<<>>, "percent", 1), Ask(<<0, 1, 2, 1>>, "quota", 1),
   Ask(<<25, 25, 25, 25>>, "percent", 3),
   [Ask(<<9000, 70000, 9000, 9000>>, "sectors", 0) EXCEPT !.inter = 64, !.hidden = 5000],
   [Ask(<<9000, 30000, 30000>>, "sectors", 0) EXCEPT !.inter = 64, !.hidden = 5000],
   [Ask(<<1, 99>>, "percent", 0) EXCEPT !.inter = 10, !.hidden = 66501]}

DiskSizes == {66595, 1049900, 4200000}
EmptyDisk == [s \in {} |-> Blank]

\* A volume without a partition table.
OldVolume(n) ==
  [s \in {0} |-> Boot([reserved |-> 1, per |-> 64, spc |-> 4, roots |-> 32, count |-> n])]

MCStarts ==
  {[size |-> n, disk |-> EmptyDisk] : n \in DiskSizes}
  \cup {[size |-> 66595, disk |-> OldVolume(66595)]}
=============================================================================
