------------------------------ MODULE MCFFNames ------------------------------
(* TLC instances of FFNames. *)
EXTENDS FFNames, TLC

P(n) == [in |-> "", name |-> n]
In(d, n) == [in |-> d, name |-> n]

Open(p, m) == [NoCall EXCEPT !.fn = "open", !.path = p, !.mode = m]
RmFile(p) == [NoCall EXCEPT !.fn = "rmfile", !.path = p]
RmDir(p) == [NoCall EXCEPT !.fn = "rmdir", !.path = p]
MkDir(p) == [NoCall EXCEPT !.fn = "mkdir", !.path = p]
Rename(p, q) == [NoCall EXCEPT !.fn = "move", !.path = p, !.to = q]

MCAliases == <<"x~1", "x~2", "x~3">>

MCCalls ==
  {Open(P("s"), {"R"}), Open(P("s"), {"R", "W"}), Open(P("s"), {"W", "C", "T"}),
   Open(P("l"), {"W", "C", "T"}), Open(P("l"), {"R"}),
   Open(In("d", "s"), {"W", "C", "T"}), Open(P("x~1"), {"W", "C", "T"}),
   RmFile(P("s")), RmFile(P("l")), RmDir(P("d")), RmDir(P("s")), MkDir(P("d")), MkDir(P("m")),
   Rename(P("s"), P("l")), Rename(P("s"), In("d", "s")), Rename(P("s"), P("x~1")), Rename(P("d"), P("m"))}

\* Slots from a sequence, padded to the size of the directory.
Slots(q, n) == [i \in 0 .. n - 1 |-> IF i < Len(q) THEN q[i + 1] ELSE End]
Volume(q, sub, u) ==
  [dirs |-> [D \in Clusters \cup {Root} |-> IF D = Root THEN Slots(q, RootSlots)
               ELSE IF D = 2 THEN Slots(sub, DirSlots) ELSE Blank],
   used |-> u]

MCStarts ==
  {\* an empty directory, a file with contents and one without, long and short
   Volume(<<Entry("d", 2, 0, TRUE), Entry("s", 3, 1, FALSE)>>, <<Dots, Dots>>, {2, 3}),
   Volume(<<Deleted, Entry("s", 0, 0, FALSE), Lfn("l", "x~1"), Entry("x~1", 3, 1, FALSE)>>,
          <<>>, {3})}

NotStrayed == strays = {}
TaskSymmetry == Permutations(Tasks)
=============================================================================
