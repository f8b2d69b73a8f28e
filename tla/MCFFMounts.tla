------------------------------ MODULE MCFFMounts ------------------------------
(* TLC instances of FFMounts. *)
EXTENDS FFMounts, TLC

CONSTANTS d1, d2

P(q) == [absolute |-> TRUE, names |-> q]
Rel(q) == [absolute |-> FALSE, names |-> q]
Add(q, d) == [NoCall EXCEPT !.fn = "add", !.path = P(q), !.disk = d]
Without(q) == [NoCall EXCEPT !.fn = "remove", !.path = P(q)]
On(fn, d) == [NoCall EXCEPT !.fn = fn, !.disk = d]
With(fn, p) == [NoCall EXCEPT !.fn = fn, !.path = p]

MCTail == [n \in {"..", "a..b"} |-> IF n = ".." THEN "" ELSE "b"]

MCStarts ==
  {<<>>, <<<<<<>>, d1>>>>,
   <<<<<<>>, d1>>, <<<<"a">>, d2>>>>,
   <<<<<<>>, Nothing>>, <<<<"a">>, d1>>, <<<<"b">>, d2>>, <<<<"c">>, d1>>>>}

MCCalls ==
  {Add(<<>>, d1), Add(<<"a">>, d2), Add(<<"b">>, d1), Add(<<"a", "b">>, d1),
   Without(<<"a">>), Without(<<"b">>), Without(<<>>),
   On("mount", d1), On("unmount", d1), On("mount", d2), On("unmount", d2),
   With("open", P(<<"a", "f">>)), With("open", Rel(<<"b", "f">>)), With("open", Rel(<<"f">>)),
   With("close", NoPath), With("list", P(<<>>)), With("list", Rel(<<"..", "b">>)),
   With("list", P(<<"a", "s">>)),
   With("chdir", P(<<"a">>)), With("chdir", Rel(<<"..">>)),
   [With("rename", Rel(<<"f">>)) EXCEPT !.to = P(<<"b", "f">>)]}

Symmetry == Permutations(Tasks)
=============================================================================
