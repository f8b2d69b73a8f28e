------------------------------- MODULE FFPaths -------------------------------
(***************************************************************************)
(* Paths: the working directory and prvProcessRelativePaths of             *)
(* src/ff_stdio.c.  A path is a sequence of names, and the root is <<>>.   *)
(* The code looks for two dots anywhere in the string: a name with two     *)
(* dots in it, of which ".." is one, is told apart here only by what       *)
(* follows them and by whether it begins with them.  A name has two dots   *)
(* at one place at most, and no name is empty.                             *)
(***************************************************************************)
EXTENDS Naturals, SequencesExt

CONSTANTS
  AfterDots, \* what follows the two dots in each name that has them, "" if nothing
  Leading    \* the names that begin with two dots

ASSUME PathsAssumption ==
  /\ ".." \in Leading /\ Leading \subseteq DOMAIN AfterDots /\ AfterDots[".."] = ""
  /\ \A n \in DOMAIN AfterDots : AfterDots[n] \notin DOMAIN AfterDots

Cut(p, k) == SubSeq(p, 1, k - 1)
After(p, k) == SubSeq(p, k + 1, Len(p))
Rest(n) == IF AfterDots[n] = "" THEN <<>> ELSE <<AfterDots[n]>>

\* Where the dots are taken for a step up: not at the start of the path, where
\* pcTokenStart is NULL.
Bites(p, k) == p[k] \in DOMAIN AfterDots /\ (k > 1 \/ p[k] \notin Leading)

\* Mutant: the name before the dots stays.
DropOne(p, k) == Cut(p, k) \o Rest(p[k]) \o After(p, k)

\* pcTokenStart is the start of the name with the dots, or of the one before it if
\* the dots come first: from there up to the dots and a following '/' is cut out.
Drop(p, k) ==
  (IF p[k] \in Leading THEN Cut(p, k - 1) ELSE Cut(p, k)) \o Rest(p[k]) \o After(p, k)

\* One round, for the first dots; the scan starts again after each.
Shorten(p) ==
  LET at == {k \in DOMAIN p : Bites(p, k)} IN
  IF at = {} THEN p ELSE Drop(p, CHOOSE k \in at : \A j \in at : k <= j)

\* prvProcessRelativePaths: each round uses up one name with dots.
Processed(p) ==
  LET round[n \in 0 .. Len(p)] == IF n = 0 THEN p ELSE Shorten(round[n - 1]) IN
  round[Len(p)]

\* prvABSPath
AbsPath(cwd, p) == Processed(IF p.absolute THEN p.names ELSE cwd \o p.names)

-----------------------------------------------------------------------------
(* What a path means: "." is here, ".." one up, the root its own parent. *)

Walk(dir, n) == CASE n = "." -> dir
                  [] n = ".." -> IF dir = <<>> THEN <<>> ELSE Front(dir)
                  [] OTHER -> Append(dir, n)
Meaning(p) ==
  LET dir[n \in 0 .. Len(p)] == IF n = 0 THEN <<>> ELSE Walk(dir[n - 1], p[n]) IN
  dir[Len(p)]

\* Paths the code gets right: no name has dots in it, and "." and ".." are not mixed
\* ("/a/./.." is made "/a").
Plain(p) ==
  /\ \A k \in DOMAIN p : p[k] \in DOMAIN AfterDots => p[k] = ".."
  /\ ~ (\E j, k \in DOMAIN p : p[j] = "." /\ p[k] = "..")

NamesItself(p) == Meaning(Processed(p)) = Meaning(p)
=============================================================================
