---------------------------- MODULE FFFileProofs ----------------------------
(* The inductive invariants of FFFile and the theorems proved with them.    *)
(*                                                                          *)
(* Typed holds whatever fails: every handle, call and entry has its type,   *)
(* and the numbers of a call stay within what the caller asked for, so that *)
(* no loop of FF_Read or FF_Write passes the end of the file or of the      *)
(* caller's buffer.                                                         *)
(*                                                                          *)
(* Sound holds as long as astray is empty: no device error and no full disk *)
(* has led the cursor away from the chain.  (What the code does after those *)
(* is what the runs that expect a violation show.)  It says that the        *)
(* cluster numbers of the file are one chain, that the cursor is where a    *)
(* walk from the first cluster would put it, that every unit written is     *)
(* where such a walk looks for it, and what FF_ExtendFile, FF_SetEof and    *)
(* FF_Close know between two of their steps.                                *)
(*                                                                          *)
(* KeptSound holds as long, too, and speaks of what the disk may have while *)
(* the cache has not written everything: of every link that the size of the *)
(* file counts on it has one version only, so that it does not matter in    *)
(* which order the cache writes.                                            *)
(*                                                                          *)
(* The proofs go from positions to chains, from chains to one step of a     *)
(* transfer and from there to the calls.                                    *)
EXTENDS FFFile, FFRecursion, FiniteSetTheorems

-----------------------------------------------------------------------------
(* Positions, clusters and sectors. *)

\* The sizes of sectors and clusters are positive.
LEMMA SizesArePositive ==
  /\ SectorUnits \in Nat \ {0} /\ SectorsPerCluster \in Nat \ {0}
  /\ ClusterUnits \in Nat \ {0} /\ ClusterUnits = SectorUnits * SectorsPerCluster
BY FileAssumption DEF ClusterUnits

\* A position is a cluster of the file and a place in it.
LEMMA Positions ==
  ASSUME NEW p \in Nat
  PROVE  /\ ClusterOf(p) \in Nat /\ ClusterPosition(p) \in 0 .. ClusterUnits - 1
         /\ p = ClusterUnits * ClusterOf(p) + ClusterPosition(p)
BY SizesArePositive, DivMod DEF ClusterOf, ClusterPosition

\* And there is one such cluster and place for every position.
LEMMA PositionsAreUnique ==
  ASSUME NEW k \in Nat, NEW o \in 0 .. ClusterUnits - 1
  PROVE  /\ ClusterOf(ClusterUnits * k + o) = k
         /\ ClusterPosition(ClusterUnits * k + o) = o
BY SizesArePositive, DivModUnique DEF ClusterOf, ClusterPosition

\* The place in a cluster is a sector of it and a place in that.
LEMMA Places ==
  ASSUME NEW p \in Nat
  PROVE  /\ Major(p) \in 0 .. SectorsPerCluster - 1
         /\ Minor(p) \in 0 .. SectorUnits - 1
         /\ ClusterPosition(p) = Major(p) * SectorUnits + Minor(p)
         /\ Minor(p) = p % SectorUnits
         /\ Major(p) = (p \div SectorUnits) % SectorsPerCluster
<1> DEFINE su == SectorUnits
           sc == SectorsPerCluster
           k == ClusterOf(p)
           r == ClusterPosition(p)
           j == Major(p)
           m == Minor(p)
<1>1. su \in Nat \ {0} /\ sc \in Nat \ {0} /\ ClusterUnits = su * sc
  BY SizesArePositive
<1>2. k \in Nat /\ r \in 0 .. ClusterUnits - 1 /\ p = ClusterUnits * k + r BY Positions
<1>3. j \in Nat /\ m \in 0 .. su - 1 /\ r = su * j + m
  <2>1. r \in Nat BY <1>2
  <2> QED BY <1>1, <2>1, DivMod DEF Major, Minor
<1> HIDE DEF k, r, j, m, su, sc
<1>4. j < sc
  <2>1. su * j <= r BY <1>1, <1>3
  <2>2. su * j < su * sc BY <1>1, <1>2, <1>3, <2>1
  <2> QED BY <1>1, <1>3, <2>2, StrictlyMonotone
<1>5. sc * k + j \in Nat /\ p = su * (sc * k + j) + m
  <2>1. sc * k \in Nat /\ su * (sc * k) = (su * sc) * k BY <1>1, <1>2
  <2>2. su * (sc * k + j) = su * (sc * k) + su * j BY <1>1, <1>3, <2>1
  <2> QED BY <1>1, <1>2, <1>3, <2>1, <2>2
<1>6. p \div su = sc * k + j /\ p % su = m BY <1>1, <1>3, <1>5, DivModUnique
<1>7. (sc * k + j) % sc = j
  <2>1. j \in 0 .. sc - 1 BY <1>1, <1>3, <1>4
  <2> QED BY <1>1, <1>2, <2>1, DivModUnique
<1>8. r = j * su + m BY <1>1, <1>3
<1>9. j \in 0 .. sc - 1 BY <1>1, <1>3, <1>4
<1> QED BY <1>3, <1>6, <1>7, <1>8, <1>9 DEF k, r, j, m, su, sc

\* A move by whole sectors keeps the place in a sector.
LEMMA SectorsKeepMinor ==
  ASSUME NEW p \in Nat, NEW n \in Nat, NEW j \in Nat, n = SectorUnits * j
  PROVE  (p + n) % SectorUnits = p % SectorUnits
<1> DEFINE q == p \div SectorUnits
           m == p % SectorUnits
<1>1. SectorUnits \in Nat \ {0} BY SizesArePositive
<1>2. q \in Nat /\ m \in 0 .. SectorUnits - 1 /\ p = SectorUnits * q + m BY <1>1, DivMod
<1> HIDE DEF q, m
<1>3. p + n = SectorUnits * (q + j) + m BY <1>1, <1>2
<1>4. q + j \in Nat BY <1>2
<1>5. (p + n) % SectorUnits = m BY <1>1, <1>2, <1>3, <1>4, DivModUnique
<1> QED BY <1>5 DEF m

-----------------------------------------------------------------------------
(* Walks along chains. *)

\* One step of FF_TraverseFAT.
Hop(d) == IF IsEnd(Link(d)) THEN d ELSE Link(d)

\* A walk that goes on like FF_TraverseFAT ends where it does.
LEMMA TraverseIs ==
  ASSUME NEW c, NEW n \in Nat, NEW g, g[0] = c, \A i \in 1 .. n : g[i] = Hop(g[i - 1])
  PROVE  TraverseFAT(c, n) = g[n]
<1> DEFINE E(f) == f = [i \in 0 .. n |->
                          IF i = 0 THEN c
                          ELSE LET d == f[i - 1] IN IF IsEnd(Link(d)) THEN d ELSE Link(d)]
           hop == CHOOSE f : E(f)
           f0 == [i \in 0 .. n |-> g[i]]
           S == {i \in 0 .. n : hop[i] = g[i]}
<1>1. TraverseFAT(c, n) = hop[n] BY DEF TraverseFAT
<1>2. E(f0)
  <2>1. \A i \in 0 .. n : f0[i] = IF i = 0 THEN c ELSE Hop(f0[i - 1])
    <3> SUFFICES ASSUME NEW i \in 0 .. n PROVE f0[i] = IF i = 0 THEN c ELSE Hop(f0[i - 1])
      OBVIOUS
    <3>1. CASE i = 0 BY <3>1
    <3>2. CASE i # 0
      <4>1. i \in 1 .. n /\ i - 1 \in 0 .. n BY <3>2
      <4> QED BY <4>1
    <3> QED BY <3>1, <3>2
  <2>2. f0 = [i \in 0 .. n |-> IF i = 0 THEN c ELSE Hop(f0[i - 1])]
    <3>1. f0 = [i \in 0 .. n |-> f0[i]] OBVIOUS
    <3> HIDE DEF f0
    <3> QED BY <2>1, <3>1
  <2> HIDE DEF f0
  <2> QED BY <2>2 DEF Hop
<1> HIDE DEF E
<1>3. E(hop) BY <1>2
<1> HIDE DEF hop
<1>4. \A i \in 0 .. n : hop[i] = IF i = 0 THEN c ELSE Hop(hop[i - 1])
  BY <1>3 DEF E, Hop
<1>5. 0 \in S BY <1>4
<1>6. \A i \in 0 .. n - 1 : i \in S => i + 1 \in S
  <2> SUFFICES ASSUME NEW i \in 0 .. n - 1, hop[i] = g[i] PROVE hop[i + 1] = g[i + 1]
    OBVIOUS
  <2>1. i + 1 \in 1 .. n /\ i + 1 \in 0 .. n /\ i + 1 # 0 /\ (i + 1) - 1 = i OBVIOUS
  <2>2. hop[i + 1] = Hop(hop[i]) BY <1>4, <2>1
  <2>3. g[i + 1] = Hop(g[i]) BY <2>1
  <2> QED BY <2>2, <2>3
<1> HIDE DEF S
<1>7. n \in S BY <1>5, <1>6, BoundedInduction
<1> QED BY <1>1, <1>7 DEF S

\* The clusters s[0], .., s[n - 1] are linked in this order, and the last ends the chain.
Links(F, s, n) ==
  /\ n \in Nat \ {0} /\ s \in [0 .. n - 1 -> Clusters]
  /\ \A i, j \in 0 .. n - 1 : s[i] = s[j] => i = j
  /\ \A i \in 0 .. n - 2 : F[s[i]] = s[i + 1]
  /\ F[s[n - 1]] = EOC

\* Clusters are numbered from 2 on; 0, 1 and the marks of the FAT are none of them.
LEMMA ClustersAreNumbers ==
  \A c \in Clusters : c \in Nat /\ ~ IsEnd(c) /\ c # Other
BY FileAssumption DEF IsEnd, Free, EOC, Other

\* FF_TraverseFAT on a chain.
LEMMA TraverseOnChain ==
  ASSUME NEW s, NEW n, Links(fat, s, n), NEW k \in 0 .. n - 1, NEW i \in Nat
  PROVE  TraverseFAT(s[k], i) = s[Least(k + i, n - 1)]
<1> DEFINE g == [j \in 0 .. i |-> s[Least(k + j, n - 1)]]
<1>1. n \in Nat \ {0} /\ s \in [0 .. n - 1 -> Clusters] BY DEF Links
<1>2. g[0] = s[k]
  <2>1. Least(k + 0, n - 1) = k BY <1>1 DEF Least
  <2> QED BY <2>1
<1>3. ASSUME NEW j \in 1 .. i PROVE g[j] = Hop(g[j - 1])
  <2>1. j - 1 \in 0 .. i /\ j \in 0 .. i OBVIOUS
  <2>2. CASE k + j - 1 < n - 1
    <3>1. /\ Least(k + (j - 1), n - 1) = k + j - 1 /\ Least(k + j, n - 1) = k + j
          /\ k + j - 1 \in 0 .. n - 2 /\ (k + j - 1) + 1 = k + j /\ k + j \in 0 .. n - 1
          /\ k + j - 1 \in 0 .. n - 1
      BY <1>1, <2>2 DEF Least
    <3>2. fat[s[k + j - 1]] = s[k + j] BY <3>1 DEF Links
    <3>3. Link(s[k + j - 1]) = s[k + j] BY <1>1, <3>1, <3>2 DEF Link
    <3>4. Hop(s[k + j - 1]) = s[k + j] BY <1>1, <3>1, <3>3, ClustersAreNumbers DEF Hop
    <3> QED BY <2>1, <3>1, <3>4
  <2>3. CASE k + j - 1 >= n - 1
    <3>1. Least(k + (j - 1), n - 1) = n - 1 /\ Least(k + j, n - 1) = n - 1 /\ n - 1 \in 0 .. n - 1
      BY <1>1, <2>3 DEF Least
    <3>2. Link(s[n - 1]) = EOC BY <1>1, <3>1 DEF Link, Links
    <3>3. Hop(s[n - 1]) = s[n - 1] BY <3>2 DEF Hop, IsEnd
    <3> QED BY <2>1, <3>1, <3>3
  <2> QED BY <1>1, <2>2, <2>3
<1>4. g[i] = s[Least(k + i, n - 1)] OBVIOUS
<1> HIDE DEF g
<1> QED BY <1>2, <1>3, <1>4, TraverseIs

\* A chain is no longer than there are clusters.
LEMMA ChainFits ==
  ASSUME NEW F, NEW s, NEW n, Links(F, s, n)
  PROVE  Cardinality(Clusters) \in Nat /\ n <= Cardinality(Clusters)
<1>1. n \in Nat \ {0} /\ s \in [0 .. n - 1 -> Clusters] BY DEF Links
<1> DEFINE t == [i \in 1 .. n |-> s[i - 1]]
           T == {s[i] : i \in 0 .. n - 1}
<1>2. IsFiniteSet(Clusters) /\ Cardinality(Clusters) \in Nat
  BY FileAssumption, FS_CardinalityType
<1>3. T \subseteq Clusters BY <1>1
<1>4. IsFiniteSet(T) /\ Cardinality(T) <= Cardinality(Clusters)
  BY <1>2, <1>3, FS_Subset
<1>5. t \in Bijection(1 .. n, T)
  <2>1. t \in [1 .. n -> T] BY <1>1
  <2>2. \A i, j \in 1 .. n : t[i] = t[j] => i = j
    <3> SUFFICES ASSUME NEW i \in 1 .. n, NEW j \in 1 .. n, t[i] = t[j] PROVE i = j OBVIOUS
    <3>1. i - 1 \in 0 .. n - 1 /\ j - 1 \in 0 .. n - 1 /\ s[i - 1] = s[j - 1] BY <1>1
    <3>2. i - 1 = j - 1 BY <3>1 DEF Links
    <3> QED BY <3>2
  <2>3. \A x \in T : \E i \in 1 .. n : t[i] = x
    <3> SUFFICES ASSUME NEW i \in 0 .. n - 1 PROVE \E j \in 1 .. n : t[j] = s[i] OBVIOUS
    <3>1. i + 1 \in 1 .. n /\ (i + 1) - 1 = i BY <1>1
    <3>2. t[i + 1] = s[i] BY <3>1
    <3> QED BY <3>1, <3>2
  <2> QED BY <2>1, <2>2, <2>3 DEF Bijection, Injection, Surjection, IsInjective
<1>6. ExistsBijection(1 .. n, T) BY <1>5 DEF ExistsBijection
<1>7. Cardinality(T) = n BY <1>1, <1>4, <1>6, FS_CountingElements
<1> QED BY <1>2, <1>4, <1>7

\* A walk of as many hops as the chain has clusters ends at its last one.
LEMMA EndOfChain ==
  ASSUME NEW s, NEW n, Links(fat, s, n), NEW k \in 0 .. n - 1
  PROVE  FindEndOfChain(s[k]) = s[n - 1]
<1> DEFINE m == Cardinality(Clusters)
<1>1. n \in Nat \ {0} /\ s \in [0 .. n - 1 -> Clusters] BY DEF Links
<1>2. m \in Nat /\ n <= m BY ChainFits
<1> HIDE DEF m
<1>3. TraverseFAT(s[k], m) = s[Least(k + m, n - 1)] BY <1>2, TraverseOnChain
<1>4. Least(k + m, n - 1) = n - 1 BY <1>1, <1>2 DEF Least
<1>5. ~ IsEnd(s[k]) BY <1>1, ClustersAreNumbers
<1> QED BY <1>3, <1>4, <1>5 DEF FindEndOfChain, m

\* The length FF_GetChainLength counts is that of the chain.
LEMMA LengthOnChain ==
  ASSUME NEW s, NEW n, Links(fat, s, n), NEW k \in 0 .. n - 1
  PROVE  ChainLength(s[k]) = n - k
<1> DEFINE m == Cardinality(Clusters)
           P(x) == /\ IsEnd(Link(TraverseFAT(s[k], x)))
                   /\ \A y \in 0 .. x - 1 : ~ IsEnd(Link(TraverseFAT(s[k], y)))
           last == n - 1 - k
<1>1. n \in Nat \ {0} /\ s \in [0 .. n - 1 -> Clusters] BY DEF Links
<1>2. m \in Nat /\ n <= m BY ChainFits
<1>3. ~ IsEnd(s[k]) BY <1>1, ClustersAreNumbers
<1>4. last \in 0 .. m /\ last \in Nat BY <1>1, <1>2
<1>5. \A x \in Nat : TraverseFAT(s[k], x) = s[Least(k + x, n - 1)] BY TraverseOnChain
<1>6. IsEnd(Link(TraverseFAT(s[k], last)))
  <2>1. Least(k + last, n - 1) = n - 1 BY <1>1 DEF Least
  <2>2. TraverseFAT(s[k], last) = s[n - 1] BY <1>4, <1>5, <2>1
  <2>3. Link(s[n - 1]) = EOC BY <1>1 DEF Link, Links
  <2> QED BY <2>2, <2>3 DEF IsEnd
<1>7. ASSUME NEW y \in Nat, y < last PROVE ~ IsEnd(Link(TraverseFAT(s[k], y)))
  <2>1. Least(k + y, n - 1) = k + y /\ k + y \in 0 .. n - 2 /\ k + y \in 0 .. n - 1
        /\ k + y + 1 \in 0 .. n - 1
    BY <1>1, <1>7 DEF Least
  <2>2. TraverseFAT(s[k], y) = s[k + y] BY <1>5, <2>1
  <2>3. fat[s[k + y]] = s[k + y + 1] BY <2>1 DEF Links
  <2>4. Link(s[k + y]) = s[k + y + 1] BY <1>1, <2>1, <2>3 DEF Link
  <2> QED BY <1>1, <2>1, <2>2, <2>4, ClustersAreNumbers
<1>8. P(last)
  <2>1. \A y \in 0 .. last - 1 : y \in Nat /\ y < last BY <1>4
  <2> QED BY <1>6, <1>7, <2>1
<1>9. \A x \in 0 .. m : P(x) => x = last
  <2> SUFFICES ASSUME NEW x \in 0 .. m, P(x), x # last PROVE FALSE OBVIOUS
  <2>1. CASE x < last BY <1>7, <2>1
  <2>2. CASE x > last
    <3>1. last \in 0 .. x - 1 BY <1>4, <2>2
    <3> QED BY <1>6, <3>1
  <2> QED BY <1>4, <2>1, <2>2
<1>10. ChainLength(s[k]) = 1 + CHOOSE x \in 0 .. m : P(x) BY <1>3 DEF ChainLength
<1> HIDE DEF P
<1>11. (CHOOSE x \in 0 .. m : P(x)) = last BY <1>4, <1>8, <1>9
<1>12. ChainLength(s[k]) = 1 + last BY <1>10, <1>11
<1> QED BY <1>1, <1>12

\* FF_GetSequentialClusters answers with clusters that follow each other.
LEMMA SequentialIs ==
  ASSUME NEW c, NEW n \in Nat
  PROVE  /\ Sequential(c, n) \in 0 .. n
         /\ \A i \in 1 .. Sequential(c, n) : TraverseFAT(c, i) = c + i
<1> DEFINE FollowsFor(k) == \A i \in 1 .. k : TraverseFAT(c, i) = c + i
           Q(k) == FollowsFor(k) /\ (k < n => TraverseFAT(c, k + 1) # c + (k + 1))
           S == {k \in 0 .. n : FollowsFor(k)}
<1>1. ASSUME \A k \in 0 .. n : ~ Q(k) PROVE FALSE
  <2>1. 0 \in S OBVIOUS
  <2>2. \A k \in 0 .. n - 1 : k \in S => k + 1 \in S
    <3> SUFFICES ASSUME NEW k \in 0 .. n - 1, FollowsFor(k) PROVE FollowsFor(k + 1) OBVIOUS
    <3>1. k \in 0 .. n /\ k < n OBVIOUS
    <3>2. TraverseFAT(c, k + 1) = c + (k + 1) BY <1>1, <3>1
    <3> SUFFICES ASSUME NEW i \in 1 .. k + 1 PROVE TraverseFAT(c, i) = c + i OBVIOUS
    <3>3. CASE i = k + 1 BY <3>2, <3>3
    <3>4. CASE i # k + 1
      <4>1. i \in 1 .. k BY <3>4
      <4> QED BY <4>1
    <3> QED BY <3>3, <3>4
  <2> HIDE DEF S
  <2>3. n \in S BY <2>1, <2>2, BoundedInduction
  <2>4. Q(n) BY <2>3 DEF S
  <2> QED BY <1>1, <2>4
<1>2. Sequential(c, n) = CHOOSE k \in 0 .. n : Q(k) BY DEF Sequential
<1> DEFINE q == CHOOSE k \in 0 .. n : Q(k)
<1>3. q \in 0 .. n /\ Q(q)
  <2> HIDE DEF Q
  <2> QED BY <1>1
<1> HIDE DEF q
<1> QED BY <1>2, <1>3 DEF q

\* The cursor may be moved on by hops, from the beginning or from where it is.
LEMMA SequentialOnChain ==
  ASSUME NEW s, NEW n, Links(fat, s, n), NEW k \in 0 .. n - 1, NEW r \in Nat, k + r <= n - 1,
         \A i \in 1 .. r : TraverseFAT(s[k], i) = s[k] + i
  PROVE  \A i \in 0 .. r : s[k + i] = s[k] + i
<1> SUFFICES ASSUME NEW i \in 0 .. r PROVE s[k + i] = s[k] + i OBVIOUS
<1>1. n \in Nat \ {0} /\ s \in [0 .. n - 1 -> Clusters] BY DEF Links
<1>2. s[k] \in Nat BY <1>1, ClustersAreNumbers
<1>3. CASE i = 0 BY <1>2, <1>3
<1>4. CASE i # 0
  <2>1. i \in 1 .. r /\ i \in Nat BY <1>4
  <2>2. TraverseFAT(s[k], i) = s[Least(k + i, n - 1)] BY <2>1, TraverseOnChain
  <2>3. Least(k + i, n - 1) = k + i BY <1>1 DEF Least
  <2> QED BY <2>1, <2>2, <2>3
<1> QED BY <1>3, <1>4

\* A chain that is cut behind s[k].
LEMMA CutChain ==
  ASSUME NEW s, NEW n, Links(fat, s, n), NEW k \in 0 .. n - 1
  PROVE  Links(Unlinked(s[k], TRUE), [j \in 0 .. k |-> s[j]], k + 1)
<1> DEFINE U == Unlinked(s[k], TRUE)
           r == [j \in 0 .. k |-> s[j]]
           rest == {TraverseFAT(s[k], i) : i \in 0 .. ChainLength(s[k]) - 1}
<1>1. n \in Nat \ {0} /\ s \in [0 .. n - 1 -> Clusters] BY DEF Links
<1>2. U = [d \in Clusters |-> IF d = s[k] /\ TRUE THEN EOC
                             ELSE IF d \in rest THEN Free ELSE fat[d]]
  BY DEF Unlinked
<1>3. \A d \in rest : \E j \in k .. n - 1 : d = s[j]
  <2> SUFFICES ASSUME NEW i \in 0 .. ChainLength(s[k]) - 1
               PROVE  \E j \in k .. n - 1 : TraverseFAT(s[k], i) = s[j]
    OBVIOUS
  <2>0. ChainLength(s[k]) = n - k BY LengthOnChain
  <2>1. i \in Nat /\ i <= n - k - 1 BY <1>1, <2>0
  <2>2. Least(k + i, n - 1) \in k .. n - 1 BY <1>1, <2>1 DEF Least
  <2> QED BY <2>1, <2>2, TraverseOnChain
<1> HIDE DEF rest, U
<1>4. U[s[k]] = EOC BY <1>1, <1>2
<1>5. \A i \in 0 .. k - 1 : U[s[i]] = s[i + 1]
  <2> SUFFICES ASSUME NEW i \in 0 .. k - 1 PROVE U[s[i]] = s[i + 1] OBVIOUS
  <2>1. i \in 0 .. n - 2 /\ i \in 0 .. n - 1 BY <1>1
  <2>2. \A j \in k .. n - 1 : s[i] # s[j]
    <3> SUFFICES ASSUME NEW j \in k .. n - 1, s[i] = s[j] PROVE FALSE OBVIOUS
    <3>1. j \in 0 .. n - 1 /\ i # j BY <1>1
    <3> QED BY <2>1, <3>1 DEF Links
  <2>3. s[i] \notin rest BY <1>3, <2>2
  <2>4. s[i] # s[k] BY <1>1, <2>2
  <2>5. fat[s[i]] = s[i + 1] BY <2>1 DEF Links
  <2> QED BY <1>1, <1>2, <2>1, <2>3, <2>4, <2>5
<1>6. k + 1 \in Nat \ {0} /\ (k + 1) - 1 = k /\ (k + 1) - 2 = k - 1 BY <1>1
<1>7. r \in [0 .. k -> Clusters] BY <1>1
<1>8. \A i, j \in 0 .. k : r[i] = r[j] => i = j
  <2>1. \A i \in 0 .. k : i \in 0 .. n - 1 BY <1>1
  <2> QED BY <2>1 DEF Links
<1>9. \A i \in 0 .. k - 1 : U[r[i]] = r[i + 1]
  <2>1. \A i \in 0 .. k - 1 : i \in 0 .. k /\ i + 1 \in 0 .. k OBVIOUS
  <2> QED BY <1>5, <2>1
<1>10. U[r[k]] = EOC BY <1>4
<1> HIDE DEF r
<1>11. Links(U, r, k + 1) BY <1>6, <1>7, <1>8, <1>9, <1>10 DEF Links
<1> QED BY <1>11 DEF U, r

\* A chain that grows by a cluster that was free.
LEMMA LongerChain ==
  ASSUME NEW s, NEW n, Links(fat, s, n), NEW c \in Clusters, fat[c] = Free
  PROVE  Links([d \in Clusters |-> IF d = c THEN EOC ELSE IF d = s[n - 1] THEN c ELSE fat[d]],
               [j \in 0 .. n |-> IF j = n THEN c ELSE s[j]], n + 1)
<1> DEFINE G == [d \in Clusters |-> IF d = c THEN EOC ELSE IF d = s[n - 1] THEN c ELSE fat[d]]
           r == [j \in 0 .. n |-> IF j = n THEN c ELSE s[j]]
<1>1. n \in Nat \ {0} /\ s \in [0 .. n - 1 -> Clusters] BY DEF Links
<1>2. \A i \in 0 .. n - 1 : s[i] # c
  <2> SUFFICES ASSUME NEW i \in 0 .. n - 1, s[i] = c PROVE FALSE OBVIOUS
  <2>1. CASE i = n - 1 BY <2>1 DEF Links, Free, EOC
  <2>2. CASE i # n - 1
    <3>1. i \in 0 .. n - 2 /\ i + 1 \in 0 .. n - 1 BY <1>1, <2>2
    <3>2. fat[s[i]] = s[i + 1] /\ s[i + 1] \in Clusters BY <1>1, <3>1 DEF Links
    <3> QED BY <3>2, ClustersAreNumbers DEF IsEnd
  <2> QED BY <2>1, <2>2
<1>3. n + 1 \in Nat \ {0} /\ (n + 1) - 1 = n /\ (n + 1) - 2 = n - 1 BY <1>1
<1>4. r \in [0 .. n -> Clusters]
  <2>1. \A j \in 0 .. n : j # n => j \in 0 .. n - 1 BY <1>1
  <2> QED BY <1>1, <2>1
<1>5. r[n] = c /\ \A j \in 0 .. n - 1 : r[j] = s[j]
  <2>1. n \in 0 .. n /\ \A j \in 0 .. n - 1 : j \in 0 .. n /\ j # n BY <1>1
  <2> QED BY <2>1
<1>6. \A i, j \in 0 .. n : r[i] = r[j] => i = j
  <2> SUFFICES ASSUME NEW i \in 0 .. n, NEW j \in 0 .. n, r[i] = r[j] PROVE i = j OBVIOUS
  <2>1. (i # n => i \in 0 .. n - 1) /\ (j # n => j \in 0 .. n - 1) BY <1>1
  <2> HIDE DEF r
  <2>2. CASE i = n \/ j = n BY <1>2, <1>5, <2>1, <2>2
  <2>3. CASE i # n /\ j # n BY <1>5, <2>1, <2>3 DEF Links
  <2> QED BY <2>2, <2>3
<1>7. \A i \in 0 .. n - 1 : G[r[i]] = r[i + 1]
  <2> SUFFICES ASSUME NEW i \in 0 .. n - 1 PROVE G[r[i]] = r[i + 1] OBVIOUS
  <2>1. r[i] = s[i] /\ s[i] \in Clusters /\ s[i] # c BY <1>1, <1>2, <1>5
  <2>2. CASE i = n - 1
    <3>1. r[i + 1] = c BY <1>1, <1>5, <2>2
    <3> HIDE DEF r
    <3> QED BY <2>1, <2>2, <3>1
  <2>3. CASE i # n - 1
    <3>1. i \in 0 .. n - 2 /\ i + 1 \in 0 .. n - 1 /\ n - 1 \in 0 .. n - 1 BY <1>1, <2>3
    <3>2. s[i] # s[n - 1] BY <2>3, <3>1 DEF Links
    <3>3. fat[s[i]] = s[i + 1] /\ r[i + 1] = s[i + 1] BY <1>5, <3>1 DEF Links
    <3> HIDE DEF r
    <3> QED BY <2>1, <3>2, <3>3
  <2> QED BY <2>2, <2>3
<1>8. G[r[n]] = EOC
  <2> HIDE DEF r
  <2> QED BY <1>5
<1> HIDE DEF r, G
<1>9. Links(G, r, n + 1) BY <1>3, <1>4, <1>6, <1>7, <1>8 DEF Links
<1> QED BY <1>9 DEF G, r

\* A cluster whose entry is an end of chain is a chain of its own.
LEMMA OneCluster ==
  ASSUME NEW F, NEW c \in Clusters, F[c] = EOC
  PROVE  Links(F, [i \in 0 .. 0 |-> c], 1)
BY DEF Links

\* No cluster of a chain is free or another file's.
LEMMA ChainIsInUse ==
  ASSUME NEW F, NEW s, NEW n, Links(F, s, n), NEW i \in 0 .. n - 1
  PROVE  F[s[i]] # Free /\ F[s[i]] # Other
<1>1. n \in Nat \ {0} /\ s \in [0 .. n - 1 -> Clusters] BY DEF Links
<1>2. CASE i = n - 1 BY <1>2 DEF Links, Free, Other, EOC
<1>3. CASE i # n - 1
  <2>1. i \in 0 .. n - 2 /\ i + 1 \in 0 .. n - 1 BY <1>1, <1>3
  <2>2. F[s[i]] = s[i + 1] /\ s[i + 1] \in Clusters BY <1>1, <2>1 DEF Links
  <2> QED BY <2>2, ClustersAreNumbers DEF IsEnd
<1> QED BY <1>2, <1>3

-----------------------------------------------------------------------------
(* Types, whatever has failed. *)

Fields == {"mode", "ptr", "size", "object", "cur", "addr", "length", "end", "extended"}

FileTyped(f) ==
  /\ DOMAIN f = Fields
  /\ f.mode \subseteq {"R", "W", "A", "C", "T"}
  /\ f.size \in 0 .. MaxSize /\ f.ptr \in 0 .. f.size
  /\ f.object \in Clusters \cup {0}

Pieces == {"head", "rest", "clusters", "run", "sectors", "tail"}

\* A call is at one of its own steps, and what it has still to move is in the file or will be.
CallTyped ==
  /\ DOMAIN call = DOMAIN Idle /\ call.left \in Nat
  /\ \/ call = Idle
     \/ call.op = "write" /\ call.at \in {"first", "enter", "length", "grow"}
     \/ call.op \in {"read", "write"} /\ call.at \in Pieces
     \/ call.op = "eof" /\ call.at = "truncate"
     \/ call.op = "close" /\ call.at \in {"truncate", "detach", "size", "leave", "fail"}
  /\ call.at = "enter" => call.new \in Clusters
  /\ call.op = "read" => file.ptr + call.left <= file.size
  /\ call.op = "write" => file.ptr + call.left <= MaxSize
  /\ call.op \in {"read", "write"} => call.left > 0

\* The pieces come in an order that keeps the later ones at the beginning of a sector, and
\* runs of clusters at the beginning of a cluster.
AlignedAt(at, p, left) ==
  /\ at \in {"rest", "clusters", "sectors", "tail"} => p % SectorUnits = 0
  /\ at = "clusters" => p % ClusterUnits = 0 \/ left < ClusterUnits

RunTyped ==
  call.at = "run" =>
    /\ file.ptr % ClusterUnits = 0
    /\ call.done \in Nat /\ call.want \in Nat \ {0}
    /\ (call.done + call.want) * ClusterUnits <= call.left

HomeTyped == DOMAIN home \subseteq 0 .. MaxSize - 1 /\ misread \in BOOLEAN

Entries == [cluster : Clusters \cup {0}, size : 0 .. MaxSize]

Typed ==
  /\ fat \in [Clusters -> LinkValues]
  /\ entry \in Entries
  /\ FileTyped(file) /\ CallTyped
  /\ AlignedAt(call.at, file.ptr, call.left) /\ RunTyped /\ HomeTyped

\* The fields of a handle without a call.
LEMMA IdleFields ==
  /\ DOMAIN Idle = {"op", "at", "left", "want", "done", "new", "failed"}
  /\ Idle.op = "none" /\ Idle.at = "idle" /\ Idle.left = 0 /\ Idle.want = 0
  /\ Idle.done = 0 /\ Idle.new = 0
BY DEF Idle

\* A closed handle has its type.
LEMMA ClosedTyped == FileTyped(Closed)
BY FileAssumption DEF Closed, FileTyped, Fields

\* The invariant has the types the runs check.
LEMMA TypedTypeOK == Typed => TypeOK
<1> SUFFICES ASSUME Typed PROVE TypeOK OBVIOUS
<1>1. file.size \in 0 .. MaxSize /\ file.ptr \in 0 .. MaxSize
  BY FileAssumption DEF Typed, FileTyped
<1>2. call.op \in {"none", "read", "write", "eof", "close"}
  BY IdleFields DEF Typed, CallTyped
<1> QED BY <1>1, <1>2 DEF Typed, FileTyped, HomeTyped, Entries, TypeOK

\* It holds at the beginning.
LEMMA InitTyped == Init => Typed
<1> SUFFICES ASSUME Init PROVE Typed OBVIOUS
<1>1. fat \in [Clusters -> LinkValues] BY DEF Init, LinkValues
<1>2. entry \in Entries
  BY FileAssumption DEF Init, Entries
<1>3. CallTyped BY IdleFields DEF Init, CallTyped
<1>4. AlignedAt(call.at, file.ptr, call.left) /\ RunTyped
  BY IdleFields DEF Init, AlignedAt, RunTyped
<1>5. HomeTyped
  <2>1. DOMAIN <<>> = {} OBVIOUS
  <2> QED BY <2>1 DEF Init, HomeTyped
<1> QED BY <1>1, <1>2, <1>3, <1>4, <1>5, ClosedTyped DEF Init, Typed

\* FF_SetCluster moves the cursor and nothing else.
LEMMA SetClusterKeeps ==
  ASSUME NEW f, FileTyped(f)
  PROVE  /\ FileTyped(SetCluster(f))
         /\ SetCluster(f).mode = f.mode /\ SetCluster(f).ptr = f.ptr
         /\ SetCluster(f).size = f.size /\ SetCluster(f).object = f.object
         /\ SetCluster(f).length = f.length /\ SetCluster(f).extended = f.extended
BY DEF SetCluster, FileTyped, Fields

\* What an idle handle needs.
LEMMA ReturnTyped ==
  ASSUME call' = Idle, FileTyped(file)', HomeTyped', (fat \in [Clusters -> LinkValues])',
         (entry \in Entries)'
  PROVE  Typed'
<1>1. CallTyped' BY IdleFields DEF CallTyped
<1>2. AlignedAt(call.at, file.ptr, call.left)' /\ RunTyped'
  BY IdleFields DEF AlignedAt, RunTyped
<1> QED BY <1>1, <1>2 DEF Typed

\* A piece is moved, or part of the way.
LEMMA MoveTyped ==
  ASSUME Typed, call.op \in {"read", "write"}, call.at \in Pieces,
         NEW f, FileTyped(f), f.ptr = file.ptr, f.size = file.size,
         NEW n \in 1 .. call.left, NEW place, DOMAIN place = 0 .. n - 1,
         NEW next \in {"rest", "clusters", "sectors", "idle"}, next = "idle" => n = call.left,
         n < call.left => AlignedAt(next, file.ptr + n, call.left - n),
         Move(f, place, n, next), UNCHANGED <<fat, entry>>
  PROVE  Typed'
<1>1. /\ fat' \in [Clusters -> LinkValues]
      /\ entry' \in Entries
  BY DEF Typed
<1>2. /\ file.ptr \in Nat /\ file.size \in Nat /\ file.ptr <= file.size /\ file.size <= MaxSize
      /\ call.left \in Nat /\ n \in Nat /\ n <= call.left /\ 0 < n /\ MaxSize \in Nat
      /\ call.op = "read" => file.ptr + call.left <= file.size
      /\ call.op = "write" => file.ptr + call.left <= MaxSize
  BY FileAssumption DEF Typed, FileTyped, CallTyped
<1> DEFINE a == Advance(f, n)
<1>3. /\ a.ptr = file.ptr + n /\ DOMAIN a = Fields /\ a.mode = f.mode /\ a.object = f.object
      /\ a.size = IF call.op = "write" /\ file.ptr + n > file.size THEN file.ptr + n ELSE file.size
  BY DEF FileTyped, Fields, Advance
<1>4. FileTyped(a)
  <2>1. a.size \in 0 .. MaxSize /\ a.ptr \in 0 .. a.size BY <1>2, <1>3
  <2> QED BY <1>3, <2>1 DEF FileTyped
<1>5. file.ptr + n <= MaxSize BY <1>2
<1>6. CASE Transfer(f.ptr, place) /\ file' = a
           /\ call' = IF call.left = n THEN Idle ELSE [call EXCEPT !.at = next, !.left = @ - n]
  <2>1. HomeTyped'
    <3>2. CASE call.op = "write"
      <4>1. DOMAIN home' = (DOMAIN home) \cup {f.ptr + k : k \in DOMAIN place} /\ misread' = misread
        BY <1>6, <3>2 DEF Transfer
      <4>2. \A k \in 0 .. n - 1 : file.ptr + k \in 0 .. MaxSize - 1 BY <1>2, <1>5
      <4> QED BY <4>1, <4>2 DEF HomeTyped, Typed
    <3>3. CASE call.op # "write"
      <4>1. home' = home /\ misread' \in BOOLEAN BY <1>6, <3>3 DEF Transfer, Typed, HomeTyped
      <4> QED BY <4>1 DEF HomeTyped, Typed
    <3> QED BY <3>2, <3>3
  <2>2. CASE call.left = n
    BY <1>1, <1>4, <1>6, <2>1, <2>2, ReturnTyped
  <2>3. CASE call.left # n
    <3>1. next # "idle" /\ n < call.left BY <1>2, <2>3
    <3>2. /\ call' = [call EXCEPT !.at = next, !.left = call.left - n]
          /\ DOMAIN call = {"op", "at", "left", "want", "done", "new", "failed"}
      BY <1>6, <2>3, IdleFields DEF Typed, CallTyped
    <3>3. /\ DOMAIN call' = DOMAIN Idle /\ call'.op = call.op /\ call'.at = next
          /\ call'.left = call.left - n
      BY <3>2, IdleFields
    <3>4. CallTyped'
      <4>1. call'.left \in Nat /\ call'.left > 0 BY <1>2, <3>1, <3>3
      <4>2. call'.op \in {"read", "write"} /\ call'.at \in Pieces /\ call'.at # "enter"
        BY <3>1, <3>3 DEF Pieces
      <4>3. call'.op = "read" => file'.ptr + call'.left <= file'.size
        BY <1>2, <1>3, <1>6, <3>3
      <4>4. call'.op = "write" => file'.ptr + call'.left <= MaxSize
        BY <1>2, <1>3, <1>6, <3>3
      <4> QED BY <3>3, <4>1, <4>2, <4>3, <4>4 DEF CallTyped
    <3>5. AlignedAt(call.at, file.ptr, call.left)' BY <1>3, <1>6, <3>1, <3>3
    <3>6. RunTyped' BY <3>1, <3>3 DEF RunTyped
    <3> QED BY <1>1, <1>4, <1>6, <2>1, <3>4, <3>5, <3>6 DEF Typed
  <2> QED BY <2>2, <2>3
<1>7. CASE /\ file' \in {f, IF call.op = "read" /\ call.at \in {"head", "tail"} THEN a ELSE f}
           /\ call' = Idle /\ UNCHANGED <<home, misread>>
  <2>1. FileTyped(file') BY <1>4, <1>7
  <2>2. HomeTyped' BY <1>7 DEF Typed, HomeTyped
  <2> QED BY <1>1, <1>7, <2>1, <2>2, ReturnTyped
<1> QED BY <1>6, <1>7 DEF Move, Moved, Return

-----------------------------------------------------------------------------
(* Pieces of a transfer. *)

\* The beginning of a cluster is that of a sector.
LEMMA ClusterBeginsSector ==
  ASSUME NEW p \in Nat, p % ClusterUnits = 0
  PROVE  p % SectorUnits = 0
<1>1. ClusterPosition(p) = 0 BY DEF ClusterPosition
<1>2. Minor(p) \in Nat /\ Major(p) \in Nat /\ 0 = Major(p) * SectorUnits + Minor(p)
  BY <1>1, Places
<1>3. Major(p) * SectorUnits \in Nat BY <1>2, SizesArePositive
<1>4. Minor(p) = 0 BY <1>2, <1>3
<1> QED BY <1>4, Places

\* What is left of a cluster, or of what the caller asks for.
LEMMA ToTheEnd ==
  ASSUME NEW p \in Nat, NEW d \in Nat \ {0}, NEW n \in Nat, n = d - (p % d)
  PROVE  (p + n) % d = 0
<1> DEFINE q == p \div d
           m == p % d
<1>1. q \in Nat /\ m \in 0 .. d - 1 /\ p = d * q + m BY DivMod
<1>2. n = d - m OBVIOUS
<1> HIDE DEF q, m
<1>3. q + 1 \in Nat /\ 0 \in 0 .. d - 1 BY <1>1
<1>4. p + n = d * (q + 1) + 0 BY <1>1, <1>2
<1> QED BY <1>3, <1>4, DivModUnique

\* The first piece is at most the rest of the sector.
HeadUnits(p, left) ==
  IF Minor(p) + left <= SectorUnits THEN left ELSE SectorUnits - Minor(p)

\* The first piece, up to the end of its sector, stays in the file.
LEMMA HeadFits ==
  ASSUME NEW p \in Nat, NEW left \in Nat \ {0}
  PROVE  /\ HeadUnits(p, left) \in 1 .. left
         /\ HeadUnits(p, left) < left => (p + HeadUnits(p, left)) % SectorUnits = 0
         /\ Minor(p) + HeadUnits(p, left) <= SectorUnits
<1> DEFINE n == HeadUnits(p, left)
<1>1. Minor(p) \in 0 .. SectorUnits - 1 /\ Minor(p) = p % SectorUnits BY Places
<1>2. SectorUnits \in Nat \ {0} BY SizesArePositive
<1>3. n \in 1 .. left /\ Minor(p) + n <= SectorUnits BY <1>1, <1>2 DEF HeadUnits
<1>4. n < left => n = SectorUnits - (p % SectorUnits) BY <1>1, <1>2 DEF HeadUnits
<1>5. n \in Nat BY <1>3
<1> HIDE DEF n
<1>6. n < left => (p + n) % SectorUnits = 0 BY <1>2, <1>4, <1>5, ToTheEnd
<1> QED BY <1>3, <1>6 DEF n

\* The second is the rest of the cluster.
LEMMA RestFits ==
  ASSUME NEW p \in Nat, p % SectorUnits = 0
  PROVE  /\ RestUnits(p) = ClusterUnits - ClusterPosition(p)
         /\ RestUnits(p) \in Nat \ {0} /\ (p + RestUnits(p)) % ClusterUnits = 0
<1> DEFINE j == Major(p)
           su == SectorUnits
           sc == SectorsPerCluster
           r == ClusterPosition(p)
<1>1. su \in Nat \ {0} /\ sc \in Nat \ {0} /\ ClusterUnits = su * sc /\ ClusterUnits \in Nat \ {0}
  BY SizesArePositive
<1>2. j \in 0 .. sc - 1 /\ r = j * su
  <2>1. Minor(p) = 0 /\ r = j * su + Minor(p) /\ j \in 0 .. sc - 1 BY Places
  <2>2. j * su \in Int BY <1>1, <2>1
  <2> QED BY <2>1, <2>2
<1>3. RestUnits(p) = (sc - j) * su BY DEF RestUnits, Major
<1>4. r \in 0 .. ClusterUnits - 1 /\ r = p % ClusterUnits BY Positions DEF ClusterPosition
<1> HIDE DEF j, su, sc, r
<1>5. (sc - j) * su = ClusterUnits - r BY <1>1, <1>2
<1>6. ClusterUnits - r \in Nat \ {0} BY <1>1, <1>4
<1>7. RestUnits(p) = ClusterUnits - (p % ClusterUnits) BY <1>3, <1>4, <1>5
<1>8. (p + RestUnits(p)) % ClusterUnits = 0 BY <1>1, <1>3, <1>5, <1>6, <1>7, ToTheEnd
<1> QED BY <1>3, <1>5, <1>6, <1>8 DEF r

\* The last ones are sectors of one cluster.
LEMMA SectorRunFits ==
  ASSUME NEW p \in Nat, p % SectorUnits = 0, NEW left \in Nat, left >= SectorUnits
  PROVE  /\ SectorRun(p, left) \in 1 .. left
         /\ (p + SectorRun(p, left)) % SectorUnits = 0
         /\ ClusterPosition(p) + SectorRun(p, left) <= ClusterUnits
<1> DEFINE j == Major(p)
           su == SectorUnits
           sc == SectorsPerCluster
           q == left \div su
           k == Least(q, sc - j)
<1>1. su \in Nat \ {0} /\ sc \in Nat \ {0} /\ ClusterUnits = su * sc BY SizesArePositive
<1>2. j \in 0 .. sc - 1 /\ j = (p \div su) % sc BY Places
<1>3. ClusterPosition(p) = j * su
  <2>1. Minor(p) = 0 /\ ClusterPosition(p) = j * su + Minor(p) BY Places
  <2>2. j * su \in Int BY <1>1, <1>2
  <2> QED BY <2>1, <2>2
<1>4. SectorRun(p, left) = su * k BY <1>2 DEF SectorRun
<1>5. q \in Nat /\ su * q <= left /\ q # 0
  <2>1. q \in Nat /\ left % su \in 0 .. su - 1 /\ left = su * q + (left % su)
    BY <1>1, DivMod
  <2> DEFINE x == su * q
  <2>2. x \in Nat BY <1>1, <2>1
  <2>3. left = x + (left % su) BY <2>1
  <2> HIDE DEF q, x
  <2>4. x <= left BY <2>1, <2>2, <2>3
  <2>5. q # 0
    <3> SUFFICES ASSUME q = 0 PROVE FALSE OBVIOUS
    <3>1. x = 0 BY <1>1 DEF x
    <3> QED BY <1>1, <2>1, <2>3, <3>1
  <2> QED BY <2>1, <2>4, <2>5 DEF x
<1> HIDE DEF q
<1>6. k \in Nat \ {0} /\ k <= q /\ k <= sc - j BY <1>1, <1>2, <1>5 DEF Least
<1> HIDE DEF k, j, su, sc
<1>7. su * k <= su * q /\ su * k <= su * (sc - j)
  BY <1>1, <1>2, <1>5, <1>6, Monotone
<1>8. su * k \in Nat \ {0} BY <1>1, <1>6
<1>9. su * (sc - j) = ClusterUnits - j * su BY <1>1, <1>2
<1>10. su * k \in 1 .. left
  <2>1. su * q \in Nat BY <1>1, <1>5
  <2> QED BY <1>5, <1>7, <1>8, <2>1
<1>11. j * su + su * k <= ClusterUnits
  <2>1. j * su \in Nat /\ ClusterUnits \in Nat BY <1>1, <1>2
  <2> QED BY <1>7, <1>8, <1>9, <2>1
<1>12. (p + su * k) % su = 0 BY <1>6, <1>8, SectorsKeepMinor DEF su
<1> QED BY <1>3, <1>4, <1>10, <1>11, <1>12 DEF su

\* And runs of clusters are of the clusters that are left.
LEMMA RunFits ==
  ASSUME NEW done \in Nat, NEW want \in Nat, NEW run \in 1 .. want, NEW left \in Nat,
         (done + want) * ClusterUnits <= left
  PROVE  /\ done * ClusterUnits \in Nat /\ run * ClusterUnits \in Nat \ {0}
         /\ done * ClusterUnits + run * ClusterUnits = (done + run) * ClusterUnits
         /\ (done + run) * ClusterUnits \in 1 .. left
<1> DEFINE u == ClusterUnits
<1>1. u \in Nat \ {0} BY SizesArePositive
<1>2. run \in Nat \ {0} /\ run <= want OBVIOUS
<1> HIDE DEF u
<1>3. u * (done + run) <= u * (done + want) BY <1>1, <1>2, Monotone
<1>4. done * u \in Nat /\ run * u \in Nat \ {0} BY <1>1, <1>2
<1>5. done * u + run * u = (done + run) * u /\ (done + run) * u = u * (done + run)
      /\ (done + want) * u = u * (done + want)
  BY <1>1, <1>2
<1>6. (done + want) * u \in Nat BY <1>1
<1>7. (done + want) * u <= left BY DEF u
<1>8. (done + run) * u \in 1 .. left BY <1>3, <1>4, <1>5, <1>6, <1>7
<1> QED BY <1>4, <1>5, <1>8 DEF u

\* No run moves more than the caller asks for.
LEMMA RunLengthsFit ==
  ASSUME call.want \in Nat \ {0}
  PROVE  RunLengths \subseteq 1 .. call.want
<1>1. call.want > 1 => Sequential(file.addr, call.want - 1) \in 0 .. call.want - 1
  BY SequentialIs
<1> QED BY <1>1 DEF RunLengths

-----------------------------------------------------------------------------
(* Types: the steps of a transfer. *)

\* The numbers of a call of FF_Read or FF_Write.
LEMMA NumbersOf ==
  ASSUME Typed
  PROVE  /\ file.ptr \in Nat /\ file.size \in Nat /\ file.ptr <= file.size
         /\ file.size <= MaxSize /\ MaxSize \in Nat /\ call.left \in Nat
         /\ call.op \in {"read", "write"} => call.left \in Nat \ {0}
BY FileAssumption DEF Typed, FileTyped, CallTyped

\* A cursor that is lost keeps the type of its handle.
LEMMA LostTyped == FileTyped(file) => FileTyped([file EXCEPT !.addr = 0])
BY DEF FileTyped, Fields

\* A step that moves a piece, or fails in it, keeps the types.
LEMMA PieceTyped ==
  ASSUME Typed, call.op \in {"read", "write"}, call.at \in Pieces,
         NEW n \in 1 .. call.left, NEW rel, NEW next \in {"rest", "clusters", "sectors", "idle"},
         next = "idle" => n = call.left,
         n < call.left => AlignedAt(next, file.ptr + n, call.left - n),
         Piece(n, rel, next), UNCHANGED <<fat, entry>>
  PROVE  Typed'
<1>1. FileTyped(file) BY DEF Typed
<1> DEFINE f == SetCluster(file)
           place == Units(f.addr, Major(f.ptr) * SectorUnits + rel, n)
<1>2. CASE Move(f, place, n, next)
  <2>1. FileTyped(f) /\ f.ptr = file.ptr /\ f.size = file.size BY <1>1, SetClusterKeeps
  <2>2. DOMAIN place = 0 .. n - 1 BY DEF Units
  <2> HIDE DEF f, place
  <2> QED BY <1>2, <2>1, <2>2, MoveTyped
<1>3. CASE CursorIsLost /\ Return /\ UNCHANGED <<home, misread>>
  <2>1. FileTyped(file') /\ call' = Idle BY <1>1, <1>3, LostTyped DEF CursorIsLost, Return
  <2>2. HomeTyped' BY <1>3 DEF Typed, HomeTyped
  <2>3. /\ fat' \in [Clusters -> LinkValues]
        /\ entry' \in Entries
    BY DEF Typed
  <2> QED BY <2>1, <2>2, <2>3, ReturnTyped
<1> QED BY <1>2, <1>3 DEF Piece

\* A step that leaves what was moved alone and goes on to the next kind of piece.
LEMMA StepTyped ==
  ASSUME Typed, call.op \in {"read", "write"},
         NEW at \in Pieces \ {"run"}, call' = [call EXCEPT !.at = at],
         AlignedAt(at, file.ptr, call.left),
         FileTyped(file'), file'.ptr = file.ptr, file'.size = file.size,
         UNCHANGED <<fat, entry, home, misread>>
  PROVE  Typed'
<1>1. DOMAIN call = {"op", "at", "left", "want", "done", "new", "failed"} BY IdleFields DEF Typed, CallTyped
<1>2. /\ DOMAIN call' = DOMAIN Idle /\ call'.op = call.op /\ call'.at = at
      /\ call'.left = call.left
  BY <1>1, IdleFields
<1>3. CallTyped' BY <1>2 DEF Typed, CallTyped, Pieces
<1>4. AlignedAt(call.at, file.ptr, call.left)' BY <1>2
<1>5. RunTyped' BY <1>2 DEF RunTyped
<1>6. HomeTyped' BY DEF Typed, HomeTyped
<1> QED BY <1>3, <1>4, <1>5, <1>6 DEF Typed

\* A read goes on after a sector the device has failed.
LEMMA FailedTyped ==
  ASSUME Typed, call.op = "read", call' = [call EXCEPT !.at = "tail", !.failed = TRUE],
         AlignedAt("tail", file.ptr, call.left),
         FileTyped(file'), file'.ptr = file.ptr, file'.size = file.size,
         UNCHANGED <<fat, entry, home, misread>>
  PROVE  Typed'
<1>1. DOMAIN call = {"op", "at", "left", "want", "done", "new", "failed"}
  BY IdleFields DEF Typed, CallTyped
<1>2. /\ DOMAIN call' = DOMAIN Idle /\ call'.op = call.op /\ call'.at = "tail"
      /\ call'.left = call.left
  BY <1>1, IdleFields
<1>3. CallTyped' BY <1>2 DEF Typed, CallTyped, Pieces
<1>4. AlignedAt(call.at, file.ptr, call.left)' BY <1>2
<1>5. RunTyped' BY <1>2 DEF RunTyped
<1>6. HomeTyped' BY DEF Typed, HomeTyped
<1> QED BY <1>3, <1>4, <1>5, <1>6 DEF Typed

\* One lemma per step of a transfer.
LEMMA HeadTyped == ASSUME Typed, Head PROVE Typed'
<1> DEFINE rel == Minor(file.ptr)
           n == HeadUnits(file.ptr, call.left)
<1>1. call.op \in {"read", "write"} /\ call.at = "head" /\ call.at \in Pieces
      /\ UNCHANGED <<fat, entry>>
  BY DEF Head, IsTransfer, Pieces
<1>2. file.ptr \in Nat /\ call.left \in Nat \ {0} /\ FileTyped(file)
  BY <1>1, NumbersOf DEF Typed
<1>3. n \in 1 .. call.left /\ (n < call.left => (file.ptr + n) % SectorUnits = 0)
  BY <1>2, HeadFits
<1>4. IF n = call.left \/ rel # 0
      THEN Piece(n, rel, "rest") \/ ReadAstray(n, rel)
      ELSE /\ \/ file' = SetCluster(file) /\ Step("rest") /\ NoFault
              \/ CursorIsLost /\ IF call.op = "read" THEN Step("rest") ELSE Return
           /\ UNCHANGED <<home, misread>>
  BY DEF Head, HeadUnits
<1> HIDE DEF n
<1>5. n < call.left => AlignedAt("rest", file.ptr + n, call.left - n)
  BY <1>3 DEF AlignedAt
<1>6. CASE Piece(n, rel, "rest") BY <1>1, <1>3, <1>5, <1>6, PieceTyped
<1>7. CASE ReadAstray(n, rel)
  <2> DEFINE f == [file EXCEPT !.addr = 0]
  <2>1. FileTyped(f) /\ f.ptr = file.ptr /\ f.size = file.size
    BY <1>2, LostTyped DEF FileTyped, Fields
  <2> DEFINE place == Units(0, rel, n)
  <2>2. Move(f, place, n, "rest") /\ DOMAIN place = 0 .. n - 1 BY <1>7 DEF ReadAstray, Units
  <2> HIDE DEF f, place
  <2> QED BY <1>1, <1>3, <1>5, <2>1, <2>2, MoveTyped
<1>8. CASE /\ n # call.left /\ rel = 0
           /\ file' = SetCluster(file) \/ file' = [file EXCEPT !.addr = 0]
           /\ Step("rest") /\ UNCHANGED <<home, misread>>
  <2>1. FileTyped(file') /\ file'.ptr = file.ptr /\ file'.size = file.size
    BY <1>2, <1>8, LostTyped, SetClusterKeeps DEF FileTyped, Fields
  <2>2. AlignedAt("rest", file.ptr, call.left) BY <1>2, <1>8, Places DEF AlignedAt
  <2>3. call' = [call EXCEPT !.at = "rest"] /\ "rest" \in Pieces \ {"run"}
    BY <1>8 DEF Step, Pieces
  <2> QED BY <1>1, <1>8, <2>1, <2>2, <2>3, StepTyped
<1>9. CASE /\ file' = [file EXCEPT !.addr = 0] /\ Return /\ UNCHANGED <<home, misread>>
  <2>1. FileTyped(file') BY <1>2, <1>9, LostTyped
  <2>2. HomeTyped' BY <1>9 DEF Typed, HomeTyped
  <2> QED BY <1>1, <1>9, <2>1, <2>2, ReturnTyped DEF Return, Typed
<1> QED BY <1>4, <1>6, <1>7, <1>8, <1>9 DEF CursorIsLost

LEMMA RestOfClusterTyped == ASSUME Typed, RestOfCluster PROVE Typed'
<1> DEFINE p == file.ptr
           n == RestUnits(p)
           pos == ClusterPosition(p)
<1>1. /\ call.op \in {"read", "write"} /\ call.at = "rest" /\ call.at \in Pieces
      /\ UNCHANGED <<fat, entry>>
      /\ IF pos # 0 /\ pos + call.left >= ClusterUnits THEN Piece(n, 0, "clusters")
         ELSE Skip("clusters")
  BY DEF RestOfCluster, IsTransfer, Pieces
<1>2. p \in Nat /\ call.left \in Nat \ {0} /\ FileTyped(file) /\ p % SectorUnits = 0
  BY <1>1, NumbersOf DEF Typed, AlignedAt
<1>3. n = ClusterUnits - pos /\ n \in Nat \ {0} /\ (p + n) % ClusterUnits = 0
  BY <1>2, RestFits
<1>4. pos \in 0 .. ClusterUnits - 1 /\ ClusterUnits \in Nat BY <1>2, Positions, SizesArePositive
<1>5. CASE pos # 0 /\ pos + call.left >= ClusterUnits
  <2> HIDE DEF n, p
  <2>1. n \in 1 .. call.left BY <1>2, <1>3, <1>4, <1>5
  <2>2. (p + n) % SectorUnits = 0 BY <1>2, <1>3, ClusterBeginsSector
  <2>3. AlignedAt("clusters", p + n, call.left - n) BY <1>3, <2>2 DEF AlignedAt
  <2> QED BY <1>1, <1>5, <2>1, <2>3, PieceTyped DEF p
<1>6. CASE ~ (pos # 0 /\ pos + call.left >= ClusterUnits)
  <2>1. pos = 0 \/ call.left < ClusterUnits BY <1>2, <1>4, <1>6
  <2>2. AlignedAt("clusters", p, call.left) BY <1>2, <2>1 DEF AlignedAt, ClusterPosition
  <2>3. Skip("clusters") BY <1>1, <1>6
  <2>4. "clusters" \in Pieces \ {"run"} BY DEF Pieces
  <2> QED BY <1>1, <1>2, <2>2, <2>3, <2>4, StepTyped DEF Skip, Step
<1> QED BY <1>5, <1>6

LEMMA BeginRunsTyped == ASSUME Typed, BeginRuns PROVE Typed'
<1>1. /\ call.op \in {"read", "write"} /\ call.at = "clusters" /\ UNCHANGED <<fat, entry>>
      /\ IF call.left < ClusterUnits THEN Skip("sectors")
         ELSE /\ \/ /\ file' = SetCluster(file)
                    /\ call' = [call EXCEPT !.at = "run", !.done = 0,
                                            !.want = call.left \div ClusterUnits]
                 \/ CursorIsLost /\ Return
              /\ UNCHANGED <<home, misread>>
  BY DEF BeginRuns, IsTransfer
<1>2. /\ file.ptr \in Nat /\ call.left \in Nat \ {0} /\ FileTyped(file)
      /\ file.ptr % SectorUnits = 0
      /\ file.ptr % ClusterUnits = 0 \/ call.left < ClusterUnits
  BY <1>1, NumbersOf DEF Typed, AlignedAt
<1>3. CASE call.left < ClusterUnits
  <2>1. "sectors" \in Pieces \ {"run"} /\ AlignedAt("sectors", file.ptr, call.left)
    BY <1>2 DEF AlignedAt, Pieces
  <2> QED BY <1>1, <1>2, <1>3, <2>1, StepTyped DEF Skip, Step
<1>4. CASE /\ call.left >= ClusterUnits
           /\ file' = SetCluster(file)
           /\ call' = [call EXCEPT !.at = "run", !.done = 0, !.want = call.left \div ClusterUnits]
           /\ UNCHANGED <<home, misread>>
  <2>1. DOMAIN call = {"op", "at", "left", "want", "done", "new", "failed"} BY IdleFields DEF Typed, CallTyped
  <2> DEFINE want == call.left \div ClusterUnits
  <2>2. /\ DOMAIN call' = DOMAIN Idle /\ call'.op = call.op /\ call'.at = "run"
        /\ call'.left = call.left /\ call'.done = 0 /\ call'.want = want
    BY <1>4, <2>1, IdleFields
  <2>3. FileTyped(file') /\ file'.ptr = file.ptr /\ file'.size = file.size
    BY <1>2, <1>4, SetClusterKeeps
  <2>4. want \in Nat \ {0} /\ (0 + want) * ClusterUnits <= call.left
    <3> DEFINE d == ClusterUnits
               x == d * want
    <3>1. d \in Nat \ {0} BY SizesArePositive
    <3>2. want \in Nat /\ call.left % d \in 0 .. d - 1 /\ call.left = x + (call.left % d)
      BY <1>2, <3>1, DivMod
    <3> HIDE DEF want, d
    <3>3. x \in Nat /\ (0 + want) * d = x BY <3>1, <3>2
    <3>4. want = 0 => x = 0 BY <3>1
    <3>5. call.left >= d BY <1>4 DEF d
    <3> HIDE DEF x
    <3>6. want # 0 /\ x <= call.left BY <1>2, <3>1, <3>2, <3>3, <3>4, <3>5
    <3> QED BY <3>2, <3>3, <3>6 DEF d
  <2> HIDE DEF want
  <2>5. CallTyped' BY <1>1, <2>2, <2>3 DEF Typed, CallTyped, Pieces
  <2>6. AlignedAt(call.at, file.ptr, call.left)' BY <2>2 DEF AlignedAt
  <2>7. RunTyped'
    <3>1. file.ptr % ClusterUnits = 0 BY <1>2, <1>4, SizesArePositive
    <3> QED BY <2>2, <2>3, <2>4, <3>1 DEF RunTyped
  <2>8. HomeTyped' BY <1>4 DEF Typed, HomeTyped
  <2> QED BY <1>1, <2>3, <2>5, <2>6, <2>7, <2>8 DEF Typed
<1>5. CASE CursorIsLost /\ Return /\ UNCHANGED <<home, misread>>
  <2>1. FileTyped(file') BY <1>2, <1>5, LostTyped DEF CursorIsLost
  <2>2. HomeTyped' BY <1>5 DEF Typed, HomeTyped
  <2> QED BY <1>1, <1>5, <2>1, <2>2, ReturnTyped DEF Return, Typed
<1>6. ClusterUnits \in Nat BY SizesArePositive
<1> QED BY <1>1, <1>2, <1>3, <1>4, <1>5, <1>6

LEMMA RunIsTyped == ASSUME Typed, Run PROVE Typed'
<1>1. call.op \in {"read", "write"} /\ call.at = "run" /\ UNCHANGED <<fat, entry>>
  BY DEF Run, IsTransfer
<1> DEFINE cu == ClusterUnits
           p == file.ptr
           done == call.done
           want == call.want
           left == call.left
<1>2. /\ p \in Nat /\ left \in Nat \ {0} /\ FileTyped(file) /\ p % cu = 0
      /\ done \in Nat /\ want \in Nat \ {0} /\ (done + want) * cu <= left
  BY <1>1, NumbersOf DEF Typed, RunTyped
<1>3. PICK run \in RunLengths :
        LET n == (done + run) * cu
            place == Units(file.addr, 0, run * cu)
            f == AfterRun(file, run)
        IN
        \/ /\ Transfer(p + done * cu, place)
           /\ IF run < want
              THEN file' = f /\ call' = [call EXCEPT !.done = @ + run, !.want = @ - run]
              ELSE /\ file' = Advance(f, n)
                   /\ call' = IF left = n THEN Idle
                              ELSE [call EXCEPT !.at = "sectors", !.left = @ - n,
                                                !.done = 0, !.want = 0]
           /\ NoFault
        \/ DiskFails /\ Return /\ UNCHANGED <<file, home, misread, astray>>
        \/ /\ FatFault("seek") /\ Return
           /\ Transfer(p + done * cu, place)
           /\ file' = [file EXCEPT !.addr = 0]
  BY DEF Run
<1>4. run \in 1 .. want BY <1>2, RunLengthsFit
<1> DEFINE n == (done + run) * cu
           place == Units(file.addr, 0, run * cu)
           f == AfterRun(file, run)
           b == done * cu
           m == run * cu
<1>5. b \in Nat /\ m \in Nat \ {0} /\ b + m = n /\ n \in 1 .. left
  BY <1>2, <1>4, RunFits
<1>6. /\ file.size \in Nat /\ p <= file.size /\ file.size <= MaxSize /\ MaxSize \in Nat
      /\ call.op = "read" => p + left <= file.size
      /\ call.op = "write" => p + left <= MaxSize
      /\ DOMAIN call = {"op", "at", "left", "want", "done", "new", "failed"}
  BY NumbersOf, IdleFields DEF Typed, CallTyped
<1>7. DOMAIN place = 0 .. m - 1 BY DEF Units
<1>8. FileTyped(f) /\ f.ptr = p /\ f.size = file.size BY <1>2 DEF AfterRun, FileTyped, Fields
<1>9. ASSUME Transfer(p + b, place) PROVE HomeTyped'
  <2>1. CASE call.op = "write"
    <3>1. DOMAIN home' = (DOMAIN home) \cup {p + b + k : k \in DOMAIN place} /\ misread' = misread
      BY <1>9, <2>1 DEF Transfer
    <3> HIDE DEF b, m, n, place
    <3>2. \A k \in 0 .. m - 1 : p + b + k \in 0 .. MaxSize - 1 BY <1>2, <1>5, <1>6, <2>1
    <3> QED BY <1>7, <3>1, <3>2 DEF HomeTyped, Typed
  <2>2. CASE call.op # "write"
    <3>1. home' = home /\ misread' \in BOOLEAN BY <1>9, <2>2 DEF Transfer, Typed, HomeTyped
    <3> QED BY <3>1 DEF HomeTyped, Typed
  <2> QED BY <2>1, <2>2
<1>10. /\ fat' \in [Clusters -> LinkValues]
       /\ entry' \in Entries
  BY <1>1 DEF Typed
<1>11. CASE /\ Transfer(p + b, place) /\ run < want
            /\ file' = f /\ call' = [call EXCEPT !.done = @ + run, !.want = @ - run]
  <2>1. /\ DOMAIN call' = DOMAIN Idle /\ call'.op = call.op /\ call'.at = "run"
        /\ call'.left = left /\ call'.done = done + run /\ call'.want = want - run
    BY <1>1, <1>6, <1>11, IdleFields
  <2>2. file'.ptr = p /\ file'.size = file.size /\ FileTyped(file') BY <1>8, <1>11
  <2>3. CallTyped' BY <1>1, <2>1, <2>2 DEF Typed, CallTyped, Pieces
  <2>4. AlignedAt(call.at, file.ptr, call.left)' BY <2>1 DEF AlignedAt
  <2>5. RunTyped'
    <3>1. /\ done + run \in Nat /\ want - run \in Nat \ {0}
          /\ (done + run) + (want - run) = done + want
      BY <1>2, <1>4, <1>11
    <3> QED BY <1>2, <2>1, <2>2, <3>1 DEF RunTyped
  <2> QED BY <1>9, <1>10, <1>11, <2>2, <2>3, <2>4, <2>5 DEF Typed
<1> DEFINE a == Advance(f, n)
<1>12. /\ a.ptr = p + n /\ DOMAIN a = Fields /\ a.mode = f.mode /\ a.object = f.object
       /\ a.size = IF call.op = "write" /\ p + n > file.size THEN p + n ELSE file.size
  BY <1>8 DEF FileTyped, Fields, Advance
<1>13. FileTyped(a)
  <2>1. a.size \in 0 .. MaxSize /\ a.ptr \in 0 .. a.size
    <3> HIDE DEF n, a, f
    <3> QED BY <1>1, <1>2, <1>5, <1>6, <1>12
  <2> QED BY <1>8, <1>12, <2>1 DEF FileTyped
<1>14. CASE /\ Transfer(p + b, place) /\ file' = a
            /\ call' = IF left = n THEN Idle
                       ELSE [call EXCEPT !.at = "sectors", !.left = @ - n, !.done = 0, !.want = 0]
  <2> HIDE DEF n, a
  <2>1. CASE left = n BY <1>9, <1>10, <1>13, <1>14, <2>1, ReturnTyped
  <2>2. CASE left # n
    <3>1. /\ DOMAIN call' = DOMAIN Idle /\ call'.op = call.op /\ call'.at = "sectors"
          /\ call'.left = left - n
      BY <1>6, <1>14, <2>2, IdleFields
    <3>2. left - n \in Nat \ {0} BY <1>2, <1>5, <2>2
    <3>3. call'.op = "read" => file'.ptr + call'.left <= file'.size
      BY <1>2, <1>5, <1>6, <1>12, <1>14, <3>1
    <3>4. call'.op = "write" => file'.ptr + call'.left <= MaxSize
      BY <1>2, <1>5, <1>6, <1>12, <1>14, <3>1
    <3>5. CallTyped' BY <1>1, <3>1, <3>2, <3>3, <3>4 DEF CallTyped, Pieces
    <3>6. (p + n) % SectorUnits = 0
      <4> DEFINE su == SectorUnits
                 sc == SectorsPerCluster
                 j == sc * (done + run)
      <4>1. su \in Nat \ {0} /\ sc \in Nat \ {0} /\ cu = su * sc BY SizesArePositive
      <4>2. done + run \in Nat BY <1>2, <1>4
      <4>3. j \in Nat /\ n = su * j BY <4>1, <4>2 DEF n
      <4>4. p % su = 0 BY <1>2, ClusterBeginsSector
      <4>5. n \in Nat BY <1>5
      <4> HIDE DEF j
      <4> QED BY <1>2, <4>3, <4>4, <4>5, SectorsKeepMinor
    <3>7. AlignedAt(call.at, file.ptr, call.left)' BY <1>12, <1>14, <3>1, <3>6 DEF AlignedAt
    <3>8. RunTyped' BY <3>1 DEF RunTyped
    <3> QED BY <1>9, <1>10, <1>13, <1>14, <3>5, <3>7, <3>8 DEF Typed
  <2> QED BY <2>1, <2>2
<1>15. CASE Return /\ UNCHANGED <<file, home, misread>>
  <2>1. HomeTyped' /\ FileTyped(file') BY <1>2, <1>15 DEF Typed, HomeTyped
  <2> QED BY <1>10, <1>15, <2>1, ReturnTyped DEF Return
<1>16. CASE Return /\ Transfer(p + b, place) /\ file' = [file EXCEPT !.addr = 0]
  <2>1. FileTyped(file') BY <1>2, <1>16, LostTyped
  <2> QED BY <1>9, <1>10, <1>16, <2>1, ReturnTyped DEF Return
<1> QED BY <1>3, <1>4, <1>11, <1>14, <1>15, <1>16

LEMMA SectorsTyped == ASSUME Typed, Sectors PROVE Typed'
<1> DEFINE p == file.ptr
           n == SectorRun(p, call.left)
           f == SetCluster(file)
           place == Units(f.addr, Major(f.ptr) * SectorUnits, n)
<1>1. /\ call.op \in {"read", "write"} /\ call.at = "sectors" /\ call.at \in Pieces
      /\ UNCHANGED <<fat, entry>>
      /\ IF call.left < SectorUnits THEN Skip("tail")
         ELSE \/ Moved(f, place, n, "sectors")
              \/ file' = f /\ SectorsFail
              \/ file' = [file EXCEPT !.addr = 0] /\ SectorsFail
  BY DEF Sectors, IsTransfer, Pieces, CursorIsLost
<1>2. p \in Nat /\ call.left \in Nat \ {0} /\ p % SectorUnits = 0 /\ FileTyped(file)
  BY <1>1, NumbersOf DEF Typed, AlignedAt
<1>3. FileTyped(f) /\ f.ptr = file.ptr /\ f.size = file.size BY <1>2, SetClusterKeeps
<1>4. DOMAIN place = 0 .. n - 1 BY DEF Units
<1>5. AlignedAt("tail", p, call.left) /\ "tail" \in Pieces \ {"run"} BY <1>2 DEF AlignedAt, Pieces
<1> HIDE DEF f, place
<1>6. CASE Skip("tail") BY <1>1, <1>2, <1>5, <1>6, StepTyped DEF Skip, Step
<1>7. CASE ~ (call.left < SectorUnits) /\ Moved(f, place, n, "sectors")
  <2>1. call.left >= SectorUnits BY <1>2, <1>7, SizesArePositive
  <2>2. n \in 1 .. call.left /\ (p + n) % SectorUnits = 0 BY <1>2, <2>1, SectorRunFits
  <2>3. AlignedAt("sectors", p + n, call.left - n) BY <2>2 DEF AlignedAt
  <2> HIDE DEF n, p
  <2>4. Move(f, place, n, "sectors") BY <1>7 DEF Move
  <2> QED BY <1>1, <1>3, <1>4, <2>2, <2>3, <2>4, MoveTyped DEF p
<1>8. CASE file' \in {f, [file EXCEPT !.addr = 0]} /\ SectorsFail
  <2>1. FileTyped(file') /\ file'.ptr = file.ptr /\ file'.size = file.size
    <3>1. CASE file' = f BY <1>3, <3>1
    <3>2. CASE file' = [file EXCEPT !.addr = 0]
      BY <1>2, <3>2, LostTyped DEF FileTyped, Fields
    <3> QED BY <1>8, <3>1, <3>2
  <2>2. CASE call.op = "read" BY <1>1, <1>5, <1>8, <2>1, <2>2, FailedTyped DEF SectorsFail
  <2>3. CASE call.op # "read"
    <3>1. call' = Idle /\ HomeTyped' BY <1>8, <2>3 DEF SectorsFail, Typed, HomeTyped
    <3> QED BY <1>1, <2>1, <3>1, ReturnTyped DEF Typed
  <2> QED BY <2>2, <2>3
<1> QED BY <1>1, <1>6, <1>7, <1>8

LEMMA TailTyped == ASSUME Typed, Tail PROVE Typed'
<1> DEFINE n == call.left
           f == SetCluster(file)
           place == BufferUnits(f.addr, Major(f.ptr) * SectorUnits, n)
<1>1. /\ call.op \in {"read", "write"} /\ call.at = "tail" /\ call.at \in Pieces
      /\ UNCHANGED <<fat, entry>>
      /\ \/ Move(f, place, n, "idle")
         \/ file' = [file EXCEPT !.addr = 0] /\ Return /\ UNCHANGED <<home, misread>>
  BY DEF Tail, IsTransfer, Pieces, CursorIsLost
<1>2. n \in Nat \ {0} /\ FileTyped(file) BY <1>1, NumbersOf DEF Typed
<1>3. FileTyped(f) /\ f.ptr = file.ptr /\ f.size = file.size BY <1>2, SetClusterKeeps
<1>4. DOMAIN place = 0 .. n - 1 BY DEF BufferUnits
<1> HIDE DEF f, place
<1>5. CASE Move(f, place, n, "idle")
  <2>1. n \in 1 .. call.left /\ ~ (n < call.left) BY <1>2
  <2> QED BY <1>1, <1>3, <1>4, <1>5, <2>1, MoveTyped
<1>6. CASE file' = [file EXCEPT !.addr = 0] /\ Return /\ UNCHANGED <<home, misread>>
  <2>1. FileTyped(file') /\ call' = Idle BY <1>2, <1>6, LostTyped DEF Return
  <2>2. HomeTyped' BY <1>6 DEF Typed, HomeTyped
  <2> QED BY <1>1, <2>1, <2>2, ReturnTyped DEF Typed
<1> QED BY <1>1, <1>5, <1>6

-----------------------------------------------------------------------------
(* Types: the other steps. *)

\* What the modes of FF_Open are made of.
LEMMA ModesAre == \A m \in Modes : m # {} /\ m \subseteq {"R", "W", "A", "C", "T"}
BY FileAssumption

\* FF_Read cuts the length at the end of the file.
LEMMA ReadLengthFits ==
  ASSUME Typed, NEW n \in Lengths, file.ptr < file.size
  PROVE  ReadLength(n) \in Nat \ {0} /\ file.ptr + ReadLength(n) <= file.size
BY NumbersOf, FileAssumption DEF ReadLength, Least

\* One lemma per step of the other calls.
LEMMA OpenTyped == ASSUME Typed, NEW m \in Modes, Open(m) PROVE Typed'
<1>1. /\ call' = Idle /\ UNCHANGED <<fat, entry, misread>>
      /\ file' = [Closed EXCEPT !.mode = m, !.object = entry.cluster, !.addr = entry.cluster,
                                !.size = IF "T" \in m THEN 0 ELSE entry.size]
      /\ DOMAIN home' \subseteq DOMAIN home
  <2>1. DOMAIN <<>> = {} OBVIOUS
  <2> QED BY <2>1 DEF Open
<1>2. MaxSize \in Nat /\ entry.size \in 0 .. MaxSize /\ entry.cluster \in Clusters \cup {0}
  BY FileAssumption DEF Typed, Entries
<1>3. /\ DOMAIN file' = Fields /\ file'.mode = m /\ file'.object = entry.cluster
      /\ file'.size = (IF "T" \in m THEN 0 ELSE entry.size) /\ file'.ptr = 0
  BY <1>1 DEF Closed, Fields
<1>4. FileTyped(file')
  <2>1. file'.size \in 0 .. MaxSize /\ 0 \in 0 .. file'.size BY <1>2, <1>3
  <2> QED BY <1>2, <1>3, <2>1, ModesAre DEF FileTyped
<1>5. HomeTyped' BY <1>1 DEF Typed, HomeTyped
<1> QED BY <1>1, <1>4, <1>5, ReturnTyped DEF Typed

LEMMA ReadTyped == ASSUME Typed, NEW n \in Lengths, Read(n) PROVE Typed'
<1>1. /\ file.ptr < file.size /\ UNCHANGED <<fat, entry, file, home, misread>>
      /\ call' = [Idle EXCEPT !.op = "read", !.at = "head", !.left = ReadLength(n)]
  BY DEF Read
<1>2. ReadLength(n) \in Nat \ {0} /\ file.ptr + ReadLength(n) <= file.size
  BY <1>1, ReadLengthFits
<1>3. /\ DOMAIN call' = DOMAIN Idle /\ call'.op = "read" /\ call'.at = "head"
      /\ call'.left = ReadLength(n)
  BY <1>1, IdleFields
<1>4. CallTyped' BY <1>1, <1>2, <1>3 DEF CallTyped, Pieces
<1>5. AlignedAt(call.at, file.ptr, call.left)' /\ RunTyped' BY <1>3 DEF AlignedAt, RunTyped
<1> QED BY <1>1, <1>4, <1>5 DEF Typed, HomeTyped

LEMMA WriteTyped == ASSUME Typed, NEW n \in Lengths, Write(n) PROVE Typed'
<1> DEFINE append == "A" \in file.mode /\ file.ptr < file.size
           f == IF append THEN [file EXCEPT !.ptr = file.size] ELSE file
<1>1. /\ f.ptr + n <= MaxSize /\ call = Idle /\ UNCHANGED <<fat, entry, home, misread>>
      /\ \/ /\ file' = IF append THEN SetCluster(f) ELSE file
            /\ call' = [Idle EXCEPT !.op = "write", !.left = n, !.want = f.ptr + n + 1,
                          !.at = IF f.size = 0 /\ f.object = 0 THEN "first" ELSE "length"]
         \/ file' = [f EXCEPT !.addr = 0] /\ UNCHANGED call
         \/ UNCHANGED <<file, call>>
  BY DEF Write
<1>2. n \in Nat \ {0} BY FileAssumption
<1>3. FileTyped(file) BY DEF Typed
<1>4. FileTyped(f)
  <2>1. append => /\ DOMAIN f = DOMAIN file /\ f.mode = file.mode /\ f.object = file.object
                  /\ f.size = file.size /\ f.ptr = file.size
    BY <1>3 DEF FileTyped, Fields
  <2>2. file.size \in 0 .. file.size BY NumbersOf
  <2> QED BY <1>3, <2>1, <2>2 DEF FileTyped
<1>5. HomeTyped' BY <1>1 DEF Typed, HomeTyped
<1> HIDE DEF f
<1>6. CASE /\ file' = IF append THEN SetCluster(f) ELSE file
           /\ call' = [Idle EXCEPT !.op = "write", !.left = n, !.want = f.ptr + n + 1,
                         !.at = IF f.size = 0 /\ f.object = 0 THEN "first" ELSE "length"]
  <2>1. FileTyped(file') /\ file'.ptr = f.ptr BY <1>3, <1>4, <1>6, SetClusterKeeps DEF f
  <2>2. /\ DOMAIN call' = DOMAIN Idle /\ call'.op = "write" /\ call'.at \in {"first", "length"}
        /\ call'.left = n
    BY <1>6, IdleFields
  <2>3. CallTyped' BY <1>1, <1>2, <2>1, <2>2 DEF CallTyped
  <2>4. AlignedAt(call.at, file.ptr, call.left)' /\ RunTyped' BY <2>2 DEF AlignedAt, RunTyped
  <2> QED BY <1>1, <1>5, <2>1, <2>3, <2>4 DEF Typed
<1>7. CASE file' = [f EXCEPT !.addr = 0] /\ UNCHANGED call
  <2>1. FileTyped(file') BY <1>4, <1>7 DEF FileTyped, Fields
  <2> QED BY <1>1, <1>5, <1>7, <2>1, ReturnTyped DEF Typed
<1>8. CASE UNCHANGED <<file, call>> BY <1>1, <1>3, <1>5, <1>8, ReturnTyped DEF Typed
<1> QED BY <1>1, <1>6, <1>7, <1>8

\* The steps of a call of FF_Write before it moves anything.
LEMMA WriteStepTyped ==
  ASSUME Typed, call.op = "write",
         DOMAIN call' = DOMAIN call, call'.op = call.op, call'.left = call.left,
         call'.at \in {"enter", "length", "grow", "head"},
         call'.at = "enter" => call'.new \in Clusters,
         FileTyped(file'), file'.ptr = file.ptr, (fat \in [Clusters -> LinkValues])',
         (entry \in Entries)',
         UNCHANGED <<home, misread>>
  PROVE  Typed'
<1>1. CallTyped' BY DEF Typed, CallTyped, Pieces
<1>2. AlignedAt(call.at, file.ptr, call.left)' /\ RunTyped' BY DEF AlignedAt, RunTyped
<1>3. HomeTyped' BY DEF Typed, HomeTyped
<1> QED BY <1>1, <1>2, <1>3 DEF Typed

\* The fields of a call of FF_ExtendFile.
LEMMA CallFields ==
  Typed => DOMAIN call = {"op", "at", "left", "want", "done", "new", "failed"}
BY IdleFields DEF Typed, CallTyped

LEMMA ClaimFirstTyped == ASSUME Typed, ClaimFirst PROVE Typed'
<1>1. call.op = "write" /\ FileTyped(file) /\ UNCHANGED <<entry, home, misread>>
  BY DEF ClaimFirst, Calls, Typed
<1>2. CASE \E c \in Clusters :
             /\ fat' = [fat EXCEPT ![c] = EOC] /\ file' = [file EXCEPT !.addr = c]
             /\ call' = [call EXCEPT !.at = "enter", !.new = c]
  <2>1. PICK c \in Clusters :
             /\ fat' = [fat EXCEPT ![c] = EOC] /\ file' = [file EXCEPT !.addr = c]
             /\ call' = [call EXCEPT !.at = "enter", !.new = c]
    BY <1>2
  <2>2. /\ DOMAIN call' = DOMAIN call /\ call'.op = call.op /\ call'.left = call.left
        /\ call'.at = "enter" /\ call'.new \in Clusters
    BY <2>1, CallFields
  <2>3. FileTyped(file') /\ file'.ptr = file.ptr BY <1>1, <2>1 DEF FileTyped, Fields
  <2>4. fat' \in [Clusters -> LinkValues] BY <2>1 DEF Typed, LinkValues
  <2> QED BY <1>1, <2>2, <2>3, <2>4, WriteStepTyped DEF Typed
<1>3. CASE file' = [file EXCEPT !.addr = 0] /\ Return /\ UNCHANGED fat
  <2>1. HomeTyped' /\ FileTyped(file') BY <1>1, <1>3, LostTyped DEF Typed, HomeTyped
  <2> QED BY <1>1, <1>3, <2>1, ReturnTyped DEF Return, Typed
<1> QED BY <1>2, <1>3 DEF ClaimFirst

LEMMA EnterFirstTyped == ASSUME Typed, EnterFirst PROVE Typed'
<1>1. /\ call.op = "write" /\ FileTyped(file) /\ call.new \in Clusters
      /\ UNCHANGED <<fat, home, misread>>
  BY DEF EnterFirst, Calls, Typed, CallTyped
<1>2. [entry EXCEPT !.cluster = call.new] \in Entries
  BY <1>1 DEF Typed, Entries
<1>3. CASE /\ entry' = [entry EXCEPT !.cluster = call.new]
           /\ file' = [file EXCEPT !.object = call.new, !.length = 1, !.cur = 0, !.end = call.new]
           /\ Step("length")
  <2>1. /\ DOMAIN call' = DOMAIN call /\ call'.op = call.op /\ call'.left = call.left
        /\ call'.at = "length"
    BY <1>3, CallFields DEF Step
  <2>2. FileTyped(file') /\ file'.ptr = file.ptr BY <1>1, <1>3 DEF FileTyped, Fields
  <2> QED BY <1>1, <1>2, <1>3, <2>1, <2>2, WriteStepTyped DEF Typed
<1>4. CASE entry' \in {entry, [entry EXCEPT !.cluster = call.new]} /\ Return /\ UNCHANGED file
  <2>1. HomeTyped' BY <1>1 DEF Typed, HomeTyped
  <2> QED BY <1>1, <1>2, <1>4, <2>1, ReturnTyped DEF Return, Typed
<1> QED BY <1>3, <1>4 DEF EnterFirst

LEMMA CountChainTyped == ASSUME Typed, CountChain PROVE Typed'
<1>1. call.op = "write" /\ FileTyped(file) /\ UNCHANGED <<fat, entry, home, misread>>
  BY DEF CountChain, Calls, Typed
<1>2. file' = file \/ file' = [file EXCEPT !.length = ChainLength(file.object), !.end = EOC]
  BY DEF CountChain
<1>3. PICK short : call' = IF short > 0 THEN [call EXCEPT !.at = "grow", !.want = short]
                           ELSE [call EXCEPT !.at = "head"]
  BY DEF CountChain
<1>4. /\ DOMAIN call' = DOMAIN call /\ call'.op = call.op /\ call'.left = call.left
      /\ call'.at \in {"grow", "head"}
  BY <1>3, CallFields
<1>5. FileTyped(file') /\ file'.ptr = file.ptr BY <1>1, <1>2 DEF FileTyped, Fields
<1> QED BY <1>1, <1>4, <1>5, WriteStepTyped DEF Typed

LEMMA GrowTyped == ASSUME Typed, Grow PROVE Typed'
<1>1. call.op = "write" /\ FileTyped(file) /\ UNCHANGED <<entry, file, home, misread>>
  BY DEF Grow, Calls, Typed
<1> DEFINE last == IF call.done = 0 THEN FindEndOfChain(file.addr) ELSE call.new
<1>2. PICK c \in Clusters :
        /\ fat' = [d \in Clusters |-> IF d = c THEN EOC ELSE IF d = last THEN c ELSE fat[d]]
        /\ call' = [call EXCEPT !.done = call.done + 1, !.new = c]
  BY DEF Grow
<1> HIDE DEF last
<1>3. /\ DOMAIN call' = DOMAIN call /\ call'.op = call.op /\ call'.left = call.left
      /\ call'.at = "grow"
  BY <1>2, CallFields DEF Grow, Calls
<1>4. fat' \in [Clusters -> LinkValues] BY <1>2 DEF Typed, LinkValues
<1> QED BY <1>1, <1>3, <1>4, WriteStepTyped DEF Typed

\* FF_ExtendFile moves the cursor and counts the clusters, and nothing else.
LEMMA ResyncKeeps ==
  ASSUME NEW f, FileTyped(f)
  PROVE  FileTyped(Resync(f)) /\ Resync(f).ptr = f.ptr
BY DEF Resync, FileTyped, Fields

\* The same, for the end of FF_ExtendFile.
LEMMA GrownKeeps ==
  ASSUME NEW f, FileTyped(f), NEW n
  PROVE  FileTyped(Grown(f, n)) /\ Grown(f, n).ptr = f.ptr
BY DEF Grown, FileTyped, Fields

LEMMA EndGrowTyped == ASSUME Typed, EndGrow PROVE Typed'
<1> DEFINE f0 == [file EXCEPT !.end = call.new]
           f1 == Grown(f0, call.done)
           f == Resync(f1)
<1>1. call.op = "write" /\ FileTyped(file) /\ UNCHANGED <<fat, entry, home, misread>>
  BY DEF EndGrow, Calls, Typed
<1>2. FileTyped(f0) /\ f0.ptr = file.ptr BY <1>1 DEF FileTyped, Fields
<1>3. FileTyped(f1) /\ f1.ptr = file.ptr
  <2> HIDE DEF f0
  <2> QED BY <1>2, GrownKeeps
<1>4. FileTyped(f) /\ f.ptr = file.ptr
  <2> HIDE DEF f1
  <2> QED BY <1>3, ResyncKeeps
<1>5. \/ /\ file' = f
         /\ call' = [call EXCEPT !.at = "head", !.done = 0, !.want = 0, !.new = 0]
      \/ file' = f /\ Return
      \/ file' = [f EXCEPT !.addr = 0] /\ Return
  BY DEF EndGrow
<1> HIDE DEF f
<1>6. HomeTyped' BY <1>1 DEF Typed, HomeTyped
<1>7. CASE file' = f /\ call' = [call EXCEPT !.at = "head", !.done = 0, !.want = 0, !.new = 0]
  <2>1. /\ DOMAIN call' = DOMAIN call /\ call'.op = call.op /\ call'.left = call.left
        /\ call'.at = "head"
    BY <1>7, CallFields
  <2> QED BY <1>1, <1>4, <1>7, <2>1, WriteStepTyped DEF Typed
<1>8. CASE file' = f /\ Return BY <1>1, <1>4, <1>6, <1>8, ReturnTyped DEF Return, Typed
<1>9. CASE file' = [f EXCEPT !.addr = 0] /\ Return
  <2>1. FileTyped(file') BY <1>4, <1>9 DEF FileTyped, Fields
  <2> QED BY <1>1, <1>6, <1>9, <2>1, ReturnTyped DEF Return, Typed
<1> QED BY <1>5, <1>7, <1>8, <1>9

LEMMA StopGrowTyped == ASSUME Typed, StopGrow PROVE Typed'
<1>1. /\ FileTyped(file) /\ file' = Resync(Grown(file, call.done)) /\ call' = Idle
      /\ UNCHANGED <<fat, entry, home, misread>>
  BY DEF StopGrow, Typed, Return
<1>2. FileTyped(file') BY <1>1, GrownKeeps, ResyncKeeps
<1>3. HomeTyped' BY <1>1 DEF Typed, HomeTyped
<1> QED BY <1>1, <1>2, <1>3, ReturnTyped DEF Typed

LEMMA SeekTyped == ASSUME Typed, NEW p \in 0 .. MaxSize, Seek(p) PROVE Typed'
<1> DEFINE f == [file EXCEPT !.ptr = p]
<1>1. /\ call' = Idle /\ UNCHANGED <<fat, entry, home, misread>>
      /\ \/ p <= file.size /\ (file' = SetCluster(f) \/ file' = [f EXCEPT !.addr = 0])
         \/ file' = file
  BY DEF Seek
<1>2. ASSUME p <= file.size /\ (file' = SetCluster(f) \/ file' = [f EXCEPT !.addr = 0])
      PROVE  FileTyped(file')
  <2>1. FileTyped(f)
    <3>1. p \in 0 .. file.size BY <1>2, NumbersOf
    <3> QED BY <3>1 DEF Typed, FileTyped, Fields
  <2>2. FileTyped([f EXCEPT !.addr = 0])
    <3> HIDE DEF f
    <3> QED BY <2>1 DEF FileTyped, Fields
  <2>3. FileTyped(SetCluster(f))
    <3> HIDE DEF f
    <3> QED BY <2>1, SetClusterKeeps
  <2> QED BY <1>2, <2>2, <2>3
<1>3. FileTyped(file') BY <1>1, <1>2 DEF Typed
<1>4. HomeTyped' BY <1>1 DEF Typed, HomeTyped
<1> QED BY <1>1, <1>3, <1>4, ReturnTyped DEF Typed

\* The steps of FF_SetEof and FF_Close.
LEMMA CloseStepTyped ==
  ASSUME Typed, FileTyped(file'), HomeTyped', (fat \in [Clusters -> LinkValues])',
         (entry \in Entries)',
         DOMAIN call' = DOMAIN Idle, call'.left \in Nat,
         \/ call'.op = "eof" /\ call'.at = "truncate"
         \/ call'.op = "close" /\ call'.at \in {"truncate", "detach", "size", "leave", "fail"}
  PROVE  Typed'
<1>1. CallTyped' BY DEF CallTyped
<1>2. AlignedAt(call.at, file.ptr, call.left)' /\ RunTyped' BY DEF AlignedAt, RunTyped
<1> QED BY <1>1, <1>2 DEF Typed

LEMMA SetEofTyped == ASSUME Typed, SetEof PROVE Typed'
<1>1. /\ file' = [file EXCEPT !.size = file.ptr] /\ home' = Below(file.ptr)
      /\ UNCHANGED <<fat, entry, misread>>
      /\ \/ call' = [Idle EXCEPT !.op = "eof", !.at = "truncate"]
         \/ call' = Idle
  BY DEF SetEof
<1>2. FileTyped(file')
  <2>1. file.ptr \in 0 .. MaxSize /\ file.ptr \in 0 .. file.ptr BY NumbersOf
  <2> QED BY <1>1, <2>1 DEF Typed, FileTyped, Fields
<1>3. HomeTyped' BY <1>1 DEF Typed, HomeTyped, Below
<1>4. CASE call' = [Idle EXCEPT !.op = "eof", !.at = "truncate"]
  <2>1. DOMAIN call' = DOMAIN Idle /\ call'.left = 0 /\ call'.op = "eof" /\ call'.at = "truncate"
    BY <1>4, IdleFields
  <2> QED BY <1>1, <1>2, <1>3, <2>1, CloseStepTyped DEF Typed
<1>5. CASE call' = Idle BY <1>1, <1>2, <1>3, <1>5, ReturnTyped DEF Typed
<1> QED BY <1>1, <1>4, <1>5

LEMMA BeginCloseTyped == ASSUME Typed, BeginClose PROVE Typed'
<1>1. UNCHANGED <<fat, entry, file, home, misread>> BY DEF BeginClose
<1>2. /\ DOMAIN call' = DOMAIN Idle /\ call'.left = 0 /\ call'.op = "close"
      /\ call'.at \in {"truncate", "size", "leave"}
  BY IdleFields DEF BeginClose
<1>3. HomeTyped' BY <1>1 DEF Typed, HomeTyped
<1> QED BY <1>1, <1>2, <1>3, CloseStepTyped DEF Typed

\* Where FF_Truncate goes on.
LEMMA AfterTruncateTyped ==
  ASSUME Typed, call.op \in {"eof", "close"}, AfterTruncate \/ TruncateFailed,
         FileTyped(file'), HomeTyped', (fat \in [Clusters -> LinkValues])',
         (entry \in Entries)'
  PROVE  Typed'
<1>1. CASE call.op = "close"
  <2>1. /\ DOMAIN call' = DOMAIN Idle /\ call'.left \in Nat /\ call'.op = "close"
        /\ call'.at \in {"size", "fail"}
    BY <1>1, CallFields, IdleFields DEF AfterTruncate, TruncateFailed, Step, Typed, CallTyped
  <2> QED BY <2>1, CloseStepTyped
<1>2. CASE call.op # "close"
  <2>1. call' = Idle BY <1>2 DEF AfterTruncate, TruncateFailed, Return
  <2> QED BY <2>1, ReturnTyped
<1> QED BY <1>1, <1>2

\* FF_UnlinkClusterChain leaves entries a FAT may have.
LEMMA UnlinkedTyped ==
  ASSUME Typed, NEW c, NEW keep
  PROVE  Unlinked(c, keep) \in [Clusters -> LinkValues]
BY DEF Typed, Unlinked, LinkValues

LEMMA TruncateTyped == ASSUME Typed, Truncate PROVE Typed'
<1>1. call.at = "truncate" /\ UNCHANGED <<entry, file, home, misread>> BY DEF Truncate
<1>2. call.op \in {"eof", "close"} BY <1>1, IdleFields DEF Typed, CallTyped, Pieces
<1>3. HomeTyped' /\ FileTyped(file') BY <1>1 DEF Typed, HomeTyped
<1>4. fat' \in [Clusters -> LinkValues]
  <2>1. \/ fat' = fat \/ fat' = Unlinked(file.object, FALSE)
        \/ \E c : fat' = Unlinked(c, TRUE)
    BY DEF Truncate
  <2>2. CASE fat' = fat BY <2>2 DEF Typed
  <2>3. CASE fat' = Unlinked(file.object, FALSE) BY <2>3, UnlinkedTyped
  <2>4. CASE \E c : fat' = Unlinked(c, TRUE)
    <3>1. PICK c : fat' = Unlinked(c, TRUE) BY <2>4
    <3> QED BY <3>1, UnlinkedTyped
  <2> QED BY <2>1, <2>2, <2>3, <2>4
<1>5. CASE AfterTruncate \/ TruncateFailed
  BY <1>1, <1>2, <1>3, <1>4, <1>5, AfterTruncateTyped DEF Typed
<1>6. CASE ClustersNeeded = 0 /\ Step("detach")
  <2>1. DOMAIN call' = DOMAIN Idle /\ call'.left \in Nat /\ call'.op = call.op /\ call'.at = "detach"
    BY <1>6, CallFields, IdleFields DEF Step, Typed, CallTyped
  <2>2. call.op = "close"
    <3> SUFFICES ASSUME call.op # "close" PROVE FALSE OBVIOUS
    <3>1. (file.size + ClusterUnits) \div ClusterUnits = 0 BY <1>6 DEF ClustersNeeded
    <3>2. file.size \in Nat /\ ClusterUnits \in Nat \ {0} BY NumbersOf, SizesArePositive
    <3> DEFINE x == file.size + ClusterUnits
    <3>3. x \in Nat /\ x >= ClusterUnits BY <3>2
    <3> HIDE DEF x
    <3>4. x = ClusterUnits * (x \div ClusterUnits) + (x % ClusterUnits)
          /\ x % ClusterUnits \in 0 .. ClusterUnits - 1
      BY <3>2, <3>3, DivMod
    <3>5. x \div ClusterUnits = 0 BY <3>1 DEF x
    <3> QED BY <3>2, <3>3, <3>4, <3>5
  <2> QED BY <1>1, <1>3, <1>4, <2>1, <2>2, CloseStepTyped DEF Typed
<1> QED BY <1>5, <1>6 DEF Truncate

LEMMA DetachTyped == ASSUME Typed, Detach PROVE Typed'
<1>1. /\ call.at = "detach" /\ UNCHANGED <<fat, home, misread>>
      /\ AfterTruncate \/ TruncateFailed
      /\ entry' = entry \/ entry' = [entry EXCEPT !.cluster = 0]
      /\ \/ file' = file
         \/ file' = [file EXCEPT !.object = 0, !.length = 0, !.cur = 0, !.end = 0]
  BY DEF Detach
<1>2. call.op \in {"eof", "close"} BY <1>1, IdleFields DEF Typed, CallTyped, Pieces
<1>3. HomeTyped' BY <1>1 DEF Typed, HomeTyped
<1>4. FileTyped(file') BY <1>1 DEF Typed, FileTyped, Fields
<1>5. entry' \in Entries BY <1>1 DEF Typed, Entries
<1> QED BY <1>1, <1>2, <1>3, <1>4, <1>5, AfterTruncateTyped DEF Typed

LEMMA PutSizeTyped == ASSUME Typed, PutSize PROVE Typed'
<1>1. /\ call.op = "close"
      /\ Step("leave") \/ Step("fail")
      /\ UNCHANGED <<fat, file, home, misread>>
      /\ entry' = entry \/ entry' = NewEntry(entry, file.size)
  BY DEF PutSize, Calls
<1>2. /\ DOMAIN call' = DOMAIN Idle /\ call'.left \in Nat /\ call'.op = "close"
      /\ call'.at \in {"leave", "fail"}
  BY <1>1, CallFields, IdleFields DEF Step, Typed, CallTyped
<1>3. HomeTyped' BY <1>1 DEF Typed, HomeTyped
<1>4. entry' \in Entries
  BY <1>1 DEF Typed, FileTyped, NewEntry, Entries
<1> QED BY <1>1, <1>2, <1>3, <1>4, CloseStepTyped DEF Typed

LEMMA LeaveTyped == ASSUME Typed, Leave PROVE Typed'
<1>1. /\ file' = Closed /\ call' = Idle /\ home' = Below(entry.size)
      /\ UNCHANGED <<fat, entry, misread>>
  BY DEF Leave, Return
<1>2. HomeTyped' BY <1>1 DEF Typed, HomeTyped, Below
<1> QED BY <1>1, <1>2, ClosedTyped, ReturnTyped DEF Typed

\* What the disk may have is a directory entry and a link, too.
KeptTyped == kept \in [entry : SUBSET Entries, fat : [Clusters -> SUBSET LinkValues]]

LEMMA CrashTyped == ASSUME Typed, KeptTyped, Crash PROVE Typed'
<1>1. PICK e \in kept.entry, link \in [Unwritten -> LinkValues] :
        /\ entry' = e
        /\ fat' = [c \in Clusters |-> IF c \in Unwritten THEN link[c] ELSE fat[c]]
  BY DEF Crash
<1>2. /\ file' = Closed /\ call' = Idle /\ home' = Below(entry'.size) /\ UNCHANGED misread
  BY DEF Crash
<1>3. entry' \in Entries BY <1>1 DEF KeptTyped
<1>4. fat' \in [Clusters -> LinkValues] BY <1>1 DEF Typed
<1>5. HomeTyped' BY <1>2 DEF Typed, HomeTyped, Below
<1> QED BY <1>2, <1>3, <1>4, <1>5, ClosedTyped, ReturnTyped

\* A step leaves what the disk may have, adds to it, or writes it all.
LEMMA KeptSteps ==
  ASSUME [Next]_vars
  PROVE  UNCHANGED kept \/ Written \/ kept' = Flushed'
<1>1. ASSUME NEW why, FlushCache(why), UNCHANGED <<fat, entry>>
      PROVE  UNCHANGED kept \/ kept' = Flushed'
  BY <1>1 DEF FlushCache, Flushed
<1>2. CASE \E m \in Modes : Open(m) BY <1>2 DEF Open
<1>3. CASE \E n \in Lengths : Read(n) \/ Write(n) BY <1>3 DEF Read, Write
<1>4. CASE \E p \in 0 .. MaxSize : Seek(p) BY <1>1, <1>4 DEF Seek
<1>5. CASE SetEof \/ BeginClose \/ Truncate \/ Detach \/ PutSize \/ Crash
  BY <1>5 DEF SetEof, BeginClose, Truncate, Detach, PutSize, Crash
<1>6. CASE Leave BY <1>1, <1>6 DEF Leave
<1>7. CASE ClaimFirst \/ EnterFirst \/ CountChain \/ Grow
  BY <1>7 DEF ClaimFirst, EnterFirst, CountChain, Grow
<1>8. CASE EndGrow \/ StopGrow BY <1>1, <1>8 DEF EndGrow, StopGrow, ExtendFlushes
<1>9. CASE Head \/ RestOfCluster \/ BeginRuns \/ Run \/ Sectors \/ Tail
  BY <1>9 DEF Head, RestOfCluster, BeginRuns, Run, Sectors, Tail
<1>10. CASE UNCHANGED vars BY <1>10 DEF vars
<1> QED BY <1>2, <1>3, <1>4, <1>5, <1>6, <1>7, <1>8, <1>9, <1>10 DEF Next

\* Every step keeps the types.
LEMMA NextTyped == Typed /\ KeptTyped /\ [Next]_vars => Typed'
<1> SUFFICES ASSUME Typed, KeptTyped, [Next]_vars PROVE Typed' OBVIOUS
<1>1. CASE \E m \in Modes : Open(m) BY <1>1, OpenTyped
<1>2. CASE \E n \in Lengths : Read(n) \/ Write(n) BY <1>2, ReadTyped, WriteTyped
<1>3. CASE \E p \in 0 .. MaxSize : Seek(p) BY <1>3, SeekTyped
<1>4. CASE SetEof \/ BeginClose \/ Truncate \/ Detach \/ PutSize \/ Leave \/ Crash
  BY <1>4, SetEofTyped, BeginCloseTyped, TruncateTyped, DetachTyped, PutSizeTyped, LeaveTyped,
     CrashTyped
<1>5. CASE ClaimFirst \/ EnterFirst \/ CountChain \/ Grow \/ EndGrow \/ StopGrow
  BY <1>5, ClaimFirstTyped, EnterFirstTyped, CountChainTyped, GrowTyped, EndGrowTyped,
     StopGrowTyped
<1>6. CASE Head \/ RestOfCluster \/ BeginRuns \/ Run \/ Sectors \/ Tail
  BY <1>6, HeadTyped, RestOfClusterTyped, BeginRunsTyped, RunIsTyped, SectorsTyped, TailTyped
<1>7. CASE UNCHANGED vars
  BY <1>7 DEF vars, Typed, FileTyped, CallTyped, AlignedAt, RunTyped, HomeTyped
<1> QED BY <1>1, <1>2, <1>3, <1>4, <1>5, <1>6, <1>7 DEF Next

LEMMA NextKeptTyped == Typed' /\ KeptTyped /\ [Next]_vars => KeptTyped'
<1> SUFFICES ASSUME Typed', KeptTyped, [Next]_vars PROVE KeptTyped' OBVIOUS
<1>1. entry' \in Entries /\ fat' \in [Clusters -> LinkValues] BY DEF Typed
<1>2. CASE UNCHANGED kept BY <1>2 DEF KeptTyped
<1>3. CASE Written
  <2>1. kept.entry \in SUBSET Entries /\ kept.fat \in [Clusters -> SUBSET LinkValues]
    BY DEF KeptTyped
  <2>2. kept' = [entry |-> kept.entry \cup {entry'},
                 fat |-> [c \in Clusters |-> kept.fat[c] \cup {fat'[c]}]]
    BY <1>3 DEF Written
  <2> QED BY <1>1, <2>1, <2>2 DEF KeptTyped
<1>4. CASE kept' = Flushed' BY <1>1, <1>4 DEF Flushed, KeptTyped
<1> QED BY <1>2, <1>3, <1>4, KeptSteps

\* At the beginning nothing waits to be written.
LEMMA InitKeptTyped == Init => KeptTyped
<1> SUFFICES ASSUME Init PROVE KeptTyped OBVIOUS
<1>1. entry \in Entries /\ fat \in [Clusters -> LinkValues] BY InitTyped DEF Typed
<1> QED BY <1>1 DEF Init, Flushed, KeptTyped

\* They hold in every behaviour, with every failure.
LEMMA AlwaysTyped == Spec => [](Typed /\ KeptTyped)
<1>1. Init => Typed /\ KeptTyped BY InitTyped, InitKeptTyped
<1>2. Typed /\ KeptTyped /\ [Next]_vars => (Typed /\ KeptTyped)' BY NextTyped, NextKeptTyped
<1> QED BY <1>1, <1>2, PTL DEF Spec

\* Whatever fails, handle, entry and FAT keep their types, and no position of the file or
\* of a call passes the largest size.
THEOREM TypeInvariance == Spec => []TypeOK
<1> QED BY AlwaysTyped, TypedTypeOK, PTL

-----------------------------------------------------------------------------
(* As long as nothing has led the cursor astray. *)

\* What n clusters hold.
Reach(n) == ClusterUnits * n

InPlace(i, s, n) ==
  i < Reach(n) /\ home[i] = <<s[ClusterOf(i)], ClusterPosition(i)>>

\* Between two opens the entry leads to a chain that holds the file.
ClosedSound(s, n) ==
  /\ call = Idle
  /\ file = Closed
  /\ IF entry.cluster = 0 THEN n = 0 ELSE Links(fat, s, n) /\ s[0] = entry.cluster
  /\ entry.size <= Reach(n)
  /\ \A i \in DOMAIN home : i < entry.size /\ InPlace(i, s, n)

\* The handle leads to the chain, or has none; the entry leads where the handle does.
ChainSound(s, n) ==
  /\ IF file.object = 0 \/ call.at = "detach" THEN n = 0
     ELSE Links(fat, s, n) /\ s[0] = file.object
  /\ file.object # 0 => entry.cluster = file.object
  /\ file.object = 0 =>
       /\ entry.cluster # 0 => fat[entry.cluster] = EOC
       /\ call.op # "close" => entry.size = 0

\* The cursor is at one of n clusters, or one behind the last when the position is there too,
\* with the address of the last.
CursorAt(f, s, n) ==
  /\ f.cur \in 0 .. n
  /\ f.cur = n => f.ptr = Reach(n)
  /\ f.object # 0 => f.addr = s[Least(f.cur, n - 1)]
  /\ f.size <= Reach(n)
  /\ f.extended => f.size < Reach(n)

\* While the chain grows the handle knows the length of before.
Known(n) == IF call.at = "grow" THEN file.length ELSE n

CursorSound(s, n) ==
  /\ file.size <= Reach(n)
  /\ call.op # "close" => CursorAt(file, s, Known(n))
  /\ call.at # "grow" /\ call.op # "close" => file.length \in {0, n}

\* FF_ExtendFile.
GrowSound(s, n) ==
  /\ call.at \in {"first", "enter"} => file.object = 0
  /\ call.at = "enter" => fat[call.new] = EOC /\ file.addr = call.new
  /\ call.at = "length" => file.object # 0
  /\ call.at \in {"first", "enter", "length"} =>
       call.want = file.ptr + call.left + 1 /\ call.done = 0
  /\ call.at = "grow" =>
       /\ file.object # 0 /\ file.length \in Nat \ {0}
       /\ call.want \in Nat \ {0} /\ call.done \in 0 .. call.want
       /\ n = file.length + call.done
       /\ call.done # 0 => call.new = s[n - 1]
       /\ file.ptr + call.left < Reach(file.length + call.want)

\* The transfers: the chain goes on after what is left to write.
MoveSound(n) ==
  /\ call.op = "write" /\ call.at \in Pieces => file.ptr + call.left < Reach(n)
  /\ call.at = "run" => file.cur = ClusterOf(file.ptr) + call.done
  /\ call.at = "tail" => (call.op = "read" /\ call.failed) \/ call.left < SectorUnits

\* FF_SetEof and FF_Close.
CloseSound(n) ==
  /\ call.at # "fail"
  /\ call.op \in {"write", "eof"} \/ (call.op = "close" /\ call.at # "leave") => Writes(file.mode)
  /\ ~ Writes(file.mode) \/ call.at = "leave" =>
       entry.size = file.size /\ entry.cluster = file.object
  /\ call.at = "truncate" => file.object # 0
  /\ call.at = "truncate" /\ call.op = "close" => ClusterPosition(file.size) = 0
  /\ call.at \in {"size", "leave"} /\ Writes(file.mode) =>
       (ClusterPosition(file.size) = 0 => Reach(n) = file.size)

HomeSound(s, n) ==
  /\ call.op = "eof" => \A i \in DOMAIN home : i < file.size
  /\ \A i \in DOMAIN home : (call.op = "close" => i < file.size) => InPlace(i, s, n)

OpenSound(s, n) ==
  /\ ChainSound(s, n) /\ CursorSound(s, n) /\ GrowSound(s, n) /\ MoveSound(n)
  /\ CloseSound(n) /\ HomeSound(s, n)

Sound ==
  /\ ~ misread
  /\ IsOpen => \E s : \E n \in Nat : OpenSound(s, n)
  /\ ~ IsOpen => \E s : \E n \in Nat : ClosedSound(s, n)

-----------------------------------------------------------------------------
\* The positions a chain reaches to, as numbers.
LEMMA ReachType == \A n \in Nat : Reach(n) \in Nat
BY SizesArePositive DEF Reach

\* No cluster holds nothing.
LEMMA ReachNone == Reach(0) = 0
BY SizesArePositive DEF Reach

\* A longer chain reaches further.
LEMMA ReachGrows ==
  ASSUME NEW m \in Nat, NEW n \in Nat, m < n
  PROVE  Reach(m) + ClusterUnits <= Reach(n) /\ Reach(m) < Reach(n)
<1> DEFINE u == ClusterUnits
<1>1. u \in Nat \ {0} BY SizesArePositive
<1> HIDE DEF u
<1>2. u * (m + 1) <= u * n BY <1>1, Monotone
<1>3. u * (m + 1) = u * m + u BY <1>1
<1>4. u * m \in Nat /\ u * n \in Nat BY <1>1
<1>5. Reach(m) = u * m /\ Reach(n) = u * n BY DEF Reach, u
<1>6. Reach(m) + u <= Reach(n) /\ Reach(m) < Reach(n) BY <1>1, <1>2, <1>3, <1>4, <1>5
<1> QED BY <1>6 DEF u

\* Two chains that reach equally far are equally long.
LEMMA ReachIsUnique ==
  ASSUME NEW m \in Nat, NEW n \in Nat, Reach(m) = Reach(n)
  PROVE  m = n
<1>1. ~ (m < n) BY ReachGrows, ReachType
<1>2. ~ (n < m) BY ReachGrows, ReachType
<1> QED BY <1>1, <1>2

\* Where a position is, seen from the ends of the clusters.
LEMMA ReachOfPosition ==
  ASSUME NEW p \in Nat
  PROVE  /\ ClusterOf(p) \in Nat /\ ClusterPosition(p) \in 0 .. ClusterUnits - 1
         /\ p = Reach(ClusterOf(p)) + ClusterPosition(p)
BY Positions DEF Reach

\* A position before the end of n clusters is in the first n.
LEMMA WithinReach ==
  ASSUME NEW p \in Nat, NEW n \in Nat, p < Reach(n)
  PROVE  ClusterOf(p) \in 0 .. n - 1
<1> DEFINE k == ClusterOf(p)
           o == ClusterPosition(p)
<1>1. k \in Nat /\ o \in 0 .. ClusterUnits - 1 /\ p = Reach(k) + o BY ReachOfPosition
<1>2. Reach(n) \in Nat /\ Reach(k) \in Nat BY <1>1, ReachType
<1>3. ~ (n < k) BY <1>1, <1>2, ReachGrows, SizesArePositive
<1>4. k # n BY <1>1, <1>2
<1> QED BY <1>1, <1>3, <1>4

\* A position at the end of n clusters or before is at most in cluster n.
LEMMA AtMostReach ==
  ASSUME NEW p \in Nat, NEW n \in Nat, p <= Reach(n)
  PROVE  ClusterOf(p) \in 0 .. n /\ (ClusterOf(p) = n => p = Reach(n))
<1> DEFINE k == ClusterOf(p)
           o == ClusterPosition(p)
<1>1. k \in Nat /\ o \in 0 .. ClusterUnits - 1 /\ p = Reach(k) + o BY ReachOfPosition
<1>2. Reach(n) \in Nat /\ Reach(k) \in Nat BY <1>1, ReachType
<1>3. ~ (n < k) BY <1>1, <1>2, ReachGrows, SizesArePositive
<1>4. k = n => p = Reach(n) BY <1>1, <1>2
<1> QED BY <1>1, <1>3, <1>4

\* A place in a cluster of the chain is before the end of the chain.
LEMMA PlaceInReach ==
  ASSUME NEW k \in Nat, NEW o \in 0 .. ClusterUnits - 1
  PROVE  ClusterOf(Reach(k) + o) = k /\ ClusterPosition(Reach(k) + o) = o
BY PositionsAreUnique DEF Reach

\* FF_SetCluster on a sound chain.
LEMMA SetClusterOnChain ==
  ASSUME NEW f, NEW s, NEW n, Links(fat, s, n), FileTyped(f), f.object = s[0],
         f.cur \in 0 .. n, f.addr = s[Least(f.cur, n - 1)], f.ptr <= Reach(n)
  PROVE  /\ SetCluster(f).cur = ClusterOf(f.ptr)
         /\ SetCluster(f).cur \in 0 .. n
         /\ SetCluster(f).cur = n => f.ptr = Reach(n)
         /\ SetCluster(f).addr = s[Least(SetCluster(f).cur, n - 1)]
<1> DEFINE k == ClusterOf(f.ptr)
           g == SetCluster(f)
<1>1. n \in Nat \ {0} /\ f.ptr \in Nat /\ DOMAIN f = Fields
  <2>1. MaxSize \in Nat BY FileAssumption
  <2> QED BY <2>1 DEF Links, FileTyped
<1>2. k \in 0 .. n /\ (k = n => f.ptr = Reach(n)) BY <1>1, AtMostReach
<1> HIDE DEF k
<1>3. CASE k > f.cur
  <2>1. g.addr = TraverseFAT(f.addr, k - f.cur) /\ g.cur = k
    BY <1>1, <1>3 DEF SetCluster, Fields, k
  <2>2. f.cur \in 0 .. n - 1 /\ Least(f.cur, n - 1) = f.cur /\ k - f.cur \in Nat
    BY <1>1, <1>2, <1>3 DEF Least
  <2>3. TraverseFAT(f.addr, k - f.cur) = s[Least(f.cur + (k - f.cur), n - 1)]
    BY <2>2, TraverseOnChain
  <2>4. f.cur + (k - f.cur) = k BY <1>2, <2>2
  <2> QED BY <1>2, <2>1, <2>3, <2>4 DEF k
<1>4. CASE k < f.cur
  <2>1. g.addr = TraverseFAT(f.object, k) /\ g.cur = k
    BY <1>1, <1>2, <1>4 DEF SetCluster, Fields, k
  <2>2. 0 \in 0 .. n - 1 /\ k \in Nat /\ 0 + k = k BY <1>1, <1>2
  <2>3. TraverseFAT(s[0], k) = s[Least(0 + k, n - 1)] BY <2>2, TraverseOnChain
  <2> QED BY <1>2, <2>1, <2>2, <2>3 DEF k
<1>5. CASE k = f.cur
  <2>1. g = f BY <1>2, <1>5 DEF SetCluster, k
  <2> QED BY <1>2, <1>5, <2>1 DEF k
<1> QED BY <1>2, <1>3, <1>4, <1>5

-----------------------------------------------------------------------------
(* Sound: what a transfer keeps. *)

\* No call goes on with a closed handle.
LEMMA CallsAreOfOpenFiles ==
  ASSUME Sound, call # Idle
  PROVE  IsOpen
BY DEF Sound, ClosedSound

\* A handle under a call of FF_Read or FF_Write, with its chain.
LEMMA TransferFacts ==
  ASSUME Typed, call.op \in {"read", "write"}, call.at \in Pieces,
         NEW s, NEW n \in Nat, OpenSound(s, n)
  PROVE  /\ n \in Nat \ {0} /\ Links(fat, s, n) /\ s[0] = file.object /\ file.object # 0
         /\ CursorAt(file, s, n) /\ Known(n) = n
         /\ FileTyped(file) /\ file.ptr \in Nat /\ file.size \in Nat /\ Reach(n) \in Nat
         /\ call.left \in Nat \ {0} /\ file.ptr + call.left <= Reach(n)
         /\ call.op = "write" => file.ptr + call.left < Reach(n)
         /\ call.op = "read" => file.ptr + call.left <= file.size
<1>1. /\ file.ptr \in Nat /\ file.size \in Nat /\ call.left \in Nat \ {0} /\ FileTyped(file)
      /\ Reach(n) \in Nat /\ Reach(0) = 0
  BY NumbersOf, ReachType, ReachNone DEF Typed
<1>2. call.at # "grow" /\ call.at # "detach" /\ call.op # "close" BY DEF Pieces
<1>3. Known(n) = n /\ CursorAt(file, s, n) BY <1>2 DEF Known, OpenSound, CursorSound
<1>4. file.size <= Reach(n) BY DEF OpenSound, CursorSound
<1>5. call.op = "read" => file.ptr + call.left <= file.size BY DEF Typed, CallTyped
<1>6. call.op = "write" => file.ptr + call.left < Reach(n) BY DEF OpenSound, MoveSound
<1>7. file.ptr + call.left <= Reach(n) BY <1>1, <1>4, <1>5, <1>6
<1>8. n # 0 BY <1>1, <1>7
<1>9. Links(fat, s, n) /\ s[0] = file.object /\ file.object # 0
  BY <1>2, <1>8 DEF OpenSound, ChainSound
<1> QED BY <1>1, <1>3, <1>5, <1>6, <1>7, <1>8, <1>9

\* What remains to be shown of a step of a transfer.
LEMMA TransferSound ==
  ASSUME call.op \in {"read", "write"}, call.at \in Pieces,
         NEW s, NEW n \in Nat, OpenSound(s, n), IsOpen, ~ misread',
         UNCHANGED <<fat, entry>>,
         file'.mode = file.mode, file'.object = file.object, file'.length = file.length,
         call.op = "read" => file'.size = file.size,
         CursorAt(file', s, n),
         call' = Idle \/ (call'.op = call.op /\ call'.at \in Pieces),
         MoveSound(n)', \A i \in DOMAIN home' : InPlace(i, s, n)'
  PROVE  Sound'
<1>1. call.op # "close" /\ call.op # "eof" /\ call.at \notin {"grow", "detach", "first", "enter", "length"}
  BY DEF Pieces
<1>2. /\ call'.op # "close" /\ call'.op # "eof"
      /\ call'.at \notin {"grow", "detach", "first", "enter", "length", "truncate", "size", "leave", "fail"}
      /\ call'.op = "write" => call.op = "write"
  BY IdleFields DEF Pieces
<1>3. ChainSound(s, n)' BY <1>1, <1>2 DEF OpenSound, ChainSound
<1>4. CursorSound(s, n)'
  <2>1. file.length \in {0, n} BY <1>1 DEF OpenSound, CursorSound
  <2>2. file'.size <= Reach(n) BY DEF CursorAt
  <2> QED BY <1>2, <2>1, <2>2 DEF CursorSound, Known
<1>5. GrowSound(s, n)' BY <1>2 DEF GrowSound
<1>6. CloseSound(n)'
  <2>1. call.op = "write" => Writes(file.mode) BY DEF OpenSound, CloseSound
  <2>2. ~ Writes(file.mode) => entry.size = file.size /\ entry.cluster = file.object
    BY DEF OpenSound, CloseSound
  <2> QED BY <1>2, <2>1, <2>2 DEF CloseSound
<1>7. HomeSound(s, n)' BY <1>2 DEF HomeSound
<1>8. OpenSound(s, n)' BY <1>3, <1>4, <1>5, <1>6, <1>7 DEF OpenSound
<1> QED BY <1>8 DEF Sound, IsOpen

\* The units of m consecutive places, from the offset of the position on, are those the chain
\* has for the positions.
LEMMA PlacesInCluster ==
  ASSUME NEW p \in Nat, NEW c, c \in Nat, NEW m \in Nat, ClusterPosition(p) + m <= ClusterUnits
  PROVE  \A i \in 0 .. m - 1 :
           /\ Units(c, ClusterPosition(p), m)[i] = <<c, ClusterPosition(p + i)>>
           /\ ClusterOf(p + i) = ClusterOf(p)
<1> DEFINE k == ClusterOf(p)
           o == ClusterPosition(p)
<1> SUFFICES ASSUME NEW i \in 0 .. m - 1
             PROVE  Units(c, o, m)[i] = <<c, ClusterPosition(p + i)>> /\ ClusterOf(p + i) = k
  OBVIOUS
<1>1. /\ k \in Nat /\ o \in Nat /\ p = Reach(k) + o /\ Reach(k) \in Nat
      /\ ClusterUnits \in Nat \ {0} /\ o + m <= ClusterUnits
  BY ReachOfPosition, ReachType, SizesArePositive
<1> HIDE DEF k, o
<1>2. o + i \in 0 .. ClusterUnits - 1 /\ p + i = Reach(k) + (o + i) BY <1>1
<1>3. ClusterOf(p + i) = k /\ ClusterPosition(p + i) = o + i BY <1>1, <1>2, PlaceInReach
<1>4. (o + i) \div ClusterUnits = 0 /\ (o + i) % ClusterUnits = o + i
  <2> DEFINE u == ClusterUnits
             x == o + i
  <2>1. u \in Nat \ {0} /\ x \in 0 .. u - 1 /\ u * 0 + x = x BY <1>1, <1>2
  <2> HIDE DEF u, x
  <2>2. x \div u = 0 /\ x % u = x BY <2>1, DivModUnique
  <2> QED BY <2>2 DEF u, x
<1>5. Units(c, o, m)[i] = <<c + 0, o + i>> BY <1>4 DEF Units
<1> QED BY <1>3, <1>5

\* A write puts units where the chain has them, a read finds them there.
LEMMA TransferKeeps ==
  ASSUME Typed, NEW s, NEW n \in Nat, ~ misread, \A i \in DOMAIN home : InPlace(i, s, n),
         NEW p \in Nat, NEW m \in Nat, NEW unit, DOMAIN unit = 0 .. m - 1, p + m <= Reach(n),
         \/ call.op = "read" /\ call.failed
         \/ \A i \in 0 .. m - 1 : unit[i] = <<s[ClusterOf(p + i)], ClusterPosition(p + i)>>,
         Transfer(p, unit)
  PROVE  ~ misread' /\ \A i \in DOMAIN home' : InPlace(i, s, n)'
<1>0. DOMAIN home \subseteq Nat BY FileAssumption DEF Typed, HomeTyped
<1>00. Reach(n) \in Nat BY ReachType
<1>1. CASE call.op = "write"
  <2>1. /\ home' = [i \in (DOMAIN home) \cup {p + k : k \in 0 .. m - 1} |->
                      IF i - p \in 0 .. m - 1 THEN unit[i - p] ELSE home[i]]
        /\ misread' = misread
    BY <1>1 DEF Transfer
  <2> SUFFICES ASSUME NEW i \in DOMAIN home' PROVE InPlace(i, s, n)' BY <2>1
  <2>2. i \in Nat /\ (i \in DOMAIN home \/ i - p \in 0 .. m - 1) BY <1>0, <2>1
  <2>3. CASE i - p \in 0 .. m - 1
    <3>1. home'[i] = unit[i - p] BY <2>1, <2>3
    <3>2. p + (i - p) = i BY <2>2
    <3>3. unit[i - p] = <<s[ClusterOf(i)], ClusterPosition(i)>> BY <1>1, <2>3, <3>2
    <3>4. i < Reach(n) BY <1>00, <2>2, <2>3
    <3> QED BY <3>1, <3>3, <3>4 DEF InPlace
  <2>4. CASE i - p \notin 0 .. m - 1
    <3>1. home'[i] = home[i] /\ i \in DOMAIN home BY <2>1, <2>2, <2>4
    <3> QED BY <3>1 DEF InPlace
  <2> QED BY <2>3, <2>4
<1>2. CASE call.op # "write"
  <2>1. /\ misread' = (misread \/ (/\ ~ call.failed
                                   /\ \E k \in DOMAIN unit :
                                        p + k \in DOMAIN home /\ home[p + k] # unit[k]))
        /\ home' = home
    BY <1>2 DEF Transfer
  <2>2. call.failed \/ \A k \in DOMAIN unit : p + k \in DOMAIN home => home[p + k] = unit[k]
    BY DEF InPlace
  <2>3. ~ misread' BY <2>1, <2>2
  <2> QED BY <2>1, <2>3 DEF InPlace
<1> QED BY <1>1, <1>2

\* Where units have been moved the chain and the contents still agree.
LEMMA MovedSound ==
  ASSUME Typed, call.op \in {"read", "write"}, call.at \in Pieces,
         NEW s, NEW n \in Nat, OpenSound(s, n), IsOpen, ~ misread,
         NEW f, FileTyped(f), f.ptr = file.ptr, f.size = file.size, f.object = file.object,
         f.mode = file.mode, f.length = file.length, f.extended = file.extended,
         f.cur = ClusterOf(file.ptr), f.addr = s[ClusterOf(file.ptr)],
         NEW m \in 1 .. call.left, NEW place, DOMAIN place = 0 .. m - 1,
         \/ call.op = "read" /\ call.failed
         \/ \A i \in 0 .. m - 1 :
              place[i] = <<s[ClusterOf(file.ptr + i)], ClusterPosition(file.ptr + i)>>,
         NEW next \in {"rest", "clusters", "sectors", "idle"}, next = "idle" => m = call.left,
         Move(f, place, m, next), UNCHANGED <<fat, entry>>
  PROVE  Sound'
<1> DEFINE p == file.ptr
           a == Advance(f, m)
<1>1. /\ n \in Nat \ {0} /\ Links(fat, s, n) /\ s[0] = file.object /\ file.object # 0
      /\ CursorAt(file, s, n) /\ p \in Nat /\ file.size \in Nat /\ Reach(n) \in Nat
      /\ call.left \in Nat \ {0} /\ p + call.left <= Reach(n)
      /\ call.op = "write" => p + call.left < Reach(n)
      /\ call.op = "read" => p + call.left <= file.size
  BY TransferFacts
<1>2. m \in Nat \ {0} /\ p + m <= Reach(n) /\ p < Reach(n)
      /\ (call.op = "write" => p + m < Reach(n)) /\ (call.op = "read" => p + m <= file.size)
  <2> HIDE DEF p
  <2> QED BY <1>1
<1>3. ClusterOf(p) \in 0 .. n - 1 BY <1>1, <1>2, WithinReach
<1>4. /\ a.ptr = p + m /\ a.mode = file.mode /\ a.object = file.object /\ a.length = file.length
      /\ a.extended = file.extended /\ a.cur = ClusterOf(p) /\ a.addr = s[ClusterOf(p)]
      /\ a.size = IF call.op = "write" /\ p + m > file.size THEN p + m ELSE file.size
  BY DEF FileTyped, Fields, Advance
<1>5. CursorAt(a, s, n) /\ CursorAt(f, s, n)
  <2> DEFINE k == ClusterOf(p)
  <2>1. k \in 0 .. n /\ k # n /\ Least(k, n - 1) = k BY <1>1, <1>3 DEF Least
  <2>2. file.size <= Reach(n) /\ (file.extended => file.size < Reach(n)) BY <1>1 DEF CursorAt
  <2> HIDE DEF k, p, a
  <2>3. a.size <= Reach(n) /\ (a.extended => a.size < Reach(n)) BY <1>1, <1>2, <1>4, <2>2
  <2> QED BY <1>4, <2>1, <2>2, <2>3 DEF CursorAt, k, p
<1>7. CASE /\ Transfer(p, place) /\ file' = a
           /\ call' = IF call.left = m THEN Idle ELSE [call EXCEPT !.at = next, !.left = @ - m]
  <2>2. \A i \in DOMAIN home : InPlace(i, s, n) BY DEF OpenSound, HomeSound, Pieces
  <2>4. ~ misread' /\ \A i \in DOMAIN home' : InPlace(i, s, n)'
    BY <1>1, <1>2, <1>7, <2>2, TransferKeeps
  <2>5. DOMAIN call = DOMAIN Idle BY DEF Typed, CallTyped
  <2>6. \/ call' = Idle
        \/ /\ call'.op = call.op /\ call'.at \in Pieces /\ call'.at \notin {"run", "tail"}
           /\ call'.left = call.left - m
    BY <1>7, <2>5, IdleFields DEF Pieces
  <2>7. MoveSound(n)'
    <3>1. CASE call' = Idle BY <3>1, IdleFields DEF MoveSound
    <3>2. CASE /\ call'.op = call.op /\ call'.at \notin {"run", "tail"}
               /\ call'.left = call.left - m
      <4>1. file'.ptr + call'.left = p + call.left BY <1>1, <1>2, <1>4, <1>7, <3>2
      <4> QED BY <1>1, <3>2, <4>1 DEF MoveSound
    <3> QED BY <2>6, <3>1, <3>2
  <2>8. call.op = "read" => file'.size = file.size BY <1>4, <1>7
  <2>9. /\ file'.mode = file.mode /\ file'.object = file.object /\ file'.length = file.length
        /\ CursorAt(file', s, n)
    BY <1>4, <1>5, <1>7
  <2> HIDE DEF p, a
  <2> QED BY <2>4, <2>6, <2>7, <2>8, <2>9, TransferSound
<1>8. CASE /\ file' \in {f, IF call.op = "read" /\ call.at \in {"head", "tail"} THEN a ELSE f}
           /\ call' = Idle /\ UNCHANGED <<home, misread>>
  <2>1. \A i \in DOMAIN home : InPlace(i, s, n) BY DEF OpenSound, HomeSound, Pieces
  <2>2. ~ misread' /\ \A i \in DOMAIN home' : InPlace(i, s, n)' BY <1>8, <2>1 DEF InPlace
  <2>3. MoveSound(n)' BY <1>8, IdleFields DEF MoveSound
  <2>4. /\ file'.mode = file.mode /\ file'.object = file.object /\ file'.length = file.length
        /\ CursorAt(file', s, n)
    <3> HIDE DEF a
    <3> QED BY <1>4, <1>5, <1>8
  <2>5. call.op = "read" => file'.size = file.size
    <3>1. call.op = "read" => a.size = file.size BY <1>4
    <3> HIDE DEF a
    <3> QED BY <1>8, <3>1
  <2> HIDE DEF p, a
  <2> QED BY <1>8, <2>2, <2>3, <2>4, <2>5, TransferSound
<1> QED BY <1>7, <1>8 DEF Move, Moved, Return

\* The cursor of a transfer, moved to its position.
LEMMA CursorMoved ==
  ASSUME Typed, call.op \in {"read", "write"}, call.at \in Pieces,
         NEW s, NEW n \in Nat, OpenSound(s, n)
  PROVE  /\ ClusterOf(file.ptr) \in 0 .. n - 1
         /\ SetCluster(file).cur = ClusterOf(file.ptr)
         /\ SetCluster(file).addr = s[ClusterOf(file.ptr)]
<1>1. /\ n \in Nat \ {0} /\ Links(fat, s, n) /\ s[0] = file.object /\ file.object # 0
      /\ CursorAt(file, s, n) /\ FileTyped(file) /\ file.ptr \in Nat /\ Reach(n) \in Nat
      /\ call.left \in Nat \ {0} /\ file.ptr + call.left <= Reach(n)
  BY TransferFacts
<1>2. file.ptr <= Reach(n) /\ file.ptr < Reach(n) BY <1>1
<1>3. ClusterOf(file.ptr) \in 0 .. n - 1 BY <1>1, <1>2, WithinReach
<1>4. file.cur \in 0 .. n /\ file.addr = s[Least(file.cur, n - 1)] BY <1>1 DEF CursorAt
<1>5. /\ SetCluster(file).cur = ClusterOf(file.ptr)
      /\ SetCluster(file).addr = s[Least(SetCluster(file).cur, n - 1)]
  BY <1>1, <1>2, <1>4, SetClusterOnChain
<1>6. Least(ClusterOf(file.ptr), n - 1) = ClusterOf(file.ptr) BY <1>1, <1>3 DEF Least
<1> QED BY <1>3, <1>5, <1>6

\* The places of a piece in the cluster of the position.
LEMMA ChainPlaces ==
  ASSUME Typed, call.op \in {"read", "write"}, call.at \in Pieces,
         NEW s, NEW n \in Nat, OpenSound(s, n),
         NEW m \in 1 .. call.left, ClusterPosition(file.ptr) + m <= ClusterUnits,
         NEW c, c = s[ClusterOf(file.ptr)]
  PROVE  \A i \in 0 .. m - 1 :
           Units(c, ClusterPosition(file.ptr), m)[i]
             = <<s[ClusterOf(file.ptr + i)], ClusterPosition(file.ptr + i)>>
<1>1. Links(fat, s, n) /\ file.ptr \in Nat /\ call.left \in Nat \ {0} BY TransferFacts
<1>2. ClusterOf(file.ptr) \in 0 .. n - 1 BY CursorMoved
<1>3. c \in Nat
  <2>1. c \in Clusters BY <1>1, <1>2 DEF Links
  <2> QED BY <2>1, ClustersAreNumbers
<1>4. m \in Nat BY <1>1
<1> QED BY <1>1, <1>3, <1>4, PlacesInCluster

\* A step that moves a piece in one cluster, or fails in it, keeps what is sound.
LEMMA PieceSound ==
  ASSUME Typed, Sound, astray' = {}, call.op \in {"read", "write"}, call.at \in Pieces,
         NEW m \in 1 .. call.left, NEW rel,
         Major(file.ptr) * SectorUnits + rel = ClusterPosition(file.ptr),
         ClusterPosition(file.ptr) + m <= ClusterUnits,
         NEW next \in {"rest", "clusters", "sectors", "idle"}, next = "idle" => m = call.left,
         Piece(m, rel, next), UNCHANGED <<fat, entry>>
  PROVE  Sound'
<1>1. IsOpen /\ ~ misread BY IdleFields, CallsAreOfOpenFiles DEF Sound
<1>a. PICK s : \E n \in Nat : OpenSound(s, n) BY <1>1 DEF Sound
<1>2. PICK n \in Nat : OpenSound(s, n) BY <1>a
<1> DEFINE f == SetCluster(file)
<1>3. FileTyped(file) BY DEF Typed
<1>4. /\ FileTyped(f) /\ f.mode = file.mode /\ f.ptr = file.ptr /\ f.size = file.size
      /\ f.object = file.object /\ f.length = file.length /\ f.extended = file.extended
  BY <1>3, SetClusterKeeps
<1>5. f.cur = ClusterOf(file.ptr) /\ f.addr = s[ClusterOf(file.ptr)] BY <1>2, CursorMoved
<1> DEFINE place == Units(f.addr, ClusterPosition(file.ptr), m)
<1>6. Move(f, place, m, next)
  <2>1. Move(f, Units(f.addr, Major(f.ptr) * SectorUnits + rel, m), m, next)
    BY DEF Piece, CursorIsLost, FatFault
  <2> QED BY <1>4, <2>1
<1>7. \A i \in 0 .. m - 1 :
        place[i] = <<s[ClusterOf(file.ptr + i)], ClusterPosition(file.ptr + i)>>
  BY <1>2, <1>5, ChainPlaces
<1>8. DOMAIN place = 0 .. m - 1 BY DEF Units
<1> HIDE DEF f, place
<1> QED BY <1>1, <1>2, <1>4, <1>5, <1>6, <1>7, <1>8, MovedSound

\* The cursor so moved is at a cluster of the chain.
LEMMA SetCursorAt ==
  ASSUME Typed, call.op \in {"read", "write"}, call.at \in Pieces,
         NEW s, NEW n \in Nat, OpenSound(s, n),
         NEW f, f = SetCluster(file)
  PROVE  /\ f.mode = file.mode /\ f.ptr = file.ptr /\ f.size = file.size
         /\ f.object = file.object /\ f.length = file.length
         /\ f.cur = ClusterOf(file.ptr) /\ CursorAt(f, s, n)
<1>1. FileTyped(file) BY DEF Typed
<1>2. /\ f.mode = file.mode /\ f.ptr = file.ptr /\ f.size = file.size
      /\ f.object = file.object /\ f.length = file.length /\ f.extended = file.extended
  BY <1>1, SetClusterKeeps
<1>3. /\ ClusterOf(file.ptr) \in 0 .. n - 1
      /\ f.cur = ClusterOf(file.ptr) /\ f.addr = s[ClusterOf(file.ptr)]
  BY CursorMoved
<1>4. n \in Nat \ {0} /\ CursorAt(file, s, n) BY TransferFacts
<1>5. f.cur \in 0 .. n /\ f.cur # n /\ Least(f.cur, n - 1) = f.cur BY <1>3, <1>4 DEF Least
<1> QED BY <1>2, <1>3, <1>4, <1>5 DEF CursorAt

\* A step that only moves the cursor, or nothing.
LEMMA CursorStepSound ==
  ASSUME Typed, Sound, call.op \in {"read", "write"}, call.at \in Pieces,
         file' = file \/ file' = SetCluster(file), UNCHANGED <<fat, entry, home, misread>>,
         DOMAIN call' = DOMAIN Idle, call'.op = call.op, call'.at \in Pieces, call'.left = call.left,
         call'.at = "run" => file' = SetCluster(file) /\ call'.done = 0,
         call'.at = "tail" => (call.op = "read" /\ call'.failed) \/ call.left < SectorUnits
  PROVE  Sound'
<1>1. IsOpen /\ ~ misread BY IdleFields, CallsAreOfOpenFiles DEF Sound
<1>a. PICK s : \E n \in Nat : OpenSound(s, n) BY <1>1 DEF Sound
<1>2. PICK n \in Nat : OpenSound(s, n) BY <1>a
<1> DEFINE f == SetCluster(file)
<1>3. /\ f.mode = file.mode /\ f.ptr = file.ptr /\ f.size = file.size
      /\ f.object = file.object /\ f.length = file.length
      /\ f.cur = ClusterOf(file.ptr) /\ CursorAt(f, s, n)
  BY <1>2, SetCursorAt
<1>4. CursorAt(file, s, n) /\ file.ptr \in Nat BY <1>2, TransferFacts
<1>8. /\ file'.mode = file.mode /\ file'.object = file.object /\ file'.length = file.length
      /\ file'.size = file.size /\ file'.ptr = file.ptr /\ CursorAt(file', s, n)
  BY <1>3, <1>4
<1>9. MoveSound(n)'
  <2>1. call'.at = "run" => file'.cur = ClusterOf(file'.ptr) + call'.done
    <3>1. ClusterOf(file.ptr) \in Nat BY <1>4, ReachOfPosition
    <3> QED BY <1>3, <1>8, <3>1
  <2>2. call'.op = "write" => file'.ptr + call'.left < Reach(n)
    BY <1>2, <1>8 DEF OpenSound, MoveSound
  <2> QED BY <2>1, <2>2 DEF MoveSound
<1>10. \A i \in DOMAIN home' : InPlace(i, s, n)'
  <2>1. \A i \in DOMAIN home : InPlace(i, s, n) BY <1>2 DEF OpenSound, HomeSound, Pieces
  <2> QED BY <2>1 DEF InPlace
<1> QED BY <1>1, <1>2, <1>8, <1>9, <1>10, TransferSound

\* A transfer that stops with the cursor at its position.
LEMMA StoppedSound ==
  ASSUME Typed, Sound, call.op \in {"read", "write"}, call.at \in Pieces,
         file' = SetCluster(file), call' = Idle, UNCHANGED <<fat, entry, home, misread>>
  PROVE  Sound'
<1>1. IsOpen /\ ~ misread BY IdleFields, CallsAreOfOpenFiles DEF Sound
<1>a. PICK s : \E n \in Nat : OpenSound(s, n) BY <1>1 DEF Sound
<1>2. PICK n \in Nat : OpenSound(s, n) BY <1>a
<1>3. /\ file'.mode = file.mode /\ file'.object = file.object /\ file'.length = file.length
      /\ file'.size = file.size /\ CursorAt(file', s, n)
  BY <1>2, SetCursorAt
<1>4. MoveSound(n)' BY IdleFields DEF MoveSound, Pieces
<1>5. \A i \in DOMAIN home' : InPlace(i, s, n)'
  <2>1. \A i \in DOMAIN home : InPlace(i, s, n) BY <1>2 DEF OpenSound, HomeSound, Pieces
  <2> QED BY <2>1 DEF InPlace
<1> QED BY <1>1, <1>2, <1>3, <1>4, <1>5, TransferSound

\* A piece that stays in its sector stays in its cluster.
LEMMA SectorInCluster ==
  ASSUME NEW p \in Nat, NEW m \in Nat, Minor(p) + m <= SectorUnits
  PROVE  ClusterPosition(p) + m <= ClusterUnits
<1> DEFINE j == Major(p)
           su == SectorUnits
           sc == SectorsPerCluster
           r == Minor(p)
           a == su * (j + 1)
           b == su * sc
<1>1. /\ su \in Nat \ {0} /\ sc \in Nat /\ ClusterUnits = b
      /\ j \in Nat /\ j + 1 <= sc /\ r \in Nat /\ ClusterPosition(p) = j * su + r
  BY SizesArePositive, Places
<1>2. a <= b BY <1>1, Monotone
<1>3. a = j * su + su /\ j * su \in Nat /\ b \in Nat BY <1>1
<1> DEFINE y == j * su
<1>4. a = y + su /\ y \in Nat /\ ClusterPosition(p) = y + r BY <1>1, <1>3
<1>5. r + m <= su OBVIOUS
<1> HIDE DEF y, a, b, r, su
<1> QED BY <1>1, <1>2, <1>3, <1>4, <1>5

\* The first piece, up to a sector's end.
LEMMA HeadSound == ASSUME Typed, Sound, astray' = {}, Head PROVE Sound'
<1> DEFINE p == file.ptr
           rel == Minor(p)
           m == HeadUnits(p, call.left)
<1>1. /\ call.op \in {"read", "write"} /\ call.at = "head" /\ call.at \in Pieces
      /\ UNCHANGED <<fat, entry>>
  BY DEF Head, IsTransfer, Pieces
<1>2. IF m = call.left \/ rel # 0
      THEN Piece(m, rel, "rest") \/ ReadAstray(m, rel)
      ELSE /\ \/ file' = SetCluster(file) /\ Step("rest") /\ NoFault
              \/ CursorIsLost /\ IF call.op = "read" THEN Step("rest") ELSE Return
           /\ UNCHANGED <<home, misread>>
  BY DEF Head, HeadUnits
<1>3. p \in Nat /\ call.left \in Nat \ {0} BY <1>1, NumbersOf
<1>4. m \in 1 .. call.left /\ rel + m <= SectorUnits BY <1>3, HeadFits
<1>5. ~ CursorIsLost /\ ~ ReadAstray(m, rel) BY DEF CursorIsLost, ReadAstray, FatFault
<1>6. CASE Piece(m, rel, "rest")
  <2>1. /\ Major(p) \in 0 .. SectorsPerCluster - 1
        /\ ClusterPosition(p) = Major(p) * SectorUnits + rel /\ rel \in Nat
    BY <1>3, Places
  <2>2. ClusterPosition(p) + m <= ClusterUnits BY <1>3, <1>4, SectorInCluster
  <2> HIDE DEF p, m, rel
  <2> QED BY <1>1, <1>4, <1>6, <2>1, <2>2, PieceSound DEF p
<1>7. CASE file' = SetCluster(file) /\ Step("rest") /\ UNCHANGED <<home, misread>>
  <2>1. DOMAIN call = DOMAIN Idle BY DEF Typed, CallTyped
  <2>2. /\ DOMAIN call' = DOMAIN Idle /\ call'.op = call.op /\ call'.at \in Pieces
        /\ call'.left = call.left /\ call'.at \notin {"run", "tail"}
    BY <1>7, <2>1, IdleFields DEF Step, Pieces
  <2> QED BY <1>1, <1>7, <2>2, CursorStepSound
<1> QED BY <1>2, <1>5, <1>6, <1>7

\* A step of a transfer that has nothing to move keeps what is sound.
LEMMA SkipSound ==
  ASSUME Typed, Sound, call.op \in {"read", "write"}, call.at \in Pieces,
         NEW at \in Pieces \ {"run"}, at = "tail" => call.left < SectorUnits, Skip(at),
         UNCHANGED <<fat, entry>>
  PROVE  Sound'
<1>1. DOMAIN call = DOMAIN Idle BY DEF Typed, CallTyped
<1>2. /\ DOMAIN call' = DOMAIN Idle /\ call'.op = call.op /\ call'.at \in Pieces
      /\ call'.left = call.left /\ call'.at = at
  BY <1>1, IdleFields DEF Skip, Step
<1>3. UNCHANGED <<file, home, misread>> BY DEF Skip
<1> QED BY <1>2, <1>3, CursorStepSound

\* The sectors up to the end of a cluster.
LEMMA RestOfClusterSound == ASSUME Typed, Sound, astray' = {}, RestOfCluster PROVE Sound'
<1> DEFINE p == file.ptr
           m == RestUnits(p)
           pos == ClusterPosition(p)
<1>1. /\ call.op \in {"read", "write"} /\ call.at = "rest" /\ call.at \in Pieces
      /\ UNCHANGED <<fat, entry>>
      /\ IF pos # 0 /\ pos + call.left >= ClusterUnits THEN Piece(m, 0, "clusters")
         ELSE Skip("clusters")
  BY DEF RestOfCluster, IsTransfer, Pieces
<1>2. p \in Nat /\ call.left \in Nat \ {0} /\ p % SectorUnits = 0
  BY <1>1, NumbersOf DEF Typed, AlignedAt
<1>3. m = ClusterUnits - pos /\ m \in Nat \ {0} BY <1>2, RestFits
<1>4. pos \in 0 .. ClusterUnits - 1 /\ ClusterUnits \in Nat BY <1>2, Positions, SizesArePositive
<1>5. CASE pos # 0 /\ pos + call.left >= ClusterUnits
  <2>1. Major(p) * SectorUnits + 0 = pos
    <3>1. pos = Major(p) * SectorUnits + Minor(p) /\ Minor(p) = 0 BY <1>2, Places
    <3> QED BY <3>1
  <2> HIDE DEF m, p
  <2>2. m \in 1 .. call.left /\ pos + m <= ClusterUnits BY <1>2, <1>3, <1>4, <1>5
  <2>3. Piece(m, 0, "clusters") BY <1>1, <1>5
  <2> QED BY <1>1, <2>1, <2>2, <2>3, PieceSound DEF p
<1>6. CASE ~ (pos # 0 /\ pos + call.left >= ClusterUnits)
  <2>1. "clusters" \in Pieces \ {"run"} BY DEF Pieces
  <2> QED BY <1>1, <1>6, <2>1, SkipSound
<1> QED BY <1>5, <1>6

\* The beginning of the loop over clusters.
LEMMA BeginRunsSound == ASSUME Typed, Sound, astray' = {}, BeginRuns PROVE Sound'
<1>1. /\ call.op \in {"read", "write"} /\ call.at = "clusters" /\ call.at \in Pieces
      /\ UNCHANGED <<fat, entry>> /\ ~ CursorIsLost
      /\ IF call.left < ClusterUnits THEN Skip("sectors")
         ELSE /\ \/ /\ file' = SetCluster(file)
                    /\ call' = [call EXCEPT !.at = "run", !.done = 0,
                                            !.want = call.left \div ClusterUnits]
                 \/ CursorIsLost /\ Return
              /\ UNCHANGED <<home, misread>>
  BY DEF BeginRuns, IsTransfer, Pieces, CursorIsLost, FatFault
<1>2. CASE Skip("sectors")
  <2>1. "sectors" \in Pieces \ {"run"} BY DEF Pieces
  <2> QED BY <1>1, <1>2, <2>1, SkipSound
<1>3. CASE /\ file' = SetCluster(file)
           /\ call' = [call EXCEPT !.at = "run", !.done = 0, !.want = call.left \div ClusterUnits]
           /\ UNCHANGED <<home, misread>>
  <2>1. DOMAIN call = DOMAIN Idle BY DEF Typed, CallTyped
  <2>2. /\ DOMAIN call' = DOMAIN Idle /\ call'.op = call.op /\ call'.at \in Pieces
        /\ call'.left = call.left /\ call'.done = 0
    BY <1>3, <2>1, IdleFields DEF Pieces
  <2> QED BY <1>1, <1>3, <2>2, CursorStepSound
<1> QED BY <1>1, <1>2, <1>3

\* The sectors behind the last whole cluster.  A read one of whose sectors fails goes on
\* with the cursor where the position is.
LEMMA SectorsSound == ASSUME Typed, Sound, astray' = {}, Sectors PROVE Sound'
<1> DEFINE p == file.ptr
           m == SectorRun(p, call.left)
           f == SetCluster(file)
           place == Units(f.addr, ClusterPosition(p), m)
<1>1. /\ call.op \in {"read", "write"} /\ call.at = "sectors" /\ call.at \in Pieces
      /\ UNCHANGED <<fat, entry>>
      /\ IF call.left < SectorUnits THEN Skip("tail")
         ELSE \/ Moved(f, Units(f.addr, Major(f.ptr) * SectorUnits, m), m, "sectors")
              \/ file' = f /\ SectorsFail
  BY DEF Sectors, IsTransfer, Pieces, CursorIsLost, FatFault
<1>2. p \in Nat /\ call.left \in Nat \ {0} /\ p % SectorUnits = 0 /\ SectorUnits \in Nat
  BY <1>1, NumbersOf, SizesArePositive DEF Typed, AlignedAt
<1>3. CASE Skip("tail") /\ call.left < SectorUnits
  <2>1. "tail" \in Pieces \ {"run"} BY DEF Pieces
  <2> QED BY <1>1, <1>3, <2>1, SkipSound
<1>4. FileTyped(file) BY DEF Typed
<1>5. CASE /\ ~ (call.left < SectorUnits)
           /\ Moved(f, Units(f.addr, Major(f.ptr) * SectorUnits, m), m, "sectors")
  <2>1. m \in 1 .. call.left /\ ClusterPosition(p) + m <= ClusterUnits
    <3>1. call.left >= SectorUnits BY <1>2, <1>5
    <3> QED BY <1>2, <3>1, SectorRunFits
  <2>2. /\ FileTyped(f) /\ f.mode = file.mode /\ f.ptr = file.ptr /\ f.size = file.size
        /\ f.object = file.object /\ f.length = file.length /\ f.extended = file.extended
    BY <1>4, SetClusterKeeps
  <2>3. Major(f.ptr) * SectorUnits = ClusterPosition(p)
    <3>1. /\ ClusterPosition(p) = Major(p) * SectorUnits + Minor(p) /\ Minor(p) = 0
          /\ Major(p) \in Nat
      BY <1>2, Places
    <3>2. Major(p) * SectorUnits \in Nat BY <1>2, <3>1
    <3> QED BY <2>2, <3>1, <3>2
  <2>4. IsOpen /\ ~ misread BY <1>1, IdleFields, CallsAreOfOpenFiles DEF Sound
  <2>a. PICK s : \E n \in Nat : OpenSound(s, n) BY <2>4 DEF Sound
  <2>5. PICK n \in Nat : OpenSound(s, n) BY <2>a
  <2>6. f.cur = ClusterOf(p) /\ f.addr = s[ClusterOf(p)] BY <1>1, <2>5, CursorMoved
  <2>7. \A i \in 0 .. m - 1 : place[i] = <<s[ClusterOf(p + i)], ClusterPosition(p + i)>>
    <3> HIDE DEF m, f
    <3> QED BY <1>1, <2>1, <2>5, <2>6, ChainPlaces
  <2>8. DOMAIN place = 0 .. m - 1 BY DEF Units
  <2>9. Move(f, place, m, "sectors") BY <1>5, <2>3 DEF Move
  <2> HIDE DEF f, m, place
  <2> QED BY <1>1, <2>1, <2>2, <2>4, <2>5, <2>6, <2>7, <2>8, <2>9, MovedSound
<1>6. CASE file' = f /\ SectorsFail
  <2>1. UNCHANGED <<home, misread>> BY <1>6 DEF SectorsFail
  <2>2. CASE call.op = "read"
    <3>1. DOMAIN call = DOMAIN Idle BY DEF Typed, CallTyped
    <3>2. /\ DOMAIN call' = DOMAIN Idle /\ call'.op = call.op /\ call'.at = "tail"
          /\ call'.at \in Pieces /\ call'.left = call.left /\ call'.failed
      BY <1>6, <2>2, <3>1, IdleFields DEF SectorsFail, Pieces
    <3> QED BY <1>1, <1>6, <2>1, <2>2, <3>2, CursorStepSound
  <2>3. CASE call.op # "read"
    <3>1. call' = Idle BY <1>6, <2>3 DEF SectorsFail
    <3> QED BY <1>1, <1>6, <2>1, <3>1, StoppedSound
  <2> QED BY <2>2, <2>3
<1> QED BY <1>1, <1>3, <1>5, <1>6

\* The part of a sector behind the last sector, or what is left of a read that has failed.
LEMMA TailSound == ASSUME Typed, Sound, astray' = {}, Tail PROVE Sound'
<1> DEFINE p == file.ptr
           m == call.left
           f == SetCluster(file)
           place == BufferUnits(f.addr, Major(f.ptr) * SectorUnits, m)
<1>1. /\ call.op \in {"read", "write"} /\ call.at = "tail" /\ call.at \in Pieces
      /\ UNCHANGED <<fat, entry>> /\ Move(f, place, m, "idle")
  BY DEF Tail, IsTransfer, Pieces, CursorIsLost, FatFault
<1>2. p \in Nat /\ m \in Nat \ {0} /\ p % SectorUnits = 0 /\ SectorUnits \in Nat /\ FileTyped(file)
  BY <1>1, NumbersOf, SizesArePositive DEF Typed, AlignedAt
<1>3. /\ FileTyped(f) /\ f.mode = file.mode /\ f.ptr = file.ptr /\ f.size = file.size
      /\ f.object = file.object /\ f.length = file.length /\ f.extended = file.extended
  BY <1>2, SetClusterKeeps
<1>4. IsOpen /\ ~ misread BY <1>1, IdleFields, CallsAreOfOpenFiles DEF Sound
<1>a. PICK s : \E n \in Nat : OpenSound(s, n) BY <1>4 DEF Sound
<1>5. PICK n \in Nat : OpenSound(s, n) BY <1>a
<1>6. f.cur = ClusterOf(p) /\ f.addr = s[ClusterOf(p)] BY <1>1, <1>5, CursorMoved
<1>7. \/ call.op = "read" /\ call.failed
      \/ \A i \in 0 .. m - 1 : place[i] = <<s[ClusterOf(p + i)], ClusterPosition(p + i)>>
  <2> SUFFICES ASSUME ~ (call.op = "read" /\ call.failed), NEW i \in 0 .. m - 1
               PROVE  place[i] = <<s[ClusterOf(p + i)], ClusterPosition(p + i)>>
    OBVIOUS
  <2>1. m < SectorUnits BY <1>1, <1>5 DEF OpenSound, MoveSound
  <2>2. Minor(p) = 0 /\ ClusterPosition(p) = Major(p) * SectorUnits + Minor(p) /\ Major(p) \in Nat
    BY <1>2, Places
  <2>3. Minor(p) + m <= SectorUnits BY <1>2, <2>1, <2>2
  <2>4. ClusterPosition(p) + m <= ClusterUnits
    <3> HIDE DEF m
    <3> QED BY <1>2, <2>3, SectorInCluster
  <2>5. Units(f.addr, ClusterPosition(p), m)[i]
          = <<s[ClusterOf(p + i)], ClusterPosition(p + i)>>
    <3>1. m \in 1 .. call.left BY <1>2
    <3> HIDE DEF m, f
    <3> QED BY <1>1, <1>5, <1>6, <2>4, <3>1, ChainPlaces
  <2>6. /\ ClusterPosition(p) \in Nat /\ ClusterUnits \in Nat \ {0} /\ f.addr \in Nat
        /\ Major(p) * SectorUnits = ClusterPosition(p)
    <3>1. s[ClusterOf(p)] \in Clusters
      <4>1. Links(fat, s, n) BY <1>1, <1>5, TransferFacts
      <4>2. ClusterOf(p) \in 0 .. n - 1 BY <1>1, <1>5, CursorMoved
      <4> QED BY <4>1, <4>2 DEF Links
    <3>2. Major(p) * SectorUnits \in Nat BY <1>2, <2>2
    <3> QED BY <1>2, <1>6, <2>2, <3>1, <3>2, ClustersAreNumbers, SizesArePositive
  <2>7. Units(f.addr, ClusterPosition(p), m)[i] = <<f.addr, ClusterPosition(p) + i>>
    <3> DEFINE u == ClusterUnits
               x == ClusterPosition(p) + i
    <3>1. u \in Nat \ {0} /\ x \in 0 .. u - 1 /\ u * 0 + x = x BY <1>2, <2>4, <2>6
    <3>2. Units(f.addr, ClusterPosition(p), m)[i] = <<f.addr + (x \div u), x % u>> BY DEF Units
    <3> HIDE DEF u, x, f
    <3>3. x \div u = 0 /\ x % u = x BY <3>1, DivModUnique
    <3>4. f.addr + 0 = f.addr BY <2>6
    <3> QED BY <3>2, <3>3, <3>4 DEF x
  <2>8. i < SectorUnits BY <1>2, <2>1
  <2>9. place[i] = <<f.addr, ClusterPosition(p) + i>>
    <3>1. place[i] = <<f.addr, Major(f.ptr) * SectorUnits + i>> BY <2>8 DEF BufferUnits
    <3> QED BY <1>3, <2>6, <3>1
  <2> QED BY <2>5, <2>7, <2>9
<1>8. DOMAIN place = 0 .. m - 1 BY DEF BufferUnits
<1>9. m \in 1 .. call.left BY <1>2
<1> HIDE DEF f, place, m
<1> QED BY <1>1, <1>3, <1>4, <1>5, <1>6, <1>7, <1>8, <1>9, MovedSound DEF m

-----------------------------------------------------------------------------
\* The clusters of a run follow each other on the disk and in the chain.
LEMMA RunOnChain ==
  ASSUME NEW s, NEW n, Links(fat, s, n), NEW cur \in 0 .. n - 1, file.addr = s[cur],
         call.want \in Nat \ {0}, cur + call.want <= n, NEW run \in RunLengths
  PROVE  \A i \in 0 .. run - 1 : s[cur + i] = s[cur] + i
<1> DEFINE w == call.want - 1
           k == Sequential(s[cur], w)
<1>1. n \in Nat \ {0} /\ s \in [0 .. n - 1 -> Clusters] BY DEF Links
<1>2. s[cur] \in Nat BY <1>1, ClustersAreNumbers
<1>3. CASE run = 1
  <2>1. cur + 0 = cur /\ s[cur] + 0 = s[cur] BY <1>2
  <2> QED BY <1>3, <2>1
<1>4. CASE run # 1
  <2>1. call.want > 1 /\ run = 1 + k BY <1>4 DEF RunLengths
  <2>2. w \in Nat BY <2>1
  <2>3. k \in 0 .. w /\ \A i \in 1 .. k : TraverseFAT(s[cur], i) = s[cur] + i
    BY <2>2, SequentialIs
  <2>4. k \in Nat /\ cur + k <= n - 1 /\ run - 1 = k
    <3> HIDE DEF k
    <3> QED BY <1>1, <2>1, <2>2, <2>3
  <2> HIDE DEF k
  <2>5. \A i \in 0 .. k : s[cur + i] = s[cur] + i BY <2>3, <2>4, SequentialOnChain
  <2> QED BY <2>4, <2>5
<1> QED BY <1>3, <1>4

Consecutive(s, k, run, c) == \A j \in 0 .. run - 1 : s[k + j] = c + j

\* The units of a run are where the chain has the positions they are read or written at.
LEMMA PlacesInRun ==
  ASSUME NEW k \in Nat, NEW run \in Nat, NEW s, NEW c \in Nat,
         Consecutive(s, k, run, c),
         NEW i \in 0 .. Reach(run) - 1
  PROVE  Units(c, 0, Reach(run))[i] = <<s[ClusterOf(Reach(k) + i)], ClusterPosition(Reach(k) + i)>>
<1>1. ClusterUnits \in Nat \ {0} BY SizesArePositive
<1>2. i \in Nat /\ i < Reach(run) BY ReachType
<1> DEFINE j == ClusterOf(i)
           o == ClusterPosition(i)
<1>3. j \in 0 .. run - 1 BY <1>2, WithinReach
<1>4. o \in 0 .. ClusterUnits - 1 /\ i = Reach(j) + o /\ Reach(j) \in Nat /\ Reach(k) \in Nat
  BY <1>2, <1>3, ReachOfPosition, ReachType
<1> HIDE DEF j, o
<1>5. Reach(k + j) = Reach(k) + Reach(j) BY <1>1, <1>3 DEF Reach
<1>6. Reach(k) + i = Reach(k + j) + o BY <1>4, <1>5
<1>7. ClusterOf(Reach(k) + i) = k + j /\ ClusterPosition(Reach(k) + i) = o
  <2>1. k + j \in Nat BY <1>3
  <2> QED BY <1>4, <1>6, <2>1, PlaceInReach
<1>8. Units(c, 0, Reach(run))[i] = <<c + j, o>>
  <2>1. 0 + i = i BY <1>2
  <2> QED BY <2>1 DEF Units, j, o, ClusterOf, ClusterPosition
<1>9. s[k + j] = c + j BY <1>3 DEF Consecutive
<1> QED BY <1>7, <1>8, <1>9

\* Where a run begins.
LEMMA RunFacts ==
  ASSUME Typed, call.op \in {"read", "write"}, call.at = "run",
         NEW s, NEW n \in Nat, OpenSound(s, n)
  PROVE  /\ file.ptr = Reach(ClusterOf(file.ptr)) /\ ClusterOf(file.ptr) \in Nat
         /\ file.cur = ClusterOf(file.ptr) + call.done
         /\ call.done \in Nat /\ call.want \in Nat \ {0}
         /\ file.cur \in 0 .. n - 1 /\ file.cur + call.want <= n
         /\ file.addr = s[file.cur] /\ s[file.cur] \in Nat
<1> DEFINE p == file.ptr
           k == ClusterOf(p)
           done == call.done
           want == call.want
<1>1. /\ p \in Nat /\ p % ClusterUnits = 0 /\ done \in Nat /\ want \in Nat \ {0}
      /\ (done + want) * ClusterUnits <= call.left
  BY NumbersOf DEF Typed, RunTyped
<1>2. /\ n \in Nat \ {0} /\ Links(fat, s, n) /\ file.object # 0 /\ CursorAt(file, s, n)
      /\ Reach(n) \in Nat /\ call.left \in Nat /\ p + call.left <= Reach(n)
  BY TransferFacts DEF Pieces
<1>3. k \in Nat /\ p = Reach(k) /\ Reach(k) \in Nat
  <2>1. k \in Nat /\ p = Reach(k) + ClusterPosition(p) /\ ClusterPosition(p) = 0
    BY <1>1, ReachOfPosition DEF ClusterPosition
  <2>2. Reach(k) \in Nat BY <2>1, ReachType
  <2> HIDE DEF p, k
  <2> QED BY <2>1, <2>2
<1>4. file.cur = k + done BY DEF OpenSound, MoveSound
<1> HIDE DEF k
<1>5. Reach(k + (done + want)) = Reach(k) + (done + want) * ClusterUnits
      /\ (done + want) * ClusterUnits \in Nat
  BY <1>1, <1>3, SizesArePositive DEF Reach
<1> DEFINE e == k + (done + want)
<1>6. e \in Nat /\ e = (k + done) + want BY <1>1, <1>3
<1>7. Reach(e) <= Reach(n) BY <1>1, <1>2, <1>3, <1>5
<1>8. e <= n
  <2> HIDE DEF e
  <2>1. Reach(e) \in Nat BY <1>6, ReachType
  <2>2. ~ (n < e) BY <1>2, <1>6, <1>7, <2>1, ReachGrows
  <2> QED BY <1>2, <1>6, <2>2
<1>9. file.cur \in 0 .. n - 1 /\ file.cur + want <= n
  <2> HIDE DEF e
  <2> QED BY <1>1, <1>2, <1>3, <1>4, <1>6, <1>8
<1>10. file.addr = s[file.cur]
  <2>1. Least(file.cur, n - 1) = file.cur BY <1>2, <1>9 DEF Least
  <2> QED BY <1>2, <2>1 DEF CursorAt
<1>11. s[file.cur] \in Nat
  <2>1. s[file.cur] \in Clusters BY <1>2, <1>9 DEF Links
  <2> QED BY <2>1, ClustersAreNumbers
<1> QED BY <1>1, <1>3, <1>4, <1>9, <1>10, <1>11 DEF k

\* A run of clusters that follow each other, moved at once.
LEMMA RunSound == ASSUME Typed, Sound, astray' = {}, Run PROVE Sound'
<1>1. /\ call.op \in {"read", "write"} /\ call.at = "run" /\ call.at \in Pieces
      /\ UNCHANGED <<fat, entry>>
  BY DEF Run, IsTransfer, Pieces
<1>2. IsOpen /\ ~ misread BY <1>1, IdleFields, CallsAreOfOpenFiles DEF Sound
<1>a. PICK s : \E n \in Nat : OpenSound(s, n) BY <1>2 DEF Sound
<1>3. PICK n \in Nat : OpenSound(s, n) BY <1>a
<1> DEFINE cu == ClusterUnits
           p == file.ptr
           k == ClusterOf(p)
           cur == file.cur
           done == call.done
           want == call.want
           left == call.left
<1>4. /\ n \in Nat \ {0} /\ Links(fat, s, n) /\ s[0] = file.object /\ file.object # 0
      /\ CursorAt(file, s, n) /\ p \in Nat /\ file.size \in Nat /\ Reach(n) \in Nat
      /\ left \in Nat \ {0} /\ p + left <= Reach(n) /\ FileTyped(file)
      /\ call.op = "write" => p + left < Reach(n)
      /\ call.op = "read" => p + left <= file.size
  BY <1>1, <1>3, TransferFacts
<1>5. /\ p = Reach(k) /\ k \in Nat /\ cur = k + done /\ done \in Nat /\ want \in Nat \ {0}
      /\ cur \in 0 .. n - 1 /\ cur + want <= n /\ file.addr = s[cur] /\ s[cur] \in Nat
  BY <1>1, <1>3, RunFacts
<1>6. (done + want) * cu <= left BY <1>1 DEF Typed, RunTyped
<1>7. PICK run \in RunLengths :
        LET m == (done + run) * cu
            place == Units(file.addr, 0, run * cu)
            f == AfterRun(file, run)
        IN
        \/ /\ Transfer(p + done * cu, place)
           /\ IF run < want
              THEN file' = f /\ call' = [call EXCEPT !.done = @ + run, !.want = @ - run]
              ELSE /\ file' = Advance(f, m)
                   /\ call' = IF left = m THEN Idle
                              ELSE [call EXCEPT !.at = "sectors", !.left = @ - m,
                                                !.done = 0, !.want = 0]
        \/ Return /\ UNCHANGED <<file, home, misread>>
  BY DEF Run, FatFault
<1>8. run \in 1 .. want BY <1>5, RunLengthsFit
<1> DEFINE m == (done + run) * cu
           b == done * cu
           r == run * cu
           place == Units(file.addr, 0, r)
           f == AfterRun(file, run)
<1>9. b \in Nat /\ r \in Nat \ {0} /\ b + r = m /\ m \in 1 .. left
  BY <1>4, <1>5, <1>6, <1>8, RunFits
<1>10. /\ f.ptr = p /\ f.size = file.size /\ f.mode = file.mode /\ f.object = file.object
       /\ f.length = file.length /\ f.extended = file.extended /\ DOMAIN f = Fields
       /\ f.cur = cur + run /\ f.addr = s[Least(cur + run, n - 1)]
  <2>1. /\ f.ptr = p /\ f.size = file.size /\ f.mode = file.mode /\ f.object = file.object
        /\ f.length = file.length /\ f.extended = file.extended /\ DOMAIN f = Fields
        /\ f.cur = cur + run /\ f.addr = TraverseFAT(file.addr, run)
    BY <1>4 DEF AfterRun, FileTyped, Fields
  <2>2. run \in Nat BY <1>8
  <2>3. TraverseFAT(s[cur], run) = s[Least(cur + run, n - 1)]
    BY <1>4, <1>5, <2>2, TraverseOnChain
  <2> HIDE DEF f
  <2> QED BY <1>5, <2>1, <2>3
<1>11. p + b = Reach(cur) BY <1>5, SizesArePositive DEF Reach
<1>12. \A i \in DOMAIN home : InPlace(i, s, n) BY <1>1, <1>3 DEF OpenSound, HomeSound, Pieces
<1>13. ASSUME Transfer(p + b, place)
       PROVE  ~ misread' /\ \A i \in DOMAIN home' : InPlace(i, s, n)'
  <2>1. \A i \in 0 .. run - 1 : s[cur + i] = s[cur] + i
    BY <1>4, <1>5, RunOnChain
  <2>2. \A i \in 0 .. r - 1 :
          place[i] = <<s[ClusterOf(p + b + i)], ClusterPosition(p + b + i)>>
    <3>1. cur \in Nat /\ run \in Nat BY <1>5, <1>8
    <3>2. \A i \in 0 .. r - 1 :
            Units(s[cur], 0, r)[i] =
              <<s[ClusterOf(Reach(cur) + i)], ClusterPosition(Reach(cur) + i)>>
      <4> DEFINE c == s[cur]
      <4>1. c \in Nat /\ r = Reach(run) /\ Consecutive(s, cur, run, c)
        BY <1>5, <2>1, <3>1, SizesArePositive DEF Reach, Consecutive
      <4> HIDE DEF cur, c, r
      <4> SUFFICES ASSUME NEW i \in 0 .. r - 1
                   PROVE  Units(c, 0, r)[i] =
                            <<s[ClusterOf(Reach(cur) + i)], ClusterPosition(Reach(cur) + i)>>
        BY DEF c
      <4>2. i \in 0 .. Reach(run) - 1 BY <4>1
      <4>3. Units(c, 0, Reach(run))[i] =
              <<s[ClusterOf(Reach(cur) + i)], ClusterPosition(Reach(cur) + i)>>
        BY <3>1, <4>1, <4>2, PlacesInRun
      <4> QED BY <4>1, <4>3
    <3> HIDE DEF p, b, cur, r
    <3> QED BY <1>5, <1>11, <3>2
  <2>3. DOMAIN place = 0 .. r - 1 BY DEF Units
  <2>4. p + b \in Nat /\ r \in Nat /\ p + b + r <= Reach(n)
    <3> HIDE DEF p, b, r, m, left
    <3> QED BY <1>4, <1>9
  <2> HIDE DEF p, b, r, place
  <2> QED BY <1>2, <1>12, <1>13, <2>2, <2>3, <2>4, TransferKeeps
<1>14. DOMAIN call = DOMAIN Idle BY DEF Typed, CallTyped
<1>15. CASE /\ Transfer(p + b, place) /\ run < want /\ file' = f
            /\ call' = [call EXCEPT !.done = @ + run, !.want = @ - run]
  <2>1. /\ call'.op = call.op /\ call'.at = "run" /\ call'.left = left /\ call'.done = done + run
    BY <1>1, <1>14, <1>15, IdleFields
  <2>2. CursorAt(f, s, n)
    <3>1. cur + run \in 0 .. n /\ cur + run # n
      <4> HIDE DEF cur, want
      <4> QED BY <1>4, <1>5, <1>8, <1>15
    <3> HIDE DEF f
    <3> QED BY <1>4, <1>10, <3>1 DEF CursorAt
  <2>3. MoveSound(n)'
    <3>1. file'.ptr = p /\ file'.cur = cur + run BY <1>10, <1>15
    <3>2. cur + run = k + (done + run) BY <1>5, <1>8
    <3> HIDE DEF k, cur, done
    <3> QED BY <1>4, <1>5, <2>1, <3>1, <3>2 DEF MoveSound, k
  <2>4. /\ file'.mode = file.mode /\ file'.object = file.object /\ file'.length = file.length
        /\ file'.size = file.size /\ CursorAt(file', s, n)
    BY <1>10, <1>15, <2>2
  <2>5. ~ misread' /\ \A i \in DOMAIN home' : InPlace(i, s, n)' BY <1>13, <1>15
  <2> HIDE DEF f, place, p, b
  <2> QED BY <1>1, <1>2, <1>3, <2>1, <2>3, <2>4, <2>5, TransferSound
<1> DEFINE a == Advance(f, m)
<1>16. /\ a.ptr = p + m /\ a.mode = file.mode /\ a.object = file.object /\ a.length = file.length
       /\ a.extended = file.extended /\ a.cur = f.cur /\ a.addr = f.addr
       /\ a.size = IF call.op = "write" /\ p + m > file.size THEN p + m ELSE file.size
  BY <1>10 DEF Fields, Advance
<1>17. CASE /\ Transfer(p + b, place) /\ ~ (run < want) /\ file' = a
            /\ call' = IF left = m THEN Idle
                       ELSE [call EXCEPT !.at = "sectors", !.left = @ - m, !.done = 0, !.want = 0]
  <2>1. p + m = Reach(cur + run)
    <3>1. cur + run = k + (done + run) /\ done + run \in Nat BY <1>5, <1>8
    <3>2. Reach(k + (done + run)) = Reach(k) + (done + run) * ClusterUnits
      BY <1>5, <3>1, SizesArePositive DEF Reach
    <3> QED BY <1>5, <3>1, <3>2
  <2>2. /\ p + m <= Reach(n) /\ (call.op = "write" => p + m < Reach(n))
        /\ m \in Nat /\ m <= left
    <3> HIDE DEF p, left, m
    <3> QED BY <1>4, <1>9
  <2>3. CursorAt(a, s, n)
    <3>1. cur + run \in 0 .. n
      <4> HIDE DEF cur, want
      <4> QED BY <1>4, <1>5, <1>8
    <3>2. file.size <= Reach(n) /\ (file.extended => file.size < Reach(n)) BY <1>4 DEF CursorAt
    <3> HIDE DEF a, f, m, p, cur
    <3>3. a.size <= Reach(n) /\ (a.extended => a.size < Reach(n)) BY <1>4, <1>16, <2>2, <3>2
    <3> QED BY <1>10, <1>16, <2>1, <3>1, <3>3 DEF CursorAt
  <2>4. \/ call' = Idle
        \/ call'.op = call.op /\ call'.at = "sectors" /\ call'.left = left - m
    BY <1>14, <1>17, IdleFields
  <2>5. MoveSound(n)'
    <3>1. CASE call' = Idle BY <3>1, IdleFields DEF MoveSound
    <3>2. CASE call'.op = call.op /\ call'.at = "sectors" /\ call'.left = left - m
      <4>1. file'.ptr + call'.left = p + left
        <5>1. file'.ptr = p + m BY <1>16, <1>17
        <5> HIDE DEF p, m, left
        <5> QED BY <1>4, <2>2, <3>2, <5>1
      <4> QED BY <1>4, <3>2, <4>1 DEF MoveSound
    <3> QED BY <2>4, <3>1, <3>2
  <2>6. /\ file'.mode = file.mode /\ file'.object = file.object /\ file'.length = file.length
        /\ CursorAt(file', s, n) /\ (call.op = "read" => file'.size = file.size)
    BY <1>16, <1>17, <2>3
  <2>7. ~ misread' /\ \A i \in DOMAIN home' : InPlace(i, s, n)' BY <1>13, <1>17
  <2>8. call' = Idle \/ (call'.op = call.op /\ call'.at \in Pieces) BY <2>4 DEF Pieces
  <2> HIDE DEF a, f, place, p, b, m, left
  <2> QED BY <1>1, <1>2, <1>3, <2>5, <2>6, <2>7, <2>8, TransferSound
<1>18. CASE call' = Idle /\ UNCHANGED <<file, home, misread>>
  <2>1. MoveSound(n)' BY <1>18, IdleFields DEF MoveSound
  <2>2. ~ misread' /\ \A i \in DOMAIN home' : InPlace(i, s, n)' BY <1>2, <1>12, <1>18 DEF InPlace
  <2>3. /\ file'.mode = file.mode /\ file'.object = file.object /\ file'.length = file.length
        /\ file'.size = file.size /\ CursorAt(file', s, n)
    BY <1>4, <1>18
  <2> QED BY <1>1, <1>2, <1>3, <1>18, <2>1, <2>2, <2>3, TransferSound
<1> QED BY <1>7, <1>15, <1>17, <1>18 DEF Return

-----------------------------------------------------------------------------
(* Sound: FF_Open, FF_Seek and the beginnings of FF_Read and FF_Write. *)

\* What an open handle has, with its chain.
LEMMA OpenFacts ==
  ASSUME Typed, NEW s, NEW n \in Nat, OpenSound(s, n)
  PROVE  /\ file.ptr \in Nat /\ file.size \in Nat /\ file.ptr <= file.size
         /\ file.size <= Reach(n) /\ Reach(n) \in Nat
         /\ n = 0 => Reach(n) = 0
         /\ FileTyped(file) /\ DOMAIN call = DOMAIN Idle
         /\ file.object # 0 /\ call.at # "detach" =>
              n \in Nat \ {0} /\ Links(fat, s, n) /\ s[0] = file.object
         /\ file.object = 0 => n = 0
<1>1. FileTyped(file) /\ DOMAIN call = DOMAIN Idle BY DEF Typed, CallTyped
<1>2. file.ptr \in Nat /\ file.size \in Nat /\ file.ptr <= file.size BY NumbersOf
<1>3. Reach(n) \in Nat /\ (n = 0 => Reach(n) = 0) BY ReachType, ReachNone
<1>4. file.size <= Reach(n) BY DEF OpenSound, CursorSound
<1>5. /\ file.object # 0 /\ call.at # "detach" => Links(fat, s, n) /\ s[0] = file.object
      /\ file.object = 0 => n = 0
  BY DEF OpenSound, ChainSound
<1>6. Links(fat, s, n) => n \in Nat \ {0} BY DEF Links
<1> QED BY <1>1, <1>2, <1>3, <1>4, <1>5, <1>6

\* Calls begin.

\* FF_Open puts the cursor at the beginning of a file its entry serves.
LEMMA OpenIsSound == ASSUME Typed, Sound, NEW m \in Modes, Open(m) PROVE Sound'
<1>1. /\ call = Idle /\ ~ IsOpen /\ UNCHANGED <<fat, entry, call, misread>>
      /\ file' = [Closed EXCEPT !.mode = m, !.object = entry.cluster, !.addr = entry.cluster,
                                !.size = IF "T" \in m THEN 0 ELSE entry.size]
      /\ home' = IF "T" \in m THEN <<>> ELSE home
  BY DEF Open
<1>2. ~ misread BY DEF Sound
<1>a. PICK s : \E n \in Nat : ClosedSound(s, n) BY <1>1 DEF Sound
<1>3. PICK n \in Nat : ClosedSound(s, n) BY <1>a
<1>4. /\ file'.mode = m /\ file'.object = entry.cluster /\ file'.addr = entry.cluster
      /\ file'.size = (IF "T" \in m THEN 0 ELSE entry.size) /\ file'.ptr = 0 /\ file'.cur = 0
      /\ file'.length = 0 /\ file'.extended = FALSE
  BY <1>1 DEF Closed
<1>5. m # {} /\ ("T" \in m => "W" \in m) BY FileAssumption
<1>6. /\ IF entry.cluster = 0 THEN n = 0 ELSE Links(fat, s, n) /\ s[0] = entry.cluster
      /\ entry.size <= Reach(n) /\ entry.size \in Nat /\ Reach(n) \in Nat
      /\ n = 0 => Reach(n) = 0
  BY <1>3, FileAssumption, ReachType, ReachNone DEF ClosedSound, Typed, Entries
<1>7. Links(fat, s, n) => n \in Nat \ {0} BY DEF Links
<1>8. call' = Idle /\ call'.op = "none" /\ call'.at = "idle" BY <1>1, IdleFields
<1>9. ChainSound(s, n)' BY <1>1, <1>4, <1>6, <1>8 DEF ChainSound
<1>10. CursorSound(s, n)'
  <2>1. 0 \in 0 .. n /\ (n # 0 => Least(0, n - 1) = 0) BY DEF Least
  <2>2. file'.size <= Reach(n) BY <1>4, <1>6
  <2>3. CursorAt(file', s, n) BY <1>4, <1>6, <1>7, <2>1, <2>2 DEF CursorAt
  <2> QED BY <1>4, <1>8, <2>2, <2>3 DEF CursorSound, Known
<1>11. GrowSound(s, n)' /\ MoveSound(n)' BY <1>8 DEF GrowSound, MoveSound, Pieces
<1>12. CloseSound(n)'
  <2>1. ~ Writes(m) => "T" \notin m BY <1>5 DEF Writes
  <2> QED BY <1>1, <1>4, <1>8, <2>1 DEF CloseSound
<1>13. HomeSound(s, n)'
  <2>1. \A i \in DOMAIN home : InPlace(i, s, n) BY <1>3 DEF ClosedSound
  <2>2. DOMAIN <<>> = {} OBVIOUS
  <2> QED BY <1>1, <1>8, <2>1, <2>2 DEF HomeSound, InPlace
<1>14. OpenSound(s, n)' BY <1>9, <1>10, <1>11, <1>12, <1>13 DEF OpenSound
<1> QED BY <1>1, <1>2, <1>4, <1>5, <1>14 DEF Sound, IsOpen

\* An idle handle stays sound when its cursor moves along the chain.
LEMMA IdleSound ==
  ASSUME Typed, call = Idle, NEW s, NEW n \in Nat, OpenSound(s, n), IsOpen, ~ misread,
         UNCHANGED <<fat, entry, home, misread>>, call' = Idle,
         file'.mode = file.mode, file'.object = file.object, file'.length = file.length,
         file'.size = file.size, CursorAt(file', s, n)
  PROVE  Sound'
<1>1. call.op = "none" /\ call.at = "idle" BY IdleFields
<1>2. call'.op = "none" /\ call'.at = "idle" BY IdleFields
<1>3. ChainSound(s, n)' BY <1>1, <1>2 DEF OpenSound, ChainSound
<1>4. CursorSound(s, n)' BY <1>1, <1>2 DEF OpenSound, CursorSound, Known
<1>5. GrowSound(s, n)' /\ MoveSound(n)' BY <1>2 DEF GrowSound, MoveSound, Pieces
<1>6. CloseSound(n)' BY <1>1, <1>2 DEF OpenSound, CloseSound
<1>7. HomeSound(s, n)' BY <1>1, <1>2 DEF OpenSound, HomeSound, InPlace
<1>8. OpenSound(s, n)' BY <1>3, <1>4, <1>5, <1>6, <1>7 DEF OpenSound
<1> QED BY <1>8 DEF Sound, IsOpen

\* FF_Seek moves the cursor along the chain.
LEMMA SeekSound == ASSUME Typed, Sound, astray' = {}, NEW p \in 0 .. MaxSize, Seek(p) PROVE Sound'
<1> DEFINE f == [file EXCEPT !.ptr = p]
           g == SetCluster(f)
<1>1. /\ call = Idle /\ call' = Idle /\ IsOpen /\ UNCHANGED <<fat, entry, home, misread>>
      /\ (p <= file.size /\ p # file.ptr /\ file' = g) \/ file' = file
  BY DEF Seek, FlushCache
<1>2. ~ misread BY DEF Sound
<1>a. PICK s : \E n \in Nat : OpenSound(s, n) BY <1>1 DEF Sound
<1>3. PICK n \in Nat : OpenSound(s, n) BY <1>a
<1>4. call.at = "idle" /\ call.op = "none" BY <1>1, IdleFields
<1>5. /\ file.ptr \in Nat /\ file.size \in Nat /\ file.ptr <= file.size /\ file.size <= Reach(n)
      /\ Reach(n) \in Nat /\ FileTyped(file)
      /\ file.object # 0 => n \in Nat \ {0} /\ Links(fat, s, n) /\ s[0] = file.object
      /\ file.object = 0 => Reach(n) = 0
  BY <1>3, <1>4, OpenFacts
<1>8. CursorAt(file, s, n) BY <1>3, <1>4 DEF OpenSound, CursorSound, Known
<1>14. CASE file' = file BY <1>1, <1>2, <1>3, <1>8, <1>14, IdleSound
<1> SUFFICES ASSUME p <= file.size, p # file.ptr, file' = g PROVE Sound' BY <1>1, <1>14
<1>6. p \in Nat /\ file.object # 0 /\ p \in 0 .. file.size /\ p <= Reach(n) BY <1>5
<1>7. /\ FileTyped(f) /\ f.ptr = p /\ f.mode = file.mode /\ f.size = file.size
      /\ f.object = file.object /\ f.length = file.length /\ f.extended = file.extended
      /\ f.cur = file.cur /\ f.addr = file.addr
  BY <1>5, <1>6 DEF FileTyped, Fields
<1>9. file.cur \in 0 .. n /\ file.addr = s[Least(file.cur, n - 1)] BY <1>6, <1>8 DEF CursorAt
<1> HIDE DEF f
<1>10. /\ g.cur \in 0 .. n /\ (g.cur = n => f.ptr = Reach(n)) /\ g.addr = s[Least(g.cur, n - 1)]
  <2>1. f.cur \in 0 .. n /\ f.addr = s[Least(f.cur, n - 1)] BY <1>7, <1>9
  <2>2. f.object = s[0] /\ f.ptr <= Reach(n) BY <1>5, <1>6, <1>7
  <2> QED BY <1>5, <1>6, <1>7, <2>1, <2>2, SetClusterOnChain
<1>11. /\ g.mode = f.mode /\ g.ptr = f.ptr /\ g.size = f.size /\ g.object = f.object
       /\ g.length = f.length /\ g.extended = f.extended
  BY <1>7, SetClusterKeeps
<1> HIDE DEF g
<1>12. CursorAt(file', s, n) BY <1>7, <1>8, <1>10, <1>11 DEF CursorAt
<1>13. /\ file'.mode = file.mode /\ file'.object = file.object /\ file'.length = file.length
       /\ file'.size = file.size
  BY <1>7, <1>11
<1> QED BY <1>1, <1>2, <1>3, <1>12, <1>13, IdleSound

\* FF_Read before it moves anything.
LEMMA ReadSound == ASSUME Typed, Sound, NEW k \in Lengths, Read(k) PROVE Sound'
<1>1. /\ call = Idle /\ IsOpen /\ UNCHANGED <<fat, entry, file, home, misread>>
      /\ call' = [Idle EXCEPT !.op = "read", !.at = "head", !.left = ReadLength(k)]
  BY DEF Read
<1>2. ~ misread BY DEF Sound
<1>a. PICK s : \E n \in Nat : OpenSound(s, n) BY <1>1 DEF Sound
<1>3. PICK n \in Nat : OpenSound(s, n) BY <1>a
<1>4. call.op = "none" /\ call.at = "idle" BY <1>1, IdleFields
<1>5. call'.op = "read" /\ call'.at = "head" BY <1>1, IdleFields
<1>6. ChainSound(s, n)' BY <1>1, <1>3, <1>4, <1>5 DEF OpenSound, ChainSound
<1>7. CursorSound(s, n)' BY <1>1, <1>3, <1>4, <1>5 DEF OpenSound, CursorSound, Known
<1>8. GrowSound(s, n)' /\ MoveSound(n)' BY <1>5 DEF GrowSound, MoveSound
<1>9. CloseSound(n)' BY <1>1, <1>3, <1>4, <1>5 DEF OpenSound, CloseSound
<1>10. HomeSound(s, n)' BY <1>1, <1>3, <1>4, <1>5 DEF OpenSound, HomeSound, InPlace
<1>11. OpenSound(s, n)' BY <1>6, <1>7, <1>8, <1>9, <1>10 DEF OpenSound
<1> QED BY <1>1, <1>2, <1>11 DEF Sound, IsOpen

\* FF_Write before it moves anything.
LEMMA WriteSound == ASSUME Typed, Sound, astray' = {}, NEW k \in Lengths, Write(k) PROVE Sound'
<1> DEFINE append == "A" \in file.mode /\ file.ptr < file.size
           f == IF append THEN [file EXCEPT !.ptr = file.size] ELSE file
<1>1. /\ call = Idle /\ IsOpen /\ "W" \in file.mode /\ UNCHANGED <<fat, entry, home, misread>>
      /\ \/ /\ file' = IF append THEN SetCluster(f) ELSE file
            /\ call' = [Idle EXCEPT !.op = "write", !.left = k, !.want = f.ptr + k + 1,
                          !.at = IF f.size = 0 /\ f.object = 0 THEN "first" ELSE "length"]
         \/ UNCHANGED <<file, call>>
  BY DEF Write, FatFault
<1>2. ~ misread BY DEF Sound
<1>a. PICK s : \E n \in Nat : OpenSound(s, n) BY <1>1 DEF Sound
<1>3. PICK n \in Nat : OpenSound(s, n) BY <1>a
<1>4. call.op = "none" /\ call.at = "idle" BY <1>1, IdleFields
<1>5. /\ file.ptr \in Nat /\ file.size \in Nat /\ file.ptr <= file.size /\ file.size <= Reach(n)
      /\ Reach(n) \in Nat /\ FileTyped(file)
      /\ file.object # 0 => n \in Nat \ {0} /\ Links(fat, s, n) /\ s[0] = file.object
      /\ file.object = 0 => Reach(n) = 0 /\ n = 0
  BY <1>3, <1>4, OpenFacts
<1>6. CursorAt(file, s, n) BY <1>3, <1>4 DEF OpenSound, CursorSound, Known
<1>7. CASE UNCHANGED <<file, call>> BY <1>1, <1>2, <1>3, <1>6, <1>7, IdleSound
<1>8. CASE /\ file' = IF append THEN SetCluster(f) ELSE file
           /\ call' = [Idle EXCEPT !.op = "write", !.left = k, !.want = f.ptr + k + 1,
                         !.at = IF f.size = 0 /\ f.object = 0 THEN "first" ELSE "length"]
  <2>1. /\ FileTyped(f) /\ f.mode = file.mode /\ f.size = file.size /\ f.ptr \in Nat
        /\ f.object = file.object /\ f.length = file.length /\ f.extended = file.extended
        /\ f.cur = file.cur /\ f.addr = file.addr
        /\ append => f.ptr = file.size /\ file.size # 0
        /\ ~ append => f = file
    BY <1>5 DEF FileTyped, Fields
  <2> HIDE DEF f
  <2>2. /\ file'.mode = file.mode /\ file'.size = file.size /\ file'.ptr = f.ptr
        /\ file'.object = file.object /\ file'.length = file.length
        /\ file'.extended = file.extended /\ CursorAt(file', s, n)
    <3>1. CASE append
      <4> DEFINE g == SetCluster(f)
      <4>1. /\ g.mode = f.mode /\ g.ptr = f.ptr /\ g.size = f.size /\ g.object = f.object
            /\ g.length = f.length /\ g.extended = f.extended
        BY <2>1, SetClusterKeeps
      <4>2. file.object # 0 BY <1>5, <2>1, <3>1
      <4>3. f.ptr <= Reach(n) /\ Links(fat, s, n) /\ f.object = s[0] BY <1>5, <2>1, <3>1, <4>2
      <4>4. f.cur \in 0 .. n /\ f.addr = s[Least(f.cur, n - 1)] BY <1>6, <2>1, <4>2 DEF CursorAt
      <4>5. /\ g.cur \in 0 .. n /\ (g.cur = n => f.ptr = Reach(n))
            /\ g.addr = s[Least(g.cur, n - 1)]
        BY <2>1, <4>3, <4>4, SetClusterOnChain
      <4>6. file' = g BY <1>8, <3>1
      <4> HIDE DEF g
      <4> QED BY <1>6, <2>1, <4>1, <4>5, <4>6 DEF CursorAt
    <3>2. CASE ~ append BY <1>6, <1>8, <2>1, <3>2
    <3> QED BY <3>1, <3>2
  <2>3. /\ call'.op = "write" /\ call'.left = k /\ call'.want = f.ptr + k + 1 /\ call'.done = 0
        /\ call'.at = IF f.size = 0 /\ f.object = 0 THEN "first" ELSE "length"
    BY <1>8, IdleFields
  <2>4. call'.at = "first" => file'.object = 0 BY <2>1, <2>2, <2>3
  <2>5. call'.at = "length" => file'.object # 0 BY <1>5, <2>1, <2>2, <2>3
  <2>6. call'.at \in {"first", "length"} BY <2>3
  <2>7. ChainSound(s, n)' BY <1>1, <1>3, <1>4, <2>2, <2>3, <2>6 DEF OpenSound, ChainSound
  <2>8. CursorSound(s, n)' BY <1>3, <1>4, <2>2, <2>3, <2>6 DEF OpenSound, CursorSound, Known
  <2>9. GrowSound(s, n)' BY <2>2, <2>3, <2>4, <2>5, <2>6 DEF GrowSound
  <2>10. MoveSound(n)' BY <2>6 DEF MoveSound, Pieces
  <2>11. CloseSound(n)' BY <1>1, <2>2, <2>3, <2>6 DEF CloseSound, Writes
  <2>12. HomeSound(s, n)' BY <1>1, <1>3, <1>4, <2>3 DEF OpenSound, HomeSound, InPlace
  <2>13. OpenSound(s, n)' BY <2>7, <2>8, <2>9, <2>10, <2>11, <2>12 DEF OpenSound
  <2> QED BY <1>1, <1>2, <2>2, <2>13 DEF Sound, IsOpen
<1> QED BY <1>1, <1>7, <1>8

-----------------------------------------------------------------------------
(* FF_ExtendFile. *)

\* A call that fails leaves a sound idle handle.
LEMMA ReturnSound ==
  ASSUME NEW s, NEW n \in Nat, call' = Idle, IsOpen, ~ misread, UNCHANGED misread,
         file'.mode = file.mode, ChainSound(s, n)', CursorAt(file', s, n), file'.length \in {0, n},
         ~ Writes(file'.mode) => entry'.size = file'.size /\ entry'.cluster = file'.object,
         \A i \in DOMAIN home' : InPlace(i, s, n)'
  PROVE  Sound'
<1>1. call'.op = "none" /\ call'.at = "idle" BY IdleFields
<1>2. CursorSound(s, n)' BY <1>1 DEF CursorSound, CursorAt, Known
<1>3. GrowSound(s, n)' /\ MoveSound(n)' BY <1>1 DEF GrowSound, MoveSound, Pieces
<1>4. CloseSound(n)' BY <1>1 DEF CloseSound
<1>5. HomeSound(s, n)' BY <1>1 DEF HomeSound
<1>6. OpenSound(s, n)' BY <1>2, <1>3, <1>4, <1>5 DEF OpenSound
<1> QED BY <1>6 DEF Sound, IsOpen

\* What remains to be shown of a step of FF_ExtendFile.
LEMMA ExtendSound ==
  ASSUME NEW s, NEW n \in Nat, call'.op = "write",
         call'.at \in {"enter", "length", "grow", "head"}, IsOpen, ~ misread, UNCHANGED misread,
         file'.mode = file.mode, Writes(file.mode), ChainSound(s, n)', CursorSound(s, n)',
         GrowSound(s, n)', call'.at = "head" => file'.ptr + call'.left < Reach(n),
         \A i \in DOMAIN home' : InPlace(i, s, n)'
  PROVE  Sound'
<1>1. MoveSound(n)' BY DEF MoveSound, Pieces
<1>2. CloseSound(n)' BY DEF CloseSound
<1>3. HomeSound(s, n)' BY DEF HomeSound
<1>4. OpenSound(s, n)' BY <1>1, <1>2, <1>3 DEF OpenSound
<1> QED BY <1>4 DEF Sound, IsOpen

\* A first cluster is claimed.
LEMMA ClaimFirstSound == ASSUME Typed, Sound, ClaimFirst PROVE Sound'
<1>1. call.op = "write" /\ call.at = "first" /\ UNCHANGED <<entry, home, misread>>
  BY DEF ClaimFirst, Calls
<1>2. IsOpen /\ ~ misread BY <1>1, IdleFields, CallsAreOfOpenFiles DEF Sound
<1>a. PICK s : \E n \in Nat : OpenSound(s, n) BY <1>2 DEF Sound
<1>3. PICK n \in Nat : OpenSound(s, n) BY <1>a
<1>4. /\ file.object = 0 /\ n = 0 /\ FileTyped(file) /\ DOMAIN call = DOMAIN Idle
      /\ call.want = file.ptr + call.left + 1 /\ call.done = 0 /\ Writes(file.mode)
      /\ CursorAt(file, s, n) /\ file.length \in {0, n} /\ file.size <= Reach(n)
      /\ entry.cluster # 0 => fat[entry.cluster] = EOC
      /\ entry.size = 0 /\ entry.cluster \in Clusters \cup {0}
      /\ \A i \in DOMAIN home : InPlace(i, s, n)
  <2>1. file.object = 0 /\ call.want = file.ptr + call.left + 1 /\ call.done = 0
    BY <1>1, <1>3 DEF OpenSound, GrowSound
  <2>2. CursorAt(file, s, n) /\ file.length \in {0, n} /\ file.size <= Reach(n)
    BY <1>1, <1>3 DEF OpenSound, CursorSound, Known
  <2>3. /\ entry.cluster # 0 => fat[entry.cluster] = EOC
        /\ entry.size = 0
    BY <1>1, <1>3, <2>1 DEF OpenSound, ChainSound
  <2>4. \A i \in DOMAIN home : InPlace(i, s, n) BY <1>1, <1>3 DEF OpenSound, HomeSound
  <2>5. Writes(file.mode) BY <1>1, <1>3 DEF OpenSound, CloseSound
  <2> QED BY <1>3, <2>1, <2>2, <2>3, <2>4, <2>5, OpenFacts DEF Typed, Entries
<1>5. \A i \in DOMAIN home' : InPlace(i, s, n)' BY <1>1, <1>4 DEF InPlace
<1>6. CASE \E c \in Clusters :
             /\ fat[c] = Free /\ fat' = [fat EXCEPT ![c] = EOC]
             /\ file' = [file EXCEPT !.addr = c]
             /\ call' = [call EXCEPT !.at = "enter", !.new = c]
  <2>1. PICK c \in Clusters :
             /\ fat[c] = Free /\ fat' = [fat EXCEPT ![c] = EOC]
             /\ file' = [file EXCEPT !.addr = c]
             /\ call' = [call EXCEPT !.at = "enter", !.new = c]
    BY <1>6
  <2>2. /\ file'.mode = file.mode /\ file'.object = file.object /\ file'.length = file.length
        /\ file'.size = file.size /\ file'.ptr = file.ptr /\ file'.cur = file.cur
        /\ file'.extended = file.extended /\ file'.addr = c
    BY <1>4, <2>1 DEF FileTyped, Fields
  <2>3. /\ call'.op = call.op /\ call'.at = "enter" /\ call'.left = call.left
        /\ call'.want = call.want /\ call'.done = call.done /\ call'.new = c
    BY <1>4, <2>1, IdleFields
  <2>4. fat'[c] = EOC /\ (entry.cluster # 0 => fat'[entry.cluster] = EOC)
    BY <1>4, <2>1 DEF Typed
  <2>5. ChainSound(s, n)' BY <1>1, <1>4, <2>2, <2>3, <2>4 DEF ChainSound
  <2>6. CursorSound(s, n)' BY <1>4, <2>2, <2>3 DEF CursorSound, CursorAt, Known
  <2>7. GrowSound(s, n)' BY <1>4, <2>2, <2>3, <2>4 DEF GrowSound
  <2> QED BY <1>1, <1>2, <1>4, <1>5, <2>2, <2>3, <2>5, <2>6, <2>7, ExtendSound
<1>7. CASE file' = [file EXCEPT !.addr = 0] /\ Return /\ UNCHANGED fat
  <2>1. /\ file'.mode = file.mode /\ file'.object = file.object /\ file'.length = file.length
        /\ file'.size = file.size /\ file'.ptr = file.ptr /\ file'.cur = file.cur
        /\ file'.extended = file.extended
    BY <1>4, <1>7 DEF FileTyped, Fields
  <2>2. ChainSound(s, n)' BY <1>1, <1>4, <1>7, <2>1 DEF ChainSound
  <2>3. CursorAt(file', s, n) BY <1>4, <2>1 DEF CursorAt
  <2> QED BY <1>1, <1>2, <1>4, <1>5, <1>7, <2>1, <2>2, <2>3, ReturnSound DEF Return
<1> QED BY <1>6, <1>7 DEF ClaimFirst

\* And entered in the directory.
LEMMA EnterFirstSound == ASSUME Typed, Sound, EnterFirst PROVE Sound'
<1>1. call.op = "write" /\ call.at = "enter" /\ UNCHANGED <<fat, home, misread>>
  BY DEF EnterFirst, Calls
<1>2. IsOpen /\ ~ misread BY <1>1, IdleFields, CallsAreOfOpenFiles DEF Sound
<1>a. PICK s : \E n \in Nat : OpenSound(s, n) BY <1>2 DEF Sound
<1>3. PICK n \in Nat : OpenSound(s, n) BY <1>a
<1>b. PICK c : c = call.new OBVIOUS
<1>4. /\ file.object = 0 /\ n = 0 /\ FileTyped(file) /\ DOMAIN call = DOMAIN Idle
      /\ call.want = file.ptr + call.left + 1 /\ call.done = 0 /\ Writes(file.mode)
      /\ CursorAt(file, s, n) /\ file.length \in {0, n} /\ file.size <= Reach(n)
      /\ entry.cluster # 0 => fat[entry.cluster] = EOC
      /\ entry.size = 0 /\ entry.cluster \in Clusters \cup {0}
      /\ fat[c] = EOC /\ file.addr = c /\ c \in Clusters /\ c # 0
      /\ Reach(n) = 0 /\ file.size = 0
      /\ \A i \in DOMAIN home : InPlace(i, s, n)
  <2>1. /\ file.object = 0 /\ call.want = file.ptr + call.left + 1 /\ call.done = 0
        /\ fat[c] = EOC /\ file.addr = c
    BY <1>1, <1>3, <1>b DEF OpenSound, GrowSound
  <2>2. CursorAt(file, s, n) /\ file.length \in {0, n} /\ file.size <= Reach(n)
    BY <1>1, <1>3 DEF OpenSound, CursorSound, Known
  <2>3. /\ entry.cluster # 0 => fat[entry.cluster] = EOC
        /\ entry.size = 0
    BY <1>1, <1>3, <2>1 DEF OpenSound, ChainSound
  <2>4. \A i \in DOMAIN home : InPlace(i, s, n) BY <1>1, <1>3 DEF OpenSound, HomeSound
  <2>5. Writes(file.mode) BY <1>1, <1>3 DEF OpenSound, CloseSound
  <2>6. c \in Clusters BY <1>1, <1>b DEF Typed, CallTyped
  <2>7. c # 0 BY <2>6, ClustersAreNumbers DEF IsEnd, Free
  <2>8. n = 0 /\ Reach(n) = 0 /\ file.size = 0 BY <1>3, <2>1, OpenFacts
  <2> QED BY <1>3, <2>1, <2>2, <2>3, <2>4, <2>5, <2>6, <2>7, <2>8, OpenFacts DEF Typed, Entries
<1>5. DOMAIN home = {}
  <2> SUFFICES ASSUME NEW i \in DOMAIN home PROVE FALSE OBVIOUS
  <2>1. i < 0 BY <1>4 DEF InPlace
  <2>2. i \in Nat BY FileAssumption DEF Typed, HomeTyped
  <2> QED BY <2>1, <2>2
<1>6. CASE /\ entry' = [entry EXCEPT !.cluster = call.new]
           /\ file' = [file EXCEPT !.object = call.new, !.length = 1, !.cur = 0, !.end = call.new]
           /\ Step("length")
  <2> DEFINE r == [i \in 0 .. 0 |-> c]
  <2>0. Links(fat, r, 1) BY <1>4, OneCluster
  <2>1. Links(fat, r, 1) /\ r[0] = c BY <2>0
  <2>2. /\ file'.mode = file.mode /\ file'.object = c /\ file'.length = 1
        /\ file'.size = file.size /\ file'.ptr = file.ptr /\ file'.cur = 0
        /\ file'.extended = file.extended /\ file'.addr = c
    BY <1>4, <1>6, <1>b DEF FileTyped, Fields
  <2>3. /\ call'.op = call.op /\ call'.at = "length" /\ call'.left = call.left
        /\ call'.want = call.want /\ call'.done = call.done
    BY <1>4, <1>6, IdleFields DEF Step
  <2>4. entry'.cluster = c BY <1>6, <1>b DEF Typed, Entries
  <2> HIDE DEF r
  <2>5. ChainSound(r, 1)' BY <1>1, <1>4, <2>1, <2>2, <2>3, <2>4 DEF ChainSound
  <2>6. Reach(1) \in Nat \ {0} BY SizesArePositive DEF Reach
  <2>7. CursorAt(file', r, 1)
    <3>1. Least(0, 1 - 1) = 0 /\ 0 \in 0 .. 1 BY DEF Least
    <3> QED BY <1>4, <2>1, <2>2, <2>6, <3>1 DEF CursorAt
  <2>8. CursorSound(r, 1)' BY <1>4, <2>2, <2>3, <2>6, <2>7 DEF CursorSound, Known
  <2>9. GrowSound(r, 1)' BY <1>4, <2>2, <2>3 DEF GrowSound
  <2>10. \A i \in DOMAIN home' : InPlace(i, r, 1)' BY <1>1, <1>5
  <2> QED BY <1>1, <1>2, <1>4, <2>2, <2>3, <2>5, <2>8, <2>9, <2>10, ExtendSound
<1>7. CASE entry' \in {entry, [entry EXCEPT !.cluster = call.new]} /\ Return /\ UNCHANGED file
  <2>1. entry'.size = 0 /\ (entry'.cluster # 0 => fat[entry'.cluster] = EOC)
    BY <1>4, <1>7, <1>b DEF Typed, Entries
  <2>2. call'.op = "none" /\ call'.at = "idle" BY <1>7, IdleFields DEF Return
  <2>3. ChainSound(s, n)' BY <1>1, <1>4, <1>7, <2>1, <2>2 DEF ChainSound
  <2>4. \A i \in DOMAIN home' : InPlace(i, s, n)' BY <1>1, <1>5
  <2> QED BY <1>1, <1>2, <1>4, <1>7, <2>3, <2>4, ReturnSound DEF Return
<1> QED BY <1>6, <1>7 DEF EnterFirst

\* So many clusters hold m units.
LEMMA CeilDivReaches ==
  ASSUME NEW m \in Nat \ {0}
  PROVE  CeilDiv(m, ClusterUnits) \in Nat \ {0} /\ m <= Reach(CeilDiv(m, ClusterUnits))
<1> DEFINE u == ClusterUnits
           x == m + u - 1
           q == x \div u
<1>1. u \in Nat \ {0} /\ x \in Nat BY SizesArePositive
<1>2. q \in Nat /\ x % u \in 0 .. u - 1 /\ x = u * q + (x % u)
  <2> HIDE DEF x, u
  <2> QED BY <1>1, DivMod
<1>3. CeilDiv(m, u) = q /\ Reach(q) = u * q BY DEF CeilDiv, Reach
<1>4. u * q \in Nat /\ (q = 0 => u * q = 0) BY <1>1, <1>2
<1> DEFINE y == u * q
           z == x % u
<1>5. m + u - 1 = y + z /\ z \in 0 .. u - 1 /\ y \in Nat /\ (q = 0 => y = 0) BY <1>2, <1>4
<1> HIDE DEF q, y, z, u
<1>6. m <= y /\ q # 0 BY <1>1, <1>5
<1> QED BY <1>2, <1>3, <1>6 DEF y, u

\* A handle in FF_ExtendFile that has clusters.
LEMMA ExtendFacts ==
  ASSUME Typed, call.op = "write", call.at \in {"length", "grow"},
         NEW s, NEW n \in Nat, OpenSound(s, n)
  PROVE  /\ file.object # 0 /\ n \in Nat \ {0} /\ Links(fat, s, n) /\ s[0] = file.object
         /\ entry.cluster = file.object /\ Writes(file.mode)
         /\ FileTyped(file) /\ DOMAIN call = DOMAIN Idle
         /\ file.ptr \in Nat /\ file.size \in Nat /\ file.ptr <= file.size
         /\ Reach(n) \in Nat /\ call.left \in Nat \ {0}
         /\ CursorAt(file, s, Known(n))
         /\ \A i \in DOMAIN home : InPlace(i, s, n)
<1>1. file.object # 0 BY DEF OpenSound, GrowSound
<1>2. entry.cluster = file.object BY <1>1 DEF OpenSound, ChainSound
<1>3. CursorAt(file, s, Known(n)) BY DEF OpenSound, CursorSound
<1>4. \A i \in DOMAIN home : InPlace(i, s, n) BY DEF OpenSound, HomeSound
<1>5. Writes(file.mode) BY DEF OpenSound, CloseSound
<1>6. call.left \in Nat \ {0} BY NumbersOf
<1>7. call.at # "detach" OBVIOUS
<1> QED BY <1>1, <1>2, <1>3, <1>4, <1>5, <1>6, <1>7, OpenFacts

\* The chain is counted.
LEMMA CountChainSound == ASSUME Typed, Sound, astray' = {}, CountChain PROVE Sound'
<1>1. /\ call.op = "write" /\ call.at = "length" /\ UNCHANGED <<fat, entry, home, misread>>
      /\ file' = IF file.length # 0 THEN file
                 ELSE [file EXCEPT !.length = ChainLength(file.object), !.end = EOC]
  BY DEF CountChain, Calls, FatFault
<1>2. IsOpen /\ ~ misread BY <1>1, IdleFields, CallsAreOfOpenFiles DEF Sound
<1>a. PICK s : \E n \in Nat : OpenSound(s, n) BY <1>2 DEF Sound
<1>3. PICK n \in Nat : OpenSound(s, n) BY <1>a
<1>4. /\ file.object # 0 /\ n \in Nat \ {0} /\ Links(fat, s, n) /\ s[0] = file.object
      /\ entry.cluster = file.object /\ Writes(file.mode)
      /\ FileTyped(file) /\ DOMAIN call = DOMAIN Idle
      /\ file.ptr \in Nat /\ Reach(n) \in Nat /\ call.left \in Nat \ {0}
      /\ \A i \in DOMAIN home : InPlace(i, s, n)
  BY <1>1, <1>3, ExtendFacts
<1>5. /\ CursorAt(file, s, n) /\ file.length \in {0, n} /\ file.size <= Reach(n)
      /\ call.want = file.ptr + call.left + 1 /\ call.done = 0
  BY <1>1, <1>3 DEF OpenSound, CursorSound, GrowSound, Known
<1>6. ChainLength(file.object) = n
  <2>1. 0 \in 0 .. n - 1 BY <1>4
  <2>2. ChainLength(s[0]) = n - 0 BY <1>4, <2>1, LengthOnChain
  <2> QED BY <1>4, <2>2
<1>7. /\ file'.mode = file.mode /\ file'.object = file.object /\ file'.length = n
      /\ file'.size = file.size /\ file'.ptr = file.ptr /\ file'.cur = file.cur
      /\ file'.addr = file.addr /\ file'.extended = file.extended
  BY <1>1, <1>4, <1>5, <1>6 DEF FileTyped, Fields
<1> DEFINE m == file.ptr + call.left + 1
           needed == CeilDiv(m, ClusterUnits)
<1>8. needed \in Nat \ {0} /\ m \in Nat \ {0} /\ m <= Reach(needed) /\ call.want = m
  <2>1. m \in Nat \ {0} BY <1>4
  <2> HIDE DEF m
  <2>2. needed \in Nat \ {0} /\ m <= Reach(needed) BY <2>1, CeilDivReaches
  <2> QED BY <1>5, <2>1, <2>2 DEF m
<1>9. call' = IF needed - n > 0 THEN [call EXCEPT !.at = "grow", !.want = needed - n]
              ELSE [call EXCEPT !.at = "head"]
  BY <1>7, <1>8 DEF CountChain
<1> HIDE DEF needed
<1>10. file.ptr + call.left < Reach(needed) /\ Reach(needed) \in Nat
  <2>1. Reach(needed) \in Nat BY <1>8, ReachType
  <2> QED BY <1>4, <1>8, <2>1
<1>11. CursorAt(file', s, n) BY <1>5, <1>7 DEF CursorAt
<1>12. \A i \in DOMAIN home' : InPlace(i, s, n)' BY <1>1, <1>4 DEF InPlace
<1>13. CASE needed - n > 0 /\ call' = [call EXCEPT !.at = "grow", !.want = needed - n]
  <2>1. /\ call'.op = "write" /\ call'.at = "grow" /\ call'.left = call.left
        /\ call'.want = needed - n /\ call'.done = 0
    BY <1>1, <1>4, <1>5, <1>13, IdleFields
  <2>2. ChainSound(s, n)' BY <1>1, <1>4, <1>7, <2>1 DEF ChainSound
  <2>3. CursorSound(s, n)' BY <1>5, <1>7, <1>11, <2>1 DEF CursorSound, Known
  <2>4. GrowSound(s, n)'
    <3>1. needed - n \in Nat \ {0} /\ n + (needed - n) = needed /\ 0 \in 0 .. needed - n
          /\ n = n + 0
      BY <1>4, <1>8, <1>13
    <3> QED BY <1>4, <1>7, <1>10, <2>1, <3>1 DEF GrowSound
  <2> QED BY <1>1, <1>2, <1>4, <1>7, <1>12, <2>1, <2>2, <2>3, <2>4, ExtendSound
<1>14. CASE ~ (needed - n > 0) /\ call' = [call EXCEPT !.at = "head"]
  <2>1. call'.op = "write" /\ call'.at = "head" /\ call'.left = call.left
    BY <1>1, <1>4, <1>14, IdleFields
  <2>2. ChainSound(s, n)' BY <1>1, <1>4, <1>7, <2>1 DEF ChainSound
  <2>3. CursorSound(s, n)' BY <1>5, <1>7, <1>11, <2>1 DEF CursorSound, Known
  <2>4. GrowSound(s, n)' BY <2>1 DEF GrowSound
  <2>5. file'.ptr + call'.left < Reach(n)
    <3>1. needed <= n BY <1>4, <1>8, <1>14
    <3>2. Reach(needed) <= Reach(n)
      <4>1. CASE needed = n BY <1>4, <4>1
      <4>2. CASE needed # n
        <5>1. needed \in Nat /\ needed < n BY <1>4, <1>8, <3>1, <4>2
        <5> QED BY <1>4, <1>10, <5>1, ReachGrows
      <4> QED BY <4>1, <4>2
    <3> QED BY <1>4, <1>7, <1>10, <2>1, <3>2
  <2> QED BY <1>1, <1>2, <1>4, <1>7, <1>12, <2>1, <2>2, <2>3, <2>4, <2>5, ExtendSound
<1> QED BY <1>9, <1>13, <1>14

\* The chain of s and a further cluster.
Longer(s, n, c) == [j \in 0 .. n |-> IF j = n THEN c ELSE s[j]]

\* A cluster is claimed and linked.
LEMMA GrowIsSound == ASSUME Typed, Sound, Grow PROVE Sound'
<1>1. call.op = "write" /\ call.at = "grow" /\ UNCHANGED <<entry, file, home, misread>>
  BY DEF Grow, Calls
<1>2. IsOpen /\ ~ misread BY <1>1, IdleFields, CallsAreOfOpenFiles DEF Sound
<1>a. PICK s : \E n \in Nat : OpenSound(s, n) BY <1>2 DEF Sound
<1>3. PICK n \in Nat : OpenSound(s, n) BY <1>a
<1>4. /\ file.object # 0 /\ n \in Nat \ {0} /\ Links(fat, s, n) /\ s[0] = file.object
      /\ entry.cluster = file.object /\ Writes(file.mode)
      /\ FileTyped(file) /\ DOMAIN call = DOMAIN Idle /\ file.size \in Nat
      /\ file.ptr \in Nat /\ Reach(n) \in Nat /\ call.left \in Nat \ {0}
      /\ \A i \in DOMAIN home : InPlace(i, s, n)
  BY <1>1, <1>3, ExtendFacts
<1> DEFINE L == file.length
<1>5. /\ CursorAt(file, s, L) /\ file.size <= Reach(n)
      /\ L \in Nat \ {0} /\ call.want \in Nat \ {0} /\ call.done \in 0 .. call.want
      /\ n = L + call.done
      /\ call.done # 0 => call.new = s[n - 1]
      /\ file.ptr + call.left < Reach(L + call.want)
  BY <1>1, <1>3 DEF OpenSound, CursorSound, GrowSound, Known
<1> DEFINE last == IF call.done = 0 THEN FindEndOfChain(file.addr) ELSE call.new
<1>6. PICK c \in Clusters :
        /\ fat[c] = Free
        /\ fat' = [d \in Clusters |-> IF d = c THEN EOC ELSE IF d = last THEN c ELSE fat[d]]
        /\ call' = [call EXCEPT !.done = call.done + 1, !.new = c]
  BY DEF Grow
<1>7. call.done < call.want BY DEF Grow
<1>8. last = s[n - 1]
  <2>1. CASE call.done = 0
    <3> DEFINE k == Least(file.cur, L - 1)
    <3>1. k \in 0 .. n - 1 BY <1>4, <1>5, <2>1 DEF Least, CursorAt
    <3>2. file.addr = s[k] BY <1>4, <1>5 DEF CursorAt
    <3> HIDE DEF k
    <3>3. FindEndOfChain(s[k]) = s[n - 1] BY <1>4, <3>1, EndOfChain
    <3> QED BY <2>1, <3>2, <3>3
  <2>2. CASE call.done # 0 BY <1>5, <2>2
  <2> QED BY <2>1, <2>2
<1> HIDE DEF last
<1> DEFINE r == Longer(s, n, c)
<1>9. Links(fat', r, n + 1)
  <2>1. fat' = [d \in Clusters |-> IF d = c THEN EOC ELSE IF d = s[n - 1] THEN c ELSE fat[d]]
    BY <1>6, <1>8
  <2> QED BY <1>4, <1>6, <2>1, LongerChain DEF Longer
<1>10. r[n] = c /\ (\A j \in 0 .. n - 1 : r[j] = s[j]) /\ n + 1 \in Nat BY <1>4 DEF Longer
<1> HIDE DEF r
<1>11. /\ call'.op = "write" /\ call'.at = "grow" /\ call'.left = call.left
       /\ call'.want = call.want /\ call'.done = call.done + 1 /\ call'.new = c
  BY <1>1, <1>4, <1>6, IdleFields
<1>12. Reach(n) < Reach(n + 1) /\ Reach(n + 1) \in Nat BY <1>4, ReachGrows, ReachType
<1>13. ChainSound(r, n + 1)'
  <2>1. r[0] = file.object BY <1>4, <1>10
  <2> QED BY <1>1, <1>4, <1>9, <1>11, <2>1 DEF ChainSound
<1>14. CursorSound(r, n + 1)'
  <2>1. CursorAt(file, r, L)
    <3>1. Least(file.cur, L - 1) \in 0 .. n - 1 BY <1>4, <1>5 DEF Least, CursorAt
    <3> QED BY <1>5, <1>10, <3>1 DEF CursorAt
  <2>2. file.size <= Reach(n + 1) BY <1>4, <1>5, <1>12
  <2> QED BY <1>1, <1>11, <2>1, <2>2 DEF CursorSound, Known
<1>15. GrowSound(r, n + 1)'
  <2>1. /\ call.done + 1 \in 0 .. call.want /\ n + 1 = L + (call.done + 1)
        /\ (n + 1) - 1 = n
    BY <1>4, <1>5, <1>7
  <2> QED BY <1>1, <1>4, <1>5, <1>10, <1>11, <2>1 DEF GrowSound
<1>16. \A i \in DOMAIN home' : InPlace(i, r, n + 1)'
  <2> SUFFICES ASSUME NEW i \in DOMAIN home PROVE InPlace(i, r, n + 1)' BY <1>1
  <2>1. i \in Nat BY FileAssumption DEF Typed, HomeTyped
  <2>2. i < Reach(n) /\ home[i] = <<s[ClusterOf(i)], ClusterPosition(i)>> BY <1>4 DEF InPlace
  <2>3. ClusterOf(i) \in 0 .. n - 1 BY <2>1, <2>2, WithinReach
  <2>4. i < Reach(n + 1) BY <1>4, <1>12, <2>1, <2>2
  <2> QED BY <1>1, <1>10, <2>2, <2>3, <2>4 DEF InPlace
<1> QED BY <1>1, <1>2, <1>4, <1>10, <1>11, <1>13, <1>14, <1>15, <1>16, ExtendSound

\* The cursor is brought back in step with a chain that has grown.
LEMMA ResyncOnChain ==
  ASSUME NEW s, NEW n \in Nat, Links(fat, s, n), NEW L \in Nat \ {0}, L < n,
         NEW f, FileTyped(f), CursorAt(f, s, L), f.object = s[0], f.object # 0,
         f.length = n, f.end = s[n - 1], f.ptr < Reach(n)
  PROVE  /\ CursorAt(Resync(f), s, n)
         /\ Resync(f).mode = f.mode /\ Resync(f).object = f.object
         /\ Resync(f).length = f.length /\ Resync(f).size = f.size /\ Resync(f).ptr = f.ptr
<1> DEFINE g == IF f.cur = f.length - 1 /\ f.addr # f.end THEN [f EXCEPT !.addr = f.end] ELSE f
           k == ClusterOf(g.ptr)
           h == Resync(f)
<1>1. h = IF g.ptr = g.size /\ ~ g.extended
          THEN [g EXCEPT !.extended = TRUE, !.addr = TraverseFAT(g.object, k), !.cur = k]
          ELSE g
  BY DEF Resync
<1>2. /\ g.mode = f.mode /\ g.object = f.object /\ g.length = f.length /\ g.size = f.size
      /\ g.ptr = f.ptr /\ g.cur = f.cur /\ g.extended = f.extended /\ DOMAIN g = Fields
      /\ g.addr = IF f.cur = n - 1 THEN s[n - 1] ELSE f.addr
  BY DEF FileTyped, Fields
<1>3. /\ f.ptr \in Nat /\ f.size \in Nat /\ f.ptr <= f.size
      /\ Reach(n) \in Nat /\ Reach(L) \in Nat /\ Reach(L) < Reach(n)
      /\ f.cur \in 0 .. L /\ f.size <= Reach(L)
  BY FileAssumption, ReachType, ReachGrows DEF FileTyped, CursorAt
<1> HIDE DEF g, h
<1>4. CASE g.ptr = g.size /\ ~ g.extended
  <2>1. k \in 0 .. n - 1 BY <1>2, <1>3, WithinReach
  <2> HIDE DEF k
  <2>2. h = [g EXCEPT !.extended = TRUE, !.addr = TraverseFAT(g.object, k), !.cur = k]
    BY <1>1, <1>4
  <2>3. /\ h.mode = g.mode /\ h.object = g.object /\ h.length = g.length /\ h.size = g.size
        /\ h.ptr = g.ptr /\ h.cur = k /\ h.addr = TraverseFAT(g.object, k)
    BY <1>2, <2>2 DEF Fields
  <2>4. h.addr = s[Least(k, n - 1)]
    <3>1. k \in Nat /\ 0 + k = k /\ 0 \in 0 .. n - 1 BY <2>1
    <3>2. TraverseFAT(s[0], k) = s[Least(0 + k, n - 1)] BY <3>1, TraverseOnChain
    <3> QED BY <1>2, <2>3, <3>1, <3>2
  <2>5. h.size <= Reach(n) /\ h.size < Reach(n) BY <1>2, <1>3, <2>3
  <2>6. CursorAt(h, s, n) BY <2>1, <2>3, <2>4, <2>5 DEF CursorAt
  <2> QED BY <1>2, <2>3, <2>6 DEF h
<1>5. CASE ~ (g.ptr = g.size /\ ~ g.extended)
  <2>1. h = g BY <1>1, <1>5
  <2>2. f.cur \in 0 .. n /\ f.cur # n /\ Least(f.cur, n - 1) = f.cur
    BY <1>3 DEF Least
  <2>3. g.addr = s[f.cur]
    <3>1. CASE f.cur = n - 1 BY <1>2, <3>1
    <3>2. CASE f.cur # n - 1 /\ f.cur < L
      <4>1. Least(f.cur, L - 1) = f.cur BY <1>3, <3>2 DEF Least
      <4> QED BY <1>2, <3>2, <4>1 DEF CursorAt
    <3>3. CASE f.cur = L
      <4>1. f.ptr = Reach(L) BY <3>3 DEF CursorAt
      <4>2. f.ptr = f.size BY <1>3, <4>1
      <4>3. f.extended => f.size < Reach(L) BY DEF CursorAt
      <4>4. ~ f.extended BY <1>3, <4>1, <4>2, <4>3
      <4> QED BY <1>2, <1>5, <4>2, <4>4
    <3> QED BY <1>3, <3>1, <3>2, <3>3
  <2>4. f.size <= Reach(n) /\ f.size < Reach(n) BY <1>3
  <2>5. CursorAt(h, s, n) BY <1>2, <2>1, <2>2, <2>3, <2>4 DEF CursorAt
  <2> QED BY <1>2, <2>1, <2>5 DEF h
<1> QED BY <1>4, <1>5

\* The growing ends, with all clusters or without some.
LEMMA EndGrowSound == ASSUME Typed, Sound, astray' = {}, EndGrow PROVE Sound'
<1> DEFINE L == file.length
           f0 == [file EXCEPT !.end = call.new]
           f1 == Grown(f0, call.done)
           f == Resync(f1)
<1>1. /\ call.op = "write" /\ call.at = "grow" /\ call.done = call.want
      /\ UNCHANGED <<fat, entry, home, misread>>
      /\ file' = f
      /\ \/ call' = [call EXCEPT !.at = "head", !.done = 0, !.want = 0, !.new = 0]
         \/ call' = Idle
  BY DEF EndGrow, Calls, Return, ExtendFlushes, FlushCache
<1>2. IsOpen /\ ~ misread BY <1>1, IdleFields, CallsAreOfOpenFiles DEF Sound
<1>a. PICK s : \E n \in Nat : OpenSound(s, n) BY <1>2 DEF Sound
<1>3. PICK n \in Nat : OpenSound(s, n) BY <1>a
<1>4. /\ file.object # 0 /\ n \in Nat \ {0} /\ Links(fat, s, n) /\ s[0] = file.object
      /\ entry.cluster = file.object /\ Writes(file.mode)
      /\ FileTyped(file) /\ DOMAIN call = DOMAIN Idle /\ file.size \in Nat
      /\ file.ptr \in Nat /\ Reach(n) \in Nat /\ call.left \in Nat \ {0}
      /\ \A i \in DOMAIN home : InPlace(i, s, n)
  BY <1>1, <1>3, ExtendFacts
<1>5. /\ CursorAt(file, s, L) /\ file.size <= Reach(n)
      /\ L \in Nat \ {0} /\ call.done \in Nat \ {0} /\ n = L + call.done
      /\ call.new = s[n - 1]
      /\ file.ptr + call.left < Reach(n)
  BY <1>1, <1>3 DEF OpenSound, CursorSound, GrowSound, Known
<1>6. /\ f1.mode = file.mode /\ f1.object = file.object /\ f1.length = n /\ f1.size = file.size
      /\ f1.ptr = file.ptr /\ f1.cur = file.cur /\ f1.addr = file.addr
      /\ f1.extended = file.extended /\ f1.end = s[n - 1] /\ FileTyped(f1)
  <2>1. /\ f0.mode = file.mode /\ f0.object = file.object /\ f0.length = L /\ f0.size = file.size
        /\ f0.ptr = file.ptr /\ f0.cur = file.cur /\ f0.addr = file.addr
        /\ f0.extended = file.extended /\ f0.end = s[n - 1] /\ FileTyped(f0)
    BY <1>4, <1>5 DEF FileTyped, Fields
  <2> HIDE DEF f0, L
  <2>2. FileTyped(f1) BY <2>1, GrownKeeps
  <2> QED BY <1>5, <2>1, <2>2 DEF Grown, FileTyped, Fields
<1> HIDE DEF f1
<1>7. CursorAt(f1, s, L) /\ f1.ptr < Reach(n) /\ L < n BY <1>4, <1>5, <1>6 DEF CursorAt
<1>8. /\ CursorAt(f, s, n) /\ f.mode = f1.mode /\ f.object = f1.object
      /\ f.length = f1.length /\ f.size = f1.size /\ f.ptr = f1.ptr
  <2> HIDE DEF L
  <2>1. f1.object = s[0] /\ f1.object # 0 BY <1>4, <1>6
  <2> QED BY <1>4, <1>5, <1>6, <1>7, <2>1, ResyncOnChain
<1> HIDE DEF f
<1>9. /\ CursorAt(file', s, n) /\ file'.mode = file.mode /\ file'.object = file.object
      /\ file'.length = n /\ file'.size = file.size /\ file'.ptr = file.ptr
  BY <1>1, <1>6, <1>8
<1>10. \A i \in DOMAIN home' : InPlace(i, s, n)' BY <1>1, <1>4 DEF InPlace
<1>11. CASE call' = [call EXCEPT !.at = "head", !.done = 0, !.want = 0, !.new = 0]
  <2>1. call'.op = "write" /\ call'.at = "head" /\ call'.left = call.left
    BY <1>1, <1>4, <1>11, IdleFields
  <2>2. ChainSound(s, n)' BY <1>1, <1>4, <1>9, <2>1 DEF ChainSound
  <2>3. CursorSound(s, n)' BY <1>5, <1>9, <2>1 DEF CursorSound, Known
  <2>4. GrowSound(s, n)' BY <2>1 DEF GrowSound
  <2>5. file'.ptr + call'.left < Reach(n) BY <1>5, <1>9, <2>1
  <2> QED BY <1>1, <1>2, <1>4, <1>9, <1>10, <2>1, <2>2, <2>3, <2>4, <2>5, ExtendSound
<1>12. CASE call' = Idle
  <2>1. ChainSound(s, n)' BY <1>1, <1>4, <1>9, <1>12, IdleFields DEF ChainSound
  <2> QED BY <1>1, <1>2, <1>4, <1>9, <1>10, <1>12, <2>1, ReturnSound
<1> QED BY <1>1, <1>11, <1>12

-----------------------------------------------------------------------------
(* FF_SetEof and FF_Close. *)

\* FF_SetEof.
LEMMA SetEofSound == ASSUME Typed, Sound, SetEof PROVE Sound'
<1>1. /\ call = Idle /\ IsOpen /\ Writes(file.mode) /\ UNCHANGED <<fat, entry, misread>>
      /\ file' = [file EXCEPT !.size = file.ptr]
      /\ home' = Below(file.ptr)
      /\ call' = IF file.object # 0 THEN [Idle EXCEPT !.op = "eof", !.at = "truncate"] ELSE Idle
  BY DEF SetEof
<1>2. ~ misread BY DEF Sound
<1>a. PICK s : \E n \in Nat : OpenSound(s, n) BY <1>1 DEF Sound
<1>3. PICK n \in Nat : OpenSound(s, n) BY <1>a
<1>4. call.op = "none" /\ call.at = "idle" BY <1>1, IdleFields
<1>5. /\ file.ptr \in Nat /\ file.size \in Nat /\ file.ptr <= file.size /\ file.size <= Reach(n)
      /\ Reach(n) \in Nat /\ FileTyped(file)
  BY <1>3, <1>4, OpenFacts
<1>6. CursorAt(file, s, n) /\ file.length \in {0, n}
  BY <1>3, <1>4 DEF OpenSound, CursorSound, Known
<1>7. /\ file'.mode = file.mode /\ file'.object = file.object /\ file'.length = file.length
      /\ file'.size = file.ptr /\ file'.ptr = file.ptr /\ file'.cur = file.cur
      /\ file'.addr = file.addr /\ file'.extended = file.extended
  BY <1>1, <1>5 DEF FileTyped, Fields
<1>8. CursorAt(file', s, n)
  <2>1. file.ptr <= Reach(n) /\ (file.extended => file.ptr < Reach(n))
    BY <1>5, <1>6 DEF CursorAt
  <2> QED BY <1>6, <1>7, <2>1 DEF CursorAt
<1>9. \A i \in DOMAIN home' : i < file'.size /\ InPlace(i, s, n)'
  <2>1. \A i \in DOMAIN home : InPlace(i, s, n) BY <1>3, <1>4 DEF OpenSound, HomeSound
  <2> QED BY <1>1, <1>7, <2>1 DEF InPlace, Below
<1>10. /\ call'.op \in {"none", "eof"} /\ call'.at \in {"idle", "truncate"}
       /\ call'.at = "truncate" => file.object # 0
  BY <1>1, IdleFields
<1>11. ChainSound(s, n)' BY <1>1, <1>3, <1>4, <1>7, <1>10 DEF OpenSound, ChainSound
<1>12. CursorSound(s, n)' BY <1>6, <1>7, <1>8, <1>10 DEF CursorSound, CursorAt, Known
<1>13. GrowSound(s, n)' /\ MoveSound(n)' BY <1>10 DEF GrowSound, MoveSound, Pieces
<1>14. CloseSound(n)' BY <1>1, <1>7, <1>10 DEF CloseSound
<1>15. HomeSound(s, n)' BY <1>9 DEF HomeSound
<1>16. OpenSound(s, n)' BY <1>11, <1>12, <1>13, <1>14, <1>15 DEF OpenSound
<1> QED BY <1>1, <1>2, <1>7, <1>16 DEF Sound, IsOpen

\* FF_Close.
LEMMA BeginCloseSound == ASSUME Typed, Sound, BeginClose PROVE Sound'
<1>1. /\ call = Idle /\ IsOpen /\ UNCHANGED <<fat, entry, file, home, misread>>
      /\ call' = [Idle EXCEPT !.op = "close",
                    !.at = IF ~ Writes(file.mode) THEN "leave"
                           ELSE IF EndsOnBoundary(file) THEN "truncate" ELSE "size"]
  BY DEF BeginClose
<1>2. ~ misread BY DEF Sound
<1>a. PICK s : \E n \in Nat : OpenSound(s, n) BY <1>1 DEF Sound
<1>3. PICK n \in Nat : OpenSound(s, n) BY <1>a
<1>4. call.op = "none" /\ call.at = "idle" BY <1>1, IdleFields
<1>5. /\ file.size \in Nat /\ file.size <= Reach(n) /\ Reach(n) \in Nat
      /\ file.object = 0 => Reach(n) = 0
  BY <1>3, <1>4, OpenFacts
<1>6. /\ call'.op = "close"
      /\ call'.at = IF ~ Writes(file.mode) THEN "leave"
                    ELSE IF EndsOnBoundary(file) THEN "truncate" ELSE "size"
  BY <1>1, IdleFields
<1>7. ChainSound(s, n)' BY <1>1, <1>3, <1>4, <1>6 DEF OpenSound, ChainSound
<1>8. CursorSound(s, n)' BY <1>1, <1>5, <1>6 DEF CursorSound
<1>9. GrowSound(s, n)' /\ MoveSound(n)' BY <1>6 DEF GrowSound, MoveSound, Pieces
<1>10. CloseSound(n)'
  <2>1. ~ Writes(file.mode) => entry.size = file.size /\ entry.cluster = file.object
    BY <1>3, <1>4 DEF OpenSound, CloseSound
  <2>2. call'.at = "truncate" => file.object # 0 /\ ClusterPosition(file.size) = 0
    BY <1>6 DEF EndsOnBoundary, ClusterPosition
  <2>3. call'.at = "size" /\ ClusterPosition(file.size) = 0 => Reach(n) = file.size
    <3>1. call'.at = "size" /\ ClusterPosition(file.size) = 0 => file.object = 0
      BY <1>6 DEF EndsOnBoundary, ClusterPosition
    <3> QED BY <1>5, <3>1
  <2>4. call'.at = "leave" => ~ Writes(file.mode) BY <1>6
  <2> QED BY <1>1, <1>6, <2>1, <2>2, <2>3, <2>4 DEF CloseSound
<1>11. HomeSound(s, n)' BY <1>1, <1>3, <1>4, <1>6 DEF OpenSound, HomeSound, InPlace
<1>12. OpenSound(s, n)' BY <1>7, <1>8, <1>9, <1>10, <1>11 DEF OpenSound
<1> QED BY <1>1, <1>2, <1>12 DEF Sound, IsOpen

-----------------------------------------------------------------------------
(* Sound: the steps of FF_Close. *)

\* How many clusters FF_Truncate keeps.
LEMMA NeededClusters ==
  ASSUME file.size \in Nat
  PROVE  /\ ClustersNeeded \in Nat
         /\ call.op = "close" /\ ClusterPosition(file.size) = 0 =>
              Reach(ClustersNeeded) = file.size
         /\ call.op # "close" => ClustersNeeded # 0 /\ file.size < Reach(ClustersNeeded)
<1> DEFINE z == file.size
           u == ClusterUnits
<1>1. u \in Nat \ {0} BY SizesArePositive
<1>2. CASE call.op = "close"
  <2> DEFINE k == ClusterOf(z)
  <2>1. ClustersNeeded = k BY <1>2 DEF ClustersNeeded, ClusterOf
  <2>2. k \in Nat /\ z = Reach(k) + ClusterPosition(z) BY ReachOfPosition
  <2>3. Reach(k) \in Nat BY <2>2, ReachType
  <2> HIDE DEF k
  <2>4. ClusterPosition(z) = 0 => Reach(k) = z BY <2>2, <2>3
  <2> QED BY <1>2, <2>1, <2>2, <2>4
<1>3. CASE call.op # "close"
  <2> DEFINE k == ClusterOf(z + u)
             o == ClusterPosition(z + u)
  <2>1. ClustersNeeded = k BY <1>3 DEF ClustersNeeded, ClusterOf
  <2>2. z + u \in Nat BY <1>1
  <2>3. k \in Nat /\ o \in 0 .. u - 1 /\ z + u = Reach(k) + o BY <2>2, ReachOfPosition
  <2>4. Reach(k) \in Nat /\ Reach(0) = 0 BY <2>3, ReachType, ReachNone
  <2> HIDE DEF k, o, u
  <2>5. z < Reach(k) BY <1>1, <2>3, <2>4
  <2>6. k # 0 BY <2>4, <2>5
  <2> QED BY <1>3, <2>1, <2>3, <2>5, <2>6
<1> QED BY <1>2, <1>3

\* What remains to be shown of a step of FF_Close.
LEMMA CloseStepSound ==
  ASSUME NEW s, NEW n \in Nat, IsOpen, ~ misread, UNCHANGED misread, file'.mode = file.mode,
         call'.op = "close", call'.at \in {"detach", "size", "leave"},
         ChainSound(s, n)', file'.size <= Reach(n), CloseSound(n)',
         \A i \in DOMAIN home' : i < file'.size => InPlace(i, s, n)'
  PROVE  Sound'
<1>1. CursorSound(s, n)' BY DEF CursorSound
<1>2. GrowSound(s, n)' /\ MoveSound(n)' BY DEF GrowSound, MoveSound, Pieces
<1>3. HomeSound(s, n)' BY DEF HomeSound
<1>4. OpenSound(s, n)' BY <1>1, <1>2, <1>3 DEF OpenSound
<1> QED BY <1>4 DEF Sound, IsOpen

\* FF_Truncate unlinks what the file does not need.
LEMMA TruncateSound == ASSUME Typed, Sound, astray' = {}, Truncate PROVE Sound'
<1>1. call.at = "truncate" /\ UNCHANGED <<entry, file, home, misread>> BY DEF Truncate
<1>2. call.op \in {"eof", "close"} BY <1>1, IdleFields DEF Typed, CallTyped, Pieces
<1>3. IsOpen /\ ~ misread BY <1>1, IdleFields, CallsAreOfOpenFiles DEF Sound
<1>a. PICK s : \E n \in Nat : OpenSound(s, n) BY <1>3 DEF Sound
<1>4. PICK n \in Nat : OpenSound(s, n) BY <1>a
<1>5. /\ file.object # 0 /\ Writes(file.mode) /\ entry.cluster = file.object
      /\ call.op = "close" => ClusterPosition(file.size) = 0
  BY <1>1, <1>2, <1>4 DEF OpenSound, CloseSound, ChainSound
<1>6. /\ file.size \in Nat /\ file.size <= Reach(n) /\ Reach(n) \in Nat /\ n \in Nat \ {0}
      /\ Links(fat, s, n) /\ s[0] = file.object /\ FileTyped(file) /\ DOMAIN call = DOMAIN Idle
  BY <1>1, <1>4, <1>5, OpenFacts
<1>7. call.op = "eof" => CursorAt(file, s, n) /\ file.length \in {0, n}
  BY <1>1, <1>4 DEF OpenSound, CursorSound, Known
<1>8. \A i \in DOMAIN home : i \in Nat /\ (i < file.size => InPlace(i, s, n))
  BY <1>4, FileAssumption DEF OpenSound, HomeSound, Typed, HomeTyped
<1>9. call.op = "eof" => \A i \in DOMAIN home : i < file.size
  BY <1>4 DEF OpenSound, HomeSound
<1>10. ChainLength(file.object) = n
  <2>1. 0 \in 0 .. n - 1 BY <1>6
  <2>2. ChainLength(s[0]) = n - 0 BY <1>6, <2>1, LengthOnChain
  <2> QED BY <1>6, <2>2
<1> DEFINE k == ClustersNeeded
           last == TraverseFAT(file.object, k - 1)
<1>11. /\ k \in Nat /\ (call.op = "close" => Reach(k) = file.size)
       /\ call.op # "close" => k # 0 /\ file.size < Reach(k)
  BY <1>5, <1>6, NeededClusters
<1>12. \/ n <= k /\ AfterTruncate /\ UNCHANGED fat
       \/ /\ n > k
          /\ fat' = IF k = 0 THEN Unlinked(file.object, FALSE) ELSE Unlinked(last, TRUE)
          /\ IF k = 0 THEN Step("detach") ELSE AfterTruncate
          /\ call.op = "eof" => file.length = 0 /\ ~ (file.cur >= k)
  BY <1>6, <1>10, <1>11 DEF Truncate, FatFault
<1>b. PICK j : j = k OBVIOUS
<1> HIDE DEF k, last
<1>13. CASE n <= k /\ AfterTruncate /\ UNCHANGED fat
  <2>1. CASE call.op = "close"
    <3>1. call'.op = "close" /\ call'.at = "size"
      BY <1>6, <1>13, <2>1, IdleFields DEF AfterTruncate, Step
    <3>2. Reach(n) = file.size
      <4>1. n = k \/ n < k BY <1>11, <1>13
      <4>2. ~ (n < k) BY <1>6, <1>11, <2>1, ReachGrows, ReachType
      <4> QED BY <1>11, <2>1, <4>1, <4>2
    <3>3. ChainSound(s, n)' BY <1>1, <1>5, <1>6, <1>13, <3>1 DEF ChainSound
    <3>4. CloseSound(n)' BY <1>1, <1>5, <3>1, <3>2 DEF CloseSound
    <3>5. \A i \in DOMAIN home' : i < file'.size => InPlace(i, s, n)' BY <1>1, <1>8 DEF InPlace
    <3> QED BY <1>1, <1>3, <1>6, <3>1, <3>3, <3>4, <3>5, CloseStepSound
  <2>2. CASE call.op # "close"
    <3>1. call' = Idle /\ call.op = "eof" BY <1>2, <1>13, <2>2 DEF AfterTruncate, Return
    <3>2. ChainSound(s, n)' BY <1>1, <1>5, <1>6, <1>13, <3>1, IdleFields DEF ChainSound
    <3>3. \A i \in DOMAIN home' : InPlace(i, s, n)' BY <1>1, <1>8, <1>9, <3>1 DEF InPlace
    <3>4. CursorAt(file', s, n) /\ file'.length \in {0, n} BY <1>1, <1>7, <3>1
    <3> QED BY <1>1, <1>3, <1>5, <3>1, <3>2, <3>3, <3>4, ReturnSound
  <2> QED BY <2>1, <2>2
<1>14. CASE n > k /\ k = 0 /\ Step("detach")
  <2>1. call.op = "close" /\ file.size = 0 BY <1>2, <1>11, <1>14, ReachNone
  <2>2. call'.op = "close" /\ call'.at = "detach" BY <1>6, <1>14, <2>1, IdleFields DEF Step
  <2>3. ChainSound(s, 0)' BY <1>1, <1>5, <2>2 DEF ChainSound
  <2>4. CloseSound(0)' BY <1>1, <1>5, <2>2 DEF CloseSound
  <2>5. \A i \in DOMAIN home' : i < file'.size => InPlace(i, s, 0)' BY <1>1, <1>8, <2>1
  <2>6. file'.size <= Reach(0) BY <1>1, <2>1, ReachNone
  <2> QED BY <1>1, <1>3, <2>2, <2>3, <2>4, <2>5, <2>6, CloseStepSound
<1>15. CASE /\ n > k /\ k # 0 /\ fat' = Unlinked(last, TRUE) /\ AfterTruncate
            /\ call.op = "eof" => file.length = 0 /\ ~ (file.cur >= k)
  <2> DEFINE r == [i \in 0 .. j - 1 |-> s[i]]
  <2>1. j \in Nat \ {0} /\ j - 1 \in 0 .. n - 1 /\ (j - 1) + 1 = j BY <1>11, <1>15, <1>b
  <2>2. last = s[j - 1]
    <3>1. 0 \in 0 .. n - 1 /\ j - 1 \in Nat /\ Least(0 + (j - 1), n - 1) = j - 1
      BY <1>6, <2>1 DEF Least
    <3>2. TraverseFAT(s[0], j - 1) = s[Least(0 + (j - 1), n - 1)]
      BY <1>6, <3>1, TraverseOnChain
    <3> QED BY <1>6, <1>b, <3>1, <3>2 DEF last
  <2>3. Links(fat', r, j)
    <3>1. Links(Unlinked(s[j - 1], TRUE), [i \in 0 .. j - 1 |-> s[i]], (j - 1) + 1)
      BY <1>6, <2>1, CutChain
    <3> QED BY <1>15, <2>1, <2>2, <3>1
  <2>4. \A i \in 0 .. j - 1 : r[i] = s[i] OBVIOUS
  <2> HIDE DEF r
  <2>5. r[0] = file.object BY <1>6, <2>1, <2>4
  <2>6. Reach(j) \in Nat /\ file.size <= Reach(j) BY <1>2, <1>6, <1>11, <1>b, ReachType
  <2>7. \A i \in DOMAIN home : i < file.size => InPlace(i, r, j)
    <3> SUFFICES ASSUME NEW i \in DOMAIN home, i < file.size PROVE InPlace(i, r, j) OBVIOUS
    <3>1. i \in Nat /\ i < Reach(j) BY <1>6, <1>8, <2>6
    <3>2. ClusterOf(i) \in 0 .. j - 1 BY <2>1, <3>1, WithinReach
    <3>3. home[i] = <<s[ClusterOf(i)], ClusterPosition(i)>> BY <1>8 DEF InPlace
    <3> QED BY <2>4, <3>1, <3>2, <3>3 DEF InPlace
  <2>8. CASE call.op = "close"
    <3>1. call'.op = "close" /\ call'.at = "size"
      BY <1>6, <1>15, <2>8, IdleFields DEF AfterTruncate, Step
    <3>2. Reach(j) = file.size BY <1>11, <1>b, <2>8
    <3>3. ChainSound(r, j)' BY <1>1, <1>5, <2>3, <2>5, <3>1 DEF ChainSound
    <3>4. CloseSound(j)' BY <1>1, <1>5, <3>1, <3>2 DEF CloseSound
    <3>5. \A i \in DOMAIN home' : i < file'.size => InPlace(i, r, j)' BY <1>1, <2>7 DEF InPlace
    <3> QED BY <1>1, <1>3, <2>1, <2>6, <3>1, <3>3, <3>4, <3>5, CloseStepSound
  <2>9. CASE call.op # "close"
    <3>1. call' = Idle /\ call.op = "eof" BY <1>2, <1>15, <2>9 DEF AfterTruncate, Return
    <3>2. ChainSound(r, j)' BY <1>1, <1>5, <2>3, <2>5, <3>1, IdleFields DEF ChainSound
    <3>3. \A i \in DOMAIN home' : InPlace(i, r, j)' BY <1>1, <1>9, <2>7, <3>1 DEF InPlace
    <3>4. CursorAt(file', r, j)
      <4>1. file.cur \in 0 .. j - 1 BY <1>7, <1>11, <1>15, <1>b, <3>1 DEF CursorAt
      <4>2. /\ file.cur \in 0 .. j /\ file.cur # j /\ Least(file.cur, j - 1) = file.cur
            /\ Least(file.cur, n - 1) = file.cur
        BY <1>6, <2>1, <4>1 DEF Least
      <4>3. file.addr = r[file.cur] BY <1>5, <1>7, <2>4, <3>1, <4>1, <4>2 DEF CursorAt
      <4>4. file.size <= Reach(j) /\ file.size < Reach(j) BY <1>11, <1>b, <2>6, <2>9
      <4> QED BY <1>1, <4>2, <4>3, <4>4 DEF CursorAt
    <3>5. file'.length = 0 BY <1>1, <1>15, <3>1
    <3> QED BY <1>1, <1>3, <1>5, <2>1, <3>1, <3>2, <3>3, <3>4, <3>5, ReturnSound
  <2> QED BY <2>8, <2>9
<1> QED BY <1>12, <1>13, <1>14, <1>15

\* The entry of an empty file gives up its cluster.
LEMMA DetachSound == ASSUME Typed, Sound, astray' = {}, Detach PROVE Sound'
<1>1. /\ call.at = "detach" /\ UNCHANGED <<fat, home, misread>>
      /\ entry' = [entry EXCEPT !.cluster = 0]
      /\ file' = [file EXCEPT !.object = 0, !.length = 0, !.cur = 0, !.end = 0]
      /\ AfterTruncate
  BY DEF Detach
<1>2. call.op = "close" BY <1>1, IdleFields DEF Typed, CallTyped, Pieces
<1>3. IsOpen /\ ~ misread BY <1>1, IdleFields, CallsAreOfOpenFiles DEF Sound
<1>a. PICK s : \E n \in Nat : OpenSound(s, n) BY <1>3 DEF Sound
<1>4. PICK n \in Nat : OpenSound(s, n) BY <1>a
<1>5. n = 0 /\ Writes(file.mode) BY <1>1, <1>2, <1>4 DEF OpenSound, CloseSound, ChainSound
<1>6. file.size = 0 /\ FileTyped(file) /\ DOMAIN call = DOMAIN Idle
  BY <1>4, <1>5, OpenFacts
<1>7. file'.mode = file.mode /\ file'.object = 0 /\ file'.size = file.size
  BY <1>1, <1>6 DEF FileTyped, Fields
<1>8. entry'.cluster = 0 BY <1>1 DEF Typed, Entries
<1>9. call'.op = "close" /\ call'.at = "size"
  BY <1>1, <1>2, <1>6, IdleFields DEF AfterTruncate, Step
<1>10. ChainSound(s, 0)' BY <1>7, <1>8, <1>9 DEF ChainSound
<1>11. CloseSound(0)' BY <1>5, <1>6, <1>7, <1>9, ReachNone DEF CloseSound
<1>12. \A i \in DOMAIN home' : i < file'.size => InPlace(i, s, 0)'
  <2>1. DOMAIN home \subseteq Nat BY FileAssumption DEF Typed, HomeTyped
  <2> QED BY <1>1, <1>6, <1>7, <2>1
<1>13. file'.size <= Reach(0) BY <1>6, <1>7, ReachNone
<1> QED BY <1>1, <1>3, <1>7, <1>9, <1>10, <1>11, <1>12, <1>13, CloseStepSound

\* The size is entered in the directory.
LEMMA PutSizeSound == ASSUME Typed, Sound, astray' = {}, PutSize PROVE Sound'
<1>1. /\ call.op = "close" /\ call.at = "size" /\ UNCHANGED <<fat, file, home, misread>>
      /\ entry' = NewEntry(entry, file.size) /\ Step("leave")
  BY DEF PutSize, Calls
<1>2. IsOpen /\ ~ misread BY <1>1, IdleFields, CallsAreOfOpenFiles DEF Sound
<1>a. PICK s : \E n \in Nat : OpenSound(s, n) BY <1>2 DEF Sound
<1>3. PICK n \in Nat : OpenSound(s, n) BY <1>a
<1>4. /\ Writes(file.mode) /\ (ClusterPosition(file.size) = 0 => Reach(n) = file.size)
      /\ file.object # 0 => entry.cluster = file.object
  BY <1>1, <1>3 DEF OpenSound, CloseSound, ChainSound
<1>5. /\ file.size \in Nat /\ file.size <= Reach(n) /\ DOMAIN call = DOMAIN Idle
      /\ file.object # 0 => n \in Nat \ {0} /\ Links(fat, s, n) /\ s[0] = file.object
      /\ file.object = 0 => n = 0 /\ Reach(n) = 0
  BY <1>1, <1>3, OpenFacts
<1>6. call'.op = "close" /\ call'.at = "leave" BY <1>1, <1>5, IdleFields DEF Step
<1>7. entry'.size = file.size /\ entry'.cluster = file.object
  <2>1. /\ entry'.size = file.size
        /\ entry'.cluster = IF file.size = 0 THEN 0 ELSE entry.cluster
    BY <1>1 DEF NewEntry
  <2>2. CASE file.size = 0
    <3>1. ClusterPosition(0) = 0
      <4>1. Reach(0) + 0 = 0 /\ 0 \in 0 .. ClusterUnits - 1
        BY ReachNone, SizesArePositive
      <4>2. ClusterPosition(Reach(0) + 0) = 0 BY <4>1, PlaceInReach
      <4> QED BY <4>1, <4>2
    <3>2. Reach(n) = 0 BY <1>4, <2>2, <3>1
    <3>3. n = 0
      <4>1. Reach(n) = Reach(0) BY <3>2, ReachNone
      <4> QED BY <4>1, ReachIsUnique
    <3>4. file.object = 0 BY <1>5, <3>3
    <3> QED BY <2>1, <2>2, <3>4
  <2>3. CASE file.size # 0
    <3>1. file.object # 0 BY <1>5, <2>3
    <3> QED BY <1>4, <2>1, <2>3, <3>1
  <2> QED BY <2>2, <2>3
<1>8. ChainSound(s, n)' BY <1>1, <1>5, <1>6, <1>7 DEF ChainSound
<1>9. CloseSound(n)' BY <1>1, <1>4, <1>6, <1>7 DEF CloseSound
<1>10. \A i \in DOMAIN home' : i < file'.size => InPlace(i, s, n)'
  <2>1. \A i \in DOMAIN home : i < file.size => InPlace(i, s, n)
    BY <1>3 DEF OpenSound, HomeSound
  <2> QED BY <1>1, <2>1 DEF InPlace
<1> QED BY <1>1, <1>2, <1>5, <1>6, <1>8, <1>9, <1>10, CloseStepSound

-----------------------------------------------------------------------------
(* Sound: the ends of the calls, and a loss of power. *)

\* What a closed file needs.
LEMMA ClosedIsSound ==
  ASSUME NEW s, NEW n \in Nat, file' = Closed, call' = Idle, ~ misread, UNCHANGED misread,
         UNCHANGED <<fat, entry>>, home' = Below(entry.size),
         IF entry.cluster = 0 THEN n = 0 ELSE Links(fat, s, n) /\ s[0] = entry.cluster,
         entry.size <= Reach(n),
         \A i \in DOMAIN home : i < entry.size => InPlace(i, s, n)
  PROVE  Sound'
<1>1. file'.mode = {} BY DEF Closed
<1>2. \A i \in DOMAIN home' : i < entry'.size /\ InPlace(i, s, n)' BY DEF Below, InPlace
<1>3. ClosedSound(s, n)' BY <1>2 DEF ClosedSound
<1> QED BY <1>1, <1>3 DEF Sound, IsOpen

\* A call that has nothing left to do returns.
LEMMA LeaveSound == ASSUME Typed, Sound, Leave PROVE Sound'
<1>0. /\ call.op = "close" /\ call.at \in {"leave", "fail"} /\ UNCHANGED <<fat, entry, misread>>
      /\ file' = Closed /\ call' = Idle /\ home' = Below(entry.size)
  BY DEF Leave, Calls, Return
<1>2. IsOpen /\ ~ misread BY <1>0, IdleFields, CallsAreOfOpenFiles DEF Sound
<1>a. PICK s : \E n \in Nat : OpenSound(s, n) BY <1>2 DEF Sound
<1>3. PICK n \in Nat : OpenSound(s, n) BY <1>a
<1>1. /\ call.op = "close" /\ call.at = "leave" /\ UNCHANGED <<fat, entry, misread>>
      /\ file' = Closed /\ call' = Idle /\ home' = Below(entry.size)
  BY <1>0, <1>3 DEF OpenSound, CloseSound
<1>4. entry.size = file.size /\ entry.cluster = file.object
  BY <1>1, <1>3 DEF OpenSound, CloseSound
<1>5. /\ IF file.object = 0 THEN n = 0 ELSE Links(fat, s, n) /\ s[0] = file.object
      /\ file.size <= Reach(n)
      /\ \A i \in DOMAIN home : i < file.size => InPlace(i, s, n)
  BY <1>1, <1>3 DEF OpenSound, ChainSound, CursorSound, HomeSound
<1> QED BY <1>1, <1>2, <1>4, <1>5, ClosedIsSound

\* What the disk holds when power is lost serves the entry.
LEMMA CrashSound == ASSUME Typed, Sound, astray' = {}, Crash PROVE Sound'
<1>0. /\ IsOpen /\ UNCHANGED misread /\ kept = Flushed /\ ~ BeingShortened
      /\ file' = Closed /\ call' = Idle /\ home' = Below(entry'.size)
  BY DEF Crash
<1>00. kept.entry = {entry} /\ kept.fat = [c \in Clusters |-> {fat[c]}] BY <1>0 DEF Flushed
<1>01. UNCHANGED <<fat, entry>>
  <2>1. Unwritten = {} BY <1>00 DEF Unwritten
  <2>2. fat \in [Clusters -> LinkValues] BY DEF Typed
  <2> QED BY <1>00, <2>1, <2>2 DEF Crash
<1>1. /\ IsOpen /\ UNCHANGED <<fat, entry, misread>>
      /\ file' = Closed /\ call' = Idle /\ home' = Below(entry.size)
      /\ ~ (file.size < entry.size) /\ call.at # "detach"
  BY <1>0, <1>00, <1>01 DEF BeingShortened
<1>2. ~ misread BY DEF Sound
<1>a. PICK s : \E n \in Nat : OpenSound(s, n) BY <1>1 DEF Sound
<1>3. PICK n \in Nat : OpenSound(s, n) BY <1>a
<1>4. /\ file.size \in Nat /\ file.size <= Reach(n) /\ Reach(n) \in Nat
      /\ file.object # 0 => Links(fat, s, n) /\ s[0] = file.object
      /\ file.object = 0 => n = 0 /\ Reach(n) = 0
  BY <1>1, <1>3, OpenFacts
<1>5. /\ file.object # 0 => entry.cluster = file.object
      /\ file.object = 0 /\ entry.cluster # 0 => fat[entry.cluster] = EOC
  BY <1>3 DEF OpenSound, ChainSound
<1>6. entry.size \in Nat /\ entry.size <= file.size
      /\ entry.cluster \in Clusters \cup {0} /\ DOMAIN home \subseteq Nat
  BY <1>1, <1>4, FileAssumption DEF Typed, Entries, HomeTyped
<1>7. \A i \in DOMAIN home : i < file.size => InPlace(i, s, n)
  BY <1>3 DEF OpenSound, HomeSound
<1>8. CASE file.object # 0
  <2>1. IF entry.cluster = 0 THEN n = 0 ELSE Links(fat, s, n) /\ s[0] = entry.cluster
    BY <1>4, <1>5, <1>8
  <2>2. entry.size <= Reach(n) BY <1>4, <1>6
  <2>3. \A i \in DOMAIN home : i < entry.size => InPlace(i, s, n) BY <1>4, <1>6, <1>7
  <2> QED BY <1>1, <1>2, <2>1, <2>2, <2>3, ClosedIsSound
<1>9. CASE file.object = 0 /\ entry.cluster = 0
  <2>1. entry.size <= Reach(n) BY <1>4, <1>6
  <2>2. \A i \in DOMAIN home : i < entry.size => InPlace(i, s, n) BY <1>4, <1>6, <1>7
  <2>3. IF entry.cluster = 0 THEN n = 0 ELSE Links(fat, s, n) /\ s[0] = entry.cluster
    BY <1>4, <1>9
  <2> QED BY <1>1, <1>2, <2>1, <2>2, <2>3, ClosedIsSound
<1>10. CASE file.object = 0 /\ entry.cluster # 0
  <2>0. PICK c : c = entry.cluster OBVIOUS
  <2> DEFINE r == [i \in 0 .. 0 |-> c]
  <2>1. Links(fat, r, 1) BY <1>5, <1>6, <1>10, <2>0, OneCluster
  <2>2. r[0] = entry.cluster BY <2>0
  <2> HIDE DEF r
  <2>3. Reach(1) \in Nat BY ReachType
  <2>4. entry.size = 0 BY <1>4, <1>6, <1>10
  <2>5. entry.size <= Reach(1) BY <2>3, <2>4
  <2>6. \A i \in DOMAIN home : i < entry.size => InPlace(i, r, 1) BY <1>6, <2>4
  <2> QED BY <1>1, <1>2, <1>10, <2>1, <2>2, <2>5, <2>6, ClosedIsSound
<1> QED BY <1>8, <1>9, <1>10

-----------------------------------------------------------------------------
(* Which steps give a handle back, and which leave its file alone. *)

\* f is the handle with its cursor or its position moved.
SameHandle(f) == FileTyped(f) /\ f.mode = file.mode /\ f.object = file.object

\* FF_SetCluster, and its failing, are such.
LEMMA MovedCursors ==
  ASSUME Typed
  PROVE  /\ SameHandle(file) /\ SameHandle(SetCluster(file))
         /\ SameHandle([file EXCEPT !.addr = 0])
<1>1. FileTyped(file) BY DEF Typed
<1> QED BY <1>1, SetClusterKeeps, LostTyped DEF SameHandle, FileTyped, Fields

\* The end of a piece of a transfer is.
LEMMA MovedKeeps ==
  ASSUME Typed, call.op \in {"read", "write"}, NEW f, SameHandle(f), NEW place, NEW n,
         NEW next, next # "grow", Move(f, place, n, next)
  PROVE  file'.mode = file.mode /\ file'.object = file.object /\ call'.at # "grow"
<1> DEFINE a == Advance(f, n)
<1>1. a.mode = file.mode /\ a.object = file.object BY DEF Advance, SameHandle, FileTyped, Fields
<1>2. f.mode = file.mode /\ f.object = file.object BY DEF SameHandle
<1>3. /\ file' = f \/ file' = a
      /\ call' = Idle \/ call' = [call EXCEPT !.at = next, !.left = @ - n]
  BY DEF Move, Moved, Return
<1>4. DOMAIN call = DOMAIN Idle BY DEF Typed, CallTyped
<1>5. call'.at # "grow" BY <1>3, <1>4, IdleFields
<1> HIDE DEF a
<1> QED BY <1>1, <1>2, <1>3, <1>5

\* And a piece of a transfer as a whole.
LEMMA PieceKeeps ==
  ASSUME Typed, call.op \in {"read", "write"}, NEW m, NEW rel, NEW next, next # "grow",
         Piece(m, rel, next) \/ ReadAstray(m, rel)
  PROVE  file'.mode = file.mode /\ file'.object = file.object /\ call'.at # "grow"
<1> DEFINE f == SetCluster(file)
           z == [file EXCEPT !.addr = 0]
           place == Units(f.addr, Major(f.ptr) * SectorUnits + rel, m)
<1>1. SameHandle(f) /\ SameHandle(z) BY MovedCursors
<1>2. \/ Move(f, place, m, next)
      \/ file' = z /\ call' = Idle
      \/ Move(z, Units(0, rel, m), m, "rest")
  BY DEF Piece, ReadAstray, CursorIsLost, Return
<1> HIDE DEF f, z, place
<1>3. CASE file' = z /\ call' = Idle BY <1>1, <1>3, IdleFields DEF SameHandle
<1> QED BY <1>1, <1>2, <1>3, MovedKeeps

\* A transfer changes neither the chain nor the entry, and keeps the handle.
LEMMA TransferKeepsFile ==
  ASSUME Typed, Head \/ RestOfCluster \/ BeginRuns \/ Run \/ Sectors \/ Tail
  PROVE  /\ UNCHANGED <<fat, entry, kept>> /\ call.op # "close" /\ call.at \in Pieces
         /\ file'.mode = file.mode /\ file'.object = file.object /\ call'.at # "grow"
<1> DEFINE f == SetCluster(file)
           z == [file EXCEPT !.addr = 0]
<1>0. SameHandle(f) /\ SameHandle(z) BY MovedCursors
<1>1. DOMAIN call = DOMAIN Idle BY DEF Typed, CallTyped
<1>2. UNCHANGED <<fat, entry, kept>> /\ call.op \in {"read", "write"} /\ call.at \in Pieces
  BY DEF Head, RestOfCluster, BeginRuns, Run, Sectors, Tail, IsTransfer, Pieces
<1>3. ASSUME file' = file \/ file' = f \/ file' = z
      PROVE  file'.mode = file.mode /\ file'.object = file.object
  <2> HIDE DEF f, z
  <2> QED BY <1>0, <1>3 DEF SameHandle
<1>4. ASSUME NEW next, next # "grow", Skip(next)
      PROVE  file'.mode = file.mode /\ file'.object = file.object /\ call'.at # "grow"
  BY <1>1, <1>4, IdleFields DEF Skip, Step
<1>5. CASE Head
  <2> DEFINE rel == Minor(file.ptr)
             n == IF rel + call.left <= SectorUnits THEN call.left ELSE SectorUnits - rel
  <2>1. \/ Piece(n, rel, "rest") \/ ReadAstray(n, rel)
        \/ file' = f /\ Step("rest")
        \/ file' = z /\ (Step("rest") \/ Return)
    BY <1>5 DEF Head, CursorIsLost
  <2>2. CASE Piece(n, rel, "rest") \/ ReadAstray(n, rel)
    <3> HIDE DEF n, rel
    <3> QED BY <1>2, <2>2, PieceKeeps
  <2>3. CASE (file' = f \/ file' = z) /\ (Step("rest") \/ Return)
    <3>1. call'.at # "grow" BY <1>1, <2>3, IdleFields DEF Step, Return
    <3> QED BY <1>2, <1>3, <2>3, <3>1
  <2> QED BY <2>1, <2>2, <2>3
<1>6. CASE RestOfCluster
  <2>1. Piece(RestUnits(file.ptr), 0, "clusters") \/ Skip("clusters") BY <1>6 DEF RestOfCluster
  <2> QED BY <1>2, <1>4, <2>1, PieceKeeps
<1>7. CASE BeginRuns
  <2>1. \/ Skip("sectors")
        \/ /\ file' = f \/ file' = z
           /\ \/ call' = [call EXCEPT !.at = "run", !.done = 0, !.want = call.left \div ClusterUnits]
              \/ call' = Idle
    BY <1>7 DEF BeginRuns, CursorIsLost, Return
  <2>2. Skip("sectors") \/ call'.at # "grow" BY <1>1, <2>1, IdleFields
  <2> QED BY <1>2, <1>3, <1>4, <2>1, <2>2
<1>8. CASE Run
  <2>1. \E run \in RunLengths : LET n == (call.done + run) * ClusterUnits IN
          \/ /\ file' = AfterRun(file, run)
             /\ call' = [call EXCEPT !.done = @ + run, !.want = @ - run]
          \/ /\ file' = Advance(AfterRun(file, run), n)
             /\ call' = IF call.left = n THEN Idle
                        ELSE [call EXCEPT !.at = "sectors", !.left = @ - n, !.done = 0, !.want = 0]
          \/ (file' = file \/ file' = z) /\ call' = Idle
    BY <1>8 DEF Run, Return
  <2>2. call'.at # "grow" BY <1>1, <1>2, <2>1, IdleFields DEF Pieces
  <2>3. file'.mode = file.mode /\ file'.object = file.object
    <3>1. \A run : /\ AfterRun(file, run).mode = file.mode /\ AfterRun(file, run).object = file.object
                   /\ DOMAIN AfterRun(file, run) = Fields
      BY DEF Typed, FileTyped, Fields, AfterRun
    <3>2. \A run, n : /\ Advance(AfterRun(file, run), n).mode = file.mode
                      /\ Advance(AfterRun(file, run), n).object = file.object
      BY <3>1 DEF Advance, Fields
    <3> QED BY <1>3, <2>1, <3>1, <3>2
  <2> QED BY <1>2, <2>2, <2>3
<1>9. CASE Sectors
  <2> DEFINE n == SectorRun(file.ptr, call.left)
             place == Units(f.addr, Major(f.ptr) * SectorUnits, n)
  <2>1. \/ Skip("tail")
        \/ Move(f, place, n, "sectors")
        \/ (file' = f \/ file' = z) /\ SectorsFail
    BY <1>9 DEF Sectors, CursorIsLost, Move
  <2>2. SectorsFail => call'.at # "grow" BY <1>1, IdleFields DEF SectorsFail
  <2>3. CASE Move(f, place, n, "sectors")
    <3> HIDE DEF f, place, n
    <3> QED BY <1>0, <1>2, <2>3, MovedKeeps
  <2> QED BY <1>2, <1>3, <1>4, <2>1, <2>2, <2>3
<1>10. CASE Tail
  <2> DEFINE n == call.left
             place == BufferUnits(f.addr, Major(f.ptr) * SectorUnits, n)
  <2>1. Move(f, place, n, "idle") \/ (file' = z /\ call' = Idle)
    BY <1>10 DEF Tail, CursorIsLost, Return
  <2>2. CASE Move(f, place, n, "idle")
    <3> HIDE DEF f, place, n
    <3> QED BY <1>0, <1>2, <2>2, MovedKeeps
  <2> QED BY <1>2, <1>3, <2>1, <2>2, IdleFields
<1> QED BY <1>5, <1>6, <1>7, <1>8, <1>9, <1>10

\* An open handle is given back by FF_Close and by a loss of power only.
LEMMA HandleStays ==
  ASSUME Typed, [Next]_vars, IsOpen
  PROVE  Leave \/ Crash \/ file'.mode = file.mode
<1>0. FileTyped(file) BY DEF Typed
<1>1. CASE \E m \in Modes : Open(m) BY <1>1 DEF Open
<1>2. CASE \E n \in Lengths : Read(n) \/ Write(n)
  <2>1. CASE \E n \in Lengths : Read(n) BY <2>1 DEF Read
  <2>2. CASE \E n \in Lengths : Write(n)
    <3> DEFINE f == [file EXCEPT !.ptr = file.size]
               g == SetCluster(f)
    <3>1. file' = file \/ file' = g \/ file' = [f EXCEPT !.addr = 0] BY <2>2 DEF Write
    <3>2. FileTyped(f) /\ f.mode = file.mode
      <4>1. file.size \in 0 .. file.size BY NumbersOf
      <4> QED BY <1>0, <4>1 DEF FileTyped, Fields
    <3>3. g.mode = file.mode
      <4> HIDE DEF f
      <4> QED BY <3>2, SetClusterKeeps
    <3>4. [f EXCEPT !.addr = 0].mode = file.mode BY <1>0 DEF FileTyped, Fields
    <3> HIDE DEF g
    <3> QED BY <3>1, <3>3, <3>4
  <2> QED BY <1>2, <2>1, <2>2
<1>3. CASE \E p \in 0 .. MaxSize : Seek(p)
  <2>1. PICK p \in 0 .. MaxSize : Seek(p) BY <1>3
  <2> DEFINE f == [file EXCEPT !.ptr = p]
             g == SetCluster(f)
  <2>2. file' = file \/ (p <= file.size /\ (file' = g \/ file' = [f EXCEPT !.addr = 0]))
    BY <2>1 DEF Seek
  <2>3. g.mode = file.mode BY <1>0 DEF SetCluster, FileTyped, Fields
  <2>4. [f EXCEPT !.addr = 0].mode = file.mode BY <1>0 DEF FileTyped, Fields
  <2> HIDE DEF g
  <2> QED BY <2>2, <2>3, <2>4
<1>4. CASE SetEof \/ BeginClose \/ Truncate \/ Detach \/ PutSize
  BY <1>0, <1>4 DEF SetEof, BeginClose, Truncate, Detach, PutSize, FileTyped, Fields
<1>5. CASE ClaimFirst \/ EnterFirst \/ CountChain \/ Grow
  BY <1>0, <1>5 DEF ClaimFirst, EnterFirst, CountChain, Grow, FileTyped, Fields
<1>6. CASE EndGrow \/ StopGrow
  <2> DEFINE e == IF StopGrow THEN file ELSE [file EXCEPT !.end = call.new]
             f == Grown(e, call.done)
             g == Resync(f)
  <2>1. file' = g \/ file' = [g EXCEPT !.addr = 0]
    BY <1>6 DEF EndGrow, StopGrow
  <2>2. f.mode = file.mode /\ DOMAIN f = Fields BY <1>0 DEF Grown, FileTyped, Fields
  <2>3. g.mode = file.mode /\ DOMAIN g = Fields
    <3> HIDE DEF f
    <3> QED BY <2>2 DEF Resync, Fields
  <2> HIDE DEF g
  <2>4. [g EXCEPT !.addr = 0].mode = file.mode BY <2>3 DEF Fields
  <2> QED BY <2>1, <2>3, <2>4
<1>7. CASE Head \/ RestOfCluster \/ BeginRuns \/ Run \/ Sectors \/ Tail
  BY <1>7, TransferKeepsFile
<1>8. CASE UNCHANGED vars BY <1>8 DEF vars
<1> QED BY <1>1, <1>2, <1>3, <1>4, <1>5, <1>6, <1>7, <1>8 DEF Next

-----------------------------------------------------------------------------
(* What the disk may have: KeptSound. *)

\* The versions of today are among those the disk may have; no cluster of another file
\* changes hands.
Recent ==
  /\ entry \in kept.entry
  /\ \A c \in Clusters : fat[c] \in kept.fat[c] /\ (Other \in kept.fat[c] => fat[c] = Other)

\* An entry that counts units names the first cluster of the handle.
EntryFits(e) ==
  e.size # 0 /\ (call.op = "close" => file.size # 0)
    => file.object # 0 /\ e.cluster = file.object

\* The links between the first g clusters are on the disk, and the last of them has been
\* claimed there, unless it is the first.
Held(s, g) ==
  /\ \A i \in 0 .. g - 2 : kept.fat[s[i]] = {s[i + 1]}
  /\ g > 1 => Free \notin kept.fat[s[g - 1]]

\* FF_ExtendFile counts on clusters only after it has flushed their links.
ChainHeld ==
  call.at # "detach" =>
    \A s, n : Links(fat, s, n) /\ s[0] = file.object => Held(s, Known(n))

KeptSound ==
  /\ Recent
  /\ IsOpen => (\A e \in kept.entry : EntryFits(e)) /\ ChainHeld
  /\ ~ IsOpen => kept = Flushed

\* Nothing waits in the cache.
AllFlushed == Typed /\ Sound /\ kept = Flushed /\ (IsOpen => call.at # "grow")

\* The entry of today fits the handle.
LEMMA CurrentFits == Typed /\ Sound /\ IsOpen => EntryFits(entry)
<1> SUFFICES ASSUME Typed, Sound, IsOpen, entry.size # 0, call.op = "close" => file.size # 0
             PROVE  file.object # 0 /\ entry.cluster = file.object
  BY DEF EntryFits
<1>1. PICK s, n : n \in Nat /\ OpenSound(s, n) BY DEF Sound
<1>2. file.object # 0
  <2> SUFFICES ASSUME file.object = 0 PROVE FALSE OBVIOUS
  <2>1. n = 0 /\ Reach(n) = 0 /\ file.size \in Nat /\ file.size <= Reach(n) BY <1>1, OpenFacts
  <2>2. call.op # "close" => entry.size = 0 BY <1>1 DEF OpenSound, ChainSound
  <2> QED BY <2>1, <2>2
<1> QED BY <1>1, <1>2 DEF OpenSound, ChainSound

\* What is flushed is sound.
LEMMA FlushedIsSound == AllFlushed => KeptSound
<1> SUFFICES ASSUME Typed, Sound, kept = Flushed, IsOpen => call.at # "grow" PROVE KeptSound
  BY DEF AllFlushed
<1>1. kept.entry = {entry} /\ kept.fat = [c \in Clusters |-> {fat[c]}] BY DEF Flushed
<1>2. Recent BY <1>1 DEF Recent
<1>3. ASSUME IsOpen PROVE \A e \in kept.entry : EntryFits(e) BY <1>1, <1>3, CurrentFits
<1>4. ASSUME IsOpen PROVE ChainHeld
  <2> SUFFICES ASSUME NEW s, NEW n, Links(fat, s, n) PROVE Held(s, Known(n)) BY DEF ChainHeld
  <2>1. Known(n) = n BY <1>4 DEF Known
  <2>2. n \in Nat \ {0} /\ s \in [0 .. n - 1 -> Clusters] BY DEF Links
  <2>3. \A i \in 0 .. n - 1 : kept.fat[s[i]] = {fat[s[i]]} BY <1>1, <2>2
  <2>4. \A i \in 0 .. n - 2 : i \in 0 .. n - 1 /\ fat[s[i]] = s[i + 1] BY <2>2 DEF Links
  <2>5. \A i \in 0 .. n - 2 : kept.fat[s[i]] = {s[i + 1]} BY <2>3, <2>4
  <2>6. n - 1 \in 0 .. n - 1 /\ fat[s[n - 1]] # Free BY <2>2 DEF Links, Free, EOC
  <2>7. Free \notin kept.fat[s[n - 1]] BY <2>3, <2>6
  <2> QED BY <2>1, <2>5, <2>7 DEF Held
<1> QED BY <1>2, <1>3, <1>4 DEF KeptSound

LEMMA FlushedNext == AllFlushed' => KeptSound'
BY FlushedIsSound, PTL

LEMMA CurrentFitsNext == (Typed /\ Sound /\ IsOpen)' => EntryFits(entry)'
BY CurrentFits, PTL

\* A step that leaves the chain to the same handle.
LEMMA ChainStays ==
  ASSUME Typed', Sound', KeptTyped, KeptSound, IsOpen, IsOpen', UNCHANGED fat,
         UNCHANGED <<kept, entry>> \/ Written, file'.object = file.object,
         call.op = "close" => call'.op = "close" /\ file'.size = file.size,
         call.at \notin {"grow", "detach"}, call'.at # "grow"
  PROVE  KeptSound'
<1>1. Recent /\ (\A e \in kept.entry : EntryFits(e)) /\ ChainHeld BY DEF KeptSound
<1>2. /\ kept'.fat = kept.fat /\ kept'.entry \subseteq kept.entry \cup {entry'}
      /\ entry' \in kept'.entry
  <2>1. CASE UNCHANGED <<kept, entry>> BY <1>1, <2>1 DEF Recent
  <2>2. CASE Written
    <3>1. kept'.fat = [c \in Clusters |-> kept.fat[c] \cup {fat[c]}]
          /\ kept'.entry = kept.entry \cup {entry'}
      BY <2>2 DEF Written
    <3>2. \A c \in Clusters : kept.fat[c] \cup {fat[c]} = kept.fat[c] BY <1>1 DEF Recent
    <3>3. kept.fat = [c \in Clusters |-> kept.fat[c]] BY DEF KeptTyped
    <3> QED BY <3>1, <3>2, <3>3
  <2> QED BY <2>1, <2>2
<1>3. Recent' BY <1>1, <1>2 DEF Recent
<1>4. \A e \in kept'.entry : EntryFits(e)'
  <2>1. \A e \in kept.entry : EntryFits(e)' BY <1>1 DEF EntryFits
  <2>2. EntryFits(entry)' BY CurrentFitsNext
  <2>3. \A e : e = entry' => EntryFits(e)' BY <2>2 DEF EntryFits
  <2> QED BY <1>2, <2>1, <2>3
<1>5. ChainHeld' BY <1>1, <1>2 DEF ChainHeld, Held, Known
<1> QED BY <1>3, <1>4, <1>5 DEF KeptSound

\* Two chains with the same links from the same cluster on go the same way.
LEMMA SameWay ==
  ASSUME NEW F, NEW s, NEW n, Links(F, s, n), NEW G, NEW t, NEW m, Links(G, t, m),
         s[0] = t[0], \A i \in 0 .. n - 2 : G[s[i]] = F[s[i]]
  PROVE  n <= m /\ \A i \in 0 .. n - 1 : t[i] = s[i]
<1>1. n \in Nat \ {0} /\ s \in [0 .. n - 1 -> Clusters] /\ m \in Nat \ {0} BY DEF Links
<1> DEFINE S == {i \in 0 .. n - 1 : i <= m - 1 /\ t[i] = s[i]}
<1>2. 0 \in S BY <1>1
<1>3. \A i \in 0 .. (n - 1) - 1 : i \in S => i + 1 \in S
  <2> SUFFICES ASSUME NEW i \in 0 .. (n - 1) - 1, i <= m - 1, t[i] = s[i]
               PROVE  i + 1 \in S
    OBVIOUS
  <2>1. i \in 0 .. n - 2 /\ i + 1 \in 0 .. n - 1 BY <1>1
  <2>2. G[t[i]] = s[i + 1] /\ s[i + 1] \in Clusters BY <1>1, <2>1 DEF Links
  <2>3. i # m - 1
    <3> SUFFICES ASSUME i = m - 1 PROVE FALSE OBVIOUS
    <3>1. G[t[i]] = EOC BY DEF Links
    <3> QED BY <2>2, <3>1, ClustersAreNumbers DEF IsEnd
  <2>4. i \in 0 .. m - 2 /\ i + 1 <= m - 1 BY <1>1, <2>1, <2>3
  <2>5. t[i + 1] = s[i + 1] BY <2>2, <2>4 DEF Links
  <2> QED BY <2>1, <2>4, <2>5
<1> HIDE DEF S
<1>4. n - 1 \in Nat BY <1>1
<1>5. \A i \in 0 .. n - 1 : i \in S BY <1>2, <1>3, <1>4, BoundedInduction
<1>6. n - 1 \in S BY <1>4, <1>5
<1> QED BY <1>1, <1>5, <1>6 DEF S

\* What a step adds to the versions of the links and of the entry.
LEMMA WrittenHas ==
  ASSUME Written
  PROVE  /\ kept'.entry = kept.entry \cup {entry'}
         /\ \A c \in Clusters : kept'.fat[c] = kept.fat[c] \cup {fat'[c]}
BY DEF Written

\* A step that changes no cluster of another file and writes what it changes.
LEMMA RecentStays ==
  ASSUME Recent, Written, \A c \in Clusters : fat[c] = Other => fat'[c] = Other
  PROVE  Recent'
BY WrittenHas DEF Recent

\* A handle without clusters has no links.
LEMMA NoLinksFromNothing ==
  \A F, s, n : ~ (Links(F, s, n) /\ s[0] = 0)
<1> SUFFICES ASSUME NEW F, NEW s, NEW n, Links(F, s, n), s[0] = 0 PROVE FALSE OBVIOUS
<1>1. n \in Nat \ {0} /\ s \in [0 .. n - 1 -> Clusters] /\ 0 \in 0 .. n - 1 BY DEF Links
<1> QED BY <1>1, ClustersAreNumbers DEF IsEnd, Free

\* The length of the chain of a cluster, from its links.
LEMMA LengthOfLinks ==
  ASSUME NEW s, NEW n, Links(fat, s, n)
  PROVE  ChainLength(s[0]) = n
<1>1. n \in Nat \ {0} BY DEF Links
<1>2. 0 \in 0 .. n - 1 /\ n - 0 = n BY <1>1
<1> QED BY <1>2, LengthOnChain

LEMMA ClaimFirstKept ==
  ASSUME Typed, Sound, KeptTyped, KeptSound, Typed', Sound', ClaimFirst PROVE KeptSound'
<1>1. Calls("write", "first") /\ Written /\ UNCHANGED entry BY DEF ClaimFirst
<1>2. call.op = "write" /\ call.at = "first" BY <1>1 DEF Calls
<1>3. IsOpen BY <1>2, IdleFields, CallsAreOfOpenFiles
<1>4. FileTyped(file) /\ DOMAIN call = DOMAIN Idle BY DEF Typed, CallTyped
<1>5. file'.mode = file.mode /\ file'.object = file.object
  BY <1>4 DEF ClaimFirst, FileTyped, Fields
<1>6. IsOpen' BY <1>3, <1>5 DEF IsOpen
<1>7. CASE UNCHANGED fat /\ call' = Idle
  <2>1. call'.at # "grow" BY <1>7, IdleFields
  <2> QED BY <1>1, <1>2, <1>3, <1>5, <1>6, <1>7, <2>1, ChainStays
<1>8. CASE \E c \in Clusters : /\ fat[c] = Free /\ fat' = [fat EXCEPT ![c] = EOC]
                               /\ call' = [call EXCEPT !.at = "enter", !.new = c]
  <2>1. call'.op = "write" BY <1>2, <1>4, <1>8, IdleFields
  <2>2. Recent'
    <3>1. fat \in [Clusters -> LinkValues] BY DEF Typed
    <3>2. \A d \in Clusters : fat[d] = Other => fat'[d] = Other
      BY <1>8, <3>1 DEF Other, Free
    <3> QED BY <1>1, <3>2, RecentStays DEF KeptSound
  <2>3. \A e \in kept'.entry : EntryFits(e)'
    <3>1. kept'.entry = kept.entry BY <1>1, WrittenHas DEF KeptSound, Recent
    <3>2. \A e \in kept.entry : EntryFits(e) BY <1>3 DEF KeptSound
    <3> QED BY <1>2, <1>5, <2>1, <3>1, <3>2 DEF EntryFits
  <2>4. ChainHeld'
    <3>1. file.object = 0
      <4>1. PICK s, n : n \in Nat /\ OpenSound(s, n) BY <1>3 DEF Sound
      <4> QED BY <1>2, <4>1 DEF OpenSound, GrowSound
    <3> QED BY <1>5, <3>1, NoLinksFromNothing DEF ChainHeld
  <2> QED BY <1>6, <2>2, <2>3, <2>4 DEF KeptSound
<1> QED BY <1>7, <1>8 DEF ClaimFirst, Return

LEMMA EnterFirstKept ==
  ASSUME Typed, Sound, KeptTyped, KeptSound, Typed', Sound', EnterFirst PROVE KeptSound'
<1>1. call.op = "write" /\ call.at = "enter" /\ Written /\ UNCHANGED fat
  BY DEF EnterFirst, Calls
<1>2. IsOpen BY <1>1, IdleFields, CallsAreOfOpenFiles
<1>3. FileTyped(file) /\ DOMAIN call = DOMAIN Idle BY DEF Typed, CallTyped
<1>4. file'.mode = file.mode BY <1>3 DEF EnterFirst, FileTyped, Fields
<1>5. IsOpen' BY <1>2, <1>4 DEF IsOpen
<1>6. CASE UNCHANGED file /\ call' = Idle
  <2>1. call'.at # "grow" BY <1>6, IdleFields
  <2> QED BY <1>1, <1>2, <1>5, <1>6, <2>1, ChainStays
<1>7. CASE /\ file' = [file EXCEPT !.object = call.new, !.length = 1, !.cur = 0, !.end = call.new]
           /\ Step("length")
  <2>1. call'.op = "write" /\ call'.at = "length" BY <1>1, <1>3, <1>7, IdleFields DEF Step
  <2>2. Recent' BY <1>1, RecentStays DEF KeptSound
  <2>3. PICK s, n : n \in Nat /\ OpenSound(s, n) BY <1>2 DEF Sound
  <2>4. file.object = 0 /\ fat[call.new] = EOC BY <1>1, <2>3 DEF OpenSound, GrowSound
  <2>5. \A e \in kept'.entry : EntryFits(e)'
    <3>1. \A e \in kept.entry : e.size = 0 BY <1>1, <1>2, <2>4 DEF KeptSound, EntryFits
    <3>2. EntryFits(entry)' BY <1>5, CurrentFitsNext
    <3>3. \A e : e = entry' => EntryFits(e)' BY <3>2 DEF EntryFits
    <3>4. kept'.entry = kept.entry \cup {entry'} BY <1>1, WrittenHas
    <3> QED BY <3>1, <3>3, <3>4 DEF EntryFits
  <2>6. ChainHeld'
    <3> SUFFICES ASSUME NEW t, NEW m, Links(fat, t, m), t[0] = file'.object
                 PROVE  Held(t, m)'
      BY <1>1, <2>1 DEF ChainHeld, Known
    <3>1. file'.object = call.new BY <1>3, <1>7 DEF FileTyped, Fields
    <3>2. m = 1
      <4> SUFFICES ASSUME m # 1 PROVE FALSE OBVIOUS
      <4>1. m \in Nat \ {0} /\ t \in [0 .. m - 1 -> Clusters] /\ 0 \in 0 .. m - 2 /\ 1 \in 0 .. m - 1
        BY DEF Links
      <4>2. fat[t[0]] = t[0 + 1] BY <4>1 DEF Links
      <4>3. t[1] \in Clusters BY <4>1
      <4> QED BY <2>4, <3>1, <4>2, <4>3, ClustersAreNumbers DEF IsEnd
    <3> QED BY <3>2 DEF Held
  <2> QED BY <1>5, <2>2, <2>5, <2>6 DEF KeptSound
<1> QED BY <1>6, <1>7 DEF EnterFirst, Return

LEMMA CountChainKept ==
  ASSUME Typed, Sound, KeptTyped, KeptSound, Typed', Sound', astray' = {}, CountChain
  PROVE  KeptSound'
<1>1. /\ call.op = "write" /\ call.at = "length" /\ UNCHANGED <<fat, entry, kept>>
      /\ file' = IF file.length # 0 THEN file
                 ELSE [file EXCEPT !.length = ChainLength(file.object), !.end = EOC]
  BY DEF CountChain, Calls, FatFault
<1>2. IsOpen BY <1>1, IdleFields, CallsAreOfOpenFiles
<1>3. FileTyped(file) /\ DOMAIN call = DOMAIN Idle BY DEF Typed, CallTyped
<1>4. file'.mode = file.mode /\ file'.object = file.object
  BY <1>1, <1>3 DEF FileTyped, Fields
<1>5. IsOpen' BY <1>2, <1>4 DEF IsOpen
<1>6. CASE call'.at # "grow" BY <1>1, <1>2, <1>4, <1>5, <1>6, ChainStays
<1>7. CASE call'.at = "grow"
  <2>1. call'.op = "write" BY <1>1, <1>3, IdleFields DEF CountChain
  <2>2. Recent' BY <1>1 DEF KeptSound, Recent
  <2>3. \A e \in kept'.entry : EntryFits(e)'
    <3>1. \A e \in kept.entry : EntryFits(e) BY <1>2 DEF KeptSound
    <3> QED BY <1>1, <1>4, <2>1, <3>1 DEF EntryFits
  <2>4. ChainHeld'
    <3> PICK L : L = file'.length OBVIOUS
    <3> SUFFICES ASSUME NEW t, NEW m, Links(fat, t, m), t[0] = file.object
                 PROVE  Held(t, L)'
      BY <1>1, <1>4, <1>7 DEF ChainHeld, Known
    <3>1. Held(t, m) BY <1>1, <1>2 DEF KeptSound, ChainHeld, Known
    <3>2. L = m
      <4>1. PICK s, n : n \in Nat /\ OpenSound(s, n) BY <1>2 DEF Sound
      <4>2. /\ file.length \in {0, n} /\ file.object # 0
        BY <1>1, <4>1 DEF OpenSound, CursorSound, GrowSound
      <4>3. Links(fat, s, n) /\ s[0] = file.object BY <1>1, <4>1, <4>2 DEF OpenSound, ChainSound
      <4>4. ChainLength(file.object) = n BY <4>3, LengthOfLinks
      <4>5. ChainLength(file.object) = m BY LengthOfLinks
      <4>6. [file EXCEPT !.length = ChainLength(file.object), !.end = EOC].length
              = ChainLength(file.object)
        BY <1>3 DEF FileTyped, Fields
      <4> QED BY <1>1, <4>2, <4>4, <4>5, <4>6
    <3> QED BY <1>1, <3>1, <3>2 DEF Held
  <2> QED BY <1>5, <2>2, <2>3, <2>4 DEF KeptSound
<1> QED BY <1>6, <1>7

\* A further cluster is linked to the last of the chain.
LEMMA GrowsAtEnd ==
  ASSUME Typed, NEW s, NEW n \in Nat, OpenSound(s, n), Grow
  PROVE  /\ n \in Nat \ {0} /\ Links(fat, s, n) /\ s[0] = file.object
         /\ file.length \in 1 .. n
         /\ \E c \in Clusters :
              /\ fat[c] = Free
              /\ fat' = [d \in Clusters |->
                           IF d = c THEN EOC ELSE IF d = s[n - 1] THEN c ELSE fat[d]]
<1>1. call.op = "write" /\ call.at = "grow" BY DEF Grow, Calls
<1>2. n \in Nat \ {0} /\ Links(fat, s, n) /\ s[0] = file.object BY <1>1, ExtendFacts
<1> DEFINE L == file.length
<1>3. /\ CursorAt(file, s, L) /\ L \in Nat \ {0} /\ call.done \in 0 .. call.want
      /\ call.want \in Nat /\ n = L + call.done /\ file.object # 0
      /\ call.done # 0 => call.new = s[n - 1]
  BY <1>1 DEF OpenSound, CursorSound, GrowSound, Known
<1> DEFINE last == IF call.done = 0 THEN FindEndOfChain(file.addr) ELSE call.new
<1>4. last = s[n - 1]
  <2>1. CASE call.done = 0
    <3> DEFINE k == Least(file.cur, L - 1)
    <3>1. k \in 0 .. n - 1 BY <1>3, <2>1 DEF Least, CursorAt
    <3>2. file.addr = s[k] BY <1>3 DEF CursorAt
    <3> HIDE DEF k
    <3>3. FindEndOfChain(s[k]) = s[n - 1] BY <1>2, <3>1, EndOfChain
    <3> QED BY <2>1, <3>2, <3>3
  <2>2. CASE call.done # 0 BY <1>3, <2>2
  <2> QED BY <2>1, <2>2
<1>5. L \in 1 .. n BY <1>2, <1>3
<1> QED BY <1>2, <1>4, <1>5 DEF Grow

LEMMA GrowKept ==
  ASSUME Typed, Sound, KeptTyped, KeptSound, Typed', Sound', Grow PROVE KeptSound'
<1>1. call.op = "write" /\ call.at = "grow" /\ UNCHANGED <<entry, file>> /\ Written
  BY DEF Grow, Calls
<1>2. IsOpen /\ IsOpen' BY <1>1, IdleFields, CallsAreOfOpenFiles DEF IsOpen
<1>3. DOMAIN call = DOMAIN Idle BY DEF Typed, CallTyped
<1>4. call'.op = "write" /\ call'.at = "grow" BY <1>1, <1>3, IdleFields DEF Grow
<1>5. PICK s, n : n \in Nat /\ OpenSound(s, n) BY <1>2 DEF Sound
<1> DEFINE L == file.length
<1>6. /\ n \in Nat \ {0} /\ Links(fat, s, n) /\ s[0] = file.object /\ L \in 1 .. n
      /\ \E c \in Clusters :
           /\ fat[c] = Free
           /\ fat' = [d \in Clusters |-> IF d = c THEN EOC ELSE IF d = s[n - 1] THEN c ELSE fat[d]]
  BY <1>5, GrowsAtEnd
<1>7. PICK c \in Clusters :
           /\ fat[c] = Free
           /\ fat' = [d \in Clusters |-> IF d = c THEN EOC ELSE IF d = s[n - 1] THEN c ELSE fat[d]]
  BY <1>6
<1>8. s \in [0 .. n - 1 -> Clusters] /\ fat[s[n - 1]] = EOC BY <1>6 DEF Links
<1>9. Recent'
  <2>1. \A d \in Clusters : fat[d] = Other => fat'[d] = Other
    BY <1>7, <1>8 DEF Other, Free, EOC
  <2> QED BY <1>1, <2>1, RecentStays DEF KeptSound
<1>10. \A e \in kept'.entry : EntryFits(e)'
  <2>1. kept'.entry = kept.entry BY <1>1, WrittenHas DEF KeptSound, Recent
  <2>2. \A e \in kept.entry : EntryFits(e) BY <1>2 DEF KeptSound
  <2> QED BY <1>1, <1>4, <2>1, <2>2 DEF EntryFits
<1>11. ChainHeld'
  <2> SUFFICES ASSUME NEW t, NEW m, Links(fat', t, m), t[0] = file.object
               PROVE  Held(t, L)'
    BY <1>1, <1>4 DEF ChainHeld, Known
  <2>1. \A i \in 0 .. n - 2 : fat'[s[i]] = fat[s[i]]
    <3> SUFFICES ASSUME NEW i \in 0 .. n - 2 PROVE fat'[s[i]] = fat[s[i]] OBVIOUS
    <3>1. i \in 0 .. n - 1 /\ n - 1 \in 0 .. n - 1 /\ i # n - 1 BY <1>6
    <3>2. s[i] # s[n - 1] BY <1>6, <3>1 DEF Links
    <3>3. fat[s[i]] # Free BY <1>6, <3>1, ChainIsInUse
    <3> QED BY <1>7, <1>8, <3>1, <3>2, <3>3
  <2>2. \A i \in 0 .. n - 1 : t[i] = s[i] BY <1>6, <2>1, SameWay
  <2>3. Held(s, L) BY <1>1, <1>2, <1>6 DEF KeptSound, ChainHeld, Known
  <2>4. \A i \in 0 .. n - 1 : s[i] \in Clusters /\ kept'.fat[s[i]] = kept.fat[s[i]] \cup {fat'[s[i]]}
    BY <1>1, <1>8, WrittenHas
  <2>5. \A i \in 0 .. L - 2 : kept'.fat[t[i]] = {t[i + 1]}
    <3> SUFFICES ASSUME NEW i \in 0 .. L - 2 PROVE kept'.fat[t[i]] = {t[i + 1]} OBVIOUS
    <3>1. i \in 0 .. n - 2 /\ i \in 0 .. n - 1 /\ i + 1 \in 0 .. n - 1 BY <1>6
    <3>2. kept.fat[s[i]] = {s[i + 1]} BY <2>3 DEF Held
    <3>3. fat'[s[i]] = s[i + 1] BY <1>6, <2>1, <3>1 DEF Links
    <3> QED BY <2>2, <2>4, <3>1, <3>2, <3>3
  <2>6. ASSUME L > 1 PROVE Free \notin kept'.fat[t[L - 1]]
    <3>1. L - 1 \in 0 .. n - 1 BY <1>6
    <3>2. Free \notin kept.fat[s[L - 1]] BY <2>3, <2>6 DEF Held
    <3>3. fat[s[L - 1]] # Free BY <1>6, <3>1, ChainIsInUse
    <3>4. fat'[s[L - 1]] # Free
      <4>1. s[L - 1] \in Clusters /\ c # Free /\ EOC # Free
        BY <1>8, <3>1, ClustersAreNumbers DEF IsEnd, EOC, Free
      <4> QED BY <1>7, <3>3, <4>1
    <3> QED BY <2>2, <2>4, <3>1, <3>2, <3>4
  <2> QED BY <1>1, <2>5, <2>6 DEF Held
<1> QED BY <1>2, <1>9, <1>10, <1>11 DEF KeptSound

\* Walks from the first cluster of a chain.
LEMMA WalksOnChain ==
  ASSUME NEW s, NEW n, Links(fat, s, n)
  PROVE  /\ n \in Nat \ {0} /\ s \in [0 .. n - 1 -> Clusters]
         /\ ChainLength(s[0]) = n
         /\ \A k \in 0 .. n - 1 : TraverseFAT(s[0], k) = s[k]
<1>1. n \in Nat \ {0} /\ s \in [0 .. n - 1 -> Clusters] BY DEF Links
<1>2. 0 \in 0 .. n - 1 /\ n - 0 = n BY <1>1
<1>3. ChainLength(s[0]) = n - 0 BY <1>2, LengthOnChain
<1>4. ASSUME NEW k \in 0 .. n - 1 PROVE TraverseFAT(s[0], k) = s[k]
  <2>1. k \in Nat /\ Least(0 + k, n - 1) = k BY <1>1 DEF Least
  <2>2. TraverseFAT(s[0], k) = s[Least(0 + k, n - 1)] BY <1>2, <2>1, TraverseOnChain
  <2> QED BY <2>1, <2>2
<1> QED BY <1>1, <1>2, <1>3, <1>4

\* FF_UnlinkClusterChain leaves the clusters of other files alone.
LEMMA UnlinkedSparesOthers ==
  ASSUME NEW s, NEW n, Links(fat, s, n), NEW k \in 0 .. n - 1, NEW keep,
         NEW c \in Clusters, fat[c] = Other
  PROVE  Unlinked(s[k], keep)[c] = Other
<1> DEFINE rest == {TraverseFAT(s[k], i) : i \in 0 .. ChainLength(s[k]) - 1}
<1>1. n \in Nat \ {0} BY DEF Links
<1>2. \A d \in rest : \E j \in 0 .. n - 1 : d = s[j]
  <2> SUFFICES ASSUME NEW i \in 0 .. ChainLength(s[k]) - 1
               PROVE  \E j \in 0 .. n - 1 : TraverseFAT(s[k], i) = s[j]
    OBVIOUS
  <2>0. ChainLength(s[k]) = n - k BY LengthOnChain
  <2>1. i \in Nat /\ i <= n - k - 1 BY <1>1, <2>0
  <2>2. Least(k + i, n - 1) \in 0 .. n - 1 BY <1>1, <2>1 DEF Least
  <2> QED BY <2>1, <2>2, TraverseOnChain
<1>3. \A j \in 0 .. n - 1 : c # s[j] BY ChainIsInUse
<1>4. Unlinked(s[k], keep) = [d \in Clusters |-> IF d = s[k] /\ keep THEN EOC
                                                ELSE IF d \in rest THEN Free ELSE fat[d]]
  BY DEF Unlinked
<1> HIDE DEF rest
<1> QED BY <1>2, <1>3, <1>4

\* FF_Truncate cuts nothing, or everything of a file that is being closed empty, or what is
\* behind the j-th cluster.
LEMMA TruncateFacts ==
  ASSUME Typed, Sound, astray' = {}, Truncate, NEW s, NEW n \in Nat, OpenSound(s, n)
  PROVE  /\ UNCHANGED <<entry, file>> /\ Written /\ call.at = "truncate"
         /\ call.op \in {"eof", "close"} /\ IsOpen
         /\ n \in Nat \ {0} /\ Links(fat, s, n) /\ s[0] = file.object
         /\ \/ AfterTruncate /\ UNCHANGED fat
            \/ /\ fat' = Unlinked(s[0], FALSE) /\ Step("detach")
               /\ call.op = "close" /\ file.size = 0
            \/ \E j \in 1 .. n - 1 : AfterTruncate /\ fat' = Unlinked(s[j - 1], TRUE)
<1>1. call.at = "truncate" /\ UNCHANGED <<entry, file>> /\ Written BY DEF Truncate
<1>2. call.op \in {"eof", "close"} BY <1>1, IdleFields DEF Typed, CallTyped, Pieces
<1>3. IsOpen BY <1>1, IdleFields, CallsAreOfOpenFiles
<1>4. file.object # 0 /\ (call.op = "close" => ClusterPosition(file.size) = 0)
  BY <1>1, <1>2 DEF OpenSound, CloseSound
<1>5. /\ file.size \in Nat /\ n \in Nat \ {0} /\ Links(fat, s, n) /\ s[0] = file.object
  BY <1>1, <1>4, OpenFacts
<1>6. ChainLength(file.object) = n BY <1>5, LengthOfLinks
<1> DEFINE k == ClustersNeeded
           last == TraverseFAT(file.object, k - 1)
<1>7. /\ k \in Nat /\ (call.op = "close" => Reach(k) = file.size)
      /\ call.op # "close" => k # 0
  BY <1>4, <1>5, NeededClusters
<1>8. \/ AfterTruncate /\ UNCHANGED fat
      \/ /\ n > k
         /\ fat' = IF k = 0 THEN Unlinked(file.object, FALSE) ELSE Unlinked(last, TRUE)
         /\ IF k = 0 THEN Step("detach") ELSE AfterTruncate
  BY <1>5, <1>6, <1>7 DEF Truncate, FatFault
<1> HIDE DEF k
<1>9. CASE k = 0 /\ fat' = Unlinked(file.object, FALSE) /\ Step("detach")
  <2>1. call.op = "close" /\ file.size = 0 BY <1>2, <1>7, <1>9, ReachNone
  <2> QED BY <1>1, <1>2, <1>3, <1>5, <1>9, <2>1
<1>10. CASE n > k /\ k # 0 /\ fat' = Unlinked(last, TRUE) /\ AfterTruncate
  <2>1. k \in 1 .. n - 1 /\ k - 1 \in 0 .. n - 1 BY <1>5, <1>7, <1>10
  <2>2. last = s[k - 1] BY <1>5, <2>1, WalksOnChain
  <2>3. \E j \in 1 .. n - 1 : AfterTruncate /\ fat' = Unlinked(s[j - 1], TRUE)
    BY <1>10, <2>1, <2>2
  <2> QED BY <1>1, <1>2, <1>3, <1>5, <2>3
<1> QED BY <1>1, <1>2, <1>3, <1>5, <1>8, <1>9, <1>10

LEMMA TruncateKept ==
  ASSUME Typed, Sound, KeptTyped, KeptSound, Typed', Sound', astray' = {}, Truncate
  PROVE  KeptSound'
<1>1. call.at = "truncate" BY DEF Truncate
<1>2. IsOpen BY <1>1, IdleFields, CallsAreOfOpenFiles
<1>3. PICK s, n : n \in Nat /\ OpenSound(s, n) BY <1>2 DEF Sound
<1>4. /\ UNCHANGED <<entry, file>> /\ Written /\ call.op \in {"eof", "close"}
      /\ n \in Nat \ {0} /\ Links(fat, s, n) /\ s[0] = file.object
      /\ \/ AfterTruncate /\ UNCHANGED fat
         \/ /\ fat' = Unlinked(s[0], FALSE) /\ Step("detach")
            /\ call.op = "close" /\ file.size = 0
         \/ \E j \in 1 .. n - 1 : AfterTruncate /\ fat' = Unlinked(s[j - 1], TRUE)
  BY <1>3, TruncateFacts
<1>5. IsOpen' BY <1>2, <1>4 DEF IsOpen
<1>6. DOMAIN call = DOMAIN Idle BY DEF Typed, CallTyped
<1>7. AfterTruncate =>
        call'.at \notin {"grow", "detach"} /\ (call.op = "close" => call'.op = "close")
  BY <1>6, IdleFields DEF AfterTruncate, Step, Return
<1>8. CASE AfterTruncate /\ UNCHANGED fat BY <1>1, <1>2, <1>4, <1>5, <1>7, <1>8, ChainStays
<1>9. kept'.entry = kept.entry BY <1>4, WrittenHas DEF KeptSound, Recent
<1>10. (call.op = "close" => call'.op = "close") => \A e \in kept'.entry : EntryFits(e)'
  BY <1>2, <1>4, <1>9 DEF KeptSound, EntryFits
<1>11. ASSUME NEW k \in 0 .. n - 1, NEW keep, fat' = Unlinked(s[k], keep) PROVE Recent'
  <2>1. \A c \in Clusters : fat[c] = Other => fat'[c] = Other
    BY <1>4, <1>11, UnlinkedSparesOthers
  <2> QED BY <1>4, <2>1, RecentStays DEF KeptSound
<1>12. CASE fat' = Unlinked(s[0], FALSE) /\ Step("detach") /\ call.op = "close"
  <2>1. call'.at = "detach" /\ call'.op = "close" BY <1>6, <1>12, IdleFields DEF Step
  <2>2. 0 \in 0 .. n - 1 BY <1>4
  <2>3. Recent' BY <1>11, <1>12, <2>2
  <2>4. ChainHeld' BY <2>1 DEF ChainHeld
  <2> QED BY <1>5, <1>10, <2>1, <2>3, <2>4 DEF KeptSound
<1>13. ASSUME NEW j \in 1 .. n - 1, AfterTruncate, fat' = Unlinked(s[j - 1], TRUE)
       PROVE  KeptSound'
  <2> DEFINE r == [i \in 0 .. j - 1 |-> s[i]]
  <2>1. j \in Nat \ {0} /\ j - 1 \in 0 .. n - 1 /\ (j - 1) + 1 = j BY <1>4
  <2>2. Links(Unlinked(s[j - 1], TRUE), [i \in 0 .. j - 1 |-> s[i]], (j - 1) + 1)
    BY <1>4, <2>1, CutChain
  <2>3. Links(fat', r, j) BY <1>13, <2>1, <2>2
  <2>4. \A i \in 0 .. j - 1 : r[i] = s[i] OBVIOUS
  <2> HIDE DEF r
  <2>5. Recent' BY <1>11, <1>13, <2>1
  <2>6. Held(s, n) BY <1>1, <1>2, <1>4 DEF KeptSound, ChainHeld, Known
  <2>7. s \in [0 .. n - 1 -> Clusters] BY <1>4 DEF Links
  <2>8. \A i \in 0 .. n - 1 : s[i] \in Clusters /\ kept'.fat[s[i]] = kept.fat[s[i]] \cup {fat'[s[i]]}
    BY <1>4, <2>7, WrittenHas
  <2>9. ASSUME NEW t, NEW m, Links(fat', t, m), t[0] = file.object
        PROVE  m = j /\ \A i \in 0 .. j - 1 : t[i] = s[i]
    <3>1. m \in Nat \ {0} /\ 0 \in 0 .. j - 1 BY <2>1, <2>9 DEF Links
    <3>2. r[0] = t[0] BY <1>4, <2>4, <2>9, <3>1
    <3>3. j <= m /\ \A i \in 0 .. j - 1 : t[i] = r[i] BY <2>3, <2>9, <3>2, SameWay
    <3>4. m <= j BY <2>3, <2>9, <3>2, SameWay
    <3> QED BY <2>1, <2>4, <3>1, <3>3, <3>4
  <2>10. \A i \in 0 .. j - 2 : kept'.fat[s[i]] = {s[i + 1]}
    <3> SUFFICES ASSUME NEW i \in 0 .. j - 2 PROVE kept'.fat[s[i]] = {s[i + 1]} OBVIOUS
    <3>1. /\ i \in 0 .. n - 2 /\ i \in 0 .. n - 1 /\ i \in 0 .. j - 1
          /\ i + 1 \in 0 .. j - 1
      BY <1>4
    <3>2. kept.fat[s[i]] = {s[i + 1]} BY <2>6, <3>1 DEF Held
    <3>3. fat'[r[i]] = r[i + 1] BY <2>3 DEF Links
    <3> QED BY <2>4, <2>8, <3>1, <3>2, <3>3
  <2>11. ASSUME j > 1 PROVE Free \notin kept'.fat[s[j - 1]]
    <3>1. j - 1 \in 0 .. n - 2 /\ j - 1 \in 0 .. n - 1 /\ (j - 1) + 1 \in 0 .. n - 1
          /\ j - 1 \in 0 .. j - 1
      BY <1>4
    <3>2. kept.fat[s[j - 1]] = {s[(j - 1) + 1]} BY <2>6, <3>1 DEF Held
    <3>3. fat'[r[j - 1]] # Free BY <2>3, <3>1, ChainIsInUse
    <3>4. s[(j - 1) + 1] # Free BY <2>7, <3>1, ClustersAreNumbers DEF IsEnd
    <3> QED BY <2>4, <2>8, <3>1, <3>2, <3>3, <3>4
  <2>12. ChainHeld'
    <3> SUFFICES ASSUME NEW t, NEW m, Links(fat', t, m), t[0] = file.object
                 PROVE  Held(t, m)'
      BY <1>4, <1>7, <1>13 DEF ChainHeld, Known
    <3>1. m = j /\ \A i \in 0 .. j - 1 : t[i] = s[i] BY <2>9
    <3>2. \A i \in 0 .. j - 2 : i \in 0 .. j - 1 /\ i + 1 \in 0 .. j - 1 BY <2>1
    <3>3. \A i \in 0 .. m - 2 : kept'.fat[t[i]] = {t[i + 1]} BY <2>10, <3>1, <3>2
    <3>4. m > 1 => Free \notin kept'.fat[t[m - 1]] BY <2>1, <2>11, <3>1
    <3> QED BY <3>3, <3>4 DEF Held
  <2> QED BY <1>5, <1>7, <1>10, <1>13, <2>5, <2>12 DEF KeptSound
<1> QED BY <1>4, <1>8, <1>12, <1>13

\* An empty file gives up its cluster.
LEMMA DetachKept ==
  ASSUME Typed, Sound, KeptTyped, KeptSound, Typed', Sound', astray' = {}, Detach
  PROVE  KeptSound'
<1>1. /\ call.at = "detach" /\ UNCHANGED fat /\ Written
      /\ file' = [file EXCEPT !.object = 0, !.length = 0, !.cur = 0, !.end = 0]
      /\ AfterTruncate
  BY DEF Detach
<1>2. call.op = "close" BY <1>1, IdleFields DEF Typed, CallTyped, Pieces
<1>3. IsOpen BY <1>1, IdleFields, CallsAreOfOpenFiles
<1>4. PICK s, n : n \in Nat /\ OpenSound(s, n) BY <1>3 DEF Sound
<1>5. n = 0 BY <1>1, <1>4 DEF OpenSound, ChainSound
<1>6. file.size = 0 /\ FileTyped(file) /\ DOMAIN call = DOMAIN Idle BY <1>4, <1>5, OpenFacts
<1>7. file'.mode = file.mode /\ file'.object = 0 /\ file'.size = 0
  BY <1>1, <1>6 DEF FileTyped, Fields
<1>8. call'.op = "close" BY <1>1, <1>2, <1>6, IdleFields DEF AfterTruncate, Step
<1>9. Recent' BY <1>1, RecentStays DEF KeptSound
<1>10. \A e \in kept'.entry : EntryFits(e)' BY <1>7, <1>8 DEF EntryFits
<1>11. ChainHeld' BY <1>7, NoLinksFromNothing DEF ChainHeld
<1>12. IsOpen' BY <1>3, <1>7 DEF IsOpen
<1> QED BY <1>9, <1>10, <1>11, <1>12 DEF KeptSound

\* Every step keeps what the disk may have sound, as long as the cursor is not led astray and
\* nothing that is flushed stays behind.
LEMMA NextKept ==
  ASSUME Typed, Sound, KeptTyped, KeptSound, Typed', Sound', astray' = {}, [Next]_vars
  PROVE  KeptSound'
<1>0. FileTyped(file) /\ DOMAIN call = DOMAIN Idle BY DEF Typed, CallTyped
<1>1. ASSUME NEW why, FlushCache(why), UNCHANGED <<fat, entry>>, IsOpen' => call'.at # "grow"
      PROVE  KeptSound'
  <2>1. kept' = Flushed' BY <1>1 DEF FlushCache, Flushed
  <2> QED BY <1>1, <2>1, FlushedNext DEF AllFlushed
<1>2. call = Idle => call.op = "none" /\ call.at = "idle" BY IdleFields
<1>3. CASE \E m \in Modes : Open(m)
  <2>1. /\ call = Idle /\ ~ IsOpen /\ UNCHANGED <<fat, entry, kept, call>> BY <1>3 DEF Open
  <2>2. kept' = Flushed' BY <2>1 DEF KeptSound, Flushed
  <2> QED BY <1>2, <2>1, <2>2, FlushedNext DEF AllFlushed
<1>4. CASE \E n \in Lengths : Read(n)
  <2>1. /\ call = Idle /\ IsOpen /\ UNCHANGED <<fat, entry, kept, file>> BY <1>4 DEF Read
  <2>2. IsOpen' BY <2>1 DEF IsOpen
  <2>3. call'.at = "head" BY <1>4, IdleFields DEF Read
  <2> QED BY <1>2, <2>1, <2>2, <2>3, ChainStays
<1>5. CASE \E n \in Lengths : Write(n)
  <2>1. PICK n \in Lengths : Write(n) BY <1>5
  <2> DEFINE f == [file EXCEPT !.ptr = file.size]
             g == SetCluster(f)
             z == [f EXCEPT !.addr = 0]
  <2>2. /\ call = Idle /\ IsOpen /\ UNCHANGED <<fat, entry, kept>>
        /\ file' = file \/ file' = g \/ file' = z
    BY <2>1 DEF Write
  <2>3. call'.at # "grow" BY <1>2, <2>1, IdleFields DEF Write
  <2>4. FileTyped(f) /\ f.mode = file.mode /\ f.object = file.object
    <3>1. file.size \in 0 .. file.size BY NumbersOf
    <3> QED BY <1>0, <3>1 DEF FileTyped, Fields
  <2>5. g.mode = file.mode /\ g.object = file.object
    <3> HIDE DEF f
    <3> QED BY <2>4, SetClusterKeeps
  <2>6. z.mode = file.mode /\ z.object = file.object BY <1>0 DEF FileTyped, Fields
  <2> HIDE DEF g, z
  <2>7. file'.mode = file.mode /\ file'.object = file.object BY <2>2, <2>5, <2>6
  <2>8. IsOpen' BY <2>2, <2>7 DEF IsOpen
  <2> QED BY <1>2, <2>2, <2>3, <2>7, <2>8, ChainStays
<1>6. CASE \E p \in 0 .. MaxSize : Seek(p)
  <2>1. call'.at # "grow" /\ UNCHANGED <<fat, entry>> BY <1>2, <1>6 DEF Seek
  <2> QED BY <1>1, <1>6, <2>1 DEF Seek
<1>7. CASE SetEof
  <2>1. /\ call = Idle /\ IsOpen /\ UNCHANGED <<fat, entry, kept>>
        /\ file' = [file EXCEPT !.size = file.ptr]
    BY <1>7 DEF SetEof
  <2>2. file'.mode = file.mode /\ file'.object = file.object BY <1>0, <2>1 DEF FileTyped, Fields
  <2>3. call'.at # "grow" BY <1>7, IdleFields DEF SetEof
  <2>4. IsOpen' BY <2>1, <2>2 DEF IsOpen
  <2> QED BY <1>2, <2>1, <2>2, <2>3, <2>4, ChainStays
<1>8. CASE BeginClose
  <2>1. /\ call = Idle /\ IsOpen /\ UNCHANGED <<fat, entry, kept, file>> BY <1>8 DEF BeginClose
  <2>2. IsOpen' BY <2>1 DEF IsOpen
  <2>3. call'.at # "grow" BY <1>8, IdleFields DEF BeginClose
  <2> QED BY <1>2, <2>1, <2>2, <2>3, ChainStays
<1>9. CASE Truncate \/ Detach BY <1>9, TruncateKept, DetachKept
<1>10. CASE PutSize
  <2>1. /\ call.op = "close" /\ call.at = "size" /\ UNCHANGED <<fat, file>> /\ Written
        /\ Step("leave")
    BY <1>10 DEF PutSize, Calls
  <2>2. call'.op = "close" /\ call'.at = "leave" BY <1>0, <2>1, IdleFields DEF Step
  <2>3. IsOpen BY <2>1, IdleFields, CallsAreOfOpenFiles
  <2>4. IsOpen' BY <2>1, <2>3 DEF IsOpen
  <2> QED BY <2>1, <2>2, <2>3, <2>4, ChainStays
<1>11. CASE Leave
  <2>1. call.op = "close" /\ UNCHANGED <<fat, entry>> /\ file' = Closed BY <1>11 DEF Leave, Calls
  <2>2. IsOpen BY <2>1, IdleFields, CallsAreOfOpenFiles
  <2>3. call.at # "fail" BY <2>2 DEF Sound, OpenSound, CloseSound
  <2>4. ~ IsOpen' BY <2>1 DEF IsOpen, Closed
  <2> QED BY <1>1, <1>11, <2>1, <2>3, <2>4 DEF Leave, Calls
<1>12. CASE Crash
  <2>1. kept' = Flushed' /\ file' = Closed BY <1>12 DEF Crash
  <2>2. ~ IsOpen' BY <2>1 DEF IsOpen, Closed
  <2> QED BY <2>1, <2>2, FlushedNext DEF AllFlushed
<1>13. CASE ClaimFirst \/ EnterFirst \/ CountChain \/ Grow
  BY <1>13, ClaimFirstKept, EnterFirstKept, CountChainKept, GrowKept
<1>14. CASE EndGrow
  <2>1. call'.at # "grow" /\ UNCHANGED <<fat, entry>>
    BY <1>0, <1>14, IdleFields DEF EndGrow, Return
  <2> QED BY <1>1, <1>14, <2>1 DEF EndGrow, ExtendFlushes
<1>15. CASE StopGrow BY <1>15 DEF StopGrow, ExtendFlushes, FlushCache
<1>16. CASE Head \/ RestOfCluster \/ BeginRuns \/ Run \/ Sectors \/ Tail
  <2>1. /\ UNCHANGED <<fat, entry, kept>> /\ call.op # "close" /\ call.at \in Pieces
        /\ file'.mode = file.mode /\ file'.object = file.object /\ call'.at # "grow"
    BY <1>16, TransferKeepsFile
  <2>2. IsOpen BY <2>1, IdleFields, CallsAreOfOpenFiles DEF Pieces
  <2>3. IsOpen' BY <2>1, <2>2 DEF IsOpen
  <2> QED BY <2>1, <2>2, <2>3, ChainStays DEF Pieces
<1>17. CASE UNCHANGED vars
  BY <1>17 DEF vars, KeptSound, Recent, EntryFits, ChainHeld, Held, Known, Flushed, IsOpen
<1> QED BY <1>3, <1>4, <1>5, <1>6, <1>7, <1>8, <1>9, <1>10, <1>11, <1>12, <1>13, <1>14, <1>15,
           <1>16, <1>17 DEF Next

-----------------------------------------------------------------------------
IInv == Typed /\ KeptTyped /\ (astray = {} => Sound /\ KeptSound)

\* What is sound holds at the beginning.
LEMMA InitSound == Init => Sound
<1> SUFFICES ASSUME Init PROVE Sound OBVIOUS
<1>1. file = Closed /\ call = Idle /\ entry = [cluster |-> 0, size |-> 0] /\ home = <<>> /\ ~ misread
  BY DEF Init
<1>2. ~ IsOpen BY <1>1 DEF IsOpen, Closed
<1>3. DOMAIN <<>> = {} OBVIOUS
<1>4. entry.size <= Reach(0) BY <1>1, ReachNone
<1>5. ClosedSound(0, 0) BY <1>1, <1>3, <1>4 DEF ClosedSound
<1> QED BY <1>1, <1>2, <1>5 DEF Sound

\* What has happened to a handle is not forgotten.
LEMMA AstrayGrows == ASSUME [Next]_vars, astray' = {} PROVE astray = {}
<1>1. CASE \E m \in Modes : Open(m) BY <1>1 DEF Open
<1>2. CASE \E k \in Lengths : Read(k) \/ Write(k) BY <1>2 DEF Read, Write, FatFault, NoFault
<1>3. CASE \E p \in 0 .. MaxSize : Seek(p) BY <1>3 DEF Seek, FlushCache
<1>4. CASE SetEof \/ BeginClose \/ PutSize \/ Leave \/ Crash \/ Detach
  BY <1>4 DEF SetEof, BeginClose, PutSize, Leave, Crash, Detach, NoFault, FlushCache
<1>5. CASE Truncate BY <1>5 DEF Truncate, FatFault
<1>6. CASE ClaimFirst \/ EnterFirst \/ CountChain \/ Grow \/ EndGrow \/ StopGrow
  BY <1>6 DEF ClaimFirst, EnterFirst, CountChain, Grow, EndGrow, StopGrow, FatFault, NoFault,
              ExtendFlushes, FlushCache
<1>7. CASE Head BY <1>7 DEF Head, Piece, ReadAstray, CursorIsLost, FatFault, NoFault
<1>8. CASE RestOfCluster BY <1>8 DEF RestOfCluster, Piece, Skip, CursorIsLost, FatFault, NoFault
<1>9. CASE BeginRuns BY <1>9 DEF BeginRuns, Skip, CursorIsLost, FatFault, NoFault
<1>10. CASE Run BY <1>10 DEF Run, FatFault, NoFault
<1>11. CASE Sectors \/ Tail
  BY <1>11 DEF Sectors, Skip, Tail, CursorIsLost, FatFault, NoFault
<1>12. CASE UNCHANGED vars BY <1>12 DEF vars
<1> QED BY <1>1, <1>2, <1>3, <1>4, <1>5, <1>6, <1>7, <1>8, <1>9, <1>10, <1>11, <1>12 DEF Next

\* Every step keeps it as long as the cursor is not led astray.
LEMMA NextSound == ASSUME Typed, Sound, [Next]_vars, astray' = {} PROVE Sound'
<1>1. CASE \E m \in Modes : Open(m) BY <1>1, OpenIsSound
<1>2. CASE \E k \in Lengths : Read(k) \/ Write(k) BY <1>2, ReadSound, WriteSound
<1>3. CASE \E p \in 0 .. MaxSize : Seek(p) BY <1>3, SeekSound
<1>4. CASE SetEof \/ BeginClose \/ Truncate \/ Detach \/ PutSize \/ Leave \/ Crash
  BY <1>4, SetEofSound, BeginCloseSound, TruncateSound, DetachSound, PutSizeSound, LeaveSound,
     CrashSound
<1>5. CASE ClaimFirst \/ EnterFirst \/ CountChain \/ Grow \/ EndGrow
  BY <1>5, ClaimFirstSound, EnterFirstSound, CountChainSound, GrowIsSound, EndGrowSound
<1>6. CASE StopGrow BY <1>6 DEF StopGrow, ExtendFlushes, FlushCache
<1>7. CASE Head \/ RestOfCluster \/ BeginRuns \/ Run \/ Sectors \/ Tail
  BY <1>7, HeadSound, RestOfClusterSound, BeginRunsSound, RunSound, SectorsSound, TailSound
<1>8. CASE UNCHANGED vars
  <2>1. UNCHANGED <<fat, entry, file, call, home, misread>> BY <1>8 DEF vars
  <2>2. UNCHANGED <<IsOpen, misread>> BY <2>1 DEF IsOpen
  <2>3. \A s, n : ClosedSound(s, n)' = ClosedSound(s, n) BY <2>1 DEF ClosedSound, InPlace
  <2>4. ASSUME NEW s, NEW n, OpenSound(s, n) PROVE OpenSound(s, n)'
    <3>1. ChainSound(s, n)' BY <2>1, <2>4 DEF OpenSound, ChainSound
    <3>2. CursorSound(s, n)' BY <2>1, <2>4 DEF OpenSound, CursorSound, Known
    <3>3. GrowSound(s, n)' /\ MoveSound(n)' BY <2>1, <2>4 DEF OpenSound, GrowSound, MoveSound
    <3>4. CloseSound(n)' BY <2>1, <2>4 DEF OpenSound, CloseSound
    <3>5. HomeSound(s, n)' BY <2>1, <2>4 DEF OpenSound, HomeSound, InPlace
    <3> QED BY <3>1, <3>2, <3>3, <3>4, <3>5 DEF OpenSound
  <2> QED BY <2>2, <2>3, <2>4 DEF Sound
<1> QED BY <1>1, <1>2, <1>3, <1>4, <1>5, <1>6, <1>7, <1>8 DEF Next

\* Before the file is opened nothing waits in the cache.
LEMMA InitKept == Init => KeptSound
<1> SUFFICES ASSUME Init PROVE KeptSound OBVIOUS
<1>1. kept = Flushed /\ call = Idle BY DEF Init
<1>2. Typed /\ Sound BY InitTyped, InitSound
<1>3. call.at # "grow" BY <1>1, IdleFields
<1> QED BY <1>1, <1>2, <1>3, FlushedIsSound DEF AllFlushed

\* The invariant is inductive.
LEMMA Inductive == IInv /\ [Next]_vars => IInv'
<1> SUFFICES ASSUME IInv, [Next]_vars PROVE IInv' OBVIOUS
<1>1. Typed' /\ KeptTyped' BY NextTyped, NextKeptTyped DEF IInv
<1>2. ASSUME astray' = {} PROVE Sound' /\ KeptSound'
  <2>1. astray = {} BY <1>2, AstrayGrows
  <2>2. Typed /\ KeptTyped /\ Sound /\ KeptSound BY <2>1 DEF IInv
  <2>3. Sound' BY <1>2, <2>2, NextSound
  <2> QED BY <1>1, <1>2, <2>2, <2>3, NextKept
<1> QED BY <1>1, <1>2 DEF IInv

\* It holds in every behaviour.
LEMMA Invariance == Spec => []IInv
<1>1. Init => IInv BY InitTyped, InitKeptTyped, InitSound, InitKept DEF IInv
<1> QED BY <1>1, Inductive, PTL DEF Spec

-----------------------------------------------------------------------------
(* What the invariant says of the properties. *)

\* No cluster is the beginning of an empty chain.
LEMMA NoChain == ChainLength(0) = 0
BY DEF ChainLength, IsEnd, Free

\* An open handle between the steps that change its chain.
LEMMA SettledFacts ==
  ASSUME Typed, IsOpen, Settled, NEW s, NEW n \in Nat, OpenSound(s, n)
  PROVE  /\ CursorAt(file, s, n) /\ file.length \in {0, n}
         /\ file.object = 0 => n = 0
         /\ file.object # 0 => Links(fat, s, n) /\ s[0] = file.object
         /\ \A i \in DOMAIN home : i \in Nat /\ InPlace(i, s, n)
<1>1. call.at \notin {"grow", "detach"} BY DEF Settled
<1>2. call.op # "close" BY IdleFields DEF Settled, Typed, CallTyped, Pieces
<1>3. CursorAt(file, s, n) /\ file.length \in {0, n}
  BY <1>1, <1>2 DEF OpenSound, CursorSound, Known
<1>4. /\ file.object = 0 => n = 0
      /\ file.object # 0 => Links(fat, s, n) /\ s[0] = file.object
  BY <1>1 DEF OpenSound, ChainSound
<1>5. \A i \in DOMAIN home : InPlace(i, s, n) BY <1>2 DEF OpenSound, HomeSound
<1>6. DOMAIN home \subseteq Nat BY FileAssumption DEF Typed, HomeTyped
<1> QED BY <1>3, <1>4, <1>5, <1>6

\* The invariant implies each of the properties.
LEMMA SoundCursor == IInv => CursorInSyncUnlessAstray
<1> SUFFICES ASSUME IInv, astray = {}, IsOpen, Settled, file.object # 0
             PROVE  file.addr = TraverseFAT(file.object, file.cur)
  BY DEF CursorInSyncUnlessAstray, CursorInSync
<1>1. PICK s, n : n \in Nat /\ OpenSound(s, n) BY DEF IInv, Sound
<1>2. CursorAt(file, s, n) /\ Links(fat, s, n) /\ s[0] = file.object
  BY <1>1, SettledFacts DEF IInv
<1>3. /\ n \in Nat \ {0} /\ file.cur \in Nat /\ 0 \in 0 .. n - 1 /\ 0 + file.cur = file.cur
      /\ file.addr = s[Least(file.cur, n - 1)]
  BY <1>2, WalksOnChain DEF CursorAt
<1>4. TraverseFAT(s[0], file.cur) = s[Least(0 + file.cur, n - 1)]
  BY <1>2, <1>3, TraverseOnChain
<1> QED BY <1>2, <1>3, <1>4

LEMMA SoundLength == IInv => LengthIsKnown
<1> SUFFICES ASSUME IInv, astray = {}, Settled, file.length # 0
             PROVE  file.length = ChainLength(file.object)
  BY DEF LengthIsKnown
<1>1. IsOpen
  <2> SUFFICES ASSUME ~ IsOpen PROVE FALSE OBVIOUS
  <2>1. file = Closed BY DEF IInv, Sound, ClosedSound
  <2> QED BY <2>1 DEF Closed
<1>2. PICK s, n : n \in Nat /\ OpenSound(s, n) BY <1>1 DEF IInv, Sound
<1>3. /\ file.length = n /\ n # 0
      /\ Links(fat, s, n) /\ s[0] = file.object
  BY <1>1, <1>2, SettledFacts DEF IInv
<1> QED BY <1>3, WalksOnChain

\* The cluster a position is in, on the chain.
LEMMA PlaceOnChain ==
  ASSUME NEW s, NEW n, Links(fat, s, n), NEW i \in Nat, InPlace(i, s, n)
  PROVE  /\ ClusterOf(i) < ChainLength(s[0])
         /\ home[i] = <<TraverseFAT(s[0], ClusterOf(i)), ClusterPosition(i)>>
<1>1. n \in Nat /\ ChainLength(s[0]) = n /\ \A k \in 0 .. n - 1 : TraverseFAT(s[0], k) = s[k]
  BY WalksOnChain
<1>2. i < Reach(n) /\ home[i] = <<s[ClusterOf(i)], ClusterPosition(i)>> BY DEF InPlace
<1>3. ClusterOf(i) \in 0 .. n - 1 BY <1>1, <1>2, WithinReach
<1> QED BY <1>1, <1>2, <1>3

LEMMA SoundBytes == IInv => BytesAreInPlace
<1> SUFFICES ASSUME IInv, astray = {}, Settled, NEW i \in DOMAIN home, i < Size
             PROVE  /\ ClusterOf(i) < ChainLength(Start)
                    /\ home[i] = <<TraverseFAT(Start, ClusterOf(i)), ClusterPosition(i)>>
  BY DEF BytesAreInPlace
<1>1. i \in Nat BY FileAssumption DEF IInv, Typed, HomeTyped
<1>2. CASE IsOpen
  <2>1. PICK s, n : n \in Nat /\ OpenSound(s, n) BY <1>2 DEF IInv, Sound
  <2>2. /\ InPlace(i, s, n) /\ (file.object = 0 => n = 0)
        /\ file.object # 0 => Links(fat, s, n) /\ s[0] = file.object
    BY <1>2, <2>1, SettledFacts DEF IInv
  <2>3. file.object # 0
    <3> SUFFICES ASSUME n = 0 PROVE FALSE BY <2>2
    <3> QED BY <1>1, <2>2, ReachNone DEF InPlace
  <2>4. Start = s[0] BY <1>2, <2>2, <2>3 DEF Start
  <2> QED BY <1>1, <2>2, <2>3, <2>4, PlaceOnChain
<1>3. CASE ~ IsOpen
  <2>1. PICK s, n : n \in Nat /\ ClosedSound(s, n) BY <1>3 DEF IInv, Sound
  <2>2. /\ InPlace(i, s, n)
        /\ IF entry.cluster = 0 THEN n = 0 ELSE Links(fat, s, n) /\ s[0] = entry.cluster
    BY <2>1 DEF ClosedSound
  <2>3. entry.cluster # 0
    <3> SUFFICES ASSUME n = 0 PROVE FALSE BY <2>2
    <3> QED BY <1>1, <2>2, ReachNone DEF InPlace
  <2>4. Start = s[0] BY <1>3, <2>2, <2>3 DEF Start
  <2> QED BY <1>1, <2>2, <2>3, <2>4, PlaceOnChain
<1> QED BY <1>2, <1>3

LEMMA SoundReads == IInv => ReadsFindWhatWasWritten
BY DEF IInv, Sound, ReadsFindWhatWasWritten

\* So many units are in the clusters that reach as far.
LEMMA CeilDivFits ==
  ASSUME NEW m \in Nat, NEW g \in Nat, m <= Reach(g)
  PROVE  CeilDiv(m, ClusterUnits) \in 0 .. g
<1> DEFINE u == ClusterUnits
           x == m + u - 1
           q == x \div u
<1>1. u \in Nat \ {0} /\ x \in Nat BY SizesArePositive
<1>2. q \in Nat /\ x % u \in 0 .. u - 1 /\ x = u * q + (x % u)
  <2> HIDE DEF x, u
  <2> QED BY <1>1, DivMod
<1>3. CeilDiv(m, u) = q /\ Reach(q) = u * q BY DEF CeilDiv, Reach
<1>4. Reach(q) \in Nat /\ Reach(g) \in Nat BY <1>2, ReachType
<1> DEFINE y == Reach(q)
           z == x % u
<1>5. m + u - 1 = y + z /\ z \in 0 .. u - 1 /\ y \in Nat BY <1>2, <1>3, <1>4
<1>6. g < q => Reach(g) + u <= y BY <1>2, ReachGrows
<1> HIDE DEF q, y, z, u
<1>7. ~ (g < q) BY <1>1, <1>4, <1>5, <1>6
<1> QED BY <1>2, <1>3, <1>7 DEF u

\* The first g clusters of a chain of n serve an entry that counts no more than they hold, on
\* a disk that has the links between them and has the last one claimed.
LEMMA ServedBy ==
  ASSUME NEW G, NEW s, NEW n, Links(fat, s, n), NEW g \in 0 .. n, NEW e,
         e.size \in Nat, e.size <= Reach(g), e.size # 0 => e.cluster = s[0],
         \A i \in 0 .. g - 2 : G[s[i]] = s[i + 1],
         g # 0 => G[s[g - 1]] \notin {Free, Other}
  PROVE  Serves(G, e)
<1> DEFINE m == CeilDiv(e.size, ClusterUnits)
           t == [i \in 0 .. m - 1 |-> s[i]]
<1>1. n \in Nat \ {0} /\ s \in [0 .. n - 1 -> Clusters] BY DEF Links
<1>2. m \in 0 .. g BY <1>1, CeilDivFits
<1>3. e.size = 0 => m = 0
  <2>1. e.size = 0 => e.size <= Reach(0) /\ 0 \in Nat BY ReachNone
  <2> QED BY <2>1, CeilDivFits
<1> HIDE DEF m
<1> SUFFICES ASSUME m > 0 PROVE
      \E r \in [0 .. m - 1 -> Clusters] :
        /\ r[0] = e.cluster
        /\ \A i, j \in 0 .. m - 1 : r[i] = r[j] => i = j
        /\ \A i \in 1 .. m - 1 : G[r[i - 1]] = r[i]
        /\ G[r[m - 1]] \notin {Free, Other}
  BY DEF Serves, m
<1>4. \A i \in 0 .. m - 1 : i \in 0 .. n - 1 BY <1>1, <1>2
<1>5. t \in [0 .. m - 1 -> Clusters] BY <1>1, <1>4
<1>6. t[0] = e.cluster BY <1>2, <1>3
<1>7. \A i, j \in 0 .. m - 1 : t[i] = t[j] => i = j BY <1>4 DEF Links
<1>8. ASSUME NEW i \in 1 .. m - 1 PROVE G[t[i - 1]] = t[i]
  <2>1. i - 1 \in 0 .. g - 2 /\ i - 1 \in 0 .. m - 1 /\ i \in 0 .. m - 1 /\ (i - 1) + 1 = i
    BY <1>1, <1>2
  <2>2. G[s[i - 1]] = s[(i - 1) + 1] BY <2>1
  <2> QED BY <2>1, <2>2
<1>9. G[t[m - 1]] \notin {Free, Other}
  <2>0. m - 1 \in 0 .. m - 1 /\ t[m - 1] = s[m - 1] BY <1>2
  <2>1. CASE m = g BY <2>0, <2>1
  <2>2. CASE m # g
    <3>1. m - 1 \in 0 .. g - 2 /\ (m - 1) + 1 \in 0 .. n - 1 BY <1>1, <1>2, <2>2
    <3>2. G[s[m - 1]] = s[(m - 1) + 1] /\ s[(m - 1) + 1] \in Clusters BY <1>1, <3>1
    <3>3. G[s[m - 1]] # Free /\ G[s[m - 1]] # Other
      BY <3>2, ClustersAreNumbers DEF IsEnd
    <3> QED BY <2>0, <3>3
  <2> QED BY <2>1, <2>2
<1> HIDE DEF t
<1> QED BY <1>5, <1>6, <1>7, <1>8, <1>9

\* An entry that counts nothing is served.
LEMMA NothingIsServed ==
  ASSUME NEW G, NEW e, e.size = 0 PROVE Serves(G, e)
<1>1. 0 \in Nat /\ 0 <= Reach(0) BY ReachNone
<1>2. CeilDiv(0, ClusterUnits) \in 0 .. 0 BY <1>1, CeilDivFits
<1>3. CeilDiv(e.size, ClusterUnits) \in 0 .. 0 BY <1>2
<1> QED BY <1>3 DEF Serves

\* Of the chain of an open handle whose entry is not being shortened the disk has what the
\* entry counts.
LEMMA DiskServes ==
  ASSUME Typed, KeptTyped, Sound, KeptSound, IsOpen, ~ BeingShortened, ~ Fresh,
         NEW e, e \in kept.entry, NEW G, \A c \in Clusters : G[c] \in kept.fat[c]
  PROVE  Serves(G, e)
<1>1. PICK s, n : n \in Nat /\ OpenSound(s, n) BY DEF Sound
<1>2. call.at # "detach" /\ ~ (file.size < e.size) BY DEF BeingShortened
<1>3. e.size \in Nat /\ e.cluster \in Clusters \cup {0}
  BY FileAssumption DEF KeptTyped, Entries
<1>4. /\ file.size \in Nat /\ file.size <= Reach(n)
      /\ file.object # 0 => n \in Nat \ {0} /\ Links(fat, s, n) /\ s[0] = file.object
  BY <1>1, <1>2, OpenFacts
<1>5. CASE e.size = 0 BY <1>5, NothingIsServed
<1>6. CASE e.size # 0
  <2>1. file.size # 0 /\ e.size <= file.size BY <1>2, <1>3, <1>4, <1>6
  <2>2. file.object # 0 /\ e.cluster = file.object BY <1>6, <2>1 DEF KeptSound, EntryFits
  <2>3. n \in Nat \ {0} /\ Links(fat, s, n) /\ s[0] = file.object BY <1>4, <2>2
  <2>4. s \in [0 .. n - 1 -> Clusters] BY <2>3 DEF Links
  <2> DEFINE g == Known(n)
  <2>5. Held(s, g) BY <1>2, <2>3 DEF KeptSound, ChainHeld
  <2>6. g \in 1 .. n /\ file.size <= Reach(g)
    <3>1. CASE call.at = "grow"
      <4>1. call.op = "write" BY <3>1, IdleFields DEF Typed, CallTyped, Pieces
      <4>2. /\ file.length \in Nat \ {0} /\ call.done \in 0 .. call.want /\ call.want \in Nat
            /\ n = file.length + call.done
        BY <1>1, <3>1 DEF OpenSound, GrowSound
      <4>3. g = file.length BY <3>1 DEF Known
      <4>4. file.size <= Reach(g) BY <1>1, <4>1 DEF OpenSound, CursorSound, CursorAt
      <4> HIDE DEF g
      <4> QED BY <4>2, <4>3, <4>4
    <3>2. CASE call.at # "grow" BY <1>4, <2>3, <3>2 DEF Known
    <3> QED BY <3>1, <3>2
  <2> HIDE DEF g
  <2>7. g \in 0 .. n /\ g - 1 \in 0 .. n - 1 /\ Reach(g) \in Nat
    BY <2>3, <2>6, ReachType
  <2>8. \A i \in 0 .. g - 2 : i \in 0 .. n - 1 BY <2>3, <2>6
  <2>9. \A i \in 0 .. g - 2 : G[s[i]] = s[i + 1]
    <3> SUFFICES ASSUME NEW i \in 0 .. g - 2 PROVE G[s[i]] = s[i + 1] OBVIOUS
    <3>1. kept.fat[s[i]] = {s[i + 1]} BY <2>5 DEF Held
    <3>2. s[i] \in Clusters BY <2>4, <2>8
    <3> QED BY <3>1, <3>2
  <2>10. G[s[g - 1]] \notin {Free, Other}
    <3>1. s[g - 1] \in Clusters /\ G[s[g - 1]] \in kept.fat[s[g - 1]] BY <2>4, <2>7
    <3>2. Other \notin kept.fat[s[g - 1]]
      <4>1. fat[s[g - 1]] # Other BY <2>3, <2>7, ChainIsInUse
      <4> QED BY <3>1, <4>1 DEF KeptSound, Recent
    <3>3. Free \notin kept.fat[s[g - 1]]
      <4>1. CASE g > 1 BY <2>5, <4>1 DEF Held
      <4>2. CASE g = 1
        <5>1. s[g - 1] = e.cluster BY <2>2, <2>3, <4>2
        <5> QED BY <2>2, <5>1 DEF Fresh
      <4> QED BY <2>6, <4>1, <4>2
    <3> QED BY <3>1, <3>2, <3>3
  <2>11. e.size <= Reach(g) BY <1>3, <1>4, <2>1, <2>6, <2>7
  <2>12. e.cluster = s[0] BY <2>2, <2>3
  <2> QED BY <1>3, <2>3, <2>7, <2>9, <2>10, <2>11, <2>12, ServedBy
<1> QED BY <1>5, <1>6

LEMMA SoundEntry ==
  ASSUME IInv, [Next]_vars, IsOpen, ~ IsOpen', astray = {}, ~ BeingShortened, ~ Fresh
  PROVE  Serves(fat', entry')
<1>1. Typed /\ KeptTyped /\ Sound /\ KeptSound BY DEF IInv
<1>2. Recent BY <1>1 DEF KeptSound
<1>3. Leave \/ Crash BY <1>1, HandleStays DEF IsOpen
<1>4. CASE Leave
  <2>1. UNCHANGED <<fat, entry>> BY <1>4 DEF Leave
  <2> QED BY <1>1, <1>2, <2>1, DiskServes DEF Recent
<1>5. CASE Crash
  <2>1. PICK e \in kept.entry, link \in [Unwritten -> LinkValues] :
          /\ \A c \in Unwritten : link[c] \in kept.fat[c]
          /\ entry' = e
          /\ fat' = [c \in Clusters |-> IF c \in Unwritten THEN link[c] ELSE fat[c]]
    BY <1>5 DEF Crash
  <2>2. \A c \in Clusters : fat'[c] \in kept.fat[c] BY <1>2, <2>1 DEF Recent
  <2> QED BY <1>1, <2>1, <2>2, DiskServes
<1> QED BY <1>3, <1>4, <1>5

\* What a step of FF_Close leaves.
LEMMA SoundClose ==
  ASSUME IInv, astray = {}, call.at = "leave", Writes(file.mode), entry.size % ClusterUnits = 0
  PROVE  ChainLength(entry.cluster) = entry.size \div ClusterUnits
<1>0. call # Idle BY IdleFields
<1>1. IsOpen BY <1>0, CallsAreOfOpenFiles DEF IInv
<1>2. PICK s, n : n \in Nat /\ OpenSound(s, n) BY <1>1 DEF IInv, Sound
<1>3. /\ entry.size = file.size /\ entry.cluster = file.object
      /\ ClusterPosition(file.size) = 0 => Reach(n) = file.size
  BY <1>2 DEF OpenSound, CloseSound
<1>4. /\ IF file.object = 0 THEN n = 0 ELSE Links(fat, s, n) /\ s[0] = file.object
  BY <1>2 DEF OpenSound, ChainSound
<1>5. Reach(n) = entry.size BY <1>3 DEF ClusterPosition
<1>6. ChainLength(entry.cluster) = n BY <1>3, <1>4, NoChain, WalksOnChain
<1>7. entry.size \div ClusterUnits = n
  <2>1. 0 \in 0 .. ClusterUnits - 1 /\ Reach(n) + 0 = entry.size
    BY <1>2, <1>5, ReachType, SizesArePositive
  <2>2. ClusterOf(Reach(n) + 0) = n BY <1>2, <2>1, PlaceInReach
  <2> QED BY <2>1, <2>2 DEF ClusterOf
<1> QED BY <1>6, <1>7

-----------------------------------------------------------------------------
\* As long as no FAT access failed under the handle, no extension was cut short and the file
\* was not cut after a write, number and address of the cursor agree: FF_ExtendFile's "We must
\* ensure that the ulAddrCurrentCluster is not out-of-sync with the CurrentCluster number".
THEOREM CursorStaysInSync == Spec => []CursorInSyncUnlessAstray
<1> QED BY Invariance, SoundCursor, PTL

\* ulChainLength is the length of the chain once it has been counted.
THEOREM LengthStaysKnown == Spec => []LengthIsKnown
<1> QED BY Invariance, SoundLength, PTL

\* Every unit written is where a later walk along the chain looks for it.
THEOREM BytesStayInPlace == Spec => []BytesAreInPlace
<1> QED BY Invariance, SoundBytes, PTL

\* FF_Read gets each unit from the place FF_Write put it, for every size of sectors, clusters
\* and calls and every mixture of partial sectors, sectors and runs of clusters.  The rest of a
\* read one of whose sectors the device has failed is left out: there FF_Read forgets the error.
THEOREM ReadsAreRight == Spec => []ReadsFindWhatWasWritten
<1> QED BY Invariance, SoundReads, PTL

\* When FF_Close gives the handle back, and when power is lost, the entry on the disk names no
\* more than its chain there holds, whichever versions of the entry and of each link the cache
\* has written: FF_ExtendFile flushes the links before a size can count on them.  Left out are a
\* file that is being shortened and the first cluster of an empty one, which is not flushed.
THEOREM EntryStaysServable == Spec => EntryIsServable
<1>1. IInv /\ [Next]_vars =>
        [IsOpen /\ ~ IsOpen' /\ astray = {} /\ ~ BeingShortened /\ ~ Fresh
           => Serves(fat', entry')]_vars
  BY SoundEntry
<1> QED BY Invariance, <1>1, PTL DEF Spec, EntryIsServable

\* FF_Close leaves a file that ends on a boundary without the cluster that was kept ahead.
THEOREM ClosingSparesNothing == Spec => NoClusterToSpare
<1>1. IInv /\ [Next]_vars =>
        [call.at = "leave" /\ Writes(file.mode) /\ astray' = {} /\ entry.size % ClusterUnits = 0
           => ChainLength(entry.cluster) = entry.size \div ClusterUnits]_vars
  BY AstrayGrows, SoundClose
<1> QED BY Invariance, <1>1, PTL DEF Spec, NoClusterToSpare
=============================================================================
