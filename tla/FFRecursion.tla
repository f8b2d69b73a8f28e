---------------------------- MODULE FFRecursion ----------------------------
(***************************************************************************)
(* Induction over numbers in a form that names no operator, and what       *)
(* follows for functions defined by recursion: the walks along a chain of  *)
(* FFFile, and the searches and sums of FFVolume.                          *)
(***************************************************************************)
EXTENDS Integers, NaturalsInduction, WellFoundedInduction, TLAPS

\* A set of numbers that has 0 and the successor of each of its members has all:
\* otherwise what it lacks has a least member.
LEMMA SetInduction ==
  ASSUME NEW S, 0 \in S, \A n \in Nat : n \in S => n + 1 \in S
  PROVE  \A n \in Nat : n \in S
<1> SUFFICES ASSUME NEW m \in Nat, m \notin S PROVE FALSE OBVIOUS
<1> DEFINE T == {n \in Nat : n \notin S}
<1>1. IsWellFoundedOn(OpToRel(<, Nat), Nat) BY NatLessThanWellFounded
<1>2. T \subseteq Nat /\ T # {} OBVIOUS
<1> HIDE DEF T
<1>3. \E x \in T : \A y \in T : <<y, x>> \notin OpToRel(<, Nat)
  BY <1>1, <1>2, WFMin
<1>4. \E x \in T : \A y \in T : ~ (y < x) BY <1>2, <1>3 DEF OpToRel
<1> QED BY <1>4 DEF T

\* The same up to a bound.
LEMMA BoundedInduction ==
  ASSUME NEW n \in Nat, NEW S, 0 \in S, \A i \in 0 .. n - 1 : i \in S => i + 1 \in S
  PROVE  \A i \in 0 .. n : i \in S
<1> DEFINE U == {i \in Nat : i <= n => i \in S}
<1>1. 0 \in U OBVIOUS
<1>2. \A i \in Nat : i \in U => i + 1 \in U OBVIOUS
<1> HIDE DEF U
<1>3. \A i \in Nat : i \in U BY <1>1, <1>2, SetInduction
<1> QED BY <1>3 DEF U

\* A function on 0 .. n that begins with b and goes on with step.
Iterates(f, n, b, step) ==
  f = [i \in 0 .. n |-> IF i = 0 THEN b ELSE step[<<i, f[i - 1]>>]]

\* There is one, with values where step has them.
LEMMA IterationExists ==
  ASSUME NEW A, NEW b \in A, NEW n \in Nat, NEW step \in [(1 .. n) \X A -> A]
  PROVE  \E f \in [0 .. n -> A] : Iterates(f, n, b, step)
<1> DEFINE S == {m \in Nat : \E f \in [0 .. m -> A] : Iterates(f, m, b, step)}
<1>1. 0 \in S
  <2> DEFINE f == [i \in 0 .. 0 |-> b]
  <2>1. f \in [0 .. 0 -> A] OBVIOUS
  <2>2. f = [i \in 0 .. 0 |-> IF i = 0 THEN b ELSE step[<<i, f[i - 1]>>]] OBVIOUS
  <2> QED BY <2>1, <2>2 DEF Iterates
<1>2. \A m \in 0 .. n - 1 : m \in S => m + 1 \in S
  <2> SUFFICES ASSUME NEW m \in 0 .. n - 1, NEW f \in [0 .. m -> A], Iterates(f, m, b, step)
               PROVE  m + 1 \in S
    OBVIOUS
  <2> DEFINE g == [i \in 0 .. m + 1 |-> IF i = m + 1 THEN step[<<m + 1, f[m]>>] ELSE f[i]]
  <2>1. \A i \in 0 .. m : f[i] = IF i = 0 THEN b ELSE step[<<i, f[i - 1]>>]
    BY DEF Iterates
  <2>2. f[m] \in A /\ <<m + 1, f[m]>> \in (1 .. n) \X A OBVIOUS
  <2>3. step[<<m + 1, f[m]>>] \in A BY <2>2
  <2>4. g \in [0 .. m + 1 -> A] BY <2>3
  <2>5. \A i \in 0 .. m + 1 : g[i] = IF i = 0 THEN b ELSE step[<<i, g[i - 1]>>]
    <3> SUFFICES ASSUME NEW i \in 0 .. m + 1
                 PROVE  g[i] = IF i = 0 THEN b ELSE step[<<i, g[i - 1]>>]
      OBVIOUS
    <3>1. CASE i = m + 1
      <4>1. i # 0 /\ i - 1 = m /\ m \in 0 .. m + 1 /\ m # m + 1 BY <3>1
      <4>2. g[i - 1] = f[m] BY <4>1
      <4> QED BY <3>1, <4>1, <4>2
    <3>2. CASE i # m + 1
      <4>1. i \in 0 .. m /\ (i # 0 => i - 1 \in 0 .. m + 1 /\ i - 1 # m + 1) BY <3>2
      <4>2. g[i] = f[i] /\ (i # 0 => g[i - 1] = f[i - 1]) BY <4>1
      <4> QED BY <2>1, <4>1, <4>2
    <3> QED BY <3>1, <3>2
  <2>6. g = [i \in 0 .. m + 1 |-> g[i]] OBVIOUS
  <2> HIDE DEF g
  <2>7. Iterates(g, m + 1, b, step) BY <2>5, <2>6 DEF Iterates
  <2>8. m + 1 \in Nat OBVIOUS
  <2> QED BY <2>4, <2>7, <2>8
<1> HIDE DEF S
<1>3. n \in S BY <1>1, <1>2, BoundedInduction
<1> QED BY <1>3 DEF S

\* A function that goes on like this as long as its values are in A has them there.
LEMMA RecursionType ==
  ASSUME NEW A, NEW b \in A, NEW n \in Nat, NEW step \in [(1 .. n) \X A -> A],
         NEW f, f[0] = b,
         \A i \in 1 .. n : f[i - 1] \in A => f[i] = step[<<i, f[i - 1]>>]
  PROVE  \A i \in 0 .. n : f[i] \in A
<1> DEFINE S == {i \in 0 .. n : f[i] \in A}
<1>1. 0 \in S OBVIOUS
<1>2. \A i \in 0 .. n - 1 : i \in S => i + 1 \in S
  <2> SUFFICES ASSUME NEW i \in 0 .. n - 1, f[i] \in A PROVE i + 1 \in S OBVIOUS
  <2>1. <<i + 1, f[i]>> \in (1 .. n) \X A /\ (i + 1) - 1 = i /\ i + 1 \in 1 .. n
    OBVIOUS
  <2>2. f[i + 1] = step[<<i + 1, f[i]>>] BY <2>1
  <2> QED BY <2>1, <2>2
<1> HIDE DEF S
<1>3. \A i \in 0 .. n : i \in S BY <1>1, <1>2, BoundedInduction
<1> QED BY <1>3 DEF S
-----------------------------------------------------------------------------
(* Quotients, remainders and products of numbers that are not known. *)

\* Division by a number that is not known.
LEMMA DivMod ==
  ASSUME NEW p \in Nat, NEW d \in Nat \ {0}
  PROVE  p \div d \in Nat /\ p % d \in 0 .. d - 1 /\ p = d * (p \div d) + (p % d)
<1>1. p \in Int /\ d \in Int /\ d > 0 OBVIOUS
<1>2. p \div d \in Int /\ p % d \in 0 .. d - 1 OBVIOUS
<1>3. p = d * (p \div d) + (p % d) BY <1>1
<1>4. p \div d >= 0
  <2> DEFINE q == p \div d
  <2> SUFFICES ASSUME q < 0 PROVE FALSE BY <1>2
  <2>1. d * q <= d * (-1) OBVIOUS
  <2> QED BY <1>2, <1>3, <2>1
<1> QED BY <1>2, <1>3, <1>4

LEMMA DivModUnique ==
  ASSUME NEW d \in Nat \ {0}, NEW q \in Nat, NEW r \in 0 .. d - 1
  PROVE  (d * q + r) \div d = q /\ (d * q + r) % d = r
OBVIOUS

LEMMA Monotone ==
  ASSUME NEW d \in Nat \ {0}, NEW q \in Int, NEW r \in Int, q <= r
  PROVE  d * q <= d * r
OBVIOUS

LEMMA StrictlyMonotone ==
  ASSUME NEW d \in Nat \ {0}, NEW q \in Int, NEW r \in Int, d * q < d * r
  PROVE  q < r
OBVIOUS
=============================================================================
