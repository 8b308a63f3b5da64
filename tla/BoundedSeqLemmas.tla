-------------------------- MODULE BoundedSeqLemmas --------------------------
(***************************************************************************)
(* Lemmas about sequences of bounded length, about induction and recursion *)
(* up to a bound, and about quotients.  The induction is over a set: where *)
(* the library's theorems take a predicate, these take the set of those it *)
(* holds for.                                                              *)
(***************************************************************************)
EXTENDS BoundedSeq, SequenceTheorems, WellFoundedInduction, TLAPS

\* UpTo(n, S) is the set of sequences over S of at most n elements.
LEMMA UpToIsSeq ==
  ASSUME NEW n \in Nat, NEW S, NEW s
  PROVE  s \in UpTo(n, S) <=> s \in Seq(S) /\ Len(s) <= n
<1>1. ASSUME s \in UpTo(n, S) PROVE s \in Seq(S) /\ Len(s) <= n
  <2>1. PICK m \in 0 .. n : s \in [1 .. m -> S]
    BY <1>1 DEF UpTo
  <2>2. s \in Seq(S)
    BY <2>1, SeqDef
  <2>3. Len(s) = m
    BY <2>1, <2>2, LenProperties
  <2> QED BY <2>2, <2>3
<1>2. ASSUME s \in Seq(S), Len(s) <= n PROVE s \in UpTo(n, S)
  <2>1. s \in [1 .. Len(s) -> S] /\ Len(s) \in 0 .. n
    BY <1>2, LenProperties
  <2> QED BY <2>1 DEF UpTo
<1> QED BY <1>1, <1>2

\* The empty sequence is always among them.
LEMMA EmptyFits ==
  ASSUME NEW n \in Nat, NEW S
  PROVE  <<>> \in UpTo(n, S) /\ Len(<<>>) = 0
<1>1. <<>> \in Seq(S) /\ Len(<<>>) = 0
  OBVIOUS
<1>2. Len(<<>>) <= n
  BY <1>1
<1> QED BY <1>1, <1>2, UpToIsSeq, Zenon

-----------------------------------------------------------------------------

\* A set of naturals that is not empty has a least element.
LEMMA LeastNatural ==
  ASSUME NEW T \in SUBSET Nat, T # {}
  PROVE  \E x \in T : \A y \in T : x <= y
<1>1. PICK x \in T : \A y \in T : ~ (<<y, x>> \in OpToRel(<, Nat))
  BY WFMin, NatLessThanWellFounded
<1>2. ASSUME NEW y \in T PROVE x <= y
  <2>1. ~ (y < x)
    BY <1>1 DEF OpToRel
  <2> QED BY <2>1
<1> QED BY <1>2

\* What holds at the end of a range, and before every number it holds for,
\* holds at its start.
LEMMA DownTo ==
  ASSUME NEW T \in SUBSET Nat, NEW n \in T,
         \A k \in Nat : k + 1 \in T => k \in T
  PROVE  0 \in T
<1>1. PICK x \in T : \A y \in T : x <= y
  BY LeastNatural
<1>2. CASE x = 0
  BY <1>1, <1>2
<1>3. CASE x # 0
  <2>1. x - 1 \in Nat /\ (x - 1) + 1 = x
    BY <1>3
  <2>2. x - 1 \in T
    BY <1>1, <2>1
  <2>3. x <= x - 1
    BY <1>1, <2>2
  <2> QED
    BY <2>1, <2>3
<1> QED
  BY <1>2, <1>3

\* What holds at the start, and after every number it holds for, holds always.
LEMMA UpFrom ==
  ASSUME NEW T \in SUBSET Nat, 0 \in T, \A k \in T : k + 1 \in T
  PROVE  T = Nat
<1> SUFFICES ASSUME Nat \ T # {} PROVE FALSE
  OBVIOUS
<1>1. PICK x \in Nat \ T : \A y \in Nat \ T : x <= y
  BY LeastNatural
<1>2. x # 0 /\ x - 1 \in Nat /\ (x - 1) + 1 = x
  BY <1>1
<1>3. x - 1 \in T
  BY <1>1, <1>2
<1> QED
  BY <1>1, <1>2, <1>3

\* A set that has 0, and up to n the successor of what it has, has all up to n.
LEMMA BoundedInduction ==
  ASSUME NEW n \in Nat, NEW P, 0 \in P,
         \A k \in 1 .. n : k - 1 \in P => k \in P
  PROVE  \A k \in 0 .. n : k \in P
<1> DEFINE T == {k \in 0 .. n : k \notin P}
<1>1. SUFFICES ASSUME T # {} PROVE FALSE
  OBVIOUS
<1>2. PICK x \in T : \A y \in T : x <= y
  <2>1. T \in SUBSET Nat
    OBVIOUS
  <2> HIDE DEF T
  <2> QED BY <1>1, <2>1, LeastNatural
<1>3. x \in 1 .. n /\ x - 1 \notin P
  BY <1>2
<1>4. x - 1 \in T
  BY <1>3
<1> QED BY <1>2, <1>3, <1>4

\* f takes the steps of g in order, from the value v0.
TakesSteps(f, n, v0, g) ==
  f[0] = v0 /\ \A k \in 1 .. n : f[k] = g[k][f[k - 1]]

\* From a first value and a step for every place there is the function that
\* takes the steps in order.
LEMMA BoundedRecursion ==
  ASSUME NEW n \in Nat, NEW V, NEW v0 \in V, NEW g \in [1 .. n -> [V -> V]]
  PROVE  \E f \in [0 .. n -> V] : TakesSteps(f, n, v0, g)
<1> DEFINE Runs(m, f) ==
             /\ f \in [0 .. m -> V]
             /\ f[0] = v0
             /\ \A k \in 1 .. m : f[k] = g[k][f[k - 1]]
           P == {m \in 0 .. n : \E f : Runs(m, f)}
<1>1. 0 \in P
  <2>1. Runs(0, [k \in 0 .. 0 |-> v0])
    OBVIOUS
  <2>2. \E f : Runs(0, f)
    <3> HIDE DEF Runs
    <3> QED BY <2>1, Zenon
  <2> QED BY <2>2
<1>2. ASSUME NEW m \in 1 .. n, m - 1 \in P PROVE m \in P
  <2>1. PICK f : Runs(m - 1, f)
    BY <1>2
  <2> DEFINE h == [k \in 0 .. m |-> IF k = m THEN g[m][f[m - 1]] ELSE f[k]]
  <2>2. f[m - 1] \in V /\ g[m] \in [V -> V]
    BY <2>1
  <2>3. h \in [0 .. m -> V]
    BY <2>1, <2>2
  <2>4. h[0] = v0
    BY <2>1
  <2>5. ASSUME NEW k \in 1 .. m PROVE h[k] = g[k][h[k - 1]]
    <3>1. k \in 0 .. m /\ k - 1 \in 0 .. m /\ k - 1 # m
      OBVIOUS
    <3>2. h[k - 1] = f[k - 1]
      BY <3>1
    <3>3. CASE k = m
      BY <3>1, <3>2, <3>3
    <3>4. CASE k # m
      <4>1. h[k] = f[k]
        BY <3>1, <3>4
      <4>2. f[k] = g[k][f[k - 1]]
        BY <2>1, <3>4
      <4> QED BY <4>1, <4>2, <3>2
    <3> QED BY <3>3, <3>4
  <2>6. Runs(m, h)
    BY <2>3, <2>4, <2>5
  <2>7. \E f_ : Runs(m, f_)
    <3> HIDE DEF Runs, h
    <3> QED BY <2>6, Zenon
  <2> QED BY <2>7
<1> HIDE DEF P
<1>3. n \in P
  <2>1. \A k \in 0 .. n : k \in P
    BY <1>1, <1>2, BoundedInduction
  <2> QED BY <2>1
<1>4. PICK f \in [0 .. n -> V] : Runs(n, f)
  BY <1>3 DEF P
<1>5. TakesSteps(f, n, v0, g)
  BY <1>4 DEF TakesSteps
<1> QED BY <1>5

-----------------------------------------------------------------------------

\* A product grows with its factor.
LEMMA Grows ==
  ASSUME NEW a \in Nat, NEW b \in Nat, NEW c \in Nat, b <= c
  PROVE  a * b <= a * c /\ a * b \in Nat /\ a * c \in Nat
<1>1. PICK d \in Nat : c = b + d
  BY SMT
<1>2. a * c = a * b + a * d
  BY <1>1, SMT
<1>3. a * b \in Nat /\ a * d \in Nat
  BY SMT
<1> QED
  BY <1>2, <1>3, SMT

\* Quotient and remainder.
LEMMA Division ==
  ASSUME NEW a \in Nat, NEW b \in Nat \ {0}
  PROVE  /\ a \div b \in Nat /\ a % b \in 0 .. b - 1
         /\ a = b * (a \div b) + (a % b)
BY SMT

\* They are the only ones.
LEMMA DivisionUnique ==
  ASSUME NEW b \in Nat \ {0}, NEW q \in Nat, NEW r \in 0 .. b - 1
  PROVE  (q * b + r) \div b = q /\ (q * b + r) % b = r
<1> DEFINE a == q * b + r
           x == a \div b
           y == a % b
<1>1. a \in Nat
  BY SMT
<1> HIDE DEF a
<1>2. x \in Nat /\ y \in 0 .. b - 1 /\ a = b * x + y
  BY <1>1, Division
<1>3. a = b * q + r
  BY SMT DEF a
<1> HIDE DEF x, y
<1>4. CASE x < q
  <2>1. b * (x + 1) <= b * q
    BY <1>2, <1>4, Grows
  <2>2. b * (x + 1) = b * x + b /\ b * x \in Nat /\ b * q \in Nat
    BY <1>2, SMT
  <2> QED
    BY <1>2, <1>3, <2>1, <2>2
<1>5. CASE q < x
  <2>1. b * (q + 1) <= b * x
    BY <1>2, <1>5, Grows
  <2>2. b * (q + 1) = b * q + b /\ b * x \in Nat /\ b * q \in Nat
    BY <1>2, SMT
  <2> QED
    BY <1>2, <1>3, <2>1, <2>2
<1>6. CASE x = q
  <2>1. b * q \in Nat
    BY SMT
  <2>2. y = r
    BY <1>2, <1>3, <1>6, <2>1
  <2> QED
    BY <1>6, <2>2 DEF x, y, a
<1> QED
  BY <1>2, <1>4, <1>5, <1>6
=============================================================================
