------------------------------ MODULE Induction ------------------------------
(***************************************************************************)
(* Induction and recursion in a form that the provers can use.  The        *)
(* theorems of the library have the predicate or the recursive definition  *)
(* as an operator parameter, which first-order provers cannot instantiate; *)
(* here the predicate is a set and one step of the recursion is a function.*)
(***************************************************************************)
EXTENDS Integers, Sequences, WellFoundedInduction, TLAPS

LEMMA LeastElement ==
    ASSUME NEW T, T \subseteq Nat, T # {}
    PROVE  \E n \in T : \A m \in T : n <= m
<1> DEFINE R == OpToRel(<, Nat)
<1>1. IsWellFoundedOn(R, Nat)
  BY NatLessThanWellFounded
<1>2. \A x, y \in Nat : << y, x >> \in R <=> y < x
  BY DEF OpToRel
<1> HIDE DEF R
<1>3. PICK n \in T : \A y \in T : ~ (<< y, n >> \in R)
  BY <1>1, WFMin
<1>4. \A m \in T : n <= m
  <2> TAKE m \in T
  <2>1. m \in Nat /\ n \in Nat /\ << m, n >> \notin R
    BY <1>3
  <2>2. ~ (m < n)
    BY <1>2, <2>1, Zenon
  <2> QED BY <2>1, <2>2
<1> QED BY <1>4

\* A set of numbers that contains 0 and with a number the next one.
LEMMA Induct ==
    ASSUME NEW P, 0 \in P, \A n \in Nat : n \in P => n + 1 \in P
    PROVE  \A n \in Nat : n \in P
<1> SUFFICES ASSUME NEW k \in Nat, k \notin P PROVE FALSE
  OBVIOUS
<1>1. PICK n \in Nat \ P : \A m \in Nat \ P : n <= m
  BY LeastElement
<1>2. n # 0 /\ n - 1 \in Nat /\ n - 1 \in P
  BY <1>1
<1> QED BY <1>1, <1>2

\* A recursion over 1 .. n whose step stays in a set of values has a solution,
Solves(g, n, base, step) ==
    /\ g[0] = base
    /\ \A i \in 1 .. n : g[i] = step[i][g[i - 1]]

LEMMA Solvable ==
    ASSUME NEW S, NEW base \in S, NEW n \in Nat, NEW step \in [1 .. n -> [S -> S]]
    PROVE  \E g \in [0 .. n -> S] : Solves(g, n, base, step)
<1> DEFINE P == { k \in Nat : k <= n => \E g \in [0 .. k -> S] : Solves(g, k, base, step) }
<1>1. 0 \in P
  <2>1. [i \in 0 .. 0 |-> base] \in [0 .. 0 -> S]
    OBVIOUS
  <2>2. Solves([i \in 0 .. 0 |-> base], 0, base, step)
    BY DEF Solves
  <2> QED BY <2>1, <2>2
<1>2. ASSUME NEW k \in Nat, k \in P PROVE k + 1 \in P
  <2> SUFFICES ASSUME k + 1 <= n
               PROVE  \E g \in [0 .. k + 1 -> S] : Solves(g, k + 1, base, step)
    OBVIOUS
  <2>1. PICK g \in [0 .. k -> S] : Solves(g, k, base, step)
    BY <1>2
  <2> DEFINE next == step[k + 1][g[k]]
             h    == [i \in 0 .. k + 1 |-> IF i = k + 1 THEN next ELSE g[i]]
  <2>2. next \in S
    OBVIOUS
  <2>3. h \in [0 .. k + 1 -> S]
    BY <2>2
  <2>4. h[0] = base
    BY <2>1 DEF Solves
  <2>5. \A i \in 1 .. k + 1 : h[i] = step[i][h[i - 1]]
    <3> SUFFICES ASSUME NEW i \in 1 .. k + 1 PROVE h[i] = step[i][h[i - 1]]
      OBVIOUS
    <3>1. CASE i = k + 1
      BY <3>1
    <3>2. CASE i # k + 1
      <4>1. i \in 1 .. k /\ h[i] = g[i] /\ h[i - 1] = g[i - 1]
        BY <3>2
      <4> QED BY <2>1, <4>1 DEF Solves
    <3> QED BY <3>1, <3>2
  <2> QED BY <2>3, <2>4, <2>5 DEF Solves
<1> HIDE DEF P
<1>3. n \in P
  BY <1>1, <1>2, Induct
<1> QED BY <1>3 DEF P

\* and only one.
LEMMA UniqueSolution ==
    ASSUME NEW n \in Nat, NEW base, NEW step, NEW g, NEW h,
           Solves(g, n, base, step), Solves(h, n, base, step)
    PROVE  \A i \in 0 .. n : g[i] = h[i]
<1> DEFINE P == { i \in Nat : i <= n => g[i] = h[i] }
<1>1. 0 \in P
  BY DEF Solves
<1>2. ASSUME NEW i \in Nat, i \in P PROVE i + 1 \in P
  <2> SUFFICES ASSUME i + 1 <= n PROVE g[i + 1] = h[i + 1]
    OBVIOUS
  <2>1. i + 1 \in 1 .. n /\ g[i] = h[i]
    BY <1>2
  <2>2. g[i + 1] = step[i + 1][g[i]] /\ h[i + 1] = step[i + 1][h[i]]
    BY <2>1 DEF Solves
  <2> QED BY <2>1, <2>2
<1> HIDE DEF P
<1>3. \A i \in Nat : i \in P
  BY <1>1, <1>2, Induct
<1> QED BY <1>3 DEF P

(***************************************************************************)
(* A fold over a sequence, with the step as a function of the element and  *)
(* of what the elements before it have led to.  The recursive definitions  *)
(* of the models are shown to be such folds, one by one.                   *)
(***************************************************************************)
Fold(base, step, s) ==
    LET acc[i \in 0 .. Len(s)] == IF i = 0 THEN base ELSE step[s[i]][acc[i - 1]]
    IN  acc[Len(s)]

\* What every prefix of s leads to.
Folds(g, base, step, s) ==
    /\ g[0] = base
    /\ \A i \in 1 .. Len(s) : g[i] = step[s[i]][g[i - 1]]

LEMMA FoldsExist ==
    ASSUME NEW S, NEW V, NEW base \in V, NEW step \in [S -> [V -> V]], NEW s \in Seq(S)
    PROVE  \E g \in [0 .. Len(s) -> V] : Folds(g, base, step, s)
<1> DEFINE byIndex == [i \in 1 .. Len(s) |-> step[s[i]]]
<1>1. byIndex \in [1 .. Len(s) -> [V -> V]] /\ Len(s) \in Nat
  OBVIOUS
<1> HIDE DEF byIndex
<1>2. PICK g \in [0 .. Len(s) -> V] : Solves(g, Len(s), base, byIndex)
  BY <1>1, Solvable
<1>3. Folds(g, base, step, s)
  BY <1>2 DEF Solves, Folds, byIndex
<1> QED BY <1>3

LEMMA FoldsAgree ==
    ASSUME NEW S, NEW base, NEW step, NEW s \in Seq(S), NEW g, NEW h,
           Folds(g, base, step, s), Folds(h, base, step, s)
    PROVE  \A i \in 0 .. Len(s) : g[i] = h[i]
<1> DEFINE byIndex == [i \in 1 .. Len(s) |-> step[s[i]]]
<1>1. Solves(g, Len(s), base, byIndex) /\ Solves(h, Len(s), base, byIndex)
  BY DEF Solves, Folds
<1> HIDE DEF byIndex
<1> QED BY <1>1, UniqueSolution

LEMMA FoldOf ==
    ASSUME NEW S, NEW V, NEW base \in V, NEW step \in [S -> [V -> V]], NEW s \in Seq(S),
           NEW g, Folds(g, base, step, s)
    PROVE  Fold(base, step, s) = g[Len(s)] /\ Fold(base, step, s) \in V
<1> DEFINE Equation(f) == f = [i \in 0 .. Len(s) |->
                                 IF i = 0 THEN base ELSE step[s[i]][f[i - 1]]]
           acc == CHOOSE f : Equation(f)
<1>1. PICK h \in [0 .. Len(s) -> V] : Folds(h, base, step, s)
  BY FoldsExist
<1>2. Equation(h)
  BY <1>1 DEF Folds
<1>3. Equation(acc)
  BY <1>2
<1>4. Fold(base, step, s) = acc[Len(s)]
  BY DEF Fold
<1> HIDE DEF acc
<1>5. Folds(acc, base, step, s)
  <2>1. \A i \in 0 .. Len(s) : acc[i] = IF i = 0 THEN base ELSE step[s[i]][acc[i - 1]]
    BY <1>3, Zenon
  <2>2. Len(s) \in Nat
    OBVIOUS
  <2> QED BY <2>1, <2>2 DEF Folds
<1>6. acc[Len(s)] = g[Len(s)] /\ acc[Len(s)] = h[Len(s)]
  BY <1>1, <1>5, FoldsAgree
<1> QED BY <1>1, <1>4, <1>6

LEMMA FoldEmpty ==
    ASSUME NEW S, NEW V, NEW base \in V, NEW step \in [S -> [V -> V]]
    PROVE  Fold(base, step, << >>) = base
<1> DEFINE g == [i \in 0 .. 0 |-> base]
           s == << >>
<1>0. s \in Seq(S)
  OBVIOUS
<1>1. Len(s) = 0 /\ g[0] = base
  OBVIOUS
<1> HIDE DEF g, s
<1>2. Folds(g, base, step, s)
  BY <1>1 DEF Folds
<1>3. Fold(base, step, s) = g[Len(s)]
  BY <1>0, <1>2, FoldOf
<1> QED BY <1>1, <1>3 DEF s

\* One more element is one more step.
LEMMA FoldAppend ==
    ASSUME NEW S, NEW V, NEW base \in V, NEW step \in [S -> [V -> V]], NEW s \in Seq(S),
           NEW e \in S
    PROVE  /\ Fold(base, step, s) \in V
           /\ Fold(base, step, Append(s, e)) = step[e][Fold(base, step, s)]
<1> DEFINE t == Append(s, e)
           n == Len(s)
<1>1. t \in Seq(S) /\ Len(t) = n + 1 /\ t[n + 1] = e /\ \A i \in 1 .. n : t[i] = s[i]
  OBVIOUS
<1> HIDE DEF t
<1>2. PICK g \in [0 .. Len(t) -> V] : Folds(g, base, step, t)
  BY <1>1, FoldsExist
<1>3. Folds(g, base, step, s)
  BY <1>1, <1>2 DEF Folds
<1>4. Fold(base, step, s) = g[n] /\ Fold(base, step, s) \in V
  BY <1>3, FoldOf
<1>5. Fold(base, step, t) = g[n + 1]
  BY <1>1, <1>2, FoldOf
<1>6. g[n + 1] = step[e][g[n]]
  BY <1>1, <1>2 DEF Folds
<1> QED BY <1>4, <1>5, <1>6 DEF t

\* How a recursive definition is recognized as a fold: its steps are those of
\* the fold as long as the values before are in the set.
LEMMA FoldFrom ==
    ASSUME NEW S, NEW V, NEW base \in V, NEW step \in [S -> [V -> V]], NEW s \in Seq(S),
           NEW f, f[0] = base,
           \A i \in 1 .. Len(s) : f[i - 1] \in V => f[i] = step[s[i]][f[i - 1]]
    PROVE  \A i \in 0 .. Len(s) : f[i] \in V /\ f[i] = Fold(base, step, SubSeq(s, 1, i))
<1> DEFINE P == { i \in Nat : i <= Len(s) => f[i] \in V /\ f[i] = Fold(base, step, SubSeq(s, 1, i)) }
<1>1. 0 \in P
  <2>1. SubSeq(s, 1, 0) = << >>
    OBVIOUS
  <2>2. Fold(base, step, << >>) = base
    BY FoldEmpty
  <2> QED BY <2>1, <2>2
<1>2. ASSUME NEW i \in Nat, i \in P PROVE i + 1 \in P
  <2> SUFFICES ASSUME i + 1 <= Len(s)
               PROVE  /\ f[i + 1] \in V
                      /\ f[i + 1] = Fold(base, step, SubSeq(s, 1, i + 1))
    OBVIOUS
  <2> DEFINE before == SubSeq(s, 1, i)
  <2>1. before \in Seq(S) /\ s[i + 1] \in S
    OBVIOUS
  <2>2. SubSeq(s, 1, i + 1) = Append(before, s[i + 1])
    OBVIOUS
  <2>3. f[i] \in V /\ f[i] = Fold(base, step, before)
    BY <1>2
  <2> DEFINE last == s[i + 1]
             next == SubSeq(s, 1, i + 1)
  <2> HIDE DEF before, last, next
  <2>4. f[i + 1] = step[s[i + 1]][f[i]]
    <3>1. i + 1 \in 1 .. Len(s) /\ (i + 1) - 1 = i
      OBVIOUS
    <3> QED BY <2>3, <3>1
  <2>5. before \in Seq(S) /\ last \in S /\ next = Append(before, last)
    BY <2>1, <2>2 DEF last, next
  <2>6. /\ Fold(base, step, before) \in V
        /\ Fold(base, step, Append(before, last)) = step[last][Fold(base, step, before)]
    BY <2>5, FoldAppend
  <2>7. step[last][Fold(base, step, before)] \in V
    BY <2>5, <2>6
  <2>8. f[i + 1] \in V /\ f[i + 1] = Fold(base, step, next)
    BY <2>3, <2>4, <2>5, <2>6, <2>7 DEF last
  <2> QED BY <2>8 DEF next
<1> HIDE DEF P
<1>3. \A i \in Nat : i \in P
  BY <1>1, <1>2, Induct
<1> SUFFICES ASSUME NEW i \in 0 .. Len(s)
             PROVE  f[i] \in V /\ f[i] = Fold(base, step, SubSeq(s, 1, i))
  OBVIOUS
<1>4. i \in P
  BY <1>3
<1> QED BY <1>4 DEF P

\* The same for the whole sequence.
FollowsFold(S, V, base, step, s, f) ==
    /\ base \in V /\ step \in [S -> [V -> V]] /\ s \in Seq(S)
    /\ f[0] = base
    /\ \A i \in 1 .. Len(s) : f[i - 1] \in V => f[i] = step[s[i]][f[i - 1]]

LEMMA FollowedFold ==
    ASSUME NEW S, NEW V, NEW base, NEW step, NEW s, NEW f, FollowsFold(S, V, base, step, s, f)
    PROVE  f[Len(s)] = Fold(base, step, s) /\ f[Len(s)] \in V
<1>1. base \in V
  BY DEF FollowsFold
<1>2. step \in [S -> [V -> V]]
  BY DEF FollowsFold
<1>3. s \in Seq(S)
  BY DEF FollowsFold
<1>4. f[0] = base
  BY DEF FollowsFold
<1>5. \A i \in 1 .. Len(s) : f[i - 1] \in V => f[i] = step[s[i]][f[i - 1]]
  BY DEF FollowsFold
<1>6. \A i \in 0 .. Len(s) : f[i] \in V /\ f[i] = Fold(base, step, SubSeq(s, 1, i))
  BY ONLY <1>1, <1>2, <1>3, <1>4, <1>5, FoldFrom
<1>7. SubSeq(s, 1, Len(s)) = s /\ Len(s) \in 0 .. Len(s)
  BY <1>3
<1> QED BY <1>6, <1>7

\* A property of sequences that holds of the empty one, and of a longer one if
\* of what it extends.
LEMMA SeqInduct ==
    ASSUME NEW S, NEW P, << >> \in P, \A s \in Seq(S) : \A e \in S : s \in P => Append(s, e) \in P
    PROVE  \A s \in Seq(S) : s \in P
<1> DEFINE Q == { n \in Nat : \A s \in Seq(S) : Len(s) = n => s \in P }
<1>1. 0 \in Q
  <2>1. \A s \in Seq(S) : Len(s) = 0 => s = << >>
    OBVIOUS
  <2> QED BY <2>1
<1>2. ASSUME NEW n \in Nat, n \in Q PROVE n + 1 \in Q
  <2> SUFFICES ASSUME NEW s \in Seq(S), Len(s) = n + 1 PROVE s \in P
    OBVIOUS
  <2> DEFINE t == SubSeq(s, 1, n)
  <2>1. t \in Seq(S) /\ Len(t) = n /\ s[n + 1] \in S
    OBVIOUS
  <2>2. s = Append(t, s[n + 1])
    OBVIOUS
  <2> HIDE DEF t
  <2>3. t \in P
    BY <1>2, <2>1
  <2> QED BY <2>1, <2>2, <2>3
<1> HIDE DEF Q
<1>3. \A n \in Nat : n \in Q
  BY <1>1, <1>2, Induct
<1> SUFFICES ASSUME NEW s \in Seq(S) PROVE s \in P
  OBVIOUS
<1>4. Len(s) \in Q
  BY <1>3
<1> QED BY <1>4 DEF Q
=============================================================================
