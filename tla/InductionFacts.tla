--------------------------- MODULE InductionFacts ---------------------------
(* Induction and recursion over the naturals, in terms of sets and          *)
(* functions.  They rest on one fact of the library: every nonempty set of  *)
(* naturals has a least element.                                            *)
EXTENDS Integers, FiniteSetsExt, WellFoundedInduction, TLAPS

\* A nonempty set of naturals has a least element ...
LEMMA HasLeast ==
  ASSUME NEW S, S \subseteq Nat, S # {}
  PROVE  \E m \in S : \A n \in S : m <= n
<1>1. PICK m \in S : \A n \in S : ~(<<n, m>> \in OpToRel(<, Nat))
  BY NatLessThanWellFounded, WFMin
<1>2. m \in Nat
  OBVIOUS
<1>3. ASSUME NEW n \in S PROVE m <= n
  <2>1. n \in Nat
    OBVIOUS
  <2>2. ~(n < m)
    BY <1>1, <1>2, <2>1 DEF OpToRel
  <2> QED BY <1>2, <2>1, <2>2
<1> QED BY <1>3

\* ... which is its Min,
LEMMA LeastElement ==
  ASSUME NEW S, S \subseteq Nat, S # {}
  PROVE  /\ Min(S) \in S
         /\ \A n \in S : Min(S) <= n
BY HasLeast DEF Min

\* ... and one with a bound has a greatest, which is its Max.
LEMMA GreatestElement ==
  ASSUME NEW n \in Nat, NEW S, S \subseteq 0 .. n, S # {}
  PROVE  /\ Max(S) \in S
         /\ \A x \in S : x <= Max(S)
<1> DEFINE fromEnd == {n - x : x \in S}
<1>1. fromEnd \subseteq Nat /\ fromEnd # {}
  <2>1. \A x \in S : n - x \in Nat
    OBVIOUS
  <2>2. PICK x \in S : TRUE
    OBVIOUS
  <2>3. n - x \in fromEnd
    OBVIOUS
  <2> QED BY <2>1, <2>3
<1>2. PICK m \in fromEnd : \A y \in fromEnd : m <= y
  BY <1>1, HasLeast
<1>3. PICK x \in S : m = n - x
  OBVIOUS
<1>4. \A y \in S : x >= y
  <2> SUFFICES ASSUME NEW y \in S PROVE x >= y
    OBVIOUS
  <2>1. n - x <= n - y
    BY <1>2, <1>3
  <2> QED BY <2>1
<1>5. Max(S) \in S /\ \A y \in S : Max(S) >= y
  BY <1>4 DEF Max
<1> QED BY <1>5

\* A set that holds 0 and with each natural the next holds them all.
LEMMA Induction ==
  ASSUME NEW S, 0 \in S, \A n \in Nat : n \in S => n + 1 \in S
  PROVE  \A n \in Nat : n \in S
<1> DEFINE T == Nat \ S
<1> SUFFICES ASSUME T # {} PROVE FALSE
  OBVIOUS
<1>1. PICK m \in T : \A n \in T : m <= n
  <2> HIDE DEF T
  <2>1. T \subseteq Nat
    BY DEF T
  <2> QED BY <2>1, HasLeast
<1>2. m # 0 /\ m - 1 \in Nat
  OBVIOUS
<1>3. m - 1 \in S
  BY <1>1, <1>2
<1>4. (m - 1) + 1 \in S
  BY <1>2, <1>3
<1> QED BY <1>4

\* A function of the naturals may be defined by its first value and a step
\* from each value to the next; the values are in T[0], T[1], ...
Stepwise(T, first, Step, n, g) ==
  /\ DOMAIN g = 0 .. n
  /\ g[0] = first
  /\ \A k \in 0 .. n : g[k] \in T[k]
  /\ \A k \in 0 .. n - 1 : g[k + 1] = Step[k][g[k]]

\* Two such functions agree as far as both go.
LEMMA SameSteps ==
  ASSUME NEW T, NEW first, NEW Step, NEW n \in Nat, NEW f, NEW g,
         Stepwise(T, first, Step, n, f), Stepwise(T, first, Step, n + 1, g)
  PROVE  f[n] = g[n]
<1> DEFINE Same == {k \in Nat : k <= n => f[k] = g[k]}
<1>1. 0 \in Same
  BY DEF Stepwise
<1>2. ASSUME NEW k \in Nat, k \in Same PROVE k + 1 \in Same
  <2> SUFFICES ASSUME k + 1 <= n PROVE f[k + 1] = g[k + 1]
    OBVIOUS
  <2>1. k \in 0 .. n - 1 /\ k \in 0 .. (n + 1) - 1 /\ f[k] = g[k]
    BY <1>2
  <2>2. f[k + 1] = Step[k][f[k]]
    BY <2>1 DEF Stepwise
  <2>3. g[k + 1] = Step[k][g[k]]
    BY <2>1 DEF Stepwise
  <2> QED BY <2>1, <2>2, <2>3
<1>3. \A k \in Nat : k \in Same
  <2> HIDE DEF Same
  <2> QED BY <1>1, <1>2, Induction
<1> QED BY <1>3

\* Each of them goes on for a step.
LEMMA OneStepMore ==
  ASSUME NEW T, NEW first \in T[0], NEW Step,
         \A n \in Nat : \A v \in T[n] : Step[n][v] \in T[n + 1],
         NEW n \in Nat, NEW g, Stepwise(T, first, Step, n, g)
  PROVE  \E f : Stepwise(T, first, Step, n + 1, f)
<1> DEFINE f == [k \in 0 .. n + 1 |-> IF k <= n THEN g[k] ELSE Step[n][g[n]]]
<1>1. g[0] = first /\ (\A k \in 0 .. n : g[k] \in T[k])
        /\ \A k \in 0 .. n - 1 : g[k + 1] = Step[k][g[k]]
  BY DEF Stepwise
<1>2. /\ DOMAIN f = 0 .. n + 1
      /\ \A k \in 0 .. n : f[k] = g[k]
      /\ f[n + 1] = Step[n][g[n]]
  OBVIOUS
<1> HIDE DEF f
<1>3. f[0] = first
  BY <1>1, <1>2
<1>4. ASSUME NEW k \in 0 .. n + 1 PROVE f[k] \in T[k]
  <2>1. CASE k \in 0 .. n
    BY <1>1, <1>2, <2>1
  <2>2. CASE k = n + 1
    BY <1>1, <1>2, <2>2
  <2> QED BY <2>1, <2>2
<1>5. ASSUME NEW k \in 0 .. (n + 1) - 1 PROVE f[k + 1] = Step[k][f[k]]
  <2>1. CASE k \in 0 .. n - 1
    <3>1. k \in 0 .. n /\ k + 1 \in 0 .. n
      BY <2>1
    <3> QED BY <1>1, <1>2, <2>1, <3>1
  <2>2. CASE k = n
    BY <1>2, <2>2
  <2> QED BY <2>1, <2>2
<1> QED BY <1>2, <1>3, <1>4, <1>5 DEF Stepwise

\* So there is a function of all naturals with that first value and those steps.
LEMMA Recursion ==
  ASSUME NEW T, NEW first \in T[0], NEW Step,
         \A n \in Nat : \A v \in T[n] : Step[n][v] \in T[n + 1]
  PROVE  \E h : /\ h = [n \in Nat |-> h[n]]
                /\ h[0] = first
                /\ \A n \in Nat : h[n] \in T[n] /\ h[n + 1] = Step[n][h[n]]
<1> DEFINE Upto(n, g) == Stepwise(T, first, Step, n, g)
           Reached == {n \in Nat : \E g : Upto(n, g)}
<1>1. \A n \in Nat : n \in Reached
  <2>1. 0 \in Reached
    <3> DEFINE g == [k \in 0 .. 0 |-> first]
    <3>1. Upto(0, g)
      BY DEF Stepwise
    <3> HIDE DEF g, Upto
    <3> QED BY <3>1
  <2>2. ASSUME NEW n \in Nat, n \in Reached
        PROVE  n + 1 \in Reached
    BY <2>2, OneStepMore
  <2> HIDE DEF Reached
  <2> QED BY <2>1, <2>2, Induction
<1> DEFINE approx == [n \in Nat |-> CHOOSE g : Upto(n, g)]
           h == [n \in Nat |-> approx[n][n]]
<1>2. ASSUME NEW n \in Nat PROVE Upto(n, approx[n])
  <2>1. \E g : Upto(n, g)
    BY <1>1
  <2> HIDE DEF Upto
  <2> QED BY <2>1
<1>3. h = [n \in Nat |-> h[n]] /\ \A n \in Nat : h[n] = approx[n][n]
  OBVIOUS
<1> HIDE DEF approx, h
<1>4. h[0] = first
  BY <1>2, <1>3 DEF Stepwise
<1>5. ASSUME NEW n \in Nat
      PROVE  h[n] \in T[n] /\ h[n + 1] = Step[n][h[n]]
  <2>1. Upto(n, approx[n]) /\ Upto(n + 1, approx[n + 1])
    BY <1>2
  <2>2. approx[n][n] = approx[n + 1][n]
    BY <2>1, SameSteps
  <2>3. approx[n][n] \in T[n] /\ approx[n + 1][n + 1] = Step[n][approx[n + 1][n]]
    BY <2>1 DEF Stepwise
  <2>4. h[n] = approx[n][n] /\ h[n + 1] = approx[n + 1][n + 1]
    BY <1>3
  <2> QED BY <2>2, <2>3, <2>4
<1> QED BY <1>3, <1>4, <1>5

=============================================================================
