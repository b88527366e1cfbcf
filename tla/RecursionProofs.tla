-------------------------- MODULE RecursionProofs --------------------------
(***************************************************************************)
(* Functions defined by recursion have values.  A loop of the code is a    *)
(* recursive function of the models, f == CHOOSE f : f = [...], of which   *)
(* nothing is known unless such an f exists.  The lemmas give one for the  *)
(* two shapes of the models: a loop until a condition holds, whose state   *)
(* is the argument, and a loop over a range of numbers, whose state is the *)
(* value.  Each comes with the induction that carries an invariant.        *)
(***************************************************************************)
EXTENDS Integers, FiniteSetsExt, WellFoundedInduction, TLAPS

\* Induction, for a set instead of a predicate.
LEMMA SetInduction ==
  ASSUME NEW S, 0 \in S, \A n \in Nat : n \in S => n + 1 \in S
  PROVE  Nat \subseteq S
<1> SUFFICES ASSUME Nat \ S # {} PROVE FALSE
  OBVIOUS
<1> DEFINE R == {ss \in Nat \X Nat : ss[1] < ss[2]}
<1>1. IsWellFoundedOn(R, Nat)
  BY NatLessThanWellFounded DEF OpToRel
<1>2. PICK x \in Nat \ S : \A y \in Nat \ S : <<y, x>> \notin R
  <2> HIDE DEF R
  <2> QED BY <1>1, WFMin
<1>3. x \in Nat /\ x # 0
  OBVIOUS
<1>4. <<x - 1, x>> \in R
  BY <1>3
<1>5. x - 1 \in S
  BY <1>2, <1>3, <1>4
<1> QED BY <1>3, <1>5

-----------------------------------------------------------------------------
(* Loops until a condition holds.  m[x] bounds the rounds left from x.     *)

IsLoop(f, D, Stop, out, next) == f = [x \in D |-> IF x \in Stop THEN out[x] ELSE f[next[x]]]

LEMMA LoopExists ==
  ASSUME NEW D, NEW Stop, NEW out, NEW next, NEW b \in Nat, NEW m,
         \A x \in D : m[x] \in 0..b,
         \A x \in D \ Stop : next[x] \in D /\ m[next[x]] < m[x]
  PROVE  \E f : IsLoop(f, D, Stop, out, next)
<1> DEFINE Body(f) == [x \in D |-> IF x \in Stop THEN out[x] ELSE f[next[x]]]
           S == {n \in Nat : \E f : \A x \in D : m[x] < n => f[x] = Body(f)[x]}
<1>1. 0 \in S
  BY DEF Body
<1>2. ASSUME NEW n \in Nat, n \in S PROVE n + 1 \in S
  <2>1. PICK f : \A x \in D : m[x] < n => f[x] = Body(f)[x]
    BY <1>2
  <2> DEFINE h == Body(f)
  <2>2. ASSUME NEW x \in D, m[x] < n + 1 PROVE h[x] = Body(h)[x]
    <3>1. CASE x \in Stop
      BY <3>1
    <3>2. CASE x \notin Stop
      <4>1. next[x] \in D /\ m[next[x]] < n
        BY <2>2, <3>2
      <4>2. f[next[x]] = h[next[x]]
        BY <2>1, <4>1
      <4>3. h[x] = f[next[x]]
        BY <3>2
      <4>4. Body(h)[x] = h[next[x]]
        <5> HIDE DEF h
        <5>. QED
          BY <3>2
      <4>. QED
        BY <4>2, <4>3, <4>4
    <3>. QED
      BY <3>1, <3>2
  <2> HIDE DEF h, Body
  <2>. QED
    BY <2>2
<1>3. b + 1 \in S
  <2> HIDE DEF S
  <2>1. Nat \subseteq S
    BY <1>1, <1>2, SetInduction
  <2>. QED
    BY <2>1
<1>4. PICK f : \A x \in D : f[x] = Body(f)[x]
  <2> HIDE DEF Body
  <2>. QED
    BY <1>3
<1>5. Body(f) = Body(Body(f))
  BY <1>4
<1>. QED
  BY <1>5 DEF IsLoop

\* What holds of the state in every round holds of the state in which the loop
\* stops.
LEMMA LoopEnds ==
  ASSUME NEW D, NEW Stop, NEW out, NEW next, NEW b \in Nat, NEW m,
         \A x \in D : m[x] \in 0..b,
         \A x \in D \ Stop : next[x] \in D /\ m[next[x]] < m[x],
         NEW f, IsLoop(f, D, Stop, out, next),
         NEW P \in SUBSET D, \A x \in P \ Stop : next[x] \in P,
         NEW start \in P
  PROVE  \E x \in P : x \in Stop /\ f[start] = out[x]
<1> USE DEF IsLoop
<1> DEFINE S == {n \in Nat : \A y \in P : m[y] < n => \E x \in P : x \in Stop /\ f[y] = out[x]}
<1>1. 0 \in S
  OBVIOUS
<1>2. ASSUME NEW n \in Nat, n \in S PROVE n + 1 \in S
  <2>1. ASSUME NEW y \in P, m[y] < n + 1
        PROVE  \E x \in P : x \in Stop /\ f[y] = out[x]
    <3>1. CASE y \in Stop
      BY <3>1
    <3>2. CASE y \notin Stop
      <4>1. next[y] \in P /\ m[next[y]] < n /\ f[y] = f[next[y]]
        BY <2>1, <3>2
      <4>. QED
        BY <1>2, <4>1
    <3>. QED
      BY <3>1, <3>2
  <2>. QED
    BY <2>1
<1>3. b + 1 \in S
  <2> HIDE DEF S
  <2>1. Nat \subseteq S
    BY <1>1, <1>2, SetInduction
  <2>. QED
    BY <2>1
<1>4. m[start] < b + 1
  OBVIOUS
<1>. QED
  BY <1>3, <1>4

-----------------------------------------------------------------------------
(* Loops over a range.  W[k] is what the value is known to be in at k.     *)

CountsUp(f, m, base, step) == f = [n \in 0..m |-> IF n = 0 THEN base ELSE step[n][f[n - 1]]]
CountsDown(f, lo, hi, base, step) ==
  f = [k \in lo..hi |-> IF k = hi THEN base ELSE step[k][f[k + 1]]]

LEMMA CountUpInvariant ==
  ASSUME NEW m \in Nat, NEW f, NEW W, f[0] \in W[0],
         \A n \in 1..m : f[n - 1] \in W[n - 1] => f[n] \in W[n]
  PROVE  \A n \in 0..m : f[n] \in W[n]
<1> DEFINE S == {n \in Nat : n <= m => f[n] \in W[n]}
<1>1. 0 \in S
  OBVIOUS
<1>2. ASSUME NEW n \in Nat, n \in S PROVE n + 1 \in S
  <2>1. CASE n + 1 <= m
    <3>1. n + 1 \in 1..m /\ (n + 1) - 1 = n
      BY <2>1
    <3>. QED
      BY <1>2, <2>1, <3>1
  <2>. QED
    BY <2>1
<1> HIDE DEF S
<1>3. Nat \subseteq S
  BY <1>1, <1>2, SetInduction
<1>. QED
  BY <1>3 DEF S

LEMMA CountUp ==
  ASSUME NEW m \in Nat, NEW W, NEW base \in W[0], NEW step,
         \A n \in 1..m : \A x \in W[n - 1] : step[n][x] \in W[n]
  PROVE  \E f : CountsUp(f, m, base, step) /\ \A n \in 0..m : f[n] \in W[n]
<1> DEFINE Body(f) == [n \in 0..m |-> IF n = 0 THEN base ELSE step[n][f[n - 1]]]
           S == {k \in Nat : \E f : \A n \in 0..m : n <= k => f[n] = Body(f)[n]}
<1>1. 0 \in S
  <2>1. \A n \in 0..m : n <= 0 => [x \in {0} |-> base][n] = Body([x \in {0} |-> base])[n]
    OBVIOUS
  <2>. QED
    BY <2>1
<1>2. ASSUME NEW k \in Nat, k \in S PROVE k + 1 \in S
  <2>1. PICK f : \A n \in 0..m : n <= k => f[n] = Body(f)[n]
    BY <1>2
  <2> DEFINE h == Body(f)
  <2>2. ASSUME NEW n \in 0..m, n <= k + 1 PROVE h[n] = Body(h)[n]
    <3>1. CASE n = 0
      BY <3>1
    <3>2. CASE n # 0
      <4>1. n - 1 \in 0..m /\ n - 1 <= k
        BY <2>2, <3>2
      <4>2. f[n - 1] = h[n - 1]
        BY <2>1, <4>1
      <4>3. h[n] = step[n][f[n - 1]]
        BY <3>2
      <4>4. Body(h)[n] = step[n][h[n - 1]]
        <5> HIDE DEF h
        <5>. QED
          BY <3>2
      <4>. QED
        BY <4>2, <4>3, <4>4
    <3>. QED
      BY <3>1, <3>2
  <2> HIDE DEF h, Body
  <2>. QED
    BY <2>2
<1>3. m \in S
  <2> HIDE DEF S
  <2>1. Nat \subseteq S
    BY <1>1, <1>2, SetInduction
  <2>. QED
    BY <2>1
<1>4. PICK f : \A n \in 0..m : f[n] = Body(f)[n]
  <2> HIDE DEF Body
  <2>. QED
    BY <1>3
<1> DEFINE h == Body(f)
<1>5. h = Body(h)
  BY <1>4
<1> HIDE DEF h
<1>6. h[0] \in W[0]
  BY <1>5
<1>7. \A n \in 1..m : h[n - 1] \in W[n - 1] => h[n] \in W[n]
  BY <1>5
<1>8. \A n \in 0..m : h[n] \in W[n]
  BY <1>6, <1>7, CountUpInvariant
<1>9. CountsUp(h, m, base, step)
  BY <1>5 DEF CountsUp
<1>. QED
  BY <1>8, <1>9

LEMMA CountDownInvariant ==
  ASSUME NEW lo \in Int, NEW hi \in Int, lo <= hi, NEW f, NEW W, f[hi] \in W[hi],
         \A k \in lo..(hi - 1) : f[k + 1] \in W[k + 1] => f[k] \in W[k]
  PROVE  \A k \in lo..hi : f[k] \in W[k]
<1> DEFINE g == [n \in 0..(hi - lo) |-> f[hi - n]]
           V == [n \in 0..(hi - lo) |-> W[hi - n]]
<1>1. g[0] \in V[0]
  BY Z3
<1>2. ASSUME NEW n \in 1..(hi - lo), g[n - 1] \in V[n - 1] PROVE g[n] \in V[n]
  <2>1. hi - n \in lo..(hi - 1) /\ hi - (n - 1) = (hi - n) + 1
    OBVIOUS
  <2>2. f[(hi - n) + 1] \in W[(hi - n) + 1]
    BY <1>2, <2>1
  <2>. QED
    BY <2>1, <2>2
<1> HIDE DEF g, V
<1>3. \A n \in 0..(hi - lo) : g[n] \in V[n]
  BY <1>1, <1>2, CountUpInvariant
<1>4. ASSUME NEW k \in lo..hi PROVE f[k] \in W[k]
  <2>1. hi - k \in 0..(hi - lo) /\ hi - (hi - k) = k
    OBVIOUS
  <2>. QED
    BY <1>3, <2>1 DEF g, V
<1>. QED
  BY <1>4

LEMMA CountDown ==
  ASSUME NEW lo \in Int, NEW hi \in Int, lo <= hi, NEW W, NEW base \in W[hi], NEW step,
         \A k \in lo..(hi - 1) : \A x \in W[k + 1] : step[k][x] \in W[k]
  PROVE  \E f : CountsDown(f, lo, hi, base, step) /\ \A k \in lo..hi : f[k] \in W[k]
<1> DEFINE V == [n \in 0..(hi - lo) |-> W[hi - n]]
           st == [n \in 1..(hi - lo) |-> step[hi - n]]
<1>1. base \in V[0]
  BY Z3
<1>2. ASSUME NEW n \in 1..(hi - lo), NEW x \in V[n - 1] PROVE st[n][x] \in V[n]
  <2>1. hi - n \in lo..(hi - 1) /\ hi - (n - 1) = (hi - n) + 1
    OBVIOUS
  <2>2. x \in W[(hi - n) + 1]
    BY <2>1
  <2>. QED
    BY <2>1, <2>2
<1> HIDE DEF V, st
<1>3. PICK g : CountsUp(g, hi - lo, base, st) /\ \A n \in 0..(hi - lo) : g[n] \in V[n]
  <2>1. hi - lo \in Nat
    OBVIOUS
  <2>. QED
    BY <1>1, <1>2, <2>1, CountUp
<1> DEFINE f == [k \in lo..hi |-> g[hi - k]]
<1>4. ASSUME NEW k \in lo..hi
      PROVE  f[k] = (IF k = hi THEN base ELSE step[k][f[k + 1]]) /\ f[k] \in W[k]
  <2>1. hi - k \in 0..(hi - lo) /\ hi - (hi - k) = k /\ f[k] = g[hi - k]
    OBVIOUS
  <2>2. f[k] \in W[k]
    BY <1>3, <2>1 DEF V
  <2>3. CASE k = hi
    <3>1. hi - k = 0
      BY <2>3
    <3>2. g[0] = base
      BY <1>3 DEF CountsUp
    <3>. QED
      BY <2>1, <2>2, <2>3, <3>1, <3>2
  <2>4. CASE k # hi
    <3>1. hi - k \in 1..(hi - lo) /\ k + 1 \in lo..hi /\ hi - (k + 1) = (hi - k) - 1
      BY <2>4
    <3>2. g[hi - k] = st[hi - k][g[(hi - k) - 1]]
      BY <1>3, <3>1 DEF CountsUp
    <3>3. f[k + 1] = g[(hi - k) - 1]
      BY <3>1
    <3>4. st[hi - k] = step[k]
      BY <2>1, <3>1 DEF st
    <3>. QED
      BY <2>1, <2>2, <2>4, <3>2, <3>3, <3>4
  <2>. QED
    BY <2>3, <2>4
<1>5. CountsDown(f, lo, hi, base, step)
  BY <1>4 DEF CountsDown
<1> HIDE DEF f
<1>. QED
  BY <1>4, <1>5

-----------------------------------------------------------------------------
(* Smallest and largest *)

LEMMA MinOfTwo ==
  ASSUME NEW k \in Int, NEW j \in Int
  PROVE  Min({k, j}) = IF k <= j THEN k ELSE j
<1> DEFINE m == IF k <= j THEN k ELSE j
<1>1. m \in {k, j} /\ \A y \in {k, j} : m <= y
  OBVIOUS
<1>2. \A x \in {k, j} : (\A y \in {k, j} : x <= y) => x = m
  OBVIOUS
<1>. QED
  BY <1>1, <1>2 DEF Min

LEMMA MaxOfTwo ==
  ASSUME NEW k \in Int, NEW j \in Int
  PROVE  Max({k, j}) = IF k >= j THEN k ELSE j
<1> DEFINE m == IF k >= j THEN k ELSE j
<1>1. m \in {k, j} /\ \A y \in {k, j} : m >= y
  OBVIOUS
<1>2. \A x \in {k, j} : (\A y \in {k, j} : x >= y) => x = m
  OBVIOUS
<1>. QED
  BY <1>1, <1>2 DEF Max

\* A set of naturals has a least element, which is its Min.
LEMMA MinIsLeast ==
  ASSUME NEW S \in SUBSET Nat, S # {}
  PROVE  Min(S) \in S /\ \A y \in S : Min(S) <= y
<1> DEFINE R == {ss \in Nat \X Nat : ss[1] < ss[2]}
<1>1. IsWellFoundedOn(R, Nat)
  BY NatLessThanWellFounded DEF OpToRel
<1>2. PICK x \in S : \A y \in S : <<y, x>> \notin R
  <2> HIDE DEF R
  <2> QED BY <1>1, WFMin
<1>3. \A y \in S : x <= y
  <2> SUFFICES ASSUME NEW y \in S PROVE x <= y
    OBVIOUS
  <2>1. <<y, x>> \in R <=> y < x
    OBVIOUS
  <2>. QED
    BY <1>2, <2>1
<1>. QED
  BY <1>2, <1>3 DEF Min

\* A bounded set of naturals has a largest element, which is its Max.
LEMMA MaxIsLargest ==
  ASSUME NEW S \in SUBSET Nat, S # {}, NEW b \in Nat, \A x \in S : x <= b
  PROVE  Max(S) \in S /\ \A x \in S : x <= Max(S)
<1> DEFINE T == {k \in Nat : (\A x \in S : x <= k) => \E m \in S : \A y \in S : m >= y}
<1>1. 0 \in T
  <2> SUFFICES ASSUME \A x \in S : x <= 0
               PROVE  \E m \in S : \A y \in S : m >= y
    OBVIOUS
  <2>1. PICK x \in S : TRUE
    OBVIOUS
  <2>2. \A y \in S : y = 0
    OBVIOUS
  <2>. QED
    BY <2>1, <2>2
<1>2. ASSUME NEW k \in Nat, k \in T PROVE k + 1 \in T
  <2> SUFFICES ASSUME \A x \in S : x <= k + 1
               PROVE  \E m \in S : \A y \in S : m >= y
    OBVIOUS
  <2>1. CASE k + 1 \in S
    BY <2>1
  <2>2. CASE k + 1 \notin S
    <3>1. \A x \in S : x <= k
      BY <2>2
    <3>. QED
      BY <1>2, <3>1
  <2>. QED
    BY <2>1, <2>2
<1>3. b \in T
  <2> HIDE DEF T
  <2>1. Nat \subseteq T
    BY <1>1, <1>2, SetInduction
  <2>. QED
    BY <2>1
<1>4. \E m \in S : \A y \in S : m >= y
  BY <1>3
<1>5. Max(S) \in S /\ \A y \in S : Max(S) >= y
  BY <1>4 DEF Max
<1>. QED
  BY <1>5
=============================================================================
