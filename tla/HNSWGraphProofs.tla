--------------------------- MODULE HNSWGraphProofs ---------------------------
(***************************************************************************)
(* Theorems about HNSWGraph, for vectors no two of which are equally       *)
(* similar to a third, any M and ef, any order of inserts and deletes, and *)
(* any levels drawn.  The loops of the code are recursive functions of the *)
(* model: each has a lemma that says what it returns, from the lemmas of   *)
(* RecursionProofs on loops and a bound on its rounds, so each of them     *)
(* also ends.                                                              *)
(***************************************************************************)
EXTENDS HNSWGraph, RecursionProofs, FiniteSetTheorems

-----------------------------------------------------------------------------
(* Scores *)

\* The nodes of g are scored by q, no two alike.
Scored(g, q) ==
  \A i, j \in DOMAIN g : Score(g, q, i) \in Int /\ (i # j => Score(g, q, i) # Score(g, q, j))

\* A finite set of nodes has a nearest and a farthest one.
LEMMA EndsExist ==
  ASSUME NEW g, NEW q, Scored(g, q), NEW S \in SUBSET DOMAIN g, IsFiniteSet(S), S # {}
  PROVE  /\ \E i \in S : \A j \in S : Score(g, q, i) >= Score(g, q, j)
         /\ \E i \in S : \A j \in S : Score(g, q, i) <= Score(g, q, j)
<1> DEFINE HasEnds(A) == /\ \E i \in A : \A j \in A : Score(g, q, i) >= Score(g, q, j)
                         /\ \E i \in A : \A j \in A : Score(g, q, i) <= Score(g, q, j)
           T == {n \in Nat : \A A \in SUBSET S : A # {} /\ Cardinality(A) = n => HasEnds(A)}
<1>1. 0 \in T
  <2>1. \A A \in SUBSET S : Cardinality(A) = 0 => A = {}
    BY FS_Subset, FS_EmptySet
  <2>. QED
    BY <2>1
<1>2. ASSUME NEW n \in Nat, n \in T PROVE n + 1 \in T
  <2>1. ASSUME NEW A \in SUBSET S, A # {}, Cardinality(A) = n + 1 PROVE HasEnds(A)
    <3>1. PICK x \in A : TRUE
      BY <2>1
    <3>2. IsFiniteSet(A) /\ Cardinality(A \ {x}) = n
      <4>1. IsFiniteSet(A)
        BY FS_Subset
      <4>2. Cardinality(A \ {x}) = Cardinality(A) - 1
        BY <4>1, FS_RemoveElement
      <4>. QED
        BY <2>1, <4>1, <4>2
    <3>3. Score(g, q, x) \in Int /\ \A y \in A : Score(g, q, y) \in Int
      BY DEF Scored
    <3>4. CASE A \ {x} = {}
      <4>1. \A j \in A : j = x
        BY <3>4
      <4>. QED
        BY <3>1, <3>3, <4>1
    <3>5. CASE A \ {x} # {}
      <4>1. HasEnds(A \ {x})
        BY <1>2, <3>2, <3>5
      <4>2. PICK i \in A \ {x} : \A j \in A \ {x} : Score(g, q, i) >= Score(g, q, j)
        BY <4>1
      <4>3. PICK k \in A \ {x} : \A j \in A \ {x} : Score(g, q, k) <= Score(g, q, j)
        BY <4>1
      <4>4. \E e \in A : \A j \in A : Score(g, q, e) >= Score(g, q, j)
        <5>1. CASE Score(g, q, i) >= Score(g, q, x)
          BY <4>2, <5>1
        <5>2. CASE ~(Score(g, q, i) >= Score(g, q, x))
          <6>1. \A j \in A : Score(g, q, x) >= Score(g, q, j)
            BY <3>3, <4>2, <5>2
          <6>. QED
            BY <3>1, <6>1
        <5>. QED
          BY <5>1, <5>2
      <4>5. \E e \in A : \A j \in A : Score(g, q, e) <= Score(g, q, j)
        <5>1. CASE Score(g, q, k) <= Score(g, q, x)
          BY <4>3, <5>1
        <5>2. CASE ~(Score(g, q, k) <= Score(g, q, x))
          <6>1. \A j \in A : Score(g, q, x) <= Score(g, q, j)
            BY <3>3, <4>3, <5>2
          <6>. QED
            BY <3>1, <6>1
        <5>. QED
          BY <5>1, <5>2
      <4>. QED
        BY <4>4, <4>5
    <3>. QED
      BY <3>4, <3>5
  <2>. QED
    BY <2>1
<1>3. Cardinality(S) \in T
  <2> HIDE DEF T
  <2>1. Nat \subseteq T
    BY <1>1, <1>2, SetInduction
  <2>. QED
    BY <2>1, FS_CardinalityType
<1>. QED
  BY <1>3

\* Hence Nearest and Farthest are what they say.
LEMMA Ends ==
  ASSUME NEW g, NEW q, Scored(g, q), NEW S \in SUBSET DOMAIN g, IsFiniteSet(S), S # {}
  PROVE  /\ Nearest(g, q, S) \in S
         /\ \A j \in S : Score(g, q, Nearest(g, q, S)) >= Score(g, q, j)
         /\ Farthest(g, q, S) \in S
         /\ \A j \in S : Score(g, q, Farthest(g, q, S)) <= Score(g, q, j)
BY EndsExist DEF Nearest, Farthest

\* Best takes n nodes, or all there are.
LEMMA BestSize ==
  ASSUME NEW g, NEW q, Scored(g, q), NEW S \in SUBSET DOMAIN g, IsFiniteSet(S), NEW n \in Nat
  PROVE  /\ Best(g, q, S, n) \subseteq S
         /\ Cardinality(Best(g, q, S, n)) = IF Cardinality(S) <= n THEN Cardinality(S) ELSE n
<1> DEFINE Above(A, i) == {j \in A : Score(g, q, j) > Score(g, q, i)}
           T == {k \in Nat : \A A \in SUBSET S : Cardinality(A) = k =>
                   Cardinality(Best(g, q, A, n)) = IF k <= n THEN k ELSE n}
<1>1. \A A \in SUBSET S : IsFiniteSet(A) /\ Cardinality(A) \in Nat
  BY FS_Subset, FS_CardinalityType
<1>2. 0 \in T
  <2>1. ASSUME NEW A \in SUBSET S, Cardinality(A) = 0 PROVE Best(g, q, A, n) = {}
    BY <1>1, <2>1, FS_EmptySet DEF Best
  <2>. QED
    BY <2>1, FS_EmptySet
<1>3. ASSUME NEW k \in Nat, k \in T PROVE k + 1 \in T
  <2>1. ASSUME NEW A \in SUBSET S, Cardinality(A) = k + 1
        PROVE  Cardinality(Best(g, q, A, n)) = IF k + 1 <= n THEN k + 1 ELSE n
    <3>0. A # {}
      BY <2>1, FS_EmptySet
    <3> DEFINE x == Farthest(g, q, A)
               B == A \ {x}
    <3>1. x \in A /\ \A j \in A : Score(g, q, x) <= Score(g, q, j)
      BY <1>1, <3>0, Ends
    <3> HIDE DEF x
    <3>2. Cardinality(B) = k /\ B \in SUBSET S
      <4>1. Cardinality(B) = Cardinality(A) - 1
        BY <1>1, <3>1, FS_RemoveElement
      <4>. QED
        BY <2>1, <4>1
    <3>3. \A j \in B : Score(g, q, j) > Score(g, q, x)
      BY <3>1 DEF Scored
    <3>4. Above(A, x) = B
      BY <3>1, <3>3 DEF Scored
    <3>5. \A i \in B : Above(A, i) = Above(B, i)
      BY <3>1, <3>3 DEF Scored
    <3>6. Best(g, q, A, n) = Best(g, q, B, n) \cup (IF k < n THEN {x} ELSE {})
      BY <3>1, <3>2, <3>4, <3>5 DEF Best
    <3>7. Cardinality(Best(g, q, B, n)) = IF k <= n THEN k ELSE n
      BY <1>3, <3>2
    <3>8. Best(g, q, B, n) \in SUBSET B
      BY DEF Best
    <3>9. IsFiniteSet(Best(g, q, B, n))
      BY <1>1, <3>2, <3>8, FS_Subset
    <3>10. CASE k < n
      <4>1. Cardinality(Best(g, q, B, n) \cup {x}) = Cardinality(Best(g, q, B, n)) + 1
        BY <3>8, <3>9, FS_AddElement
      <4>. QED
        BY <3>6, <3>7, <3>10, <4>1
    <3>11. CASE ~(k < n)
      BY <3>6, <3>7, <3>11
    <3>. QED
      BY <3>10, <3>11
  <2>. QED
    BY <2>1
<1>4. Cardinality(S) \in T
  <2> HIDE DEF T
  <2>1. Nat \subseteq T
    BY <1>2, <1>3, SetInduction
  <2>. QED
    BY <1>1, <2>1
<1>5. Best(g, q, S, n) \subseteq S
  BY DEF Best
<1>. QED
  BY <1>4, <1>5

-----------------------------------------------------------------------------
(* Walks *)

LinksIn(g, lc) == \A i \in DOMAIN g : Links(g, i, lc) \subseteq DOMAIN g

\* No link leads out of C.
Closed(g, lc, C) == \A i \in C : Links(g, i, lc) \subseteq C

\* A greedy walk that starts in a closed part of the layer ends in it.
LEMMA GreedyStays ==
  ASSUME NEW g, IsFiniteSet(DOMAIN g), NEW q, Scored(g, q), NEW lc, LinksIn(g, lc),
         NEW C \in SUBSET DOMAIN g, Closed(g, lc, C), NEW ep \in C
  PROVE  GreedyClosest(g, q, ep, lc) \in C
<1> DEFINE D == DOMAIN g
           Stop == {i \in D : Better(g, q, i, lc) = {}}
           out == [i \in D |-> i]
           next == [i \in D |-> Nearest(g, q, Better(g, q, i, lc))]
           Above(i) == {j \in D : Score(g, q, j) > Score(g, q, i)}
           m == [i \in D |-> Cardinality(Above(i))]
           b == Cardinality(D)
<1>1. \A i \in D : Better(g, q, i, lc) \in SUBSET D
  BY DEF Better, LinksIn
<1>2. b \in Nat /\ \A i \in D : m[i] \in 0..b
  BY FS_Subset, FS_CardinalityType
<1>3. ASSUME NEW i \in D \ Stop PROVE next[i] \in Better(g, q, i, lc) /\ m[next[i]] < m[i]
  <2> DEFINE c == next[i]
  <2>1. c \in Better(g, q, i, lc)
    BY <1>1, FS_Subset, Ends
  <2>2. c \in D /\ Score(g, q, c) > Score(g, q, i)
    BY <1>1, <2>1 DEF Better
  <2> HIDE DEF c
  <2>3. Above(c) \in SUBSET (Above(i) \ {c}) /\ c \in Above(i) /\ IsFiniteSet(Above(i))
    BY <2>2, FS_Subset DEF Scored
  <2>4. Cardinality(Above(i) \ {c}) = Cardinality(Above(i)) - 1
    BY <2>3, FS_RemoveElement
  <2>5. /\ IsFiniteSet(Above(i) \ {c})
        /\ Cardinality(Above(c)) <= Cardinality(Above(i) \ {c})
    BY <2>3, FS_RemoveElement, FS_Subset
  <2>6. Cardinality(Above(c)) \in Nat /\ Cardinality(Above(i)) \in Nat
    BY <2>3, <2>5, FS_Subset, FS_CardinalityType
  <2>. QED
    BY <2>1, <2>2, <2>4, <2>5, <2>6 DEF c
<1>4. \A i \in D \ Stop : next[i] \in D /\ m[next[i]] < m[i]
  BY <1>1, <1>3
<1>5. \A i \in C \ Stop : next[i] \in C
  BY <1>3 DEF Closed, Better
<1> DEFINE W == CHOOSE walk : walk =
                  [i \in DOMAIN g |->
                     IF Better(g, q, i, lc) = {} THEN i ELSE walk[Nearest(g, q, Better(g, q, i, lc))]]
<1>6. IsLoop(W, D, Stop, out, next)
  <2>1. PICK f : IsLoop(f, D, Stop, out, next)
    <3> HIDE DEF Stop, out, next, m, b
    <3>. QED
      BY <1>2, <1>4, LoopExists
  <2>2. f = [i \in DOMAIN g |->
               IF Better(g, q, i, lc) = {} THEN i ELSE f[Nearest(g, q, Better(g, q, i, lc))]]
    BY <2>1 DEF IsLoop
  <2>3. W = [i \in DOMAIN g |->
               IF Better(g, q, i, lc) = {} THEN i ELSE W[Nearest(g, q, Better(g, q, i, lc))]]
    BY <2>2
  <2> HIDE DEF W
  <2>. QED
    BY <2>3 DEF IsLoop
<1>7. \E x \in C : x \in Stop /\ W[ep] = out[x]
  <2> HIDE DEF Stop, out, next, m, b, W
  <2>. QED
    BY <1>2, <1>4, <1>5, <1>6, LoopEnds
<1>8. W[ep] \in C
  <2> HIDE DEF W
  <2>. QED
    BY <1>7
<1>. QED
  BY <1>8 DEF GreedyClosest

\* Each round of searchLayer takes a candidate off the heap and puts on only
\* nodes it had not seen.
Left(g, s) == 2 * Cardinality(DOMAIN g \ s.visited) + Cardinality(s.cands)

LEMMA ExpandShrinks ==
  ASSUME NEW g, IsFiniteSet(DOMAIN g), NEW q, Scored(g, q), NEW lc, LinksIn(g, lc),
         NEW ef, NEW s \in SearchState(g), ~Finished(g, q, s)
  PROVE  /\ Expand(g, q, ef, lc, s) \in SearchState(g)
         /\ Left(g, Expand(g, q, ef, lc, s)) < Left(g, s)
<1> DEFINE D == DOMAIN g
           c == Nearest(g, q, s.cands)
           new == Links(g, c, lc) \ s.visited
           kept == Best(g, q, s.found \cup new, ef)
           cands == (s.cands \ {c}) \cup (new \cap kept)
           U == D \ s.visited
<1>1. s.cands \in SUBSET D /\ s.found \in SUBSET D /\ s.visited \in SUBSET D /\ s.cands # {}
  BY DEF SearchState, Finished
<1>2. \A A \in SUBSET D : IsFiniteSet(A) /\ Cardinality(A) \in Nat
  BY FS_Subset, FS_CardinalityType
<1>3. c \in s.cands
  BY <1>1, <1>2, Ends
<1>4. new \in SUBSET U /\ kept \in SUBSET D
  BY <1>1, <1>3 DEF LinksIn, Best
<1>5. Expand(g, q, ef, lc, s) = [cands |-> cands, found |-> kept, visited |-> s.visited \cup new]
  BY DEF Expand
<1> HIDE DEF c, new, kept
<1>6. Expand(g, q, ef, lc, s) \in SearchState(g)
  BY <1>1, <1>4, <1>5 DEF SearchState
<1>7. Cardinality(D \ (s.visited \cup new)) = Cardinality(U) - Cardinality(new)
  <2>1. D \ (s.visited \cup new) = U \ new /\ U \cap new = new
    BY <1>4
  <2>. QED
    BY <1>2, <2>1, FS_Difference
<1>8. Cardinality(cands) <= Cardinality(s.cands) - 1 + Cardinality(new)
  <2>1. Cardinality(s.cands \ {c}) = Cardinality(s.cands) - 1
    BY <1>1, <1>2, <1>3, FS_RemoveElement
  <2>2. Cardinality(new \cap kept) <= Cardinality(new)
    BY <1>2, <1>4, FS_Intersection
  <2>3. Cardinality(cands) = Cardinality(s.cands \ {c}) + Cardinality(new \cap kept)
                             - Cardinality((s.cands \ {c}) \cap (new \cap kept))
    <3>1. IsFiniteSet(s.cands \ {c}) /\ IsFiniteSet(new \cap kept)
      BY <1>1, <1>2, <1>4
    <3>. QED
      BY <3>1, FS_Union
  <2>4. /\ Cardinality((s.cands \ {c}) \cap (new \cap kept)) \in Nat
        /\ Cardinality(new \cap kept) \in Nat /\ Cardinality(new) \in Nat
        /\ Cardinality(s.cands) \in Nat
    BY <1>1, <1>2, <1>4
  <2>. QED
    BY <2>1, <2>2, <2>3, <2>4
<1>9. /\ Cardinality(cands) \in Nat /\ Cardinality(s.cands) \in Nat
      /\ Cardinality(U) \in Nat /\ Cardinality(new) \in Nat
  BY <1>1, <1>2, <1>4
<1>10. /\ Left(g, s) = 2 * Cardinality(U) + Cardinality(s.cands)
       /\ Left(g, Expand(g, q, ef, lc, s))
          = 2 * (Cardinality(U) - Cardinality(new)) + Cardinality(cands)
  BY <1>5, <1>7 DEF Left
<1>. QED
  BY <1>6, <1>8, <1>9, <1>10

\* What every round of searchLayer keeps holds of the nodes it found at last.
LEMMA SearchEnds ==
  ASSUME NEW g, IsFiniteSet(DOMAIN g), NEW q, Scored(g, q), NEW lc, LinksIn(g, lc),
         NEW ef, NEW P \in SUBSET SearchState(g),
         \A s \in P : ~Finished(g, q, s) => Expand(g, q, ef, lc, s) \in P,
         NEW ep, [cands |-> {ep}, found |-> {ep}, visited |-> {ep}] \in P
  PROVE  \E s \in P : Finished(g, q, s) /\ SearchLayer(g, q, ep, ef, lc) = s.found
<1> DEFINE D == SearchState(g)
           start == [cands |-> {ep}, found |-> {ep}, visited |-> {ep}]
           Stop == {s \in D : Finished(g, q, s)}
           out == [s \in D |-> s.found]
           next == [s \in D |-> Expand(g, q, ef, lc, s)]
           m == [s \in D |-> Left(g, s)]
           b == 3 * Cardinality(DOMAIN g)
<1>1. b \in Nat /\ \A s \in D : m[s] \in 0..b
  <2>1. Cardinality(DOMAIN g) \in Nat
    BY FS_CardinalityType
  <2>2. ASSUME NEW s \in D PROVE Left(g, s) \in 0..b
    <3>1. s.cands \in SUBSET DOMAIN g /\ (DOMAIN g \ s.visited) \in SUBSET DOMAIN g
      BY DEF SearchState
    <3>2. /\ Cardinality(s.cands) \in Nat /\ Cardinality(s.cands) <= Cardinality(DOMAIN g)
          /\ Cardinality(DOMAIN g \ s.visited) \in Nat
          /\ Cardinality(DOMAIN g \ s.visited) <= Cardinality(DOMAIN g)
      BY <3>1, FS_Subset, FS_CardinalityType
    <3>. QED
      BY <2>1, <3>2 DEF Left
  <2>. QED
    BY <2>1, <2>2
<1>2. \A s \in D \ Stop : next[s] \in D /\ m[next[s]] < m[s]
  BY ExpandShrinks
<1>3. \A s \in P \ Stop : next[s] \in P
  OBVIOUS
<1> DEFINE W == CHOOSE explore : explore =
                  [s \in SearchState(g) |->
                     IF Finished(g, q, s) THEN s.found ELSE explore[Expand(g, q, ef, lc, s)]]
<1>4. IsLoop(W, D, Stop, out, next)
  <2>1. PICK f : IsLoop(f, D, Stop, out, next)
    <3> HIDE DEF D, Stop, out, next, m, b
    <3>. QED
      BY <1>1, <1>2, LoopExists
  <2>2. f = [s \in SearchState(g) |->
               IF Finished(g, q, s) THEN s.found ELSE f[Expand(g, q, ef, lc, s)]]
    BY <2>1 DEF IsLoop
  <2>3. W = [s \in SearchState(g) |->
               IF Finished(g, q, s) THEN s.found ELSE W[Expand(g, q, ef, lc, s)]]
    BY <2>2
  <2> HIDE DEF W
  <2>. QED
    BY <2>3 DEF IsLoop
<1>5. \E s \in P : s \in Stop /\ W[start] = out[s]
  <2> HIDE DEF D, Stop, out, next, m, b, W, start
  <2>1. start \in P /\ P \in SUBSET D
    BY DEF start, D
  <2>. QED
    BY <1>1, <1>2, <1>3, <1>4, <2>1, LoopEnds
<1>6. SearchLayer(g, q, ep, ef, lc) = W[start]
  BY DEF SearchLayer
<1> HIDE DEF W, start
<1>. QED
  BY <1>5, <1>6

\* A search does not leave a closed part of the layer, and finds something.
LEMMA SearchStays ==
  ASSUME NEW g, IsFiniteSet(DOMAIN g), NEW q, Scored(g, q), NEW lc, LinksIn(g, lc),
         NEW C \in SUBSET DOMAIN g, Closed(g, lc, C), NEW ep \in C, NEW ef \in Nat \ {0}
  PROVE  SearchLayer(g, q, ep, ef, lc) \subseteq C /\ SearchLayer(g, q, ep, ef, lc) # {}
<1> DEFINE P == {s \in SearchState(g) : /\ s.cands \subseteq C /\ s.found \subseteq C
                                        /\ s.found # {}}
<1>1. ASSUME NEW s \in P, ~Finished(g, q, s) PROVE Expand(g, q, ef, lc, s) \in P
  <2> DEFINE c == Nearest(g, q, s.cands)
             new == Links(g, c, lc) \ s.visited
             kept == Best(g, q, s.found \cup new, ef)
  <2>1. Expand(g, q, ef, lc, s) = [cands |-> (s.cands \ {c}) \cup (new \cap kept),
                                   found |-> kept, visited |-> s.visited \cup new]
    BY DEF Expand
  <2>2. c \in s.cands
    BY <1>1, FS_Subset, Ends DEF Finished, SearchState
  <2>3. new \subseteq C /\ s.found \cup new \in SUBSET DOMAIN g
    BY <2>2 DEF Closed
  <2>4. kept \subseteq s.found \cup new
    BY DEF Best
  <2>5. kept # {}
    <3>1. IsFiniteSet(s.found \cup new)
      BY <2>3, FS_Subset
    <3>2. Cardinality(s.found \cup new) \in Nat \ {0}
      BY <3>1, FS_CardinalityType, FS_EmptySet
    <3>3. Cardinality(kept) # 0
      BY <2>3, <3>1, <3>2, BestSize
    <3>. QED
      BY <3>3, FS_EmptySet
  <2>6. Expand(g, q, ef, lc, s) \in SearchState(g)
    BY <1>1, ExpandShrinks
  <2> HIDE DEF c, new, kept
  <2>. QED
    BY <2>1, <2>3, <2>4, <2>5, <2>6
<1>2. [cands |-> {ep}, found |-> {ep}, visited |-> {ep}] \in P
  BY DEF SearchState
<1>3. \E s \in P : Finished(g, q, s) /\ SearchLayer(g, q, ep, ef, lc) = s.found
  <2>1. P \in SUBSET SearchState(g)
    OBVIOUS
  <2> HIDE DEF P
  <2>. QED
    BY <1>1, <1>2, <2>1, SearchEnds
<1>. QED
  BY <1>3

\* A search that finds less than ef nodes has seen all that can be reached.
LEMMA SearchCovers ==
  ASSUME NEW g, IsFiniteSet(DOMAIN g), NEW q, Scored(g, q), NEW lc, LinksIn(g, lc),
         NEW ep \in DOMAIN g, NEW ef \in Nat \ {0}
  PROVE  LET found == SearchLayer(g, q, ep, ef, lc)
         IN  /\ found \subseteq DOMAIN g
             /\ Cardinality(found) = ef \/ (ep \in found /\ Closed(g, lc, found))
<1> DEFINE Small(s) == Cardinality(s.visited) <= ef
           Known(s) == /\ ep \in s.visited /\ s.cands \subseteq s.visited
                       /\ s.found = s.visited
                       /\ \A i \in s.visited \ s.cands : Links(g, i, lc) \subseteq s.visited
           P == {s \in SearchState(g) :
                   /\ s.found \subseteq s.visited
                   /\ IF Small(s) THEN Known(s) ELSE Cardinality(s.found) = ef}
<1>1. \A A \in SUBSET DOMAIN g : IsFiniteSet(A) /\ Cardinality(A) \in Nat
  BY FS_Subset, FS_CardinalityType
<1>2. ASSUME NEW s \in P, ~Finished(g, q, s) PROVE Expand(g, q, ef, lc, s) \in P
  <2> DEFINE c == Nearest(g, q, s.cands)
             new == Links(g, c, lc) \ s.visited
             kept == Best(g, q, s.found \cup new, ef)
             e == Expand(g, q, ef, lc, s)
  <2>1. e = [cands |-> (s.cands \ {c}) \cup (new \cap kept),
             found |-> kept, visited |-> s.visited \cup new]
    BY DEF Expand
  <2>2. c \in s.cands
    BY <1>2, FS_Subset, Ends DEF Finished, SearchState
  <2>3. /\ s.cands \in SUBSET DOMAIN g /\ s.found \in SUBSET DOMAIN g
        /\ s.visited \in SUBSET DOMAIN g /\ new \in SUBSET DOMAIN g
    BY <2>2 DEF SearchState, LinksIn
  <2>4. e \in SearchState(g)
    BY <1>2, ExpandShrinks
  <2>5. /\ kept \subseteq s.found \cup new
        /\ Cardinality(kept) = IF Cardinality(s.found \cup new) <= ef
                               THEN Cardinality(s.found \cup new) ELSE ef
    BY <1>1, <2>3, BestSize
  <2>6. Links(g, c, lc) \subseteq s.visited \cup new
    OBVIOUS
  <2>7. new \cap s.visited = {}
    OBVIOUS
  <2> HIDE DEF c, new, kept, e
  <2>8. kept \subseteq s.visited \cup new
    BY <2>5
  <2>9. Cardinality(s.visited \cup new) = Cardinality(s.visited) + Cardinality(new)
    <3>1. Cardinality(s.visited \cap new) = 0
      BY <2>7, FS_EmptySet
    <3>2. IsFiniteSet(s.visited) /\ IsFiniteSet(new)
      BY <1>1, <2>3
    <3>3. Cardinality(s.visited \cup new)
          = Cardinality(s.visited) + Cardinality(new) - Cardinality(s.visited \cap new)
      BY <3>2, FS_Union
    <3>. QED
      BY <1>1, <2>3, <3>1, <3>3
  <2>10. Cardinality(s.found \cup new) = Cardinality(s.found) + Cardinality(new)
    <3>1. Cardinality(s.found \cap new) = 0
      BY <2>7, FS_EmptySet
    <3>2. IsFiniteSet(s.found) /\ IsFiniteSet(new)
      BY <1>1, <2>3
    <3>3. Cardinality(s.found \cup new)
          = Cardinality(s.found) + Cardinality(new) - Cardinality(s.found \cap new)
      BY <3>2, FS_Union
    <3>. QED
      BY <1>1, <2>3, <3>1, <3>3
  <2>11. /\ Cardinality(s.visited) \in Nat /\ Cardinality(new) \in Nat
         /\ Cardinality(s.found) \in Nat
    BY <1>1, <2>3
  <2>12. CASE Cardinality(s.visited \cup new) <= ef
    <3>1. Small(s)
      BY <2>9, <2>11, <2>12
    <3>2. Known(s)
      BY <3>1
    <3>3. kept = s.visited \cup new
      <4>1. Cardinality(kept) = Cardinality(s.visited \cup new)
        BY <2>5, <2>12, <3>2
      <4>2. IsFiniteSet(s.visited \cup new)
        BY <1>1, <2>3
      <4>. QED
        BY <2>8, <4>1, <4>2, FS_Subset
    <3>4. Known(e)
      BY <2>1, <2>6, <3>2, <3>3
    <3>5. e.found \subseteq e.visited /\ Small(e)
      BY <2>1, <2>8, <2>12
    <3> HIDE DEF Known, Small
    <3>. QED
      BY <2>4, <3>4, <3>5 DEF e
  <2>13. CASE ~(Cardinality(s.visited \cup new) <= ef)
    <3>1. Cardinality(s.found \cup new) >= ef
      <4>1. CASE Small(s)
        <5>1. s.found = s.visited
          BY <4>1
        <5>. QED
          BY <2>9, <2>11, <2>13, <5>1
      <4>2. CASE ~Small(s)
        BY <2>10, <2>11, <4>2
      <4>. QED
        BY <4>1, <4>2
    <3>2. Cardinality(kept) = ef
      BY <2>5, <2>10, <2>11, <3>1
    <3>3. e.found \subseteq e.visited /\ ~Small(e) /\ Cardinality(e.found) = ef
      BY <2>1, <2>8, <2>13, <3>2
    <3> HIDE DEF Known, Small
    <3>. QED
      BY <2>4, <3>3 DEF e
  <2>. QED
    BY <2>12, <2>13
<1>3. [cands |-> {ep}, found |-> {ep}, visited |-> {ep}] \in P
  BY FS_Singleton DEF SearchState
<1>4. PICK s \in P : Finished(g, q, s) /\ SearchLayer(g, q, ep, ef, lc) = s.found
  <2>1. P \in SUBSET SearchState(g)
    OBVIOUS
  <2> HIDE DEF P
  <2>. QED
    BY <1>2, <1>3, <2>1, SearchEnds
<1>5. s.found \subseteq DOMAIN g /\ s.cands \subseteq DOMAIN g
  BY DEF SearchState
<1>6. CASE Small(s)
  <2>1. Known(s)
    BY <1>6
  <2>2. s.cands = {}
    <3>1. SUFFICES ASSUME s.cands # {} PROVE FALSE
      OBVIOUS
    <3> DEFINE c == Nearest(g, q, s.cands)
               f == Farthest(g, q, s.found)
    <3>2. c \in s.found
      BY <1>1, <1>5, <2>1, <3>1, Ends
    <3>3. Score(g, q, f) <= Score(g, q, c) /\ f \in s.found
      BY <1>1, <1>5, <3>2, Ends
    <3>4. Score(g, q, c) \in Int /\ Score(g, q, f) \in Int
      BY <1>5, <3>2, <3>3 DEF Scored
    <3>. QED
      BY <1>4, <3>1, <3>3, <3>4 DEF Finished
  <2>3. ep \in s.found /\ Closed(g, lc, s.found)
    BY <2>1, <2>2 DEF Closed
  <2>. QED
    BY <1>4, <1>5, <2>3
<1>7. CASE ~Small(s)
  BY <1>4, <1>5, <1>7
<1>. QED
  BY <1>6, <1>7

-----------------------------------------------------------------------------
(* Selection *)

\* The heuristic takes some of the candidates, at most m, at least one.
LEMMA SelectionIs ==
  ASSUME NEW g, IsFiniteSet(DOMAIN g), NEW q, Scored(g, q),
         NEW candidates \in SUBSET DOMAIN g, NEW m \in Nat \ {0}
  PROVE  LET taken == SelectNeighbors(g, q, candidates, m)
         IN  /\ taken \subseteq candidates
             /\ Cardinality(taken) <= m
             /\ candidates # {} => taken # {}
<1> DEFINE D == Selection(g)
           start == [rest |-> candidates, taken |-> {}]
           Stop == {s \in D : s.rest = {} \/ Cardinality(s.taken) >= m}
           out == [s \in D |-> s.taken]
           next == [s \in D |-> Consider(g, q, s)]
           left == [s \in D |-> Cardinality(s.rest)]
           b == Cardinality(DOMAIN g)
           P == {s \in D : /\ s.rest \subseteq candidates /\ s.taken \subseteq candidates
                           /\ Cardinality(s.taken) <= m
                           /\ s.taken = {} => s.rest = candidates}
<1>1. \A A \in SUBSET DOMAIN g : IsFiniteSet(A) /\ Cardinality(A) \in Nat /\ Cardinality(A) <= b
  BY FS_Subset, FS_CardinalityType
<1>2. b \in Nat /\ \A s \in D : left[s] \in 0..b
  <2>1. ASSUME NEW s \in D PROVE left[s] \in 0..b
    BY <1>1 DEF Selection
  <2>. QED
    BY <2>1, FS_CardinalityType
<1>3. ASSUME NEW s \in D \ Stop
      PROVE  /\ next[s] \in D /\ left[next[s]] < left[s]
             /\ s \in P => next[s] \in P
  <2> DEFINE e == Nearest(g, q, s.rest)
             closer == \E r \in s.taken : Sim[g[e].vec][g[r].vec] > Score(g, q, e)
  <2>1. /\ s.rest \in SUBSET DOMAIN g /\ s.taken \in SUBSET DOMAIN g /\ s.rest # {}
        /\ ~(Cardinality(s.taken) >= m)
    BY DEF Selection
  <2>2. e \in s.rest
    BY <1>1, <2>1, Ends
  <2>3. next[s] = [rest |-> s.rest \ {e}, taken |-> IF closer THEN s.taken ELSE s.taken \cup {e}]
    BY DEF Consider
  <2>4. closer => s.taken # {}
    OBVIOUS
  <2> HIDE DEF e, closer, next
  <2>5. next[s] \in D
    BY <2>1, <2>2, <2>3 DEF Selection
  <2>6. left[next[s]] < left[s]
    <3>1. Cardinality(s.rest \ {e}) = Cardinality(s.rest) - 1
      BY <1>1, <2>1, <2>2, FS_RemoveElement
    <3>2. Cardinality(s.rest) \in Nat
      BY <1>1, <2>1
    <3>. QED
      BY <2>3, <2>5, <3>1, <3>2
  <2>7. ASSUME s \in P PROVE next[s] \in P
    <3>1. Cardinality(s.taken \cup {e}) <= m
      <4>1. Cardinality(s.taken) \in Nat /\ IsFiniteSet(s.taken)
        BY <1>1, <2>1
      <4>2. Cardinality(s.taken \cup {e}) <= Cardinality(s.taken) + 1
        <5>1. Cardinality(s.taken \cup {e})
              = IF e \in s.taken THEN Cardinality(s.taken) ELSE Cardinality(s.taken) + 1
          BY <4>1, FS_AddElement
        <5>. QED
          BY <4>1, <5>1
      <4>3. Cardinality(s.taken \cup {e}) \in Nat
        BY <4>1, FS_AddElement, FS_CardinalityType
      <4>. QED
        BY <2>1, <4>1, <4>2, <4>3
    <3>. QED
      BY <2>2, <2>3, <2>4, <2>5, <2>7, <3>1
  <2>. QED
    BY <2>5, <2>6, <2>7
<1>4. start \in P
  BY FS_EmptySet DEF Selection
<1> DEFINE W == CHOOSE select : select =
                  [s \in Selection(g) |->
                     IF s.rest = {} \/ Cardinality(s.taken) >= m
                     THEN s.taken
                     ELSE select[Consider(g, q, s)]]
<1>5. IsLoop(W, D, Stop, out, next)
  <2>1. PICK f : IsLoop(f, D, Stop, out, next)
    <3> HIDE DEF D, Stop, out, next, left, b
    <3>. QED
      BY <1>2, <1>3, LoopExists
  <2>2. f = [s \in Selection(g) |->
               IF s.rest = {} \/ Cardinality(s.taken) >= m THEN s.taken ELSE f[Consider(g, q, s)]]
    BY <2>1 DEF IsLoop
  <2>3. W = [s \in Selection(g) |->
               IF s.rest = {} \/ Cardinality(s.taken) >= m THEN s.taken ELSE W[Consider(g, q, s)]]
    BY <2>2
  <2> HIDE DEF W
  <2>. QED
    BY <2>3 DEF IsLoop
<1>6. PICK s \in P : s \in Stop /\ W[start] = out[s]
  <2>1. P \in SUBSET D
    OBVIOUS
  <2> HIDE DEF D, Stop, out, next, left, b, W, start, P
  <2>. QED
    BY <1>2, <1>3, <1>4, <1>5, <2>1, LoopEnds
<1>7. W[start] = s.taken
  <2> HIDE DEF W, start
  <2>. QED
    BY <1>6
<1>8. candidates # {} => s.taken # {}
  <2>1. /\ s.rest = {} \/ Cardinality(s.taken) >= m
        /\ s.taken = {} => s.rest = candidates
    BY <1>6
  <2> HIDE DEF P, Stop, W
  <2>2. Cardinality({}) = 0
    BY FS_EmptySet
  <2>. QED
    BY <2>1, <2>2
<1>9. SelectNeighbors(g, q, candidates, m) = W[start]
  BY DEF SelectNeighbors
<1> HIDE DEF W, start
<1>. QED
  BY <1>7, <1>8, <1>9

-----------------------------------------------------------------------------
(* Graphs whose links can be followed *)

InLayer(g, lc) == {i \in DOMAIN g : g[i].level >= lc}

\* A link of a layer leads to another node of the layer, and no list is beyond
\* its cap.
SoundLinks(g) ==
  \A i \in DOMAIN g :
    /\ DOMAIN g[i].links = 0..g[i].level
    /\ \A lc \in 0..g[i].level : /\ g[i].links[lc] \subseteq InLayer(g, lc) \ {i}
                                 /\ Cardinality(g[i].links[lc]) <= MaxLinks(lc)

\* The nodes of g have different vectors, of dimension d.
Distinct(g, d) ==
  /\ \A i \in DOMAIN g : g[i].vec \in Vectors /\ Dim[g[i].vec] = d
  /\ \A i, j \in DOMAIN g : i # j => g[i].vec # g[j].vec

Graph(g, d) ==
  /\ \E n \in 0..MaxNodes : g \in [1..n -> Node]
  /\ SoundLinks(g) /\ Distinct(g, d)

\* No link of the layer leads to x.
Unlinked(g, x, lc) == \A i \in DOMAIN g : lc <= g[i].level => x \notin g[i].links[lc]

\* Different vectors of one dimension are never alike to a query.
LEMMA VectorsScore ==
  ASSUME NEW g, NEW d, Distinct(g, d), NEW q \in Vectors, Dim[q] = d
  PROVE  Scored(g, q)
BY SimilarityAssumption DEF Distinct, Scored, Score

LEMMA GraphIs ==
  ASSUME NEW g, NEW d, Graph(g, d)
  PROVE  /\ IsFiniteSet(DOMAIN g)
         /\ \A i \in DOMAIN g : g[i] \in Node /\ g[i].level \in 0..MaxLevel
<1>1. PICK n \in 0..MaxNodes : g \in [1..n -> Node]
  BY DEF Graph
<1>2. IsFiniteSet(1..n)
  BY FS_Interval
<1>. QED
  BY <1>1, <1>2 DEF Node

\* The links of a layer stay in it, and do not lead to a node nobody links to.
LEMMA LayerClosed ==
  ASSUME NEW g, NEW d, Graph(g, d), NEW x, NEW lc \in Nat, Unlinked(g, x, lc)
  PROVE  /\ LinksIn(g, lc)
         /\ InLayer(g, lc) \ {x} \in SUBSET DOMAIN g
         /\ Closed(g, lc, InLayer(g, lc) \ {x})
<1>1. ASSUME NEW i \in DOMAIN g PROVE Links(g, i, lc) \subseteq InLayer(g, lc) \ {x}
  <2>1. CASE lc <= g[i].level
    <3>1. g[i].level \in 0..MaxLevel
      BY GraphIs
    <3>2. lc \in 0..g[i].level
      BY <2>1, <3>1
    <3>. QED
      BY <2>1, <3>2 DEF Graph, SoundLinks, Unlinked, Links
  <2>2. CASE ~(lc <= g[i].level)
    BY <2>2 DEF Links
  <2>. QED
    BY <2>1, <2>2
<1>. QED
  BY <1>1 DEF LinksIn, Closed, InLayer

\* Every layer on the way down from the entry point has nodes, and the walk stays
\* on those of the layer.
LEMMA LandingIs ==
  ASSUME NEW g, NEW d, Graph(g, d), NEW x, \A lc \in Nat : Unlinked(g, x, lc),
         NEW q \in Vectors, Dim[q] = d,
         entryPoint \in DOMAIN g \ {x}, maxLevel \in 0..MaxLevel,
         g[entryPoint].level = maxLevel, NEW layer \in 0..(maxLevel + 1)
  PROVE  Landing(g, q, layer) \in InLayer(g, layer - 1) \ {x}
<1> DEFINE hi == maxLevel + 1
           W == [lc \in layer..hi |-> InLayer(g, lc - 1) \ {x}]
           step == [lc \in layer..hi |-> [i \in DOMAIN g |-> GreedyClosest(g, q, i, lc)]]
           at == CHOOSE at : at = [lc \in layer..(maxLevel + 1) |->
                   IF lc = maxLevel + 1 THEN entryPoint ELSE GreedyClosest(g, q, at[lc + 1], lc)]
<1>1. layer \in Int /\ hi \in Int /\ layer <= hi /\ layer \in Nat /\ hi \in layer..hi
  BY BoundAssumption
<1>2. \A lc \in layer..hi : W[lc] \in SUBSET DOMAIN g
  BY DEF InLayer
<1>3. ASSUME NEW lc \in layer..(hi - 1), NEW i \in W[lc + 1]
      PROVE  GreedyClosest(g, q, i, lc) \in W[lc]
  <2>1. lc \in Nat /\ lc + 1 \in layer..hi /\ (lc + 1) - 1 = lc /\ lc \in layer..hi
    BY <1>1
  <2>2. i \in InLayer(g, lc) \ {x}
    BY <2>1
  <2>3. GreedyClosest(g, q, i, lc) \in InLayer(g, lc) \ {x}
    BY <2>1, <2>2, GraphIs, LayerClosed, VectorsScore, GreedyStays DEF Graph
  <2>4. InLayer(g, lc) \subseteq InLayer(g, lc - 1)
    BY <2>1, GraphIs DEF InLayer
  <2>. QED
    BY <2>1, <2>3, <2>4
<1>4. entryPoint \in W[hi]
  BY <1>1 DEF InLayer
<1>5. \A lc \in layer..(hi - 1) : \A i \in W[lc + 1] : step[lc][i] \in W[lc]
  <2>1. \A lc \in layer..(hi - 1) : lc \in layer..hi /\ lc + 1 \in layer..hi
    BY <1>1
  <2> HIDE DEF W, hi
  <2>. QED
    BY <1>2, <1>3, <2>1
<1>6. at = [lc \in layer..(maxLevel + 1) |->
              IF lc = maxLevel + 1 THEN entryPoint ELSE GreedyClosest(g, q, at[lc + 1], lc)]
  <2>1. PICK f : CountsDown(f, layer, hi, entryPoint, step) /\ \A lc \in layer..hi : f[lc] \in W[lc]
    <3> HIDE DEF W, hi, step
    <3>. QED
      BY <1>1, <1>4, <1>5, CountDown
  <2>2. f = [lc \in layer..hi |->
               IF lc = hi THEN entryPoint ELSE GreedyClosest(g, q, f[lc + 1], lc)]
    <3>1. \A lc \in layer..hi : lc # hi => lc + 1 \in layer..hi
      BY <1>1
    <3>2. \A lc \in layer..hi : lc # hi => step[lc][f[lc + 1]] = GreedyClosest(g, q, f[lc + 1], lc)
      <4> HIDE DEF W, hi
      <4>. QED
        BY <1>2, <2>1, <3>1
    <3> HIDE DEF W, hi, step
    <3>. QED
      BY <2>1, <3>2 DEF CountsDown
  <2>. QED
    BY <2>2
<1> HIDE DEF at
<1>7. at[hi] \in W[hi]
  BY <1>1, <1>4, <1>6
<1>8. \A lc \in layer..(hi - 1) : at[lc + 1] \in W[lc + 1] => at[lc] \in W[lc]
  <2>1. \A lc \in layer..(hi - 1) : at[lc] = GreedyClosest(g, q, at[lc + 1], lc)
    BY <1>1, <1>6
  <2> HIDE DEF W, hi
  <2>. QED
    BY <1>3, <2>1
<1>9. at[layer] \in W[layer]
  <2> HIDE DEF W, hi
  <2>1. \A lc \in layer..hi : at[lc] \in W[lc]
    BY <1>1, <1>7, <1>8, CountDownInvariant
  <2>. QED
    BY <1>1, <2>1
<1>10. Landing(g, q, layer) = at[layer]
  BY DEF Landing, at
<1>. QED
  BY <1>1, <1>9, <1>10

-----------------------------------------------------------------------------
(* Linking a new node *)

\* h has the nodes of g, with other links.
SameNodes(g, h) ==
  /\ DOMAIN h = DOMAIN g
  /\ \A i \in DOMAIN g : /\ h[i].id = g[i].id /\ h[i].vec = g[i].vec
                         /\ h[i].level = g[i].level /\ h[i].deleted = g[i].deleted

LEMMA CapIs ==
  ASSUME NEW lc
  PROVE  MaxLinks(lc) \in Nat \ {0} /\ M <= MaxLinks(lc) /\ M \in Nat \ {0}
BY ConfigAssumption DEF MaxLinks

LEMMA LinksAre ==
  ASSUME NEW g, NEW d, Graph(g, d), NEW i \in DOMAIN g, NEW lc \in 0..g[i].level
  PROVE  /\ g[i].links[lc] \in SUBSET DOMAIN g
         /\ i \notin g[i].links[lc]
         /\ Cardinality(g[i].links[lc]) <= MaxLinks(lc)
         /\ lc \in Nat /\ g[i].level \in Nat /\ lc <= g[i].level
<1>1. g[i].level \in 0..MaxLevel
  BY GraphIs
<1>. QED
  BY <1>1, BoundAssumption DEF Graph, SoundLinks, InLayer

\* Node x with the links L in layer lc.
WithLinks(x, lc, L) == [x EXCEPT !.links[lc] = L]

\* Replacing the list of one layer changes nothing else of the node.
LEMMA Relinked ==
  ASSUME NEW g, NEW d, Graph(g, d), NEW i \in DOMAIN g, NEW lc \in 0..g[i].level,
         NEW L \in SUBSET DOMAIN g
  PROVE  LET r == WithLinks(g[i], lc, L)
         IN  /\ r \in Node
             /\ r.id = g[i].id /\ r.vec = g[i].vec /\ r.level = g[i].level
             /\ r.deleted = g[i].deleted
             /\ DOMAIN r.links = 0..g[i].level /\ r.links[lc] = L
             /\ \A l \in 0..g[i].level : l # lc => r.links[l] = g[i].links[l]
<1> DEFINE r == WithLinks(g[i], lc, L)
           ls == [g[i].links EXCEPT ![lc] = L]
<1>1. PICK n \in 0..MaxNodes : g \in [1..n -> Node]
  BY DEF Graph
<1>2. g[i] \in Node /\ g[i].level \in 0..MaxLevel /\ DOMAIN g \in SUBSET (1..MaxNodes)
  BY <1>1, GraphIs, BoundAssumption
<1>3. DOMAIN g[i].links = 0..g[i].level
  BY DEF Graph, SoundLinks
<1>4. g[i].links \in [0..g[i].level -> SUBSET (1..MaxNodes)]
  <2>1. PICK l \in 0..MaxLevel : g[i].links \in [0..l -> SUBSET (1..MaxNodes)]
    BY <1>2 DEF Node
  <2>2. 0..l = 0..g[i].level
    BY <1>3, <2>1
  <2>. QED
    BY <2>1, <2>2
<1>5. ls \in [0..g[i].level -> SUBSET (1..MaxNodes)]
  BY <1>2, <1>4
<1>6. r = [g[i] EXCEPT !.links = ls]
  BY DEF WithLinks
<1>7. /\ ls[lc] = L
      /\ \A l \in 0..g[i].level : l # lc => ls[l] = g[i].links[l]
  BY <1>3
<1> HIDE DEF ls, r
<1>8. /\ r.id = g[i].id /\ r.vec = g[i].vec /\ r.level = g[i].level
      /\ r.deleted = g[i].deleted /\ r.links = ls
  BY <1>2, <1>6 DEF Node
<1>9. r \in Node
  BY <1>2, <1>5, <1>6 DEF Node
<1>. QED
  BY <1>5, <1>7, <1>8, <1>9 DEF r

\* Linking back keeps to the cap, and drops nothing unless the list is full.
LEMMA LinkBackIs ==
  ASSUME NEW g, NEW d, Graph(g, d), NEW i \in DOMAIN g, NEW n \in DOMAIN g,
         NEW lc \in 0..g[i].level
  PROVE  LET links == g[i].links[lc] \cup {n}
         IN  /\ LinkBack(g, i, n, lc) \subseteq links
             /\ Cardinality(LinkBack(g, i, n, lc)) <= MaxLinks(lc)
             /\ Cardinality(links) <= MaxLinks(lc) => LinkBack(g, i, n, lc) = links
<1> DEFINE links == g[i].links[lc] \cup {n}
<1>1. links \in SUBSET DOMAIN g
  BY LinksAre
<1>2. IsFiniteSet(DOMAIN g) /\ Cardinality(links) \in Nat /\ MaxLinks(lc) \in Nat \ {0}
  BY <1>1, GraphIs, FS_Subset, FS_CardinalityType, CapIs
<1>3. Scored(g, g[i].vec)
  BY VectorsScore DEF Graph, Distinct
<1>4. LinkBack(g, i, n, lc) = IF Cardinality(links) > MaxLinks(lc)
                             THEN SelectNeighbors(g, g[i].vec, links, MaxLinks(lc))
                             ELSE links
  BY DEF LinkBack, PruneConnections
<1>5. /\ SelectNeighbors(g, g[i].vec, links, MaxLinks(lc)) \subseteq links
      /\ Cardinality(SelectNeighbors(g, g[i].vec, links, MaxLinks(lc))) <= MaxLinks(lc)
  BY <1>1, <1>2, <1>3, SelectionIs
<1> HIDE DEF links
<1>6. /\ LinkBack(g, i, n, lc) \subseteq links
      /\ Cardinality(LinkBack(g, i, n, lc)) <= MaxLinks(lc)
      /\ Cardinality(links) <= MaxLinks(lc) => LinkBack(g, i, n, lc) = links
  BY <1>2, <1>4, <1>5
<1>. QED
  BY <1>6 DEF links

\* One round of Insert's loop over the layers: the links stay sound, other layers
\* are left alone, and the next round starts in this layer, not at the new node.
LEMMA ConnectLayerIs ==
  ASSUME NEW g, NEW d, Graph(g, d), NEW n \in DOMAIN g, NEW lc \in 0..g[n].level,
         Unlinked(g, n, lc), NEW ep \in InLayer(g, lc) \ {n}
  PROVE  LET s == ConnectLayer(g, n, lc, ep)
         IN  /\ Graph(s.graph, d) /\ SameNodes(g, s.graph)
             /\ s.graph \in [DOMAIN g -> Node]
             /\ \A i \in DOMAIN g, l \in 0..MaxLevel :
                  l <= g[i].level /\ l # lc => s.graph[i].links[l] = g[i].links[l]
             /\ s.ep \in InLayer(g, lc) \ {n}
             /\ lc = 0 /\ Cardinality(DOMAIN g) <= 2 * M + 1 =>
                  /\ \A i \in DOMAIN g \ {n} : g[i].links[0] \subseteq s.graph[i].links[0]
                  /\ \E x \in DOMAIN g \ {n} :
                       x \in s.graph[n].links[0] /\ n \in s.graph[x].links[0]
<1> DEFINE q == g[n].vec
           candidates == SearchLayer(g, q, ep, EfConstruction, lc)
           selected == SelectNeighbors(g, q, candidates, M)
           C == InLayer(g, lc) \ {n}
           h == [i \in DOMAIN g |->
                   IF i = n THEN [g[i] EXCEPT !.links[lc] = selected]
                   ELSE IF i \in selected
                        THEN [g[i] EXCEPT !.links[lc] = LinkBack(g, i, n, lc)]
                   ELSE g[i]]
           s == ConnectLayer(g, n, lc, ep)
<1>1. /\ IsFiniteSet(DOMAIN g) /\ lc \in Nat /\ g[n].level \in Nat /\ lc <= g[n].level
      /\ \A i \in DOMAIN g : g[i] \in Node /\ g[i].level \in 0..MaxLevel
  BY GraphIs, LinksAre
<1>2. Scored(g, q)
  BY VectorsScore DEF Graph, Distinct
<1>3. LinksIn(g, lc) /\ C \in SUBSET DOMAIN g /\ Closed(g, lc, C)
  BY <1>1, LayerClosed
<1>4. candidates \subseteq C /\ candidates # {}
  BY <1>1, <1>2, <1>3, SearchStays, ConfigAssumption
<1>5. selected \subseteq candidates /\ selected # {} /\ Cardinality(selected) <= M
  <2>1. candidates \in SUBSET DOMAIN g /\ M \in Nat \ {0}
    BY <1>3, <1>4, CapIs
  <2> HIDE DEF candidates, q
  <2>. QED
    BY <1>1, <1>2, <1>4, <2>1, SelectionIs
<1>6. Nearest(g, q, candidates) \in C
  BY <1>1, <1>2, <1>3, <1>4, FS_Subset, Ends
<1>7. s.ep = Nearest(g, q, candidates) /\ s.graph = h
  BY DEF ConnectLayer
<1> DEFINE L == [i \in DOMAIN g |-> IF i = n THEN selected ELSE LinkBack(g, i, n, lc)]
<1>8. n \notin selected /\ selected \subseteq C
  BY <1>4, <1>5
<1> HIDE DEF q, candidates, selected, s
<1>9. ASSUME NEW i \in selected \cup {n}
      PROVE  /\ i \in InLayer(g, lc) /\ i \in DOMAIN g /\ lc \in 0..g[i].level
             /\ L[i] \subseteq InLayer(g, lc) \ {i}
             /\ Cardinality(L[i]) <= MaxLinks(lc)
             /\ h[i] = WithLinks(g[i], lc, L[i])
  <2>1. i \in InLayer(g, lc) /\ i \in DOMAIN g /\ lc \in 0..g[i].level
    BY <1>1, <1>8 DEF InLayer
  <2>2. n \in InLayer(g, lc)
    BY <1>1 DEF InLayer
  <2>3. CASE i = n
    <3>1. L[i] = selected
      BY <2>3
    <3>2. Cardinality(selected) \in Nat
      BY <1>1, <1>3, <1>8, FS_Subset, FS_CardinalityType
    <3>3. Cardinality(selected) <= MaxLinks(lc)
      BY <1>5, <3>2, CapIs
    <3>. QED
      BY <1>8, <2>1, <2>3, <3>1, <3>3 DEF h, WithLinks
  <2>4. CASE i # n
    <3>1. L[i] = LinkBack(g, i, n, lc) /\ i \in selected
      BY <2>1, <2>4
    <3>2. g[i].links[lc] \subseteq InLayer(g, lc) \ {i}
      BY <2>1 DEF Graph, SoundLinks
    <3>3. /\ LinkBack(g, i, n, lc) \subseteq g[i].links[lc] \cup {n}
          /\ Cardinality(LinkBack(g, i, n, lc)) <= MaxLinks(lc)
      BY <2>1, LinkBackIs
    <3>. QED
      BY <2>1, <2>2, <2>4, <3>1, <3>2, <3>3 DEF h, WithLinks
  <2>. QED
    BY <2>3, <2>4
<1>10. \A i \in DOMAIN g \ (selected \cup {n}) : h[i] = g[i]
  OBVIOUS
<1> HIDE DEF h, L
<1>11. ASSUME NEW i \in DOMAIN g
       PROVE  /\ h[i] \in Node
              /\ h[i].id = g[i].id /\ h[i].vec = g[i].vec /\ h[i].level = g[i].level
              /\ h[i].deleted = g[i].deleted
              /\ DOMAIN h[i].links = 0..g[i].level
              /\ \A l \in 0..g[i].level : l # lc => h[i].links[l] = g[i].links[l]
              /\ i \in selected \cup {n} => h[i].links[lc] = L[i]
  <2>1. CASE i \in selected \cup {n}
    <3> DEFINE r == WithLinks(g[i], lc, L[i])
    <3>1. L[i] \in SUBSET DOMAIN g /\ lc \in 0..g[i].level /\ h[i] = r
      BY <1>9, <2>1 DEF InLayer
    <3>2. /\ r \in Node
          /\ r.id = g[i].id /\ r.vec = g[i].vec /\ r.level = g[i].level
          /\ r.deleted = g[i].deleted
          /\ DOMAIN r.links = 0..g[i].level /\ r.links[lc] = L[i]
          /\ \A l \in 0..g[i].level : l # lc => r.links[l] = g[i].links[l]
      BY <3>1, Relinked
    <3> HIDE DEF r
    <3>. QED
      BY <3>1, <3>2
  <2>2. CASE i \notin selected \cup {n}
    BY <1>1, <1>10, <2>2 DEF Graph, SoundLinks
  <2>. QED
    BY <2>1, <2>2
<1>12. DOMAIN h = DOMAIN g /\ h \in [DOMAIN g -> Node]
  <2>1. DOMAIN h = DOMAIN g
    BY DEF h
  <2>. QED
    BY <1>11, <2>1 DEF h
<1>13. SameNodes(g, h)
  BY <1>11, <1>12 DEF SameNodes
<1>14. \A l : InLayer(h, l) = InLayer(g, l)
  BY <1>11, <1>12 DEF InLayer
<1>15. SoundLinks(h)
  <2>1. ASSUME NEW i \in DOMAIN g, NEW l \in 0..g[i].level
        PROVE  /\ h[i].links[l] \subseteq InLayer(g, l) \ {i}
               /\ Cardinality(h[i].links[l]) <= MaxLinks(l)
    <3>1. CASE l = lc /\ i \in selected \cup {n}
      BY <1>9, <1>11, <3>1
    <3>2. CASE ~(l = lc /\ i \in selected \cup {n})
      <4>1. h[i].links[l] = g[i].links[l]
        BY <1>10, <1>11, <3>2
      <4>. QED
        BY <4>1 DEF Graph, SoundLinks
    <3>. QED
      BY <3>1, <3>2
  <2>. QED
    BY <1>11, <1>12, <1>14, <2>1 DEF SoundLinks
<1>16. Distinct(h, d)
  BY <1>11, <1>12 DEF Graph, Distinct
<1>17. Graph(h, d)
  BY <1>12, <1>15, <1>16 DEF Graph
<1>18. ASSUME lc = 0, Cardinality(DOMAIN g) <= 2 * M + 1
       PROVE  /\ \A i \in DOMAIN g \ {n} : g[i].links[0] \subseteq h[i].links[0]
              /\ \E x \in DOMAIN g \ {n} : x \in h[n].links[0] /\ n \in h[x].links[0]
  <2>1. ASSUME NEW i \in selected PROVE h[i].links[0] = g[i].links[0] \cup {n}
    <3>1. i \in DOMAIN g /\ i # n /\ lc \in 0..g[i].level
      BY <1>8, <1>9
    <3>2. g[i].links[lc] \cup {n} \subseteq DOMAIN g \ {i}
      BY <3>1, LinksAre
    <3>3. Cardinality(g[i].links[lc] \cup {n}) <= 2 * M
      <4>1. Cardinality(DOMAIN g \ {i}) = Cardinality(DOMAIN g) - 1
        BY <1>1, <3>1, FS_RemoveElement
      <4>2. IsFiniteSet(DOMAIN g \ {i})
        BY <1>1, FS_RemoveElement
      <4>3. Cardinality(g[i].links[lc] \cup {n}) <= Cardinality(DOMAIN g \ {i})
        BY <3>2, <4>2, FS_Subset
      <4>4. /\ Cardinality(DOMAIN g) \in Nat /\ Cardinality(DOMAIN g \ {i}) \in Nat
            /\ Cardinality(g[i].links[lc] \cup {n}) \in Nat
        BY <1>1, <3>2, <4>2, FS_Subset, FS_CardinalityType
      <4>. QED
        BY <1>18, <4>1, <4>3, <4>4, CapIs
    <3>4. LinkBack(g, i, n, lc) = g[i].links[lc] \cup {n}
      BY <1>18, <3>1, <3>3, LinkBackIs DEF MaxLinks
    <3>. QED
      BY <1>11, <1>18, <3>1, <3>4 DEF L
  <2>2. ASSUME NEW i \in DOMAIN g \ {n} PROVE g[i].links[0] \subseteq h[i].links[0]
    BY <1>10, <2>1, <2>2
  <2>3. PICK x \in selected : TRUE
    BY <1>5
  <2>4. x \in DOMAIN g \ {n}
    BY <1>3, <1>8
  <2>5. h[n].links[0] = selected
    BY <1>11, <1>18 DEF L
  <2>. QED
    BY <2>1, <2>2, <2>3, <2>4, <2>5
<1>19. \A i \in DOMAIN g, l \in 0..MaxLevel :
         l <= g[i].level /\ l # lc => h[i].links[l] = g[i].links[l]
  <2>1. \A i \in DOMAIN g, l \in 0..MaxLevel : l <= g[i].level => l \in 0..g[i].level
    BY <1>1, BoundAssumption
  <2>. QED
    BY <1>11, <2>1
<1>. QED
  BY <1>6, <1>7, <1>12, <1>13, <1>17, <1>18, <1>19 DEF s

\* Following layer 0 from any part of S that no link leaves gives all of S.
Together(g, S) == \A C \in SUBSET S : C # {} /\ (\A i \in C : g[i].links[0] \subseteq C) => C = S

\* Lists that do not overflow keep layer 0 in one piece.
LEMMA TogetherGrows ==
  ASSUME NEW g, NEW d, Graph(g, d), NEW h, NEW n \in DOMAIN g, Unlinked(g, n, 0),
         Together(g, DOMAIN g \ {n}),
         \A i \in DOMAIN g \ {n} : g[i].links[0] \subseteq h[i].links[0],
         \E x \in DOMAIN g \ {n} : x \in h[n].links[0] /\ n \in h[x].links[0]
  PROVE  Together(h, DOMAIN g)
<1> SUFFICES ASSUME NEW C \in SUBSET DOMAIN g, C # {}, \A i \in C : h[i].links[0] \subseteq C
             PROVE  C = DOMAIN g
  BY DEF Together
<1> DEFINE B == C \ {n}
<1>1. PICK x \in DOMAIN g \ {n} : x \in h[n].links[0] /\ n \in h[x].links[0]
  OBVIOUS
<1>2. B # {}
  <2>1. CASE n \in C
    BY <1>1, <2>1
  <2>2. CASE n \notin C
    BY <2>2
  <2>. QED
    BY <2>1, <2>2
<1>3. \A i \in B : g[i].links[0] \subseteq B
  <2>1. ASSUME NEW i \in B PROVE g[i].links[0] \subseteq B
    <3>1. g[i].links[0] \subseteq C
      OBVIOUS
    <3>2. g[i].level \in Nat
      BY GraphIs, BoundAssumption
    <3>3. n \notin g[i].links[0]
      BY <3>2 DEF Unlinked
    <3>. QED
      BY <3>1, <3>3
  <2>. QED
    BY <2>1
<1>4. B \in SUBSET (DOMAIN g \ {n})
  OBVIOUS
<1>5. B = DOMAIN g \ {n}
  <2> HIDE DEF B
  <2>. QED
    BY <1>2, <1>3, <1>4 DEF Together
<1>6. n \in C
  BY <1>1, <1>5
<1>. QED
  BY <1>5, <1>6

\* Insert links its node on every layer up to its level.
LEMMA ConnectIs ==
  ASSUME NEW g, NEW d, Graph(g, d), NEW n \in DOMAIN g, \A lc \in Nat : Unlinked(g, n, lc),
         entryPoint \in DOMAIN g \ {n}, maxLevel \in 0..MaxLevel,
         g[entryPoint].level = maxLevel
  PROVE  LET h == Connect(g, n)
         IN  /\ Graph(h, d) /\ SameNodes(g, h)
             /\ Cardinality(DOMAIN g) <= 2 * M + 1 /\ Together(g, DOMAIN g \ {n}) =>
                  Together(h, DOMAIN g)
<1> DEFINE top == Min({g[n].level, maxLevel})
           Small == Cardinality(DOMAIN g) <= 2 * M + 1
           Joined(h) == /\ \A i \in DOMAIN g \ {n} : g[i].links[0] \subseteq h[i].links[0]
                        /\ \E x \in DOMAIN g \ {n} : x \in h[n].links[0] /\ n \in h[x].links[0]
           Linked(s, lc) ==
             /\ Graph(s.graph, d) /\ SameNodes(g, s.graph)
             /\ \A i \in DOMAIN g, l \in 0..MaxLevel :
                  l <= g[i].level /\ l < lc => s.graph[i].links[l] = g[i].links[l]
             /\ s.ep \in InLayer(g, lc - 1) \ {n}
             /\ lc = 0 /\ Small => Joined(s.graph)
           States == [ep : DOMAIN g, graph : [DOMAIN g -> Node]]
           W == [lc \in 0..(top + 1) |-> {s \in States : Linked(s, lc)}]
           base == [ep |-> Landing(g, g[n].vec, top + 1), graph |-> g]
           step == [lc \in 0..(top + 1) |->
                      [s \in States |-> ConnectLayer(s.graph, n, lc, s.ep)]]
           from == CHOOSE from : from = [lc \in 0..(top + 1) |->
                     IF lc = top + 1
                     THEN [ep |-> Landing(g, g[n].vec, top + 1), graph |-> g]
                     ELSE ConnectLayer(from[lc + 1].graph, n, lc, from[lc + 1].ep)]
<1>1. /\ g[n].level \in 0..MaxLevel /\ MaxLevel \in Nat /\ top \in 0..MaxLevel
      /\ top <= g[n].level /\ top <= maxLevel
  <2>1. g[n].level \in 0..MaxLevel /\ MaxLevel \in Nat
    BY GraphIs, BoundAssumption
  <2>2. top = IF g[n].level <= maxLevel THEN g[n].level ELSE maxLevel
    BY <2>1, MinOfTwo
  <2>. QED
    BY <2>1, <2>2
<1> HIDE DEF top
<1>2. /\ 0 \in Int /\ top + 1 \in Int /\ 0 <= top + 1 /\ top + 1 \in 0..(top + 1)
      /\ 0 \in 0..(top + 1)
      /\ \A lc \in 0..((top + 1) - 1) : lc \in 0..(top + 1) /\ lc + 1 \in 0..(top + 1) /\ lc \in Nat
  BY <1>1
<1>3. base \in W[top + 1]
  <2>1. g[n].vec \in Vectors /\ Dim[g[n].vec] = d
    BY DEF Graph, Distinct
  <2>2. top + 1 \in 0..(maxLevel + 1) /\ (top + 1) - 1 = top
    BY <1>1
  <2>3. base.ep \in InLayer(g, (top + 1) - 1) \ {n}
    BY <2>1, <2>2, LandingIs
  <2>4. base \in States
    BY <2>3, GraphIs DEF InLayer, Graph
  <2>5. SameNodes(g, base.graph)
    BY DEF SameNodes
  <2>6. Linked(base, top + 1)
    BY <1>1, <2>3, <2>5
  <2> HIDE DEF base, States, Linked
  <2>. QED
    BY <1>2, <2>4, <2>6
<1>4. ASSUME NEW lc \in 0..((top + 1) - 1), NEW s \in W[lc + 1]
      PROVE  ConnectLayer(s.graph, n, lc, s.ep) \in W[lc]
  <2> DEFINE h == s.graph
             t == ConnectLayer(h, n, lc, s.ep)
  <2>1. s \in States /\ Linked(s, lc + 1)
    BY <1>2
  <2>2. h \in [DOMAIN g -> Node] /\ SameNodes(g, h) /\ Graph(h, d) /\ DOMAIN h = DOMAIN g
    BY <2>1
  <2>3. \A i \in DOMAIN g : h[i].level = g[i].level /\ h[i].level \in 0..MaxLevel
    BY <2>2, GraphIs DEF SameNodes
  <2>4. \A l : InLayer(h, l) = InLayer(g, l)
    BY <2>2, <2>3 DEF InLayer
  <2>5. /\ lc \in 0..h[n].level /\ lc \in 0..MaxLevel /\ lc < lc + 1 /\ (lc + 1) - 1 = lc
        /\ lc \in Nat
    BY <1>1, <1>2, <2>3
  <2>6. \A i \in DOMAIN g : lc <= g[i].level => h[i].links[lc] = g[i].links[lc]
    BY <2>1, <2>5
  <2>7. Unlinked(h, n, lc)
    BY <2>2, <2>3, <2>5, <2>6 DEF Unlinked
  <2>8. s.ep \in InLayer(h, lc) \ {n}
    BY <2>1, <2>4, <2>5
  <2> HIDE DEF States, Linked, W, h, t, Small, Joined
  <2>9. /\ Graph(t.graph, d) /\ SameNodes(h, t.graph)
        /\ t.graph \in [DOMAIN h -> Node]
        /\ \A i \in DOMAIN h, l \in 0..MaxLevel :
             l <= h[i].level /\ l # lc => t.graph[i].links[l] = h[i].links[l]
        /\ t.ep \in InLayer(h, lc) \ {n}
        /\ lc = 0 /\ Cardinality(DOMAIN h) <= 2 * M + 1 =>
             /\ \A i \in DOMAIN h \ {n} : h[i].links[0] \subseteq t.graph[i].links[0]
             /\ \E x \in DOMAIN h \ {n} :
                  x \in t.graph[n].links[0] /\ n \in t.graph[x].links[0]
    BY <2>2, <2>5, <2>7, <2>8, ConnectLayerIs DEF t
  <2>10. SameNodes(g, t.graph)
    BY <2>2, <2>9 DEF SameNodes
  <2>11. ASSUME NEW i \in DOMAIN g, NEW l \in 0..MaxLevel, l <= g[i].level, l < lc
         PROVE  t.graph[i].links[l] = g[i].links[l]
    <3>1. l < lc + 1 /\ l # lc /\ l <= h[i].level
      BY <2>3, <2>5, <2>11
    <3>2. h[i].links[l] = g[i].links[l]
      BY <2>1, <2>11, <3>1 DEF Linked, h
    <3>. QED
      BY <2>2, <2>9, <3>1, <3>2
  <2>12. t.ep \in InLayer(g, lc - 1) \ {n}
    <3>1. t.ep \in InLayer(g, lc) \ {n}
      BY <2>4, <2>9
    <3>. QED
      BY <2>3, <2>5, <3>1 DEF InLayer
  <2>13. ASSUME lc = 0, Small PROVE Joined(t.graph)
    <3>1. \A i \in DOMAIN g \ {n} : h[i].links[0] = g[i].links[0]
      BY <2>3, <2>6, <2>13
    <3>. QED
      BY <2>2, <2>9, <2>13, <3>1 DEF Small, Joined
  <2>14. Linked(t, lc)
    BY <2>9, <2>10, <2>11, <2>12, <2>13 DEF Linked
  <2>15. t \in States
    <3>1. t = [ep |-> t.ep, graph |-> t.graph]
      BY DEF t, ConnectLayer
    <3>. QED
      BY <2>2, <2>9, <3>1 DEF States, InLayer
  <2>. QED
    BY <1>2, <2>14, <2>15 DEF W, t, h
<1>5. \A lc \in 0..((top + 1) - 1) : \A s \in W[lc + 1] : step[lc][s] \in W[lc]
  <2>1. ASSUME NEW lc \in 0..((top + 1) - 1), NEW s \in W[lc + 1] PROVE step[lc][s] \in W[lc]
    <3>1. s \in States
      BY <1>2
    <3>2. step[lc][s] = ConnectLayer(s.graph, n, lc, s.ep)
      BY <1>2, <3>1
    <3> HIDE DEF W, step
    <3>. QED
      BY <1>4, <3>2
  <2>. QED
    BY <2>1
<1>6. from = [lc \in 0..(top + 1) |->
                IF lc = top + 1
                THEN [ep |-> Landing(g, g[n].vec, top + 1), graph |-> g]
                ELSE ConnectLayer(from[lc + 1].graph, n, lc, from[lc + 1].ep)]
  <2>1. PICK f : /\ CountsDown(f, 0, top + 1, base, step)
                 /\ \A lc \in 0..(top + 1) : f[lc] \in W[lc]
    <3> HIDE DEF W, base, step
    <3>. QED
      BY <1>2, <1>3, <1>5, CountDown
  <2>2. \A lc \in 0..(top + 1) : lc # top + 1 =>
          step[lc][f[lc + 1]] = ConnectLayer(f[lc + 1].graph, n, lc, f[lc + 1].ep)
    <3>1. ASSUME NEW lc \in 0..(top + 1), lc # top + 1
          PROVE  step[lc][f[lc + 1]] = ConnectLayer(f[lc + 1].graph, n, lc, f[lc + 1].ep)
      <4>1. lc + 1 \in 0..(top + 1)
        BY <1>1, <3>1
      <4>2. f[lc + 1] \in States
        BY <2>1, <4>1
      <4>. QED
        BY <4>2
    <3>. QED
      BY <3>1
  <2>3. f = [lc \in 0..(top + 1) |->
               IF lc = top + 1
               THEN [ep |-> Landing(g, g[n].vec, top + 1), graph |-> g]
               ELSE ConnectLayer(f[lc + 1].graph, n, lc, f[lc + 1].ep)]
    <3> HIDE DEF W, step
    <3>. QED
      BY <2>1, <2>2 DEF CountsDown
  <2>. QED
    BY <2>3
<1> HIDE DEF from
<1>7. from[top + 1] \in W[top + 1]
  <2>1. from[top + 1] = base
    BY <1>2, <1>6
  <2>. QED
    BY <1>3, <2>1
<1>8. \A lc \in 0..((top + 1) - 1) : from[lc + 1] \in W[lc + 1] => from[lc] \in W[lc]
  <2>1. \A lc \in 0..((top + 1) - 1) :
          from[lc] = ConnectLayer(from[lc + 1].graph, n, lc, from[lc + 1].ep)
    BY <1>1, <1>2, <1>6
  <2> HIDE DEF W
  <2>. QED
    BY <1>4, <2>1
<1>9. from[0] \in W[0]
  <2> HIDE DEF W
  <2>1. \A lc \in 0..(top + 1) : from[lc] \in W[lc]
    BY <1>2, <1>7, <1>8, CountDownInvariant
  <2>. QED
    BY <1>2, <2>1
<1>10. Connect(g, n) = from[0].graph
  BY DEF Connect, from, top
<1>11. Linked(from[0], 0)
  BY <1>2, <1>9
<1>12. ASSUME Small, Together(g, DOMAIN g \ {n}) PROVE Together(from[0].graph, DOMAIN g)
  <2>1. Joined(from[0].graph)
    BY <1>11, <1>12
  <2>2. Unlinked(g, n, 0)
    OBVIOUS
  <2>. QED
    BY <1>12, <2>1, <2>2, TogetherGrows
<1>. QED
  BY <1>10, <1>11, <1>12

-----------------------------------------------------------------------------
(* Live entries *)

EntryType == [id : Ids, vec : Vectors]

\* Node n is a live entry of id.
Counts(g, n, id) == g[n].id = id /\ ~g[n].deleted

\* f[n] are the live entries of id among the first n nodes of g.
IsEntries(f, g, id) ==
  f = [n \in 0..Len(g) |->
         IF n = 0 THEN <<>>
         ELSE IF Counts(g, n, id)
         THEN Append(f[n - 1], [id |-> id, vec |-> g[n].vec])
         ELSE f[n - 1]]

\* Entry by entry.
LEMMA EntriesStep ==
  ASSUME NEW g, Len(g) \in Nat, NEW id, NEW f, IsEntries(f, g, id)
  PROVE  /\ f[0] = <<>>
         /\ \A n \in 1..Len(g) :
              f[n] = (IF Counts(g, n, id)
                      THEN Append(f[n - 1], [id |-> id, vec |-> g[n].vec])
                      ELSE f[n - 1])
<1>1. \A n \in 1..Len(g) : n \in 0..Len(g) /\ n # 0
  OBVIOUS
<1>2. 0 \in 0..Len(g)
  OBVIOUS
<1>3. \A n \in 0..Len(g) :
        f[n] = (IF n = 0 THEN <<>>
                ELSE IF Counts(g, n, id)
                THEN Append(f[n - 1], [id |-> id, vec |-> g[n].vec])
                ELSE f[n - 1])
  BY Zenon DEF IsEntries
<1>4. f[0] = <<>>
  BY <1>2, <1>3
<1>5. ASSUME NEW n \in 1..Len(g)
      PROVE  f[n] = (IF Counts(g, n, id)
                     THEN Append(f[n - 1], [id |-> id, vec |-> g[n].vec])
                     ELSE f[n - 1])
  BY <1>1, <1>3, Zenon
<1>. QED
  BY <1>4, <1>5

\* LiveEntries is what its recursion says, a sequence of entries.
LEMMA EntriesExist ==
  ASSUME NEW g \in Seq(Node), NEW id \in Ids
  PROVE  \E f : /\ IsEntries(f, g, id) /\ LiveEntries(g, id) = f[Len(g)]
                /\ \A n \in 0..Len(g) : f[n] \in Seq(EntryType)
<1> DEFINE step == [n \in 1..Len(g) |-> [x \in Seq(EntryType) |->
                     IF Counts(g, n, id) THEN Append(x, [id |-> id, vec |-> g[n].vec]) ELSE x]]
           W == [n \in 0..Len(g) |-> Seq(EntryType)]
           upTo == CHOOSE upTo : upTo =
             [n \in 0..Len(g) |->
                IF n = 0 THEN <<>>
                ELSE IF g[n].id = id /\ ~g[n].deleted
                THEN Append(upTo[n - 1], [id |-> id, vec |-> g[n].vec])
                ELSE upTo[n - 1]]
<1>1. Len(g) \in Nat /\ \A n \in 1..Len(g) : n \in 0..Len(g) /\ n - 1 \in 0..Len(g)
  OBVIOUS
<1>2. \A n \in 1..Len(g) : [id |-> id, vec |-> g[n].vec] \in EntryType
  <2> HIDE DEF step, W, upTo
  <2>1. \A n \in 1..Len(g) : g[n] \in Node
    OBVIOUS
  <2>2. \A n \in 1..Len(g) : g[n].vec \in Vectors
    BY <2>1 DEF Node
  <2>. QED
    BY <2>2 DEF EntryType
<1>3. <<>> \in W[0]
  BY <1>1
<1>4. \A n \in 1..Len(g) : \A x \in W[n - 1] : step[n][x] \in W[n]
  <2>1. ASSUME NEW n \in 1..Len(g), NEW x \in W[n - 1] PROVE step[n][x] \in W[n]
    <3>1. x \in Seq(EntryType)
      BY <1>1
    <3>2. step[n][x] \in Seq(EntryType)
      BY <1>2, <3>1
    <3>. QED
      BY <1>1, <3>2
  <2>. QED
    BY <2>1
<1>5. PICK f : CountsUp(f, Len(g), <<>>, step) /\ \A n \in 0..Len(g) : f[n] \in W[n]
  <2> HIDE DEF W, step
  <2>. QED
    BY <1>1, <1>3, <1>4, CountUp
<1>6. \A n \in 1..Len(g) :
        step[n][f[n - 1]] = (IF Counts(g, n, id)
                             THEN Append(f[n - 1], [id |-> id, vec |-> g[n].vec])
                             ELSE f[n - 1])
  <2>1. \A n \in 1..Len(g) : f[n - 1] \in Seq(EntryType)
    BY <1>1, <1>5
  <2>. QED
    BY <2>1, Zenon
<1>7. IsEntries(f, g, id)
  <2> HIDE DEF step, W
  <2>1. f = [n \in 0..Len(g) |-> IF n = 0 THEN <<>> ELSE step[n][f[n - 1]]]
    BY <1>5 DEF CountsUp
  <2>2. \A n \in 0..Len(g) : n # 0 => n \in 1..Len(g)
    OBVIOUS
  <2>3. [n \in 0..Len(g) |-> IF n = 0 THEN <<>> ELSE step[n][f[n - 1]]]
        = [n \in 0..Len(g) |->
             IF n = 0 THEN <<>>
             ELSE IF Counts(g, n, id)
             THEN Append(f[n - 1], [id |-> id, vec |-> g[n].vec])
             ELSE f[n - 1]]
    BY <1>6, <2>2
  <2>. QED
    BY <2>1, <2>3, Zenon DEF IsEntries
<1>8. IsEntries(upTo, g, id)
  BY <1>7, Zenon DEF IsEntries, Counts
<1>9. LiveEntries(g, id) = upTo[Len(g)]
  BY Zenon DEF LiveEntries
<1> HIDE DEF upTo
<1>10. upTo[0] \in W[0]
  BY <1>1, <1>3, <1>8, EntriesStep
<1>11. \A n \in 1..Len(g) : upTo[n - 1] \in W[n - 1] => upTo[n] \in W[n]
  <2>1. ASSUME NEW n \in 1..Len(g), upTo[n - 1] \in W[n - 1] PROVE upTo[n] \in W[n]
    <3>1. upTo[n - 1] \in Seq(EntryType)
      BY <1>1, <2>1
    <3>2. upTo[n] = (IF Counts(g, n, id)
                     THEN Append(upTo[n - 1], [id |-> id, vec |-> g[n].vec])
                     ELSE upTo[n - 1])
      BY <1>1, <1>8, EntriesStep
    <3>3. [id |-> id, vec |-> g[n].vec] \in EntryType
      BY <1>2
    <3>4. upTo[n] \in Seq(EntryType)
      <4> HIDE DEF EntryType
      <4>. QED
        BY <3>1, <3>2, <3>3
    <3>. QED
      BY <1>1, <3>4
  <2>. QED
    BY <2>1
<1>12. \A n \in 0..Len(g) : upTo[n] \in W[n]
  <2> HIDE DEF W
  <2>. QED
    BY <1>1, <1>10, <1>11, CountUpInvariant
<1>13. \A n \in 0..Len(g) : upTo[n] \in Seq(EntryType)
  BY <1>12
<1>. QED
  BY <1>8, <1>9, <1>13, Zenon

\* Graphs whose first m nodes are the same but for their links and levels have
\* the same entries among them.
LEMMA EntriesAgree ==
  ASSUME NEW g \in Seq(Node), NEW h \in Seq(Node), NEW id,
         NEW f, IsEntries(f, g, id), NEW e, IsEntries(e, h, id),
         NEW m \in Nat, m <= Len(g), m <= Len(h),
         \A n \in 1..m : (Counts(g, n, id) <=> Counts(h, n, id)) /\ g[n].vec = h[n].vec
  PROVE  f[m] = e[m]
<1> DEFINE S == {n \in Nat : n <= m => f[n] = e[n]}
<1>1. 0 \in S
  BY EntriesStep
<1>2. ASSUME NEW n \in Nat, n \in S PROVE n + 1 \in S
  <2> SUFFICES ASSUME n + 1 <= m PROVE f[n + 1] = e[n + 1]
    OBVIOUS
  <2>1. /\ n + 1 \in 1..m /\ n + 1 \in 0..Len(g) /\ n + 1 \in 0..Len(h) /\ n + 1 # 0
        /\ (n + 1) - 1 = n /\ f[n] = e[n]
    BY <1>2
  <2>2. f[n + 1] = (IF Counts(g, n + 1, id)
                    THEN Append(f[n], [id |-> id, vec |-> g[n + 1].vec]) ELSE f[n])
    <3>1. n + 1 \in 1..Len(g)
      BY <2>1
    <3>. QED
      BY <2>1, <3>1, EntriesStep
  <2>3. e[n + 1] = (IF Counts(h, n + 1, id)
                    THEN Append(e[n], [id |-> id, vec |-> h[n + 1].vec]) ELSE e[n])
    <3>1. n + 1 \in 1..Len(h)
      BY <2>1
    <3>. QED
      BY <2>1, <3>1, EntriesStep
  <2>. QED
    BY <2>1, <2>2, <2>3
<1> HIDE DEF S
<1>3. Nat \subseteq S
  BY <1>1, <1>2, SetInduction
<1>. QED
  BY <1>3 DEF S

\* Nodes that are no entries of id add none.
LEMMA NoneAdded ==
  ASSUME NEW g \in Seq(Node), NEW id, NEW f, IsEntries(f, g, id),
         NEW k \in Nat, k <= Len(g),
         \A n \in 1..Len(g) : n > k => ~Counts(g, n, id)
  PROVE  f[Len(g)] = f[k]
<1> DEFINE S == {n \in Nat : k + n <= Len(g) => f[k + n] = f[k]}
<1>1. 0 \in S
  OBVIOUS
<1>2. ASSUME NEW n \in Nat, n \in S PROVE n + 1 \in S
  <2> SUFFICES ASSUME k + (n + 1) <= Len(g) PROVE f[k + (n + 1)] = f[k]
    OBVIOUS
  <2>1. /\ k + (n + 1) \in 1..Len(g) /\ k + (n + 1) \in 0..Len(g) /\ k + (n + 1) > k
        /\ k + (n + 1) # 0 /\ (k + (n + 1)) - 1 = k + n /\ f[k + n] = f[k]
    BY <1>2
  <2>2. ~Counts(g, k + (n + 1), id)
    BY <2>1
  <2>3. f[k + (n + 1)] = (IF Counts(g, k + (n + 1), id)
                          THEN Append(f[k + n], [id |-> id, vec |-> g[k + (n + 1)].vec])
                          ELSE f[k + n])
    BY <2>1, EntriesStep
  <2>. QED
    BY <2>1, <2>2, <2>3
<1> HIDE DEF S
<1>3. Nat \subseteq S
  BY <1>1, <1>2, SetInduction
<1>4. Len(g) - k \in Nat /\ k + (Len(g) - k) = Len(g)
  OBVIOUS
<1>5. Len(g) - k \in S
  BY <1>3, <1>4
<1>. QED
  BY <1>4, <1>5 DEF S

-----------------------------------------------------------------------------
(* The inductive invariant *)

\* Walks start at a node of the top layer.
Rooted ==
  /\ IF nodes = <<>>
     THEN entryPoint = 0 /\ maxLevel = -1 /\ dimension = 0
     ELSE entryPoint # 0 /\ maxLevel >= 0 /\ nodes[entryPoint].level = maxLevel
  /\ \A i \in DOMAIN nodes : nodes[i].level <= maxLevel

\* An id that Delete knows is that of a live node, with none of the id after it.
NewestNamed ==
  \A id \in Ids : idMap[id] # 0 =>
    /\ Counts(nodes, idMap[id], id)
    /\ \A i \in DOMAIN nodes : i > idMap[id] => nodes[i].id # id

InOnePiece == SmallIndex => Together(nodes, DOMAIN nodes)

HNSWInv == TypeOK /\ Graph(nodes, dimension) /\ Rooted /\ NewestNamed /\ InOnePiece

\* What Insert does to the nodes: it appends one and relinks the others.
NewNode(e, level) ==
  [id |-> e.id, vec |-> e.vec, level |-> level, deleted |-> FALSE,
   links |-> [lc \in 0..level |-> {}]]

LEMMA EntryIs ==
  ASSUME NEW e \in Entries
  PROVE  e.id \in Ids /\ e.vec \in Vectors /\ Dim[e.vec] \in Nat \ {0}
         /\ e = [id |-> e.id, vec |-> e.vec]
BY EntriesAssumption, DimAssumption

\* A graph with a new node, not linked yet, is a graph.
LEMMA AppendedIs ==
  ASSUME HNSWInv, NEW e \in Entries, NEW level \in 0..MaxLevel,
         Len(nodes) + 1 <= MaxNodes, ~Used(e.vec), dimension \in {0, Dim[e.vec]}
  PROVE  LET g == Append(nodes, NewNode(e, level))
             n == Len(nodes) + 1
         IN  /\ Len(nodes) \in Nat /\ DOMAIN nodes = 1..Len(nodes) /\ DOMAIN g = 1..n
             /\ \A i \in 1..Len(nodes) : g[i] = nodes[i]
             /\ g[n] = NewNode(e, level)
             /\ Graph(g, Dim[e.vec])
             /\ \A lc \in Nat : Unlinked(g, n, lc)
<1> DEFINE new == NewNode(e, level)
           g == Append(nodes, new)
           n == Len(nodes) + 1
           d == Dim[e.vec]
<1> USE BoundAssumption
<1>1. nodes \in Seq(Node) /\ Len(nodes) \in Nat /\ DOMAIN nodes = 1..Len(nodes)
  BY DEF HNSWInv, TypeOK
<1>2. MaxLevel \in Nat /\ MaxNodes \in Nat /\ n \in 0..MaxNodes
  BY <1>1
<1>3. new \in Node /\ new.vec = e.vec /\ new.level = level /\ DOMAIN new.links = 0..level
      /\ \A lc \in 0..level : new.links[lc] = {}
  <2>1. [lc \in 0..level |-> {}] \in [0..level -> SUBSET (1..MaxNodes)]
    OBVIOUS
  <2>2. [lc \in 0..level |-> {}] \in UNION {[0..l -> SUBSET (1..MaxNodes)] : l \in 0..MaxLevel}
    BY <2>1
  <2>3. e.id \in Ids /\ e.vec \in Vectors
    BY EntryIs
  <2>. QED
    BY <2>2, <2>3 DEF Node, NewNode
<1> HIDE DEF new
<1>4. /\ g \in Seq(Node) /\ DOMAIN g = 1..n /\ g[n] = new
      /\ \A i \in 1..Len(nodes) : g[i] = nodes[i]
  BY <1>1, <1>3
<1> HIDE DEF g
<1>5. g \in [1..n -> Node]
  BY <1>4
<1>6. \A i \in DOMAIN g : i = n \/ i \in DOMAIN nodes
  BY <1>1, <1>4
<1>7. SoundLinks(nodes) /\ Distinct(nodes, dimension)
  BY DEF HNSWInv, Graph
<1>8. \A lc \in Nat : Unlinked(g, n, lc)
  <2>1. ASSUME NEW lc \in Nat, NEW i \in DOMAIN g, lc <= g[i].level PROVE n \notin g[i].links[lc]
    <3>1. CASE i = n
      <4>1. lc \in 0..level
        BY <1>3, <1>4, <2>1, <3>1
      <4>. QED
        BY <1>3, <1>4, <3>1, <4>1
    <3>2. CASE i \in DOMAIN nodes
      <4>1. g[i] = nodes[i] /\ nodes[i] \in Node
        BY <1>1, <1>4, <3>2
      <4>2. lc \in 0..nodes[i].level
        BY <2>1, <4>1 DEF Node
      <4>3. nodes[i].links[lc] \subseteq DOMAIN nodes
        BY <1>7, <3>2, <4>2 DEF SoundLinks, InLayer
      <4>. QED
        BY <1>1, <4>1, <4>3
    <3>. QED
      BY <1>6, <3>1, <3>2
  <2>. QED
    BY <2>1 DEF Unlinked
<1>9. SoundLinks(g)
  <2>1. ASSUME NEW i \in DOMAIN g
        PROVE  /\ DOMAIN g[i].links = 0..g[i].level
               /\ \A lc \in 0..g[i].level : /\ g[i].links[lc] \subseteq InLayer(g, lc) \ {i}
                                            /\ Cardinality(g[i].links[lc]) <= MaxLinks(lc)
    <3>1. CASE i = n
      <4>1. g[i].level = level /\ DOMAIN g[i].links = 0..level
            /\ \A lc \in 0..level : g[i].links[lc] = {}
        BY <1>3, <1>4, <3>1
      <4>2. Cardinality({}) = 0
        BY FS_EmptySet
      <4>3. \A lc \in 0..level : Cardinality(g[i].links[lc]) <= MaxLinks(lc)
        <5>1. ASSUME NEW lc \in 0..level PROVE Cardinality(g[i].links[lc]) <= MaxLinks(lc)
          <6>1. MaxLinks(lc) \in Nat \ {0}
            BY CapIs
          <6>2. Cardinality(g[i].links[lc]) = 0
            BY <4>1, <4>2
          <6>. QED
            BY <6>1, <6>2
        <5>. QED
          BY <5>1
      <4>. QED
        BY <4>1, <4>3
    <3>2. CASE i \in DOMAIN nodes
      <4>1. g[i] = nodes[i]
        BY <1>1, <1>4, <3>2
      <4>2. \A lc : InLayer(nodes, lc) \subseteq InLayer(g, lc)
        BY <1>1, <1>4 DEF InLayer
      <4>. QED
        BY <1>7, <3>2, <4>1, <4>2 DEF SoundLinks
    <3>. QED
      BY <1>6, <3>1, <3>2
  <2>. QED
    BY <2>1 DEF SoundLinks
<1>10. Distinct(g, d)
  <2>1. \A i \in DOMAIN nodes : g[i] = nodes[i] /\ nodes[i].vec \in Vectors
                                /\ Dim[nodes[i].vec] = d /\ nodes[i].vec # e.vec
    <3>1. ASSUME NEW i \in DOMAIN nodes PROVE Dim[nodes[i].vec] = d
      <4>1. nodes[i].vec \in Vectors /\ Dim[nodes[i].vec] = dimension
        BY <1>7 DEF Distinct
      <4>. QED
        BY <4>1, DimAssumption
    <3>. QED
      BY <1>1, <1>4, <1>7, <3>1 DEF Distinct, Used
  <2>2. g[n].vec = e.vec /\ e.vec \in Vectors
    BY <1>3, <1>4, EntryIs
  <2>3. \A i, j \in DOMAIN nodes : i # j => nodes[i].vec # nodes[j].vec
    BY <1>7 DEF Distinct
  <2>. QED
    BY <1>6, <2>1, <2>2, <2>3 DEF Distinct
<1>11. Graph(g, d)
  BY <1>2, <1>5, <1>9, <1>10 DEF Graph
<1>. QED
  BY <1>1, <1>4, <1>8, <1>11 DEF g, new

\* Then the node is linked.
LEMMA InsertedIs ==
  ASSUME HNSWInv, NEW e \in Entries, NEW level \in 0..MaxLevel, Insert(e, level)
  PROVE  LET n == Len(nodes) + 1
         IN  /\ Len(nodes) \in Nat /\ DOMAIN nodes = 1..Len(nodes)
             /\ n <= MaxNodes /\ DOMAIN nodes' = 1..n
             /\ Graph(nodes', Dim[e.vec])
             /\ \A i \in 1..Len(nodes) :
                  /\ nodes'[i].id = nodes[i].id /\ nodes'[i].vec = nodes[i].vec
                  /\ nodes'[i].level = nodes[i].level /\ nodes'[i].deleted = nodes[i].deleted
             /\ nodes'[n].id = e.id /\ nodes'[n].vec = e.vec
             /\ nodes'[n].level = level /\ nodes'[n].deleted = FALSE
             /\ n <= 2 * M + 1 => Together(nodes', 1..n)
<1> DEFINE g == Append(nodes, NewNode(e, level))
           n == Len(nodes) + 1
           d == Dim[e.vec]
<1>1. n <= MaxNodes /\ ~Used(e.vec) /\ dimension \in {0, d}
      /\ nodes' = IF entryPoint = 0 THEN g ELSE Connect(g, n)
  BY DEF Insert, NewNode
<1>2. /\ Len(nodes) \in Nat /\ DOMAIN nodes = 1..Len(nodes) /\ DOMAIN g = 1..n
      /\ \A i \in 1..Len(nodes) : g[i] = nodes[i]
      /\ g[n] = NewNode(e, level)
      /\ Graph(g, d)
      /\ \A lc \in Nat : Unlinked(g, n, lc)
  <2> HIDE DEF d
  <2>. QED
    BY <1>1, AppendedIs DEF d
<1> HIDE DEF g, d
<1>3. n \in 1..n /\ \A i \in 1..Len(nodes) : i \in 1..n /\ i # n
  BY <1>2
<1>4. g[n].id = e.id /\ g[n].vec = e.vec /\ g[n].level = level /\ g[n].deleted = FALSE
  BY <1>2 DEF NewNode
<1>5. CASE nodes = <<>>
  <2>1. entryPoint = 0 /\ n = 1
    BY <1>5 DEF HNSWInv, Rooted
  <2>2. Together(g, 1..n)
    <3>1. \A C \in SUBSET (1..n) : C # {} => C = 1..n
      <4>1. 1..n = {1}
        BY <2>1
      <4>. QED
        BY <4>1
    <3>. QED
      BY <3>1 DEF Together
  <2>. QED
    BY <1>1, <1>2, <1>4, <2>1, <2>2 DEF d
<1>6. CASE nodes # <<>>
  <2>1. entryPoint # 0 /\ entryPoint \in 0..Len(nodes) /\ maxLevel \in 0..MaxLevel
        /\ nodes[entryPoint].level = maxLevel
    BY <1>6, BoundAssumption DEF HNSWInv, Rooted, TypeOK
  <2>2. entryPoint \in DOMAIN g \ {n} /\ g[entryPoint].level = maxLevel
    BY <1>2, <2>1
  <2>3. nodes' = Connect(g, n)
    BY <1>1, <2>1
  <2>4. n \in DOMAIN g
    BY <1>2, <1>3
  <2>5. /\ Graph(nodes', d) /\ SameNodes(g, nodes')
        /\ Cardinality(DOMAIN g) <= 2 * M + 1 /\ Together(g, DOMAIN g \ {n}) =>
             Together(nodes', DOMAIN g)
    <3> HIDE DEF n
    <3>. QED
      BY <1>2, <2>1, <2>2, <2>3, <2>4, ConnectIs
  <2>6. DOMAIN nodes' = 1..n
        /\ \A i \in 1..n : /\ nodes'[i].id = g[i].id /\ nodes'[i].vec = g[i].vec
                           /\ nodes'[i].level = g[i].level /\ nodes'[i].deleted = g[i].deleted
    BY <1>2, <2>5 DEF SameNodes
  <2>7. ASSUME n <= 2 * M + 1 PROVE Together(nodes', 1..n)
    <3>1. M \in Nat
      BY CapIs
    <3>2. Together(nodes, DOMAIN nodes)
      BY <1>2, <2>7, <3>1 DEF HNSWInv, InOnePiece, SmallIndex
    <3>3. DOMAIN g \ {n} = DOMAIN nodes
      BY <1>2
    <3>4. Together(g, DOMAIN g \ {n})
      BY <1>2, <3>2, <3>3 DEF Together
    <3>5. Cardinality(1..n) = n
      <4>1. 1 \in Int /\ n \in Int /\ n >= 1 /\ n - 1 + 1 = n
        BY <1>2
      <4> HIDE DEF n
      <4>. QED
        BY <4>1, FS_Interval
    <3>. QED
      BY <1>2, <2>5, <2>7, <3>4, <3>5
  <2>. QED
    BY <1>1, <1>2, <1>3, <1>4, <2>5, <2>6, <2>7 DEF d
<1>. QED
  BY <1>5, <1>6

LEMMA GraphIsSequence ==
  ASSUME NEW g, NEW d, Graph(g, d), NEW n \in Nat, DOMAIN g = 1..n
  PROVE  g \in Seq(Node) /\ Len(g) = n
<1>1. g \in [1..n -> Node]
  BY DEF Graph
<1>. QED
  BY <1>1

\* What Delete does to the nodes: it marks one.
LEMMA MarkedIs ==
  ASSUME HNSWInv, NEW id \in Ids, Delete(id)
  PROVE  /\ idMap[id] \in 1..Len(nodes) /\ Len(nodes) \in Nat /\ Len(nodes) <= MaxNodes
         /\ DOMAIN nodes = 1..Len(nodes) /\ DOMAIN nodes' = 1..Len(nodes)
         /\ Graph(nodes', dimension)
         /\ \A i \in 1..Len(nodes) :
              /\ nodes'[i].id = nodes[i].id /\ nodes'[i].vec = nodes[i].vec
              /\ nodes'[i].level = nodes[i].level /\ nodes'[i].links = nodes[i].links
              /\ nodes'[i].deleted = IF i = idMap[id] THEN TRUE ELSE nodes[i].deleted
<1> DEFINE n == Len(nodes)
           x == idMap[id]
<1>1. nodes \in Seq(Node) /\ n \in Nat /\ n <= MaxNodes /\ x \in 1..n /\ DOMAIN nodes = 1..n
  BY DEF HNSWInv, TypeOK, Delete
<1>2. nodes' = [nodes EXCEPT ![x].deleted = TRUE]
  BY DEF Delete
<1> HIDE DEF n, x
<1>3. nodes \in [1..n -> Node]
  BY <1>1 DEF n
<1>4. DOMAIN nodes' = 1..n
      /\ \A i \in 1..n : nodes'[i] = IF i = x THEN [nodes[x] EXCEPT !.deleted = TRUE] ELSE nodes[i]
  BY <1>1, <1>2
<1>5. /\ [nodes[x] EXCEPT !.deleted = TRUE] \in Node
      /\ LET r == [nodes[x] EXCEPT !.deleted = TRUE]
         IN  /\ r.id = nodes[x].id /\ r.vec = nodes[x].vec /\ r.level = nodes[x].level
             /\ r.links = nodes[x].links /\ r.deleted = TRUE
  <2>1. nodes[x] \in Node
    BY <1>1, <1>3
  <2>. QED
    BY <2>1 DEF Node
<1>6. \A i \in 1..n : /\ nodes'[i] \in Node
                      /\ nodes'[i].id = nodes[i].id /\ nodes'[i].vec = nodes[i].vec
                      /\ nodes'[i].level = nodes[i].level /\ nodes'[i].links = nodes[i].links
                      /\ nodes'[i].deleted = IF i = x THEN TRUE ELSE nodes[i].deleted
  <2>1. ASSUME NEW i \in 1..n
        PROVE  /\ nodes'[i] \in Node
               /\ nodes'[i].id = nodes[i].id /\ nodes'[i].vec = nodes[i].vec
               /\ nodes'[i].level = nodes[i].level /\ nodes'[i].links = nodes[i].links
               /\ nodes'[i].deleted = IF i = x THEN TRUE ELSE nodes[i].deleted
    <3>1. CASE i = x
      BY <1>4, <1>5, <3>1
    <3>2. CASE i # x
      <4>1. nodes'[i] = nodes[i]
        BY <1>4, <3>2
      <4>. QED
        BY <1>3, <3>2, <4>1
    <3>. QED
      BY <3>1, <3>2
  <2>. QED
    BY <2>1
<1>7. \E m \in 0..MaxNodes : nodes' \in [1..m -> Node]
  <2>1. n \in 0..MaxNodes
    BY <1>1, BoundAssumption
  <2>2. nodes' = [i \in 1..n |-> nodes'[i]]
    BY <1>2, <1>3
  <2>3. nodes' \in [1..n -> Node]
    BY <1>6, <2>2
  <2>. QED
    BY <2>1, <2>3
<1>8. SoundLinks(nodes) /\ Distinct(nodes, dimension)
  BY DEF HNSWInv, Graph
<1>9. SoundLinks(nodes')
  <2>1. \A lc : InLayer(nodes', lc) = InLayer(nodes, lc)
    BY <1>1, <1>4, <1>6 DEF InLayer
  <2>. QED
    BY <1>1, <1>4, <1>6, <1>8, <2>1 DEF SoundLinks
<1>10. Distinct(nodes', dimension)
  <2>1. \A i \in 1..n : nodes'[i].vec = nodes[i].vec
    BY <1>6
  <2>2. DOMAIN nodes = DOMAIN nodes'
    BY <1>1, <1>4
  <2>. QED
    BY <1>4, <1>8, <2>1, <2>2 DEF Distinct
<1>. QED
  BY <1>1, <1>4, <1>6, <1>7, <1>9, <1>10 DEF Graph, n, x

LEMMA InitInv == Init => HNSWInv
<1> SUFFICES ASSUME Init PROVE HNSWInv
  OBVIOUS
<1>1. nodes = <<>> /\ entryPoint = 0 /\ maxLevel = -1 /\ dimension = 0
      /\ efSearch = EfSearch /\ idMap = [id \in Ids |-> 0]
  BY DEF Init
<1>2. Len(nodes) = 0 /\ DOMAIN nodes = {}
  BY <1>1
<1>3. TypeOK
  BY <1>1, <1>2, ConfigAssumption, BoundAssumption DEF TypeOK
<1>4. Graph(nodes, dimension)
  <2>1. nodes \in [1..0 -> Node]
    BY <1>1
  <2>2. 0 \in 0..MaxNodes
    BY BoundAssumption
  <2>. QED
    BY <1>2, <2>1, <2>2 DEF Graph, SoundLinks, Distinct
<1>5. Rooted /\ NewestNamed
  BY <1>1, <1>2 DEF Rooted, NewestNamed
<1>6. InOnePiece
  BY <1>2 DEF InOnePiece, Together
<1>. QED
  BY <1>3, <1>4, <1>5, <1>6 DEF HNSWInv

LEMMA InsertKeepsInv ==
  ASSUME HNSWInv, NEW e \in Entries, NEW level \in 0..MaxLevel, Insert(e, level)
  PROVE  HNSWInv'
<1> DEFINE n == Len(nodes) + 1
<1>1. TypeOK /\ Rooted /\ NewestNamed
  BY DEF HNSWInv
<1>2. /\ Len(nodes) \in Nat /\ DOMAIN nodes = 1..Len(nodes)
      /\ n \in Nat /\ n >= 1 /\ n <= MaxNodes /\ DOMAIN nodes' = 1..n
      /\ Graph(nodes', Dim[e.vec])
      /\ \A i \in 1..Len(nodes) :
           /\ nodes'[i].id = nodes[i].id /\ nodes'[i].vec = nodes[i].vec
           /\ nodes'[i].level = nodes[i].level /\ nodes'[i].deleted = nodes[i].deleted
      /\ nodes'[n].id = e.id /\ nodes'[n].vec = e.vec
      /\ nodes'[n].level = level /\ nodes'[n].deleted = FALSE
      /\ n <= 2 * M + 1 => Together(nodes', 1..n)
  <2>1. Len(nodes) \in Nat
    BY InsertedIs
  <2>2. n \in Nat /\ n >= 1
    BY <2>1
  <2>. QED
    BY <2>2, InsertedIs, Zenon
<1>3. nodes' \in Seq(Node) /\ Len(nodes') = n
  <2> HIDE DEF n
  <2>. QED
    BY <1>2, GraphIsSequence
<1>4. /\ dimension' = Dim[e.vec] /\ idMap' = [idMap EXCEPT ![e.id] = n] /\ efSearch' = efSearch
      /\ IF level > maxLevel THEN maxLevel' = level /\ entryPoint' = n
         ELSE maxLevel' = maxLevel /\ entryPoint' = entryPoint
  BY DEF Insert
<1>5. e.id \in Ids /\ e.vec \in Vectors
  BY EntryIs
<1>6. \A i \in 1..n : i = n \/ i \in 1..Len(nodes)
  BY <1>2
<1>7. TypeOK'
  <2>1. idMap' \in [Ids -> 0..n]
    BY <1>1, <1>2, <1>4, <1>5 DEF TypeOK
  <2>2. entryPoint' \in 0..n /\ maxLevel' \in -1..MaxLevel
    BY <1>1, <1>2, <1>4, BoundAssumption DEF TypeOK
  <2>3. dimension' \in {0} \cup {Dim[v] : v \in Vectors}
    BY <1>4, <1>5
  <2> HIDE DEF n
  <2>. QED
    BY <1>1, <1>2, <1>3, <1>4, <2>1, <2>2, <2>3 DEF TypeOK
<1>8. Graph(nodes', dimension')
  BY <1>2, <1>4
<1>9. Rooted'
  <2>1. nodes' # <<>> /\ \A i \in 1..Len(nodes) : nodes[i].level <= maxLevel
    BY <1>1, <1>2 DEF Rooted
  <2>2. \A i \in 1..Len(nodes) : nodes[i].level \in Int
    <3>1. Graph(nodes, dimension)
      BY DEF HNSWInv
    <3>. QED
      BY <1>2, <3>1, GraphIs
  <2>3. CASE level > maxLevel
    <3>1. maxLevel' = level /\ entryPoint' = n
      BY <1>4, <2>3
    <3>2. \A i \in 1..n : nodes'[i].level <= level
      BY <1>1, <1>2, <1>6, <2>1, <2>2, <2>3 DEF TypeOK
    <3>. QED
      BY <1>2, <2>1, <3>1, <3>2 DEF Rooted
  <2>4. CASE ~(level > maxLevel)
    <3>1. maxLevel' = maxLevel /\ entryPoint' = entryPoint
      BY <1>4, <2>4
    <3>2. nodes # <<>> /\ maxLevel >= 0 /\ level <= maxLevel
      BY <1>1, <2>4 DEF Rooted, TypeOK
    <3>3. entryPoint \in 1..Len(nodes) /\ nodes[entryPoint].level = maxLevel
      BY <1>1, <1>2, <3>2 DEF Rooted, TypeOK
    <3>4. \A i \in 1..n : nodes'[i].level <= maxLevel
      BY <1>2, <1>6, <2>1, <3>2
    <3>. QED
      BY <1>2, <2>1, <3>1, <3>2, <3>3, <3>4 DEF Rooted
  <2>. QED
    BY <2>3, <2>4
<1>10. NewestNamed'
  <2>1. ASSUME NEW id \in Ids, idMap'[id] # 0
        PROVE  /\ Counts(nodes', idMap'[id], id)
               /\ \A i \in 1..n : i > idMap'[id] => nodes'[i].id # id
    <3>1. CASE id = e.id
      <4>1. idMap'[id] = n
        BY <1>1, <1>4, <1>5, <3>1 DEF TypeOK
      <4>. QED
        BY <1>2, <3>1, <4>1 DEF Counts
    <3>2. CASE id # e.id
      <4>1. idMap'[id] = idMap[id] /\ idMap[id] \in 1..Len(nodes)
        BY <1>1, <1>2, <1>4, <1>5, <2>1, <3>2 DEF TypeOK
      <4>2. Counts(nodes, idMap[id], id)
            /\ \A i \in 1..Len(nodes) : i > idMap[id] => nodes[i].id # id
        BY <1>1, <1>2, <4>1 DEF NewestNamed
      <4>3. nodes'[idMap[id]].id = nodes[idMap[id]].id
            /\ nodes'[idMap[id]].deleted = nodes[idMap[id]].deleted
        BY <1>2, <4>1
      <4>4. Counts(nodes', idMap[id], id)
        BY <4>2, <4>3, Zenon DEF Counts
      <4>5. ASSUME NEW i \in 1..n, i > idMap[id] PROVE nodes'[i].id # id
        BY <1>2, <1>6, <3>2, <4>2, <4>5
      <4>. QED
        BY <4>1, <4>4, <4>5
    <3>. QED
      BY <3>1, <3>2
  <2>. QED
    BY <1>2, <2>1 DEF NewestNamed
<1>11. InOnePiece'
  BY <1>2, <1>3 DEF InOnePiece, SmallIndex
<1>. QED
  BY <1>7, <1>8, <1>9, <1>10, <1>11 DEF HNSWInv

LEMMA DeleteKeepsInv ==
  ASSUME HNSWInv, NEW id \in Ids, Delete(id)
  PROVE  HNSWInv'
<1> DEFINE n == Len(nodes)
           x == idMap[id]
<1>1. TypeOK /\ Rooted /\ NewestNamed /\ InOnePiece
  BY DEF HNSWInv
<1>2. /\ x \in 1..n /\ n \in Nat /\ n <= MaxNodes /\ DOMAIN nodes = 1..n /\ DOMAIN nodes' = 1..n
      /\ Graph(nodes', dimension)
      /\ \A i \in 1..n :
           /\ nodes'[i].id = nodes[i].id /\ nodes'[i].vec = nodes[i].vec
           /\ nodes'[i].level = nodes[i].level /\ nodes'[i].links = nodes[i].links
           /\ nodes'[i].deleted = IF i = x THEN TRUE ELSE nodes[i].deleted
  BY MarkedIs
<1>3. nodes' \in Seq(Node) /\ Len(nodes') = n
  <2> HIDE DEF n
  <2>. QED
    BY <1>2, GraphIsSequence
<1>4. /\ idMap' = [idMap EXCEPT ![id] = 0]
      /\ UNCHANGED <<entryPoint, maxLevel, dimension, efSearch>>
  BY DEF Delete
<1>5. TypeOK'
  BY <1>1, <1>2, <1>3, <1>4 DEF TypeOK
<1>6. Graph(nodes', dimension')
  BY <1>2, <1>4
<1>7. Rooted'
  <2>1. nodes # <<>> /\ nodes' # <<>>
    BY <1>2
  <2>2. entryPoint \in 1..n
    BY <1>1, <2>1 DEF TypeOK, Rooted
  <2>. QED
    BY <1>1, <1>2, <1>4, <2>1, <2>2 DEF Rooted
<1>8. NewestNamed'
  <2>1. ASSUME NEW j \in Ids, idMap'[j] # 0
        PROVE  /\ Counts(nodes', idMap'[j], j)
               /\ \A i \in 1..n : i > idMap'[j] => nodes'[i].id # j
    <3>1. j # id /\ idMap'[j] = idMap[j] /\ idMap[j] \in 1..n
      BY <1>1, <1>4, <2>1 DEF TypeOK
    <3>2. Counts(nodes, idMap[j], j) /\ Counts(nodes, x, id)
          /\ \A i \in 1..n : i > idMap[j] => nodes[i].id # j
      BY <1>1, <1>2, <3>1 DEF NewestNamed
    <3>3. idMap[j] # x
      BY <3>1, <3>2 DEF Counts
    <3>4. nodes'[idMap[j]].id = nodes[idMap[j]].id
          /\ nodes'[idMap[j]].deleted = nodes[idMap[j]].deleted
      BY <1>2, <3>1, <3>3
    <3>5. Counts(nodes', idMap[j], j)
      BY <3>2, <3>4, Zenon DEF Counts
    <3>6. \A i \in 1..n : nodes'[i].id = nodes[i].id
      BY <1>2
    <3>. QED
      BY <3>1, <3>2, <3>5, <3>6
  <2>. QED
    BY <1>2, <2>1 DEF NewestNamed
<1>9. InOnePiece'
  BY <1>1, <1>2, <1>3 DEF InOnePiece, SmallIndex, Together
<1>. QED
  BY <1>5, <1>6, <1>7, <1>8, <1>9 DEF HNSWInv

LEMMA NextKeepsInv == HNSWInv /\ [Next]_vars => HNSWInv'
<1> SUFFICES ASSUME HNSWInv, [Next]_vars PROVE HNSWInv'
  OBVIOUS
<1>1. ASSUME NEW e \in Entries, NEW level \in 0..MaxLevel, Insert(e, level) PROVE HNSWInv'
  BY <1>1, InsertKeepsInv
<1>2. ASSUME NEW id \in Ids, Delete(id) PROVE HNSWInv'
  BY <1>2, DeleteKeepsInv
<1>3. ASSUME NEW ef \in EfValues, SetEfSearch(ef) PROVE HNSWInv'
  <2>1. efSearch' \in Nat \ {0}
    BY <1>3, EfAssumption DEF SetEfSearch, HNSWInv, TypeOK
  <2>2. UNCHANGED <<nodes, idMap, entryPoint, maxLevel, dimension>>
    BY <1>3 DEF SetEfSearch
  <2>3. TypeOK'
    BY <2>1, <2>2 DEF HNSWInv, TypeOK
  <2>. QED
    BY <2>2, <2>3 DEF HNSWInv, Rooted, NewestNamed, InOnePiece, SmallIndex
<1>4. CASE UNCHANGED vars
  BY <1>4 DEF vars, HNSWInv, TypeOK, Rooted, NewestNamed, InOnePiece, SmallIndex
<1>. QED
  BY <1>1, <1>2, <1>3, <1>4 DEF Next

LEMMA HNSWInvHolds == Spec => []HNSWInv
<1>. QED
  BY InitInv, NextKeepsInv, PTL DEF Spec

\* The state of the graph has its type.
THEOREM GraphTypeCorrect == Spec => []TypeOK
<1>1. HNSWInv => TypeOK
  BY DEF HNSWInv
<1>. QED
  BY <1>1, HNSWInvHolds, PTL

\* Whatever was linked back and pruned, and in whatever order: no walk indexes
\* out of a node's list of layers, and no list outgrows its cap.
THEOREM GraphStaysSound == Spec => []LinksSound
<1>1. HNSWInv => LinksSound
  <2> SUFFICES ASSUME HNSWInv PROVE LinksSound
    OBVIOUS
  <2>1. /\ SoundLinks(nodes) /\ Distinct(nodes, dimension)
        /\ \A i \in DOMAIN nodes : nodes[i].level \in 0..MaxLevel
    BY GraphIs DEF HNSWInv, Graph
  <2>2. ASSUME NEW i \in DOMAIN nodes, NEW lc \in 0..MaxLevel, lc <= nodes[i].level
        PROVE  /\ \A j \in nodes[i].links[lc] : j # i /\ lc <= nodes[j].level
               /\ Cardinality(nodes[i].links[lc]) <= MaxLinks(lc)
    <3>1. lc \in 0..nodes[i].level
      BY <2>1, <2>2
    <3>2. nodes[i].links[lc] \subseteq InLayer(nodes, lc) \ {i}
          /\ Cardinality(nodes[i].links[lc]) <= MaxLinks(lc)
      BY <2>1, <3>1 DEF SoundLinks
    <3>3. \A j \in InLayer(nodes, lc) : lc <= nodes[j].level
      BY <2>1 DEF InLayer
    <3>. QED
      BY <3>2, <3>3
  <2>3. nodes # <<>> => nodes[entryPoint].level = maxLevel
    BY DEF HNSWInv, Rooted
  <2>4. \A i \in DOMAIN nodes : nodes[i].level <= maxLevel /\ Dim[nodes[i].vec] = dimension
    BY <2>1 DEF HNSWInv, Rooted, Distinct
  <2>. QED
    BY <2>2, <2>3, <2>4 DEF LinksSound
<1>. QED
  BY <1>1, HNSWInvHolds, PTL

-----------------------------------------------------------------------------
(* Search *)

\* As long as layer 0 is in one piece, a search finds ef nodes or all.
LEMMA FoundIs ==
  ASSUME HNSWInv, SmallIndex, nodes # <<>>, NEW q \in Asked, NEW ef \in Nat \ {0}
  PROVE  LET found == SearchLayer(nodes, q, Landing(nodes, q, 1), ef, 0)
         IN  /\ found \subseteq DOMAIN nodes
             /\ Cardinality(found) = ef \/ found = DOMAIN nodes
<1> DEFINE ep == Landing(nodes, q, 1)
           found == SearchLayer(nodes, q, ep, ef, 0)
<1>1. q \in Vectors /\ Dim[q] = dimension
  BY QueryAssumption DEF Asked
<1>2. Graph(nodes, dimension) /\ SoundLinks(nodes) /\ Distinct(nodes, dimension)
  BY DEF HNSWInv, Graph
<1>3. /\ IsFiniteSet(DOMAIN nodes)
      /\ \A i \in DOMAIN nodes : nodes[i].level \in 0..MaxLevel
  BY <1>2, GraphIs
<1>4. Scored(nodes, q)
  BY <1>1, <1>2, VectorsScore
<1>5. 0 \notin DOMAIN nodes
  BY DEF HNSWInv, TypeOK
<1>6. \A lc \in Nat : Unlinked(nodes, 0, lc)
  <2>1. ASSUME NEW lc \in Nat, NEW i \in DOMAIN nodes, lc <= nodes[i].level
        PROVE  0 \notin nodes[i].links[lc]
    <3>1. lc \in 0..nodes[i].level
      BY <1>3, <2>1
    <3>. QED
      BY <1>2, <1>5, <3>1 DEF SoundLinks, InLayer
  <2>. QED
    BY <2>1 DEF Unlinked
<1>7. ep \in DOMAIN nodes
  <2>1. /\ entryPoint \in DOMAIN nodes \ {0} /\ maxLevel \in 0..MaxLevel
        /\ nodes[entryPoint].level = maxLevel
    BY DEF HNSWInv, TypeOK, Rooted
  <2>2. 1 \in 0..(maxLevel + 1)
    BY <2>1, BoundAssumption
  <2>3. ep \in InLayer(nodes, 1 - 1) \ {0}
    BY <1>1, <1>2, <1>6, <2>1, <2>2, LandingIs
  <2>. QED
    BY <2>3 DEF InLayer
<1>8. LinksIn(nodes, 0)
  BY <1>2, <1>6, LayerClosed
<1>9. /\ found \subseteq DOMAIN nodes
      /\ Cardinality(found) = ef \/ (ep \in found /\ Closed(nodes, 0, found))
  <2> HIDE DEF ep
  <2>. QED
    BY <1>3, <1>4, <1>7, <1>8, SearchCovers
<1>10. Together(nodes, DOMAIN nodes)
  BY DEF HNSWInv, InOnePiece
<1>11. ASSUME ep \in found, Closed(nodes, 0, found) PROVE found = DOMAIN nodes
  <2> HIDE DEF ep, found
  <2>1. \A i \in found : nodes[i].links[0] \subseteq found
    BY <1>3, <1>9, <1>11 DEF Closed, Links
  <2>. QED
    BY <1>9, <1>10, <1>11, <2>1 DEF Together
<1>. QED
  BY <1>9, <1>11

LEMMA EfIs ==
  ASSUME HNSWInv, NEW k \in Ks
  PROVE  k \in Nat \ {0} /\ Ef(k) \in Nat \ {0} /\ k <= Ef(k)
BY QueryAssumption, MaxOfTwo DEF HNSWInv, TypeOK, Ef

\* The first 2M + 1 inserts keep layer 0 in one piece: a search that keeps as
\* many candidates as there are nodes is exact.
THEOREM SearchIsExactWhileSmall == Spec => []SearchIsExact
<1>1. HNSWInv => SearchIsExact
  <2> SUFFICES ASSUME HNSWInv, SmallIndex, NEW q \in Asked, NEW k \in Ks, Ef(k) >= Len(nodes)
               PROVE  Search(q, k) = Best(nodes, q, Live, k)
    BY DEF SearchIsExact
  <2>1. nodes \in Seq(Node) /\ Len(nodes) \in Nat /\ DOMAIN nodes = 1..Len(nodes)
    BY DEF HNSWInv, TypeOK
  <2>2. CASE nodes = <<>>
    BY <2>1, <2>2 DEF Search, Live, Best
  <2>3. CASE nodes # <<>>
    <3> DEFINE found == SearchLayer(nodes, q, Landing(nodes, q, 1), Ef(k), 0)
    <3>1. /\ found \subseteq DOMAIN nodes
          /\ Cardinality(found) = Ef(k) \/ found = DOMAIN nodes
      BY <2>3, EfIs, FoundIs
    <3>2. IsFiniteSet(DOMAIN nodes) /\ Cardinality(DOMAIN nodes) = Len(nodes)
      BY <2>1, FS_Interval
    <3>3. Search(q, k) = Best(nodes, q, found \ Tombstones, k)
      BY <2>3 DEF Search
    <3> HIDE DEF found
    <3>4. found = DOMAIN nodes
      BY <2>1, <3>1, <3>2, FS_Subset, EfIs
    <3>. QED
      BY <3>3, <3>4 DEF Live
  <2>. QED
    BY <2>2, <2>3
<1>. QED
  BY <1>1, HNSWInvHolds, PTL

LEMMA MinOfThree ==
  ASSUME NEW a \in Int, NEW b \in Int, NEW c \in Int
  PROVE  /\ Min({a, b, c}) \in {a, b, c}
         /\ Min({a, b, c}) <= a /\ Min({a, b, c}) <= b /\ Min({a, b, c}) <= c
<1>1. \E x \in {a, b, c} : \A y \in {a, b, c} : x <= y
  <2>1. CASE a <= b /\ a <= c
    BY <2>1
  <2>2. CASE b <= a /\ b <= c
    BY <2>2
  <2>3. CASE c <= a /\ c <= b
    BY <2>3
  <2>. QED
    BY <2>1, <2>2, <2>3
<1>. QED
  BY <1>1 DEF Min

\* Tombstones alone do not empty a search.
THEOREM SearchFillsWhileSmall == Spec => []SearchFills
<1>1. HNSWInv => SearchFills
  <2> SUFFICES ASSUME HNSWInv, SmallIndex, NEW q \in Asked, NEW k \in Ks
               PROVE  Cardinality(Search(q, k))
                        >= Min({k, Cardinality(Live), Ef(k) - Cardinality(Tombstones)})
    BY DEF SearchFills
  <2> DEFINE least == Min({k, Cardinality(Live), Ef(k) - Cardinality(Tombstones)})
  <2>1. nodes \in Seq(Node) /\ Len(nodes) \in Nat /\ DOMAIN nodes = 1..Len(nodes)
    BY DEF HNSWInv, TypeOK
  <2>2. IsFiniteSet(DOMAIN nodes) /\ Tombstones \subseteq DOMAIN nodes /\ Live \subseteq DOMAIN nodes
    BY <2>1, FS_Interval DEF Tombstones, Live
  <2>3. IsFiniteSet(Tombstones) /\ IsFiniteSet(Live)
        /\ Cardinality(Tombstones) \in Nat /\ Cardinality(Live) \in Nat
    BY <2>2, FS_Subset, FS_CardinalityType
  <2>4. k \in Nat \ {0} /\ Ef(k) \in Nat \ {0}
    BY EfIs
  <2>5. least <= k /\ least <= Cardinality(Live) /\ least <= Ef(k) - Cardinality(Tombstones)
        /\ least \in {k, Cardinality(Live), Ef(k) - Cardinality(Tombstones)}
    <3>1. k \in Int /\ Cardinality(Live) \in Int /\ Ef(k) - Cardinality(Tombstones) \in Int
      BY <2>3, <2>4
    <3>. QED
      BY <3>1, MinOfThree, Zenon
  <2>6. least \in Int
    <3> HIDE DEF least
    <3>. QED
      BY <2>3, <2>4, <2>5
  <2> HIDE DEF least
  <2>7. CASE nodes = <<>>
    <3>1. Search(q, k) = {} /\ Live = {}
      BY <2>1, <2>2, <2>7 DEF Search
    <3>. QED
      BY <2>5, <2>6, <3>1, FS_EmptySet DEF least
  <2>8. CASE nodes # <<>>
    <3> DEFINE found == SearchLayer(nodes, q, Landing(nodes, q, 1), Ef(k), 0)
    <3>1. /\ found \subseteq DOMAIN nodes
          /\ Cardinality(found) = Ef(k) \/ found = DOMAIN nodes
      BY <2>8, <2>4, FoundIs
    <3>2. Search(q, k) = Best(nodes, q, found \ Tombstones, k)
      BY <2>8 DEF Search
    <3>3. Scored(nodes, q)
      BY QueryAssumption, VectorsScore DEF Asked, HNSWInv, Graph
    <3> HIDE DEF found
    <3>4. IsFiniteSet(found \ Tombstones) /\ found \ Tombstones \in SUBSET DOMAIN nodes
          /\ Cardinality(found \ Tombstones) \in Nat
      BY <2>2, <3>1, FS_Subset, FS_CardinalityType
    <3>5. Cardinality(Search(q, k)) = IF Cardinality(found \ Tombstones) <= k
                                      THEN Cardinality(found \ Tombstones) ELSE k
      BY <2>4, <3>2, <3>3, <3>4, BestSize
    <3>6. least <= Cardinality(found \ Tombstones)
      <4>1. CASE found = DOMAIN nodes
        BY <2>5, <4>1 DEF Live
      <4>2. CASE Cardinality(found) = Ef(k)
        <5>1. Cardinality(found \ Tombstones)
              = Cardinality(found) - Cardinality(found \cap Tombstones)
          BY <2>2, <3>1, FS_Subset, FS_Difference
        <5>2. Cardinality(found \cap Tombstones) <= Cardinality(Tombstones)
              /\ Cardinality(found \cap Tombstones) \in Nat
          BY <2>3, FS_Subset, FS_CardinalityType
        <5>. QED
          BY <2>3, <2>4, <2>5, <2>6, <4>2, <5>1, <5>2
      <4>. QED
        BY <3>1, <4>1, <4>2
    <3>. QED
      BY <2>4, <2>5, <2>6, <3>4, <3>5, <3>6 DEF least
  <2>. QED
    BY <2>7, <2>8
<1>. QED
  BY <1>1, HNSWInvHolds, PTL

-----------------------------------------------------------------------------
(* The promise to the node *)

LEMMA LastTakenOff ==
  ASSUME NEW S, NEW s \in Seq(S), NEW x \in S
  PROVE  LET t == Append(s, x) IN SubSeq(t, 1, Len(t) - 1) = s
OBVIOUS

\* An insert appends an entry of its id.
LEMMA InsertAddsEntry ==
  ASSUME HNSWInv, NEW e \in Entries, NEW level \in 0..MaxLevel, Insert(e, level), NEW id \in Ids
  PROVE  LiveEntries(nodes', id) = IF id = e.id THEN Append(LiveEntries(nodes, id), e)
                                   ELSE LiveEntries(nodes, id)
<1> DEFINE m == Len(nodes)
           n == Len(nodes) + 1
<1>1. /\ m \in Nat /\ n \in Nat /\ n \in 1..n /\ n - 1 = m
      /\ DOMAIN nodes' = 1..n /\ Graph(nodes', Dim[e.vec])
      /\ \A i \in 1..m : /\ nodes'[i].id = nodes[i].id /\ nodes'[i].vec = nodes[i].vec
                         /\ nodes'[i].deleted = nodes[i].deleted
      /\ nodes'[n].id = e.id /\ nodes'[n].vec = e.vec /\ nodes'[n].deleted = FALSE
  <2>1. m \in Nat
    BY InsertedIs
  <2>2. n \in Nat /\ n \in 1..n /\ n - 1 = m
    BY <2>1
  <2>. QED
    BY <2>1, <2>2, InsertedIs, Zenon
<1>2. nodes \in Seq(Node)
  BY DEF HNSWInv, TypeOK
<1>3. nodes' \in Seq(Node) /\ Len(nodes') = n
  <2> HIDE DEF n
  <2>. QED
    BY <1>1, GraphIsSequence
<1>4. PICK f : IsEntries(f, nodes, id) /\ LiveEntries(nodes, id) = f[m]
  BY <1>2, EntriesExist
<1>5. PICK h : IsEntries(h, nodes', id) /\ LiveEntries(nodes', id) = h[n]
  <2>1. \E h : IsEntries(h, nodes', id) /\ LiveEntries(nodes', id) = h[Len(nodes')]
    BY <1>3, EntriesExist
  <2>. QED
    BY <1>3, <2>1
<1> HIDE DEF m, n
<1>6. \A i \in 1..m : (Counts(nodes, i, id) <=> Counts(nodes', i, id))
                      /\ nodes[i].vec = nodes'[i].vec
  BY <1>1, Zenon DEF Counts
<1>7. f[m] = h[m]
  <2>1. m <= Len(nodes) /\ m <= Len(nodes')
    BY <1>1, <1>3 DEF m, n
  <2>. QED
    BY <1>1, <1>2, <1>3, <1>4, <1>5, <1>6, <2>1, EntriesAgree
<1>8. h[n] = (IF Counts(nodes', n, id) THEN Append(h[m], [id |-> id, vec |-> nodes'[n].vec])
              ELSE h[m])
  BY <1>1, <1>3, <1>5, EntriesStep
<1>9. Counts(nodes', n, id) <=> id = e.id
  BY <1>1 DEF Counts
<1>10. id = e.id => e = [id |-> id, vec |-> nodes'[n].vec]
  BY <1>1, EntryIs
<1>. QED
  BY <1>4, <1>5, <1>7, <1>8, <1>9, <1>10

\* A delete takes off the last entry of its id.
LEMMA DeleteDropsEntry ==
  ASSUME HNSWInv, NEW id \in Ids, Delete(id), NEW j \in Ids
  PROVE  LiveEntries(nodes', j) = IF j = id
                                  THEN SubSeq(LiveEntries(nodes, j), 1,
                                              Len(LiveEntries(nodes, j)) - 1)
                                  ELSE LiveEntries(nodes, j)
<1> DEFINE n == Len(nodes)
           x == idMap[id]
<1>1. /\ x \in 1..n /\ n \in Nat
      /\ DOMAIN nodes' = 1..n /\ Graph(nodes', dimension)
      /\ \A i \in 1..n : /\ nodes'[i].id = nodes[i].id /\ nodes'[i].vec = nodes[i].vec
                         /\ nodes'[i].deleted = (IF i = x THEN TRUE ELSE nodes[i].deleted)
  <2>1. /\ x \in 1..n /\ n \in Nat
        /\ DOMAIN nodes' = 1..n /\ Graph(nodes', dimension)
        /\ \A i \in 1..n :
             /\ nodes'[i].id = nodes[i].id /\ nodes'[i].vec = nodes[i].vec
             /\ nodes'[i].level = nodes[i].level /\ nodes'[i].links = nodes[i].links
             /\ nodes'[i].deleted = IF i = x THEN TRUE ELSE nodes[i].deleted
    BY MarkedIs
  <2>. QED
    BY <2>1, Zenon
<1>2. nodes \in Seq(Node)
  BY DEF HNSWInv, TypeOK
<1>3. nodes' \in Seq(Node) /\ Len(nodes') = n
  <2> HIDE DEF n
  <2>. QED
    BY <1>1, GraphIsSequence
<1>4. Counts(nodes, x, id) /\ \A i \in 1..n : i > x => nodes[i].id # id
  <2>1. x # 0 /\ DOMAIN nodes = 1..n
    BY <1>1, MarkedIs
  <2>. QED
    BY <2>1 DEF HNSWInv, NewestNamed
<1>5. PICK f : /\ IsEntries(f, nodes, j) /\ LiveEntries(nodes, j) = f[n]
               /\ \A i \in 0..n : f[i] \in Seq(EntryType)
  BY <1>2, EntriesExist
<1>6. PICK h : IsEntries(h, nodes', j) /\ LiveEntries(nodes', j) = h[n]
  <2>1. \E h : IsEntries(h, nodes', j) /\ LiveEntries(nodes', j) = h[Len(nodes')]
    BY <1>3, EntriesExist
  <2>. QED
    BY <1>3, <2>1
<1> HIDE DEF n, x
<1>7. n = Len(nodes)
  BY DEF n
<1>8. ASSUME NEW i \in 1..n, i # x
      PROVE  (Counts(nodes, i, j) <=> Counts(nodes', i, j)) /\ nodes[i].vec = nodes'[i].vec
  BY <1>1, <1>8, Zenon DEF Counts
<1>9. CASE j # id
  <2>1. ~Counts(nodes, x, j) /\ ~Counts(nodes', x, j) /\ nodes[x].vec = nodes'[x].vec
    BY <1>1, <1>4, <1>9 DEF Counts
  <2>2. \A i \in 1..n : (Counts(nodes, i, j) <=> Counts(nodes', i, j))
                        /\ nodes[i].vec = nodes'[i].vec
    BY <1>8, <2>1
  <2>3. n <= Len(nodes) /\ n <= Len(nodes')
    BY <1>1, <1>3, <1>7
  <2>4. f[n] = h[n]
    BY <1>1, <1>2, <1>3, <1>5, <1>6, <2>2, <2>3, EntriesAgree
  <2>. QED
    BY <1>5, <1>6, <1>9, <2>4
<1>10. CASE j = id
  <2> DEFINE y == x - 1
             entry == [id |-> id, vec |-> nodes[x].vec]
  <2>1. x \in Nat /\ y \in Nat /\ y \in 0..n /\ x <= n /\ y <= n /\ x = y + 1
    BY <1>1
  <2>2. f[n] = f[x]
    <3>1. \A i \in 1..Len(nodes) : i > x => ~Counts(nodes, i, j)
      BY <1>4, <1>7, <1>10 DEF Counts
    <3>. QED
      BY <1>2, <1>5, <1>7, <2>1, <3>1, NoneAdded
  <2>3. h[n] = h[x]
    <3>1. \A i \in 1..Len(nodes') : i > x => ~Counts(nodes', i, j)
      <4>1. \A i \in 1..n : nodes'[i].id = nodes[i].id
        BY <1>1
      <4>. QED
        BY <1>3, <1>4, <1>10, <4>1 DEF Counts
    <3>. QED
      BY <1>3, <1>6, <2>1, <3>1, NoneAdded
  <2>4. h[x] = h[y]
    <3>1. ~Counts(nodes', x, j)
      BY <1>1 DEF Counts
    <3>2. h[x] = (IF Counts(nodes', x, j)
                  THEN Append(h[x - 1], [id |-> j, vec |-> nodes'[x].vec]) ELSE h[x - 1])
      BY <1>1, <1>3, <1>6, EntriesStep
    <3>. QED
      BY <3>1, <3>2
  <2>5. f[x] = Append(f[y], entry)
    <3>1. Counts(nodes, x, j)
      BY <1>4, <1>10
    <3>. QED
      BY <1>1, <1>5, <1>7, <1>10, <3>1, EntriesStep
  <2>6. f[y] = h[y]
    <3>1. \A i \in 1..y : i \in 1..n /\ i # x
      BY <1>1
    <3>2. \A i \in 1..y : (Counts(nodes, i, j) <=> Counts(nodes', i, j))
                          /\ nodes[i].vec = nodes'[i].vec
      BY <1>8, <3>1
    <3>3. y <= Len(nodes) /\ y <= Len(nodes')
      BY <1>3, <1>7, <2>1
    <3> HIDE DEF y
    <3>. QED
      BY <1>2, <1>3, <1>5, <1>6, <2>1, <3>2, <3>3, EntriesAgree
  <2>7. f[y] \in Seq(EntryType) /\ entry \in EntryType
    <3>1. nodes[x] \in Node
      BY <1>1, <1>2, <1>7
    <3>. QED
      BY <1>5, <2>1, <3>1 DEF EntryType, Node
  <2> HIDE DEF y, entry
  <2>8. SubSeq(f[n], 1, Len(f[n]) - 1) = f[y]
    BY <2>2, <2>5, <2>7, LastTakenOff
  <2>. QED
    BY <1>5, <1>6, <1>10, <2>3, <2>4, <2>6, <2>8
<1>. QED
  BY <1>9, <1>10

\* The graph keeps the index's promise to the node that owns it: one entry more
\* per insert, the newest one less per delete, one dimension for all.
THEOREM GraphIsVectorIndex == Spec => IsVectorIndex
<1>1. Init => Index!Init
  <2> SUFFICES ASSUME Init PROVE Index!Init
    OBVIOUS
  <2>1. nodes = <<>> /\ dimension = 0 /\ idMap = [id \in Ids |-> 0]
    BY DEF Init
  <2>2. nodes \in Seq(Node) /\ Len(nodes) = 0
    BY <2>1
  <2>3. ASSUME NEW id \in Ids PROVE LiveEntries(nodes, id) = <<>>
    <3>1. PICK f : IsEntries(f, nodes, id) /\ LiveEntries(nodes, id) = f[Len(nodes)]
      BY <2>2, EntriesExist
    <3>. QED
      BY <2>2, <3>1, EntriesStep
  <2>4. {id \in Ids : idMap[id] # 0} = {}
    BY <2>1
  <2>. QED
    BY <2>1, <2>3, <2>4 DEF Index!Init
<1>2. HNSWInv /\ [Next]_vars => [Index!Next]_(Index!indexVars)
  <2> SUFFICES ASSUME HNSWInv, [Next]_vars PROVE [Index!Next]_(Index!indexVars)
    OBVIOUS
  <2>1. ASSUME NEW e \in Entries, NEW level \in 0..MaxLevel, Insert(e, level)
        PROVE  Index!Insert(e)
    <3>1. e.id \in Ids /\ idMap \in [Ids -> 0..Len(nodes)] /\ Len(nodes) \in Nat
      BY EntryIs DEF HNSWInv, TypeOK
    <3>2. dimension \in {0, Dim[e.vec]} /\ dimension' = Dim[e.vec]
          /\ idMap' = [idMap EXCEPT ![e.id] = Len(nodes) + 1]
      BY <2>1 DEF Insert
    <3>3. {id \in Ids : idMap'[id] # 0} = {id \in Ids : idMap[id] # 0} \cup {e.id}
      BY <3>1, <3>2
    <3>4. [id \in Ids |-> LiveEntries(nodes', id)]
          = [[id \in Ids |-> LiveEntries(nodes, id)] EXCEPT ![e.id] = Append(@, e)]
      BY <2>1, <3>1, InsertAddsEntry
    <3>. QED
      BY <3>2, <3>3, <3>4 DEF Index!Insert
  <2>2. ASSUME NEW id \in Ids, Delete(id) PROVE Index!Delete(id)
    <3>1. idMap \in [Ids -> 0..Len(nodes)] /\ idMap[id] # 0
          /\ idMap' = [idMap EXCEPT ![id] = 0] /\ dimension' = dimension
      BY <2>2 DEF HNSWInv, TypeOK, Delete
    <3>2. {j \in Ids : idMap'[j] # 0} = {j \in Ids : idMap[j] # 0} \ {id}
      BY <3>1
    <3>3. [j \in Ids |-> LiveEntries(nodes', j)]
          = [[j \in Ids |-> LiveEntries(nodes, j)] EXCEPT ![id] = SubSeq(@, 1, Len(@) - 1)]
      BY <2>2, DeleteDropsEntry
    <3>. QED
      BY <3>1, <3>2, <3>3 DEF Index!Delete
  <2>3. ASSUME nodes' = nodes, idMap' = idMap, dimension' = dimension
        PROVE  UNCHANGED Index!indexVars
    BY <2>3 DEF Index!indexVars
  <2>4. ASSUME NEW ef \in EfValues, SetEfSearch(ef) PROVE UNCHANGED Index!indexVars
    BY <2>3, <2>4 DEF SetEfSearch
  <2>5. CASE UNCHANGED vars
    BY <2>3, <2>5 DEF vars
  <2>. QED
    BY <2>1, <2>2, <2>4, <2>5 DEF Next, Index!Next
<1>. QED
  BY <1>1, <1>2, HNSWInvHolds, PTL DEF Spec, IsVectorIndex, Index!Spec
=============================================================================
