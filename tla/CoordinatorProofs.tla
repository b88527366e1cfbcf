--------------------------- MODULE CoordinatorProofs ---------------------------
(***************************************************************************)
(* Theorems about ShardMap and Coordinator: every id has a shard, ids are  *)
(* fresh, Get finds on the shard it asks what Insert stored, and a query   *)
(* that nothing overlaps is answered with the K stored articles most       *)
(* similar to it, for any number of shards, calls, queries, crashes and    *)
(* restarts, any K and any scores.                                         *)
(***************************************************************************)
EXTENDS Coordinator, ShardNodeProofs, RecursionProofs, FiniteSetTheorems

-----------------------------------------------------------------------------
(* The loop over the characters of a string *)

\* An int, whatever is wrapped.
LEMMA WrappedIsInt ==
  ASSUME NEW x \in Int
  PROVE  Wrapped(x) \in (-SignBit)..(SignBit - 1)
<1>1. SignBit \in Nat \ {0}
  BY ShardMapAssumption
<1>2. 2 * SignBit \in Nat \ {0} /\ x + SignBit \in Int
  BY <1>1
<1>3. (x + SignBit) % (2 * SignBit) \in 0..(2 * SignBit - 1)
  BY <1>2
<1> QED BY <1>1, <1>3 DEF Wrapped

\* After each character h is an int, whatever the characters are.
LEMMA HashesAreInts ==
  ASSUME NEW s \in Seq(Int), NEW n \in 0..Len(s)
  PROVE  Hashes(s)[n] \in (-SignBit)..(SignBit - 1)
<1> DEFINE Ints == (-SignBit)..(SignBit - 1)
           step == [m \in 1..Len(s) |-> [x \in Ints |-> Wrapped(31 * x + s[m])]]
           W == [m \in 0..Len(s) |-> Ints]
           H == Hashes(s)
<1>1. Len(s) \in Nat /\ \A m \in 1..Len(s) : m - 1 \in 0..Len(s) /\ m \in 0..Len(s)
  OBVIOUS
<1>2. 0 \in W[0] /\ Ints \subseteq Int
  BY <1>1, ShardMapAssumption
<1>3. \A m \in 1..Len(s), x \in Ints : Wrapped(31 * x + s[m]) \in Ints
  <2>1. ASSUME NEW m \in 1..Len(s), NEW x \in Ints PROVE Wrapped(31 * x + s[m]) \in Ints
    <3>1. x \in Int /\ s[m] \in Int
      BY <1>2
    <3>2. 31 * x + s[m] \in Int
      BY <3>1
    <3>. QED
      BY <3>2, WrappedIsInt
  <2>. QED
    BY <2>1
<1> HIDE DEF Ints
<1>4. \A m \in 1..Len(s) : \A x \in W[m - 1] : step[m][x] \in W[m]
  BY <1>1, <1>3
<1>5. PICK h : CountsUp(h, Len(s), 0, step) /\ \A m \in 0..Len(s) : h[m] \in W[m]
  <2> HIDE DEF step, W
  <2>. QED
    BY <1>1, <1>2, <1>4, CountUp
<1>6. h = [m \in 0..Len(s) |-> IF m = 0 THEN 0 ELSE Wrapped(31 * h[m - 1] + s[m])]
  <2>1. \A m \in 0..Len(s) : m # 0 => m \in 1..Len(s) /\ h[m - 1] \in Ints
    BY <1>1, <1>5
  <2>. QED
    BY <1>5, <2>1 DEF CountsUp
<1>7. H = [m \in 0..Len(s) |-> IF m = 0 THEN 0 ELSE Wrapped(31 * H[m - 1] + s[m])]
  BY <1>6 DEF Hashes
<1> HIDE DEF H
<1>8. H[0] \in W[0]
  BY <1>1, <1>2, <1>7
<1>9. \A m \in 1..Len(s) : H[m - 1] \in W[m - 1] => H[m] \in W[m]
  <2>1. ASSUME NEW m \in 1..Len(s), H[m - 1] \in W[m - 1] PROVE H[m] \in W[m]
    <3>1. H[m - 1] \in Ints /\ m \in 0..Len(s) /\ m # 0
      BY <1>1, <2>1
    <3>2. H[m] = Wrapped(31 * H[m - 1] + s[m])
      BY <1>7, <3>1
    <3>3. H[m] \in Ints
      BY <1>3, <3>1, <3>2
    <3>. QED
      BY <3>1, <3>3
  <2>. QED
    BY <2>1
<1>10. \A m \in 0..Len(s) : H[m] \in W[m]
  <2> HIDE DEF W
  <2>. QED
    BY <1>1, <1>8, <1>9, CountUpInvariant
<1>. QED
  BY <1>10 DEF H, Ints

-----------------------------------------------------------------------------
(* The shard *)

\* The absolute value of the last h, except that the smallest int keeps its sign.
LEMMA HashStringIsInt ==
  ASSUME NEW s \in Seq(Int)
  PROVE  HashString(s) \in (-SignBit)..(SignBit - 1)
<1> DEFINE h == Hashes(s)[Len(s)]
<1>1. h \in (-SignBit)..(SignBit - 1)
  BY HashesAreInts
<1>2. -h \in Int
  BY <1>1, ShardMapAssumption
<1> HIDE DEF h
<1>3. Wrapped(-h) \in (-SignBit)..(SignBit - 1)
  BY <1>2, WrappedIsInt
<1> QED BY <1>1, <1>3 DEF HashString, h

\* Go's remainder is closer to zero than the divisor, on either side.
LEMMA RemainderBounds ==
  ASSUME NEW a \in Int, NEW n \in Nat \ {0}
  PROVE  Remainder(a, n) \in (-(n - 1))..(n - 1)
<1>1. CASE a >= 0
  <2>1. a % n \in 0..(n - 1)
    OBVIOUS
  <2> QED BY <2>1, <1>1 DEF Remainder
<1>2. CASE ~(a >= 0)
  <2>1. (-a) % n \in 0..(n - 1)
    OBVIOUS
  <2> QED BY <2>1, <1>2 DEF Remainder
<1> QED BY <1>1, <1>2

\* GetShardForID never names a shard that routeFor does not know, whatever the
\* string is and however often its hash wraps: also when the hash is negative
\* after its negation, which the smallest int is.
THEOREM ShardInRange ==
  ASSUME NEW id \in Seq(Int)
  PROVE  GetShardForID(id) \in 0..(NumShards - 1)
<1> DEFINE shard == Remainder(HashString(id), NumShards)
<1>1. NumShards \in Nat \ {0} /\ SignBit \in Nat
  BY ShardMapAssumption
<1>2. HashString(id) \in Int
  BY <1>1, HashStringIsInt
<1>3. shard \in (-(NumShards - 1))..(NumShards - 1)
  BY <1>1, <1>2, RemainderBounds
<1>4. GetShardForID(id) = IF shard < 0 THEN shard + NumShards ELSE shard
  BY DEF GetShardForID
<1> HIDE DEF shard
<1> QED BY <1>1, <1>3, <1>4

-----------------------------------------------------------------------------
(* The ids of documents *)

DigitValues(d, m) ==
  \A i \in 0..m :
    d[i] = IF i < 10 THEN <<48 + i>> ELSE Append(d[i \div 10], 48 + (i % 10))

\* Every number up to m has digits.
LEMMA DigitsExist ==
  ASSUME NEW k \in Nat
  PROVE  \E d \in [0..k -> Seq(Int)] : DigitValues(d, k)
<1> DEFINE S == {m \in Nat : \E d \in [0..m -> Seq(Int)] : DigitValues(d, m)}
<1>1. 0 \in S
  <2>1. [i \in 0..0 |-> <<48>>] \in [0..0 -> Seq(Int)]
    OBVIOUS
  <2>2. DigitValues([i \in 0..0 |-> <<48>>], 0)
    BY DEF DigitValues
  <2> QED BY <2>1, <2>2
<1>2. ASSUME NEW m \in Nat, m \in S PROVE m + 1 \in S
  <2>1. PICK g \in [0..m -> Seq(Int)] : DigitValues(g, m)
    BY <1>2
  <2> DEFINE n == m + 1
             x == IF n < 10 THEN <<48 + n>> ELSE Append(g[n \div 10], 48 + (n % 10))
             d == [i \in 0..n |-> IF i = n THEN x ELSE g[i]]
  <2>2. ASSUME NEW i \in 0..n, ~(i < 10)
        PROVE  i \div 10 \in 0..m /\ i \div 10 < i /\ i % 10 \in Int
    <3>1. i \in Nat /\ i >= 10 /\ i <= m + 1
      BY <2>2
    <3> QED BY <3>1
  <2>3. x \in Seq(Int)
    <3>1. CASE n < 10
      BY <3>1
    <3>2. CASE ~(n < 10)
      <4>1. g[n \div 10] \in Seq(Int) /\ 48 + (n % 10) \in Int
        BY <2>2, <3>2
      <4> QED BY <4>1, <3>2
    <3> QED BY <3>1, <3>2
  <2> HIDE DEF x
  <2>4. d \in [0..n -> Seq(Int)]
    BY <2>3
  <2>5. ASSUME NEW i \in 0..n
        PROVE  d[i] = IF i < 10 THEN <<48 + i>> ELSE Append(d[i \div 10], 48 + (i % 10))
    <3>1. ~(i < 10) => d[i \div 10] = g[i \div 10]
      BY <2>2
    <3>2. CASE i = n
      BY <3>1, <3>2 DEF x
    <3>3. CASE i \in 0..m
      <4>1. d[i] = g[i]
        BY <3>3
      <4> HIDE DEF d
      <4> QED BY <4>1, <3>1, <3>3, <2>1 DEF DigitValues
    <3> QED BY <3>2, <3>3
  <2> HIDE DEF d
  <2>6. DigitValues(d, n)
    BY <2>5 DEF DigitValues
  <2> QED BY <2>4, <2>6
<1> HIDE DEF S
<1>3. k \in S
  BY <1>1, <1>2, SetInduction
<1> QED BY <1>3 DEF S

LEMMA DocIDIsString ==
  ASSUME NEW n \in Nat
  PROVE  DocID(n) \in Seq(Int)
<1> DEFINE D == CHOOSE d : d = [i \in 0..n |->
                  IF i < 10 THEN <<48 + i>> ELSE Append(d[i \div 10], 48 + (i % 10))]
<1>1. D = [i \in 0..n |-> IF i < 10 THEN <<48 + i>> ELSE Append(D[i \div 10], 48 + (i % 10))]
  <2>1. PICK d \in [0..n -> Seq(Int)] : DigitValues(d, n)
    BY DigitsExist
  <2>2. d = [i \in 0..n |-> IF i < 10 THEN <<48 + i>> ELSE Append(d[i \div 10], 48 + (i % 10))]
    BY <2>1 DEF DigitValues
  <2> QED BY <2>2
<1>2. Digits(n) = D[n]
  BY DEF Digits
<1> HIDE DEF D
<1> DEFINE S == {m \in Nat : \A i \in 0..m : i <= n => D[i] \in Seq(Int)}
<1>3. 0 \in S
  BY <1>1
<1>4. ASSUME NEW m \in Nat, m \in S PROVE m + 1 \in S
  <2> SUFFICES ASSUME m + 1 <= n PROVE D[m + 1] \in Seq(Int)
    BY <1>4
  <2>1. CASE m + 1 < 10
    BY <1>1, <2>1
  <2>2. CASE ~(m + 1 < 10)
    <3>1. (m + 1) \div 10 \in 0..m /\ (m + 1) % 10 \in Int
      BY <2>2
    <3>2. D[(m + 1) \div 10] \in Seq(Int) /\ 48 + ((m + 1) % 10) \in Int
      BY <1>4, <3>1
    <3>3. D[m + 1] = Append(D[(m + 1) \div 10], 48 + ((m + 1) % 10))
      <4>1. m + 1 \in 0..n
        OBVIOUS
      <4>2. D[m + 1] = IF m + 1 < 10 THEN <<48 + (m + 1)>>
                       ELSE Append(D[(m + 1) \div 10], 48 + ((m + 1) % 10))
        BY <1>1, <4>1
      <4> QED BY <4>2, <2>2
    <3> QED BY <3>2, <3>3
  <2> QED BY <2>1, <2>2
<1> HIDE DEF S
<1>5. n \in S
  BY <1>3, <1>4, SetInduction
<1>6. Digits(n) \in Seq(Int)
  BY <1>2, <1>5 DEF S
<1>7. <<100, 111, 99, 45>> \in Seq(Int)
  OBVIOUS
<1> QED BY <1>6, <1>7 DEF DocID

-----------------------------------------------------------------------------
\* routeFor never answers "unknown shard": what Insert, Get and Delete compute
\* from the id of a document is one of the shards NewCoordinator has opened.
THEOREM RouteExists ==
  ASSUME NEW id \in Ids
  PROVE  Route(id) \in Nodes
<1>1. id \in Nat
  BY IdsAssumption
<1>2. DocID(id) \in Seq(Int)
  BY <1>1, DocIDIsString
<1>3. GetShardForID(DocID(id)) \in 0..(NumShards - 1)
  BY <1>2, ShardInRange
<1> QED BY <1>3, ShardsAssumption DEF Route, ShardOf

-----------------------------------------------------------------------------
(* The inductive invariant.  An id is fresh because the counter is ahead   *)
(* of every stored id, across restarts, and of every insert in progress;   *)
(* Get finds an article because calls and rows are only on the shard their *)
(* id routes to, where the insert owns the row (ShardNodeProofs).          *)

Inserting(n, c) == Running(n, c) /\ frame[n][c].art # Nil

\* Calls only run while the coordinator is ready, and then all shards are up.
PhaseOK ==
  /\ phase = "ready" => \A n \in Nodes : up[n]
  /\ phase # "ready" => AllQuiet

\* Calls and rows are on the shard of their id.
RoutedOK ==
  /\ \A n \in Nodes, c \in Calls : Pc(n, c) # "idle" => n = Route(frame[n][c].id)
  /\ \A n \in Nodes, id \in Ids : store[n][id] # Nil => n = Route(id)

\* No id beyond the counter is stored, or on its way to the table.
CounterAhead ==
  /\ \A n \in Nodes, id \in Ids : store[n][id] # Nil => id <= nextDocID
  /\ \A n \in Nodes, c \in Calls : Inserting(n, c) => frame[n][c].id <= nextDocID

\* No two inserts in progress have the same id, and the id of one that has not
\* written its row is nowhere.
FreshInv ==
  /\ \A n, m \in Nodes, c, d \in Calls :
       Inserting(n, c) /\ Inserting(m, d) /\ frame[n][c].id = frame[m][d].id => c = d
  /\ \A n \in Nodes, c \in Calls : Pc(n, c) = "store_insert" =>
       \A m \in Nodes : store[m][frame[n][c].id] = Nil

NodesInv == NodeInv /\ SearchInv
IdsInv == PhaseOK /\ RoutedOK /\ CounterAhead /\ FreshInv
CoordInv == NodesInv /\ TypeOK /\ IdsInv

LEMMA CounterIsNat == TypeOK => nextDocID \in Nat
  BY IdsAssumption DEF TypeOK

-----------------------------------------------------------------------------
(* The nodes.  The coordinator only starts calls on shards that are up, so *)
(* every step is one the nodes' invariants were proved for, except that    *)
(* all nodes go down at once.                                              *)

LEMMA ProcessGoneEffect ==
  ASSUME NodeInv, ProcessGone
  PROVE  /\ \A n \in Nodes : ~up'[n]
         /\ \A n \in Nodes, id \in Ids : live'[n][id] = <<>> /\ ~indexed'[n][id]
         /\ store' = store
         /\ frame' \in [Nodes -> [Calls -> Frame]]
         /\ \A n \in Nodes, c \in Calls :
              /\ frame'[n][c].id = frame[n][c].id
              /\ frame'[n][c].art = frame[n][c].art
              /\ ~Running(n, c) => frame'[n][c] = frame[n][c]
              /\ Running(n, c) => frame'[n][c].pc = "failed"
<1> DEFINE down(n, c) == IF Running(n, c) THEN [frame[n][c] EXCEPT !.pc = "failed"]
                                          ELSE frame[n][c]
<1>1. ASSUME NEW n \in Nodes, NEW c \in Calls
      PROVE  /\ down(n, c) \in Frame
             /\ down(n, c).id = frame[n][c].id /\ down(n, c).art = frame[n][c].art
             /\ ~Running(n, c) => down(n, c) = frame[n][c]
             /\ Running(n, c) => down(n, c).pc = "failed"
  <2>1. frame[n][c] \in Frame
    BY DEF NodeInv, NodeTypeOK
  <2>. QED
    BY <2>1 DEF Frame, ResultPc
<1>2. frame' = [n \in Nodes |-> [c \in Calls |-> down(n, c)]]
  BY DEF ProcessGone
<1> HIDE DEF down
<1>3. \A n \in Nodes, c \in Calls : frame'[n][c] = down(n, c)
  BY <1>2
<1>4. frame' \in [Nodes -> [Calls -> Frame]]
  BY <1>1, <1>2
<1>5. /\ \A n \in Nodes : ~up'[n]
      /\ \A n \in Nodes, id \in Ids : live'[n][id] = <<>> /\ ~indexed'[n][id]
      /\ store' = store
  BY DEF ProcessGone
<1>. QED
  BY <1>1, <1>3, <1>4, <1>5

LEMMA ProcessGoneInv ==
  ASSUME NodesInv, ProcessGone,
         crashes' \in 0..MaxCrashes, storeErrors' \in 0..MaxStoreErrors
  PROVE  NodesInv'
<1>1. NodeInv
  BY DEF NodesInv
<1>2. /\ \A n \in Nodes : ~up'[n]
      /\ \A n \in Nodes, id \in Ids : live'[n][id] = <<>> /\ ~indexed'[n][id]
      /\ store' = store
      /\ frame' \in [Nodes -> [Calls -> Frame]]
      /\ \A n \in Nodes, c \in Calls :
           /\ frame'[n][c].id = frame[n][c].id
           /\ frame'[n][c].art = frame[n][c].art
           /\ ~Running(n, c) => frame'[n][c] = frame[n][c]
           /\ Running(n, c) => frame'[n][c].pc = "failed"
  BY <1>1, ProcessGoneEffect
<1>3. NodeTypeOK'
  BY <1>1, <1>2 DEF ProcessGone, NodeInv, NodeTypeOK
<1>4. FrameOK'
  BY <1>1, <1>2 DEF NodeInv, FrameOK, Running, Pc, RunningPc, InsertPc, DeletePc
<1>5. IndexedIsLive' /\ SameDimension' /\ RowsKeyed'
  BY <1>1, <1>2 DEF NodeInv, IndexedIsLive, SameDimension, RowsKeyed
<1>6. SearchInv'
  <2>1. Nodes \in SUBSET Nodes
    OBVIOUS
  <2>2. SearchInv
    BY DEF NodesInv
  <2>. QED
    BY <1>1, <1>2, <2>1, <2>2, DownSearchInv
<1>. QED
  BY <1>3, <1>4, <1>5, <1>6 DEF NodesInv, NodeInv

LEMMA NodesUnchanged ==
  ASSUME NodesInv, UNCHANGED <<up, store, live, indexed, dim, frame, crashes>>,
         storeErrors' \in 0..MaxStoreErrors
  PROVE  NodesInv'
<1>1. NodeInv'
  BY DEF NodesInv, NodeInv, NodeTypeOK, FrameOK, IndexedIsLive, SameDimension, RowsKeyed
<1>2. SearchInv'
  BY SearchUnchanged DEF NodesInv
<1>. QED
  BY <1>1, <1>2 DEF NodesInv

\* The step of the nodes in each step of the coordinator.
LEMMA NodesNextInv ==
  ASSUME NodesInv, TypeOK, IdsInv, [Next]_vars
  PROVE  NodesInv'
<1>0. storeErrors \in 0..MaxStoreErrors /\ crashes \in 0..MaxCrashes
      /\ MaxStoreErrors \in Nat /\ MaxCrashes \in Nat
  BY BoundAssumption DEF TypeOK, NodeTypeOK
<1>1. ASSUME NEW c \in Calls, NEW d, Insert(c, d)
      PROVE  NodesInv'
  <2>1. PICK a \in Articles : /\ Enter(Route(a.id), c, InsertFrame(a)) /\ Free /\ Unused(c)
                              /\ UNCHANGED <<up, store, indexVars, boundVars>>
    BY <1>1 DEF Insert
  <2>2. Route(a.id) \in Nodes
    BY ArticleAssumption, RouteExists
  <2>3. up[Route(a.id)] /\ Pc(Route(a.id), c) = "idle"
    BY <2>1, <2>2 DEF Free, Unused, IdsInv, PhaseOK
  <2>. QED
    BY <2>1, <2>2, <2>3, EnterInv, EnterSearchInv DEF NodesInv
<1>2. ASSUME NEW c \in Calls, NEW id \in Ids, Delete(c, id)
      PROVE  NodesInv'
  <2>1. /\ Enter(Route(id), c, DeleteFrame(id)) /\ Free /\ Unused(c)
        /\ UNCHANGED <<up, store, indexVars, boundVars>>
    BY <1>2 DEF Delete
  <2>2. Route(id) \in Nodes
    BY RouteExists
  <2>3. up[Route(id)] /\ Pc(Route(id), c) = "idle"
    BY <2>1, <2>2 DEF Free, Unused, IdsInv, PhaseOK
  <2>. QED
    BY <2>1, <2>2, <2>3, EnterInv, EnterSearchInv DEF NodesInv
<1>3. ASSUME NEW n \in Nodes, NEW c \in Calls, CallStep(n, c)
      PROVE  NodesInv'
  BY <1>3, MethodStepInv, MethodStepSearchInv DEF CallStep, NodesInv
<1>4. ASSUME NEW q \in Queries, QueryStart(q) \/ QueryStep(q)
      PROVE  NodesInv'
  <2>1. /\ UNCHANGED <<up, store, live, indexed, dim, frame, crashes>>
        /\ storeErrors' \in 0..MaxStoreErrors
    <3>1. CASE QueryStart(q) \/ Merge(q)
      BY <1>0, <3>1 DEF QueryStart, Merge, nodeVars
    <3>2. ASSUME NEW n \in Nodes, SearchIndex(q, n) \/ LoadHit(q, n) \/ SearchDone(q, n)
          PROVE  nodeVars' = nodeVars
      BY <3>2 DEF SearchIndex, LoadHit, SearchDone
    <3>3. ASSUME NEW n \in Nodes, LoadError(q, n)
          PROVE  /\ UNCHANGED <<up, store, live, indexed, dim, frame, crashes>>
                 /\ storeErrors' \in 0..MaxStoreErrors
      BY <1>0, <3>3 DEF LoadError, indexVars
    <3>. QED
      BY <1>0, <1>4, <3>1, <3>2, <3>3 DEF QueryStep, nodeVars
  <2>. QED
    BY <2>1, NodesUnchanged
<1>5. ASSUME NEW n \in Nodes, OpenShard(n)
      PROVE  NodesInv'
  BY <1>5, RestartInv, RestartSearchInv DEF OpenShard, NodesInv
<1>6. CASE StartFails \/ ProcessDies \/ Quit
  <2>1. ProcessGone /\ crashes' \in 0..MaxCrashes /\ storeErrors' \in 0..MaxStoreErrors
    BY <1>0, <1>6 DEF StartFails, ProcessDies, Quit, boundVars
  <2>. QED
    BY <2>1, ProcessGoneInv
<1>7. CASE StartProcess \/ InitDocIDCounter \/ UNCHANGED vars
  BY <1>0, <1>7, NodesUnchanged DEF StartProcess, InitDocIDCounter, vars, nodeVars
<1>. QED
  BY <1>1, <1>2, <1>3, <1>4, <1>5, <1>6, <1>7 DEF Next

-----------------------------------------------------------------------------
(* Types *)

PartRec == [pc : {"idle", "search", "load", "done", "failed"},
            hits : SUBSET Articles, out : SUBSET Hit]

\* A goroutine of a query that finishes a step keeps the shape of its part.
LEMMA PartKeepsType ==
  ASSUME TypeOK, NEW q \in Queries, NEW n \in Nodes, NEW p \in PartRec,
         part' = [part EXCEPT ![q][n] = p]
  PROVE  part' \in [Queries -> [Nodes -> PartRec]]
  BY DEF TypeOK, PartRec

LEMMA LiveEntriesTyped ==
  ASSUME NodeTypeOK, NEW n \in Nodes
  PROVE  LiveEntries(n) \subseteq Articles
<1>1. \A id \in Ids : ToSet(live[n][id]) \subseteq Articles
  BY DEF NodeTypeOK, ToSet
<1>. QED
  BY <1>1 DEF LiveEntries

\* The largest id any shard lists is one of those the counter handed out.
LEMMA StoredMax ==
  ASSUME NodesInv, TypeOK, CounterAhead
  PROVE  LET m == Max({a.id : a \in Stored} \cup {0}) IN
           /\ m \in Ids \cup {0}
           /\ \A n \in Nodes, id \in Ids : store[n][id] # Nil => id <= m
<1> DEFINE S == {a.id : a \in Stored} \cup {0}
<1>1. \A a \in Stored : a.id \in Ids /\ a.id <= nextDocID
  <2> SUFFICES ASSUME NEW n \in Nodes, NEW id \in Ids, store[n][id] # Nil
               PROVE  store[n][id].id \in Ids /\ store[n][id].id <= nextDocID
    BY DEF Stored, Rows
  <2>1. store[n][id].id = id
    BY DEF NodesInv, NodeInv, RowsKeyed
  <2>. QED
    BY <2>1 DEF CounterAhead
<1>2. S \in SUBSET Nat /\ S # {} /\ S \subseteq Ids \cup {0}
  <2>1. S \subseteq Ids \cup {0}
    BY <1>1
  <2>2. 0 \in S
    OBVIOUS
  <2> HIDE DEF S
  <2>. QED
    BY <2>1, <2>2, IdsAssumption
<1>3. nextDocID \in Nat /\ \A x \in S : x <= nextDocID
  BY <1>1, CounterIsNat
<1>4. \A n \in Nodes, id \in Ids : store[n][id] # Nil => id \in S
  <2> SUFFICES ASSUME NEW n \in Nodes, NEW id \in Ids, store[n][id] # Nil
               PROVE  id \in S
    OBVIOUS
  <2>1. store[n][id] \in Stored
    BY DEF Stored, Rows
  <2>2. store[n][id].id = id
    BY DEF NodesInv, NodeInv, RowsKeyed
  <2>. QED
    BY <2>1, <2>2
<1> HIDE DEF S
<1>5. Max(S) \in S /\ \A x \in S : x <= Max(S)
  BY <1>2, <1>3, MaxIsLargest
<1>6. Max(S) \in Ids \cup {0} /\ \A n \in Nodes, id \in Ids : store[n][id] # Nil => id <= Max(S)
  BY <1>2, <1>4, <1>5
<1>. QED
  BY <1>6 DEF S

LEMMA CoordTypeNext ==
  ASSUME NodesInv, TypeOK, IdsInv, [Next]_vars, NodeTypeOK'
  PROVE  TypeOK'
<1>0. /\ part \in [Queries -> [Nodes -> PartRec]]
      /\ nextDocID \in Ids \cup {0} /\ phase \in {"down", "opening", "ready"}
      /\ answer \in [Queries -> {"none", "asked", "ok", "error"}]
      /\ result \in [Queries -> SUBSET Hit] /\ calm \in BOOLEAN
      /\ expect \in [Queries -> (SUBSET Articles) \cup {Nil}]
  BY DEF TypeOK, PartRec
<1>1. ASSUME part' \in [Queries -> [Nodes -> PartRec]],
             nextDocID' \in Ids \cup {0}, phase' \in {"down", "opening", "ready"},
             answer' \in [Queries -> {"none", "asked", "ok", "error"}],
             result' \in [Queries -> SUBSET Hit], calm' \in BOOLEAN,
             expect' \in [Queries -> (SUBSET Articles) \cup {Nil}]
      PROVE  TypeOK'
  BY <1>1 DEF TypeOK, PartRec
<1>2. IdlePart \in PartRec /\ [IdlePart EXCEPT !.pc = "search"] \in PartRec
      /\ [IdlePart EXCEPT !.pc = "failed"] \in PartRec
  BY DEF IdlePart, PartRec
<1>3. NoteCall => calm' \in BOOLEAN /\ expect' \in [Queries -> (SUBSET Articles) \cup {Nil}]
  <2> SUFFICES ASSUME NoteCall
               PROVE  calm' \in BOOLEAN /\ expect' \in [Queries -> (SUBSET Articles) \cup {Nil}]
    OBVIOUS
  <2>1. calm' \in BOOLEAN
    BY DEF NoteCall
  <2>2. expect' \in [Queries -> (SUBSET Articles) \cup {Nil}]
    BY <1>0 DEF NoteCall
  <2>. QED
    BY <2>1, <2>2
<1>4. Stored \subseteq Articles
  BY DEF Stored, Rows, TypeOK, NodeTypeOK
<1>5. ASSUME NEW c \in Calls, NEW d, Insert(c, d)
      PROVE  TypeOK'
  <2>1. nextDocID + 1 \in Ids
    BY <1>5, ArticleAssumption DEF Insert
  <2>. QED
    BY <1>0, <1>1, <1>3, <1>5, <2>1 DEF Insert
<1>6. ASSUME NEW c \in Calls, NEW id \in Ids, Delete(c, id)
      PROVE  TypeOK'
  BY <1>0, <1>1, <1>3, <1>6 DEF Delete
<1>7. ASSUME NEW n \in Nodes, NEW c \in Calls, CallStep(n, c)
      PROVE  TypeOK'
  <2>1. calm' \in BOOLEAN
    BY <1>7 DEF CallStep
  <2>. QED
    BY <1>0, <1>1, <1>7, <2>1 DEF CallStep
<1>8. ASSUME NEW q \in Queries, QueryStart(q)
      PROVE  TypeOK'
  <2>1. part' \in [Queries -> [Nodes -> PartRec]]
    BY <1>0, <1>2, <1>8 DEF QueryStart
  <2>2. expect' \in [Queries -> (SUBSET Articles) \cup {Nil}]
    BY <1>0, <1>4, <1>8 DEF QueryStart
  <2>3. answer' \in [Queries -> {"none", "asked", "ok", "error"}]
    BY <1>0, <1>8 DEF QueryStart
  <2>. QED
    BY <1>0, <1>1, <1>8, <2>1, <2>2, <2>3 DEF QueryStart
<1>9. ASSUME NEW q \in Queries, QueryStep(q)
      PROVE  TypeOK'
  <2>0. UNCHANGED <<phase, nextDocID, calm, expect>>
    BY <1>9 DEF QueryStep, SearchIndex, LoadHit, LoadError, SearchDone, Merge
  <2>1. ASSUME NEW n \in Nodes, SearchIndex(q, n)
        PROVE  TypeOK'
    <3>1. PICK p \in PartRec : p = part[q][n]
      BY <1>0
    <3>2. \E r \in PartRec : part' = [part EXCEPT ![q][n] = r]
      <4>1. CASE QueryRefused(q, n)
        <5>1. [p EXCEPT !.pc = "failed"] \in PartRec
          BY DEF PartRec
        <5>. QED
          BY <2>1, <3>1, <4>1, <5>1 DEF SearchIndex
      <4>2. CASE ~QueryRefused(q, n)
        <5>1. PICK T \in SUBSET LiveEntries(n) :
                part' = [part EXCEPT ![q][n].pc = "load", ![q][n].hits = T]
          BY <2>1, <4>2 DEF SearchIndex
        <5>2. T \in SUBSET Articles
          BY LiveEntriesTyped DEF TypeOK
        <5>3. [p EXCEPT !.pc = "load", !.hits = T] \in PartRec
          BY <5>2 DEF PartRec
        <5>4. part' = [part EXCEPT ![q][n] = [p EXCEPT !.pc = "load", !.hits = T]]
          BY <1>0, <3>1, <5>1
        <5>. QED
          BY <5>3, <5>4
      <4>. QED
        BY <4>1, <4>2
    <3>3. part' \in [Queries -> [Nodes -> PartRec]]
      BY <3>2, PartKeepsType
    <3>. QED
      BY <1>0, <1>1, <2>0, <2>1, <3>3 DEF SearchIndex
  <2>2. ASSUME NEW n \in Nodes, LoadHit(q, n)
        PROVE  TypeOK'
    <3>1. PICK p \in PartRec : p = part[q][n]
      BY <1>0
    <3>2. PICK h \in p.hits :
            part' = [part EXCEPT ![q][n].hits = @ \ {h},
                                 ![q][n].out = IF store[n][h.id] = Nil THEN @
                                   ELSE @ \cup {[row |-> store[n][h.id], entry |-> h]}]
      BY <2>2, <3>1 DEF LoadHit
    <3>3. h \in Articles /\ h.id \in Ids
      BY ArticleAssumption DEF PartRec
    <3>4. store[n][h.id] # Nil => [row |-> store[n][h.id], entry |-> h] \in Hit
      BY <3>3 DEF Hit, TypeOK, NodeTypeOK
    <3>5. PICK o \in SUBSET Hit :
            o = IF store[n][h.id] = Nil THEN p.out
                ELSE p.out \cup {[row |-> store[n][h.id], entry |-> h]}
      BY <3>4 DEF PartRec
    <3>6. part' = [part EXCEPT ![q][n] = [p EXCEPT !.hits = p.hits \ {h}, !.out = o]]
      BY <1>0, <3>1, <3>2, <3>5 DEF PartRec
    <3>7. [p EXCEPT !.hits = p.hits \ {h}, !.out = o] \in PartRec
      BY DEF PartRec
    <3>8. part' \in [Queries -> [Nodes -> PartRec]]
      BY <3>6, <3>7, PartKeepsType
    <3>. QED
      BY <1>0, <1>1, <2>0, <2>2, <3>8 DEF LoadHit
  <2>3. ASSUME NEW n \in Nodes, LoadError(q, n) \/ SearchDone(q, n)
        PROVE  TypeOK'
    <3>1. PICK p \in PartRec : p = part[q][n]
      BY <1>0
    <3>2. [p EXCEPT !.pc = "done"] \in PartRec
      BY DEF PartRec
    <3>3. \E r \in PartRec : part' = [part EXCEPT ![q][n] = r]
      BY <1>2, <2>3, <3>1, <3>2 DEF LoadError, SearchDone
    <3>4. part' \in [Queries -> [Nodes -> PartRec]]
      BY <3>3, PartKeepsType
    <3>. QED
      BY <1>0, <1>1, <2>0, <2>3, <3>4 DEF LoadError, SearchDone
  <2>4. CASE Merge(q)
    <3>1. part' \in [Queries -> [Nodes -> PartRec]]
      BY <1>0, <1>2, <2>4 DEF Merge
    <3>2. answer' \in [Queries -> {"none", "asked", "ok", "error"}]
      BY <1>0, <2>4 DEF Merge
    <3>3. Partials(q) \subseteq Hit
      BY <1>0 DEF Partials, PartRec
    <3>4. result' \in [Queries -> SUBSET Hit]
      BY <1>0, <2>4, <3>3 DEF Merge
    <3>. QED
      BY <1>0, <1>1, <2>0, <3>1, <3>2, <3>4
  <2>. QED
    BY <1>9, <2>1, <2>2, <2>3, <2>4 DEF QueryStep
<1>10. ASSUME NEW n \in Nodes, OpenShard(n)
       PROVE  TypeOK'
  BY <1>0, <1>1, <1>10 DEF OpenShard, coordVars
<1>11. CASE StartFails \/ ProcessDies \/ Quit
  <2>1. ProcessGone /\ calm' = calm
    BY <1>11 DEF StartFails, ProcessDies, Quit
  <2>2. part' \in [Queries -> [Nodes -> PartRec]]
    BY <1>2, <2>1 DEF ProcessGone
  <2>3. answer' \in [Queries -> {"none", "asked", "ok", "error"}]
    BY <1>0, <2>1 DEF ProcessGone
  <2>. QED
    BY <1>0, <1>1, <2>1, <2>2, <2>3 DEF ProcessGone
<1>12. CASE StartProcess \/ UNCHANGED vars
  BY <1>0, <1>1, <1>12 DEF StartProcess, vars, coordVars
<1>13. CASE InitDocIDCounter
  <2>1. nextDocID' \in Ids \cup {0}
    BY <1>13, StoredMax DEF InitDocIDCounter, IdsInv
  <2>. QED
    BY <1>0, <1>1, <1>13, <2>1 DEF InitDocIDCounter
<1>. QED
  BY <1>5, <1>6, <1>7, <1>8, <1>9, <1>10, <1>11, <1>12, <1>13 DEF Next

-----------------------------------------------------------------------------
(* Ids and routes *)

LEMMA RunningIsReady ==
  ASSUME PhaseOK, NEW n \in Nodes, NEW c \in Calls, Running(n, c)
  PROVE  phase = "ready"
  BY DEF PhaseOK, AllQuiet, Quiet

\* A call starts on the shard of its id; an insert with the id after the last.
LEMMA StartIdsInv ==
  ASSUME NodesInv, TypeOK, IdsInv, NEW c \in Calls, NEW f, NEW n \in Nodes, n = Route(f.id),
         \/ \E a \in Articles : f = InsertFrame(a) /\ a.id = nextDocID + 1 /\ nextDocID' = a.id
         \/ \E id \in Ids : f = DeleteFrame(id) /\ nextDocID' = nextDocID,
         Free, Unused(c), Enter(n, c, f), UNCHANGED <<up, store, phase>>
  PROVE  IdsInv'
<1>1. /\ frame'[n][c] = f
      /\ \A m \in Nodes, d \in Calls :
           ~(m = n /\ d = c) => frame'[m][d] = frame[m][d]
  BY DEF Enter, NodesInv, NodeInv, NodeTypeOK
<1>2. /\ f.pc \in {"store_insert", "store_get"} /\ f.id \in Ids
      /\ f.pc = "store_insert" => f.id = nextDocID + 1 /\ nextDocID' = nextDocID + 1
      /\ f.pc = "store_get" => f.art = Nil /\ nextDocID' = nextDocID
  BY ArticleAssumption DEF InsertFrame, DeleteFrame
<1>3. nextDocID \in Nat /\ phase = "ready"
  BY CounterIsNat DEF Free
<1>4. PhaseOK'
  BY <1>3 DEF IdsInv, PhaseOK
<1>5. RoutedOK'
  <2>1. \A m \in Nodes, d \in Calls : Pc(m, d)' # "idle" => m = Route(frame'[m][d].id)
    BY <1>1 DEF IdsInv, RoutedOK, Pc
  <2>. QED
    BY <2>1 DEF IdsInv, RoutedOK, Route
<1>6. \A m \in Nodes, d \in Calls : Inserting(m, d)' =>
        \/ m = n /\ d = c /\ f.pc = "store_insert"
        \/ Inserting(m, d) /\ d # c /\ frame'[m][d] = frame[m][d]
  BY <1>1, <1>2 DEF Inserting, Running, Pc, Unused, RunningPc, InsertPc, DeletePc
<1>7. \A m \in Nodes, d \in Calls : Inserting(m, d) =>
        frame[m][d].id \in Nat /\ frame[m][d].id <= nextDocID
  BY IdsAssumption DEF IdsInv, CounterAhead, Inserting, Running, Pc, RunningPc, InsertPc,
    DeletePc, NodesInv, NodeInv, FrameOK
<1>8. CounterAhead'
  <2>1. \A m \in Nodes, id \in Ids : store[m][id] # Nil => id \in Nat /\ id <= nextDocID
    BY IdsAssumption DEF IdsInv, CounterAhead
  <2>. QED
    BY <1>1, <1>2, <1>3, <1>6, <1>7, <2>1 DEF CounterAhead
<1>9. FreshInv'
  <2>1. ASSUME NEW m \in Nodes, NEW k \in Nodes, NEW d \in Calls, NEW e \in Calls,
               Inserting(m, d)', Inserting(k, e)', frame'[m][d].id = frame'[k][e].id, d # e
        PROVE  FALSE
    <3>1. CASE Inserting(m, d) /\ Inserting(k, e)
               /\ frame'[m][d] = frame[m][d] /\ frame'[k][e] = frame[k][e]
      BY <2>1, <3>1 DEF IdsInv, FreshInv
    <3>2. CASE m = n /\ d = c /\ f.pc = "store_insert"
      BY <1>1, <1>2, <1>3, <1>6, <1>7, <2>1, <3>2
    <3>3. CASE k = n /\ e = c /\ f.pc = "store_insert"
      BY <1>1, <1>2, <1>3, <1>6, <1>7, <2>1, <3>3
    <3>. QED
      BY <1>6, <2>1, <3>1, <3>2, <3>3
  <2>2. ASSUME NEW m \in Nodes, NEW d \in Calls, Pc(m, d)' = "store_insert", NEW k \in Nodes
        PROVE  store'[k][frame'[m][d].id] = Nil
    <3>1. CASE m = n /\ d = c
      <4>1. frame'[m][d].id = nextDocID + 1 /\ nextDocID + 1 \in Ids
        BY <1>1, <1>2, <2>2, <3>1 DEF Pc
      <4>2. ~(nextDocID + 1 <= nextDocID)
        BY <1>3
      <4>. QED
        BY <4>1, <4>2 DEF IdsInv, CounterAhead
    <3>2. CASE ~(m = n /\ d = c)
      BY <1>1, <2>2, <3>2 DEF IdsInv, FreshInv, Pc
    <3>. QED
      BY <3>1, <3>2
  <2>. QED
    BY <2>1, <2>2 DEF FreshInv
<1>. QED
  BY <1>4, <1>5, <1>8, <1>9 DEF IdsInv

\* A step of a call stores, if anything, a row under its own id, on its shard.
LEMMA CallStepIdsInv ==
  ASSUME NodesInv, TypeOK, IdsInv, NEW n \in Nodes, NEW c \in Calls, CallStep(n, c)
  PROVE  IdsInv'
<1>1. /\ Running(n, c) /\ Pc(n, c)' \in RunningPc \cup ResultPc
      /\ \A m \in Nodes, d \in Calls :
           /\ frame'[m][d].id = frame[m][d].id
           /\ frame'[m][d].art = frame[m][d].art
           /\ ~(m = n /\ d = c) => frame'[m][d] = frame[m][d]
  BY MethodStepEffect DEF CallStep, NodesInv
<1>2. UNCHANGED <<up, phase, nextDocID>> /\ phase = "ready"
  BY <1>1, RunningIsReady, MethodStepIndexEffect DEF CallStep, NodesInv, IdsInv
<1>3. PICK x \in Ids : x = frame[n][c].id
  BY <1>1 DEF Running, Pc, RunningPc, InsertPc, DeletePc, NodesInv, NodeInv, FrameOK
<1>4. /\ Pc(n, c)' # "store_insert"
      /\ \/ store' = store
         \/ store' = [store EXCEPT ![n][x] = Nil]
         \/ /\ Pc(n, c) = "store_insert" /\ frame[n][c].art # Nil
            /\ store' = [store EXCEPT ![n][x] = frame[n][c].art]
  <2>1. Pc(n, c) = "store_insert" => frame[n][c].art # Nil
    BY ArticleAssumption DEF NodesInv, NodeInv, FrameOK, Pc, InsertPc
  <2>. QED
    BY <1>3, <2>1, MethodStepEffect DEF CallStep, NodesInv, SetRow
<1>5. \A m \in Nodes, id \in Ids : store'[m][id] # Nil =>
        \/ store[m][id] # Nil
        \/ /\ m = n /\ id = x /\ Inserting(n, c) /\ Pc(n, c) = "store_insert"
  BY <1>1, <1>4 DEF NodesInv, NodeInv, NodeTypeOK, Inserting
<1>6. \A m \in Nodes, d \in Calls :
        /\ Inserting(m, d)' => Inserting(m, d)
        /\ Pc(m, d)' = "idle" <=> Pc(m, d) = "idle"
        /\ Pc(m, d)' = "store_insert" => Pc(m, d) = "store_insert" /\ ~(m = n /\ d = c)
  BY <1>1, <1>4 DEF Inserting, Running, Pc, RunningPc, InsertPc, DeletePc, ResultPc
<1>7. PhaseOK'
  BY <1>2 DEF IdsInv, PhaseOK
<1>8. RoutedOK'
  <2>1. \A m \in Nodes, d \in Calls : Pc(m, d) # "idle" => m = Route(frame[m][d].id)
    BY DEF IdsInv, RoutedOK
  <2>2. n = Route(x)
    BY <1>1, <1>3, <2>1 DEF Running, RunningPc, InsertPc, DeletePc
  <2>3. \A m \in Nodes, id \in Ids : store'[m][id] # Nil => m = Route(id)
    BY <1>5, <2>2 DEF IdsInv, RoutedOK
  <2>. QED
    BY <1>1, <1>6, <2>1, <2>3 DEF RoutedOK, Route
<1>9. CounterAhead'
  BY <1>1, <1>2, <1>3, <1>5, <1>6 DEF IdsInv, CounterAhead
<1>10. FreshInv'
  <2>1. ASSUME NEW m \in Nodes, NEW d \in Calls, Pc(m, d)' = "store_insert", NEW k \in Nodes
        PROVE  store'[k][frame'[m][d].id] = Nil
    <3>1. Pc(m, d) = "store_insert" /\ ~(m = n /\ d = c) /\ frame'[m][d] = frame[m][d]
      BY <1>1, <1>6, <2>1
    <3>2. Inserting(m, d) /\ frame[m][d].id \in Ids
      BY <3>1, ArticleAssumption DEF Inserting, Running, Pc, RunningPc, InsertPc,
        NodesInv, NodeInv, FrameOK
    <3>3. store[k][frame[m][d].id] = Nil
      BY <3>1 DEF IdsInv, FreshInv
    <3>4. ~(k = n /\ frame[m][d].id = x /\ Inserting(n, c))
      <4> SUFFICES ASSUME frame[m][d].id = x, Inserting(n, c) PROVE FALSE
        OBVIOUS
      <4>1. c = d
        BY <1>3, <3>2 DEF IdsInv, FreshInv
      <4>2. m = Route(x) /\ n = Route(x)
        BY <1>1, <1>3, <3>1 DEF IdsInv, RoutedOK, Running, RunningPc, InsertPc, DeletePc
      <4>. QED
        BY <3>1, <4>1, <4>2
    <3>. QED
      BY <1>5, <3>1, <3>2, <3>3, <3>4
  <2>2. \A m, k \in Nodes, d, e \in Calls :
          Inserting(m, d)' /\ Inserting(k, e)' /\ frame'[m][d].id = frame'[k][e].id => d = e
    BY <1>1, <1>6 DEF IdsInv, FreshInv
  <2>. QED
    BY <2>1, <2>2 DEF FreshInv
<1>. QED
  BY <1>7, <1>8, <1>9, <1>10 DEF IdsInv

\* A step under which calls stop at most, and the table and the counter stay.
LEMMA QuietIdsInv ==
  ASSUME NodesInv, IdsInv, UNCHANGED <<store, nextDocID>>, PhaseOK',
         \A n \in Nodes, c \in Calls :
           /\ frame'[n][c].id = frame[n][c].id /\ frame'[n][c].art = frame[n][c].art
           /\ frame'[n][c] = frame[n][c] \/ (frame'[n][c].pc = "failed" /\ Running(n, c))
  PROVE  IdsInv'
<1>1. \A n \in Nodes, c \in Calls :
        /\ Inserting(n, c)' => Inserting(n, c)
        /\ Pc(n, c)' # "idle" => Pc(n, c) # "idle"
        /\ Pc(n, c)' = "store_insert" => Pc(n, c) = "store_insert"
  BY DEF Inserting, Running, Pc, RunningPc, InsertPc, DeletePc
<1>2. RoutedOK'
  BY <1>1 DEF IdsInv, RoutedOK, Route
<1>3. CounterAhead'
  BY <1>1 DEF IdsInv, CounterAhead
<1>4. FreshInv'
  BY <1>1 DEF IdsInv, FreshInv
<1>. QED
  BY <1>2, <1>3, <1>4 DEF IdsInv

LEMMA IdsNextInv ==
  ASSUME NodesInv, TypeOK, IdsInv, [Next]_vars
  PROVE  IdsInv'
<1>1. ASSUME NEW c \in Calls, NEW d, Insert(c, d)
      PROVE  IdsInv'
  <2>1. PICK a \in Articles :
          /\ a.id = nextDocID + 1 /\ nextDocID' = a.id
          /\ Enter(Route(a.id), c, InsertFrame(a)) /\ Free /\ Unused(c)
          /\ UNCHANGED <<up, store, phase>>
    BY <1>1 DEF Insert
  <2>2. Route(a.id) \in Nodes
    BY ArticleAssumption, RouteExists
  <2>3. InsertFrame(a).id = a.id
    BY DEF InsertFrame
  <2>. QED
    BY <2>1, <2>2, <2>3, StartIdsInv
<1>2. ASSUME NEW c \in Calls, NEW id \in Ids, Delete(c, id)
      PROVE  IdsInv'
  <2>1. Route(id) \in Nodes /\ DeleteFrame(id).id = id
    BY RouteExists DEF DeleteFrame
  <2>. QED
    BY <1>2, <2>1, StartIdsInv DEF Delete
<1>3. ASSUME NEW n \in Nodes, NEW c \in Calls, CallStep(n, c)
      PROVE  IdsInv'
  BY <1>3, CallStepIdsInv
<1>4. ASSUME NEW q \in Queries, QueryStart(q) \/ QueryStep(q)
      PROVE  IdsInv'
  <2>1. UNCHANGED <<up, store, frame, phase, nextDocID>>
    <3>1. CASE QueryStart(q) \/ Merge(q)
      BY <3>1 DEF QueryStart, Merge, nodeVars
    <3>2. ASSUME NEW n \in Nodes, SearchIndex(q, n) \/ LoadHit(q, n) \/ SearchDone(q, n)
          PROVE  UNCHANGED <<nodeVars, phase, nextDocID>>
      BY <3>2 DEF SearchIndex, LoadHit, SearchDone
    <3>3. ASSUME NEW n \in Nodes, LoadError(q, n)
          PROVE  UNCHANGED <<up, store, frame, phase, nextDocID>>
      BY <3>3 DEF LoadError
    <3>. QED
      BY <1>4, <3>1, <3>2, <3>3 DEF QueryStep, nodeVars
  <2>2. PhaseOK'
    BY <2>1 DEF IdsInv, PhaseOK, AllQuiet, Quiet, Running, Pc
  <2>. QED
    BY <2>1, <2>2, QuietIdsInv
<1>5. ASSUME NEW n \in Nodes, OpenShard(n)
      PROVE  IdsInv'
  <2>1. UNCHANGED <<store, frame, phase, nextDocID>> /\ phase = "opening"
    BY <1>5 DEF OpenShard, Restart, coordVars
  <2>2. PhaseOK'
    BY <2>1 DEF IdsInv, PhaseOK, AllQuiet, Quiet, Running, Pc
  <2>. QED
    BY <2>1, <2>2, QuietIdsInv
<1>6. CASE StartFails \/ ProcessDies \/ Quit
  <2>1. ProcessGone
    BY <1>6 DEF StartFails, ProcessDies, Quit
  <2>2. /\ phase' = "down" /\ UNCHANGED <<store, nextDocID>>
        /\ \A n \in Nodes, c \in Calls :
             /\ frame'[n][c].id = frame[n][c].id /\ frame'[n][c].art = frame[n][c].art
             /\ ~Running(n, c) => frame'[n][c] = frame[n][c]
             /\ Running(n, c) => frame'[n][c].pc = "failed"
    BY <2>1, ProcessGoneEffect DEF ProcessGone, NodesInv
  <2>3. \A n \in Nodes, c \in Calls : ~Running(n, c)'
    BY <2>2 DEF Running, Pc, RunningPc, InsertPc, DeletePc
  <2>4. PhaseOK'
    BY <2>2, <2>3 DEF PhaseOK, AllQuiet, Quiet
  <2>. QED
    BY <2>2, <2>4, QuietIdsInv
<1>7. CASE StartProcess \/ UNCHANGED vars
  <2>1. UNCHANGED <<up, store, frame, nextDocID>>
        /\ (phase' = phase \/ (phase = "down" /\ phase' = "opening"))
    <3>1. CASE StartProcess
      BY <3>1 DEF StartProcess, nodeVars
    <3>2. CASE UNCHANGED vars
      BY <3>2 DEF vars, nodeVars, coordVars
    <3>. QED
      BY <1>7, <3>1, <3>2
  <2>2. PhaseOK'
    BY <2>1 DEF IdsInv, PhaseOK, AllQuiet, Quiet, Running, Pc
  <2>. QED
    BY <2>1, <2>2, QuietIdsInv
<1>8. CASE InitDocIDCounter
  <2>1. /\ UNCHANGED <<up, store, frame>> /\ phase = "opening" /\ phase' = "ready"
        /\ \A n \in Nodes : up[n]
        /\ nextDocID' = Max({a.id : a \in Stored} \cup {0})
    BY <1>8 DEF InitDocIDCounter, nodeVars
  <2>2. \A n \in Nodes, c \in Calls : ~Running(n, c)
    BY <2>1 DEF IdsInv, PhaseOK, AllQuiet, Quiet
  <2>3. \A n \in Nodes, c \in Calls : ~Inserting(n, c)' /\ Pc(n, c)' # "store_insert"
    BY <2>1, <2>2 DEF Inserting, Running, Pc, RunningPc, InsertPc
  <2>4. PhaseOK' /\ RoutedOK' /\ FreshInv'
    BY <2>1, <2>3 DEF IdsInv, PhaseOK, RoutedOK, FreshInv, Route, Pc
  <2>5. CounterAhead'
    BY <2>1, <2>3, StoredMax DEF IdsInv, CounterAhead
  <2>. QED
    BY <2>4, <2>5 DEF IdsInv
<1>. QED
  BY <1>1, <1>2, <1>3, <1>4, <1>5, <1>6, <1>7, <1>8 DEF Next

-----------------------------------------------------------------------------
(* The theorems. *)

LEMMA CoordInvInit == Init => CoordInv
<1> SUFFICES ASSUME Init PROVE CoordInv
  OBVIOUS
<1>1. NodesInv
  BY NodeInvInit, SearchInvInit DEF Init, NodesInv
<1>2. TypeOK
  BY <1>1 DEF Init, TypeOK, NodesInv, NodeInv, IdlePart
<1>3. \A n \in Nodes, c \in Calls : Pc(n, c) = "idle" /\ ~Running(n, c)
  BY DEF Init, NodeInit, Running, Pc, IdleFrame, RunningPc, InsertPc, DeletePc
<1>4. (\A n \in Nodes : up[n]) /\ \A n \in Nodes, id \in Ids : store[n][id] = Nil
  BY DEF Init, NodeInit
<1>5. IdsInv
  BY <1>3, <1>4 DEF Init, IdsInv, PhaseOK, RoutedOK, CounterAhead, FreshInv, Inserting
<1>. QED
  BY <1>1, <1>2, <1>5 DEF CoordInv

LEMMA CoordInvNext == CoordInv /\ [Next]_vars => CoordInv'
<1> SUFFICES ASSUME CoordInv, [Next]_vars PROVE CoordInv'
  OBVIOUS
<1>1. NodesInv'
  BY NodesNextInv DEF CoordInv
<1>2. TypeOK'
  BY <1>1, CoordTypeNext DEF CoordInv, NodesInv, NodeInv
<1>3. IdsInv'
  BY IdsNextInv DEF CoordInv
<1>. QED
  BY <1>1, <1>2, <1>3 DEF CoordInv

LEMMA CoordInvAlways == Spec => []CoordInv
  BY CoordInvInit, CoordInvNext, PTL DEF Spec

\* The coordinator, its shards and its queries keep their types.
THEOREM CoordinatorTypeCorrect == Spec => []TypeOK
<1>1. CoordInv => TypeOK
  BY DEF CoordInv
<1>. QED
  BY <1>1, CoordInvAlways, PTL

\* No id is handed out that is stored on some shard or that another insert in
\* progress has, over any number of crashes, restarts, deletes and refused or
\* failed inserts: no INSERT the coordinator sends fails on the primary key.
THEOREM IdsStayFresh == Spec => []FreshIds
<1>1. CoordInv => FreshIds
  <2> SUFFICES ASSUME CoordInv, NEW n \in Nodes, NEW c \in Calls, Inserting(n, c)
               PROVE  /\ \A d \in Calls \ {c}, m \in Nodes :
                           ~(Inserting(m, d) /\ frame[m][d].id = frame[n][c].id)
                      /\ Pc(n, c) = "store_insert" =>
                           \A a \in Stored : a.id # frame[n][c].id
    BY DEF FreshIds, Inserting
  <2>1. \A d \in Calls \ {c}, m \in Nodes :
          ~(Inserting(m, d) /\ frame[m][d].id = frame[n][c].id)
    BY DEF CoordInv, IdsInv, FreshInv
  <2>2. ASSUME Pc(n, c) = "store_insert", NEW m \in Nodes, NEW id \in Ids,
               store[m][id] # Nil, store[m][id].id = frame[n][c].id
        PROVE  FALSE
    <3>1. id = frame[n][c].id
      BY <2>2 DEF CoordInv, NodesInv, NodeInv, RowsKeyed
    <3>. QED
      BY <2>2, <3>1 DEF CoordInv, IdsInv, FreshInv
  <2>. QED
    BY <2>1, <2>2 DEF Stored, Rows
<1>. QED
  BY <1>1, CoordInvAlways, PTL

\* Get(id) finds the article Insert stored when it returned id, on the one
\* shard it asks, and no other shard has one, until somebody asks to delete it.
THEOREM GetFinds == Spec => []GetFindsInserted
<1>1. CoordInv => GetFindsInserted
  <2> SUFFICES ASSUME CoordInv, NEW n \in Nodes, NEW c \in Calls,
                      Pc(n, c) = "ok", frame[n][c].art # Nil,
                      \A m \in Nodes : ~DeleteAsked(m, frame[n][c].id)
               PROVE  /\ GetArticle(frame[n][c].id) = frame[n][c].art
                      /\ \A a \in Stored : a.id = frame[n][c].id => a = frame[n][c].art
    BY DEF GetFindsInserted, Pc
  <2>1. n = Route(frame[n][c].id)
    BY DEF CoordInv, IdsInv, RoutedOK
  <2>2. store[n][frame[n][c].id] = frame[n][c].art
    BY FoundFromInv DEF CoordInv, NodesInv, InsertedIsSearchable, Pc
  <2>3. ASSUME NEW m \in Nodes, NEW id \in Ids, store[m][id] # Nil,
               store[m][id].id = frame[n][c].id
        PROVE  store[m][id] = frame[n][c].art
    <3>1. id = frame[n][c].id
      BY <2>3 DEF CoordInv, NodesInv, NodeInv, RowsKeyed
    <3>2. m = Route(id)
      BY <2>3 DEF CoordInv, IdsInv, RoutedOK
    <3>. QED
      BY <2>1, <2>2, <3>1, <3>2
  <2>. QED
    BY <2>1, <2>2, <2>3 DEF GetArticle, Stored, Rows
<1>. QED
  BY <1>1, CoordInvAlways, PTL

-----------------------------------------------------------------------------
(* Choosing the best of what was chosen shard by shard *)

\* What is chosen is a finite set of at most k elements: all there are, or k.
LEMMA TopSize ==
  ASSUME NEW S, IsFiniteSet(S), NEW T, NEW k \in Nat, NEW score, IsTop(T, S, k, score)
  PROVE  /\ IsFiniteSet(T) /\ Cardinality(T) \in Nat /\ Cardinality(T) <= k
         /\ T # S => Cardinality(T) = k /\ k <= Cardinality(S)
<1>1. T \in SUBSET S /\ Cardinality(T) = Min({k, Cardinality(S)})
  BY DEF IsTop
<1>2. Cardinality(S) \in Nat
  BY FS_CardinalityType
<1>3. IsFiniteSet(T) /\ (Cardinality(T) = Cardinality(S) => T = S)
  BY <1>1, FS_Subset
<1>4. Cardinality(T) = IF k <= Cardinality(S) THEN k ELSE Cardinality(S)
  BY <1>1, <1>2, MinOfTwo
<1>. QED
  BY <1>2, <1>3, <1>4

\* S is spread over the parts R[i], and U over what was chosen of each of them.
TopOfEach(I, R, T, S, U, k, score) ==
  /\ \A x : x \in S <=> \E i \in I : x \in R[i]
  /\ \A x : x \in U <=> \E i \in I : x \in T[i]
  /\ \A i \in I : IsTop(T[i], R[i], k, score)

\* Whatever the shards chose when they were asked for k each, the k best of all
\* that are the k best of everything they hold.
LEMMA TopOfTops ==
  ASSUME NEW I, NEW R, NEW T, NEW S, NEW U, NEW W, NEW k \in Nat, NEW score,
         TopOfEach(I, R, T, S, U, k, score), IsTop(W, U, k, score),
         IsFiniteSet(S), \A x \in S : score[x] \in Int
  PROVE  IsTop(W, S, k, score)
<1>0. /\ \A x : x \in S <=> \E i \in I : x \in R[i]
      /\ \A x : x \in U <=> \E i \in I : x \in T[i]
      /\ \A i \in I : IsTop(T[i], R[i], k, score)
  BY DEF TopOfEach
<1>1. \A i \in I : R[i] \in SUBSET S /\ T[i] \in SUBSET R[i] /\ T[i] \in SUBSET U
  BY <1>0 DEF IsTop
<1>2. U \in SUBSET S
  BY <1>0, <1>1
<1>3. IsFiniteSet(U) /\ Cardinality(U) \in Nat /\ Cardinality(S) \in Nat
      /\ Cardinality(U) <= Cardinality(S)
  BY <1>2, FS_Subset, FS_CardinalityType
<1>4. \A i \in I : IsFiniteSet(R[i])
  BY <1>1, FS_Subset
<1>5. W \in SUBSET U /\ Cardinality(W) = Min({k, Cardinality(U)})
  BY DEF IsTop
<1>6. IsFiniteSet(W) /\ Cardinality(W) \in Nat /\ Cardinality(W) <= k
  BY <1>3, TopSize
<1>7. Cardinality(W) = Min({k, Cardinality(S)})
  <2>1. CASE U = S
    BY <1>5, <2>1
  <2>2. CASE U # S
    <3>1. PICK i \in I : T[i] # R[i]
      BY <1>0, <2>2
    <3>2. IsFiniteSet(T[i]) /\ Cardinality(T[i]) = k
      BY <1>0, <1>4, <3>1, TopSize
    <3>3. k <= Cardinality(U)
      BY <1>1, <1>3, <3>2, FS_Subset
    <3>. QED
      BY <1>3, <1>5, <3>3, MinOfTwo
  <2>. QED
    BY <2>1, <2>2
<1>8. ASSUME NEW x \in W, NEW y \in S \ W
      PROVE  score[x] >= score[y]
  <2>1. \A w \in W, u \in U \ W : score[w] >= score[u]
    BY DEF IsTop
  <2>2. CASE y \in U
    BY <2>1, <2>2
  <2>3. CASE y \notin U
    <3>1. PICK i \in I : y \in R[i] \ T[i]
      BY <1>0, <2>3
    <3>2. IsFiniteSet(T[i]) /\ Cardinality(T[i]) = k
      BY <1>0, <1>4, <3>1, TopSize
    <3>3. \A t \in T[i] : score[t] >= score[y]
      BY <1>0, <3>1 DEF IsTop
    <3>4. CASE T[i] \subseteq W
      <4>1. Cardinality(T[i]) <= Cardinality(W) /\ (Cardinality(T[i]) = Cardinality(W) => T[i] = W)
        BY <1>6, <3>4, FS_Subset
      <4>2. T[i] = W
        BY <1>6, <3>2, <4>1
      <4>. QED
        BY <3>3, <4>2
    <3>5. CASE ~(T[i] \subseteq W)
      <4>1. PICK z \in T[i] : z \notin W
        BY <3>5
      <4>2. score[x] >= score[z] /\ score[z] >= score[y]
        BY <1>1, <2>1, <3>3, <4>1
      <4>3. score[x] \in Int /\ score[y] \in Int /\ score[z] \in Int
        BY <1>1, <1>2, <1>5, <4>1
      <4>. QED
        BY <4>2, <4>3
    <3>. QED
      BY <3>4, <3>5
  <2>. QED
    BY <2>2, <2>3
<1>. QED
  BY <1>2, <1>5, <1>7, <1>8 DEF IsTop

-----------------------------------------------------------------------------
(* Merging *)

Gets(h) == [row |-> h, entry |-> h]

\* If every result is a stored article found under its own entry, and no two
\* stored articles have one id, merging drops nothing but what is beyond the K best.
LEMMA MergeOfGets ==
  ASSUME NEW S, IsFiniteSet(S), \A x, y \in S : x.id = y.id => x = y,
         NEW P, P = {Gets(h) : h \in S}, NEW T, Merged(T, P)
  PROVE  /\ \A h \in T : h.row = h.entry
         /\ IsTop({h.row : h \in T}, S, K, Score)
<1>1. \A h \in P : h = Gets(h.row) /\ h.row \in S /\ h.entry = h.row
  BY DEF Gets
<1>2. PICK B \in SUBSET P : /\ BestPerID(B, P)
                           /\ IsTop(T, B, K, [h \in B |-> Score[h.entry]])
  BY DEF Merged
<1>3. B = P
  BY <1>1, <1>2 DEF BestPerID
<1> DEFINE W == {h.row : h \in T}
<1>4. T \in SUBSET P /\ T = {Gets(h) : h \in W} /\ W \in SUBSET S
  BY <1>1, <1>2, <1>3 DEF IsTop
<1>5. ASSUME NEW V \in SUBSET S
      PROVE  Cardinality({Gets(h) : h \in V}) = Cardinality(V)
  <2> DEFINE f == [h \in V |-> Gets(h)]
             G == {Gets(h) : h \in V}
  <2>1. f \in [V -> G] /\ \A x, y \in V : f[x] = f[y] => x = y
    BY DEF Gets
  <2>2. \A g \in G : \E x \in V : f[x] = g
    OBVIOUS
  <2> HIDE DEF f, G
  <2>3. f \in Bijection(V, G)
    BY <2>1, <2>2 DEF Bijection, Injection, Surjection, IsInjective
  <2>4. IsFiniteSet(V)
    BY FS_Subset
  <2>5. Cardinality(G) = Cardinality(V)
    BY <2>3, <2>4, FS_Bijection DEF ExistsBijection
  <2>. QED
    BY <2>5 DEF G
<1>6. Cardinality(W) = Cardinality(T) /\ Cardinality(P) = Cardinality(S)
  BY <1>4, <1>5
<1>7. Cardinality(W) = Min({K, Cardinality(S)})
  BY <1>2, <1>3, <1>6 DEF IsTop
<1>8. ASSUME NEW x \in W, NEW y \in S \ W
      PROVE  Score[x] >= Score[y]
  <2>1. Gets(x) \in T /\ Gets(x).entry = x
    BY <1>4 DEF Gets
  <2>2. Gets(y) \in P \ T /\ Gets(y).entry = y
    BY <1>4 DEF Gets
  <2>. QED
    BY <1>2, <1>3, <1>4, <2>1, <2>2 DEF IsTop
<1>9. \A h \in T : h.row = h.entry
  BY <1>1, <1>4
<1>. QED
  BY <1>4, <1>7, <1>8, <1>9 DEF IsTop

-----------------------------------------------------------------------------
(* The inductive invariant.  While calls have met every index in order,    *)
(* AloneInv holds (ShardNodeProofs), so a query that meets no call         *)
(* finds in each index what is in the table; what its goroutines have got  *)
(* so far is part of the K best of their shard.                            *)

DownOK == phase = "down" => \A n \in Nodes : ~up[n]
CalmInv == calm => AloneInv

\* Shard n has been asked; its hits still to be loaded and the results it has
\* got make up K best rows of it.
PartOK(q, n) ==
  LET p == part[q][n] IN
  /\ p.pc # "idle"
  /\ p.pc = "search" => p.hits = {} /\ p.out = {}
  /\ p.pc \in {"load", "done"} => \E T \in SUBSET Rows(n) :
       /\ IsTop(T, Rows(n), K, Score)
       /\ p.hits \subseteq T
       /\ p.out = {Gets(h) : h \in T \ p.hits}
  /\ p.pc = "done" => p.hits = {}

Undisturbed(q) == Asked(q) /\ expect[q] # Nil

Answered(q) ==
  answer[q] = "ok" /\ expect[q] # Nil =>
    /\ \A h \in result[q] : h.row = h.entry
    /\ IsTop({h.row : h \in result[q]}, expect[q], K, Score)

QueryOK(q) ==
  /\ Asked(q) => phase = "ready"
  /\ Undisturbed(q) => /\ AllQuiet /\ calm /\ expect[q] = Stored
                       /\ \A n \in Nodes : PartOK(q, n)
  /\ Answered(q)

QueryInv == \A q \in Queries : QueryOK(q)
FullInv == CoordInv /\ DownOK /\ CalmInv /\ QueryInv

-----------------------------------------------------------------------------
(* The indexes while the calls have met them in order *)

LEMMA CalmNext ==
  ASSUME CoordInv, DownOK, CalmInv, [Next]_vars
  PROVE  DownOK' /\ CalmInv'
<1>0. NodeInv /\ SearchInv /\ PhaseOK
  BY DEF CoordInv, NodesInv, IdsInv
<1>1. ASSUME NEW c \in Calls, NEW f, NEW n \in Nodes, Enter(n, c, f), NoteCall,
             (\E a \in Articles : f = InsertFrame(a)) \/ (\E id \in Ids : f = DeleteFrame(id)),
             UNCHANGED <<up, store, indexVars, boundVars, phase>>
      PROVE  DownOK' /\ CalmInv'
  <2>1. calm' => calm /\ AllQuiet
    BY <1>1 DEF NoteCall
  <2>2. calm' => AloneInv'
    BY <1>0, <1>1, <2>1, EnterAlone DEF AllQuiet, CalmInv
  <2>. QED
    BY <1>1, <2>2 DEF CalmInv, DownOK
<1>2. ASSUME NEW c \in Calls, NEW d, Insert(c, d)
      PROVE  DownOK' /\ CalmInv'
  <2>1. PICK a \in Articles :
          /\ Enter(Route(a.id), c, InsertFrame(a)) /\ NoteCall
          /\ UNCHANGED <<up, store, indexVars, boundVars, phase>>
    BY <1>2 DEF Insert
  <2>2. Route(a.id) \in Nodes
    BY ArticleAssumption, RouteExists
  <2>. QED
    BY <1>1, <2>1, <2>2
<1>3. ASSUME NEW c \in Calls, NEW id \in Ids, Delete(c, id)
      PROVE  DownOK' /\ CalmInv'
  <2>1. /\ Enter(Route(id), c, DeleteFrame(id)) /\ NoteCall
        /\ UNCHANGED <<up, store, indexVars, boundVars, phase>>
    BY <1>3 DEF Delete
  <2>2. Route(id) \in Nodes
    BY RouteExists
  <2>. QED
    BY <1>1, <2>1, <2>2
<1>4. ASSUME NEW n \in Nodes, NEW c \in Calls, CallStep(n, c)
      PROVE  DownOK' /\ CalmInv'
  <2>1. MethodStep(n, c) /\ phase' = phase /\ (calm' => calm /\ ~UndoFails(n, c))
    BY <1>4 DEF CallStep, UndoFails
  <2>2. up' = up
    BY <1>0, <2>1, MethodStepIndexEffect
  <2>3. calm' => AloneInv'
    BY <1>0, <2>1, MethodStepAlone DEF CalmInv, SearchInv
  <2>. QED
    BY <2>1, <2>2, <2>3 DEF DownOK, CalmInv
<1>5. ASSUME NEW n \in Nodes, OpenShard(n)
      PROVE  DownOK' /\ CalmInv'
  <2>1. Restart(n) /\ calm' = calm /\ phase' = phase /\ phase = "opening"
    BY <1>5 DEF OpenShard, coordVars
  <2>2. calm' => AloneInv'
    BY <1>0, <2>1, RestartAlone DEF CalmInv, SearchInv
  <2>. QED
    BY <2>1, <2>2 DEF DownOK, CalmInv
<1>6. CASE StartFails \/ ProcessDies \/ Quit
  <2>1. ProcessGone /\ calm' = calm
    BY <1>6 DEF StartFails, ProcessDies, Quit
  <2>2. /\ \A n \in Nodes : ~up'[n]
        /\ store' = store
        /\ \A n \in Nodes, c \in Calls :
             /\ ~Running(n, c) => frame'[n][c] = frame[n][c]
             /\ Running(n, c) => frame'[n][c].pc = "failed"
    BY <1>0, <2>1, ProcessGoneEffect
  <2>3. Nodes \in SUBSET Nodes
    OBVIOUS
  <2>4. calm' => AloneInv'
    BY <1>0, <2>1, <2>2, <2>3, DownAlone DEF CalmInv
  <2>. QED
    BY <2>2, <2>4 DEF DownOK, CalmInv
<1>7. CASE StartProcess
  <2>1. phase = "down" /\ phase' = "opening" /\ UNCHANGED <<up, store, live, indexed, frame>>
    BY <1>7 DEF StartProcess, nodeVars
  <2>2. \A n \in Nodes : ~up[n] /\ \A c \in Calls : ~Running(n, c)
    BY <1>0, <2>1 DEF DownOK, PhaseOK, AllQuiet, Quiet
  <2>3. \A n \in Nodes, c \in Calls : ~Half(n, c)
    BY <2>2 DEF Half, Running, RunningPc, InsertPc, DeletePc
  <2>4. AloneInv
    BY <2>2, <2>3 DEF AloneInv, OneRuns, RestMirrored, HalvesDone
  <2>. QED
    BY <2>1, <2>4, AloneUnchanged DEF DownOK, CalmInv
<1>8. ASSUME NEW q \in Queries, QueryStart(q) \/ QueryStep(q)
      PROVE  UNCHANGED <<up, store, live, indexed, frame, phase, calm>>
  <2>1. CASE QueryStart(q) \/ Merge(q)
    BY <2>1 DEF QueryStart, Merge, nodeVars
  <2>2. ASSUME NEW n \in Nodes, SearchIndex(q, n) \/ LoadHit(q, n) \/ SearchDone(q, n)
        PROVE  UNCHANGED <<nodeVars, phase, calm>>
    BY <2>2 DEF SearchIndex, LoadHit, SearchDone
  <2>3. ASSUME NEW n \in Nodes, LoadError(q, n)
        PROVE  UNCHANGED <<up, store, live, indexed, frame, phase, calm>>
    BY <2>3 DEF LoadError, indexVars
  <2>. QED
    BY <1>8, <2>1, <2>2, <2>3 DEF QueryStep, nodeVars
<1>9. ASSUME UNCHANGED <<up, store, live, indexed, frame, calm>>,
             phase' = phase \/ phase' = "ready"
      PROVE  DownOK' /\ CalmInv'
  BY <1>9, AloneUnchanged DEF DownOK, CalmInv
<1>10. CASE InitDocIDCounter \/ UNCHANGED vars
  <2>1. UNCHANGED <<up, store, live, indexed, frame, calm>>
        /\ (phase' = phase \/ phase' = "ready")
    BY <1>10 DEF InitDocIDCounter, vars, nodeVars, coordVars
  <2>. QED
    BY <1>9, <2>1
<1>. QED
  BY <1>2, <1>3, <1>4, <1>5, <1>6, <1>7, <1>8, <1>9, <1>10 DEF Next

\* What a query can hit while nothing runs is what the shard stores.
LEMMA EntriesAreRows ==
  ASSUME NodeInv, AloneInv, NEW n \in Nodes, up[n], Quiet(n)
  PROVE  LiveEntries(n) = Rows(n)
<1>1. \A id \in Ids : live[n][id] = EntryOf(n, id)
  BY QuietIsMirrored DEF Mirrored
<1>2. ASSUME NEW id \in Ids
      PROVE  ToSet(live[n][id]) = {store[n][id]} \ {Nil}
  <2>1. CASE store[n][id] = Nil
    <3>1. live[n][id] = <<>>
      BY <1>1, <2>1 DEF EntryOf
    <3>. QED
      BY <2>1, <3>1 DEF ToSet
  <2>2. CASE store[n][id] # Nil
    <3>1. live[n][id] = <<store[n][id]>>
      BY <1>1, <2>2 DEF EntryOf
    <3>. QED
      BY <2>2, <3>1 DEF ToSet
  <2>. QED
    BY <2>1, <2>2
<1>3. LiveEntries(n) = UNION {{store[n][id]} \ {Nil} : id \in Ids}
  BY <1>2 DEF LiveEntries
<1>. QED
  BY <1>3 DEF Rows

\* Stored articles are finitely many, and known by their ids.
LEMMA StoredIsKeyed ==
  ASSUME CoordInv
  PROVE  /\ Stored \subseteq Articles /\ IsFiniteSet(Stored)
         /\ \A x, y \in Stored : x.id = y.id => x = y
         /\ \A n \in Nodes : \A x \in Rows(n) : x.id \in Ids /\ store[n][x.id] = x
<1>1. \A n \in Nodes : \A x \in Rows(n) :
        x # Nil /\ x \in Articles /\ x.id \in Ids /\ store[n][x.id] = x
  BY DEF Rows, CoordInv, NodesInv, NodeInv, NodeTypeOK, RowsKeyed
<1>2. \A x \in Stored : x \in Articles /\ x.id \in Ids /\ x = store[Route(x.id)][x.id]
                        /\ x.id <= nextDocID
  <2> SUFFICES ASSUME NEW n \in Nodes, NEW x \in Rows(n)
               PROVE  /\ x \in Articles /\ x.id \in Ids /\ x = store[Route(x.id)][x.id]
                      /\ x.id <= nextDocID
    BY DEF Stored
  <2>1. x # Nil /\ x \in Articles /\ x.id \in Ids /\ store[n][x.id] = x
    BY <1>1
  <2>. QED
    BY <2>1 DEF CoordInv, IdsInv, RoutedOK, CounterAhead
<1>3. IsFiniteSet(Stored)
  <2> DEFINE J == {x.id : x \in Stored}
             f == [x \in Stored |-> x.id]
  <2>1. J \in SUBSET Nat /\ (\A j \in J : j <= nextDocID) /\ nextDocID \in Nat
    BY <1>2, CounterIsNat, IdsAssumption DEF CoordInv
  <2>2. IsFiniteSet(J)
    <3> HIDE DEF J
    <3>. QED
      BY <2>1, FS_BoundedSetOfNaturals
  <2>3. f \in [Stored -> J] /\ \A x, y \in Stored : f[x] = f[y] => x = y
    BY <1>2
  <2>4. f \in Injection(Stored, J)
    <3> HIDE DEF f, J
    <3>. QED
      BY <2>3 DEF Injection, IsInjective
  <2> HIDE DEF f, J
  <2>. QED
    BY <2>2, <2>4, FS_Injection
<1>. QED
  BY <1>1, <1>2, <1>3

-----------------------------------------------------------------------------
(* Queries *)

\* A step that changes none of it keeps what holds of a query.
LEMMA QueryKept ==
  ASSUME NEW q \in Queries, QueryOK(q),
         UNCHANGED <<store, frame, phase, calm>>, part'[q] = part[q], answer'[q] = answer[q],
         result'[q] = result[q], expect'[q] = expect[q]
  PROVE  QueryOK(q)'
<1>1. Asked(q)' <=> Asked(q)
  BY DEF Asked
<1>2. Undisturbed(q)' <=> Undisturbed(q)
  BY <1>1 DEF Undisturbed
<1>3. Answered(q)' <=> Answered(q)
  BY DEF Answered
<1>4. AllQuiet => AllQuiet'
  BY DEF AllQuiet, Quiet, Running, Pc
<1>5. Stored' = Stored /\ \A n \in Nodes : Rows(n)' = Rows(n)
  BY DEF Stored, Rows
<1>6. \A n \in Nodes : PartOK(q, n) => PartOK(q, n)'
  BY <1>5 DEF PartOK
<1>. QED
  BY <1>1, <1>2, <1>3, <1>4, <1>5, <1>6 DEF QueryOK

\* The same, for a query that nothing is known of but what it was answered.
LEMMA AnswerKept ==
  ASSUME NEW q \in Queries, QueryOK(q), ~Undisturbed(q)', Asked(q)' => phase' = "ready",
         answer'[q] = "ok" /\ expect'[q] # Nil =>
           answer[q] = "ok" /\ result'[q] = result[q] /\ expect'[q] = expect[q]
  PROVE  QueryOK(q)'
<1>1. Answered(q)'
  BY DEF QueryOK, Answered
<1>. QED
  BY <1>1 DEF QueryOK

\* A goroutine of a query nothing overlaps gets on with K best rows of its shard.
LEMMA PartStep ==
  ASSUME FullInv, NEW q \in Queries, NEW n \in Nodes, Undisturbed(q),
         SearchIndex(q, n) \/ LoadHit(q, n) \/ LoadError(q, n) \/ SearchDone(q, n)
  PROVE  PartOK(q, n)'
<1> DEFINE p == part[q][n]
           r == part'[q][n]
<1>1. phase = "ready" /\ AllQuiet /\ calm /\ PartOK(q, n)
  BY DEF FullInv, QueryInv, QueryOK, Undisturbed
<1>2. part \in [Queries -> [Nodes -> PartRec]]
  BY DEF FullInv, CoordInv, TypeOK, PartRec
<1>3. store' = store /\ Rows(n)' = Rows(n)
  <2>1. store' = store
    BY DEF SearchIndex, LoadHit, LoadError, SearchDone, nodeVars
  <2>. QED
    BY <2>1 DEF Rows
<1>4. ASSUME NEW T \in SUBSET Rows(n), IsTop(T, Rows(n), K, Score),
             r.hits \subseteq T, r.out = {Gets(h) : h \in T \ r.hits},
             r.pc = "load" \/ (r.pc = "done" /\ r.hits = {})
      PROVE  PartOK(q, n)'
  BY <1>3, <1>4 DEF PartOK
<1>5. \A x \in PartRec : part' = [part EXCEPT ![q][n] = x] => r = x
  BY <1>2
<1>6. p \in PartRec
  BY <1>2
<1>7. (r.pc = "failed") => PartOK(q, n)'
  BY DEF PartOK
<1>8. CASE SearchIndex(q, n)
  <2>1. p.pc = "search" /\ p.hits = {} /\ p.out = {}
    BY <1>1, <1>8 DEF SearchIndex, PartOK
  <2>2. CASE QueryRefused(q, n)
    <3>1. part' = [part EXCEPT ![q][n] = [p EXCEPT !.pc = "failed"]]
      BY <1>8, <2>2 DEF SearchIndex
    <3>2. [p EXCEPT !.pc = "failed"] \in PartRec /\ [p EXCEPT !.pc = "failed"].pc = "failed"
      BY <1>6 DEF PartRec
    <3>. QED
      BY <1>5, <1>7, <3>1, <3>2
  <2>3. CASE ~QueryRefused(q, n)
    <3>1. PICK T \in SUBSET LiveEntries(n) :
            /\ IsTop(T, LiveEntries(n), K, Score)
            /\ part' = [part EXCEPT ![q][n].pc = "load", ![q][n].hits = T]
      BY <1>8, <2>3 DEF SearchIndex
    <3>2. LiveEntries(n) = Rows(n)
      BY <1>1, EntriesAreRows DEF FullInv, CoordInv, NodesInv, IdsInv, PhaseOK, CalmInv, AllQuiet
    <3>3. T \in SUBSET Articles
      BY <3>2, <3>1, StoredIsKeyed DEF FullInv, Stored
    <3> DEFINE y == [p EXCEPT !.pc = "load", !.hits = T]
    <3>4. part' = [part EXCEPT ![q][n] = y]
      BY <1>2, <3>1
    <3>5. y \in PartRec /\ y.pc = "load" /\ y.hits = T /\ y.out = p.out
      BY <1>6, <3>3 DEF PartRec
    <3>6. r = y
      BY <1>5, <3>4, <3>5
    <3>7. r.pc = "load" /\ r.hits = T /\ r.out = {}
      BY <2>1, <3>5, <3>6
    <3>8. r.out = {Gets(h) : h \in T \ r.hits}
      BY <3>7
    <3>9. T \in SUBSET Rows(n) /\ IsTop(T, Rows(n), K, Score)
      BY <3>1, <3>2
    <3> HIDE DEF r, p
    <3>. QED
      BY <1>4, <3>7, <3>8, <3>9
  <2>. QED
    BY <2>2, <2>3
<1>9. CASE LoadHit(q, n)
  <2>1. PICK h \in p.hits :
          LET row == store[n][h.id] IN
          part' = [part EXCEPT ![q][n].hits = @ \ {h},
                               ![q][n].out = IF row = Nil THEN @
                                             ELSE @ \cup {[row |-> row, entry |-> h]}]
    BY <1>9 DEF LoadHit
  <2>2. p.pc = "load"
    BY <1>9 DEF LoadHit
  <2>3. PICK T \in SUBSET Rows(n) :
          /\ IsTop(T, Rows(n), K, Score)
          /\ p.hits \subseteq T
          /\ p.out = {Gets(g) : g \in T \ p.hits}
    BY <1>1, <2>2 DEF PartOK
  <2>4. h \in Rows(n) /\ store[n][h.id] = h /\ h # Nil /\ h \in Articles
    BY <2>1, <2>3, StoredIsKeyed DEF FullInv, Rows, Stored
  <2> DEFINE y == [p EXCEPT !.hits = p.hits \ {h}, !.out = p.out \cup {Gets(h)}]
  <2>5. part' = [part EXCEPT ![q][n] = y]
    BY <1>2, <2>1, <2>4 DEF Gets
  <2>6. y \in PartRec /\ y.pc = "load" /\ y.hits = p.hits \ {h} /\ y.out = p.out \cup {Gets(h)}
    <3>1. Gets(h) \in Hit
      BY <2>4 DEF Gets, Hit
    <3>. QED
      BY <1>6, <2>2, <3>1 DEF PartRec
  <2>7. r = y
    BY <1>5, <2>5, <2>6
  <2>8. r.out = {Gets(g) : g \in T \ r.hits} /\ r.hits \subseteq T
    <3>1. T \ (p.hits \ {h}) = (T \ p.hits) \cup {h}
      BY <2>1, <2>3
    <3>2. {Gets(g) : g \in (T \ p.hits) \cup {h}} = {Gets(g) : g \in T \ p.hits} \cup {Gets(h)}
      OBVIOUS
    <3>3. r.hits = p.hits \ {h} /\ r.out = p.out \cup {Gets(h)}
      BY <2>6, <2>7
    <3>. QED
      BY <2>3, <3>1, <3>2, <3>3
  <2>. QED
    BY <1>4, <2>3, <2>6, <2>7, <2>8
<1>10. CASE LoadError(q, n)
  <2>1. part' = [part EXCEPT ![q][n] = [IdlePart EXCEPT !.pc = "failed"]]
    BY <1>10 DEF LoadError
  <2>2. [IdlePart EXCEPT !.pc = "failed"] \in PartRec /\ [IdlePart EXCEPT !.pc = "failed"].pc = "failed"
    BY DEF IdlePart, PartRec
  <2>. QED
    BY <1>5, <1>7, <2>1, <2>2
<1>11. CASE SearchDone(q, n)
  <2>1. p.pc = "load" /\ p.hits = {} /\ part' = [part EXCEPT ![q][n] = [p EXCEPT !.pc = "done"]]
    BY <1>11 DEF SearchDone
  <2> DEFINE y == [p EXCEPT !.pc = "done"]
  <2>2. y \in PartRec /\ y.pc = "done" /\ y.hits = {} /\ y.out = p.out
    BY <1>6, <2>1 DEF PartRec
  <2>3. r = y
    BY <1>5, <2>1, <2>2
  <2>. QED
    BY <1>1, <1>4, <2>1, <2>2, <2>3 DEF PartOK
<1>. QED
  BY <1>8, <1>9, <1>10, <1>11

\* wg.Wait and mergeSearchResults: the K best of all.
LEMMA MergeAnswers ==
  ASSUME FullInv, NEW q \in Queries, Merge(q), Undisturbed(q)
  PROVE  Answered(q)'
<1>1. expect[q] = Stored /\ \A n \in Nodes : PartOK(q, n)
  BY DEF FullInv, QueryInv, QueryOK, Undisturbed
<1>2. /\ Stored \subseteq Articles /\ IsFiniteSet(Stored)
      /\ \A x, y \in Stored : x.id = y.id => x = y
  BY StoredIsKeyed DEF FullInv
<1>3. expect' = expect /\ Asked(q) /\ AllBack(q)
  BY DEF Merge
<1>4. answer \in [Queries -> {"none", "asked", "ok", "error"}]
      /\ result \in [Queries -> SUBSET Hit]
  BY DEF FullInv, CoordInv, TypeOK
<1>5. CASE \E n \in Nodes : part[q][n].pc = "failed"
  <2>1. answer' = [answer EXCEPT ![q] = "error"]
    BY <1>5 DEF Merge
  <2>. QED
    BY <1>4, <2>1 DEF Answered
<1>6. CASE ~\E n \in Nodes : part[q][n].pc = "failed"
  <2>1. PICK M \in SUBSET Partials(q) :
          Merged(M, Partials(q)) /\ result' = [result EXCEPT ![q] = M]
    BY <1>6 DEF Merge
  <2>2. \A n \in Nodes : part[q][n].pc = "done"
    BY <1>3, <1>6 DEF AllBack
  <2>3. \A n \in Nodes : \E T \in SUBSET Rows(n) :
          IsTop(T, Rows(n), K, Score) /\ part[q][n].out = {Gets(h) : h \in T}
    <3> SUFFICES ASSUME NEW n \in Nodes
                 PROVE  \E T \in SUBSET Rows(n) : /\ IsTop(T, Rows(n), K, Score)
                                                  /\ part[q][n].out = {Gets(h) : h \in T}
      OBVIOUS
    <3>1. PartOK(q, n) /\ part[q][n].pc = "done"
      BY <1>1, <2>2
    <3>2. part[q][n].hits = {}
      BY <3>1 DEF PartOK
    <3>3. PICK T \in SUBSET Rows(n) : /\ IsTop(T, Rows(n), K, Score)
                                      /\ part[q][n].out = {Gets(h) : h \in T \ part[q][n].hits}
      BY <3>1 DEF PartOK
    <3>4. T \ part[q][n].hits = T
      BY <3>2
    <3>. QED
      BY <3>3, <3>4
  <2> DEFINE Chosen == [n \in Nodes |-> {h.row : h \in part[q][n].out}]
             R == [n \in Nodes |-> Rows(n)]
             U == UNION {Chosen[n] : n \in Nodes}
  <2>4. \A n \in Nodes : /\ IsTop(Chosen[n], R[n], K, Score)
                         /\ part[q][n].out = {Gets(h) : h \in Chosen[n]}
    <3> SUFFICES ASSUME NEW n \in Nodes
                 PROVE  /\ IsTop(Chosen[n], R[n], K, Score)
                        /\ part[q][n].out = {Gets(h) : h \in Chosen[n]}
      OBVIOUS
    <3>1. PICK T \in SUBSET Rows(n) : /\ IsTop(T, Rows(n), K, Score)
                                      /\ part[q][n].out = {Gets(h) : h \in T}
      BY <2>3
    <3>2. {h.row : h \in {Gets(g) : g \in T}} = T
      <4>1. \A g : Gets(g).row = g
        BY DEF Gets
      <4>. QED
        BY <4>1
    <3>3. Chosen[n] = T
      BY <3>1, <3>2
    <3>. QED
      BY <3>1, <3>3
  <2>5. Partials(q) = {Gets(h) : h \in U}
    <3>1. \A n \in Nodes : part[q][n].out = {Gets(h) : h \in Chosen[n]}
      BY <2>4
    <3> HIDE DEF Chosen
    <3>. QED
      BY <3>1 DEF Partials
  <2>6. U \in SUBSET Stored
    <3>1. \A n \in Nodes : Chosen[n] \subseteq Rows(n)
      BY <2>4 DEF IsTop
    <3> HIDE DEF Chosen
    <3>. QED
      BY <3>1 DEF Stored
  <2>7. IsFiniteSet(U) /\ \A x, y \in U : x.id = y.id => x = y
    BY <1>2, <2>6, FS_Subset
  <2>8. (\A h \in M : h.row = h.entry) /\ IsTop({h.row : h \in M}, U, K, Score)
    <3> HIDE DEF U
    <3>. QED
      BY <2>1, <2>5, <2>7, MergeOfGets
  <2>9. IsTop({h.row : h \in M}, Stored, K, Score)
    <3>1. /\ \A x : x \in Stored <=> \E n \in Nodes : x \in R[n]
          /\ \A x : x \in U <=> \E n \in Nodes : x \in Chosen[n]
      BY DEF Stored
    <3>2. K \in Nat /\ \A x \in Stored : Score[x] \in Int
      BY <1>2, QueryAssumption
    <3>3. \A n \in Nodes : IsTop(Chosen[n], R[n], K, Score)
      BY <2>4
    <3> HIDE DEF Chosen, R, U
    <3>4. TopOfEach(Nodes, R, Chosen, Stored, U, K, Score)
      BY <3>1, <3>3 DEF TopOfEach
    <3>. QED
      BY <1>2, <2>8, <3>2, <3>4, TopOfTops
  <2>10. result'[q] = M
    BY <1>4, <2>1
  <2>. QED
    BY <1>1, <1>3, <2>8, <2>9, <2>10 DEF Answered
<1>. QED
  BY <1>5, <1>6

\* The step of a query leaves the other queries alone.
LEMMA QueryStepInv ==
  ASSUME FullInv, NEW q \in Queries, QueryStep(q)
  PROVE  QueryInv'
<1>0. /\ part \in [Queries -> [Nodes -> PartRec]]
      /\ answer \in [Queries -> {"none", "asked", "ok", "error"}]
      /\ result \in [Queries -> SUBSET Hit]
  BY DEF FullInv, CoordInv, TypeOK, PartRec
<1>1. ASSUME NEW n \in Nodes,
             SearchIndex(q, n) \/ LoadHit(q, n) \/ LoadError(q, n) \/ SearchDone(q, n)
      PROVE  QueryInv'
  <2>1. UNCHANGED <<store, frame, phase, calm, answer, result, expect>>
    BY <1>1 DEF SearchIndex, LoadHit, LoadError, SearchDone, nodeVars
  <2>2. \A m \in Nodes : m # n => part'[q][m] = part[q][m]
    <3>1. CASE SearchIndex(q, n)
      <4>1. CASE QueryRefused(q, n)
        BY <1>0, <3>1, <4>1 DEF SearchIndex
      <4>2. CASE ~QueryRefused(q, n)
        <5>1. PICK T : part' = [part EXCEPT ![q][n].pc = "load", ![q][n].hits = T]
          BY <3>1, <4>2 DEF SearchIndex
        <5>. QED
          BY <1>0, <5>1
      <4>. QED
        BY <4>1, <4>2
    <3>2. CASE LoadHit(q, n)
      <4>1. PICK H, O : part' = [part EXCEPT ![q][n].hits = H, ![q][n].out = O]
        BY <3>2 DEF LoadHit
      <4>. QED
        BY <1>0, <4>1
    <3>3. CASE LoadError(q, n) \/ SearchDone(q, n)
      BY <1>0, <3>3 DEF LoadError, SearchDone
    <3>. QED
      BY <1>1, <3>1, <3>2, <3>3
  <2>3. \A r \in Queries : r # q => part'[r] = part[r]
    BY <1>0, <1>1 DEF SearchIndex, LoadHit, LoadError, SearchDone
  <2> SUFFICES ASSUME NEW r \in Queries
               PROVE  QueryOK(r)'
    BY DEF QueryInv
  <2>5. QueryOK(r)
    BY DEF FullInv, QueryInv
  <2>6. CASE r # q
    BY <2>1, <2>3, <2>5, <2>6, QueryKept
  <2>7. CASE r = q /\ ~Undisturbed(q)
    BY <2>1, <2>5, <2>7, AnswerKept DEF Undisturbed, Asked, QueryOK
  <2>8. CASE r = q /\ Undisturbed(q)
    <3>1. PartOK(q, n)'
      BY <1>1, <2>8, PartStep
    <3>2. AllQuiet /\ calm /\ expect[q] = Stored /\ \A m \in Nodes : PartOK(q, m)
      BY <2>5, <2>8 DEF QueryOK
    <3>3. AllQuiet' /\ Stored' = Stored /\ \A m \in Nodes : Rows(m)' = Rows(m)
      BY <2>1, <3>2 DEF AllQuiet, Quiet, Running, Pc, Stored, Rows
    <3>4. \A m \in Nodes : PartOK(q, m)'
      <4> SUFFICES ASSUME NEW m \in Nodes
                   PROVE  PartOK(q, m)'
        OBVIOUS
      <4>1. CASE m = n
        BY <3>1, <4>1
      <4>2. CASE m # n
        BY <2>2, <3>2, <3>3, <4>2 DEF PartOK
      <4>. QED
        BY <4>1, <4>2
    <3>5. Answered(q)'
      BY <2>1, <2>8 DEF Answered, Undisturbed, Asked
    <3>. QED
      BY <2>1, <2>5, <2>8, <3>2, <3>3, <3>4, <3>5 DEF QueryOK, Asked
  <2>. QED
    BY <2>6, <2>7, <2>8
<1>2. ASSUME Merge(q)
      PROVE  QueryInv'
  <2>1. UNCHANGED <<store, frame, phase, calm, expect>> /\ Asked(q)
    BY <1>2 DEF Merge, nodeVars
  <2>2. part' = [part EXCEPT ![q] = [m \in Nodes |-> IdlePart]]
    BY <1>2 DEF Merge
  <2>3. /\ answer'[q] \in {"ok", "error"}
        /\ \A r \in Queries : r # q => answer'[r] = answer[r] /\ result'[r] = result[r]
    <3>1. CASE \E n \in Nodes : part[q][n].pc = "failed"
      <4>1. answer' = [answer EXCEPT ![q] = "error"] /\ result' = result
        BY <1>2, <3>1 DEF Merge
      <4>. QED
        BY <1>0, <4>1
    <3>2. CASE ~\E n \in Nodes : part[q][n].pc = "failed"
      <4>1. PICK T : result' = [result EXCEPT ![q] = T] /\ answer' = [answer EXCEPT ![q] = "ok"]
        BY <1>2, <3>2 DEF Merge
      <4>. QED
        BY <1>0, <4>1
    <3>. QED
      BY <3>1, <3>2
  <2> SUFFICES ASSUME NEW r \in Queries
               PROVE  QueryOK(r)'
    BY DEF QueryInv
  <2>4. QueryOK(r)
    BY DEF FullInv, QueryInv
  <2>5. CASE r # q
    <3>1. part'[r] = part[r]
      BY <1>0, <2>2, <2>5
    <3>. QED
      BY <2>1, <2>3, <2>4, <2>5, <3>1, QueryKept
  <2>6. CASE r = q
    <3>1. ~Asked(q)'
      BY <2>3 DEF Asked
    <3>2. Answered(q)'
      <4>1. CASE Undisturbed(q)
        BY <1>2, <4>1, MergeAnswers
      <4>2. CASE ~Undisturbed(q)
        BY <2>1, <4>2 DEF Undisturbed, Answered
      <4>. QED
        BY <4>1, <4>2
    <3>. QED
      BY <2>6, <3>1, <3>2 DEF QueryOK, Undisturbed
  <2>. QED
    BY <2>5, <2>6
<1>. QED
  BY <1>1, <1>2 DEF QueryStep

LEMMA QueryNext ==
  ASSUME FullInv, [Next]_vars
  PROVE  QueryInv'
<1>0. /\ \A q \in Queries : QueryOK(q)
      /\ \A q \in Queries : Asked(q) => phase = "ready"
      /\ \A q \in Queries : Undisturbed(q) => AllQuiet /\ calm /\ expect[q] = Stored
  BY DEF FullInv, QueryInv, QueryOK
<1>1. ASSUME NoteCall, UNCHANGED <<phase, part, answer, result>>
      PROVE  QueryInv'
  <2> SUFFICES ASSUME NEW q \in Queries
               PROVE  QueryOK(q)'
    BY DEF QueryInv
  <2>1. expect'[q] = IF Asked(q) THEN Nil ELSE expect[q]
    BY <1>1 DEF NoteCall
  <2>2. ~Undisturbed(q)' /\ (Asked(q)' => Asked(q))
    BY <1>1, <2>1 DEF Undisturbed, Asked
  <2>. QED
    BY <1>0, <1>1, <2>1, <2>2, AnswerKept DEF Asked
<1>2. ASSUME NEW c \in Calls, NEW d, Insert(c, d)
      PROVE  QueryInv'
  BY <1>1, <1>2 DEF Insert
<1>3. ASSUME NEW c \in Calls, NEW id \in Ids, Delete(c, id)
      PROVE  QueryInv'
  BY <1>1, <1>3 DEF Delete
<1>4. ASSUME NEW n \in Nodes, NEW c \in Calls, CallStep(n, c)
      PROVE  QueryInv'
  <2>1. MethodStep(n, c) /\ UNCHANGED <<phase, answer, result, expect>>
    BY <1>4 DEF CallStep
  <2>2. Running(n, c)
    BY <2>1, MethodStepEffect DEF FullInv, CoordInv, NodesInv
  <2>3. \A q \in Queries : ~Undisturbed(q)
    BY <1>0, <2>2 DEF AllQuiet, Quiet
  <2> SUFFICES ASSUME NEW q \in Queries
               PROVE  QueryOK(q)'
    BY DEF QueryInv
  <2>. QED
    BY <1>0, <2>1, <2>3, AnswerKept DEF Undisturbed, Asked
<1>5. ASSUME NEW q \in Queries, QueryStart(q)
      PROVE  QueryInv'
  <2>0. /\ part \in [Queries -> [Nodes -> PartRec]]
        /\ answer \in [Queries -> {"none", "asked", "ok", "error"}]
        /\ expect \in [Queries -> (SUBSET Articles) \cup {Nil}]
    BY DEF FullInv, CoordInv, TypeOK, PartRec
  <2>1. /\ answer' = [answer EXCEPT ![q] = "asked"] /\ phase = "ready"
        /\ part' = [part EXCEPT ![q] = [n \in Nodes |-> [IdlePart EXCEPT !.pc = "search"]]]
        /\ expect' = [expect EXCEPT ![q] = IF calm /\ AllQuiet THEN Stored ELSE Nil]
        /\ UNCHANGED <<store, frame, phase, calm, result>>
    BY <1>5 DEF QueryStart, Free, nodeVars
  <2> SUFFICES ASSUME NEW r \in Queries
               PROVE  QueryOK(r)'
    BY DEF QueryInv
  <2>2. CASE r # q
    <3>1. part'[r] = part[r] /\ answer'[r] = answer[r] /\ expect'[r] = expect[r]
          /\ result'[r] = result[r]
      BY <2>0, <2>1, <2>2
    <3>. QED
      BY <1>0, <2>1, <3>1, QueryKept
  <2>3. CASE r = q
    <3>1. answer'[q] = "asked" /\ expect'[q] = IF calm /\ AllQuiet THEN Stored ELSE Nil
      BY <2>0, <2>1
    <3>2. \A n \in Nodes : part'[q][n].pc = "search" /\ part'[q][n].hits = {} /\ part'[q][n].out = {}
      BY <2>0, <2>1 DEF IdlePart
    <3>3. \A n \in Nodes : PartOK(q, n)'
      BY <3>2 DEF PartOK
    <3>4. (AllQuiet => AllQuiet') /\ Stored' = Stored
      BY <2>1 DEF AllQuiet, Quiet, Running, Pc, Stored, Rows
    <3>5. Undisturbed(q)' => AllQuiet' /\ calm' /\ expect'[q] = Stored'
      BY <2>1, <3>1, <3>4 DEF Undisturbed
    <3>6. Answered(q)'
      BY <3>1 DEF Answered
    <3>. QED
      BY <2>1, <2>3, <3>3, <3>5, <3>6 DEF QueryOK
  <2>. QED
    BY <2>2, <2>3
<1>6. ASSUME NEW q \in Queries, QueryStep(q)
      PROVE  QueryInv'
  BY <1>6, QueryStepInv
<1>7. CASE StartFails \/ ProcessDies \/ Quit
  <2>1. ProcessGone
    BY <1>7 DEF StartFails, ProcessDies, Quit
  <2> SUFFICES ASSUME NEW q \in Queries
               PROVE  QueryOK(q)'
    BY DEF QueryInv
  <2>2. answer'[q] = (IF Asked(q) THEN "error" ELSE answer[q]) /\ UNCHANGED <<result, expect>>
    BY <2>1 DEF ProcessGone
  <2>3. ~Asked(q)' /\ (answer'[q] = "ok" => answer[q] = "ok")
    BY <2>2 DEF Asked
  <2>. QED
    BY <1>0, <2>2, <2>3, AnswerKept DEF Undisturbed
<1>8. ASSUME phase # "ready", UNCHANGED <<answer, result, expect>>
      PROVE  QueryInv'
  <2> SUFFICES ASSUME NEW q \in Queries
               PROVE  QueryOK(q)'
    BY DEF QueryInv
  <2>1. ~Asked(q)'
    BY <1>0, <1>8 DEF Asked
  <2>. QED
    BY <1>0, <1>8, <2>1, AnswerKept DEF Undisturbed
<1>9. ASSUME NEW n \in Nodes, OpenShard(n)
      PROVE  QueryInv'
  BY <1>8, <1>9 DEF OpenShard, coordVars
<1>10. CASE StartProcess \/ InitDocIDCounter
  BY <1>8, <1>10 DEF StartProcess, InitDocIDCounter
<1>11. CASE UNCHANGED vars
  <2> SUFFICES ASSUME NEW q \in Queries
               PROVE  QueryOK(q)'
    BY DEF QueryInv
  <2>. QED
    BY <1>0, <1>11, QueryKept DEF vars, nodeVars, coordVars
<1>. QED
  BY <1>2, <1>3, <1>4, <1>5, <1>6, <1>7, <1>9, <1>10, <1>11 DEF Next

-----------------------------------------------------------------------------
(* The theorem. *)

LEMMA FullInvInit == Init => FullInv
<1> SUFFICES ASSUME Init PROVE FullInv
  OBVIOUS
<1>1. CoordInv
  BY CoordInvInit
<1>2. DownOK
  BY DEF Init, DownOK
<1>3. CalmInv
  BY AloneInit DEF Init, CalmInv
<1>4. QueryInv
  BY DEF Init, QueryInv, QueryOK, Answered, Undisturbed, Asked
<1>. QED
  BY <1>1, <1>2, <1>3, <1>4 DEF FullInv

LEMMA FullInvNext == FullInv /\ [Next]_vars => FullInv'
<1> SUFFICES ASSUME FullInv, [Next]_vars PROVE FullInv'
  OBVIOUS
<1>1. CoordInv'
  BY CoordInvNext DEF FullInv
<1>2. DownOK' /\ CalmInv'
  BY CalmNext DEF FullInv
<1>3. QueryInv'
  BY QueryNext
<1>. QED
  BY <1>1, <1>2, <1>3 DEF FullInv

\* A query that no call overlaps, on indexes that calls have met in order since
\* the start, is answered with an error or with the K stored articles most
\* similar to it over all shards, each found under its own entry: asking every
\* shard for K and merging loses nothing, however many shards there are.
THEOREM QueryIsTopK == Spec => []QueryReturnsTopK
<1>1. FullInv => QueryReturnsTopK
  BY DEF FullInv, QueryInv, QueryOK, Answered, QueryReturnsTopK
<1>. QED
  BY <1>1, FullInvInit, FullInvNext, PTL DEF Spec
================================================================================
