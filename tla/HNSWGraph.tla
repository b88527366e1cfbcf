------------------------------ MODULE HNSWGraph ------------------------------
(***************************************************************************)
(* The HNSW index (internal/index/hnsw.go): a graph of layers in which     *)
(* Insert links a new node to near ones, Delete leaves a tombstone, and    *)
(* Search walks from the entry point towards the query.  The mutex makes   *)
(* each of the three one step.                                             *)
(*                                                                         *)
(* Abstractions.  Vectors are points with a table of integer similarities; *)
(* only their order matters.  No two nodes are equally similar to a third  *)
(* vector, so neither the order of a neighbour list nor the layout of a    *)
(* heap has an effect: lists and heaps are sets.  Nodes are numbered from  *)
(* 1, and 0 stands for no node.  The level drawn for a new node is any up  *)
(* to MaxLevel.                                                            *)
(***************************************************************************)
EXTENDS Integers, Sequences, FiniteSets, FiniteSetsExt

CONSTANTS
  Ids,             \* article ids
  Vectors,         \* the vectors
  Queries,         \* the vectors searched for
  Ks,              \* how many results searches ask for
  Dim,             \* Dim[v]: number of components of v
  Sim,             \* Sim[v][w]: similarity of two vectors of one dimension
  Entries,         \* what callers insert: records with id and vec
  M,               \* links of a new node per layer
  EfConstruction,  \* candidates kept by Insert
  EfSearch,        \* candidates kept by Search, at first
  EfValues,        \* arguments of SetEfSearch
  MaxLevel,        \* bound on the level of a node
  MaxTall,         \* bound on the number of nodes above layer 0
  MaxNodes,        \* bound on the number of nodes
  MaxTombstones    \* bound on the number of deletions

\* With M = 1 the code would multiply by 1/log(1) when it draws a level.
ASSUME ConfigAssumption ==
  /\ M \in Nat /\ M >= 2
  /\ EfConstruction \in Nat \ {0} /\ EfSearch \in Nat \ {0}
ASSUME EntriesAssumption == Entries \subseteq [id : Ids, vec : Vectors]
\* vectorNorm refuses the empty vector.
ASSUME DimAssumption == \A v \in Vectors : Dim[v] \in Nat \ {0}
ASSUME BoundAssumption == {MaxLevel, MaxTall, MaxNodes, MaxTombstones} \subseteq Nat
ASSUME EfAssumption == EfValues \subseteq Int
ASSUME QueryAssumption == Queries \subseteq Vectors /\ Ks \subseteq Nat \ {0}
ASSUME SimilarityAssumption ==
  \A v, w \in Vectors : Dim[v] = Dim[w] =>
    /\ Sim[v][w] \in Int /\ Sim[v][w] = Sim[w][v]
    /\ \A u \in Vectors : Dim[u] = Dim[v] /\ u # w => Sim[v][u] # Sim[v][w]

VARIABLES
  nodes,       \* the nodes in order of insertion
  idMap,       \* idMap[id]: the node Delete(id) would mark, or 0
  entryPoint,  \* the node where every walk starts, or 0
  maxLevel,    \* the level of the entry point, -1 if there is none
  dimension,   \* length of the vectors, 0 before the first Insert
  efSearch     \* candidates kept by Search

vars == <<nodes, idMap, entryPoint, maxLevel, dimension, efSearch>>

Node == [id : Ids, vec : Vectors, level : 0..MaxLevel, deleted : BOOLEAN,
         links : UNION {[0..l -> SUBSET (1..MaxNodes)] : l \in 0..MaxLevel}]

-----------------------------------------------------------------------------
(* Walks in a graph g towards a vector q *)

Score(g, q, i) == Sim[q][g[i].vec]
Links(g, i, lc) == IF lc <= g[i].level THEN g[i].links[lc] ELSE {}

Nearest(g, q, S) == CHOOSE i \in S : \A j \in S : Score(g, q, i) >= Score(g, q, j)
Farthest(g, q, S) == CHOOSE i \in S : \A j \in S : Score(g, q, i) <= Score(g, q, j)

\* The n nodes of S most similar to q; all of S if there are fewer.
Best(g, q, S, n) ==
  {i \in S : Cardinality({j \in S : Score(g, q, j) > Score(g, q, i)}) < n}

Better(g, q, i, lc) == {j \in Links(g, i, lc) : Score(g, q, j) > Score(g, q, i)}

\* From node to better neighbour until there is none.
GreedyClosest(g, q, ep, lc) ==
  LET walk[i \in DOMAIN g] ==
        IF Better(g, q, i, lc) = {} THEN i ELSE walk[Nearest(g, q, Better(g, q, i, lc))]
  IN walk[ep]

\* Where the descent from the entry point arrives in the given layer.
Landing(g, q, layer) ==
  LET at[lc \in layer..(maxLevel + 1)] ==
        IF lc = maxLevel + 1 THEN entryPoint ELSE GreedyClosest(g, q, at[lc + 1], lc)
  IN at[layer]

\* Best-first search of one layer: expand the best candidate until it is worse
\* than the worst of the ef best nodes found.
SearchState(g) == [cands : SUBSET DOMAIN g, found : SUBSET DOMAIN g, visited : SUBSET DOMAIN g]

Finished(g, q, s) ==
  \/ s.cands = {}
  \/ Score(g, q, Nearest(g, q, s.cands)) < Score(g, q, Farthest(g, q, s.found))

Expand(g, q, ef, lc, s) ==
  LET c == Nearest(g, q, s.cands)
      new == Links(g, c, lc) \ s.visited
      kept == Best(g, q, s.found \cup new, ef)
  IN [cands |-> (s.cands \ {c}) \cup (new \cap kept), found |-> kept,
      visited |-> s.visited \cup new]

SearchLayer(g, q, ep, ef, lc) ==
  LET explore[s \in SearchState(g)] ==
        IF Finished(g, q, s) THEN s.found ELSE explore[Expand(g, q, ef, lc, s)]
  IN explore[[cands |-> {ep}, found |-> {ep}, visited |-> {ep}]]

-----------------------------------------------------------------------------
(* Insert *)

\* Take candidates by decreasing similarity to q, skip those more similar to
\* one already taken than to q, stop at m.
Selection(g) == [rest : SUBSET DOMAIN g, taken : SUBSET DOMAIN g]

Consider(g, q, s) ==
  LET e == Nearest(g, q, s.rest)
      closer == \E r \in s.taken : Sim[g[e].vec][g[r].vec] > Score(g, q, e)
  IN [rest |-> s.rest \ {e}, taken |-> IF closer THEN s.taken ELSE s.taken \cup {e}]

SelectNeighbors(g, q, candidates, m) ==
  LET select[s \in Selection(g)] ==
        IF s.rest = {} \/ Cardinality(s.taken) >= m
        THEN s.taken
        ELSE select[Consider(g, q, s)]
  IN select[[rest |-> candidates, taken |-> {}]]

PruneConnections(g, i, links, maxConns) == SelectNeighbors(g, g[i].vec, links, maxConns)

MaxLinks(lc) == IF lc = 0 THEN 2 * M ELSE M

\* Mutant: an overfull list is not pruned.
LinkBackUnpruned(g, i, n, lc) == g[i].links[lc] \cup {n}

\* The links of node i in layer lc after node n has linked to it.
LinkBack(g, i, n, lc) ==
  LET links == g[i].links[lc] \cup {n}
  IN IF Cardinality(links) > MaxLinks(lc)
     THEN PruneConnections(g, i, links, MaxLinks(lc))
     ELSE links

\* Mutant: nobody links back.
ConnectLayerOneWay(g, n, lc, ep) ==
  LET candidates == SearchLayer(g, g[n].vec, ep, EfConstruction, lc)
      selected == SelectNeighbors(g, g[n].vec, candidates, M)
  IN [ep |-> Nearest(g, g[n].vec, candidates),
      graph |-> [g EXCEPT ![n].links[lc] = selected]]

\* Node n is linked in layer lc; the walk goes on from the best candidate.
ConnectLayer(g, n, lc, ep) ==
  LET candidates == SearchLayer(g, g[n].vec, ep, EfConstruction, lc)
      selected == SelectNeighbors(g, g[n].vec, candidates, M)
  IN [ep |-> Nearest(g, g[n].vec, candidates),
      graph |-> [i \in DOMAIN g |->
                   IF i = n THEN [g[i] EXCEPT !.links[lc] = selected]
                   ELSE IF i \in selected
                        THEN [g[i] EXCEPT !.links[lc] = LinkBack(g, i, n, lc)]
                   ELSE g[i]]]

\* Node n is the last one of g, without links so far.
Connect(g, n) ==
  LET top == Min({g[n].level, maxLevel})
      from[lc \in 0..(top + 1)] ==
        IF lc = top + 1
        THEN [ep |-> Landing(g, g[n].vec, top + 1), graph |-> g]
        ELSE ConnectLayer(from[lc + 1].graph, n, lc, from[lc + 1].ep)
  IN from[0].graph

\* No two nodes may be equally similar to a third vector, so each vector is
\* inserted once.  A restriction of the model: the code has no such check.
Used(v) == \E i \in DOMAIN nodes : nodes[i].vec = v
Tall == {i \in DOMAIN nodes : nodes[i].level > 0}
Tombstones == {i \in DOMAIN nodes : nodes[i].deleted}

\* A vector of another length than the first one is refused.
Insert(e, level) ==
  LET n == Len(nodes) + 1
      new == [id |-> e.id, vec |-> e.vec, level |-> level, deleted |-> FALSE,
              links |-> [lc \in 0..level |-> {}]]
      g == Append(nodes, new)
  IN
  /\ n <= MaxNodes /\ ~Used(e.vec)
  /\ level > 0 => Cardinality(Tall) < MaxTall
  /\ dimension \in {0, Dim[e.vec]}
  /\ dimension' = Dim[e.vec]
  /\ idMap' = [idMap EXCEPT ![e.id] = n]
  /\ nodes' = IF entryPoint = 0 THEN g ELSE Connect(g, n)
  /\ IF level > maxLevel
     THEN maxLevel' = level /\ entryPoint' = n
     ELSE UNCHANGED <<maxLevel, entryPoint>>
  /\ UNCHANGED efSearch

-----------------------------------------------------------------------------
(* Delete, SetEfSearch, Search *)

\* Mutant: the id keeps its node.
DeleteKeepsName(id) ==
  /\ idMap[id] # 0
  /\ Cardinality(Tombstones) < MaxTombstones
  /\ nodes' = [nodes EXCEPT ![idMap[id]].deleted = TRUE]
  /\ UNCHANGED <<idMap, entryPoint, maxLevel, dimension, efSearch>>

Delete(id) ==
  /\ idMap[id] # 0
  /\ Cardinality(Tombstones) < MaxTombstones
  /\ nodes' = [nodes EXCEPT ![idMap[id]].deleted = TRUE]
  /\ idMap' = [idMap EXCEPT ![id] = 0]
  /\ UNCHANGED <<entryPoint, maxLevel, dimension, efSearch>>

\* Mutant: any value is taken.
SetEfSearchUnchecked(ef) ==
  /\ efSearch' = ef
  /\ UNCHANGED <<nodes, idMap, entryPoint, maxLevel, dimension>>

SetEfSearch(ef) ==
  /\ efSearch' = IF ef > 0 THEN ef ELSE efSearch
  /\ UNCHANGED <<nodes, idMap, entryPoint, maxLevel, dimension>>

Live == DOMAIN nodes \ Tombstones
Ef(k) == Max({efSearch, k})

\* Mutant: tombstones are dropped from the best k.
SearchCutsFirst(q, k) ==
  IF nodes = <<>> THEN {}
  ELSE Best(nodes, q, SearchLayer(nodes, q, Landing(nodes, q, 1), Ef(k), 0), k) \ Tombstones

\* The nodes Search returns for a query of the index's dimension: tombstones
\* are dropped after ef candidates have been found.
Search(q, k) ==
  IF nodes = <<>> THEN {}
  ELSE Best(nodes, q,
            SearchLayer(nodes, q, Landing(nodes, q, 1), Ef(k), 0) \ Tombstones, k)

-----------------------------------------------------------------------------
Init ==
  /\ nodes = <<>>
  /\ idMap = [id \in Ids |-> 0]
  /\ entryPoint = 0
  /\ maxLevel = -1
  /\ dimension = 0
  /\ efSearch = EfSearch

Next ==
  \/ \E e \in Entries, level \in 0..MaxLevel : Insert(e, level)
  \/ \E id \in Ids : Delete(id)
  \/ \E ef \in EfValues : SetEfSearch(ef)

Spec == Init /\ [][Next]_vars

-----------------------------------------------------------------------------
(* Properties *)

TypeOK ==
  /\ nodes \in Seq(Node) /\ Len(nodes) <= MaxNodes
  /\ idMap \in [Ids -> 0..Len(nodes)]
  /\ entryPoint \in 0..Len(nodes)
  /\ maxLevel \in -1..MaxLevel
  /\ dimension \in {0} \cup {Dim[v] : v \in Vectors}
  /\ efSearch \in Nat \ {0}

\* Insert writes connections[lc] of every node it found in layer lc, and Search
\* scores every node it is led to against a query of the index's dimension: a
\* link to a node that does not reach the layer, or an entry point below the
\* top, would be an index out of range.  A node never links to itself, and the
\* lists do not outgrow their caps, whatever was linked back and pruned.
LinksSound ==
  /\ \A i \in DOMAIN nodes, lc \in 0..MaxLevel : lc <= nodes[i].level =>
       /\ \A j \in nodes[i].links[lc] : j # i /\ lc <= nodes[j].level
       /\ Cardinality(nodes[i].links[lc]) <= MaxLinks(lc)
  /\ nodes # <<>> => nodes[entryPoint].level = maxLevel
  /\ \A i \in DOMAIN nodes : /\ nodes[i].level <= maxLevel
                             /\ Dim[nodes[i].vec] = dimension

\* As long as no neighbour list of layer 0 can overflow, a search that keeps as
\* many candidates as there are nodes returns exactly the k live entries most
\* similar to the query, tombstones, upper layers and order of arrival
\* notwithstanding.  (With M = 16 and efSearch = 50: the first 33 inserts.)
Asked == {q \in Queries : Dim[q] = dimension}
SmallIndex == Len(nodes) <= 2 * M + 1
SearchIsExact ==
  SmallIndex => \A q \in Asked, k \in Ks :
    Ef(k) >= Len(nodes) => Search(q, k) = Best(nodes, q, Live, k)

\* With fewer candidates a search may miss the best, but tombstones alone do
\* not empty it: it returns k live entries, or all, or at least as many as
\* there are candidates more than tombstones.
SearchFills ==
  SmallIndex => \A q \in Asked, k \in Ks :
    Cardinality(Search(q, k)) >= Min({k, Cardinality(Live), Ef(k) - Cardinality(Tombstones)})

\* Tombstones, idMap and dimension behave as the node that owns the index
\* expects of a VectorIndex.
LiveEntries(g, id) ==
  LET upTo[n \in 0..Len(g)] ==
        IF n = 0 THEN <<>>
        ELSE IF g[n].id = id /\ ~g[n].deleted
        THEN Append(upTo[n - 1], [id |-> id, vec |-> g[n].vec])
        ELSE upTo[n - 1]
  IN upTo[Len(g)]
Index == INSTANCE VectorIndex
           WITH live <- [id \in Ids |-> LiveEntries(nodes, id)],
                indexed <- {id \in Ids : idMap[id] # 0},
                dim <- dimension
IsVectorIndex == Index!Spec

\* Every node can be reached from the entry point by links of layer 0.
Reachable ==
  LET grow[S \in SUBSET DOMAIN nodes] ==
        LET T == S \cup UNION {nodes[i].links[0] : i \in S}
        IN IF T = S THEN S ELSE grow[T]
  IN grow[{entryPoint}]
WellFormed == nodes # <<>> => Reachable = DOMAIN nodes
=============================================================================
