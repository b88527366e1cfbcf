----------------------------- MODULE VectorIndex -----------------------------
(***************************************************************************)
(* What index.VectorIndex promises its caller, the shard node: which       *)
(* entries are live under which id, which ids Delete knows, and the one    *)
(* vector dimension it takes.  ShardNode keeps these three variables for   *)
(* each of its nodes; HNSWGraph implements them by a graph.                *)
(***************************************************************************)
EXTENDS Naturals, Sequences

CONSTANTS
  Ids,      \* article ids
  Entries,  \* what callers insert: records with id and vec
  Dim       \* Dim[v]: number of components of vector v

VARIABLES
  live,     \* live[id]: entries of id not deleted, oldest first
  indexed,  \* the ids Delete finds
  dim       \* the dimension, 0 as long as nothing was inserted

indexVars == <<live, indexed, dim>>

Init ==
  /\ live = [id \in Ids |-> <<>>]
  /\ indexed = {}
  /\ dim = 0

\* The first vector fixes the dimension.  The id is not checked.
Insert(e) ==
  /\ dim \in {0, Dim[e.vec]}
  /\ dim' = Dim[e.vec]
  /\ live' = [live EXCEPT ![e.id] = Append(@, e)]
  /\ indexed' = indexed \cup {e.id}

\* The newest entry of the id goes, and the id is forgotten.
Delete(id) ==
  /\ id \in indexed
  /\ live' = [live EXCEPT ![id] = SubSeq(@, 1, Len(@) - 1)]
  /\ indexed' = indexed \ {id}
  /\ UNCHANGED dim

Next == (\E e \in Entries : Insert(e)) \/ (\E id \in Ids : Delete(id))

Spec == Init /\ [][Next]_indexVars
=============================================================================
