----------------------------- MODULE MCShardNode -----------------------------
(* Model-checking instances of ShardNode. *)
EXTENDS ShardNode

CONSTANTS i1, i2

\* One embedding model: every vector has the same length.
OneModel == {[id |-> i1, rev |-> 1, dim |-> 2], [id |-> i1, rev |-> 2, dim |-> 2],
             [id |-> i2, rev |-> 1, dim |-> 2]}

\* Two embedding models, and a vector of norm zero.
TwoModels == {[id |-> i1, rev |-> 1, dim |-> 2], [id |-> i1, rev |-> 2, dim |-> 3],
              [id |-> i2, rev |-> 1, dim |-> 2], [id |-> i2, rev |-> 2, dim |-> 0]}

CallSymmetry == Permutations(Calls)
=============================================================================
