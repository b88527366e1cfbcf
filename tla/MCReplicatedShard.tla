-------------------------- MODULE MCReplicatedShard --------------------------
(* Model-checking instances of ReplicatedShard. *)
EXTENDS ReplicatedShard

CONSTANTS i1, i2

\* One id, two contents, one embedding model.
OneId == {[id |-> i1, rev |-> 1, dim |-> 2], [id |-> i1, rev |-> 2, dim |-> 2]}

\* Two ids, two embedding models.
TwoModels == {[id |-> i1, rev |-> 1, dim |-> 2], [id |-> i2, rev |-> 1, dim |-> 3]}

CallSymmetry == Permutations(Calls)
=============================================================================
