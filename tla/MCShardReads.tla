---------------------------- MODULE MCShardReads ----------------------------
(* Model-checking instances of ShardReads. *)
EXTENDS ShardReads

CONSTANT i1

\* One article: whatever is stored under its id is a copy of it.
OneArticle == {[id |-> i1, dim |-> 2]}

CallSymmetry == Permutations(Calls)
=============================================================================
