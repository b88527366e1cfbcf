------------------------------ MODULE MCSession ------------------------------
(* Model-checking instance of Session. *)
EXTENDS Session

\* Vectors of two lengths, and vectors of norm zero.
Docs == [id : Ids, dim : {0, 2, 3}]
Scores == [a \in Docs |-> a.id]

\* Of the length of the smaller model, whatever model is configured.
QueryDims == [q \in Queries |-> 2]

Key == "OPENROUTER_API_KEY"
Model == "OPENROUTER_EMBEDDING_MODEL"
Small == "text-embedding-3-small"
Large == "text-embedding-3-large"
Dims == [m \in {Small, Large} |-> IF m = Small THEN 2 ELSE 3]

Envs == {[name \in {Key, Model} |-> IF name = Key THEN k ELSE m] : k \in {"", "k"}, m \in {"", Large}}
Files == {<<>>, <<[name |-> Key, value |-> "k"], [name |-> Model, value |-> Small],
                  [name |-> Model, value |-> Large]>>}
=============================================================================
