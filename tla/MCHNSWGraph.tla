---------------------------- MODULE MCHNSWGraph ----------------------------
(* Model-checking instances of HNSWGraph. *)
EXTENDS HNSWGraph

\* A hub (1) and satellites around it in different directions: unit vectors
\* with a share of Near[v] percent of the hub's direction, the rest of each
\* orthogonal to all others.  10 has other dimensions.
Near == <<100, 90, 88, 86, 84, 82>>
HubSim == [v \in Vectors |-> [w \in Vectors |->
             IF v = w THEN 10000 ELSE IF v = 10 \/ w = 10 THEN 0 ELSE Near[v] * Near[w]]]
Dims == [v \in Vectors |-> IF v = 10 THEN 3 ELSE 2]

\* Two vectors under one id.
OneIdEach == [v \in Vectors |-> IF v = 1 THEN 1 ELSE IF v \in {2, 3} THEN 2 ELSE 3]
Inserts == {[id |-> OneIdEach[v], vec |-> v] : v \in Vectors}
=============================================================================
