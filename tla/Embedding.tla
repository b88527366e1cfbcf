------------------------------ MODULE Embedding ------------------------------
(***************************************************************************)
(* The embedding client (internal/embedding/client.go): one request for a  *)
(* batch of texts, and the answers sorted to the texts by their index.     *)
(* An embedding is its length and whether its norm is zero, which the      *)
(* client does not look at.  A response is ok if it arrived within the     *)
(* client's timeout, parses, and its status is below 300.                  *)
(***************************************************************************)
EXTENDS Integers, Sequences

Responses(Items, maxItems) ==
  [ok : BOOLEAN, data : UNION {[1..n -> Items] : n \in 0..maxItems}]

Failed == <<>>
NoVector == [length |-> 0, zero |-> TRUE]

\* A later item of the same index replaces an earlier one.
Embeddings(inputs, data) ==
  [i \in 1..inputs |->
     LET mine == SelectSeq(data, LAMBDA item : item.index = i - 1)
     IN IF mine = <<>> THEN NoVector ELSE mine[Len(mine)].embedding]

\* One vector for each text, or none at all.
EmbedBatch(inputs, response) ==
  LET data == response.data
      vectors == Embeddings(inputs, data)
  IN IF \/ inputs = 0
        \/ ~response.ok
        \/ data = <<>>
        \/ \E j \in DOMAIN data : data[j].index \notin 0..(inputs - 1)
        \/ \E i \in DOMAIN vectors : vectors[i].length = 0
     THEN Failed
     ELSE vectors

Embed(response) == EmbedBatch(1, response)
=============================================================================
