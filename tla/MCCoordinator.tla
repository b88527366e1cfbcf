---------------------------- MODULE MCCoordinator ----------------------------
(* Model-checking instances of Coordinator. *)
EXTENDS Coordinator

\* Two embedding models.
Docs == [id : Ids, dim : {2, 3}]

CONSTANTS q1, q2

\* One with the length of the first model, one of norm zero.
QueryDims == [q \in Queries |-> IF q = q1 THEN 2 ELSE 0]

\* doc-1 and doc-2, which are on different shards, are equally good.
Scores == [a \in Docs |-> IF a.id = 3 THEN 2 ELSE 1]

\* The hash is the polynomial of the characters at 31, wrapped once at the end,
\* and its absolute value unless that does not exist.
Polynomial(s) == FoldLeft(LAMBDA h, c : 31 * h + c, 0, s)
ASSUME HashReference ==
  \A s \in SeqOf({45, 49, 100}, 4) :
    LET h == Wrapped(Polynomial(s))
    IN HashString(s) = IF h >= 0 \/ h = -SignBit THEN h ELSE -h

CallSymmetry == Permutations(Calls)
=============================================================================
