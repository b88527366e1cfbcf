------------------------------- MODULE ShardMap -------------------------------
(***************************************************************************)
(* models.ShardMap: which shard an id belongs to.  A string is the         *)
(* sequence of its character codes.  Go's int runs from -SignBit to        *)
(* SignBit - 1: sums and products wrap, the smallest int is its own        *)
(* negation, and the remainder of a negative dividend is negative.         *)
(***************************************************************************)
EXTENDS Integers, Sequences

CONSTANTS
  NumShards,  \* ARTICLE_DB_NUM_SHARDS, the same on every start
  SignBit     \* 2^63 on the platforms the program runs on

ASSUME ShardMapAssumption == NumShards \in Nat \ {0} /\ SignBit \in Nat \ {0}

Wrapped(x) == ((x + SignBit) % (2 * SignBit)) - SignBit

\* Go's a % n for n > 0: the quotient is rounded towards zero.
Remainder(a, n) == IF a >= 0 THEN a % n ELSE -((-a) % n)

\* The loop over the characters: the value of h after each of them.
Hashes(s) ==
  LET h[n \in 0..Len(s)] == IF n = 0 THEN 0 ELSE Wrapped(31 * h[n - 1] + s[n])
  IN h

HashString(s) ==
  LET h == Hashes(s)[Len(s)]
  IN IF h < 0 THEN Wrapped(-h) ELSE h

GetShardForID(s) ==
  LET shard == Remainder(HashString(s), NumShards)
  IN IF shard < 0 THEN shard + NumShards ELSE shard

\* fmt.Sprintf("doc-%d", n)
Digits(n) ==
  LET d[i \in 0..n] ==
        IF i < 10 THEN <<48 + i>> ELSE Append(d[i \div 10], 48 + (i % 10))
  IN d[n]
DocID(n) == <<100, 111, 99, 45>> \o Digits(n)
=============================================================================
