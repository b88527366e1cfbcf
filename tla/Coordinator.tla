----------------------------- MODULE Coordinator -----------------------------
(***************************************************************************)
(* The coordinator in its default mode, with the shards in its own process *)
(* (internal/coordinator/coordinator.go over LocalClient): it hands out    *)
(* ids, routes every call to the shard the id hashes to, and answers a     *)
(* query by asking all shards at once and merging their results.  On start *)
(* NewCoordinator opens one Node per shard and takes the largest stored id *)
(* for its counter.  Nodes are those of ShardNode, numbered from 0; they   *)
(* start and die together.                                                 *)
(*                                                                         *)
(* Document doc-n is the number n.  The similarity of an article to the    *)
(* query is a constant function; equal similarities are ordered at will.   *)
(* The index is searched exactly.                                          *)
(***************************************************************************)
EXTENDS ShardNode, ShardMap, Integers, FiniteSetsExt

CONSTANTS
  Queries,    \* the queries made; each is made once
  K,          \* how many results a query asks for
  QueryDim,   \* QueryDim[q]: length of the vector of query q, 0 if its norm is zero
  Score       \* Score[a]: similarity of article a to the query

ASSUME ShardsAssumption == Nodes = 0..(NumShards - 1)
ASSUME IdsAssumption == Ids \subseteq Nat \ {0}
ASSUME QueryAssumption == /\ K \in Nat \ {0} /\ QueryDim \in [Queries -> Nat]
                          /\ Score \in [Articles -> Int]

VARIABLES
  phase,      \* "down", or how far NewCoordinator is, or "ready"
  nextDocID,  \* the last id handed out
  part,       \* part[q][n]: the goroutine that asks shard n for query q
  answer,     \* answer[q]: "none", "asked", "ok", "error"
  result,     \* result[q]: what Query returned
  calm,       \* history: since the start each call met indexes in order
  expect      \* history: expect[q]: what q has to choose from, while that holds

coordVars == <<phase, nextDocID, part, answer, result, calm, expect>>
vars == <<nodeVars, coordVars>>

-----------------------------------------------------------------------------
ShardOf == [id \in Ids |-> GetShardForID(DocID(id))]
Route(id) == ShardOf[id]

Hit == [row : Articles, entry : Articles]
IdlePart == [pc |-> "idle", hits |-> {}, out |-> {}]
LiveEntries(n) == UNION {ToSet(live[n][id]) : id \in Ids}
Stored == UNION {Rows(n) : n \in Nodes}

Asked(q) == answer[q] = "asked"
AllQuiet == \A n \in Nodes : Quiet(n)
Free == phase = "ready" /\ (Serial => AllQuiet /\ \A q \in Queries : ~Asked(q))

\* T is made of k best members of S (all of S if there are fewer).
IsTop(T, S, k, score) ==
  /\ T \subseteq S
  /\ Cardinality(T) = Min({k, Cardinality(S)})
  /\ \A x \in T, y \in S \ T : score[x] >= score[y]

-----------------------------------------------------------------------------
(* Start and end of the process *)

\* Every node, call and query of the process is gone.
ProcessGone ==
  /\ up' = [n \in Nodes |-> FALSE]
  /\ live' = [n \in Nodes |-> [id \in Ids |-> <<>>]]
  /\ indexed' = [n \in Nodes |-> [id \in Ids |-> FALSE]]
  /\ dim' = [n \in Nodes |-> 0]
  /\ frame' = [n \in Nodes |-> [c \in Calls |->
                 IF Running(n, c) THEN [frame[n][c] EXCEPT !.pc = "failed"]
                                  ELSE frame[n][c]]]
  /\ phase' = "down"
  /\ part' = [q \in Queries |-> [n \in Nodes |-> IdlePart]]
  /\ answer' = [q \in Queries |-> IF Asked(q) THEN "error" ELSE answer[q]]
  /\ UNCHANGED <<store, nextDocID, result, expect>>

ProcessDies ==
  /\ phase # "down"
  /\ crashes < MaxCrashes
  /\ crashes' = crashes + 1
  /\ ProcessGone
  /\ UNCHANGED <<storeErrors, calm>>

Quit ==
  /\ phase = "ready" /\ AllQuiet /\ \A q \in Queries : ~Asked(q)
  /\ ProcessGone
  /\ UNCHANGED <<boundVars, calm>>

StartProcess ==
  /\ phase = "down"
  /\ phase' = "opening"
  /\ calm' = TRUE
  /\ UNCHANGED <<nodeVars, nextDocID, part, answer, result, expect>>

\* NewNode, in the order of the shards.
OpenShard(n) ==
  /\ phase = "opening"
  /\ \A m \in Nodes : m < n => up[m]
  /\ Restart(n)
  /\ UNCHANGED coordVars

\* A shard does not hydrate, or a SELECT of hydration or of initDocIDCounter
\* fails: closeAll, and the process exits.
StartFails ==
  /\ phase = "opening"
  /\ \/ /\ \E n \in Nodes : ~up[n] /\ ~Hydratable(n) /\ \A m \in Nodes : m < n => up[m]
        /\ UNCHANGED storeErrors
     \/ /\ storeErrors < MaxStoreErrors
        /\ storeErrors' = storeErrors + 1
  /\ ProcessGone
  /\ UNCHANGED <<crashes, calm>>

\* Mutant: the number of articles instead of the largest id.
InitDocIDCounterCounts ==
  /\ phase = "opening"
  /\ \A n \in Nodes : up[n]
  /\ phase' = "ready"
  /\ nextDocID' = Cardinality(Stored)
  /\ UNCHANGED <<nodeVars, part, answer, result, calm, expect>>

\* The largest id any shard lists, 0 if there is none.
InitDocIDCounter ==
  /\ phase = "opening"
  /\ \A n \in Nodes : up[n]
  /\ phase' = "ready"
  /\ nextDocID' = Max({a.id : a \in Stored} \cup {0})
  /\ UNCHANGED <<nodeVars, part, answer, result, calm, expect>>

-----------------------------------------------------------------------------
(* Insert and Delete *)

\* A call that overlaps another one may leave an index out of step with its
\* table, and a query next to it may see any part of it.
NoteCall ==
  /\ calm' = (calm /\ AllQuiet)
  /\ expect' = [q \in Queries |-> IF Asked(q) THEN Nil ELSE expect[q]]

Unused(c) == \A n \in Nodes : Pc(n, c) = "idle"

\* Mutant: the article goes to the shard of the id before.
InsertPreviousRoute(c, d) ==
  LET a == [id |-> nextDocID + 1, dim |-> d] IN
  /\ Free /\ Unused(c)
  /\ a \in Articles
  /\ nextDocID' = nextDocID + 1
  /\ Enter(IF nextDocID = 0 THEN 0 ELSE Route(nextDocID), c, InsertFrame(a))
  /\ NoteCall
  /\ UNCHANGED <<up, store, indexVars, boundVars, phase, part, answer, result>>

\* The id is taken before the article is stored, and not given back.
Insert(c, d) ==
  LET a == [id |-> nextDocID + 1, dim |-> d] IN
  /\ Free /\ Unused(c)
  /\ a \in Articles
  /\ nextDocID' = nextDocID + 1
  /\ Enter(Route(a.id), c, InsertFrame(a))
  /\ NoteCall
  /\ UNCHANGED <<up, store, indexVars, boundVars, phase, part, answer, result>>

Delete(c, id) ==
  /\ Free /\ Unused(c)
  /\ Enter(Route(id), c, DeleteFrame(id))
  /\ NoteCall
  /\ UNCHANGED <<up, store, indexVars, boundVars, phase, nextDocID, part, answer, result>>

\* An undo that fails leaves a row the index does not have.
CallStep(n, c) ==
  /\ MethodStep(n, c)
  /\ calm' = (calm /\ ~(Pc(n, c) = "undo_insert" /\ storeErrors' # storeErrors))
  /\ UNCHANGED <<phase, nextDocID, part, answer, result, expect>>

-----------------------------------------------------------------------------
(* Query *)

QueryStart(q) ==
  /\ Free /\ answer[q] = "none"
  /\ answer' = [answer EXCEPT ![q] = "asked"]
  /\ part' = [part EXCEPT ![q] = [n \in Nodes |-> [IdlePart EXCEPT !.pc = "search"]]]
  /\ expect' = [expect EXCEPT ![q] = IF calm /\ AllQuiet THEN Stored ELSE Nil]
  /\ UNCHANGED <<nodeVars, phase, nextDocID, result, calm>>

\* vectorNorm, then the length, unless the index is empty.
QueryRefused(q, n) ==
  \/ QueryDim[q] = 0
  \/ /\ QueryDim[q] # dim[n]
     /\ IF IndexKind = "hnsw" THEN dim[n] # 0 ELSE LiveEntries(n) # {}

SearchIndex(q, n) ==
  /\ part[q][n].pc = "search"
  /\ IF QueryRefused(q, n)
     THEN part' = [part EXCEPT ![q][n].pc = "failed"]
     ELSE \E T \in SUBSET LiveEntries(n) :
            /\ IsTop(T, LiveEntries(n), K, Score)
            /\ part' = [part EXCEPT ![q][n].pc = "load", ![q][n].hits = T]
  /\ UNCHANGED <<nodeVars, phase, nextDocID, answer, result, calm, expect>>

LoadHit(q, n) ==
  /\ part[q][n].pc = "load"
  /\ \E h \in part[q][n].hits :
       LET row == store[n][h.id] IN
       part' = [part EXCEPT ![q][n].hits = @ \ {h},
                            ![q][n].out = IF row = Nil THEN @
                                          ELSE @ \cup {[row |-> row, entry |-> h]}]
  /\ UNCHANGED <<nodeVars, phase, nextDocID, answer, result, calm, expect>>

LoadError(q, n) ==
  /\ part[q][n].pc = "load" /\ part[q][n].hits # {}
  /\ storeErrors < MaxStoreErrors
  /\ storeErrors' = storeErrors + 1
  /\ part' = [part EXCEPT ![q][n] = [IdlePart EXCEPT !.pc = "failed"]]
  /\ UNCHANGED <<up, store, indexVars, frame, crashes,
                 phase, nextDocID, answer, result, calm, expect>>

SearchDone(q, n) ==
  /\ part[q][n].pc = "load" /\ part[q][n].hits = {}
  /\ part' = [part EXCEPT ![q][n].pc = "done"]
  /\ UNCHANGED <<nodeVars, phase, nextDocID, answer, result, calm, expect>>

\* B has one result per id of S, a best scored one.
BestPerID(B, S) ==
  /\ \A g \in S : \E h \in B : h.row.id = g.row.id /\ Score[h.entry] >= Score[g.entry]
  /\ \A g, h \in B : g.row.id = h.row.id => g = h

\* The K best of them.
Merged(T, S) == \E B \in SUBSET S : /\ BestPerID(B, S)
                                    /\ IsTop(T, B, K, [h \in B |-> Score[h.entry]])
Partials(q) == UNION {part[q][n].out : n \in Nodes}

\* Mutant: a goroutine that fails does not report to the wait group.
AllBackIfDone(q) == \A n \in Nodes : part[q][n].pc = "done"

AllBack(q) == \A n \in Nodes : part[q][n].pc \in {"done", "failed"}

\* Mutant: a shard that failed is left out of the result.
MergePartial(q) ==
  /\ Asked(q) /\ AllBack(q)
  /\ \E T \in SUBSET Partials(q) :
       /\ Merged(T, Partials(q))
       /\ result' = [result EXCEPT ![q] = T]
       /\ answer' = [answer EXCEPT ![q] = "ok"]
  /\ part' = [part EXCEPT ![q] = [n \in Nodes |-> IdlePart]]
  /\ UNCHANGED <<nodeVars, phase, nextDocID, calm, expect>>

\* Mutant: the first error is returned without waiting for the other shards.
MergeFirstError(q) ==
  /\ Asked(q)
  /\ \/ /\ \E n \in Nodes : part[q][n].pc = "failed"
        /\ answer' = [answer EXCEPT ![q] = "error"]
        /\ UNCHANGED <<result, part>>
     \/ /\ \A n \in Nodes : part[q][n].pc = "done"
        /\ \E T \in SUBSET Partials(q) :
             /\ Merged(T, Partials(q))
             /\ result' = [result EXCEPT ![q] = T]
             /\ answer' = [answer EXCEPT ![q] = "ok"]
        /\ part' = [part EXCEPT ![q] = [n \in Nodes |-> IdlePart]]
  /\ UNCHANGED <<nodeVars, phase, nextDocID, calm, expect>>

\* wg.Wait, then the first error, or mergeSearchResults.
Merge(q) ==
  /\ Asked(q) /\ AllBack(q)
  /\ IF \E n \in Nodes : part[q][n].pc = "failed"
     THEN answer' = [answer EXCEPT ![q] = "error"] /\ UNCHANGED result
     ELSE \E T \in SUBSET Partials(q) :
            /\ Merged(T, Partials(q))
            /\ result' = [result EXCEPT ![q] = T]
            /\ answer' = [answer EXCEPT ![q] = "ok"]
  /\ part' = [part EXCEPT ![q] = [n \in Nodes |-> IdlePart]]
  /\ UNCHANGED <<nodeVars, phase, nextDocID, calm, expect>>

QueryStep(q) ==
  \/ \E n \in Nodes : \/ SearchIndex(q, n)
                      \/ LoadHit(q, n)
                      \/ LoadError(q, n)
                      \/ SearchDone(q, n)
  \/ Merge(q)

-----------------------------------------------------------------------------
\* The first start, on an empty data directory, is over.
Init ==
  /\ NodeInit
  /\ phase = "ready"
  /\ nextDocID = 0
  /\ part = [q \in Queries |-> [n \in Nodes |-> IdlePart]]
  /\ answer = [q \in Queries |-> "none"]
  /\ result = [q \in Queries |-> {}]
  /\ calm = TRUE
  /\ expect = [q \in Queries |-> Nil]

Next ==
  \/ \E c \in Calls :
       \/ \E d \in {a.dim : a \in Articles} : Insert(c, d)
       \/ \E id \in Ids : Delete(c, id)
       \/ \E n \in Nodes : CallStep(n, c)
  \/ \E q \in Queries : QueryStart(q) \/ QueryStep(q)
  \/ \E n \in Nodes : OpenShard(n)
  \/ StartProcess \/ StartFails \/ InitDocIDCounter \/ ProcessDies \/ Quit

Spec == Init /\ [][Next]_vars

-----------------------------------------------------------------------------
(* Properties *)

TypeOK ==
  /\ NodeTypeOK
  /\ phase \in {"down", "opening", "ready"}
  /\ nextDocID \in Ids \cup {0}
  /\ part \in [Queries -> [Nodes -> [pc : {"idle", "search", "load", "done", "failed"},
                                     hits : SUBSET Articles, out : SUBSET Hit]]]
  /\ answer \in [Queries -> {"none", "asked", "ok", "error"}]
  /\ result \in [Queries -> SUBSET Hit]
  /\ calm \in BOOLEAN
  /\ expect \in [Queries -> (SUBSET Articles) \cup {Nil}]

\* The coordinator never hands out an id that is stored somewhere, nor one of a
\* call in progress: no INSERT it sends fails on the primary key, after any
\* number of crashes, restarts, deletes and refused inserts.
FreshIds ==
  \A n \in Nodes, c \in Calls :
    Running(n, c) /\ frame[n][c].art # Nil =>
      /\ \A d \in Calls \ {c}, m \in Nodes :
           ~(Running(m, d) /\ frame[m][d].art # Nil /\ frame[m][d].id = frame[n][c].id)
      /\ Pc(n, c) = "store_insert" => \A a \in Stored : a.id # frame[n][c].id

\* Get(id) finds the article Insert stored when it returned id, on the shard
\* it asks, until somebody asks to delete the id; no other shard has one.
GetArticle(id) == store[Route(id)][id]
GetFindsInserted ==
  \A n \in Nodes, c \in Calls :
    LET f == frame[n][c] IN
    f.pc = "ok" /\ f.art # Nil /\ (\A m \in Nodes : ~DeleteAsked(m, f.id)) =>
      GetArticle(f.id) = f.art /\ (\A a \in Stored : a.id = f.id => a = f.art)

\* A query that no call overlaps, on indexes no overlapping calls have put out
\* of step since the start, is answered with the K stored articles most
\* similar to it over all shards, each with its own score, or with an error.
QueryReturnsTopK ==
  \A q \in Queries :
    answer[q] = "ok" /\ expect[q] # Nil =>
      /\ \A h \in result[q] : h.row = h.entry
      /\ IsTop({h.row : h \in result[q]}, expect[q], K, Score)
=============================================================================
