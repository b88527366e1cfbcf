----------------------------- MODULE ShardReads -----------------------------
(***************************************************************************)
(* The read path of a replicated shard: Get, ListArticles and              *)
(* SearchSimilar go to the primary and, if it cannot be reached, once more *)
(* to the replica (internal/coordinator/route.go readWithFailover, the     *)
(* RemoteClient of client.go, the read handlers of shardpb/server.go and   *)
(* Node.SearchSimilar).  Reads run next to the writes of ReplicatedShard.  *)
(*                                                                         *)
(* Get and ListArticles are one SELECT.  SearchSimilar asks the index and  *)
(* then loads the row of every hit, one SELECT each, with no lock held in  *)
(* between.  The index is searched exactly and k is never the limit: the   *)
(* hits are all live entries.  A hit keeps the entry it was scored with.   *)
(***************************************************************************)
EXTENDS ReplicatedShard

CONSTANT Reads  \* the reads made; each is made once

VARIABLES
  read,   \* read[r]: what r asks for and how far it is
  hits,   \* hits[r]: index entries whose rows are still to be loaded
  found,  \* found[r]: loaded rows, each with the index entry that led to it
  answer, \* answer[r]: what the coordinator got back, "none" until then
  must,   \* must[r]: articles r has to return (history)
  gone    \* gone[r]: ids r must not return (history)

readVars == <<read, hits, found, answer, must, gone>>
allVars == <<vars, readVars>>

-----------------------------------------------------------------------------
NoRead == [op |-> "none", id |-> Nil, dim |-> 0, node |-> Primary, pc |-> "idle"]
ReadOps == {"get", "list", "search"}
ReadPc == {"idle", "ask", "load", "broken", "done"}

Dims == {a.dim : a \in Articles}
Hit == [row : Articles, entry : Articles]

Reading(r) == read[r].pc \in {"ask", "load", "broken"}
Wanted(r) == IF read[r].op = "get" THEN {read[r].id} ELSE Ids

LiveEntries(n) == UNION {ToSet(live[n][id]) : id \in Ids}

\* What the answered calls say about an id when r starts.  The last call on it
\* counts if nothing overlapped it.  An insert of an id nobody asked to delete
\* counts for reads of the table; the index may have lost its entry to the
\* rollback of another insert of the id.
Settles(c, id) == request[c].id = id /\ reply[c] = "ok" /\ last[id] = c /\ alone[c]
MustNow(op) ==
  {request[c].art : c \in {d \in Calls :
     /\ Acked(d, "insert")
     /\ \/ Settles(d, request[d].id)
        \/ op # "search" /\ NeverDeleted(request[d].id)}}
GoneNow == {id \in Ids : \E c \in Calls : request[c].op = "delete" /\ Settles(c, id)}

\* A call on id that starts while r runs may take effect before r looks.
NoteInsert(id) == gone' = [r \in Reads |-> IF Reading(r) THEN gone[r] \ {id} ELSE gone[r]]
NoteDelete(id) == must' = [r \in Reads |-> IF Reading(r) THEN {a \in must[r] : a.id # id}
                                                         ELSE must[r]]

-----------------------------------------------------------------------------
(* The coordinator and the handlers of the two nodes *)

AnswerRead(r, what, rows) ==
  /\ answer' = [answer EXCEPT ![r] = what]
  /\ found' = [found EXCEPT ![r] = rows]
  /\ hits' = [hits EXCEPT ![r] = {}]
  /\ read' = [read EXCEPT ![r].pc = "done"]
  /\ UNCHANGED <<must, gone>>

ReadStart(r, op, id, d) ==
  /\ read[r].pc = "idle"
  /\ Serial => /\ \A c \in Calls : stage[c] # "idle" => reply[c] # "none"
               /\ \A q \in Reads : ~Reading(q)
  /\ read' = [read EXCEPT ![r] =
       [op |-> op, id |-> id, dim |-> d, node |-> Primary, pc |-> "ask"]]
  /\ must' = [must EXCEPT ![r] = MustNow(op)]
  /\ gone' = [gone EXCEPT ![r] = GoneNow]
  /\ UNCHANGED <<vars, hits, found, answer>>

\* Get and ListArticles: one SELECT.
ReadTable(r) ==
  LET n == read[r].node IN
  /\ read[r].pc = "ask" /\ read[r].op \in {"get", "list"}
  /\ up[n]
  /\ AnswerRead(r, "ok", {[row |-> a, entry |-> a] :
                            a \in {store[n][id] : id \in Wanted(r)} \ {Nil}})
  /\ UNCHANGED vars

\* The index refuses a query of norm zero or of another length than its own.
\* HNSW keeps insisting on its dimension when only tombstones are left.
QueryRefused(n, d) ==
  \/ d = 0
  \/ /\ d # dim[n]
     /\ IF IndexKind = "hnsw" THEN dim[n] # 0 ELSE LiveEntries(n) # {}

SearchIndex(r) ==
  LET n == read[r].node IN
  /\ read[r].pc = "ask" /\ read[r].op = "search"
  /\ up[n]
  /\ IF QueryRefused(n, read[r].dim)
     THEN AnswerRead(r, "error", {})
     ELSE /\ hits' = [hits EXCEPT ![r] = LiveEntries(n)]
          /\ read' = [read EXCEPT ![r].pc = "load"]
          /\ UNCHANGED <<found, answer, must, gone>>
  /\ UNCHANGED vars

\* Mutant: the row of a hit is taken to be there.
LoadHitUnchecked(r) ==
  /\ read[r].pc = "load"
  /\ \E h \in hits[r] :
       LET row == store[read[r].node][h.id] IN
       /\ hits' = [hits EXCEPT ![r] = @ \ {h}]
       /\ found' = [found EXCEPT ![r] = @ \cup {[row |-> row, entry |-> h]}]
  /\ UNCHANGED <<vars, read, answer, must, gone>>

\* A hit whose row is gone is dropped.
LoadHit(r) ==
  /\ read[r].pc = "load"
  /\ \E h \in hits[r] :
       LET row == store[read[r].node][h.id] IN
       /\ hits' = [hits EXCEPT ![r] = @ \ {h}]
       /\ found' = [found EXCEPT ![r] = IF row = Nil THEN @
                                        ELSE @ \cup {[row |-> row, entry |-> h]}]
  /\ UNCHANGED <<vars, read, answer, must, gone>>

SearchDone(r) ==
  /\ read[r].pc = "load" /\ hits[r] = {}
  /\ AnswerRead(r, "ok", found[r])
  /\ UNCHANGED vars

\* An error of the SQL driver comes back as Internal, which does not fail over.
ReadStoreError(r) ==
  /\ \/ read[r].pc = "ask" /\ read[r].op \in {"get", "list"} /\ up[read[r].node]
     \/ read[r].pc = "load" /\ hits[r] # {}
  /\ storeErrors < MaxStoreErrors
  /\ storeErrors' = storeErrors + 1
  /\ AnswerRead(r, "error", {})
  /\ UNCHANGED <<up, store, indexVars, frame, crashes, serverVars, historyVars, lost>>

\* Mutant: the client takes every error of Get for "not found".
UnreachableAsNotFound(r) ==
  /\ Reading(r)
  /\ \/ read[r].pc = "broken" /\ UNCHANGED lost
     \/ read[r].pc = "ask" /\ ~up[read[r].node] /\ UNCHANGED lost
     \/ read[r].pc # "broken" /\ up[read[r].node] /\ lost < MaxLost /\ lost' = lost + 1
  /\ AnswerRead(r, "ok", {})
  /\ UNCHANGED <<nodeVars, serverVars, historyVars>>

\* Unavailable from the primary sends the whole read to the replica, where it
\* starts again; from the replica it is the answer.
Unreachable(r) ==
  /\ Reading(r)
  /\ \/ read[r].pc = "broken" /\ UNCHANGED lost
     \/ read[r].pc = "ask" /\ ~up[read[r].node] /\ UNCHANGED lost
     \/ read[r].pc # "broken" /\ up[read[r].node] /\ lost < MaxLost /\ lost' = lost + 1
  /\ IF read[r].node = Primary
     THEN /\ read' = [read EXCEPT ![r].node = Replica, ![r].pc = "ask"]
          /\ hits' = [hits EXCEPT ![r] = {}]
          /\ found' = [found EXCEPT ![r] = {}]
          /\ UNCHANGED <<answer, must, gone>>
     ELSE AnswerRead(r, "error", {})
  /\ UNCHANGED <<nodeVars, serverVars, historyVars>>

ReadStep(r) ==
  \/ ReadTable(r)
  \/ SearchIndex(r)
  \/ LoadHit(r)
  \/ SearchDone(r)
  \/ ReadStoreError(r)
  \/ Unreachable(r)

-----------------------------------------------------------------------------
(* The writes of ReplicatedShard, next to the reads *)

NoReadPending == Serial => \A r \in Reads : ~Reading(r)

InsertNextToReads(c, a) ==
  /\ NoReadPending
  /\ ReceiveInsert(c, a)
  /\ NoteInsert(a.id)
  /\ UNCHANGED <<read, hits, found, answer, must>>

DeleteNextToReads(c, id) ==
  /\ NoReadPending
  /\ ReceiveDelete(c, id)
  /\ NoteDelete(id)
  /\ UNCHANGED <<read, hits, found, answer, gone>>

\* A crash breaks the searches that run on the node.
CrashUnderReads(n) ==
  /\ ProcessCrash(n)
  /\ read' = [r \in Reads |-> IF read[r].pc = "load" /\ read[r].node = n
                              THEN [read[r] EXCEPT !.pc = "broken"] ELSE read[r]]
  /\ UNCHANGED <<hits, found, answer, must, gone>>

\* GracefulStop lets the searches that run on the node finish.
StopAfterReads(n) ==
  /\ ProcessStop(n)
  /\ \A r \in Reads : ~(read[r].pc = "load" /\ read[r].node = n)
  /\ UNCHANGED readVars

WriteStep(c) ==
  /\ \/ HandlerStep(c)
     \/ \E n \in Nodes : NodeStep(n, c)
     \/ CallerDisconnects(c)
  /\ UNCHANGED readVars

ReadsInit ==
  /\ Init
  /\ read = [r \in Reads |-> NoRead]
  /\ hits = [r \in Reads |-> {}]
  /\ found = [r \in Reads |-> {}]
  /\ answer = [r \in Reads |-> "none"]
  /\ must = [r \in Reads |-> {}]
  /\ gone = [r \in Reads |-> {}]

ReadsNext ==
  \/ \E r \in Reads :
       \/ \E id \in Ids : ReadStart(r, "get", id, 0)
       \/ ReadStart(r, "list", Nil, 0)
       \/ \E d \in Dims : ReadStart(r, "search", Nil, d)
       \/ ReadStep(r)
  \/ \E c \in Calls :
       \/ \E a \in Articles : InsertNextToReads(c, a)
       \/ \E id \in Ids : DeleteNextToReads(c, id)
       \/ WriteStep(c)
  \/ \E n \in Nodes :
       \/ CrashUnderReads(n)
       \/ StopAfterReads(n)
       \/ ProcessRestart(n) /\ UNCHANGED readVars

ReadsSpec == ReadsInit /\ [][ReadsNext]_allVars

-----------------------------------------------------------------------------
(* Properties *)

ReadsTypeOK ==
  /\ read \in [Reads -> [op : {"none"} \cup ReadOps, id : Ids \cup {Nil},
                         dim : Dims \cup {0}, node : Nodes, pc : ReadPc]]
  /\ hits \in [Reads -> SUBSET Articles]
  /\ found \in [Reads -> SUBSET Hit]
  /\ answer \in [Reads -> {"none", "ok", "error"}]
  /\ must \in [Reads -> SUBSET Articles]
  /\ gone \in [Reads -> SUBSET Ids]

\* A read that is answered without an error returns every article it asks for
\* that was acknowledged before it started and that nobody asked to delete,
\* whether the primary answers or, after a failure at any point of the read,
\* the replica; a search returns it with the score of its own vector, unless
\* other calls overlapped the insert.
ReadsSeeAcknowledged ==
  \A r \in Reads : answer[r] = "ok" =>
    \A a \in must[r] : a.id \in Wanted(r) => [row |-> a, entry |-> a] \in found[r]

\* No answer contains an article whose acknowledged delete was the last call on
\* its id before the read started, if nothing overlapped that delete and nobody
\* inserts the id again: not from the table, and not from an index entry left
\* behind by earlier calls.
ReadsForgetDeleted ==
  \A r \in Reads : answer[r] = "ok" =>
    \A h \in found[r] : h.row.id \notin gone[r]
=============================================================================
