------------------------------ MODULE ShardNode ------------------------------
(***************************************************************************)
(* One process that holds a copy of a shard: shard.Node over a SQLite      *)
(* table and an in-memory vector index (internal/shard/node.go,            *)
(* internal/storage/sqlite.go, internal/index).                            *)
(*                                                                         *)
(* A call is served by a goroutine of its own, and Node takes no lock       *)
(* around the table and the index: InsertArticle writes the row and then   *)
(* the index, DeleteArticle reads the row, deletes it and then deletes the *)
(* index entry.  Every one of these accesses is a step of its own here, so *)
(* the steps of different calls interleave.  The table survives a crash,   *)
(* the index does not and is rebuilt from the table by NewNode.            *)
(*                                                                         *)
(* Abstractions.  An article is a record with the id it is stored under    *)
(* and the dimension of its vector, plus whatever tells its contents       *)
(* apart; dimension 0 stands for a vector the index refuses whatever its   *)
(* length (empty, or of norm zero).  The index is seen through its         *)
(* interface: which entries are live, in insertion order, and whether      *)
(* Delete(id) would find one.  An error of the SQL driver is a choice of   *)
(* the environment.                                                        *)
(***************************************************************************)
EXTENDS Naturals, Sequences, SequencesExt

CONSTANTS
  Nodes,           \* the processes
  Calls,           \* the calls made on them; each call is made once
  Ids,             \* article ids
  Articles,        \* the articles callers insert: records with id and dim
  Nil,             \* no article (a nil pointer, an absent row)
  IndexKind,       \* the index behind VectorIndex: "hnsw" or "brute"
  Serial,          \* TRUE: the caller waits for one answer before the next call
  MaxCrashes,      \* bound on the number of crashes
  MaxStoreErrors   \* bound on the number of SQL errors

ASSUME ArticleAssumption ==
  /\ \A a \in Articles : a.id \in Ids /\ a.dim \in Nat
  /\ Nil \notin Articles \cup Ids
ASSUME IndexAssumption == IndexKind \in {"hnsw", "brute"}
ASSUME BoundAssumption == MaxCrashes \in Nat /\ MaxStoreErrors \in Nat
ASSUME SerialAssumption == Serial \in BOOLEAN

VARIABLES
  up,          \* up[n]: the process runs
  store,       \* store[n][id]: the row of id in the articles table
  live,        \* live[n][id]: index entries of id not deleted, oldest first
  indexed,     \* indexed[n][id]: the index's Delete(id) would find an entry
  dim,         \* dim[n]: vector dimension the index insists on, 0 if unset
  frame,       \* frame[n][c]: where call c stands in a method of n's Node
  crashes,     \* crashes so far
  storeErrors  \* SQL errors so far

indexVars == <<live, indexed, dim>>
boundVars == <<crashes, storeErrors>>
nodeVars == <<up, store, live, indexed, dim, frame, crashes, storeErrors>>

-----------------------------------------------------------------------------
(* Frames: the progress of one call inside InsertArticle or DeleteArticle. *)

InsertPc == {"store_insert", "index_insert", "undo_insert"}
DeletePc == {"store_get", "store_delete", "index_delete"}
RunningPc == InsertPc \cup DeletePc
ResultPc == {"ok", "notfound", "failed"}

\* What InsertArticle and DeleteArticle are about to do, or what they returned.
Frame == [pc : {"idle"} \cup RunningPc \cup ResultPc,
          id : Ids \cup {Nil}, art : Articles \cup {Nil}]

IdleFrame == [pc |-> "idle", id |-> Nil, art |-> Nil]
InsertFrame(a) == [pc |-> "store_insert", id |-> a.id, art |-> a]
DeleteFrame(id) == [pc |-> "store_get", id |-> id, art |-> Nil]

Pc(n, c) == frame[n][c].pc
Row(n, c) == store[n][frame[n][c].id]
Running(n, c) == Pc(n, c) \in RunningPc
Quiet(n) == \A c \in Calls : ~Running(n, c)

Enter(n, c, f) == frame' = [frame EXCEPT ![n][c] = f]
Goto(n, c, pc) == frame' = [frame EXCEPT ![n][c].pc = pc]
SetRow(n, c, row) == store' = [store EXCEPT ![n][frame[n][c].id] = row]

-----------------------------------------------------------------------------
(* InsertArticle *)

\* Mutant: INSERT OR REPLACE.
StoreUpsert(n, c) ==
  /\ Pc(n, c) = "store_insert"
  /\ SetRow(n, c, frame[n][c].art) /\ Goto(n, c, "index_insert")
  /\ UNCHANGED <<up, indexVars, boundVars>>

\* INSERT INTO articles fails if the primary key is taken.
StoreInsert(n, c) ==
  /\ Pc(n, c) = "store_insert"
  /\ IF Row(n, c) = Nil
     THEN SetRow(n, c, frame[n][c].art) /\ Goto(n, c, "index_insert")
     ELSE Goto(n, c, "failed") /\ UNCHANGED store
  /\ UNCHANGED <<up, indexVars, boundVars>>

\* Mutant: no dimension check.
AcceptsAnyLength(n, a) == a.dim # 0

\* The first vector fixes the dimension of the index; vectorNorm refuses an
\* empty or zero vector before the dimension is looked at.
Accepts(n, a) == a.dim # 0 /\ dim[n] \in {0, a.dim}

\* Mutant: a row the index refuses is not taken out again.
IndexInsertKeepsRow(n, c) ==
  LET a == frame[n][c].art IN
  /\ Pc(n, c) = "index_insert"
  /\ IF Accepts(n, a)
     THEN /\ dim' = [dim EXCEPT ![n] = a.dim]
          /\ live' = [live EXCEPT ![n][a.id] = Append(@, a)]
          /\ indexed' = [indexed EXCEPT ![n][a.id] = TRUE]
          /\ Goto(n, c, "ok")
     ELSE Goto(n, c, "failed") /\ UNCHANGED indexVars
  /\ UNCHANGED <<up, store, boundVars>>

IndexInsert(n, c) ==
  LET a == frame[n][c].art IN
  /\ Pc(n, c) = "index_insert"
  /\ IF Accepts(n, a)
     THEN /\ dim' = [dim EXCEPT ![n] = a.dim]
          /\ live' = [live EXCEPT ![n][a.id] = Append(@, a)]
          /\ indexed' = [indexed EXCEPT ![n][a.id] = TRUE]
          /\ Goto(n, c, "ok")
     ELSE Goto(n, c, "undo_insert") /\ UNCHANGED indexVars
  /\ UNCHANGED <<up, store, boundVars>>

\* The index refused the vector: the row is taken out again, by id.
UndoInsert(n, c) ==
  /\ Pc(n, c) = "undo_insert"
  /\ SetRow(n, c, Nil)
  /\ Goto(n, c, "failed")
  /\ UNCHANGED <<up, indexVars, boundVars>>

-----------------------------------------------------------------------------
(* DeleteArticle *)

StoreGet(n, c) ==
  /\ Pc(n, c) = "store_get"
  /\ Goto(n, c, IF Row(n, c) = Nil THEN "notfound" ELSE "store_delete")
  /\ UNCHANGED <<up, store, indexVars, boundVars>>

\* Mutant: the index is not told.
StoreDeleteOnly(n, c) ==
  /\ Pc(n, c) = "store_delete"
  /\ SetRow(n, c, Nil)
  /\ Goto(n, c, "ok")
  /\ UNCHANGED <<up, indexVars, boundVars>>

\* DELETE succeeds whether or not the row is still there.
StoreDelete(n, c) ==
  /\ Pc(n, c) = "store_delete"
  /\ SetRow(n, c, Nil)
  /\ Goto(n, c, "index_delete")
  /\ UNCHANGED <<up, indexVars, boundVars>>

\* HNSW tombstones the node its idMap names, which is the last one inserted
\* under the id, and forgets the name; brute force removes the first record
\* with the id.
AfterDelete(s) == IF IndexKind = "hnsw" THEN Front(s) ELSE Tail(s)
StillIndexed(s) == IndexKind = "brute" /\ AfterDelete(s) # <<>>

\* An id the index does not know is an error whose text says "not found".
IndexDelete(n, c) ==
  LET id == frame[n][c].id IN
  /\ Pc(n, c) = "index_delete"
  /\ IF indexed[n][id]
     THEN /\ live' = [live EXCEPT ![n][id] = AfterDelete(@)]
          /\ indexed' = [indexed EXCEPT ![n][id] = StillIndexed(live[n][id])]
          /\ Goto(n, c, "ok")
     ELSE Goto(n, c, "notfound") /\ UNCHANGED <<live, indexed>>
  /\ UNCHANGED <<up, store, dim, boundVars>>

-----------------------------------------------------------------------------
(* Faults, shutdown and start *)

\* The SQL driver returns an error: the method returns it, and whatever the
\* earlier steps did stays done.
StoreError(n, c) ==
  /\ Pc(n, c) \in RunningPc \ {"index_insert", "index_delete"}
  /\ storeErrors < MaxStoreErrors
  /\ storeErrors' = storeErrors + 1
  /\ Goto(n, c, "failed")
  /\ UNCHANGED <<up, store, indexVars, crashes>>

\* Mutant: nobody tells the callers.
GoDownSilently(n) ==
  /\ up[n]
  /\ up' = [up EXCEPT ![n] = FALSE]
  /\ live' = [live EXCEPT ![n] = [id \in Ids |-> <<>>]]
  /\ indexed' = [indexed EXCEPT ![n] = [id \in Ids |-> FALSE]]
  /\ dim' = [dim EXCEPT ![n] = 0]
  /\ frame' = [frame EXCEPT ![n] = [c \in Calls |->
                 IF Running(n, c) THEN IdleFrame ELSE frame[n][c]]]
  /\ UNCHANGED store

\* The process is gone with its index and its goroutines; callers see an error.
GoDown(n) ==
  /\ up[n]
  /\ up' = [up EXCEPT ![n] = FALSE]
  /\ live' = [live EXCEPT ![n] = [id \in Ids |-> <<>>]]
  /\ indexed' = [indexed EXCEPT ![n] = [id \in Ids |-> FALSE]]
  /\ dim' = [dim EXCEPT ![n] = 0]
  /\ frame' = [frame EXCEPT ![n] = [c \in Calls |->
                 IF Running(n, c) THEN [frame[n][c] EXCEPT !.pc = "failed"]
                                  ELSE frame[n][c]]]
  /\ UNCHANGED store

Crash(n) ==
  /\ crashes < MaxCrashes
  /\ crashes' = crashes + 1
  /\ GoDown(n)
  /\ UNCHANGED storeErrors

\* SIGTERM: GracefulStop waits for the handlers, then main returns.
Stop(n) ==
  /\ Quiet(n)
  /\ GoDown(n)
  /\ UNCHANGED boundVars

\* hydrateIndex inserts every row; one the index refuses fails NewNode.
Rows(n) == {store[n][id] : id \in Ids} \ {Nil}
Hydratable(n) == \A a, b \in Rows(n) : a.dim # 0 /\ a.dim = b.dim
RowDim(n) == IF Rows(n) = {} THEN 0 ELSE (CHOOSE a \in Rows(n) : TRUE).dim

\* Mutant: hydration indexes absent rows too.
RestartLoadsAll(n) ==
  /\ ~up[n]
  /\ Hydratable(n)
  /\ up' = [up EXCEPT ![n] = TRUE]
  /\ live' = [live EXCEPT ![n] = [id \in Ids |-> <<store[n][id]>>]]
  /\ indexed' = [indexed EXCEPT ![n] = [id \in Ids |-> TRUE]]
  /\ dim' = [dim EXCEPT ![n] = RowDim(n)]
  /\ UNCHANGED <<store, frame, boundVars>>

Restart(n) ==
  /\ ~up[n]
  /\ Hydratable(n)
  /\ up' = [up EXCEPT ![n] = TRUE]
  /\ live' = [live EXCEPT ![n] = [id \in Ids |->
                IF store[n][id] = Nil THEN <<>> ELSE <<store[n][id]>>]]
  /\ indexed' = [indexed EXCEPT ![n] = [id \in Ids |-> store[n][id] # Nil]]
  /\ dim' = [dim EXCEPT ![n] = RowDim(n)]
  /\ UNCHANGED <<store, frame, boundVars>>

-----------------------------------------------------------------------------
(* The node on its own, called by LocalClient (the in-process coordinator, *)
(* which is serial) or by the gRPC server of an unreplicated shard.        *)

\* A call is made on one node, once.
CanStart(n, c) ==
  /\ up[n]
  /\ \A m \in Nodes : Pc(m, c) = "idle"
  /\ Serial => \A m \in Nodes : Quiet(m)

InsertArticle(n, c, a) ==
  /\ CanStart(n, c)
  /\ Enter(n, c, InsertFrame(a))
  /\ UNCHANGED <<up, store, indexVars, boundVars>>

DeleteArticle(n, c, id) ==
  /\ CanStart(n, c)
  /\ Enter(n, c, DeleteFrame(id))
  /\ UNCHANGED <<up, store, indexVars, boundVars>>

\* One step of call c inside Node n.
MethodStep(n, c) ==
  \/ StoreInsert(n, c)
  \/ IndexInsert(n, c)
  \/ UndoInsert(n, c)
  \/ StoreGet(n, c)
  \/ StoreDelete(n, c)
  \/ IndexDelete(n, c)
  \/ StoreError(n, c)

NodeInit ==
  /\ up = [n \in Nodes |-> TRUE]
  /\ store = [n \in Nodes |-> [id \in Ids |-> Nil]]
  /\ live = [n \in Nodes |-> [id \in Ids |-> <<>>]]
  /\ indexed = [n \in Nodes |-> [id \in Ids |-> FALSE]]
  /\ dim = [n \in Nodes |-> 0]
  /\ frame = [n \in Nodes |-> [c \in Calls |-> IdleFrame]]
  /\ crashes = 0
  /\ storeErrors = 0

NodeNext ==
  \E n \in Nodes :
    \/ \E c \in Calls, a \in Articles : InsertArticle(n, c, a)
    \/ \E c \in Calls, id \in Ids : DeleteArticle(n, c, id)
    \/ \E c \in Calls : MethodStep(n, c)
    \/ Crash(n)
    \/ Stop(n)
    \/ Restart(n)

NodeSpec == NodeInit /\ [][NodeNext]_nodeVars

-----------------------------------------------------------------------------
(* Properties *)

NodeTypeOK ==
  /\ up \in [Nodes -> BOOLEAN]
  /\ store \in [Nodes -> [Ids -> Articles \cup {Nil}]]
  /\ live \in [Nodes -> [Ids -> Seq(Articles)]]
  /\ indexed \in [Nodes -> [Ids -> BOOLEAN]]
  /\ dim \in [Nodes -> Nat]
  /\ frame \in [Nodes -> [Calls -> Frame]]
  /\ crashes \in 0..MaxCrashes
  /\ storeErrors \in 0..MaxStoreErrors

\* cosineSimilarity walks the query's components and indexes the entry's with
\* the same subscript, so it goes out of range on an entry of another length.
\* Search compares the query with the index's dimension only: every live
\* entry must have that dimension, through restarts and refused inserts.
SameDimension ==
  \A n \in Nodes, id \in Ids : \A i \in 1..Len(live[n][id]) :
    live[n][id][i].dim = dim[n] /\ dim[n] # 0

\* An article whose insert was acknowledged, and whose id nobody ever asked to
\* delete, is in the table, and in the index whenever the process runs: other
\* inserts of the id, refused inserts and their rollback, SQL errors, crashes
\* and restarts do not take it away.
DeleteAsked(n, id) == \E c \in Calls : frame[n][c].id = id /\ frame[n][c].art = Nil
InsertedIsSearchable ==
  \A n \in Nodes, c \in Calls :
    LET f == frame[n][c] IN
    f.pc = "ok" /\ f.art # Nil /\ ~DeleteAsked(n, f.id) =>
      /\ store[n][f.id] = f.art
      /\ up[n] => live[n][f.id] = <<f.art>> /\ indexed[n][f.id]

\* Between calls a running node's index holds exactly the table: what Search
\* can return is what Get would return, nothing missing and nothing stale.
IndexMirrorsTable ==
  \A n \in Nodes : up[n] /\ Quiet(n) =>
    \A id \in Ids :
      /\ live[n][id] = IF store[n][id] = Nil THEN <<>> ELSE <<store[n][id]>>
      /\ indexed[n][id] <=> store[n][id] # Nil

\* Between calls the table holds only rows that NewNode could load again.
\* (A row the index refuses is there only while its own insert is running.)
CanRestart == \A n \in Nodes : Quiet(n) => Hydratable(n)

\* Search returns the row of every id it hits, so once no call is in progress
\* every stored article is in reach of a search if its id has a live entry.
StoredIsSearchable ==
  \A n \in Nodes : up[n] /\ Quiet(n) =>
    \A id \in Ids : store[n][id] # Nil => live[n][id] # <<>>
=============================================================================
