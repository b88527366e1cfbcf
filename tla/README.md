# Verification of article_db

article_db stores news articles with embedding vectors and answers nearest
neighbour queries. This directory holds TLA+ models of its storage, replication
and query paths, the TLC instances that check them, and theorems checked by
TLAPS. Paths below are relative to the repository (`src/`).

## 1. The system

```
REPL ── Coordinator ──┬── shardRoute 0 ──► primary Server ──► Node (table + index)
                      │        └ reads on failure ─► replica Server ──► Node
                      ├── shardRoute 1 ──► ...                ▲
                      └── ...         primary forwards writes ┘
```

| Component | State | Operations | What makes it correct |
|---|---|---|---|
| `SQLiteStore` (`internal/storage/sqlite.go`) | one table, key `id` | Insert (fails on a taken key), Get, Delete (succeeds on an absent key), GetAll | each access atomic, survives a crash |
| `VectorIndex` (`internal/index`): brute force and HNSW | live entries; HNSW also tombstones, `idMap` and the graph; the vector dimension | Insert (fixes or checks the dimension, refuses empty and zero vectors), Delete, Search | holds exactly the stored articles; all entries of one length, because the scoring loop does not check it |
| `shard.Node` (`internal/shard/node.go`) | a table and an index | InsertArticle, DeleteArticle, GetArticle, ListArticles, SearchSimilar, hydration at start | table and index agree; a row it accepts can be hydrated |
| `shardpb.Server` (`internal/shardpb/server.go`) | a Node, the client of its replica | Insert and Delete, forwarded by the primary and rolled back if the replica fails; Get, Search, List | an acknowledged write is on both nodes; the nodes agree |
| shard process (`cmd/shard/main.go`) | a Server | start, graceful stop, crash | every handler returns |
| `shardRoute` and `Client` (`route.go`, `client.go`) | two clients | writes to the primary, reads with failover | a read misses nothing that was acknowledged |
| `Coordinator` (`coordinator.go`) | id counter, routes | start, Insert, Delete, Get, List, Query | ids do not clash, Get looks where Insert stored, a query returns the global top k |
| `ShardMap` (`models/shard.go`) | number of shards | GetShardForID | every id has one shard, which exists, whatever the hash overflows to |
| embedding client (`embedding/client.go`) | none | EmbedBatch, Embed | one vector for each text, the right one, or an error |
| configuration (`internal/config`) | the environment | Load | the environment before the file before defaults |
| REPL (`cmd/coordinator/main.go`) | the command under way | insert, delete, query, get, list, quit | what it prints stays true; every command ends with nothing left running |
| article fetching (`article/article.go`) | none | Fetch, Summarize | a page or an error |

Interactions: the coordinator calls shards in its own process (default) or over
gRPC; the primary's handler calls the replica's server while its own caller
waits; every gRPC call has its own goroutine; the processes share nothing but
messages; a Node's callers share its table and index.

What is hard here: no lock spans table and index, so calls interleave between
the two; a write spans two processes and is undone by a second write when the
second process fails, while other calls run; a lost reply looks like a failure;
the table survives a crash and the index does not; reads change nodes halfway;
a query looks at its shards at different times; the links of the HNSW graph
depend on the order of arrival, and pruning takes links away that an earlier
insert relied on; a command may fail after any of its parts. The full list, line
by line, is under `hazards` in `PROJECT.json`.

## 2. Modules

| Module | Models | Extends |
|---|---|---|
| `ShardNode` | one process: Node, table, index; crash, stop, restart | |
| `ReplicatedShard` | the write handlers of a primary and its replica | `ShardNode` |
| `ShardStore` | abstract: one table, atomic calls | |
| `ShardReads` | reads with failover next to the writes | `ReplicatedShard` |
| `ShardMap` | the hash on ints of any width, and the shard of an id | |
| `Coordinator` | the in-process coordinator over several nodes | `ShardNode`, `ShardMap` |
| `Embedding` | the embedding client: an operator on what the API answers | |
| `Config` | the environment, the `.env` file, defaults: operators | |
| `Session` | the REPL with its commands, over all of the above | `Coordinator`, `Embedding`, `Config` |
| `VectorIndex` | abstract: what a node sees of its index | |
| `HNSWGraph` | the HNSW graph, shown to implement `VectorIndex` | |
| `RecursionProofs` | lemmas: loops written as recursive functions have values | |
| `ShardNodeProofs` | theorems about one process: types and dimensions; index and table | `ShardNode` |
| `ReplicatedShardProofs`, `ShardReadsProofs` | theorems about the pair and its reads | `ReplicatedShard`, `ShardReads` |
| `ShardAtomicProofs` | that the pair, called one call at a time, implements `ShardStore` | `ReplicatedShard` |
| `CoordinatorProofs` | theorems about routes, ids and queries | `Coordinator`, `RecursionProofs` |
| `SessionProofs` | theorems about the REPL, and that it implements `Coordinator` | `Session` |
| `HNSWGraphProofs` | theorems about the graph, and that it implements `VectorIndex` | `HNSWGraph`, `RecursionProofs` |
| `MCShardNode`, `MCReplicatedShard`, `MCShardReads`, `MCCoordinator`, `MCSession`, `MCHNSWGraph` | instances for TLC | the module they name |

**ShardNode.** A call is a *frame*: a program counter in `InsertArticle`
(`store_insert`, `index_insert`, `undo_insert`) or `DeleteArticle` (`store_get`,
`store_delete`, `index_delete`), one action per access to the table or the
index, because each access holds a lock of its own and nothing holds one across
them. `store` is the table. The index is seen through its interface:
`live[n][id]` is the sequence of live entries of an id (there can be several),
`indexed[n][id]` says whether `Delete(id)` finds one, `dim` is the dimension.
`IndexKind` selects between HNSW, whose `idMap` names only the newest entry and
whose Delete forgets the name, and brute force, whose Delete takes the oldest.
`Crash` loses everything but the table; `Stop` is `GracefulStop`, which waits
for the handlers; `Restart` is `NewNode`, which indexes all rows and fails if the
index refuses one. An SQL error is a choice of the environment, at most
`MaxStoreErrors` times.

**ReplicatedShard.** `stage[c]` is where the primary's handler of call `c`
stands: `lookup` (Delete's first read), `local`, `forward`, `remote`, `rollback`.
Node methods run as ShardNode frames on the node concerned, so all handlers
interleave at the granularity of table and index accesses. `ReplicaUnreachable`
covers the failed dial, the failed RPC before, during and after the replica's
work, and the cancellation when the caller has gone; the replica's frame runs on.
`CallerDisconnects` gives the caller an error while the handler runs on. When
the primary dies its handlers die and their callers get an error. At most
`MaxLost` connections break. `last` and `alone` are history variables used only
by properties. `Serial = TRUE` makes the caller wait for each answer, as the
REPL does; `FALSE` allows several callers.

**ShardStore** is what a shard promises a caller who waits: each call applies at
one moment between call and answer and entirely, or not at all. It is
implemented without faults and one call at a time. The mapping: the abstract
table is the replica's, without a row whose indexing is still undecided; a call
is applied once the replica has indexed or deleted it.

**ShardReads.** `read[r]` is one `readWithFailover`: Get and List are one SELECT;
Search takes the hits of the index in one step and loads each row in another,
and a hit whose row is gone is dropped. Unavailable (process down, process died
during the read, connection broken) restarts the read at the replica; an
internal error does not. `must` and `gone` are history: what the answers given
before the read oblige it to return, and not to return.

**Coordinator.** Nodes are numbered 0 to `NumShards - 1` and live and die with
the process. `StartProcess`, one `OpenShard` per node in order and
`InitDocIDCounter` are `NewCoordinator`; `StartFails` is each of its error
returns, which close what is open. `Insert` takes the next id and enters the
node the id hashes to. A query has one `part` per shard, stepping on its own;
`Merge` waits for all, then returns the first error or the k best results, one
per id. `calm` and `expect` are history.

**ShardMap.** A string is its character codes; `HashString` is the loop over
them (`Hashes`, whose values wrap at `SignBit`, 2^63 in the program) and the
negation at the end, which leaves the smallest int as it is. `Coordinator` routes
document n by the digits of `doc-n`.

**Session.** `repl` is the command under way and how far it is. insert is
`InsertCommand`, `Fetch`, `EmbedArticle` (which enters the coordinator),
the coordinator's own steps (`Working`) and `InsertAnswered`; query and delete
are cut the same way, get and list change nothing. `Start` loads the
configuration, so each start may use another embedding model, whose vectors have
another length; `Opening` is `NewCoordinator`; `QuitCommand` and `Killed` end
the process. The API's answer is any sequence of up to two items, of an index
asked for or not, or no usable response. An item has a vector of the length of
any model, not only of the configured one, of norm zero or not, or none: the
client refuses empty vectors only. `DimOf` is what the index makes of a vector.
`told` is history: what was printed of an id, until the next command on it.

**HNSWGraph.** The mutex makes Insert, Delete and SetEfSearch one action each;
Search is an operator. `nodes` is the slice, with `links[lc]` the neighbours of
a node in layer `lc`. The functions of the code are the operators of the same
name: `GreedyClosest` walks one layer, `SearchLayer` is the best-first search
with its two heaps, `SelectNeighbors` the selection heuristic, `ConnectLayer`
one round of Insert's loop with the links back and their pruning. A loop is a
function of its state: `Expand` is one round of `SearchLayer`, `Consider` one of
`SelectNeighbors`. Levels are drawn at will. `VectorIndex` keeps for one index
the three variables `live`, `indexed` and `dim` that `ShardNode` keeps for each
node; the mapping takes them from the nodes that are no tombstones, `idMap` and
`dimension`.

### Abstractions

An article is a record of the id it is stored under, the dimension of its vector
and, where it matters, a revision that tells contents apart. Dimension 0 stands
for a vector every index refuses (empty or norm zero). Similarities are a
constant function with ties. Outside `HNSWGraph` search is exact; `SearchIsExact`
says when that is so. In `HNSWGraph` no two nodes are equally similar to a third
vector, so the order of lists and heaps has no effect and both are sets; M is at
least 2, since with 1 the code divides by log 1. In `ShardReads` k is never the
limit. SQL errors surface at Exec, Query or Scan (`GetAll` does not look at
`rows.Err()`, which is listed as a hazard). A `.env` file is its definitions in
order; the base URL is left out. So are text, time stamps and message encoding.

## 3. Runs

| Run | Instance | Checks |
|---|---|---|
| `node_concurrent` | 3 concurrent calls, 2 ids, dimensions 2, 3 and 0, HNSW, 1 crash, 1 SQL error | `NodeTypeOK`, `SameDimension`, `InsertedIsSearchable` |
| `shard_faults` | 2 concurrent calls on one id, 2 crashes, 1 SQL error, 1 broken connection, fair | `TypeOK`, `AckedInsertIsDurable`, `LastWordCounts`, `DeletesConverge`, `HandlersGoOn`, `CallsAdvance`, `EveryCallReturns` |
| `shard_atomic` | 3 serial calls, 2 ids, 2 dimensions, stops and restarts, no faults | `ExactCopy`, `IndexMirrorsTable`, `AtomicStore` (refinement) |
| `shard_reads` | 2 concurrent writes and a read, 1 crash, 1 SQL error, 1 broken connection | `ReadsTypeOK`, `ReadsSeeAcknowledged`, `ReadsForgetDeleted` |
| `coord_ids_and_queries` | 3 concurrent calls and 2 queries, one of norm zero, 2 shards, 3 ids, 2 dimensions, k = 1 with a tie, 1 crash, 1 SQL error | `TypeOK`, `FreshIds`, `GetFindsInserted`, `QueryReturnsTopK` |
| `hnsw_graph` | up to 6 of 7 vectors in any order, 3 ids, M = 2, 2 layers with 2 nodes above the lowest, ef 5 or 1, k = 2, 1 tombstone | `TypeOK`, `LinksSound`, `SearchIsExact`, `SearchFills`, `IsVectorIndex` (refinement) |
| `repl_session` | 3 writing commands and a query, 2 shards, 2 embedding models, vectors of two lengths or norm zero, 1 crash, 1 SQL error, fair | `SessionTypeOK`, `WordsHold`, `ShardsCanReopen`, `PromptIsQuiet`, `EveryCommandEnds` |
| `node_crash_window` | as `node_concurrent`, brute force | `CanRestart` is violated |
| `node_lost_entry_hnsw` | 3 concurrent calls, 2 ids, dimensions 2, 3 and 0, no faults | `StoredIsSearchable` is violated |
| `hnsw_unreachable` | 6 vectors, M = 2, one layer | `WellFormed` is violated |
| `shard_crossed` | 3 concurrent calls, no faults | `ExactCopy` is violated |
| `shard_wedged` | 3 serial calls, two embedding models, no faults | `WritesPossible` is violated |

What the passing runs show:

- An acknowledged insert whose id nobody asks to delete is on both nodes for
  good, although every failed write is undone by id and might hit the row of
  another call. It does not: while a row of an acknowledged insert is there,
  other inserts of its id fail on the primary's table and start no undo.
- The last call on an id decides what both nodes hold if it was acknowledged and
  overlapped by no other, whatever is left of earlier half-done calls. An
  unacknowledged delete does so too once the replica has answered it, unless a
  connection broke.
- In one node such an article is also searchable, and after any history of
  crashes and refusals all live entries have one dimension.
- Failover does not weaken this: a read answered by either node returns what was
  acknowledged. For a search this needs an insert nothing overlapped: the undo
  of a concurrent insert of the same id can remove the new index entry.
- Without faults and one call at a time a shard is an atomic table.
- Every call is answered after at most 15 steps of its own, none of which takes it
  back, and leaves nothing running.
- The coordinator's ids clash with no stored or pending id, and an undisturbed
  query is answered with a global top k.
- What the REPL prints of an article holds until the next command on its id,
  through crashes, failing statements and restarts with another model; every
  command ends, and nothing of it runs on when the prompt is back.
- Whatever vectors the embedding API sends, at every prompt the shards could be
  opened again from their tables, unless an undo has failed. While the command
  runs this is not so: its row may be one no index takes, as in
  `node_crash_window`.
- As long as no neighbour list can overflow (2M + 1 inserts, 33 with the default
  M) and ef covers the index, HNSW search is exact, whatever the order of
  arrival and whatever was deleted; with a smaller ef each tombstone costs at
  most one result. Beyond that size it is approximate, and `WellFormed` shows how.

The violated properties are statements of the README, a comment or a test that
the code does not keep (`findings` in `PROJECT.json`):

- `CanRestart`: the row is committed before the index has accepted the vector.
  A crash in between, with a vector the index refuses, leaves a row hydration
  fails on at every start.
- `StoredIsSearchable`: a delete reads the row of an insert that the index
  refuses and that is rolled back; a newer insert of the id is stored, indexed
  and acknowledged; the delete's last step removes its entry, the only one of the
  id. The article is stored and in no search result until a restart. (Had the
  first article been accepted, its entry would be left, and a search would return
  the new article under the old one's vector: `SearchSimilar` loads the row by
  id.)
- `WellFormed`: a new node whose only selected neighbour has a full list may be
  pruned from it at once. Nothing links to the new node then, and no search
  finds it, with any ef. With the default M it takes a neighbour with 32 others
  around it in different directions.
- `ExactCopy`: an insert and a delete of one id overlap; the delete reaches the
  replica first, finds nothing, and the insert is stored there only.
- `WritesPossible`: a node keeps the dimension of its index when the index
  becomes empty, and loses it in a restart. The two nodes of a shard can insist
  on different dimensions, and then refuse every insert.

### Bounds

Two calls on one id are all that is needed for each kind of overlap (insert with
insert, insert with delete, delete with delete), and the third call of the runs
without faults lets their remains meet a later one. One crash reaches every
window between two steps, two crashes both nodes or a node twice. One broken
connection hits the forwarded RPC, the caller or the read. Two dimensions
suffice for every disagreement; two shards for routing and merging; three ids
let one shard hold two articles while k is 1. `ShardReads` was also checked with
three calls and no faults. Calls are interchangeable, so the runs of invariants
alone use their symmetry; those with liveness or a refinement do not.

In `hnsw_graph` `MaxNodes` = 6 is one more than `SmallIndex` = 5, so every list of
layer 0 can fill, and the sixth insert prunes; layer 1, with its cap of M = 2, is
bounded by `MaxTall`. The vectors are a hub and satellites in different
directions, the shape where selection and pruning differ from the nearest
neighbours; the seventh has another dimension. `MaxLevel` bounds the levels,
`MaxTombstones` the deletions; two vectors share an id, so one can be inserted
twice. `EfConstruction` = 3 is less than the number of nodes, so Insert sees a
part of the graph. A search keeps 5 candidates, or k = 2 when `efSearch` is 1;
the query is the satellite farthest from the others. That searches of a small
index are exact was checked at M = 2, so up to 5 nodes; section 4 proves
it for every M.

`SignBit` = 105 makes the hash of every id wrap, and that of doc-2 the smallest
int, whose remainder is negative and has to be corrected. In `repl_session` the
query gets a vector of the smaller model, whatever model is configured; queries
of norm zero are asked in `coord_ids_and_queries`.

`CHECK_DEADLOCK FALSE` stands where a process may really be unable to start
again (`node_crash_window` shows how) when nothing else is left to do, and where
the vectors to insert run out (`hnsw_graph`, `hnsw_unreachable`).

Every property of a passing run has a mutant in `PROJECT.json`: a small change
of a definition that a bug in the code would make, under which TLC finds that
property violated. Mutants are the definitions marked so in the modules.

### Fairness

`FairSpec` assumes weak fairness of each handler step and each Node step: the Go
scheduler runs a goroutine that can go on. Nothing else is assumed: no call,
fault, stop or restart has to happen. The handlers take no lock across an RPC,
so weak fairness is enough. `SessionSpec` assumes it of the parts of a command:
the HTTP clients have timeouts (15 seconds for the page, 30 for the API), so
`Fetch`, `EmbedArticle` and `EmbedQuery` end, and the goroutines of the
coordinator run. No command has to be given, and no process started again. One
assumption is hidden in the model: an RPC is answered or its connection breaks.
The code sets no deadline, so against a peer
that stays connected and silent a handler does wait for ever.

## 4. Proofs

The theorems hold for all values of the constants that satisfy the assumptions
the modules name:

- of a node: `ArticleAssumption` (articles are records with an id and a
  dimension, none is `Nil`), `IndexAssumption` (one of the two indexes),
  `BoundAssumption` (the bounds on faults are naturals), `SerialAssumption`;
- of the pair and its reads also `CallsAssumption`, `NodesAssumption` (a primary
  and a replica), `LostAssumption`;
- of the coordinator also `ShardMapAssumption` (a positive number of shards,
  which `NewCoordinator` checks), `ShardsAssumption`, `IdsAssumption`,
  `QueryAssumption` (k is positive, since `Coordinator.Query` refuses anything
  else at once; the length of a query is a natural, 0 for norm zero);
- of the REPL also `SessionAssumption` (it gives one command at a time) and
  `ModelAssumption` (the length of every model that can be configured is known);
- of the graph: `ConfigAssumption` (M is at least 2, ef positive),
  `EntriesAssumption`, `DimAssumption` (`vectorNorm` refuses empty vectors),
  `QueryAssumption`, `EfAssumption`, `BoundAssumption` (the bounds are naturals)
  and `SimilarityAssumption` (similarities are symmetric integers, and no two
  vectors are equally similar to a third, the module's abstraction).

| Theorem | States |
|---|---|
| `ShardNodeProofs!NodeTypeCorrect` | `NodeSpec => []NodeTypeOK` |
| `ShardNodeProofs!SearchStaysInRange` | `NodeSpec => []SameDimension` |
| `ShardNodeProofs!InsertedStaysSearchable` | `NodeSpec => []InsertedIsSearchable` |
| `ShardNodeProofs!SerialMirrorsTable` | `NodeSpec => []IndexMirrorsTable`, for `Serial` callers and without SQL errors |
| `ReplicatedShardProofs!TypeCorrect` | `Spec => []TypeOK` |
| `ReplicatedShardProofs!ShardSearchStaysInRange` | `Spec => []SameDimension` |
| `ReplicatedShardProofs!Durability` | `Spec => []AckedInsertIsDurable` |
| `ReplicatedShardProofs!LastWord` | `Spec => []LastWordCounts` |
| `ReplicatedShardProofs!DeletesDoConverge` | `Spec => []DeletesConverge` |
| `ReplicatedShardProofs!CallsTakeFewSteps` | `Spec => CallsAdvance` |
| `ReplicatedShardProofs!HandlersAreNeverLeft` | `Spec => []HandlersGoOn` |
| `ShardAtomicProofs!PairIsAtomic` | `Spec => AtomicStore`, when `CalledAlone` |
| `ShardAtomicProofs!ReplicaIsExactCopy` | `Spec => []ExactCopy`, when `CalledAlone` |
| `ShardAtomicProofs!PairMirrorsTable` | `Spec => []IndexMirrorsTable`, when `CalledAlone` |
| `ShardReadsProofs!ReadsTypeCorrect` | `ReadsSpec => []ReadsTypeOK` |
| `ShardReadsProofs!ReadsFindAcknowledged` | `ReadsSpec => []ReadsSeeAcknowledged` |
| `ShardReadsProofs!ReadsMissDeleted` | `ReadsSpec => []ReadsForgetDeleted` |
| `CoordinatorProofs!ShardInRange` | `GetShardForID(s) \in 0..(NumShards - 1)` for every sequence of integers s |
| `CoordinatorProofs!RouteExists` | `Route(id) \in Nodes` for every id |
| `CoordinatorProofs!CoordinatorTypeCorrect` | `Spec => []TypeOK` |
| `CoordinatorProofs!IdsStayFresh` | `Spec => []FreshIds` |
| `CoordinatorProofs!GetFinds` | `Spec => []GetFindsInserted` |
| `CoordinatorProofs!QueryIsTopK` | `Spec => []QueryReturnsTopK` |
| `SessionProofs!SessionIsCoordinator` | `SessionSpec => Spec` of `Coordinator` |
| `SessionProofs!SessionTypeCorrect` | `SessionSpec => []SessionTypeOK` |
| `SessionProofs!PromptStaysQuiet` | `SessionSpec => []PromptIsQuiet` |
| `SessionProofs!ShardsReopen` | `SessionSpec => []ShardsCanReopen` |
| `SessionProofs!WordsAreKept` | `SessionSpec => []WordsHold` |
| `HNSWGraphProofs!GraphTypeCorrect` | `Spec => []TypeOK` |
| `HNSWGraphProofs!GraphStaysSound` | `Spec => []LinksSound` |
| `HNSWGraphProofs!SearchIsExactWhileSmall` | `Spec => []SearchIsExact` |
| `HNSWGraphProofs!SearchFillsWhileSmall` | `Spec => []SearchFills` |
| `HNSWGraphProofs!GraphIsVectorIndex` | `Spec => IsVectorIndex` |

`CalledAlone` is `Serial` callers and no crash, SQL error or lost connection;
processes may still stop and start, and indexes refuse articles, so writes fail
and are rolled back. None of it can be dropped: `shard_crossed` shows concurrent
calls, and each of the faults can leave the tables apart for good.

No specification named here states fairness except `SessionSpec`, whose fairness
the proofs do not use. Each inductive invariant was checked with TLC on the
instance of the run that checks the property, before it was proved.

*Types of a node.* `NodeInv` adds three facts to the types: what a frame holds at
each program counter (`FrameOK`), that an index that would find an id has a live
entry of it (`IndexedIsLive`), and that a row is stored under its own id
(`RowsKeyed`). `SameDimension` needs the last one, because a restart indexes
rows by key. What a step of a Node method does to the tables and frames
(`MethodStepEffect`), and to the index (`MethodStepIndexEffect`), and the loss
of a process (`GoDownEffect`) are lemmas the developments built on a node cite.

*Index and table, concurrent calls.* An insert *owns* the row of its id from the
moment it has stored it until it has undone it (`Owner`). `SearchInv` says of
ids nobody asked to delete: an owner's article is the row; it is the only entry
of its id once the index has accepted it, and there is none before; a row has
one owner; and what is not in the table is not in the index. A row may be
without an owner, after a crash or an undo that failed; it keeps later inserts
of the id out, and has an entry only after a restart.

*Index and table, one call at a time.* `AloneInv`: on a node one call runs, the
index mirrors the table at every id no call is halfway through, and at the id
of a call that is, table and index differ by what the call has done
(`HalfDone`). An SQL error in the undo of an insert is the one way to leave the
two apart for good, hence the hypothesis `MaxStoreErrors = 0`. The coordinator's
queries and the REPL use the same invariant in weaker forms.

*Pair.* `AckedInsertIsDurable` is not inductive: it says nothing of the calls
that could still take the row away. `IInv` is `NodeInv` with `HandlerInv`, which
ties the stage of a handler to its frames and its request, and `OwnershipInv`.
As long as nobody has asked to delete the id, the owner's article is in the
table of the node and it is the only owner there (`OwnersRow`). An insert that
meets a row fails on it, owns nothing, and so neither forwards nor undoes
anything; and a handler undoes only what it owns. An acknowledged insert owns
its row on both nodes and its handler is done (`AckedOwns`), so nothing can take
the rows away.

*Last word.* `LastWordCounts` is about ids that are deleted too, where rows have
no owner to speak of. Its invariant `LastInv` speaks of a *lonely* call: the last
one on its id, with no other active when it started or since (`Lonely`,
`LonelyOnly`). From the moment a step of the lonely call decides on a node, the
row there is the article of its frame, or nothing if the frame has none
(`LonelyRow`): the remains of earlier calls can no longer touch it, and an undo
turns the frame into a delete before it runs. `DeletesMatch` and `AckedGone` say
that an acknowledged delete has decided on both nodes. `DeletesConverge` needs
the same of a delete that is not acknowledged, because the primary crashed after
the replica had answered. `ReachInv` gives it: while no connection has broken,
once the replica works on a delete the primary's part is done and stays done,
unless the replica fails.

*Calls end.* `StepsLeft` counts what a call still has to do, of its handler and of
the methods that run for it; it is at most 15 and falls with every step of the
call, a crash that interrupts it included (`CallsAdvance`). `HandlersGoOn` says
that what a handler waits for runs on a process that is up or has a result the
handler has a branch for. With `IInv` it is inductive: a delete is the only
method that ends with "not found" (`MethodMoves`), and the handler of an insert
has only inserts forwarded (`StagesMatch`). Together they are the safety half of
`EveryCallReturns`. The other half, that the scheduler lets an enabled step
happen, is fairness and stays with TLC.

*Pair, one call at a time.* `PairInv` says that at most one handler is at work
(`OneAtATime`), that the tables agree at every other id (`SameElsewhere`), that
both indexes satisfy `AloneInv`, and what the two rows of the id under way are at
each stage of the handler (`Progress`). The effect on `ShardStore` is the step in
which the replica's table takes or loses the row; what the primary does before
and after it, and every rollback, are steps that change no abstract state. The
rollback of a delete is an insert the index could refuse. It does not: the row
taken out had an entry (`DeletesIndexed`), so it has the dimension of the index,
which deletions do not reset, and a primary at work on a call does not restart.
An SQL error there would lose the row, hence the hypothesis.

*Reads.* What a read owes was known when it started, from `Durability` or
`LastWord`, and has to stay so while other calls run. An article is *held* when
both tables and the index of each running node have it and the only calls at
work on its id are inserts that will fail on the row (`Held`); an id is *vacant*
when no table has it and the only calls at work on it are deletes that have not
looked yet (`Vacant`); an acknowledged insert of an id nobody asked to delete
(`Kept`) is enough for a read of the table. `HeldStays`, `VacantStays` and
`KeptStays` take these through every step of the writes, crashes and restarts;
the history variables give an obligation up when a call on its id could end it.
`HitsHold` says that a search has found what it owes or has it among the hits it
is still to load, on whichever node it runs. As the reads change nothing the
writes depend on, `IInv` and `LastInv` carry over.

*Loops.* The models write a loop of the code as a recursive function, of which
nothing is known until a function with its equation exists. `RecursionProofs`
gives one for the shapes that occur: a loop until a condition holds, when a
number falls with every round (`LoopExists`), and a loop up or down a range
(`CountUp`, `CountDown`). With each comes the induction that carries an invariant
to the result (`LoopEnds`, `CountUpInvariant`, `CountDownInvariant`). All rest on
`SetInduction`, induction for a set, from the well-foundedness of < on the
naturals.

*Shard map.* `HashesAreInts` takes an int through the loop over the characters.
`RemainderBounds` puts Go's remainder strictly between -NumShards and NumShards,
and the last correction brings it into range. `DocIDIsString` does the same for
the digits of a number, so that `RouteExists` holds of the coordinator.

*Coordinator.* `CoordInv` says how far start-up is (`PhaseOK`), that rows and
frames are on the shard of their id (`RoutedOK`), that the counter is no less
than any id stored or under way (`CounterAhead`), and that no two calls insert
one id (`FreshInv`). `MaxIsLargest` gives the counter its value after a start.
`GetFinds` follows with `SearchInv`, which holds of every shard.

*Query.* While the coordinator is `calm` its shards satisfy `AloneInv`; a part of a
query nothing overlaps then finds the K best rows of its shard, or an error
(`QueryOK`). `TopOfTops` is the mathematics of the merge: the k best of the
shards' k best are k best of everything. `MergeOfGets` shows that merging by id
drops nothing else.

*Session.* Each step of the REPL is one of the coordinator's or leaves it alone
(`SessionStep`), so `SessionIsCoordinator` is a refinement with the identity as
its mapping, and `FullInv`, the invariant of the coordinator, holds in every
session. `ReplOK` ties the loop to what is running, `CallsOK` says that calls are
made in order and only the last one runs. Without the hypothesis that SQL
statements succeed a row may lack its entry; `RestFaint` says that this is the
only difference there can be. What was printed is about ids at rest
(`ToldAtRest`), and an answer is true when it arrives (`LastOutcome`). While the
coordinator is `calm` its indexes mirror their tables at the prompt (`AloneInv`),
and a row with an entry has the dimension of its index, which is not 0, so a
start would index it again (`QuietIsHydratable`).

*Graph.* Of the loops: a greedy walk and a search of a layer stay in any part of
it that no link leaves (`GreedyStays`, `SearchStays`), a search that found less
than ef nodes has seen all it could reach (`SearchCovers`), and the selection
takes at least one candidate and at most m (`SelectionIs`). The walks end because
each step is to a better node, the search because each round takes a candidate
off the heap and puts on only nodes not seen before (`ExpandShrinks`).
`ConnectLayerIs` and `ConnectIs` are the rounds of Insert: the new node itself
has no links to it in the layers still to come, so no walk lands on it, and it
never becomes its own neighbour. `HNSWInv` says that the graph is sound
(`Graph`), that the entry point is on the top layer (`Rooted`), that an id Delete
knows is that of its newest node, a live one (`NewestNamed`), and that a small
index is in one piece (`InOnePiece`): the only nonempty set of nodes that layer 0
does not lead out of is the whole. It stays so because no list overflows, so
links are only added, and the new node is linked to some node both ways
(`TogetherGrows`). With `SearchCovers` a search of such an index finds ef nodes
or all. `InsertAddsEntry` and `DeleteDropsEntry` are the refinement: relinking
changes no entry, and since none of its id comes after it, the marked node is the
last entry.

Only model-checked:

- `EveryCallReturns` and `EveryCommandEnds`: liveness is outside the prover. Of the
  first `CallsAdvance` and `HandlersGoOn` are proved, so that only
  the use of fairness is left to TLC.
- What `Embedding` and `Config` compute, beyond what `SessionProofs` uses.

## 5. Not modelled

What a page is made into (a library extracts the text, `Summarize` cuts it),
conversions between structs and messages (field by field), generated gRPC code,
parsing and printing of the REPL, the flags and the dialling of remote shards,
and `src/config`, which nothing imports. None keeps state that a later call
reads.

In parts modelled: the coordinator's remote mode as a whole (its pieces, one
shard each, are `ReplicatedShard` and `ShardReads`); another number of shards on
a later start; equal similarities in the HNSW graph; floating point; a SELECT
cut short without an error; an RPC that is never answered.

## 6. Plan

In this order:

1. `RemoteCoordinator` over `ShardReads`: the id counter rebuilt from a list that
   failed over to the replica, and calls of the previous coordinator still
   running.
2. Another number of shards on a later start of `Coordinator`; a `GetAll` that
   ends early; equal similarities in `HNSWGraph`.
