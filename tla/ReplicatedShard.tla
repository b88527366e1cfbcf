--------------------------- MODULE ReplicatedShard ---------------------------
(***************************************************************************)
(* A shard kept on two processes: the gRPC server of the primary runs each *)
(* write on its own Node, forwards it to the replica's server and, if the  *)
(* replica did not do it, undoes it at home (internal/shardpb/server.go).  *)
(* The replica's server only runs the write on its Node.                   *)
(*                                                                         *)
(* A call is one RPC of the coordinator.  Its handler on the primary moves *)
(* through the stages of Server.Insert or Server.Delete; the Node methods  *)
(* it calls, at home and on the replica, are frames of ShardNode and step  *)
(* there, interleaved with those of every other call.                      *)
(*                                                                         *)
(* Faults.  The forwarded RPC may fail before it reaches the replica, while*)
(* the replica works on it, or after: the handler cannot tell, and the     *)
(* replica's handler runs on.  The connection from the coordinator may     *)
(* break: the caller sees an error, the primary's handler runs on and its  *)
(* forwarded RPC may be cancelled.                                         *)
(* Either process may crash and come back.                                 *)
(***************************************************************************)
EXTENDS ShardNode

CONSTANTS
  Primary, Replica,  \* the two processes
  MaxLost            \* bound on the number of broken connections

ASSUME CallsAssumption == Nil \notin Calls
ASSUME NodesAssumption == Nodes = {Primary, Replica} /\ Primary # Replica
ASSUME LostAssumption == MaxLost \in Nat

VARIABLES
  request,  \* request[c]: what the coordinator asked for
  stage,    \* stage[c]: where the primary's handler of c stands
  reply,    \* reply[c]: what the coordinator got back
  saved,    \* saved[c]: the row Server.Delete read before deleting it
  last,     \* last[id]: the call on id that started last
  alone,    \* alone[c]: no other call on c's id overlapped c so far
  lost      \* broken connections so far

serverVars == <<request, stage, reply, saved>>
\* last and alone are history: no step of the code depends on them.
historyVars == <<last, alone>>
vars == <<nodeVars, serverVars, historyVars, lost>>

-----------------------------------------------------------------------------
Stages == {"idle", "lookup", "local", "forward", "remote", "rollback", "done"}
BusyStages == Stages \ {"idle", "done"}
Replies == {"none", "ok", "notfound", "error"}

NoRequest == [op |-> "none", id |-> Nil, art |-> Nil]
InsertRequest(a) == [op |-> "insert", id |-> a.id, art |-> a]
DeleteRequest(id) == [op |-> "delete", id |-> id, art |-> Nil]
Request == [op : {"none", "insert", "delete"},
            id : Ids \cup {Nil}, art : Articles \cup {Nil}]

\* The frame in which a node runs a request.
FrameOf(r) == IF r.op = "insert" THEN InsertFrame(r.art) ELSE DeleteFrame(r.id)

Busy(c) == stage[c] \in BusyStages
\* Some process still works for c: its handler, or a replica left behind.
Active(c) == Busy(c) \/ Running(Primary, c) \/ Running(Replica, c)

\* The handler returns r; a coordinator that gave up does not see it.
Return(c, r) ==
  /\ stage' = [stage EXCEPT ![c] = "done"]
  /\ reply' = [reply EXCEPT ![c] = IF @ = "none" THEN r ELSE @]
  /\ UNCHANGED <<request, saved>>

Advance(c, s) ==
  /\ stage' = [stage EXCEPT ![c] = s]
  /\ UNCHANGED <<request, reply, saved>>

-----------------------------------------------------------------------------
(* The primary's handler *)

\* A coordinator that runs one command at a time waits for its answer.
CanCall(c) ==
  /\ stage[c] = "idle"
  /\ up[Primary]
  /\ Serial => \A d \in Calls : stage[d] # "idle" => reply[d] # "none"

NoteStart(c, id) ==
  LET others == {d \in Calls \ {c} : request[d].id = id /\ Active(d)} IN
  /\ last' = [last EXCEPT ![id] = c]
  /\ alone' = [d \in Calls |-> IF d = c THEN others = {}
                               ELSE alone[d] /\ d \notin others]

ReceiveInsert(c, a) ==
  /\ CanCall(c)
  /\ request' = [request EXCEPT ![c] = InsertRequest(a)]
  /\ stage' = [stage EXCEPT ![c] = "local"]
  /\ Enter(Primary, c, InsertFrame(a))
  /\ NoteStart(c, a.id)
  /\ UNCHANGED <<up, store, indexVars, boundVars, reply, saved, lost>>

\* Server.Delete on a primary with a replica first reads the row.
ReceiveDelete(c, id) ==
  /\ CanCall(c)
  /\ request' = [request EXCEPT ![c] = DeleteRequest(id)]
  /\ stage' = [stage EXCEPT ![c] = "lookup"]
  /\ NoteStart(c, id)
  /\ UNCHANGED <<nodeVars, reply, saved, lost>>

\* Mutant: deleting what is not there succeeds.
LookupIdempotent(c) ==
  LET row == store[Primary][request[c].id] IN
  /\ stage[c] = "lookup"
  /\ IF row = Nil
     THEN Return(c, "ok") /\ UNCHANGED frame
     ELSE /\ saved' = [saved EXCEPT ![c] = row]
          /\ stage' = [stage EXCEPT ![c] = "local"]
          /\ Enter(Primary, c, DeleteFrame(request[c].id))
          /\ UNCHANGED <<request, reply>>
  /\ UNCHANGED <<up, store, indexVars, boundVars, historyVars, lost>>

Lookup(c) ==
  LET row == store[Primary][request[c].id] IN
  /\ stage[c] = "lookup"
  /\ IF row = Nil
     THEN Return(c, "notfound") /\ UNCHANGED frame
     ELSE /\ saved' = [saved EXCEPT ![c] = row]
          /\ stage' = [stage EXCEPT ![c] = "local"]
          /\ Enter(Primary, c, DeleteFrame(request[c].id))
          /\ UNCHANGED <<request, reply>>
  /\ UNCHANGED <<up, store, indexVars, boundVars, historyVars, lost>>

LookupError(c) ==
  /\ stage[c] = "lookup"
  /\ storeErrors < MaxStoreErrors
  /\ storeErrors' = storeErrors + 1
  /\ Return(c, "error")
  /\ UNCHANGED <<up, store, indexVars, frame, crashes, historyVars, lost>>

\* Mutant: the node's error is passed on as it is.
LocalDoneRaw(c) ==
  LET r == Pc(Primary, c) IN
  /\ stage[c] = "local"
  /\ r \in ResultPc
  /\ IF r = "ok" THEN Advance(c, "forward") ELSE Return(c, r)
  /\ UNCHANGED <<nodeVars, historyVars, lost>>

\* The primary's own Node is done: go on to the replica, or give up.
\* isNotFound turns both kinds of "not found" error into NotFound.
LocalDone(c) ==
  LET r == Pc(Primary, c) IN
  /\ stage[c] = "local"
  /\ r \in ResultPc
  /\ CASE r = "ok" -> Advance(c, "forward")
       [] r = "notfound" -> Return(c, "notfound")
       [] r = "failed" -> Return(c, "error")
  /\ UNCHANGED <<nodeVars, historyVars, lost>>

\* The forwarded request reaches the replica, whose handler starts.
Forward(c) ==
  /\ stage[c] = "forward"
  /\ up[Replica]
  /\ Enter(Replica, c, FrameOf(request[c]))
  /\ Advance(c, "remote")
  /\ UNCHANGED <<up, store, indexVars, boundVars, historyVars, lost>>

\* Mutant: a replica that refuses the insert is taken to have the article.
RemoteDoneDuplicate(c) ==
  /\ stage[c] = "remote"
  /\ \/ Pc(Replica, c) = "ok"
     \/ Pc(Replica, c) = "notfound" /\ request[c].op = "delete"
     \/ Pc(Replica, c) = "failed" /\ request[c].op = "insert"
  /\ Return(c, "ok")
  /\ UNCHANGED <<nodeVars, historyVars, lost>>

\* The replica answered that the write is in place; for a delete, that the
\* article was not there counts too.
RemoteDone(c) ==
  /\ stage[c] = "remote"
  /\ \/ Pc(Replica, c) = "ok"
     \/ Pc(Replica, c) = "notfound" /\ request[c].op = "delete"
  /\ Return(c, "ok")
  /\ UNCHANGED <<nodeVars, historyVars, lost>>

\* Undo the primary's write: delete the article, or insert the saved row.
StartRollback(c) ==
  /\ Advance(c, "rollback")
  /\ Enter(Primary, c, IF request[c].op = "insert"
                       THEN DeleteFrame(request[c].id)
                       ELSE InsertFrame(saved[c]))
  /\ UNCHANGED <<up, store, indexVars, boundVars, historyVars>>

\* Mutant: a delete the replica could not do counts as done.
RemoteFailedDeleteOk(c) ==
  /\ stage[c] = "remote"
  /\ Pc(Replica, c) = "failed"
  /\ IF request[c].op = "delete"
     THEN Return(c, "ok") /\ UNCHANGED <<nodeVars, historyVars>>
     ELSE StartRollback(c)
  /\ UNCHANGED lost

\* Mutant: the error is returned without undoing the primary's write.
RemoteFailedNoRollback(c) ==
  /\ stage[c] = "remote"
  /\ Pc(Replica, c) = "failed"
  /\ Return(c, "error")
  /\ UNCHANGED <<nodeVars, historyVars, lost>>

\* Mutant: the handler of a delete waits for a replica that failed.
RemoteFailedInsertOnly(c) ==
  /\ stage[c] = "remote"
  /\ Pc(Replica, c) = "failed"
  /\ request[c].op = "insert"
  /\ StartRollback(c)
  /\ UNCHANGED lost

\* Mutant: an article the replica does not have fails the delete.
RemoteFailedNotFound(c) ==
  /\ stage[c] = "remote"
  /\ Pc(Replica, c) \in {"failed", "notfound"}
  /\ StartRollback(c)
  /\ UNCHANGED lost

RemoteFailed(c) ==
  /\ stage[c] = "remote"
  /\ Pc(Replica, c) = "failed"
  /\ StartRollback(c)
  /\ UNCHANGED lost

\* Mutant: a forwarded request that broke off is sent again.
ReplicaUnreachableResent(c) ==
  /\ stage[c] \in {"forward", "remote"}
  /\ \/ stage[c] = "forward" /\ ~up[Replica] /\ UNCHANGED lost
     \/ reply[c] # "none" /\ UNCHANGED lost
     \/ up[Replica] /\ lost < MaxLost /\ lost' = lost + 1
  /\ IF stage[c] = "remote"
     THEN Advance(c, "forward") /\ UNCHANGED <<nodeVars, historyVars>>
     ELSE StartRollback(c)

\* The dial or the RPC fails: the replica is down; or the caller is gone, which
\* cancels the context the RPC runs under; or the connection breaks.  Unless it
\* is down the replica may do the write all the same, before this or after.
\* (A reply lost because the replica crashed counts as a broken connection.)
ReplicaUnreachable(c) ==
  /\ stage[c] \in {"forward", "remote"}
  /\ \/ stage[c] = "forward" /\ ~up[Replica] /\ UNCHANGED lost
     \/ reply[c] # "none" /\ UNCHANGED lost
     \/ up[Replica] /\ lost < MaxLost /\ lost' = lost + 1
  /\ StartRollback(c)

\* Whether the rollback worked or not, the caller gets an error.
RollbackDone(c) ==
  /\ stage[c] = "rollback"
  /\ Pc(Primary, c) \in ResultPc
  /\ Return(c, "error")
  /\ UNCHANGED <<nodeVars, historyVars, lost>>

-----------------------------------------------------------------------------
(* The environment *)

\* The connection to the primary breaks; the handler does not notice.
CallerDisconnects(c) ==
  /\ Busy(c)
  /\ reply[c] = "none"
  /\ lost < MaxLost
  /\ lost' = lost + 1
  /\ reply' = [reply EXCEPT ![c] = "error"]
  /\ UNCHANGED <<nodeVars, request, stage, saved, historyVars>>

\* With the primary go the handlers it was running: their callers get Unavailable.
PrimaryHandlersDie ==
  /\ stage' = [c \in Calls |-> IF Busy(c) THEN "done" ELSE stage[c]]
  /\ reply' = [c \in Calls |-> IF Busy(c) /\ reply[c] = "none" THEN "error"
                                                             ELSE reply[c]]
  /\ UNCHANGED <<request, saved>>

ProcessCrash(n) ==
  /\ Crash(n)
  /\ IF n = Primary THEN PrimaryHandlersDie ELSE UNCHANGED serverVars
  /\ UNCHANGED <<historyVars, lost>>

\* GracefulStop lets the handlers of the stopped process finish.
ProcessStop(n) ==
  /\ Stop(n)
  /\ n = Primary => \A c \in Calls : ~Busy(c)
  /\ UNCHANGED <<serverVars, historyVars, lost>>

ProcessRestart(n) ==
  /\ Restart(n)
  /\ UNCHANGED <<serverVars, historyVars, lost>>

NodeStep(n, c) ==
  /\ MethodStep(n, c)
  /\ UNCHANGED <<serverVars, historyVars, lost>>

HandlerStep(c) ==
  \/ Lookup(c)
  \/ LookupError(c)
  \/ LocalDone(c)
  \/ Forward(c)
  \/ RemoteDone(c)
  \/ RemoteFailed(c)
  \/ ReplicaUnreachable(c)
  \/ RollbackDone(c)

Init ==
  /\ NodeInit
  /\ request = [c \in Calls |-> NoRequest]
  /\ stage = [c \in Calls |-> "idle"]
  /\ reply = [c \in Calls |-> "none"]
  /\ saved = [c \in Calls |-> Nil]
  /\ last = [id \in Ids |-> Nil]
  /\ alone = [c \in Calls |-> FALSE]
  /\ lost = 0

Next ==
  \/ \E c \in Calls :
       \/ \E a \in Articles : ReceiveInsert(c, a)
       \/ \E id \in Ids : ReceiveDelete(c, id)
       \/ HandlerStep(c)
       \/ \E n \in Nodes : NodeStep(n, c)
       \/ CallerDisconnects(c)
  \/ \E n \in Nodes : ProcessCrash(n) \/ ProcessStop(n) \/ ProcessRestart(n)

Spec == Init /\ [][Next]_vars

\* The Go scheduler runs every handler that can go on, on either process.  No
\* call, fault, stop or restart has to happen.
Fairness == \A c \in Calls :
  /\ WF_vars(HandlerStep(c))
  /\ \A n \in Nodes : WF_vars(NodeStep(n, c))
FairSpec == Spec /\ Fairness

-----------------------------------------------------------------------------
(* Properties *)

ServerTypeOK ==
  /\ request \in [Calls -> Request]
  /\ stage \in [Calls -> Stages]
  /\ reply \in [Calls -> Replies]
  /\ saved \in [Calls -> Articles \cup {Nil}]
  /\ last \in [Ids -> Calls \cup {Nil}]
  /\ alone \in [Calls -> BOOLEAN]
  /\ lost \in 0..MaxLost

TypeOK == NodeTypeOK /\ ServerTypeOK

Copy(a) == \A n \in Nodes : store[n][a.id] = a
NoCopy(id) == \A n \in Nodes : store[n][id] = Nil
Acked(c, op) == request[c].op = op /\ reply[c] = "ok"

\* "The coordinator returns success only after both writes succeed", and what
\* was acknowledged stays: an article whose insert returned ok and whose
\* id nobody asked to delete is on both nodes, whatever inserts of the same id
\* (with their rollbacks), crashes, restarts, SQL errors and broken
\* connections come before or after.
NeverDeleted(id) == \A c \in Calls : ~(request[c].op = "delete" /\ request[c].id = id)
AckedInsertIsDurable ==
  \A c \in Calls :
    Acked(c, "insert") /\ NeverDeleted(request[c].id) => Copy(request[c].art)

\* The last call on an id, if it was acknowledged and no other call on the id
\* overlapped it, decides what both nodes hold: after an insert the article,
\* after a delete nothing.  Holds under every fault.
LastWordCounts ==
  \A id \in Ids : LET c == last[id] IN
    (c # Nil /\ alone[c]) =>
      /\ Acked(c, "insert") => Copy(request[c].art)
      /\ Acked(c, "delete") => NoCopy(id)

\* A delete that got as far as the replica's answer leaves the article on
\* neither node, acknowledged or not: also if an undo that failed or a crash had
\* left the article on the primary only, so that the replica has nothing to
\* delete, and if the primary crashes before it answers.  A connection that
\* breaks voids this: the handler then brings the article back.
DeletesConverge ==
  \A id \in Ids : LET c == last[id] IN
    (c # Nil /\ alone[c] /\ lost = 0 /\ request[c].op = "delete") =>
      (stage[c] = "done" /\ Pc(Replica, c) \in {"ok", "notfound"} => NoCopy(id))

\* No call is in progress anywhere and both processes run.
Settled == /\ \A n \in Nodes : up[n]
           /\ \A c \in Calls : ~Active(c)

\* The replica is an exact copy of the primary whenever nothing is in progress.
ExactCopy == Settled => store[Primary] = store[Replica]

\* Writes work again once both nodes are available: between calls there is an
\* article that both indexes would accept.
WritesPossible ==
  Settled => \E a \in Articles : \A n \in Nodes : Accepts(n, a)

\* The steps a call has left, at most: of its handler, with the methods it may
\* still start, and of the methods that run for it.
HandlerSteps == [idle |-> 15, lookup |-> 14, local |-> 10, forward |-> 9,
                 remote |-> 5, rollback |-> 1, done |-> 0]
MethodSteps(pc) == CASE pc \in {"store_insert", "store_get"} -> 3
                     [] pc \in {"index_insert", "store_delete"} -> 2
                     [] pc \in {"undo_insert", "index_delete"} -> 1
                     [] OTHER -> 0
StepsLeft(c) == HandlerSteps[stage[c]] + MethodSteps(Pc(Primary, c))
                                       + MethodSteps(Pc(Replica, c))

\* No step takes a call back: what was forwarded is not forwarded again, and a
\* rollback, whether it works or not, is the last thing a handler does.
CallsAdvance ==
  [][\A c \in Calls :
       stage'[c] # stage[c] \/ (\E n \in Nodes : Pc(n, c)' # Pc(n, c))
         => StepsLeft(c)' < StepsLeft(c)]_vars

\* A handler that waits, waits for a method that runs on a process that is up,
\* or for one that ended with a result the handler knows what to do with.
HandlersGoOn ==
  \A c \in Calls :
    /\ Busy(c) => up[Primary]
    /\ \A n \in Nodes : Running(n, c) => up[n]
    /\ stage[c] \in {"local", "rollback"} => Pc(Primary, c) \in RunningPc \cup ResultPc
    /\ stage[c] = "remote" =>
         \/ Running(Replica, c) \/ Pc(Replica, c) \in {"ok", "failed"}
         \/ Pc(Replica, c) = "notfound" /\ request[c].op = "delete"

\* Whatever breaks, a call that was made is answered, and both processes are
\* done with it some day: no handler waits for ever on the other node.
EveryCallReturns == \A c \in Calls : Busy(c) ~> (reply[c] # "none" /\ ~Active(c))

-----------------------------------------------------------------------------
(* Without faults, and called by one coordinator command at a time, the    *)
(* pair is one atomic table.  A call takes effect when the replica indexes *)
(* the article or deletes the row; before that it can still be undone.     *)

Undecided(id) == \E c \in Calls : /\ frame[Replica][c].id = id
                                  /\ Pc(Replica, c) \in {"index_insert", "undo_insert"}
Table == [id \in Ids |-> IF Undecided(id) THEN Nil ELSE store[Replica][id]]
Applied == {c \in Calls :
              \/ reply[c] = "ok"
              \/ Pc(Replica, c) \in {"ok", "index_delete"}}

Store == INSTANCE ShardStore WITH table <- Table, applied <- Applied

\* The shard implements ShardStore: an "ok" took effect on both nodes at one
\* point in time, and a write that was refused, at home or on the replica, by
\* the table or by the index, left no trace.
AtomicStore == Store!StoreSpec
=============================================================================
