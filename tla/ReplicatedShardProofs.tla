------------------------ MODULE ReplicatedShardProofs ------------------------
(***************************************************************************)
(* Theorems about ReplicatedShard, for any calls, articles and faults.     *)
(***************************************************************************)
EXTENDS ReplicatedShard, ShardNodeProofs

-----------------------------------------------------------------------------
(* The inductive invariant.  An acknowledged insert is durable because the *)
(* call owns its row on both nodes, and a row is only removed by its owner *)
(* unless somebody asked to delete the id.                                 *)

\* A call that was made knows its id, and an insert its article.
RequestOK ==
  \A c \in Calls : LET r == request[c] IN
    /\ stage[c] = "idle" => r = NoRequest /\ reply[c] = "none"
    /\ stage[c] # "idle" => r.op # "none" /\ r.id \in Ids
    /\ r.op = "insert" => r.art \in Articles /\ r.id = r.art.id
    /\ stage[c] \in BusyStages \ {"lookup"} /\ r.op = "delete" =>
         saved[c] \in Articles /\ saved[c].id = r.id

\* The frames of a call are about what it asked for.
FramesMatch ==
  \A n \in Nodes, c \in Calls : LET f == frame[n][c]  r == request[c] IN
    /\ stage[c] = "idle" => f.pc = "idle"
    /\ f.pc # "idle" => f.id = r.id
    /\ f.art # Nil => f.pc # "idle"
    /\ f.art # Nil /\ r.op = "insert" => f.art = r.art

\* Where the frame of an insert stands, given the stage of its handler.
StagesMatch ==
  \A c \in Calls :
    /\ Running(Primary, c) => stage[c] \in {"local", "rollback"}
    /\ request[c].op = "insert" =>
         /\ stage[c] # "lookup"
         /\ stage[c] = "local" => frame[Primary][c].art # Nil
         /\ stage[c] \in {"forward", "remote"} =>
              frame[Primary][c].art # Nil /\ Pc(Primary, c) = "ok"
         /\ Pc(Replica, c) # "idle" => frame[Replica][c].art # Nil
         /\ stage[c] = "remote" => Pc(Replica, c) # "idle"

\* Call c owns the row of its id on n: it wrote it, and has not undone it.
Owns(n, c) ==
  /\ request[c].op = "insert"
  /\ \/ Pc(n, c) \in {"index_insert", "undo_insert", "ok"} /\ frame[n][c].art # Nil
     \/ Pc(n, c) \in {"store_get", "store_delete"}

\* An owner's article is in the table, and it is the only owner.
OwnersRow ==
  \A n \in Nodes, c \in Calls : Owns(n, c) /\ NeverDeleted(request[c].id) =>
    /\ store[n][request[c].id] = request[c].art
    /\ \A d \in Calls : Owns(n, d) /\ request[d].id = request[c].id => d = c

\* Who got an ok owns the row on both nodes and gives it up no more.
AckedOwns ==
  \A c \in Calls : Acked(c, "insert") =>
    /\ stage[c] = "done"
    /\ \A n \in Nodes : Pc(n, c) = "ok" /\ frame[n][c].art # Nil

HandlerInv == ServerTypeOK /\ RequestOK /\ FramesMatch /\ StagesMatch
OwnershipInv == OwnersRow /\ AckedOwns
IInv == NodeInv /\ HandlerInv /\ OwnershipInv

-----------------------------------------------------------------------------
LEMMA TwoNodes == Primary \in Nodes /\ Replica \in Nodes /\ Primary # Replica
                  /\ \A n \in Nodes : n = Primary \/ n = Replica
  BY NodesAssumption

LEMMA IInvInit == Init => IInv
<1> SUFFICES ASSUME Init PROVE IInv
  OBVIOUS
<1>1. NodeInv
  BY NodeInvInit DEF Init
<1>2. \A n \in Nodes, c \in Calls : frame[n][c] = IdleFrame
  BY DEF Init, NodeInit
<1>3. ServerTypeOK
  BY LostAssumption
  DEF Init, ServerTypeOK, NoRequest, Request, Stages, Replies
<1>4. RequestOK
  BY DEF Init, RequestOK, NoRequest, BusyStages, Stages
<1>5. FramesMatch
  BY <1>2 DEF Init, FramesMatch, NoRequest, IdleFrame
<1>6. StagesMatch
  BY <1>2, TwoNodes DEF Init, StagesMatch, NoRequest, IdleFrame, Running, Pc,
    RunningPc, InsertPc, DeletePc
<1>7. OwnershipInv
  BY DEF Init, OwnershipInv, OwnersRow, AckedOwns, Owns, Acked, NoRequest
<1>. QED
  BY <1>1, <1>3, <1>4, <1>5, <1>6, <1>7 DEF IInv, HandlerInv

LEMMA EnterFrames ==
  ASSUME NEW n \in Nodes, NEW c \in Calls, NEW f,
         frame \in [Nodes -> [Calls -> Frame]], Enter(n, c, f)
  PROVE  /\ frame'[n][c] = f
         /\ \A m \in Nodes, d \in Calls :
              ~(m = n /\ d = c) => frame'[m][d] = frame[m][d]
  BY DEF Enter

\* No step that makes no owner and writes no row can take a row from its owner.
LEMMA OwnersShrink ==
  ASSUME OwnersRow, request' = request, store' = store,
         \A n \in Nodes, c \in Calls : Owns(n, c)' => Owns(n, c)
  PROVE  OwnersRow'
  BY DEF OwnersRow, NeverDeleted

\* The handler of c returns.
LEMMA ReturnInv ==
  ASSUME IInv, NEW c \in Calls, NEW r \in Replies, Busy(c), ~Running(Primary, c),
         Return(c, r), UNCHANGED <<up, store, indexVars, frame, crashes, historyVars, lost>>,
         storeErrors' \in 0..MaxStoreErrors,
         r = "ok" /\ request[c].op = "insert" =>
           \A n \in Nodes : Pc(n, c) = "ok" /\ frame[n][c].art # Nil
  PROVE  IInv'
<1>1. NodeInv'
  BY DEF IInv, NodeInv, NodeTypeOK, FrameOK, IndexedIsLive, SameDimension, RowsKeyed, indexVars
<1>2. /\ stage'[c] = "done"
      /\ \A d \in Calls : d # c => stage'[d] = stage[d] /\ reply'[d] = reply[d]
      /\ reply'[c] \in {reply[c], r}
      /\ UNCHANGED <<request, saved>>
  BY DEF Return, IInv, HandlerInv, ServerTypeOK
<1>3. stage[c] \in BusyStages
  BY DEF Busy
<1>4. ServerTypeOK'
  BY DEF Return, IInv, HandlerInv, ServerTypeOK, Stages, historyVars
<1>5. RequestOK'
  BY <1>2, <1>3 DEF IInv, HandlerInv, RequestOK, BusyStages
<1>6. FramesMatch'
  BY <1>2, <1>3 DEF IInv, HandlerInv, FramesMatch, BusyStages
<1>7. StagesMatch'
  BY <1>2, <1>3, TwoNodes DEF IInv, HandlerInv, StagesMatch, Running, Pc
<1>8. OwnersRow'
  BY <1>2 DEF IInv, OwnershipInv, OwnersRow, Owns, NeverDeleted, Pc
<1>9. AckedOwns'
  BY <1>2, <1>3 DEF IInv, OwnershipInv, AckedOwns, Acked, Pc, BusyStages
<1>. QED
  BY <1>1, <1>4, <1>5, <1>6, <1>7, <1>8, <1>9 DEF IInv, HandlerInv, OwnershipInv

\* The primary's write is undone: an insert stays the owner of its row until
\* the row is deleted.
LEMMA StartRollbackInv ==
  ASSUME IInv, NEW c \in Calls, stage[c] \in {"forward", "remote"},
         StartRollback(c), lost' \in 0..MaxLost
  PROVE  IInv'
<1> DEFINE f == IF request[c].op = "insert" THEN DeleteFrame(request[c].id)
                                            ELSE InsertFrame(saved[c])
<1>1. /\ Enter(Primary, c, f)
      /\ stage' = [stage EXCEPT ![c] = "rollback"]
      /\ UNCHANGED <<request, reply, saved, up, store, indexVars, boundVars, historyVars>>
  BY DEF StartRollback, Advance
<1>2. /\ request[c].op \in {"insert", "delete"} /\ request[c].id \in Ids
      /\ request[c].op = "delete" => saved[c] \in Articles /\ saved[c].id = request[c].id
  BY DEF IInv, HandlerInv, ServerTypeOK, RequestOK, Request, BusyStages, Stages
<1>3. (\E a \in Articles : f = InsertFrame(a)) \/ (\E id \in Ids : f = DeleteFrame(id))
  BY <1>2
<1>4. /\ f.id = request[c].id
      /\ request[c].op = "insert" => f.pc = "store_get" /\ f.art = Nil
      /\ request[c].op = "delete" => f.pc = "store_insert"
      /\ f.pc # "idle"
  BY <1>2 DEF InsertFrame, DeleteFrame
<1>5. /\ frame'[Primary][c] = f
      /\ \A m \in Nodes, d \in Calls :
           ~(m = Primary /\ d = c) => frame'[m][d] = frame[m][d]
  BY <1>1, TwoNodes, EnterFrames DEF IInv, NodeInv, NodeTypeOK
<1>6. NodeInv'
  BY <1>1, <1>3, TwoNodes, EnterInv DEF IInv
<1> HIDE DEF f
<1>7. /\ stage'[c] = "rollback"
      /\ \A d \in Calls : d # c => stage'[d] = stage[d]
  BY <1>1 DEF IInv, HandlerInv, ServerTypeOK
<1>8. ServerTypeOK'
  BY <1>1 DEF IInv, HandlerInv, ServerTypeOK, Stages, historyVars
<1>9. RequestOK'
  BY <1>1, <1>7 DEF IInv, HandlerInv, RequestOK, BusyStages, Stages
<1>10. FramesMatch'
  BY <1>1, <1>2, <1>4, <1>5, <1>7, TwoNodes DEF IInv, HandlerInv, FramesMatch
<1>11. StagesMatch'
  BY <1>1, <1>4, <1>5, <1>7, TwoNodes DEF IInv, HandlerInv, StagesMatch, Running, Pc
<1>12. OwnersRow'
  <2>1. request[c].op = "insert" => Owns(Primary, c)
    BY DEF IInv, HandlerInv, StagesMatch, Owns
  <2>2. \A n \in Nodes, d \in Calls : Owns(n, d)' => Owns(n, d)
    BY <1>1, <1>5, <2>1 DEF Owns, Pc
  <2>. QED
    BY <1>1, <2>2, OwnersShrink DEF IInv, OwnershipInv
<1>13. AckedOwns'
  BY <1>1, <1>5, <1>7 DEF IInv, OwnershipInv, AckedOwns, Acked, Pc
<1>. QED
  BY <1>6, <1>8, <1>9, <1>10, <1>11, <1>12, <1>13 DEF IInv, HandlerInv, OwnershipInv

LEMMA ReceiveInsertInv ==
  ASSUME IInv, NEW c \in Calls, NEW a \in Articles, ReceiveInsert(c, a)
  PROVE  IInv'
<1>1. /\ stage[c] = "idle" /\ stage' = [stage EXCEPT ![c] = "local"]
      /\ request' = [request EXCEPT ![c] = InsertRequest(a)]
      /\ Enter(Primary, c, InsertFrame(a))
      /\ NoteStart(c, a.id)
      /\ UNCHANGED <<up, store, indexVars, boundVars, reply, saved, lost>>
  BY DEF ReceiveInsert, CanCall
<1>2. /\ frame'[Primary][c] = InsertFrame(a)
      /\ \A m \in Nodes, d \in Calls :
           ~(m = Primary /\ d = c) => frame'[m][d] = frame[m][d]
  BY <1>1, TwoNodes, EnterFrames DEF IInv, NodeInv, NodeTypeOK
<1>3. NodeInv'
  BY <1>1, TwoNodes, EnterInv DEF IInv
<1>4. /\ stage'[c] = "local" /\ request'[c] = InsertRequest(a)
      /\ \A d \in Calls : d # c => stage'[d] = stage[d] /\ request'[d] = request[d]
      /\ request[c] = NoRequest /\ reply[c] = "none"
      /\ \A n \in Nodes : Pc(n, c) = "idle" /\ frame[n][c].art = Nil
  BY <1>1 DEF IInv, HandlerInv, ServerTypeOK, RequestOK, FramesMatch, Pc
<1>5. a.id \in Ids /\ a # Nil
  BY ArticleAssumption
<1>6. ServerTypeOK'
  <2>1. InsertRequest(a) \in Request
    BY <1>5 DEF InsertRequest, Request
  <2>2. last' \in [Ids -> Calls \cup {Nil}] /\ alone' \in [Calls -> BOOLEAN]
    BY <1>1 DEF IInv, HandlerInv, ServerTypeOK, NoteStart
  <2>. QED
    BY <1>1, <2>1, <2>2 DEF IInv, HandlerInv, ServerTypeOK, Stages
<1>7. RequestOK'
  BY <1>1, <1>4, <1>5 DEF IInv, HandlerInv, RequestOK, InsertRequest
<1>8. FramesMatch'
  BY <1>1, <1>2, <1>4, <1>5 DEF IInv, HandlerInv, FramesMatch, InsertRequest, InsertFrame, Pc
<1>9. StagesMatch'
  BY <1>1, <1>2, <1>4, <1>5, TwoNodes
  DEF IInv, HandlerInv, StagesMatch, InsertRequest, InsertFrame, Running, Pc,
      RunningPc, InsertPc, DeletePc
<1>10. \A n \in Nodes, d \in Calls : Owns(n, d)' => Owns(n, d) /\ d # c
  BY <1>2, <1>4 DEF Owns, Pc, InsertFrame
<1>11. OwnersRow'
  <2>1. \A id \in Ids : NeverDeleted(id)' => NeverDeleted(id)
    BY <1>4 DEF NeverDeleted, NoRequest
  <2>2. \A d \in Calls : d # c /\ request[d].op = "insert" => request[d].id \in Ids
    BY ArticleAssumption DEF IInv, HandlerInv, RequestOK
  <2>3. \A n \in Nodes, d \in Calls : Owns(n, d) => request[d].op = "insert"
    BY DEF Owns
  <2>. QED
    BY <1>1, <1>4, <1>10, <2>1, <2>2, <2>3 DEF IInv, OwnershipInv, OwnersRow
<1>12. AckedOwns'
  BY <1>1, <1>2, <1>4 DEF IInv, OwnershipInv, AckedOwns, Acked, Pc
<1>. QED
  BY <1>3, <1>6, <1>7, <1>8, <1>9, <1>11, <1>12 DEF IInv, HandlerInv, OwnershipInv

\* A delete of the id ends every claim to its row.
LEMMA ReceiveDeleteInv ==
  ASSUME IInv, NEW c \in Calls, NEW id \in Ids, ReceiveDelete(c, id)
  PROVE  IInv'
<1>1. /\ stage[c] = "idle" /\ stage' = [stage EXCEPT ![c] = "lookup"]
      /\ request' = [request EXCEPT ![c] = DeleteRequest(id)]
      /\ NoteStart(c, id)
      /\ UNCHANGED <<nodeVars, reply, saved, lost>>
  BY DEF ReceiveDelete, CanCall
<1>2. UNCHANGED <<up, store, live, indexed, dim, frame, crashes, storeErrors>>
  BY <1>1 DEF nodeVars
<1>3. NodeInv'
  BY <1>2 DEF IInv, NodeInv, NodeTypeOK, FrameOK, IndexedIsLive, SameDimension, RowsKeyed
<1>4. /\ stage'[c] = "lookup" /\ request'[c] = DeleteRequest(id)
      /\ \A d \in Calls : d # c => stage'[d] = stage[d] /\ request'[d] = request[d]
      /\ request[c] = NoRequest /\ reply[c] = "none"
      /\ \A n \in Nodes : Pc(n, c) = "idle" /\ frame[n][c].art = Nil
  BY <1>1 DEF IInv, HandlerInv, ServerTypeOK, RequestOK, FramesMatch, Pc
<1>5. ServerTypeOK'
  <2>1. DeleteRequest(id) \in Request
    BY DEF DeleteRequest, Request
  <2>2. last' \in [Ids -> Calls \cup {Nil}] /\ alone' \in [Calls -> BOOLEAN]
    BY <1>1 DEF IInv, HandlerInv, ServerTypeOK, NoteStart
  <2>. QED
    BY <1>1, <2>1, <2>2 DEF IInv, HandlerInv, ServerTypeOK, Stages
<1>6. RequestOK'
  BY <1>1, <1>4 DEF IInv, HandlerInv, RequestOK, DeleteRequest
<1>7. FramesMatch'
  BY <1>1, <1>2, <1>4 DEF IInv, HandlerInv, FramesMatch, DeleteRequest, Pc
<1>8. StagesMatch'
  BY <1>1, <1>2, <1>4, TwoNodes
  DEF IInv, HandlerInv, StagesMatch, DeleteRequest, Running, Pc,
      RunningPc, InsertPc, DeletePc
<1>9. \A n \in Nodes, d \in Calls : Owns(n, d)' => Owns(n, d) /\ d # c
  BY <1>2, <1>4 DEF Owns, Pc, DeleteRequest
<1>10. OwnersRow'
  <2>1. \A x \in Ids : NeverDeleted(x)' => NeverDeleted(x)
    BY <1>4 DEF NeverDeleted, NoRequest
  <2>2. \A d \in Calls : d # c /\ request[d].op = "insert" => request[d].id \in Ids
    BY ArticleAssumption DEF IInv, HandlerInv, RequestOK
  <2>3. \A n \in Nodes, d \in Calls : Owns(n, d) => request[d].op = "insert"
    BY DEF Owns
  <2>. QED
    BY <1>2, <1>4, <1>9, <2>1, <2>2, <2>3 DEF IInv, OwnershipInv, OwnersRow
<1>11. AckedOwns'
  BY <1>1, <1>2, <1>4 DEF IInv, OwnershipInv, AckedOwns, Acked, Pc
<1>. QED
  BY <1>3, <1>5, <1>6, <1>7, <1>8, <1>10, <1>11 DEF IInv, HandlerInv, OwnershipInv

LEMMA LookupInv ==
  ASSUME IInv, NEW c \in Calls, Lookup(c)
  PROVE  IInv'
<1>1. PICK id \in Ids : id = request[c].id
  BY DEF Lookup, IInv, HandlerInv, RequestOK
<1>2. stage[c] = "lookup" /\ Busy(c) /\ ~Running(Primary, c)
  BY DEF Lookup, Busy, BusyStages, Stages, IInv, HandlerInv, StagesMatch
<1>3. CASE store[Primary][id] = Nil
  <2>1. Return(c, "notfound")
        /\ UNCHANGED <<up, store, indexVars, frame, boundVars, historyVars, lost>>
    BY <1>1, <1>3 DEF Lookup
  <2>2. storeErrors' \in 0..MaxStoreErrors
    BY <2>1 DEF boundVars, IInv, NodeInv, NodeTypeOK
  <2>. QED
    BY <1>2, <2>1, <2>2, ReturnInv DEF Replies, boundVars
<1>4. CASE store[Primary][id] # Nil
  <2>1. /\ saved' = [saved EXCEPT ![c] = store[Primary][id]]
        /\ stage' = [stage EXCEPT ![c] = "local"]
        /\ Enter(Primary, c, DeleteFrame(id))
        /\ UNCHANGED <<request, reply, up, store, indexVars, boundVars, historyVars, lost>>
    BY <1>1, <1>4 DEF Lookup
  <2>2. store[Primary][id] \in Articles /\ store[Primary][id].id = id
    BY <1>4, TwoNodes DEF IInv, NodeInv, NodeTypeOK, RowsKeyed
  <2>3. /\ frame'[Primary][c] = DeleteFrame(id)
        /\ \A m \in Nodes, d \in Calls :
             ~(m = Primary /\ d = c) => frame'[m][d] = frame[m][d]
    BY <2>1, TwoNodes, EnterFrames DEF IInv, NodeInv, NodeTypeOK
  <2>4. NodeInv'
    BY <2>1, TwoNodes, EnterInv DEF IInv
  <2>5. request[c].op # "insert"
    BY <1>2 DEF IInv, HandlerInv, StagesMatch
  <2>6. /\ stage'[c] = "local" /\ saved'[c] = store[Primary][id]
        /\ \A d \in Calls : d # c => stage'[d] = stage[d] /\ saved'[d] = saved[d]
    BY <2>1 DEF IInv, HandlerInv, ServerTypeOK
  <2>7. ServerTypeOK'
    BY <2>1, <2>2 DEF IInv, HandlerInv, ServerTypeOK, Stages, historyVars
  <2>8. RequestOK'
    BY <1>1, <1>2, <2>1, <2>2, <2>6 DEF IInv, HandlerInv, RequestOK, BusyStages, Stages
  <2>9. FramesMatch'
    BY <1>1, <1>2, <2>1, <2>3, <2>5, <2>6, TwoNodes
    DEF IInv, HandlerInv, FramesMatch, DeleteFrame
  <2>10. StagesMatch'
    BY <2>1, <2>3, <2>5, <2>6, TwoNodes DEF IInv, HandlerInv, StagesMatch, Running, Pc
  <2>11. OwnersRow'
    <3>1. \A n \in Nodes, d \in Calls : Owns(n, d)' => Owns(n, d)
      BY <2>1, <2>3, <2>5 DEF Owns, Pc
    <3>. QED
      BY <2>1, <3>1, OwnersShrink DEF IInv, OwnershipInv
  <2>12. AckedOwns'
    BY <2>1, <2>3, <2>5, <2>6 DEF IInv, OwnershipInv, AckedOwns, Acked, Pc
  <2>. QED
    BY <2>4, <2>7, <2>8, <2>9, <2>10, <2>11, <2>12 DEF IInv, HandlerInv, OwnershipInv
<1>. QED
  BY <1>3, <1>4

LEMMA LocalDoneInv ==
  ASSUME IInv, NEW c \in Calls, LocalDone(c)
  PROVE  IInv'
<1> DEFINE r == Pc(Primary, c)
<1>1. /\ stage[c] = "local" /\ r \in ResultPc
      /\ UNCHANGED <<up, store, indexVars, frame, boundVars, historyVars, lost>>
  BY DEF LocalDone, nodeVars, indexVars, boundVars
<1>2. Busy(c) /\ ~Running(Primary, c)
  BY <1>1 DEF Busy, BusyStages, Stages, Running, ResultPc, RunningPc, InsertPc, DeletePc
<1>3. storeErrors' \in 0..MaxStoreErrors
  BY <1>1 DEF boundVars, IInv, NodeInv, NodeTypeOK
<1>4. CASE r = "notfound"
  <2>1. Return(c, "notfound")
    BY <1>4 DEF LocalDone
  <2>. QED
    BY <1>1, <1>2, <1>3, <2>1, ReturnInv DEF Replies, boundVars
<1>5. CASE r = "failed"
  <2>1. Return(c, "error")
    BY <1>5 DEF LocalDone
  <2>. QED
    BY <1>1, <1>2, <1>3, <2>1, ReturnInv DEF Replies, boundVars
<1>6. CASE r = "ok"
  <2>1. /\ stage' = [stage EXCEPT ![c] = "forward"]
        /\ UNCHANGED <<request, reply, saved>>
    BY <1>6 DEF LocalDone, Advance
  <2>2. /\ stage'[c] = "forward"
        /\ \A d \in Calls : d # c => stage'[d] = stage[d]
    BY <2>1 DEF IInv, HandlerInv, ServerTypeOK
  <2>3. NodeInv'
    BY <1>1 DEF IInv, NodeInv, NodeTypeOK, FrameOK, IndexedIsLive, SameDimension,
      RowsKeyed, indexVars, boundVars
  <2>4. ServerTypeOK'
    BY <1>1, <2>1 DEF IInv, HandlerInv, ServerTypeOK, Stages, historyVars
  <2>5. RequestOK'
    BY <1>1, <2>1, <2>2 DEF IInv, HandlerInv, RequestOK, BusyStages, Stages
  <2>6. FramesMatch'
    BY <1>1, <2>1, <2>2 DEF IInv, HandlerInv, FramesMatch
  <2>7. StagesMatch'
    BY <1>1, <1>2, <1>6, <2>1, <2>2, TwoNodes DEF IInv, HandlerInv, StagesMatch, Running, Pc
  <2>8. OwnersRow'
    BY <1>1, <2>1 DEF IInv, OwnershipInv, OwnersRow, Owns, NeverDeleted, Pc
  <2>9. AckedOwns'
    BY <1>1, <2>1, <2>2 DEF IInv, OwnershipInv, AckedOwns, Acked, Pc
  <2>. QED
    BY <2>3, <2>4, <2>5, <2>6, <2>7, <2>8, <2>9 DEF IInv, HandlerInv, OwnershipInv
<1>. QED
  BY <1>1, <1>4, <1>5, <1>6 DEF ResultPc

LEMMA ForwardInv ==
  ASSUME IInv, NEW c \in Calls, Forward(c)
  PROVE  IInv'
<1> DEFINE f == FrameOf(request[c])
<1>1. /\ stage[c] = "forward" /\ stage' = [stage EXCEPT ![c] = "remote"]
      /\ Enter(Replica, c, f)
      /\ UNCHANGED <<request, reply, saved, up, store, indexVars, boundVars, historyVars, lost>>
  BY DEF Forward, Advance
<1>2. /\ request[c].op \in {"insert", "delete"} /\ request[c].id \in Ids
      /\ request[c].op = "insert" => request[c].art \in Articles /\ request[c].id = request[c].art.id
  BY <1>1 DEF IInv, HandlerInv, ServerTypeOK, RequestOK, Request
<1>3. (\E a \in Articles : f = InsertFrame(a)) \/ (\E id \in Ids : f = DeleteFrame(id))
  BY <1>2 DEF FrameOf
<1>4. /\ f.id = request[c].id /\ f.pc # "idle"
      /\ request[c].op = "insert" =>
           f.pc = "store_insert" /\ f.art = request[c].art /\ f.art # Nil
      /\ request[c].op = "delete" => f.art = Nil
  BY <1>2, ArticleAssumption DEF FrameOf, InsertFrame, DeleteFrame
<1>5. /\ frame'[Replica][c] = f
      /\ \A m \in Nodes, d \in Calls :
           ~(m = Replica /\ d = c) => frame'[m][d] = frame[m][d]
  BY <1>1, TwoNodes, EnterFrames DEF IInv, NodeInv, NodeTypeOK
<1>6. NodeInv'
  BY <1>1, <1>3, TwoNodes, EnterInv DEF IInv
<1> HIDE DEF f
<1>7. /\ stage'[c] = "remote"
      /\ \A d \in Calls : d # c => stage'[d] = stage[d]
  BY <1>1 DEF IInv, HandlerInv, ServerTypeOK
<1>8. ServerTypeOK'
  BY <1>1 DEF IInv, HandlerInv, ServerTypeOK, Stages, historyVars
<1>9. RequestOK'
  BY <1>1, <1>7 DEF IInv, HandlerInv, RequestOK, BusyStages, Stages
<1>10. FramesMatch'
  BY <1>1, <1>2, <1>4, <1>5, <1>7, TwoNodes DEF IInv, HandlerInv, FramesMatch
<1>11. StagesMatch'
  BY <1>1, <1>4, <1>5, <1>7, TwoNodes DEF IInv, HandlerInv, StagesMatch, Running, Pc
<1>12. OwnersRow'
  <2>1. \A n \in Nodes, d \in Calls : Owns(n, d)' => Owns(n, d)
    BY <1>1, <1>4, <1>5 DEF Owns, Pc
  <2>. QED
    BY <1>1, <2>1, OwnersShrink DEF IInv, OwnershipInv
<1>13. AckedOwns'
  BY <1>1, <1>5, <1>7 DEF IInv, OwnershipInv, AckedOwns, Acked, Pc
<1>. QED
  BY <1>6, <1>8, <1>9, <1>10, <1>11, <1>12, <1>13 DEF IInv, HandlerInv, OwnershipInv

\* A step of a method makes an owner only by filling an empty row, and empties a
\* row only for its owner (or for a delete).
LEMMA NodeStepInv ==
  ASSUME IInv, NEW n \in Nodes, NEW c \in Calls, NodeStep(n, c)
  PROVE  IInv'
<1>1. NodeInv' /\ NodeInv
  BY MethodStepInv DEF IInv, NodeStep
<1>2. /\ Running(n, c)
      /\ Pc(n, c)' \in RunningPc \cup ResultPc
      /\ \A m \in Nodes, d \in Calls :
           /\ frame'[m][d].id = frame[m][d].id
           /\ frame'[m][d].art = frame[m][d].art
           /\ ~(m = n /\ d = c) => frame'[m][d] = frame[m][d]
  BY <1>1, MethodStepEffect DEF NodeStep
<1>3. UNCHANGED <<request, stage, reply, saved, last, alone, lost>>
  BY DEF NodeStep, serverVars, historyVars
<1>4. Pc(n, c) # "idle" /\ Pc(n, c) # "ok" /\ Pc(n, c)' # "idle"
  BY <1>2 DEF Running, RunningPc, InsertPc, DeletePc, ResultPc
<1>5. ServerTypeOK' /\ RequestOK'
  BY <1>3 DEF IInv, HandlerInv, ServerTypeOK, RequestOK
<1>6. FramesMatch'
  BY <1>2, <1>3, <1>4 DEF IInv, HandlerInv, FramesMatch, Pc
<1>7. StagesMatch'
  BY <1>2, <1>3, <1>4, TwoNodes DEF IInv, HandlerInv, StagesMatch, Running, Pc
<1>8. AckedOwns'
  BY <1>2, <1>3, <1>4 DEF IInv, OwnershipInv, AckedOwns, Acked, Pc
<1>9. /\ frame[n][c].id = request[c].id /\ request[c].id \in Ids
      /\ request[c].op \in {"insert", "delete"}
  BY <1>4 DEF IInv, HandlerInv, FramesMatch, RequestOK, ServerTypeOK, Request, Pc
<1>10. \A m \in Nodes, d \in Calls : ~(m = n /\ d = c) => (Owns(m, d)' <=> Owns(m, d))
  BY <1>2, <1>3 DEF Owns, Pc
<1>11. \A d \in Calls : request[d].op = "insert" => request[d].id \in Ids
  BY ArticleAssumption DEF IInv, HandlerInv, RequestOK
<1>12. OwnersRow'
  <2>1. CASE /\ store' = store
             /\ Pc(n, c)' \in {"index_insert", "undo_insert"} => Pc(n, c) = "index_insert"
             /\ Pc(n, c)' = "ok" => Pc(n, c) \in {"index_insert", "index_delete"}
             /\ Pc(n, c)' \in {"store_get", "store_delete"} => Pc(n, c) = "store_get"
    <3>1. Pc(n, c) = "index_delete" => frame[n][c].art = Nil
      BY <1>1 DEF NodeInv, FrameOK, DeletePc, Pc
    <3>2. Owns(n, c)' => Owns(n, c)
      BY <1>2, <1>3, <2>1, <3>1 DEF Owns
    <3>. QED
      BY <1>3, <1>10, <2>1, <3>2, OwnersShrink DEF IInv, OwnershipInv
  <2>2. CASE /\ Pc(n, c) = "store_insert" /\ Pc(n, c)' = "index_insert"
             /\ Row(n, c) = Nil /\ SetRow(n, c, frame[n][c].art)
    <3>1. frame[n][c].art \in Articles /\ frame[n][c].art # Nil
      BY <1>1, <2>2, ArticleAssumption DEF NodeInv, FrameOK, InsertPc, Pc
    <3>2. \A m \in Nodes, id \in Ids : store'[m][id] =
            IF m = n /\ id = request[c].id THEN frame[n][c].art ELSE store[m][id]
      BY <1>1, <1>9, <2>2 DEF SetRow, NodeInv, NodeTypeOK
    <3>3. store[n][request[c].id] = Nil
      BY <1>9, <2>2 DEF Row
    <3> SUFFICES ASSUME NEW m \in Nodes, NEW d \in Calls, Owns(m, d)',
                        NeverDeleted(request[d].id)'
                 PROVE  /\ store'[m][request'[d].id] = request'[d].art
                        /\ \A e \in Calls :
                             Owns(m, e)' /\ request'[e].id = request'[d].id => e = d
      BY DEF OwnersRow
    <3>4. NeverDeleted(request[d].id) /\ request[d].op = "insert"
          /\ request[d].id \in Ids /\ request[d].art \in Articles
      BY <1>3, <1>11 DEF NeverDeleted, Owns, IInv, HandlerInv, RequestOK
    <3>5. \A e \in Calls : Owns(n, e) => ~(request[e].id = request[c].id /\ NeverDeleted(request[c].id))
      <4> SUFFICES ASSUME NEW e \in Calls, Owns(n, e), request[e].id = request[c].id,
                          NeverDeleted(request[c].id)
                   PROVE  FALSE
        OBVIOUS
      <4>1. store[n][request[c].id] = request[e].art
        BY DEF IInv, OwnershipInv, OwnersRow
      <4>2. request[e].art # Nil
        BY ArticleAssumption DEF Owns, IInv, HandlerInv, RequestOK
      <4>. QED
        BY <3>3, <4>1, <4>2
    <3>6. CASE m # n
      BY <1>3, <1>10, <3>2, <3>4, <3>6 DEF IInv, OwnershipInv, OwnersRow
    <3>7. CASE m = n /\ d = c
      <4>1. frame[n][c].art = request[c].art
        BY <3>1, <3>4, <3>7 DEF IInv, HandlerInv, FramesMatch
      <4>. QED
        BY <1>3, <1>10, <3>2, <3>4, <3>5, <3>7, <4>1
    <3>8. CASE m = n /\ d # c
      <4>1. Owns(n, d) /\ request[d].id # request[c].id
        BY <1>10, <3>4, <3>5, <3>8
      <4>. QED
        BY <1>3, <1>10, <3>2, <3>4, <3>8, <4>1 DEF IInv, OwnershipInv, OwnersRow
    <3>. QED
      BY <3>6, <3>7, <3>8
  <2>3. CASE /\ Pc(n, c) = "undo_insert" \/ Pc(n, c) = "store_delete"
             /\ Pc(n, c)' \in {"failed", "index_delete"} /\ SetRow(n, c, Nil)
    <3>1. \A m \in Nodes, id \in Ids : store'[m][id] =
            IF m = n /\ id = request[c].id THEN Nil ELSE store[m][id]
      BY <1>1, <1>9, <2>3 DEF SetRow, NodeInv, NodeTypeOK
    <3>2. request[c].op = "insert" => Owns(n, c)
      <4>1. Pc(n, c) = "undo_insert" => frame[n][c].art # Nil
        BY <1>1, ArticleAssumption DEF NodeInv, FrameOK, InsertPc, Pc
      <4>. QED
        BY <2>3, <4>1 DEF Owns
    <3>3. ~Owns(n, c)'
      BY <2>3 DEF Owns
    <3> SUFFICES ASSUME NEW m \in Nodes, NEW d \in Calls, Owns(m, d)',
                        NeverDeleted(request[d].id)'
                 PROVE  /\ store'[m][request'[d].id] = request'[d].art
                        /\ \A e \in Calls :
                             Owns(m, e)' /\ request'[e].id = request'[d].id => e = d
      BY DEF OwnersRow
    <3>4. NeverDeleted(request[d].id) /\ request[d].op = "insert" /\ request[d].id \in Ids
      BY <1>3, <1>11 DEF NeverDeleted, Owns
    <3>5. Owns(m, d) /\ ~(m = n /\ d = c)
      BY <1>10, <3>3
    <3>6. m = n => request[d].id # request[c].id
      <4> SUFFICES ASSUME m = n, request[d].id = request[c].id PROVE FALSE
        OBVIOUS
      <4>1. request[c].op = "insert"
        BY <1>9, <3>4 DEF NeverDeleted
      <4>. QED
        BY <3>2, <3>4, <3>5, <4>1 DEF IInv, OwnershipInv, OwnersRow
    <3>7. \A e \in Calls : Owns(m, e)' => Owns(m, e)
      BY <1>10, <3>3
    <3>. QED
      BY <1>3, <3>1, <3>4, <3>5, <3>6, <3>7 DEF IInv, OwnershipInv, OwnersRow
  <2>. QED
    BY <1>1, <2>1, <2>2, <2>3, MethodStepEffect DEF NodeStep
<1>. QED
  BY <1>1, <1>5, <1>6, <1>7, <1>8, <1>12 DEF IInv, HandlerInv, OwnershipInv

LEMMA HandlerStepInv ==
  ASSUME IInv, NEW c \in Calls, HandlerStep(c)
  PROVE  IInv'
<1>0. storeErrors \in 0..MaxStoreErrors /\ lost \in 0..MaxLost
  BY DEF IInv, NodeInv, NodeTypeOK, HandlerInv, ServerTypeOK
<1>1. CASE Lookup(c)
  BY <1>1, LookupInv
<1>2. CASE LookupError(c)
  <2>1. storeErrors' \in 0..MaxStoreErrors
    BY <1>0, <1>2, BoundAssumption DEF LookupError
  <2>2. Busy(c) /\ ~Running(Primary, c)
    BY <1>2 DEF LookupError, Busy, BusyStages, Stages, IInv, HandlerInv, StagesMatch
  <2>. QED
    BY <1>2, <2>1, <2>2, ReturnInv DEF LookupError, Replies
<1>3. CASE LocalDone(c)
  BY <1>3, LocalDoneInv
<1>4. CASE Forward(c)
  BY <1>4, ForwardInv
<1>5. CASE RemoteDone(c)
  <2>1. Busy(c) /\ ~Running(Primary, c)
    BY <1>5 DEF RemoteDone, Busy, BusyStages, Stages, IInv, HandlerInv, StagesMatch
  <2>2. /\ Return(c, "ok")
        /\ UNCHANGED <<up, store, indexVars, frame, crashes, storeErrors, historyVars, lost>>
    BY <1>5 DEF RemoteDone, nodeVars, indexVars
  <2>3. request[c].op = "insert" =>
          \A n \in Nodes : Pc(n, c) = "ok" /\ frame[n][c].art # Nil
    BY <1>5, TwoNodes DEF RemoteDone, IInv, HandlerInv, StagesMatch
  <2>. QED
    BY <1>0, <2>1, <2>2, <2>3, ReturnInv DEF Replies
<1>6. CASE RemoteFailed(c)
  BY <1>0, <1>6, StartRollbackInv DEF RemoteFailed
<1>7. CASE ReplicaUnreachable(c)
  <2>1. lost' \in 0..MaxLost
    BY <1>0, <1>7, LostAssumption DEF ReplicaUnreachable
  <2>. QED
    BY <1>7, <2>1, StartRollbackInv DEF ReplicaUnreachable
<1>8. CASE RollbackDone(c)
  <2>1. Busy(c) /\ ~Running(Primary, c)
    BY <1>8 DEF RollbackDone, Busy, BusyStages, Stages, Running, ResultPc,
      RunningPc, InsertPc, DeletePc
  <2>2. /\ Return(c, "error")
        /\ UNCHANGED <<up, store, indexVars, frame, crashes, storeErrors, historyVars, lost>>
    BY <1>8 DEF RollbackDone, nodeVars, indexVars
  <2>. QED
    BY <1>0, <2>1, <2>2, ReturnInv DEF Replies
<1>. QED
  BY <1>1, <1>2, <1>3, <1>4, <1>5, <1>6, <1>7, <1>8 DEF HandlerStep

LEMMA CallerDisconnectsInv ==
  ASSUME IInv, NEW c \in Calls, CallerDisconnects(c)
  PROVE  IInv'
<1>1. /\ stage[c] \in BusyStages /\ reply[c] = "none"
      /\ lost < MaxLost /\ lost' = lost + 1
      /\ reply' = [reply EXCEPT ![c] = "error"]
      /\ UNCHANGED <<request, stage, saved, last, alone>>
      /\ UNCHANGED <<up, store, live, indexed, dim, frame, crashes, storeErrors>>
  BY DEF CallerDisconnects, Busy, nodeVars, historyVars
<1>2. /\ reply'[c] = "error"
      /\ \A d \in Calls : d # c => reply'[d] = reply[d]
  BY <1>1 DEF IInv, HandlerInv, ServerTypeOK
<1>3. NodeInv'
  BY <1>1 DEF IInv, NodeInv, NodeTypeOK, FrameOK, IndexedIsLive, SameDimension, RowsKeyed
<1>4. ServerTypeOK'
  BY <1>1, LostAssumption DEF IInv, HandlerInv, ServerTypeOK, Replies
<1>5. RequestOK'
  BY <1>1, <1>2 DEF IInv, HandlerInv, RequestOK, BusyStages
<1>6. FramesMatch' /\ StagesMatch'
  BY <1>1 DEF IInv, HandlerInv, FramesMatch, StagesMatch, Running, Pc
<1>7. OwnersRow'
  BY <1>1 DEF IInv, OwnershipInv, OwnersRow, Owns, NeverDeleted, Pc
<1>8. AckedOwns'
  BY <1>1, <1>2 DEF IInv, OwnershipInv, AckedOwns, Acked, Pc
<1>. QED
  BY <1>3, <1>4, <1>5, <1>6, <1>7, <1>8 DEF IInv, HandlerInv, OwnershipInv

\* A process goes down; with the primary go its handlers, with their answers.
LEMMA ProcessDownInv ==
  ASSUME IInv, NEW n \in Nodes, GoDown(n), NodeInv',
         IF n = Primary THEN PrimaryHandlersDie ELSE UNCHANGED serverVars,
         UNCHANGED <<historyVars, lost>>
  PROVE  IInv'
<1>1. /\ store' = store
      /\ \A m \in Nodes, c \in Calls :
           /\ frame'[m][c].id = frame[m][c].id
           /\ frame'[m][c].art = frame[m][c].art
           /\ m # n \/ ~Running(n, c) => frame'[m][c] = frame[m][c]
           /\ m = n /\ Running(n, c) => frame'[m][c].pc = "failed"
  BY GoDownEffect DEF IInv
<1>2. /\ request' = request /\ saved' = saved
      /\ \A c \in Calls :
           /\ stage'[c] \in {stage[c], "done"} /\ (stage'[c] # stage[c] => Busy(c))
           /\ reply'[c] \in {reply[c], "error"} /\ (reply'[c] # reply[c] => Busy(c))
           /\ n = Primary => ~(stage'[c] \in BusyStages)
           /\ n # Primary => stage'[c] = stage[c]
      /\ stage' \in [Calls -> Stages] /\ reply' \in [Calls -> Replies]
  BY DEF PrimaryHandlersDie, serverVars, Busy, BusyStages, Stages, Replies,
    IInv, HandlerInv, ServerTypeOK
<1>3. ServerTypeOK'
  BY <1>2 DEF IInv, HandlerInv, ServerTypeOK, historyVars
<1>4. RequestOK'
  BY <1>2 DEF IInv, HandlerInv, RequestOK, Busy, BusyStages, Stages
<1>5. \A m \in Nodes, c \in Calls :
        /\ (Pc(m, c)' = "idle") <=> (Pc(m, c) = "idle")
        /\ Pc(m, c)' = Pc(m, c) \/ (Pc(m, c)' = "failed" /\ Running(m, c))
        /\ Running(m, c)' => Running(m, c) /\ m # n
        /\ frame'[m][c].art = frame[m][c].art /\ frame'[m][c].id = frame[m][c].id
  BY <1>1 DEF Pc, Running, RunningPc, InsertPc, DeletePc
<1>6. FramesMatch'
  BY <1>2, <1>5 DEF IInv, HandlerInv, FramesMatch, Pc, Busy, BusyStages, Stages
<1>7. StagesMatch'
  <2> SUFFICES ASSUME NEW c \in Calls
               PROVE  /\ Running(Primary, c)' => stage'[c] \in {"local", "rollback"}
                      /\ request'[c].op = "insert" =>
                           /\ stage'[c] # "lookup"
                           /\ stage'[c] = "local" => frame'[Primary][c].art # Nil
                           /\ stage'[c] \in {"forward", "remote"} =>
                                frame'[Primary][c].art # Nil /\ Pc(Primary, c)' = "ok"
                           /\ Pc(Replica, c)' # "idle" => frame'[Replica][c].art # Nil
                           /\ stage'[c] = "remote" => Pc(Replica, c)' # "idle"
    BY DEF StagesMatch
  <2>1. Running(Primary, c)' => stage'[c] \in {"local", "rollback"}
    BY <1>2, <1>5, TwoNodes DEF IInv, HandlerInv, StagesMatch
  <2>2. Pc(Primary, c) = "ok" => Pc(Primary, c)' = "ok"
    BY <1>5, TwoNodes DEF Running, RunningPc, InsertPc, DeletePc
  <2>. QED
    BY <1>2, <1>5, <2>1, <2>2, TwoNodes DEF IInv, HandlerInv, StagesMatch
<1>8. OwnersRow'
  <2>1. \A m \in Nodes, c \in Calls : Owns(m, c)' => Owns(m, c)
    BY <1>2, <1>5 DEF Owns
  <2>. QED
    BY <1>1, <1>2, <2>1, OwnersShrink DEF IInv, OwnershipInv
<1>9. AckedOwns'
  <2>1. \A m \in Nodes, c \in Calls : Pc(m, c) = "ok" => Pc(m, c)' = "ok"
    BY <1>5 DEF Running, RunningPc, InsertPc, DeletePc
  <2>. QED
    BY <1>2, <1>5, <2>1
    DEF IInv, OwnershipInv, AckedOwns, Acked
<1>. QED
  BY <1>3, <1>4, <1>6, <1>7, <1>8, <1>9 DEF IInv, HandlerInv, OwnershipInv

LEMMA ProcessRestartInv ==
  ASSUME IInv, NEW n \in Nodes, ProcessRestart(n)
  PROVE  IInv'
<1>1. NodeInv'
  BY RestartInv DEF ProcessRestart, IInv
<1>2. UNCHANGED <<store, frame, request, stage, reply, saved, last, alone, lost>>
  BY DEF ProcessRestart, Restart, serverVars, historyVars
<1>3. HandlerInv'
  BY <1>2 DEF IInv, HandlerInv, ServerTypeOK, RequestOK, FramesMatch, StagesMatch,
    Running, Pc
<1>4. OwnershipInv'
  BY <1>2 DEF IInv, OwnershipInv, OwnersRow, AckedOwns, Owns, Acked, NeverDeleted, Pc
<1>. QED
  BY <1>1, <1>3, <1>4 DEF IInv

LEMMA IInvNext == IInv /\ [Next]_vars => IInv'
<1> SUFFICES ASSUME IInv, [Next]_vars PROVE IInv'
  OBVIOUS
<1>1. ASSUME NEW c \in Calls, NEW a \in Articles, ReceiveInsert(c, a) PROVE IInv'
  BY <1>1, ReceiveInsertInv
<1>2. ASSUME NEW c \in Calls, NEW id \in Ids, ReceiveDelete(c, id) PROVE IInv'
  BY <1>2, ReceiveDeleteInv
<1>3. ASSUME NEW c \in Calls, HandlerStep(c) PROVE IInv'
  BY <1>3, HandlerStepInv
<1>4. ASSUME NEW c \in Calls, NEW n \in Nodes, NodeStep(n, c) PROVE IInv'
  BY <1>4, NodeStepInv
<1>5. ASSUME NEW c \in Calls, CallerDisconnects(c) PROVE IInv'
  BY <1>5, CallerDisconnectsInv
<1>6. ASSUME NEW n \in Nodes, ProcessCrash(n) PROVE IInv'
  <2>1. crashes' \in 0..MaxCrashes
    BY <1>6, BoundAssumption DEF ProcessCrash, Crash, IInv, NodeInv, NodeTypeOK
  <2>2. NodeInv'
    BY <1>6, <2>1, GoDownInv DEF ProcessCrash, Crash, IInv
  <2>. QED
    BY <1>6, <2>2, ProcessDownInv DEF ProcessCrash, Crash
<1>7. ASSUME NEW n \in Nodes, ProcessStop(n) PROVE IInv'
  <2>1. NodeInv'
    BY <1>7, GoDownInv DEF ProcessStop, Stop, boundVars, IInv, NodeInv, NodeTypeOK
  <2>2. n = Primary => PrimaryHandlersDie
    BY <1>7 DEF ProcessStop, PrimaryHandlersDie, serverVars, IInv, HandlerInv, ServerTypeOK
  <2>. QED
    BY <1>7, <2>1, <2>2, ProcessDownInv DEF ProcessStop, Stop
<1>8. ASSUME NEW n \in Nodes, ProcessRestart(n) PROVE IInv'
  BY <1>8, ProcessRestartInv
<1>9. CASE UNCHANGED vars
  <2>1. NodeInv'
    BY <1>9 DEF vars, nodeVars, IInv, NodeInv, NodeTypeOK, FrameOK, IndexedIsLive,
      SameDimension, RowsKeyed
  <2>2. HandlerInv'
    BY <1>9 DEF vars, nodeVars, serverVars, historyVars, IInv, HandlerInv, ServerTypeOK,
      RequestOK, FramesMatch, StagesMatch, Running, Pc
  <2>3. OwnershipInv'
    BY <1>9 DEF vars, nodeVars, serverVars, IInv, OwnershipInv, OwnersRow, AckedOwns,
      Owns, Acked, NeverDeleted, Pc
  <2>. QED
    BY <2>1, <2>2, <2>3 DEF IInv
<1>. QED
  BY <1>1, <1>2, <1>3, <1>4, <1>5, <1>6, <1>7, <1>8, <1>9 DEF Next

LEMMA IInvAlways == Spec => []IInv
  BY IInvInit, IInvNext, PTL DEF Spec

-----------------------------------------------------------------------------
(* The last word on an id, which may have been deleted and inserted again: *)
(* nobody but the last call works on the id unless a call overlapped it,   *)
(* so that what its method decided on a node is still there.               *)

\* A method that stands here has put its article, or Nil, into the row.
DecidedPc == {"index_insert", "undo_insert", "index_delete", "ok", "notfound"}

LastKnown ==
  \A id \in Ids : last[id] # Nil => request[last[id]].id = id /\ stage[last[id]] # "idle"

Lonely(id) == last[id] # Nil /\ alone[last[id]]

LonelyOnly ==
  \A id \in Ids, d \in Calls :
    Lonely(id) /\ d # last[id] /\ request[d].id = id => ~Active(d)

LonelyRow ==
  \A id \in Ids, n \in Nodes :
    Lonely(id) /\ Pc(n, last[id]) \in DecidedPc =>
      store[n][id] = frame[n][last[id]].art

\* Where the frames of a delete stand, given the stage of its handler.
DeletesMatch ==
  \A c \in Calls : request[c].op = "delete" =>
    /\ frame[Replica][c].art = Nil
    /\ stage[c] \in {"lookup", "local", "forward", "remote"} => frame[Primary][c].art = Nil
    /\ stage[c] \in {"forward", "remote"} => Pc(Primary, c) = "ok"

\* Who got an ok for a delete has deleted on both nodes, and does nothing more.
AckedGone ==
  \A c \in Calls : Acked(c, "delete") =>
    /\ stage[c] = "done"
    /\ \A n \in Nodes : Pc(n, c) \in {"ok", "notfound"} /\ frame[n][c].art = Nil

LastInv == LastKnown /\ LonelyOnly /\ LonelyRow /\ DeletesMatch /\ AckedGone

LEMMA LastInvInit == Init => LastInv
<1> SUFFICES ASSUME Init PROVE LastInv
  OBVIOUS
<1>1. LastKnown /\ LonelyOnly /\ LonelyRow
  BY DEF Init, LastKnown, LonelyOnly, LonelyRow, Lonely
<1>2. DeletesMatch /\ AckedGone
  BY DEF Init, DeletesMatch, AckedGone, Acked, NoRequest
<1>. QED
  BY <1>1, <1>2 DEF LastInv

\* A step that writes no row, decides none, and wakes no call up.
LEMMA LonelyStays ==
  ASSUME LastKnown, LonelyOnly, LonelyRow, UNCHANGED <<store, request, last, alone>>,
         ServerTypeOK,
         \A c \in Calls : (stage'[c] = "idle" => stage[c] = "idle") /\ (Active(c)' => Active(c)),
         \A n \in Nodes, c \in Calls :
           frame'[n][c] = frame[n][c] \/ frame'[n][c].pc \notin DecidedPc
  PROVE  LastKnown' /\ LonelyOnly' /\ LonelyRow'
<1>0. \A id \in Ids : last[id] # Nil => last[id] \in Calls
  BY DEF ServerTypeOK
<1>1. LastKnown'
  BY <1>0 DEF LastKnown
<1>2. LonelyOnly'
  <2> SUFFICES ASSUME NEW id \in Ids, NEW d \in Calls, Lonely(id), d # last[id],
                      request[d].id = id
               PROVE  ~Active(d)'
    BY DEF LonelyOnly, Lonely
  <2>. QED
    BY DEF LonelyOnly
<1>3. LonelyRow'
  BY <1>0 DEF LonelyRow, Lonely, Pc
<1>. QED
  BY <1>1, <1>2, <1>3

\* A call that is received wakes nobody else, and has decided nothing.
LEMMA LonelyStarts ==
  ASSUME LastKnown, LonelyOnly, LonelyRow, HandlerInv, NEW c \in Calls, NEW x \in Ids,
         stage[c] = "idle", stage'[c] # "idle", request'[c].id = x, NoteStart(c, x),
         store' = store,
         \A d \in Calls : d # c =>
           /\ stage'[d] = stage[d] /\ request'[d] = request[d]
           /\ \A n \in Nodes : frame'[n][d] = frame[n][d],
         \A n \in Nodes : frame'[n][c].pc \notin DecidedPc
  PROVE  LastKnown' /\ LonelyOnly' /\ LonelyRow'
<1>1. /\ \A id \in Ids : last'[id] = IF id = x THEN c ELSE last[id]
      /\ alone'[c] => \A d \in Calls \ {c} : request[d].id = x => ~Active(d)
      /\ \A d \in Calls : d # c /\ alone'[d] => alone[d]
  BY DEF NoteStart, HandlerInv, ServerTypeOK
<1>2. \A id \in Ids : last[id] # Nil => last[id] \in Calls /\ last[id] # c
  BY DEF LastKnown, HandlerInv, ServerTypeOK
<1>3. \A d \in Calls : d # c => (Active(d)' <=> Active(d))
  BY TwoNodes DEF Active, Busy, Running, Pc
<1>4. LastKnown'
  BY <1>1, <1>2 DEF LastKnown
<1>5. \A id \in Ids : id # x /\ Lonely(id)' => Lonely(id)
  BY <1>1, <1>2 DEF Lonely
<1>6. LonelyOnly'
  <2> SUFFICES ASSUME NEW id \in Ids, NEW d \in Calls, Lonely(id)', d # last'[id],
                      request'[d].id = id
               PROVE  ~Active(d)'
    BY DEF LonelyOnly
  <2>1. CASE id = x
    BY <1>1, <1>3, <2>1 DEF Lonely
  <2>2. CASE id # x
    BY <1>1, <1>3, <1>5, <2>2 DEF LonelyOnly
  <2>. QED
    BY <2>1, <2>2
<1>7. LonelyRow'
  <2> SUFFICES ASSUME NEW id \in Ids, NEW n \in Nodes, Lonely(id)',
                      Pc(n, last[id])' \in DecidedPc
               PROVE  store'[n][id] = frame'[n][last'[id]].art
    BY DEF LonelyRow
  <2>1. id # x
    BY <1>1 DEF Pc
  <2>2. last'[id] = last[id] /\ last[id] \in Calls /\ last[id] # c /\ Lonely(id)
    BY <1>1, <1>2, <1>5, <2>1 DEF Lonely
  <2>. QED
    BY <2>2 DEF LonelyRow, Pc
<1>. QED
  BY <1>4, <1>6, <1>7

\* What a step of a handler does to its call; it touches no other.
LEMMA HandlerEffect ==
  ASSUME IInv, NEW c \in Calls, HandlerStep(c)
  PROVE  /\ Busy(c) /\ stage'[c] # "idle" /\ UNCHANGED <<store, request, last, alone>>
         /\ \A d \in Calls : d # c =>
              /\ stage'[d] = stage[d] /\ reply'[d] = reply[d]
              /\ \A n \in Nodes : frame'[n][d] = frame[n][d]
         /\ \A n \in Nodes : frame'[n][c] = frame[n][c]
                             \/ frame'[n][c].pc \in {"store_get", "store_insert"}
         /\ \/ /\ stage'[c] = "done" /\ \A n \in Nodes : frame'[n][c] = frame[n][c]
               /\ reply'[c] = "ok" => reply[c] = "ok" \/
                    (stage[c] = "remote" /\ Pc(Replica, c) \in {"ok", "notfound"})
            \/ /\ stage[c] = "lookup" /\ stage'[c] = "local" /\ reply'[c] = reply[c]
               /\ store[Primary][request[c].id] # Nil
               /\ frame'[Primary][c].art = Nil /\ frame'[Replica][c] = frame[Replica][c]
            \/ /\ stage[c] = "local" /\ stage'[c] = "forward" /\ reply'[c] = reply[c]
               /\ \A n \in Nodes : frame'[n][c] = frame[n][c]
               /\ Pc(Primary, c) = "ok"
            \/ /\ stage[c] = "forward" /\ stage'[c] = "remote" /\ reply'[c] = reply[c]
               /\ request[c].op = "delete" => frame'[Replica][c].art = Nil
               /\ frame'[Primary][c] = frame[Primary][c]
            \/ /\ stage[c] \in {"forward", "remote"}
               /\ stage'[c] = "rollback" /\ reply'[c] = reply[c]
               /\ frame'[Replica][c] = frame[Replica][c]
<1>0. /\ stage \in [Calls -> Stages] /\ reply \in [Calls -> Replies]
      /\ frame \in [Nodes -> [Calls -> Frame]]
  BY DEF IInv, HandlerInv, ServerTypeOK, NodeInv, NodeTypeOK
<1> USE DEF Busy, BusyStages, Stages, Return, Advance, historyVars, nodeVars, Pc
<1>1. CASE Lookup(c)
  <2>1. stage[c] = "lookup" /\ UNCHANGED <<store, request, last, alone>>
    BY <1>1 DEF Lookup
  <2>2. CASE Return(c, "notfound") /\ UNCHANGED frame
    BY <1>0, <2>1, <2>2
  <2>3. CASE /\ stage' = [stage EXCEPT ![c] = "local"]
             /\ store[Primary][request[c].id] # Nil
             /\ Enter(Primary, c, DeleteFrame(request[c].id)) /\ UNCHANGED reply
    BY <1>0, <2>1, <2>3, TwoNodes, EnterFrames DEF DeleteFrame
  <2>. QED
    BY <1>1, <2>2, <2>3 DEF Lookup
<1>2. CASE LookupError(c)
  BY <1>0, <1>2 DEF LookupError
<1>3. CASE LocalDone(c)
  BY <1>0, <1>3 DEF LocalDone, ResultPc
<1>4. CASE Forward(c)
  <2>1. /\ stage[c] = "forward" /\ stage' = [stage EXCEPT ![c] = "remote"]
        /\ Enter(Replica, c, FrameOf(request[c]))
        /\ UNCHANGED <<store, request, reply, last, alone>>
    BY <1>4 DEF Forward
  <2>2. /\ FrameOf(request[c]).pc \in {"store_get", "store_insert"}
        /\ request[c].op = "delete" => FrameOf(request[c]).art = Nil
    BY DEF FrameOf, InsertFrame, DeleteFrame
  <2>. QED
    BY <1>0, <2>1, <2>2, TwoNodes, EnterFrames
<1>5. CASE RemoteDone(c)
  BY <1>0, <1>5 DEF RemoteDone
<1>6. CASE RemoteFailed(c) \/ ReplicaUnreachable(c)
  <2> DEFINE f == IF request[c].op = "insert" THEN DeleteFrame(request[c].id)
                                              ELSE InsertFrame(saved[c])
  <2>1. /\ stage[c] \in {"forward", "remote"} /\ stage' = [stage EXCEPT ![c] = "rollback"]
        /\ Enter(Primary, c, f)
        /\ UNCHANGED <<store, request, reply, last, alone>>
    BY <1>6 DEF RemoteFailed, ReplicaUnreachable, StartRollback
  <2>2. f.pc \in {"store_get", "store_insert"}
    BY DEF InsertFrame, DeleteFrame
  <2> HIDE DEF f
  <2>. QED
    BY <1>0, <2>1, <2>2, TwoNodes, EnterFrames
<1>7. CASE RollbackDone(c)
  BY <1>0, <1>7 DEF RollbackDone
<1>. QED
  BY <1>1, <1>2, <1>3, <1>4, <1>5, <1>6, <1>7 DEF HandlerStep

LEMMA HandlerLast ==
  ASSUME IInv, LastInv, NEW c \in Calls, HandlerStep(c)
  PROVE  LastInv'
<1>1. /\ Busy(c) /\ stage'[c] # "idle" /\ UNCHANGED <<store, request, last, alone>>
      /\ \A d \in Calls : d # c =>
           /\ stage'[d] = stage[d] /\ reply'[d] = reply[d]
           /\ \A n \in Nodes : frame'[n][d] = frame[n][d]
      /\ \A n \in Nodes : frame'[n][c] = frame[n][c]
                          \/ frame'[n][c].pc \in {"store_get", "store_insert"}
  BY HandlerEffect
<1>2. LastKnown' /\ LonelyOnly' /\ LonelyRow'
  <2>1. \A d \in Calls : (stage'[d] = "idle" => stage[d] = "idle") /\ (Active(d)' => Active(d))
    BY <1>1, TwoNodes DEF Active, Busy, Running, Pc
  <2>2. \A n \in Nodes, d \in Calls :
          frame'[n][d] = frame[n][d] \/ frame'[n][d].pc \notin DecidedPc
    BY <1>1 DEF DecidedPc
  <2>. QED
    BY <1>1, <2>1, <2>2, LonelyStays DEF LastInv, IInv, HandlerInv
<1>3. stage[c] \in BusyStages /\ ~(request[c].op = "delete" /\ reply[c] = "ok")
  BY <1>1 DEF Busy, BusyStages, LastInv, AckedGone, Acked
<1>4. DeletesMatch'
  <2> SUFFICES ASSUME NEW d \in Calls, request[d].op = "delete"
               PROVE  /\ frame'[Replica][d].art = Nil
                      /\ stage'[d] \in {"lookup", "local", "forward", "remote"} =>
                           frame'[Primary][d].art = Nil
                      /\ stage'[d] \in {"forward", "remote"} => Pc(Primary, d)' = "ok"
    BY <1>1 DEF DeletesMatch
  <2>1. CASE d # c
    BY <1>1, <2>1, TwoNodes DEF LastInv, DeletesMatch, Pc
  <2>2. CASE d = c
    BY <1>3, <2>2, HandlerEffect, TwoNodes DEF LastInv, DeletesMatch, Pc
  <2>. QED
    BY <2>1, <2>2
<1>5. AckedGone'
  <2> SUFFICES ASSUME NEW d \in Calls, request[d].op = "delete", reply'[d] = "ok"
               PROVE  /\ stage'[d] = "done"
                      /\ \A n \in Nodes :
                           Pc(n, d)' \in {"ok", "notfound"} /\ frame'[n][d].art = Nil
    BY <1>1 DEF AckedGone, Acked
  <2>1. CASE d # c
    BY <1>1, <2>1 DEF LastInv, AckedGone, Acked, Pc
  <2>2. CASE d = c
    <3>1. /\ stage'[c] = "done" /\ \A n \in Nodes : frame'[n][c] = frame[n][c]
          /\ stage[c] = "remote" /\ Pc(Replica, c) \in {"ok", "notfound"}
      BY <1>3, <2>2, HandlerEffect
    <3>. QED
      BY <2>2, <3>1, TwoNodes DEF LastInv, DeletesMatch, Pc
  <2>. QED
    BY <2>1, <2>2
<1>. QED
  BY <1>2, <1>4, <1>5 DEF LastInv

LEMMA ReceiveLast ==
  ASSUME IInv, LastInv, NEW c \in Calls, NEW id \in Ids,
         ReceiveDelete(c, id) \/ \E a \in Articles : a.id = id /\ ReceiveInsert(c, a)
  PROVE  LastInv'
<1>0. frame \in [Nodes -> [Calls -> Frame]] /\ request \in [Calls -> Request]
      /\ stage \in [Calls -> Stages]
  BY DEF IInv, HandlerInv, ServerTypeOK, NodeInv, NodeTypeOK
<1>1. stage[c] = "idle" /\ NoteStart(c, id) /\ store' = store /\ reply' = reply
  BY DEF ReceiveDelete, ReceiveInsert, CanCall, nodeVars
<1>2. /\ request'[c].id = id /\ stage'[c] \in {"lookup", "local"}
      /\ \A d \in Calls : d # c => stage'[d] = stage[d] /\ request'[d] = request[d]
  BY <1>0 DEF ReceiveDelete, ReceiveInsert, InsertRequest, DeleteRequest
<1>3. /\ reply[c] = "none"
      /\ \A n \in Nodes : Pc(n, c) = "idle" /\ frame[n][c].art = Nil
  BY <1>1 DEF IInv, HandlerInv, RequestOK, FramesMatch, Pc
<1>4. /\ \A n \in Nodes, d \in Calls : d # c => frame'[n][d] = frame[n][d]
      /\ \A n \in Nodes : frame'[n][c].pc \in {"idle", "store_insert"}
      /\ request'[c].op = "delete" => frame' = frame
  <2>1. CASE ReceiveDelete(c, id)
    BY <1>3, <2>1 DEF ReceiveDelete, nodeVars, Pc
  <2>2. CASE \E a \in Articles : a.id = id /\ ReceiveInsert(c, a)
    <3>1. PICK a \in Articles : a.id = id /\ ReceiveInsert(c, a)
      BY <2>2
    <3>2. Enter(Primary, c, InsertFrame(a)) /\ request'[c].op = "insert"
      BY <1>0, <3>1 DEF ReceiveInsert, InsertRequest
    <3>. QED
      BY <1>0, <1>3, <3>2, TwoNodes, EnterFrames DEF InsertFrame, Pc
  <2>. QED
    BY <2>1, <2>2
<1>5. LastKnown' /\ LonelyOnly' /\ LonelyRow'
  <2>1. \A n \in Nodes : frame'[n][c].pc \notin DecidedPc
    BY <1>4 DEF DecidedPc
  <2>. QED
    BY <1>1, <1>2, <1>4, <2>1, LonelyStarts DEF LastInv, IInv
<1>6. DeletesMatch'
  <2> SUFFICES ASSUME NEW d \in Calls, request'[d].op = "delete"
               PROVE  /\ frame'[Replica][d].art = Nil
                      /\ stage'[d] \in {"lookup", "local", "forward", "remote"} =>
                           frame'[Primary][d].art = Nil
                      /\ stage'[d] \in {"forward", "remote"} => Pc(Primary, d)' = "ok"
    BY DEF DeletesMatch
  <2>1. CASE d # c
    BY <1>2, <1>4, <2>1, TwoNodes DEF LastInv, DeletesMatch, Pc
  <2>2. CASE d = c
    BY <1>2, <1>3, <1>4, <2>2, TwoNodes
  <2>. QED
    BY <2>1, <2>2
<1>7. AckedGone'
  BY <1>1, <1>2, <1>3, <1>4 DEF LastInv, AckedGone, Acked, Pc
<1>. QED
  BY <1>5, <1>6, <1>7 DEF LastInv

\* A method works on the row of its own call, which nobody else does if it is
\* the last one and alone.
LEMMA NodeStepLast ==
  ASSUME IInv, LastInv, NEW n \in Nodes, NEW c \in Calls, NodeStep(n, c)
  PROVE  LastInv'
<1>1. NodeInv /\ MethodStep(n, c) /\ UNCHANGED <<request, stage, reply, last, alone>>
  BY DEF IInv, NodeStep, serverVars, historyVars
<1>2. /\ Running(n, c) /\ Pc(n, c)' \in RunningPc \cup ResultPc
      /\ \A m \in Nodes, d \in Calls :
           /\ frame'[m][d].id = frame[m][d].id
           /\ frame'[m][d].art = frame[m][d].art
           /\ ~(m = n /\ d = c) => frame'[m][d] = frame[m][d]
  BY <1>1, MethodStepEffect
<1>3. Pc(n, c) \notin {"idle", "ok", "notfound"} /\ Active(c)
  BY <1>2, TwoNodes DEF Running, RunningPc, InsertPc, DeletePc, Active
<1>4. frame[n][c].id = request[c].id /\ request[c].id \in Ids
  BY <1>3 DEF IInv, HandlerInv, FramesMatch, RequestOK, Pc
<1>5. \A d \in Calls : Active(d)' => Active(d)
  BY <1>1, <1>2, <1>3, TwoNodes DEF Active, Busy, Running, Pc
<1>6. LastKnown' /\ LonelyOnly'
  BY <1>1, <1>5 DEF LastInv, LastKnown, LonelyOnly, Lonely
<1>7. DeletesMatch' /\ AckedGone'
  BY <1>1, <1>2, <1>3, TwoNodes DEF LastInv, DeletesMatch, AckedGone, Acked, Pc
<1>8. /\ Pc(n, c) \in InsertPc => frame[n][c].art \in Articles
      /\ Pc(n, c) \in DeletePc => frame[n][c].art = Nil
  BY <1>1 DEF NodeInv, FrameOK, Pc
<1>9. /\ \A m \in Nodes, id \in Ids : ~(m = n /\ id = request[c].id) =>
           store'[m][id] = store[m][id]
      /\ Pc(n, c)' \in DecidedPc =>
           \/ store' = store /\ Pc(n, c) \in DecidedPc
           \/ store'[n][request[c].id] = frame[n][c].art
  <2> DEFINE x == request[c].id
  <2>1. CASE /\ store' = store
             /\ Pc(n, c)' \in {"index_insert", "undo_insert"} => Pc(n, c) = "index_insert"
             /\ Pc(n, c)' = "ok" => Pc(n, c) \in {"index_insert", "index_delete"}
             /\ Pc(n, c)' = "notfound" =>
                  Pc(n, c) = "index_delete" \/ (Pc(n, c) = "store_get" /\ Row(n, c) = Nil)
             /\ Pc(n, c)' \notin {"store_insert", "index_delete"}
    BY <1>4, <1>8, <2>1 DEF DecidedPc, Row, DeletePc
  <2>2. CASE Pc(n, c) = "store_insert" /\ SetRow(n, c, frame[n][c].art)
    BY <1>1, <1>4, <2>2 DEF SetRow, NodeInv, NodeTypeOK
  <2>3. CASE /\ Pc(n, c)' \in {"failed", "index_delete"}
             /\ Pc(n, c)' = "index_delete" => Pc(n, c) = "store_delete"
             /\ SetRow(n, c, Nil)
    <3>1. \A m \in Nodes, id \in Ids :
            store'[m][id] = IF m = n /\ id = x THEN Nil ELSE store[m][id]
      BY <1>1, <1>4, <2>3 DEF SetRow, NodeInv, NodeTypeOK
    <3>. QED
      BY <1>4, <1>8, <2>3, <3>1 DEF DecidedPc, DeletePc
  <2>. QED
    BY <1>1, <2>1, <2>2, <2>3, MethodStepEffect
<1>10. LonelyRow'
  <2> SUFFICES ASSUME NEW id \in Ids, NEW m \in Nodes, Lonely(id), last[id] \in Calls,
                      frame'[m][last[id]].pc \in DecidedPc
               PROVE  store'[m][id] = frame'[m][last[id]].art
    BY <1>1 DEF LonelyRow, Lonely, Pc, IInv, HandlerInv, ServerTypeOK
  <2>1. Pc(m, last[id]) \in DecidedPc => store[m][id] = frame[m][last[id]].art
    BY DEF LastInv, LonelyRow
  <2>2. CASE last[id] = c
    <3>1. id = request[c].id
      BY <2>2 DEF LastInv, LastKnown, Lonely
    <3>. QED
      BY <1>2, <1>9, <2>1, <2>2, <3>1 DEF Pc
  <2>3. CASE last[id] # c
    <3>1. id # request[c].id
      BY <1>3, <2>3 DEF LastInv, LonelyOnly
    <3>. QED
      BY <1>2, <1>9, <2>1, <2>3, <3>1 DEF Pc
  <2>. QED
    BY <2>2, <2>3
<1>. QED
  BY <1>6, <1>7, <1>10 DEF LastInv

\* A process that goes down writes nothing, and takes back no ok.
LEMMA ProcessDownLast ==
  ASSUME IInv, LastInv, NEW n \in Nodes, GoDown(n),
         IF n = Primary THEN PrimaryHandlersDie ELSE UNCHANGED serverVars,
         UNCHANGED <<historyVars, lost>>
  PROVE  LastInv'
<1>1. /\ store' = store
      /\ \A m \in Nodes, c \in Calls :
           /\ frame'[m][c].art = frame[m][c].art
           /\ frame'[m][c] = frame[m][c] \/
                (m = n /\ Running(m, c) /\ frame'[m][c].pc = "failed")
  BY GoDownEffect DEF IInv
<1>2. /\ UNCHANGED <<request, last, alone>>
      /\ \A c \in Calls :
           /\ stage'[c] \in {stage[c], "done"} /\ (stage'[c] # stage[c] => Busy(c))
           /\ reply'[c] \in {reply[c], "error"}
           /\ n = Primary => stage'[c] \notin BusyStages
  BY DEF PrimaryHandlersDie, serverVars, historyVars, Busy, BusyStages, Stages,
    IInv, HandlerInv, ServerTypeOK
<1>3. LastKnown' /\ LonelyOnly' /\ LonelyRow'
  <2>1. \A c \in Calls : (stage'[c] = "idle" => stage[c] = "idle") /\ (Active(c)' => Active(c))
    BY <1>1, <1>2, TwoNodes DEF Active, Busy, BusyStages, Running, Pc, RunningPc, InsertPc, DeletePc
  <2>2. \A m \in Nodes, c \in Calls :
          frame'[m][c] = frame[m][c] \/ frame'[m][c].pc \notin DecidedPc
    BY <1>1 DEF DecidedPc
  <2>. QED
    BY <1>1, <1>2, <2>1, <2>2, LonelyStays DEF LastInv, IInv, HandlerInv
<1>4. \A m \in Nodes, c \in Calls :
        Pc(m, c) \in {"ok", "notfound"} => Pc(m, c)' = Pc(m, c)
  BY <1>1 DEF Running, Pc, RunningPc, InsertPc, DeletePc
<1>5. DeletesMatch'
  BY <1>1, <1>2, <1>4, TwoNodes DEF LastInv, DeletesMatch, BusyStages, Stages
<1>6. AckedGone'
  BY <1>1, <1>2, <1>4 DEF LastInv, AckedGone, Acked
<1>. QED
  BY <1>3, <1>5, <1>6 DEF LastInv

LEMMA LastInvNext == IInv /\ LastInv /\ [Next]_vars => LastInv'
<1> SUFFICES ASSUME IInv, LastInv, [Next]_vars PROVE LastInv'
  OBVIOUS
<1>1. ASSUME NEW c \in Calls, NEW a \in Articles, ReceiveInsert(c, a) PROVE LastInv'
  BY <1>1, ReceiveLast, ArticleAssumption
<1>2. ASSUME NEW c \in Calls, NEW id \in Ids, ReceiveDelete(c, id) PROVE LastInv'
  BY <1>2, ReceiveLast
<1>3. ASSUME NEW c \in Calls, HandlerStep(c) PROVE LastInv'
  BY <1>3, HandlerLast
<1>4. ASSUME NEW c \in Calls, NEW n \in Nodes, NodeStep(n, c) PROVE LastInv'
  BY <1>4, NodeStepLast
<1>5. ASSUME NEW n \in Nodes, ProcessCrash(n) \/ ProcessStop(n) PROVE LastInv'
  <2>1. GoDown(n) /\ UNCHANGED <<historyVars, lost>>
    BY <1>5 DEF ProcessCrash, ProcessStop, Crash, Stop
  <2>2. IF n = Primary THEN PrimaryHandlersDie ELSE UNCHANGED serverVars
    <3>1. CASE ProcessCrash(n)
      BY <3>1 DEF ProcessCrash
    <3>2. CASE ProcessStop(n)
      BY <3>2 DEF ProcessStop, PrimaryHandlersDie, serverVars, IInv, HandlerInv, ServerTypeOK
    <3>. QED
      BY <1>5, <3>1, <3>2
  <2>. QED
    BY <2>1, <2>2, ProcessDownLast
<1>6. CASE (\E c \in Calls : CallerDisconnects(c)) \/ (\E n \in Nodes : ProcessRestart(n))
           \/ UNCHANGED vars
  <2>1. /\ UNCHANGED <<store, frame, request, stage, last, alone>>
        /\ \A c \in Calls : reply'[c] = reply[c] \/ reply'[c] # "ok"
    BY <1>6 DEF CallerDisconnects, ProcessRestart, Restart, vars, nodeVars, serverVars,
      historyVars, IInv, HandlerInv, ServerTypeOK
  <2>2. LastKnown' /\ LonelyOnly' /\ LonelyRow' /\ DeletesMatch' /\ AckedGone'
    BY <2>1 DEF LastInv, LastKnown, LonelyOnly, LonelyRow, Lonely, DeletesMatch, AckedGone,
      Acked, Active, Busy, Running, Pc
  <2>. QED
    BY <2>2 DEF LastInv
<1>. QED
  BY <1>1, <1>2, <1>3, <1>4, <1>5, <1>6 DEF Next

LEMMA LastInvAlways == Spec => []LastInv
  BY IInvInit, IInvNext, LastInvInit, LastInvNext, PTL DEF Spec

-----------------------------------------------------------------------------
(* Deletes converge.  While no connection breaks, a handler gives up on    *)
(* the replica only if it is down or has failed, so once the replica works *)
(* on a delete the primary has done its part and does not undo it unless   *)
(* the replica fails.                                                      *)

Connected == \A c \in Calls : Busy(c) => reply[c] = "none"

\* The replica works on delete c, or has not failed to.
Reached(c) == request[c].op = "delete" /\ Pc(Replica, c) \notin {"idle", "failed"}
PrimaryDone(c) ==
  /\ stage[c] \in {"remote", "done"}
  /\ Pc(Primary, c) = "ok" /\ frame[Primary][c].art = Nil

ReachInv == lost = 0 => Connected /\ \A c \in Calls : Reached(c) => PrimaryDone(c)

LEMMA ReachInvInit == Init => ReachInv
  BY TwoNodes DEF Init, NodeInit, ReachInv, Connected, Reached, Busy, BusyStages, Stages, Pc,
    IdleFrame

LEMMA HandlerReach ==
  ASSUME IInv, LastInv, ReachInv, NEW c \in Calls, HandlerStep(c)
  PROVE  ReachInv'
<1> SUFFICES ASSUME lost' = 0
             PROVE  (Connected /\ \A d \in Calls : Reached(d) => PrimaryDone(d))'
  BY DEF ReachInv
<1>0. stage \in [Calls -> Stages] /\ frame \in [Nodes -> [Calls -> Frame]]
  BY DEF IInv, HandlerInv, ServerTypeOK, NodeInv, NodeTypeOK
<1>1. lost \in Nat /\ (lost' = lost \/ lost' = lost + 1)
  <2>1. lost \in Nat
    BY LostAssumption DEF IInv, HandlerInv, ServerTypeOK
  <2>2. CASE ReplicaUnreachable(c)
    BY <2>1, <2>2 DEF ReplicaUnreachable
  <2>3. CASE ~ReplicaUnreachable(c)
    BY <2>1, <2>3 DEF HandlerStep, Lookup, LookupError, LocalDone, Forward, RemoteDone,
      RemoteFailed, RollbackDone
  <2>. QED
    BY <2>2, <2>3
<1>2. Connected /\ \A d \in Calls : Reached(d) => PrimaryDone(d)
  BY <1>1 DEF ReachInv
<1>3. /\ Busy(c) /\ UNCHANGED <<request, store>>
      /\ \A d \in Calls : d # c =>
           /\ stage'[d] = stage[d] /\ reply'[d] = reply[d]
           /\ \A n \in Nodes : frame'[n][d] = frame[n][d]
  BY HandlerEffect
<1>4. Connected'
  <2> SUFFICES ASSUME NEW d \in Calls, Busy(d)'
               PROVE  reply'[d] = "none"
    BY DEF Connected
  <2>1. d = c => reply'[c] = reply[c]
    BY HandlerEffect DEF Busy, BusyStages
  <2>2. reply'[d] = reply[d] /\ Busy(d)
    BY <1>3, <2>1 DEF Busy
  <2>. QED
    BY <1>2, <2>2 DEF Connected
<1>5. \A d \in Calls : d # c /\ Reached(d)' => PrimaryDone(d)'
  BY <1>2, <1>3, TwoNodes DEF Reached, PrimaryDone, Pc
<1>6. ASSUME Reached(c)'
      PROVE  PrimaryDone(c)'
  <2>1. request[c].op = "delete" /\ frame'[Replica][c].pc \notin {"idle", "failed"}
    BY <1>3, <1>6 DEF Reached, Pc
  <2>2. CASE Forward(c)
    <3>1. /\ stage[c] = "forward" /\ stage'[c] = "remote"
          /\ frame'[Primary][c] = frame[Primary][c]
      BY <1>0, <2>2, TwoNodes, EnterFrames DEF Forward, Advance
    <3>. QED
      BY <2>1, <3>1 DEF LastInv, DeletesMatch, PrimaryDone, Pc
  <2>3. CASE ~Forward(c)
    <3>1. frame'[Replica][c] = frame[Replica][c]
      <4>1. frame' = frame \/ \E f : Enter(Primary, c, f)
        BY <2>3 DEF HandlerStep, Lookup, LookupError, LocalDone, RemoteDone, RemoteFailed,
          ReplicaUnreachable, StartRollback, RollbackDone, nodeVars
      <4>. QED
        BY <1>0, <4>1, TwoNodes, EnterFrames
    <3>2. PrimaryDone(c) /\ stage[c] = "remote"
      BY <1>2, <1>3, <2>1, <3>1 DEF Reached, PrimaryDone, Pc, Busy, BusyStages
    <3>3. ~RemoteFailed(c) /\ ~ReplicaUnreachable(c)
      BY <1>1, <1>2, <1>3, <2>1, <3>1, <3>2
      DEF RemoteFailed, ReplicaUnreachable, Connected, Pc
    <3>4. RemoteDone(c)
      BY <2>3, <3>2, <3>3
      DEF HandlerStep, Lookup, LookupError, LocalDone, RollbackDone
    <3>5. stage'[c] = "done" /\ frame' = frame
      BY <3>4 DEF RemoteDone, Return, nodeVars, IInv, HandlerInv, ServerTypeOK
    <3>. QED
      BY <3>2, <3>5 DEF PrimaryDone, Pc
  <2>. QED
    BY <2>2, <2>3
<1>. QED
  BY <1>4, <1>5, <1>6

LEMMA ReachInvNext == IInv /\ LastInv /\ ReachInv /\ [Next]_vars => ReachInv'
<1> SUFFICES ASSUME IInv, LastInv, ReachInv, [Next]_vars PROVE ReachInv'
  OBVIOUS
<1>0. /\ frame \in [Nodes -> [Calls -> Frame]] /\ request \in [Calls -> Request]
      /\ stage \in [Calls -> Stages] /\ lost \in Nat
  BY LostAssumption DEF IInv, HandlerInv, ServerTypeOK, NodeInv, NodeTypeOK
<1>1. ASSUME NEW c \in Calls, \/ \E a \in Articles : ReceiveInsert(c, a)
                              \/ \E id \in Ids : ReceiveDelete(c, id)
      PROVE  ReachInv'
  <2>1. /\ stage[c] = "idle" /\ lost' = lost /\ reply' = reply
        /\ \A d \in Calls : d # c =>
             /\ stage'[d] = stage[d] /\ request'[d] = request[d]
             /\ \A n \in Nodes : frame'[n][d] = frame[n][d]
        /\ frame'[Replica][c] = frame[Replica][c]
    BY <1>0, <1>1, TwoNodes, EnterFrames DEF ReceiveInsert, ReceiveDelete, CanCall, nodeVars
  <2>2. reply[c] = "none" /\ frame'[Replica][c].pc = "idle"
    BY <2>1, TwoNodes DEF IInv, HandlerInv, RequestOK, FramesMatch
  <2>. QED
    BY <2>1, <2>2, TwoNodes DEF ReachInv, Connected, Reached, PrimaryDone, Busy, Pc
<1>2. ASSUME NEW c \in Calls, HandlerStep(c) PROVE ReachInv'
  BY <1>2, HandlerReach
<1>3. ASSUME NEW c \in Calls, NEW n \in Nodes, NodeStep(n, c) PROVE ReachInv'
  <2>1. /\ UNCHANGED <<request, stage, reply, lost>> /\ Running(n, c)
        /\ \A m \in Nodes, d \in Calls :
             /\ frame'[m][d].art = frame[m][d].art
             /\ ~(m = n /\ d = c) => frame'[m][d] = frame[m][d]
    BY <1>3, MethodStepEffect DEF NodeStep, serverVars, IInv
  <2>2. Pc(n, c) \notin {"idle", "failed", "ok"}
    BY <2>1 DEF Running, RunningPc, InsertPc, DeletePc
  <2>3. ASSUME lost = 0, NEW d \in Calls, Reached(d)'
        PROVE  PrimaryDone(d)'
    <3>1. Reached(d)
      BY <2>1, <2>2, <2>3, TwoNodes DEF Reached, Pc
    <3>2. PrimaryDone(d) /\ ~(n = Primary /\ d = c)
      BY <2>2, <2>3, <3>1 DEF ReachInv, PrimaryDone
    <3>. QED
      BY <2>1, <3>2, TwoNodes DEF PrimaryDone, Pc
  <2>. QED
    BY <2>1, <2>3 DEF ReachInv, Connected, Busy
<1>4. ASSUME NEW c \in Calls, CallerDisconnects(c) PROVE ReachInv'
  BY <1>0, <1>4 DEF CallerDisconnects, ReachInv
<1>5. ASSUME NEW n \in Nodes, ProcessCrash(n) \/ ProcessStop(n) PROVE ReachInv'
  <2>1. GoDown(n) /\ UNCHANGED lost
        /\ (UNCHANGED serverVars \/ PrimaryHandlersDie)
    BY <1>5 DEF ProcessCrash, ProcessStop, Crash, Stop
  <2>2. \A m \in Nodes, d \in Calls :
          /\ frame'[m][d].art = frame[m][d].art
          /\ frame'[m][d] = frame[m][d] \/ (Running(m, d) /\ frame'[m][d].pc = "failed")
    BY <2>1, GoDownEffect DEF IInv
  <2>3. /\ request' = request
        /\ \A d \in Calls : /\ stage'[d] \in {stage[d], "done"}
                            /\ Busy(d)' => Busy(d) /\ reply'[d] = reply[d]
    BY <1>0, <2>1 DEF PrimaryHandlersDie, serverVars, Busy, BusyStages, Stages
  <2>4. ASSUME lost = 0, NEW d \in Calls, Reached(d)'
        PROVE  PrimaryDone(d)'
    <3>1. frame'[Replica][d] = frame[Replica][d] /\ Reached(d)
      BY <2>2, <2>3, <2>4, TwoNodes DEF Reached, Pc
    <3>2. PrimaryDone(d)
      BY <2>4, <3>1 DEF ReachInv
    <3>3. frame'[Primary][d] = frame[Primary][d]
      BY <2>2, <3>2, TwoNodes DEF PrimaryDone, Running, Pc, RunningPc, InsertPc, DeletePc
    <3>. QED
      BY <2>3, <3>2, <3>3 DEF PrimaryDone, Pc
  <2>. QED
    BY <2>1, <2>3, <2>4 DEF ReachInv, Connected
<1>6. CASE (\E n \in Nodes : ProcessRestart(n)) \/ UNCHANGED vars
  <2>1. UNCHANGED <<frame, request, stage, reply, lost>>
    BY <1>6 DEF ProcessRestart, Restart, vars, nodeVars, serverVars
  <2>. QED
    BY <2>1 DEF ReachInv, Connected, Reached, PrimaryDone, Busy, Pc
<1>. QED
  BY <1>1, <1>2, <1>3, <1>4, <1>5, <1>6 DEF Next

-----------------------------------------------------------------------------
(* The theorems. *)

\* Every variable of the pair keeps its type, whatever fails.
THEOREM TypeCorrect == Spec => []TypeOK
<1>1. IInv => TypeOK
  BY DEF IInv, NodeInv, HandlerInv, TypeOK
<1>. QED
  BY <1>1, IInvAlways, PTL

\* An acknowledged insert whose id nobody asked to delete is on both nodes,
\* with any number of concurrent calls, crashes, SQL errors and broken
\* connections: no rollback of another call takes the row away.
THEOREM Durability == Spec => []AckedInsertIsDurable
<1>1. IInv => AckedInsertIsDurable
  <2> SUFFICES ASSUME IInv, NEW c \in Calls, Acked(c, "insert"),
                      NeverDeleted(request[c].id), NEW n \in Nodes
               PROVE  store[n][request[c].art.id] = request[c].art
    BY DEF AckedInsertIsDurable, Copy
  <2>1. Owns(n, c)
    BY DEF IInv, OwnershipInv, AckedOwns, Owns, Acked
  <2>2. store[n][request[c].id] = request[c].art
    BY <2>1 DEF IInv, OwnershipInv, OwnersRow
  <2>3. request[c].id = request[c].art.id
    BY DEF Acked, IInv, HandlerInv, RequestOK
  <2>. QED
    BY <2>2, <2>3
<1>. QED
  BY <1>1, IInvAlways, PTL

\* The last call on an id that nothing overlapped decides what both nodes hold:
\* after an acknowledged insert its article, after an acknowledged delete
\* nothing, whatever earlier calls on the id left half done and whatever fails.
THEOREM LastWord == Spec => []LastWordCounts
<1>1. IInv /\ LastInv => LastWordCounts
  <2> SUFFICES ASSUME IInv, LastInv, NEW id \in Ids, Lonely(id)
               PROVE  LET c == last[id] IN
                      /\ Acked(c, "insert") => Copy(request[c].art)
                      /\ Acked(c, "delete") => NoCopy(id)
    BY DEF LastWordCounts, Lonely
  <2>1. last[id] \in Calls /\ request[last[id]].id = id
    BY DEF Lonely, LastInv, LastKnown, IInv, HandlerInv, ServerTypeOK
  <2>2. \A n \in Nodes : Pc(n, last[id]) \in DecidedPc =>
          store[n][id] = frame[n][last[id]].art
    BY DEF LastInv, LonelyRow
  <2>3. ASSUME Acked(last[id], "insert")
        PROVE  Copy(request[last[id]].art)
    <3>1. \A n \in Nodes : Pc(n, last[id]) = "ok" /\ frame[n][last[id]].art # Nil
      BY <2>1, <2>3 DEF IInv, OwnershipInv, AckedOwns
    <3>2. \A n \in Nodes : frame[n][last[id]].art = request[last[id]].art
      BY <2>1, <2>3, <3>1 DEF Acked, IInv, HandlerInv, FramesMatch
    <3>3. request[last[id]].art.id = id
      BY <2>1, <2>3 DEF Acked, IInv, HandlerInv, RequestOK
    <3>. QED
      BY <2>2, <3>1, <3>2, <3>3 DEF Copy, DecidedPc
  <2>4. ASSUME Acked(last[id], "delete")
        PROVE  NoCopy(id)
    BY <2>1, <2>2, <2>4 DEF LastInv, AckedGone, NoCopy, DecidedPc
  <2>. QED
    BY <2>3, <2>4
<1>. QED
  BY <1>1, IInvAlways, LastInvAlways, PTL

\* A delete that nothing overlapped and that got as far as the replica's answer
\* leaves the article on neither node, while no connection has broken: also if
\* an earlier call had left it on the primary only, and if the primary crashes
\* before it answers.
THEOREM DeletesDoConverge == Spec => []DeletesConverge
<1>1. IInv /\ LastInv /\ ReachInv => DeletesConverge
  <2> SUFFICES ASSUME IInv, LastInv, ReachInv, NEW id \in Ids, Lonely(id), lost = 0,
                      request[last[id]].op = "delete",
                      Pc(Replica, last[id]) \in {"ok", "notfound"}
               PROVE  NoCopy(id)
    BY DEF DeletesConverge, Lonely
  <2>1. last[id] \in Calls
    BY DEF Lonely, IInv, HandlerInv, ServerTypeOK
  <2>2. \A n \in Nodes : Pc(n, last[id]) \in DecidedPc /\ frame[n][last[id]].art = Nil
    BY <2>1, TwoNodes
    DEF ReachInv, Reached, PrimaryDone, LastInv, DeletesMatch, DecidedPc
  <2>. QED
    BY <2>2 DEF LastInv, LonelyRow, NoCopy
<1>2. Spec => []ReachInv
  BY IInvAlways, LastInvAlways, ReachInvInit, ReachInvNext, PTL DEF Spec
<1>. QED
  BY <1>1, <1>2, IInvAlways, LastInvAlways, PTL

\* On both nodes of a replicated shard the vectors of the index have the
\* dimension a query is checked against.
THEOREM ShardSearchStaysInRange == Spec => []SameDimension
<1>1. IInv => SameDimension
  BY DEF IInv, NodeInv
<1>. QED
  BY <1>1, IInvAlways, PTL

-----------------------------------------------------------------------------
(* Calls end.  The measure of ReplicatedShard falls with every step of a   *)
(* call, and what a handler waits for comes.                               *)

StartPc == {"store_insert", "store_get"}

LEMMA MethodStepsIs ==
  /\ \A pc : MethodSteps(pc) \in 0..3
  /\ \A pc \in StartPc : MethodSteps(pc) = 3
  /\ \A pc \in {"index_insert", "store_delete"} : MethodSteps(pc) = 2
  /\ \A pc \in {"undo_insert", "index_delete"} : MethodSteps(pc) = 1
  /\ \A pc \in ResultPc : MethodSteps(pc) = 0
  BY DEF MethodSteps, StartPc, ResultPc

\* A method does one thing after the other, and only a delete finds nothing.
LEMMA MethodMoves ==
  ASSUME NodeInv, NEW n \in Nodes, NEW c \in Calls, MethodStep(n, c)
  PROVE  /\ MethodSteps(Pc(n, c)') < MethodSteps(Pc(n, c))
         /\ Pc(n, c)' = "notfound" => Pc(n, c) \in DeletePc
<1>1. ASSUME NEW pc, Goto(n, c, pc)
      PROVE  Pc(n, c)' = pc
  BY <1>1, GotoFrames DEF NodeInv, NodeTypeOK, Pc
<1> USE MethodStepsIs DEF StartPc, ResultPc, DeletePc
<1>2. CASE StoreInsert(n, c)
  <2>1. PICK pc \in {"index_insert", "failed"} : Goto(n, c, pc) /\ Pc(n, c) = "store_insert"
    BY <1>2 DEF StoreInsert
  <2>. QED
    BY <1>1, <2>1
<1>3. CASE IndexInsert(n, c)
  <2>1. PICK pc \in {"ok", "undo_insert"} : Goto(n, c, pc) /\ Pc(n, c) = "index_insert"
    BY <1>3 DEF IndexInsert
  <2>. QED
    BY <1>1, <2>1
<1>4. CASE UndoInsert(n, c)
  BY <1>1, <1>4 DEF UndoInsert
<1>5. CASE StoreGet(n, c)
  <2>1. PICK pc \in {"notfound", "store_delete"} : Goto(n, c, pc) /\ Pc(n, c) = "store_get"
    BY <1>5 DEF StoreGet
  <2>. QED
    BY <1>1, <2>1
<1>6. CASE StoreDelete(n, c)
  BY <1>1, <1>6 DEF StoreDelete
<1>7. CASE IndexDelete(n, c)
  <2>1. PICK pc \in {"ok", "notfound"} : Goto(n, c, pc) /\ Pc(n, c) = "index_delete"
    BY <1>7 DEF IndexDelete
  <2>. QED
    BY <1>1, <2>1
<1>8. CASE StoreError(n, c)
  <2>1. Goto(n, c, "failed") /\ Pc(n, c) \in {"store_insert", "undo_insert", "store_get",
                                              "store_delete"}
    BY <1>8 DEF StoreError, RunningPc, InsertPc
  <2>. QED
    BY <1>1, <2>1
<1>. QED
  BY <1>2, <1>3, <1>4, <1>5, <1>6, <1>7, <1>8 DEF MethodStep

\* A handler returns, goes on to the replica, or starts a method.
LEMMA HandlerMoves ==
  ASSUME IInv, NEW c \in Calls, HandlerStep(c)
  PROVE  /\ Busy(c) /\ UNCHANGED <<up, request>>
         /\ \A d \in Calls : d # c =>
              stage'[d] = stage[d] /\ \A n \in Nodes : Pc(n, d)' = Pc(n, d)
         /\ \/ stage'[c] = "done" /\ \A n \in Nodes : Pc(n, c)' = Pc(n, c)
            \/ /\ stage[c] = "local" /\ stage'[c] = "forward"
               /\ \A n \in Nodes : Pc(n, c)' = Pc(n, c)
            \/ /\ stage[c] = "forward" /\ stage'[c] = "remote" /\ up[Replica]
               /\ Pc(Primary, c)' = Pc(Primary, c) /\ Pc(Replica, c)' \in StartPc
            \/ /\ \/ stage[c] = "lookup" /\ stage'[c] = "local"
                  \/ stage[c] \in {"forward", "remote"} /\ stage'[c] = "rollback"
               /\ Pc(Primary, c)' \in StartPc /\ Pc(Replica, c)' = Pc(Replica, c)
<1>0. /\ stage \in [Calls -> Stages]
      /\ frame \in [Nodes -> [Calls -> Frame]]
  BY DEF IInv, HandlerInv, ServerTypeOK, NodeInv, NodeTypeOK
<1>1. /\ Busy(c) /\ request' = request
      /\ \A d \in Calls : d # c =>
           stage'[d] = stage[d] /\ \A n \in Nodes : Pc(n, d)' = Pc(n, d)
  BY HandlerEffect DEF Pc
<1>2. up' = up
  BY DEF HandlerStep, Lookup, LookupError, LocalDone, Forward, RemoteDone, RemoteFailed,
    ReplicaUnreachable, RollbackDone, StartRollback, nodeVars
<1>3. ASSUME NEW n \in Nodes, NEW f, Enter(n, c, f), f.pc \in StartPc
      PROVE  /\ Pc(n, c)' \in StartPc
             /\ \A m \in Nodes : m # n => Pc(m, c)' = Pc(m, c)
  BY <1>0, <1>3, EnterFrames DEF Pc
<1>4. ASSUME NEW r, Return(c, r), UNCHANGED frame
      PROVE  stage'[c] = "done" /\ \A n \in Nodes : Pc(n, c)' = Pc(n, c)
  BY <1>0, <1>4 DEF Return, Pc
<1>5. ASSUME NEW s, stage' = [stage EXCEPT ![c] = s] \/ Advance(c, s)
      PROVE  stage'[c] = s
  BY <1>0, <1>5 DEF Advance
<1>6. /\ \A a : InsertFrame(a).pc \in StartPc
      /\ \A id : DeleteFrame(id).pc \in StartPc
  BY DEF InsertFrame, DeleteFrame, StartPc
<1>7. CASE Lookup(c)
  BY <1>1, <1>2, <1>3, <1>4, <1>5, <1>6, <1>7, TwoNodes DEF Lookup
<1>8. CASE LookupError(c) \/ RemoteDone(c) \/ RollbackDone(c)
  BY <1>1, <1>2, <1>4, <1>8 DEF LookupError, RemoteDone, RollbackDone, nodeVars
<1>9. CASE LocalDone(c)
  <2>1. frame' = frame /\ stage[c] = "local" /\ ((\E r : Return(c, r)) \/ Advance(c, "forward"))
    BY <1>9 DEF LocalDone, nodeVars, ResultPc
  <2>. QED
    BY <1>1, <1>2, <1>4, <1>5, <2>1 DEF Pc
<1>10. CASE Forward(c)
  <2>1. FrameOf(request[c]).pc \in StartPc
    BY <1>6 DEF FrameOf
  <2>2. /\ stage[c] = "forward" /\ up[Replica] /\ Advance(c, "remote")
        /\ Enter(Replica, c, FrameOf(request[c]))
    BY <1>10 DEF Forward
  <2>. QED
    BY <1>1, <1>2, <1>3, <1>5, <2>1, <2>2, TwoNodes
<1>11. CASE RemoteFailed(c) \/ ReplicaUnreachable(c)
  <2>1. stage[c] \in {"forward", "remote"} /\ StartRollback(c)
    BY <1>11 DEF RemoteFailed, ReplicaUnreachable
  <2>2. PICK f : Enter(Primary, c, f) /\ f.pc \in StartPc
    BY <1>6, <2>1 DEF StartRollback
  <2>. QED
    BY <1>1, <1>2, <1>3, <1>5, <2>1, <2>2, TwoNodes DEF StartRollback
<1>. QED
  BY <1>7, <1>8, <1>9, <1>10, <1>11 DEF HandlerStep

LEMMA HandlerStepsIs ==
  \A st \in Stages : /\ HandlerSteps[st] \in 0..15
                     /\ st = "done" => HandlerSteps[st] = 0
                     /\ st \in BusyStages => HandlerSteps[st] > 0
  BY DEF Stages, BusyStages, HandlerSteps

\* What a call that starts is and leaves alone.
LEMMA ReceiveMoves ==
  ASSUME IInv, NEW c \in Calls,
         (\E a \in Articles : ReceiveInsert(c, a)) \/ (\E id \in Ids : ReceiveDelete(c, id))
  PROVE  /\ stage[c] = "idle" /\ up[Primary] /\ up' = up
         /\ \A d \in Calls : d # c =>
              /\ stage'[d] = stage[d] /\ request'[d] = request[d]
              /\ \A n \in Nodes : Pc(n, d)' = Pc(n, d)
         /\ Pc(Replica, c)' = Pc(Replica, c)
         /\ \/ stage'[c] = "local" /\ Pc(Primary, c)' \in StartPc
            \/ stage'[c] = "lookup" /\ Pc(Primary, c)' = Pc(Primary, c)
<1>1. /\ stage \in [Calls -> Stages] /\ request \in [Calls -> Request]
      /\ frame \in [Nodes -> [Calls -> Frame]]
  BY DEF IInv, HandlerInv, ServerTypeOK, NodeInv, NodeTypeOK
<1>2. ASSUME NEW a \in Articles, ReceiveInsert(c, a)
      PROVE  /\ stage[c] = "idle" /\ up[Primary] /\ up' = up
             /\ stage' = [stage EXCEPT ![c] = "local"]
             /\ request' = [request EXCEPT ![c] = InsertRequest(a)]
             /\ Pc(Primary, c)' \in StartPc /\ Pc(Replica, c)' = Pc(Replica, c)
             /\ \A n \in Nodes, d \in Calls : d # c => Pc(n, d)' = Pc(n, d)
  <2>1. /\ stage[c] = "idle" /\ up[Primary] /\ up' = up
        /\ stage' = [stage EXCEPT ![c] = "local"]
        /\ request' = [request EXCEPT ![c] = InsertRequest(a)]
        /\ Enter(Primary, c, InsertFrame(a))
    BY <1>2 DEF ReceiveInsert, CanCall
  <2>2. /\ frame'[Primary][c] = InsertFrame(a)
        /\ \A n \in Nodes, d \in Calls : ~(n = Primary /\ d = c) => frame'[n][d] = frame[n][d]
    BY <1>1, <2>1, EnterFrames, TwoNodes
  <2>3. InsertFrame(a).pc \in StartPc
    BY DEF InsertFrame, StartPc
  <2>. QED
    BY <2>1, <2>2, <2>3, TwoNodes DEF Pc
<1>3. ASSUME NEW id \in Ids, ReceiveDelete(c, id)
      PROVE  /\ stage[c] = "idle" /\ up[Primary] /\ up' = up /\ frame' = frame
             /\ stage' = [stage EXCEPT ![c] = "lookup"]
             /\ request' = [request EXCEPT ![c] = DeleteRequest(id)]
  BY <1>3 DEF ReceiveDelete, CanCall, nodeVars
<1>4. CASE \E a \in Articles : ReceiveInsert(c, a)
  BY <1>1, <1>2, <1>4
<1>5. CASE \E id \in Ids : ReceiveDelete(c, id)
  BY <1>1, <1>3, <1>5 DEF Pc
<1>. QED
  BY <1>4, <1>5

\* Every step of a call uses one of its steps up.
LEMMA CallsAdvanceNext ==
  ASSUME IInv, IInv', [Next]_vars, NEW c \in Calls,
         stage'[c] # stage[c] \/ (\E n \in Nodes : Pc(n, c)' # Pc(n, c))
  PROVE  StepsLeft(c)' < StepsLeft(c)
<1> DEFINE h == HandlerSteps[stage[c]]
           p == Pc(Primary, c)
           r == Pc(Replica, c)
<1>0. /\ h \in Nat /\ StepsLeft(c) = h + MethodSteps(p) + MethodSteps(r)
      /\ h' \in Nat /\ StepsLeft(c)' = h' + MethodSteps(p') + MethodSteps(r')
      /\ MethodSteps(p) \in 0..3 /\ MethodSteps(r) \in 0..3
      /\ MethodSteps(p') \in 0..3 /\ MethodSteps(r') \in 0..3
      /\ stage'[c] = "done" => h' = 0
      /\ Busy(c) => h > 0
  <2>1. stage[c] \in Stages /\ stage'[c] \in Stages
    BY DEF IInv, HandlerInv, ServerTypeOK
  <2>2. /\ h \in Nat /\ h' \in Nat
        /\ stage'[c] = "done" => h' = 0
        /\ Busy(c) => h > 0
    BY <2>1, HandlerStepsIs DEF Busy, HandlerSteps
  <2>3. /\ StepsLeft(c) = h + MethodSteps(p) + MethodSteps(r)
        /\ StepsLeft(c)' = h' + MethodSteps(p') + MethodSteps(r')
    BY DEF StepsLeft, HandlerSteps
  <2>. QED
    BY <2>2, <2>3, MethodStepsIs
<1>1. ASSUME h' <= h, MethodSteps(p') <= MethodSteps(p), MethodSteps(r') <= MethodSteps(r),
             \/ h' < h
             \/ MethodSteps(p') < MethodSteps(p)
             \/ MethodSteps(r') < MethodSteps(r)
      PROVE  StepsLeft(c)' < StepsLeft(c)
  BY <1>0, <1>1
<1>2. CASE (\E a \in Articles : ReceiveInsert(c, a)) \/ (\E id \in Ids : ReceiveDelete(c, id))
  <2>1. /\ stage[c] = "idle" /\ r' = r
        /\ \/ stage'[c] = "local"
           \/ stage'[c] = "lookup" /\ p' = p
    BY <1>2, ReceiveMoves
  <2>2. /\ h = 15 /\ h' <= 14
        /\ stage'[c] = "local" => h' = 10
    BY <2>1 DEF HandlerSteps
  <2>. QED
    BY <1>0, <2>1, <2>2
<1>4. CASE HandlerStep(c)
  <2>1. CASE stage'[c] = "done" /\ \A n \in Nodes : Pc(n, c)' = Pc(n, c)
    <3>1. h > 0 /\ h' = 0
      BY <1>0, <1>4, <2>1, HandlerMoves
    <3>. QED
      BY <1>1, <1>0, <2>1, <3>1, TwoNodes
  <2>2. CASE /\ stage[c] = "local" /\ stage'[c] = "forward"
             /\ \A n \in Nodes : Pc(n, c)' = Pc(n, c)
    <3>1. h = 10 /\ h' = 9
      BY <2>2 DEF HandlerSteps
    <3>. QED
      BY <1>0, <1>1, <2>2, <3>1, TwoNodes
  <2>3. CASE /\ stage[c] = "forward" /\ stage'[c] = "remote"
             /\ Pc(Primary, c)' = Pc(Primary, c) /\ Pc(Replica, c)' \in StartPc
    <3>1. h = 9 /\ h' = 5
      BY <2>3 DEF HandlerSteps
    <3>. QED
      BY <1>0, <2>3, <3>1
  <2>4. CASE /\ \/ stage[c] = "lookup" /\ stage'[c] = "local"
                \/ stage[c] \in {"forward", "remote"} /\ stage'[c] = "rollback"
             /\ Pc(Primary, c)' \in StartPc /\ Pc(Replica, c)' = Pc(Replica, c)
    <3>1. h >= h' + 4
      BY <2>4 DEF HandlerSteps
    <3>. QED
      BY <1>0, <2>4, <3>1
  <2>. QED
    BY <1>4, <2>1, <2>2, <2>3, <2>4, HandlerMoves
<1>5. ASSUME NEW n \in Nodes, NodeStep(n, c)
      PROVE  StepsLeft(c)' < StepsLeft(c)
  <2>1. /\ MethodStep(n, c) /\ stage' = stage
        /\ \A m \in Nodes : m # n => Pc(m, c)' = Pc(m, c)
    BY <1>5, MethodStepEffect DEF NodeStep, serverVars, IInv, Pc
  <2>2. MethodSteps(Pc(n, c)') < MethodSteps(Pc(n, c))
    BY <2>1, MethodMoves DEF IInv
  <2>3. h' = h /\ (n = Primary \/ n = Replica)
    BY <2>1, NodesAssumption
  <2>. QED
    BY <1>0, <1>1, <2>1, <2>2, <2>3, TwoNodes
\* A crash ends what it interrupts.
<1>6. ASSUME NEW n \in Nodes, ProcessCrash(n) \/ ProcessStop(n)
      PROVE  StepsLeft(c)' < StepsLeft(c)
  <2>1. GoDown(n) /\ (stage'[c] = stage[c] \/ (Busy(c) /\ stage'[c] = "done"))
    BY <1>6 DEF ProcessCrash, ProcessStop, Crash, Stop, PrimaryHandlersDie, serverVars
  <2>2. /\ h' <= h
        /\ stage'[c] # stage[c] => h' < h
    BY <1>0, <2>1
  <2>3. \A m \in Nodes : \/ Pc(m, c)' = Pc(m, c)
                         \/ Running(m, c) /\ Pc(m, c)' = "failed"
    BY <2>1, GoDownEffect DEF IInv, Pc
  <2>4. \A m \in Nodes : /\ MethodSteps(Pc(m, c)') <= MethodSteps(Pc(m, c))
                         /\ Pc(m, c)' # Pc(m, c) =>
                              MethodSteps(Pc(m, c)') < MethodSteps(Pc(m, c))
    <3>1. \A m \in Nodes : Running(m, c) => MethodSteps(Pc(m, c)) > 0
      BY MethodStepsIs DEF Running, RunningPc, InsertPc, DeletePc, StartPc
    <3>2. MethodSteps("failed") = 0 /\ \A pc : MethodSteps(pc) \in 0..3
      BY MethodStepsIs DEF ResultPc
    <3>. QED
      BY <2>3, <3>1, <3>2
  <2>. QED
    BY <1>0, <1>1, <2>2, <2>4, NodesAssumption
\* Other calls, callers that leave and processes that start change nothing of c.
<1>7. ASSUME NEW d \in Calls, d # c,
             \/ \E a \in Articles : ReceiveInsert(d, a)
             \/ \E id \in Ids : ReceiveDelete(d, id)
             \/ HandlerStep(d)
             \/ \E n \in Nodes : NodeStep(n, d)
      PROVE  FALSE
  <2>1. CASE HandlerStep(d)
    BY <1>7, <2>1, HandlerMoves
  <2>2. CASE \E n \in Nodes : NodeStep(n, d)
    BY <1>7, <2>2, MethodStepEffect DEF NodeStep, serverVars, IInv, Pc
  <2>3. CASE (\E a \in Articles : ReceiveInsert(d, a)) \/ (\E id \in Ids : ReceiveDelete(d, id))
    BY <1>7, <2>3, ReceiveMoves
  <2>. QED
    BY <1>7, <2>1, <2>2, <2>3
<1>8. CASE \/ \E d \in Calls : CallerDisconnects(d)
           \/ \E n \in Nodes : ProcessRestart(n)
           \/ UNCHANGED vars
  <2>1. UNCHANGED <<stage, frame>>
    BY <1>8 DEF CallerDisconnects, ProcessRestart, Restart, vars, nodeVars, serverVars
  <2>. QED
    BY <2>1 DEF Pc
<1>. QED
  BY <1>2, <1>4, <1>5, <1>6, <1>7, <1>8 DEF Next

\* No step of the protocol takes a call back, so that a call takes at most 15
\* steps: what was forwarded is not forwarded again, and nothing follows a
\* rollback.
THEOREM CallsTakeFewSteps == Spec => CallsAdvance
<1>1. ASSUME IInv, IInv', [Next]_vars
      PROVE  [\A c \in Calls :
                stage'[c] # stage[c] \/ (\E n \in Nodes : Pc(n, c)' # Pc(n, c))
                  => StepsLeft(c)' < StepsLeft(c)]_vars
  BY <1>1, CallsAdvanceNext
<1>. QED
  BY <1>1, IInvAlways, PTL DEF Spec, CallsAdvance

GoesOn(c) ==
  /\ Busy(c) => up[Primary]
  /\ \A n \in Nodes : Running(n, c) => up[n]
  /\ stage[c] \in {"local", "rollback"} => Pc(Primary, c) \in RunningPc \cup ResultPc
  /\ stage[c] = "remote" =>
       \/ Running(Replica, c) \/ Pc(Replica, c) \in {"ok", "failed"}
       \/ Pc(Replica, c) = "notfound" /\ request[c].op = "delete"

LEMMA HandlersGoOnNext ==
  ASSUME IInv, HandlersGoOn, [Next]_vars
  PROVE  HandlersGoOn'
<1>0. /\ \A c \in Calls : GoesOn(c)
      /\ (\A c \in Calls : GoesOn(c)') => HandlersGoOn'
  BY DEF HandlersGoOn, GoesOn
\* A call nothing happened to, and its processes stay up.
<1>1. ASSUME NEW c \in Calls, up' = up, stage'[c] = stage[c], request'[c] = request[c],
             \A n \in Nodes : Pc(n, c)' = Pc(n, c)
      PROVE  GoesOn(c)'
  BY <1>0, <1>1, TwoNodes DEF GoesOn, Busy, Running
<1>2. StartPc \subseteq RunningPc
  BY DEF StartPc, RunningPc, InsertPc, DeletePc
<1>3. ASSUME NEW c \in Calls,
             (\E a \in Articles : ReceiveInsert(c, a)) \/ (\E id \in Ids : ReceiveDelete(c, id))
      PROVE  HandlersGoOn'
  <2>1. GoesOn(c)'
    <3>1. /\ up[Primary] /\ up' = up /\ Pc(Replica, c)' = Pc(Replica, c)
          /\ \/ stage'[c] = "local" /\ Pc(Primary, c)' \in StartPc
             \/ stage'[c] = "lookup" /\ Pc(Primary, c)' = Pc(Primary, c)
      BY <1>3, ReceiveMoves
    <3>2. \A n \in Nodes : Running(n, c)' => up'[n]
      BY <1>0, <3>1, NodesAssumption DEF GoesOn, Running
    <3>. QED
      BY <1>2, <3>1, <3>2 DEF GoesOn
  <2>2. ASSUME NEW d \in Calls, d # c
        PROVE  GoesOn(d)'
    <3>1. /\ up' = up /\ stage'[d] = stage[d] /\ request'[d] = request[d]
          /\ \A n \in Nodes : Pc(n, d)' = Pc(n, d)
      BY <1>3, <2>2, ReceiveMoves
    <3>. QED
      BY <1>1, <3>1
  <2>. QED
    BY <1>0, <2>1, <2>2
<1>4. ASSUME NEW c \in Calls, HandlerStep(c)
      PROVE  HandlersGoOn'
  <2>1. GoesOn(c)'
    <3>1. up[Primary] /\ up' = up
      BY <1>0, <1>4, HandlerMoves DEF GoesOn
    <3>2. \A n \in Nodes : \/ Pc(n, c)' = Pc(n, c)
                           \/ up[n]
      BY <1>4, <3>1, HandlerMoves, NodesAssumption
    <3>3. \A n \in Nodes : Running(n, c)' => up'[n]
      BY <1>0, <3>1, <3>2 DEF GoesOn, Running
    <3>4. \/ stage'[c] \in {"done", "forward"}
          \/ stage'[c] = "remote" /\ Pc(Replica, c)' \in RunningPc
          \/ stage'[c] \in {"local", "rollback"} /\ Pc(Primary, c)' \in RunningPc
      BY <1>2, <1>4, HandlerMoves
    <3>. QED
      BY <3>1, <3>3, <3>4 DEF GoesOn, Running
  <2>2. ASSUME NEW d \in Calls, d # c
        PROVE  GoesOn(d)'
    <3>1. /\ up' = up /\ stage'[d] = stage[d] /\ request'[d] = request[d]
          /\ \A n \in Nodes : Pc(n, d)' = Pc(n, d)
      BY <1>4, <2>2, HandlerMoves
    <3>. QED
      BY <1>1, <3>1
  <2>. QED
    BY <1>0, <2>1, <2>2
\* The result of a method is one its handler knows.
<1>5. ASSUME NEW c \in Calls, NEW n \in Nodes, NodeStep(n, c)
      PROVE  HandlersGoOn'
  <2>1. /\ NodeInv /\ MethodStep(n, c) /\ up' = up /\ UNCHANGED <<stage, request>>
        /\ \A m \in Nodes, d \in Calls : ~(m = n /\ d = c) => Pc(m, d)' = Pc(m, d)
        /\ Running(n, c) /\ Pc(n, c)' \in RunningPc \cup ResultPc
    BY <1>5, MethodStepEffect, MethodStepIndexEffect DEF NodeStep, serverVars, IInv, Pc
  <2>2. GoesOn(c)'
    <3>1. \A m \in Nodes : Running(m, c)' => up'[m]
      BY <1>0, <2>1 DEF GoesOn, Running
    <3>2. stage'[c] \in {"local", "rollback"} => Pc(Primary, c)' \in RunningPc \cup ResultPc
      BY <1>0, <2>1, TwoNodes DEF GoesOn
    <3>3. ASSUME n = Replica, stage[c] = "remote", Pc(n, c)' = "notfound"
          PROVE  request[c].op = "delete"
      <4>1. Pc(n, c) \in DeletePc
        BY <2>1, <3>3, MethodMoves
      <4>2. frame[Replica][c].art = Nil /\ Pc(Replica, c) # "idle"
        BY <3>3, <4>1 DEF IInv, NodeInv, FrameOK, Pc, DeletePc
      <4>3. request[c].op # "insert"
        BY <4>2 DEF IInv, HandlerInv, StagesMatch
      <4>4. request[c].op \in {"none", "insert", "delete"} /\ request[c].op # "none"
        BY <3>3 DEF IInv, HandlerInv, ServerTypeOK, RequestOK, Request
      <4>. QED
        BY <4>3, <4>4
    <3>4. stage'[c] = "remote" =>
            \/ Running(Replica, c)' \/ Pc(Replica, c)' \in {"ok", "failed"}
            \/ Pc(Replica, c)' = "notfound" /\ request'[c].op = "delete"
      <4>1. CASE n = Replica
        BY <2>1, <3>3, <4>1 DEF Running, ResultPc
      <4>2. CASE n # Replica
        BY <1>0, <2>1, <4>2, TwoNodes DEF GoesOn, Running
      <4>. QED
        BY <4>1, <4>2
    <3>5. Busy(c)' => up'[Primary]
      BY <1>0, <2>1 DEF GoesOn, Busy
    <3>. QED
      BY <3>1, <3>2, <3>4, <3>5 DEF GoesOn
  <2>3. ASSUME NEW d \in Calls, d # c
        PROVE  GoesOn(d)'
    <3>1. \A m \in Nodes : Pc(m, d)' = Pc(m, d)
      BY <2>1, <2>3
    <3>. QED
      BY <1>1, <2>1, <3>1
  <2>. QED
    BY <1>0, <2>2, <2>3
\* Who waited for a process that went down is told so.
<1>6. ASSUME NEW n \in Nodes, ProcessCrash(n) \/ ProcessStop(n)
      PROVE  HandlersGoOn'
  <2> SUFFICES ASSUME NEW c \in Calls
               PROVE  GoesOn(c)'
    BY <1>0
  <2>1. /\ GoDown(n) /\ NodeInv
        /\ stage'[c] = stage[c] \/ stage'[c] = "done"
        /\ n = Primary => ~Busy(c)'
        /\ request' = request
    BY <1>6 DEF ProcessCrash, ProcessStop, Crash, Stop, PrimaryHandlersDie, serverVars, IInv,
      Busy, BusyStages
  <2>2. \A m \in Nodes : up'[m] = (IF m = n THEN FALSE ELSE up[m])
    BY <2>1 DEF GoDown, NodeInv, NodeTypeOK
  <2>3. \A m \in Nodes : /\ m # n \/ ~Running(m, c) => Pc(m, c)' = Pc(m, c)
                         /\ m = n /\ Running(m, c) => Pc(m, c)' = "failed"
    BY <2>1, GoDownEffect DEF Pc
  <2>4. Busy(c)' => up'[Primary]
    BY <1>0, <2>1, <2>2, TwoNodes DEF GoesOn, Busy, BusyStages
  <2>5. \A m \in Nodes : Running(m, c)' => up'[m]
    <3>1. \A m \in Nodes : Running(m, c)' => Running(m, c) /\ m # n
      BY <2>3 DEF Running, RunningPc, InsertPc, DeletePc
    <3>. QED
      BY <1>0, <2>2, <3>1 DEF GoesOn
  <2>6. \A m \in Nodes : Pc(m, c)' = Pc(m, c) \/ Pc(m, c)' = "failed"
    BY <2>3
  <2>7. stage'[c] \in {"local", "rollback"} => Pc(Primary, c)' \in RunningPc \cup ResultPc
    BY <1>0, <2>1, <2>6, TwoNodes DEF GoesOn, ResultPc
  <2>8. stage'[c] = "remote" =>
          \/ Running(Replica, c)' \/ Pc(Replica, c)' \in {"ok", "failed"}
          \/ Pc(Replica, c)' = "notfound" /\ request'[c].op = "delete"
    BY <1>0, <2>1, <2>6, TwoNodes DEF GoesOn, Running
  <2>. QED
    BY <2>4, <2>5, <2>7, <2>8 DEF GoesOn
<1>7. CASE \/ \E d \in Calls : CallerDisconnects(d)
           \/ \E n \in Nodes : ProcessRestart(n)
           \/ UNCHANGED vars
  <2>1. UNCHANGED <<stage, frame, request>> /\ \A n \in Nodes : up[n] => up'[n]
    BY <1>7 DEF CallerDisconnects, ProcessRestart, Restart, vars, nodeVars, serverVars, IInv,
      NodeInv, NodeTypeOK
  <2>2. ASSUME NEW c \in Calls
        PROVE  GoesOn(c)'
    BY <1>0, <2>1, TwoNodes DEF GoesOn, Busy, Running, Pc
  <2>. QED
    BY <1>0, <2>2
<1>. QED
  BY <1>3, <1>4, <1>5, <1>6, <1>7 DEF Next

\* Whatever fails, a handler never waits for a method that was not started or
\* is gone with its process, nor gets a result it has no branch for.
THEOREM HandlersAreNeverLeft == Spec => []HandlersGoOn
<1>1. Init => HandlersGoOn
  BY DEF Init, NodeInit, HandlersGoOn, Busy, BusyStages, Running, Pc, IdleFrame, RunningPc,
    InsertPc, DeletePc
<1>2. Spec => [](IInv /\ HandlersGoOn)
  BY <1>1, IInvInit, IInvNext, HandlersGoOnNext, PTL DEF Spec
<1>. QED
  BY <1>2, PTL
=============================================================================
