--------------------------- MODULE ShardReadsProofs ---------------------------
(***************************************************************************)
(* Theorems about ShardReads: a read answered by either node returns what  *)
(* was acknowledged before it and nothing that was deleted before it, for  *)
(* any number of reads and writes, either index and any faults.            *)
(***************************************************************************)
EXTENDS ShardReads, ReplicatedShardProofs

-----------------------------------------------------------------------------
(* The inductive invariant.  A read owes an article because of a call that *)
(* was answered before it.  What was known of the id then (Durability and  *)
(* LastWord) stays true while the read runs: later inserts of the id fail  *)
(* on the row, later deletes end the obligation, and a delete of an id     *)
(* that is not there does nothing.                                         *)

Wants(r, a) == [row |-> a, entry |-> a] \in found[r]

\* Article a is on both nodes, indexed where the process runs, and the only
\* calls on its id are inserts that find it there and fail.
Stands(a) ==
  \A n \in Nodes : store[n][a.id] = a /\ (up[n] => a \in ToSet(live[n][a.id]))
OnlyFails(c) ==
  Active(c) =>
    /\ stage[c] = "local" /\ request[c].op = "insert" /\ ~Running(Replica, c)
    /\ Pc(Primary, c) \in {"store_insert", "failed"}
Held(a) == Stands(a) /\ \A c \in Calls : request[c].id = a.id => OnlyFails(c)

\* Nothing is stored under id, and the only calls on it are deletes that have
\* not looked yet.
OnlyLooks(c) == Active(c) => stage[c] = "lookup" /\ \A n \in Nodes : ~Running(n, c)
Vacant(id) == NoCopy(id) /\ \A c \in Calls : request[c].id = id => OnlyLooks(c)

\* An acknowledged insert of an id that nobody asked to delete.
Kept(a) == NeverDeleted(a.id) /\ \E c \in Calls : Acked(c, "insert") /\ request[c].art = a

\* The article of the last word on an id is in the index as well.
LonelyIndexed ==
  \A id \in Ids, n \in Nodes : LET f == frame[n][last[id]] IN
    Lonely(id) /\ f.pc = "ok" /\ f.art # Nil /\ up[n] => f.art \in ToSet(live[n][id])

\* What a read is owed is there as long as it may still look for it.
MustHold ==
  \A r \in Reads : Reading(r) => \A a \in must[r] :
    Held(a) \/ (read[r].op # "search" /\ Kept(a))
GoneHold == \A r \in Reads : Reading(r) => \A id \in gone[r] : Vacant(id)

\* A search has found, or is still to load, what it is owed.
HitsHold ==
  \A r \in Reads : read[r].pc = "load" =>
    read[r].op = "search" /\ \A a \in must[r] : a \in hits[r] \/ Wants(r, a)

\* Nothing is answered before the end.
AnswersOK ==
  \A r \in Reads :
    /\ answer[r] # "none" => read[r].pc = "done"
    /\ read[r].pc = "idle" => found[r] = {}
    /\ \A h \in found[r] : h.row.id \notin gone[r]

\* A Get asks for one id.
GetsAnId == \A r \in Reads : read[r].op = "get" => read[r].id \in Ids

ReadsInv ==
  /\ IInv /\ LastInv /\ LonelyIndexed /\ GetsAnId
  /\ ReadsTypeOK /\ MustHold /\ GoneHold /\ HitsHold /\ AnswersOK /\ ReadsSeeAcknowledged

-----------------------------------------------------------------------------
(* Steps of the writes, as the reads see them *)

\* A call is received for an id; it has done nothing yet.
Receives(c, x) ==
  /\ stage[c] = "idle" /\ request'[c].id = x /\ NoteStart(c, x)
  /\ UNCHANGED <<store, live, up, reply>>
  /\ \A d \in Calls : d # c =>
       /\ stage'[d] = stage[d] /\ request'[d] = request[d]
       /\ \A n \in Nodes : frame'[n][d] = frame[n][d]
  /\ \/ /\ request'[c].op = "insert" /\ stage'[c] = "local"
        /\ Pc(Primary, c)' = "store_insert" /\ Pc(Replica, c)' = "idle"
     \/ /\ request'[c].op = "delete" /\ stage'[c] = "lookup"
        /\ \A n \in Nodes : Pc(n, c)' = "idle"

\* A handler moves on; the tables and the indexes stay.
Handles(c) == HandlerStep(c) /\ UNCHANGED <<live, up>>

\* A process goes down or comes back.
Falls(n) ==
  /\ up'[n] = FALSE
  /\ \A m \in Nodes : m # n => up'[m] = up[m] /\ live'[m] = live[m]
  /\ store' = store /\ UNCHANGED <<request, last, alone>>
  /\ \A m \in Nodes, c \in Calls : frame'[m][c] = frame[m][c] \/
       (m = n /\ frame'[m][c].pc = "failed" /\ frame'[m][c].art = frame[m][c].art)
  /\ \A c \in Calls :
       /\ stage'[c] \in {stage[c], "done"} /\ (stage'[c] # stage[c] => Busy(c))
       /\ n = Primary => stage'[c] \notin BusyStages
Rises(n) ==
  /\ UNCHANGED <<store, frame, request, stage, last, alone>>
  /\ \A m \in Nodes : m # n => up'[m] = up[m] /\ live'[m] = live[m]
  /\ \A id \in Ids : store[n][id] # Nil => live'[n][id] = <<store[n][id]>>

\* Nothing of this happens.
Rests == UNCHANGED <<store, live, up, frame, request, stage, last, alone>>

LEMMA ReceivesIs ==
  ASSUME IInv, NEW c \in Calls, NEW x \in Ids,
         ReceiveDelete(c, x) \/ \E a \in Articles : a.id = x /\ ReceiveInsert(c, a)
  PROVE  Receives(c, x) /\ (request'[c].op = "delete" <=> ReceiveDelete(c, x))
<1>0. frame \in [Nodes -> [Calls -> Frame]] /\ request \in [Calls -> Request]
      /\ stage \in [Calls -> Stages]
  BY DEF IInv, HandlerInv, ServerTypeOK, NodeInv, NodeTypeOK
<1>1. stage[c] = "idle" /\ NoteStart(c, x) /\ UNCHANGED <<store, live, up, reply>>
  BY DEF ReceiveDelete, ReceiveInsert, CanCall, nodeVars, indexVars
<1>2. \A d \in Calls : d # c => stage'[d] = stage[d] /\ request'[d] = request[d]
  BY <1>0 DEF ReceiveDelete, ReceiveInsert
<1>3. \A n \in Nodes : Pc(n, c) = "idle"
  BY <1>1 DEF IInv, HandlerInv, FramesMatch, Pc
<1>4. CASE ReceiveDelete(c, x)
  <2>1. request'[c] = DeleteRequest(x) /\ stage'[c] = "lookup" /\ frame' = frame
    BY <1>0, <1>4 DEF ReceiveDelete, nodeVars
  <2>. QED
    BY <1>1, <1>2, <1>3, <1>4, <2>1 DEF Receives, DeleteRequest, Pc
<1>5. CASE \E a \in Articles : a.id = x /\ ReceiveInsert(c, a)
  <2>1. PICK a \in Articles : a.id = x /\ ReceiveInsert(c, a)
    BY <1>5
  <2>2. /\ request'[c] = InsertRequest(a) /\ stage'[c] = "local"
        /\ Enter(Primary, c, InsertFrame(a))
    BY <1>0, <2>1 DEF ReceiveInsert
  <2>3. /\ frame'[Primary][c] = InsertFrame(a)
        /\ \A m \in Nodes, d \in Calls :
             ~(m = Primary /\ d = c) => frame'[m][d] = frame[m][d]
    BY <1>0, <2>2, TwoNodes, EnterFrames
  <2>4. ~ReceiveDelete(c, x)
    <3>1. request'[c].op = "insert"
      BY <2>2 DEF InsertRequest
    <3>2. ReceiveDelete(c, x) => request'[c].op = "delete"
      BY <1>0 DEF ReceiveDelete, DeleteRequest
    <3>. QED
      BY <3>1, <3>2
  <2>. QED
    BY <1>1, <1>2, <1>3, <2>1, <2>2, <2>3, <2>4, TwoNodes
    DEF Receives, InsertRequest, InsertFrame, Pc
<1>. QED
  BY <1>4, <1>5

LEMMA FallsIs ==
  ASSUME IInv, NEW n \in Nodes, ProcessCrash(n) \/ ProcessStop(n)
  PROVE  Falls(n)
<1>1. GoDown(n) /\ UNCHANGED <<last, alone>>
  BY DEF ProcessCrash, ProcessStop, Crash, Stop, historyVars
<1>2. PrimaryHandlersDie \/ (n # Primary /\ UNCHANGED serverVars)
  <2>1. CASE ProcessCrash(n)
    BY <2>1 DEF ProcessCrash
  <2>2. CASE ProcessStop(n)
    BY <2>2 DEF ProcessStop, PrimaryHandlersDie, serverVars, IInv, HandlerInv, ServerTypeOK
  <2>. QED
    BY <2>1, <2>2
<1>3. /\ request' = request
      /\ \A c \in Calls :
           /\ stage'[c] \in {stage[c], "done"} /\ (stage'[c] # stage[c] => Busy(c))
           /\ n = Primary => stage'[c] \notin BusyStages
  BY <1>2 DEF PrimaryHandlersDie, serverVars, Busy, BusyStages, Stages
<1>4. /\ store' = store
      /\ \A m \in Nodes, c \in Calls : frame'[m][c] = frame[m][c] \/
           (m = n /\ frame'[m][c].pc = "failed" /\ frame'[m][c].art = frame[m][c].art)
  BY <1>1, GoDownEffect DEF IInv
<1>5. /\ up'[n] = FALSE
      /\ \A m \in Nodes : m # n => up'[m] = up[m] /\ live'[m] = live[m]
  BY <1>1 DEF GoDown, IInv, NodeInv, NodeTypeOK
<1>. QED
  BY <1>1, <1>3, <1>4, <1>5 DEF Falls

LEMMA RisesIs ==
  ASSUME IInv, NEW n \in Nodes, ProcessRestart(n)
  PROVE  Rises(n)
<1>1. Restart(n) /\ UNCHANGED <<store, frame, request, stage, last, alone>>
  BY DEF ProcessRestart, Restart, serverVars, historyVars
<1>2. \A m \in Nodes : m # n => up'[m] = up[m] /\ live'[m] = live[m]
  BY <1>1 DEF Restart, IInv, NodeInv, NodeTypeOK
<1>3. \A id \in Ids : store[n][id] # Nil => live'[n][id] = <<store[n][id]>>
  BY <1>1 DEF Restart, IInv, NodeInv, NodeTypeOK
<1>. QED
  BY <1>1, <1>2, <1>3 DEF Rises

\* A step of a method touches its own frame and its own id, and never removes
\* an index entry while it inserts.
Runs(n, c) ==
  /\ Running(n, c) /\ MethodStep(n, c)
  /\ UNCHANGED <<up, request, stage, last, alone>>
  /\ \A m \in Nodes, d \in Calls :
       /\ frame'[m][d].art = frame[m][d].art
       /\ ~(m = n /\ d = c) => frame'[m][d] = frame[m][d]
  /\ \A m \in Nodes, id \in Ids : ~(m = n /\ id = request[c].id) =>
       store'[m][id] = store[m][id] /\ live'[m][id] = live[m][id]
  /\ Pc(n, c) = "store_insert" =>
       /\ live' = live
       /\ Row(n, c) # Nil => Pc(n, c)' = "failed" /\ store' = store

LEMMA RunsIs ==
  ASSUME IInv, NEW n \in Nodes, NEW c \in Calls, NodeStep(n, c)
  PROVE  Runs(n, c)
<1>1. NodeInv /\ MethodStep(n, c) /\ UNCHANGED <<request, stage, last, alone>>
  BY DEF IInv, NodeStep, serverVars, historyVars
<1>2. /\ Running(n, c)
      /\ \A m \in Nodes, d \in Calls :
           /\ frame'[m][d].art = frame[m][d].art
           /\ ~(m = n /\ d = c) => frame'[m][d] = frame[m][d]
  BY <1>1, MethodStepEffect
<1>3. frame[n][c].id = request[c].id
  BY <1>2 DEF IInv, HandlerInv, FramesMatch, Running, Pc, RunningPc, InsertPc, DeletePc
<1>4. up' = up /\ \A m \in Nodes, id \in Ids : ~(m = n /\ id = request[c].id) =>
                      live'[m][id] = live[m][id]
  BY <1>1, <1>3, MethodStepIndexEffect
<1>5. \A m \in Nodes, id \in Ids : ~(m = n /\ id = request[c].id) =>
        store'[m][id] = store[m][id]
  <2>1. store \in [Nodes -> [Ids -> Articles \cup {Nil}]]
    BY <1>1 DEF NodeInv, NodeTypeOK
  <2>2. store' = store \/ \E row : SetRow(n, c, row)
    BY <1>1, MethodStepEffect
  <2>. QED
    BY <1>3, <2>1, <2>2 DEF SetRow
<1>6. ASSUME Pc(n, c) = "store_insert"
      PROVE  live' = live /\ (Row(n, c) # Nil => Pc(n, c)' = "failed" /\ store' = store)
  <2>1. StoreInsert(n, c) \/ StoreError(n, c)
    BY <1>1, <1>6 DEF MethodStep, IndexInsert, UndoInsert, StoreGet, StoreDelete, IndexDelete
  <2>2. \A pc : Goto(n, c, pc) => Pc(n, c)' = pc
    BY <1>1, GotoFrames DEF NodeInv, NodeTypeOK, Pc
  <2>. QED
    BY <1>6, <2>1, <2>2 DEF StoreInsert, StoreError, indexVars
<1>. QED
  BY <1>1, <1>2, <1>4, <1>5, <1>6 DEF Runs

\* What a step of ReplicatedShard is to a read.
WriteKind ==
  \/ \E c \in Calls, x \in Ids : Receives(c, x)
  \/ \E c \in Calls : Handles(c)
  \/ \E n \in Nodes, c \in Calls : Runs(n, c)
  \/ \E n \in Nodes : Falls(n) \/ Rises(n)
  \/ Rests

NewDelete(x) == \E c \in Calls : Receives(c, x) /\ request'[c].op = "delete"
NewInsert(x) == \E c \in Calls : Receives(c, x) /\ request'[c].op = "insert"

LEMMA HandlesIs ==
  ASSUME NEW c \in Calls, HandlerStep(c)
  PROVE  Handles(c)
  BY DEF Handles, HandlerStep, Lookup, LookupError, LocalDone, Forward, RemoteDone,
    RemoteFailed, ReplicaUnreachable, StartRollback, RollbackDone, nodeVars, indexVars

LEMMA HeldStays ==
  ASSUME IInv, IInv', WriteKind, NEW a \in Articles, Held(a), ~NewDelete(a.id)
  PROVE  Held(a)'
<1>0. a.id \in Ids /\ a # Nil
  BY ArticleAssumption
<1>1. Stands(a) /\ \A d \in Calls : request[d].id = a.id => OnlyFails(d)
  BY DEF Held
<1>2. ASSUME NEW c \in Calls, NEW x \in Ids, Receives(c, x)
      PROVE  Held(a)'
  <2>1. Stands(a)'
    BY <1>1, <1>2 DEF Stands, Receives
  <2>2. ASSUME request'[c].id = a.id
        PROVE  OnlyFails(c)'
    <3>1. request'[c].op = "insert"
      BY <1>2, <2>2 DEF NewDelete, Receives
    <3>. QED
      BY <1>2, <3>1 DEF Receives, OnlyFails, Running, RunningPc, InsertPc, DeletePc
  <2>3. ASSUME NEW d \in Calls, d # c
        PROVE  request'[d] = request[d] /\ (OnlyFails(d)' <=> OnlyFails(d))
    BY <1>2, <2>3, TwoNodes DEF Receives, OnlyFails, Active, Busy, Running, Pc
  <2>. QED
    BY <1>1, <2>1, <2>2, <2>3 DEF Held
<1>3. ASSUME NEW c \in Calls, Handles(c)
      PROVE  Held(a)'
  <2>1. /\ Busy(c) /\ UNCHANGED <<store, request, live, up>>
        /\ \A d \in Calls : d # c =>
             stage'[d] = stage[d] /\ \A n \in Nodes : frame'[n][d] = frame[n][d]
    BY <1>3, HandlerEffect DEF Handles
  <2>2. ASSUME request[c].id = a.id
        PROVE  OnlyFails(c)'
    <3>1. /\ stage[c] = "local" /\ ~Running(Replica, c)
          /\ Pc(Primary, c) \in {"store_insert", "failed"}
      BY <1>1, <2>1, <2>2 DEF OnlyFails, Active
    <3>2. stage'[c] = "done" /\ \A n \in Nodes : frame'[n][c] = frame[n][c]
      BY <1>3, <3>1, HandlerEffect DEF Handles
    <3>3. ~Running(Primary, c)' /\ ~Running(Replica, c)'
      BY <3>1, <3>2, TwoNodes DEF Running, Pc, IInv, HandlerInv, StagesMatch
    <3>. QED
      BY <3>2, <3>3 DEF OnlyFails, Active, Busy, BusyStages
  <2>3. ASSUME NEW d \in Calls, d # c
        PROVE  OnlyFails(d)' <=> OnlyFails(d)
    BY <2>1, <2>3, TwoNodes DEF OnlyFails, Active, Busy, Running, Pc
  <2>4. Stands(a)'
    BY <1>1, <2>1 DEF Stands
  <2>. QED
    BY <1>1, <2>1, <2>2, <2>3, <2>4 DEF Held
<1>4. ASSUME NEW n \in Nodes, NEW c \in Calls, Runs(n, c)
      PROVE  Held(a)'
  <2>1. UNCHANGED <<up, request, stage>> /\ Active(c)
    BY <1>4, TwoNodes DEF Runs, Active
  <2>2. ASSUME NEW d \in Calls, d # c
        PROVE  OnlyFails(d)' <=> OnlyFails(d)
    BY <1>4, <2>1, <2>2, TwoNodes DEF Runs, OnlyFails, Active, Busy, Running, Pc
  <2>3. CASE request[c].id = a.id
    <3>1. /\ n = Primary /\ Pc(n, c) = "store_insert" /\ ~Running(Replica, c)
          /\ stage[c] = "local" /\ request[c].op = "insert"
      BY <1>1, <1>4, <2>1, <2>3, TwoNodes
      DEF OnlyFails, Runs, Running, RunningPc, InsertPc, DeletePc
    <3>2. Row(n, c) # Nil
      BY <1>0, <1>1, <2>3, <3>1 DEF Row, Stands, IInv, HandlerInv, FramesMatch, Pc
    <3>3. Pc(n, c)' = "failed" /\ store' = store /\ live' = live
      BY <1>4, <3>1, <3>2 DEF Runs
    <3>4. ~Running(Replica, c)'
      BY <1>4, <3>1, TwoNodes DEF Runs, Running, Pc
    <3>5. OnlyFails(c)'
      BY <2>1, <3>1, <3>3, <3>4 DEF OnlyFails
    <3>6. Stands(a)'
      BY <1>1, <2>1, <3>3 DEF Stands
    <3>. QED
      BY <1>1, <2>1, <2>2, <3>5, <3>6 DEF Held
  <2>4. CASE request[c].id # a.id
    <3>1. \A m \in Nodes : store'[m][a.id] = store[m][a.id] /\ live'[m][a.id] = live[m][a.id]
      BY <1>0, <1>4, <2>4 DEF Runs
    <3>2. Stands(a)'
      BY <1>1, <2>1, <3>1 DEF Stands
    <3>. QED
      BY <1>1, <2>1, <2>2, <2>4, <3>2 DEF Held
  <2>. QED
    BY <2>3, <2>4
<1>5. ASSUME NEW n \in Nodes, Falls(n)
      PROVE  Held(a)'
  <2>1. Stands(a)'
    BY <1>1, <1>5 DEF Falls, Stands
  <2>2. ASSUME NEW d \in Calls, OnlyFails(d)
        PROVE  OnlyFails(d)'
    <3>1. /\ Active(d)' => Active(d)
          /\ stage'[d] \in {stage[d], "done"} /\ request' = request
          /\ \A m \in Nodes : (Running(m, d)' => Running(m, d)) /\
                               Pc(m, d)' \in {Pc(m, d), "failed"}
      BY <1>5, TwoNodes
      DEF Falls, Active, Busy, BusyStages, Running, Pc, RunningPc, InsertPc, DeletePc
    <3>2. Running(Primary, d)' => stage'[d] \in {"local", "rollback"}
      BY DEF IInv, HandlerInv, StagesMatch
    <3>3. Active(d)' => stage'[d] # "done"
      BY <2>2, <3>1, <3>2, TwoNodes DEF OnlyFails, Active, Busy, BusyStages
    <3>. QED
      BY <2>2, <3>1, <3>3, TwoNodes DEF OnlyFails
  <2>. QED
    BY <1>1, <1>5, <2>1, <2>2 DEF Held, Falls
<1>6. ASSUME NEW n \in Nodes, Rises(n)
      PROVE  Held(a)'
  <2>1. live'[n][a.id] = <<a>>
    BY <1>0, <1>1, <1>6 DEF Rises, Stands
  <2>2. a \in ToSet(<<a>>)
    BY DEF ToSet
  <2>3. Stands(a)'
    BY <1>1, <1>6, <2>1, <2>2 DEF Rises, Stands
  <2>. QED
    BY <1>1, <1>6, <2>3 DEF Rises, Held, OnlyFails, Active, Busy, Running, Pc
<1>7. CASE Rests
  BY <1>1, <1>7 DEF Rests, Held, Stands, OnlyFails, Active, Busy, Running, Pc
<1>. QED
  BY <1>2, <1>3, <1>4, <1>5, <1>6, <1>7 DEF WriteKind

\* What is deleted stays away: a later delete of the id finds nothing.
LEMMA VacantStays ==
  ASSUME IInv, IInv', WriteKind, NEW x \in Ids, Vacant(x), ~NewInsert(x)
  PROVE  Vacant(x)'
<1>1. \A n \in Nodes : store[n][x] = Nil
  BY DEF Vacant, NoCopy
<1>2. \A d \in Calls : request[d].id = x => OnlyLooks(d)
  BY DEF Vacant
<1>3. ASSUME NEW c \in Calls, NEW y \in Ids, Receives(c, y)
      PROVE  Vacant(x)'
  <2>1. ASSUME request'[c].id = x
        PROVE  OnlyLooks(c)'
    BY <1>3, <2>1 DEF NewInsert, Receives, OnlyLooks, Running, RunningPc, InsertPc, DeletePc
  <2>2. ASSUME NEW d \in Calls, d # c
        PROVE  request'[d] = request[d] /\ (OnlyLooks(d)' <=> OnlyLooks(d))
    BY <1>3, <2>2, TwoNodes DEF Receives, OnlyLooks, Active, Busy, Running, Pc
  <2>3. NoCopy(x)'
    BY <1>1, <1>3 DEF NoCopy, Receives
  <2>. QED
    BY <1>2, <2>1, <2>2, <2>3 DEF Vacant
<1>4. ASSUME NEW c \in Calls, Handles(c)
      PROVE  Vacant(x)'
  <2>1. /\ Busy(c) /\ UNCHANGED <<store, request>>
        /\ \A d \in Calls : d # c =>
             stage'[d] = stage[d] /\ \A n \in Nodes : frame'[n][d] = frame[n][d]
    BY <1>4, HandlerEffect DEF Handles
  <2>2. ASSUME request[c].id = x
        PROVE  OnlyLooks(c)'
    <3>1. stage[c] = "lookup" /\ (\A n \in Nodes : ~Running(n, c)) /\ store[Primary][x] = Nil
      BY <1>1, <1>2, <2>1, <2>2, TwoNodes DEF OnlyLooks, Active
    <3>2. stage'[c] = "done" /\ \A n \in Nodes : frame'[n][c] = frame[n][c]
      BY <1>4, <2>2, <3>1, HandlerEffect DEF Handles
    <3>. QED
      BY <3>1, <3>2, TwoNodes DEF OnlyLooks, Active, Busy, BusyStages, Running, Pc
  <2>3. ASSUME NEW d \in Calls, d # c
        PROVE  OnlyLooks(d)' <=> OnlyLooks(d)
    BY <2>1, <2>3, TwoNodes DEF OnlyLooks, Active, Busy, Running, Pc
  <2>. QED
    BY <1>1, <1>2, <2>1, <2>2, <2>3 DEF Vacant, NoCopy
<1>5. ASSUME NEW n \in Nodes, NEW c \in Calls, Runs(n, c)
      PROVE  Vacant(x)'
  <2>1. UNCHANGED <<request, stage>> /\ Active(c) /\ request[c].id # x
    BY <1>2, <1>5, TwoNodes DEF Runs, Active, OnlyLooks
  <2>2. ASSUME NEW d \in Calls, d # c
        PROVE  OnlyLooks(d)' <=> OnlyLooks(d)
    BY <1>5, <2>1, <2>2, TwoNodes DEF Runs, OnlyLooks, Active, Busy, Running, Pc
  <2>3. \A m \in Nodes : store'[m][x] = Nil
    BY <1>1, <1>5, <2>1 DEF Runs
  <2>. QED
    BY <1>2, <2>1, <2>2, <2>3 DEF Vacant, NoCopy
<1>6. ASSUME NEW n \in Nodes, Falls(n)
      PROVE  Vacant(x)'
  <2>1. ASSUME NEW d \in Calls, OnlyLooks(d)
        PROVE  OnlyLooks(d)'
    BY <1>6, <2>1, TwoNodes
    DEF Falls, OnlyLooks, Active, Busy, BusyStages, Running, Pc, RunningPc, InsertPc, DeletePc
  <2>. QED
    BY <1>1, <1>2, <1>6, <2>1 DEF Vacant, NoCopy, Falls
<1>7. CASE Rests \/ \E n \in Nodes : Rises(n)
  BY <1>1, <1>2, <1>7 DEF Rests, Rises, Vacant, NoCopy, OnlyLooks, Active, Busy, Running, Pc
<1>. QED
  BY <1>3, <1>4, <1>5, <1>6, <1>7 DEF WriteKind

LEMMA KeptStays ==
  ASSUME IInv, WriteKind, NEW a \in Articles, Kept(a), ~NewDelete(a.id),
         \A c \in Calls : reply[c] = "ok" => reply'[c] = "ok"
  PROVE  Kept(a)'
<1>1. PICK d \in Calls : Acked(d, "insert") /\ request[d].art = a
  BY DEF Kept
<1>2. stage[d] # "idle"
  BY <1>1 DEF Acked, IInv, HandlerInv, RequestOK
<1>3. CASE \E c \in Calls, y \in Ids : Receives(c, y)
  <2>1. PICK c \in Calls, y \in Ids : Receives(c, y)
    BY <1>3
  <2>2. \A e \in Calls : e # c => request'[e] = request[e]
    BY <2>1 DEF Receives
  <2>3. NeverDeleted(a.id)'
    BY <2>1, <2>2 DEF NewDelete, NeverDeleted, Receives, Kept
  <2>4. d # c
    BY <1>2, <2>1 DEF Receives
  <2>. QED
    BY <1>1, <2>2, <2>3, <2>4 DEF Kept, Acked
<1>4. CASE ~\E c \in Calls, y \in Ids : Receives(c, y)
  <2>1. request' = request
    BY <1>4, HandlerEffect DEF WriteKind, Handles, Runs, Falls, Rises, Rests
  <2>. QED
    BY <1>1, <2>1 DEF Kept, Acked, NeverDeleted
<1>. QED
  BY <1>3, <1>4

LEMMA InAppend ==
  ASSUME NEW s \in Seq(Articles), NEW a \in Articles
  PROVE  a \in ToSet(Append(s, a))
<1>1. Len(s) + 1 \in DOMAIN Append(s, a) /\ Append(s, a)[Len(s) + 1] = a
  OBVIOUS
<1>. QED
  BY <1>1 DEF ToSet

LEMMA LonelyIndexedStays ==
  ASSUME IInv, LastInv, LonelyIndexed, WriteKind
  PROVE  LonelyIndexed'
<1> SUFFICES ASSUME NEW id \in Ids, NEW n \in Nodes, Lonely(id)',
                    frame'[n][last'[id]].pc = "ok", frame'[n][last'[id]].art # Nil, up'[n]
             PROVE  frame'[n][last'[id]].art \in ToSet(live'[n][id])
  BY DEF LonelyIndexed
<1>1. last[id] # Nil => last[id] \in Calls /\ request[last[id]].id = id /\ stage[last[id]] # "idle"
  BY DEF LastInv, LastKnown, IInv, HandlerInv, ServerTypeOK
<1>2. ASSUME frame'[n][last'[id]] = frame[n][last[id]], Lonely(id), up[n]
      PROVE  frame'[n][last'[id]].art \in ToSet(live[n][id])
  BY <1>2 DEF LonelyIndexed
<1>3. ASSUME NEW c \in Calls, NEW y \in Ids, Receives(c, y)
      PROVE  frame'[n][last'[id]].art \in ToSet(live'[n][id])
  <2>1. /\ \A x \in Ids : last'[x] = IF x = y THEN c ELSE last[x]
        /\ \A d \in Calls : d # c /\ alone'[d] => alone[d]
    BY <1>3 DEF Receives, NoteStart, IInv, HandlerInv, ServerTypeOK
  <2>2. \A m \in Nodes : frame'[m][c].pc # "ok"
    BY <1>3, TwoNodes DEF Receives, Pc
  <2>3. id # y /\ last'[id] = last[id]
    BY <2>1, <2>2
  <2>4. last[id] \in Calls /\ last[id] # c /\ Lonely(id)
    BY <1>1, <1>3, <2>1, <2>3 DEF Lonely, Receives
  <2>. QED
    BY <1>2, <1>3, <2>3, <2>4 DEF Receives
<1>4. ASSUME NEW c \in Calls, Handles(c)
      PROVE  frame'[n][last'[id]].art \in ToSet(live'[n][id])
  <2>1. /\ UNCHANGED <<last, alone, live, up>>
        /\ \A d \in Calls : frame'[n][d] = frame[n][d]
                              \/ frame'[n][d].pc \in {"store_get", "store_insert"}
    BY <1>4, HandlerEffect DEF Handles
  <2>. QED
    BY <1>1, <1>2, <2>1 DEF Lonely
<1>5. ASSUME NEW m \in Nodes, NEW c \in Calls, Runs(m, c)
      PROVE  frame'[n][last'[id]].art \in ToSet(live'[n][id])
  <2>1. UNCHANGED <<last, alone, up, request>> /\ Lonely(id) /\ last[id] \in Calls
    BY <1>1, <1>5 DEF Runs, Lonely
  <2>2. CASE last[id] = c /\ n = m
    <3> DEFINE a == frame[n][c].art
    <3>1. MethodStep(n, c) /\ Pc(n, c)' = "ok" /\ NodeInv /\ a = frame'[n][c].art /\ a # Nil
      BY <1>5, <2>1, <2>2 DEF Runs, Pc, IInv
    <3>2. Running(n, c)
      BY <1>5, <2>2 DEF Runs
    <3>3. frame[n][c].id = id
      <4>1. request[c].id = id
        BY <1>1, <2>1, <2>2 DEF Lonely
      <4>. QED
        BY <3>2, <4>1
        DEF IInv, HandlerInv, FramesMatch, Running, Pc, RunningPc, InsertPc, DeletePc
    <3>4. Pc(n, c) # "index_delete"
      BY <3>1 DEF NodeInv, FrameOK, Pc, DeletePc
    <3>5. Pc(n, c) = "index_insert" /\ live'[n][id] = Append(live[n][id], a)
      BY <3>1, <3>3, <3>4, MethodStepIndexEffect
    <3>6. a \in Articles /\ live[n][id] \in Seq(Articles)
      BY <3>1, <3>5 DEF NodeInv, NodeTypeOK, FrameOK, Pc, InsertPc
    <3>. QED
      BY <2>1, <2>2, <3>1, <3>5, <3>6, InAppend
  <2>3. CASE ~(last[id] = c /\ n = m)
    <3>1. frame'[n][last[id]] = frame[n][last[id]]
      BY <1>5, <2>1, <2>3 DEF Runs
    <3>2. ~(n = m /\ id = request[c].id)
      <4>1. Active(c)
        BY <1>5, TwoNodes DEF Runs, Active
      <4>. QED
        BY <2>1, <2>3, <4>1 DEF LastInv, LonelyOnly
    <3>. QED
      BY <1>2, <1>5, <2>1, <3>1, <3>2 DEF Runs
  <2>. QED
    BY <2>2, <2>3
<1>6. ASSUME NEW m \in Nodes, Falls(m)
      PROVE  frame'[n][last'[id]].art \in ToSet(live'[n][id])
  <2>1. n # m /\ UNCHANGED <<last, alone>>
    BY <1>6 DEF Falls
  <2>2. Lonely(id) /\ last[id] \in Calls
    BY <1>1, <2>1 DEF Lonely
  <2>. QED
    BY <1>2, <1>6, <2>1, <2>2 DEF Falls
<1>7. ASSUME NEW m \in Nodes, Rises(m)
      PROVE  frame'[n][last'[id]].art \in ToSet(live'[n][id])
  <2>1. UNCHANGED <<last, alone, frame>> /\ Lonely(id)
    BY <1>7 DEF Rises, Lonely
  <2>2. CASE n # m
    BY <1>2, <1>7, <2>1, <2>2 DEF Rises
  <2>3. CASE n = m
    <3>1. store[n][id] = frame[n][last[id]].art
      BY <2>1 DEF LastInv, LonelyRow, DecidedPc, Pc
    <3>2. live'[n][id] = <<frame[n][last[id]].art>>
      BY <1>7, <2>1, <2>3, <3>1 DEF Rises
    <3>. QED
      BY <2>1, <3>2 DEF ToSet
  <2>. QED
    BY <2>2, <2>3
<1>8. CASE Rests
  BY <1>2, <1>8 DEF Rests, Lonely
<1>. QED
  BY <1>3, <1>4, <1>5, <1>6, <1>7, <1>8 DEF WriteKind

-----------------------------------------------------------------------------
(* What is known when a read starts *)

LEMMA OwedAtStart ==
  ASSUME IInv, LastInv, LonelyIndexed, NEW op, NEW a \in MustNow(op)
  PROVE  a \in Articles /\ (Held(a) \/ (op # "search" /\ Kept(a)))
<1>1. PICK c \in Calls : /\ Acked(c, "insert") /\ request[c].art = a
                         /\ \/ Settles(c, request[c].id)
                            \/ op # "search" /\ NeverDeleted(request[c].id)
  BY DEF MustNow
<1>2. a \in Articles /\ request[c].id = a.id /\ a.id \in Ids
  BY <1>1, ArticleAssumption DEF Acked, IInv, HandlerInv, RequestOK
<1>3. stage[c] = "done" /\ \A n \in Nodes : Pc(n, c) = "ok" /\ frame[n][c].art = a
  BY <1>1 DEF Acked, IInv, HandlerInv, FramesMatch, OwnershipInv, AckedOwns
<1>4. CASE op # "search" /\ NeverDeleted(request[c].id)
  BY <1>1, <1>2, <1>4 DEF Kept
<1>5. CASE Settles(c, request[c].id)
  <2>1. Lonely(a.id) /\ last[a.id] = c
    BY <1>2, <1>5, CallsAssumption DEF Settles, Lonely
  <2>2. \A n \in Nodes : store[n][a.id] = a
    BY <1>2, <1>3, <2>1 DEF LastInv, LonelyRow, DecidedPc
  <2>3. \A n \in Nodes : up[n] => a \in ToSet(live[n][a.id])
    BY <1>2, <1>3, <2>1, ArticleAssumption DEF LonelyIndexed, Pc
  <2>4. ~Active(c)
    BY <1>3, TwoNodes DEF Active, Busy, BusyStages, Running, RunningPc, InsertPc, DeletePc
  <2>5. \A d \in Calls : request[d].id = a.id => ~Active(d)
    BY <1>2, <2>1, <2>4 DEF LastInv, LonelyOnly
  <2>. QED
    BY <1>2, <2>2, <2>3, <2>5 DEF Held, Stands, OnlyFails
<1>. QED
  BY <1>1, <1>2, <1>4, <1>5

LEMMA GoneAtStart ==
  ASSUME IInv, LastInv, NEW id \in GoneNow
  PROVE  id \in Ids /\ Vacant(id)
<1>1. id \in Ids /\ \E d \in Calls : request[d].op = "delete" /\ Settles(d, id)
  BY DEF GoneNow
<1>2. PICK c \in Calls : request[c].op = "delete" /\ Settles(c, id)
  BY <1>1
<1>3. Acked(c, "delete") /\ request[c].id = id /\ Lonely(id) /\ last[id] = c
  BY <1>2, CallsAssumption DEF Settles, Acked, Lonely
<1>4. stage[c] = "done"
      /\ \A n \in Nodes : Pc(n, c) \in {"ok", "notfound"} /\ frame[n][c].art = Nil
  BY <1>3 DEF LastInv, AckedGone
<1>5. NoCopy(id)
  BY <1>1, <1>3, <1>4 DEF LastInv, LonelyRow, DecidedPc, NoCopy
<1>6. ~Active(c)
  BY <1>4, TwoNodes DEF Active, Busy, BusyStages, Running, RunningPc, InsertPc, DeletePc
<1>7. \A d \in Calls : request[d].id = id => ~Active(d)
  BY <1>1, <1>3, <1>6 DEF LastInv, LonelyOnly
<1>. QED
  BY <1>1, <1>5, <1>7 DEF Vacant, OnlyLooks

\* An owed article is what both tables hold under its id.
LEMMA OwedIsStored ==
  ASSUME IInv, NEW a \in Articles, Held(a) \/ Kept(a)
  PROVE  \A n \in Nodes : store[n][a.id] = a
<1>1. CASE Held(a)
  BY <1>1 DEF Held, Stands
<1>2. CASE Kept(a)
  <2>1. PICK c \in Calls : Acked(c, "insert") /\ request[c].art = a
    BY <1>2 DEF Kept
  <2>2. request[c].id = a.id
    BY <2>1 DEF Acked, IInv, HandlerInv, RequestOK
  <2>3. \A n \in Nodes : Owns(n, c)
    BY <2>1 DEF Acked, Owns, IInv, OwnershipInv, AckedOwns
  <2>. QED
    BY <1>2, <2>1, <2>2, <2>3 DEF Kept, IInv, OwnershipInv, OwnersRow
<1>. QED
  BY <1>1, <1>2

-----------------------------------------------------------------------------
(* Steps of the writes *)

\* A step that adds to no obligation keeps the invariant of the reads.
LEMMA WritesKeepReads ==
  ASSUME ReadsInv, IInv', LastInv', ReadsTypeOK', WriteKind,
         \A c \in Calls : reply[c] = "ok" => reply'[c] = "ok",
         UNCHANGED <<hits, found, answer>>,
         \A r \in Reads :
           /\ read'[r].op = read[r].op /\ read'[r].id = read[r].id
           /\ read'[r].pc = read[r].pc \/ (read[r].pc = "load" /\ read'[r].pc = "broken")
           /\ must'[r] \subseteq must[r] /\ gone'[r] \subseteq gone[r]
           /\ Reading(r) => /\ \A a \in must'[r] : ~NewDelete(a.id)
                            /\ \A id \in gone'[r] : ~NewInsert(id)
  PROVE  ReadsInv'
<1>1. IInv /\ LastInv /\ ReadsTypeOK
  BY DEF ReadsInv
<1>2. \A r \in Reads : Reading(r)' <=> Reading(r)
  BY DEF Reading
<1>3. \A r \in Reads : Wanted(r)' = Wanted(r)
  BY DEF Wanted
<1>4. LonelyIndexed'
  BY LonelyIndexedStays DEF ReadsInv
<1>5. MustHold'
  <2> SUFFICES ASSUME NEW r \in Reads, Reading(r)', NEW a \in must'[r]
               PROVE  Held(a)' \/ (read'[r].op # "search" /\ Kept(a)')
    BY DEF MustHold
  <2>1. a \in must[r] /\ ~NewDelete(a.id) /\ a \in Articles
    BY <1>1, <1>2 DEF ReadsTypeOK
  <2>2. Held(a) \/ (read[r].op # "search" /\ Kept(a))
    BY <1>2, <2>1 DEF ReadsInv, MustHold
  <2>3. CASE Held(a)
    BY <1>1, <2>1, <2>3, HeldStays
  <2>4. CASE read[r].op # "search" /\ Kept(a)
    BY <1>1, <2>1, <2>4, KeptStays
  <2>. QED
    BY <2>2, <2>3, <2>4
<1>6. GoneHold'
  <2> SUFFICES ASSUME NEW r \in Reads, Reading(r)', NEW id \in gone'[r]
               PROVE  Vacant(id)'
    BY DEF GoneHold
  <2>1. id \in gone[r] /\ ~NewInsert(id) /\ id \in Ids
    BY <1>1, <1>2 DEF ReadsTypeOK
  <2>2. Vacant(id)
    BY <1>2, <2>1 DEF ReadsInv, GoneHold
  <2>. QED
    BY <1>1, <2>1, <2>2, VacantStays
<1>7. HitsHold'
  BY DEF ReadsInv, HitsHold, Wants
<1>8. AnswersOK'
  BY DEF ReadsInv, AnswersOK
<1>9. ReadsSeeAcknowledged'
  BY <1>3 DEF ReadsInv, ReadsSeeAcknowledged
<1>10. GetsAnId'
  BY DEF ReadsInv, GetsAnId
<1>. QED
  BY <1>4, <1>5, <1>6, <1>7, <1>8, <1>9, <1>10 DEF ReadsInv

\* What is ok stays ok: an answer is given once.
LEMMA OkStays ==
  ASSUME IInv, Next
  PROVE  \A c \in Calls : reply[c] = "ok" => reply'[c] = "ok"
<1>0. reply \in [Calls -> Replies]
  BY DEF IInv, HandlerInv, ServerTypeOK
<1>1. ASSUME NEW c \in Calls, HandlerStep(c)
      PROVE  reply' = reply \/ \E r : Return(c, r)
  <2>1. CASE Lookup(c) \/ LookupError(c) \/ RemoteDone(c) \/ RollbackDone(c)
    BY <2>1 DEF Lookup, LookupError, RemoteDone, RollbackDone
  <2>2. CASE LocalDone(c)
    BY <2>2 DEF LocalDone, Advance, ResultPc
  <2>3. CASE Forward(c) \/ RemoteFailed(c) \/ ReplicaUnreachable(c)
    BY <2>3 DEF Forward, RemoteFailed, ReplicaUnreachable, StartRollback, Advance
  <2>. QED
    BY <1>1, <2>1, <2>2, <2>3 DEF HandlerStep
<1>2. \A c \in Calls : \A r : Return(c, r) =>
        \A d \in Calls : reply[d] = "ok" => reply'[d] = "ok"
  BY <1>0 DEF Return
<1>3. ASSUME NEW n \in Nodes, ProcessCrash(n) \/ ProcessStop(n) \/ ProcessRestart(n)
      PROVE  UNCHANGED reply \/ PrimaryHandlersDie
  BY <1>3 DEF ProcessCrash, ProcessStop, ProcessRestart, serverVars
<1>4. PrimaryHandlersDie => \A d \in Calls : reply[d] = "ok" => reply'[d] = "ok"
  BY DEF PrimaryHandlersDie
<1>. QED
  BY <1>0, <1>1, <1>2, <1>3, <1>4
  DEF Next, ReceiveInsert, ReceiveDelete, NodeStep, CallerDisconnects, serverVars

\* A step that asks for nothing new.
LEMMA NothingNew ==
  ASSUME IInv, request' = request
  PROVE  \A x \in Ids : ~NewDelete(x) /\ ~NewInsert(x)
<1>1. \A c \in Calls : stage[c] = "idle" => request[c].op = "none"
  BY DEF IInv, HandlerInv, RequestOK, NoRequest
<1>. QED
  BY <1>1 DEF NewDelete, NewInsert, Receives

LEMMA InsertNextInv ==
  ASSUME ReadsInv, NEW c \in Calls, NEW a \in Articles, InsertNextToReads(c, a)
  PROVE  ReadsInv'
<1>1. /\ ReceiveInsert(c, a) /\ UNCHANGED <<read, hits, found, answer, must>>
      /\ gone' = [r \in Reads |-> IF Reading(r) THEN gone[r] \ {a.id} ELSE gone[r]]
  BY DEF InsertNextToReads, NoteInsert
<1>2. IInv /\ LastInv /\ ReadsTypeOK /\ a.id \in Ids /\ Next
  BY <1>1, ArticleAssumption DEF ReadsInv, Next
<1>3. Receives(c, a.id) /\ request'[c].op = "insert"
  BY <1>1, <1>2, ReceivesIs
  DEF ReceiveInsert, InsertRequest, IInv, HandlerInv, ServerTypeOK
<1>4. \A x : NewDelete(x) \/ NewInsert(x) => x = a.id /\ ~NewDelete(x)
  BY <1>3 DEF NewDelete, NewInsert, Receives
<1>5. IInv' /\ LastInv' /\ WriteKind /\ \A d \in Calls : reply[d] = "ok" => reply'[d] = "ok"
  BY <1>2, <1>3, IInvNext, LastInvNext, OkStays DEF WriteKind
<1>6. ReadsTypeOK'
  BY <1>1, <1>2 DEF ReadsTypeOK
<1>. QED
  BY <1>1, <1>2, <1>4, <1>5, <1>6, WritesKeepReads DEF ReadsTypeOK

LEMMA DeleteNextInv ==
  ASSUME ReadsInv, NEW c \in Calls, NEW id \in Ids, DeleteNextToReads(c, id)
  PROVE  ReadsInv'
<1>1. /\ ReceiveDelete(c, id) /\ UNCHANGED <<read, hits, found, answer, gone>>
      /\ must' = [r \in Reads |-> IF Reading(r) THEN {a \in must[r] : a.id # id} ELSE must[r]]
  BY DEF DeleteNextToReads, NoteDelete
<1>2. IInv /\ LastInv /\ ReadsTypeOK /\ Next
  BY <1>1 DEF ReadsInv, Next
<1>3. Receives(c, id) /\ request'[c].op = "delete"
  BY <1>1, <1>2, ReceivesIs
<1>4. \A x : NewDelete(x) \/ NewInsert(x) => x = id /\ ~NewInsert(x)
  BY <1>3 DEF NewDelete, NewInsert, Receives
<1>5. IInv' /\ LastInv' /\ WriteKind /\ \A d \in Calls : reply[d] = "ok" => reply'[d] = "ok"
  BY <1>2, <1>3, IInvNext, LastInvNext, OkStays DEF WriteKind
<1>6. ReadsTypeOK'
  BY <1>1, <1>2 DEF ReadsTypeOK
<1>. QED
  BY <1>1, <1>2, <1>4, <1>5, <1>6, WritesKeepReads DEF ReadsTypeOK

\* The steps of handlers, nodes and processes ask for nothing new.
LEMMA WriteNextInv ==
  ASSUME ReadsInv, Next, request' = request,
         UNCHANGED <<hits, found, answer, must, gone>>,
         ReadsTypeOK',
         \A r \in Reads :
           /\ read'[r].op = read[r].op /\ read'[r].id = read[r].id
           /\ read'[r].pc = read[r].pc \/ (read[r].pc = "load" /\ read'[r].pc = "broken")
  PROVE  ReadsInv'
<1>1. IInv /\ LastInv /\ ReadsTypeOK
  BY DEF ReadsInv
<1>2. IInv' /\ LastInv' /\ \A d \in Calls : reply[d] = "ok" => reply'[d] = "ok"
  BY <1>1, IInvNext, LastInvNext, OkStays
<1>3. WriteKind
  <2>1. ASSUME NEW c \in Calls, NEW x \in Ids,
               ReceiveDelete(c, x) \/ \E a \in Articles : a.id = x /\ ReceiveInsert(c, a)
        PROVE  FALSE
    <3>1. Receives(c, x)
      BY <1>1, <2>1, ReceivesIs
    <3>. QED
      BY <1>1, <3>1, NothingNew DEF NewDelete, NewInsert, Receives
  <2>2. ASSUME NEW c \in Calls, NEW a \in Articles, ReceiveInsert(c, a)
        PROVE  FALSE
    BY <2>1, <2>2, ArticleAssumption
  <2>3. ASSUME NEW c \in Calls, CallerDisconnects(c)
        PROVE  Rests
    BY <2>3 DEF CallerDisconnects, Rests, nodeVars, historyVars
  <2>. QED
    BY <1>1, <2>1, <2>2, <2>3, HandlesIs, RunsIs, FallsIs, RisesIs DEF Next, WriteKind
<1>. QED
  BY <1>1, <1>2, <1>3, NothingNew, WritesKeepReads, ArticleAssumption DEF ReadsTypeOK

LEMMA WriteStepInv ==
  ASSUME ReadsInv, NEW c \in Calls, WriteStep(c)
  PROVE  ReadsInv'
<1>1. Next /\ UNCHANGED readVars
  BY DEF WriteStep, Next
<1>2. request' = request
  <2>1. CASE HandlerStep(c)
    BY <2>1, HandlerEffect DEF ReadsInv
  <2>2. CASE (\E n \in Nodes : NodeStep(n, c)) \/ CallerDisconnects(c)
    BY <2>2 DEF NodeStep, CallerDisconnects, serverVars
  <2>. QED
    BY <2>1, <2>2 DEF WriteStep
<1>3. ReadsTypeOK'
  BY <1>1 DEF ReadsInv, ReadsTypeOK, readVars
<1>. QED
  BY <1>1, <1>2, <1>3, WriteNextInv DEF readVars

LEMMA CrashUnderReadsInv ==
  ASSUME ReadsInv, NEW n \in Nodes, CrashUnderReads(n)
  PROVE  ReadsInv'
<1>1. ProcessCrash(n) /\ Next /\ UNCHANGED <<hits, found, answer, must, gone>>
  BY DEF CrashUnderReads, Next
<1>2. request' = request
  BY <1>1, FallsIs DEF Falls, ReadsInv
<1>3. \A r \in Reads :
        /\ read[r].pc = "load" /\ read[r].node = n =>
             read'[r] = [read[r] EXCEPT !.pc = "broken"]
        /\ ~(read[r].pc = "load" /\ read[r].node = n) => read'[r] = read[r]
  BY DEF CrashUnderReads
<1>4. ReadsTypeOK'
  <2>1. ReadsTypeOK
    BY DEF ReadsInv
  <2> DEFINE S == [op : {"none"} \cup ReadOps, id : Ids \cup {Nil},
                   dim : Dims \cup {0}, node : Nodes, pc : ReadPc]
  <2>2. read' \in [Reads -> S]
    <3>1. \A r \in Reads : read[r] \in S /\ [read[r] EXCEPT !.pc = "broken"] \in S
      BY <2>1 DEF ReadsTypeOK, ReadPc
    <3>. HIDE DEF S
    <3>. QED
      BY <3>1 DEF CrashUnderReads
  <2>. QED
    BY <1>1, <2>1, <2>2 DEF ReadsTypeOK
<1>5. \A r \in Reads :
        /\ read'[r].op = read[r].op /\ read'[r].id = read[r].id
        /\ read'[r].pc = read[r].pc \/ (read[r].pc = "load" /\ read'[r].pc = "broken")
  <2> SUFFICES ASSUME NEW r \in Reads
               PROVE  /\ read'[r].op = read[r].op /\ read'[r].id = read[r].id
                      /\ \/ read'[r].pc = read[r].pc
                         \/ read[r].pc = "load" /\ read'[r].pc = "broken"
    OBVIOUS
  <2>1. CASE read[r].pc = "load" /\ read[r].node = n
    <3>1. read'[r] = [read[r] EXCEPT !.pc = "broken"]
      BY <1>3, <2>1
    <3>2. read[r] \in [op : {"none"} \cup ReadOps, id : Ids \cup {Nil},
                       dim : Dims \cup {0}, node : Nodes, pc : ReadPc]
      BY DEF ReadsInv, ReadsTypeOK
    <3>. QED
      BY <2>1, <3>1, <3>2
  <2>2. CASE ~(read[r].pc = "load" /\ read[r].node = n)
    BY <1>3, <2>2
  <2>. QED
    BY <2>1, <2>2
<1>. QED
  BY <1>1, <1>2, <1>4, <1>5, WriteNextInv

LEMMA ProcessNextInv ==
  ASSUME ReadsInv, NEW n \in Nodes,
         StopAfterReads(n) \/ (ProcessRestart(n) /\ UNCHANGED readVars)
  PROVE  ReadsInv'
<1>1. Next /\ UNCHANGED readVars
  BY DEF StopAfterReads, Next
<1>2. request' = request
  BY FallsIs, RisesIs DEF StopAfterReads, Falls, Rises, ReadsInv
<1>3. ReadsTypeOK'
  BY <1>1 DEF ReadsInv, ReadsTypeOK, readVars
<1>. QED
  BY <1>1, <1>2, <1>3, WriteNextInv DEF readVars

-----------------------------------------------------------------------------
(* Steps of the reads *)

\* A read leaves the writes alone; it may take one of the faults.
LEMMA ReadRests ==
  ASSUME IInv, LastInv, ReadsTypeOK,
         \/ UNCHANGED vars
         \/ /\ UNCHANGED <<up, store, indexVars, frame, crashes, serverVars, historyVars, lost>>
            /\ storeErrors < MaxStoreErrors /\ storeErrors' = storeErrors + 1
         \/ /\ UNCHANGED <<nodeVars, serverVars, historyVars>>
            /\ lost < MaxLost /\ lost' = lost + 1
  PROVE  IInv' /\ LastInv' /\ Rests /\ UNCHANGED <<request, reply>>
<1>1. /\ UNCHANGED <<up, store, live, indexed, dim, frame, crashes>>
      /\ UNCHANGED <<request, stage, reply, saved, last, alone>>
  BY DEF vars, nodeVars, indexVars, serverVars, historyVars
<1>2. storeErrors' \in 0..MaxStoreErrors /\ lost' \in 0..MaxLost
  BY BoundAssumption, LostAssumption
  DEF vars, nodeVars, serverVars, IInv, NodeInv, NodeTypeOK, HandlerInv, ServerTypeOK
<1>3. NodeInv'
  BY <1>1, <1>2 DEF IInv, NodeInv, NodeTypeOK, FrameOK, IndexedIsLive, SameDimension, RowsKeyed
<1>4. HandlerInv'
  <2>1. ServerTypeOK'
    BY <1>1, <1>2 DEF IInv, HandlerInv, ServerTypeOK
  <2>2. RequestOK' /\ FramesMatch'
    BY <1>1 DEF IInv, HandlerInv, RequestOK, FramesMatch, Pc
  <2>3. StagesMatch'
    BY <1>1 DEF IInv, HandlerInv, StagesMatch, Running, Pc
  <2>. QED
    BY <2>1, <2>2, <2>3 DEF HandlerInv
<1>5. OwnershipInv'
  BY <1>1 DEF IInv, OwnershipInv, OwnersRow, AckedOwns, Owns, Acked, NeverDeleted, Pc
<1>6. LastInv'
  BY <1>1 DEF LastInv, LastKnown, LonelyOnly, LonelyRow, Lonely, DeletesMatch, AckedGone,
    Acked, Active, Busy, Running, Pc
<1>. QED
  BY <1>1, <1>3, <1>4, <1>5, <1>6 DEF IInv, Rests

\* What is owed and what is gone at a step of a read is so after it.
LEMMA ReadKeeps ==
  ASSUME ReadsInv, IInv', LastInv', ReadsTypeOK', Rests, UNCHANGED <<request, reply>>,
         NEW r \in Reads,
         \A q \in Reads : q # r =>
           /\ read'[q] = read[q] /\ hits'[q] = hits[q] /\ found'[q] = found[q]
           /\ answer'[q] = answer[q] /\ must'[q] = must[q] /\ gone'[q] = gone[q],
         Reading(r)' => \A a \in must'[r] : Held(a) \/ (read'[r].op # "search" /\ Kept(a)),
         Reading(r)' => \A id \in gone'[r] : Vacant(id),
         read'[r].op = "get" => read'[r].id \in Ids,
         read'[r].pc = "load" =>
           read'[r].op = "search" /\ \A a \in must'[r] : a \in hits'[r] \/ Wants(r, a)',
         answer'[r] # "none" => read'[r].pc = "done",
         read'[r].pc = "idle" => found'[r] = {},
         \A h \in found'[r] : h.row.id \notin gone'[r],
         answer'[r] = "ok" =>
           \A a \in must'[r] : a.id \in Wanted(r)' => Wants(r, a)'
  PROVE  ReadsInv'
<1>1. IInv /\ LastInv /\ LonelyIndexed /\ WriteKind /\ ReadsTypeOK
  BY DEF ReadsInv, WriteKind
<1>2. \A x \in Ids : ~NewDelete(x) /\ ~NewInsert(x)
  BY <1>1, NothingNew
<1>3. LonelyIndexed'
  BY <1>1, LonelyIndexedStays
<1>4. \A a \in Articles : (Held(a) => Held(a)') /\ (Kept(a) => Kept(a)')
  BY <1>1, <1>2, HeldStays, KeptStays, ArticleAssumption
<1>5. \A id \in Ids : Vacant(id) => Vacant(id)'
  BY <1>1, <1>2, VacantStays
<1>6. MustHold'
  <2> SUFFICES ASSUME NEW q \in Reads, Reading(q)', NEW a \in must'[q]
               PROVE  Held(a)' \/ (read'[q].op # "search" /\ Kept(a)')
    BY DEF MustHold
  <2>1. a \in Articles
    BY DEF ReadsTypeOK
  <2>2. Held(a) \/ (read'[q].op # "search" /\ Kept(a))
    BY DEF ReadsInv, MustHold, Reading
  <2>. QED
    BY <1>4, <2>1, <2>2
<1>7. GoneHold'
  <2> SUFFICES ASSUME NEW q \in Reads, Reading(q)', NEW id \in gone'[q]
               PROVE  Vacant(id)'
    BY DEF GoneHold
  <2>1. id \in Ids
    BY DEF ReadsTypeOK
  <2>2. Vacant(id)
    BY DEF ReadsInv, GoneHold, Reading
  <2>. QED
    BY <1>5, <2>1, <2>2
<1>8. HitsHold'
  BY DEF ReadsInv, HitsHold, Wants
<1>9. AnswersOK'
  BY DEF ReadsInv, AnswersOK
<1>10. ReadsSeeAcknowledged'
  BY DEF ReadsInv, ReadsSeeAcknowledged, Wants, Wanted
<1>11. GetsAnId'
  BY DEF ReadsInv, GetsAnId
<1>. QED
  BY <1>3, <1>6, <1>7, <1>8, <1>9, <1>10, <1>11 DEF ReadsInv

LEMMA ReadStartInv ==
  ASSUME ReadsInv, NEW r \in Reads, NEW op \in ReadOps, NEW id \in Ids \cup {Nil},
         NEW d \in Dims \cup {0}, op = "get" => id \in Ids, ReadStart(r, op, id, d)
  PROVE  ReadsInv'
<1>1. IInv /\ LastInv /\ LonelyIndexed /\ ReadsTypeOK /\ read[r].pc = "idle"
  BY DEF ReadsInv, ReadStart
<1>2. UNCHANGED <<vars, hits, found, answer>>
  BY DEF ReadStart
<1>3. IInv' /\ LastInv' /\ Rests /\ UNCHANGED <<request, reply>>
  BY <1>1, <1>2, ReadRests
<1> DEFINE new == [op |-> op, id |-> id, dim |-> d, node |-> Primary, pc |-> "ask"]
<1>4. /\ read' = [read EXCEPT ![r] = new] /\ must' = [must EXCEPT ![r] = MustNow(op)]
      /\ gone' = [gone EXCEPT ![r] = GoneNow]
  BY DEF ReadStart
<1>5. MustNow(op) \subseteq Articles /\ GoneNow \subseteq Ids
  BY <1>1, OwedAtStart, GoneAtStart
<1>6. new \in [op : {"none"} \cup ReadOps, id : Ids \cup {Nil}, dim : Dims \cup {0},
               node : Nodes, pc : ReadPc]
  BY TwoNodes DEF ReadPc
<1>7. read'[r] = new /\ must'[r] = MustNow(op) /\ gone'[r] = GoneNow
      /\ \A q \in Reads : q # r =>
           read'[q] = read[q] /\ must'[q] = must[q] /\ gone'[q] = gone[q]
  BY <1>1, <1>4 DEF ReadsTypeOK
<1>8. ReadsTypeOK'
  <2> HIDE DEF new
  <2>. QED
    BY <1>1, <1>2, <1>4, <1>5, <1>6 DEF ReadsTypeOK
<1>9. answer[r] = "none" /\ found[r] = {}
  BY <1>1 DEF ReadsInv, AnswersOK
<1>10. \A a \in must'[r] : Held(a) \/ (read'[r].op # "search" /\ Kept(a))
  BY <1>1, <1>7, OwedAtStart
<1>11. \A x \in gone'[r] : Vacant(x)
  BY <1>1, <1>7, GoneAtStart
<1>12. read'[r].pc = "ask" /\ found'[r] = {} /\ answer'[r] = "none"
  BY <1>2, <1>7, <1>9
<1>. QED
  BY <1>2, <1>3, <1>7, <1>8, <1>10, <1>11, <1>12, ReadKeeps DEF ReadOps

\* An answer that keeps what the read owes ends it.
LEMMA AnswerInv ==
  ASSUME ReadsInv, IInv', LastInv', Rests, UNCHANGED <<request, reply>>,
         NEW r \in Reads, NEW what \in {"ok", "error"}, NEW rows \in SUBSET Hit,
         AnswerRead(r, what, rows),
         \A h \in rows : h.row.id \notin gone[r],
         what = "ok" => \A a \in must[r] : a.id \in Wanted(r) =>
                          [row |-> a, entry |-> a] \in rows
  PROVE  ReadsInv'
<1>1. ReadsTypeOK
  BY DEF ReadsInv
<1>2. /\ read' = [read EXCEPT ![r].pc = "done"] /\ hits' = [hits EXCEPT ![r] = {}]
      /\ found' = [found EXCEPT ![r] = rows] /\ answer' = [answer EXCEPT ![r] = what]
      /\ must' = must /\ gone' = gone
  BY DEF AnswerRead
<1>3. /\ read'[r].pc = "done" /\ read'[r].op = read[r].op /\ read'[r].id = read[r].id
      /\ found'[r] = rows /\ answer'[r] = what
      /\ \A q \in Reads : q # r =>
           /\ read'[q] = read[q] /\ hits'[q] = hits[q] /\ found'[q] = found[q]
           /\ answer'[q] = answer[q]
  <2>1. read'[r] = [read[r] EXCEPT !.pc = "done"]
    BY <1>1, <1>2 DEF ReadsTypeOK
  <2>2. read[r] \in [op : {"none"} \cup ReadOps, id : Ids \cup {Nil},
                     dim : Dims \cup {0}, node : Nodes, pc : ReadPc]
    BY <1>1 DEF ReadsTypeOK
  <2>3. read'[r].pc = "done" /\ read'[r].op = read[r].op /\ read'[r].id = read[r].id
    BY <2>1, <2>2
  <2>4. /\ found'[r] = rows /\ answer'[r] = what
        /\ \A q \in Reads : q # r =>
             /\ read'[q] = read[q] /\ hits'[q] = hits[q] /\ found'[q] = found[q]
             /\ answer'[q] = answer[q]
    BY <1>1, <1>2 DEF ReadsTypeOK
  <2>. QED
    BY <2>3, <2>4
<1>4. ReadsTypeOK'
  <2> DEFINE S == [op : {"none"} \cup ReadOps, id : Ids \cup {Nil},
                   dim : Dims \cup {0}, node : Nodes, pc : ReadPc]
  <2>1. read' = [read EXCEPT ![r] = [read[r] EXCEPT !.pc = "done"]]
    BY <1>1, <1>2 DEF ReadsTypeOK
  <2>2. read \in [Reads -> S] /\ [read[r] EXCEPT !.pc = "done"] \in S
    BY <1>1 DEF ReadsTypeOK, ReadPc
  <2>3. read' \in [Reads -> S]
    <3> HIDE DEF S
    <3>. QED
      BY <2>1, <2>2
  <2>4. /\ hits' \in [Reads -> SUBSET Articles] /\ found' \in [Reads -> SUBSET Hit]
        /\ answer' \in [Reads -> {"none", "ok", "error"}]
        /\ must' \in [Reads -> SUBSET Articles] /\ gone' \in [Reads -> SUBSET Ids]
    BY <1>1, <1>2 DEF ReadsTypeOK
  <2>. QED
    BY <2>3, <2>4 DEF ReadsTypeOK
<1>5. ~Reading(r)'
  BY <1>3 DEF Reading
<1>6. Wanted(r)' = Wanted(r)
  BY <1>3 DEF Wanted
<1>7. answer'[r] = "ok" => \A a \in must'[r] : a.id \in Wanted(r)' => Wants(r, a)'
  BY <1>2, <1>3, <1>6 DEF Wants
<1>8. \A h \in found'[r] : h.row.id \notin gone'[r]
  BY <1>2, <1>3
<1>9. read'[r].op = "get" => read'[r].id \in Ids
  BY <1>3 DEF ReadsInv, GetsAnId
<1>. QED
  BY <1>2, <1>3, <1>4, <1>5, <1>7, <1>8, <1>9, ReadKeeps

LEMMA ReadTableInv ==
  ASSUME ReadsInv, NEW r \in Reads, ReadTable(r)
  PROVE  ReadsInv'
<1> DEFINE n == read[r].node
           rows == {store[n][id] : id \in Wanted(r)} \ {Nil}
           out == {[row |-> a, entry |-> a] : a \in rows}
<1>1. /\ IInv /\ LastInv /\ ReadsTypeOK /\ n \in Nodes
      /\ read[r].pc = "ask" /\ read[r].op \in {"get", "list"}
      /\ AnswerRead(r, "ok", out) /\ UNCHANGED vars
  BY DEF ReadsInv, ReadTable, ReadsTypeOK
<1>2. IInv' /\ LastInv' /\ Rests /\ UNCHANGED <<request, reply>>
  BY <1>1, ReadRests
<1>3. store \in [Nodes -> [Ids -> Articles \cup {Nil}]] /\ RowsKeyed
  BY <1>1 DEF IInv, NodeInv, NodeTypeOK
<1>4. Wanted(r) \subseteq Ids
  BY DEF Wanted, ReadsInv, GetsAnId
<1>5. \A a \in rows : a \in Articles /\ a.id \in Ids /\ store[n][a.id] = a
  BY <1>1, <1>3, <1>4 DEF RowsKeyed
<1>6. \A id \in gone[r] : id \in Ids /\ store[n][id] = Nil
  BY <1>1 DEF ReadsInv, GoneHold, Reading, Vacant, NoCopy, ReadsTypeOK
<1>7. \A a \in must[r] : store[n][a.id] = a /\ a # Nil
  <2>1. \A a \in must[r] : a \in Articles /\ (Held(a) \/ Kept(a))
    BY <1>1 DEF ReadsInv, MustHold, Reading, ReadsTypeOK
  <2>. QED
    BY <1>1, <2>1, OwedIsStored, ArticleAssumption
<1>8. \A a \in must[r] : a.id \in Wanted(r) => [row |-> a, entry |-> a] \in out
  BY <1>7
<1>9. out \in SUBSET Hit /\ \A h \in out : h.row.id \notin gone[r]
  <2>1. \A a \in rows : a \in Articles /\ a.id \notin gone[r]
    BY <1>5, <1>6, ArticleAssumption
  <2> HIDE DEF rows
  <2>. QED
    BY <2>1 DEF Hit
<1> HIDE DEF out, rows
<1>. QED
  BY <1>1, <1>2, <1>8, <1>9, AnswerInv

LEMMA SearchIndexInv ==
  ASSUME ReadsInv, NEW r \in Reads, SearchIndex(r)
  PROVE  ReadsInv'
<1> DEFINE n == read[r].node
<1>1. /\ IInv /\ LastInv /\ ReadsTypeOK /\ n \in Nodes /\ up[n]
      /\ read[r].pc = "ask" /\ read[r].op = "search" /\ UNCHANGED vars
  BY DEF ReadsInv, SearchIndex, ReadsTypeOK
<1>2. IInv' /\ LastInv' /\ Rests /\ UNCHANGED <<request, reply>>
  BY <1>1, ReadRests
<1>3. CASE AnswerRead(r, "error", {})
  BY <1>2, <1>3, AnswerInv
<1>4. CASE /\ hits' = [hits EXCEPT ![r] = LiveEntries(n)]
           /\ read' = [read EXCEPT ![r].pc = "load"]
           /\ UNCHANGED <<found, answer, must, gone>>
  <2>1. /\ read'[r].pc = "load" /\ read'[r].op = read[r].op /\ hits'[r] = LiveEntries(n)
        /\ \A q \in Reads : q # r => read'[q] = read[q] /\ hits'[q] = hits[q]
    BY <1>1, <1>4 DEF ReadsTypeOK
  <2>2. LiveEntries(n) \subseteq Articles
    <3>1. \A id \in Ids : live[n][id] \in Seq(Articles)
      BY <1>1 DEF IInv, NodeInv, NodeTypeOK
    <3>2. \A id \in Ids : ToSet(live[n][id]) \subseteq Articles
      BY <3>1 DEF ToSet
    <3>. QED
      BY <3>2 DEF LiveEntries
  <2>3. ReadsTypeOK'
    <3> DEFINE S == [op : {"none"} \cup ReadOps, id : Ids \cup {Nil},
                     dim : Dims \cup {0}, node : Nodes, pc : ReadPc]
    <3>1. read' = [read EXCEPT ![r] = [read[r] EXCEPT !.pc = "load"]]
      BY <1>1, <1>4 DEF ReadsTypeOK
    <3>2. read \in [Reads -> S] /\ [read[r] EXCEPT !.pc = "load"] \in S
      BY <1>1 DEF ReadsTypeOK, ReadPc
    <3>3. hits' \in [Reads -> SUBSET Articles]
      BY <1>1, <1>4, <2>2 DEF ReadsTypeOK
    <3> HIDE DEF S
    <3>4. read' \in [Reads -> S]
      BY <3>1, <3>2
    <3>. QED
      BY <1>1, <1>4, <3>3, <3>4 DEF ReadsTypeOK, S
  <2>4. \A a \in must[r] : a \in Articles /\ Held(a)
    BY <1>1 DEF ReadsInv, MustHold, Reading, ReadsTypeOK
  <2>5. \A a \in must'[r] : a \in hits'[r]
    BY <1>1, <1>4, <2>1, <2>4, ArticleAssumption DEF Held, Stands, LiveEntries
  <2>6. \A id \in gone'[r] : Vacant(id)
    BY <1>1, <1>4 DEF ReadsInv, GoneHold, Reading
  <2>7. answer'[r] = "none" /\ \A h \in found'[r] : h.row.id \notin gone'[r]
    BY <1>1, <1>4 DEF ReadsInv, AnswersOK
  <2>. QED
    BY <1>1, <1>2, <1>4, <2>1, <2>3, <2>4, <2>5, <2>6, <2>7, ReadKeeps
<1>. QED
  BY <1>3, <1>4 DEF SearchIndex

LEMMA LoadHitInv ==
  ASSUME ReadsInv, NEW r \in Reads, LoadHit(r)
  PROVE  ReadsInv'
<1> DEFINE n == read[r].node
<1>1. PICK h \in hits[r] :
        LET row == store[n][h.id] IN
        /\ hits' = [hits EXCEPT ![r] = @ \ {h}]
        /\ found' = [found EXCEPT ![r] = IF row = Nil THEN @
                                         ELSE @ \cup {[row |-> row, entry |-> h]}]
  BY DEF LoadHit
<1>2. /\ IInv /\ LastInv /\ ReadsTypeOK /\ n \in Nodes /\ read[r].pc = "load"
      /\ read[r].op = "search" /\ UNCHANGED <<vars, read, answer, must, gone>>
      /\ h \in Articles /\ h.id \in Ids
  BY ArticleAssumption DEF ReadsInv, HitsHold, LoadHit, ReadsTypeOK
<1>3. IInv' /\ LastInv' /\ Rests /\ UNCHANGED <<request, reply>>
  BY <1>2, ReadRests
<1> DEFINE row == store[n][h.id]
           hit == [row |-> row, entry |-> h]
<1>4. row \in Articles \cup {Nil} /\ (row # Nil => row.id = h.id)
  BY <1>2 DEF IInv, NodeInv, NodeTypeOK, RowsKeyed
<1>5. /\ \A q \in Reads : q # r => hits'[q] = hits[q] /\ found'[q] = found[q]
      /\ hits'[r] = hits[r] \ {h}
      /\ row = Nil => found'[r] = found[r]
      /\ row # Nil => found'[r] = found[r] \cup {hit}
  BY <1>1, <1>2 DEF ReadsTypeOK
<1>6. ReadsTypeOK'
  <2>1. row # Nil => hit \in Hit
    BY <1>2, <1>4 DEF Hit
  <2>2. found' \in [Reads -> SUBSET Hit]
    <3> DEFINE F == IF row = Nil THEN found[r] ELSE found[r] \cup {hit}
    <3>1. found \in [Reads -> SUBSET Hit] /\ found' = [found EXCEPT ![r] = F]
      BY <1>1, <1>2 DEF ReadsTypeOK
    <3>2. F \in SUBSET Hit
      <4> HIDE DEF hit, row
      <4>. QED
        BY <2>1, <3>1
    <3> HIDE DEF F
    <3>. QED
      BY <3>1, <3>2
  <2>3. hits' \in [Reads -> SUBSET Articles]
    BY <1>1, <1>2 DEF ReadsTypeOK
  <2>. QED
    BY <1>2, <2>2, <2>3 DEF ReadsTypeOK
<1>7. \A a \in must[r] : a \in Articles /\ a # Nil /\ Held(a)
  BY <1>2, ArticleAssumption DEF ReadsInv, MustHold, Reading, ReadsTypeOK
<1>8. \A a \in must'[r] : a \in hits'[r] \/ Wants(r, a)'
  <2> SUFFICES ASSUME NEW a \in must[r], a \notin hits'[r]
               PROVE  [row |-> a, entry |-> a] \in found'[r]
    BY <1>2 DEF Wants
  <2>1. CASE a = h
    BY <1>2, <1>5, <1>7, <2>1 DEF Held, Stands
  <2>2. CASE a # h
    BY <1>2, <1>5, <2>2 DEF ReadsInv, HitsHold, Wants
  <2>. QED
    BY <2>1, <2>2
<1>9. \A id \in gone[r] : Vacant(id)
  BY <1>2 DEF ReadsInv, GoneHold, Reading
<1>10. \A g \in found'[r] : g.row.id \notin gone'[r]
  <2>1. \A g \in found[r] : g.row.id \notin gone[r]
    BY DEF ReadsInv, AnswersOK
  <2>2. row # Nil => h.id \notin gone[r]
    BY <1>2, <1>9 DEF Vacant, NoCopy
  <2>. QED
    BY <1>2, <1>4, <1>5, <2>1, <2>2
<1>11. answer'[r] = "none"
  BY <1>2 DEF ReadsInv, AnswersOK
<1> HIDE DEF n, row, hit
<1>. QED
  BY <1>2, <1>3, <1>5, <1>6, <1>7, <1>8, <1>9, <1>10, <1>11, ReadKeeps

LEMMA SearchDoneInv ==
  ASSUME ReadsInv, NEW r \in Reads, SearchDone(r)
  PROVE  ReadsInv'
<1>1. /\ IInv /\ LastInv /\ ReadsTypeOK /\ read[r].pc = "load" /\ hits[r] = {}
      /\ AnswerRead(r, "ok", found[r]) /\ UNCHANGED vars
  BY DEF ReadsInv, SearchDone
<1>2. IInv' /\ LastInv' /\ Rests /\ UNCHANGED <<request, reply>>
  BY <1>1, ReadRests
<1>3. \A a \in must[r] : [row |-> a, entry |-> a] \in found[r]
  BY <1>1 DEF ReadsInv, HitsHold, Wants
<1>4. found[r] \in SUBSET Hit /\ \A h \in found[r] : h.row.id \notin gone[r]
  BY <1>1 DEF ReadsInv, AnswersOK, ReadsTypeOK
<1>. QED
  BY <1>1, <1>2, <1>3, <1>4, AnswerInv

LEMMA ReadStoreErrorInv ==
  ASSUME ReadsInv, NEW r \in Reads, ReadStoreError(r)
  PROVE  ReadsInv'
<1>1. IInv' /\ LastInv' /\ Rests /\ UNCHANGED <<request, reply>>
  BY ReadRests DEF ReadsInv, ReadStoreError
<1>. QED
  BY <1>1, AnswerInv DEF ReadStoreError

LEMMA UnreachableInv ==
  ASSUME ReadsInv, NEW r \in Reads, Unreachable(r)
  PROVE  ReadsInv'
<1>1. IInv /\ LastInv /\ ReadsTypeOK /\ Reading(r)
  BY DEF ReadsInv, Unreachable
<1>2. IInv' /\ LastInv' /\ Rests /\ UNCHANGED <<request, reply>>
  <2>1. UNCHANGED lost \/ (lost < MaxLost /\ lost' = lost + 1)
    BY DEF Unreachable
  <2>2. UNCHANGED <<nodeVars, serverVars, historyVars>>
    BY DEF Unreachable
  <2>3. UNCHANGED lost => UNCHANGED vars
    BY <2>2 DEF vars
  <2>. QED
    BY <1>1, <2>1, <2>2, <2>3, ReadRests
<1>3. CASE AnswerRead(r, "error", {})
  BY <1>2, <1>3, AnswerInv
<1>4. CASE /\ read' = [read EXCEPT ![r].node = Replica, ![r].pc = "ask"]
           /\ hits' = [hits EXCEPT ![r] = {}] /\ found' = [found EXCEPT ![r] = {}]
           /\ UNCHANGED <<answer, must, gone>>
  <2>1. /\ read'[r].pc = "ask" /\ read'[r].op = read[r].op /\ read'[r].id = read[r].id
        /\ found'[r] = {}
        /\ \A q \in Reads : q # r =>
             read'[q] = read[q] /\ hits'[q] = hits[q] /\ found'[q] = found[q]
    <3>1. read'[r] = [read[r] EXCEPT !.node = Replica, !.pc = "ask"]
      BY <1>1, <1>4 DEF ReadsTypeOK
    <3>2. read[r] \in [op : {"none"} \cup ReadOps, id : Ids \cup {Nil},
                       dim : Dims \cup {0}, node : Nodes, pc : ReadPc]
      BY <1>1 DEF ReadsTypeOK
    <3>3. /\ read'[r].pc = "ask" /\ read'[r].op = read[r].op /\ read'[r].id = read[r].id
      BY <3>1, <3>2
    <3>4. /\ found'[r] = {}
          /\ \A q \in Reads : q # r =>
               read'[q] = read[q] /\ hits'[q] = hits[q] /\ found'[q] = found[q]
      BY <1>1, <1>4 DEF ReadsTypeOK
    <3>. QED
      BY <3>3, <3>4
  <2>2. ReadsTypeOK'
    <3> DEFINE S == [op : {"none"} \cup ReadOps, id : Ids \cup {Nil},
                     dim : Dims \cup {0}, node : Nodes, pc : ReadPc]
    <3>1. read' = [read EXCEPT ![r] = [read[r] EXCEPT !.node = Replica, !.pc = "ask"]]
      BY <1>1, <1>4 DEF ReadsTypeOK
    <3>2. read \in [Reads -> S]
      BY <1>1 DEF ReadsTypeOK
    <3>3. [read[r] EXCEPT !.node = Replica, !.pc = "ask"] \in S
      BY <3>2, TwoNodes DEF ReadPc
    <3> HIDE DEF S
    <3>4. read' \in [Reads -> S]
      BY <3>1, <3>2, <3>3
    <3>5. hits' \in [Reads -> SUBSET Articles] /\ found' \in [Reads -> SUBSET Hit]
      BY <1>1, <1>4 DEF ReadsTypeOK
    <3>. QED
      BY <1>1, <1>4, <3>4, <3>5 DEF ReadsTypeOK, S
  <2>3. /\ \A a \in must'[r] : Held(a) \/ (read'[r].op # "search" /\ Kept(a))
        /\ \A id \in gone'[r] : Vacant(id)
    BY <1>1, <1>4, <2>1 DEF ReadsInv, MustHold, GoneHold
  <2>4. answer'[r] = "none" /\ (read'[r].op = "get" => read'[r].id \in Ids)
    BY <1>1, <1>4, <2>1 DEF ReadsInv, AnswersOK, GetsAnId, Reading
  <2>. QED
    BY <1>2, <1>4, <2>1, <2>2, <2>3, <2>4, ReadKeeps
<1>. QED
  BY <1>3, <1>4 DEF Unreachable

-----------------------------------------------------------------------------
LEMMA ReadsInvInit == ReadsInit => ReadsInv
<1> SUFFICES ASSUME ReadsInit
             PROVE  ReadsInv
  OBVIOUS
<1>1. IInv /\ LastInv
  BY IInvInit, LastInvInit DEF ReadsInit
<1>2. LonelyIndexed
  BY DEF ReadsInit, Init, LonelyIndexed, Lonely
<1>3. \A r \in Reads : /\ read[r] = NoRead /\ hits[r] = {} /\ found[r] = {}
                       /\ answer[r] = "none" /\ must[r] = {} /\ gone[r] = {}
  BY DEF ReadsInit
<1>4. ReadsTypeOK
  <2>1. NoRead \in [op : {"none"} \cup ReadOps, id : Ids \cup {Nil}, dim : Dims \cup {0},
                    node : Nodes, pc : ReadPc]
    BY TwoNodes DEF NoRead, ReadPc
  <2>. QED
    BY <2>1 DEF ReadsInit, ReadsTypeOK
<1>5. MustHold /\ GoneHold /\ HitsHold /\ AnswersOK /\ GetsAnId /\ ReadsSeeAcknowledged
  BY <1>3 DEF MustHold, GoneHold, HitsHold, AnswersOK, GetsAnId, ReadsSeeAcknowledged,
    NoRead, Reading
<1>. QED
  BY <1>1, <1>2, <1>4, <1>5 DEF ReadsInv

LEMMA ReadsInvNext == ReadsInv /\ [ReadsNext]_allVars => ReadsInv'
<1> SUFFICES ASSUME ReadsInv, [ReadsNext]_allVars
             PROVE  ReadsInv'
  OBVIOUS
<1>1. ASSUME NEW r \in Reads,
             \/ \E id \in Ids : ReadStart(r, "get", id, 0)
             \/ ReadStart(r, "list", Nil, 0)
             \/ \E d \in Dims : ReadStart(r, "search", Nil, d)
      PROVE  ReadsInv'
  BY <1>1, ReadStartInv DEF ReadOps
<1>2. ASSUME NEW r \in Reads, ReadStep(r)
      PROVE  ReadsInv'
  BY <1>2, ReadTableInv, SearchIndexInv, LoadHitInv, SearchDoneInv, ReadStoreErrorInv,
    UnreachableInv DEF ReadStep
<1>3. ASSUME NEW c \in Calls,
             \/ \E a \in Articles : InsertNextToReads(c, a)
             \/ \E id \in Ids : DeleteNextToReads(c, id)
             \/ WriteStep(c)
      PROVE  ReadsInv'
  BY <1>3, InsertNextInv, DeleteNextInv, WriteStepInv
<1>4. ASSUME NEW n \in Nodes,
             \/ CrashUnderReads(n)
             \/ StopAfterReads(n)
             \/ ProcessRestart(n) /\ UNCHANGED readVars
      PROVE  ReadsInv'
  BY <1>4, CrashUnderReadsInv, ProcessNextInv
<1>5. CASE UNCHANGED allVars
  <2>1. UNCHANGED vars /\ UNCHANGED readVars /\ request' = request
    BY <1>5 DEF allVars, vars, serverVars
  <2>2. ReadsTypeOK'
    BY <2>1 DEF ReadsInv, ReadsTypeOK, readVars
  <2>3. IInv' /\ LastInv' /\ Rests /\ UNCHANGED <<request, reply>>
    BY <2>1, ReadRests DEF ReadsInv
  <2>. QED
    BY <2>1, <2>2, <2>3, NothingNew, WritesKeepReads, ArticleAssumption
    DEF readVars, WriteKind, ReadsInv, ReadsTypeOK
<1>. QED
  BY <1>1, <1>2, <1>3, <1>4, <1>5 DEF ReadsNext

LEMMA ReadsInvAlways == ReadsSpec => []ReadsInv
  BY ReadsInvInit, ReadsInvNext, PTL DEF ReadsSpec

-----------------------------------------------------------------------------
\* The variables of the reads stay in their types: an answer is "ok" or an
\* error, a row is loaded with the entry that led to it, and the node asked is
\* the primary or the replica.
THEOREM ReadsTypeCorrect == ReadsSpec => []ReadsTypeOK
<1>1. ReadsInv => ReadsTypeOK
  BY DEF ReadsInv
<1>. QED
  BY <1>1, ReadsInvAlways, PTL

\* readWithFailover: whichever of the two nodes answers, after whatever
\* failures, a read returns each article it asks for that was acknowledged
\* before it and is not deleted meanwhile.
THEOREM ReadsFindAcknowledged == ReadsSpec => []ReadsSeeAcknowledged
<1>1. ReadsInv => ReadsSeeAcknowledged
  BY DEF ReadsInv
<1>. QED
  BY <1>1, ReadsInvAlways, PTL

\* No read returns, from the table or by way of an index entry, an article
\* whose acknowledged delete was the last word on its id before the read.
THEOREM ReadsMissDeleted == ReadsSpec => []ReadsForgetDeleted
<1>1. ReadsInv => ReadsForgetDeleted
  BY DEF ReadsInv, AnswersOK, ReadsForgetDeleted
<1>. QED
  BY <1>1, ReadsInvAlways, PTL
=============================================================================
