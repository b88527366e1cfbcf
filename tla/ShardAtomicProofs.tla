------------------------- MODULE ShardAtomicProofs -------------------------
(***************************************************************************)
(* The pair of ReplicatedShard, called by one caller at a time and with no *)
(* SQL error, crash or lost connection, is one table with all-or-nothing   *)
(* calls.  The replica may be stopped and started again between any two    *)
(* steps of the primary's handler, the primary between calls, and the      *)
(* index of either may refuse an article, so writes still fail and are     *)
(* rolled back.                                                            *)
(*                                                                         *)
(* PairInv says what the two rows of the id under way and the two frames   *)
(* of its handler are at each stage, and that the tables agree on every    *)
(* other id.  A call takes effect when the replica's table takes or loses  *)
(* the row; from there on the primary has nothing left that can fail.  The *)
(* one delicate step is the rollback of a delete, an insert that the index *)
(* could refuse: it does not, because the row had an entry (DeletesIndexed)*)
(* and so has the dimension the index kept.                                *)
(***************************************************************************)
EXTENDS ReplicatedShardProofs

\* The hypotheses of the theorems: a caller that waits for each answer, and no
\* crash, SQL error or lost connection.
CalledAlone == Serial /\ MaxCrashes = 0 /\ MaxStoreErrors = 0 /\ MaxLost = 0

\* What the two rows of its id and the two frames of an insert are at each
\* stage of its handler.
InsertProgress(c) ==
  LET a == request[c].art
      here == store[Primary][request[c].id]
      there == store[Replica][request[c].id]
      p == Pc(Primary, c)
      r == Pc(Replica, c)
  IN
  \/ /\ stage[c] = "local" /\ r = "idle"
     /\ \/ p \in {"store_insert", "failed"} /\ here = there
        \/ p \in {"index_insert", "undo_insert", "ok"} /\ here = a /\ there = Nil
  \/ stage[c] = "forward" /\ p = "ok" /\ r = "idle" /\ here = a /\ there = Nil
  \/ /\ stage[c] = "remote" /\ p = "ok" /\ here = a
     /\ \/ r \in {"store_insert", "failed"} /\ there = Nil
        \/ r \in {"index_insert", "undo_insert", "ok"} /\ there = a
  \/ /\ stage[c] = "rollback" /\ r \in {"idle", "failed"} /\ there = Nil
     /\ \/ p \in {"store_get", "store_delete"} /\ here = a
        \/ p \in {"index_delete", "ok"} /\ here = Nil

\* The same for a delete that found a row.  Its rollback cannot be refused:
\* the row was in the index.
DeleteProgress(c) ==
  LET here == store[Primary][request[c].id]
      there == store[Replica][request[c].id]
      p == Pc(Primary, c)
      r == Pc(Replica, c)
  IN
  /\ request[c].art = Nil
  /\ \/ stage[c] = "lookup" /\ p = "idle" /\ r = "idle" /\ here = there
     \/ /\ saved[c] # Nil /\ saved[c].dim = dim[Primary] /\ dim[Primary] # 0
        /\ \/ /\ stage[c] = "local" /\ r = "idle" /\ there = saved[c]
              /\ \/ p \in {"store_get", "store_delete"} /\ here = saved[c]
                 \/ p \in {"index_delete", "ok"} /\ here = Nil
           \/ /\ stage[c] = "forward" /\ p = "ok" /\ r = "idle"
              /\ here = Nil /\ there = saved[c]
           \/ /\ stage[c] = "remote" /\ p = "ok" /\ here = Nil
              /\ \/ r \in {"store_get", "store_delete"} /\ there = saved[c]
                 \/ r \in {"index_delete", "ok"} /\ there = Nil
           \/ /\ stage[c] = "rollback" /\ r = "idle" /\ there = saved[c]
              /\ frame[Primary][c].art = saved[c]
              /\ \/ p = "store_insert" /\ here = Nil
                 \/ p \in {"index_insert", "ok"} /\ here = saved[c]

Progress == \A c \in Calls : Busy(c) =>
  IF request[c].op = "insert" THEN InsertProgress(c) ELSE DeleteProgress(c)

\* One call is unanswered at a time, on a primary that is up; no method runs
\* for any other.
OneAtATime ==
  /\ \A c \in Calls : stage[c] \in {"idle"} \cup BusyStages <=> reply[c] = "none"
  /\ \A c, d \in Calls : Busy(c) /\ Busy(d) => c = d
  /\ \A c \in Calls : Busy(c) => up[Primary]
  /\ \A n \in Nodes, c \in Calls : Running(n, c) => Busy(c)

\* Where no call is at work the tables agree.
SameElsewhere ==
  \A id \in Ids :
    (\A c \in Calls : Busy(c) => request[c].id # id) =>
      store[Primary][id] = store[Replica][id]

\* A row that DeleteArticle took out had an entry in the index.
DeletesIndexed ==
  \A n \in Nodes, c \in Calls :
    Pc(n, c) = "index_delete" => indexed[n][frame[n][c].id]

\* Each index mirrors its table, up to what the method under way has not yet
\* done, and methods run only on processes that are up.
IndexInv == AloneInv /\ RunningIsUp /\ DeletesIndexed

\* The inductive invariant, next to IInv.
PairInv == IndexInv /\ OneAtATime /\ SameElsewhere /\ Progress

-----------------------------------------------------------------------------
(* What a method does when the disk does not fail. *)

LEMMA MethodStepPath ==
  ASSUME NodeInv, NEW n \in Nodes, NEW c \in Calls, MethodStep(n, c),
         storeErrors' = storeErrors
  PROVE  LET x == frame[n][c].id
             row == store[n][x]
             a == frame[n][c].art
             pc == Pc(n, c)
             next == Pc(n, c)'
             rowNext == store'[n][x]
         IN
         /\ \A m \in Nodes : dim[m] # 0 => dim'[m] = dim[m]
         /\ pc = "store_insert" /\ row = Nil => next = "index_insert" /\ rowNext = a
         /\ pc = "store_insert" /\ row # Nil => next = "failed" /\ rowNext = row
         /\ pc = "index_insert" /\ Accepts(n, a) => next = "ok" /\ rowNext = row
         /\ pc = "index_insert" /\ ~Accepts(n, a) => next = "undo_insert" /\ rowNext = row
         /\ pc = "undo_insert" => next = "failed" /\ rowNext = Nil
         /\ pc = "store_get" /\ row = Nil => next = "notfound" /\ rowNext = row
         /\ pc = "store_get" /\ row # Nil => next = "store_delete" /\ rowNext = row
         /\ pc = "store_delete" => next = "index_delete" /\ rowNext = Nil
         /\ pc = "index_delete" /\ indexed[n][x] => next = "ok" /\ rowNext = row
         /\ pc = "index_delete" /\ ~indexed[n][x] => next = "notfound" /\ rowNext = row
<1> DEFINE x == frame[n][c].id
<1>0. /\ frame \in [Nodes -> [Calls -> Frame]] /\ storeErrors \in Nat
      /\ store \in [Nodes -> [Ids -> Articles \cup {Nil}]]
      /\ dim \in [Nodes -> Nat]
  BY BoundAssumption DEF NodeInv, NodeTypeOK
<1>1. x \in Ids
  <2>1. Running(n, c)
    BY MethodStepEffect
  <2>. QED
    BY <2>1, ArticleAssumption
    DEF NodeInv, NodeTypeOK, FrameOK, Frame, Running, Pc, RunningPc, InsertPc, DeletePc
<1>2. \A pc : Goto(n, c, pc) => Pc(n, c)' = pc
  BY <1>0, GotoFrames DEF Pc
<1>3. \A row : SetRow(n, c, row) => store'[n][x] = row
  BY <1>0, <1>1 DEF SetRow
<1> USE DEF Row
<1> HIDE DEF x
<1>4. CASE StoreInsert(n, c)
  BY <1>2, <1>3, <1>4 DEF StoreInsert, indexVars, x
<1>5. CASE IndexInsert(n, c)
  <2>1. Pc(n, c) = "index_insert" /\ store' = store
    BY <1>5 DEF IndexInsert
  <2>2. CASE Accepts(n, frame[n][c].art)
    <3>1. Goto(n, c, "ok") /\ dim' = [dim EXCEPT ![n] = frame[n][c].art.dim]
      BY <1>5, <2>2 DEF IndexInsert
    <3>. QED
      BY <1>0, <1>2, <2>1, <2>2, <3>1 DEF Accepts
  <2>3. CASE ~Accepts(n, frame[n][c].art)
    <3>1. Goto(n, c, "undo_insert") /\ dim' = dim
      BY <1>5, <2>3 DEF IndexInsert, indexVars
    <3>. QED
      BY <1>2, <2>1, <2>3, <3>1
  <2>. QED
    BY <2>2, <2>3
<1>6. CASE UndoInsert(n, c)
  BY <1>2, <1>3, <1>6 DEF UndoInsert, indexVars, x
<1>7. CASE StoreGet(n, c)
  <2>1. Pc(n, c) = "store_get" /\ UNCHANGED <<store, dim>>
        /\ Goto(n, c, IF Row(n, c) = Nil THEN "notfound" ELSE "store_delete")
    BY <1>7 DEF StoreGet, indexVars
  <2>. QED
    BY <1>2, <2>1 DEF x
<1>8. CASE StoreDelete(n, c)
  BY <1>2, <1>3, <1>8 DEF StoreDelete, indexVars, x
<1>9. CASE IndexDelete(n, c)
  BY <1>2, <1>9 DEF IndexDelete
<1>10. CASE StoreError(n, c)
  BY <1>0, <1>10 DEF StoreError
<1>. QED
  BY <1>4, <1>5, <1>6, <1>7, <1>8, <1>9, <1>10 DEF MethodStep

-----------------------------------------------------------------------------
(* The pieces of a step *)

\* A method that starts on a quiet node.
LEMMA EnterIndexInv ==
  ASSUME NodeInv, IndexInv, NEW n \in Nodes, NEW c \in Calls, NEW f,
         (\E a \in Articles : f = InsertFrame(a)) \/ (\E id \in Ids : f = DeleteFrame(id)),
         up[n], Quiet(n), Enter(n, c, f), UNCHANGED <<up, store, indexVars, boundVars>>
  PROVE  IndexInv'
<1>1. AloneInv'
  BY EnterAlone DEF IndexInv
<1>2. /\ frame'[n][c] = f
      /\ \A m \in Nodes, d \in Calls : ~(m = n /\ d = c) => frame'[m][d] = frame[m][d]
  BY DEF Enter, NodeInv, NodeTypeOK
<1>3. f.pc \in {"store_insert", "store_get"}
  BY DEF InsertFrame, DeleteFrame
<1>4. RunningIsUp'
  BY <1>2 DEF IndexInv, RunningIsUp, Running, Pc
<1>5. DeletesIndexed'
  BY <1>2, <1>3 DEF IndexInv, DeletesIndexed, Pc, indexVars
<1>. QED
  BY <1>1, <1>4, <1>5 DEF IndexInv

\* A step that no index and no method sees.
LEMMA IndexInvStays ==
  ASSUME IndexInv, UNCHANGED <<up, store, live, indexed, frame>>
  PROVE  IndexInv'
<1>1. AloneInv'
  BY AloneUnchanged DEF IndexInv
<1>. QED
  BY <1>1 DEF IndexInv, RunningIsUp, DeletesIndexed, Running, Pc

\* A step on behalf of c, which no other call is at work beside.
LEMMA PairStep ==
  ASSUME PairInv, IndexInv', NEW c \in Calls, NEW x,
         request'[c].id = x, Busy(c) => request[c].id = x,
         \A d \in Calls : d # c =>
           /\ ~Busy(d) /\ stage'[d] = stage[d] /\ request'[d] = request[d]
           /\ reply'[d] = reply[d]
           /\ \A n \in Nodes : frame'[n][d] = frame[n][d],
         \A n \in Nodes, id \in Ids : id # x => store'[n][id] = store[n][id],
         \/ /\ Busy(c)' /\ reply'[c] = "none" /\ up'[Primary]
            /\ IF request'[c].op = "insert" THEN InsertProgress(c)' ELSE DeleteProgress(c)'
         \/ /\ stage'[c] = "done" /\ reply'[c] # "none"
            /\ \A n \in Nodes : ~Running(n, c)'
            /\ store'[Primary][x] = store'[Replica][x]
  PROVE  PairInv'
<1>1. \A d \in Calls : d # c => ~Busy(d)'
  BY DEF Busy
<1>2. OneAtATime'
  BY <1>1 DEF PairInv, OneAtATime, Busy, BusyStages, Stages, Running, Pc
<1>3. SameElsewhere'
  <2> SUFFICES ASSUME NEW id \in Ids, \A d \in Calls : Busy(d)' => request'[d].id # id
               PROVE  store'[Primary][id] = store'[Replica][id]
    BY DEF SameElsewhere
  <2>1. CASE id = x
    BY <2>1 DEF Busy
  <2>2. CASE id # x
    <3>1. store[Primary][id] = store[Replica][id]
      BY <2>2 DEF PairInv, SameElsewhere
    <3>. QED
      BY <2>2, <3>1, TwoNodes
  <2>. QED
    BY <2>1, <2>2
<1>4. Progress'
  <2> SUFFICES ASSUME NEW d \in Calls, Busy(d)'
               PROVE  (IF request[d].op = "insert" THEN InsertProgress(d) ELSE DeleteProgress(d))'
    BY DEF Progress
  <2>1. d = c
    BY <1>1
  <2>. QED
    BY <2>1 DEF Busy, BusyStages
<1>. QED
  BY <1>2, <1>3, <1>4 DEF PairInv

\* While a call is at work no method runs but its own.
LEMMA OnlyRunner ==
  ASSUME PairInv, NEW c \in Calls, Busy(c)
  PROVE  /\ \A d \in Calls : d # c => ~Busy(d)
         /\ reply[c] = "none" /\ up[Primary]
         /\ \A n \in Nodes : ~Running(n, c) => Quiet(n)
  BY DEF PairInv, OneAtATime, Quiet, Busy

-----------------------------------------------------------------------------
(* The steps on ShardStore *)

StoreMaps == [Store!StoreNext]_(Store!storeVars)

\* What the replica holds for the abstract table it holds in these places.
TakenPc == {"index_insert", "undo_insert", "index_delete", "ok"}

\* A step that leaves the replica alone, or is not past the point where its
\* method takes effect, is not seen by ShardStore.
LEMMA ReplicaStill ==
  ASSUME store'[Replica] = store[Replica],
         \A c \in Calls : frame'[Replica][c] = frame[Replica][c] \/
           (Pc(Replica, c) \notin TakenPc /\ Pc(Replica, c)' \notin TakenPc),
         \A c \in Calls : reply'[c] = reply[c] \/
           (reply[c] = "none" /\ (reply'[c] = "ok" => Pc(Replica, c) = "ok"))
  PROVE  Table' = Table /\ Applied' = Applied
<1>1. \A id \in Ids : Undecided(id)' <=> Undecided(id)
  BY DEF Undecided, Pc, TakenPc
<1>2. Table' = Table
  BY <1>1 DEF Table
<1>3. Applied' = Applied
  BY DEF Applied, Pc, TakenPc
<1>. QED
  BY <1>2, <1>3

\* A call that took no effect is pending.
LEMMA AnswerMaps ==
  ASSUME ServerTypeOK, NEW c \in Calls, NEW r \in {"ok", "error", "notfound"},
         Return(c, r), reply[c] = "none", request[c].op # "none",
         UNCHANGED <<store, frame>>,
         r = "ok" => Pc(Replica, c) = "ok",
         r # "ok" => Pc(Replica, c) \notin {"ok", "index_delete"},
         r = "notfound" => request[c].op = "delete" /\ request[c].id \in Ids
                           /\ store[Replica][request[c].id] = Nil
  PROVE  StoreMaps
<1>1. reply' = [reply EXCEPT ![c] = r] /\ request' = request
  BY DEF Return
<1>2. \A d \in Calls : d # c => reply'[d] = reply[d]
  BY <1>1 DEF ServerTypeOK
<1>3. reply'[c] = r
  BY <1>1 DEF ServerTypeOK
<1>4. Table' = Table /\ Applied' = Applied
  BY <1>2, <1>3, ReplicaStill
<1>5. r = "ok" => c \in Applied
  BY DEF Applied
<1>6. r # "ok" => c \notin Applied
  BY DEF Applied
<1>7. r = "notfound" => Table[request[c].id] = Nil
  BY DEF Table
<1>8. Store!Answer(c, r)
  BY <1>1, <1>4, <1>5, <1>6, <1>7 DEF Store!Answer, Store!Pending
<1>. QED
  BY <1>8 DEF StoreMaps, Store!StoreNext

-----------------------------------------------------------------------------
(* One lemma per kind of step: the invariant is kept, and the step is one  *)
(* of ShardStore or changes nothing that ShardStore sees.                  *)

\* A handler that returns r, for a write that is on both nodes or on neither.
LEMMA ReturnPair ==
  ASSUME IInv, PairInv, NEW c \in Calls, Busy(c), NEW r \in {"ok", "error", "notfound"},
         Return(c, r), UNCHANGED nodeVars,
         \A n \in Nodes : ~Running(n, c),
         store[Primary][request[c].id] = store[Replica][request[c].id],
         r = "ok" => Pc(Replica, c) = "ok",
         r # "ok" => Pc(Replica, c) \notin {"ok", "index_delete"},
         r = "notfound" => request[c].op = "delete" /\ store[Replica][request[c].id] = Nil
  PROVE  PairInv' /\ StoreMaps
<1>1. reply[c] = "none" /\ \A d \in Calls : d # c => ~Busy(d)
  BY OnlyRunner
<1>2. ServerTypeOK /\ request[c].op # "none" /\ request[c].id \in Ids
  BY DEF IInv, HandlerInv, RequestOK, Busy, BusyStages, Stages
<1>3. /\ stage'[c] = "done" /\ reply'[c] = r
      /\ \A d \in Calls : d # c => stage'[d] = stage[d] /\ reply'[d] = reply[d]
      /\ request' = request
  BY <1>1, <1>2 DEF Return, ServerTypeOK
<1>4. UNCHANGED <<up, store, live, indexed, dim, frame>>
  BY DEF nodeVars
<1>5. IndexInv'
  BY <1>4, IndexInvStays DEF PairInv
<1>6. PairInv'
  <2> DEFINE x == request[c].id
  <2>1. \A n \in Nodes : ~Running(n, c)'
    BY <1>4 DEF Running, Pc
  <2>2. request'[c].id = x /\ store'[Primary][x] = store'[Replica][x]
    BY <1>3, <1>4
  <2> HIDE DEF x
  <2>3. Busy(c) => request[c].id = x
    BY DEF x
  <2>. QED
    BY <1>1, <1>3, <1>4, <1>5, <2>1, <2>2, <2>3, PairStep
<1>7. StoreMaps
  BY <1>1, <1>2, <1>4, AnswerMaps
<1>. QED
  BY <1>6, <1>7

\* A handler that starts a method on n and goes to stage s.
LEMMA EnterPair ==
  ASSUME IInv, PairInv, NEW c \in Calls, Busy(c), NEW n \in Nodes, NEW f,
         NEW s \in BusyStages,
         (\E a \in Articles : f = InsertFrame(a)) \/ (\E id \in Ids : f = DeleteFrame(id)),
         up[n], ~Running(n, c), Enter(n, c, f),
         n = Replica => Pc(n, c) \notin TakenPc,
         stage' = [stage EXCEPT ![c] = s],
         UNCHANGED <<request, reply, up, store, indexVars, boundVars>>,
         frame'[n][c] = f /\ (\A m \in Nodes : m # n => frame'[m][c] = frame[m][c])
           => IF request[c].op = "insert" THEN InsertProgress(c)' ELSE DeleteProgress(c)'
  PROVE  PairInv' /\ StoreMaps
<1>1. /\ reply[c] = "none" /\ up[Primary] /\ Quiet(n)
      /\ \A d \in Calls : d # c => ~Busy(d)
  BY OnlyRunner
<1>2. /\ frame'[n][c] = f
      /\ \A m \in Nodes, d \in Calls : ~(m = n /\ d = c) => frame'[m][d] = frame[m][d]
  BY EnterFrames DEF IInv, NodeInv, NodeTypeOK
<1>3. stage'[c] = s /\ \A d \in Calls : d # c => stage'[d] = stage[d]
  BY DEF IInv, HandlerInv, ServerTypeOK
<1>4. IndexInv'
  BY <1>1, EnterIndexInv DEF PairInv, IInv
<1>5. PairInv'
  <2> DEFINE x == request[c].id
  <2>1. request'[c].id = x /\ (Busy(c) => request[c].id = x)
    OBVIOUS
  <2> HIDE DEF x
  <2>. QED
    BY <1>1, <1>2, <1>3, <1>4, <2>1, PairStep DEF Busy
<1>6. Table' = Table /\ Applied' = Applied
  <2>1. f.pc \notin TakenPc
    BY DEF InsertFrame, DeleteFrame, TakenPc
  <2>. QED
    BY <1>2, <2>1, TwoNodes, ReplicaStill DEF Pc
<1>. QED
  BY <1>5, <1>6 DEF StoreMaps, Store!storeVars

\* DeleteArticle of the server looks the row up and keeps it for the rollback.
LEMMA LookupPair ==
  ASSUME IInv, PairInv, NEW c \in Calls, Lookup(c)
  PROVE  PairInv' /\ StoreMaps
<1> DEFINE x == request[c].id
<1>1. /\ stage[c] = "lookup" /\ Busy(c) /\ request[c].op = "delete" /\ x \in Ids
      /\ request[c].art = Nil /\ \A n \in Nodes : ~Running(n, c)
      /\ Pc(Primary, c) = "idle" /\ Pc(Replica, c) = "idle"
      /\ store[Primary][x] = store[Replica][x]
  <2>1. stage[c] = "lookup" /\ Busy(c)
    BY DEF Lookup, Busy, BusyStages, Stages
  <2>2. request[c].op = "delete" /\ x \in Ids
    BY <2>1 DEF IInv, HandlerInv, ServerTypeOK, RequestOK, StagesMatch, Request
  <2>3. DeleteProgress(c)
    BY <2>1, <2>2 DEF PairInv, Progress
  <2>. QED
    BY <2>1, <2>2, <2>3, TwoNodes
    DEF DeleteProgress, Running, RunningPc, InsertPc, DeletePc
<1>2. CASE store[Primary][x] = Nil
  <2>1. Return(c, "notfound") /\ UNCHANGED nodeVars
    BY <1>2 DEF Lookup, nodeVars, indexVars, boundVars
  <2>. QED
    BY <1>1, <1>2, <2>1, ReturnPair
<1>3. CASE store[Primary][x] # Nil
  <2> DEFINE row == store[Primary][x]
  <2>1. /\ saved' = [saved EXCEPT ![c] = row]
        /\ stage' = [stage EXCEPT ![c] = "local"]
        /\ Enter(Primary, c, DeleteFrame(x))
        /\ UNCHANGED <<request, reply, up, store, indexVars, boundVars>>
    BY <1>3 DEF Lookup
  <2>2. saved'[c] = row /\ stage'[c] = "local"
    BY <2>1 DEF IInv, HandlerInv, ServerTypeOK
  <2>3. row.dim = dim[Primary] /\ dim[Primary] # 0
    <3>1. up[Primary] /\ Quiet(Primary)
      BY <1>1, OnlyRunner, TwoNodes
    <3>2. live[Primary][x] = <<row>>
      BY <1>1, <1>3, <3>1, QuietIsMirrored, TwoNodes DEF PairInv, IndexInv, Mirrored, EntryOf
    <3>3. Len(live[Primary][x]) = 1 /\ live[Primary][x][1] = row
      BY <3>2
    <3>. QED
      BY <1>1, <3>3, TwoNodes DEF IInv, NodeInv, SameDimension
  <2>4. /\ frame'[Primary][c] = DeleteFrame(x) /\ frame'[Replica][c] = frame[Replica][c]
        => DeleteProgress(c)'
    BY <1>1, <1>3, <2>1, <2>2, <2>3 DEF DeleteProgress, Pc, DeleteFrame, indexVars
  <2>. QED
    BY <1>1, <2>1, <2>4, EnterPair, OnlyRunner, TwoNodes
    DEF BusyStages, Stages, Busy
<1>. QED
  BY <1>2, <1>3

\* The primary's own method has returned.
LEMMA LocalDonePair ==
  ASSUME IInv, PairInv, NEW c \in Calls, LocalDone(c)
  PROVE  PairInv' /\ StoreMaps
<1> DEFINE x == request[c].id
<1>1. /\ stage[c] = "local" /\ Busy(c) /\ x \in Ids
      /\ Pc(Primary, c) \in ResultPc /\ UNCHANGED nodeVars
  BY DEF LocalDone, Busy, BusyStages, Stages, IInv, HandlerInv, RequestOK
<1>2. IF request[c].op = "insert" THEN InsertProgress(c) ELSE DeleteProgress(c)
  BY <1>1 DEF PairInv, Progress
<1>3. /\ Pc(Replica, c) = "idle" /\ \A n \in Nodes : ~Running(n, c)
      /\ \/ Pc(Primary, c) = "ok"
         \/ Pc(Primary, c) = "failed" /\ store[Primary][x] = store[Replica][x]
  BY <1>1, <1>2, TwoNodes
  DEF InsertProgress, DeleteProgress, ResultPc, Running, RunningPc, InsertPc, DeletePc
<1>4. CASE Pc(Primary, c) = "failed"
  <2>1. Return(c, "error")
    BY <1>4 DEF LocalDone
  <2>. QED
    BY <1>1, <1>3, <1>4, <2>1, ReturnPair
<1>5. CASE Pc(Primary, c) = "ok"
  <2>1. stage' = [stage EXCEPT ![c] = "forward"] /\ UNCHANGED <<request, reply, saved>>
    BY <1>5 DEF LocalDone, Advance
  <2>2. stage'[c] = "forward" /\ \A d \in Calls : d # c => stage'[d] = stage[d]
    BY <2>1 DEF IInv, HandlerInv, ServerTypeOK
  <2>3. UNCHANGED <<up, store, live, indexed, dim, frame>>
    BY <1>1 DEF nodeVars
  <2>4. IndexInv'
    BY <2>3, IndexInvStays DEF PairInv
  <2>5. reply[c] = "none" /\ up[Primary] /\ \A d \in Calls : d # c => ~Busy(d)
    BY <1>1, OnlyRunner
  <2>6. IF request'[c].op = "insert" THEN InsertProgress(c)' ELSE DeleteProgress(c)'
    <3>1. CASE request[c].op = "insert"
      BY <1>1, <1>2, <1>5, <2>1, <2>2, <2>3, <3>1 DEF InsertProgress, Pc
    <3>2. CASE request[c].op # "insert"
      BY <1>1, <1>2, <1>5, <2>1, <2>2, <2>3, <3>2 DEF DeleteProgress, Pc
    <3>. QED
      BY <2>1, <3>1, <3>2
  <2>7. PairInv'
    <3>1. request'[c].id = x /\ (Busy(c) => request[c].id = x)
      BY <2>1
    <3> HIDE DEF x
    <3>2. Busy(c)'
      BY <2>2 DEF Busy, BusyStages, Stages
    <3>. QED
      BY <2>1, <2>2, <2>3, <2>4, <2>5, <2>6, <3>1, <3>2, PairStep
  <2>8. Table' = Table /\ Applied' = Applied
    BY <2>1, <2>3, ReplicaStill
  <2>. QED
    BY <2>1, <2>7, <2>8 DEF StoreMaps, Store!storeVars
<1>. QED
  BY <1>3, <1>4, <1>5

\* The forwarded RPC reaches the replica.
LEMMA ForwardPair ==
  ASSUME IInv, PairInv, NEW c \in Calls, Forward(c)
  PROVE  PairInv' /\ StoreMaps
<1> DEFINE f == FrameOf(request[c])
<1>1. /\ stage[c] = "forward" /\ Busy(c) /\ up[Replica]
      /\ Enter(Replica, c, f) /\ stage' = [stage EXCEPT ![c] = "remote"]
      /\ UNCHANGED <<request, reply, saved, up, store, indexVars, boundVars>>
  BY DEF Forward, Advance, Busy, BusyStages, Stages
<1>2. /\ request[c].op \in {"insert", "delete"} /\ request[c].id \in Ids
      /\ request[c].op = "insert" => request[c].art \in Articles
  BY <1>1 DEF IInv, HandlerInv, ServerTypeOK, RequestOK, Request
<1>3. IF request[c].op = "insert" THEN InsertProgress(c) ELSE DeleteProgress(c)
  BY <1>1 DEF PairInv, Progress
<1>4. /\ Pc(Replica, c) = "idle" /\ ~Running(Replica, c)
  BY <1>1, <1>3 DEF InsertProgress, DeleteProgress, Running, RunningPc, InsertPc, DeletePc
<1>5. (\E a \in Articles : f = InsertFrame(a)) \/ (\E id \in Ids : f = DeleteFrame(id))
  BY <1>2 DEF FrameOf
<1>6. stage'[c] = "remote"
  BY <1>1 DEF IInv, HandlerInv, ServerTypeOK
<1>7. ASSUME frame'[Replica][c] = f, frame'[Primary][c] = frame[Primary][c]
      PROVE  IF request[c].op = "insert" THEN InsertProgress(c)' ELSE DeleteProgress(c)'
  <2>1. CASE request[c].op = "insert"
    <3>1. f.pc = "store_insert"
      BY <2>1 DEF FrameOf, InsertFrame
    <3> HIDE DEF f
    <3>. QED
      BY <1>1, <1>3, <1>6, <1>7, <2>1, <3>1 DEF InsertProgress, Pc
  <2>2. CASE request[c].op # "insert"
    <3>1. f.pc = "store_get"
      BY <2>2 DEF FrameOf, DeleteFrame
    <3> HIDE DEF f
    <3>. QED
      BY <1>1, <1>3, <1>6, <1>7, <2>2, <3>1 DEF DeleteProgress, Pc, indexVars
  <2>. QED
    BY <2>1, <2>2
<1> HIDE DEF f
<1>. QED
  BY <1>1, <1>4, <1>5, <1>7, EnterPair, TwoNodes DEF BusyStages, Stages, TakenPc

\* The forwarded RPC fails and the primary undoes its own half.
LEMMA RollbackPair ==
  ASSUME IInv, PairInv, CalledAlone, NEW c \in Calls, RemoteFailed(c) \/ ReplicaUnreachable(c)
  PROVE  PairInv' /\ StoreMaps
<1> DEFINE f == IF request[c].op = "insert" THEN DeleteFrame(request[c].id)
                                            ELSE InsertFrame(saved[c])
<1>1. /\ stage[c] \in {"forward", "remote"} /\ Busy(c)
      /\ Enter(Primary, c, f) /\ stage' = [stage EXCEPT ![c] = "rollback"]
      /\ UNCHANGED <<request, reply, saved, up, store, indexVars, boundVars>>
  BY DEF RemoteFailed, ReplicaUnreachable, StartRollback, Advance, Busy, BusyStages, Stages
<1>2. reply[c] = "none" /\ up[Primary]
  BY <1>1, OnlyRunner
<1>3. stage[c] = "forward" \/ (stage[c] = "remote" /\ Pc(Replica, c) = "failed")
  <2>1. ~(lost < MaxLost)
    BY DEF CalledAlone, IInv, HandlerInv, ServerTypeOK
  <2>. QED
    BY <1>1, <1>2, <2>1 DEF RemoteFailed, ReplicaUnreachable
<1>4. /\ request[c].op \in {"insert", "delete"} /\ request[c].id \in Ids
      /\ request[c].op = "delete" => saved[c] \in Articles /\ saved[c].id = request[c].id
  BY <1>1 DEF IInv, HandlerInv, ServerTypeOK, RequestOK, Request, BusyStages, Stages
<1>5. IF request[c].op = "insert" THEN InsertProgress(c) ELSE DeleteProgress(c)
  BY <1>1 DEF PairInv, Progress
<1>6. ~Running(Primary, c)
  BY <1>1, <1>5 DEF InsertProgress, DeleteProgress, Running, RunningPc, InsertPc, DeletePc
<1>7. (\E a \in Articles : f = InsertFrame(a)) \/ (\E id \in Ids : f = DeleteFrame(id))
  BY <1>4
<1>8. stage'[c] = "rollback"
  BY <1>1 DEF IInv, HandlerInv, ServerTypeOK
<1>9. ASSUME frame'[Primary][c] = f, frame'[Replica][c] = frame[Replica][c]
      PROVE  IF request[c].op = "insert" THEN InsertProgress(c)' ELSE DeleteProgress(c)'
  <2>1. CASE request[c].op = "insert"
    <3>1. f.pc = "store_get"
      BY <2>1 DEF DeleteFrame
    <3> HIDE DEF f
    <3>. QED
      BY <1>1, <1>3, <1>5, <1>8, <1>9, <2>1, <3>1 DEF InsertProgress, Pc
  <2>2. CASE request[c].op # "insert"
    <3>1. f.pc = "store_insert" /\ f.art = saved[c]
      BY <2>2 DEF InsertFrame
    <3> HIDE DEF f
    <3>. QED
      BY <1>1, <1>3, <1>5, <1>8, <1>9, <2>2, <3>1 DEF DeleteProgress, Pc, indexVars
  <2>. QED
    BY <2>1, <2>2
<1> HIDE DEF f
<1>. QED
  BY <1>1, <1>2, <1>6, <1>7, <1>9, EnterPair, TwoNodes DEF BusyStages, Stages

\* Every step of a handler of the server.
LEMMA HandlerPair ==
  ASSUME IInv, PairInv, CalledAlone, NEW c \in Calls, HandlerStep(c)
  PROVE  PairInv' /\ StoreMaps
<1> DEFINE x == request[c].id
<1>1. CASE RemoteDone(c)
  <2>1. stage[c] = "remote" /\ Busy(c) /\ Return(c, "ok") /\ UNCHANGED nodeVars
        /\ Pc(Replica, c) \in {"ok", "notfound"}
    BY <1>1 DEF RemoteDone, Busy, BusyStages, Stages
  <2>2. IF request[c].op = "insert" THEN InsertProgress(c) ELSE DeleteProgress(c)
    BY <2>1 DEF PairInv, Progress
  <2>3. /\ Pc(Replica, c) = "ok" /\ store[Primary][x] = store[Replica][x]
        /\ \A n \in Nodes : ~Running(n, c)
    BY <2>1, <2>2, TwoNodes
    DEF InsertProgress, DeleteProgress, Running, RunningPc, InsertPc, DeletePc
  <2>. QED
    BY <2>1, <2>3, ReturnPair
<1>2. CASE RollbackDone(c)
  <2>1. stage[c] = "rollback" /\ Busy(c) /\ Return(c, "error") /\ UNCHANGED nodeVars
        /\ Pc(Primary, c) \in ResultPc
    BY <1>2 DEF RollbackDone, Busy, BusyStages, Stages
  <2>2. IF request[c].op = "insert" THEN InsertProgress(c) ELSE DeleteProgress(c)
    BY <2>1 DEF PairInv, Progress
  <2>3. /\ Pc(Replica, c) \in {"idle", "failed"} /\ store[Primary][x] = store[Replica][x]
        /\ \A n \in Nodes : ~Running(n, c)
    BY <2>1, <2>2, TwoNodes
    DEF InsertProgress, DeleteProgress, Running, RunningPc, InsertPc, DeletePc, ResultPc
  <2>. QED
    BY <2>1, <2>3, ReturnPair
<1>3. ~LookupError(c)
  BY DEF LookupError, CalledAlone, IInv, NodeInv, NodeTypeOK
<1>. QED
  BY <1>1, <1>2, <1>3, LookupPair, LocalDonePair, ForwardPair, RollbackPair DEF HandlerStep

\* A step of a method keeps each index the mirror of its table.
LEMMA NodeStepIndex ==
  ASSUME IInv, PairInv, NEW n \in Nodes, NEW c \in Calls, NodeStep(n, c),
         storeErrors' = storeErrors
  PROVE  IndexInv'
<1> DEFINE y == frame[n][c].id
<1>1. MethodStep(n, c) /\ NodeInv /\ IndexInv
  BY DEF NodeStep, IInv, PairInv
<1>2. /\ Running(n, c) /\ up' = up
      /\ \A m \in Nodes, d \in Calls :
           /\ frame'[m][d].id = frame[m][d].id
           /\ ~(m = n /\ d = c) => frame'[m][d] = frame[m][d]
  BY <1>1, MethodStepEffect, MethodStepIndexEffect
<1>3. AloneInv'
  BY <1>1, MethodStepAlone DEF IndexInv, UndoFails
<1>4. RunningIsUp'
  BY <1>1, <1>2 DEF IndexInv, RunningIsUp, Running, Pc
<1>5. \A d \in Calls : Running(n, d) => d = c
  BY <1>1, <1>2 DEF IndexInv, AloneInv, OneRuns
<1>6. DeletesIndexed'
  <2> SUFFICES ASSUME NEW m \in Nodes, NEW d \in Calls, Pc(m, d)' = "index_delete"
               PROVE  indexed'[m][frame'[m][d].id]
    BY DEF DeletesIndexed
  <2>1. CASE m = n /\ d = c
    <3>1. Pc(n, c) = "store_delete" /\ indexed' = indexed
      BY <1>1, <2>1, MethodStepEffect, MethodStepIndexEffect DEF Pc
    <3>2. c \in Calls /\ Busy(c) /\ y = request[c].id /\ y \in Ids
      BY <1>2, <3>1 DEF PairInv, OneAtATime, IInv, NodeInv, FrameOK, HandlerInv, FramesMatch, Pc
    <3>3. IF request[c].op = "insert" THEN InsertProgress(c) ELSE DeleteProgress(c)
      BY <3>2 DEF PairInv, Progress
    <3>4. store[n][y] # Nil
      <4>1. request[c].op = "insert" => request[c].art # Nil
        BY ArticleAssumption DEF IInv, HandlerInv, RequestOK
      <4>. QED
        BY <3>1, <3>2, <3>3, <4>1, TwoNodes DEF InsertProgress, DeleteProgress
    <3>5. Mirrored(n, y)
      <4>1. up[n]
        BY <1>1, <1>2 DEF IndexInv, RunningIsUp
      <4>2. AtRest(n, y)
        BY <1>5, <3>1 DEF AtRest, Half, Running, RunningPc, InsertPc, DeletePc
      <4>. QED
        BY <1>1, <3>2, <4>1, <4>2 DEF IndexInv, AloneInv, RestMirrored
    <3>. QED
      BY <1>2, <2>1, <3>1, <3>4, <3>5 DEF Mirrored
  <2>2. CASE ~(m = n /\ d = c)
    <3>1. frame'[m][d] = frame[m][d] /\ Pc(m, d) = "index_delete" /\ frame[m][d].id \in Ids
      BY <1>1, <1>2, <2>2 DEF Pc, NodeInv, FrameOK
    <3>2. m # n
      BY <1>5, <2>2, <3>1 DEF Running, RunningPc, InsertPc, DeletePc
    <3>3. indexed'[m][frame[m][d].id] = indexed[m][frame[m][d].id]
      BY <1>1, <3>1, <3>2, StepAtRow
    <3>. QED
      BY <1>1, <3>1, <3>3 DEF IndexInv, DeletesIndexed
  <2>. QED
    BY <2>1, <2>2
<1>. QED
  BY <1>3, <1>4, <1>6 DEF IndexInv

\* A method of the primary moves its call one row down in its progress; a
\* method of the replica does too, and this is where the call takes effect.
LEMMA NodeStepPair ==
  ASSUME IInv, PairInv, CalledAlone, NEW n \in Nodes, NEW c \in Calls, NodeStep(n, c)
  PROVE  PairInv' /\ StoreMaps
<1> DEFINE x == request[c].id
<1>1. /\ MethodStep(n, c) /\ NodeInv
      /\ UNCHANGED <<request, stage, reply, saved>>
  BY DEF NodeStep, IInv, serverVars
<1>2. NodeInv' /\ storeErrors' = storeErrors
  <2>1. NodeInv'
    BY NodeStepInv DEF IInv
  <2>. QED
    BY <1>1, <2>1 DEF CalledAlone, NodeInv, NodeTypeOK
<1>3. /\ Running(n, c) /\ Busy(c) /\ up' = up
      /\ \A m \in Nodes, d \in Calls :
           /\ frame'[m][d].art = frame[m][d].art
           /\ frame'[m][d].id = frame[m][d].id
           /\ ~(m = n /\ d = c) => frame'[m][d] = frame[m][d]
  BY <1>1, MethodStepEffect, MethodStepIndexEffect DEF PairInv, OneAtATime
<1>4. frame[n][c].id = x /\ x \in Ids
  <2>1. Pc(n, c) # "idle"
    BY <1>3 DEF Running, RunningPc, InsertPc, DeletePc
  <2>. QED
    BY <2>1 DEF IInv, NodeInv, FrameOK, HandlerInv, FramesMatch, Pc
<1>5. /\ reply[c] = "none" /\ up[Primary] /\ \A d \in Calls : d # c => ~Busy(d)
      /\ \A d \in Calls : d # c => ~Running(Replica, d)
  <2>1. \A d \in Calls : d # c => ~Busy(d)
    BY <1>3, OnlyRunner
  <2>. QED
    BY <1>3, <2>1, OnlyRunner, TwoNodes DEF PairInv, OneAtATime
<1>6. \A m \in Nodes, id \in Ids : ~(m = n /\ id = x) => store'[m][id] = store[m][id]
  BY <1>1, <1>4, StepAtRow
<1>7. IndexInv'
  BY <1>2, NodeStepIndex
<1>8. /\ request[c].op = "insert" =>
           request[c].art # Nil /\ (Pc(n, c) \in InsertPc => frame[n][c].art = request[c].art)
  BY ArticleAssumption DEF IInv, NodeInv, FrameOK, HandlerInv, FramesMatch, RequestOK, Pc
<1>9. Pc(n, c) = "index_delete" => indexed[n][x]
  BY <1>4 DEF PairInv, IndexInv, DeletesIndexed
<1>10. LET row == store[n][x]
           a == frame[n][c].art
           pc == Pc(n, c)
           next == Pc(n, c)'
           rowNext == store'[n][x]
       IN
       /\ \A m \in Nodes : dim[m] # 0 => dim'[m] = dim[m]
       /\ pc = "store_insert" /\ row = Nil => next = "index_insert" /\ rowNext = a
       /\ pc = "store_insert" /\ row # Nil => next = "failed" /\ rowNext = row
       /\ pc = "index_insert" /\ Accepts(n, a) => next = "ok" /\ rowNext = row
       /\ pc = "index_insert" => next \in {"ok", "undo_insert"} /\ rowNext = row
       /\ pc = "undo_insert" => next = "failed" /\ rowNext = Nil
       /\ pc = "store_get" /\ row # Nil => next = "store_delete" /\ rowNext = row
       /\ pc = "store_delete" => next = "index_delete" /\ rowNext = Nil
       /\ pc = "index_delete" => next = "ok" /\ rowNext = row
  <2>1. NodeInv /\ storeErrors' = storeErrors
    BY <1>1, <1>2
  <2> HIDE DEF x
  <2>. QED
    BY <1>1, <1>4, <1>9, <2>1, MethodStepPath
<1>11. IF request[c].op = "insert" THEN InsertProgress(c) ELSE DeleteProgress(c)
  BY <1>3 DEF PairInv, Progress
<1>12. \A m \in Nodes : m # n => Pc(m, c)' = Pc(m, c) /\ store'[m][x] = store[m][x]
  BY <1>3, <1>4, <1>6 DEF Pc
<1>13. Running(n, c) <=> Pc(n, c) \in {"store_insert", "index_insert", "undo_insert",
                                       "store_get", "store_delete", "index_delete"}
  BY DEF Running, RunningPc, InsertPc, DeletePc
<1>14. request[c].op = "insert" => InsertProgress(c)'
  <2>1. CASE n = Primary
    BY <1>1, <1>3, <1>8, <1>10, <1>11, <1>12, <1>13, <2>1, TwoNodes
    DEF InsertProgress, InsertPc
  <2>2. CASE n = Replica
    BY <1>1, <1>3, <1>8, <1>10, <1>11, <1>12, <1>13, <2>2, TwoNodes
    DEF InsertProgress, InsertPc
  <2>. QED
    BY <2>1, <2>2, TwoNodes
<1>15. request[c].op # "insert" => DeleteProgress(c)'
  <2>1. CASE n = Primary
    <3>1. ASSUME request[c].op # "insert"
          PROVE  DeleteProgress(c) /\ stage[c] \in {"local", "rollback"}
      BY <1>3, <1>11, <1>13, <2>1, <3>1 DEF DeleteProgress
    <3> SUFFICES ASSUME request[c].op # "insert"
                 PROVE  DeleteProgress(c)'
      OBVIOUS
    <3> DEFINE here == store[Primary][x]
               p == Pc(Primary, c)
    <3>2. /\ request'[c] = request[c] /\ stage'[c] = stage[c] /\ saved'[c] = saved[c]
          /\ Pc(Replica, c)' = Pc(Replica, c) /\ store'[Replica][x] = store[Replica][x]
          /\ dim[Primary] # 0 => dim'[Primary] = dim[Primary]
          /\ frame'[Primary][c].art = frame[Primary][c].art
      BY <1>1, <1>3, <1>10, <1>12, <2>1, TwoNodes
    <3>3. /\ p = "store_get" /\ here # Nil => p' = "store_delete" /\ here' = here
          /\ p = "store_delete" => p' = "index_delete" /\ here' = Nil
          /\ p = "index_delete" => p' = "ok" /\ here' = here
      BY <1>1, <1>10, <2>1
    <3>4. /\ p = "store_insert" /\ here = Nil =>
               p' = "index_insert" /\ here' = frame[Primary][c].art
          /\ p = "index_insert" /\ Accepts(Primary, frame[Primary][c].art) =>
               p' = "ok" /\ here' = here
      BY <1>1, <1>10, <2>1
    <3> HIDE DEF here, p
    <3>5. CASE stage[c] = "local"
      <4>1. /\ request[c].art = Nil /\ saved[c] # Nil
            /\ saved[c].dim = dim[Primary] /\ dim[Primary] # 0
            /\ Pc(Replica, c) = "idle" /\ store[Replica][x] = saved[c]
            /\ \/ p \in {"store_get", "store_delete"} /\ here = saved[c]
               \/ p = "index_delete" /\ here = Nil
        BY <1>3, <1>13, <2>1, <3>1, <3>5 DEF DeleteProgress, here, p
      <4>2. \/ p' \in {"store_get", "store_delete"} /\ here' = saved[c]
            \/ p' \in {"index_delete", "ok"} /\ here' = Nil
        BY <3>3, <4>1
      <4>. QED
        BY <3>2, <3>5, <4>1, <4>2 DEF DeleteProgress, here, p
    <3>6. CASE stage[c] = "rollback"
      <4>1. /\ request[c].art = Nil /\ saved[c] # Nil
            /\ saved[c].dim = dim[Primary] /\ dim[Primary] # 0
            /\ Pc(Replica, c) = "idle" /\ store[Replica][x] = saved[c]
            /\ frame[Primary][c].art = saved[c]
            /\ \/ p = "store_insert" /\ here = Nil
               \/ p = "index_insert" /\ here = saved[c]
        BY <1>3, <1>13, <2>1, <3>1, <3>6 DEF DeleteProgress, here, p
      <4>2. Accepts(Primary, frame[Primary][c].art)
        BY <4>1 DEF Accepts
      <4>3. p' \in {"index_insert", "ok"} /\ here' = saved[c]
        BY <3>4, <4>1, <4>2
      <4>. QED
        BY <3>2, <3>6, <4>1, <4>3 DEF DeleteProgress, here, p
    <3>. QED
      BY <3>1, <3>5, <3>6
  <2>2. CASE n = Replica
    BY <1>1, <1>3, <1>10, <1>11, <1>12, <1>13, <2>2, TwoNodes
    DEF DeleteProgress
  <2>. QED
    BY <2>1, <2>2, TwoNodes
<1>16. PairInv'
  <2>1. /\ Busy(c)' /\ reply'[c] = "none" /\ up'[Primary]
        /\ IF request'[c].op = "insert" THEN InsertProgress(c)' ELSE DeleteProgress(c)'
    BY <1>1, <1>3, <1>5, <1>14, <1>15 DEF Busy
  <2>2. request'[c].id = x /\ (Busy(c) => request[c].id = x)
    BY <1>1
  <2> HIDE DEF x
  <2>. QED
    BY <1>1, <1>3, <1>5, <1>6, <1>7, <2>1, <2>2, PairStep
<1>17. CASE n = Primary
  <2>1. \A d \in Calls : frame'[Replica][d] = frame[Replica][d]
    BY <1>3, <1>17, TwoNodes
  <2>2. store'[Replica] = store[Replica]
    BY <1>1, <1>2, <1>6, <1>17, TwoNodes DEF NodeInv, NodeTypeOK
  <2>3. Table' = Table /\ Applied' = Applied
    BY <1>1, <2>1, <2>2, ReplicaStill
  <2>. QED
    BY <1>1, <1>16, <2>3 DEF StoreMaps, Store!storeVars
<1>18. CASE n = Replica
  <2>0. PICK y \in Ids : y = x
    BY <1>4
  <2> DEFINE hidden == Pc(Replica, c) \in {"index_insert", "undo_insert"}
             effect == Pc(Replica, c) \in {"ok", "index_delete"}
  <2>1. /\ Undecided(y) <=> hidden
        /\ Undecided(y)' <=> hidden'
        /\ \A id \in Ids : id # y => (Undecided(id)' <=> Undecided(id))
    <3>1. \A d \in Calls : d # c =>
            /\ Pc(Replica, d) \notin {"index_insert", "undo_insert"}
            /\ Pc(Replica, d)' \notin {"index_insert", "undo_insert"}
      BY <1>3, <1>5, <1>18, TwoNodes DEF Running, Pc, RunningPc, InsertPc, DeletePc
    <3>2. frame[Replica][c].id = y /\ frame'[Replica][c].id = y
      BY <1>3, <1>4, <1>18, <2>0
    <3>. QED
      BY <3>1, <3>2 DEF Undecided
  <2>2. /\ Table[y] = IF hidden THEN Nil ELSE store[Replica][y]
        /\ Table'[y] = IF hidden' THEN Nil ELSE store'[Replica][y]
        /\ \A id \in Ids : id # y => Table'[id] = Table[id]
    <3>1. \A id \in Ids : id # y => store'[Replica][id] = store[Replica][id]
      BY <1>6, <2>0, TwoNodes
    <3>2. \A id \in Ids :
            /\ Table[id] = IF Undecided(id) THEN Nil ELSE store[Replica][id]
            /\ Table'[id] = IF Undecided(id)' THEN Nil ELSE store'[Replica][id]
      BY DEF Table
    <3> HIDE DEF hidden
    <3>. QED
      BY <2>1, <3>1, <3>2
  <2>3. /\ c \in Applied <=> effect
        /\ c \in Applied' <=> effect'
        /\ \A d \in Calls : d # c => (d \in Applied' <=> d \in Applied)
    BY <1>1, <1>3, <1>5, TwoNodes DEF Applied, Pc
  <2>4. /\ Table = [id \in Ids |-> Table[id]] /\ Table' = [id \in Ids |-> Table'[id]]
        /\ Applied \subseteq Calls /\ Applied' \subseteq Calls
    BY DEF Table, Applied
  <2>5. request[c].op \in {"insert", "delete"}
    BY <1>3 DEF IInv, HandlerInv, ServerTypeOK, RequestOK, Request, Busy, BusyStages, Stages
  <2>6. \/ Table'[y] = Table[y] /\ (effect' <=> effect)
        \/ /\ ~effect /\ effect'
           /\ request[c].op = "insert" <=> Table[y] = Nil
           /\ Table'[y] = request[c].art
    <3>1. CASE request[c].op = "insert"
      BY <1>8, <1>10, <1>11, <1>13, <1>14, <1>3, <1>18, <2>0, <2>2, <3>1, TwoNodes
      DEF InsertProgress
    <3>2. CASE request[c].op = "delete"
      BY <1>10, <1>11, <1>13, <1>15, <1>3, <1>18, <2>0, <2>2, <3>2, TwoNodes
      DEF DeleteProgress
    <3>. QED
      BY <2>5, <3>1, <3>2
  <2> HIDE DEF hidden, effect
  <2>7. CASE Table'[y] = Table[y] /\ (effect' <=> effect)
    <3>1. Table' = Table
      BY <2>2, <2>4, <2>7
    <3>2. Applied' = Applied
      BY <2>3, <2>4, <2>7
    <3>. QED
      BY <1>1, <1>16, <3>1, <3>2 DEF StoreMaps, Store!storeVars
  <2>8. CASE /\ ~effect /\ effect'
             /\ request[c].op = "insert" <=> Table[y] = Nil
             /\ Table'[y] = request[c].art
    <3>1. Table' = [Table EXCEPT ![y] = request[c].art]
      BY <2>0, <2>2, <2>4, <2>8
    <3>2. Applied' = Applied \cup {c}
      BY <2>3, <2>4, <2>8
    <3>3. Store!Apply(c)
      BY <1>1, <1>5, <2>0, <2>3, <2>5, <2>8, <3>1, <3>2 DEF Store!Apply, Store!Pending
    <3>. QED
      BY <1>16, <3>3 DEF StoreMaps, Store!StoreNext
  <2>. QED
    BY <2>6, <2>7, <2>8
<1>. QED
  BY <1>17, <1>18, TwoNodes

\* A new call starts its handler, when no other is at work.
LEMMA ReceivePair ==
  ASSUME IInv, PairInv, CalledAlone, NEW c \in Calls, NEW x \in Ids,
         ReceiveDelete(c, x) \/ \E a \in Articles : a.id = x /\ ReceiveInsert(c, a)
  PROVE  PairInv' /\ StoreMaps
<1>1. CanCall(c) /\ UNCHANGED <<reply, store>>
  BY DEF ReceiveDelete, ReceiveInsert, nodeVars
<1>2. /\ stage[c] = "idle" /\ up[Primary] /\ request[c] = NoRequest /\ reply[c] = "none"
      /\ \A n \in Nodes : Pc(n, c) = "idle"
  BY <1>1 DEF CanCall, IInv, HandlerInv, RequestOK, FramesMatch, Pc
<1>3. \A d \in Calls : ~Busy(d)
  BY <1>1 DEF CanCall, CalledAlone, PairInv, OneAtATime, Busy, BusyStages
<1>4. Quiet(Primary) /\ store[Primary][x] = store[Replica][x]
  BY <1>3, TwoNodes DEF PairInv, OneAtATime, Quiet, SameElsewhere
<1>5. PICK r \in Store!StoreRequest :
        /\ r.id = x
        /\ request' = [request EXCEPT ![c] = r]
        /\ \/ /\ r.op = "insert" /\ stage' = [stage EXCEPT ![c] = "local"]
              /\ Enter(Primary, c, InsertFrame(r.art)) /\ r.art \in Articles
              /\ UNCHANGED <<up, store, indexVars, boundVars>>
           \/ /\ r.op = "delete" /\ r.art = Nil /\ stage' = [stage EXCEPT ![c] = "lookup"]
              /\ UNCHANGED nodeVars
  <2>1. CASE ReceiveDelete(c, x)
    <3>1. DeleteRequest(x) \in Store!StoreRequest
      BY DEF DeleteRequest, Store!StoreRequest
    <3>. QED
      BY <2>1, <3>1 DEF ReceiveDelete, DeleteRequest
  <2>2. CASE \E a \in Articles : a.id = x /\ ReceiveInsert(c, a)
    <3>1. PICK a \in Articles : a.id = x /\ ReceiveInsert(c, a)
      BY <2>2
    <3>2. InsertRequest(a) \in Store!StoreRequest
      BY <3>1 DEF InsertRequest, Store!StoreRequest
    <3>. QED
      BY <3>1, <3>2 DEF ReceiveInsert, InsertRequest
  <2>. QED
    BY <2>1, <2>2
<1>6. /\ request'[c] = r
      /\ \A d \in Calls : d # c => stage'[d] = stage[d] /\ request'[d] = request[d]
  BY <1>5 DEF IInv, HandlerInv, ServerTypeOK
<1>7. /\ IndexInv'
      /\ \A n \in Nodes, d \in Calls : d # c => frame'[n][d] = frame[n][d]
      /\ frame'[Replica][c] = frame[Replica][c] \/ Pc(Replica, c)' = "idle"
      /\ Pc(Replica, c)' \notin TakenPc
      /\ Busy(c)' /\ up'[Primary]
      /\ IF request'[c].op = "insert" THEN InsertProgress(c)' ELSE DeleteProgress(c)'
  <2>1. CASE r.op = "insert"
    <3>1. /\ stage'[c] = "local" /\ Enter(Primary, c, InsertFrame(r.art)) /\ r.art \in Articles
          /\ UNCHANGED <<up, store, indexVars, boundVars>>
      BY <1>5, <2>1 DEF IInv, HandlerInv, ServerTypeOK
    <3>2. /\ frame'[Primary][c].pc = "store_insert"
          /\ \A n \in Nodes, d \in Calls :
               ~(n = Primary /\ d = c) => frame'[n][d] = frame[n][d]
      <4>1. frame'[Primary][c] = InsertFrame(r.art)
            /\ \A n \in Nodes, d \in Calls :
                 ~(n = Primary /\ d = c) => frame'[n][d] = frame[n][d]
        BY <3>1, TwoNodes, EnterFrames DEF IInv, NodeInv, NodeTypeOK
      <4>2. InsertFrame(r.art).pc = "store_insert"
        BY DEF InsertFrame
      <4>. QED
        BY <4>1, <4>2
    <3>3. IndexInv'
      BY <1>2, <1>4, <3>1, TwoNodes, EnterIndexInv DEF PairInv, IInv
    <3>4. Pc(Replica, c)' = "idle" /\ Busy(c)'
      BY <1>2, <3>1, <3>2, TwoNodes DEF Pc, Busy, BusyStages, Stages
    <3>5. InsertProgress(c)'
      BY <1>4, <1>5, <1>6, <3>1, <3>2, <3>4 DEF InsertProgress, Pc
    <3>. QED
      BY <1>2, <1>6, <2>1, <3>1, <3>2, <3>3, <3>4, <3>5 DEF TakenPc
  <2>2. CASE r.op = "delete"
    <3>1. /\ stage'[c] = "lookup" /\ r.art = Nil
          /\ UNCHANGED <<up, store, live, indexed, dim, frame>>
      BY <1>5, <2>2 DEF nodeVars, IInv, HandlerInv, ServerTypeOK
    <3>2. IndexInv'
      BY <3>1, IndexInvStays DEF PairInv
    <3>3. Busy(c)' /\ DeleteProgress(c)' /\ Pc(Replica, c)' = "idle"
      BY <1>2, <1>4, <1>5, <1>6, <3>1, TwoNodes DEF DeleteProgress, Pc, Busy, BusyStages, Stages
    <3>. QED
      BY <1>2, <1>6, <2>2, <3>1, <3>2, <3>3 DEF TakenPc
  <2>. QED
    BY <1>5, <2>1, <2>2
<1>8. PairInv'
  <2>1. request'[c].id = x /\ (Busy(c) => request[c].id = x)
    BY <1>3, <1>5, <1>6
  <2>. QED
    BY <1>1, <1>2, <1>3, <1>6, <1>7, <2>1, PairStep
<1>9. Table' = Table /\ Applied' = Applied
  <2>1. Pc(Replica, c) \notin TakenPc
    BY <1>2, TwoNodes DEF TakenPc
  <2>. QED
    BY <1>1, <1>7, <2>1, TwoNodes, ReplicaStill
<1>10. Store!Ask(c, r)
  BY <1>1, <1>2, <1>5, <1>9 DEF Store!Ask, NoRequest
<1>. QED
  BY <1>5, <1>8, <1>10 DEF StoreMaps, Store!StoreNext

\* A process that stops or comes back changes neither table, and the primary
\* does neither while a call is at work.
LEMMA ProcessPair ==
  ASSUME IInv, PairInv, NEW n \in Nodes, ProcessStop(n) \/ ProcessRestart(n)
  PROVE  PairInv' /\ StoreMaps
<1>1. /\ UNCHANGED <<request, stage, reply, saved, store>>
      /\ \A m \in Nodes : m # n => up'[m] = up[m] /\ dim'[m] = dim[m]
      /\ \A m \in Nodes, id \in Ids : m # n => indexed'[m][id] = indexed[m][id]
  BY DEF ProcessStop, ProcessRestart, Stop, GoDown, Restart, serverVars,
    IInv, NodeInv, NodeTypeOK
<1>2. (\A c \in Calls : ~Running(n, c)) /\ \A m \in Nodes, c \in Calls : frame'[m][c] = frame[m][c]
  <2>1. CASE ProcessStop(n)
    BY <2>1, GoDownEffect DEF ProcessStop, Stop, Quiet, IInv
  <2>2. CASE ProcessRestart(n)
    BY <2>2 DEF ProcessRestart, Restart, PairInv, IndexInv, RunningIsUp
  <2>. QED
    BY <2>1, <2>2
<1>3. AloneInv'
  <2>1. CASE ProcessStop(n)
    <3>1. GoDown(n)
      BY <2>1 DEF ProcessStop, Stop
    <3>2. \A m \in Nodes, id \in Ids : m \notin {n} =>
            live'[m][id] = live[m][id] /\ indexed'[m][id] = indexed[m][id]
      BY <3>1 DEF GoDown, IInv, NodeInv, NodeTypeOK
    <3>3. /\ {n} \in SUBSET Nodes
          /\ \A m \in {n} : ~up'[m]
          /\ \A m \in Nodes \ {n} : up'[m] = up[m]
      BY <3>1 DEF GoDown, IInv, NodeInv, NodeTypeOK
    <3>4. \A m \in Nodes, c \in Calls :
            /\ m \notin {n} \/ ~Running(m, c) => frame'[m][c] = frame[m][c]
            /\ m \in {n} /\ Running(m, c) => frame'[m][c].pc = "failed"
      BY <1>2
    <3>. QED
      BY <1>1, <3>2, <3>3, <3>4, DownAlone DEF PairInv, IndexInv, IInv
  <2>2. CASE ProcessRestart(n)
    BY <2>2, RestartAlone DEF ProcessRestart, PairInv, IndexInv, IInv
  <2>. QED
    BY <2>1, <2>2
<1>4. RunningIsUp'
  BY <1>1, <1>2 DEF PairInv, IndexInv, RunningIsUp, Running, Pc
<1>5. DeletesIndexed'
  <2> SUFFICES ASSUME NEW m \in Nodes, NEW c \in Calls, Pc(m, c) = "index_delete"
               PROVE  indexed'[m][frame[m][c].id]
    BY <1>2 DEF DeletesIndexed, Pc
  <2>1. m # n /\ frame[m][c].id \in Ids
    BY <1>2 DEF Running, RunningPc, InsertPc, DeletePc, IInv, NodeInv, FrameOK, Pc
  <2>. QED
    BY <1>1, <2>1 DEF PairInv, IndexInv, DeletesIndexed
<1>6. \A c \in Calls : Busy(c) => n # Primary
  BY TwoNodes DEF ProcessStop, ProcessRestart, Restart, PairInv, OneAtATime
<1>7. OneAtATime' /\ SameElsewhere'
  BY <1>1, <1>2, <1>6, TwoNodes DEF PairInv, OneAtATime, SameElsewhere, Busy, Running, Pc
<1>8. Progress'
  <2> SUFFICES ASSUME NEW c \in Calls, Busy(c)
               PROVE  (IF request[c].op = "insert" THEN InsertProgress(c) ELSE DeleteProgress(c))'
    BY <1>1 DEF Progress, Busy
  <2>1. dim'[Primary] = dim[Primary]
    BY <1>1, <1>6, TwoNodes
  <2>2. \A m \in Nodes : Pc(m, c)' = Pc(m, c) /\ frame'[m][c] = frame[m][c]
    BY <1>2 DEF Pc
  <2>3. IF request[c].op = "insert" THEN InsertProgress(c) ELSE DeleteProgress(c)
    BY DEF PairInv, Progress
  <2>4. CASE request[c].op = "insert"
    BY <1>1, <2>2, <2>3, <2>4, TwoNodes DEF InsertProgress
  <2>5. CASE request[c].op # "insert"
    BY <1>1, <2>1, <2>2, <2>3, <2>5, TwoNodes DEF DeleteProgress
  <2>. QED
    BY <2>4, <2>5
<1>9. Table' = Table /\ Applied' = Applied
  BY <1>1, <1>2, TwoNodes, ReplicaStill
<1>. QED
  BY <1>1, <1>3, <1>4, <1>5, <1>7, <1>8, <1>9
  DEF PairInv, IndexInv, StoreMaps, Store!storeVars

\* Two empty tables are one.
LEMMA PairInit == Init => PairInv /\ Store!StoreInit
<1> SUFFICES ASSUME Init PROVE PairInv /\ Store!StoreInit
  OBVIOUS
<1>1. \A n \in Nodes, c \in Calls : Pc(n, c) = "idle" /\ ~Running(n, c)
  BY DEF Init, NodeInit, IdleFrame, Pc, Running, RunningPc, InsertPc, DeletePc
<1>2. IndexInv
  BY <1>1, AloneInit DEF Init, IndexInv, RunningIsUp, DeletesIndexed
<1>3. \A c \in Calls : ~Busy(c)
  BY DEF Init, Busy, BusyStages
<1>4. OneAtATime /\ SameElsewhere /\ Progress
  BY <1>1, <1>3, TwoNodes DEF Init, NodeInit, OneAtATime, SameElsewhere, Progress
<1>5. Table = [id \in Ids |-> Nil]
  BY TwoNodes DEF Init, NodeInit, Table
<1>6. Applied = {}
  BY <1>1, TwoNodes DEF Init, Applied
<1>. QED
  BY <1>2, <1>4, <1>5, <1>6 DEF Init, PairInv, Store!StoreInit, NoRequest

\* Every step of the pair is one of ShardStore, or a stutter.
LEMMA PairNext ==
  ASSUME CalledAlone, IInv, PairInv, [Next]_vars
  PROVE  PairInv' /\ StoreMaps
<1>1. ASSUME NEW c \in Calls, NEW a \in Articles, ReceiveInsert(c, a)
      PROVE  PairInv' /\ StoreMaps
  BY <1>1, ReceivePair, ArticleAssumption
<1>2. ASSUME NEW c \in Calls, NEW id \in Ids, ReceiveDelete(c, id)
      PROVE  PairInv' /\ StoreMaps
  BY <1>2, ReceivePair
<1>3. ASSUME NEW c \in Calls, HandlerStep(c) PROVE PairInv' /\ StoreMaps
  BY <1>3, HandlerPair
<1>4. ASSUME NEW c \in Calls, NEW n \in Nodes, NodeStep(n, c) PROVE PairInv' /\ StoreMaps
  BY <1>4, NodeStepPair
<1>5. ASSUME NEW n \in Nodes, ProcessStop(n) \/ ProcessRestart(n)
      PROVE  PairInv' /\ StoreMaps
  BY <1>5, ProcessPair
<1>6. /\ \A c \in Calls : ~CallerDisconnects(c)
      /\ \A n \in Nodes : ~ProcessCrash(n)
  BY DEF CallerDisconnects, ProcessCrash, Crash, CalledAlone, IInv, HandlerInv, ServerTypeOK,
    NodeInv, NodeTypeOK
<1>7. CASE UNCHANGED vars
  <2>1. UNCHANGED <<up, store, live, indexed, dim, frame, request, stage, reply, saved>>
    BY <1>7 DEF vars, nodeVars, serverVars
  <2>2. IndexInv'
    BY <2>1, IndexInvStays DEF PairInv
  <2>3. OneAtATime' /\ SameElsewhere'
    BY <2>1 DEF PairInv, OneAtATime, SameElsewhere, Busy, Running, Pc
  <2>4. Progress'
    <3>1. \A c \in Calls : Busy(c)' <=> Busy(c)
      BY <2>1 DEF Busy
    <3>2. \A c \in Calls : InsertProgress(c)' <=> InsertProgress(c)
      BY <2>1 DEF InsertProgress, Pc
    <3>3. \A c \in Calls : DeleteProgress(c)' <=> DeleteProgress(c)
      BY <2>1 DEF DeleteProgress, Pc
    <3>. QED
      BY <2>1, <3>1, <3>2, <3>3 DEF PairInv, Progress
  <2>5. Table' = Table /\ Applied' = Applied
    BY <2>1, ReplicaStill
  <2>. QED
    BY <2>1, <2>2, <2>3, <2>4, <2>5 DEF PairInv, StoreMaps, Store!storeVars
<1>. QED
  BY <1>1, <1>2, <1>3, <1>4, <1>5, <1>6, <1>7 DEF Next

\* PairInv is an invariant.
LEMMA PairInvAlways ==
  ASSUME CalledAlone
  PROVE  Spec => [](IInv /\ PairInv)
<1>1. IInv /\ PairInv /\ [Next]_vars => (IInv /\ PairInv)'
  BY IInvNext, PairNext
<1>. QED
  BY <1>1, IInvInit, PairInit, PTL DEF Spec

-----------------------------------------------------------------------------
(* The theorems. *)

\* The gRPC pair implements ShardStore: whatever InsertArticle and DeleteArticle
\* do on two nodes and undo after a failure, callers see one table on which
\* each call takes effect once and whole, or answers an error and took none.
THEOREM PairIsAtomic ==
  ASSUME CalledAlone
  PROVE  Spec => AtomicStore
<1>1. IInv /\ PairInv /\ [Next]_vars => [Store!StoreNext]_(Store!storeVars)
  BY PairNext DEF StoreMaps
<1>2. Init => Store!StoreInit
  BY PairInit
<1>. QED
  BY <1>1, <1>2, PairInvAlways, PTL DEF Spec, AtomicStore, Store!StoreSpec

\* Between calls the replica is an exact copy of the primary, also after writes
\* that the replica refused or could not be reached for.
THEOREM ReplicaIsExactCopy ==
  ASSUME CalledAlone
  PROVE  Spec => []ExactCopy
<1>1. IInv /\ PairInv => ExactCopy
  <2> SUFFICES ASSUME IInv, PairInv, Settled PROVE store[Primary] = store[Replica]
    BY DEF ExactCopy
  <2>1. \A id \in Ids : store[Primary][id] = store[Replica][id]
    BY DEF Settled, Active, PairInv, SameElsewhere
  <2>2. /\ store[Primary] \in [Ids -> Articles \cup {Nil}]
        /\ store[Replica] \in [Ids -> Articles \cup {Nil}]
    BY TwoNodes DEF IInv, NodeInv, NodeTypeOK
  <2>. QED
    BY <2>1, <2>2
<1>. QED
  BY <1>1, PairInvAlways, PTL

\* Between calls the index of either node holds exactly the rows of its table,
\* rolled back writes and rebuilds at a restart included.
THEOREM PairMirrorsTable ==
  ASSUME CalledAlone
  PROVE  Spec => []IndexMirrorsTable
<1>1. PairInv => IndexMirrorsTable
  BY QuietIsMirrored DEF PairInv, IndexInv, IndexMirrorsTable, Mirrored, EntryOf
<1>. QED
  BY <1>1, PairInvAlways, PTL
=============================================================================
