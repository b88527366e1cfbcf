--------------------------- MODULE ShardNodeProofs ---------------------------
(***************************************************************************)
(* Theorems about ShardNode, for every number of nodes and calls, every    *)
(* set of articles, either index and any number of crashes and errors:     *)
(* the dimension of what a search compares; that an article whose insert   *)
(* succeeded can be found until somebody asks to delete its id; and that   *)
(* calls made one by one leave the index holding exactly the table.        *)
(***************************************************************************)
EXTENDS ShardNode, TLAPS

-----------------------------------------------------------------------------
(* The inductive invariant.  The type of live depends on the index never   *)
(* deleting from an empty list, and SameDimension on the frame of an       *)
(* insert holding an article.                                              *)

\* A call inside InsertArticle knows its article, one inside DeleteArticle its id.
FrameOK ==
  \A n \in Nodes, c \in Calls : LET f == frame[n][c] IN
    /\ f.pc # "idle" => f.id \in Ids
    /\ f.pc \in InsertPc => f.art \in Articles /\ f.id = f.art.id
    /\ f.pc \in DeletePc => f.art = Nil

\* What Delete would find is in the list it deletes from.
IndexedIsLive ==
  \A n \in Nodes, id \in Ids : indexed[n][id] => live[n][id] # <<>>

\* A row is stored under its own id.
RowsKeyed == \A n \in Nodes, id \in Ids : store[n][id] # Nil => store[n][id].id = id

NodeInv == NodeTypeOK /\ FrameOK /\ IndexedIsLive /\ SameDimension /\ RowsKeyed

-----------------------------------------------------------------------------
\* Deleting the newest or the oldest entry of a list keeps the others.
LEMMA FrontKeeps ==
  ASSUME NEW S, NEW s \in Seq(S), s # <<>>
  PROVE  /\ Front(s) \in Seq(S) 
         /\ Len(Front(s)) = Len(s) - 1
         /\ \A i \in 1..Len(s) - 1 : Front(s)[i] = s[i]
<1>1. Len(s) \in Nat \ {0}
  OBVIOUS
<1>2. Front(s) = [i \in 1..Len(s) - 1 |-> s[i]]
  BY <1>1 DEF Front
<1>. QED
  BY <1>1, <1>2

LEMMA TailKeeps ==
  ASSUME NEW S, NEW s \in Seq(S), s # <<>>
  PROVE  /\ Tail(s) \in Seq(S) 
         /\ Len(Tail(s)) = Len(s) - 1
         /\ \A i \in 1..Len(s) - 1 : Tail(s)[i] = s[i + 1]
  OBVIOUS

LEMMA AppendKeeps ==
  ASSUME NEW S, NEW s \in Seq(S), NEW e \in S
  PROVE  /\ Append(s, e) \in Seq(S)
         /\ Len(Append(s, e)) = Len(s) + 1
         /\ Append(s, e) # <<>>
         /\ \A i \in 1..Len(s) : Append(s, e)[i] = s[i]
         /\ Append(s, e)[Len(s) + 1] = e
<1>1. Len(Append(s, e)) = Len(s) + 1 /\ Len(s) \in Nat
  OBVIOUS
<1>2. Append(s, e) # <<>>
  BY <1>1
<1>. QED
  BY <1>1, <1>2

\* Updating one entry of a table of tables.
LEMMA UpdateAt ==
  ASSUME NEW A, NEW B, NEW S, NEW f \in [A -> [B -> S]],
         NEW a \in A, NEW b \in B, NEW v \in S, NEW g, g = [f EXCEPT ![a][b] = v]
  PROVE  /\ g \in [A -> [B -> S]]
         /\ \A x \in A, y \in B : g[x][y] = IF x = a /\ y = b THEN v ELSE f[x][y]
  OBVIOUS

LEMMA NodeInvInit == NodeInit => NodeInv
  BY ArticleAssumption, BoundAssumption
  DEF NodeInit, NodeInv, NodeTypeOK, FrameOK, IndexedIsLive, SameDimension,
      RowsKeyed, IdleFrame, Frame, RunningPc, InsertPc, DeletePc, ResultPc

\* Moving a frame to another pc keeps the shape of the frames.
LEMMA GotoKeepsFrames ==
  ASSUME NEW n \in Nodes, NEW c \in Calls, NEW pc \in RunningPc \cup ResultPc,
         frame \in [Nodes -> [Calls -> Frame]], FrameOK,
         Running(n, c), Goto(n, c, pc),
         pc \in InsertPc => Pc(n, c) \in InsertPc,
         pc \in DeletePc => Pc(n, c) \in DeletePc
  PROVE  /\ frame' \in [Nodes -> [Calls -> Frame]]
         /\ FrameOK'
<1> DEFINE f == frame[n][c]
           g == [f EXCEPT !.pc = pc]
<1>1. f \in Frame /\ f.pc \in RunningPc
  BY DEF Running, Pc
<1>2. g \in Frame /\ g.pc = pc /\ g.id = f.id /\ g.art = f.art
  BY <1>1 DEF Frame
<1>3. g.id \in Ids
  BY <1>1, <1>2 DEF FrameOK, RunningPc, InsertPc, DeletePc
<1>4. /\ g.pc \in InsertPc => g.art \in Articles /\ g.id = g.art.id
      /\ g.pc \in DeletePc => g.art = Nil
  BY <1>1, <1>2 DEF FrameOK, Pc
<1>5. frame' = [frame EXCEPT ![n] = [frame[n] EXCEPT ![c] = g]]
  BY DEF Goto
<1>6. frame' \in [Nodes -> [Calls -> Frame]]
  BY <1>2, <1>5
<1>7. \A m \in Nodes, d \in Calls :
        frame'[m][d] = IF m = n /\ d = c THEN g ELSE frame[m][d]
  BY <1>5
<1> HIDE DEF g
<1>. QED
  BY <1>3, <1>4, <1>6, <1>7 DEF FrameOK

\* Entering a method starts a well-formed frame.
LEMMA EnterKeepsFrames ==
  ASSUME NEW n \in Nodes, NEW c \in Calls, NEW f,
         (\E a \in Articles : f = InsertFrame(a)) \/ (\E id \in Ids : f = DeleteFrame(id)),
         frame \in [Nodes -> [Calls -> Frame]], FrameOK, Enter(n, c, f)
  PROVE  /\ frame' \in [Nodes -> [Calls -> Frame]]
         /\ FrameOK'
<1>1. f \in Frame
  BY ArticleAssumption DEF InsertFrame, DeleteFrame, Frame, RunningPc, InsertPc, DeletePc
<1>2. f.id \in Ids /\ (f.pc = "store_insert" => f.art \in Articles /\ f.id = f.art.id)
  BY ArticleAssumption DEF InsertFrame, DeleteFrame
<1>3. /\ f.pc \in InsertPc => f.pc = "store_insert"
      /\ f.pc \in DeletePc => f.art = Nil
  BY DEF InsertFrame, DeleteFrame, InsertPc, DeletePc
<1>. QED
  BY <1>1, <1>2, <1>3 DEF Enter, FrameOK

LEMMA EnterInv ==
  ASSUME NodeInv, NEW n \in Nodes, NEW c \in Calls, NEW f,
         (\E a \in Articles : f = InsertFrame(a)) \/ (\E id \in Ids : f = DeleteFrame(id)),
         Enter(n, c, f), UNCHANGED <<up, store, indexVars, boundVars>>
  PROVE  NodeInv'
  BY EnterKeepsFrames
  DEF NodeInv, NodeTypeOK, IndexedIsLive, SameDimension, RowsKeyed, indexVars, boundVars

-----------------------------------------------------------------------------
(* One lemma per step. *)

\* Writing a row of a call that runs, and moving on, keeps the invariant.
LEMMA SetRowInv ==
  ASSUME NodeInv, NEW n \in Nodes, NEW c \in Calls,
         NEW row \in Articles \cup {Nil}, NEW pc \in RunningPc \cup ResultPc,
         Running(n, c), SetRow(n, c, row), Goto(n, c, pc),
         pc \in InsertPc => Pc(n, c) \in InsertPc,
         pc \in DeletePc => Pc(n, c) \in DeletePc,
         row # Nil => row.id = frame[n][c].id,
         UNCHANGED <<up, indexVars, boundVars>>
  PROVE  NodeInv'
<1>1. frame' \in [Nodes -> [Calls -> Frame]] /\ FrameOK'
  BY GotoKeepsFrames DEF NodeInv, NodeTypeOK
<1>2. store' \in [Nodes -> [Ids -> Articles \cup {Nil}]]
  BY DEF NodeInv, NodeTypeOK, SetRow
<1>3. RowsKeyed'
  BY DEF NodeInv, NodeTypeOK, RowsKeyed, SetRow
<1>. QED
  BY <1>1, <1>2, <1>3
  DEF NodeInv, NodeTypeOK, IndexedIsLive, SameDimension, RowsKeyed, indexVars, boundVars

\* A step that only moves a frame.
LEMMA GotoInv ==
  ASSUME NodeInv, NEW n \in Nodes, NEW c \in Calls,
         NEW pc \in RunningPc \cup ResultPc,
         Running(n, c), Goto(n, c, pc),
         pc \in InsertPc => Pc(n, c) \in InsertPc,
         pc \in DeletePc => Pc(n, c) \in DeletePc,
         storeErrors' \in 0..MaxStoreErrors,
         UNCHANGED <<up, store, indexVars, crashes>>
  PROVE  NodeInv'
<1>1. frame' \in [Nodes -> [Calls -> Frame]] /\ FrameOK'
  BY GotoKeepsFrames DEF NodeInv, NodeTypeOK
<1>. QED
  BY <1>1
  DEF NodeInv, NodeTypeOK, IndexedIsLive, SameDimension, RowsKeyed, indexVars

LEMMA IndexInsertInv ==
  ASSUME NodeInv, NEW n \in Nodes, NEW c \in Calls, IndexInsert(n, c)
  PROVE  NodeInv'
<1>1. Running(n, c) /\ Pc(n, c) = "index_insert"
  BY DEF IndexInsert, Running, RunningPc, InsertPc, DeletePc
<1>2. PICK a \in Articles : a = frame[n][c].art /\ a.id \in Ids /\ a.dim \in Nat
  BY <1>1, ArticleAssumption DEF NodeInv, FrameOK, Pc, InsertPc
<1>3. CASE ~Accepts(n, a)
  <2>1. Goto(n, c, "undo_insert") /\ UNCHANGED <<up, store, indexVars, boundVars>>
    BY <1>2, <1>3 DEF IndexInsert
  <2>. QED
    BY <1>1, <2>1, GotoInv
    DEF boundVars, RunningPc, InsertPc, DeletePc, ResultPc, NodeInv, NodeTypeOK
<1>4. CASE Accepts(n, a)
  <2>1. /\ dim' = [dim EXCEPT ![n] = a.dim]
        /\ live' = [live EXCEPT ![n][a.id] = Append(@, a)]
        /\ indexed' = [indexed EXCEPT ![n][a.id] = TRUE]
        /\ Goto(n, c, "ok")
        /\ UNCHANGED <<up, store, boundVars>>
    BY <1>2, <1>4 DEF IndexInsert
  <2>2. frame' \in [Nodes -> [Calls -> Frame]] /\ FrameOK'
    BY <1>1, <2>1, GotoKeepsFrames
    DEF NodeInv, NodeTypeOK, ResultPc, InsertPc, DeletePc
  <2>3. PICK s \in Seq(Articles) : s = live[n][a.id]
    BY <1>2 DEF NodeInv, NodeTypeOK
  <2>4. /\ live' \in [Nodes -> [Ids -> Seq(Articles)]]
        /\ \A m \in Nodes, id \in Ids :
             live'[m][id] = IF m = n /\ id = a.id THEN Append(s, a)
                                                 ELSE live[m][id]
    <3>1. Append(s, a) \in Seq(Articles)
      BY AppendKeeps
    <3>2. live' = [live EXCEPT ![n][a.id] = Append(s, a)]
      BY <2>1, <2>3
    <3>3. live \in [Nodes -> [Ids -> Seq(Articles)]]
      BY DEF NodeInv, NodeTypeOK
    <3>. QED
      BY ONLY <1>2, <3>1, <3>2, <3>3, n \in Nodes, UpdateAt
  <2>5. NodeTypeOK'
    BY <1>2, <2>1, <2>2, <2>4 DEF NodeInv, NodeTypeOK, boundVars
  <2>6. IndexedIsLive'
    <3>1. Append(s, a) # <<>>
      BY AppendKeeps
    <3>2. \A m \in Nodes, id \in Ids :
            indexed'[m][id] = IF m = n /\ id = a.id THEN TRUE ELSE indexed[m][id]
      BY <1>2, <2>1 DEF NodeInv, NodeTypeOK
    <3> SUFFICES ASSUME NEW m \in Nodes, NEW id \in Ids, indexed'[m][id]
                 PROVE  live'[m][id] # <<>>
      BY DEF IndexedIsLive
    <3>3. CASE m = n /\ id = a.id
      BY <2>4, <3>1, <3>3
    <3>4. CASE ~(m = n /\ id = a.id)
      <4>1. indexed[m][id]
        BY <3>2, <3>4
      <4>2. live[m][id] # <<>>
        BY <4>1 DEF NodeInv, IndexedIsLive
      <4>. QED
        BY <2>4, <3>4, <4>2
    <3>. QED
      BY <3>3, <3>4
  <2>7. ASSUME NEW id \in Ids, NEW i \in 1..Len(live[n][id]) 
        PROVE  live[n][id][i].dim = a.dim
    BY <1>4, <2>7 DEF NodeInv, SameDimension, Accepts
  <2>8. SameDimension'
    <3> SUFFICES ASSUME NEW m \in Nodes, NEW id \in Ids, NEW i \in 1..Len(live'[m][id])
                 PROVE  live'[m][id][i].dim = dim'[m] /\ dim'[m] # 0
      BY DEF SameDimension
    <3>1. CASE m # n
      BY <2>1, <2>4, <3>1 DEF NodeInv, NodeTypeOK, SameDimension
    <3>2. CASE m = n /\ id # a.id
      BY <1>4, <2>1, <2>4, <2>7, <3>2 DEF NodeInv, NodeTypeOK, Accepts
    <3>3. CASE m = n /\ id = a.id
      <4>1. live'[m][id] = Append(s, a)
        BY <2>4, <3>3
      <4>2. dim'[m] = a.dim /\ a.dim # 0
        BY <1>4, <2>1, <3>3 DEF NodeInv, NodeTypeOK, Accepts
      <4>3. i \in 1..Len(s) \/ i = Len(s) + 1
        <5>1. i \in 1..Len(s) + 1
          BY <4>1, AppendKeeps
        <5>. QED
          BY <5>1
      <4>4. live'[m][id][i].dim = a.dim
        <5>1. CASE i \in 1..Len(s)
          <6>1. live'[m][id][i] = s[i]
            BY <4>1, <5>1, AppendKeeps
          <6>2. s[i].dim = a.dim
            BY <1>2, <2>3, <2>7, <5>1
          <6>. QED
            BY <6>1, <6>2
        <5>2. CASE i = Len(s) + 1
          BY <4>1, <5>2, AppendKeeps
        <5>. QED
          BY <4>3, <5>1, <5>2
      <4>. QED
        BY <4>2, <4>4
    <3>. QED
      BY <3>1, <3>2, <3>3
  <2>. QED
    BY <2>1, <2>2, <2>5, <2>6, <2>8 DEF NodeInv, RowsKeyed
<1>. QED
  BY <1>3, <1>4

LEMMA IndexDeleteInv ==
  ASSUME NodeInv, NEW n \in Nodes, NEW c \in Calls, IndexDelete(n, c)
  PROVE  NodeInv'
<1>1. Running(n, c) /\ Pc(n, c) = "index_delete"
  BY DEF IndexDelete, Running, RunningPc, InsertPc, DeletePc
<1>2. PICK id \in Ids : id = frame[n][c].id
  BY <1>1 DEF NodeInv, FrameOK, Pc
<1>3. CASE ~indexed[n][id]
  <2>1. Goto(n, c, "notfound") /\ UNCHANGED <<up, store, indexVars, boundVars>>
    BY <1>2, <1>3 DEF IndexDelete, indexVars
  <2>. QED
    BY <1>1, <2>1, GotoInv
    DEF boundVars, RunningPc, InsertPc, DeletePc, ResultPc, NodeInv, NodeTypeOK
<1>4. CASE indexed[n][id]
  <2>1. PICK s \in Seq(Articles) : s = live[n][id]
    BY DEF NodeInv, NodeTypeOK
  <2>2. s # <<>>
    BY <1>4, <2>1 DEF NodeInv, IndexedIsLive
  <2>3. /\ live' = [live EXCEPT ![n][id] = AfterDelete(s)]
        /\ indexed' = [indexed EXCEPT ![n][id] = StillIndexed(s)]
        /\ Goto(n, c, "ok")
        /\ UNCHANGED <<up, store, dim, boundVars>>
    BY <1>2, <1>4, <2>1 DEF IndexDelete
  <2>4. PICK t \in Seq(Articles) :
          /\ t = AfterDelete(s)
          /\ \A i \in 1..Len(t) : \E j \in 1..Len(s) : t[i] = s[j]
    <3>1. Len(s) \in Nat
      OBVIOUS
    <3>2. CASE IndexKind = "hnsw"
      BY <2>2, <3>1, <3>2, FrontKeeps DEF AfterDelete
    <3>3. CASE IndexKind # "hnsw"
      <4>1. AfterDelete(s) = Tail(s)
        BY <3>3 DEF AfterDelete
      <4>2. \A i \in 1..Len(s) - 1 : i + 1 \in 1..Len(s)
        BY <3>1
      <4>. QED
        BY <2>2, <4>1, <4>2, TailKeeps
    <3>. QED
      BY <3>2, <3>3
  <2>5. StillIndexed(s) \in BOOLEAN /\ (StillIndexed(s) => t # <<>>)
    BY <2>4 DEF StillIndexed
  <2>6. /\ live' \in [Nodes -> [Ids -> Seq(Articles)]]
        /\ \A m \in Nodes, x \in Ids :
             live'[m][x] = IF m = n /\ x = id THEN t ELSE live[m][x]
    BY <2>3, <2>4, UpdateAt DEF NodeInv, NodeTypeOK
  <2>7. /\ indexed' \in [Nodes -> [Ids -> BOOLEAN]]
        /\ \A m \in Nodes, x \in Ids :
             indexed'[m][x] = IF m = n /\ x = id THEN StillIndexed(s) ELSE indexed[m][x]
    BY <2>3, <2>5, UpdateAt DEF NodeInv, NodeTypeOK
  <2>8. frame' \in [Nodes -> [Calls -> Frame]] /\ FrameOK'
    BY <1>1, <2>3, GotoKeepsFrames
    DEF NodeInv, NodeTypeOK, ResultPc, InsertPc, DeletePc
  <2>9. NodeTypeOK'
    BY <2>3, <2>6, <2>7, <2>8 DEF NodeInv, NodeTypeOK, boundVars
  <2>10. IndexedIsLive'
    <3> SUFFICES ASSUME NEW m \in Nodes, NEW x \in Ids, indexed'[m][x]
                 PROVE  live'[m][x] # <<>>
      BY DEF IndexedIsLive
    <3>1. CASE m = n /\ x = id
      BY <2>5, <2>6, <2>7, <3>1
    <3>2. CASE ~(m = n /\ x = id)
      <4>1. indexed[m][x]
        BY <2>7, <3>2
      <4>2. live[m][x] # <<>>
        BY <4>1 DEF NodeInv, IndexedIsLive
      <4>. QED
        BY <2>6, <3>2, <4>2
    <3>. QED
      BY <3>1, <3>2
  <2>11. SameDimension'
    <3> SUFFICES ASSUME NEW m \in Nodes, NEW x \in Ids, NEW i \in 1..Len(live'[m][x])
                 PROVE  live'[m][x][i].dim = dim'[m] /\ dim'[m] # 0
      BY DEF SameDimension
    <3>1. PICK j \in 1..Len(live[m][x]) : live'[m][x][i] = live[m][x][j]
      <4>1. CASE m = n /\ x = id
        BY <2>1, <2>4, <2>6, <4>1
      <4>2. CASE ~(m = n /\ x = id)
        BY <2>6, <4>2
      <4>. QED
        BY <4>1, <4>2
    <3>. QED
      BY <2>3, <3>1 DEF NodeInv, SameDimension
  <2>. QED
    BY <2>3, <2>8, <2>9, <2>10, <2>11 DEF NodeInv, RowsKeyed
<1>. QED
  BY <1>3, <1>4

LEMMA MethodStepInv ==
  ASSUME NodeInv, NEW n \in Nodes, NEW c \in Calls, MethodStep(n, c)
  PROVE  NodeInv'
<1>1. CASE StoreInsert(n, c)
  <2>1. Running(n, c) /\ Pc(n, c) = "store_insert"
    BY <1>1 DEF StoreInsert, Running, RunningPc, InsertPc, DeletePc
  <2>2. frame[n][c].art \in Articles /\ frame[n][c].art.id = frame[n][c].id
    BY <2>1 DEF NodeInv, FrameOK, Pc, InsertPc
  <2>3. CASE Row(n, c) = Nil
    BY <1>1, <2>1, <2>2, <2>3, SetRowInv DEF StoreInsert, RunningPc, InsertPc, DeletePc, ResultPc
  <2>4. CASE Row(n, c) # Nil
    BY <1>1, <2>1, <2>4, GotoInv
    DEF StoreInsert, RunningPc, InsertPc, DeletePc, ResultPc, boundVars, NodeInv, NodeTypeOK
  <2>. QED
    BY <2>3, <2>4
<1>2. CASE IndexInsert(n, c)
  BY <1>2, IndexInsertInv
<1>3. CASE UndoInsert(n, c)
  BY <1>3, SetRowInv DEF UndoInsert, Running, RunningPc, InsertPc, DeletePc, ResultPc
<1>4. CASE StoreGet(n, c)
  <2>1. PICK pc \in {"notfound", "store_delete"} : Goto(n, c, pc)
    BY <1>4 DEF StoreGet
  <2>. QED
    BY <1>4, <2>1, GotoInv
    DEF StoreGet, Running, RunningPc, InsertPc, DeletePc, ResultPc, boundVars, NodeInv, NodeTypeOK
<1>5. CASE StoreDelete(n, c)
  BY <1>5, SetRowInv DEF StoreDelete, Running, RunningPc, InsertPc, DeletePc, ResultPc
<1>6. CASE IndexDelete(n, c)
  BY <1>6, IndexDeleteInv
<1>7. CASE StoreError(n, c)
  <2>1. storeErrors' \in 0..MaxStoreErrors
    BY <1>7, BoundAssumption DEF StoreError, NodeInv, NodeTypeOK
  <2>. QED
    BY <1>7, <2>1, GotoInv DEF StoreError, Running, RunningPc, InsertPc, DeletePc, ResultPc
<1>. QED
  BY <1>1, <1>2, <1>3, <1>4, <1>5, <1>6, <1>7 DEF MethodStep

\* A process that goes down forgets its index, and its frames fail.
LEMMA GoDownInv ==
  ASSUME NodeInv, NEW n \in Nodes, GoDown(n),
         crashes' \in 0..MaxCrashes, storeErrors' = storeErrors
  PROVE  NodeInv'
<1>1. /\ frame' \in [Nodes -> [Calls -> Frame]]
      /\ \A m \in Nodes, c \in Calls :
           /\ frame'[m][c].id = frame[m][c].id /\ frame'[m][c].art = frame[m][c].art
           /\ frame'[m][c].pc = frame[m][c].pc \/
                (frame'[m][c].pc = "failed" /\ frame[m][c].pc # "idle")
  <2> DEFINE down(c) == IF Running(n, c) THEN [frame[n][c] EXCEPT !.pc = "failed"]
                                         ELSE frame[n][c]
  <2>1. ASSUME NEW c \in Calls
        PROVE  /\ down(c) \in Frame
               /\ down(c).id = frame[n][c].id /\ down(c).art = frame[n][c].art
               /\ down(c).pc = frame[n][c].pc \/
                    (down(c).pc = "failed" /\ frame[n][c].pc # "idle")
    <3>1. frame[n][c] \in Frame
      BY DEF NodeInv, NodeTypeOK
    <3>2. CASE Running(n, c)
      BY <3>1, <3>2 DEF Frame, ResultPc, Running, Pc, RunningPc, InsertPc, DeletePc
    <3>3. CASE ~Running(n, c)
      BY <3>1, <3>3
    <3>. QED
      BY <3>2, <3>3
  <2>2. frame' = [frame EXCEPT ![n] = [c \in Calls |-> down(c)]]
    BY DEF GoDown
  <2>3. frame \in [Nodes -> [Calls -> Frame]]
    BY DEF NodeInv, NodeTypeOK
  <2> HIDE DEF down
  <2>4. [c \in Calls |-> down(c)] \in [Calls -> Frame]
    BY <2>1
  <2>5. frame' \in [Nodes -> [Calls -> Frame]]
    BY <2>2, <2>3, <2>4
  <2>6. \A m \in Nodes, c \in Calls :
          frame'[m][c] = IF m = n THEN down(c) ELSE frame[m][c]
    BY <2>2, <2>3
  <2>. QED
    BY <2>1, <2>5, <2>6
<1>2. FrameOK'
  BY <1>1 DEF NodeInv, FrameOK, InsertPc, DeletePc
<1>3. /\ live' \in [Nodes -> [Ids -> Seq(Articles)]]
      /\ \A m \in Nodes, id \in Ids :
           live'[m][id] = IF m = n THEN <<>> ELSE live[m][id]
  BY DEF GoDown, NodeInv, NodeTypeOK
<1>4. /\ indexed' \in [Nodes -> [Ids -> BOOLEAN]]
      /\ \A m \in Nodes, id \in Ids :
           indexed'[m][id] = IF m = n THEN FALSE ELSE indexed[m][id]
  BY DEF GoDown, NodeInv, NodeTypeOK
<1>5. NodeTypeOK'
  BY <1>1, <1>3, <1>4 DEF GoDown, NodeInv, NodeTypeOK
<1>6. IndexedIsLive'
  <2> SUFFICES ASSUME NEW m \in Nodes, NEW id \in Ids, indexed'[m][id]
               PROVE  live'[m][id] # <<>>
    BY DEF IndexedIsLive
  <2>1. m # n /\ indexed[m][id]
    BY <1>4
  <2>2. live[m][id] # <<>>
    BY <2>1 DEF NodeInv, IndexedIsLive
  <2>. QED
    BY <1>3, <2>1, <2>2
<1>7. SameDimension'
  BY <1>3 DEF GoDown, NodeInv, NodeTypeOK, SameDimension
<1>. QED
  BY <1>2, <1>5, <1>6, <1>7 DEF GoDown, NodeInv, RowsKeyed

\* Hydration indexes rows that all have the dimension of the first.
LEMMA RestartInv ==
  ASSUME NodeInv, NEW n \in Nodes, Restart(n)
  PROVE  NodeInv'
<1> DEFINE loaded(id) == IF store[n][id] = Nil THEN <<>> ELSE <<store[n][id]>>
<1>1. \A id \in Ids : store[n][id] # Nil => store[n][id] \in Articles
  BY DEF NodeInv, NodeTypeOK
<1>2. RowDim(n) \in Nat
  BY <1>1, ArticleAssumption DEF RowDim, Rows
<1>3. \A id \in Ids : store[n][id] # Nil =>
        store[n][id].dim = RowDim(n) /\ RowDim(n) # 0
  BY DEF Restart, Hydratable, RowDim, Rows
<1>4. \A id \in Ids : loaded(id) \in Seq(Articles)
  BY <1>1
<1>5. live' = [live EXCEPT ![n] = [id \in Ids |-> loaded(id)]]
  BY DEF Restart
<1>6. /\ live' \in [Nodes -> [Ids -> Seq(Articles)]]
      /\ \A m \in Nodes, id \in Ids :
           live'[m][id] = IF m = n THEN loaded(id) ELSE live[m][id]
  <2> HIDE DEF loaded
  <2>. QED
    BY <1>4, <1>5 DEF NodeInv, NodeTypeOK
<1>7. /\ indexed' \in [Nodes -> [Ids -> BOOLEAN]]
      /\ \A m \in Nodes, id \in Ids :
           indexed'[m][id] = IF m = n THEN store[n][id] # Nil ELSE indexed[m][id]
  BY DEF Restart, NodeInv, NodeTypeOK
<1>8. NodeTypeOK'
  BY <1>2, <1>6, <1>7 DEF Restart, boundVars, NodeInv, NodeTypeOK
<1>9. IndexedIsLive'
  <2> SUFFICES ASSUME NEW m \in Nodes, NEW id \in Ids, indexed'[m][id]
               PROVE  live'[m][id] # <<>>
    BY DEF IndexedIsLive
  <2>1. CASE m = n
    <3>1. store[n][id] # Nil
      BY <1>7, <2>1
    <3>2. <<store[n][id]>> # <<>>
      OBVIOUS
    <3>. QED
      BY <1>6, <2>1, <3>1, <3>2
  <2>2. CASE m # n
    <3>1. indexed[m][id]
      BY <1>7, <2>2
    <3>2. live[m][id] # <<>>
      BY <3>1 DEF NodeInv, IndexedIsLive
    <3>. QED
      BY <1>6, <2>2, <3>2
  <2>. QED
    BY <2>1, <2>2
<1>10. SameDimension'
  <2> SUFFICES ASSUME NEW m \in Nodes, NEW id \in Ids, NEW i \in 1..Len(live'[m][id])
               PROVE  live'[m][id][i].dim = dim'[m] /\ dim'[m] # 0
    BY DEF SameDimension
  <2>1. CASE m = n
    <3>1. store[n][id] # Nil /\ live'[m][id] = <<store[n][id]>>
      <4>1. live'[m][id] = loaded(id)
        BY <1>6, <2>1
      <4>2. live'[m][id] # <<>>
        OBVIOUS
      <4>. QED
        BY <4>1, <4>2
    <3>2. i = 1
      BY <3>1
    <3>3. live'[m][id][i] = store[n][id]
      BY <3>1, <3>2
    <3>. QED
      BY <1>3, <2>1, <3>1, <3>3 DEF Restart, NodeInv, NodeTypeOK
  <2>2. CASE m # n
    BY <1>6, <2>2 DEF Restart, NodeInv, NodeTypeOK, SameDimension
  <2>. QED
    BY <2>1, <2>2
<1>11. FrameOK'
  BY DEF Restart, NodeInv, FrameOK
<1>. QED
  BY <1>8, <1>9, <1>10, <1>11 DEF Restart, NodeInv, RowsKeyed

-----------------------------------------------------------------------------
(* What a step of a method does to the frames and to the table, for the    *)
(* modules that compose nodes.                                             *)

LEMMA GotoFrames ==
  ASSUME NEW n \in Nodes, NEW c \in Calls, NEW pc,
         frame \in [Nodes -> [Calls -> Frame]], Goto(n, c, pc)
  PROVE  /\ frame'[n][c].pc = pc
         /\ \A m \in Nodes, d \in Calls :
              /\ frame'[m][d].id = frame[m][d].id
              /\ frame'[m][d].art = frame[m][d].art
              /\ ~(m = n /\ d = c) => frame'[m][d] = frame[m][d]
<1> DEFINE g == [frame[n][c] EXCEPT !.pc = pc]
<1>1. frame[n][c] \in Frame
  OBVIOUS
<1>2. g.pc = pc /\ g.id = frame[n][c].id /\ g.art = frame[n][c].art
  BY <1>1 DEF Frame
<1>3. frame' = [frame EXCEPT ![n] = [frame[n] EXCEPT ![c] = g]]
  BY DEF Goto
<1> HIDE DEF g
<1>4. \A m \in Nodes, d \in Calls :
        frame'[m][d] = IF m = n /\ d = c THEN g ELSE frame[m][d]
  BY <1>3
<1>. QED
  BY <1>2, <1>4

\* A step leaves the table alone, or fills an empty row, or empties the row of
\* an insert being undone or of a delete.
LEMMA MethodStepEffect ==
  ASSUME NodeInv, NEW n \in Nodes, NEW c \in Calls, MethodStep(n, c)
  PROVE  /\ Running(n, c)
         /\ Pc(n, c)' \in RunningPc \cup ResultPc
         /\ \A m \in Nodes, d \in Calls :
              /\ frame'[m][d].id = frame[m][d].id
              /\ frame'[m][d].art = frame[m][d].art
              /\ ~(m = n /\ d = c) => frame'[m][d] = frame[m][d]
         /\ \/ /\ store' = store
               /\ Pc(n, c)' \in {"index_insert", "undo_insert"} => Pc(n, c) = "index_insert"
               /\ Pc(n, c)' = "ok" => Pc(n, c) \in {"index_insert", "index_delete"}
               /\ Pc(n, c)' \in {"store_get", "store_delete"} => Pc(n, c) = "store_get"
               /\ Pc(n, c)' = "notfound" =>
                    Pc(n, c) = "index_delete" \/ (Pc(n, c) = "store_get" /\ Row(n, c) = Nil)
               /\ Pc(n, c)' \notin {"store_insert", "index_delete"}
            \/ /\ Pc(n, c) = "store_insert"
               /\ Pc(n, c)' = "index_insert"
               /\ Row(n, c) = Nil
               /\ SetRow(n, c, frame[n][c].art)
            \/ /\ Pc(n, c) = "undo_insert" \/ Pc(n, c) = "store_delete"
               /\ Pc(n, c)' \in {"failed", "index_delete"}
               /\ Pc(n, c)' = "index_delete" => Pc(n, c) = "store_delete"
               /\ SetRow(n, c, Nil)
<1> USE DEF Pc
<1>0. frame \in [Nodes -> [Calls -> Frame]]
  BY DEF NodeInv, NodeTypeOK
<1>8. ASSUME NEW pc, Goto(n, c, pc)
       PROVE  /\ Pc(n, c)' = pc
              /\ \A m \in Nodes, d \in Calls :
                   /\ frame'[m][d].id = frame[m][d].id
                   /\ frame'[m][d].art = frame[m][d].art
                   /\ ~(m = n /\ d = c) => frame'[m][d] = frame[m][d]
  BY <1>0, <1>8, GotoFrames
<1> USE DEF Running, RunningPc, InsertPc, DeletePc, ResultPc
<1>1. CASE StoreInsert(n, c)
  <2>1. PICK pc \in {"index_insert", "failed"} :
          /\ Goto(n, c, pc) /\ Pc(n, c) = "store_insert"
          /\ pc = "index_insert" => Row(n, c) = Nil /\ SetRow(n, c, frame[n][c].art)
          /\ pc = "failed" => store' = store
    BY <1>1 DEF StoreInsert
  <2>. QED
    BY <1>8, <2>1
<1>2. CASE IndexInsert(n, c)
  <2>1. PICK pc \in {"ok", "undo_insert"} :
          Goto(n, c, pc) /\ Pc(n, c) = "index_insert" /\ store' = store
    BY <1>2 DEF IndexInsert
  <2>. QED
    BY <1>8, <2>1
<1>3. CASE UndoInsert(n, c)
  <2>1. Goto(n, c, "failed") /\ Pc(n, c) = "undo_insert" /\ SetRow(n, c, Nil)
    BY <1>3 DEF UndoInsert
  <2>. QED
    BY <1>8, <2>1
<1>4. CASE StoreGet(n, c)
  <2>1. PICK pc \in {"notfound", "store_delete"} :
          /\ Goto(n, c, pc) /\ (pc = "notfound" => Row(n, c) = Nil)
          /\ Pc(n, c) = "store_get" /\ store' = store
    BY <1>4 DEF StoreGet
  <2>. QED
    BY <1>8, <2>1
<1>5. CASE StoreDelete(n, c)
  <2>1. Goto(n, c, "index_delete") /\ Pc(n, c) = "store_delete" /\ SetRow(n, c, Nil)
    BY <1>5 DEF StoreDelete
  <2>. QED
    BY <1>8, <2>1
<1>6. CASE IndexDelete(n, c)
  <2>1. PICK pc \in {"ok", "notfound"} :
          Goto(n, c, pc) /\ Pc(n, c) = "index_delete" /\ store' = store
    BY <1>6 DEF IndexDelete
  <2>. QED
    BY <1>8, <2>1
<1>7. CASE StoreError(n, c)
  BY <1>8, <1>7 DEF StoreError
<1>. QED
  BY <1>1, <1>2, <1>3, <1>4, <1>5, <1>6, <1>7 DEF MethodStep

\* When a process goes down its running frames fail and the others stay.
LEMMA GoDownEffect ==
  ASSUME NodeInv, NEW n \in Nodes, GoDown(n)
  PROVE  /\ store' = store
         /\ \A m \in Nodes, c \in Calls :
              /\ frame'[m][c].id = frame[m][c].id
              /\ frame'[m][c].art = frame[m][c].art
              /\ m # n \/ ~Running(n, c) => frame'[m][c] = frame[m][c]
              /\ m = n /\ Running(n, c) => frame'[m][c].pc = "failed"
<1> DEFINE g(c) == [frame[n][c] EXCEPT !.pc = "failed"]
<1>1. ASSUME NEW c \in Calls
      PROVE  g(c).pc = "failed" /\ g(c).id = frame[n][c].id /\ g(c).art = frame[n][c].art
  <2>1. frame[n][c] \in Frame
    BY DEF NodeInv, NodeTypeOK
  <2>. QED
    BY <2>1 DEF Frame
<1>2. \A m \in Nodes, c \in Calls : frame'[m][c] =
        IF m = n /\ Running(n, c) THEN g(c) ELSE frame[m][c]
  BY DEF GoDown, NodeInv, NodeTypeOK
<1> HIDE DEF g
<1>3. store' = store
  BY DEF GoDown
<1>. QED
  BY <1>1, <1>2, <1>3

-----------------------------------------------------------------------------
(* The theorems. *)

LEMMA NodeNextInv == NodeInv /\ [NodeNext]_nodeVars => NodeInv'
<1> SUFFICES ASSUME NodeInv, [NodeNext]_nodeVars PROVE NodeInv'
  OBVIOUS
<1>1. ASSUME NEW n \in Nodes, NEW c \in Calls, NEW a \in Articles, InsertArticle(n, c, a)
      PROVE  NodeInv'
  BY <1>1, EnterInv DEF InsertArticle
<1>2. ASSUME NEW n \in Nodes, NEW c \in Calls, NEW id \in Ids, DeleteArticle(n, c, id)
      PROVE  NodeInv'
  BY <1>2, EnterInv DEF DeleteArticle
<1>3. ASSUME NEW n \in Nodes, NEW c \in Calls, MethodStep(n, c)
      PROVE  NodeInv'
  BY <1>3, MethodStepInv
<1>4. ASSUME NEW n \in Nodes, Crash(n)
      PROVE  NodeInv'
  <2>1. crashes' \in 0..MaxCrashes
    BY <1>4, BoundAssumption DEF Crash, NodeInv, NodeTypeOK
  <2>. QED
    BY <1>4, <2>1, GoDownInv DEF Crash
<1>5. ASSUME NEW n \in Nodes, Stop(n)
      PROVE  NodeInv'
  BY <1>5, GoDownInv DEF Stop, boundVars, NodeInv, NodeTypeOK
<1>6. ASSUME NEW n \in Nodes, Restart(n)
      PROVE  NodeInv'
  BY <1>6, RestartInv
<1>7. CASE UNCHANGED nodeVars
  BY <1>7 DEF nodeVars, NodeInv, NodeTypeOK, FrameOK, IndexedIsLive, SameDimension, RowsKeyed
<1>. QED
  BY <1>1, <1>2, <1>3, <1>4, <1>5, <1>6, <1>7 DEF NodeNext

LEMMA NodeInvAlways == NodeSpec => []NodeInv
  BY NodeInvInit, NodeNextInv, PTL DEF NodeSpec

\* Every variable of a node keeps its type: no step of the interleaved
\* methods deletes from an empty list or runs without its article.
THEOREM NodeTypeCorrect == NodeSpec => []NodeTypeOK
<1>1. NodeInv => NodeTypeOK
  BY DEF NodeInv
<1>. QED
  BY <1>1, NodeInvAlways, PTL

\* Whatever calls run concurrently and whatever fails, every live index entry
\* has the dimension Search checks the query against: the unchecked subscript
\* of cosineSimilarity stays in range.
THEOREM SearchStaysInRange == NodeSpec => []SameDimension
<1>1. NodeInv => SameDimension
  BY DEF NodeInv
<1>. QED
  BY <1>1, NodeInvAlways, PTL

-----------------------------------------------------------------------------
(* The strengthening.  An insert owns the row of its id from the moment it *)
(* wrote it until it has undone it; as long as nobody asks to delete the   *)
(* id, no other call takes the row or an index entry of the id away.  A    *)
(* row may also stay without an owner, left by an undo that failed or by a *)
(* crash between the table and the index: it keeps later inserts of the id *)
(* out, and a restart indexes it.                                          *)

\* Call c wrote the row of its id on n, and has not taken it out again.
Owner(n, c) == frame[n][c].art # Nil /\ Pc(n, c) \in {"index_insert", "undo_insert", "ok"}

\* A call that was not made asks for nothing, and a process that is down runs none.
IdleOK == \A n \in Nodes, c \in Calls : Pc(n, c) = "idle" => frame[n][c] = IdleFrame
RunningIsUp == \A n \in Nodes, c \in Calls : Running(n, c) => up[n]

\* What is not in the table is not in the index.
AbsentIsUnlisted ==
  \A n \in Nodes, id \in Ids :
    store[n][id] = Nil /\ ~DeleteAsked(n, id) => live[n][id] = <<>>

\* The owner's article is the row, and the only entry once it was accepted.
OwnerIsFound ==
  \A n \in Nodes, c \in Calls : LET f == frame[n][c] IN
    Owner(n, c) /\ ~DeleteAsked(n, f.id) =>
      /\ store[n][f.id] = f.art
      /\ f.pc # "ok" => live[n][f.id] = <<>>
      /\ f.pc = "ok" /\ up[n] => live[n][f.id] = <<f.art>> /\ indexed[n][f.id]

\* A row has one owner.
OneOwner ==
  \A n \in Nodes, c, d \in Calls :
    Owner(n, c) /\ Owner(n, d) /\ frame[n][c].id = frame[n][d].id
      /\ ~DeleteAsked(n, frame[n][c].id) => c = d

SearchInv ==
  IdleOK /\ RunningIsUp /\ AbsentIsUnlisted /\ OwnerIsFound /\ OneOwner
-----------------------------------------------------------------------------
LEMMA SearchUnchanged ==
  ASSUME SearchInv, UNCHANGED <<up, store, live, indexed, frame>>
  PROVE  SearchInv'
<1>1. \A n \in Nodes, id \in Ids : DeleteAsked(n, id)' <=> DeleteAsked(n, id)
  BY DEF DeleteAsked
<1>2. \A n \in Nodes, c \in Calls : /\ Owner(n, c)' <=> Owner(n, c)
                                    /\ Running(n, c)' <=> Running(n, c)
  BY DEF Owner, Running, Pc
<1>3. \A n \in Nodes, c \in Calls :
        DeleteAsked(n, frame[n][c].id)' <=> DeleteAsked(n, frame[n][c].id)
  BY DEF DeleteAsked
<1>4. IdleOK' /\ RunningIsUp' /\ AbsentIsUnlisted'
  BY <1>1, <1>2 DEF SearchInv, IdleOK, RunningIsUp, AbsentIsUnlisted, Pc
<1>5. OwnerIsFound'
  BY <1>2, <1>3 DEF SearchInv, OwnerIsFound
<1>6. OneOwner'
  BY <1>2, <1>3 DEF SearchInv, OneOwner
<1>. QED
  BY <1>4, <1>5, <1>6 DEF SearchInv

\* The row and the entries of an owner, without the abbreviation.
LEMMA FoundOf ==
  ASSUME OwnerIsFound, NEW n \in Nodes, NEW c \in Calls,
         Owner(n, c), ~DeleteAsked(n, frame[n][c].id)
  PROVE  /\ store[n][frame[n][c].id] = frame[n][c].art
         /\ frame[n][c].pc # "ok" => live[n][frame[n][c].id] = <<>>
         /\ frame[n][c].pc = "ok" /\ up[n] =>
              /\ live[n][frame[n][c].id] = <<frame[n][c].art>>
              /\ indexed[n][frame[n][c].id]
  BY DEF OwnerIsFound

\* What a step of a method does to the index: nothing, or it appends the
\* article of its insert, or it changes the entries of an id to be deleted.
LEMMA MethodStepIndexEffect ==
  ASSUME NodeInv, NEW n \in Nodes, NEW c \in Calls, MethodStep(n, c)
  PROVE  /\ up' = up
         /\ \/ UNCHANGED <<live, indexed>> /\ Pc(n, c)' # "ok"
            \/ /\ Pc(n, c) = "index_insert" /\ Pc(n, c)' = "ok" /\ store' = store
               /\ \A m \in Nodes, id \in Ids :
                    IF m = n /\ id = frame[n][c].id
                    THEN /\ live'[m][id] = Append(live[m][id], frame[n][c].art)
                         /\ indexed'[m][id]
                    ELSE live'[m][id] = live[m][id] /\ indexed'[m][id] = indexed[m][id]
            \/ /\ Pc(n, c) = "index_delete" /\ Pc(n, c)' = "ok" /\ store' = store
               /\ \A m \in Nodes, id \in Ids : ~(m = n /\ id = frame[n][c].id) =>
                    live'[m][id] = live[m][id] /\ indexed'[m][id] = indexed[m][id]
<1>0. frame \in [Nodes -> [Calls -> Frame]] /\ \A pc : Goto(n, c, pc) => Pc(n, c)' = pc
  BY GotoFrames DEF NodeInv, NodeTypeOK, Pc
<1>1. CASE IndexInsert(n, c)
  <2>1. Pc(n, c) = "index_insert" /\ UNCHANGED <<up, store>>
    BY <1>1 DEF IndexInsert
  <2>2. PICK a \in Articles : a = frame[n][c].art /\ a.id = frame[n][c].id /\ a.id \in Ids
    BY <2>1, ArticleAssumption DEF NodeInv, FrameOK, Pc, InsertPc
  <2>3. CASE Accepts(n, a)
    <3>1. /\ live' = [live EXCEPT ![n][a.id] = Append(@, a)]
          /\ indexed' = [indexed EXCEPT ![n][a.id] = TRUE]
          /\ Goto(n, c, "ok")
      BY <1>1, <2>2, <2>3 DEF IndexInsert
    <3>2. \A m \in Nodes, id \in Ids :
            IF m = n /\ id = a.id
            THEN live'[m][id] = Append(live[m][id], a) /\ indexed'[m][id] = TRUE
            ELSE live'[m][id] = live[m][id] /\ indexed'[m][id] = indexed[m][id]
      BY <2>2, <3>1 DEF NodeInv, NodeTypeOK
    <3>3. \A m \in Nodes, id \in Ids :
            IF m = n /\ id = frame[n][c].id
            THEN live'[m][id] = Append(live[m][id], frame[n][c].art) /\ indexed'[m][id]
            ELSE live'[m][id] = live[m][id] /\ indexed'[m][id] = indexed[m][id]
      BY <2>2, <3>2
    <3>4. Pc(n, c)' = "ok"
      BY <1>0, <3>1
    <3>. QED
      BY <2>1, <3>3, <3>4
  <2>4. CASE ~Accepts(n, a)
    BY <1>0, <1>1, <2>2, <2>4 DEF IndexInsert, indexVars
  <2>. QED
    BY <2>3, <2>4
<1>2. CASE IndexDelete(n, c)
  <2>1. PICK id \in Ids : id = frame[n][c].id
    BY <1>2 DEF IndexDelete, NodeInv, FrameOK, Pc
  <2>2. CASE indexed[n][id]
    <3>1. /\ live' = [live EXCEPT ![n][id] = AfterDelete(live[n][id])]
          /\ indexed' = [indexed EXCEPT ![n][id] = StillIndexed(live[n][id])]
          /\ Goto(n, c, "ok") /\ UNCHANGED <<up, store>>
          /\ Pc(n, c) = "index_delete"
      BY <1>2, <2>1, <2>2 DEF IndexDelete
    <3>2. \A m \in Nodes, x \in Ids : ~(m = n /\ x = id) =>
            live'[m][x] = live[m][x] /\ indexed'[m][x] = indexed[m][x]
      BY <3>1 DEF NodeInv, NodeTypeOK
    <3>. QED
      BY <1>0, <2>1, <3>1, <3>2
  <2>3. CASE ~indexed[n][id]
    BY <1>0, <1>2, <2>1, <2>3 DEF IndexDelete
  <2>. QED
    BY <2>2, <2>3
<1>3. CASE StoreInsert(n, c)
  BY <1>0, <1>3 DEF StoreInsert, indexVars
<1>4. CASE UndoInsert(n, c) \/ StoreDelete(n, c) \/ StoreError(n, c)
  BY <1>0, <1>4 DEF UndoInsert, StoreDelete, StoreError, indexVars
<1>5. CASE StoreGet(n, c)
  <2>1. PICK pc \in {"notfound", "store_delete"} : Goto(n, c, pc)
    BY <1>5 DEF StoreGet
  <2>. QED
    BY <1>0, <1>5, <2>1 DEF StoreGet, indexVars
<1>. QED
  BY <1>1, <1>2, <1>3, <1>4, <1>5 DEF MethodStep

-----------------------------------------------------------------------------
(* One lemma per kind of step. *)

\* A step of a method keeps every owner's article where it can be found.
LEMMA MethodStepSearchInv ==
  ASSUME NodeInv, SearchInv, NEW n \in Nodes, NEW c \in Calls, MethodStep(n, c)
  PROVE  SearchInv'
<1> DEFINE x == frame[n][c].id
           a == frame[n][c].art
<1>1. /\ Running(n, c) /\ Pc(n, c)' \in RunningPc \cup ResultPc
      /\ \A m \in Nodes, d \in Calls :
           /\ frame'[m][d].id = frame[m][d].id
           /\ frame'[m][d].art = frame[m][d].art
           /\ ~(m = n /\ d = c) => frame'[m][d] = frame[m][d]
  BY MethodStepEffect
<1>2. \A m \in Nodes, id \in Ids : DeleteAsked(m, id)' <=> DeleteAsked(m, id)
  BY <1>1 DEF DeleteAsked
<1>3. up' = up /\ up[n]
  BY <1>1, MethodStepIndexEffect DEF SearchInv, RunningIsUp
<1>4. x \in Ids /\ (a # Nil => a \in Articles /\ a.id \in Ids)
  BY <1>1, ArticleAssumption
  DEF NodeInv, NodeTypeOK, FrameOK, Frame, Running, Pc, RunningPc, InsertPc, DeletePc
<1>5. /\ Pc(n, c) \in {"store_insert", "index_insert", "undo_insert"} => a # Nil /\ a.id = x
      /\ Pc(n, c) \in {"store_get", "store_delete", "index_delete"} => a = Nil
  BY ArticleAssumption DEF NodeInv, FrameOK, Pc, InsertPc, DeletePc
<1>6. \A m \in Nodes, d \in Calls : ~(m = n /\ d = c) =>
        Pc(m, d)' = Pc(m, d) /\ (Owner(m, d)' <=> Owner(m, d))
  BY <1>1 DEF Pc, Owner
<1>7. IdleOK' /\ RunningIsUp'
  <2>1. Pc(n, c)' # "idle"
    BY <1>1 DEF RunningPc, InsertPc, DeletePc, ResultPc
  <2>2. IdleOK'
    BY <1>1, <1>6, <2>1 DEF SearchInv, IdleOK
  <2>3. RunningIsUp'
    BY <1>3, <1>6 DEF SearchInv, RunningIsUp, Running
  <2>. QED
    BY <2>2, <2>3
<1>8. \A m \in Nodes, d \in Calls : Owner(m, d) => frame[m][d].id \in Ids
  BY DEF Owner, NodeInv, FrameOK, Pc
\* The only new owner is an insert that found no row.
<1>9. \/ /\ Pc(n, c) = "store_insert" /\ Pc(n, c)' = "index_insert"
         /\ store[n][x] = Nil /\ store' = [store EXCEPT ![n][x] = a]
         /\ UNCHANGED <<live, indexed>>
      \/ /\ Pc(n, c) \in {"undo_insert", "store_delete"}
         /\ Pc(n, c)' \in {"failed", "index_delete"}
         /\ store' = [store EXCEPT ![n][x] = Nil] /\ UNCHANGED <<live, indexed>>
      \/ /\ store' = store /\ UNCHANGED <<live, indexed>> /\ Pc(n, c)' # "ok"
         /\ Pc(n, c)' \in {"index_insert", "undo_insert"} => Pc(n, c) = "index_insert"
      \/ /\ Pc(n, c) = "index_insert" /\ Pc(n, c)' = "ok" /\ store' = store
         /\ \A m \in Nodes, id \in Ids :
              IF m = n /\ id = x
              THEN live'[m][id] = Append(live[m][id], a) /\ indexed'[m][id]
              ELSE live'[m][id] = live[m][id] /\ indexed'[m][id] = indexed[m][id]
      \/ /\ Pc(n, c) = "index_delete" /\ Pc(n, c)' = "ok" /\ store' = store
         /\ \A m \in Nodes, id \in Ids : ~(m = n /\ id = x) =>
              live'[m][id] = live[m][id] /\ indexed'[m][id] = indexed[m][id]
  BY MethodStepEffect, MethodStepIndexEffect DEF SetRow, Row
<1> HIDE DEF x, a
<1>10. ASSUME \A m \in Nodes, d \in Calls : Owner(m, d)' => Owner(m, d),
              \/ store' = store
              \/ a # Nil /\ Owner(n, c) /\ ~Owner(n, c)' /\ store' = [store EXCEPT ![n][x] = Nil]
              \/ a = Nil /\ store' = [store EXCEPT ![n][x] = Nil],
              UNCHANGED <<live, indexed>>, Pc(n, c)' # "ok"
       PROVE  AbsentIsUnlisted' /\ OwnerIsFound' /\ OneOwner'
  <2>1. a = Nil => DeleteAsked(n, x)
    BY DEF DeleteAsked, a, x
  <2>2. \A m \in Nodes, id \in Ids :
          store'[m][id] = IF m = n /\ id = x /\ store' # store THEN Nil ELSE store[m][id]
    BY <1>4, <1>10 DEF NodeInv, NodeTypeOK
  <2>3. AbsentIsUnlisted'
    <3> SUFFICES ASSUME NEW m \in Nodes, NEW id \in Ids, store'[m][id] = Nil,
                        ~DeleteAsked(m, id)'
                 PROVE  live'[m][id] = <<>>
      BY DEF AbsentIsUnlisted
    <3>1. CASE store[m][id] = Nil
      BY <1>2, <1>10, <3>1 DEF SearchInv, AbsentIsUnlisted
    <3>2. CASE store[m][id] # Nil
      <4>1. m = n /\ id = x /\ Owner(n, c) /\ ~Owner(n, c)'
        BY <1>2, <1>10, <2>1, <2>2, <3>2
      <4>2. Pc(n, c) # "ok"
        BY <1>1 DEF Running, RunningPc, InsertPc, DeletePc
      <4>. QED
        BY <1>2, <1>10, <4>1, <4>2 DEF SearchInv, OwnerIsFound, Pc, x
    <3>. QED
      BY <3>1, <3>2
  <2>4. OwnerIsFound'
    <3> SUFFICES ASSUME NEW m \in Nodes, NEW d \in Calls, Owner(m, d)',
                        ~DeleteAsked(m, frame[m][d].id)'
                 PROVE  LET f == frame'[m][d] IN
                          /\ store'[m][f.id] = f.art
                          /\ f.pc # "ok" => live'[m][f.id] = <<>>
                          /\ f.pc = "ok" /\ up'[m] =>
                               live'[m][f.id] = <<f.art>> /\ indexed'[m][f.id]
      BY DEF OwnerIsFound
    <3>1. Owner(m, d) /\ frame[m][d].id \in Ids /\ frame'[m][d].id = frame[m][d].id
          /\ frame'[m][d].art = frame[m][d].art /\ ~DeleteAsked(m, frame[m][d].id)
      BY <1>1, <1>2, <1>8, <1>10
    <3>2. store'[m][frame[m][d].id] = store[m][frame[m][d].id]
      BY <1>10, <2>1, <2>2, <3>1 DEF SearchInv, OneOwner, x
    <3>3. frame'[m][d].pc = "ok" => frame[m][d].pc = "ok"
      BY <1>6, <1>10 DEF Pc
    <3>4. frame[m][d].pc = "ok" => frame'[m][d].pc = "ok"
      BY <1>1, <1>6 DEF Pc, Running, RunningPc, InsertPc, DeletePc
    <3>5. /\ store[m][frame[m][d].id] = frame[m][d].art
          /\ frame[m][d].pc # "ok" => live[m][frame[m][d].id] = <<>>
          /\ frame[m][d].pc = "ok" /\ up[m] =>
               /\ live[m][frame[m][d].id] = <<frame[m][d].art>>
               /\ indexed[m][frame[m][d].id]
      BY <3>1, FoundOf DEF SearchInv
    <3>6. up'[m] = up[m] /\ live' = live /\ indexed' = indexed
      BY <1>3, <1>10
    <3>. QED
      BY <3>1, <3>2, <3>3, <3>4, <3>5, <3>6
  <2>5. OneOwner'
    BY <1>1, <1>2, <1>8, <1>10 DEF SearchInv, OneOwner
  <2>. QED
    BY <2>3, <2>4, <2>5
<1>11. CASE /\ Pc(n, c) = "store_insert" /\ Pc(n, c)' = "index_insert"
            /\ store[n][x] = Nil /\ store' = [store EXCEPT ![n][x] = a]
            /\ UNCHANGED <<live, indexed>>
  <2>1. \A m \in Nodes, id \in Ids :
          store'[m][id] = IF m = n /\ id = x THEN a ELSE store[m][id]
    BY <1>4, <1>11 DEF NodeInv, NodeTypeOK
  <2>2. a # Nil /\ ~Owner(n, c) /\ frame'[n][c].art = a /\ frame'[n][c].id = x
    BY <1>1, <1>5, <1>11 DEF Owner, a, x
  <2>3. AbsentIsUnlisted'
    BY <1>2, <1>11, <2>1, <2>2 DEF SearchInv, AbsentIsUnlisted
  <2>4. \A d \in Calls : Owner(n, d) /\ frame[n][d].id = x => DeleteAsked(n, x)
    <3> SUFFICES ASSUME NEW d \in Calls, Owner(n, d), frame[n][d].id = x,
                        ~DeleteAsked(n, x)
                 PROVE  FALSE
      OBVIOUS
    <3>1. store[n][x] = frame[n][d].art
      BY DEF SearchInv, OwnerIsFound
    <3>. QED
      BY <1>11, <3>1 DEF Owner
  <2>5. OwnerIsFound'
    <3> SUFFICES ASSUME NEW m \in Nodes, NEW d \in Calls, Owner(m, d)',
                        ~DeleteAsked(m, frame[m][d].id)'
                 PROVE  LET f == frame'[m][d] IN
                          /\ store'[m][f.id] = f.art
                          /\ f.pc # "ok" => live'[m][f.id] = <<>>
                          /\ f.pc = "ok" /\ up'[m] =>
                               live'[m][f.id] = <<f.art>> /\ indexed'[m][f.id]
      BY DEF OwnerIsFound
    <3>1. CASE m = n /\ d = c
      <4>1. ~DeleteAsked(n, x)
        BY <1>2, <1>4, <2>2, <3>1
      <4>2. live[n][x] = <<>>
        BY <1>4, <1>11, <4>1 DEF SearchInv, AbsentIsUnlisted
      <4>. QED
        BY <1>4, <1>11, <2>1, <2>2, <3>1, <4>2 DEF Pc
    <3>2. CASE ~(m = n /\ d = c)
      <4>1. Owner(m, d) /\ frame'[m][d] = frame[m][d] /\ frame[m][d].id \in Ids
            /\ ~DeleteAsked(m, frame[m][d].id)
        BY <1>1, <1>2, <1>6, <1>8, <3>2
      <4>2. ~(m = n /\ frame[m][d].id = x)
        BY <2>4, <4>1
      <4>3. /\ store[m][frame[m][d].id] = frame[m][d].art
            /\ frame[m][d].pc # "ok" => live[m][frame[m][d].id] = <<>>
            /\ frame[m][d].pc = "ok" /\ up[m] =>
                 /\ live[m][frame[m][d].id] = <<frame[m][d].art>>
                 /\ indexed[m][frame[m][d].id]
        BY <4>1, FoundOf DEF SearchInv
      <4>4. /\ store'[m][frame[m][d].id] = store[m][frame[m][d].id]
            /\ up'[m] = up[m] /\ live' = live /\ indexed' = indexed
        BY <1>3, <1>11, <2>1, <4>1, <4>2
      <4>. QED
        BY <4>1, <4>3, <4>4
    <3>. QED
      BY <3>1, <3>2
  <2>6. OneOwner'
    <3> SUFFICES ASSUME NEW m \in Nodes, NEW d \in Calls, NEW e \in Calls,
                        Owner(m, d)', Owner(m, e)', frame'[m][d].id = frame'[m][e].id,
                        ~DeleteAsked(m, frame[m][d].id)', d # e
                 PROVE  FALSE
      BY DEF OneOwner
    <3>1. CASE m = n /\ (d = c \/ e = c)
      BY <1>1, <1>2, <1>4, <1>6, <2>2, <2>4, <3>1
    <3>2. CASE ~(m = n /\ (d = c \/ e = c))
      BY <1>1, <1>2, <1>6, <1>8, <3>2 DEF SearchInv, OneOwner
    <3>. QED
      BY <3>1, <3>2
  <2>. QED
    BY <1>7, <2>3, <2>5, <2>6 DEF SearchInv
<1>12. CASE /\ Pc(n, c) \in {"undo_insert", "store_delete"}
            /\ Pc(n, c)' \in {"failed", "index_delete"}
            /\ store' = [store EXCEPT ![n][x] = Nil] /\ UNCHANGED <<live, indexed>>
  <2>1. Pc(n, c) = "undo_insert" => a # Nil /\ Owner(n, c)
    BY <1>5 DEF Owner, a
  <2>2. ~Owner(n, c)' /\ Pc(n, c)' # "ok"
    BY <1>12 DEF Owner
  <2>3. Pc(n, c) = "store_delete" => a = Nil
    BY <1>5
  <2>. QED
    BY <1>6, <1>7, <1>10, <1>12, <2>1, <2>2, <2>3 DEF SearchInv
<1>13. CASE /\ store' = store /\ UNCHANGED <<live, indexed>> /\ Pc(n, c)' # "ok"
            /\ Pc(n, c)' \in {"index_insert", "undo_insert"} => Pc(n, c) = "index_insert"
  <2>1. Owner(n, c)' => Owner(n, c)
    BY <1>1, <1>13 DEF Owner
  <2>. QED
    BY <1>6, <1>7, <1>10, <1>13, <2>1 DEF SearchInv
<1>14. CASE /\ Pc(n, c) = "index_insert" /\ Pc(n, c)' = "ok" /\ store' = store
            /\ \A m \in Nodes, id \in Ids :
                 IF m = n /\ id = x
                 THEN live'[m][id] = Append(live[m][id], a) /\ indexed'[m][id]
                 ELSE live'[m][id] = live[m][id] /\ indexed'[m][id] = indexed[m][id]
  <2>1. a # Nil /\ Owner(n, c) /\ frame'[n][c].art = a /\ frame'[n][c].id = x
    BY <1>1, <1>5, <1>14 DEF Owner, a, x
  <2>2. ~DeleteAsked(n, x) => store[n][x] = a /\ live[n][x] = <<>>
    BY <1>14, <2>1 DEF SearchInv, OwnerIsFound, Pc, a, x
  <2>3. ~DeleteAsked(n, x) => live'[n][x] = <<a>> /\ indexed'[n][x]
    BY <1>4, <1>14, <2>2
  <2>4. AbsentIsUnlisted'
    BY <1>2, <1>14, <2>1, <2>2 DEF SearchInv, AbsentIsUnlisted
  <2>5. \A m \in Nodes, d \in Calls : Owner(m, d)' => Owner(m, d)
    BY <1>6, <2>1
  <2>6. OneOwner'
    BY <1>1, <1>2, <1>8, <2>5 DEF SearchInv, OneOwner
  <2>7. OwnerIsFound'
    <3> SUFFICES ASSUME NEW m \in Nodes, NEW d \in Calls, Owner(m, d)',
                        ~DeleteAsked(m, frame[m][d].id)'
                 PROVE  LET f == frame'[m][d] IN
                          /\ store'[m][f.id] = f.art
                          /\ f.pc # "ok" => live'[m][f.id] = <<>>
                          /\ f.pc = "ok" /\ up'[m] =>
                               live'[m][f.id] = <<f.art>> /\ indexed'[m][f.id]
      BY DEF OwnerIsFound
    <3>1. CASE m = n /\ d = c
      <4>1. ~DeleteAsked(n, x)
        BY <1>2, <1>4, <2>1, <3>1
      <4>2. frame'[n][c].pc = "ok" /\ store' = store
        BY <1>14 DEF Pc
      <4>. QED
        BY <2>1, <2>2, <2>3, <3>1, <4>1, <4>2
    <3>2. CASE ~(m = n /\ d = c)
      <4>1. Owner(m, d) /\ frame'[m][d] = frame[m][d] /\ frame[m][d].id \in Ids
            /\ ~DeleteAsked(m, frame[m][d].id)
        BY <1>1, <1>2, <1>6, <1>8, <3>2
      <4>2. ~(m = n /\ frame[m][d].id = x)
        BY <2>1, <3>2, <4>1 DEF SearchInv, OneOwner, x
      <4>3. /\ live'[m][frame[m][d].id] = live[m][frame[m][d].id]
            /\ indexed'[m][frame[m][d].id] = indexed[m][frame[m][d].id]
            /\ store' = store
        BY <1>14, <4>1, <4>2
      <4>4. /\ store[m][frame[m][d].id] = frame[m][d].art
            /\ frame[m][d].pc # "ok" => live[m][frame[m][d].id] = <<>>
            /\ frame[m][d].pc = "ok" /\ up[m] =>
                 /\ live[m][frame[m][d].id] = <<frame[m][d].art>>
                 /\ indexed[m][frame[m][d].id]
        BY <4>1, FoundOf DEF SearchInv
      <4>5. up'[m] = up[m]
        BY <1>3
      <4>. QED
        BY <4>1, <4>3, <4>4, <4>5
    <3>. QED
      BY <3>1, <3>2
  <2>. QED
    BY <1>7, <2>4, <2>6, <2>7 DEF SearchInv
<1>15. CASE /\ Pc(n, c) = "index_delete" /\ Pc(n, c)' = "ok" /\ store' = store
            /\ \A m \in Nodes, id \in Ids : ~(m = n /\ id = x) =>
                 live'[m][id] = live[m][id] /\ indexed'[m][id] = indexed[m][id]
  <2>1. DeleteAsked(n, x)
    BY <1>5, <1>15 DEF DeleteAsked, a, x
  <2>2. ~Owner(n, c)'
    BY <1>1, <1>5, <1>15 DEF Owner, a
  <2>3. AbsentIsUnlisted'
    BY <1>2, <1>15, <2>1 DEF SearchInv, AbsentIsUnlisted
  <2>4. \A m \in Nodes, d \in Calls : Owner(m, d)' =>
          Owner(m, d) /\ frame'[m][d] = frame[m][d] /\ frame[m][d].id \in Ids
    BY <1>1, <1>6, <1>8, <2>2
  <2>5. OwnerIsFound'
    <3> SUFFICES ASSUME NEW m \in Nodes, NEW d \in Calls, Owner(m, d)',
                        ~DeleteAsked(m, frame[m][d].id)'
                 PROVE  LET f == frame'[m][d] IN
                          /\ store'[m][f.id] = f.art
                          /\ f.pc # "ok" => live'[m][f.id] = <<>>
                          /\ f.pc = "ok" /\ up'[m] =>
                               live'[m][f.id] = <<f.art>> /\ indexed'[m][f.id]
      BY DEF OwnerIsFound
    <3>1. Owner(m, d) /\ frame'[m][d] = frame[m][d] /\ frame[m][d].id \in Ids
          /\ ~DeleteAsked(m, frame[m][d].id)
      BY <1>2, <2>4
    <3>2. ~(m = n /\ frame[m][d].id = x)
      BY <2>1, <3>1
    <3>3. /\ live'[m][frame[m][d].id] = live[m][frame[m][d].id]
          /\ indexed'[m][frame[m][d].id] = indexed[m][frame[m][d].id]
          /\ store' = store
      BY <1>15, <3>1, <3>2
    <3>4. /\ store[m][frame[m][d].id] = frame[m][d].art
          /\ frame[m][d].pc # "ok" => live[m][frame[m][d].id] = <<>>
          /\ frame[m][d].pc = "ok" /\ up[m] =>
               /\ live[m][frame[m][d].id] = <<frame[m][d].art>>
               /\ indexed[m][frame[m][d].id]
      BY <3>1, FoundOf DEF SearchInv
    <3>5. up'[m] = up[m]
      BY <1>3
    <3>. QED
      BY <3>1, <3>3, <3>4, <3>5
  <2>6. OneOwner'
    BY <1>2, <2>4 DEF SearchInv, OneOwner
  <2>. QED
    BY <1>7, <2>3, <2>5, <2>6 DEF SearchInv
<1>. QED
  BY <1>9, <1>11, <1>12, <1>13, <1>14, <1>15

\* A step that makes no owner, and under which owners' frames stay, only has to
\* keep their rows and entries.
LEMMA OwnersStayFound ==
  ASSUME NodeInv, SearchInv,
         \A m \in Nodes, id \in Ids : DeleteAsked(m, id) => DeleteAsked(m, id)',
         \A m \in Nodes, c \in Calls : Owner(m, c)' =>
           Owner(m, c) /\ frame'[m][c] = frame[m][c] /\ frame[m][c].id \in Ids,
         \A m \in Nodes, c \in Calls : LET f == frame[m][c] IN
           /\ Owner(m, c) /\ Owner(m, c)' /\ f.id \in Ids
           /\ store[m][f.id] = f.art
           /\ f.pc # "ok" => live[m][f.id] = <<>>
           /\ f.pc = "ok" /\ up[m] => live[m][f.id] = <<f.art>> /\ indexed[m][f.id]
           => /\ store'[m][f.id] = f.art
              /\ f.pc # "ok" => live'[m][f.id] = <<>>
              /\ f.pc = "ok" /\ up'[m] => live'[m][f.id] = <<f.art>> /\ indexed'[m][f.id]
  PROVE  OwnerIsFound' /\ OneOwner'
<1>1. OwnerIsFound'
  <2> SUFFICES ASSUME NEW m \in Nodes, NEW c \in Calls, Owner(m, c)',
                      ~DeleteAsked(m, frame[m][c].id)'
               PROVE  LET f == frame'[m][c] IN
                        /\ store'[m][f.id] = f.art
                        /\ f.pc # "ok" => live'[m][f.id] = <<>>
                        /\ f.pc = "ok" /\ up'[m] =>
                             live'[m][f.id] = <<f.art>> /\ indexed'[m][f.id]
    BY DEF OwnerIsFound
  <2>1. Owner(m, c) /\ frame'[m][c] = frame[m][c] /\ frame[m][c].id \in Ids
        /\ ~DeleteAsked(m, frame[m][c].id)
    OBVIOUS
  <2>2. /\ store[m][frame[m][c].id] = frame[m][c].art
        /\ frame[m][c].pc # "ok" => live[m][frame[m][c].id] = <<>>
        /\ frame[m][c].pc = "ok" /\ up[m] =>
             /\ live[m][frame[m][c].id] = <<frame[m][c].art>>
             /\ indexed[m][frame[m][c].id]
    BY <2>1, FoundOf DEF SearchInv
  <2>3. /\ store'[m][frame[m][c].id] = frame[m][c].art
        /\ frame[m][c].pc # "ok" => live'[m][frame[m][c].id] = <<>>
        /\ frame[m][c].pc = "ok" /\ up'[m] =>
             /\ live'[m][frame[m][c].id] = <<frame[m][c].art>>
             /\ indexed'[m][frame[m][c].id]
    <3> HIDE DEF SearchInv
    <3>. QED
      BY <2>1, <2>2
  <2>. QED
    BY <2>1, <2>3
<1>2. OneOwner'
  <2> SUFFICES ASSUME NEW m \in Nodes, NEW c \in Calls, NEW d \in Calls,
                      Owner(m, c)', Owner(m, d)', frame'[m][c].id = frame'[m][d].id,
                      ~DeleteAsked(m, frame[m][c].id)'
               PROVE  c = d
    BY DEF OneOwner
  <2>1. /\ Owner(m, c) /\ frame'[m][c] = frame[m][c] /\ frame[m][c].id \in Ids
        /\ Owner(m, d) /\ frame'[m][d] = frame[m][d]
    OBVIOUS
  <2>2. ~DeleteAsked(m, frame[m][c].id)
    BY <2>1
  <2>. QED
    BY <2>1, <2>2 DEF SearchInv, OneOwner
<1>. QED
  BY <1>1, <1>2

\* A call that starts owns nothing, and asks for a deletion or does not.
LEMMA EnterSearchInv ==
  ASSUME NodeInv, SearchInv, NEW n \in Nodes, NEW c \in Calls, NEW f,
         (\E a \in Articles : f = InsertFrame(a)) \/ (\E id \in Ids : f = DeleteFrame(id)),
         up[n], Pc(n, c) = "idle",
         Enter(n, c, f), UNCHANGED <<up, store, indexVars, boundVars>>
  PROVE  SearchInv'
<1>1. /\ frame'[n][c] = f
      /\ \A m \in Nodes, d \in Calls :
           ~(m = n /\ d = c) => frame'[m][d] = frame[m][d]
  BY DEF Enter, NodeInv, NodeTypeOK
<1>2. f.pc \in {"store_insert", "store_get"}
  BY DEF InsertFrame, DeleteFrame
<1>3. frame[n][c] = IdleFrame
  BY DEF SearchInv, IdleOK
<1>4. \A m \in Nodes, id \in Ids : DeleteAsked(m, id) => DeleteAsked(m, id)'
  BY <1>1, <1>3, ArticleAssumption DEF DeleteAsked, IdleFrame
<1>5. \A m \in Nodes, d \in Calls : Owner(m, d)' =>
        Owner(m, d) /\ frame'[m][d] = frame[m][d] /\ frame[m][d].id \in Ids
  BY <1>1, <1>2 DEF Owner, Pc, NodeInv, FrameOK
<1>6. IdleOK' /\ RunningIsUp'
  BY <1>1, <1>2 DEF SearchInv, IdleOK, RunningIsUp, Running, Pc
<1>7. AbsentIsUnlisted'
  BY <1>4 DEF SearchInv, AbsentIsUnlisted, indexVars
<1>8. OwnerIsFound' /\ OneOwner'
  BY <1>4, <1>5, OwnersStayFound DEF indexVars
<1>. QED
  BY <1>6, <1>7, <1>8 DEF SearchInv

\* Processes that go down keep their tables: their owners that were not done
\* are owners no more, and the others are found again after a restart.
LEMMA DownSearchInv ==
  ASSUME NodeInv, SearchInv, NEW D \in SUBSET Nodes, store' = store,
         \A m \in Nodes : up'[m] => up[m] /\ m \notin D,
         \A m \in Nodes, id \in Ids :
           /\ m \in D => live'[m][id] = <<>>
           /\ m \notin D => live'[m][id] = live[m][id] /\ indexed'[m][id] = indexed[m][id],
         \A m \in Nodes, c \in Calls :
           /\ frame'[m][c].id = frame[m][c].id
           /\ frame'[m][c].art = frame[m][c].art
           /\ m \notin D \/ ~Running(m, c) => frame'[m][c] = frame[m][c]
           /\ m \in D /\ Running(m, c) => frame'[m][c].pc = "failed",
         \A m \in Nodes \ D : up'[m] = up[m]
  PROVE  SearchInv'
<1>1. \A m \in Nodes, id \in Ids : DeleteAsked(m, id)' <=> DeleteAsked(m, id)
  BY DEF DeleteAsked
<1>2. \A m \in Nodes, c \in Calls : Owner(m, c)' =>
        Owner(m, c) /\ frame'[m][c] = frame[m][c] /\ frame[m][c].id \in Ids
  BY DEF Owner, Pc, NodeInv, FrameOK
<1>3. \A m \in D, c \in Calls : Owner(m, c)' => frame[m][c].pc = "ok"
  BY <1>2 DEF Owner, Pc, Running, RunningPc, InsertPc
<1>4. IdleOK' /\ RunningIsUp'
  <2>1. \A m \in Nodes, c \in Calls : Pc(m, c)' = "idle" => frame'[m][c] = frame[m][c]
    BY DEF Pc
  <2>2. \A m \in Nodes, c \in Calls : Running(m, c)' => m \notin D /\ Running(m, c)
    BY DEF Running, Pc, RunningPc, InsertPc, DeletePc
  <2>. QED
    BY <2>1, <2>2 DEF SearchInv, IdleOK, RunningIsUp, Pc
<1>5. AbsentIsUnlisted'
  BY <1>1 DEF SearchInv, AbsentIsUnlisted
<1>6. OwnerIsFound' /\ OneOwner'
  <2>1. ASSUME NEW m \in Nodes, NEW c \in Calls, Owner(m, c), Owner(m, c)',
               frame[m][c].id \in Ids, store[m][frame[m][c].id] = frame[m][c].art,
               frame[m][c].pc # "ok" => live[m][frame[m][c].id] = <<>>,
               frame[m][c].pc = "ok" /\ up[m] =>
                 live[m][frame[m][c].id] = <<frame[m][c].art>> /\ indexed[m][frame[m][c].id]
        PROVE  /\ store'[m][frame[m][c].id] = frame[m][c].art
               /\ frame[m][c].pc # "ok" => live'[m][frame[m][c].id] = <<>>
               /\ frame[m][c].pc = "ok" /\ up'[m] =>
                    live'[m][frame[m][c].id] = <<frame[m][c].art>> /\ indexed'[m][frame[m][c].id]
    <3>1. CASE m \in D
      BY <1>3, <2>1, <3>1
    <3>2. CASE m \notin D
      <4>1. /\ store' = store /\ up'[m] = up[m]
            /\ live'[m][frame[m][c].id] = live[m][frame[m][c].id]
            /\ indexed'[m][frame[m][c].id] = indexed[m][frame[m][c].id]
        BY <2>1, <3>2
      <4>. QED
        BY <2>1, <4>1
    <3>. QED
      BY <3>1, <3>2
  <2>. QED
    BY <1>1, <1>2, <2>1, OwnersStayFound
<1>. QED
  BY <1>4, <1>5, <1>6 DEF SearchInv

LEMMA GoDownSearchInv ==
  ASSUME NodeInv, SearchInv, NEW n \in Nodes, GoDown(n)
  PROVE  SearchInv'
<1>1. \A m \in Nodes, id \in Ids :
        /\ m \in {n} => live'[m][id] = <<>>
        /\ m \notin {n} => live'[m][id] = live[m][id] /\ indexed'[m][id] = indexed[m][id]
  BY DEF GoDown, NodeInv, NodeTypeOK
<1>2. /\ {n} \in SUBSET Nodes
      /\ \A m \in Nodes : up'[m] => up[m] /\ m \notin {n}
      /\ \A m \in Nodes \ {n} : up'[m] = up[m]
  BY DEF GoDown, NodeInv, NodeTypeOK
<1>3. /\ store' = store
      /\ \A m \in Nodes, c \in Calls :
           /\ frame'[m][c].id = frame[m][c].id
           /\ frame'[m][c].art = frame[m][c].art
           /\ m \notin {n} \/ ~Running(m, c) => frame'[m][c] = frame[m][c]
           /\ m \in {n} /\ Running(m, c) => frame'[m][c].pc = "failed"
  BY GoDownEffect
<1>. QED
  BY <1>1, <1>2, <1>3, DownSearchInv

\* A process that starts runs no call, and indexes what the table holds.
LEMMA RestartSearchInv ==
  ASSUME NodeInv, SearchInv, NEW n \in Nodes, Restart(n)
  PROVE  SearchInv'
<1>1. /\ ~up[n] /\ UNCHANGED <<store, frame>>
      /\ \A m \in Nodes : up'[m] = IF m = n THEN TRUE ELSE up[m]
      /\ \A m \in Nodes, id \in Ids :
           /\ m = n /\ store[m][id] = Nil => live'[m][id] = <<>>
           /\ m = n /\ store[m][id] # Nil =>
                live'[m][id] = <<store[m][id]>> /\ indexed'[m][id]
           /\ m # n => live'[m][id] = live[m][id] /\ indexed'[m][id] = indexed[m][id]
  BY DEF Restart, NodeInv, NodeTypeOK
<1>2. \A m \in Nodes, id \in Ids : DeleteAsked(m, id)' <=> DeleteAsked(m, id)
  BY <1>1 DEF DeleteAsked
<1>3. \A m \in Nodes, c \in Calls : (Owner(m, c)' <=> Owner(m, c))
        /\ (Owner(m, c) => frame[m][c].art # Nil /\ frame[m][c].id \in Ids)
        /\ (Owner(m, c) /\ m = n => frame[m][c].pc = "ok")
  BY <1>1 DEF Owner, Pc, NodeInv, FrameOK, SearchInv, RunningIsUp, Running,
    RunningPc, InsertPc
<1>4. IdleOK' /\ RunningIsUp'
  BY <1>1 DEF SearchInv, IdleOK, RunningIsUp, Running, Pc
<1>5. AbsentIsUnlisted'
  BY <1>1, <1>2 DEF SearchInv, AbsentIsUnlisted
<1>6. OwnerIsFound' /\ OneOwner'
  <2>1. \A m \in Nodes, c \in Calls : Owner(m, c)' =>
          Owner(m, c) /\ frame'[m][c] = frame[m][c] /\ frame[m][c].id \in Ids
    BY <1>1, <1>3
  <2>2. ASSUME NEW m \in Nodes, NEW c \in Calls, Owner(m, c), frame[m][c].id \in Ids,
               store[m][frame[m][c].id] = frame[m][c].art,
               frame[m][c].pc # "ok" => live[m][frame[m][c].id] = <<>>,
               frame[m][c].pc = "ok" /\ up[m] =>
                 live[m][frame[m][c].id] = <<frame[m][c].art>> /\ indexed[m][frame[m][c].id]
        PROVE  /\ store'[m][frame[m][c].id] = frame[m][c].art
               /\ frame[m][c].pc # "ok" => live'[m][frame[m][c].id] = <<>>
               /\ frame[m][c].pc = "ok" /\ up'[m] =>
                    live'[m][frame[m][c].id] = <<frame[m][c].art>> /\ indexed'[m][frame[m][c].id]
    <3>1. CASE m = n
      <4>1. frame[m][c].pc = "ok" /\ frame[m][c].art # Nil /\ store' = store
        BY <1>1, <1>3, <2>2, <3>1
      <4>2. /\ live'[m][frame[m][c].id] = <<store[m][frame[m][c].id]>>
            /\ indexed'[m][frame[m][c].id]
        BY <1>1, <2>2, <3>1, <4>1
      <4>. QED
        BY <2>2, <4>1, <4>2
    <3>2. CASE m # n
      <4>1. /\ store' = store /\ up'[m] = up[m]
            /\ live'[m][frame[m][c].id] = live[m][frame[m][c].id]
            /\ indexed'[m][frame[m][c].id] = indexed[m][frame[m][c].id]
        BY <1>1, <2>2, <3>2
      <4>. QED
        BY <2>2, <4>1
    <3>. QED
      BY <3>1, <3>2
  <2>. QED
    BY <1>2, <2>1, <2>2, OwnersStayFound
<1>. QED
  BY <1>4, <1>5, <1>6 DEF SearchInv

-----------------------------------------------------------------------------
(* The theorem. *)

LEMMA SearchInvInit == NodeInit => SearchInv
  BY DEF NodeInit, SearchInv, IdleOK, RunningIsUp, AbsentIsUnlisted, OwnerIsFound,
    OneOwner, Owner, Running, Pc, IdleFrame, RunningPc, InsertPc, DeletePc

LEMMA SearchInvNext == NodeInv /\ SearchInv /\ [NodeNext]_nodeVars => SearchInv'
<1> SUFFICES ASSUME NodeInv, SearchInv, [NodeNext]_nodeVars PROVE SearchInv'
  OBVIOUS
<1>1. ASSUME NEW n \in Nodes, NEW c \in Calls, NEW a \in Articles, InsertArticle(n, c, a)
      PROVE  SearchInv'
  BY <1>1, EnterSearchInv DEF InsertArticle, CanStart
<1>2. ASSUME NEW n \in Nodes, NEW c \in Calls, NEW id \in Ids, DeleteArticle(n, c, id)
      PROVE  SearchInv'
  BY <1>2, EnterSearchInv DEF DeleteArticle, CanStart
<1>3. ASSUME NEW n \in Nodes, NEW c \in Calls, MethodStep(n, c)
      PROVE  SearchInv'
  BY <1>3, MethodStepSearchInv
<1>4. ASSUME NEW n \in Nodes, Crash(n) \/ Stop(n)
      PROVE  SearchInv'
  BY <1>4, GoDownSearchInv DEF Crash, Stop
<1>5. ASSUME NEW n \in Nodes, Restart(n)
      PROVE  SearchInv'
  BY <1>5, RestartSearchInv
<1>6. CASE UNCHANGED nodeVars
  BY <1>6, SearchUnchanged DEF nodeVars, indexVars
<1>. QED
  BY <1>1, <1>2, <1>3, <1>4, <1>5, <1>6 DEF NodeNext

LEMMA FoundFromInv == NodeInv /\ SearchInv => InsertedIsSearchable
<1> SUFFICES ASSUME NodeInv, SearchInv, NEW n \in Nodes, NEW c \in Calls,
                    Pc(n, c) = "ok", frame[n][c].art # Nil,
                    ~DeleteAsked(n, frame[n][c].id)
             PROVE  /\ store[n][frame[n][c].id] = frame[n][c].art
                    /\ up[n] => /\ live[n][frame[n][c].id] = <<frame[n][c].art>>
                                /\ indexed[n][frame[n][c].id]
  BY DEF InsertedIsSearchable, Pc
<1>1. Owner(n, c)
  BY DEF Owner
<1>. QED
  BY <1>1 DEF SearchInv, OwnerIsFound, Pc

\* An article whose InsertArticle returned nil, and whose id nobody ever asked
\* to delete, is in the table, and the only entry of its id in the index
\* whenever the process runs: inserts of the same id, refused inserts and their
\* rollback, SQL errors, crashes and restarts never take it away.
THEOREM InsertedStaysSearchable == NodeSpec => []InsertedIsSearchable
<1>1. NodeSpec => [](NodeInv /\ SearchInv)
  BY NodeInvInit, NodeNextInv, SearchInvInit, SearchInvNext, PTL DEF NodeSpec
<1>. QED
  BY <1>1, FoundFromInv, PTL

-----------------------------------------------------------------------------
(* A call that runs alone.  Between calls the index holds exactly the      *)
(* table; a call under way is out of step at its own id only, by what it   *)
(* has done to the table and not yet to the index.                         *)

EntryOf(n, id) == IF store[n][id] = Nil THEN <<>> ELSE <<store[n][id]>>
Mirrored(n, id) == live[n][id] = EntryOf(n, id) /\ (indexed[n][id] <=> store[n][id] # Nil)

Half(n, c) == Pc(n, c) \in {"index_insert", "undo_insert", "index_delete"}
HalfDone(n, c) == LET f == frame[n][c] IN
  IF f.pc = "index_delete"
  THEN /\ store[n][f.id] = Nil
       /\ IF indexed[n][f.id] THEN \E a \in Articles : live[n][f.id] = <<a>>
                              ELSE live[n][f.id] = <<>>
  ELSE store[n][f.id] = f.art /\ live[n][f.id] = <<>> /\ ~indexed[n][f.id]

\* The id of call c is as the call expects it.
InStep(n, c) == IF Half(n, c) THEN HalfDone(n, c) ELSE Mirrored(n, frame[n][c].id)

UndoFails(n, c) == Pc(n, c) = "undo_insert" /\ storeErrors' # storeErrors

\* A step of a method changes nothing but its own id, and leaves that as the
\* call expects it, unless it was to undo an insert and could not.
LEMMA StepAtRow ==
  ASSUME NodeInv, NEW n \in Nodes, NEW c \in Calls, MethodStep(n, c)
  PROVE  /\ \A m \in Nodes, id \in Ids : ~(m = n /\ id = frame[n][c].id) =>
              /\ store'[m][id] = store[m][id]
              /\ live'[m][id] = live[m][id] /\ indexed'[m][id] = indexed[m][id]
         /\ InStep(n, c) => InStep(n, c)' \/ UndoFails(n, c)
<1> DEFINE x == frame[n][c].id
           a == frame[n][c].art
<1>0. /\ frame \in [Nodes -> [Calls -> Frame]] /\ storeErrors \in Nat
      /\ store \in [Nodes -> [Ids -> Articles \cup {Nil}]]
      /\ live \in [Nodes -> [Ids -> Seq(Articles)]]
      /\ indexed \in [Nodes -> [Ids -> BOOLEAN]]
  BY BoundAssumption DEF NodeInv, NodeTypeOK
<1>1. /\ Running(n, c)
      /\ frame'[n][c].id = x /\ frame'[n][c].art = a
  BY MethodStepEffect
<1>2. x \in Ids
  BY <1>1, ArticleAssumption
  DEF NodeInv, NodeTypeOK, FrameOK, Frame, Running, Pc, RunningPc, InsertPc, DeletePc
<1>3. \A pc : Goto(n, c, pc) => frame'[n][c].pc = pc
  BY <1>0, GotoFrames DEF Pc
<1>4. Pc(n, c) \in InsertPc => a \in Articles /\ a # Nil /\ a.id = x
  BY ArticleAssumption DEF NodeInv, FrameOK, Pc
<1>5. \A row : SetRow(n, c, row) =>
        /\ store'[n][x] = row
        /\ \A m \in Nodes, id \in Ids : ~(m = n /\ id = x) => store'[m][id] = store[m][id]
  BY <1>0, <1>2 DEF SetRow
<1> HIDE DEF x, a
<1>6. \A pc : Goto(n, c, pc) /\ pc \notin {"index_insert", "undo_insert", "index_delete"}
        => (InStep(n, c)' <=>
             /\ live'[n][x] = IF store'[n][x] = Nil THEN <<>> ELSE <<store'[n][x]>>
             /\ indexed'[n][x] <=> store'[n][x] # Nil)
  BY <1>1, <1>3 DEF InStep, Half, Mirrored, EntryOf, Pc
<1>7. \A pc : Goto(n, c, pc) /\ pc \in {"index_insert", "undo_insert"}
        => (InStep(n, c)' <=>
             store'[n][x] = a /\ live'[n][x] = <<>> /\ ~indexed'[n][x])
  BY <1>1, <1>3 DEF InStep, Half, HalfDone, Pc
<1>8. Goto(n, c, "index_delete") => (InStep(n, c)' <=>
        /\ store'[n][x] = Nil
        /\ IF indexed'[n][x] THEN \E b \in Articles : live'[n][x] = <<b>>
                            ELSE live'[n][x] = <<>>)
  BY <1>1, <1>3 DEF InStep, Half, HalfDone, Pc
<1>9. Pc(n, c) \in {"index_insert", "undo_insert"} => (InStep(n, c) <=>
        store[n][x] = a /\ live[n][x] = <<>> /\ ~indexed[n][x])
  BY DEF InStep, Half, HalfDone, Pc, x, a
<1>10. Pc(n, c) \in {"store_insert", "store_get", "store_delete"} =>
         (InStep(n, c) <=> Mirrored(n, x))
  BY DEF InStep, Half, x
<1>11. CASE StoreInsert(n, c)
  <2>1. Pc(n, c) = "store_insert" /\ UNCHANGED <<live, indexed>>
    BY <1>11 DEF StoreInsert, indexVars
  <2>2. CASE store[n][x] = Nil
    <3>1. SetRow(n, c, a) /\ Goto(n, c, "index_insert")
      BY <1>11, <2>2 DEF StoreInsert, Row, x, a
    <3>2. InStep(n, c) => InStep(n, c)'
      BY <1>5, <1>7, <1>10, <2>1, <2>2, <3>1 DEF Mirrored, EntryOf
    <3>. QED
      BY <1>5, <2>1, <3>1, <3>2 DEF x
  <2>3. CASE store[n][x] # Nil
    <3>1. UNCHANGED store /\ Goto(n, c, "failed")
      BY <1>11, <2>3 DEF StoreInsert, Row, x
    <3>2. InStep(n, c) => InStep(n, c)'
      BY <1>6, <1>10, <2>1, <3>1 DEF Mirrored, EntryOf
    <3>. QED
      BY <2>1, <3>1, <3>2
  <2>. QED
    BY <2>2, <2>3
<1>12. CASE IndexInsert(n, c)
  <2>1. Pc(n, c) = "index_insert" /\ UNCHANGED store /\ a \in Articles /\ a.id = x /\ a # Nil
    BY <1>4, <1>12 DEF IndexInsert, InsertPc
  <2>2. CASE Accepts(n, a)
    <3>1. /\ live' = [live EXCEPT ![n][x] = Append(@, a)]
          /\ indexed' = [indexed EXCEPT ![n][x] = TRUE]
          /\ Goto(n, c, "ok")
      BY <1>12, <2>1, <2>2 DEF IndexInsert, a
    <3>2. /\ live'[n][x] = Append(live[n][x], a) /\ indexed'[n][x]
          /\ \A m \in Nodes, id \in Ids : ~(m = n /\ id = x) =>
               live'[m][id] = live[m][id] /\ indexed'[m][id] = indexed[m][id]
      BY <1>0, <1>2, <3>1
    <3>3. live[n][x] = <<>> => live'[n][x] = <<a>>
      BY <2>1, <3>2
    <3>4. InStep(n, c) => live'[n][x] = <<a>> /\ indexed'[n][x] /\ store'[n][x] = a
      BY <1>9, <2>1, <3>2, <3>3
    <3>5. InStep(n, c) => InStep(n, c)'
      BY <1>6, <2>1, <3>1, <3>4
    <3>. QED
      BY <2>1, <3>2, <3>5 DEF x
  <2>3. CASE ~Accepts(n, a)
    <3>1. Goto(n, c, "undo_insert") /\ UNCHANGED <<live, indexed>>
      BY <1>12, <2>3 DEF IndexInsert, indexVars, a
    <3>2. InStep(n, c) => InStep(n, c)'
      BY <1>7, <1>9, <2>1, <3>1
    <3>. QED
      BY <2>1, <3>1, <3>2
  <2>. QED
    BY <2>2, <2>3
<1>13. CASE UndoInsert(n, c)
  <2>1. Pc(n, c) = "undo_insert" /\ SetRow(n, c, Nil) /\ Goto(n, c, "failed")
        /\ UNCHANGED <<live, indexed>>
    BY <1>13 DEF UndoInsert, indexVars
  <2>2. InStep(n, c) => InStep(n, c)'
    BY <1>5, <1>6, <1>9, <2>1 DEF Mirrored, EntryOf
  <2>. QED
    BY <1>5, <2>1, <2>2 DEF x
<1>14. CASE StoreGet(n, c)
  <2>1. Pc(n, c) = "store_get" /\ UNCHANGED <<store, live, indexed>>
        /\ \E pc \in {"notfound", "store_delete"} : Goto(n, c, pc)
    BY <1>14 DEF StoreGet, indexVars
  <2>2. InStep(n, c) => InStep(n, c)'
    BY <1>6, <1>10, <2>1 DEF Mirrored, EntryOf
  <2>. QED
    BY <2>1, <2>2
<1>15. CASE StoreDelete(n, c)
  <2>1. Pc(n, c) = "store_delete" /\ SetRow(n, c, Nil) /\ Goto(n, c, "index_delete")
        /\ UNCHANGED <<live, indexed>>
    BY <1>15 DEF StoreDelete, indexVars
  <2>2. store[n][x] \in Articles \cup {Nil}
    BY <1>0, <1>2
  <2>3. InStep(n, c) => InStep(n, c)'
    BY <1>5, <1>8, <1>10, <2>1, <2>2 DEF Mirrored, EntryOf
  <2>. QED
    BY <1>5, <2>1, <2>3 DEF x
<1>16. CASE IndexDelete(n, c)
  <2>1. Pc(n, c) = "index_delete" /\ UNCHANGED store
    BY <1>16 DEF IndexDelete
  <2>2. InStep(n, c) <=>
          /\ store[n][x] = Nil
          /\ IF indexed[n][x] THEN \E b \in Articles : live[n][x] = <<b>>
                             ELSE live[n][x] = <<>>
    BY <2>1 DEF InStep, Half, HalfDone, Pc, x
  <2>3. CASE indexed[n][x]
    <3>1. /\ live' = [live EXCEPT ![n][x] = AfterDelete(live[n][x])]
          /\ indexed' = [indexed EXCEPT ![n][x] = StillIndexed(live[n][x])]
          /\ Goto(n, c, "ok")
      BY <1>16, <2>3 DEF IndexDelete, x
    <3>2. /\ live'[n][x] = AfterDelete(live[n][x])
          /\ indexed'[n][x] = StillIndexed(live[n][x])
          /\ \A m \in Nodes, id \in Ids : ~(m = n /\ id = x) =>
               live'[m][id] = live[m][id] /\ indexed'[m][id] = indexed[m][id]
      BY <1>0, <1>2, <3>1
    <3>3. ASSUME NEW b \in Articles, live[n][x] = <<b>>
          PROVE  AfterDelete(live[n][x]) = <<>> /\ ~StillIndexed(live[n][x])
      <4>1. PICK s : s = live[n][x]
        OBVIOUS
      <4>2. s \in Seq(Articles) /\ Len(s) = 1
        <5>1. s \in Seq(Articles)
          BY <1>0, <1>2, <4>1
        <5>. QED
          BY <3>3, <4>1, <5>1
      <4>3. Len(Tail(s)) = 0 /\ Tail(s) \in Seq(Articles)
        BY <4>2
      <4>4. Len(Front(s)) = 0 /\ Front(s) \in Seq(Articles)
        BY <4>2, FrontKeeps
      <4>5. \A t \in Seq(Articles) : Len(t) = 0 => t = <<>>
        OBVIOUS
      <4>6. Tail(s) = <<>> /\ Front(s) = <<>>
        BY <4>3, <4>4, <4>5
      <4>. QED
        BY <4>1, <4>6 DEF AfterDelete, StillIndexed
    <3>4. InStep(n, c) => live'[n][x] = <<>> /\ ~indexed'[n][x] /\ store[n][x] = Nil
      BY <2>2, <2>3, <3>2, <3>3
    <3>5. InStep(n, c) => InStep(n, c)'
      BY <1>6, <2>1, <3>1, <3>4 DEF Mirrored, EntryOf
    <3>. QED
      BY <2>1, <3>2, <3>5 DEF x
  <2>4. CASE ~indexed[n][x]
    <3>1. Goto(n, c, "notfound") /\ UNCHANGED <<live, indexed>>
      BY <1>16, <2>4 DEF IndexDelete, x
    <3>2. InStep(n, c) => InStep(n, c)'
      BY <1>6, <2>1, <2>2, <2>4, <3>1 DEF Mirrored, EntryOf
    <3>. QED
      BY <2>1, <3>1, <3>2
  <2>. QED
    BY <2>3, <2>4
<1>17. CASE StoreError(n, c)
  <2>1. Goto(n, c, "failed") /\ UNCHANGED <<store, live, indexed>>
        /\ storeErrors' # storeErrors
        /\ Pc(n, c) \in {"store_insert", "undo_insert", "store_get", "store_delete"}
    BY <1>0, <1>17 DEF StoreError, indexVars, RunningPc, InsertPc, DeletePc
  <2>2. InStep(n, c) => InStep(n, c)' \/ UndoFails(n, c)
    BY <1>6, <1>10, <2>1 DEF Mirrored, EntryOf, UndoFails
  <2>. QED
    BY <2>1, <2>2
<1>. QED
  BY <1>11, <1>12, <1>13, <1>14, <1>15, <1>16, <1>17 DEF MethodStep

\* On every node one call runs at a time, and what no call is at work on is mirrored.
OneRuns == \A n \in Nodes, c, d \in Calls : Running(n, c) /\ Running(n, d) => c = d
AtRest(n, id) == \A c \in Calls : Half(n, c) => frame[n][c].id # id
RestMirrored == \A n \in Nodes, id \in Ids : up[n] /\ AtRest(n, id) => Mirrored(n, id)
HalvesDone == \A n \in Nodes, c \in Calls : Half(n, c) => HalfDone(n, c)
AloneInv == OneRuns /\ RestMirrored /\ HalvesDone

\* What a call has half done lasts while its frame, row and entries do.
LEMMA HalfDoneStays ==
  ASSUME NEW n \in Nodes, NEW c \in Calls, HalfDone(n, c),
         frame'[n][c] = frame[n][c],
         store'[n][frame[n][c].id] = store[n][frame[n][c].id],
         live'[n][frame[n][c].id] = live[n][frame[n][c].id],
         indexed'[n][frame[n][c].id] = indexed[n][frame[n][c].id]
  PROVE  HalfDone(n, c)'
  BY DEF HalfDone

LEMMA MethodStepAlone ==
  ASSUME NodeInv, RunningIsUp, AloneInv, NEW n \in Nodes, NEW c \in Calls,
         MethodStep(n, c), ~UndoFails(n, c)
  PROVE  AloneInv'
<1> DEFINE x == frame[n][c].id
<1>1. /\ Running(n, c) /\ frame'[n][c].id = x
      /\ \A m \in Nodes, d \in Calls : ~(m = n /\ d = c) => frame'[m][d] = frame[m][d]
  BY MethodStepEffect
<1>2. up' = up /\ up[n]
  BY <1>1, MethodStepIndexEffect DEF RunningIsUp
<1>3. x \in Ids
  BY <1>1, ArticleAssumption
  DEF NodeInv, NodeTypeOK, FrameOK, Frame, Running, Pc, RunningPc, InsertPc, DeletePc
<1>4. \A d \in Calls : Running(n, d) => d = c
  BY <1>1 DEF AloneInv, OneRuns
<1>5. \A m \in Nodes, d \in Calls : Half(m, d) => Running(m, d)
  BY DEF Half, Running, RunningPc, InsertPc, DeletePc
<1>6. InStep(n, c)
  <2>1. CASE Half(n, c)
    BY <2>1 DEF AloneInv, HalvesDone, InStep
  <2>2. CASE ~Half(n, c)
    <3>1. AtRest(n, x)
      BY <1>4, <1>5, <2>2 DEF AtRest
    <3>. QED
      BY <1>2, <1>3, <2>2, <3>1 DEF AloneInv, RestMirrored, InStep
  <2>. QED
    BY <2>1, <2>2
<1>7. /\ InStep(n, c)'
      /\ \A m \in Nodes, id \in Ids : ~(m = n /\ id = x) =>
           /\ store'[m][id] = store[m][id]
           /\ live'[m][id] = live[m][id] /\ indexed'[m][id] = indexed[m][id]
  BY <1>6, StepAtRow
<1>8. OneRuns'
  BY <1>1, <1>4 DEF AloneInv, OneRuns, Running, Pc
<1>9. RestMirrored'
  <2> SUFFICES ASSUME NEW m \in Nodes, NEW id \in Ids, up'[m], AtRest(m, id)'
               PROVE  Mirrored(m, id)'
    BY DEF RestMirrored
  <2>1. CASE m = n /\ id = x
    BY <1>1, <1>7, <2>1 DEF AtRest, InStep, Mirrored, EntryOf
  <2>2. CASE ~(m = n /\ id = x)
    <3>1. AtRest(m, id)
      BY <1>1, <2>2 DEF AtRest, Half, Pc
    <3>2. Mirrored(m, id)
      BY <1>2, <3>1 DEF AloneInv, RestMirrored
    <3>. QED
      BY <1>7, <2>2, <3>2 DEF Mirrored, EntryOf
  <2>. QED
    BY <2>1, <2>2
<1>10. HalvesDone'
  <2> SUFFICES ASSUME NEW m \in Nodes, NEW d \in Calls, Half(m, d)'
               PROVE  HalfDone(m, d)'
    BY DEF HalvesDone
  <2>1. CASE m = n /\ d = c
    BY <1>7, <2>1 DEF InStep
  <2>2. CASE ~(m = n /\ d = c)
    <3>1. Half(m, d) /\ frame'[m][d] = frame[m][d] /\ HalfDone(m, d)
      BY <1>1, <2>2 DEF Half, Pc, AloneInv, HalvesDone
    <3>2. m # n
      BY <1>4, <1>5, <2>2, <3>1
    <3>3. frame[m][d].id \in Ids
      BY <3>1 DEF NodeInv, FrameOK, Half, Pc
    <3>4. /\ store'[m][frame[m][d].id] = store[m][frame[m][d].id]
          /\ live'[m][frame[m][d].id] = live[m][frame[m][d].id]
          /\ indexed'[m][frame[m][d].id] = indexed[m][frame[m][d].id]
      BY <1>7, <3>2, <3>3
    <3>. QED
      BY <3>1, <3>4, HalfDoneStays
  <2>. QED
    BY <2>1, <2>2
<1>. QED
  BY <1>8, <1>9, <1>10 DEF AloneInv

LEMMA EnterAlone ==
  ASSUME NodeInv, AloneInv, NEW n \in Nodes, NEW c \in Calls, NEW f,
         (\E a \in Articles : f = InsertFrame(a)) \/ (\E id \in Ids : f = DeleteFrame(id)),
         Quiet(n), Enter(n, c, f), UNCHANGED <<up, store, indexVars, boundVars>>
  PROVE  AloneInv'
<1>1. /\ frame'[n][c] = f
      /\ \A m \in Nodes, d \in Calls : ~(m = n /\ d = c) => frame'[m][d] = frame[m][d]
  BY DEF Enter, NodeInv, NodeTypeOK
<1>2. f.pc \in {"store_insert", "store_get"}
  BY DEF InsertFrame, DeleteFrame
<1>3. ~Half(n, c)' /\ ~Half(n, c)
  BY <1>1, <1>2 DEF Half, Pc, Quiet, Running, RunningPc, InsertPc, DeletePc
<1>4. \A m \in Nodes, d \in Calls : Half(m, d)' <=> Half(m, d)
  BY <1>1, <1>3 DEF Half, Pc
<1>5. OneRuns'
  BY <1>1 DEF AloneInv, OneRuns, Quiet, Running, Pc
<1>6. RestMirrored'
  <2> SUFFICES ASSUME NEW m \in Nodes, NEW id \in Ids, up'[m], AtRest(m, id)'
               PROVE  Mirrored(m, id)'
    BY DEF RestMirrored
  <2>1. AtRest(m, id)
    BY <1>1, <1>3, <1>4 DEF AtRest
  <2>. QED
    BY <2>1 DEF AloneInv, RestMirrored, Mirrored, EntryOf, indexVars
<1>7. HalvesDone'
  <2> SUFFICES ASSUME NEW m \in Nodes, NEW d \in Calls, Half(m, d)'
               PROVE  HalfDone(m, d)'
    BY DEF HalvesDone
  <2>1. Half(m, d) /\ frame'[m][d] = frame[m][d]
    BY <1>1, <1>3, <1>4
  <2>2. HalfDone(m, d)
    BY <2>1 DEF AloneInv, HalvesDone
  <2>. QED
    BY <2>1, <2>2 DEF HalfDone, indexVars
<1>. QED
  BY <1>5, <1>6, <1>7 DEF AloneInv

LEMMA DownAlone ==
  ASSUME AloneInv, NodeInv, NEW D \in SUBSET Nodes, store' = store,
         \A m \in D : ~up'[m],
         \A m \in Nodes \ D : up'[m] = up[m],
         \A m \in Nodes \ D, id \in Ids :
           live'[m][id] = live[m][id] /\ indexed'[m][id] = indexed[m][id],
         \A m \in Nodes, c \in Calls :
           /\ m \notin D \/ ~Running(m, c) => frame'[m][c] = frame[m][c]
           /\ m \in D /\ Running(m, c) => frame'[m][c].pc = "failed"
  PROVE  AloneInv'
<1>1. \A m \in Nodes, c \in Calls :
        /\ Running(m, c)' => Running(m, c) /\ m \notin D
        /\ Half(m, c)' => Half(m, c) /\ m \notin D
        /\ m \notin D => (Half(m, c)' <=> Half(m, c)) /\ frame'[m][c] = frame[m][c]
  BY DEF Half, Running, Pc, RunningPc, InsertPc, DeletePc
<1>2. OneRuns'
  BY <1>1 DEF AloneInv, OneRuns
<1>3. RestMirrored'
  <2> SUFFICES ASSUME NEW m \in Nodes, NEW id \in Ids, up'[m], AtRest(m, id)'
               PROVE  Mirrored(m, id)'
    BY DEF RestMirrored
  <2>1. m \notin D /\ up[m]
    OBVIOUS
  <2>2. AtRest(m, id)
    BY <1>1, <2>1 DEF AtRest
  <2>. QED
    BY <2>1, <2>2 DEF AloneInv, RestMirrored, Mirrored, EntryOf
<1>4. HalvesDone'
  <2> SUFFICES ASSUME NEW m \in Nodes, NEW c \in Calls, Half(m, c)'
               PROVE  HalfDone(m, c)'
    BY DEF HalvesDone
  <2>1. Half(m, c) /\ m \notin D /\ frame'[m][c] = frame[m][c] /\ HalfDone(m, c)
    BY <1>1 DEF AloneInv, HalvesDone
  <2>2. frame[m][c].id \in Ids
    BY <2>1 DEF NodeInv, FrameOK, Half, Pc
  <2>3. /\ store'[m][frame[m][c].id] = store[m][frame[m][c].id]
        /\ live'[m][frame[m][c].id] = live[m][frame[m][c].id]
        /\ indexed'[m][frame[m][c].id] = indexed[m][frame[m][c].id]
    BY <2>1, <2>2
  <2>. QED
    BY <2>1, <2>3, HalfDoneStays
<1>. QED
  BY <1>2, <1>3, <1>4 DEF AloneInv

LEMMA RestartAlone ==
  ASSUME NodeInv, RunningIsUp, AloneInv, NEW n \in Nodes, Restart(n)
  PROVE  AloneInv'
<1>1. /\ ~up[n] /\ UNCHANGED <<store, frame>>
      /\ \A m \in Nodes : up'[m] = IF m = n THEN TRUE ELSE up[m]
      /\ \A m \in Nodes, id \in Ids :
           /\ m = n => live'[m][id] = EntryOf(m, id) /\ (indexed'[m][id] <=> store[m][id] # Nil)
           /\ m # n => live'[m][id] = live[m][id] /\ indexed'[m][id] = indexed[m][id]
  BY DEF Restart, EntryOf, NodeInv, NodeTypeOK
<1>2. \A m \in Nodes, c \in Calls : Half(m, c) => m # n /\ frame[m][c].id \in Ids
  BY <1>1 DEF Half, Pc, Running, RunningPc, InsertPc, DeletePc, RunningIsUp,
    NodeInv, FrameOK
<1>3. OneRuns'
  BY <1>1 DEF AloneInv, OneRuns, Running, Pc
<1>4. RestMirrored'
  <2> SUFFICES ASSUME NEW m \in Nodes, NEW id \in Ids, up'[m], AtRest(m, id)'
               PROVE  Mirrored(m, id)'
    BY DEF RestMirrored
  <2>1. AtRest(m, id) /\ EntryOf(m, id)' = EntryOf(m, id)
    BY <1>1 DEF AtRest, Half, Pc, EntryOf
  <2>2. live'[m][id] = EntryOf(m, id) /\ (indexed'[m][id] <=> store[m][id] # Nil)
    <3>1. CASE m = n
      BY <1>1, <3>1
    <3>2. CASE m # n
      <4>1. up[m] /\ live'[m][id] = live[m][id] /\ indexed'[m][id] = indexed[m][id]
        BY <1>1, <3>2
      <4>2. Mirrored(m, id)
        BY <2>1, <4>1 DEF AloneInv, RestMirrored
      <4>. QED
        BY <4>1, <4>2 DEF Mirrored
    <3>. QED
      BY <3>1, <3>2
  <2>. QED
    BY <1>1, <2>1, <2>2 DEF Mirrored
<1>5. HalvesDone'
  <2> SUFFICES ASSUME NEW m \in Nodes, NEW c \in Calls, Half(m, c)'
               PROVE  HalfDone(m, c)'
    BY DEF HalvesDone
  <2>1. Half(m, c) /\ HalfDone(m, c)
    BY <1>1 DEF AloneInv, HalvesDone, Half, Pc
  <2>2. /\ frame' = frame /\ store' = store
        /\ live'[m][frame[m][c].id] = live[m][frame[m][c].id]
        /\ indexed'[m][frame[m][c].id] = indexed[m][frame[m][c].id]
    BY <1>1, <1>2, <2>1
  <2>. QED
    BY <2>1, <2>2, HalfDoneStays
<1>. QED
  BY <1>3, <1>4, <1>5 DEF AloneInv

LEMMA AloneUnchanged ==
  ASSUME AloneInv, UNCHANGED <<up, store, live, indexed, frame>>
  PROVE  AloneInv'
<1>1. \A n \in Nodes, c \in Calls : /\ Half(n, c)' <=> Half(n, c)
                                    /\ HalfDone(n, c)' <=> HalfDone(n, c)
  BY DEF Half, HalfDone, Pc
<1>2. \A n \in Nodes, id \in Ids : /\ AtRest(n, id)' <=> AtRest(n, id)
                                   /\ Mirrored(n, id)' <=> Mirrored(n, id)
  BY DEF AtRest, Half, Pc, Mirrored, EntryOf
<1>3. OneRuns'
  BY DEF AloneInv, OneRuns, Running, Pc
<1>4. RestMirrored' /\ HalvesDone'
  BY <1>1, <1>2 DEF AloneInv, RestMirrored, HalvesDone
<1>. QED
  BY <1>3, <1>4 DEF AloneInv

LEMMA AloneInit == NodeInit => AloneInv
  BY DEF NodeInit, AloneInv, OneRuns, RestMirrored, HalvesDone, AtRest, Mirrored, EntryOf,
    HalfDone, Half, Running, Pc, IdleFrame, RunningPc, InsertPc, DeletePc

LEMMA AloneNext ==
  ASSUME Serial, MaxStoreErrors = 0, NodeInv, NodeInv', SearchInv, AloneInv,
         [NodeNext]_nodeVars
  PROVE  AloneInv'
<1>1. ASSUME NEW n \in Nodes, NEW c \in Calls, NEW a \in Articles, InsertArticle(n, c, a)
      PROVE  AloneInv'
  BY <1>1, EnterAlone DEF InsertArticle, CanStart
<1>2. ASSUME NEW n \in Nodes, NEW c \in Calls, NEW id \in Ids, DeleteArticle(n, c, id)
      PROVE  AloneInv'
  BY <1>2, EnterAlone DEF DeleteArticle, CanStart
<1>3. ASSUME NEW n \in Nodes, NEW c \in Calls, MethodStep(n, c)
      PROVE  AloneInv'
  <2>1. storeErrors' = storeErrors
    BY DEF NodeInv, NodeTypeOK
  <2>. QED
    BY <1>3, <2>1, MethodStepAlone DEF UndoFails, SearchInv
<1>4. ASSUME NEW n \in Nodes, Crash(n) \/ Stop(n)
      PROVE  AloneInv'
  <2>1. GoDown(n)
    BY <1>4 DEF Crash, Stop
  <2>2. \A m \in Nodes, id \in Ids : m \notin {n} =>
          live'[m][id] = live[m][id] /\ indexed'[m][id] = indexed[m][id]
    BY <2>1 DEF GoDown, NodeInv, NodeTypeOK
  <2>3. /\ {n} \in SUBSET Nodes
        /\ \A m \in {n} : ~up'[m]
        /\ \A m \in Nodes \ {n} : up'[m] = up[m]
    BY <2>1 DEF GoDown, NodeInv, NodeTypeOK
  <2>4. /\ store' = store
        /\ \A m \in Nodes, c \in Calls :
             /\ m \notin {n} \/ ~Running(m, c) => frame'[m][c] = frame[m][c]
             /\ m \in {n} /\ Running(m, c) => frame'[m][c].pc = "failed"
    BY <2>1, GoDownEffect
  <2>. QED
    BY <2>2, <2>3, <2>4, DownAlone
<1>5. ASSUME NEW n \in Nodes, Restart(n)
      PROVE  AloneInv'
  BY <1>5, RestartAlone DEF SearchInv
<1>6. CASE UNCHANGED nodeVars
  BY <1>6, AloneUnchanged DEF nodeVars
<1>. QED
  BY <1>1, <1>2, <1>3, <1>4, <1>5, <1>6 DEF NodeNext

\* Where nothing runs, everything is at rest.
LEMMA QuietIsMirrored ==
  ASSUME AloneInv, NEW n \in Nodes, up[n], Quiet(n), NEW id \in Ids
  PROVE  Mirrored(n, id)
<1>1. AtRest(n, id)
  BY DEF AtRest, Quiet, Half, Running, RunningPc, InsertPc, DeletePc
<1>. QED
  BY <1>1 DEF AloneInv, RestMirrored

\* A node whose caller waits for one answer before it makes the next call, on a
\* disk that does not fail: between calls the index of a running process holds
\* exactly the table, after any crashes, stops, restarts and refused inserts.
THEOREM SerialMirrorsTable ==
  ASSUME Serial, MaxStoreErrors = 0
  PROVE  NodeSpec => []IndexMirrorsTable
<1>1. NodeInit => NodeInv /\ SearchInv /\ AloneInv
  BY NodeInvInit, SearchInvInit, AloneInit
<1>2. NodeInv /\ SearchInv /\ AloneInv /\ [NodeNext]_nodeVars
      => (NodeInv /\ SearchInv /\ AloneInv)'
  BY NodeNextInv, SearchInvNext, AloneNext
<1>3. AloneInv => IndexMirrorsTable
  BY QuietIsMirrored DEF IndexMirrorsTable, Mirrored, EntryOf
<1>. QED
  BY <1>1, <1>2, <1>3, PTL DEF NodeSpec
=============================================================================
