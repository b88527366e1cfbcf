----------------------------- MODULE SessionProofs -----------------------------
(***************************************************************************)
(* Theorems about Session: the program is a client of the coordinator like *)
(* any other, its prompt is quiet, its shards open again whatever the      *)
(* embedding API answered, and what it printed of an id holds until a      *)
(* command touches the id.                                                 *)
(***************************************************************************)
EXTENDS Session, CoordinatorProofs

-----------------------------------------------------------------------------
(* The inductive invariant *)

\* Where the loop is tells what of the coordinator is at work.
ReplOK ==
  /\ repl = "off" <=> phase # "ready"
  /\ repl \notin {"insert", "delete"} => AllQuiet
  /\ repl # "query" => \A q \in Queries : ~Asked(q)
  /\ \A q \in Queries : ~Asked(q) => \A n \in Nodes : part[q][n] = IdlePart
  /\ repl \in {"fetch", "embed_article"} => UnusedCalls # {}

\* Calls are made in their order, each on one shard, and only the last one runs.
CallsOK ==
  /\ \A c, d \in Calls : Unused(c) /\ ~Unused(d) => d < c
  /\ \A n, m \in Nodes, c \in Calls : Pc(n, c) # "idle" /\ Pc(m, c) # "idle" => n = m
  /\ \A n \in Nodes, c \in Calls : Running(n, c) => c = LastCall
  /\ repl \in {"insert", "delete"} => LastCall \in Calls /\ ~Unused(LastCall)

\* A failed undo leaves a row without an entry; otherwise the two agree.
Orphan(n, id) == store[n][id] # Nil /\ live[n][id] = <<>> /\ ~indexed[n][id]
Faint(n, id) == Mirrored(n, id) \/ Orphan(n, id)
RestFaint == \A n \in Nodes, id \in Ids : up[n] /\ AtRest(n, id) => Faint(n, id)

\* The row of a call that has ended well is what the loop is about to print.
Outcome(n, c) ==
  LET f == frame[n][c] IN
  /\ f.art # Nil /\ f.pc = "ok" => store[n][f.id] = f.art /\ indexed[n][f.id]
  /\ f.art = Nil /\ f.pc \in {"ok", "notfound"} => store[n][f.id] = Nil
LastOutcome ==
  repl \in {"insert", "delete"} =>
    \A n \in Nodes : Pc(n, LastCall) # "idle" =>
      Outcome(n, LastCall) /\ (frame[n][LastCall].art = Nil <=> repl = "delete")

\* Nothing runs on an id of which something was printed.
ToldAtRest ==
  \A n \in Nodes, c \in Calls, t \in told : Running(n, c) => t.id # frame[n][c].id

WordsInv == RestFaint /\ HalvesDone /\ LastOutcome /\ ToldAtRest /\ WordsHold
SessionInv == FullInv /\ SessionTypeOK /\ ReplOK /\ CallsOK /\ WordsInv

-----------------------------------------------------------------------------
(* A session is a behaviour of the coordinator *)

\* The environment, the .env file and the default together name a known model.
LEMMA ConfiguredIsKnown ==
  ASSUME NEW env \in Environments, NEW file \in DotEnvFiles
  PROVE  EmbeddingModel(env, file) \in DOMAIN ModelDim
<1> DEFINE name == "OPENROUTER_EMBEDDING_MODEL"
           mine == {i \in DOMAIN file : file[i].name = name /\ file[i].value # ""}
           known == {""} \cup DOMAIN ModelDim
<1>1. name \in DOMAIN env /\ env[name] \in known
  BY ModelAssumption
<1>2. LoadDotEnv(env, file)[name] =
        IF env[name] # "" \/ mine = {} THEN env[name] ELSE file[Min(mine)].value
  BY <1>1 DEF LoadDotEnv
<1>3. mine # {} => Min(mine) \in mine
  <2>1. mine \in SUBSET Nat
    <3>1. file \in Seq([name : STRING, value : STRING])
      BY ModelAssumption
    <3>2. DOMAIN file \subseteq Nat
      BY <3>1
    <3>. QED
      BY <3>2
  <2>. HIDE DEF mine
  <2>. QED
    BY <2>1, MinIsLeast
<1>4. mine # {} => file[Min(mine)].value \in known
  <2>1. \A i \in mine : file[i].value \in known
    BY ModelAssumption
  <2>. QED
    BY <1>3, <2>1
<1>5. LoadDotEnv(env, file)[name] \in known
  BY <1>1, <1>2, <1>4
<1>. QED
  BY <1>5, ModelAssumption DEF EmbeddingModel

LEMMA NextCallIsNext ==
  ASSUME UnusedCalls # {}
  PROVE  NextCall \in Calls /\ Unused(NextCall) /\ \A c \in UnusedCalls : NextCall <= c
<1>1. UnusedCalls \in SUBSET Nat
  BY SessionAssumption DEF UnusedCalls
<1>2. NextCall \in UnusedCalls /\ \A c \in UnusedCalls : NextCall <= c
  BY <1>1, MinIsLeast DEF NextCall
<1>. QED
  BY <1>2 DEF UnusedCalls

\* Every step of the loop is a step of the coordinator, or none.
LEMMA SessionStep ==
  ASSUME ReplOK, [SessionNext]_sessionVars
  PROVE  [Next]_vars
<1>1. CASE Start
  BY <1>1 DEF Start, Next
<1>2. CASE Opening
  BY <1>2 DEF Opening, Next
<1>3. CASE QuitCommand \/ Killed
  BY <1>3 DEF QuitCommand, Killed, Next
<1>4. CASE InsertCommand \/ Fetch \/ QueryCommand \/ InsertAnswered \/ DeleteAnswered
           \/ QueryAnswered
  BY <1>4 DEF InsertCommand, Fetch, QueryCommand, InsertAnswered, DeleteAnswered,
    QueryAnswered, CoordUnchanged
<1>5. CASE EmbedArticle
  <2>1. UnusedCalls # {}
    BY <1>5 DEF EmbedArticle, ReplOK
  <2>2. UNCHANGED vars \/ \E d : Insert(NextCall, d)
    BY <1>5 DEF EmbedArticle, CoordUnchanged
  <2>3. ASSUME NEW d, Insert(NextCall, d)
        PROVE  Next
    <3>1. [id |-> nextDocID + 1, dim |-> d] \in Articles
      BY <2>3 DEF Insert
    <3>2. d \in {a.dim : a \in Articles}
      BY <3>1
    <3>. QED
      BY <2>1, <2>3, <3>2, NextCallIsNext DEF Next
  <2>. QED
    BY <2>2, <2>3
<1>6. ASSUME NEW id \in Ids, DeleteCommand(id)
      PROVE  Next
  BY <1>6, NextCallIsNext DEF DeleteCommand, Next
<1>7. CASE EmbedQuery
  <2>1. UNCHANGED vars \/ \E q \in Queries : QueryStart(q)
    BY <1>7 DEF EmbedQuery, CoordUnchanged, NextQueries
  <2>. QED
    BY <2>1 DEF Next
<1>8. CASE Working
  BY <1>8 DEF Working, Next
<1>9. CASE UNCHANGED sessionVars
  BY <1>9 DEF sessionVars
<1>. QED
  BY <1>1, <1>2, <1>3, <1>4, <1>5, <1>6, <1>7, <1>8, <1>9 DEF SessionNext


-----------------------------------------------------------------------------
(* To the nodes, a step of the loop begins a call, runs one, opens a shard, *)
(* ends the process, prints what came of a call, or does nothing.          *)

Begins(n, c, f) ==
  /\ Free /\ Unused(c) /\ UnusedCalls # {} /\ c = NextCall
  /\ n = Route(f.id) /\ Enter(n, c, f)
  /\ \/ (\E a \in Articles : f = InsertFrame(a)) /\ repl' = "insert"
     \/ (\E id \in Ids : f = DeleteFrame(id)) /\ repl' = "delete"
  /\ told' = Forget(f.id)
  /\ UNCHANGED <<up, store, indexVars, boundVars>>

Runs(n, c) == MethodStep(n, c) /\ UNCHANGED <<repl, told>>
Opens(n) == Restart(n) /\ repl = "off" /\ UNCHANGED <<repl, told>>
Ends == ProcessGone /\ repl' = "off" /\ UNCHANGED told
Passes ==
  /\ UNCHANGED <<up, store, live, indexed, frame, told>>
  /\ repl' \notin {"insert", "delete"} \/ repl' = repl

LEMMA StepKinds ==
  ASSUME ReplOK, [SessionNext]_sessionVars
  PROVE  \/ \E n \in Nodes, c \in Calls : Runs(n, c) \/ \E f : Begins(n, c, f)
         \/ \E n \in Nodes : Opens(n)
         \/ Ends \/ InsertAnswered \/ DeleteAnswered \/ Passes
<1>1. CASE Start
  BY <1>1 DEF Start, StartProcess, nodeVars, Passes
<1>2. ASSUME NEW n \in Nodes, OpenShard(n), UNCHANGED <<repl, told>>
      PROVE  Opens(n)
  BY <1>2 DEF OpenShard, Opens, ReplOK
<1>3. CASE StartFails /\ UNCHANGED <<repl, told>>
  BY <1>3 DEF StartFails, Ends, ReplOK
<1>4. CASE InitDocIDCounter /\ repl' = "prompt" /\ UNCHANGED told
  BY <1>4 DEF InitDocIDCounter, nodeVars, Passes
<1>5. CASE QuitCommand \/ Killed
  BY <1>5 DEF QuitCommand, Quit, Killed, ProcessDies, Ends
<1>6. CASE InsertCommand \/ Fetch \/ QueryCommand \/ QueryAnswered \/ UNCHANGED sessionVars
  BY <1>6 DEF InsertCommand, Fetch, QueryCommand, QueryAnswered, CoordUnchanged, sessionVars,
    vars, nodeVars, Passes
<1>7. CASE EmbedArticle
  <2>1. \/ repl' = "prompt" /\ CoordUnchanged /\ UNCHANGED told
        \/ \E d : Insert(NextCall, d) /\ repl' = "insert" /\ told' = Forget(nextDocID')
    BY <1>7 DEF EmbedArticle
  <2>2. CASE repl' = "prompt" /\ CoordUnchanged /\ UNCHANGED told
    BY <2>2 DEF CoordUnchanged, vars, nodeVars, Passes
  <2>3. ASSUME NEW d, Insert(NextCall, d), repl' = "insert", told' = Forget(nextDocID')
        PROVE  \E n \in Nodes, c \in Calls : \E f : Begins(n, c, f)
    <3>1. NextCall \in Calls /\ UnusedCalls # {}
      BY <1>7, NextCallIsNext DEF EmbedArticle, ReplOK
    <3>2. PICK a \in Articles :
            /\ a.id = nextDocID'
            /\ Enter(Route(a.id), NextCall, InsertFrame(a)) /\ Free /\ Unused(NextCall)
            /\ UNCHANGED <<up, store, indexVars, boundVars>>
      BY <2>3 DEF Insert
    <3>3. Route(a.id) \in Nodes /\ InsertFrame(a).id = a.id
      BY ArticleAssumption, RouteExists DEF InsertFrame
    <3>4. Begins(Route(a.id), NextCall, InsertFrame(a))
      BY <2>3, <3>1, <3>2, <3>3 DEF Begins
    <3>. QED
      BY <3>1, <3>3, <3>4
  <2>. QED
    BY <2>1, <2>2, <2>3
<1>8. ASSUME NEW id \in Ids, DeleteCommand(id)
      PROVE  \E n \in Nodes, c \in Calls : \E f : Begins(n, c, f)
  <2>1. NextCall \in Calls /\ Route(id) \in Nodes /\ DeleteFrame(id).id = id
    BY <1>8, NextCallIsNext, RouteExists DEF DeleteCommand, DeleteFrame
  <2>2. Begins(Route(id), NextCall, DeleteFrame(id))
    BY <1>8, <2>1 DEF DeleteCommand, Delete, Begins
  <2>. QED
    BY <2>1, <2>2
<1>9. CASE EmbedQuery
  <2>1. UNCHANGED nodeVars
    BY <1>9 DEF EmbedQuery, CoordUnchanged, QueryStart, vars
  <2>. QED
    BY <1>9, <2>1 DEF EmbedQuery, nodeVars, Passes
<1>10. CASE Working
  <2>1. ASSUME NEW n \in Nodes, NEW c \in Calls, CallStep(n, c)
        PROVE  Runs(n, c)
    BY <1>10, <2>1 DEF Working, CallStep, Runs
  <2>2. ASSUME NEW q \in Queries, QueryStep(q)
        PROVE  Passes
    <3>1. UNCHANGED <<up, store, live, indexed, frame>>
      BY <2>2 DEF QueryStep, SearchIndex, LoadHit, LoadError, SearchDone, Merge, nodeVars,
        indexVars
    <3>. QED
      BY <1>10, <3>1 DEF Working, Passes
  <2>. QED
    BY <1>10, <2>1, <2>2 DEF Working
<1>. QED
  BY <1>1, <1>2, <1>3, <1>4, <1>5, <1>6, <1>7, <1>8, <1>9, <1>10 DEF SessionNext, Opening

\* Where the loop is still tells what is at work.
LEMMA ReplNext ==
  ASSUME CoordInv, ReplOK, [SessionNext]_sessionVars
  PROVE  ReplOK'
<1>0. /\ answer \in [Queries -> {"none", "asked", "ok", "error"}]
      /\ part \in [Queries -> [Nodes -> PartRec]]
      /\ \A n \in Nodes, c \in Calls : MethodStep(n, c) => Running(n, c)
      /\ phase # "ready" => AllQuiet
      /\ NodeInv
  BY MethodStepEffect DEF CoordInv, NodesInv, TypeOK, PartRec, IdsInv, PhaseOK
<1>1. ASSUME frame' = frame
      PROVE  (AllQuiet' <=> AllQuiet) /\ UnusedCalls' = UnusedCalls
  BY <1>1 DEF AllQuiet, Quiet, Running, Pc, UnusedCalls, Unused
<1>2. CASE UNCHANGED <<frame, part, answer>> /\ repl' # "query" /\ repl # "query"
           /\ repl' \notin {"insert", "delete"} /\ AllQuiet
           /\ (repl' = "off" <=> phase' # "ready")
           /\ (repl' \in {"fetch", "embed_article"} => UnusedCalls # {})
  BY <1>1, <1>2 DEF ReplOK, Asked
<1>3. CASE UNCHANGED <<frame, part, answer, repl>>
           /\ ((phase' = "ready") <=> (phase = "ready"))
  BY <1>1, <1>3 DEF ReplOK, Asked
<1>4. CASE Start
  BY <1>3, <1>4 DEF Start, StartProcess, nodeVars
<1>5. ASSUME NEW n \in Nodes, OpenShard(n), UNCHANGED <<repl, told>>
      PROVE  ReplOK'
  BY <1>3, <1>5 DEF OpenShard, Restart, coordVars
<1>6. CASE ProcessGone /\ repl' = "off"
  <2>1. AllQuiet'
    <3>1. \A n \in Nodes, c \in Calls : ~Running(n, c)'
      BY <1>0, <1>6, ProcessGoneEffect DEF Running, Pc, RunningPc, InsertPc, DeletePc
    <3>. QED
      BY <3>1 DEF AllQuiet, Quiet
  <2>2. \A q \in Queries : ~Asked(q)' /\ \A n \in Nodes : part'[q][n] = IdlePart
    BY <1>0, <1>6 DEF ProcessGone, Asked
  <2>. QED
    BY <1>6, <2>1, <2>2 DEF ReplOK, ProcessGone
<1>7. CASE (StartFails /\ UNCHANGED repl) \/ QuitCommand \/ Killed
  <2>1. ProcessGone /\ repl' = "off"
    BY <1>7 DEF StartFails, QuitCommand, Quit, Killed, ProcessDies, ReplOK
  <2>. QED
    BY <1>6, <2>1
<1>8. CASE InitDocIDCounter /\ repl' = "prompt"
  BY <1>0, <1>2, <1>8 DEF InitDocIDCounter, nodeVars, ReplOK
<1>9. vars' = vars => UNCHANGED <<frame, part, answer, phase>>
  BY DEF vars, nodeVars, coordVars
<1>10. CASE InsertCommand \/ Fetch \/ QueryCommand \/ InsertAnswered \/ DeleteAnswered
  <2>1. /\ vars' = vars /\ repl # "off" /\ repl' # "off" /\ repl # "query" /\ AllQuiet
        /\ repl' \notin {"query", "insert", "delete"}
        /\ (repl' \in {"fetch", "embed_article"} => UnusedCalls # {})
    BY <1>10 DEF InsertCommand, Fetch, QueryCommand, InsertAnswered, DeleteAnswered,
      CoordUnchanged, ReplOK
  <2>. QED
    BY <1>2, <1>9, <2>1 DEF ReplOK
<1>11. CASE QueryAnswered
  BY <1>1, <1>9, <1>11 DEF QueryAnswered, CoordUnchanged, ReplOK, Asked
<1>12. ASSUME NEW m, NEW c, NEW f, Enter(m, c, f), UNCHANGED <<phase, part, answer>>,
              repl \in {"embed_article", "prompt"}, repl' \in {"insert", "delete"}
       PROVE  ReplOK'
  <2>1. /\ repl' \notin {"off", "query", "fetch", "embed_article"}
        /\ repl # "off" /\ repl # "query"
    BY <1>12
  <2>2. (repl' = "off" <=> phase' # "ready") /\ \A q \in Queries : ~Asked(q)'
    BY <1>12, <2>1 DEF ReplOK, Asked
  <2>3. \A q \in Queries, n \in Nodes : part'[q][n] = IdlePart
    BY <1>12, <2>1 DEF ReplOK
  <2>. QED
    BY <1>12, <2>1, <2>2, <2>3 DEF ReplOK
<1>13. CASE EmbedArticle
  <2>1. CASE CoordUnchanged /\ repl' = "prompt"
    BY <1>2, <1>9, <1>13, <2>1 DEF EmbedArticle, CoordUnchanged, ReplOK
  <2>2. CASE repl' = "insert" /\ \E d : Insert(NextCall, d)
    BY <1>12, <1>13, <2>2 DEF EmbedArticle, Insert
  <2>. QED
    BY <1>13, <2>1, <2>2 DEF EmbedArticle
<1>14. ASSUME NEW id \in Ids, DeleteCommand(id)
       PROVE  ReplOK'
  BY <1>12, <1>14 DEF DeleteCommand, Delete
<1>15. CASE EmbedQuery
  <2>1. CASE CoordUnchanged /\ repl' = "prompt"
    BY <1>2, <1>9, <1>15, <2>1 DEF EmbedQuery, CoordUnchanged, ReplOK
  <2>2. CASE repl' = "query" /\ \E q \in Queries : QueryStart(q)
    <3>1. PICK q \in Queries : QueryStart(q)
      BY <2>2
    <3>2. UNCHANGED <<frame, phase>> /\ phase = "ready" /\ answer'[q] = "asked"
          /\ \A r \in Queries : r # q => answer'[r] = answer[r] /\ part'[r] = part[r]
      BY <1>0, <3>1 DEF QueryStart, nodeVars, Free
    <3>3. repl = "embed_query"
      BY <1>15 DEF EmbedQuery
    <3>4. AllQuiet'
      BY <1>1, <3>2, <3>3 DEF ReplOK
    <3>5. \A r \in Queries : ~Asked(r)' => ~Asked(r) /\ part'[r] = part[r]
      BY <3>2 DEF Asked
    <3>. QED
      BY <2>2, <3>2, <3>4, <3>5 DEF ReplOK
  <2>. QED
    BY <1>15, <2>1, <2>2 DEF EmbedQuery, NextQueries
<1>16. ASSUME NEW n \in Nodes, NEW c \in Calls, CallStep(n, c), UNCHANGED repl
       PROVE  ReplOK'
  <2>1. ~AllQuiet /\ UNCHANGED <<phase, part, answer>>
    BY <1>0, <1>16 DEF CallStep, AllQuiet, Quiet
  <2>. QED
    BY <1>16, <2>1 DEF ReplOK, Asked
<1>17. ASSUME NEW q \in Queries, QueryStep(q), UNCHANGED repl
       PROVE  ReplOK'
  <2>1. UNCHANGED <<frame, phase>>
    BY <1>17 DEF QueryStep, SearchIndex, LoadHit, LoadError, SearchDone, Merge, nodeVars
  <2>2. CASE Merge(q)
    <3>1. /\ Asked(q) /\ ~Asked(q)' /\ \A n \in Nodes : part'[q][n] = IdlePart
          /\ \A r \in Queries : r # q => answer'[r] = answer[r] /\ part'[r] = part[r]
      BY <1>0, <2>2 DEF Merge, Asked
    <3>. QED
      BY <1>1, <1>17, <2>1, <3>1 DEF ReplOK, Asked
  <2>3. ASSUME NEW n \in Nodes,
               SearchIndex(q, n) \/ LoadHit(q, n) \/ LoadError(q, n) \/ SearchDone(q, n)
        PROVE  ReplOK'
    <3>1. /\ part[q][n].pc # "idle" /\ answer' = answer
          /\ \A r \in Queries : r # q => part'[r] = part[r]
      BY <1>0, <2>3 DEF SearchIndex, LoadHit, LoadError, SearchDone
    <3>2. Asked(q)
      BY <3>1 DEF ReplOK, IdlePart
    <3>. QED
      BY <1>1, <1>17, <2>1, <3>1, <3>2 DEF ReplOK, Asked
  <2>. QED
    BY <1>17, <2>2, <2>3 DEF QueryStep
<1>18. CASE Working
  BY <1>16, <1>17, <1>18 DEF Working
<1>19. CASE UNCHANGED sessionVars
  BY <1>3, <1>9, <1>19 DEF sessionVars
<1>20. CASE Opening
  BY <1>5, <1>7, <1>8, <1>20 DEF Opening
<1>. QED
  BY <1>4, <1>7, <1>10, <1>11, <1>13, <1>14, <1>15, <1>18, <1>19, <1>20 DEF SessionNext

-----------------------------------------------------------------------------
(* The calls *)

LEMMA BeginsEffect ==
  ASSUME NodeInv, NEW n \in Nodes, NEW c \in Calls, NEW f, Begins(n, c, f)
  PROVE  /\ AllQuiet /\ f.id \in Ids /\ f.pc \in {"store_insert", "store_get"}
         /\ f.art \in Articles \cup {Nil}
         /\ repl' \in {"insert", "delete"} /\ (f.art = Nil <=> repl' = "delete")
         /\ frame'[n][c] = f
         /\ \A m \in Nodes, d \in Calls : ~(m = n /\ d = c) => frame'[m][d] = frame[m][d]
  BY ArticleAssumption, SessionAssumption
  DEF Begins, Free, Enter, NodeInv, NodeTypeOK, InsertFrame, DeleteFrame

\* Every other step leaves the calls what they are, and starts none.
CallsKept ==
  /\ repl' \in {"insert", "delete"} => repl' = repl
  /\ \A n \in Nodes, c \in Calls :
       /\ frame'[n][c].id = frame[n][c].id
       /\ frame'[n][c].art = frame[n][c].art
       /\ Pc(n, c)' = "idle" <=> Pc(n, c) = "idle"
       /\ Running(n, c)' => Running(n, c)

LEMMA CallsStay ==
  ASSUME NodeInv, ReplOK, [SessionNext]_sessionVars,
         ~\E n \in Nodes, c \in Calls : \E f : Begins(n, c, f)
  PROVE  /\ CallsKept
         /\ \A c \in Calls : Unused(c)' <=> Unused(c)
         /\ LastCall' = LastCall
<1>1. CallsKept
  <2>1. ASSUME NEW n \in Nodes, NEW c \in Calls, Runs(n, c)
        PROVE  CallsKept
    <3>1. /\ Running(n, c) /\ Pc(n, c)' \in RunningPc \cup ResultPc
          /\ \A m \in Nodes, d \in Calls :
               /\ frame'[m][d].id = frame[m][d].id /\ frame'[m][d].art = frame[m][d].art
               /\ ~(m = n /\ d = c) => frame'[m][d] = frame[m][d]
      BY <2>1, MethodStepEffect DEF Runs
    <3>2. Pc(n, c)' # "idle" /\ Pc(n, c) # "idle"
      BY <3>1 DEF Running, RunningPc, InsertPc, DeletePc, ResultPc
    <3>. QED
      BY <2>1, <3>1, <3>2 DEF CallsKept, Runs, Running, Pc
  <2>2. CASE Ends
    <3>1. \A m \in Nodes, d \in Calls :
            /\ frame'[m][d].id = frame[m][d].id /\ frame'[m][d].art = frame[m][d].art
            /\ ~Running(m, d) => frame'[m][d] = frame[m][d]
            /\ Running(m, d) => frame'[m][d].pc = "failed"
      BY <2>2, ProcessGoneEffect DEF Ends
    <3>. QED
      BY <2>2, <3>1 DEF CallsKept, Ends, Running, Pc, RunningPc, InsertPc, DeletePc
  <2>3. ASSUME frame' = frame, repl' \in {"insert", "delete"} => repl' = repl
        PROVE  CallsKept
    BY <2>3 DEF CallsKept, Running, Pc
  <2>4. CASE InsertAnswered \/ DeleteAnswered
    BY <2>3, <2>4 DEF InsertAnswered, DeleteAnswered, CoordUnchanged, vars, nodeVars
  <2>5. CASE Passes
    BY <2>3, <2>5 DEF Passes
  <2>6. ASSUME NEW n \in Nodes, Opens(n)
        PROVE  CallsKept
    BY <2>3, <2>6 DEF Opens, Restart
  <2>. QED
    BY <2>1, <2>2, <2>4, <2>5, <2>6, StepKinds
<1>2. \A c \in Calls : Unused(c)' <=> Unused(c)
  BY <1>1 DEF CallsKept, Unused
<1>3. LastCall' = LastCall
  <2>1. UnusedCalls' = UnusedCalls
    BY <1>2 DEF UnusedCalls
  <2>. QED
    BY <2>1 DEF LastCall
<1>. QED
  BY <1>1, <1>2, <1>3

LEMMA CallsNext ==
  ASSUME NodeInv, ReplOK, CallsOK, [SessionNext]_sessionVars
  PROVE  CallsOK'
<1>1. ASSUME NEW n \in Nodes, NEW c \in Calls, NEW f, Begins(n, c, f)
      PROVE  CallsOK'
  <2>1. /\ AllQuiet /\ f.pc \in {"store_insert", "store_get"} /\ frame'[n][c] = f
        /\ \A m \in Nodes, d \in Calls : ~(m = n /\ d = c) => frame'[m][d] = frame[m][d]
    BY <1>1, BeginsEffect
  <2>2. /\ Unused(c) /\ c \in UnusedCalls /\ \A d \in UnusedCalls : c <= d
        /\ Calls \subseteq Nat
    BY <1>1, NextCallIsNext, SessionAssumption DEF Begins, UnusedCalls
  <2>3. \A d \in Calls : Unused(d)' <=> Unused(d) /\ d # c
    BY <2>1, <2>2 DEF Unused, Pc
  <2>4. \A d, e \in Calls : Unused(d)' /\ ~Unused(e)' => e < d
    <3> SUFFICES ASSUME NEW d \in Calls, NEW e \in Calls, Unused(d), d # c, ~Unused(e) \/ e = c
                 PROVE  e < d
      BY <2>3
    <3>1. d \in UnusedCalls
      BY DEF UnusedCalls
    <3>. QED
      BY <2>2, <3>1 DEF CallsOK
  <2>5. LastCall' = c
    <3>1. UnusedCalls' = UnusedCalls \ {c}
      BY <2>3 DEF UnusedCalls
    <3>2. c \in Calls \ UnusedCalls' /\ \A e \in Calls \ UnusedCalls' : e <= c /\ e \in Nat
      <4>1. ASSUME NEW e \in Calls, ~Unused(e)
            PROVE  e <= c
        BY <2>2, <4>1 DEF CallsOK
      <4>. QED
        BY <2>2, <3>1, <4>1 DEF UnusedCalls
    <3>3. \A x \in Calls \ UnusedCalls' :
            (\A y \in Calls \ UnusedCalls' : x >= y) <=> x = c
      BY <3>2
    <3>4. Max(Calls \ UnusedCalls') = c
      BY <3>2, <3>3 DEF Max
    <3>. QED
      BY <3>4 DEF LastCall
  <2>6. \A m, k \in Nodes, d \in Calls : Pc(m, d)' # "idle" /\ Pc(k, d)' # "idle" => m = k
    BY <2>1, <2>2 DEF CallsOK, Unused, Pc
  <2>7. \A m \in Nodes, d \in Calls : Running(m, d)' => d = c
    BY <2>1 DEF AllQuiet, Quiet, Running, Pc
  <2>. QED
    BY <2>3, <2>4, <2>5, <2>6, <2>7 DEF CallsOK
<1>2. ASSUME ~\E n \in Nodes, c \in Calls : \E f : Begins(n, c, f)
      PROVE  CallsOK'
  BY <1>2, CallsStay DEF CallsOK, CallsKept
<1>. QED
  BY <1>1, <1>2

\* The frame the loop looks at is that of the call it has made.
LEMMA LastFrameIs ==
  ASSUME CallsOK, repl \in {"insert", "delete"}
  PROVE  \E n \in Nodes : /\ LastCall \in Calls /\ Pc(n, LastCall) # "idle"
                         /\ LastFrame = frame[n][LastCall]
<1>1. LastCall \in Calls /\ \E n \in Nodes : Pc(n, LastCall) # "idle"
  BY DEF CallsOK, Unused
<1>2. PICK n \in Nodes : n = CHOOSE m \in Nodes : Pc(m, LastCall) # "idle"
  BY <1>1
<1>. QED
  BY <1>1, <1>2 DEF LastFrame

-----------------------------------------------------------------------------
(* Types *)

LEMMA SessionTypeNext ==
  ASSUME NodeInv, ReplOK, CallsOK, SessionTypeOK, [SessionNext]_sessionVars
  PROVE  SessionTypeOK'
<1>1. repl' \in {"off", "prompt", "fetch", "embed_article", "insert", "delete",
                 "embed_query", "query"}
  BY DEF SessionTypeOK, SessionNext, sessionVars, Start, Opening, QuitCommand, Killed,
    InsertCommand, Fetch, EmbedArticle, DeleteCommand, QueryCommand, EmbedQuery, Working,
    InsertAnswered, DeleteAnswered, QueryAnswered
<1>2. model' \in DOMAIN ModelDim
  <2>1. CASE Start
    BY <2>1, ConfiguredIsKnown DEF Start
  <2>2. CASE ~Start
    <3>1. model' = model
      BY <2>2 DEF SessionNext, sessionVars, Opening, QuitCommand, Killed,
        InsertCommand, Fetch, EmbedArticle, DeleteCommand, QueryCommand, EmbedQuery, Working,
        InsertAnswered, DeleteAnswered, QueryAnswered
    <3>. QED
      BY <3>1 DEF SessionTypeOK
  <2>. QED
    BY <2>1, <2>2
<1>3. told' \subseteq [id : Ids, art : Articles \cup {Nil}]
  <2>0. told \subseteq [id : Ids, art : Articles \cup {Nil}]
    BY DEF SessionTypeOK
  <2>1. CASE InsertAnswered \/ DeleteAnswered
    <3>1. PICK n \in Nodes : /\ LastCall \in Calls /\ Pc(n, LastCall) # "idle"
                             /\ LastFrame = frame[n][LastCall]
      BY <2>1, LastFrameIs DEF InsertAnswered, DeleteAnswered
    <3>2. LastFrame.id \in Ids /\ LastFrame.art \in Articles \cup {Nil}
      BY <3>1 DEF NodeInv, NodeTypeOK, FrameOK, Frame, Pc
    <3>3. told' \in {told, Printed(LastFrame.id, LastFrame.art), Printed(LastFrame.id, Nil)}
      BY <2>1 DEF InsertAnswered, DeleteAnswered
    <3>. QED
      BY <2>0, <3>2, <3>3 DEF Printed, Forget
  <2>2. CASE told' = told \/ \E id : told' = Forget(id)
    BY <2>0, <2>2 DEF Forget
  <2>. QED
    BY <2>1, <2>2, StepKinds DEF Begins, Runs, Opens, Ends, Passes
<1>. QED
  BY <1>1, <1>2, <1>3 DEF SessionTypeOK

-----------------------------------------------------------------------------
(* What was printed.  RestFaint and HalvesDone play the part of AloneInv,  *)
(* for a disk that may fail: an undo that fails leaves an orphan, which a   *)
(* later delete takes away like any other row.                             *)

\* The id of call c is as the call expects it, or has an orphan.
FaintStep(n, c) == IF Half(n, c) THEN HalfDone(n, c) ELSE Faint(n, frame[n][c].id)

LEMMA StepAtFaintRow ==
  ASSUME NodeInv, NEW n \in Nodes, NEW c \in Calls, MethodStep(n, c), FaintStep(n, c)
  PROVE  FaintStep(n, c)'
<1> DEFINE x == frame[n][c].id
<1>0. /\ frame \in [Nodes -> [Calls -> Frame]] /\ storeErrors \in Nat
      /\ frame'[n][c].id = x /\ x \in Ids
      /\ \A pc : Goto(n, c, pc) => frame'[n][c].pc = pc
  <2>1. frame \in [Nodes -> [Calls -> Frame]] /\ storeErrors \in Nat
    BY BoundAssumption DEF NodeInv, NodeTypeOK
  <2>2. frame'[n][c].id = x /\ Running(n, c)
    BY MethodStepEffect
  <2>3. \A pc : Goto(n, c, pc) => frame'[n][c].pc = pc
    BY <2>1, GotoFrames
  <2>. QED
    BY <2>1, <2>2, <2>3 DEF NodeInv, FrameOK, Running, Pc, RunningPc, InsertPc, DeletePc
<1>1. CASE InStep(n, c)
  <2>1. CASE InStep(n, c)'
    BY <2>1 DEF InStep, FaintStep, Faint
  <2>2. CASE UndoFails(n, c)
    <3>1. StoreError(n, c) /\ Pc(n, c) = "undo_insert"
      BY <2>2 DEF UndoFails, MethodStep, UndoInsert, StoreInsert, IndexInsert, StoreGet,
        StoreDelete, IndexDelete, boundVars
    <3>2. frame'[n][c].pc = "failed" /\ UNCHANGED <<store, live, indexed>>
      BY <1>0, <3>1 DEF StoreError, indexVars
    <3>3. store[n][x] # Nil /\ live[n][x] = <<>> /\ ~indexed[n][x]
      <4>1. frame[n][c].art # Nil
        BY <3>1, ArticleAssumption DEF NodeInv, FrameOK, Pc, InsertPc
      <4>. QED
        BY <1>1, <3>1, <4>1 DEF InStep, Half, HalfDone, Pc
    <3>. QED
      BY <1>0, <3>2, <3>3 DEF FaintStep, Half, Faint, Orphan, Pc
  <2>. QED
    BY <1>1, <2>1, <2>2, StepAtRow
<1>2. CASE ~InStep(n, c)
  <2>1. /\ store[n][x] # Nil /\ live[n][x] = <<>> /\ ~indexed[n][x]
        /\ ~Half(n, c)
    BY <1>2 DEF FaintStep, InStep, Faint, Orphan
  <2>2. ASSUME UNCHANGED <<store, live, indexed>>, NEW pc, Goto(n, c, pc),
               pc \in {"failed", "notfound", "store_delete"}
        PROVE  FaintStep(n, c)'
    BY <1>0, <2>1, <2>2 DEF FaintStep, Half, Faint, Orphan, Pc
  <2>3. CASE StoreInsert(n, c) \/ StoreGet(n, c) \/ StoreError(n, c)
    BY <2>1, <2>2, <2>3 DEF StoreInsert, StoreGet, StoreError, Row, indexVars
  <2>4. CASE StoreDelete(n, c)
    <3>1. /\ frame'[n][c].pc = "index_delete" /\ UNCHANGED <<live, indexed>>
          /\ store'[n][x] = Nil
      BY <1>0, <2>4 DEF StoreDelete, SetRow, indexVars, NodeInv, NodeTypeOK
    <3>. QED
      BY <1>0, <2>1, <3>1 DEF FaintStep, Half, HalfDone, Pc
  <2>. QED
    BY <2>1, <2>3, <2>4 DEF MethodStep, IndexInsert, UndoInsert, IndexDelete, Half
<1>. QED
  BY <1>1, <1>2

\* A method returns "ok" or "notfound" only with the row as it says.
LEMMA StepOutcome ==
  ASSUME NodeInv, NEW n \in Nodes, NEW c \in Calls, MethodStep(n, c),
         Half(n, c) => HalfDone(n, c)
  PROVE  Outcome(n, c)'
<1> DEFINE x == frame[n][c].id
           a == frame[n][c].art
<1>1. /\ frame'[n][c].id = x /\ frame'[n][c].art = a
      /\ Pc(n, c) \in InsertPc => a # Nil
      /\ Pc(n, c) \in DeletePc => a = Nil
  BY MethodStepEffect, ArticleAssumption DEF NodeInv, FrameOK, Pc
<1>2. ASSUME a # Nil, Pc(n, c)' = "ok"
      PROVE  store'[n][x] = a /\ indexed'[n][x]
  <2>1. Pc(n, c) = "index_insert" /\ store' = store /\ indexed'[n][x]
    <3>1. Pc(n, c) # "index_delete"
      BY <1>1, <1>2 DEF DeletePc
    <3>2. x \in Ids
      BY <1>2, MethodStepEffect DEF NodeInv, FrameOK, Pc, Running, RunningPc, InsertPc, DeletePc
    <3>. QED
      BY <1>2, <3>1, <3>2, MethodStepIndexEffect
  <2>. QED
    BY <2>1 DEF Half, HalfDone, Pc
<1>3. ASSUME a = Nil, Pc(n, c)' \in {"ok", "notfound"}
      PROVE  store'[n][x] = Nil
  <2>0. \A pc : Goto(n, c, pc) => Pc(n, c)' = pc
    BY GotoFrames DEF NodeInv, NodeTypeOK, Pc
  <2>1. CASE StoreGet(n, c)
    <3>1. store' = store /\ (Row(n, c) # Nil => Pc(n, c)' = "store_delete")
      BY <2>0, <2>1 DEF StoreGet
    <3>. QED
      BY <1>3, <3>1 DEF Row
  <2>2. CASE IndexDelete(n, c)
    BY <2>2 DEF IndexDelete, Half, HalfDone, Pc
  <2>3. CASE StoreDelete(n, c) \/ StoreError(n, c)
    BY <1>3, <2>0, <2>3 DEF StoreDelete, StoreError
  <2>. QED
    BY <1>1, <1>3, <2>1, <2>2, <2>3 DEF MethodStep, StoreInsert, IndexInsert, UndoInsert, InsertPc
<1> HIDE DEF x, a
<1>. QED
  BY <1>1, <1>2, <1>3 DEF Outcome, Pc

\* What was printed of t is what node n has.
HoldsAt(t, n) ==
  LET here == IF n = Route(t.id) THEN t.art ELSE Nil IN
  /\ store[n][t.id] = here
  /\ up[n] => live[n][t.id] = IF here = Nil THEN <<>> ELSE <<here>>

LEMMA ToldTyped ==
  ASSUME SessionTypeOK, NEW t \in told
  PROVE  t.id \in Ids /\ t.art \in Articles \cup {Nil}
  BY DEF SessionTypeOK

LEMMA HalfRuns == \A n \in Nodes, c \in Calls : Half(n, c) => Running(n, c)
  BY DEF Half, Running, RunningPc, InsertPc, DeletePc

\* Where nothing runs, what is not an orphan is mirrored.
LEMMA QuietIsFaint ==
  ASSUME AllQuiet, WordsInv, NEW n \in Nodes, up[n], NEW id \in Ids
  PROVE  Faint(n, id)
<1>1. AtRest(n, id)
  BY HalfRuns DEF AtRest, AllQuiet, Quiet
<1>. QED
  BY <1>1 DEF WordsInv, RestFaint

LEMMA RunsWords ==
  ASSUME NodeInv, SearchInv, CallsOK, SessionTypeOK, WordsInv,
         NEW n \in Nodes, NEW c \in Calls, Runs(n, c), LastCall' = LastCall
  PROVE  WordsInv'
<1> DEFINE x == frame[n][c].id
<1>1. /\ MethodStep(n, c) /\ Running(n, c) /\ UNCHANGED <<repl, told>>
      /\ frame'[n][c].id = x /\ frame'[n][c].art = frame[n][c].art
      /\ \A m \in Nodes, d \in Calls : ~(m = n /\ d = c) => frame'[m][d] = frame[m][d]
  BY MethodStepEffect DEF Runs
<1>2. up' = up /\ up[n] /\ x \in Ids
  BY <1>1, MethodStepIndexEffect
  DEF SearchInv, RunningIsUp, NodeInv, FrameOK, Running, Pc, RunningPc, InsertPc, DeletePc
<1>3. c = LastCall /\ \A m \in Nodes, d \in Calls : Running(m, d) => m = n /\ d = c
  <2>1. \A m \in Nodes, d \in Calls : Running(m, d) => Pc(m, d) # "idle" /\ d = LastCall
    BY DEF CallsOK, Running, RunningPc, InsertPc, DeletePc
  <2>. QED
    BY <1>1, <2>1 DEF CallsOK
<1>4. Half(n, c) => HalfDone(n, c)
  BY DEF WordsInv, HalvesDone
<1>5. FaintStep(n, c)
  <2>1. CASE ~Half(n, c)
    <3>1. AtRest(n, x)
      BY <1>3, <2>1, HalfRuns DEF AtRest
    <3>. QED
      BY <1>2, <2>1, <3>1 DEF WordsInv, RestFaint, FaintStep
  <2>. QED
    BY <1>4, <2>1 DEF FaintStep
<1>6. FaintStep(n, c)' /\ Outcome(n, c)'
  BY <1>1, <1>4, <1>5, StepAtFaintRow, StepOutcome
<1>7. \A m \in Nodes, id \in Ids : ~(m = n /\ id = x) =>
        store'[m][id] = store[m][id] /\ live'[m][id] = live[m][id]
        /\ indexed'[m][id] = indexed[m][id]
  BY <1>1, StepAtRow
<1>8. RestFaint'
  <2> SUFFICES ASSUME NEW m \in Nodes, NEW id \in Ids, up'[m], AtRest(m, id)'
               PROVE  Faint(m, id)'
    BY DEF RestFaint
  <2>1. CASE m = n /\ id = x
    BY <1>1, <1>6, <2>1 DEF AtRest, FaintStep, Faint, Mirrored, Orphan, EntryOf
  <2>2. CASE ~(m = n /\ id = x)
    <3>1. AtRest(m, id)
      BY <1>1, <2>2 DEF AtRest, Half, Pc
    <3>2. Faint(m, id)
      BY <1>2, <3>1 DEF WordsInv, RestFaint
    <3>. QED
      BY <1>7, <2>2, <3>2 DEF Faint, Mirrored, Orphan, EntryOf
  <2>. QED
    BY <2>1, <2>2
<1>9. HalvesDone'
  <2> SUFFICES ASSUME NEW m \in Nodes, NEW d \in Calls, Half(m, d)'
               PROVE  HalfDone(m, d)'
    BY DEF HalvesDone
  <2>1. ~(m = n /\ d = c) => ~Half(m, d)'
    BY <1>1, <1>3, HalfRuns DEF Half, Pc
  <2>. QED
    BY <1>6, <2>1 DEF FaintStep
<1>10. LastOutcome'
  <2> SUFFICES ASSUME repl' \in {"insert", "delete"}, NEW m \in Nodes, Pc(m, c)' # "idle"
               PROVE  Outcome(m, c)' /\ (frame'[m][c].art = Nil <=> repl' = "delete")
    BY <1>3 DEF LastOutcome
  <2>1. Pc(n, c) # "idle"
    BY <1>1 DEF Running, RunningPc, InsertPc, DeletePc
  <2>2. m = n
    BY <1>1, <2>1 DEF CallsOK, Pc
  <2>3. frame[n][c].art = Nil <=> repl = "delete"
    BY <1>1, <1>3, <2>1 DEF WordsInv, LastOutcome
  <2>. QED
    BY <1>1, <1>6, <2>2, <2>3
<1>11. ToldAtRest'
  <2>1. \A m \in Nodes, d \in Calls : Running(m, d)' => Running(m, d)
    BY <1>1 DEF Running, Pc
  <2>2. \A m \in Nodes, d \in Calls : frame'[m][d].id = frame[m][d].id
    BY <1>1
  <2>. QED
    BY <1>1, <2>1, <2>2 DEF WordsInv, ToldAtRest
<1>12. WordsHold'
  <2> SUFFICES ASSUME NEW t \in told, NEW m \in Nodes
               PROVE  HoldsAt(t, m)'
    BY <1>1 DEF WordsHold, HoldsAt
  <2>1. t.id \in Ids /\ t.id # x /\ HoldsAt(t, m)
    BY <1>1, ToldTyped DEF WordsInv, ToldAtRest, WordsHold, HoldsAt
  <2>. QED
    BY <1>2, <1>7, <2>1 DEF HoldsAt, Route
<1>. QED
  BY <1>8, <1>9, <1>10, <1>11, <1>12 DEF WordsInv

LEMMA BeginsWords ==
  ASSUME NodeInv, SessionTypeOK, WordsInv, NEW n \in Nodes, NEW c \in Calls, NEW f,
         Begins(n, c, f), CallsOK'
  PROVE  WordsInv'
<1>1. /\ AllQuiet /\ f.id \in Ids /\ f.pc \in {"store_insert", "store_get"}
      /\ f.art = Nil <=> repl' = "delete"
      /\ frame'[n][c] = f
      /\ \A m \in Nodes, d \in Calls : ~(m = n /\ d = c) => frame'[m][d] = frame[m][d]
  BY BeginsEffect
<1>2. UNCHANGED <<up, store, live, indexed>> /\ told' = Forget(f.id)
  BY DEF Begins, indexVars
<1>3. \A m \in Nodes, d \in Calls :
        /\ ~Half(m, d) /\ ~Half(m, d)'
        /\ Running(m, d)' <=> m = n /\ d = c
  BY <1>1 DEF AllQuiet, Quiet, Half, Running, Pc, RunningPc, InsertPc, DeletePc
<1>4. RestFaint'
  <2> SUFFICES ASSUME NEW m \in Nodes, NEW id \in Ids, up[m]
               PROVE  Faint(m, id)'
    BY <1>2 DEF RestFaint
  <2>1. Faint(m, id)
    BY <1>1, QuietIsFaint
  <2>. QED
    BY <1>2, <2>1 DEF Faint, Mirrored, Orphan, EntryOf
<1>5. HalvesDone'
  BY <1>3 DEF HalvesDone
<1>6. LastOutcome'
  <2> SUFFICES ASSUME NEW m \in Nodes, Pc(m, LastCall)' # "idle"
               PROVE  (Outcome(m, LastCall) /\ (frame[m][LastCall].art = Nil <=> repl = "delete"))'
    BY DEF LastOutcome
  <2>1. LastCall' = c
    BY <1>3 DEF CallsOK
  <2>2. m = n
    BY <1>1, <2>1 DEF CallsOK, Pc
  <2>. QED
    BY <1>1, <2>1, <2>2 DEF Outcome
<1>7. ToldAtRest'
  BY <1>1, <1>2, <1>3 DEF ToldAtRest, Forget
<1>8. WordsHold'
  <2> SUFFICES ASSUME NEW t \in told', NEW m \in Nodes
               PROVE  HoldsAt(t, m)'
    BY DEF WordsHold, HoldsAt
  <2>1. t \in told /\ HoldsAt(t, m)
    BY <1>2 DEF WordsInv, WordsHold, HoldsAt, Forget
  <2>. QED
    BY <1>2, <2>1 DEF HoldsAt, Route
<1>. QED
  BY <1>4, <1>5, <1>6, <1>7, <1>8 DEF WordsInv

LEMMA FaintUnchanged ==
  ASSUME RestFaint, HalvesDone, UNCHANGED <<up, store, live, indexed, frame>>
  PROVE  RestFaint' /\ HalvesDone'
<1>1. \A m \in Nodes, id \in Ids : /\ AtRest(m, id)' <=> AtRest(m, id)
                                   /\ Faint(m, id)' <=> Faint(m, id)
  BY DEF AtRest, Half, Pc, Faint, Mirrored, Orphan, EntryOf
<1>2. \A m \in Nodes, c \in Calls : /\ Half(m, c)' <=> Half(m, c)
                                    /\ HalfDone(m, c)' <=> HalfDone(m, c)
  BY DEF Half, Pc, HalfDone
<1>. QED
  BY <1>1, <1>2 DEF RestFaint, HalvesDone

LEMMA AnsweredWords ==
  ASSUME FullInv, SessionTypeOK, ReplOK, CallsOK, WordsInv, InsertAnswered \/ DeleteAnswered
  PROVE  WordsInv'
<1>1. /\ AllQuiet /\ repl \in {"insert", "delete"} /\ repl' = "prompt"
      /\ UNCHANGED <<up, store, live, indexed, frame>>
  BY DEF InsertAnswered, DeleteAnswered, CoordUnchanged, vars, nodeVars
<1>2. \A n \in Nodes, c \in Calls : ~Running(n, c)'
  BY <1>1 DEF AllQuiet, Quiet, Running, Pc
<1>3. RestFaint' /\ HalvesDone'
  BY <1>1, FaintUnchanged DEF WordsInv
<1>4. LastOutcome' /\ ToldAtRest'
  BY <1>1, <1>2 DEF LastOutcome, ToldAtRest
<1>5. PICK n \in Nodes : /\ LastCall \in Calls /\ Pc(n, LastCall) # "idle"
                         /\ LastFrame = frame[n][LastCall]
  BY <1>1, LastFrameIs
<1>6. /\ LastFrame.id \in Ids /\ n = Route(LastFrame.id)
      /\ Outcome(n, LastCall) /\ (LastFrame.art = Nil <=> repl = "delete")
  BY <1>1, <1>5 DEF FullInv, CoordInv, NodesInv, NodeInv, FrameOK, IdsInv, RoutedOK, Pc,
    WordsInv, LastOutcome
<1>7. ASSUME NEW art, NEW m \in Nodes,
             store[n][LastFrame.id] = art, art # Nil => indexed[n][LastFrame.id]
      PROVE  HoldsAt([id |-> LastFrame.id, art |-> art], m)
  <2> DEFINE id == LastFrame.id
             here == IF m = n THEN art ELSE Nil
  <2>1. store[m][id] = here
    BY <1>6, <1>7 DEF FullInv, CoordInv, IdsInv, RoutedOK
  <2>2. up[m] => Faint(m, id)
    BY <1>1, <1>6, QuietIsFaint
  <2>3. up[m] => live[m][id] = IF here = Nil THEN <<>> ELSE <<here>>
    BY <1>7, <2>1, <2>2 DEF Faint, Mirrored, Orphan, EntryOf
  <2>. QED
    BY <1>6, <2>1, <2>3 DEF HoldsAt
<1>8. \/ told' = told
      \/ \E art : /\ told' = Forget(LastFrame.id) \cup {[id |-> LastFrame.id, art |-> art]}
                  /\ store[n][LastFrame.id] = art
                  /\ art # Nil => indexed[n][LastFrame.id]
  <2>1. CASE InsertAnswered
    <3>1. \/ told' = told
          \/ LastFrame.pc = "ok" /\ told' = Printed(LastFrame.id, LastFrame.art)
      BY <2>1 DEF InsertAnswered
    <3>2. LastFrame.pc = "ok" => /\ store[n][LastFrame.id] = LastFrame.art
                                 /\ indexed[n][LastFrame.id]
      BY <1>5, <1>6, <2>1 DEF InsertAnswered, Outcome
    <3>. QED
      BY <3>1, <3>2 DEF Printed
  <2>2. CASE DeleteAnswered
    <3>1. \/ told' = told
          \/ LastFrame.pc \in {"ok", "notfound"} /\ told' = Printed(LastFrame.id, Nil)
      BY <2>2 DEF DeleteAnswered
    <3>2. LastFrame.pc \in {"ok", "notfound"} => store[n][LastFrame.id] = Nil
      BY <1>5, <1>6, <2>2 DEF DeleteAnswered, Outcome
    <3>. QED
      BY <3>1, <3>2 DEF Printed
  <2>. QED
    BY <2>1, <2>2
<1>9. \A t \in told', m \in Nodes : HoldsAt(t, m)
  <2>1. \A t \in told, m \in Nodes : HoldsAt(t, m)
    BY DEF WordsInv, WordsHold, HoldsAt
  <2>. QED
    BY <1>7, <1>8, <2>1 DEF Forget
<1>10. WordsHold'
  BY <1>1, <1>9 DEF WordsHold, HoldsAt, Route
<1>. QED
  BY <1>3, <1>4, <1>10 DEF WordsInv

LEMMA WordsNext ==
  ASSUME FullInv, ReplOK, CallsOK, CallsOK', SessionTypeOK, WordsInv,
         [SessionNext]_sessionVars
  PROVE  WordsInv'
<1>0. NodeInv /\ SearchInv
  BY DEF FullInv, CoordInv, NodesInv
<1>1. ASSUME NEW n \in Nodes, NEW c \in Calls, NEW f, Begins(n, c, f)
      PROVE  WordsInv'
  BY <1>0, <1>1, BeginsWords
<1>2. CASE InsertAnswered \/ DeleteAnswered
  BY <1>2, AnsweredWords
<1>3. ASSUME ~\E n \in Nodes, c \in Calls : \E f : Begins(n, c, f)
      PROVE  LastCall' = LastCall /\ CallsKept
  BY <1>0, <1>3, CallsStay
<1>4. ASSUME NEW n \in Nodes, NEW c \in Calls, Runs(n, c), LastCall' = LastCall
      PROVE  WordsInv'
  BY <1>0, <1>4, RunsWords
<1>5. ASSUME NEW n \in Nodes, Opens(n), CallsKept
      PROVE  WordsInv'
  <2>1. /\ UNCHANGED <<store, frame, told, repl>> /\ repl = "off" /\ AllQuiet
        /\ \A m \in Nodes : up'[m] = IF m = n THEN TRUE ELSE up[m]
        /\ \A m \in Nodes, id \in Ids :
             /\ m = n => live'[m][id] = EntryOf(m, id) /\ (indexed'[m][id] <=> store[m][id] # Nil)
             /\ m # n => live'[m][id] = live[m][id] /\ indexed'[m][id] = indexed[m][id]
    BY <1>0, <1>5 DEF Opens, Restart, EntryOf, NodeInv, NodeTypeOK, ReplOK
  <2>2. \A m \in Nodes, c \in Calls : ~Half(m, c)' /\ ~Running(m, c)'
    BY <2>1, HalfRuns DEF AllQuiet, Quiet, Half, Running, Pc
  <2>3. RestFaint'
    <3> SUFFICES ASSUME NEW m \in Nodes, NEW id \in Ids, up'[m]
                 PROVE  Faint(m, id)'
      BY DEF RestFaint
    <3>1. m # n => Faint(m, id)
      BY <2>1, QuietIsFaint
    <3>. QED
      BY <2>1, <3>1 DEF Faint, Mirrored, Orphan, EntryOf
  <2>4. HalvesDone' /\ LastOutcome' /\ ToldAtRest'
    BY <2>1, <2>2 DEF HalvesDone, LastOutcome, ToldAtRest
  <2>5. WordsHold'
    <3> SUFFICES ASSUME NEW t \in told, NEW m \in Nodes
                 PROVE  HoldsAt(t, m)'
      BY <2>1 DEF WordsHold, HoldsAt
    <3>1. t.id \in Ids /\ HoldsAt(t, m)
      BY ToldTyped DEF WordsInv, WordsHold, HoldsAt
    <3>2. /\ store'[m][t.id] = store[m][t.id]
          /\ \/ live'[m][t.id] = EntryOf(m, t.id)
             \/ up'[m] = up[m] /\ live'[m][t.id] = live[m][t.id]
      BY <2>1, <3>1
    <3>. QED
      BY <3>1, <3>2 DEF HoldsAt, Route, EntryOf
  <2>. QED
    BY <2>3, <2>4, <2>5 DEF WordsInv
<1>6. CASE Ends
  <2>1. /\ \A n \in Nodes : ~up'[n]
        /\ UNCHANGED <<store, told>> /\ repl' = "off"
        /\ \A n \in Nodes, c \in Calls : ~Running(n, c)'
    BY <1>0, <1>6, ProcessGoneEffect DEF Ends, Running, Pc, RunningPc, InsertPc, DeletePc
  <2>2. \A n \in Nodes, c \in Calls : ~Half(n, c)'
    BY <2>1 DEF Half, Running, Pc, RunningPc, InsertPc, DeletePc
  <2>3. RestFaint' /\ HalvesDone' /\ LastOutcome' /\ ToldAtRest'
    BY <2>1, <2>2 DEF RestFaint, HalvesDone, LastOutcome, ToldAtRest
  <2>4. WordsHold'
    BY <2>1 DEF WordsInv, WordsHold, Route
  <2>. QED
    BY <2>3, <2>4 DEF WordsInv
<1>7. ASSUME Passes, LastCall' = LastCall
      PROVE  WordsInv'
  <2>1. /\ UNCHANGED <<up, store, live, indexed, frame, told>>
        /\ repl' \in {"insert", "delete"} => repl' = repl
    BY <1>7 DEF Passes
  <2>2. RestFaint' /\ HalvesDone'
    BY <2>1, FaintUnchanged DEF WordsInv
  <2>3. LastOutcome'
    BY <1>7, <2>1 DEF WordsInv, LastOutcome, Outcome, Pc
  <2>4. ToldAtRest' /\ WordsHold'
    BY <2>1 DEF WordsInv, ToldAtRest, WordsHold, Running, Pc, Route
  <2>. QED
    BY <2>2, <2>3, <2>4 DEF WordsInv
<1>. QED
  BY <1>1, <1>2, <1>3, <1>4, <1>5, <1>6, <1>7, StepKinds

-----------------------------------------------------------------------------
(* The theorems. *)

LEMMA SessionInvInit == SessionInit => SessionInv
<1> SUFFICES ASSUME SessionInit PROVE SessionInv
  OBVIOUS
<1>1. FullInv
  BY FullInvInit DEF SessionInit
<1>2. SessionTypeOK
  BY ConfiguredIsKnown DEF SessionInit, SessionTypeOK
<1>3. \A n \in Nodes, c \in Calls : frame[n][c] = IdleFrame
  BY DEF SessionInit, Init, NodeInit
<1>4. \A n \in Nodes, c \in Calls :
        Pc(n, c) = "idle" /\ ~Running(n, c) /\ ~Half(n, c)
  BY <1>3 DEF Running, Half, Pc, IdleFrame, RunningPc, InsertPc, DeletePc
<1>5. ReplOK
  BY <1>4 DEF SessionInit, Init, ReplOK, AllQuiet, Quiet, Asked
<1>6. CallsOK
  BY <1>4, SessionAssumption DEF SessionInit, CallsOK, Unused
<1>7. WordsInv
  <2>1. RestFaint
    BY DEF SessionInit, Init, NodeInit, RestFaint, Faint, Mirrored, EntryOf
  <2>. QED
    BY <1>4, <2>1 DEF SessionInit, WordsInv, HalvesDone, LastOutcome, ToldAtRest, WordsHold
<1>. QED
  BY <1>1, <1>2, <1>5, <1>6, <1>7 DEF SessionInv

LEMMA SessionInvNext == SessionInv /\ [SessionNext]_sessionVars => SessionInv'
<1> SUFFICES ASSUME SessionInv, [SessionNext]_sessionVars PROVE SessionInv'
  OBVIOUS
<1>0. FullInv /\ CoordInv /\ NodeInv /\ SessionTypeOK /\ ReplOK /\ CallsOK /\ WordsInv
  BY DEF SessionInv, FullInv, CoordInv, NodesInv
<1>1. FullInv'
  BY <1>0, SessionStep, FullInvNext
<1>2. ReplOK'
  BY <1>0, ReplNext
<1>3. CallsOK'
  BY <1>0, CallsNext
<1>4. SessionTypeOK'
  BY <1>0, SessionTypeNext
<1>5. WordsInv'
  BY <1>0, <1>3, WordsNext
<1>. QED
  BY <1>1, <1>2, <1>3, <1>4, <1>5 DEF SessionInv

LEMMA SessionInvAlways == SessionSpec => []SessionInv
  BY SessionInvInit, SessionInvNext, PTL DEF SessionSpec

\* The loop, the model and what was printed keep their types.
THEOREM SessionTypeCorrect == SessionSpec => []SessionTypeOK
<1>1. SessionInv => SessionTypeOK
  BY DEF SessionInv
<1>. QED
  BY <1>1, SessionInvAlways, PTL

\* The program uses the coordinator as any caller may: what is proved of
\* Coordinator (fresh ids, Get finds, a query returns the top K) holds in it.
THEOREM SessionIsCoordinator == SessionSpec => Spec
<1>1. SessionInit => Init
  BY DEF SessionInit
<1>2. SessionInv /\ [SessionNext]_sessionVars => [Next]_vars
  BY SessionStep DEF SessionInv
<1>. QED
  BY <1>1, <1>2, SessionInvAlways, PTL DEF SessionSpec, Spec

\* The prompt comes back only when no call and no goroutine of a query runs any
\* more, whatever failed, and whatever crash or restart came before.
THEOREM PromptStaysQuiet == SessionSpec => []PromptIsQuiet
<1>1. SessionInv => PromptIsQuiet
  BY DEF SessionInv, ReplOK, PromptIsQuiet
<1>. QED
  BY <1>1, SessionInvAlways, PTL

\* Rows that are all in the index have its dimension.
LEMMA QuietIsHydratable ==
  ASSUME NodeInv, AloneInv, NEW n \in Nodes, up[n], Quiet(n)
  PROVE  Hydratable(n)
<1>1. \A id \in Ids : store[n][id] # Nil => store[n][id].dim = dim[n] /\ dim[n] # 0
  <2> SUFFICES ASSUME NEW id \in Ids, store[n][id] # Nil
               PROVE  store[n][id].dim = dim[n] /\ dim[n] # 0
    OBVIOUS
  <2>1. live[n][id] = <<store[n][id]>>
    BY QuietIsMirrored DEF Mirrored, EntryOf
  <2>2. 1 \in 1..Len(live[n][id]) /\ live[n][id][1] = store[n][id]
    BY <2>1
  <2>3. live[n][id][1].dim = dim[n] /\ dim[n] # 0
    BY <2>2 DEF NodeInv, SameDimension
  <2>. QED
    BY <2>2, <2>3
<1>. QED
  BY <1>1 DEF Hydratable, Rows

\* Whatever the embedding API answered: when the prompt is back and no undo has
\* failed since the start, every shard could be opened again from its table.  The
\* row of a vector that no index takes, or that is of another length than those
\* of its shard, is committed first, but it is gone before its command ends.
THEOREM ShardsReopen == SessionSpec => []ShardsCanReopen
<1>1. SessionInv => ShardsCanReopen
  <2> SUFFICES ASSUME SessionInv, repl = "prompt", calm, NEW n \in Nodes
               PROVE  Hydratable(n)
    BY DEF ShardsCanReopen
  <2>1. up[n] /\ Quiet(n)
    BY DEF SessionInv, ReplOK, AllQuiet, FullInv, CoordInv, IdsInv, PhaseOK
  <2>2. NodeInv /\ AloneInv
    BY DEF SessionInv, FullInv, CoordInv, NodesInv, CalmInv
  <2>. QED
    BY <2>1, <2>2, QuietIsHydratable
<1>. QED
  BY <1>1, SessionInvAlways, PTL

\* What the program printed of an id holds until the next command on the id,
\* over crashes, SQL errors, failed undos, restarts with another model and
\* refused inserts: an article is on the shard of its id only, in its table and
\* in its index; a deleted or unknown id is nowhere.
THEOREM WordsAreKept == SessionSpec => []WordsHold
<1>1. SessionInv => WordsHold
  BY DEF SessionInv, WordsInv
<1>. QED
  BY <1>1, SessionInvAlways, PTL
=============================================================================
