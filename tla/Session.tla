------------------------------- MODULE Session -------------------------------
(***************************************************************************)
(* The program as its user sees it (cmd/coordinator/main.go): a loop that  *)
(* reads a command, runs it to its end and prints what came of it, over    *)
(* the coordinator with its shards in the same process.  insert fetches a  *)
(* page, embeds its text and stores the article; query embeds its text and *)
(* asks the coordinator.  get and list change nothing: they print          *)
(* GetArticle and Stored.                                                  *)
(*                                                                         *)
(* A command that changes an article is a call of ShardNode, and calls are *)
(* numbered in the order of the commands.  A page is fetched or not, and a *)
(* line that is no command changes nothing.                                *)
(***************************************************************************)
EXTENDS Coordinator, Embedding, Config

CONSTANTS
  ModelDim,      \* ModelDim[m]: length of the vectors of embedding model m
  Environments,  \* the environments the program is started in
  DotEnvFiles    \* the .env files it finds

ASSUME SessionAssumption == Serial /\ Calls \subseteq Nat
\* Every embedding model that can be configured is known.
ASSUME ModelAssumption ==
  /\ "text-embedding-3-small" \in DOMAIN ModelDim
  /\ \A env \in Environments :
       /\ "OPENROUTER_EMBEDDING_MODEL" \in DOMAIN env
       /\ env["OPENROUTER_EMBEDDING_MODEL"] \in {""} \cup DOMAIN ModelDim
  /\ \A file \in DotEnvFiles :
       /\ file \in Seq([name : STRING, value : STRING])
       /\ \A i \in DOMAIN file : file[i].name = "OPENROUTER_EMBEDDING_MODEL" =>
            file[i].value \in {""} \cup DOMAIN ModelDim

VARIABLES
  repl,   \* the command under way and how far it is; "prompt", or "off"
  model,  \* the embedding model of this run of the program
  told    \* history: what was printed of an id, until a command touches it

sessionVars == <<vars, repl, model, told>>

CoordUnchanged == UNCHANGED vars
UnusedCalls == {c \in Calls : Unused(c)}
NextCall == Min(UnusedCalls)
Forget(id) == {t \in told : t.id # id}
Printed(id, art) == Forget(id) \cup {[id |-> id, art |-> art]}

-----------------------------------------------------------------------------
(* Start and end *)

Start ==
  /\ \E env \in Environments, file \in DotEnvFiles :
       Loads(env, file) /\ model' = EmbeddingModel(env, file)
  /\ StartProcess
  /\ UNCHANGED <<repl, told>>

\* NewCoordinator, which ends with the first prompt or not at all.
Opening ==
  \/ ((\E n \in Nodes : OpenShard(n)) \/ StartFails) /\ UNCHANGED <<repl, model, told>>
  \/ InitDocIDCounter /\ repl' = "prompt" /\ UNCHANGED <<model, told>>

\* The command quit, or the end of the input.
QuitCommand ==
  /\ repl = "prompt"
  /\ Quit
  /\ repl' = "off"
  /\ UNCHANGED <<model, told>>

\* The command under way will not be answered.
Killed ==
  /\ ProcessDies
  /\ repl' = "off"
  /\ UNCHANGED <<model, told>>

-----------------------------------------------------------------------------
(* insert <url> *)

InsertCommand ==
  /\ repl = "prompt" /\ UnusedCalls # {}
  /\ repl' = "fetch"
  /\ CoordUnchanged /\ UNCHANGED <<model, told>>

\* The page comes, has a title and a text, or an error is printed.
Fetch ==
  /\ repl = "fetch"
  /\ repl' \in {"embed_article", "prompt"}
  /\ CoordUnchanged /\ UNCHANGED <<model, told>>

\* What the API may answer: nothing makes sure that a vector has the length of
\* the configured model, nor that it has a norm.
Vectors == {NoVector} \cup [length : {ModelDim[m] : m \in DOMAIN ModelDim}, zero : BOOLEAN]
Answers == Responses([index : {0, 1}, embedding : Vectors], 2)
Embeds == {Embed(response) : response \in Answers}

\* The vector as the index looks at it.
DimOf(vector) == IF vector.zero THEN 0 ELSE vector.length

EmbedArticle ==
  /\ repl = "embed_article"
  /\ \E vectors \in Embeds :
       IF vectors = Failed
       THEN repl' = "prompt" /\ CoordUnchanged /\ UNCHANGED told
       ELSE /\ Insert(NextCall, DimOf(vectors[1]))
            /\ repl' = "insert"
            /\ told' = Forget(nextDocID')
  /\ UNCHANGED model

-----------------------------------------------------------------------------
(* delete <id>, query <k> <text> *)

DeleteCommand(id) ==
  /\ repl = "prompt" /\ UnusedCalls # {}
  /\ Delete(NextCall, id)
  /\ repl' = "delete"
  /\ told' = Forget(id)
  /\ UNCHANGED model

\* The queries left that have such a vector.
NextQueries(d) == {q \in Queries : answer[q] = "none" /\ QueryDim[q] = d}

QueryCommand ==
  /\ repl = "prompt" /\ \E q \in Queries : answer[q] = "none"
  /\ repl' = "embed_query"
  /\ CoordUnchanged /\ UNCHANGED <<model, told>>

EmbedQuery ==
  /\ repl = "embed_query"
  /\ \E vectors \in Embeds :
       IF vectors = Failed
       THEN repl' = "prompt" /\ CoordUnchanged
       ELSE /\ repl' = "query"
            /\ \E q \in NextQueries(DimOf(vectors[1])) : QueryStart(q)
  /\ UNCHANGED <<model, told>>

-----------------------------------------------------------------------------
(* The coordinator works, and the command ends *)

Working ==
  /\ (\E n \in Nodes, c \in Calls : CallStep(n, c)) \/ (\E q \in Queries : QueryStep(q))
  /\ UNCHANGED <<repl, model, told>>

\* The last call has returned to its handler.
LastCall == Max(Calls \ UnusedCalls)
LastFrame == frame[CHOOSE n \in Nodes : Pc(n, LastCall) # "idle"][LastCall]

InsertAnswered ==
  /\ repl = "insert" /\ AllQuiet
  /\ repl' = "prompt"
  /\ told' = IF LastFrame.pc = "ok" THEN Printed(LastFrame.id, LastFrame.art) ELSE told
  /\ CoordUnchanged /\ UNCHANGED model

\* "deleted", or "not found".
DeleteAnswered ==
  /\ repl = "delete" /\ AllQuiet
  /\ repl' = "prompt"
  /\ told' = IF LastFrame.pc \in {"ok", "notfound"} THEN Printed(LastFrame.id, Nil) ELSE told
  /\ CoordUnchanged /\ UNCHANGED model

QueryAnswered ==
  /\ repl = "query" /\ \A q \in Queries : ~Asked(q)
  /\ repl' = "prompt"
  /\ CoordUnchanged /\ UNCHANGED <<model, told>>

-----------------------------------------------------------------------------
SessionInit ==
  /\ Init
  /\ repl = "prompt"
  /\ \E env \in Environments, file \in DotEnvFiles :
       Loads(env, file) /\ model = EmbeddingModel(env, file)
  /\ told = {}

SessionNext ==
  \/ Start \/ Opening \/ QuitCommand \/ Killed
  \/ InsertCommand \/ Fetch \/ EmbedArticle
  \/ \E id \in Ids : DeleteCommand(id)
  \/ QueryCommand \/ EmbedQuery
  \/ Working \/ InsertAnswered \/ DeleteAnswered \/ QueryAnswered

\* HTTP requests end with the timeout of their client (15 and 30 seconds), and
\* goroutines that can go on do.  No command has to be given.
Fairness ==
  /\ WF_sessionVars(Opening)
  /\ WF_sessionVars(Fetch) /\ WF_sessionVars(EmbedArticle) /\ WF_sessionVars(EmbedQuery)
  /\ WF_sessionVars(Working)
  /\ WF_sessionVars(InsertAnswered \/ DeleteAnswered \/ QueryAnswered)

SessionSpec == SessionInit /\ [][SessionNext]_sessionVars /\ Fairness

-----------------------------------------------------------------------------
(* Properties *)

SessionTypeOK ==
  /\ repl \in {"off", "prompt", "fetch", "embed_article", "insert", "delete",
               "embed_query", "query"}
  /\ model \in DOMAIN ModelDim
  /\ told \subseteq [id : Ids, art : Articles \cup {Nil}]

\* What the program printed of an id holds until the next command on the id,
\* over crashes, SQL errors, restarts with another model and refused inserts:
\* a stored article is in the table of its shard, in no other, and in its
\* index while the program runs; a deleted or unknown id is in none of them.
WordsHold ==
  \A t \in told, n \in Nodes :
    LET here == IF n = Route(t.id) THEN t.art ELSE Nil IN
    /\ store[n][t.id] = here
    /\ up[n] => live[n][t.id] = IF here = Nil THEN <<>> ELSE <<here>>

\* Whatever the API answered, also vectors no index takes or of a length that
\* the shard of the article does not have: when the prompt is back, a crash or
\* quit leaves tables from which every shard opens again, unless an undo has
\* failed since the start.
ShardsCanReopen == repl = "prompt" /\ calm => \A n \in Nodes : Hydratable(n)

\* The prompt comes back only when nothing of the command runs any more: the
\* next one never meets a call, nor a goroutine of a query that failed early.
PromptIsQuiet ==
  repl = "prompt" =>
    /\ phase = "ready" /\ AllQuiet
    /\ \A q \in Queries : ~Asked(q) /\ \A n \in Nodes : part[q][n] = IdlePart

\* Every command ends, unless the process does.
EveryCommandEnds == repl \notin {"prompt", "off"} ~> repl \in {"prompt", "off"}
=============================================================================
