-------------------------------- MODULE Config --------------------------------
(***************************************************************************)
(* internal/config: settings come from the environment, then from the .env *)
(* file, then from defaults.  A file is the sequence of its definitions;   *)
(* comments, other lines and quotes are gone.  "" is an unset variable.    *)
(***************************************************************************)
EXTENDS Naturals, Sequences, FiniteSetsExt

\* os.Setenv for each definition whose variable is still empty.
LoadDotEnv(env, file) ==
  [name \in DOMAIN env |->
     LET mine == {i \in DOMAIN file : file[i].name = name /\ file[i].value # ""}
     IN IF env[name] # "" \/ mine = {} THEN env[name] ELSE file[Min(mine)].value]

\* Without a key the program ends.
Loads(env, file) == LoadDotEnv(env, file)["OPENROUTER_API_KEY"] # ""

\* Mutant: no default.
EmbeddingModelAsIs(env, file) == LoadDotEnv(env, file)["OPENROUTER_EMBEDDING_MODEL"]

EmbeddingModel(env, file) ==
  LET model == LoadDotEnv(env, file)["OPENROUTER_EMBEDDING_MODEL"]
  IN IF model = "" THEN "text-embedding-3-small" ELSE model
=============================================================================
