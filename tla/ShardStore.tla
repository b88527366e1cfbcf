------------------------------ MODULE ShardStore ------------------------------
(***************************************************************************)
(* What a shard promises the coordinator: one table of articles on which   *)
(* every call takes effect at once and entirely, between the call and its  *)
(* answer, or not at all.  "ok" means it took effect, any other answer     *)
(* that it did not, and "notfound" that there was nothing to delete.       *)
(***************************************************************************)
CONSTANTS Calls, Ids, Articles, Nil

VARIABLES
  table,    \* table[id]: the article stored under id
  request,  \* request[c]: what call c asks for
  applied,  \* the calls that took effect
  reply     \* reply[c]: the answer to c, "none" until there is one

storeVars == <<table, request, applied, reply>>

StoreRequest == [op : {"insert"}, id : Ids, art : Articles]
                  \cup [op : {"delete"}, id : Ids, art : {Nil}]

StoreInit ==
  /\ table = [id \in Ids |-> Nil]
  /\ request = [c \in Calls |-> [op |-> "none", id |-> Nil, art |-> Nil]]
  /\ applied = {}
  /\ reply = [c \in Calls |-> "none"]

Ask(c, r) ==
  /\ request[c].op = "none"
  /\ request' = [request EXCEPT ![c] = r]
  /\ UNCHANGED <<table, applied, reply>>

Pending(c) == request[c].op # "none" /\ reply[c] = "none" /\ c \notin applied

\* An insert needs a free id, a delete a taken one.
Apply(c) ==
  /\ Pending(c)
  /\ (request[c].op = "insert") <=> (table[request[c].id] = Nil)
  /\ table' = [table EXCEPT ![request[c].id] = request[c].art]
  /\ applied' = applied \cup {c}
  /\ UNCHANGED <<request, reply>>

Answer(c, r) ==
  /\ reply[c] = "none"
  /\ CASE r = "ok" -> c \in applied
       [] r = "error" -> Pending(c)
       [] r = "notfound" -> /\ Pending(c)
                            /\ request[c].op = "delete"
                            /\ table[request[c].id] = Nil
  /\ reply' = [reply EXCEPT ![c] = r]
  /\ UNCHANGED <<table, request, applied>>

StoreNext ==
  \E c \in Calls :
    \/ \E r \in StoreRequest : Ask(c, r)
    \/ Apply(c)
    \/ \E r \in {"ok", "error", "notfound"} : Answer(c, r)

StoreSpec == StoreInit /\ [][StoreNext]_storeVars
=============================================================================
