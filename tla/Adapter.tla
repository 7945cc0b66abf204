------------------------------ MODULE Adapter ------------------------------
(***************************************************************************)
(* adapter/adapter.h and the console commands that use it, dbcreate and    *)
(* dbquery: each makes synchronous calls (RemoteCall) to the database      *)
(* actor one after the other, looks at the reply struct and never at what  *)
(* call() returns.                                                         *)
(*                                                                         *)
(* The database actor is not in the repository: all that is assumed of it  *)
(* is that it needs the table for an update and a query, and that it       *)
(* answers with a message when it refuses, with none when it does not.     *)
(***************************************************************************)
EXTENDS Integers

CONSTANT MaxCalls   \* bound: calls in one behaviour

ASSUME AdapterAssumption == MaxCalls \in Nat

Ids == 1..MaxCalls
Cmds == {"create", "update", "query"}
Tables == {"absent", "empty", "rows"}        \* the table account

VARIABLES
  outcome, handler,   \* of RemoteCall
  cmd,                \* req.cmd of each call; "none" if not made
  answer,             \* the reply to each call; EmptyRep while there is none
  pc,                 \* the adapter function the console thread is in, or "idle"
  cur,                \* the call made last
  rep,                \* its local rep
  table,              \* what the database holds
  logged,             \* history: the calls whose adapter function logged an error
  result,             \* history: what the last dbquery returned
  during              \* history: what the database held since the last call was made

Calls == INSTANCE RemoteCall

vars == <<outcome, handler, cmd, answer, pc, cur, rep, table, logged, result, during>>
callVars == <<outcome, handler, cmd>>
dbVars == <<answer, table>>

EmptyRep == [cmd |-> "none", message |-> FALSE, rows |-> "none"]
Reps == [cmd : Cmds \cup {"none"}, message : BOOLEAN, rows : Tables \cup {"none"}]

TypeOK ==
  /\ Calls!TypeOK
  /\ cmd \in [Ids -> Cmds \cup {"none"}]
  /\ answer \in [Ids -> Reps]
  /\ pc \in Cmds \cup {"idle"}
  /\ cur \in 0..MaxCalls
  /\ rep \in Reps
  /\ table \in Tables
  /\ logged \subseteq Ids
  /\ result \in {"empty", "rows"}
  /\ during \subseteq Tables

Init ==
  /\ Calls!Init
  /\ cmd = [i \in Ids |-> "none"]
  /\ answer = [i \in Ids |-> EmptyRep]
  /\ pc = "idle"
  /\ cur = 0
  /\ rep = EmptyRep
  /\ table \in Tables
  /\ logged = {}
  /\ result = "empty"
  /\ during = {}

-----------------------------------------------------------------------------
(* The console thread.                                                     *)

\* The adapter function for c up to its wait: App->call(req, rep) with a new rep.
Call(c) ==
  /\ cur + 1 \in Ids
  /\ cur' = cur + 1
  /\ Calls!Issue(cur')
  /\ cmd' = [cmd EXCEPT ![cur'] = c]
  /\ pc' = c
  /\ rep' = EmptyRep
  /\ during' = {table}

\* Seeded fault: the call is an asynchronous one.
Back_Async(c) == pc = c

\* call() has come back, whatever it returned.
Back(c) == pc = c /\ outcome[cur] \in {"ok", "fail"}

\* if (rep.message != "") logError
LogMessage == logged' = IF rep.message THEN logged \cup {cur} ELSE logged

\* dbcreate and dbquery, from the console.
DbCreate == pc = "idle" /\ Call("create") /\ UNCHANGED <<dbVars, logged, result>>
DbQuery  == pc = "idle" /\ Call("query") /\ UNCHANGED <<dbVars, logged, result>>

\* dbcreate goes on with its three records, however adaper_dbCreate went.
DbUpdate ==
  /\ Back("create")
  /\ LogMessage
  /\ Call("update")
  /\ UNCHANGED <<dbVars, result>>

DbCreateEnds ==
  /\ Back("update")
  /\ LogMessage
  /\ pc' = "idle"
  /\ UNCHANGED <<callVars, dbVars, cur, rep, result, during>>

\* Seeded fault: what the reply is to is not looked at.
Answered_AnyCmd == ~rep.message

\* rep.cmd == req.cmd && rep.message == ""
Answered == rep.cmd = "query" /\ ~rep.message

\* adaper_dbQuery returns the rows it unpacks, or no row, and logs.
DbQueryEnds ==
  /\ Back("query")
  /\ pc' = "idle"
  /\ IF Answered THEN result' = rep.rows /\ UNCHANGED logged
                 ELSE result' = "empty" /\ logged' = logged \cup {cur}
  /\ UNCHANGED <<callVars, dbVars, cur, rep, during>>

-----------------------------------------------------------------------------
(* The database actor, and the way back.                                   *)

Serve(id) ==
  /\ \A k \in Ids : handler[k] # "running"
  /\ Calls!Run(id)
  /\ UNCHANGED <<cmd, dbVars, pc, cur, rep, logged, result, during>>

\* What an accepted request makes of the table.
After(c) == CASE c = "create" -> IF table = "absent" THEN "empty" ELSE table
              [] c = "update" -> "rows"
              [] c = "query"  -> table

Accept(id) ==
  /\ cmd[id] = "create" \/ table # "absent"
  /\ table' = After(cmd[id])
  /\ answer' = [answer EXCEPT ![id] =
                  [cmd |-> cmd[id], message |-> FALSE,
                   rows |-> IF cmd[id] = "query" THEN table ELSE "none"]]

Refuse(id) ==
  /\ answer' = [answer EXCEPT ![id] = [cmd |-> cmd[id], message |-> TRUE, rows |-> "none"]]
  /\ UNCHANGED table

Handle(id) ==
  /\ Calls!Finish(id)
  /\ Accept(id) \/ Refuse(id)
  /\ during' = during \cup {table'}
  /\ UNCHANGED <<cmd, pc, cur, rep, logged, result>>

\* The caller hears of the call.  Only the reply of a handler brings rep, and it may miss
\* it: cbOkSet comes after the request was posted (Rpc, SyncRepFilled).  A wait that
\* gives up by itself while the callback runs is a failure, and rep may be there.
Report(id) ==
  /\ Calls!Report(id)
  /\ IF handler[id] = "done" /\ id = cur THEN rep' \in {rep, answer[id]} ELSE UNCHANGED rep
  /\ UNCHANGED <<cmd, dbVars, pc, cur, logged, result, during>>

Next ==
  \/ DbCreate
  \/ DbUpdate
  \/ DbCreateEnds
  \/ DbQuery
  \/ DbQueryEnds
  \/ \E id \in Ids : Serve(id) \/ Handle(id) \/ Report(id)

Spec == Init /\ [][Next]_vars
-----------------------------------------------------------------------------
\* An error that adaper_dbCreate or adaper_dbUpdate logs is the answer to that very
\* call: the table is as the call found it.
ErrorIsRefusal ==
  \A id \in logged : cmd[id] # "query" => handler[id] = "done" /\ answer[id].message

\* The records come after the table: unless call() gave the create up, the database
\* handles it before the update that follows it.
CreateComesFirst ==
  \A id \in Ids :
    cmd[id] = "update" /\ handler[id] # "no" /\ outcome[id - 1] # "fail"
      => handler[id - 1] = "done"

\* dbquery never passes off old rows or no rows for what the table holds: without an
\* error in the log it returns what the database held while the call was out.
QueryIsTrue ==
  pc = "idle" /\ cur > 0 =>
    (cmd[cur] = "query" /\ cur \notin logged => result \in during)
=============================================================================
