----------------------------- MODULE RemoteCall -----------------------------
(***************************************************************************)
(* What rpc_t promises about one call(req), call(req, rep) or              *)
(* call(req, cb), whatever happens to its messages: the handler runs at    *)
(* most once; "ok" is only ever reported for a handler that has finished;  *)
(* a failure says nothing about the handler, which may still run later or  *)
(* have thrown.                                                            *)
(* Rpc shows how the client and server templates implement it.             *)
(***************************************************************************)
EXTENDS Naturals

CONSTANT Ids      \* the calls

VARIABLES
  outcome,        \* what the caller has been told: "none", "open", "ok", "fail"
  handler         \* what the handler has done: "no", "running", "done", "threw"

callVars == <<outcome, handler>>

TypeOK ==
  /\ outcome \in [Ids -> {"none", "open", "ok", "fail"}]
  /\ handler \in [Ids -> {"no", "running", "done", "threw"}]

Init ==
  /\ outcome = [i \in Ids |-> "none"]
  /\ handler = [i \in Ids |-> "no"]

Issue(i) ==
  /\ outcome[i] = "none"
  /\ outcome' = [outcome EXCEPT ![i] = "open"]
  /\ UNCHANGED handler

Run(i) ==
  /\ outcome[i] # "none"
  /\ handler[i] = "no"
  /\ handler' = [handler EXCEPT ![i] = "running"]
  /\ UNCHANGED outcome

Finish(i) ==
  /\ handler[i] = "running"
  /\ handler' = [handler EXCEPT ![i] = "done"]
  /\ UNCHANGED outcome

Throw(i) ==
  /\ handler[i] = "running"
  /\ handler' = [handler EXCEPT ![i] = "threw"]
  /\ UNCHANGED outcome

Report(i) ==
  /\ outcome[i] = "open"
  /\ \/ outcome' = [outcome EXCEPT ![i] = "fail"]
     \/ handler[i] = "done" /\ outcome' = [outcome EXCEPT ![i] = "ok"]
  /\ UNCHANGED handler

Next == \E i \in Ids : Issue(i) \/ Run(i) \/ Finish(i) \/ Throw(i) \/ Report(i)

Spec == Init /\ [][Next]_callVars
=============================================================================
