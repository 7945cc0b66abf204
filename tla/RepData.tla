------------------------------ MODULE RepData ------------------------------
(***************************************************************************)
(* What happens to the reply struct of a call (Rpc says when).  call(req,  *)
(* rep) packs the rep of its caller with the request, the handler starts   *)
(* from it, and the rep that comes back is copied over the caller's.  An   *)
(* asynchronous call sends a local rep of its own; package() sends none    *)
(* and takes the reply as it is.  Callers may use one rep for many calls.  *)
(*                                                                         *)
(* A field holds Default, Garbage (never initialised) or the call whose    *)
(* handler wrote it.                                                       *)
(***************************************************************************)
EXTENDS Integers

CONSTANTS
  Fields,       \* of the reply struct
  Plain,        \* the fields without a constructor: numbers
  Assigned,     \* the fields the handler writes
  MaxCalls      \* bound: calls in one behaviour

ASSUME RepAssumption ==
  /\ Plain \subseteq Fields
  /\ Assigned \subseteq Fields
  /\ MaxCalls \in Nat

Ids == 1..MaxCalls
Kinds == {"sync", "async", "package"}
Garbage == -1
Default == 0
Reps == [Fields -> {Garbage, Default} \cup Ids]
Messages == [id : Ids, kind : Kinds, rep : Reps]

VARIABLES
  rep,          \* the caller's
  cur,          \* the synchronous call it is in; 0 if none
  made,         \* calls made
  requests,     \* requests not handled yet
  replies,      \* replies not taken yet
  heard         \* history: what the callback of each asynchronous call was given

vars == <<rep, cur, made, requests, replies, heard>>

TypeOK ==
  /\ rep \in Reps
  /\ cur \in 0..made
  /\ made \in 0..MaxCalls
  /\ requests \subseteq Messages
  /\ replies \subseteq Messages
  /\ heard \in [Ids -> Reps]

\* rep_t rep; leaves the plain fields as they are in memory.
Local == [f \in Fields |-> IF f \in Plain THEN Garbage ELSE Default]
Blank == [f \in Fields |-> Default]

Init ==
  /\ rep = Local
  /\ cur = 0
  /\ made = 0
  /\ requests = {}
  /\ replies = {}
  /\ heard = [id \in Ids |-> Blank]

Send(kind, r) ==
  /\ cur = 0
  /\ made < MaxCalls
  /\ made' = made + 1
  /\ requests' = requests \cup {[id |-> made + 1, kind |-> kind, rep |-> r]}
  /\ UNCHANGED <<rep, replies, heard>>

CallSync == Send("sync", rep) /\ cur' = made'

\* Seeded fault: the rep of the last synchronous call is sent.
CallAsync_SharedRep == Send("async", rep) /\ UNCHANGED cur

CallAsync == Send("async", Local) /\ UNCHANGED cur

\* callAsync with sync = true; its body is not in the repository.
Package == Send("package", Blank) /\ cur' = made'

\* Seeded fault: the handler starts from a rep of its own.
Answer_FreshRep(m) ==
  [f \in Fields |-> IF f \in Assigned \/ m.kind = "package" THEN m.id ELSE Local[f]]

\* The invoker: unpack the pair, apply the handler, pack what it left in rep.  What
\* package() asks for is answered whole.
Answer(m) ==
  [f \in Fields |-> IF f \in Assigned \/ m.kind = "package" THEN m.id ELSE m.rep[f]]

Handle(m) ==
  /\ m \in requests
  /\ requests' = requests \ {m}
  /\ replies' = replies \cup {[m EXCEPT !.rep = Answer(m)]}
  /\ UNCHANGED <<rep, cur, made, heard>>

Take(m) == m \in replies /\ replies' = replies \ {m}

\* The task of the call is still in the table, so its caller waits.
Returned(m) == Take(m) /\ cur = m.id /\ cur' = 0

\* rep = ret, or arg = data, and call() returns.
Filled(m) ==
  /\ m.kind # "async"
  /\ Returned(m)
  /\ rep' = m.rep
  /\ UNCHANGED <<made, requests, heard>>

\* There is no callback yet, or cbOkSet swallows that the reply does not unpack:
\* call() returns all the same.
Unfilled(m) ==
  /\ m.kind # "async"
  /\ Returned(m)
  /\ UNCHANGED <<rep, made, requests, heard>>

\* The callback of an asynchronous call.
Heard(m) ==
  /\ m.kind = "async"
  /\ Take(m)
  /\ heard' = [heard EXCEPT ![m.id] = m.rep]
  /\ UNCHANGED <<rep, cur, made, requests>>

\* The timer: from here on the reply is dropped.
Timeout ==
  /\ cur # 0
  /\ cur' = 0
  /\ UNCHANGED <<rep, made, requests, replies, heard>>

\* A request or a reply that is lost is one that nobody takes.
Next ==
  \/ CallSync \/ CallAsync \/ Package \/ Timeout
  \/ \E m \in requests : Handle(m)
  \/ \E m \in replies : Filled(m) \/ Unfilled(m) \/ Heard(m)

Spec == Init /\ [][Next]_vars
-----------------------------------------------------------------------------
\* rep changes at most once per call, all at once and while its own call is out: the
\* fields the handler writes become this call's, however many earlier replies are
\* still under way, and the others keep what the caller had in them (after package(),
\* all are this call's).
RepIsTransferred ==
  [][rep' # rep =>
       /\ cur # 0 /\ cur' = 0
       /\ \/ rep' = [f \in Fields |-> IF f \in Assigned THEN cur ELSE rep[f]]
          \/ rep' = [f \in Fields |-> cur]]_vars

\* Calls made one after the other do not mix: an asynchronous callback is given what
\* the handler of its own call wrote, and nothing another call left behind.  (In the
\* fields the handler leaves alone it finds what was in its caller's memory.)
HeardIsOwn ==
  \A id \in Ids : heard[id] # Blank =>
    \A f \in Fields : heard[id][f] \in IF f \in Assigned THEN {id} ELSE {Local[f]}
=============================================================================
