-------------------------------- MODULE Rpc --------------------------------
(***************************************************************************)
(* Remote calls between actors: rpc_t, rpc_client_t::request, task_t and   *)
(* the invoker that rpc_server_t::register_ builds.  A call makes a task   *)
(* and posts the request (taskMake), THEN gives the task its callback      *)
(* (cbOkSet), THEN waits (wait).  An actor runs its handlers and its ticks *)
(* on one coroutine, so while it waits for a call of its own it serves     *)
(* nobody.  Somebody else completes its task: the sync caller itself is    *)
(* blocked.                                                                *)
(*                                                                         *)
(* The bodies of taskMake, wait, response and of the task manager are not  *)
(* in the repository (libengine.a).  What the templates need of them, and  *)
(* their declarations, give this much: taskMake is the one step that gets  *)
(* the channel, so it posts; a task leaves m_tasks once (pull), and who    *)
(* pulled it completes it; a reply or the timer may do so at any time.     *)
(* wait(ms) is timed (task.h, line 47): it may also return by itself.      *)
(***************************************************************************)
EXTENDS Naturals, FiniteSets

CONSTANTS
  Actors,       \* each with one coroutine
  App,          \* the actor whose rpc_t the console thread uses too
  Console,      \* the thread that runs console commands
  Uses,         \* the calls the code run by a coroutine makes: [to, type, rep, mode]
  Interfaces,   \* the interfaces an actor registered: [type, rep]
  Skewed,       \* interfaces [to, rep] whose callers were built with other structs
  MaxSize,      \* task_mgr_t::m_maxSize
  MaxCalls      \* bound: calls in one behaviour

Runners == Actors \cup {Console}
Ids     == 1..MaxCalls
Types   == {"REQUEST", "RPC_ROUTE"}
Modes   == {"sync", "async", "post"}
Names   == [type : Types, rep : BOOLEAN]
Targets == [to : Actors, type : Types, rep : BOOLEAN, mode : Modes]

ASSUME RpcAssumption ==
  /\ App \in Actors
  /\ Console \notin Actors
  /\ Uses \in [Runners -> SUBSET Targets]
  /\ Interfaces \in [Actors -> SUBSET Names]
  /\ Skewed \subseteq [to : Actors, rep : BOOLEAN]
  /\ MaxSize \in Nat
  /\ MaxCalls \in Nat

VARIABLES
  s_taskAutoId, \* the last task id given out, by all rpc_t of the process
  call,         \* what each task was made for
  m_tasks,      \* the tasks each rpc_t waits for
  m_onRepOk,    \* the tasks that have their callback
  over,         \* how each task ended: "no" while it has not
  requests,     \* requests posted and not taken by an actor
  replies,      \* replies on their way: [id, code]
  taken,        \* replies whose task was pulled, callback still to run
  called,       \* those whose callback, if there is one, has begun
  heard,        \* history: tasks whose callback has begun
  left,         \* history: sync calls whose wait(ms) returned by itself
  handled,      \* history: what each request's handler has done
  pc,           \* where each coroutine is
  serving,      \* the request whose handler it runs; 0 in a tick or command
  cur           \* the call it is making; 0 if none

clientVars == <<s_taskAutoId, call, m_onRepOk>>
taskVars   == <<m_tasks, over, taken, called, heard>>
netVars    == <<requests, replies>>
runVars    == <<pc, serving, cur, left>>
vars == <<clientVars, taskVars, netVars, runVars, handled>>

NoCall   == [by |-> Console, to |-> App, type |-> "REQUEST", rep |-> FALSE,
             mode |-> "post"]
Calls    == [by : Runners, to : Actors, type : Types, rep : BOOLEAN, mode : Modes]
Replies  == [id : Ids, code : {"ok", "fail"}]

\* The rpc_t a coroutine calls with.
Rpc(r) == IF r = Console THEN App ELSE r
Made == 1..s_taskAutoId
\* The replies that have pulled a task and not yet ended it.
Held == taken \cup called

TypeOK ==
  /\ s_taskAutoId \in 0..MaxCalls
  /\ call \in [Ids -> Calls]
  /\ m_tasks \in [Actors -> SUBSET Ids]
  /\ \A a \in Actors : Cardinality(m_tasks[a]) <= MaxSize
  /\ m_onRepOk \subseteq Ids
  /\ over \in [Ids -> {"no", "ok", "fail"}]
  /\ requests \subseteq Ids
  /\ replies \subseteq Replies
  /\ taken \subseteq Replies
  /\ called \subseteq Replies
  /\ heard \subseteq Ids
  /\ left \subseteq Ids
  /\ handled \in [Ids -> {"no", "running", "done", "threw"}]
  /\ pc \in [Runners -> {"idle", "run", "made", "wait"}]
  /\ serving \in [Runners -> 0..MaxCalls]
  /\ cur \in [Runners -> 0..MaxCalls]

Init ==
  /\ s_taskAutoId = 0
  /\ call = [i \in Ids |-> NoCall]
  /\ m_tasks = [a \in Actors |-> {}]
  /\ m_onRepOk = {}
  /\ over = [i \in Ids |-> "no"]
  /\ requests = {}
  /\ replies = {}
  /\ taken = {}
  /\ called = {}
  /\ heard = {}
  /\ left = {}
  /\ handled = [i \in Ids |-> "no"]
  /\ pc = [r \in Runners |-> "idle"]
  /\ serving = [r \in Runners |-> 0]
  /\ cur = [r \in Runners |-> 0]

RunnerTo(r, from, to) == pc[r] = from /\ pc' = [pc EXCEPT ![r] = to]

-----------------------------------------------------------------------------
(* The caller.                                                             *)

\* request() goes to the actor's own channel and looks for a register_local
\* interface; call() and post() go to the app's and look for a register_remote.
Route(r, u) ==
  \/ u.type = "REQUEST" /\ u.to = Rpc(r) /\ u.mode # "post"
  \/ u.type = "RPC_ROUTE" /\ (u.mode = "post" => ~u.rep)

\* The part of request<sync, type_> before a task is made.
Calling(r, u) ==
  /\ u \in Uses[r] /\ Route(r, u)
  /\ pc[r] \in {"idle", "run"}
  /\ pc' = [pc EXCEPT ![r] = "made"]

\* taskMake: the task of the next id goes into the table, unless it is a post, and
\* the request is sent.
TaskMake(r, u, id) ==
  /\ id \in Ids
  /\ s_taskAutoId' = id
  /\ call' = [call EXCEPT ![id] = [by |-> r, to |-> u.to, type |-> u.type, rep |-> u.rep,
                                   mode |-> u.mode]]
  /\ m_tasks' = [m_tasks EXCEPT ![Rpc(r)] = IF u.mode = "post" THEN @ ELSE @ \cup {id}]
  /\ requests' = requests \cup {id}
  /\ cur' = [cur EXCEPT ![r] = id]
  /\ UNCHANGED <<m_onRepOk, over, replies, taken, called, heard, handled, serving, left>>

Full(r) == Cardinality(m_tasks[Rpc(r)]) >= MaxSize

\* Seeded fault: the null task of a full table is not looked at.
Request_NoNullCheck(r, u) ==
  /\ Calling(r, u)
  /\ \/ ~Full(r) /\ TaskMake(r, u, s_taskAutoId + 1)
     \/ Full(r) /\ UNCHANGED <<clientVars, taskVars, netVars, handled, serving, cur, left>>

\* Seeded fault: s_taskAutoId is not counted up, ids come again.
Request_SameId(r, u) ==
  /\ Calling(r, u)
  /\ ~Full(r)
  /\ TaskMake(r, u, IF s_taskAutoId = 0 THEN 1 ELSE s_taskAutoId)

\* Seeded fault: every call asks for the task of a post, sync = -1.
Request_TaskOfPost(r, u) ==
  /\ Calling(r, u)
  /\ ~Full(r)
  /\ s_taskAutoId + 1 \in Ids
  /\ s_taskAutoId' = s_taskAutoId + 1
  /\ call' = [call EXCEPT ![s_taskAutoId'] =
                [by |-> r, to |-> u.to, type |-> u.type, rep |-> u.rep, mode |-> u.mode]]
  /\ requests' = requests \cup {s_taskAutoId'}
  /\ cur' = [cur EXCEPT ![r] = s_taskAutoId']
  /\ UNCHANGED <<m_tasks, m_onRepOk, over, replies, taken, called, heard, handled, serving,
                 left>>

\* request<sync, type_> up to taskMake, in a handler or to begin (or go on with) a
\* tick or a console command.  A full table gives no task and the call returns 1:
\* nothing changes then.
Request(r, u) ==
  /\ Calling(r, u)
  /\ ~Full(r)
  /\ TaskMake(r, u, s_taskAutoId + 1)

CbOkSet(r) ==
  /\ RunnerTo(r, "made", "wait")
  /\ m_onRepOk' = m_onRepOk \cup {cur[r]}
  /\ UNCHANGED <<s_taskAutoId, call, taskVars, netVars, handled, serving, cur, left>>

\* Seeded fault: a sync call does not wait.
Wait_Not(r) ==
  /\ RunnerTo(r, "wait", "run")
  /\ cur' = [cur EXCEPT ![r] = 0]
  /\ UNCHANGED <<clientVars, taskVars, netVars, handled, serving, left>>

\* Seeded fault: a sync call waits for its reply and for nothing else.
Wait_ForOk(r) ==
  /\ RunnerTo(r, "wait", "run")
  /\ call[cur[r]].mode = "sync" => over[cur[r]] = "ok"
  /\ cur' = [cur EXCEPT ![r] = 0]
  /\ UNCHANGED <<clientVars, taskVars, netVars, handled, serving, left>>

\* The call comes back: a sync call when its task is over, another one at once.
Wait(r) ==
  /\ RunnerTo(r, "wait", "run")
  /\ call[cur[r]].mode = "sync" => over[cur[r]] # "no"
  /\ cur' = [cur EXCEPT ![r] = 0]
  /\ UNCHANGED <<clientVars, taskVars, netVars, handled, serving, left>>

\* wait(ms) returns by itself, in the middle of a callback too; the task stays where
\* it is.  That libengine.a takes it out of the table then is a Timeout that follows.
GiveUp(r) ==
  /\ RunnerTo(r, "wait", "run")
  /\ call[cur[r]].mode = "sync" /\ over[cur[r]] = "no"
  /\ left' = left \cup {cur[r]}
  /\ cur' = [cur EXCEPT ![r] = 0]
  /\ UNCHANGED <<clientVars, taskVars, netVars, handled, serving>>

\* The tick or the command ends.
Finish(r) ==
  /\ serving[r] = 0
  /\ RunnerTo(r, "run", "idle")
  /\ UNCHANGED <<clientVars, taskVars, netVars, handled, serving, cur, left>>

-----------------------------------------------------------------------------
(* The server.                                                             *)

\* The interface of that name is there, and the arguments unpack.
Matches(id) ==
  LET c == call[id] IN
  /\ [type |-> c.type, rep |-> c.rep] \in Interfaces[c.to]
  /\ [to |-> c.to, rep |-> c.rep] \notin Skewed

Take(a, id) ==
  /\ pc[a] = "idle"
  /\ id \in requests
  /\ call[id].to = a
  /\ requests' = requests \ {id}

\* Seeded fault: the reply leaves when the handler starts.
Serve_EarlyReply(a, id) ==
  /\ Take(a, id)
  /\ Matches(id)
  /\ RunnerTo(a, "idle", "run")
  /\ serving' = [serving EXCEPT ![a] = id]
  /\ handled' = [handled EXCEPT ![id] = "running"]
  /\ replies' = replies \cup {[id |-> id, code |-> "ok"]}
  /\ UNCHANGED <<clientVars, taskVars, cur, left>>

\* The coroutine takes a request and enters the handler (std::apply).
Serve(a, id) ==
  /\ Take(a, id)
  /\ Matches(id)
  /\ RunnerTo(a, "idle", "run")
  /\ serving' = [serving EXCEPT ![a] = id]
  /\ handled' = [handled EXCEPT ![id] = "running"]
  /\ UNCHANGED <<clientVars, taskVars, replies, cur, left>>

\* No such interface, or unpack threw: the engine answers with an error, or not.
Refuse(a, id) ==
  /\ Take(a, id)
  /\ ~Matches(id)
  /\ replies' \in {replies, replies \cup {[id |-> id, code |-> "fail"]}}
  /\ call[id].mode = "post" => replies' = replies
  /\ UNCHANGED <<clientVars, taskVars, handled, runVars>>

\* Seeded fault: the invoker answers a post too.
Return_AnswersPost(a) ==
  LET id == serving[a] IN
  /\ id # 0
  /\ RunnerTo(a, "run", "idle")
  /\ serving' = [serving EXCEPT ![a] = 0]
  /\ handled' = [handled EXCEPT ![id] = "done"]
  /\ replies' = replies \cup {[id |-> id, code |-> "ok"]}
  /\ UNCHANGED <<clientVars, taskVars, requests, cur, left>>

\* The handler returned; a post gets nullptr and no reply.
Return(a) ==
  LET id == serving[a] IN
  /\ id # 0
  /\ RunnerTo(a, "run", "idle")
  /\ serving' = [serving EXCEPT ![a] = 0]
  /\ handled' = [handled EXCEPT ![id] = "done"]
  /\ replies' = IF call[id].mode = "post" THEN replies
                ELSE replies \cup {[id |-> id, code |-> "ok"]}
  /\ UNCHANGED <<clientVars, taskVars, requests, cur, left>>

\* The handler threw: the engine answers with an error, or not.
Throw(a) ==
  LET id == serving[a] IN
  /\ id # 0
  /\ RunnerTo(a, "run", "idle")
  /\ serving' = [serving EXCEPT ![a] = 0]
  /\ handled' = [handled EXCEPT ![id] = "threw"]
  /\ replies' \in {replies, replies \cup {[id |-> id, code |-> "fail"]}}
  /\ call[id].mode = "post" => replies' = replies
  /\ UNCHANGED <<clientVars, taskVars, requests, cur, left>>

-----------------------------------------------------------------------------
(* The end of a task, on a thread of the engine.                           *)

Pull(id) == m_tasks' = [m_tasks EXCEPT ![Rpc(call[id].by)] = @ \ {id}]
Waiting(id) == id \in m_tasks[Rpc(call[id].by)]

\* A reply whose task is gone is dropped.
Response(m) ==
  /\ m \in replies
  /\ replies' = replies \ {m}
  /\ Pull(m.id)
  /\ taken' = IF Waiting(m.id) THEN taken \cup {m} ELSE taken
  /\ UNCHANGED <<clientVars, over, called, heard, requests, handled, runVars>>

\* task_t::response: the callback of an ok reply begins, if there is one ...
Callback(m) ==
  /\ m \in taken
  /\ taken' = taken \ {m}
  /\ called' = called \cup {m}
  /\ heard' = IF m.code = "ok" THEN heard \cup ({m.id} \cap m_onRepOk) ELSE heard
  /\ UNCHANGED <<clientVars, m_tasks, over, netVars, handled, runVars>>

\* ... and when it has run the task is over: its promise is set.
Complete(m) ==
  /\ m \in called
  /\ called' = called \ {m}
  /\ over' = [over EXCEPT ![m.id] = m.code]
  /\ UNCHANGED <<clientVars, m_tasks, taken, heard, netVars, handled, runVars>>

Timeout(id) ==
  /\ Waiting(id)
  /\ Pull(id)
  /\ over' = [over EXCEPT ![id] = "fail"]
  /\ UNCHANGED <<clientVars, taken, called, heard, netVars, handled, runVars>>

-----------------------------------------------------------------------------
\* A message that a lost connection or a closed actor drops is one that no Serve,
\* Refuse or Response ever takes: none of these has to happen.
Next ==
  \/ \E r \in Runners, u \in Targets : Request(r, u)
  \/ \E r \in Runners : CbOkSet(r) \/ Wait(r) \/ GiveUp(r) \/ Finish(r)
  \/ \E a \in Actors : Return(a) \/ Throw(a)
  \/ \E a \in Actors, id \in Ids : Serve(a, id) \/ Refuse(a, id)
  \/ \E m \in Replies : Response(m) \/ Callback(m) \/ Complete(m)
  \/ \E id \in Ids : Timeout(id)

\* A coroutine goes on when it can, handlers, ticks and callbacks come to an end, and
\* the timer of a task fires.  Messages may be lost, nobody has to call, and no wait
\* has to return by itself.
Fairness ==
  /\ \A r \in Runners : WF_vars(CbOkSet(r)) /\ WF_vars(Wait(r))
  /\ \A r \in Runners : WF_vars(Finish(r))
  /\ \A a \in Actors : WF_vars(Return(a))
  /\ \A m \in Replies : WF_vars(Callback(m)) /\ WF_vars(Complete(m))
  /\ \A id \in Ids : WF_vars(Timeout(id))

Spec == Init /\ [][Next]_vars
FairSpec == Spec /\ Fairness
-----------------------------------------------------------------------------
(* What a caller may rely on.                                              *)

Sync(id) == id \in Made /\ call[id].mode = "sync"

\* Whoever waits will be woken: while a sync caller is inside request(), its task
\* is in m_tasks, where the timer finds it, or a reply has pulled it and is about
\* to complete it (task_t::m_wait has no other way to be set), so that a wait without
\* end would end too.
WaiterHasWaker ==
  \A r \in Runners :
    cur[r] # 0 /\ Sync(cur[r]) /\ over[cur[r]] = "no"
      => Waiting(cur[r]) \/ \E m \in Held : m.id = cur[r]

\* A task ends once: it is in the table, or held by one reply, or over, never two of
\* these, and its callback has not run when it is about to; so neither the callback nor
\* the promise is used twice.
TaskEndsOnce ==
  /\ \A m \in taken : m.id \notin heard
  /\ \A id \in Made :
       /\ Waiting(id) => over[id] = "no"
       /\ \A m \in Held : m.id = id => over[id] = "no" /\ ~Waiting(id)
       /\ id \in heard => over[id] = "ok" \/ \E m \in called : m.id = id /\ m.code = "ok"

\* The callback of a sync call writes into the caller's rep by reference (rpc.h,
\* lines 120-122, and &arg in package, lines 80-82).  However late the reply, from its
\* beginning to the end of the task the caller is still inside that very request(),
\* unless its wait(ms) has given up by itself: that, and nothing else in the protocol,
\* is what can leave the callback a dead frame to write to.
CallbackInFrame ==
  \A m \in called :
    Sync(m.id) /\ m.id \in heard => cur[call[m.id].by] = m.id \/ m.id \in left

\* post() is silent: nothing on the way to a client, pulled or pending, is for one,
\* so it can never use up the table of tasks nor wake anybody (server.h, line 64).
PostSilent ==
  /\ \A m \in replies \cup Held : call[m.id].mode # "post"
  /\ \A id \in Made : call[id].mode = "post" => ~Waiting(id) /\ over[id] = "no"

\* What the caller of a task has been told.
Outcome == [i \in Ids |-> IF i \notin Made THEN "none"
                          ELSE IF i \in left THEN "fail"
                          ELSE IF over[i] = "no" THEN "open" ELSE over[i]]

\* Every call is a RemoteCall: at most one run of the handler, and "ok" only after
\* it finished, though replies are late, lost and race with the timer, handlers throw
\* and waits end by themselves.
RC == INSTANCE RemoteCall WITH outcome <- Outcome, handler <- handled
RemoteCallSpec == RC!Spec

\* A caller always comes back, in a cycle of calls too (a waits for b, which calls
\* a and finds its coroutine busy): the timer breaks it.
CallsReturn == \A id \in Ids : (\E r \in Runners : cur[r] = id) ~> (\A r \in Runners : cur[r] # id)

\* README.md, lines 97-99: after the synchronous call(req, rep), rep holds what the
\* handler answered.
SyncRepFilled == \A id \in Made : Sync(id) /\ Outcome[id] = "ok" => id \in heard
=============================================================================
