------------------------------ MODULE RpcProofs ------------------------------
(***************************************************************************)
(* Proofs about Rpc: for any actors, any calls between them and any        *)
(* interfaces, full tables, late, lost and racing replies, waits that      *)
(* return by themselves, a task ends once, a waiting caller can be woken,  *)
(* only a wait that gave up can leave a callback a frame that is gone, and *)
(* every call is a RemoteCall.                                             *)
(***************************************************************************)
EXTENDS Rpc, FiniteSetTheorems, TLAPS

\* Only ids that were given out are anywhere.
KnownInv ==
  /\ requests \subseteq Made
  /\ \A a \in Actors : m_tasks[a] \subseteq Made
  /\ \A m \in replies \cup Held : m.id \in Made
  /\ \A r \in Runners : serving[r] # 0 => serving[r] \in Made
  /\ \A id \in Ids \ Made : /\ over[id] = "no" /\ handled[id] = "no"
                            /\ id \notin heard /\ id \notin left

\* A task is in the table of the rpc_t that made it, and while it has not ended it is
\* there or with the reply that pulled it.
TableInv ==
  /\ \A a \in Actors : \A id \in m_tasks[a] : Rpc(call[id].by) = a
  /\ \A id \in Made : call[id].mode # "post" /\ over[id] = "no"
       => Waiting(id) \/ \E m \in Held : m.id = id

\* A request is one message at a time: posted, then in a handler, then a reply, and
\* the reply tells what became of the handler.
MessageInv ==
  /\ \A id \in requests : handled[id] = "no"
  /\ \A m \in replies \cup Held :
       /\ m.id \notin requests
       /\ IF m.code = "ok" THEN handled[m.id] = "done"
                         ELSE handled[m.id] \in {"no", "threw"}
  /\ \A m \in called : m \notin taken
  /\ \A id \in Made : over[id] = "ok" => handled[id] = "done"

\* A coroutine runs one handler, of a request to its actor.
HandlerInv ==
  /\ \A r \in Runners : serving[r] # 0
       => handled[serving[r]] = "running" /\ call[serving[r]].to = r
  /\ \A r \in Runners : pc[r] = "idle" => serving[r] = 0

\* Between taskMake and the end of request() the coroutine is in the frame of that
\* call, and a sync call that is not over has its frame unless its wait gave up.
FrameInv ==
  /\ \A r \in Runners : cur[r] = 0 <=> pc[r] \in {"idle", "run"}
  /\ \A r \in Runners : cur[r] # 0 => cur[r] \in Made /\ call[cur[r]].by = r /\ cur[r] \notin left
  /\ \A id \in Made : Sync(id) /\ over[id] = "no" => cur[call[id].by] = id \/ id \in left

IInv ==
  /\ TypeOK /\ KnownInv /\ TableInv /\ MessageInv /\ HandlerInv /\ FrameInv
  /\ TaskEndsOnce /\ PostSilent

\* The ids given out are ids, and 0 is none.
LEMMA MadeIds ==
  ASSUME TypeOK
  PROVE  Made \subseteq Ids /\ 0 \notin Made /\ Made \subseteq 0..MaxCalls
BY RpcAssumption DEF TypeOK, Made, Ids

\* The next id is a new one.
LEMMA NextId ==
  ASSUME TypeOK, NEW id, id = s_taskAutoId + 1, id \in Ids, s_taskAutoId' = id
  PROVE  /\ id \notin Made /\ id # 0 /\ id \in 0..MaxCalls
         /\ Made' = Made \cup {id}
BY RpcAssumption DEF TypeOK, Made, Ids

\* Who calls with an rpc_t of an actor.
LEMMA RpcOfActor ==
  ASSUME NEW r \in Runners
  PROVE  Rpc(r) \in Actors
BY RpcAssumption DEF Rpc, Runners

\* Two replies to one request are the same reply.
LEMMA OneReply ==
  ASSUME TypeOK, MessageInv, NEW m \in replies \cup Held, NEW n \in replies \cup Held,
         m.id = n.id
  PROVE  m = n
<1>1. m \in Replies /\ n \in Replies
  BY DEF TypeOK, Held
<1>2. m.code = n.code
  BY <1>1 DEF MessageInv, Replies
<1>3. QED
  BY <1>1, <1>2 DEF Replies

\* The tables are finite: they hold ids.
LEMMA FiniteTables ==
  ASSUME TypeOK, NEW a \in Actors
  PROVE  IsFiniteSet(m_tasks[a]) /\ Cardinality(m_tasks[a]) \in Nat
<1>1. IsFiniteSet(Ids)
  BY RpcAssumption, FS_Interval DEF Ids
<1>2. m_tasks[a] \subseteq Ids
  BY DEF TypeOK
<1> QED
  BY <1>1, <1>2, FS_Subset, FS_CardinalityType

\* A call looks whether there is room, and puts one task into the table at most.
LEMMA OneTaskMore ==
  ASSUME TypeOK, NEW r \in Runners, NEW u \in Targets, Request(r, u)
  PROVE  \A a \in Actors : Cardinality(m_tasks'[a]) <= MaxSize
<1>1. Rpc(r) \in Actors
  BY RpcOfActor
<1>2. PICK id : m_tasks' = [m_tasks EXCEPT ![Rpc(r)] = IF u.mode = "post" THEN @ ELSE @ \cup {id}]
  BY DEF Request, TaskMake
<1>3. ~(Cardinality(m_tasks[Rpc(r)]) >= MaxSize)
  BY DEF Request, Full
<1> DEFINE t == m_tasks[Rpc(r)]
<1>4. Cardinality(t \cup {id}) <= MaxSize
  <2>1. IsFiniteSet(t) /\ Cardinality(t) \in Nat
    BY <1>1, FiniteTables
  <2>2. Cardinality(t \cup {id}) = Cardinality(t) \/ Cardinality(t \cup {id}) = Cardinality(t) + 1
    BY <2>1, FS_AddElement
  <2> QED
    BY <1>3, <2>1, <2>2, RpcAssumption
<1> QED
  BY <1>1, <1>2, <1>4 DEF TypeOK

\* Calling: the new task is in the table, its request is posted, the coroutine is in
\* its frame.
LEMMA RequestKeeps ==
  ASSUME IInv, NEW r \in Runners, NEW u \in Targets, Request(r, u)
  PROVE  IInv'
<1> DEFINE c == [by |-> r, to |-> u.to, type |-> u.type, rep |-> u.rep,
                 mode |-> u.mode]
<1>1. PICK id \in Ids :
      /\ id = s_taskAutoId + 1 /\ s_taskAutoId' = id
      /\ call' = [call EXCEPT ![id] = c]
      /\ m_tasks' = [m_tasks EXCEPT ![Rpc(r)] = IF u.mode = "post" THEN @ ELSE @ \cup {id}]
      /\ requests' = requests \cup {id}
      /\ cur' = [cur EXCEPT ![r] = id]
      /\ pc[r] \in {"idle", "run"}
      /\ pc' = [pc EXCEPT ![r] = "made"]
      /\ UNCHANGED <<m_onRepOk, over, replies, taken, called, heard, handled, serving, left>>
      /\ UNCHANGED Held
  BY DEF Request, Calling, TaskMake, Held
<1>2. /\ id \notin Made /\ id # 0 /\ id \in 0..MaxCalls
      /\ Made' = Made \cup {id}
  BY <1>1, NextId DEF IInv
<1>3. Made \subseteq Ids /\ 0 \notin Made
  BY MadeIds DEF IInv
<1>4. c \in Calls /\ c.by = r /\ c.to = u.to /\ c.mode = u.mode
  BY DEF Calls, Targets, IInv, TypeOK
<1>5. Rpc(r) \in Actors
  BY RpcOfActor
<1>6. /\ \A i \in Made : call'[i] = call[i]
      /\ call'[id] = c
  BY <1>1, <1>2, <1>3 DEF IInv, TypeOK
<1>7. \A i \in Made : call[i].by \in Runners /\ Rpc(call[i].by) \in Actors
  BY <1>3, RpcOfActor DEF IInv, TypeOK, Calls
<1>8. TypeOK'
  <2>1. \A a \in Actors : Cardinality(m_tasks'[a]) <= MaxSize
    BY OneTaskMore DEF IInv
  <2> QED
    BY <2>1, <1>1, <1>2, <1>4, <1>5 DEF IInv, TypeOK
<1>9. KnownInv'
  BY <1>1, <1>2, <1>3, <1>5 DEF IInv, TypeOK, KnownInv
<1>10. \A i \in Made : Waiting(i)' <=> Waiting(i)
  BY <1>1, <1>2, <1>5, <1>6, <1>7 DEF IInv, TypeOK, Waiting
<1>11. Waiting(id)' <=> u.mode # "post"
  <2>1. id \notin m_tasks[Rpc(r)]
    BY <1>2, <1>5 DEF IInv, KnownInv
  <2>2. QED
    BY <1>1, <1>4, <1>5, <1>6, <2>1 DEF IInv, TypeOK, Waiting
<1>12. over[id] = "no" /\ handled[id] = "no" /\ id \notin heard /\ id \notin left
  BY <1>1, <1>2 DEF IInv, KnownInv
<1>13. TableInv'
  <2>1. \A a \in Actors : \A i \in m_tasks'[a] : Rpc(call'[i].by) = a
    BY <1>1, <1>2, <1>4, <1>5, <1>6 DEF IInv, TypeOK, KnownInv, TableInv
  <2>2. \A i \in Made' : call'[i].mode # "post" /\ over'[i] = "no"
          => Waiting(i)' \/ \E m \in Held' : m.id = i
    BY <1>1, <1>2, <1>4, <1>6, <1>10, <1>11 DEF IInv, TableInv
  <2>3. QED
    BY <2>1, <2>2 DEF TableInv
<1>14. MessageInv'
  BY <1>1, <1>2, <1>12 DEF IInv, KnownInv, MessageInv
<1>15. HandlerInv'
  BY <1>1, <1>2, <1>6 DEF IInv, TypeOK, KnownInv, HandlerInv
<1>16. FrameInv'
  <2>1. cur[r] = 0
    BY <1>1 DEF IInv, FrameInv
  <2>2. \A i \in Made : Sync(i)' <=> Sync(i)
    BY <1>2, <1>6 DEF Sync
  <2>3. \A i \in Made' : Sync(i)' /\ over'[i] = "no"
          => cur'[call'[i].by] = i \/ i \in left'
    BY <1>1, <1>2, <1>3, <1>4, <1>6, <1>7, <2>1, <2>2 DEF IInv, TypeOK, FrameInv
  <2>4. \A q \in Runners : cur'[q] = 0 <=> pc'[q] \in {"idle", "run"}
    BY <1>1, <1>2 DEF IInv, TypeOK, FrameInv
  <2>5. \A q \in Runners : cur'[q] # 0
          => cur'[q] \in Made' /\ call'[cur'[q]].by = q /\ cur'[q] \notin left'
    BY <1>1, <1>2, <1>4, <1>6, <1>12 DEF IInv, TypeOK, FrameInv
  <2>6. QED
    BY <2>3, <2>4, <2>5 DEF FrameInv
<1>17. TaskEndsOnce'
  BY <1>1, <1>2, <1>10, <1>12 DEF IInv, KnownInv, TaskEndsOnce, Held
<1>18. PostSilent'
  <2>1. \A m \in replies' \cup Held' : m.id \in Made
    BY <1>1 DEF IInv, KnownInv
  <2>2. QED
    BY <1>1, <1>2, <1>4, <1>6, <1>10, <1>11, <1>12, <2>1 DEF IInv, PostSilent
<1>19. QED
  BY <1>8, <1>9, <1>13, <1>14, <1>15, <1>16, <1>17, <1>18 DEF IInv

\* A step of the coroutine r inside its frame, or out of a frame whose call is over.
LEMMA FrameStepKeeps ==
  ASSUME IInv, NEW r \in Runners, CbOkSet(r) \/ Wait(r) \/ GiveUp(r) \/ Finish(r)
  PROVE  IInv'
<1>1. /\ UNCHANGED <<s_taskAutoId, call, m_tasks, over, requests, replies, taken, called,
                      heard, handled, serving>>
      /\ Made' = Made /\ Held' = Held
  BY DEF CbOkSet, Wait, GiveUp, Finish, RunnerTo, clientVars, taskVars, netVars, Made, Held
<1>2. /\ \A q \in Runners \ {r} : pc'[q] = pc[q] /\ cur'[q] = cur[q]
      /\ \/ pc'[r] = "wait" /\ pc[r] = "made" /\ cur'[r] = cur[r] /\ left' = left
         \/ /\ pc'[r] = "run" /\ pc[r] = "wait" /\ cur'[r] = 0
            /\ \/ left' = left /\ (call[cur[r]].mode = "sync" => over[cur[r]] # "no")
               \/ left' = left \cup {cur[r]}
         \/ /\ pc'[r] = "idle" /\ pc[r] = "run" /\ cur'[r] = cur[r] /\ serving[r] = 0
            /\ left' = left
  BY DEF IInv, TypeOK, CbOkSet, Wait, GiveUp, Finish, RunnerTo
<1>3. TypeOK'
  <2>1. cur' \in [Runners -> 0..MaxCalls]
    BY RpcAssumption DEF IInv, TypeOK, CbOkSet, Wait, GiveUp, Finish
  <2>2. pc' \in [Runners -> {"idle", "run", "made", "wait"}]
    BY DEF IInv, TypeOK, CbOkSet, Wait, GiveUp, Finish, RunnerTo
  <2>3. m_onRepOk' \subseteq Ids
    <3>1. pc[r] = "made" => cur[r] \in Ids
      BY MadeIds DEF IInv, TypeOK, FrameInv
    <3>2. QED
      BY <3>1 DEF IInv, TypeOK, CbOkSet, Wait, GiveUp, Finish, RunnerTo, clientVars
  <2>4. \A i \in left' : i \in left \/ i \in Made
    BY <1>2 DEF IInv, FrameInv
  <2>5. left' \subseteq Ids
    BY <2>4, MadeIds DEF IInv, TypeOK
  <2>6. QED
    BY <1>1, <2>1, <2>2, <2>3, <2>5 DEF IInv, TypeOK
<1>4. TableInv' /\ MessageInv' /\ TaskEndsOnce' /\ PostSilent'
  BY <1>1 DEF IInv, TableInv, MessageInv, TaskEndsOnce, PostSilent, Waiting
<1>8. KnownInv'
  <2>1. \A i \in left' : i \in left \/ i \in Made
    BY <1>2 DEF IInv, FrameInv
  <2> QED
    BY <1>1, <2>1 DEF IInv, KnownInv
<1>5. HandlerInv'
  BY <1>1, <1>2 DEF IInv, HandlerInv
<1>6. FrameInv'
  <2>1. \A q \in Runners : cur'[q] = 0 <=> pc'[q] \in {"idle", "run"}
    BY <1>2 DEF IInv, TypeOK, FrameInv
  <2>2. \A q \in Runners : cur'[q] # 0
          => cur'[q] \in Made' /\ call'[cur'[q]].by = q /\ cur'[q] \notin left'
    BY <1>1, <1>2 DEF IInv, FrameInv
  <2>3. ASSUME NEW id \in Made, Sync(id), over[id] = "no"
        PROVE  cur'[call[id].by] = id \/ id \in left'
    <3>1. (cur[call[id].by] = id \/ id \in left) /\ call[id].mode = "sync"
      BY <2>3 DEF IInv, FrameInv, Sync
    <3>2. call[id].by \in Runners
      BY MadeIds DEF IInv, TypeOK, Calls
    <3>3. QED
      BY <1>2, <2>3, <3>1, <3>2
  <2>4. QED
    BY <1>1, <2>1, <2>2, <2>3 DEF FrameInv, Sync
<1>7. QED
  BY <1>3, <1>4, <1>5, <1>6, <1>8 DEF IInv

\* An actor takes a request and enters the handler.
LEMMA ServeKeeps ==
  ASSUME IInv, NEW a \in Actors, NEW id \in Ids, Serve(a, id)
  PROVE  IInv'
<1>1. /\ UNCHANGED <<s_taskAutoId, call, m_onRepOk, m_tasks, over, replies, taken, called,
                      heard, cur, left>>
      /\ Made' = Made /\ Held' = Held
      /\ pc[a] = "idle" /\ id \in requests /\ call[id].to = a
      /\ requests' = requests \ {id}
      /\ pc' = [pc EXCEPT ![a] = "run"]
      /\ serving' = [serving EXCEPT ![a] = id]
      /\ handled' = [handled EXCEPT ![id] = "running"]
  BY DEF Serve, Take, RunnerTo, clientVars, taskVars, Made, Held
<1>2. id \in Made /\ id # 0 /\ id \in 0..MaxCalls
  BY <1>1, MadeIds DEF IInv, KnownInv
<1>3. handled[id] = "no" /\ over[id] # "ok"
      /\ \A m \in replies \cup Held : m.id # id
  BY <1>1, <1>2 DEF IInv, MessageInv
<1>4. a \in Runners /\ serving[a] = 0 /\ cur[a] = 0
  BY <1>1 DEF Runners, IInv, HandlerInv, FrameInv
<1>5. TypeOK'
  BY <1>1, <1>2, <1>4 DEF IInv, TypeOK
<1>6. KnownInv'
  BY <1>1, <1>2, <1>4 DEF IInv, TypeOK, KnownInv
<1>7. TableInv' /\ TaskEndsOnce' /\ PostSilent'
  BY <1>1 DEF IInv, TableInv, TaskEndsOnce, PostSilent, Waiting
<1>8. MessageInv'
  BY <1>1, <1>2, <1>3, MadeIds DEF IInv, TypeOK, MessageInv, KnownInv
<1>9. HandlerInv'
  BY <1>1, <1>2, <1>3, <1>4 DEF IInv, TypeOK, HandlerInv
<1>10. FrameInv'
  BY <1>1, <1>4 DEF IInv, TypeOK, FrameInv, Sync
<1>11. QED
  BY <1>5, <1>6, <1>7, <1>8, <1>9, <1>10 DEF IInv

\* An actor takes a request it cannot answer with a handler.
LEMMA RefuseKeeps ==
  ASSUME IInv, NEW a \in Actors, NEW id \in Ids, Refuse(a, id)
  PROVE  IInv'
<1> DEFINE n == [id |-> id, code |-> "fail"]
<1>1. /\ UNCHANGED <<s_taskAutoId, call, m_onRepOk, m_tasks, over, taken, called, heard,
                      handled, pc, serving, cur, left>>
      /\ id \in requests
      /\ requests' = requests \ {id}
      /\ replies' = replies \/ (call[id].mode # "post" /\ replies' = replies \cup {n})
  <2>1. replies' \in {replies, replies \cup {n}} /\ (call[id].mode = "post" => replies' = replies)
    BY DEF Refuse
  <2>2. replies' = replies \/ (call[id].mode # "post" /\ replies' = replies \cup {n})
    BY <2>1
  <2>3. QED
    BY <2>2 DEF Refuse, Take, clientVars, taskVars, runVars
<1>2. Made' = Made /\ Held' = Held
  BY <1>1 DEF Made, Held
<1>3. id \in Made
  BY <1>1 DEF IInv, KnownInv
<1>4. n \in Replies /\ n.id = id /\ n.code = "fail"
  BY DEF Replies
<1>5. handled[id] = "no"
  BY <1>1 DEF IInv, MessageInv
<1>6. TypeOK'
  BY <1>1, <1>4 DEF IInv, TypeOK
<1>7. KnownInv'
  BY <1>1, <1>2, <1>3, <1>4 DEF IInv, KnownInv
<1>8. TableInv' /\ TaskEndsOnce' /\ HandlerInv' /\ FrameInv'
  BY <1>1, <1>2 DEF IInv, TableInv, TaskEndsOnce, HandlerInv, FrameInv, Waiting, Sync
<1>9. MessageInv'
  BY <1>1, <1>2, <1>3, <1>4, <1>5 DEF IInv, MessageInv
<1>10. PostSilent'
  BY <1>1, <1>2, <1>4 DEF IInv, PostSilent, Waiting
<1>11. QED
  BY <1>6, <1>7, <1>8, <1>9, <1>10 DEF IInv

\* The handler of a request returns or throws, and nothing is answered to a post.
LEMMA ReturnKeeps ==
  ASSUME IInv, NEW a \in Actors, Return(a) \/ Throw(a)
  PROVE  IInv'
<1>1. PICK id : id = serving[a]
  OBVIOUS
<1>0. PICK c \in {"ok", "fail"}, h \in {"done", "threw"} :
      \/ Return(a) /\ c = "ok" /\ h = "done"
      \/ Throw(a) /\ c = "fail" /\ h = "threw"
  OBVIOUS
<1> DEFINE n == [id |-> id, code |-> c]
<1>2. /\ UNCHANGED <<s_taskAutoId, call, m_onRepOk, m_tasks, over, requests, taken, called,
                      heard, cur, left>>
      /\ Made' = Made /\ Held' = Held
      /\ id # 0 /\ pc[a] = "run"
      /\ pc' = [pc EXCEPT ![a] = "idle"]
      /\ serving' = [serving EXCEPT ![a] = 0]
      /\ handled' = [handled EXCEPT ![id] = h]
      /\ replies' = replies \/ (call[id].mode # "post" /\ replies' = replies \cup {n})
  <2>1. CASE Return(a) /\ c = "ok" /\ h = "done"
    BY <1>1, <2>1 DEF Return, RunnerTo, clientVars, taskVars, Made, Held
  <2>2. CASE Throw(a) /\ c = "fail" /\ h = "threw"
    <3>1. replies' \in {replies, replies \cup {n}} /\ (call[id].mode = "post" => replies' = replies)
      BY <1>1, <2>2 DEF Throw
    <3>2. replies' = replies \/ (call[id].mode # "post" /\ replies' = replies \cup {n})
      BY <3>1
    <3> QED
      BY <1>1, <2>2, <3>2 DEF Throw, RunnerTo, clientVars, taskVars, Made, Held
  <2> QED
    BY <1>0, <2>1, <2>2
<1>3. a \in Runners /\ cur[a] = 0
  BY <1>2 DEF Runners, IInv, FrameInv
<1>4. /\ id \in Made /\ id \in Ids
      /\ handled[id] = "running" /\ call[id].to = a
  BY <1>1, <1>2, <1>3, MadeIds DEF IInv, KnownInv, HandlerInv
<1>5. /\ n \in Replies /\ n.id = id /\ n.code = c
  BY <1>4 DEF Replies
<1>6. id \notin requests /\ \A m \in replies \cup Held : m.id # id
  BY <1>4 DEF IInv, MessageInv
<1>7. TypeOK'
  BY <1>2, <1>3, <1>4, <1>5, RpcAssumption DEF IInv, TypeOK
<1>8. KnownInv'
  BY <1>2, <1>3, <1>4, <1>5 DEF IInv, TypeOK, KnownInv
<1>9. TableInv' /\ TaskEndsOnce'
  BY <1>2 DEF IInv, TableInv, TaskEndsOnce, Waiting
<1>10. MessageInv'
  <2>1. handled'[id] = h /\ \A i \in Made : i # id => handled'[i] = handled[i]
    BY <1>2, <1>4, MadeIds DEF IInv, TypeOK
  <2>2. \A m \in replies' \cup Held' : m = n \/ (m \in replies \cup Held /\ m.id # id)
    BY <1>2, <1>6
  <2>3. \A m \in replies' \cup Held' : m.id \in Made
    BY <1>2, <1>8 DEF KnownInv
  <2>4. \A i \in Made : over[i] = "ok" => i # id
    BY <1>4 DEF IInv, MessageInv
  <2> QED
    BY <1>0, <1>2, <1>5, <1>6, <2>1, <2>2, <2>3, <2>4 DEF IInv, KnownInv, MessageInv
<1>11. HandlerInv'
  BY <1>1, <1>2, <1>3, <1>4 DEF IInv, TypeOK, HandlerInv
<1>12. FrameInv'
  BY <1>2, <1>3 DEF IInv, TypeOK, FrameInv, Sync
<1>13. PostSilent'
  BY <1>2, <1>5 DEF IInv, PostSilent, Waiting
<1>14. QED
  BY <1>7, <1>8, <1>9, <1>10, <1>11, <1>12, <1>13 DEF IInv

\* A task that leaves its table alone does not disturb the others.
LEMMA PullOne ==
  ASSUME TypeOK, KnownInv, TableInv, NEW id \in Made, Pull(id), call' = call
  PROVE  /\ m_tasks' \in [Actors -> SUBSET Ids]
         /\ \A a \in Actors : Cardinality(m_tasks'[a]) <= MaxSize
         /\ \A a \in Actors : m_tasks'[a] = m_tasks[a] \ {id}
         /\ ~Waiting(id)'
         /\ \A i \in Made : i # id => (Waiting(i)' <=> Waiting(i))
<1>1. \A i \in Made : Rpc(call[i].by) \in Actors
  BY MadeIds, RpcOfActor DEF TypeOK, Calls
<1>2. m_tasks' = [m_tasks EXCEPT ![Rpc(call[id].by)] = @ \ {id}]
  BY DEF Pull
<1>3. m_tasks' \in [Actors -> SUBSET Ids]
  BY <1>1, <1>2 DEF TypeOK
<1>4. \A a \in Actors : m_tasks'[a] = m_tasks[a] \ {id}
  BY <1>1, <1>2 DEF TypeOK, TableInv
<1>6. ASSUME NEW a \in Actors PROVE Cardinality(m_tasks'[a]) <= MaxSize
  <2>1. m_tasks'[a] \subseteq m_tasks[a] /\ IsFiniteSet(m_tasks[a])
    BY <1>4, FiniteTables
  <2>2. /\ Cardinality(m_tasks'[a]) <= Cardinality(m_tasks[a])
        /\ Cardinality(m_tasks'[a]) \in Nat
    BY <2>1, FS_Subset, FS_CardinalityType
  <2>3. Cardinality(m_tasks[a]) <= MaxSize
    BY DEF TypeOK
  <2> QED
    BY <2>2, <2>3, FiniteTables, RpcAssumption
<1>5. QED
  BY <1>1, <1>3, <1>4, <1>6 DEF Waiting

\* A reply comes in: the first one for a task in the table pulls it.
LEMMA ResponseKeeps ==
  ASSUME IInv, NEW m \in Replies, Response(m)
  PROVE  IInv'
<1>1. /\ UNCHANGED <<s_taskAutoId, call, m_onRepOk, over, called, heard, requests, handled,
                      pc, serving, cur, left>>
      /\ m \in replies
      /\ replies' = replies \ {m}
      /\ Pull(m.id)
      /\ taken' = IF Waiting(m.id) THEN taken \cup {m} ELSE taken
  BY DEF Response, clientVars, runVars
<1>2. Made' = Made /\ m.id \in Made
  BY <1>1 DEF Made, IInv, KnownInv
<1>3. /\ m_tasks' \in [Actors -> SUBSET Ids]
      /\ \A a \in Actors : Cardinality(m_tasks'[a]) <= MaxSize
      /\ \A a \in Actors : m_tasks'[a] = m_tasks[a] \ {m.id}
      /\ ~Waiting(m.id)'
      /\ \A i \in Made : i # m.id => (Waiting(i)' <=> Waiting(i))
  BY <1>1, <1>2, PullOne DEF IInv
<1>4. /\ taken' \subseteq taken \cup {m} /\ taken \subseteq taken'
      /\ Held \subseteq Held'
      /\ replies' \cup Held' \subseteq replies \cup Held
      /\ Waiting(m.id) => Held' = Held \cup {m}
      /\ ~Waiting(m.id) => taken' = taken /\ Held' = Held
  BY <1>1 DEF Held
<1>5. TypeOK'
  BY <1>1, <1>3, <1>4 DEF IInv, TypeOK
<1>6. KnownInv'
  BY <1>1, <1>2, <1>3, <1>4 DEF IInv, KnownInv
<1>7. TableInv'
  <2>1. \A a \in Actors : \A i \in m_tasks'[a] : Rpc(call'[i].by) = a
    BY <1>1, <1>3 DEF IInv, TableInv
  <2>2. ASSUME NEW i \in Made, call[i].mode # "post", over[i] = "no"
        PROVE  Waiting(i)' \/ \E n \in Held' : n.id = i
    BY <2>2, <1>1, <1>3, <1>4 DEF IInv, TableInv
  <2>3. QED
    BY <1>1, <1>2, <2>1, <2>2 DEF TableInv
<1>8. MessageInv' /\ HandlerInv' /\ FrameInv'
  <2>1. \A n \in called : n \notin taken'
    BY <1>1, <1>2, <1>4 DEF IInv, MessageInv, TaskEndsOnce, Held
  <2>2. MessageInv'
    BY <1>1, <1>2, <1>4, <2>1 DEF IInv, MessageInv
  <2> QED
    BY <1>1, <1>2, <2>2 DEF IInv, HandlerInv, FrameInv, Sync
<1>9. TaskEndsOnce'
  <2>1. ASSUME Waiting(m.id)
        PROVE  m.id \notin heard /\ over[m.id] = "no" /\ \A n \in Held : n.id # m.id
    <3>1. over[m.id] = "no" /\ \A n \in Held : n.id # m.id
      BY <1>2, <2>1 DEF IInv, TaskEndsOnce
    <3>2. \A n \in called : n.id # m.id
      BY <3>1 DEF Held
    <3> QED
      BY <1>2, <3>1, <3>2 DEF IInv, TaskEndsOnce
  <2>2. \A n \in taken' : n.id \notin heard'
    BY <1>1, <1>4, <2>1 DEF IInv, TaskEndsOnce
  <2>3. ASSUME NEW i \in Made, NEW n \in Held', n.id = i
        PROVE  over[i] = "no" /\ ~Waiting(i)'
    <3>1. CASE n \in Held
      BY <3>1, <2>3, <1>3 DEF IInv, TaskEndsOnce
    <3>2. CASE n \notin Held
      BY <3>2, <2>3, <1>3, <1>4, <2>1
    <3> QED
      BY <3>1, <3>2
  <2> QED
    BY <1>1, <1>2, <1>3, <2>2, <2>3 DEF IInv, TaskEndsOnce
<1>10. PostSilent'
  BY <1>1, <1>2, <1>3, <1>4 DEF IInv, PostSilent
<1>11. QED
  BY <1>5, <1>6, <1>7, <1>8, <1>9, <1>10 DEF IInv

\* The callback of a task begins: it has not run before, nor does it end anything yet.
LEMMA CallbackKeeps ==
  ASSUME IInv, NEW m \in Replies, Callback(m)
  PROVE  IInv'
<1>1. /\ UNCHANGED <<s_taskAutoId, call, m_onRepOk, m_tasks, over, requests, replies, handled,
                      pc, serving, cur, left>>
      /\ m \in taken
      /\ taken' = taken \ {m} /\ called' = called \cup {m}
      /\ heard' = IF m.code = "ok" THEN heard \cup ({m.id} \cap m_onRepOk) ELSE heard
  BY DEF Callback, clientVars, netVars, runVars
<1>2. /\ Made' = Made /\ Held' = Held /\ m \in Held
      /\ \A i \in Ids : Waiting(i)' <=> Waiting(i)
  BY <1>1 DEF Made, Held, Waiting
<1>3. m.id \in Made /\ m.id \in Ids
  BY <1>2, MadeIds DEF IInv, KnownInv
<1>4. /\ heard \subseteq heard' /\ heard' \subseteq heard \cup {m.id}
      /\ m.code # "ok" => heard' = heard
  BY <1>1
<1>5. TypeOK'
  BY <1>1, <1>3, <1>4 DEF IInv, TypeOK
<1>6. KnownInv' /\ TableInv'
  BY <1>1, <1>2, <1>3, <1>4, MadeIds DEF IInv, KnownInv, TableInv, Waiting
<1>7. MessageInv' /\ HandlerInv' /\ FrameInv' /\ PostSilent'
  BY <1>1, <1>2 DEF IInv, MessageInv, HandlerInv, FrameInv, PostSilent, Sync, Waiting
<1>8. TaskEndsOnce'
  <2>1. \A n \in taken' : n \in taken /\ n.id # m.id
    BY <1>1, OneReply DEF IInv, Held
  <2>2. \A n \in taken' : n.id \notin heard'
    BY <2>1, <1>4 DEF IInv, TaskEndsOnce
  <2>3. \A i \in Made : i \in heard'
          => over[i] = "ok" \/ \E n \in called' : n.id = i /\ n.code = "ok"
    BY <1>1, <1>4 DEF IInv, TaskEndsOnce
  <2> QED
    BY <1>1, <1>2, <2>2, <2>3, MadeIds DEF IInv, TaskEndsOnce
<1> QED
  BY <1>5, <1>6, <1>7, <1>8 DEF IInv

\* The reply that pulled a task ends it, and it is the only one that did.
LEMMA CompleteKeeps ==
  ASSUME IInv, NEW m \in Replies, Complete(m)
  PROVE  IInv'
<1>1. /\ UNCHANGED <<s_taskAutoId, call, m_onRepOk, m_tasks, requests, replies, taken, heard,
                      handled, pc, serving, cur, left>>
      /\ m \in called
      /\ called' = called \ {m}
      /\ over' = [over EXCEPT ![m.id] = m.code]
  BY DEF Complete, clientVars, netVars, runVars
<1>2. /\ Made' = Made /\ m.id \in Made /\ m.id \in Ids /\ m \in Held
      /\ m.code \in {"ok", "fail"}
  BY <1>1, MadeIds DEF Made, IInv, KnownInv, Replies, Held
<1>3. /\ over[m.id] = "no" /\ ~Waiting(m.id) /\ call[m.id].mode # "post"
      /\ m.code = "ok" => handled[m.id] = "done"
  BY <1>2 DEF IInv, TaskEndsOnce, PostSilent, MessageInv
<1>4. /\ \A n \in Held' : n \in Held /\ n.id # m.id
      /\ \A n \in Held : n.id # m.id => n \in Held'
  <2>1. m \notin Held'
    BY <1>1 DEF IInv, MessageInv, Held
  <2>2. Held' \subseteq Held /\ \A n \in Held : n # m => n \in Held'
    BY <1>1 DEF Held
  <2> QED
    BY <1>2, <2>1, <2>2, OneReply DEF IInv
<1>5. /\ over'[m.id] = m.code
      /\ \A i \in Ids : i # m.id => over'[i] = over[i]
      /\ \A i \in Ids : Waiting(i)' <=> Waiting(i)
  BY <1>1, <1>2 DEF IInv, TypeOK, Waiting
<1>7. TypeOK'
  BY <1>1, <1>2 DEF IInv, TypeOK
<1>8. KnownInv'
  BY <1>1, <1>2, <1>4, <1>5 DEF IInv, KnownInv
<1>9. TableInv'
  <2>1. \A i \in Made : over'[i] = "no" => over[i] = "no" /\ i # m.id
    BY <1>2, <1>5, MadeIds DEF IInv
  <2>2. \A i \in Made : i # m.id => \A n \in Held : n.id = i => n \in Held'
    BY <1>4
  <2>3. QED
    BY <1>1, <1>2, <1>5, <2>1, <2>2, MadeIds DEF IInv, TableInv
<1>10. MessageInv'
  BY <1>1, <1>2, <1>3, <1>4, <1>5, MadeIds DEF IInv, MessageInv
<1>11. HandlerInv'
  BY <1>1 DEF IInv, HandlerInv
<1>12. FrameInv'
  BY <1>1, <1>2, <1>5, MadeIds DEF IInv, FrameInv, Sync
<1>13. TaskEndsOnce'
  <2>1. m.id \in heard => m.code = "ok"
    BY <1>1, <1>2, <1>3, OneReply DEF IInv, TaskEndsOnce, Held
  <2>2. \A i \in Made : i \in heard
          => over'[i] = "ok" \/ \E n \in called' : n.id = i /\ n.code = "ok"
    BY <1>1, <1>2, <1>5, <2>1, MadeIds DEF IInv, TaskEndsOnce
  <2> QED
    BY <1>1, <1>2, <1>3, <1>4, <1>5, <2>2, MadeIds DEF IInv, TaskEndsOnce
<1>14. PostSilent'
  BY <1>1, <1>2, <1>3, <1>4, <1>5, MadeIds DEF IInv, PostSilent
<1>15. QED
  BY <1>7, <1>8, <1>9, <1>10, <1>11, <1>12, <1>13, <1>14 DEF IInv

\* The timer ends a task nobody has pulled.
LEMMA TimeoutKeeps ==
  ASSUME IInv, NEW id \in Ids, Timeout(id)
  PROVE  IInv'
<1>1. /\ UNCHANGED <<s_taskAutoId, call, m_onRepOk, taken, called, heard, requests, replies,
                      handled, pc, serving, cur, left>>
      /\ Waiting(id) /\ Pull(id)
      /\ over' = [over EXCEPT ![id] = "fail"]
  BY DEF Timeout, clientVars, netVars, runVars
<1>2. Made' = Made /\ Held' = Held /\ id \in Made
  <2>1. Rpc(call[id].by) \in Actors
    BY RpcOfActor DEF IInv, TypeOK, Calls
  <2>2. QED
    BY <1>1, <2>1 DEF Made, Held, Waiting, IInv, KnownInv
<1>3. /\ m_tasks' \in [Actors -> SUBSET Ids]
      /\ \A a \in Actors : Cardinality(m_tasks'[a]) <= MaxSize
      /\ \A a \in Actors : m_tasks'[a] = m_tasks[a] \ {id}
      /\ ~Waiting(id)'
      /\ \A i \in Made : i # id => (Waiting(i)' <=> Waiting(i))
  BY <1>1, <1>2, PullOne DEF IInv
<1>4. /\ over[id] = "no" /\ call[id].mode # "post" /\ id \notin heard
      /\ \A m \in Held : m.id # id
  BY <1>1, <1>2 DEF IInv, TaskEndsOnce, PostSilent, Held
<1>5. /\ over'[id] = "fail"
      /\ \A i \in Ids : i # id => over'[i] = over[i]
  BY <1>1 DEF IInv, TypeOK
<1>6. TypeOK'
  BY <1>1, <1>3 DEF IInv, TypeOK
<1>7. KnownInv'
  BY <1>1, <1>2, <1>3, <1>5 DEF IInv, KnownInv
<1>8. TableInv'
  <2>1. \A a \in Actors : \A i \in m_tasks'[a] : Rpc(call'[i].by) = a
    BY <1>1, <1>3 DEF IInv, TableInv
  <2>2. ASSUME NEW i \in Made, call[i].mode # "post", over'[i] = "no"
        PROVE  Waiting(i)' \/ \E n \in Held' : n.id = i
    <3>1. i # id /\ over[i] = "no"
      BY <2>2, <1>5, MadeIds DEF IInv
    <3>2. Waiting(i) \/ \E n \in Held : n.id = i
      BY <2>2, <3>1 DEF IInv, TableInv
    <3> QED
      BY <3>1, <3>2, <1>2, <1>3
  <2>3. QED
    BY <1>1, <1>2, <2>1, <2>2 DEF TableInv
<1>9. MessageInv' /\ HandlerInv' /\ FrameInv'
  BY <1>1, <1>2, <1>5, MadeIds DEF IInv, MessageInv, HandlerInv, FrameInv, Sync
<1>10. TaskEndsOnce'
  BY <1>1, <1>2, <1>3, <1>4, <1>5, MadeIds DEF IInv, TaskEndsOnce
<1>11. PostSilent'
  BY <1>1, <1>2, <1>3, <1>4, <1>5, MadeIds DEF IInv, PostSilent
<1>12. QED
  BY <1>6, <1>7, <1>8, <1>9, <1>10, <1>11 DEF IInv

\* IInv holds in every reachable state.
THEOREM Inductive == Spec => []IInv
<1>1. Init => IInv
  <2> SUFFICES ASSUME Init PROVE IInv
    OBVIOUS
  <2>1. Made = {} /\ Held = {}
    BY DEF Init, Made, Held
  <2>2. TypeOK
    <3>1. NoCall \in Calls
      BY RpcAssumption DEF NoCall, Calls, Runners, Types, Modes
    <3>2. Cardinality({}) <= MaxSize
      BY FS_EmptySet, RpcAssumption
    <3>3. QED
      BY <3>1, <3>2, RpcAssumption DEF Init, TypeOK
  <2>3. KnownInv /\ TableInv /\ MessageInv /\ HandlerInv
    BY <2>1 DEF Init, KnownInv, TableInv, MessageInv, HandlerInv
  <2>4. FrameInv /\ TaskEndsOnce /\ PostSilent
    BY <2>1 DEF Init, FrameInv, TaskEndsOnce, PostSilent
  <2>5. QED
    BY <2>2, <2>3, <2>4 DEF IInv
<1>2. IInv /\ [Next]_vars => IInv'
  <2> SUFFICES ASSUME IInv, [Next]_vars PROVE IInv'
    OBVIOUS
  <2>1. ASSUME NEW r \in Runners, NEW u \in Targets, Request(r, u) PROVE IInv'
    BY <2>1, RequestKeeps
  <2>2. ASSUME NEW r \in Runners, CbOkSet(r) \/ Wait(r) \/ GiveUp(r) \/ Finish(r)
        PROVE  IInv'
    BY <2>2, FrameStepKeeps
  <2>3. ASSUME NEW a \in Actors, Return(a) \/ Throw(a) PROVE IInv'
    BY <2>3, ReturnKeeps
  <2>4. ASSUME NEW a \in Actors, NEW id \in Ids, Serve(a, id) PROVE IInv'
    BY <2>4, ServeKeeps
  <2>5. ASSUME NEW a \in Actors, NEW id \in Ids, Refuse(a, id) PROVE IInv'
    BY <2>5, RefuseKeeps
  <2>6. ASSUME NEW m \in Replies, Response(m) PROVE IInv'
    BY <2>6, ResponseKeeps
  <2>7. ASSUME NEW m \in Replies, Complete(m) PROVE IInv'
    BY <2>7, CompleteKeeps
  <2>11. ASSUME NEW m \in Replies, Callback(m) PROVE IInv'
    BY <2>11, CallbackKeeps
  <2>8. ASSUME NEW id \in Ids, Timeout(id) PROVE IInv'
    BY <2>8, TimeoutKeeps
  <2>9. CASE UNCHANGED vars
    BY <2>9 DEF vars, clientVars, taskVars, netVars, runVars, IInv, TypeOK, KnownInv,
       TableInv, MessageInv, HandlerInv, FrameInv, TaskEndsOnce, PostSilent, Made, Held,
       Waiting, Sync
  <2>10. QED
    BY <2>1, <2>2, <2>3, <2>4, <2>5, <2>6, <2>7, <2>8, <2>9, <2>11 DEF Next
<1>3. QED
  BY <1>1, <1>2, PTL DEF Spec

\* Every variable keeps its type, and no table ever holds more than m_maxSize tasks
\* (task.h, line 87).
THEOREM TypeCorrect == Spec => []TypeOK
<1>1. IInv => TypeOK
  BY DEF IInv
<1>2. QED
  BY <1>1, Inductive, PTL

\* A task ends once: the timer and the replies never both end it (task_t).
THEOREM TasksEndOnce == Spec => []TaskEndsOnce
<1>1. IInv => TaskEndsOnce
  BY DEF IInv
<1>2. QED
  BY <1>1, Inductive, PTL

\* Nothing ever comes back for a post (server.h, line 64).
THEOREM PostsAreSilent == Spec => []PostSilent
<1>1. IInv => PostSilent
  BY DEF IInv
<1>2. QED
  BY <1>1, Inductive, PTL

\* No sync caller is left behind without a task that the timer or a reply can end.
THEOREM WaitersHaveWakers == Spec => []WaiterHasWaker
<1>1. IInv => WaiterHasWaker
  BY DEF IInv, TableInv, WaiterHasWaker, Sync
<1>2. QED
  BY <1>1, Inductive, PTL

\* While the callback of a sync call runs, the caller is inside the request() whose rep
\* it writes to (rpc.h, lines 120-122), unless its wait(ms) returned by itself.
THEOREM CallbacksInFrame == Spec => []CallbackInFrame
<1>1. IInv => CallbackInFrame
  <2> SUFFICES ASSUME IInv, NEW m \in called, Sync(m.id)
               PROVE  cur[call[m.id].by] = m.id \/ m.id \in left
    BY DEF CallbackInFrame
  <2>1. m.id \in Made /\ m \in Held
    BY DEF Sync, Held
  <2>2. over[m.id] = "no"
    BY <2>1 DEF IInv, TaskEndsOnce
  <2> QED
    BY <2>1, <2>2 DEF IInv, FrameInv
<1>2. QED
  BY <1>1, Inductive, PTL

-----------------------------------------------------------------------------
(* Rpc implements RemoteCall.                                              *)

\* A step that gives out no id, ends no task and no wait tells no caller anything.
LEMMA OutcomeSame ==
  ASSUME UNCHANGED <<s_taskAutoId, over, left>>
  PROVE  Outcome' = Outcome
BY DEF Outcome, Made

\* The end of one task is reported to its caller, unless that has gone, and to nobody else.
LEMMA OutcomeEnds ==
  ASSUME TypeOK, NEW id \in Made, NEW c \in {"ok", "fail"}, over[id] = "no",
         over' = [over EXCEPT ![id] = c], UNCHANGED <<s_taskAutoId, left>>
  PROVE  /\ \/ id \in left /\ Outcome' = Outcome
            \/ Outcome[id] = "open" /\ Outcome' = [Outcome EXCEPT ![id] = c]
         /\ id \in Ids
<1>1. Made' = Made /\ id \in Ids
  BY MadeIds DEF Made
<1>2. \A i \in Ids : over'[i] = IF i = id THEN c ELSE over[i]
  BY DEF TypeOK
<1>3. CASE id \in left
  BY <1>1, <1>2, <1>3 DEF Outcome
<1>4. CASE id \notin left
  BY <1>1, <1>2, <1>4 DEF Outcome
<1>5. QED
  BY <1>1, <1>3, <1>4

\* A wait that returns by itself is a failure to its caller.
LEMMA LeftFails ==
  ASSUME IInv, NEW r \in Runners, GiveUp(r)
  PROVE  \E i \in Ids : /\ Outcome[i] = "open"
                        /\ Outcome' = [Outcome EXCEPT ![i] = "fail"]
                        /\ handled' = handled
<1>1. PICK id : id = cur[r]
  OBVIOUS
<1>2. /\ left' = left \cup {id} /\ over[id] = "no" /\ call[id].mode = "sync"
      /\ UNCHANGED <<s_taskAutoId, over, handled>>
      /\ pc[r] = "wait"
  BY <1>1 DEF GiveUp, RunnerTo, clientVars, taskVars
<1>3. id \in Made /\ id \in Ids /\ call[id].by = r
  BY <1>1, <1>2, MadeIds DEF IInv, TypeOK, FrameInv
<1>4. Made' = Made
  BY <1>2 DEF Made
<1>5. id \notin left
  BY <1>1, <1>2, <1>3 DEF IInv, FrameInv
<1> QED
  BY <1>2, <1>3, <1>4, <1>5 DEF Outcome

\* taskMake issues the call.
LEMMA RequestIssues ==
  ASSUME IInv, NEW r \in Runners, NEW u \in Targets, Request(r, u)
  PROVE  \E i \in Ids : /\ Outcome[i] = "none"
                        /\ Outcome' = [Outcome EXCEPT ![i] = "open"]
                        /\ handled' = handled
<1>1. PICK id \in Ids : /\ id = s_taskAutoId + 1 /\ s_taskAutoId' = id
                        /\ UNCHANGED <<over, left, handled>>
  BY DEF Request, TaskMake
<1>2. id \notin Made /\ Made' = Made \cup {id}
  BY <1>1, NextId DEF IInv
<1>3. over[id] = "no" /\ id \notin left
  BY <1>2 DEF IInv, KnownInv
<1>4. QED
  BY <1>1, <1>2, <1>3 DEF Outcome

\* Every remote call runs its handler at most once and is reported ok only after the
\* handler finished, though requests and replies are late, lost or race with the timer.
THEOREM Implements == Spec => RemoteCallSpec
<1>1. Init => RC!Init
  BY DEF Init, RC!Init, Outcome, Made
<1>2. IInv /\ [Next]_vars => [RC!Next]_(RC!callVars)
  <2> SUFFICES ASSUME IInv, [Next]_vars
               PROVE  \/ Outcome' = Outcome /\ handled' = handled
                      \/ \E i \in Ids : \/ RC!Issue(i) \/ RC!Run(i) \/ RC!Finish(i)
                                       \/ RC!Throw(i) \/ RC!Report(i)
    BY DEF RC!Next, RC!callVars
  <2>1. ASSUME NEW r \in Runners, NEW u \in Targets, Request(r, u)
        PROVE  \E i \in Ids : RC!Issue(i)
    BY <2>1, RequestIssues DEF RC!Issue
  <2>2. ASSUME \/ \E r \in Runners : CbOkSet(r) \/ Wait(r) \/ Finish(r)
               \/ \E a \in Actors : \E id \in Ids : Refuse(a, id)
               \/ \E m \in Replies : Response(m) \/ Callback(m)
               \/ UNCHANGED vars
        PROVE  Outcome' = Outcome /\ handled' = handled
    <3>1. UNCHANGED <<s_taskAutoId, over, left, handled>>
      BY <2>2 DEF CbOkSet, Wait, Finish, Refuse, Response, Callback, vars, clientVars, taskVars,
         runVars
    <3>2. QED
      BY <3>1, OutcomeSame
  <2>3. ASSUME NEW a \in Actors, NEW id \in Ids, Serve(a, id)
        PROVE  RC!Run(id)
    <3>1. id \in Made /\ handled[id] = "no"
      BY <2>3 DEF Serve, Take, IInv, KnownInv, MessageInv
    <3>2. Outcome[id] # "none"
      BY <3>1, MadeIds DEF Outcome, IInv, TypeOK
    <3>3. Outcome' = Outcome
      BY <2>3, OutcomeSame DEF Serve, clientVars, taskVars
    <3>4. QED
      BY <2>3, <3>1, <3>2, <3>3 DEF Serve, RC!Run
  <2>4. ASSUME NEW a \in Actors, Return(a) \/ Throw(a)
        PROVE  \E i \in Ids : RC!Finish(i) \/ RC!Throw(i)
    <3>1. PICK id : id = serving[a]
      OBVIOUS
    <3>2. /\ id # 0
          /\ \/ handled' = [handled EXCEPT ![id] = "done"]
             \/ handled' = [handled EXCEPT ![id] = "threw"]
      BY <2>4, <3>1 DEF Return, Throw
    <3>3. id \in Ids /\ handled[id] = "running"
      BY <3>1, <3>2, MadeIds DEF IInv, KnownInv, HandlerInv, Runners
    <3>4. Outcome' = Outcome
      BY <2>4, OutcomeSame DEF Return, Throw, clientVars, taskVars
    <3>5. QED
      BY <3>2, <3>3, <3>4 DEF RC!Finish, RC!Throw
  <2>5. ASSUME NEW m \in Replies, Complete(m)
        PROVE  \/ Outcome' = Outcome /\ handled' = handled
               \/ \E i \in Ids : RC!Report(i)
    <3>1. /\ m \in Held /\ m.code \in {"ok", "fail"}
          /\ over' = [over EXCEPT ![m.id] = m.code]
          /\ UNCHANGED <<s_taskAutoId, left, handled>>
      BY <2>5 DEF Complete, clientVars, runVars, Replies, Held
    <3>2. /\ m.id \in Made /\ over[m.id] = "no"
          /\ m.code = "ok" => handled[m.id] = "done"
      BY <3>1 DEF IInv, KnownInv, TaskEndsOnce, MessageInv
    <3>3. /\ \/ Outcome' = Outcome
             \/ Outcome[m.id] = "open" /\ Outcome' = [Outcome EXCEPT ![m.id] = m.code]
          /\ m.id \in Ids
      BY <3>1, <3>2, OutcomeEnds DEF IInv
    <3>4. QED
      BY <3>1, <3>2, <3>3 DEF RC!Report
  <2>6. ASSUME NEW id \in Ids, Timeout(id)
        PROVE  \/ Outcome' = Outcome /\ handled' = handled
               \/ RC!Report(id)
    <3>1. /\ Waiting(id) /\ over' = [over EXCEPT ![id] = "fail"]
          /\ UNCHANGED <<s_taskAutoId, left, handled>>
      BY <2>6 DEF Timeout, clientVars, runVars
    <3>2. id \in Made
      BY <3>1, RpcOfActor DEF Waiting, IInv, TypeOK, KnownInv, Calls
    <3>3. over[id] = "no"
      BY <3>1, <3>2 DEF IInv, TaskEndsOnce
    <3>4. \/ Outcome' = Outcome
          \/ Outcome[id] = "open" /\ Outcome' = [Outcome EXCEPT ![id] = "fail"]
      BY <3>1, <3>2, <3>3, OutcomeEnds DEF IInv
    <3>5. QED
      BY <3>1, <3>4 DEF RC!Report
  <2>8. ASSUME NEW r \in Runners, GiveUp(r)
        PROVE  \E i \in Ids : RC!Report(i)
    BY <2>8, LeftFails DEF RC!Report
  <2>7. QED
    BY <2>1, <2>2, <2>3, <2>4, <2>5, <2>6, <2>8 DEF Next
<1>3. QED
  BY <1>1, <1>2, Inductive, PTL DEF Spec, RemoteCallSpec, RC!Spec
=============================================================================
