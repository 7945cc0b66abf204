--------------------------- MODULE RepDataProofs ---------------------------
(***************************************************************************)
(* Proofs about RepData: for structs with any fields and any number of     *)
(* calls, replies reach only the rep and the callback they belong to.      *)
(***************************************************************************)
EXTENDS RepData, TLAPS

\* Calls are numbered as they are made.
IdsInv == \A m \in requests \cup replies : m.id <= made

\* What a request and a reply of the call that is out carry.
CurInv ==
  /\ \A m \in requests : m.id = cur /\ m.kind = "sync" => m.rep = rep
  /\ \A m \in replies : m.id = cur /\ m.kind = "sync" =>
       m.rep = [f \in Fields |-> IF f \in Assigned THEN cur ELSE rep[f]]
  /\ \A m \in replies : m.id = cur /\ m.kind = "package" => m.rep = [f \in Fields |-> cur]

\* What a request and a reply of an asynchronous call carry.
AsyncInv ==
  /\ \A m \in requests : m.kind = "async" => m.rep = Local
  /\ \A m \in replies : m.kind = "async" =>
       m.rep = [f \in Fields |-> IF f \in Assigned THEN m.id ELSE Local[f]]

IInv == TypeOK /\ IdsInv /\ CurInv /\ AsyncInv /\ HeardIsOwn

\* A message is a record of its three parts.
LEMMA MessageParts ==
  ASSUME NEW id \in Ids, NEW kind \in Kinds, NEW r \in Reps
  PROVE  LET m == [id |-> id, kind |-> kind, rep |-> r]
         IN  m \in Messages /\ m.id = id /\ m.kind = kind /\ m.rep = r
BY DEF Messages

\* The structs that calls send.
LEMMA SomeReps == Local \in Reps /\ Blank \in Reps
BY DEF Local, Blank, Reps, Garbage, Default

\* The number of the next call.
LEMMA NextId ==
  ASSUME TypeOK, made < MaxCalls
  PROVE  made + 1 \in Ids /\ made + 1 \in Nat /\ made + 1 # 0
BY RepAssumption DEF TypeOK, Ids

\* A new call is nobody's yet.
LEMMA SendKeeps ==
  ASSUME IInv, NEW kind \in Kinds, NEW r \in Reps, Send(kind, r),
         kind = "async" => r = Local /\ cur' = cur,
         kind # "async" => cur' = made',
         kind = "sync" => r = rep
  PROVE  IInv'
<1> DEFINE new == [id |-> made + 1, kind |-> kind, rep |-> r]
<1>1. /\ cur = 0 /\ made < MaxCalls /\ made' = made + 1
      /\ requests' = requests \cup {new}
      /\ UNCHANGED <<rep, replies, heard>>
  BY DEF Send
<1>2. made + 1 \in Ids /\ made + 1 # 0
  BY <1>1, NextId DEF IInv
<1>3. new \in Messages /\ new.id = made + 1 /\ new.kind = kind /\ new.rep = r
  BY <1>2, MessageParts
<1> HIDE DEF new
<1>4. made \in Nat /\ \A m \in requests \cup replies : m.id \in Nat /\ m.id <= made
  BY RepAssumption DEF IInv, TypeOK, IdsInv, Messages, Ids
<1>5. TypeOK'
  <2>1. made' \in 0..MaxCalls /\ cur' \in 0..made'
    BY <1>1, <1>4, RepAssumption DEF Kinds
  <2> QED
    BY <1>1, <1>3, <2>1 DEF IInv, TypeOK
<1>6. IdsInv'
  BY <1>1, <1>3, <1>4 DEF IdsInv
<1>7. CurInv'
  <2>1. \A m \in requests \cup replies : m.id # made'
    BY <1>1, <1>4
  <2>2. \A m \in requests' : m.id = cur' /\ m.kind = "sync" => m.rep = rep'
    <3>1. CASE kind = "async"
      <4>1. cur' = 0 /\ \A m \in requests : m.id = 0 /\ m.kind = "sync" => m.rep = rep
        BY <3>1, <1>1 DEF IInv, CurInv
      <4> QED
        BY <4>1, <3>1, <1>1, <1>3
    <3>2. CASE kind # "async"
      BY <3>2, <2>1, <1>1, <1>3
    <3> QED
      BY <3>1, <3>2
  <2>3. CASE kind = "async"
    BY <2>3, <2>2, <1>1 DEF IInv, CurInv
  <2>4. CASE kind # "async"
    BY <2>4, <2>1, <2>2, <1>1 DEF CurInv
  <2> QED
    BY <2>3, <2>4
<1>8. AsyncInv'
  BY <1>1, <1>3 DEF IInv, AsyncInv
<1>9. HeardIsOwn'
  BY <1>1 DEF IInv, HeardIsOwn
<1> QED
  BY <1>5, <1>6, <1>7, <1>8, <1>9 DEF IInv

\* The handler writes its own fields and leaves the rest as the request brought it.
LEMMA HandleKeeps ==
  ASSUME IInv, NEW m \in requests, Handle(m)
  PROVE  IInv'
<1> DEFINE out == [m EXCEPT !.rep = Answer(m)]
<1>1. /\ requests' = requests \ {m}
      /\ replies' = replies \cup {out}
      /\ UNCHANGED <<rep, cur, made, heard>>
  BY DEF Handle
<1>2. m \in Messages /\ m.id \in Ids /\ m.rep \in Reps /\ m.kind \in Kinds
  BY DEF IInv, TypeOK, Messages
<1>3. Answer(m) \in Reps
  BY <1>2 DEF Answer, Reps
<1>4. out \in Messages /\ out.id = m.id /\ out.kind = m.kind /\ out.rep = Answer(m)
  BY <1>2, <1>3 DEF Messages
<1> HIDE DEF out
<1>5. TypeOK'
  BY <1>1, <1>4 DEF IInv, TypeOK
<1>6. IdsInv'
  BY <1>1, <1>4 DEF IInv, IdsInv
<1>7. CurInv'
  <2>1. m.kind = "sync" /\ m.id = cur =>
          out.rep = [f \in Fields |-> IF f \in Assigned THEN cur ELSE rep[f]]
    BY <1>4 DEF Answer, IInv, CurInv
  <2>2. m.kind = "package" /\ m.id = cur => out.rep = [f \in Fields |-> cur]
    BY <1>4 DEF Answer
  <2> QED
    BY <1>1, <1>4, <2>1, <2>2 DEF IInv, CurInv
<1>8. AsyncInv'
  <2>1. m.kind = "async" =>
          out.rep = [f \in Fields |-> IF f \in Assigned THEN m.id ELSE Local[f]]
    BY <1>4 DEF Answer, IInv, AsyncInv
  <2> QED
    BY <1>1, <1>4, <2>1 DEF IInv, AsyncInv
<1>9. HeardIsOwn'
  BY <1>1 DEF IInv, HeardIsOwn
<1> QED
  BY <1>5, <1>6, <1>7, <1>8, <1>9 DEF IInv

\* Nothing is numbered 0, so a caller that has come back is out of reach.
LEMMA NoCallZero ==
  ASSUME TypeOK
  PROVE  \A m \in requests \cup replies : m.id # 0
BY RepAssumption DEF TypeOK, Messages, Ids

\* A caller that comes back, with its rep filled or not.
LEMMA ReturnKeeps ==
  ASSUME IInv, NEW S, replies' = replies \ S, cur' = 0, rep' \in Reps,
         UNCHANGED <<made, requests, heard>>
  PROVE  IInv'
<1>1. TypeOK'
  BY RepAssumption DEF IInv, TypeOK
<1>2. IdsInv'
  BY DEF IInv, IdsInv
<1>3. CurInv'
  BY NoCallZero DEF IInv, CurInv
<1>4. AsyncInv' /\ HeardIsOwn'
  BY DEF IInv, AsyncInv, HeardIsOwn
<1> QED
  BY <1>1, <1>2, <1>3, <1>4 DEF IInv

\* The callback of an asynchronous call hears its own reply.
LEMMA HeardKeeps ==
  ASSUME IInv, NEW m \in replies, Heard(m)
  PROVE  IInv'
<1>1. /\ m.kind = "async" /\ replies' = replies \ {m}
      /\ heard' = [heard EXCEPT ![m.id] = m.rep]
      /\ UNCHANGED <<rep, cur, made, requests>>
  BY DEF Heard, Take
<1>2. m.id \in Ids /\ m.rep \in Reps
  BY DEF IInv, TypeOK, Messages
<1>3. m.rep = [f \in Fields |-> IF f \in Assigned THEN m.id ELSE Local[f]]
  BY <1>1 DEF IInv, AsyncInv
<1>4. TypeOK' /\ IdsInv' /\ CurInv' /\ AsyncInv'
  BY <1>1, <1>2 DEF IInv, TypeOK, IdsInv, CurInv, AsyncInv
<1>5. HeardIsOwn'
  <2>1. \A f \in Fields : heard'[m.id][f] \in IF f \in Assigned THEN {m.id} ELSE {Local[f]}
    BY <1>1, <1>2, <1>3 DEF IInv, TypeOK
  <2>2. \A id \in Ids : id # m.id => heard'[id] = heard[id]
    BY <1>1 DEF IInv, TypeOK
  <2> QED
    BY <2>1, <2>2 DEF IInv, HeardIsOwn
<1> QED
  BY <1>4, <1>5 DEF IInv

\* Nobody has called at the start.
LEMMA InvInit == Init => IInv
<1> SUFFICES ASSUME Init PROVE IInv
  OBVIOUS
<1>1. TypeOK
  BY SomeReps, RepAssumption DEF Init, TypeOK
<1>2. IdsInv /\ CurInv /\ AsyncInv /\ HeardIsOwn
  BY DEF Init, IdsInv, CurInv, AsyncInv, HeardIsOwn
<1> QED
  BY <1>1, <1>2 DEF IInv

\* Every step keeps the invariant.
LEMMA InvNext == IInv /\ [Next]_vars => IInv'
<1> SUFFICES ASSUME IInv, [Next]_vars PROVE IInv'
  OBVIOUS
<1>1. CASE CallSync
  <2>1. rep \in Reps
    BY DEF IInv, TypeOK
  <2> QED
    BY <1>1, <2>1, SendKeeps DEF CallSync, Kinds
<1>2. CASE CallAsync
  BY <1>2, SomeReps, SendKeeps DEF CallAsync, Kinds
<1>3. CASE Package
  BY <1>3, SomeReps, SendKeeps DEF Package, Kinds
<1>4. CASE Timeout
  <2>1. replies' = replies \ {} /\ rep' \in Reps
    BY <1>4 DEF Timeout, IInv, TypeOK
  <2> QED
    BY <1>4, <2>1, ReturnKeeps DEF Timeout
<1>5. CASE \E m \in requests : Handle(m)
  BY <1>5, HandleKeeps
<1>6. CASE \E m \in replies : Filled(m) \/ Unfilled(m)
  <2> PICK m \in replies : Filled(m) \/ Unfilled(m)
    BY <1>6
  <2>1. m.rep \in Reps /\ rep \in Reps
    BY DEF IInv, TypeOK, Messages
  <2>2. replies' = replies \ {m} /\ cur' = 0 /\ rep' \in Reps
    BY <2>1 DEF Filled, Unfilled, Returned, Take
  <2>3. UNCHANGED <<made, requests, heard>>
    BY DEF Filled, Unfilled
  <2> QED
    BY <2>2, <2>3, ReturnKeeps
<1>7. CASE \E m \in replies : Heard(m)
  BY <1>7, HeardKeeps
<1>8. CASE UNCHANGED vars
  BY <1>8 DEF vars, IInv, TypeOK, IdsInv, CurInv, AsyncInv, HeardIsOwn
<1> QED
  BY <1>1, <1>2, <1>3, <1>4, <1>5, <1>6, <1>7, <1>8 DEF Next

\* The invariant of every behaviour.
THEOREM Inductive == Spec => []IInv
BY InvInit, InvNext, PTL DEF Spec

\* Structs, messages and calls keep their types, for any struct.
THEOREM TypeCorrect == Spec => []TypeOK
<1>1. IInv => TypeOK
  BY DEF IInv
<1> QED
  BY <1>1, Inductive, PTL

\* An asynchronous callback is given what its own call's handler wrote (rpc.h, lines
\* 107-110, and server.h, lines 55-76).
THEOREM NothingMixed == Spec => []HeardIsOwn
<1>1. IInv => HeardIsOwn
  BY DEF IInv
<1> QED
  BY <1>1, Inductive, PTL

\* rep only changes for the call that is out, all at once, and keeps the fields that
\* its handler does not write (rpc.h, lines 119-124).
THEOREM Transferred == Spec => RepIsTransferred
<1>1. IInv /\ [Next]_vars =>
        (rep' # rep =>
           /\ cur # 0 /\ cur' = 0
           /\ \/ rep' = [f \in Fields |-> IF f \in Assigned THEN cur ELSE rep[f]]
              \/ rep' = [f \in Fields |-> cur])
  <2> SUFFICES ASSUME IInv, [Next]_vars, rep' # rep
               PROVE  /\ cur # 0 /\ cur' = 0
                      /\ \/ rep' = [f \in Fields |-> IF f \in Assigned THEN cur ELSE rep[f]]
                         \/ rep' = [f \in Fields |-> cur]
    OBVIOUS
  <2>1. PICK m \in replies : Filled(m)
    BY DEF Next, vars, CallSync, CallAsync, Package, Send, Timeout, Handle, Unfilled, Heard
  <2>2. m.id = cur /\ cur' = 0 /\ rep' = m.rep /\ m.kind # "async"
    BY <2>1 DEF Filled, Returned
  <2>3. cur # 0
    BY <2>2, NoCallZero DEF IInv
  <2>4. m.kind \in {"sync", "package"}
    BY <2>2 DEF IInv, TypeOK, Messages, Kinds
  <2> QED
    BY <2>2, <2>3, <2>4 DEF IInv, CurInv
<1> QED
  BY <1>1, Inductive, PTL DEF Spec, RepIsTransferred
=============================================================================
