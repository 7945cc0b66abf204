---------------------------- MODULE AdapterProofs ----------------------------
(***************************************************************************)
(* Proofs about Adapter: however many calls are made and however RemoteCall *)
(* and the database deal with them, the console commands keep their order  *)
(* and report what they were told.                                         *)
(***************************************************************************)
EXTENDS Adapter, TLAPS

\* What has happened to a call is about a call that was made.
MadeInv ==
  /\ \A id \in Ids : outcome[id] # "none" => cmd[id] # "none"
  /\ \A id \in Ids : handler[id] # "no" => outcome[id] # "none"
  /\ \A id \in Ids : cmd[id] # "none" => id <= cur
  /\ \A id \in logged : id <= cur
  /\ pc # "idle" => cur \in Ids /\ cmd[cur] = pc

\* An ok is reported of handled calls, and rep is empty or the answer to the call.
RepInv ==
  /\ \A id \in Ids : outcome[id] = "ok" => handler[id] = "done"
  /\ \/ rep = EmptyRep
     \/ cur \in Ids /\ handler[cur] = "done" /\ rep = answer[cur]

\* An update is called when the call before it is over.
OrderInv ==
  \A id \in Ids : cmd[id] = "update" => id - 1 \in Ids /\ outcome[id - 1] \in {"ok", "fail"}

\* The rows in an answer are what the database held when it gave the answer.
RowsInv ==
  \A id \in Ids :
    handler[id] = "done" /\ cmd[id] = "query" /\ ~answer[id].message
      => /\ answer[id].rows \in {"empty", "rows"}
         /\ id = cur => answer[id].rows \in during

IInv == TypeOK /\ MadeInv /\ RepInv /\ OrderInv /\ RowsInv /\ ErrorIsRefusal /\ QueryIsTrue

\* The parts of a struct.
LEMMA RepParts ==
  ASSUME NEW c \in Cmds \cup {"none"}, NEW m \in BOOLEAN, NEW w \in Tables \cup {"none"}
  PROVE  LET r == [cmd |-> c, message |-> m, rows |-> w]
         IN  r \in Reps /\ r.cmd = c /\ r.message = m /\ r.rows = w
BY DEF Reps

\* An empty struct holds no message, and is a reply to nothing.
LEMMA Empty == EmptyRep \in Reps /\ EmptyRep.cmd = "none" /\ EmptyRep.message = FALSE
BY DEF EmptyRep, Reps

\* The call number after cur.
LEMMA NextCall ==
  ASSUME IInv, cur + 1 \in Ids
  PROVE  /\ cur \in Nat /\ ~(cur + 1 <= cur) /\ cur + 1 - 1 = cur
         /\ handler[cur + 1] = "no"
         /\ cmd[cur + 1] = "none"
         /\ cur + 1 \notin logged
BY AdapterAssumption DEF IInv, TypeOK, MadeInv, Ids, Calls!TypeOK

\* A call that keeps to the order keeps the invariant.
LEMMA CallKeeps ==
  ASSUME IInv, NEW c \in Cmds, Call(c),
         c = "update" => cur \in Ids /\ outcome[cur] \in {"ok", "fail"},
         UNCHANGED <<answer, table, result>>,
         \/ logged' = logged
         \/ cur \in Ids /\ cmd[cur] # "query" /\ rep.message /\ logged' = logged \cup {cur}
  PROVE  IInv'
<1>1. /\ cur + 1 \in Ids /\ cur' = cur + 1
      /\ outcome[cur + 1] = "none"
      /\ outcome' = [outcome EXCEPT ![cur + 1] = "open"]
      /\ handler' = handler
      /\ cmd' = [cmd EXCEPT ![cur + 1] = c]
      /\ pc' = c /\ rep' = EmptyRep /\ during' = {table}
  BY DEF Call, Calls!Issue
<1>2. /\ cur \in Nat /\ ~(cur + 1 <= cur) /\ cur + 1 - 1 = cur
      /\ handler[cur + 1] = "no"
      /\ cmd[cur + 1] = "none"
      /\ cur + 1 \notin logged
  BY <1>1, NextCall
<1>3. \A id \in Ids : id \in Nat /\ (id <= cur => id <= cur + 1 /\ id # cur + 1)
  BY <1>2 DEF Ids
<1>4. TypeOK'
  <2>1. cur' \in 0..MaxCalls
    BY <1>1, <1>2, AdapterAssumption DEF Ids
  <2>2. logged' \subseteq Ids
    BY DEF IInv, TypeOK
  <2>3. rep' \in Reps /\ during' \subseteq Tables
    BY <1>1, Empty DEF IInv, TypeOK
  <2>4. Calls!TypeOK' /\ cmd' \in [Ids -> Cmds \cup {"none"}]
    BY <1>1 DEF IInv, TypeOK, Calls!TypeOK
  <2>5. QED
    BY <1>1, <2>1, <2>2, <2>3, <2>4 DEF IInv, TypeOK
<1>5. MadeInv'
  <2>1. \A id \in logged' : id <= cur'
    BY <1>1, <1>2, <1>3 DEF IInv, TypeOK, MadeInv
  <2>2. \A id \in Ids : /\ outcome'[id] # "none" => cmd'[id] # "none"
                        /\ handler'[id] # "no" => outcome'[id] # "none"
    BY <1>1, <1>2 DEF IInv, TypeOK, MadeInv, Calls!TypeOK, Cmds
  <2>3. \A id \in Ids : cmd'[id] # "none" => id <= cur'
    BY <1>1, <1>2, <1>3 DEF IInv, TypeOK, MadeInv
  <2>4. cur' \in Ids /\ cmd'[cur'] = pc'
    BY <1>1 DEF IInv, TypeOK
  <2>5. QED
    BY <2>1, <2>2, <2>3, <2>4 DEF MadeInv
<1>6. RepInv'
  BY <1>1, <1>2 DEF IInv, TypeOK, RepInv, Calls!TypeOK
<1>7. OrderInv'
  <2> SUFFICES ASSUME NEW id \in Ids, cmd'[id] = "update"
               PROVE  id - 1 \in Ids /\ outcome'[id - 1] \in {"ok", "fail"}
    BY DEF OrderInv
  <2>1. CASE id = cur + 1
    BY <1>1, <1>2, <2>1 DEF IInv, TypeOK, Calls!TypeOK
  <2>2. CASE id # cur + 1
    BY <1>1, <1>2, <2>2 DEF IInv, TypeOK, OrderInv, Calls!TypeOK
  <2>3. QED
    BY <2>1, <2>2
<1>8. RowsInv'
  <2> SUFFICES ASSUME NEW id \in Ids, handler[id] = "done", cmd'[id] = "query",
                      ~answer[id].message
               PROVE  answer[id].rows \in {"empty", "rows"} /\ id # cur'
    BY <1>1 DEF RowsInv
  <2>1. id # cur + 1
    BY <1>2
  <2>2. QED
    BY <1>1, <2>1 DEF IInv, TypeOK, RowsInv
<1>9. ErrorIsRefusal'
  <2> SUFFICES ASSUME NEW id \in logged', cmd'[id] # "query"
               PROVE  handler[id] = "done" /\ answer[id].message
    BY <1>1 DEF ErrorIsRefusal
  <2>1. CASE id \in logged
    <3>1. id \in Ids /\ cmd'[id] = cmd[id]
      BY <1>1, <1>2, <2>1 DEF IInv, TypeOK
    <3>2. QED
      BY <2>1, <3>1 DEF IInv, ErrorIsRefusal
  <2>2. CASE id \notin logged
    <3>1. id = cur /\ rep.message
      BY <2>2
    <3>2. QED
      BY <3>1, Empty DEF IInv, RepInv
  <2>3. QED
    BY <2>1, <2>2
<1>10. QueryIsTrue'
  BY <1>1 DEF QueryIsTrue, Cmds
<1>11. QED
  BY <1>4, <1>5, <1>6, <1>7, <1>8, <1>9, <1>10 DEF IInv

\* The end of a call whose adapter function has come back.
LEMMA DbCreateEndsKeeps == ASSUME IInv, DbCreateEnds PROVE IInv'
<1>1. /\ pc = "update" /\ pc' = "idle" /\ LogMessage
      /\ UNCHANGED <<outcome, handler, cmd, answer, table, cur, rep, result, during>>
  BY DEF DbCreateEnds, Back, callVars, dbVars
<1>2. cur \in Ids /\ cmd[cur] = "update"
  BY <1>1 DEF IInv, MadeInv
<1>3. logged' \subseteq logged \cup {cur} /\ (cur \in logged' \ logged => rep.message)
  BY <1>1 DEF LogMessage
<1>4. TypeOK'
  BY <1>1, <1>2, <1>3 DEF IInv, TypeOK, Calls!TypeOK
<1>5. MadeInv'
  BY <1>1, <1>2, <1>3 DEF IInv, MadeInv, Ids
<1>6. RepInv' /\ OrderInv' /\ RowsInv'
  BY <1>1 DEF IInv, RepInv, OrderInv, RowsInv
<1>7. ErrorIsRefusal'
  <2>1. cur \in logged' \ logged => handler[cur] = "done" /\ answer[cur].message
    BY <1>3, Empty DEF IInv, RepInv
  <2>2. QED
    BY <1>1, <1>3, <2>1 DEF IInv, ErrorIsRefusal
<1>8. QueryIsTrue'
  BY <1>1, <1>2 DEF QueryIsTrue
<1>9. QED
  BY <1>4, <1>5, <1>6, <1>7, <1>8 DEF IInv

\* The end of dbquery: an answer is of this very call.
LEMMA DbQueryEndsKeeps == ASSUME IInv, DbQueryEnds PROVE IInv'
<1>1. /\ pc = "query" /\ pc' = "idle"
      /\ UNCHANGED <<outcome, handler, cmd, answer, table, cur, rep, during>>
  BY DEF DbQueryEnds, Back, callVars, dbVars
<1>2. cur \in Ids /\ cmd[cur] = "query"
  BY <1>1 DEF IInv, MadeInv
<1>3. \/ Answered /\ result' = rep.rows /\ logged' = logged
      \/ ~Answered /\ result' = "empty" /\ logged' = logged \cup {cur}
  BY DEF DbQueryEnds
<1>4. Answered => rep.rows \in {"empty", "rows"} /\ rep.rows \in during
  <2>1. Answered => handler[cur] = "done" /\ rep = answer[cur] /\ ~answer[cur].message
    BY Empty DEF IInv, RepInv, Answered
  <2>2. QED
    BY <1>2, <2>1 DEF IInv, RowsInv
<1>5. TypeOK'
  BY <1>1, <1>2, <1>3, <1>4 DEF IInv, TypeOK, Calls!TypeOK
<1>6. MadeInv'
  BY <1>1, <1>2, <1>3 DEF IInv, MadeInv, Ids
<1>7. RepInv' /\ OrderInv' /\ RowsInv'
  BY <1>1 DEF IInv, RepInv, OrderInv, RowsInv
<1>8. ErrorIsRefusal'
  BY <1>1, <1>2, <1>3 DEF IInv, ErrorIsRefusal
<1>9. QueryIsTrue'
  BY <1>1, <1>3, <1>4 DEF QueryIsTrue
<1>10. QED
  BY <1>5, <1>6, <1>7, <1>8, <1>9 DEF IInv

\* The database starts a handler.
LEMMA ServeKeeps == ASSUME IInv, NEW id \in Ids, Serve(id) PROVE IInv'
<1>1. /\ outcome[id] # "none" /\ handler[id] = "no"
      /\ handler' = [handler EXCEPT ![id] = "running"]
      /\ UNCHANGED <<outcome, cmd, answer, table, pc, cur, rep, logged, result, during>>
  BY DEF Serve, Calls!Run, dbVars
<1>2. \A i \in Ids : handler'[i] = "done" <=> handler[i] = "done"
  BY <1>1 DEF IInv, TypeOK, Calls!TypeOK
<1>3. TypeOK' /\ MadeInv'
  BY <1>1 DEF IInv, TypeOK, MadeInv, Calls!TypeOK
<1>4. RepInv' /\ OrderInv' /\ RowsInv'
  BY <1>1, <1>2 DEF IInv, RepInv, OrderInv, RowsInv
<1>5. ErrorIsRefusal' /\ QueryIsTrue'
  BY <1>1, <1>2 DEF IInv, TypeOK, ErrorIsRefusal, QueryIsTrue
<1>6. QED
  BY <1>3, <1>4, <1>5 DEF IInv

\* The database answers: the rows it gives are those it holds.
LEMMA HandleKeeps == ASSUME IInv, NEW id \in Ids, Handle(id) PROVE IInv'
<1> DEFINE given == [cmd |-> cmd[id], message |-> FALSE,
                     rows |-> IF cmd[id] = "query" THEN table ELSE "none"]
           refusal == [cmd |-> cmd[id], message |-> TRUE, rows |-> "none"]
<1>1. /\ handler[id] = "running"
      /\ handler' = [handler EXCEPT ![id] = "done"]
      /\ during' = during \cup {table'}
      /\ UNCHANGED <<outcome, cmd, pc, cur, rep, logged, result>>
  BY DEF Handle, Calls!Finish
<1>2. cmd[id] \in Cmds \cup {"none"} /\ table \in Tables
  BY DEF IInv, TypeOK
<1>3. given \in Reps /\ ~given.message /\ (cmd[id] = "query" => given.rows = table)
  BY <1>2, RepParts
<1>4. refusal \in Reps /\ refusal.message
  BY <1>2, RepParts
<1>5. PICK r \in Reps :
        /\ answer' = [answer EXCEPT ![id] = r]
        /\ table' \in Tables
        /\ cmd[id] = "query" /\ ~r.message =>
             r.rows = table /\ table' = table /\ table # "absent"
  <2>1. CASE Accept(id)
    <3>1. answer' = [answer EXCEPT ![id] = given] /\ table' = After(cmd[id])
      BY <2>1 DEF Accept
    <3>2. cmd[id] = "query" => table # "absent" /\ table' = table
      BY <2>1, <3>1 DEF Accept, After
    <3>3. cmd[id] # "none"
      BY <1>1 DEF IInv, MadeInv, TypeOK
    <3>4. table' \in Tables
      BY <1>2, <3>1, <3>3 DEF After, Tables, Cmds
    <3> HIDE DEF given
    <3>5. QED
      BY <1>3, <3>1, <3>2, <3>4
  <2>2. CASE Refuse(id)
    <3>1. answer' = [answer EXCEPT ![id] = refusal] /\ table' = table
      BY <2>2 DEF Refuse
    <3> HIDE DEF refusal
    <3>2. QED
      BY <1>2, <1>4, <3>1
  <2>3. QED
    BY <2>1, <2>2 DEF Handle
<1>6. answer'[id] = r /\ \A i \in Ids \ {id} : answer'[i] = answer[i]
  BY <1>5 DEF IInv, TypeOK
<1>7. \A i \in Ids \ {id} : handler'[i] = handler[i]
  BY <1>1 DEF IInv, TypeOK, Calls!TypeOK
<1>8. TypeOK' /\ MadeInv'
  <2>1. TypeOK'
    BY <1>1, <1>5 DEF IInv, TypeOK, Calls!TypeOK
  <2>2. MadeInv'
    BY <1>1, <1>7 DEF IInv, MadeInv
  <2>3. QED
    BY <2>1, <2>2
<1>9. RepInv' /\ OrderInv'
  BY <1>1, <1>6, <1>7 DEF IInv, TypeOK, RepInv, OrderInv, Calls!TypeOK
<1>10. RowsInv'
  <2> SUFFICES ASSUME NEW i \in Ids, handler'[i] = "done", cmd[i] = "query",
                      ~answer'[i].message
               PROVE  /\ answer'[i].rows \in {"empty", "rows"}
                      /\ i = cur => answer'[i].rows \in during'
    BY <1>1 DEF RowsInv
  <2>1. CASE i = id
    BY <1>1, <1>2, <1>5, <1>6, <2>1 DEF Tables
  <2>2. CASE i # id
    BY <1>1, <1>6, <1>7, <2>2 DEF IInv, RowsInv
  <2>3. QED
    BY <2>1, <2>2
<1>11. ErrorIsRefusal'
  BY <1>1, <1>6, <1>7 DEF IInv, TypeOK, ErrorIsRefusal
<1>12. QueryIsTrue'
  BY <1>1 DEF IInv, QueryIsTrue
<1>13. QED
  BY <1>8, <1>9, <1>10, <1>11, <1>12 DEF IInv

\* The caller hears of a call.
LEMMA ReportKeeps == ASSUME IInv, NEW id \in Ids, Report(id) PROVE IInv'
<1>1. /\ outcome[id] = "open" /\ handler' = handler
      /\ \/ outcome' = [outcome EXCEPT ![id] = "fail"]
         \/ handler[id] = "done" /\ outcome' = [outcome EXCEPT ![id] = "ok"]
      /\ UNCHANGED <<cmd, answer, table, pc, cur, logged, result, during>>
  BY DEF Report, Calls!Report, dbVars
<1>2. \/ rep' = rep
      \/ handler[id] = "done" /\ id = cur /\ rep' = answer[id]
  BY DEF Report
<1>3. outcome'[id] = "ok" => handler[id] = "done"
  BY <1>1 DEF IInv, TypeOK, Calls!TypeOK
<1>4. \A i \in Ids : /\ i # id => outcome'[i] = outcome[i]
                     /\ outcome'[i] # "none" <=> outcome[i] # "none"
                     /\ outcome[i] \in {"ok", "fail"} => outcome'[i] \in {"ok", "fail"}
  BY <1>1 DEF IInv, TypeOK, Calls!TypeOK
<1>5. TypeOK'
  BY <1>1, <1>2 DEF IInv, TypeOK, Calls!TypeOK
<1>6. MadeInv' /\ OrderInv' /\ RowsInv'
  BY <1>1, <1>4 DEF IInv, MadeInv, OrderInv, RowsInv
<1>7. RepInv'
  BY <1>1, <1>2, <1>3, <1>4 DEF IInv, RepInv
<1>8. ErrorIsRefusal' /\ QueryIsTrue'
  BY <1>1 DEF IInv, ErrorIsRefusal, QueryIsTrue
<1>9. QED
  BY <1>5, <1>6, <1>7, <1>8 DEF IInv

-----------------------------------------------------------------------------
\* The invariant holds at the start and is kept by every step.
THEOREM Inductive == Spec => []IInv
<1>1. Init => IInv
  <2> SUFFICES ASSUME Init PROVE IInv
    OBVIOUS
  <2>1. TypeOK
    BY Empty, AdapterAssumption DEF Init, Calls!Init, TypeOK, Calls!TypeOK
  <2>2. QED
    BY <2>1 DEF Init, Calls!Init, IInv, MadeInv, RepInv, OrderInv, RowsInv,
                ErrorIsRefusal, QueryIsTrue, Cmds
<1>2. IInv /\ [Next]_vars => IInv'
  <2> SUFFICES ASSUME IInv, [Next]_vars PROVE IInv'
    OBVIOUS
  <2>1. CASE DbCreate
    BY <2>1, CallKeeps DEF DbCreate, dbVars, Cmds
  <2>2. CASE DbUpdate
    <3>1. Back("create") /\ LogMessage /\ Call("update") /\ UNCHANGED <<answer, table, result>>
      BY <2>2 DEF DbUpdate, dbVars
    <3>2. cur \in Ids /\ cmd[cur] = "create" /\ outcome[cur] \in {"ok", "fail"}
      BY <3>1 DEF Back, IInv, MadeInv
    <3>3. QED
      BY <3>1, <3>2, CallKeeps DEF LogMessage, Cmds
  <2>3. CASE DbCreateEnds
    BY <2>3, DbCreateEndsKeeps
  <2>4. CASE DbQuery
    BY <2>4, CallKeeps DEF DbQuery, dbVars, Cmds
  <2>5. CASE DbQueryEnds
    BY <2>5, DbQueryEndsKeeps
  <2>6. CASE \E id \in Ids : Serve(id) \/ Handle(id) \/ Report(id)
    BY <2>6, ServeKeeps, HandleKeeps, ReportKeeps
  <2>7. CASE UNCHANGED vars
    BY <2>7 DEF vars, IInv, TypeOK, Calls!TypeOK, MadeInv, RepInv, OrderInv, RowsInv,
                ErrorIsRefusal, QueryIsTrue
  <2>8. QED
    BY <2>1, <2>2, <2>3, <2>4, <2>5, <2>6, <2>7 DEF Next
<1>3. QED
  BY <1>1, <1>2, PTL DEF Spec

\* Every variable of Adapter always has its type.
THEOREM TypeCorrect == Spec => []TypeOK
<1>1. IInv => TypeOK
  BY DEF IInv
<1>2. QED
  BY <1>1, Inductive, PTL

\* adaper_dbCreate and adaper_dbUpdate log an error only of a call that the database
\* refused.
THEOREM ErrorOfRefusal == Spec => []ErrorIsRefusal
<1>1. IInv => ErrorIsRefusal
  BY DEF IInv
<1>2. QED
  BY <1>1, Inductive, PTL

\* dbcreate's records are handled after its table, unless call() gave the table up.
THEOREM CreateFirst == Spec => []CreateComesFirst
<1>1. IInv => CreateComesFirst
  BY DEF IInv, OrderInv, RepInv, CreateComesFirst
<1>2. QED
  BY <1>1, Inductive, PTL

\* dbquery returns what the database held while it asked, or logs an error.
THEOREM QueryTrue == Spec => []QueryIsTrue
<1>1. IInv => QueryIsTrue
  BY DEF IInv
<1>2. QED
  BY <1>1, Inductive, PTL
=============================================================================
