--------------------------- MODULE ShowRpcProofs ---------------------------
(***************************************************************************)
(* Proofs about ShowRpc: what show_io() prints adds up when the process    *)
(* has one show_rpc_t, however many requests it handles.                   *)
(***************************************************************************)
EXTENDS ShowRpc, TLAPS

\* Inside show_io() what was printed in all is what the counters show, which nothing
\* changes until it is remembered.
ShowInv ==
  \A s \in Shows, c \in Columns :
    shown[s][c] = IF pc[s] = "idle" THEN last[c] ELSE g[s][c]

IInv == TypeOK /\ ShowInv

\* The columns are just an index.
LEMMA SomeColumns == "syncCall" \in Columns /\ "syncCallRep" \in Columns
BY DEF Columns

\* A request counts once, between two lines of the log.
LEMMA HandleKeeps ==
  ASSUME IInv, NEW s \in Shows, NEW kind \in {"sync", "async"}, NEW column \in Columns,
         Handle(s, kind, column)
  PROVE  IInv'
<1>1. /\ pc[s] = "idle"
      /\ taken' = [taken EXCEPT ![s][kind] = @ + 1]
      /\ g' = [g EXCEPT ![s][column] = @ + 1]
      /\ UNCHANGED <<last, pc, shown>>
  BY DEF Handle
<1>2. g' \in [Shows -> [Columns -> Nat]]
  BY <1>1 DEF IInv, TypeOK
<1>3. taken' \in [Shows -> [sync : Nat, async : Nat]]
  <2>1. taken[s] \in [sync : Nat, async : Nat]
    BY DEF IInv, TypeOK
  <2>2. [taken[s] EXCEPT ![kind] = @ + 1] \in [sync : Nat, async : Nat]
    BY <2>1
  <2> QED
    BY <1>1, <2>2 DEF IInv, TypeOK
<1>4. TypeOK'
  BY <1>1, <1>2, <1>3 DEF IInv, TypeOK
<1>5. \A r \in Shows : pc[r] # "idle" => g'[r] = g[r]
  BY <1>1 DEF IInv, TypeOK
<1>6. ShowInv'
  BY <1>1, <1>5 DEF IInv, ShowInv
<1> QED
  BY <1>4, <1>6 DEF IInv

\* The line prints the difference, so the sum of the lines becomes the counter.
LEMMA ShowPrintKeeps ==
  ASSUME IInv, NEW s \in Shows, ShowPrint(s)
  PROVE  IInv'
<1>1. /\ pc[s] = "idle"
      /\ pc' = [pc EXCEPT ![s] = "shown"]
      /\ shown' = [shown EXCEPT ![s] = [c \in Columns |-> shown[s][c] + g[s][c] - last[c]]]
      /\ UNCHANGED <<g, last, taken>>
  BY DEF ShowPrint
<1>2. \A c \in Columns : g[s][c] \in Nat /\ last[c] \in Nat /\ shown[s][c] = last[c]
  BY <1>1 DEF IInv, TypeOK, ShowInv
<1>3. shown' = [shown EXCEPT ![s] = [c \in Columns |-> g[s][c]]]
  <2>1. \A c \in Columns : shown[s][c] + g[s][c] - last[c] = g[s][c]
    BY <1>2
  <2>2. [c \in Columns |-> shown[s][c] + g[s][c] - last[c]] = [c \in Columns |-> g[s][c]]
    BY <2>1
  <2> QED
    BY <1>1, <2>2
<1>4. TypeOK'
  BY <1>1, <1>2, <1>3 DEF IInv, TypeOK
<1>5. ShowInv'
  BY <1>1, <1>3 DEF IInv, TypeOK, ShowInv
<1> QED
  BY <1>4, <1>5 DEF IInv

\* What is remembered is what was printed; another actor would remember it, too.
LEMMA ShowUpdateKeeps ==
  ASSUME IInv, NEW s \in Shows, \A r \in Shows : r = s, ShowUpdate(s)
  PROVE  IInv'
<1>1. /\ pc[s] = "shown"
      /\ pc' = [pc EXCEPT ![s] = "idle"]
      /\ last' = g[s]
      /\ UNCHANGED <<g, shown, taken>>
  BY DEF ShowUpdate
<1>2. TypeOK'
  BY <1>1 DEF IInv, TypeOK
<1>3. \A c \in Columns : shown[s][c] = last'[c] /\ pc'[s] = "idle"
  BY <1>1 DEF IInv, TypeOK, ShowInv
<1>4. ShowInv'
  BY <1>1, <1>3 DEF ShowInv
<1> QED
  BY <1>2, <1>4 DEF IInv

\* Whatever a process with at most one show_rpc_t does keeps the invariant.
LEMMA InvNext ==
  ASSUME IInv, \A s, r \in Shows : r = s, [Next]_vars
  PROVE  IInv'
<1>1. CASE \E s \in Shows : OnSync(s) \/ OnAsync(s)
  BY <1>1, HandleKeeps, SomeColumns DEF OnSync, OnAsync
<1>2. CASE \E s \in Shows : ShowPrint(s)
  BY <1>2, ShowPrintKeeps
<1>3. CASE \E s \in Shows : ShowUpdate(s)
  BY <1>3, ShowUpdateKeeps
<1>4. CASE UNCHANGED vars
  BY <1>4 DEF vars, IInv, TypeOK, ShowInv
<1> QED
  BY <1>1, <1>2, <1>3, <1>4 DEF Next

\* Nothing is counted or printed at the start.
LEMMA InvInit == Init => IInv
BY DEF Init, None, IInv, TypeOK, ShowInv

\* The invariant of a process with at most one show_rpc_t.
THEOREM Inductive ==
  ASSUME \A s, r \in Shows : r = s
  PROVE  Spec => []IInv
<1>1. IInv /\ [Next]_vars => IInv'
  BY InvNext
<1> QED
  BY <1>1, InvInit, PTL DEF Spec

\* With one show_rpc_t in a process the counters, the statics and what was printed
\* keep their types.
THEOREM TypeCorrect ==
  ASSUME \A s, r \in Shows : r = s
  PROVE  Spec => []TypeOK
<1>1. IInv => TypeOK
  BY DEF IInv
<1> QED
  BY <1>1, Inductive, PTL

\* show_io() prints every request once, for any number of requests and ticks, when
\* there is one show_rpc_t in the process (show_rpc.hpp, lines 50-87).
THEOREM PrintedOnce ==
  ASSUME \A s, r \in Shows : r = s
  PROVE  Spec => []ShownOnce
<1>1. IInv => ShownOnce
  BY DEF IInv, ShowInv, ShownOnce
<1> QED
  BY <1>1, Inductive, PTL
=============================================================================
