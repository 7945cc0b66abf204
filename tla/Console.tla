------------------------------ MODULE Console ------------------------------
(***************************************************************************)
(* The console command "close name count" (demo/console_cb.hpp): actorFor  *)
(* shows the actors of that name to a callback, which counts down in an    *)
(* int and marks each actor with closeSet until it returns 1.  Meanwhile   *)
(* actors end on their own threads and new ones are made.                  *)
(*                                                                         *)
(* actorFor and closeSet are not in the repository; the callback needs of  *)
(* them that each actor is shown once until the callback returns other     *)
(* than 0, and that closeSet marks and does not wait.                      *)
(***************************************************************************)
EXTENDS Integers, FiniteSets

CONSTANTS
  Guids,        \* the actors of the name there may be
  Counts,       \* what atoll makes of the count
  IntMax        \* the largest int

VARIABLES
  status,       \* of each actor
  pc,           \* "for": inside actorFor
  n,            \* the callback's copy
  todo,         \* the actors it has not been shown
  count,        \* history: the last command's count
  found,        \* history: how many actors it found
  marked        \* history: those it marked

vars == <<status, pc, n, todo, count, found, marked>>

IntMin == -IntMax - 1

\* 1 is the count when none is given.
ConsoleAssumption ==
  /\ IntMax \in Nat \ {0}
  /\ Counts \subseteq Int /\ 1 \in Counts
  /\ IsFiniteSet(Guids)

\* Seeded fault: n is as wide as what atoll returns.
ToInt_Wide(v) == v

ToInt(v) == ((v - IntMin) % (2 * (IntMax + 1))) + IntMin

TypeOK ==
  /\ status \in [Guids -> {"none", "run", "closing"}]
  /\ pc \in {"idle", "for"}
  /\ n \in IntMin .. IntMax
  /\ todo \subseteq Guids
  /\ count \in Counts
  /\ found \in Nat
  /\ marked \subseteq Guids

Init ==
  /\ status = [a \in Guids |-> "none"]
  /\ pc = "idle"
  /\ n = 1
  /\ todo = {}
  /\ count = 1
  /\ found = 0
  /\ marked = {}

There == {a \in Guids : status[a] # "none"}

\* The command "actor name".
Actor(a) ==
  /\ pc = "idle"
  /\ status[a] = "none"
  /\ status' = [status EXCEPT ![a] = "run"]
  /\ UNCHANGED <<pc, n, todo, count, found, marked>>

\* Without a count n is 1; atoll's long long is cut to an int.
Close(v) ==
  /\ pc = "idle"
  /\ pc' = "for"
  /\ n' = ToInt(v)
  /\ todo' = There
  /\ count' = v
  /\ found' = Cardinality(There)
  /\ marked' = {}
  /\ UNCHANGED status

\* --n; below IntMin it is undefined: it wraps, or the test is taken as n <= 0.
Decremented == IF n > IntMin THEN {n - 1} ELSE {IntMax, IntMin}

\* Seeded fault: n-- < 0.
Stops_Post(m) == n < 0

Stops(m) == m < 0

Mark(a) ==
  \E m \in Decremented :
    /\ pc = "for" /\ a \in todo
    /\ ~Stops(m)
    /\ n' = m
    /\ todo' = todo \ {a}
    /\ status' = [status EXCEPT ![a] = IF @ = "none" THEN @ ELSE "closing"]
    /\ marked' = marked \cup {a}
    /\ UNCHANGED <<pc, count, found>>

CloseEnds ==
  /\ pc = "for"
  /\ todo = {} \/ \E m \in Decremented : Stops(m)
  /\ pc' = "idle"
  /\ UNCHANGED <<status, n, todo, count, found, marked>>

\* A marked actor is gone.
Gone(a) ==
  /\ status[a] = "closing"
  /\ status' = [status EXCEPT ![a] = "none"]
  /\ UNCHANGED <<pc, n, todo, count, found, marked>>

Next ==
  \/ \E a \in Guids : Actor(a) \/ Mark(a) \/ Gone(a)
  \/ \E v \in Counts : Close(v)
  \/ CloseEnds

Spec == Init /\ [][Next]_vars
-----------------------------------------------------------------------------
\* The command marks as many actors as it was asked to, or all there were, although
\* the count starts at one and is compared after it is taken down.  A count an int
\* does not hold, and its smallest value, are not promised anything.
MarksCount ==
  pc = "idle" /\ IntMin < count /\ count <= IntMax =>
    Cardinality(marked) = IF count <= 0 THEN 0 ELSE IF count < found THEN count ELSE found
=============================================================================
