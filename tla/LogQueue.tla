------------------------------ MODULE LogQueue ------------------------------
(***************************************************************************)
(* What the queue of an asynchronous logger promises: log messages leave   *)
(* it in the order in which they came, and when it is full a message that  *)
(* does not wait takes the place of the oldest.  AsyncLog shows how        *)
(* spdlog's ring buffer implements it.                                     *)
(***************************************************************************)
EXTENDS Naturals, Sequences

CONSTANTS
  Messages,
  MaxItems      \* how many it holds

VARIABLES
  queue,        \* the oldest first
  overrun       \* how many were lost

queueVars == <<queue, overrun>>

Init == queue = <<>> /\ overrun = 0

Push(m) ==
  IF Len(queue) < MaxItems
  THEN queue' = Append(queue, m) /\ UNCHANGED overrun
  ELSE queue' = Append(Tail(queue), m) /\ overrun' = overrun + 1

Pop ==
  /\ queue # <<>>
  /\ queue' = Tail(queue)
  /\ UNCHANGED overrun

Next == Pop \/ \E m \in Messages : Push(m)

Spec == Init /\ [][Next]_queueVars
=============================================================================
