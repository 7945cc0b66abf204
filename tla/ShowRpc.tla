------------------------------ MODULE ShowRpc ------------------------------
(***************************************************************************)
(* show_rpc_t of demo/actorTest/show_rpc.hpp, the actor that qps_rpc_t     *)
(* calls: handlers that count requests, and a tick (1 s) whose show_io()   *)
(* prints how much each counter grew and remembers what it printed.  What  *)
(* it remembers, last_*, are function statics: one copy for all the        *)
(* instances of the actor in a process, each on a coroutine of its own.    *)
(*                                                                         *)
(* Columns that nothing changes (g_connNum) and times are left out.        *)
(***************************************************************************)
EXTENDS Integers

CONSTANTS
  Shows,        \* the show_rpc_t actors of one process
  MaxTaken      \* bound: requests an actor handles

Columns == {"syncCall", "syncCallRep", "asyncCall", "asyncCallRep"}
None == [c \in Columns |-> 0]

VARIABLES
  g,            \* the counters g_syncCall, ... of each actor
  last,         \* the statics last_syncCall, ...
  pc,           \* "shown": inside show_io(), between the log line and last_* = g_*
  shown,        \* history: the sum of what each actor has printed
  taken         \* history: the requests each actor has handled

vars == <<g, last, pc, shown, taken>>

TypeOK ==
  /\ g \in [Shows -> [Columns -> Nat]]
  /\ last \in [Columns -> Nat]
  /\ pc \in [Shows -> {"idle", "shown"}]
  /\ shown \in [Shows -> [Columns -> Int]]
  /\ taken \in [Shows -> [sync : Nat, async : Nat]]

Init ==
  /\ g = [s \in Shows |-> None]
  /\ last = None
  /\ pc = [s \in Shows |-> "idle"]
  /\ shown = [s \in Shows |-> None]
  /\ taken = [s \in Shows |-> [sync |-> 0, async |-> 0]]

\* A handler runs on the actor's coroutine, so never in the middle of its show_io().
Handle(s, kind, column) ==
  /\ pc[s] = "idle"
  /\ taken[s].sync + taken[s].async < MaxTaken
  /\ taken' = [taken EXCEPT ![s][kind] = @ + 1]
  /\ g' = [g EXCEPT ![s][column] = @ + 1]
  /\ UNCHANGED <<last, pc, shown>>

\* Seeded fault: the counter is set, not counted up.
OnSync_Set(s) ==
  /\ pc[s] = "idle"
  /\ taken[s].sync + taken[s].async < MaxTaken
  /\ taken' = [taken EXCEPT ![s].sync = @ + 1]
  /\ g' = [g EXCEPT ![s].syncCall = 1]
  /\ UNCHANGED <<last, pc, shown>>

\* Seeded fault: the count comes from another thread (incSyncCall), at any time.
OnSync_AnyThread(s) ==
  /\ taken[s].sync + taken[s].async < MaxTaken
  /\ taken' = [taken EXCEPT ![s].sync = @ + 1]
  /\ g' = [g EXCEPT ![s].syncCall = @ + 1]
  /\ UNCHANGED <<last, pc, shown>>

OnSync(s) == Handle(s, "sync", "syncCall")

\* The handler of qps_rpc_async_req counts in g_syncCallRep.
OnAsync(s) == Handle(s, "async", "syncCallRep")

\* The log line of show_io(): every column shows g_x - last_x.
ShowPrint(s) ==
  /\ pc[s] = "idle"
  /\ pc' = [pc EXCEPT ![s] = "shown"]
  /\ shown' = [shown EXCEPT ![s] = [c \in Columns |-> @[c] + g[s][c] - last[c]]]
  /\ UNCHANGED <<g, last, taken>>

\* last_x = g_x.
ShowUpdate(s) ==
  /\ pc[s] = "shown"
  /\ pc' = [pc EXCEPT ![s] = "idle"]
  /\ last' = g[s]
  /\ UNCHANGED <<g, shown, taken>>

Next == \E s \in Shows : OnSync(s) \/ OnAsync(s) \/ ShowPrint(s) \/ ShowUpdate(s)

Spec == Init /\ [][Next]_vars
-----------------------------------------------------------------------------
\* Every request is shown once: between ticks what an actor has printed in all is what
\* it remembers, so the next line begins where this one ended.  It holds for the
\* only show_rpc_t of a process.
ShownOnce ==
  \A s \in Shows, c \in Columns : pc[s] = "idle" => shown[s][c] = last[c]

\* "Every actor has a coroutine of its own that handles its own data" (README.md,
\* line 13), and actors of one kind may run side by side (line 14): the
\* differences an actor prints add up to something it has counted.
ShownIsCounted ==
  \A s \in Shows, c \in Columns : 0 <= shown[s][c] /\ shown[s][c] <= g[s][c]
=============================================================================
