------------------------------- MODULE QpsRpc -------------------------------
(***************************************************************************)
(* qps_rpc_t of demo/actorTest/qps_rpc.hpp: on every tick (10 s) it makes  *)
(* m_times asynchronous calls and counts the replies in s_asyncRep, to log *)
(* how long the whole round took.  A reply may come back while the round   *)
(* is still being sent, after the next tick, or never (Rpc says why).  In  *)
(* another mode it makes m_times synchronous calls one after the other.    *)
(*                                                                         *)
(* s_asyncRep is a plain int.  A callback reads it, writes it back and     *)
(* tests it in three steps, and which threads run callbacks is decided in  *)
(* libengine.a: Workers and Exclusive say what is assumed of it.           *)
(***************************************************************************)
EXTENDS Integers, Sequences

CONSTANTS
  Configs,      \* config strings, as the sequences of their fields
  NotANumber,   \* a field from_chars does not read as an int
  DefaultTimes, \* 20000
  Workers,      \* the threads that run callbacks
  Exclusive,    \* callbacks run one at a time and not beside the reset of a tick, as
                \* "each actor's data is handled by its one coroutine" (README.md:13)
  MaxRounds     \* bound: rounds of asynchronous calls

ASSUME QpsAssumption ==
  /\ Configs \subseteq Seq(Int \cup {NotANumber})
  /\ NotANumber \notin Int
  /\ DefaultTimes \in Int
  /\ Exclusive \in BOOLEAN
  /\ MaxRounds \in Nat

Rounds == 1..MaxRounds

VARIABLES
  started,      \* onStartup has run
  m_run, m_times, s_asyncRep,
  i,            \* the loop variable of test_rpcAsyncCall; 0 outside it
  n,            \* the loop variable of test_rpcSyncCall; 0 outside it
  waits,        \* inside a synchronous call
  round,        \* history: how often test_rpcAsyncCall was entered
  open,         \* the calls of each round whose reply may still come
  at,           \* where each worker is in a callback
  reg,          \* the value of s_asyncRep it read there
  back,         \* history: the replies of each round that came
  logs          \* history: how often each round was logged as complete

roundVars == <<i, round, open>>
replyVars == <<at, reg, back, logs>>
syncVars == <<n, waits>>
vars == <<started, m_run, m_times, s_asyncRep, roundVars, replyVars, syncVars>>

TypeOK ==
  /\ started \in BOOLEAN
  /\ m_run \in Int
  /\ m_times \in Int
  /\ s_asyncRep \in Nat
  /\ i \in Nat
  /\ n \in Nat
  /\ waits \in BOOLEAN
  /\ round \in 0..MaxRounds
  /\ open \in [Rounds -> Nat]
  /\ at \in [Workers -> {"idle", "read", "written"}]
  /\ reg \in [Workers -> Nat]
  /\ back \in [Rounds -> Nat]
  /\ logs \in [Rounds -> Nat]

\* s_asyncRep has no initial value; nothing reads it before a tick resets it.
Init ==
  /\ started = FALSE
  /\ m_run = 0
  /\ m_times = 0
  /\ s_asyncRep = 0
  /\ i = 0
  /\ n = 0
  /\ waits = FALSE
  /\ round = 0
  /\ open = [k \in Rounds |-> 0]
  /\ at = [w \in Workers |-> "idle"]
  /\ reg = [w \in Workers |-> 0]
  /\ back = [k \in Rounds |-> 0]
  /\ logs = [k \in Rounds |-> 0]

\* oj_string::casts: a field that is no number leaves the 0 of emplace_back().
Casts(config) == [k \in 1..Len(config) |-> IF config[k] = NotANumber THEN 0 ELSE config[k]]

OnStartup ==
  /\ ~started
  /\ started' = TRUE
  /\ \E c \in Configs :
       /\ m_run'   = IF Len(c) > 0 THEN Casts(c)[1] ELSE 0
       /\ m_times' = IF Len(c) > 1 THEN Casts(c)[2] ELSE DefaultTimes
  /\ UNCHANGED <<s_asyncRep, roundVars, replyVars, syncVars>>

OnInterruptcut ==
  /\ m_run' = 0
  /\ UNCHANGED <<started, m_times, s_asyncRep, roundVars, replyVars, syncVars>>

\* A tick that finds neither test still at work.
Tick(run) ==
  /\ started
  /\ i = 0 /\ n = 0
  /\ m_run = run

\* No callback is running.
Quiet == \A w \in Workers : at[w] = "idle"

\* Seeded fault: the loop ends one turn early, --i > 0.
Turns_OneFewer == IF m_times > 1 THEN m_times - 1 ELSE 0

\* The turns of a loop that counts m_times down to 1.
Turns == IF m_times > 0 THEN m_times ELSE 0

\* Seeded fault: the counter goes on from the round before.
OnTick_NoReset ==
  /\ Tick(1)
  /\ round < MaxRounds
  /\ Exclusive => Quiet
  /\ round' = round + 1
  /\ i' = Turns
  /\ UNCHANGED <<started, m_run, m_times, s_asyncRep, open, replyVars, syncVars>>

\* onTick with m_run = 1 begins a round of asynchronous calls.
OnTick ==
  /\ Tick(1)
  /\ round < MaxRounds
  /\ Exclusive => Quiet
  /\ round' = round + 1
  /\ s_asyncRep' = 0
  /\ i' = Turns
  /\ UNCHANGED <<started, m_run, m_times, open, replyVars, syncVars>>

\* With m_run = 2 it begins a test of synchronous calls; with 3, and with anything
\* else, it does nothing.
OnTickSync ==
  /\ Tick(2)
  /\ n' = Turns
  /\ UNCHANGED <<started, m_run, m_times, s_asyncRep, roundVars, replyVars, waits>>

\* call(req) of the synchronous test, until it comes back.
SyncCall ==
  /\ n > 0 /\ ~waits
  /\ waits' = TRUE
  /\ UNCHANGED <<started, m_run, m_times, s_asyncRep, roundVars, replyVars, n>>

SyncReturn ==
  /\ waits
  /\ waits' = FALSE
  /\ n' = n - 1
  /\ UNCHANGED <<started, m_run, m_times, s_asyncRep, roundVars, replyVars>>

\* Seeded fault: the counter is reset after the loop.
CallAsync_LateReset ==
  /\ i > 0
  /\ i' = i - 1
  /\ open' = [open EXCEPT ![round] = @ + 1]
  /\ s_asyncRep' = IF i = 1 THEN 0 ELSE s_asyncRep
  /\ UNCHANGED <<started, m_run, m_times, round, replyVars, syncVars>>

\* One turn of the loop: call(req1, cb).
CallAsync ==
  /\ i > 0
  /\ i' = i - 1
  /\ open' = [open EXCEPT ![round] = @ + 1]
  /\ UNCHANGED <<started, m_run, m_times, s_asyncRep, round, replyVars, syncVars>>

\* ++s_asyncRep in the callback of a call of round k: the load ...
ReplyRead(w, k) ==
  /\ at[w] = "idle"
  /\ Exclusive => Quiet
  /\ open[k] > 0
  /\ open' = [open EXCEPT ![k] = @ - 1]
  /\ back' = [back EXCEPT ![k] = @ + 1]
  /\ at' = [at EXCEPT ![w] = "read"]
  /\ reg' = [reg EXCEPT ![w] = s_asyncRep]
  /\ UNCHANGED <<started, m_run, m_times, s_asyncRep, i, round, logs, syncVars>>

\* ... and the store.
ReplyWrite(w) ==
  /\ at[w] = "read"
  /\ at' = [at EXCEPT ![w] = "written"]
  /\ s_asyncRep' = reg[w] + 1
  /\ UNCHANGED <<started, m_run, m_times, roundVars, reg, back, logs, syncVars>>

\* A build may test what it has just stored, or read s_asyncRep again.
Seen(w) == {reg[w] + 1, s_asyncRep}

\* The end of the callback; the line it logs, if it does, stands for this round.
ReplyEnd(w, complete) ==
  /\ at[w] = "written"
  /\ at' = [at EXCEPT ![w] = "idle"]
  /\ reg' = [reg EXCEPT ![w] = 0]
  /\ logs' = IF complete THEN [logs EXCEPT ![round] = @ + 1] ELSE logs
  /\ UNCHANGED <<started, m_run, m_times, s_asyncRep, roundVars, back, syncVars>>

\* Seeded fault: the test is >=, so that every late reply logs again.
ReplyTest_AtLeast(w) == \E c \in Seen(w) : ReplyEnd(w, c >= m_times)

\* Seeded fault: the test asks for one reply fewer.
ReplyTest_OneEarly(w) == \E c \in Seen(w) : ReplyEnd(w, c = m_times - 1)

\* if (s_asyncRep == m_times): the counter knows nothing of rounds.
ReplyTest(w) == \E c \in Seen(w) : ReplyEnd(w, c = m_times)

Next ==
  \/ OnStartup
  \/ OnInterruptcut
  \/ OnTick
  \/ CallAsync
  \/ OnTickSync
  \/ SyncCall
  \/ SyncReturn
  \/ \E w \in Workers, k \in Rounds : ReplyRead(w, k)
  \/ \E w \in Workers : ReplyWrite(w) \/ ReplyTest(w)

Spec == Init /\ [][Next]_vars
-----------------------------------------------------------------------------
\* Nothing has happened yet in a round that has not begun, and before onStartup no
\* round has and no callback runs.
AheadInv ==
  /\ \A k \in Rounds : k > round => open[k] = 0 /\ back[k] = 0 /\ logs[k] = 0
  /\ round = 0 => i = 0
  /\ ~started => round = 0 /\ Quiet

\* A synchronous call is inside its loop: the loop variable never goes below zero.
SyncInv == waits => n > 0

\* Without calls there is nothing to count.
NoCallsInv ==
  m_times <= 0 => /\ i = 0 /\ Quiet
                  /\ \A k \in Rounds : open[k] = 0 /\ logs[k] = 0

\* With callbacks that exclude each other there is one at a time, and what it holds is
\* what it left in the counter.
HeldInv ==
  Exclusive =>
    /\ \A v, w \in Workers : at[v] # "idle" /\ at[w] # "idle" => v = w
    /\ \A w \in Workers : /\ at[w] = "read" => s_asyncRep = reg[w]
                          /\ at[w] = "written" => s_asyncRep = reg[w] + 1

Reading == \E w \in Workers : at[w] = "read"
Testing == \E w \in Workers : at[w] = "written"

\* The counter is at most the one callback behind.
CoverInv ==
  Exclusive /\ round > 0 =>
    LET counted == s_asyncRep + IF Reading THEN 1 ELSE 0
    IN  counted >= back[round] /\ counted + open[round] + i >= m_times

\* Why AllBackIsLogged and LoggedOnce hold: the log line is written when the counter
\* passes m_times, once on its way up.
LogInv ==
  Exclusive /\ m_times > 0 /\ round > 0 =>
    logs[round] = IF s_asyncRep > m_times \/ (s_asyncRep = m_times /\ ~Testing)
                  THEN 1 ELSE 0

\* qps_rpc.hpp, lines 83-85: a round whose own replies are all back has been logged when
\* their callbacks have run, whatever came late from the rounds before it.  Like the two
\* that follow, it rests on Exclusive: nothing in the callback itself keeps two of them,
\* or one and the reset, from losing a count.
AllBackIsLogged ==
  round > 0 /\ m_times > 0 /\ Quiet /\ back[round] = m_times => logs[round] > 0

\* A round is logged at most once, although late replies push the counter past
\* m_times (qps_rpc.hpp, line 85: == and not >=).
LoggedOnce == \A k \in Rounds : logs[k] <= 1

\* Between callbacks the counter has counted every reply of this round, and what it
\* has not counted is still to be called or still out.
CounterCovers ==
  round > 0 /\ Quiet => /\ s_asyncRep >= back[round]
                        /\ s_asyncRep + open[round] + i >= m_times

\* qps_rpc.hpp, line 86: the log line gives "the time until all replies have
\* returned", so it is written when every reply of its round is back.
LogMeansAllBack ==
  [][\A k \in Rounds : logs'[k] > logs[k] => back'[k] = m_times]_vars
=============================================================================
