-------------------------------- MODULE Load --------------------------------
(***************************************************************************)
(* The load test of the demo: a qps_rpc_t (QpsRpc) calls a show_rpc_t      *)
(* (ShowRpc), each an actor with a coroutine of its own, by requests and   *)
(* replies that may be late or lost; a synchronous call may be given up by *)
(* its timer while its request is still on its way (Rpc, RemoteCall).      *)
(***************************************************************************)
EXTENDS QpsRpc, FiniteSets

CONSTANTS
  Show,         \* the one show_rpc_t that serves
  MaxTaken,     \* of ShowRpc
  MaxSync       \* bound: synchronous calls

VARIABLES
  g, last, pc, shown, taken,   \* of ShowRpc
  answered,     \* the replies to calls of each round that are on their way
  cur,          \* the synchronous call: "none", "asked", "answered"
  stale,        \* requests on their way whose synchronous call was given up
  calls,        \* history: synchronous calls made
  oks           \* history: synchronous calls that were answered in time

Counter == INSTANCE ShowRpc WITH Shows <- {Show}

showVars == <<g, last, pc, shown, taken>>
linkVars == <<answered, cur, stale, calls, oks>>
loadVars == <<vars, showVars, linkVars>>

LoadInit ==
  /\ Init
  /\ Counter!Init
  /\ answered = [k \in Rounds |-> 0]
  /\ cur = "none"
  /\ stale = 0 /\ calls = 0 /\ oks = 0

\* What qps_rpc_t does by itself.
QpsStep ==
  /\ OnStartup \/ OnInterruptcut \/ OnTick \/ OnTickSync
  /\ UNCHANGED <<showVars, linkVars>>

AskAsync == CallAsync /\ UNCHANGED <<showVars, linkVars>>

\* The tick of show_rpc_t.
ShowPrint == Counter!ShowPrint(Show) /\ UNCHANGED <<vars, linkVars>>
ShowUpdate == Counter!ShowUpdate(Show) /\ UNCHANGED <<vars, linkVars>>

\* show_rpc_t handles an asynchronous request of round k; one reply goes back.
ServeAsync(k) ==
  /\ answered[k] < open[k]
  /\ Counter!OnAsync(Show)
  /\ answered' = [answered EXCEPT ![k] = @ + 1]
  /\ UNCHANGED <<vars, cur, stale, calls, oks>>

\* The reply reaches qps_rpc_t and its callback begins.
ReplyAsync(k) ==
  /\ answered[k] > 0
  /\ \E w \in Workers : ReplyRead(w, k)
  /\ answered' = [answered EXCEPT ![k] = @ - 1]
  /\ UNCHANGED <<showVars, cur, stale, calls, oks>>

\* A callback goes on.
GoOnAsync(w) == (ReplyWrite(w) \/ ReplyTest(w)) /\ UNCHANGED <<showVars, linkVars>>

AskSync ==
  /\ calls < MaxSync
  /\ SyncCall
  /\ calls' = calls + 1
  /\ cur' = "asked"
  /\ UNCHANGED <<showVars, answered, stale, oks>>

\* show_rpc_t handles a synchronous request, in time or after its caller has gone on.
ServeSync ==
  /\ \/ cur = "asked" /\ cur' = "answered" /\ UNCHANGED stale
     \/ stale > 0 /\ stale' = stale - 1 /\ UNCHANGED cur
  /\ Counter!OnSync(Show)
  /\ UNCHANGED <<vars, answered, calls, oks>>

\* call(req) comes back: with the reply, or because the timer fired.
GoOnSync ==
  /\ SyncReturn
  /\ \/ cur = "answered" /\ oks' = oks + 1 /\ UNCHANGED stale
     \/ stale' = (IF cur = "asked" THEN stale + 1 ELSE stale) /\ UNCHANGED oks
  /\ cur' = "none"
  /\ UNCHANGED <<showVars, answered, calls>>

LoadNext ==
  \/ QpsStep
  \/ AskAsync
  \/ ShowPrint
  \/ ShowUpdate
  \/ \E k \in Rounds : ServeAsync(k) \/ ReplyAsync(k)
  \/ \E w \in Workers : GoOnAsync(w)
  \/ AskSync
  \/ ServeSync
  \/ GoOnSync

\* On a link that loses nothing every request is handled between two ticks and every
\* reply comes; the loop of qps_rpc_t and show_io() go on.
LoadFairness ==
  /\ WF_loadVars(AskAsync) /\ WF_loadVars(ShowUpdate)
  /\ \A k \in Rounds : SF_loadVars(ServeAsync(k)) /\ WF_loadVars(ReplyAsync(k))
  /\ \A w \in Workers : WF_loadVars(GoOnAsync(w))

LoadSpec == LoadInit /\ [][LoadNext]_loadVars /\ LoadFairness
-----------------------------------------------------------------------------
\* A pair for each of what f counts in the rounds, and how many that are.
Each(f) == UNION {{k} \X (1..f[k]) : k \in Rounds}
Total(f) == Cardinality(Each(f))

\* The two ends of the test agree: no reply is counted that the other side has not
\* counted as a request, and it counts no request twice, though callers give up and
\* requests arrive late.
EndsAgree ==
  /\ g[Show].syncCallRep = Total(back) + Total(answered)
  /\ oks <= g[Show].syncCall /\ g[Show].syncCall <= calls - stale

\* qps_rpc.hpp, lines 85-88: the rate that the log line stands for was handled at the
\* other end: when a round is logged, m_times requests at least were handled, even when
\* callbacks run beside each other and lose counts.
LoggedMeansHandled ==
  (\E k \in Rounds : logs[k] > 0) => taken[Show].async >= m_times

\* Every request is printed once.
ShownOnce == Counter!ShownOnce

\* On a link that loses nothing, a round is logged before the next one or at last.
RoundIsLogged ==
  \A k \in Rounds : round = k /\ m_times > 0 ~> logs[k] > 0 \/ round > k
=============================================================================
