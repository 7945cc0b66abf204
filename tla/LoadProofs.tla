----------------------------- MODULE LoadProofs -----------------------------
(***************************************************************************)
(* Proofs about the load test, for any number of calls, rounds and         *)
(* requests: first of qps_rpc_t by itself (QpsRpc), then of the two actors *)
(* and the link between them (Load).  That Load is made of steps of its    *)
(* two parts is proved, so what holds of these alone (here and in          *)
(* ShowRpcProofs) holds of them together.                                  *)
(***************************************************************************)
EXTENDS Load, FiniteSetTheorems, TLAPS

CounterProved == INSTANCE ShowRpcProofs WITH Shows <- {Show}
-----------------------------------------------------------------------------
\* What holds in every reachable state of qps_rpc_t; QpsRpc says why.
QpsInv == TypeOK /\ AheadInv /\ SyncInv /\ NoCallsInv

\* What holds besides of the counter when callbacks exclude each other; QpsRpc says why.
CountInv == HeldInv /\ CoverInv /\ LogInv /\ LoggedOnce

\* What the proofs need of Rounds; left unexpanded, it is just the domain of the
\* histories.
LEMMA RoundNumbers ==
  /\ MaxRounds \in Nat
  /\ Rounds = {k \in Int : 1 <= k /\ k <= MaxRounds}
BY QpsAssumption DEF Rounds

\* QpsInv and CountInv hold at the start.
LEMMA QpsInvInit == Init => QpsInv /\ CountInv
<1> SUFFICES ASSUME Init PROVE QpsInv /\ CountInv
  OBVIOUS
<1>1. TypeOK
  <2>1. /\ open \in [Rounds -> Nat]
        /\ back \in [Rounds -> Nat]
        /\ logs \in [Rounds -> Nat]
    BY DEF Init
  <2>0. started \in BOOLEAN /\ waits \in BOOLEAN
    BY DEF Init
  <2>2. /\ m_run \in Int
        /\ m_times \in Int
        /\ s_asyncRep \in Nat
        /\ i \in Nat /\ n \in Nat
    BY DEF Init
  <2>3. round \in 0..MaxRounds
    BY RoundNumbers DEF Init
  <2>4. /\ at \in [Workers -> {"idle", "read", "written"}]
        /\ reg \in [Workers -> Nat]
    BY DEF Init
  <2> QED
    BY <2>0, <2>1, <2>2, <2>3, <2>4 DEF TypeOK
<1>2. AheadInv /\ SyncInv /\ NoCallsInv
  BY RoundNumbers DEF Init, AheadInv, SyncInv, NoCallsInv, Quiet
<1>3. CountInv
  BY RoundNumbers DEF Init, CountInv, HeldInv, CoverInv, LogInv, LoggedOnce
<1> QED
  BY <1>1, <1>2, <1>3 DEF QpsInv

\* A callback begins: its reply is back, and it holds what it read of the counter.
LEMMA ReplyReadKeeps ==
  ASSUME QpsInv, NEW w \in Workers, NEW k \in Rounds, ReplyRead(w, k)
  PROVE  QpsInv' /\ (Exclusive /\ CountInv => CountInv')
<1> USE RoundNumbers
<1>1. /\ at[w] = "idle"
      /\ Exclusive => Quiet
      /\ open[k] > 0
      /\ open' = [open EXCEPT ![k] = open[k] - 1]
      /\ back' = [back EXCEPT ![k] = back[k] + 1]
      /\ at' = [at EXCEPT ![w] = "read"]
      /\ reg' = [reg EXCEPT ![w] = s_asyncRep]
      /\ UNCHANGED <<started, m_run, m_times, s_asyncRep, i, round, logs, n, waits>>
  BY DEF ReplyRead, syncVars
<1>2. round \in Rounds /\ k <= round /\ m_times > 0 /\ started
  BY <1>1 DEF QpsInv, TypeOK, AheadInv, NoCallsInv
<1>3. TypeOK'
  BY <1>1, <1>2 DEF QpsInv, TypeOK
<1>4. AheadInv' /\ SyncInv' /\ NoCallsInv'
  BY <1>1, <1>2 DEF QpsInv, TypeOK, AheadInv, SyncInv, NoCallsInv, Quiet
<1>5. ASSUME Exclusive, CountInv PROVE CountInv'
  <2>1. \A v \in Workers : at[v] = "idle" /\ at'[v] = IF v = w THEN "read" ELSE "idle"
    BY <1>1, <1>5 DEF Quiet, QpsInv, TypeOK
  <2>2. ~Reading /\ Reading' /\ ~Testing /\ ~Testing'
    BY <2>1 DEF Reading, Testing
  <2>3. HeldInv'
    BY <1>1, <2>1 DEF HeldInv, QpsInv, TypeOK
  <2>4. CoverInv'
    BY <1>1, <1>2, <1>5, <2>2 DEF CoverInv, CountInv, QpsInv, TypeOK
  <2>5. LogInv' /\ LoggedOnce'
    BY <1>1, <1>5, <2>2 DEF LogInv, LoggedOnce, CountInv
  <2> QED
    BY <2>3, <2>4, <2>5 DEF CountInv
<1> QED
  BY <1>3, <1>4, <1>5 DEF QpsInv

\* It stores one more than it read.
LEMMA ReplyWriteKeeps ==
  ASSUME QpsInv, NEW w \in Workers, ReplyWrite(w)
  PROVE  QpsInv' /\ (Exclusive /\ CountInv => CountInv')
<1> USE RoundNumbers
<1>1. /\ at[w] = "read"
      /\ at' = [at EXCEPT ![w] = "written"]
      /\ s_asyncRep' = reg[w] + 1
      /\ UNCHANGED <<started, m_run, m_times, i, round, open, reg, back, logs, n, waits>>
  BY DEF ReplyWrite, syncVars, roundVars
<1>2. m_times > 0
  BY <1>1 DEF QpsInv, TypeOK, NoCallsInv, Quiet
<1>3. TypeOK'
  BY <1>1 DEF QpsInv, TypeOK
<1>4. AheadInv' /\ SyncInv' /\ NoCallsInv'
  BY <1>1, <1>2 DEF QpsInv, TypeOK, AheadInv, SyncInv, NoCallsInv, Quiet
<1>5. ASSUME Exclusive, CountInv PROVE CountInv'
  <2>1. \A v \in Workers : v # w => at[v] = "idle"
    BY <1>1, <1>5 DEF CountInv, HeldInv, QpsInv, TypeOK
  <2>2. Reading /\ ~Reading' /\ ~Testing /\ Testing'
    BY <1>1, <2>1 DEF Reading, Testing, QpsInv, TypeOK
  <2>3. s_asyncRep' = s_asyncRep + 1
    BY <1>1, <1>5 DEF CountInv, HeldInv
  <2>4. HeldInv'
    BY <1>1, <2>1 DEF HeldInv, QpsInv, TypeOK
  <2>5. CoverInv'
    BY <1>1, <1>5, <2>2, <2>3 DEF CoverInv, CountInv, QpsInv, TypeOK
  <2>6. LogInv' /\ LoggedOnce'
    BY <1>1, <1>5, <2>2, <2>3 DEF LogInv, LoggedOnce, CountInv, QpsInv, TypeOK
  <2> QED
    BY <2>4, <2>5, <2>6 DEF CountInv
<1> QED
  BY <1>3, <1>4, <1>5 DEF QpsInv

\* It tests and, if the counter is m_times, logs the round.
LEMMA ReplyTestKeeps ==
  ASSUME QpsInv, NEW w \in Workers, ReplyTest(w)
  PROVE  QpsInv' /\ (Exclusive /\ CountInv => CountInv')
<1> USE RoundNumbers
<1>1. PICK c \in Seen(w) : ReplyEnd(w, c = m_times)
  BY DEF ReplyTest
<1>2. /\ at[w] = "written"
      /\ at' = [at EXCEPT ![w] = "idle"]
      /\ reg' = [reg EXCEPT ![w] = 0]
      /\ logs' = IF c = m_times THEN [logs EXCEPT ![round] = logs[round] + 1] ELSE logs
      /\ UNCHANGED <<started, m_run, m_times, s_asyncRep, i, round, open, back, n, waits>>
  BY <1>1 DEF ReplyEnd, syncVars, roundVars
<1>3. m_times > 0
  BY <1>2 DEF QpsInv, TypeOK, NoCallsInv, Quiet
<1>4. TypeOK'
  <2>1. logs' \in [Rounds -> Nat]
    <3>0. logs \in [Rounds -> Nat]
      BY DEF QpsInv, TypeOK
    <3>1. CASE c = m_times
      <4>1. logs' = [logs EXCEPT ![round] = logs[round] + 1]
        BY <1>2, <3>1
      <4>2. DOMAIN logs' = Rounds /\ \A r \in Rounds : logs'[r] \in Nat
        BY <3>0, <4>1
      <4> QED
        BY <3>0, <4>1, <4>2
    <3> QED
      BY <3>0, <3>1, <1>2
  <2>2. at' \in [Workers -> {"idle", "read", "written"}] /\ reg' \in [Workers -> Nat]
    BY <1>2 DEF QpsInv, TypeOK
  <2> QED
    BY <2>1, <2>2, <1>2 DEF QpsInv, TypeOK
<1>5. AheadInv' /\ SyncInv' /\ NoCallsInv'
  BY <1>2, <1>3 DEF QpsInv, TypeOK, AheadInv, SyncInv, NoCallsInv, Quiet
<1>6. ASSUME Exclusive, CountInv PROVE CountInv'
  <2>1. \A v \in Workers : at'[v] = "idle"
    BY <1>2, <1>6 DEF CountInv, HeldInv, QpsInv, TypeOK
  <2>2. ~Reading' /\ Testing /\ ~Testing' /\ ~Reading
    BY <1>2, <1>6, <2>1 DEF Reading, Testing, CountInv, HeldInv
  <2>3. c = s_asyncRep
    BY <1>2, <1>6 DEF CountInv, HeldInv, Seen
  <2>4. HeldInv' /\ CoverInv'
    BY <1>2, <1>6, <2>1, <2>2 DEF CountInv, HeldInv, CoverInv
  <2>5. LogInv' /\ LoggedOnce'
    BY <1>2, <1>3, <1>6, <2>2, <2>3 DEF LogInv, LoggedOnce, CountInv, QpsInv, TypeOK
  <2> QED
    BY <2>4, <2>5 DEF CountInv
<1> QED
  BY <1>4, <1>5, <1>6 DEF QpsInv

\* A round begins with a clean counter.
LEMMA OnTickKeeps ==
  ASSUME QpsInv, OnTick
  PROVE  QpsInv' /\ (Exclusive /\ CountInv => CountInv')
<1> USE RoundNumbers
<1>1. /\ started /\ i = 0 /\ round < MaxRounds
      /\ Exclusive => Quiet
      /\ round' = round + 1
      /\ s_asyncRep' = 0
      /\ i' = IF m_times > 0 THEN m_times ELSE 0
      /\ UNCHANGED <<started, m_run, m_times, open, at, reg, back, logs, n, waits>>
  BY DEF OnTick, Tick, Turns, replyVars, syncVars
<1>2. QpsInv'
  BY <1>1 DEF QpsInv, TypeOK, AheadInv, SyncInv, NoCallsInv, Quiet
<1>3. ASSUME Exclusive, CountInv PROVE CountInv'
  <2>1. ~Reading' /\ ~Testing' /\ \A v \in Workers : at'[v] = "idle"
    BY <1>1, <1>3 DEF Reading, Testing, Quiet
  <2>2. round' \in Rounds /\ open[round'] = 0 /\ back[round'] = 0 /\ logs[round'] = 0
    BY <1>1 DEF QpsInv, TypeOK, AheadInv
  <2>3. HeldInv' /\ LoggedOnce'
    BY <1>1, <1>3, <2>1 DEF HeldInv, LoggedOnce, CountInv
  <2>4. CoverInv' /\ LogInv'
    BY <1>1, <2>1, <2>2 DEF CoverInv, LogInv, QpsInv, TypeOK
  <2> QED
    BY <2>3, <2>4 DEF CountInv
<1> QED
  BY <1>2, <1>3

\* Whatever the config string, the mode and the number of calls are integers.
LEMMA StartupNumbers == OnStartup => m_run' \in Int /\ m_times' \in Int
<1> SUFFICES ASSUME OnStartup PROVE m_run' \in Int /\ m_times' \in Int
  OBVIOUS
<1>1. PICK c \in Configs : /\ m_run'   = IF Len(c) > 0 THEN Casts(c)[1] ELSE 0
                           /\ m_times' = IF Len(c) > 1 THEN Casts(c)[2] ELSE DefaultTimes
  BY DEF OnStartup
<1>2. c \in Seq(Int \cup {NotANumber})
  BY QpsAssumption
<1>3. Len(c) \in Nat /\ \A k \in 1..Len(c) : c[k] \in Int \cup {NotANumber}
  BY <1>2
<1>4. \A k \in 1..Len(c) : Casts(c)[k] \in Int
  BY <1>3 DEF Casts
<1> QED
  BY <1>1, <1>3, <1>4, QpsAssumption

\* Before onStartup no call was made, so nothing runs that m_times could surprise.
LEMMA OnStartupKeeps ==
  ASSUME QpsInv, OnStartup
  PROVE  QpsInv' /\ (Exclusive /\ CountInv => CountInv')
<1>1. m_run' \in Int /\ m_times' \in Int
  BY StartupNumbers
<1>2. /\ ~started /\ started' = TRUE
      /\ UNCHANGED <<s_asyncRep, i, round, open, at, reg, back, logs, n, waits>>
  BY DEF OnStartup, roundVars, replyVars, syncVars
<1>3. round = 0 /\ Quiet
  BY <1>2 DEF QpsInv, AheadInv
<1>4. QpsInv'
  BY <1>1, <1>2, <1>3, RoundNumbers DEF QpsInv, TypeOK, AheadInv, SyncInv, NoCallsInv, Quiet
<1>5. CountInv => CountInv'
  BY <1>2, <1>3 DEF CountInv, HeldInv, CoverInv, LogInv, LoggedOnce
<1> QED
  BY <1>4, <1>5

\* The rest of what qps_rpc_t does: a call adds what the counter still has to see, the
\* other steps leave it alone.
LEMMA OtherStepKeeps ==
  ASSUME QpsInv,
         CallAsync \/ OnInterruptcut \/ OnTickSync \/ SyncCall \/ SyncReturn
           \/ UNCHANGED vars
  PROVE  QpsInv' /\ (CountInv => CountInv')
<1> USE RoundNumbers DEF roundVars, replyVars, syncVars
<1>1. CASE CallAsync
  <2>1. /\ i > 0 /\ i' = i - 1
        /\ open' = [open EXCEPT ![round] = @ + 1]
        /\ UNCHANGED <<started, m_run, m_times, s_asyncRep, round, at, reg, back, logs, n, waits>>
    BY <1>1 DEF CallAsync
  <2>2. round \in Rounds /\ started /\ m_times > 0
    BY <2>1 DEF QpsInv, TypeOK, AheadInv, NoCallsInv
  <2>3. QpsInv'
    BY <2>1, <2>2 DEF QpsInv, TypeOK, AheadInv, SyncInv, NoCallsInv, Quiet
  <2>4. Reading' = Reading /\ Testing' = Testing
    BY <2>1 DEF Reading, Testing
  <2>5. CountInv => CountInv'
    BY <2>1, <2>2, <2>4 DEF QpsInv, TypeOK, CountInv, HeldInv, CoverInv, LogInv, LoggedOnce
  <2> QED
    BY <2>3, <2>5
<1>2. ASSUME OnInterruptcut \/ OnTickSync \/ SyncCall \/ SyncReturn \/ UNCHANGED vars
      PROVE  QpsInv' /\ (CountInv => CountInv')
  <2>1. UNCHANGED <<started, m_times, s_asyncRep, i, round, open, at, reg, back, logs>>
    BY <1>2 DEF OnInterruptcut, OnTickSync, SyncCall, SyncReturn, vars
  <2>2. m_run' \in Int /\ n' \in Nat /\ waits' \in BOOLEAN /\ SyncInv'
    <3>1. CASE OnInterruptcut
      BY <3>1 DEF OnInterruptcut, QpsInv, TypeOK, SyncInv
    <3>2. CASE OnTickSync
      BY <3>2 DEF OnTickSync, Tick, Turns, QpsInv, TypeOK, SyncInv
    <3>3. CASE SyncCall
      BY <3>3 DEF SyncCall, QpsInv, TypeOK, SyncInv
    <3>4. CASE SyncReturn
      <4>1. waits /\ waits' = FALSE /\ n' = n - 1 /\ m_run' = m_run
        BY <3>4 DEF SyncReturn
      <4>2. n \in Nat /\ n > 0
        BY <4>1 DEF QpsInv, TypeOK, SyncInv
      <4>3. n' \in Nat
        BY <4>1, <4>2
      <4>4. waits' \in BOOLEAN /\ ~waits'
        BY <4>1, Zenon
      <4> QED
        BY <4>1, <4>3, <4>4 DEF QpsInv, TypeOK, SyncInv
    <3>5. CASE UNCHANGED vars
      BY <3>5 DEF vars, QpsInv, TypeOK, SyncInv
    <3> QED
      BY <1>2, <3>1, <3>2, <3>3, <3>4, <3>5
  <2>3. QpsInv'
    BY <2>1, <2>2 DEF QpsInv, TypeOK, AheadInv, NoCallsInv, Quiet
  <2>4. CountInv => CountInv'
    BY <2>1 DEF CountInv, HeldInv, CoverInv, LogInv, LoggedOnce, Reading, Testing
  <2> QED
    BY <2>3, <2>4
<1> QED
  BY <1>1, <1>2

\* QpsInv is inductive, and with exclusive callbacks CountInv is.
LEMMA QpsInvStep ==
  ASSUME QpsInv, [Next]_vars
  PROVE  QpsInv' /\ (Exclusive /\ CountInv => CountInv')
<1>1. ASSUME NEW w \in Workers, NEW k \in Rounds, ReplyRead(w, k)
      PROVE  QpsInv' /\ (Exclusive /\ CountInv => CountInv')
  BY <1>1, ReplyReadKeeps
<1>2. ASSUME NEW w \in Workers, ReplyWrite(w) \/ ReplyTest(w)
      PROVE  QpsInv' /\ (Exclusive /\ CountInv => CountInv')
  BY <1>2, ReplyWriteKeeps, ReplyTestKeeps
<1> QED
  BY <1>1, <1>2, OnStartupKeeps, OnTickKeeps, OtherStepKeeps DEF Next

\* QpsInv holds in every reachable state of the load generator, wherever its callbacks
\* run.
THEOREM QpsInductive == Spec => []QpsInv
<1>1. Init => QpsInv
  BY QpsInvInit
<1>2. QpsInv /\ [Next]_vars => QpsInv'
  BY QpsInvStep
<1> QED
  BY <1>1, <1>2, PTL DEF Spec

\* CountInv holds in every reachable state if they exclude each other.
THEOREM CountInductive == ASSUME Exclusive PROVE Spec => [](QpsInv /\ CountInv)
<1>1. Init => QpsInv /\ CountInv
  BY QpsInvInit
<1>2. QpsInv /\ CountInv /\ [Next]_vars => (QpsInv /\ CountInv)'
  BY QpsInvStep
<1> QED
  BY <1>1, <1>2, PTL DEF Spec

\* The state keeps its type: no counter goes below zero, whatever the config says and
\* wherever callbacks run (qps_rpc.hpp, lines 17-21).
THEOREM TypeCorrect == Spec => []TypeOK
<1>1. QpsInv => TypeOK
  BY DEF QpsInv
<1> QED
  BY <1>1, QpsInductive, PTL

\* With exclusive callbacks the counter never misses a reply of its own round, and what
\* it has not seen is still to be called or still out (qps_rpc.hpp, lines 75-83).
THEOREM CounterIsSound == ASSUME Exclusive PROVE Spec => []CounterCovers
<1>1. QpsInv /\ CountInv => CounterCovers
  BY DEF QpsInv, TypeOK, CountInv, CoverInv, CounterCovers, Quiet, Reading
<1> QED
  BY <1>1, CountInductive, PTL

\* With exclusive callbacks no round is logged twice, however many late replies push the
\* counter on (qps_rpc.hpp, line 85).
THEOREM NeverLoggedTwice == ASSUME Exclusive PROVE Spec => []LoggedOnce
<1>1. QpsInv /\ CountInv => LoggedOnce
  BY DEF CountInv
<1> QED
  BY <1>1, CountInductive, PTL

\* With exclusive callbacks a round whose own replies are all back has been logged when
\* their callbacks have run (qps_rpc.hpp, lines 83-88).
THEOREM CompleteIsLogged == ASSUME Exclusive PROVE Spec => []AllBackIsLogged
<1>1. QpsInv /\ CountInv => AllBackIsLogged
  <2> SUFFICES ASSUME QpsInv, CountInv, round > 0, m_times > 0, Quiet, back[round] = m_times
               PROVE  logs[round] > 0
    BY DEF AllBackIsLogged
  <2>1. ~Reading /\ ~Testing
    BY DEF Quiet, Reading, Testing
  <2>2. s_asyncRep >= m_times /\ s_asyncRep \in Nat /\ m_times \in Int
    BY <2>1 DEF CountInv, CoverInv, QpsInv, TypeOK
  <2> QED
    BY <2>1, <2>2 DEF CountInv, LogInv
<1> QED
  BY <1>1, CountInductive, PTL
-----------------------------------------------------------------------------
\* The state of the link between the two actors keeps its type.
LinkTypeOK ==
  /\ answered \in [Rounds -> Nat]
  /\ cur \in {"none", "asked", "answered"}
  /\ stale \in Nat /\ calls \in Nat /\ oks \in Nat

\* An asynchronous request that was handled is a reply on its way or a reply that came.
ServedInv ==
  /\ IsFiniteSet(Each(back)) /\ IsFiniteSet(Each(answered))
  /\ taken[Show].async = g[Show].syncCallRep
  /\ g[Show].syncCallRep = Total(back) + Total(answered)

\* The counter of a round counts replies that came, and what a callback holds is not more
\* although others may overtake it; so a line in the log has m_times replies behind it.
RateInv ==
  /\ s_asyncRep <= Total(back)
  /\ \A w \in Workers : at[w] # "idle" => reg[w] + 1 <= Total(back)
  /\ (\E k \in Rounds : logs[k] > 0) => m_times <= Total(back)

\* A synchronous request that was made is handled, or on its way with its caller waiting
\* or gone; one that was answered in time is handled.
AskedInv ==
  /\ waits <=> cur # "none"
  /\ g[Show].syncCall + stale + (IF cur = "asked" THEN 1 ELSE 0) = calls
  /\ oks + (IF cur = "answered" THEN 1 ELSE 0) <= g[Show].syncCall

LinkInv == LinkTypeOK /\ ServedInv /\ RateInv /\ AskedInv

\* Nothing is counted where nothing has happened.
LEMMA NothingCounted ==
  /\ IsFiniteSet(Each([k \in Rounds |-> 0]))
  /\ Total([k \in Rounds |-> 0]) = 0
<1>1. Each([k \in Rounds |-> 0]) = {}
  BY DEF Each
<1> QED
  BY <1>1, FS_EmptySet DEF Total

\* One more in one round is one more in all.
LEMMA OneMore ==
  ASSUME NEW f \in [Rounds -> Nat], NEW r \in Rounds, IsFiniteSet(Each(f))
  PROVE  LET h == [f EXCEPT ![r] = @ + 1]
         IN  IsFiniteSet(Each(h)) /\ Total(h) = Total(f) + 1
<1> DEFINE h == [f EXCEPT ![r] = @ + 1]
           new == <<r, f[r] + 1>>
<1>1. new \notin Each(f)
  BY DEF Each
<1>2. Each(h) = Each(f) \cup {new}
  <2>1. ASSUME NEW p \in Each(h) PROVE p \in Each(f) \cup {new}
    <3>1. PICK k \in Rounds : p \in {k} \X (1..h[k])
      BY DEF Each
    <3>2. PICK m \in 1..h[k] : p = <<k, m>>
      BY <3>1
    <3>3. CASE k = r /\ m = f[r] + 1
      BY <3>2, <3>3
    <3>4. CASE ~(k = r /\ m = f[r] + 1)
      <4>1. m \in 1..f[k]
        BY <3>2, <3>4
      <4> QED
        BY <4>1, <3>2 DEF Each
    <3> QED
      BY <3>3, <3>4
  <2>2. ASSUME NEW p \in Each(f) PROVE p \in Each(h)
    <3>1. PICK k \in Rounds : p \in {k} \X (1..f[k])
      BY DEF Each
    <3>2. PICK m \in 1..f[k] : p = <<k, m>>
      BY <3>1
    <3>3. m \in 1..h[k]
      BY <3>2
    <3> QED
      BY <3>2, <3>3 DEF Each
  <2>3. new \in Each(h)
    <3>1. f[r] + 1 \in 1..h[r]
      OBVIOUS
    <3> QED
      BY <3>1 DEF Each
  <2> QED
    BY <2>1, <2>2, <2>3
<1> HIDE DEF h, new
<1>3. IsFiniteSet(Each(h)) /\ Cardinality(Each(h)) = Cardinality(Each(f)) + 1
  BY <1>1, <1>2, FS_AddElement
<1> QED
  BY <1>3 DEF Total, h

\* One fewer in one round is one fewer in all.
LEMMA OneFewer ==
  ASSUME NEW f \in [Rounds -> Nat], NEW r \in Rounds, f[r] > 0, IsFiniteSet(Each(f))
  PROVE  LET h == [f EXCEPT ![r] = @ - 1]
         IN  IsFiniteSet(Each(h)) /\ Total(h) = Total(f) - 1
<1> DEFINE h == [f EXCEPT ![r] = @ - 1]
           old == <<r, f[r]>>
<1>1. h \in [Rounds -> Nat]
  OBVIOUS
<1>2. old \in Each(f)
  <2>1. f[r] \in 1..f[r]
    OBVIOUS
  <2> QED
    BY <2>1 DEF Each
<1>3. Each(h) = Each(f) \ {old}
  <2>1. ASSUME NEW p \in Each(h) PROVE p \in Each(f) \ {old}
    <3>1. PICK k \in Rounds : p \in {k} \X (1..h[k])
      BY DEF Each
    <3>2. PICK m \in 1..h[k] : p = <<k, m>>
      BY <3>1
    <3>3. m \in 1..f[k] /\ ~(k = r /\ m = f[r])
      BY <3>2
    <3>4. p \in Each(f)
      BY <3>2, <3>3 DEF Each
    <3> QED
      BY <3>2, <3>3, <3>4
  <2>2. ASSUME NEW p \in Each(f), p # old PROVE p \in Each(h)
    <3>1. PICK k \in Rounds : p \in {k} \X (1..f[k])
      BY DEF Each
    <3>2. PICK m \in 1..f[k] : p = <<k, m>>
      BY <3>1
    <3>3. m \in 1..h[k]
      BY <2>2, <3>2
    <3> QED
      BY <3>2, <3>3 DEF Each
  <2> QED
    BY <2>1, <2>2
<1> HIDE DEF h, old
<1>4. IsFiniteSet(Each(h)) /\ Cardinality(Each(h)) = Cardinality(Each(f)) - 1
  BY <1>2, <1>3, FS_RemoveElement
<1> QED
  BY <1>4 DEF Total, h

\* What is counted is a number.
LEMMA TotalIsNat == \A f : IsFiniteSet(Each(f)) => Total(f) \in Nat
BY FS_CardinalityType DEF Total

\* What Load does, qps_rpc_t does or does not notice, and so does show_rpc_t.
LEMMA StepsOfParts ==
  ASSUME [LoadNext]_loadVars
  PROVE  [Next]_vars /\ [Counter!Next]_(Counter!vars)
<1>1. CASE QpsStep
  BY <1>1 DEF QpsStep, Next, showVars, Counter!vars
<1>2. CASE AskAsync
  BY <1>2 DEF AskAsync, Next, showVars, Counter!vars
<1>3. CASE ShowPrint \/ ShowUpdate
  BY <1>3 DEF ShowPrint, ShowUpdate, Counter!Next
<1>4. ASSUME NEW k \in Rounds, ServeAsync(k)
      PROVE  [Next]_vars /\ [Counter!Next]_(Counter!vars)
  BY <1>4 DEF ServeAsync, Counter!Next
<1>5. ASSUME NEW k \in Rounds, ReplyAsync(k)
      PROVE  [Next]_vars /\ [Counter!Next]_(Counter!vars)
  BY <1>5 DEF ReplyAsync, Next, showVars, Counter!vars
<1>10. ASSUME NEW w \in Workers, GoOnAsync(w)
       PROVE  [Next]_vars /\ [Counter!Next]_(Counter!vars)
  BY <1>10 DEF GoOnAsync, Next, showVars, Counter!vars
<1>6. CASE AskSync
  BY <1>6 DEF AskSync, Next, showVars, Counter!vars
<1>7. CASE ServeSync
  BY <1>7 DEF ServeSync, Counter!Next
<1>8. CASE GoOnSync
  BY <1>8 DEF GoOnSync, Next, showVars, Counter!vars
<1>9. CASE UNCHANGED loadVars
  BY <1>9 DEF loadVars, showVars, Counter!vars
<1> QED
  BY <1>1, <1>2, <1>3, <1>4, <1>5, <1>6, <1>7, <1>8, <1>9, <1>10 DEF LoadNext

\* Load is its two parts running together: each of them behaves as it does alone.
THEOREM Components == LoadSpec => Spec /\ Counter!Spec
<1>1. LoadInit => Init /\ Counter!Init
  BY DEF LoadInit
<1>2. [LoadNext]_loadVars => [Next]_vars /\ [Counter!Next]_(Counter!vars)
  BY StepsOfParts
<1> QED
  BY <1>1, <1>2, PTL DEF LoadSpec, Spec, Counter!Spec

\* The proofs of show_rpc_t are about the same actor.
LEMMA SameShow ==
  /\ CounterProved!Spec <=> Counter!Spec
  /\ CounterProved!TypeOK <=> Counter!TypeOK
  /\ CounterProved!ShownOnce <=> ShownOnce
<1>1. CounterProved!Init <=> Counter!Init
  BY DEF CounterProved!Init, Counter!Init, CounterProved!None, Counter!None,
         CounterProved!Columns, Counter!Columns
<1>2. [CounterProved!Next]_(CounterProved!vars) <=> [Counter!Next]_(Counter!vars)
  BY DEF CounterProved!Next, Counter!Next, CounterProved!vars, Counter!vars,
         CounterProved!OnSync, Counter!OnSync, CounterProved!OnAsync, Counter!OnAsync,
         CounterProved!Handle, Counter!Handle, CounterProved!ShowPrint, Counter!ShowPrint,
         CounterProved!ShowUpdate, Counter!ShowUpdate, CounterProved!Columns, Counter!Columns
<1>3. CounterProved!TypeOK <=> Counter!TypeOK
  BY DEF CounterProved!TypeOK, Counter!TypeOK, CounterProved!Columns, Counter!Columns
<1>4. CounterProved!ShownOnce <=> ShownOnce
  BY DEF CounterProved!ShownOnce, ShownOnce, Counter!ShownOnce, CounterProved!Columns,
         Counter!Columns
<1> QED
  BY <1>1, <1>2, <1>3, <1>4, PTL DEF CounterProved!Spec, Counter!Spec

\* With its one show_rpc_t, the load test prints every request once (show_rpc.hpp,
\* lines 50-87): a handler never counts between a line of the log and what is
\* remembered of it.
THEOREM PrintedOnce == LoadSpec => []ShownOnce
<1>1. CounterProved!Spec => []CounterProved!ShownOnce
  <2>1. \A s, r \in {Show} : r = s
    OBVIOUS
  <2> QED
    BY <2>1, CounterProved!PrintedOnce
<1> QED
  BY <1>1, SameShow, Components, PTL

\* What is known of the two parts, each by itself.
LEMMA PartsSound == LoadSpec => [](QpsInv /\ Counter!TypeOK)
<1>1. CounterProved!Spec => []CounterProved!TypeOK
  <2>1. \A s, r \in {Show} : r = s
    OBVIOUS
  <2> QED
    BY <2>1, CounterProved!TypeCorrect
<1> QED
  BY <1>1, QpsInductive, SameShow, Components, PTL

\* Nothing is on its way at the start.
LEMMA LinkInit == LoadInit => LinkInv
<1> SUFFICES ASSUME LoadInit PROVE LinkInv
  OBVIOUS
<1>1. LinkTypeOK
  BY DEF LoadInit, LinkTypeOK
<1>2. g[Show].syncCall = 0 /\ g[Show].syncCallRep = 0 /\ taken[Show].async = 0
  BY DEF LoadInit, Counter!Init, Counter!None, Counter!Columns
<1>3. IsFiniteSet(Each(back)) /\ Total(back) = 0
  BY NothingCounted DEF LoadInit, Init
<1>4. IsFiniteSet(Each(answered)) /\ Total(answered) = 0
  BY NothingCounted DEF LoadInit
<1>5. ServedInv
  BY <1>2, <1>3, <1>4 DEF ServedInv
<1>6. RateInv
  BY <1>3 DEF RateInv, LoadInit, Init
<1>7. AskedInv
  BY <1>2 DEF AskedInv, LoadInit, Init
<1> QED
  BY <1>1, <1>5, <1>6, <1>7 DEF LinkInv

\* An asynchronous request counts once, as handled and in the column for synchronous
\* replies.
LEMMA CountsAsync ==
  ASSUME Counter!TypeOK, Counter!OnAsync(Show)
  PROVE  /\ taken'[Show].async = taken[Show].async + 1
         /\ g'[Show].syncCallRep = g[Show].syncCallRep + 1
         /\ g'[Show].syncCall = g[Show].syncCall
BY DEF Counter!OnAsync, Counter!Handle, Counter!TypeOK, Counter!Columns

\* A synchronous request counts once, in the column of its own.
LEMMA CountsSync ==
  ASSUME Counter!TypeOK, Counter!OnSync(Show)
  PROVE  /\ taken'[Show].async = taken[Show].async
         /\ g'[Show].syncCallRep = g[Show].syncCallRep
         /\ g'[Show].syncCall = g[Show].syncCall + 1
BY DEF Counter!OnSync, Counter!Handle, Counter!TypeOK, Counter!Columns

\* The tick of show_rpc_t counts nothing.
LEMMA CountsNothing ==
  ASSUME ShowPrint \/ ShowUpdate
  PROVE  UNCHANGED <<g, taken>>
BY DEF ShowPrint, ShowUpdate, Counter!ShowPrint, Counter!ShowUpdate

\* The counts are numbers.
LEMMA CountTypes ==
  ASSUME QpsInv, Counter!TypeOK, LinkInv
  PROVE  /\ g[Show].syncCall \in Nat /\ g[Show].syncCallRep \in Nat
         /\ taken[Show].async \in Nat
         /\ Total(back) \in Nat /\ Total(answered) \in Nat
         /\ s_asyncRep \in Nat /\ m_times \in Int
<1>1. g[Show].syncCall \in Nat /\ g[Show].syncCallRep \in Nat /\ taken[Show].async \in Nat
  BY DEF Counter!TypeOK, Counter!Columns
<1>2. Total(back) \in Nat /\ Total(answered) \in Nat
  BY TotalIsNat DEF LinkInv, ServedInv
<1> QED
  BY <1>1, <1>2 DEF QpsInv, TypeOK

\* A tick or a start-up of qps_rpc_t counts nothing but may begin a round, with a clean
\* counter; m_times is only ever set before the first round.
LEMMA QpsStepKeeps ==
  ASSUME QpsInv, Counter!TypeOK, LinkInv, QpsStep
  PROVE  LinkInv'
<1>1. UNCHANGED <<g, taken, answered, cur, stale, calls, oks, back, logs, waits, at, reg>>
  BY DEF QpsStep, showVars, linkVars, OnStartup, OnInterruptcut, OnTick, OnTickSync,
         replyVars, syncVars
<1>2. LinkTypeOK' /\ ServedInv' /\ AskedInv'
  BY <1>1 DEF LinkInv, LinkTypeOK, ServedInv, AskedInv, Each, Total
<1>3. s_asyncRep' \in {0, s_asyncRep}
  BY DEF QpsStep, OnStartup, OnInterruptcut, OnTick, OnTickSync
<1>4. m_times' = m_times \/ \A k \in Rounds : logs[k] = 0
  <2>1. CASE OnStartup
    <3>1. \A k \in Rounds : k > round
      BY <2>1, RoundNumbers DEF OnStartup, QpsInv, AheadInv
    <3> QED
      BY <3>1 DEF QpsInv, AheadInv
  <2>2. CASE ~OnStartup
    BY <2>2 DEF QpsStep, OnInterruptcut, OnTick, OnTickSync
  <2> QED
    BY <2>1, <2>2
<1>5. Total(back)' = Total(back)
  BY <1>1 DEF Total, Each
<1>6. RateInv'
  BY <1>1, <1>3, <1>4, <1>5, CountTypes DEF LinkInv, RateInv
<1> QED
  BY <1>2, <1>6 DEF LinkInv

\* What is called is not yet counted.
LEMMA AskAsyncKeeps ==
  ASSUME LinkInv, AskAsync
  PROVE  LinkInv'
<1>1. /\ UNCHANGED <<g, taken, answered, cur, stale, calls, oks, back, logs, waits>>
      /\ UNCHANGED <<s_asyncRep, m_times, at, reg>>
  BY DEF AskAsync, CallAsync, showVars, linkVars, replyVars, syncVars
<1> QED
  BY <1>1 DEF LinkInv, LinkTypeOK, ServedInv, RateInv, AskedInv, Each, Total

\* A line of the log or the memory of it counts nothing.
LEMMA ShowStepKeeps ==
  ASSUME LinkInv, ShowPrint \/ ShowUpdate
  PROVE  LinkInv'
<1>1. UNCHANGED <<vars, linkVars, g, taken>>
  BY CountsNothing DEF ShowPrint, ShowUpdate
<1> QED
  BY <1>1 DEF vars, roundVars, replyVars, syncVars, linkVars, LinkInv, LinkTypeOK, ServedInv,
              RateInv, AskedInv, Each, Total

\* A request that is handled has its reply on the way.
LEMMA ServeAsyncKeeps ==
  ASSUME QpsInv, Counter!TypeOK, LinkInv, NEW k \in Rounds, ServeAsync(k)
  PROVE  LinkInv'
<1>1. /\ answered' = [answered EXCEPT ![k] = @ + 1]
      /\ Counter!OnAsync(Show)
      /\ UNCHANGED <<cur, stale, calls, oks, waits, s_asyncRep, m_times>>
      /\ UNCHANGED <<back, logs, at, reg>>
  BY DEF ServeAsync, vars, roundVars, replyVars, syncVars
<1>2. answered \in [Rounds -> Nat] /\ IsFiniteSet(Each(answered))
  BY DEF LinkInv, LinkTypeOK, ServedInv
<1>3. IsFiniteSet(Each(answered)') /\ Total(answered)' = Total(answered) + 1
  <2>1. IsFiniteSet(Each(answered')) /\ Total(answered') = Total(answered) + 1
    BY <1>1, <1>2, OneMore
  <2> QED
    BY <2>1 DEF Each, Total
<1>4. Each(back)' = Each(back) /\ Total(back)' = Total(back)
  BY <1>1 DEF Each, Total
<1>5. LinkTypeOK'
  BY <1>1, <1>2 DEF LinkInv, LinkTypeOK
<1>6. ServedInv'
  BY <1>1, <1>3, <1>4, CountsAsync, CountTypes DEF LinkInv, ServedInv
<1>7. RateInv'
  BY <1>1, <1>4 DEF LinkInv, RateInv
<1>8. AskedInv'
  BY <1>1, CountsAsync DEF LinkInv, AskedInv
<1> QED
  BY <1>5, <1>6, <1>7, <1>8 DEF LinkInv

\* A reply goes from one sum to the other, and its callback holds a count that the
\* replies before it account for.
LEMMA ReplyAsyncKeeps ==
  ASSUME QpsInv, Counter!TypeOK, LinkInv, NEW k \in Rounds, ReplyAsync(k)
  PROVE  LinkInv'
<1>0. PICK w \in Workers : ReplyRead(w, k)
  BY DEF ReplyAsync
<1>1. /\ answered[k] > 0
      /\ answered' = [answered EXCEPT ![k] = @ - 1]
      /\ back' = [back EXCEPT ![k] = @ + 1]
      /\ at' = [at EXCEPT ![w] = "read"]
      /\ reg' = [reg EXCEPT ![w] = s_asyncRep]
      /\ UNCHANGED <<g, taken, cur, stale, calls, oks, waits, m_times, s_asyncRep, logs>>
  BY <1>0 DEF ReplyAsync, ReplyRead, showVars, syncVars
<1>2. /\ answered \in [Rounds -> Nat] /\ IsFiniteSet(Each(answered))
      /\ back \in [Rounds -> Nat] /\ IsFiniteSet(Each(back))
      /\ at \in [Workers -> {"idle", "read", "written"}]
      /\ reg \in [Workers -> Nat]
  BY DEF QpsInv, TypeOK, LinkInv, LinkTypeOK, ServedInv
<1>3. IsFiniteSet(Each(answered)') /\ Total(answered)' = Total(answered) - 1
  <2>1. IsFiniteSet(Each(answered')) /\ Total(answered') = Total(answered) - 1
    BY <1>1, <1>2, OneFewer
  <2> QED
    BY <2>1 DEF Each, Total
<1>4. IsFiniteSet(Each(back)') /\ Total(back)' = Total(back) + 1
  <2>1. IsFiniteSet(Each(back')) /\ Total(back') = Total(back) + 1
    BY <1>1, <1>2, OneMore
  <2> QED
    BY <2>1 DEF Each, Total
<1>5. LinkTypeOK'
  BY <1>1, <1>2 DEF LinkInv, LinkTypeOK
<1>6. ServedInv'
  BY <1>1, <1>3, <1>4, CountTypes DEF LinkInv, ServedInv
<1>7. RateInv'
  <2>1. s_asyncRep <= Total(back)
    BY DEF LinkInv, RateInv
  <2>2. ASSUME NEW v \in Workers, at'[v] # "idle"
        PROVE  reg'[v] + 1 <= Total(back) + 1
    <3>1. CASE v = w
      BY <3>1, <2>1, <1>1, <1>2, CountTypes
    <3>2. CASE v # w
      BY <3>2, <2>2, <1>1, <1>2, CountTypes DEF LinkInv, RateInv
    <3> QED
      BY <3>1, <3>2
  <2>3. s_asyncRep' <= Total(back)'
    BY <2>1, <1>1, <1>4, CountTypes
  <2>4. \A v \in Workers : at'[v] # "idle" => reg'[v] + 1 <= Total(back)'
    BY <2>2, <1>4
  <2>5. (\E r \in Rounds : logs'[r] > 0) => m_times' <= Total(back)'
    BY <1>1, <1>4, CountTypes DEF LinkInv, RateInv
  <2> QED
    BY <2>3, <2>4, <2>5 DEF RateInv
<1>8. AskedInv'
  BY <1>1 DEF LinkInv, AskedInv
<1> QED
  BY <1>5, <1>6, <1>7, <1>8 DEF LinkInv

\* What a callback stores is accounted for, and the one that logs has seen m_times.
LEMMA GoOnAsyncKeeps ==
  ASSUME QpsInv, Counter!TypeOK, LinkInv, NEW w \in Workers, GoOnAsync(w)
  PROVE  LinkInv'
<1>1. /\ at[w] # "idle"
      /\ UNCHANGED <<g, taken, answered, cur, stale, calls, oks, back, waits, m_times>>
  BY DEF GoOnAsync, ReplyWrite, ReplyTest, ReplyEnd, showVars, linkVars, syncVars
<1>2. LinkTypeOK' /\ ServedInv' /\ AskedInv'
  BY <1>1 DEF LinkInv, LinkTypeOK, ServedInv, AskedInv, Each, Total
<1>3. Total(back)' = Total(back)
  BY <1>1 DEF Total, Each
<1>4. /\ at \in [Workers -> {"idle", "read", "written"}]
      /\ reg \in [Workers -> Nat]
  BY DEF QpsInv, TypeOK
<1>5. reg[w] + 1 <= Total(back) /\ s_asyncRep <= Total(back)
  BY <1>1 DEF LinkInv, RateInv
<1>6. RateInv'
  <2>1. CASE ReplyWrite(w)
    <3>1. /\ at' = [at EXCEPT ![w] = "written"]
          /\ s_asyncRep' = reg[w] + 1
          /\ UNCHANGED <<reg, logs>>
      BY <2>1 DEF ReplyWrite
    <3>2. \A v \in Workers : at'[v] # "idle" => at[v] # "idle"
      BY <3>1, <1>1, <1>4
    <3> QED
      BY <3>1, <3>2, <1>1, <1>3, <1>5 DEF LinkInv, RateInv
  <2>2. CASE ReplyTest(w)
    <3>1. PICK c \in {reg[w] + 1, s_asyncRep} : ReplyEnd(w, c = m_times)
      BY <2>2 DEF ReplyTest, Seen
    <3>2. /\ at' = [at EXCEPT ![w] = "idle"]
          /\ reg' = [reg EXCEPT ![w] = 0]
          /\ c # m_times => logs' = logs
          /\ UNCHANGED s_asyncRep
      BY <3>1 DEF ReplyEnd
    <3>3. c = m_times => m_times <= Total(back)
      BY <3>1, <1>5
    <3>4. ASSUME NEW v \in Workers, at'[v] # "idle"
          PROVE  at[v] # "idle" /\ reg'[v] = reg[v]
      BY <3>4, <3>2, <1>4
    <3> QED
      BY <3>2, <3>3, <3>4, <1>1, <1>3 DEF LinkInv, RateInv
  <2> QED
    BY <2>1, <2>2 DEF GoOnAsync
<1> QED
  BY <1>2, <1>6 DEF LinkInv

\* Only who does not wait makes a synchronous call, so it is the only one.
LEMMA AskSyncKeeps ==
  ASSUME QpsInv, Counter!TypeOK, LinkInv, AskSync
  PROVE  LinkInv'
<1>1. /\ ~waits /\ waits' = TRUE
      /\ calls' = calls + 1 /\ cur' = "asked"
      /\ UNCHANGED <<g, taken, answered, stale, oks, s_asyncRep, m_times>>
      /\ UNCHANGED <<back, logs, at, reg>>
  BY DEF AskSync, SyncCall, showVars, replyVars
<1>2. cur = "none"
  BY <1>1 DEF LinkInv, AskedInv
<1>3. LinkTypeOK' /\ ServedInv' /\ RateInv'
  BY <1>1 DEF LinkInv, LinkTypeOK, ServedInv, RateInv, Each, Total
<1>4. AskedInv'
  BY <1>1, <1>2, CountTypes DEF LinkInv, LinkTypeOK, AskedInv
<1> QED
  BY <1>3, <1>4 DEF LinkInv

\* A synchronous request is handled once, whether its caller still waits or has gone.
LEMMA ServeSyncKeeps ==
  ASSUME QpsInv, Counter!TypeOK, LinkInv, ServeSync
  PROVE  LinkInv'
<1>1. /\ Counter!OnSync(Show)
      /\ UNCHANGED <<answered, calls, oks, waits, s_asyncRep, m_times>>
      /\ UNCHANGED <<back, logs, at, reg>>
  BY DEF ServeSync, vars, roundVars, replyVars, syncVars
<1>2. \/ cur = "asked" /\ cur' = "answered" /\ stale' = stale
      \/ stale > 0 /\ stale' = stale - 1 /\ cur' = cur
  BY DEF ServeSync
<1>3. LinkTypeOK'
  BY <1>1, <1>2 DEF LinkInv, LinkTypeOK
<1>4. ServedInv' /\ RateInv'
  BY <1>1, CountsSync DEF LinkInv, ServedInv, RateInv, Each, Total
<1>5. AskedInv'
  BY <1>1, <1>2, CountsSync, CountTypes DEF LinkInv, LinkTypeOK, AskedInv
<1> QED
  BY <1>3, <1>4, <1>5 DEF LinkInv

\* A call that is given up leaves its request behind, if that was not handled.
LEMMA GoOnSyncKeeps ==
  ASSUME QpsInv, Counter!TypeOK, LinkInv, GoOnSync
  PROVE  LinkInv'
<1>1. /\ waits /\ waits' = FALSE /\ cur' = "none"
      /\ UNCHANGED <<g, taken, answered, calls, s_asyncRep, m_times>>
      /\ UNCHANGED <<back, logs, at, reg>>
  BY DEF GoOnSync, SyncReturn, showVars, replyVars
<1>2. \/ cur = "answered" /\ oks' = oks + 1 /\ stale' = stale
      \/ oks' = oks /\ stale' = IF cur = "asked" THEN stale + 1 ELSE stale
  BY DEF GoOnSync
<1>3. LinkTypeOK'
  BY <1>1, <1>2 DEF LinkInv, LinkTypeOK
<1>4. ServedInv' /\ RateInv'
  BY <1>1 DEF LinkInv, ServedInv, RateInv, Each, Total
<1>5. AskedInv'
  BY <1>1, <1>2, CountTypes DEF LinkInv, LinkTypeOK, AskedInv
<1> QED
  BY <1>3, <1>4, <1>5 DEF LinkInv

\* Whatever happens in the load test keeps the counts of the link.
LEMMA LinkStep ==
  ASSUME QpsInv, Counter!TypeOK, LinkInv, [LoadNext]_loadVars
  PROVE  LinkInv'
<1>1. CASE UNCHANGED loadVars
  BY <1>1 DEF loadVars, vars, roundVars, replyVars, syncVars, showVars, linkVars, LinkInv,
              LinkTypeOK, ServedInv, RateInv, AskedInv, Each, Total
<1>2. CASE LoadNext
  BY <1>2, QpsStepKeeps, AskAsyncKeeps, ShowStepKeeps, ServeAsyncKeeps, ReplyAsyncKeeps,
     GoOnAsyncKeeps, AskSyncKeeps, ServeSyncKeeps, GoOnSyncKeeps DEF LoadNext
<1> QED
  BY <1>1, <1>2

\* The invariant of the load test.
THEOREM LinkInductive == LoadSpec => [](QpsInv /\ Counter!TypeOK /\ LinkInv)
<1>1. QpsInv /\ Counter!TypeOK /\ LinkInv /\ [LoadNext]_loadVars => LinkInv'
  BY LinkStep
<1> QED
  BY <1>1, LinkInit, PartsSound, PTL DEF LoadSpec

\* The two ends of the test count the same calls, however late their messages and
\* however many are lost or given up: no reply without a request that was handled, and
\* no request handled twice (qps_rpc.hpp, lines 82-90 and 108-113; show_rpc.hpp, lines 32-37).
THEOREM SameAtBothEnds == LoadSpec => []EndsAgree
<1>1. QpsInv /\ Counter!TypeOK /\ LinkInv => EndsAgree
  <2> SUFFICES ASSUME QpsInv, Counter!TypeOK, LinkInv PROVE EndsAgree
    OBVIOUS
  <2>1. g[Show].syncCallRep = Total(back) + Total(answered)
    BY DEF LinkInv, ServedInv
  <2>2. oks <= g[Show].syncCall /\ g[Show].syncCall <= calls - stale
    BY CountTypes DEF LinkInv, LinkTypeOK, AskedInv
  <2> QED
    BY <2>1, <2>2 DEF EndsAgree
<1> QED
  BY <1>1, LinkInductive, PTL

\* The line a round logs (qps_rpc.hpp, lines 85-88) has m_times handled requests behind
\* it at least, although replies of other rounds may be among them; and this whichever
\* threads run the callbacks, for a count that is lost is only a line too late or none.
THEOREM RateWasHandled == LoadSpec => []LoggedMeansHandled
<1>1. QpsInv /\ Counter!TypeOK /\ LinkInv => LoggedMeansHandled
  <2> SUFFICES ASSUME QpsInv, Counter!TypeOK, LinkInv PROVE LoggedMeansHandled
    OBVIOUS
  <2> QED
    BY CountTypes DEF LinkInv, ServedInv, RateInv, LoggedMeansHandled
<1> QED
  BY <1>1, LinkInductive, PTL
=============================================================================
