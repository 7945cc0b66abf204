------------------------------ MODULE QueueRw ------------------------------
(***************************************************************************)
(* queue_rw_t of base/queue_write_read.h, the mailbox of every actor       *)
(* (actor_t::m_datas): two deques and a counter.  Any thread may push into *)
(* m_queueWrite under m_mutexWrite; one thread, the Consumer, pulls.  A    *)
(* pull looks at m_queueRead and at m_sizeWrite WITHOUT the lock, and only *)
(* when its own deque is empty and the counter positive does it lock and   *)
(* swap the deques.  It then hands messages one at a time to a callback    *)
(* that runs outside the lock and may itself push (an actor that sends to  *)
(* itself).                                                                *)
(*                                                                         *)
(* Every access to shared memory is a step of its own.  m_sizeWrite is a   *)
(* plain int read without the lock; what the build can give that read is   *)
(* the value before or after a concurrent update, which is what the        *)
(* interleaving of PullCheck with PushSize gives it.                       *)
(***************************************************************************)
EXTENDS Integers, Sequences, FiniteSets

CONSTANTS
  Producers,    \* the threads that only push
  Consumer,     \* the one thread that pulls; its callback may push too
  NoThread,     \* the holder of a free mutex
  Data,         \* the messages
  MaxPush       \* bound: pushes in one behaviour

ASSUME QueueAssumption ==
  /\ Consumer \notin Producers
  /\ NoThread \notin Producers \cup {Consumer}
  /\ MaxPush \in Nat

Threads == Producers \cup {Consumer}

VARIABLES
  alive,         \* FALSE once ~queue_rw_t ran
  m_mutexWrite,  \* the thread that holds the lock, or NoThread
  m_sizeWrite,
  m_queueWrite,
  m_queueRead,
  pushPc,        \* where each thread is in push()
  arg,           \* the message each thread's push() was given
  pullPc,        \* where the Consumer is in pull()
  one,           \* TRUE in pull(xx_t&), whose callback always stops the loop
  pushed,        \* history: every message, in the order of emplace_back
  delivered,     \* history: every message given to the callback, in order
  mark           \* history: what the running pull() could count on

lockVars  == <<alive, m_mutexWrite>>
queueVars == <<m_sizeWrite, m_queueWrite, m_queueRead>>
pushVars  == <<pushPc, arg, pushed>>
pullVars  == <<pullPc, one, delivered, mark>>
vars == <<lockVars, queueVars, pushVars, pullVars>>

PushPcs == {"idle", "lock", "emplace", "size", "unlock"}
PullPcs == {"idle", "check", "lock", "zero", "swap", "unlock", "loop", "fun"}
Marks   == [ready : Int, from : Nat, self : Nat]

TypeOK ==
  /\ alive \in BOOLEAN
  /\ m_mutexWrite \in Threads \cup {NoThread}
  /\ m_sizeWrite \in Nat
  /\ m_queueWrite \in Seq(Data)
  /\ m_queueRead \in Seq(Data)
  /\ pushPc \in [Threads -> PushPcs]
  /\ arg \in [Threads -> Data]
  /\ pullPc \in PullPcs
  /\ one \in BOOLEAN
  /\ pushed \in Seq(Data)
  /\ delivered \in Seq(Data)
  /\ mark \in Marks

Init ==
  /\ alive = TRUE
  /\ m_mutexWrite = NoThread
  /\ m_sizeWrite = 0
  /\ m_queueWrite = <<>>
  /\ m_queueRead = <<>>
  /\ pushPc = [t \in Threads |-> "idle"]
  /\ arg \in [Threads -> Data]
  /\ pullPc = "idle"
  /\ one = FALSE
  /\ pushed = <<>>
  /\ delivered = <<>>
  /\ mark = [ready |-> 0, from |-> 0, self |-> 0]

-----------------------------------------------------------------------------
(* The lock (base/lock.h, CLockStdMutex; CLockAtomicflag spins to the same *)
(* effect).  It is not recursive: its holder waits for itself.             *)

Acquire(t) == m_mutexWrite = NoThread /\ m_mutexWrite' = t
Release(t) == m_mutexWrite = t /\ m_mutexWrite' = NoThread

(* push(xx), by any thread.                                                *)

PushTo(t, from, to) ==
  /\ pushPc[t] = from
  /\ pushPc' = [pushPc EXCEPT ![t] = to]

\* A push that has reached emplace_back but not returned.
InPush == {t \in Threads : pushPc[t] # "idle"}
Emplaced == {t \in Threads : pushPc[t] \in {"size", "unlock"}}

\* The Consumer pushes between pulls or inside the callback of pull(fun); the
\* callback of pull(xx) only copies.
PushCall(t, d) ==
  /\ alive
  /\ Len(pushed) + Cardinality(InPush \ Emplaced) < MaxPush
  /\ t = Consumer => pullPc = "idle" \/ (pullPc = "fun" /\ ~one)
  /\ PushTo(t, "idle", "lock")
  /\ arg' = [arg EXCEPT ![t] = d]
  /\ UNCHANGED <<lockVars, queueVars, pushed, pullVars>>

PushLock(t) ==
  /\ PushTo(t, "lock", "emplace")
  /\ Acquire(t)
  /\ UNCHANGED <<alive, queueVars, arg, pushed, pullVars>>

\* mark.self: the first message of the running pull's own callback.
PushEmplace(t) ==
  /\ PushTo(t, "emplace", "size")
  /\ m_queueWrite' = Append(m_queueWrite, arg[t])
  /\ pushed' = Append(pushed, arg[t])
  /\ mark' = [mark EXCEPT !.self =
                IF t = Consumer /\ pullPc = "fun" /\ @ = 0 THEN Len(pushed) + 1 ELSE @]
  /\ UNCHANGED <<lockVars, m_sizeWrite, m_queueRead, arg, pullPc, one, delivered>>

\* Seeded fault: the counter forgets the message.
PushSize_Missing(t) ==
  /\ PushTo(t, "size", "unlock")
  /\ UNCHANGED <<lockVars, queueVars, arg, pushed, pullVars>>

\* Seeded fault: the counter goes the wrong way.
PushSize_Minus(t) ==
  /\ PushTo(t, "size", "unlock")
  /\ m_sizeWrite' = m_sizeWrite - 1
  /\ UNCHANGED <<lockVars, m_queueWrite, m_queueRead, arg, pushed, pullVars>>

PushSize(t) ==
  /\ PushTo(t, "size", "unlock")
  /\ m_sizeWrite' = m_sizeWrite + 1
  /\ UNCHANGED <<lockVars, m_queueWrite, m_queueRead, arg, pushed, pullVars>>

PushUnlock(t) ==
  /\ PushTo(t, "unlock", "idle")
  /\ Release(t)
  /\ UNCHANGED <<alive, queueVars, arg, pushed, pullVars>>

Push(t) == PushLock(t) \/ PushEmplace(t) \/ PushSize(t) \/ PushUnlock(t)

-----------------------------------------------------------------------------
(* pull(fun) and pull(xx), by the Consumer.                                *)

PullTo(from, to) == pullPc = from /\ pullPc' = to

\* Pushes that have returned: all but the one that may be on its way out.
Completed == IF Emplaced = {} THEN Len(pushed) ELSE Len(pushed) - 1

PullCall ==
  /\ alive
  /\ pushPc[Consumer] = "idle"
  /\ PullTo("idle", "check")
  /\ one' \in BOOLEAN
  /\ mark' = [ready |-> Completed, from |-> Len(delivered), self |-> 0]
  /\ UNCHANGED <<lockVars, queueVars, pushVars, delivered>>

\* The unlocked test of the if: is there anything to swap in?
CheckWith(mustSwap) ==
  /\ PullTo("check", IF mustSwap THEN "lock" ELSE "loop")
  /\ UNCHANGED <<lockVars, queueVars, pushVars, one, delivered, mark>>

\* Seeded fault: the test forgets that m_queueRead may hold older messages.
PullCheck_IgnoreRead == CheckWith(m_sizeWrite > 0)

\* Seeded fault: off by one, a lone message is not seen.
PullCheck_OffByOne == CheckWith(m_queueRead = <<>> /\ m_sizeWrite > 1)

PullCheck == CheckWith(m_queueRead = <<>> /\ m_sizeWrite > 0)

\* Seeded fault: the swap does not wait for a pusher to leave.
PullLock_NoWait ==
  /\ PullTo("lock", "zero")
  /\ UNCHANGED <<lockVars, queueVars, pushVars, one, delivered, mark>>

PullLock ==
  /\ PullTo("lock", "zero")
  /\ Acquire(Consumer)
  /\ UNCHANGED <<alive, queueVars, pushVars, one, delivered, mark>>

PullZero ==
  /\ PullTo("zero", "swap")
  /\ m_sizeWrite' = 0
  /\ UNCHANGED <<lockVars, m_queueWrite, m_queueRead, pushVars, one, delivered, mark>>

PullSwap ==
  /\ PullTo("swap", "unlock")
  /\ m_queueRead' = m_queueWrite
  /\ m_queueWrite' = m_queueRead
  /\ UNCHANGED <<lockVars, m_sizeWrite, pushVars, one, delivered, mark>>

PullUnlock ==
  /\ PullTo("unlock", "loop")
  /\ Release(Consumer)
  /\ UNCHANGED <<alive, queueVars, pushVars, one, delivered, mark>>

\* front(), pop_front() and the call of fun: all of it the Consumer's own.
PullFront ==
  /\ m_queueRead # <<>>
  /\ PullTo("loop", "fun")
  /\ delivered' = Append(delivered, Head(m_queueRead))
  /\ m_queueRead' = Tail(m_queueRead)
  /\ UNCHANGED <<lockVars, m_sizeWrite, m_queueWrite, pushVars, one, mark>>

\* fun returned; non-zero (always, in pull(xx)) or an exception ends the loop.
PullReturn ==
  /\ pushPc[Consumer] = "idle"
  /\ \/ ~one /\ PullTo("fun", "loop")
     \/ PullTo("fun", "idle")
  /\ UNCHANGED <<lockVars, queueVars, pushVars, one, delivered, mark>>

\* Seeded fault: an empty m_queueRead sends the loop back to look for more.
PullDone_Again ==
  /\ m_queueRead = <<>>
  /\ PullTo("loop", IF m_sizeWrite > 0 THEN "check" ELSE "idle")
  /\ UNCHANGED <<lockVars, queueVars, pushVars, one, delivered, mark>>

PullDone ==
  /\ m_queueRead = <<>>
  /\ PullTo("loop", "idle")
  /\ UNCHANGED <<lockVars, queueVars, pushVars, one, delivered, mark>>

PullStep ==
  \/ PullCheck \/ PullLock \/ PullZero \/ PullSwap \/ PullUnlock
  \/ PullFront \/ PullReturn \/ PullDone

-----------------------------------------------------------------------------
(* empty() and size(): reads without the lock, which change nothing.       *)

\* Seeded fault: size() forgets what the last swap brought in.
Size_WriteOnly == m_sizeWrite

Size == Len(m_queueRead) + m_sizeWrite

Empty == m_queueRead = <<>> /\ m_sizeWrite <= 0

-----------------------------------------------------------------------------
\* ~queue_rw_t: C++ lifetime rules keep every thread out of a dying queue.
Destroy ==
  /\ alive
  /\ InPush = {}
  /\ pullPc = "idle"
  /\ alive' = FALSE
  /\ m_queueRead' = <<>>
  /\ m_queueWrite' = <<>>
  /\ m_sizeWrite' = 0
  /\ UNCHANGED <<m_mutexWrite, pushVars, pullVars>>

\* A destroyed queue does nothing more; this is not a deadlock.
Destroyed == ~alive /\ UNCHANGED vars

Next ==
  \/ \E t \in Threads, d \in Data : PushCall(t, d)
  \/ \E t \in Threads : Push(t)
  \/ PullCall
  \/ PullStep
  \/ Destroy
  \/ Destroyed

\* Threads that are inside push() or pull() go on, a callback returns, and the
\* owner's coroutine comes back to poll its mailbox.  Nobody has to push.
Fairness ==
  /\ \A t \in Threads : WF_vars(Push(t))
  /\ WF_vars(PullCall)
  /\ WF_vars(PullStep)

Spec == Init /\ [][Next]_vars
FairSpec == Spec /\ Fairness
-----------------------------------------------------------------------------
(* What makes the queue correct.                                           *)

PushesUnderLock(t) == pushPc[t] \in {"emplace", "size", "unlock"}
PullsUnderLock == pullPc \in {"zero", "swap", "unlock"}

LockInv ==
  /\ \A t \in Producers : m_mutexWrite = t <=> PushesUnderLock(t)
  /\ m_mutexWrite = Consumer <=> PushesUnderLock(Consumer) \/ PullsUnderLock
  /\ pushPc[Consumer] # "idle" => pullPc \in {"idle", "fun"}

SizeInv ==
  LET counted == IF \E t \in Threads : pushPc[t] = "size" THEN m_sizeWrite + 1
                                                         ELSE m_sizeWrite
  IN  /\ pullPc = "swap" => m_sizeWrite = 0
      /\ pullPc # "swap" => counted = Len(m_queueWrite)

SwapInv ==
  /\ pullPc \in {"lock", "zero", "swap"} => m_queueRead = <<>>
  /\ pullPc \in {"lock", "zero"} => m_sizeWrite > 0
  /\ pullPc = "swap" => m_queueWrite # <<>>

LifeInv == ~alive => pullPc = "idle" /\ InPush = {}

\* The two deques are only touched under the rules of the lock: a thread that
\* is between lock and unlock holds the mutex and is the only one there; the
\* counter is what m_queueWrite holds, except inside a critical section; and
\* the swap happens only with m_queueRead empty and m_queueWrite not, although
\* the decision to swap was taken without the lock (lines 77-81).  Nobody is inside a
\* queue that is gone.
QueueInv == LockInv /\ SizeInv /\ SwapInv /\ LifeInv

\* Nothing is lost, duplicated or reordered: what the callback got, followed by
\* the two deques, is what was pushed, in the order the lock gave (push, pull).
FifoConserved == alive => delivered \o m_queueRead \o m_queueWrite = pushed

\* pull() never misses work although it looks without the lock: if some push
\* had returned before pull() was called and its message was still waiting,
\* this pull() hands over at least one message before it returns.
PullServesCompleted ==
  [][(pullPc # "idle" /\ pullPc' = "idle" /\ mark.ready > mark.from)
        => Len(delivered) > mark.from]_vars

\* A callback that sends to its own actor does not feed the loop it runs in: its
\* messages wait for a later pull(), so a pull() always comes to an end.
SelfSendDeferred ==
  pullPc # "idle" /\ mark.self > 0 => Len(delivered) < mark.self

\* Why SelfSendDeferred holds: what the loop can still reach ends before the
\* first message its callback sent.
SelfInv ==
  pullPc # "idle" /\ mark.self > 0
    => pullPc \in {"loop", "fun"} /\ Len(delivered) + Len(m_queueRead) < mark.self

\* Why PullServesCompleted holds: a pull() with work waiting has handed some of it
\* over, or sees it in its own deque or in the counter.
ServeInv ==
  pullPc # "idle" /\ mark.ready > mark.from
    => \/ Len(delivered) > mark.from /\ pullPc \in {"loop", "fun"}
       \/ /\ Len(delivered) = mark.from /\ pullPc # "fun"
          /\ pullPc = "check" => m_queueRead # <<>> \/ m_sizeWrite > 0
          /\ pullPc \in {"unlock", "loop"} => m_queueRead # <<>>

\* The owner can trust size() and empty(), between pulls and in a callback: they
\* count every message whose push has returned and none that was not pushed,
\* although pushers are at work.  (To another thread they may show nothing in the
\* middle of a swap.)
SizeToOwner ==
  alive /\ pullPc \in {"idle", "fun"}
    => /\ Completed <= Len(delivered) + Size
       /\ Len(delivered) + Size <= Len(pushed)
       /\ Empty <=> Size = 0

\* queue_rw_t implements the mailbox: emplace_back is the send, pop_front the
\* delivery, and the two deques in a row are the channel.
MB == INSTANCE Mailbox WITH open <- alive,
                            chan <- m_queueRead \o m_queueWrite,
                            got  <- delivered
MailboxSpec == MB!Spec
MailboxFairSpec == MB!FairSpec

\* Every message pushed is handed to the callback, in its turn, unless the queue
\* is destroyed first: no wake-up is lost to the unlocked reads of pull().
EventuallyDelivered ==
  \A k \in 1..MaxPush : Len(pushed) >= k ~> (Len(delivered) >= k \/ ~alive)
=============================================================================
