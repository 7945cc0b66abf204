------------------------------ MODULE AsyncLog ------------------------------
(***************************************************************************)
(* The asynchronous loggers of spdlog (log.h points to them): threads that *)
(* log post messages to a thread pool; its workers write them.  Between    *)
(* them is a ring buffer behind one mutex and two condition variables      *)
(* (mpmc_blocking_queue, circular_q).  A thread that posts waits for room, *)
(* or overruns the oldest message.  The destructor of the pool posts one   *)
(* terminate message for each worker and joins them.                       *)
(*                                                                         *)
(* What is done with the mutex held is one step; the mutex is free again   *)
(* before notify_one.  Flush messages, which go the same way and write     *)
(* nothing, and the levels of sinks are left out.                          *)
(***************************************************************************)
EXTENDS Integers, Sequences, FiniteSets

CONSTANTS
  Blocking,     \* the threads that log with policy block
  Overrunning,  \* those that log with policy overrun_oldest
  Workers,      \* the threads of the pool
  Dtor,         \* the thread that destroys the pool
  MaxItems,     \* the max_items the queue was asked for
  MaxPosts      \* bound: messages each thread logs

Loggers == Blocking \cup Overrunning
Posters == Loggers \cup {Dtor}

\* The threads are different ones; a pool of no workers is refused (thread_pool-inl.h,
\* line 19).
ASSUME AsyncAssumption ==
  /\ Blocking \cap Overrunning = {} /\ Dtor \notin Loggers
  /\ Workers # {} /\ Workers \cap Posters = {}
  /\ IsFiniteSet(Loggers) /\ IsFiniteSet(Workers)
  /\ MaxItems \in Nat \ {0}
  /\ MaxPosts \in Nat

max_items_ == MaxItems + 1
MaxId == Cardinality(Loggers) * MaxPosts + Cardinality(Workers)
NoMsg == [id |-> 0, type |-> "none"]
Messages == [id : 1..MaxId, type : {"log", "terminate"}]

VARIABLES
  head_, tail_, v_, overrun_counter_,   \* circular_q
  pc,           \* where each thread is; "wait": inside the wait of its condition variable
  msg,          \* the message each worker holds
  alive,        \* somebody holds the thread pool
  sent,         \* how often each thread has posted
  pushed,       \* history: messages pushed so far; the id of the last one
  written,      \* history: the ids of the log messages written, in that order
  ended         \* history: the ids of the terminate messages workers took

ringVars == <<head_, tail_, v_, overrun_counter_, pushed>>
workVars == <<msg, written, ended>>
vars == <<ringVars, workVars, pc, alive, sent>>

TypeOK ==
  /\ head_ \in 0..MaxItems /\ tail_ \in 0..MaxItems
  /\ v_ \in [0..MaxItems -> Messages \cup {NoMsg}]
  /\ overrun_counter_ \in Nat
  /\ \A t \in Posters : pc[t] \in {"idle", "enqueue", "wait", "notify", "done"}
  /\ \A w \in Workers : pc[w] \in {"dequeue", "wait", "notify", "process", "over"}
  /\ msg \in [Workers -> Messages \cup {NoMsg}]
  /\ alive \in BOOLEAN
  /\ sent \in [Posters -> Nat]
  /\ pushed \in 0..MaxId
  /\ written \in Seq(1..MaxId)
  /\ ended \subseteq 1..MaxId

Init ==
  /\ head_ = 0 /\ tail_ = 0
  /\ v_ = [k \in 0..MaxItems |-> NoMsg]
  /\ overrun_counter_ = 0
  /\ pc = [t \in Posters \cup Workers |-> IF t \in Workers THEN "dequeue" ELSE "idle"]
  /\ msg = [w \in Workers |-> NoMsg]
  /\ alive = TRUE
  /\ sent = [t \in Posters |-> 0]
  /\ pushed = 0
  /\ written = <<>>
  /\ ended = {}

GoTo(t, from, to) == pc[t] = from /\ pc' = [pc EXCEPT ![t] = to]

-----------------------------------------------------------------------------
(* The ring buffer.                                                        *)

Empty == tail_ = head_

Full == (tail_ + 1) % max_items_ = head_

Size == IF tail_ >= head_ THEN tail_ - head_ ELSE max_items_ - (head_ - tail_)

\* Seeded fault: at an overrun head_ stays.
PushBack_HeadStays(m) ==
  /\ v_' = [v_ EXCEPT ![tail_] = m]
  /\ tail_' = (tail_ + 1) % max_items_
  /\ UNCHANGED <<head_, overrun_counter_>>

\* Seeded fault: the newest message makes room, not the oldest.
PushBack_Newest(m) ==
  LET at == IF Full THEN (tail_ + max_items_ - 1) % max_items_ ELSE tail_ IN
  /\ v_' = [v_ EXCEPT ![at] = m]
  /\ tail_' = (at + 1) % max_items_
  /\ overrun_counter_' = IF Full THEN overrun_counter_ + 1 ELSE overrun_counter_
  /\ UNCHANGED head_

\* push_back: when tail_ meets head_, the oldest message is overrun.
PushBack(m) ==
  /\ v_' = [v_ EXCEPT ![tail_] = m]
  /\ tail_' = (tail_ + 1) % max_items_
  /\ IF tail_' = head_
     THEN head_' = (head_ + 1) % max_items_ /\ overrun_counter_' = overrun_counter_ + 1
     ELSE UNCHANGED <<head_, overrun_counter_>>

PopFront ==
  /\ head_' = (head_ + 1) % max_items_
  /\ UNCHANGED <<tail_, v_, overrun_counter_, pushed>>

-----------------------------------------------------------------------------
(* Posting.                                                                *)

\* sink_it_: the pool is locked (weak_ptr) for the time of the post.
Log(t) ==
  /\ t \in Loggers /\ alive /\ sent[t] < MaxPosts
  /\ GoTo(t, "idle", "enqueue")
  /\ sent' = [sent EXCEPT ![t] = @ + 1]
  /\ UNCHANGED <<ringVars, workVars, alive>>

\* The last owner of the pool lets go of it.
Release ==
  /\ alive
  /\ alive' = FALSE
  /\ UNCHANGED <<ringVars, workVars, pc, sent>>

Destroying == ~alive /\ \A t \in Loggers : pc[t] = "idle"

\* Seeded fault: one terminate message for all the workers.
Terminates_One == 1

Terminates == Cardinality(Workers)

\* ~thread_pool, one turn of its first loop.
Terminate ==
  /\ Destroying
  /\ sent[Dtor] < Terminates
  /\ GoTo(Dtor, "idle", "enqueue")
  /\ sent' = [sent EXCEPT ![Dtor] = @ + 1]
  /\ UNCHANGED <<ringVars, workVars, alive>>

\* post_async_msg_: the destructor's messages wait for room, too.
Waits(t) == t \in Blocking \cup {Dtor}

\* enqueue and enqueue_nowait, with the mutex held.
Enqueue(t) ==
  /\ ~(Waits(t) /\ Full)
  /\ GoTo(t, "enqueue", "notify")
  /\ pushed' = pushed + 1
  /\ PushBack([id |-> pushed', type |-> IF t = Dtor THEN "terminate" ELSE "log"])
  /\ UNCHANGED <<workVars, alive, sent>>

WaitForRoom(t) ==
  /\ Waits(t) /\ Full
  /\ GoTo(t, "enqueue", "wait")
  /\ UNCHANGED <<ringVars, workVars, alive, sent>>

\* notify_one: one of those that wait goes on and looks again, if there is one.
NotifyOne(t, next, sleepers, again) ==
  LET asleep == {s \in sleepers : pc[s] = "wait"} IN
  /\ pc[t] = "notify"
  /\ IF asleep = {} THEN pc' = [pc EXCEPT ![t] = next]
     ELSE \E s \in asleep : pc' = [pc EXCEPT ![t] = next, ![s] = again]
  /\ UNCHANGED <<ringVars, workVars, alive, sent>>

\* push_cv_.notify_one()
NotifyPush(t) == t \in Posters /\ NotifyOne(t, "idle", Workers, "dequeue")

-----------------------------------------------------------------------------
(* The workers.                                                            *)

\* dequeue_for with the mutex held.
Dequeue(w) ==
  /\ ~Empty
  /\ GoTo(w, "dequeue", "notify")
  /\ msg' = [msg EXCEPT ![w] = v_[head_]]
  /\ PopFront
  /\ UNCHANGED <<written, ended, alive, sent>>

WaitForMessage(w) ==
  /\ Empty
  /\ GoTo(w, "dequeue", "wait")
  /\ UNCHANGED <<ringVars, workVars, alive, sent>>

\* The wait ends after 10 s; worker_loop_ begins again.
TimedOut(w) ==
  /\ GoTo(w, "wait", "dequeue")
  /\ UNCHANGED <<ringVars, workVars, alive, sent>>

\* Seeded fault: nobody is told that there is room.
NotifyPop_Nobody(w) ==
  /\ GoTo(w, "notify", "process")
  /\ UNCHANGED <<ringVars, workVars, alive, sent>>

\* pop_cv_.notify_one()
NotifyPop(w) == w \in Workers /\ NotifyOne(w, "process", Posters, "enqueue")

\* process_next_msg_ after dequeue_for.
Process(w) ==
  /\ msg' = [msg EXCEPT ![w] = NoMsg]
  /\ IF msg[w].type = "terminate"
     THEN /\ GoTo(w, "process", "over")
          /\ ended' = ended \cup {msg[w].id}
          /\ UNCHANGED written
     ELSE /\ GoTo(w, "process", "dequeue")
          /\ written' = Append(written, msg[w].id)
          /\ UNCHANGED ended
  /\ UNCHANGED <<ringVars, alive, sent>>

\* Seeded fault: the workers are not joined.
Join_Not ==
  /\ Destroying /\ sent[Dtor] = Terminates
  /\ GoTo(Dtor, "idle", "done")
  /\ UNCHANGED <<ringVars, workVars, alive, sent>>

\* ~thread_pool, its second loop.
Join ==
  /\ Destroying /\ sent[Dtor] = Terminates
  /\ \A w \in Workers : pc[w] = "over"
  /\ GoTo(Dtor, "idle", "done")
  /\ UNCHANGED <<ringVars, workVars, alive, sent>>

Next ==
  \/ \E t \in Loggers : Log(t)
  \/ Release \/ Terminate \/ Join
  \/ \E t \in Posters : Enqueue(t) \/ WaitForRoom(t) \/ NotifyPush(t)
  \/ \E w \in Workers : Dequeue(w) \/ WaitForMessage(w) \/ TimedOut(w)
                          \/ NotifyPop(w) \/ Process(w)

\* Threads go on; who wants the mutex again and again gets it; the clock goes on.
\* Nobody has to log, nor to let go of the pool.
Fairness ==
  /\ WF_vars(Terminate) /\ WF_vars(Join)
  /\ \A t \in Posters : SF_vars(Enqueue(t)) /\ WF_vars(WaitForRoom(t)) /\ WF_vars(NotifyPush(t))
  /\ \A w \in Workers :
       /\ SF_vars(Dequeue(w)) /\ WF_vars(WaitForMessage(w)) /\ WF_vars(TimedOut(w))
       /\ WF_vars(NotifyPop(w)) /\ WF_vars(Process(w))

Spec == Init /\ [][Next]_vars
FairSpec == Spec /\ Fairness
-----------------------------------------------------------------------------
Queue == [k \in 1..Size |-> v_[(head_ + k - 1) % max_items_]]
Queued == {Queue[k].id : k \in 1..Size}
Held == {msg[w].id : w \in Workers} \ {0}
Written == {written[k] : k \in 1..Len(written)}
Lost == (1..pushed) \ (Queued \cup Held \cup Written \cup ended)

\* Every message pushed is in one place: in the ring, with one worker, written once,
\* or overrun and counted.
Conserved ==
  /\ Cardinality(Queued) = Size /\ Cardinality(Written) = Len(written)
  /\ Queued \cap (Held \cup Written) = {} /\ Held \cap Written = {}
  /\ Cardinality(Lost) = overrun_counter_

\* async_logger.h, lines 14 and 15, and thread_pool-inl.h, lines 37-53: the destructor
\* ends when the workers have, each by one terminate message that nothing overran, and
\* everything that was posted and not overrun is in the log.
DrainedAtExit ==
  pc[Dtor] = "done" =>
    /\ Size = 0 /\ Held = {}
    /\ Cardinality(ended) = Cardinality(Workers)
    /\ Len(written) + overrun_counter_ = pushed - Cardinality(Workers)

\* What the workers have in hand or have written was pushed before what is in the
\* ring, and before what was lost later: only the oldest is ever lost.
InOrder ==
  /\ \A k \in Held \cup Written \cup ended \cup Lost, j \in Queued : k < j
  /\ \A k \in 2..Size : Queue[k - 1].id < Queue[k].id

\* The ring and the workers, in order and complete.
LogInv == TypeOK /\ Conserved /\ InOrder

\* The threads of a set that are at a place of their code, and how many they are.
At(threads, place) == {t \in threads : pc[t] = place}
Many(threads, place) == Cardinality(At(threads, place))
Asleep(threads) == \E t \in threads : pc[t] = "wait"

\* While somebody sleeps for room, each free slot has a worker that is about to notify, or
\* somebody that is about to look for room.
RoomIsKnown ==
  Asleep(Posters) =>
    MaxItems - Size <= Many(Workers, "notify") + Many(Posters, "enqueue")

\* And while a worker sleeps, each message somebody that notifies or a worker that looks.
MessagesAreKnown ==
  Asleep(Workers) =>
    Size <= Many(Posters, "notify") + Many(Workers, "dequeue")

\* mpmc_blocking_q.h, lines 32-70: no wake-up is lost, though it comes after the mutex is
\* free, goes to one sleeper, and others may be faster.
NoLostWakeUp == RoomIsKnown /\ MessagesAreKnown

\* The ring is a LogQueue although it keeps one slot free and wraps around.
LQ == INSTANCE LogQueue WITH queue <- Queue, overrun <- overrun_counter_
LogQueueSpec == LQ!Spec

\* Whoever posts gets its message in, though wake-ups go to one sleeper at a time and
\* another thread may be faster.
PostEnds == \A t \in Posters : pc[t] = "enqueue" ~> pc[t] \in {"idle", "done"}

\* The destructor comes to its end.
DestroyEnds == ~alive ~> pc[Dtor] = "done"
=============================================================================
