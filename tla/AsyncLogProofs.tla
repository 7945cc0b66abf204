--------------------------- MODULE AsyncLogProofs ---------------------------
(***************************************************************************)
(* Proofs about AsyncLog: for any threads, workers and capacity, spdlog's  *)
(* ring buffer is the queue of LogQueue, no message is in two places or    *)
(* forgotten, and the destructor of the pool leaves nothing behind.        *)
(***************************************************************************)
EXTENDS AsyncLog, TLAPS, FiniteSetTheorems

-----------------------------------------------------------------------------
(* The ring.                                                               *)

\* head_ and tail_ are slots of v_.
RingType ==
  /\ head_ \in 0..MaxItems /\ tail_ \in 0..MaxItems
  /\ v_ \in [0..MaxItems -> Messages \cup {NoMsg}]

\* The slot of the k-th message when the first is in slot h.
Slot(h, k) == IF h + k - 1 <= MaxItems THEN h + k - 1 ELSE h + k - 1 - max_items_

\* The remainder that Queue and the cursors take is a step around the ring.
LEMMA SlotIs ==
  ASSUME NEW h \in 0..MaxItems, NEW k \in 1..max_items_
  PROVE  (h + k - 1) % max_items_ = Slot(h, k)
BY AsyncAssumption DEF max_items_, Slot

\* The slot after h.
LEMMA SlotAfter ==
  ASSUME NEW h \in 0..MaxItems
  PROVE  (h + 1) % max_items_ = IF h = MaxItems THEN 0 ELSE h + 1
BY AsyncAssumption DEF max_items_

\* One slot stays free: a full ring holds max_items messages, an empty one none.
LEMMA RingSize ==
  ASSUME RingType
  PROVE  /\ Size \in 0..MaxItems
         /\ Full <=> Size = MaxItems
         /\ Empty <=> Size = 0
<1>1. (tail_ + 1) % max_items_ = IF tail_ = MaxItems THEN 0 ELSE tail_ + 1
  BY SlotAfter DEF RingType
<1>2. QED
  BY <1>1, AsyncAssumption DEF RingType, Size, Full, Empty, max_items_

\* The messages of the ring lie in slots of their own, none of them where the next goes.
LEMMA QueueSlots ==
  ASSUME RingType, NEW k \in 1..Size
  PROVE  /\ Queue[k] = v_[Slot(head_, k)]
         /\ Slot(head_, k) \in 0..MaxItems
         /\ Slot(head_, k) # tail_
<1>1. k \in 1..max_items_
  BY RingSize, AsyncAssumption DEF max_items_
<1>2. Queue[k] = v_[Slot(head_, k)]
  BY <1>1, SlotIs DEF Queue, RingType
<1>3. Slot(head_, k) \in 0..MaxItems /\ Slot(head_, k) # tail_
  BY AsyncAssumption DEF RingType, Slot, Size, max_items_
<1>4. QED
  BY <1>2, <1>3

\* The ring as a sequence.
LEMMA QueueSeq ==
  ASSUME RingType
  PROVE  Queue \in Seq(Messages \cup {NoMsg}) /\ Len(Queue) = Size
<1>1. \A k \in 1..Size : v_[(head_ + k - 1) % max_items_] \in Messages \cup {NoMsg}
  BY QueueSlots DEF Queue, RingType
<1>2. Size \in Nat
  BY RingSize, AsyncAssumption
<1>3. QED
  BY <1>1, <1>2 DEF Queue

\* push_back with room: one more at the end.
LEMMA PushWithRoom ==
  ASSUME RingType, NEW m \in Messages, PushBack(m), ~Full
  PROVE  /\ RingType' /\ Size' = Size + 1 /\ overrun_counter_' = overrun_counter_
         /\ \A k \in 1..Size : Queue'[k] = Queue[k]
         /\ Queue'[Size + 1] = m
<1>1. /\ tail_' = IF tail_ = MaxItems THEN 0 ELSE tail_ + 1
      /\ v_' = [v_ EXCEPT ![tail_] = m]
      /\ tail_' # head_ /\ head_' = head_ /\ overrun_counter_' = overrun_counter_
  BY SlotAfter DEF PushBack, Full, RingType
<1>2. RingType'
  BY <1>1, AsyncAssumption DEF RingType
<1>3. Size' = Size + 1
  BY <1>1, AsyncAssumption DEF RingType, Size, max_items_
<1>4. Size \in 0..MaxItems /\ Size' \in 0..MaxItems
  BY <1>3, RingSize, AsyncAssumption
<1>5. \A k \in 1..Size' : Queue'[k] = v_'[Slot(head_, k)]
  <2>1. \A k \in 1..Size' : k \in 1..max_items_
    BY <1>4, AsyncAssumption DEF max_items_
  <2>2. QED
    BY <1>1, <2>1, SlotIs DEF Queue, RingType
<1>6. \A k \in 1..Size : Queue'[k] = Queue[k]
  BY <1>1, <1>3, <1>4, <1>5, QueueSlots, AsyncAssumption DEF RingType
<1>7. Slot(head_, Size + 1) = tail_
  BY AsyncAssumption DEF RingType, Slot, Size, max_items_
<1>8. Queue'[Size + 1] = m
  BY <1>1, <1>3, <1>4, <1>5, <1>7, AsyncAssumption DEF RingType
<1>9. QED
  BY <1>1, <1>2, <1>3, <1>6, <1>8

\* push_back of a full ring: the oldest goes, the new one is the last.
LEMMA PushOverrun ==
  ASSUME RingType, NEW m \in Messages, PushBack(m), Full
  PROVE  /\ RingType' /\ Size' = Size /\ overrun_counter_' = overrun_counter_ + 1
         /\ \A k \in 1..(Size - 1) : Queue'[k] = Queue[k + 1]
         /\ Queue'[Size] = m
<1>1. /\ tail_' = IF tail_ = MaxItems THEN 0 ELSE tail_ + 1
      /\ v_' = [v_ EXCEPT ![tail_] = m]
      /\ tail_' = head_ /\ overrun_counter_' = overrun_counter_ + 1
      /\ head_' = IF head_ = MaxItems THEN 0 ELSE head_ + 1
  BY SlotAfter DEF PushBack, Full, RingType
<1>2. RingType'
  BY <1>1, AsyncAssumption DEF RingType
<1>3. Size' = MaxItems /\ Size = MaxItems
  BY <1>1, AsyncAssumption DEF RingType, Size, max_items_
<1>4. \A k \in 1..MaxItems : Queue'[k] = v_'[Slot(head_', k)]
  <2>1. \A k \in 1..MaxItems : k \in 1..max_items_
    BY AsyncAssumption DEF max_items_
  <2>2. QED
    BY <1>2, <1>3, <2>1, SlotIs DEF Queue, RingType
<1>5. \A k \in 1..(MaxItems - 1) : /\ Slot(head_', k) = Slot(head_, k + 1)
                                  /\ k + 1 \in 1..MaxItems /\ k \in 1..MaxItems
  BY <1>1, AsyncAssumption DEF RingType, Slot, max_items_
<1>6. \A k \in 1..(MaxItems - 1) : Queue'[k] = Queue[k + 1]
  BY <1>1, <1>3, <1>4, <1>5, QueueSlots DEF RingType
<1>7. Slot(head_', MaxItems) = tail_ /\ MaxItems \in 1..MaxItems
  BY <1>1, AsyncAssumption DEF RingType, Slot, max_items_
<1>8. Queue'[MaxItems] = m
  BY <1>1, <1>4, <1>7 DEF RingType
<1>9. QED
  BY <1>1, <1>2, <1>3, <1>6, <1>8

\* pop_front: the oldest goes.
LEMMA PopRing ==
  ASSUME RingType, PopFront, ~Empty
  PROVE  /\ RingType' /\ Size' = Size - 1 /\ overrun_counter_' = overrun_counter_
         /\ \A k \in 1..(Size - 1) : Queue'[k] = Queue[k + 1]
         /\ Queue[1] = v_[head_]
<1>1. /\ head_' = IF head_ = MaxItems THEN 0 ELSE head_ + 1
      /\ UNCHANGED <<tail_, v_, overrun_counter_>>
      /\ tail_ # head_
  BY SlotAfter DEF PopFront, Empty, RingType
<1>2. RingType'
  BY <1>1, AsyncAssumption DEF RingType
<1>3. Size' = Size - 1
  BY <1>1, AsyncAssumption DEF RingType, Size, max_items_
<1>4. Size \in 1..MaxItems
  BY RingSize, AsyncAssumption, <1>1 DEF Empty
<1>5. \A k \in 1..(Size - 1) :
        /\ k \in 1..max_items_ /\ k + 1 \in 1..Size /\ k \in 1..Size'
        /\ Slot(head_', k) = Slot(head_, k + 1)
  BY <1>1, <1>3, <1>4, AsyncAssumption DEF RingType, Slot, max_items_
<1>6. \A k \in 1..(Size - 1) : Queue'[k] = v_[Slot(head_', k)]
  BY <1>1, <1>2, <1>5, SlotIs DEF Queue, RingType
<1>7. \A k \in 1..(Size - 1) : Queue'[k] = Queue[k + 1]
  BY <1>5, <1>6, QueueSlots
<1>8. Queue[1] = v_[head_]
  <2>1. 1 \in 1..Size /\ Slot(head_, 1) = head_
    BY <1>4, AsyncAssumption DEF RingType, Slot
  <2>2. QED
    BY <2>1, QueueSlots
<1>9. QED
  BY <1>1, <1>2, <1>3, <1>7, <1>8

-----------------------------------------------------------------------------
(* The invariant.                                                          *)

Started == {t \in Posters : pc[t] \in {"enqueue", "wait"}}

\* Every post that began: the n-th of thread t.
Begun == {p \in Posters \X (1..(MaxPosts + Cardinality(Workers))) : p[2] <= sent[p[1]]}

\* The terminate messages that are in the ring or were.
Terminated == IF pc[Dtor] \in {"enqueue", "wait"} THEN sent[Dtor] - 1 ELSE sent[Dtor]

\* The log messages pushed have the ids from 1 to Logged, the terminate messages those
\* after it.
Logged == pushed - Terminated

Over == {w \in Workers : pc[w] = "over"}

\* Each thread is in its own code.
PcInv == pc \in [Posters \cup Workers -> {"idle", "enqueue", "wait", "notify", "done",
                                          "dequeue", "process", "over"}]

\* What is pushed was begun before, so the ids suffice.
CountInv ==
  /\ pushed + Cardinality(Started) = Cardinality(Begun)
  /\ \A t \in Loggers : sent[t] <= MaxPosts
  /\ sent[Dtor] <= Cardinality(Workers)

\* The destructor begins when nobody logs any more, and ends after the workers.
DtorInv ==
  /\ pc[Dtor] \in {"enqueue", "wait"} => sent[Dtor] > 0
  /\ sent[Dtor] > 0 \/ pc[Dtor] = "done" => Destroying
  /\ pc[Dtor] = "done" => sent[Dtor] = Cardinality(Workers) /\ Over = Workers
  /\ \A t \in Loggers : pc[t] # "done"

\* One of the first p messages pushed, of which the first l are log messages.
Real(m, p, l) == m \in Messages /\ m.id <= p /\ (m.type = "terminate" <=> m.id > l)

\* The ring holds what was pushed, in that order.
RingInv ==
  /\ \A k \in 1..Size : Real(Queue[k], pushed, Logged)
  /\ \A i, j \in 1..Size : i < j => Queue[i].id < Queue[j].id

\* A worker holds a message from Dequeue to Process, and no other does.
HeldInv ==
  /\ \A w \in Workers :
       IF pc[w] \in {"notify", "process"} THEN Real(msg[w], pushed, Logged) ELSE msg[w] = NoMsg
  /\ \A w, x \in Workers : msg[w].id = msg[x].id => w = x \/ msg[w] = NoMsg

\* What is no longer in anybody's hands.
DoneInv ==
  /\ Written \subseteq 1..Logged
  /\ ended \subseteq (Logged + 1)..pushed
  /\ Held \cap ended = {}
  /\ Cardinality(ended) = Cardinality(Over)

IInv == LogInv /\ PcInv /\ CountInv /\ DtorInv /\ RingInv /\ HeldInv /\ DoneInv

\* The threads are different ones.
LEMMA Threads ==
  /\ Dtor \in Posters /\ Loggers \subseteq Posters /\ Dtor \notin Loggers
  /\ \A t \in Posters : t \notin Workers
  /\ IsFiniteSet(Posters) /\ IsFiniteSet(Workers) /\ IsFiniteSet(Loggers)
  /\ Cardinality(Workers) \in Nat /\ Cardinality(Loggers) \in Nat
  /\ MaxPosts \in Nat /\ MaxItems \in Nat /\ MaxItems > 0 /\ MaxId \in Nat
<1>1. IsFiniteSet(Loggers) /\ IsFiniteSet(Workers)
  BY AsyncAssumption
<1>2. Cardinality(Workers) \in Nat /\ Cardinality(Loggers) \in Nat
  BY <1>1, FS_CardinalityType
<1>3. IsFiniteSet(Posters)
  BY <1>1, FS_AddElement DEF Posters
<1>4. MaxId \in Nat
  BY <1>2, AsyncAssumption DEF MaxId
<1>5. QED
  BY <1>1, <1>2, <1>3, <1>4, AsyncAssumption DEF Posters

\* A message is not NoMsg.
LEMMA MessageIds ==
  ASSUME NEW m \in Messages
  PROVE  m.id \in 1..MaxId /\ m.id # 0 /\ m # NoMsg /\ m.type \in {"log", "terminate"}
BY Threads DEF Messages, NoMsg

\* There are n numbers up to n.
LEMMA CountTo ==
  ASSUME NEW n \in Nat
  PROVE  IsFiniteSet(1..n) /\ Cardinality(1..n) = n
<1>1. IsFiniteSet(1..n) /\ Cardinality(1..n) = IF 1 > n THEN 0 ELSE n - 1 + 1
  BY FS_Interval
<1>2. QED
  BY <1>1

\* Two sets without a common element.
LEMMA CountDisjoint ==
  ASSUME NEW S, IsFiniteSet(S), NEW T, IsFiniteSet(T), S \cap T = {}
  PROVE  /\ IsFiniteSet(S \cup T)
         /\ Cardinality(S) \in Nat /\ Cardinality(T) \in Nat
         /\ Cardinality(S \cup T) = Cardinality(S) + Cardinality(T)
<1>1. Cardinality(S) \in Nat /\ Cardinality(T) \in Nat
  BY FS_CardinalityType
<1>2. Cardinality(S \cap T) = 0
  BY FS_EmptySet
<1>3. /\ IsFiniteSet(S \cup T)
      /\ Cardinality(S \cup T) = Cardinality(S) + Cardinality(T) - Cardinality(S \cap T)
  BY FS_Union
<1>4. QED
  BY <1>1, <1>2, <1>3

\* Posts are finitely many, and no more than there are ids.
LEMMA BegunBound ==
  ASSUME TypeOK, CountInv
  PROVE  IsFiniteSet(Begun) /\ Cardinality(Begun) <= MaxId
<1> DEFINE W == Cardinality(Workers)
<1> DEFINE A == Loggers \X (1..MaxPosts)
<1> DEFINE B == {Dtor} \X (1..W)
<1>1. W \in Nat /\ MaxPosts \in Nat /\ Cardinality(Loggers) \in Nat /\ IsFiniteSet(Loggers)
  BY Threads
<1>2. IsFiniteSet(1..MaxPosts) /\ Cardinality(1..MaxPosts) = MaxPosts
  BY <1>1, CountTo
<1>3. IsFiniteSet(1..W) /\ Cardinality(1..W) = W
  BY <1>1, CountTo
<1>4. IsFiniteSet(A) /\ Cardinality(A) = Cardinality(Loggers) * MaxPosts
  BY <1>1, <1>2, FS_Product
<1>5. IsFiniteSet({Dtor}) /\ Cardinality({Dtor}) = 1
  BY FS_Singleton
<1>6. IsFiniteSet(B) /\ Cardinality(B) = W
  <2>1. IsFiniteSet(B) /\ Cardinality(B) = Cardinality({Dtor}) * Cardinality(1..W)
    BY <1>3, <1>5, FS_Product, Zenon
  <2>2. Cardinality(B) = 1 * W
    BY <1>3, <1>5, <2>1, Zenon
  <2>3. 1 * W = W
    BY <1>1
  <2>4. QED
    BY <2>1, <2>2, <2>3, Zenon
<1>7. A \cap B = {}
  BY Threads
<1>8. /\ IsFiniteSet(A \cup B)
      /\ Cardinality(A \cup B) = Cardinality(A) + Cardinality(B) - Cardinality(A \cap B)
  BY <1>4, <1>6, FS_Union
<1>9. Cardinality(A \cap B) = 0
  BY <1>7, FS_EmptySet
<1>10. Begun \subseteq A \cup B
  <2> SUFFICES ASSUME NEW p \in Begun PROVE p \in A \cup B
    OBVIOUS
  <2>1. PICK t \in Posters, n \in 1..(MaxPosts + W) : p = <<t, n>> /\ n <= sent[t]
    BY DEF Begun
  <2>2. CASE t \in Loggers
    <3>1. n \in 1..MaxPosts
      BY <1>1, <2>1, <2>2 DEF TypeOK, CountInv
    <3>2. QED
      BY <2>1, <2>2, <3>1
  <2>3. CASE t = Dtor
    <3>1. n \in 1..W
      BY <1>1, <2>1, <2>3 DEF TypeOK, CountInv
    <3>2. QED
      BY <2>1, <2>3, <3>1
  <2>4. QED
    BY <2>1, <2>2, <2>3 DEF Posters
<1>11. IsFiniteSet(Begun) /\ Cardinality(Begun) <= Cardinality(A \cup B)
  BY <1>8, <1>10, FS_Subset
<1>12. Cardinality(A \cup B) = Cardinality(Loggers) * MaxPosts + W
  BY <1>1, <1>4, <1>6, <1>8, <1>9
<1>13. QED
  BY <1>11, <1>12 DEF MaxId

\* A thread that wants to push finds an id for its message.
LEMMA IdLeft ==
  ASSUME IInv, NEW t \in Posters, pc[t] = "enqueue"
  PROVE  pushed \in Nat /\ pushed + 1 \in 1..MaxId /\ IsFiniteSet(Started)
<1>1. t \in Started /\ Started \subseteq Posters
  BY DEF Started
<1>2. IsFiniteSet(Started) /\ Cardinality(Started) \in Nat
  BY <1>1, Threads, FS_Subset, FS_CardinalityType
<1>3. Cardinality(Started) # 0
  BY <1>1, <1>2, FS_EmptySet
<1>4. IsFiniteSet(Begun) /\ Cardinality(Begun) <= MaxId /\ Cardinality(Begun) \in Nat
  BY BegunBound, FS_CardinalityType DEF IInv, LogInv
<1>5. QED
  BY <1>2, <1>3, <1>4, Threads DEF IInv, LogInv, TypeOK, CountInv

\* Where the messages are: the ids that are out, all of messages that were pushed.
LEMMA Places ==
  ASSUME IInv
  PROVE  /\ RingType /\ pushed \in Nat /\ Size \in Nat
         /\ Terminated \in Nat /\ Logged \in Int /\ Logged <= pushed
         /\ Queued \subseteq 1..pushed /\ Held \subseteq 1..pushed
         /\ Written \subseteq 1..pushed /\ ended \subseteq 1..pushed /\ Lost \subseteq 1..pushed
         /\ IsFiniteSet(Queued) /\ IsFiniteSet(Held) /\ IsFiniteSet(Written)
         /\ IsFiniteSet(ended) /\ IsFiniteSet(Lost)
<1>1. RingType
  BY DEF IInv, LogInv, TypeOK, RingType
<1>2. pushed \in Nat /\ Size \in Nat
  BY <1>1, RingSize, Threads DEF IInv, LogInv, TypeOK
<1>3. sent[Dtor] \in Nat
  BY Threads DEF IInv, LogInv, TypeOK
<1>4. Terminated \in Nat
  BY <1>3 DEF IInv, DtorInv, Terminated
<1>5. Logged \in Int /\ Logged <= pushed
  BY <1>2, <1>4 DEF Logged
<1>6. Queued \subseteq 1..pushed
  BY <1>2, MessageIds, Threads DEF IInv, RingInv, Real, Queued
<1>7. Held \subseteq 1..pushed
  <2>1. \A w \in Workers : msg[w].id = 0 \/ msg[w].id \in 1..pushed
    BY <1>2, MessageIds, Threads DEF IInv, HeldInv, Real, NoMsg
  <2>2. QED
    BY <2>1 DEF Held
<1>8. Written \subseteq 1..pushed
  BY <1>2, <1>5 DEF IInv, DoneInv
<1>9. ended \subseteq 1..pushed
  BY <1>2, Threads DEF IInv, DoneInv, LogInv, TypeOK
<1>10. Lost \subseteq 1..pushed
  BY DEF Lost
<1>11. IsFiniteSet(1..pushed)
  BY <1>2, FS_Interval
<1>12. QED
  BY <1>1, <1>2, <1>4, <1>5, <1>6, <1>7, <1>8, <1>9, <1>10, <1>11, FS_Subset

-----------------------------------------------------------------------------
(* Steps that move no message.                                             *)

\* The types of what such a step may change.
ControlType ==
  /\ PcInv
  /\ \A t \in Posters : pc[t] \in {"idle", "enqueue", "wait", "notify", "done"}
  /\ \A w \in Workers : pc[w] \in {"dequeue", "wait", "notify", "process", "over"}
  /\ alive \in BOOLEAN
  /\ sent \in [Posters -> Nat]

\* Working is to hold a message.
Working(w) == pc[w] \in {"notify", "process"}

\* What is said of messages stays true when none is moved.
LEMMA DataSame ==
  ASSUME IInv, UNCHANGED <<ringVars, workVars>>, ControlType',
         Terminated' = Terminated, Over' = Over,
         \A w \in Workers : Working(w)' <=> Working(w)
  PROVE  LogInv' /\ PcInv' /\ RingInv' /\ HeldInv' /\ DoneInv'
<1>1. /\ UNCHANGED <<head_, tail_, v_, overrun_counter_, pushed, msg, written, ended>>
      /\ Logged' = Logged
  BY DEF ringVars, workVars, Logged
<1>2. Size' = Size /\ Queue' = Queue
  BY <1>1 DEF Size, Queue
<1>3. Queued' = Queued /\ Held' = Held /\ Written' = Written
  BY <1>1, <1>2 DEF Queued, Held, Written
<1>4. Lost' = Lost
  BY <1>1, <1>3 DEF Lost
<1>5. TypeOK'
  BY <1>1 DEF IInv, LogInv, TypeOK, ControlType
<1>6. Conserved' /\ InOrder'
  BY <1>1, <1>2, <1>3, <1>4 DEF IInv, LogInv, Conserved, InOrder
<1>7. RingInv'
  BY <1>1, <1>2 DEF IInv, RingInv
<1>8. HeldInv'
  BY <1>1 DEF IInv, HeldInv, Working
<1>9. DoneInv'
  BY <1>1, <1>3 DEF IInv, DoneInv
<1>10. QED
  BY <1>5, <1>6, <1>7, <1>8, <1>9 DEF LogInv, ControlType

\* A step that starts no post either.
LEMMA QuietKeeps ==
  ASSUME IInv, UNCHANGED <<ringVars, workVars, sent>>, ControlType', DtorInv',
         Started' = Started, Over' = Over,
         \A w \in Workers : Working(w)' <=> Working(w)
  PROVE  IInv'
<1>1. pushed' = pushed /\ sent' = sent
  BY DEF ringVars
<1>2. Begun' = Begun
  BY <1>1 DEF Begun
<1>3. CountInv'
  BY <1>1, <1>2 DEF IInv, CountInv
<1>4. Terminated' = Terminated
  <2>1. pc[Dtor] \in {"enqueue", "wait"} <=> Dtor \in Started
    BY Threads DEF Started
  <2>2. pc'[Dtor] \in {"enqueue", "wait"} <=> Dtor \in Started'
    BY Threads DEF Started
  <2>3. QED
    BY <1>1, <2>1, <2>2 DEF Terminated
<1>5. QED
  BY <1>3, <1>4, DataSame DEF IInv

\* One thread goes on alone.
LEMMA GoKeeps ==
  ASSUME IInv, UNCHANGED <<ringVars, workVars, sent, alive>>,
         NEW t, NEW to, pc' = [pc EXCEPT ![t] = to],
         \/ t \in Posters /\ pc[t] = "enqueue" /\ to = "wait"
         \/ t \in Posters /\ pc[t] = "notify" /\ to = "idle"
         \/ t \in Workers /\ pc[t] \in {"dequeue", "wait"} /\ to \in {"dequeue", "wait"}
         \/ t \in Workers /\ pc[t] = "notify" /\ to = "process"
  PROVE  IInv'
<1>1. /\ pc'[t] = to
      /\ \A s \in Posters \cup Workers : s # t => pc'[s] = pc[s]
  BY DEF IInv, PcInv
<1>2. ControlType'
  BY <1>1, Threads DEF IInv, LogInv, TypeOK, PcInv, ControlType
<1>3. Started' = Started
  BY <1>1, Threads DEF Started
<1>4. Over' = Over
  BY <1>1, Threads DEF Over
<1>5. \A w \in Workers : Working(w)' <=> Working(w)
  BY <1>1, Threads DEF Working
<1>6. DtorInv'
  <2>1. Dtor \in Posters /\ \A u \in Loggers : u \in Posters
    BY Threads
  <2>2. pc'[Dtor] \in {"enqueue", "wait"} <=> pc[Dtor] \in {"enqueue", "wait"}
    BY <1>1, <2>1, Threads
  <2>3. pc'[Dtor] = "done" <=> pc[Dtor] = "done"
    BY <1>1, <2>1, Threads
  <2>4. Destroying => Destroying'
    BY <1>1, <2>1, Threads DEF Destroying
  <2>5. \A u \in Loggers : pc'[u] # "done"
    BY <1>1, <2>1, Threads DEF IInv, DtorInv
  <2>6. QED
    BY <1>4, <2>2, <2>3, <2>4, <2>5 DEF IInv, DtorInv
<1>7. QED
  BY <1>1, <1>2, <1>3, <1>4, <1>5, <1>6, Threads, QuietKeeps

\* A thread notifies, and one that sleeps goes on, too.
LEMMA WakeKeeps ==
  ASSUME IInv, UNCHANGED <<ringVars, workVars, sent, alive>>,
         NEW t, NEW s,
         \/ /\ t \in Posters /\ s \in Workers
            /\ pc' = [pc EXCEPT ![t] = "idle", ![s] = "dequeue"]
         \/ /\ t \in Workers /\ s \in Posters
            /\ pc' = [pc EXCEPT ![t] = "process", ![s] = "enqueue"],
         pc[t] = "notify", pc[s] = "wait"
  PROVE  IInv'
<1>1. /\ \A u \in Posters \cup Workers : u # t /\ u # s => pc'[u] = pc[u]
      /\ \/ t \in Posters /\ s \in Workers /\ pc'[t] = "idle" /\ pc'[s] = "dequeue"
         \/ t \in Workers /\ s \in Posters /\ pc'[t] = "process" /\ pc'[s] = "enqueue"
  BY Threads DEF IInv, PcInv
<1>2. ControlType'
  BY <1>1, Threads DEF IInv, LogInv, TypeOK, PcInv, ControlType
<1>3. Started' = Started
  BY <1>1, Threads DEF Started
<1>4. Over' = Over
  BY <1>1, Threads DEF Over
<1>5. \A w \in Workers : Working(w)' <=> Working(w)
  BY <1>1, Threads DEF Working
<1>6. DtorInv'
  <2>1. Dtor \in Posters /\ \A u \in Loggers : u \in Posters
    BY Threads
  <2>2. pc'[Dtor] \in {"enqueue", "wait"} <=> pc[Dtor] \in {"enqueue", "wait"}
    BY <1>1, <2>1, Threads
  <2>3. pc'[Dtor] = "done" <=> pc[Dtor] = "done"
    BY <1>1, <2>1, Threads
  <2>4. Destroying => Destroying'
    BY <1>1, <2>1, Threads DEF Destroying
  <2>5. \A u \in Loggers : pc'[u] # "done"
    BY <1>1, <2>1, Threads DEF IInv, DtorInv
  <2>6. QED
    BY <1>4, <2>2, <2>3, <2>4, <2>5 DEF IInv, DtorInv
<1>7. QED
  BY <1>2, <1>3, <1>4, <1>5, <1>6, QuietKeeps

\* Waiting, waking and notifying.
LEMMA WaitingKeeps ==
  ASSUME IInv,
         \/ \E t \in Posters : WaitForRoom(t) \/ NotifyPush(t)
         \/ \E w \in Workers : WaitForMessage(w) \/ TimedOut(w) \/ NotifyPop(w)
  PROVE  IInv'
<1>1. ASSUME NEW t \in Posters, WaitForRoom(t) PROVE IInv'
  BY <1>1, GoKeeps DEF WaitForRoom, GoTo
<1>2. ASSUME NEW t \in Posters, NotifyPush(t) PROVE IInv'
  <2>1. CASE pc' = [pc EXCEPT ![t] = "idle"]
    BY <1>2, <2>1, GoKeeps DEF NotifyPush, NotifyOne
  <2>2. CASE \E s \in Workers : pc[s] = "wait" /\ pc' = [pc EXCEPT ![t] = "idle", ![s] = "dequeue"]
    BY <1>2, <2>2, WakeKeeps DEF NotifyPush, NotifyOne
  <2>3. QED
    BY <1>2, <2>1, <2>2 DEF NotifyPush, NotifyOne
<1>3. ASSUME NEW w \in Workers, WaitForMessage(w) PROVE IInv'
  BY <1>3, GoKeeps DEF WaitForMessage, GoTo
<1>4. ASSUME NEW w \in Workers, TimedOut(w) PROVE IInv'
  BY <1>4, GoKeeps DEF TimedOut, GoTo
<1>5. ASSUME NEW w \in Workers, NotifyPop(w) PROVE IInv'
  <2>1. CASE pc' = [pc EXCEPT ![w] = "process"]
    BY <1>5, <2>1, GoKeeps DEF NotifyPop, NotifyOne
  <2>2. CASE \E s \in Posters : /\ pc[s] = "wait"
                               /\ pc' = [pc EXCEPT ![w] = "process", ![s] = "enqueue"]
    BY <1>5, <2>2, WakeKeeps DEF NotifyPop, NotifyOne
  <2>3. QED
    BY <1>5, <2>1, <2>2 DEF NotifyPop, NotifyOne
<1>6. QED
  BY <1>1, <1>2, <1>3, <1>4, <1>5

\* Nobody logs any more.
LEMMA ReleaseKeeps ==
  ASSUME IInv, Release
  PROVE  IInv'
<1>1. UNCHANGED <<ringVars, workVars, pc, sent>> /\ alive' = FALSE
  BY DEF Release
<1>2. ControlType'
  BY <1>1 DEF IInv, LogInv, TypeOK, PcInv, ControlType
<1>3. Started' = Started /\ Over' = Over /\ \A w \in Workers : Working(w)' <=> Working(w)
  BY <1>1 DEF Started, Over, Working
<1>4. DtorInv'
  BY <1>1, <1>3 DEF IInv, DtorInv, Destroying
<1>5. QED
  BY <1>1, <1>2, <1>3, <1>4, QuietKeeps

\* The destructor ends after the workers.
LEMMA JoinKeeps ==
  ASSUME IInv, Join
  PROVE  IInv'
<1>1. /\ UNCHANGED <<ringVars, workVars, alive, sent>>
      /\ Destroying /\ sent[Dtor] = Cardinality(Workers)
      /\ \A w \in Workers : pc[w] = "over"
      /\ pc[Dtor] = "idle" /\ pc' = [pc EXCEPT ![Dtor] = "done"]
  BY DEF Join, GoTo, Terminates
<1>2. pc'[Dtor] = "done" /\ \A s \in Posters \cup Workers : s # Dtor => pc'[s] = pc[s]
  BY <1>1, Threads DEF IInv, PcInv
<1>3. ControlType'
  BY <1>1, <1>2, Threads DEF IInv, LogInv, TypeOK, PcInv, ControlType
<1>4. Started' = Started
  BY <1>1, <1>2, Threads DEF Started
<1>5. Over' = Over /\ Over = Workers
  BY <1>1, <1>2, Threads DEF Over
<1>6. \A w \in Workers : Working(w)' <=> Working(w)
  BY <1>2, Threads DEF Working
<1>7. DtorInv'
  <2>1. \A u \in Loggers : pc'[u] = pc[u]
    BY <1>2, Threads
  <2>2. QED
    BY <1>1, <1>2, <1>5, <2>1 DEF IInv, DtorInv, Destroying
<1>8. QED
  BY <1>1, <1>3, <1>4, <1>5, <1>6, <1>7, QuietKeeps

\* A post begins: a logger logs, or the destructor terminates a worker.
LEMMA BeginKeeps ==
  ASSUME IInv, NEW t \in Posters, UNCHANGED <<ringVars, workVars, alive>>,
         pc[t] = "idle", pc' = [pc EXCEPT ![t] = "enqueue"],
         sent' = [sent EXCEPT ![t] = @ + 1],
         \/ t \in Loggers /\ alive /\ sent[t] < MaxPosts
         \/ t = Dtor /\ Destroying /\ sent[t] < Cardinality(Workers)
  PROVE  IInv'
<1>1. /\ pc'[t] = "enqueue" /\ \A s \in Posters \cup Workers : s # t => pc'[s] = pc[s]
      /\ sent'[t] = sent[t] + 1 /\ \A s \in Posters : s # t => sent'[s] = sent[s]
  BY DEF IInv, PcInv, LogInv, TypeOK
<1>2. \A s \in Posters : sent[s] \in Nat
  BY DEF IInv, LogInv, TypeOK
<1>3. ControlType'
  BY <1>1, <1>2, Threads DEF IInv, LogInv, TypeOK, PcInv, ControlType
<1>4. Over' = Over /\ \A w \in Workers : Working(w)' <=> Working(w)
  BY <1>1, Threads DEF Over, Working
<1>5. Terminated' = Terminated
  <2>1. CASE t = Dtor
    BY <1>1, <1>2, <2>1, Threads DEF Terminated
  <2>2. CASE t # Dtor
    BY <1>1, <2>2, Threads DEF Terminated
  <2>3. QED
    BY <2>1, <2>2
<1>6. DtorInv'
  <2>1. CASE t \in Loggers
    <3>1. alive /\ t # Dtor
      BY <2>1, Threads DEF Destroying
    <3>2. sent[Dtor] = 0 /\ pc[Dtor] # "done"
      BY <1>2, <3>1, Threads DEF IInv, DtorInv, Destroying
    <3>3. sent'[Dtor] = 0 /\ pc'[Dtor] = pc[Dtor]
      BY <1>1, <3>1, <3>2, Threads
    <3>4. \A u \in Loggers : pc'[u] # "done"
      BY <1>1, Threads DEF IInv, DtorInv
    <3>5. QED
      BY <3>2, <3>3, <3>4 DEF IInv, DtorInv
  <2>2. CASE t = Dtor
    <3>1. Destroying /\ \A u \in Loggers : pc'[u] = pc[u]
      BY <1>1, <2>2, Threads
    <3>2. Destroying'
      BY <3>1 DEF Destroying
    <3>3. sent'[Dtor] > 0 /\ pc'[Dtor] = "enqueue"
      BY <1>1, <1>2, <2>2
    <3>4. QED
      BY <3>1, <3>2, <3>3 DEF IInv, DtorInv
  <2>3. QED
    BY <2>1, <2>2
<1>7. CountInv'
  <2> DEFINE p == <<t, sent[t] + 1>>
  <2>1. Started' = Started \cup {t} /\ t \notin Started /\ IsFiniteSet(Started)
    <3>1. Started \subseteq Posters
      BY DEF Started
    <3>2. QED
      BY <1>1, <3>1, Threads, FS_Subset DEF Started
  <2>2. Cardinality(Started') = Cardinality(Started) + 1 /\ Cardinality(Started) \in Nat
    BY <2>1, FS_AddElement, FS_CardinalityType
  <2>3. \A u \in Loggers : sent'[u] <= MaxPosts
    BY <1>1, <1>2, Threads DEF IInv, CountInv
  <2>4. sent'[Dtor] <= Cardinality(Workers)
    BY <1>1, <1>2, Threads DEF IInv, CountInv
  <2>5. sent[t] + 1 \in 1..(MaxPosts + Cardinality(Workers))
    BY <1>1, <1>2, <2>3, <2>4, Threads
  <2>6. Begun' = Begun \cup {p} /\ p \notin Begun
    <3>1. \A s \in Posters, n \in 1..(MaxPosts + Cardinality(Workers)) :
            n <= sent'[s] <=> n <= sent[s] \/ (s = t /\ n = sent[t] + 1)
      BY <1>1, <1>2, Threads
    <3>2. \A s \in Posters, n \in 1..(MaxPosts + Cardinality(Workers)) :
            <<s, n>> \in Begun' <=> <<s, n>> \in Begun \/ <<s, n>> = p
      BY <3>1 DEF Begun
    <3>3. Begun' \subseteq Posters \X (1..(MaxPosts + Cardinality(Workers)))
          /\ Begun \subseteq Posters \X (1..(MaxPosts + Cardinality(Workers)))
      BY DEF Begun
    <3>4. p \in Posters \X (1..(MaxPosts + Cardinality(Workers)))
      BY <2>5
    <3>5. ~(sent[t] + 1 <= sent[t])
      BY <1>2
    <3>6. QED
      BY <3>2, <3>3, <3>4, <3>5 DEF Begun
  <2>7. IsFiniteSet(Begun)
    BY BegunBound DEF IInv, LogInv
  <2>8. Cardinality(Begun') = Cardinality(Begun) + 1 /\ Cardinality(Begun) \in Nat
    BY <2>6, <2>7, FS_AddElement, FS_CardinalityType
  <2>9. pushed' = pushed /\ pushed \in Nat
    BY Places DEF ringVars
  <2>10. pushed' + Cardinality(Started') = Cardinality(Begun')
    BY <2>2, <2>8, <2>9 DEF IInv, CountInv
  <2>11. QED
    BY <2>3, <2>4, <2>10 DEF CountInv
<1>8. QED
  BY <1>3, <1>4, <1>5, <1>6, <1>7, DataSame DEF IInv

-----------------------------------------------------------------------------
(* Steps that move a message.                                              *)

\* A message more: its id is new, and tells its type.
LEMMA NewMessage ==
  ASSUME IInv, NEW t \in Posters, Enqueue(t)
  PROVE  LET m == [id |-> pushed + 1, type |-> IF t = Dtor THEN "terminate" ELSE "log"]
         IN  /\ pushed \in Nat /\ pushed' = pushed + 1 /\ PushBack(m)
             /\ m \in Messages /\ m.id = pushed + 1
             /\ Logged \in Int /\ Logged' \in Int /\ Logged <= Logged' /\ Logged' <= pushed'
             /\ Real(m, pushed', Logged')
             /\ \A n \in Messages : Real(n, pushed, Logged) => Real(n, pushed', Logged')
             /\ Logged' = Logged \/ Logged = pushed
<1> DEFINE m == [id |-> pushed + 1, type |-> IF t = Dtor THEN "terminate" ELSE "log"]
<1>1. /\ pc[t] = "enqueue" /\ pc' = [pc EXCEPT ![t] = "notify"]
      /\ pushed' = pushed + 1 /\ PushBack(m) /\ sent' = sent
  BY DEF Enqueue, GoTo
<1>2. pushed \in Nat /\ pushed + 1 \in 1..MaxId
  BY <1>1, IdLeft
<1>3. m \in Messages /\ m.id = pushed + 1 /\ m.type = IF t = Dtor THEN "terminate" ELSE "log"
  BY <1>2 DEF Messages
<1>4. Logged \in Int /\ Terminated \in Nat /\ sent[Dtor] \in Nat
  BY Places, Threads DEF IInv, LogInv, TypeOK
<1>5. pc'[t] = "notify" /\ \A s \in Posters : s # t => pc'[s] = pc[s]
  BY <1>1 DEF IInv, PcInv
<1>6. \/ t = Dtor /\ Terminated' = Terminated + 1
      \/ t \in Loggers /\ Terminated = 0 /\ Terminated' = 0
  <2>1. CASE t = Dtor
    BY <1>1, <1>4, <1>5, <2>1 DEF Terminated
  <2>2. CASE t \in Loggers
    <3>1. ~Destroying /\ t # Dtor
      BY <1>1, <2>2, Threads DEF Destroying
    <3>2. sent[Dtor] = 0 /\ pc[Dtor] \notin {"enqueue", "wait"}
      BY <1>4, <3>1 DEF IInv, DtorInv
    <3>3. QED
      BY <1>1, <1>5, <2>2, <3>1, <3>2, Threads DEF Terminated
  <2>3. QED
    BY <2>1, <2>2 DEF Posters
<1>7. \/ t = Dtor /\ Logged' = Logged /\ Logged <= pushed
      \/ t # Dtor /\ Logged = pushed /\ Logged' = pushed + 1
  BY <1>1, <1>2, <1>4, <1>6, Threads DEF Logged
<1>8. Real(m, pushed', Logged')
  BY <1>1, <1>2, <1>3, <1>4, <1>7 DEF Real
<1>9. ASSUME NEW n \in Messages, Real(n, pushed, Logged) PROVE Real(n, pushed', Logged')
  <2>1. n.id \in Int
    BY MessageIds, Threads
  <2>2. QED
    BY <1>1, <1>2, <1>4, <1>7, <1>9, <2>1 DEF Real
<1>10. QED
  BY <1>1, <1>2, <1>3, <1>4, <1>7, <1>8, <1>9

\* The message in front has the least id in the ring.
LEMMA FrontLeast ==
  ASSUME IInv, Size > 0
  PROVE  /\ Queue[1].id \in Queued /\ Queue[1] \in Messages /\ Real(Queue[1], pushed, Logged)
         /\ \A j \in Queued : j # Queue[1].id => Queue[1].id < j
         /\ \A i \in 2..Size : Queue[i].id # Queue[1].id
<1>1. Size \in Nat /\ 1 \in 1..Size
  BY Places
<1>2. \A i \in 1..Size : Queue[i].id \in Int
  BY MessageIds, Threads DEF IInv, RingInv, Real
<1>3. \A i \in 2..Size : i \in 1..Size /\ Queue[1].id < Queue[i].id
  BY <1>1 DEF IInv, RingInv
<1>4. Queue[1] \in Messages /\ Real(Queue[1], pushed, Logged) /\ Queue[1].id \in Queued
  BY <1>1 DEF IInv, RingInv, Real, Queued
<1>5. \A j \in Queued : j # Queue[1].id => Queue[1].id < j
  <2> SUFFICES ASSUME NEW i \in 1..Size, Queue[i].id # Queue[1].id PROVE Queue[1].id < Queue[i].id
    BY DEF Queued
  <2>1. i # 1
    OBVIOUS
  <2>2. i \in 2..Size
    BY <1>1, <2>1
  <2>3. QED
    BY <1>3, <2>2
<1>6. QED
  BY <1>1, <1>2, <1>3, <1>4, <1>5

\* The ring gives d messages away in front and gets n at its end.
Shift(d, n) ==
  /\ Size' = Size - d + n
  /\ \A k \in 1..(Size - d) : Queue'[k] = Queue[k + d]

\* The ids in the ring when it has moved on, and that its order is kept.
LEMMA ShiftKeeps ==
  ASSUME IInv, NEW d \in 0..1, NEW n \in 0..1, Shift(d, n), d = 1 => Size > 0,
         \A m \in Messages : Real(m, pushed, Logged) => Real(m, pushed', Logged'),
         n = 1 => Real(Queue'[Size'], pushed', Logged') /\ Queue'[Size'].id = pushed + 1
  PROVE  /\ RingInv'
         /\ Queued' = (Queued \ (IF d = 1 THEN {Queue[1].id} ELSE {}))
                       \cup (IF n = 1 THEN {pushed + 1} ELSE {})
<1>1. Size \in Nat /\ pushed \in Nat /\ Queued \subseteq 1..pushed
  BY Places
<1>2. /\ \A k \in 1..Size : /\ Queue[k] \in Messages /\ Real(Queue[k], pushed, Logged)
                             /\ Queue[k].id \in Queued /\ Queue[k].id \in Int
                             /\ Queue[k].id <= pushed
      /\ \A i, j \in 1..Size : i < j => Queue[i].id < Queue[j].id
  BY <1>1, MessageIds, Threads DEF IInv, RingInv, Real, Queued
<1>3. \A k \in 1..Size' : \/ k \in 1..(Size - d) /\ k + d \in 1..Size /\ Queue'[k] = Queue[k + d]
                          \/ n = 1 /\ k = Size' /\ k = Size - d + 1
  BY <1>1 DEF Shift
<1>4. \A k \in 1..Size' : Real(Queue'[k], pushed', Logged')
  BY <1>2, <1>3
<1>5. ASSUME NEW i \in 1..Size', NEW j \in 1..Size', i < j PROVE Queue'[i].id < Queue'[j].id
  <2>1. i \in 1..(Size - d) /\ i + d \in 1..Size /\ Queue'[i] = Queue[i + d]
    BY <1>1, <1>3, <1>5 DEF Shift
  <2>2. CASE j \in 1..(Size - d) /\ j + d \in 1..Size /\ Queue'[j] = Queue[j + d]
    BY <1>1, <1>2, <1>5, <2>1, <2>2
  <2>3. CASE n = 1 /\ j = Size'
    BY <1>1, <1>2, <2>1, <2>3
  <2>4. QED
    BY <1>3, <2>2, <2>3
<1>6. RingInv'
  BY <1>4, <1>5 DEF RingInv
<1>7. Queued' = {Queue'[k].id : k \in 1..Size'}
  BY DEF Queued
<1>8. ASSUME NEW y \in Queued'
      PROVE  \/ n = 1 /\ y = pushed + 1
             \/ y \in Queued /\ (d = 1 => y # Queue[1].id)
  <2>1. PICK k \in 1..Size' : y = Queue'[k].id
    BY <1>7
  <2>2. CASE n = 1 /\ k = Size'
    BY <2>1, <2>2
  <2>3. CASE k \in 1..(Size - d) /\ k + d \in 1..Size /\ Queue'[k] = Queue[k + d]
    <3>1. d = 1 => k + d \in 2..Size
      BY <1>1, <2>3
    <3>2. QED
      BY <1>2, <2>1, <2>3, <3>1, FrontLeast
  <2>4. QED
    BY <1>3, <2>2, <2>3
<1>9. n = 1 => pushed + 1 \in Queued'
  <2>1. n = 1 => Size' \in 1..Size'
    BY <1>1 DEF Shift
  <2>2. QED
    BY <1>7, <2>1
<1>10. ASSUME NEW y \in Queued, d = 1 => y # Queue[1].id PROVE y \in Queued'
  <2>1. PICK k \in 1..Size : y = Queue[k].id
    BY DEF Queued
  <2>2. d = 1 => k # 1
    BY <1>10, <2>1
  <2>3. k - d \in 1..(Size - d) /\ k - d + d = k /\ k - d \in 1..Size'
    BY <1>1, <2>2 DEF Shift
  <2>4. Queue'[k - d] = Queue[k]
    BY <2>3 DEF Shift
  <2>5. QED
    BY <1>7, <2>1, <2>3, <2>4
<1>11. QED
  BY <1>6, <1>8, <1>9, <1>10

\* push_back moves the ring on when it is full, and adds one.
LEMMA PushShifts ==
  ASSUME IInv, NEW m \in Messages, PushBack(m)
  PROVE  LET d == IF Full THEN 1 ELSE 0
         IN  /\ RingType' /\ Shift(d, 1) /\ Queue'[Size'] = m
             /\ overrun_counter_' = overrun_counter_ + d
             /\ d = 1 => Size > 0
<1>1. RingType /\ Size \in Nat
  BY Places
<1>2. CASE Full
  <2>1. /\ RingType' /\ Size' = Size /\ overrun_counter_' = overrun_counter_ + 1
        /\ \A k \in 1..(Size - 1) : Queue'[k] = Queue[k + 1]
        /\ Queue'[Size] = m
    BY <1>1, <1>2, PushOverrun
  <2>2. Size = MaxItems /\ Size > 0
    BY <1>1, <1>2, RingSize, Threads
  <2>3. QED
    BY <1>1, <1>2, <2>1, <2>2 DEF Shift
<1>3. CASE ~Full
  <2>1. /\ RingType' /\ Size' = Size + 1 /\ overrun_counter_' = overrun_counter_
        /\ \A k \in 1..Size : Queue'[k] = Queue[k]
        /\ Queue'[Size + 1] = m
    BY <1>1, <1>3, PushWithRoom
  <2>2. overrun_counter_ \in Nat
    BY DEF IInv, LogInv, TypeOK
  <2>3. \A k \in 1..(Size - 0) : k \in 1..Size /\ k + 0 = k
    BY <1>1
  <2>4. QED
    BY <1>1, <1>3, <2>1, <2>2, <2>3 DEF Shift
<1>4. QED
  BY <1>2, <1>3

\* Enqueue: the new message comes in, the oldest of a full ring is lost.
LEMMA EnqueueKeeps ==
  ASSUME IInv, NEW t \in Posters, Enqueue(t)
  PROVE  IInv'
<1> DEFINE m == [id |-> pushed + 1, type |-> IF t = Dtor THEN "terminate" ELSE "log"]
<1>1. PICK d : d = IF Full THEN 1 ELSE 0
  OBVIOUS
<1>2. PICK gone : gone = IF d = 1 THEN {Queue[1].id} ELSE {}
  OBVIOUS
<1>3. /\ pc[t] = "enqueue" /\ pc' = [pc EXCEPT ![t] = "notify"]
      /\ UNCHANGED <<msg, written, ended, alive, sent>>
  BY DEF Enqueue, GoTo, workVars
<1>4. /\ pushed \in Nat /\ pushed' = pushed + 1 /\ PushBack(m)
      /\ m \in Messages /\ m.id = pushed + 1
      /\ Logged \in Int /\ Logged' \in Int /\ Logged <= Logged' /\ Logged' <= pushed'
      /\ Real(m, pushed', Logged')
      /\ \A n \in Messages : Real(n, pushed, Logged) => Real(n, pushed', Logged')
      /\ Logged' = Logged \/ Logged = pushed
  BY NewMessage
<1>5. /\ RingType' /\ Shift(d, 1) /\ Queue'[Size'] = m
      /\ overrun_counter_' = overrun_counter_ + d
      /\ d = 1 => Size > 0
      /\ d \in 0..1
  BY <1>1, <1>4, PushShifts
<1>6. Size \in Nat /\ Size' = Size - d + 1 /\ overrun_counter_ \in Nat
  BY <1>5, Places DEF Shift, IInv, LogInv, TypeOK
<1>7. RingInv' /\ Queued' = (Queued \ gone) \cup {pushed + 1}
  BY <1>2, <1>4, <1>5, ShiftKeeps
<1>8. /\ gone \subseteq Queued
      /\ \A k \in gone, j \in Queued \ gone : k < j
  BY <1>2, <1>5, FrontLeast
<1>9. Held' = Held /\ Written' = Written /\ ended' = ended
  BY <1>3 DEF Held, Written
<1>10. /\ Queued \subseteq 1..pushed /\ Held \subseteq 1..pushed /\ Written \subseteq 1..pushed
       /\ ended \subseteq 1..pushed /\ Lost \subseteq 1..pushed
       /\ IsFiniteSet(Queued) /\ IsFiniteSet(Lost)
  BY Places
<1>11. 1..pushed' = (1..pushed) \cup {pushed + 1} /\ pushed + 1 \notin 1..pushed
  BY <1>4
<1>12. Queued \cap (Held \cup Written \cup ended \cup Lost) = {}
  <2>1. \A k \in Held \cup Written \cup ended \cup Lost, j \in Queued : k < j /\ j \in Int
    BY <1>10, <1>4 DEF IInv, LogInv, InOrder
  <2>2. QED
    BY <2>1
<1>13. Lost' = Lost \cup gone
  BY <1>4, <1>7, <1>8, <1>9, <1>10, <1>11, <1>12 DEF Lost
<1>14. /\ pc'[t] = "notify" /\ \A s \in Posters \cup Workers : s # t => pc'[s] = pc[s]
  BY <1>3 DEF IInv, PcInv
<1>15. TypeOK' /\ PcInv'
  <2>1. pushed' \in 0..MaxId
    BY <1>3, <1>4, IdLeft
  <2>2. PcInv' /\ (\A s \in Posters : pc'[s] \in {"idle", "enqueue", "wait", "notify", "done"})
        /\ \A w \in Workers : pc'[w] \in {"dequeue", "wait", "notify", "process", "over"}
    BY <1>3, <1>14, Threads DEF IInv, LogInv, TypeOK, PcInv
  <2>3. overrun_counter_' \in Nat
    BY <1>5, <1>6
  <2>4. QED
    BY <1>3, <1>5, <2>1, <2>2, <2>3 DEF IInv, LogInv, TypeOK, RingType
<1>16. Conserved'
  <2>1. Cardinality(Queued') = Size'
    <3>1. IsFiniteSet(Queued \ gone) /\ Cardinality(Queued \ gone) = Size - d
      <4>1. CASE d = 1
        <5>1. gone = {Queue[1].id} /\ Queue[1].id \in Queued
          BY <1>2, <1>8, <4>1
        <5>2. QED
          BY <1>10, <4>1, <5>1, FS_RemoveElement DEF IInv, LogInv, Conserved
      <4>2. CASE d = 0
        BY <1>2, <1>6, <1>10, <4>2 DEF IInv, LogInv, Conserved
      <4>3. QED
        BY <1>5, <4>1, <4>2
    <3>2. pushed + 1 \notin Queued \ gone
      BY <1>10, <1>11
    <3>3. QED
      BY <1>5, <1>6, <1>7, <3>1, <3>2, FS_AddElement
  <2>2. Cardinality(Written') = Len(written')
    BY <1>3, <1>9 DEF IInv, LogInv, Conserved
  <2>3. Queued' \cap (Held' \cup Written') = {} /\ Held' \cap Written' = {}
    BY <1>7, <1>9, <1>10, <1>11, <1>12 DEF IInv, LogInv, Conserved
  <2>4. Cardinality(Lost') = overrun_counter_'
    <3>1. Cardinality(Lost) = overrun_counter_
      BY DEF IInv, LogInv, Conserved
    <3>2. CASE d = 1
      <4>1. Lost' = Lost \cup {Queue[1].id} /\ Queue[1].id \notin Lost
        BY <1>2, <1>8, <1>12, <1>13, <3>2
      <4>2. QED
        BY <1>5, <1>10, <3>1, <3>2, <4>1, FS_AddElement
    <3>3. CASE d = 0
      BY <1>2, <1>5, <1>6, <1>13, <3>1, <3>3
    <3>4. QED
      BY <1>5, <3>2, <3>3
  <2>5. QED
    BY <2>1, <2>2, <2>3, <2>4 DEF Conserved
<1>17. InOrder'
  <2>1. ASSUME NEW k \in Held' \cup Written' \cup ended' \cup Lost', NEW j \in Queued'
        PROVE  k < j
    <3>1. k \in Held \cup Written \cup ended \cup Lost \/ k \in gone
      BY <1>9, <1>13
    <3>2. k \in 1..pushed
      BY <1>8, <1>10, <3>1
    <3>3. CASE j = pushed + 1
      BY <1>4, <3>2, <3>3
    <3>4. CASE j \in Queued \ gone
      BY <1>8, <3>1, <3>4 DEF IInv, LogInv, InOrder
    <3>5. QED
      BY <1>7, <3>3, <3>4
  <2>2. \A k \in 2..Size' : Queue'[k - 1].id < Queue'[k].id
    <3>1. \A k \in 2..Size' : k - 1 \in 1..Size' /\ k \in 1..Size' /\ k - 1 < k
      BY <1>5, <1>6
    <3>2. QED
      BY <1>7, <3>1 DEF RingInv
  <2>3. QED
    BY <2>1, <2>2 DEF InOrder
<1>18. HeldInv'
  <2>1. \A w \in Workers : pc'[w] = pc[w] /\ msg'[w] = msg[w]
    BY <1>3, <1>14, Threads
  <2>2. \A w \in Workers : pc[w] \in {"notify", "process"} => Real(msg[w], pushed', Logged')
    <3>1. \A w \in Workers : pc[w] \in {"notify", "process"}
            => Real(msg[w], pushed, Logged) /\ msg[w] \in Messages
      BY DEF IInv, HeldInv, Real
    <3>2. QED
      BY <1>4, <3>1
  <2>3. QED
    BY <2>1, <2>2 DEF IInv, HeldInv
<1>19. Over' = Over
  BY <1>14, Threads DEF Over
<1>20. DoneInv'
  <2>1. Written' \subseteq 1..Logged'
    BY <1>4, <1>9 DEF IInv, DoneInv
  <2>2. ended' \subseteq (Logged' + 1)..pushed'
    <3>1. \A y \in ended : y \in Int /\ Logged + 1 <= y /\ y <= pushed
      BY <1>4 DEF IInv, DoneInv
    <3>2. \A y \in ended : Logged' + 1 <= y /\ y <= pushed'
      BY <1>4, <3>1
    <3>3. QED
      BY <1>4, <1>9, <3>1, <3>2
  <2>3. QED
    BY <1>9, <1>19, <2>1, <2>2 DEF IInv, DoneInv
<1>21. DtorInv'
  <2>1. /\ sent'[Dtor] = sent[Dtor]
        /\ pc'[Dtor] \in {"enqueue", "wait"} => pc[Dtor] \in {"enqueue", "wait"}
        /\ (pc'[Dtor] = "done" => pc[Dtor] = "done")
    BY <1>3, <1>14, Threads
  <2>2. Destroying => Destroying'
    BY <1>3, <1>14, Threads DEF Destroying
  <2>3. \A u \in Loggers : pc'[u] # "done"
    BY <1>14, Threads DEF IInv, DtorInv
  <2>4. QED
    BY <1>3, <1>19, <2>1, <2>2, <2>3 DEF IInv, DtorInv
<1>22. CountInv'
  <2>1. Begun' = Begun
    BY <1>3 DEF Begun
  <2>2. Started' = Started \ {t} /\ t \in Started /\ IsFiniteSet(Started)
    BY <1>3, <1>14, IdLeft, Threads DEF Started
  <2>3. Cardinality(Started') = Cardinality(Started) - 1 /\ Cardinality(Started) \in Nat
    BY <2>2, FS_RemoveElement, FS_CardinalityType
  <2>4. QED
    BY <1>3, <1>4, <2>1, <2>3 DEF IInv, CountInv
<1>23. QED
  BY <1>7, <1>15, <1>16, <1>17, <1>18, <1>20, <1>21, <1>22 DEF IInv, LogInv

\* Dequeue: the oldest message goes from the ring to a worker.
LEMMA DequeueKeeps ==
  ASSUME IInv, NEW w \in Workers, Dequeue(w)
  PROVE  IInv'
<1>1. PICK q : q = Queue[1]
  OBVIOUS
<1>2. /\ ~Empty /\ PopFront
      /\ pc[w] = "dequeue" /\ pc' = [pc EXCEPT ![w] = "notify"]
      /\ msg' = [msg EXCEPT ![w] = v_[head_]]
      /\ UNCHANGED <<written, ended, alive, sent, pushed>>
  BY DEF Dequeue, GoTo, PopFront
<1>3. RingType /\ Size \in Nat /\ Size > 0 /\ pushed \in Nat /\ Logged \in Int
  BY <1>2, Places, RingSize, Threads
<1>4. /\ RingType' /\ Size' = Size - 1 /\ overrun_counter_' = overrun_counter_
      /\ \A k \in 1..(Size - 1) : Queue'[k] = Queue[k + 1]
      /\ q = v_[head_]
  BY <1>1, <1>2, <1>3, PopRing
<1>5. /\ q \in Messages /\ Real(q, pushed, Logged) /\ q.id \in Queued
      /\ \A j \in Queued : j # q.id => q.id < j
      /\ q.id \in 1..MaxId /\ q.id # 0 /\ q # NoMsg
  BY <1>1, <1>3, FrontLeast, MessageIds
<1>6. /\ \A s \in Posters \cup Workers : s # w => pc'[s] = pc[s]
      /\ pc'[w] = "notify" /\ w \notin Posters
  BY <1>2, Threads DEF IInv, PcInv
<1>7. /\ msg[w] = NoMsg /\ msg'[w] = q
      /\ \A x \in Workers : x # w => msg'[x] = msg[x]
  BY <1>2, <1>4 DEF IInv, LogInv, TypeOK, HeldInv
<1>8. Terminated' = Terminated /\ Logged' = Logged
  BY <1>2, <1>6, Threads DEF Terminated, Logged
<1>9. RingInv' /\ Queued' = Queued \ {q.id}
  <2>1. Shift(1, 0)
    BY <1>3, <1>4 DEF Shift
  <2>2. QED
    BY <1>1, <1>2, <1>3, <1>8, <2>1, ShiftKeeps
<1>10. Held' = Held \cup {q.id}
  <2>1. Held' = {msg'[x].id : x \in Workers} \ {0}
    BY DEF Held
  <2>2. msg[w].id = 0
    BY <1>7 DEF NoMsg
  <2>3. QED
    BY <1>5, <1>7, <2>1, <2>2 DEF Held
<1>11. Written' = Written /\ ended' = ended
  BY <1>2 DEF Written
<1>12. Lost' = Lost
  BY <1>2, <1>5, <1>9, <1>10, <1>11 DEF Lost
<1>13. /\ IsFiniteSet(Queued) /\ Held \subseteq 1..pushed /\ Written \subseteq 1..pushed
       /\ ended \subseteq 1..pushed /\ Lost \subseteq 1..pushed /\ Queued \subseteq 1..pushed
  BY Places
<1>14. Queued \cap (Held \cup Written \cup ended \cup Lost) = {}
  <2>1. \A k \in Held \cup Written \cup ended \cup Lost, j \in Queued : k < j /\ j \in Int
    BY <1>13, <1>3 DEF IInv, LogInv, InOrder
  <2>2. QED
    BY <2>1
<1>15. TypeOK' /\ PcInv'
  <2>1. msg' \in [Workers -> Messages \cup {NoMsg}]
    BY <1>2, <1>4, <1>5 DEF IInv, LogInv, TypeOK
  <2>2. PcInv' /\ (\A s \in Posters : pc'[s] \in {"idle", "enqueue", "wait", "notify", "done"})
        /\ \A x \in Workers : pc'[x] \in {"dequeue", "wait", "notify", "process", "over"}
    BY <1>2, <1>6, Threads DEF IInv, LogInv, TypeOK, PcInv
  <2>3. QED
    BY <1>2, <1>4, <2>1, <2>2 DEF IInv, LogInv, TypeOK, RingType
<1>16. Conserved'
  <2>1. Cardinality(Queued') = Size'
    BY <1>4, <1>5, <1>9, <1>13, FS_RemoveElement DEF IInv, LogInv, Conserved
  <2>2. QED
    BY <1>2, <1>4, <1>5, <1>9, <1>10, <1>11, <1>12, <1>14, <2>1 DEF IInv, LogInv, Conserved
<1>17. InOrder'
  <2>1. \A k \in Held' \cup Written' \cup ended' \cup Lost', j \in Queued' : k < j
    BY <1>5, <1>9, <1>10, <1>11, <1>12 DEF IInv, LogInv, InOrder
  <2>2. \A k \in 2..Size' : k - 1 \in 1..Size' /\ k \in 1..Size' /\ k - 1 < k
    BY <1>3, <1>4
  <2>3. \A k \in 2..Size' : Queue'[k - 1].id < Queue'[k].id
    BY <1>9, <2>2 DEF RingInv
  <2>4. QED
    BY <2>1, <2>3 DEF InOrder
<1>18. HeldInv'
  <2>1. \A x \in Workers : IF pc'[x] \in {"notify", "process"} THEN Real(msg'[x], pushed, Logged)
                           ELSE msg'[x] = NoMsg
    BY <1>5, <1>6, <1>7, Threads DEF IInv, HeldInv
  <2>2. ASSUME NEW x \in Workers, x # w PROVE msg[x].id # q.id
    <3>1. msg[x].id = 0 \/ msg[x].id \in Held
      BY DEF Held
    <3>2. QED
      BY <1>5, <1>14, <3>1
  <2>3. \A x, y \in Workers : msg'[x].id = msg'[y].id => x = y \/ msg'[x] = NoMsg
    BY <1>7, <2>2 DEF IInv, HeldInv
  <2>4. QED
    BY <1>2, <1>8, <2>1, <2>3 DEF HeldInv
<1>19. Over' = Over
  BY <1>2, <1>6, Threads DEF Over
<1>20. DoneInv'
  BY <1>2, <1>5, <1>8, <1>10, <1>11, <1>14, <1>19 DEF IInv, DoneInv
<1>21. DtorInv'
  <2>1. \A s \in Posters : pc'[s] = pc[s]
    BY <1>6
  <2>2. QED
    BY <1>2, <1>19, <2>1, Threads DEF IInv, DtorInv, Destroying
<1>22. CountInv'
  <2>1. Started' = Started /\ Begun' = Begun
    BY <1>2, <1>6 DEF Started, Begun
  <2>2. QED
    BY <1>2, <2>1 DEF IInv, CountInv
<1>23. QED
  BY <1>9, <1>15, <1>16, <1>17, <1>18, <1>20, <1>21, <1>22 DEF IInv, LogInv

\* Process: a message in hand is written, or ends the worker.
LEMMA ProcessKeeps ==
  ASSUME IInv, NEW w \in Workers, Process(w)
  PROVE  IInv'
<1>1. PICK m : m = msg[w]
  OBVIOUS
<1>2. /\ pc[w] = "process" /\ msg' = [msg EXCEPT ![w] = NoMsg]
      /\ UNCHANGED <<head_, tail_, v_, overrun_counter_, pushed, alive, sent>>
      /\ \/ /\ m.type = "terminate"
            /\ pc' = [pc EXCEPT ![w] = "over"]
            /\ ended' = ended \cup {m.id} /\ written' = written
         \/ /\ m.type # "terminate"
            /\ pc' = [pc EXCEPT ![w] = "dequeue"]
            /\ written' = Append(written, m.id) /\ ended' = ended
  BY <1>1 DEF Process, GoTo, ringVars
<1>3. /\ m \in Messages /\ m.id <= pushed /\ (m.type = "terminate" <=> m.id > Logged)
      /\ m.id \in 1..MaxId /\ m.id # 0
  BY <1>1, <1>2, MessageIds DEF IInv, HeldInv, Real
<1>4. /\ pushed \in Nat /\ Logged \in Int /\ Size \in Nat
      /\ IsFiniteSet(Written) /\ IsFiniteSet(ended)
  BY Places
<1>5. m.id \in 1..pushed /\ m.id \in Held
  BY <1>1, <1>3, <1>4, Threads DEF Held
<1>6. /\ \A s \in Posters \cup Workers : s # w => pc'[s] = pc[s]
      /\ pc'[w] = IF m.type = "terminate" THEN "over" ELSE "dequeue"
      /\ w \notin Posters
  BY <1>2, Threads DEF IInv, PcInv
<1>7. msg'[w] = NoMsg /\ \A x \in Workers : x # w => msg'[x] = msg[x]
  BY <1>2 DEF IInv, LogInv, TypeOK
<1>8. Terminated' = Terminated /\ Logged' = Logged
  BY <1>2, <1>6, Threads DEF Terminated, Logged
<1>9. Size' = Size /\ Queue' = Queue /\ Queued' = Queued
  BY <1>2 DEF Size, Queue, Queued
<1>10. Held' = Held \ {m.id}
  <2>1. Held' = {msg'[x].id : x \in Workers} \ {0}
    BY DEF Held
  <2>2. \A x \in Workers : x # w => msg[x].id # m.id
    BY <1>1, <1>3 DEF IInv, HeldInv, NoMsg
  <2>3. msg'[w].id = 0
    BY <1>7 DEF NoMsg
  <2>4. QED
    BY <1>7, <2>1, <2>2, <2>3, <1>1 DEF Held
<1>11. m.type # "terminate" => Written' = Written \cup {m.id} /\ Len(written') = Len(written) + 1
                               /\ written' \in Seq(1..MaxId)
  <2>1. written \in Seq(1..MaxId)
    BY DEF IInv, LogInv, TypeOK
  <2>2. SUFFICES ASSUME written' = Append(written, m.id)
                 PROVE  Written' = Written \cup {m.id} /\ Len(written') = Len(written) + 1
                        /\ written' \in Seq(1..MaxId)
    BY <1>2
  <2>3. /\ Len(written') = Len(written) + 1 /\ Len(written) \in Nat
        /\ written' \in Seq(1..MaxId)
        /\ written'[Len(written) + 1] = m.id
        /\ \A k \in 1..Len(written) : written'[k] = written[k]
    BY <1>3, <2>1, <2>2
  <2>4. \A k \in 1..Len(written') : k \in 1..Len(written) \/ k = Len(written) + 1
    BY <2>3
  <2>5. QED
    BY <2>3, <2>4 DEF Written
<1>12. m.type = "terminate" => Written' = Written
  BY <1>2 DEF Written
<1>13. Lost' = Lost
  <2>1. Held' \cup Written' \cup ended' = Held \cup Written \cup ended
    BY <1>2, <1>5, <1>10, <1>11, <1>12
  <2>2. QED
    BY <1>2, <1>9, <2>1 DEF Lost
<1>14. TypeOK' /\ PcInv'
  <2>1. msg' \in [Workers -> Messages \cup {NoMsg}]
    BY <1>2 DEF IInv, LogInv, TypeOK
  <2>2. PcInv' /\ (\A s \in Posters : pc'[s] \in {"idle", "enqueue", "wait", "notify", "done"})
        /\ \A x \in Workers : pc'[x] \in {"dequeue", "wait", "notify", "process", "over"}
    BY <1>2, <1>6, Threads DEF IInv, LogInv, TypeOK, PcInv
  <2>3. written' \in Seq(1..MaxId) /\ ended' \subseteq 1..MaxId
    BY <1>2, <1>3, <1>11 DEF IInv, LogInv, TypeOK
  <2>4. QED
    BY <1>2, <2>1, <2>2, <2>3 DEF IInv, LogInv, TypeOK
<1>15. Conserved'
  <2>1. Cardinality(Written') = Len(written')
    <3>1. m.id \notin Written
      BY <1>5 DEF IInv, LogInv, Conserved
    <3>2. /\ Cardinality(Written) = Len(written)
          /\ Cardinality(Written \cup {m.id}) = Cardinality(Written) + 1
      BY <1>4, <3>1, FS_AddElement DEF IInv, LogInv, Conserved
    <3>3. QED
      BY <1>2, <1>11, <1>12, <3>2
  <2>2. Queued' \cap (Held' \cup Written') = {} /\ Held' \cap Written' = {}
    BY <1>5, <1>9, <1>10, <1>11, <1>12 DEF IInv, LogInv, Conserved
  <2>3. QED
    BY <1>2, <1>9, <1>13, <2>1, <2>2 DEF IInv, LogInv, Conserved
<1>16. InOrder'
  <2>1. Held' \cup Written' \cup ended' = Held \cup Written \cup ended
    BY <1>2, <1>5, <1>10, <1>11, <1>12
  <2>2. QED
    BY <1>9, <1>13, <2>1 DEF IInv, LogInv, InOrder
<1>17. RingInv'
  BY <1>2, <1>8, <1>9 DEF IInv, RingInv
<1>18. HeldInv'
  <2>1. \A x \in Workers : IF pc'[x] \in {"notify", "process"} THEN Real(msg'[x], pushed, Logged)
                           ELSE msg'[x] = NoMsg
    BY <1>6, <1>7, Threads DEF IInv, HeldInv
  <2>2. \A x, y \in Workers : msg'[x].id = msg'[y].id => x = y \/ msg'[x] = NoMsg
    <3>1. \A x \in Workers : msg[x].id = 0 => msg[x] = NoMsg
      BY MessageIds DEF IInv, LogInv, TypeOK
    <3>2. QED
      BY <1>7, <3>1 DEF IInv, HeldInv, NoMsg
  <2>3. QED
    BY <1>2, <1>8, <2>1, <2>2 DEF HeldInv
<1>19. IF m.type = "terminate" THEN Over' = Over \cup {w} /\ w \notin Over ELSE Over' = Over
  BY <1>2, <1>6, Threads DEF Over
<1>20. DoneInv'
  <2>1. Written' \subseteq 1..Logged'
    <3>1. m.type # "terminate" => m.id \in 1..Logged
      BY <1>3, <1>4, Threads
    <3>2. QED
      BY <1>8, <1>11, <1>12, <3>1 DEF IInv, DoneInv
  <2>2. ended' \subseteq (Logged' + 1)..pushed'
    <3>1. m.type = "terminate" => m.id \in (Logged + 1)..pushed
      BY <1>3, <1>4, Threads
    <3>2. QED
      BY <1>2, <1>8, <3>1 DEF IInv, DoneInv
  <2>3. Held' \cap ended' = {}
    BY <1>2, <1>10 DEF IInv, DoneInv
  <2>4. Cardinality(ended') = Cardinality(Over')
    <3>1. m.id \notin ended
      BY <1>5 DEF IInv, DoneInv
    <3>2. IsFiniteSet(Over)
      BY Threads, FS_Subset DEF Over
    <3>3. /\ Cardinality(ended \cup {m.id}) = Cardinality(ended) + 1
          /\ w \notin Over => Cardinality(Over \cup {w}) = Cardinality(Over) + 1
      BY <1>4, <3>1, <3>2, FS_AddElement
    <3>4. QED
      BY <1>2, <1>19, <3>3 DEF IInv, DoneInv
  <2>5. QED
    BY <2>1, <2>2, <2>3, <2>4 DEF DoneInv
<1>21. DtorInv'
  <2>1. \A s \in Posters : pc'[s] = pc[s]
    BY <1>6
  <2>2. pc[Dtor] # "done"
    BY <1>2 DEF IInv, DtorInv, Over
  <2>3. QED
    BY <1>2, <2>1, <2>2, Threads DEF IInv, DtorInv, Destroying
<1>22. CountInv'
  <2>1. Started' = Started /\ Begun' = Begun
    BY <1>2, <1>6 DEF Started, Begun
  <2>2. QED
    BY <1>2, <2>1 DEF IInv, CountInv
<1>23. QED
  BY <1>14, <1>15, <1>16, <1>17, <1>18, <1>20, <1>21, <1>22 DEF IInv, LogInv

-----------------------------------------------------------------------------
(* The theorems.                                                           *)

\* At first there is no message.
LEMMA InitHolds ==
  ASSUME Init
  PROVE  IInv
<1>1. /\ Size = 0 /\ Over = {} /\ Started = {} /\ Begun = {} /\ Written = {} /\ ended = {}
      /\ Held = {} /\ Queued = {} /\ pushed = 0 /\ written = <<>> /\ overrun_counter_ = 0
  <2>1. Size = 0 /\ pushed = 0 /\ written = <<>> /\ overrun_counter_ = 0 /\ ended = {}
    BY DEF Init, Size
  <2>2. Queued = {} /\ Written = {}
    BY <2>1 DEF Queued, Written
  <2>3. Held = {}
    BY DEF Init, Held, NoMsg
  <2>4. Over = {} /\ Started = {}
    BY Threads DEF Init, Over, Started
  <2>5. Begun = {}
    BY Threads DEF Init, Begun
  <2>6. QED
    BY <2>1, <2>2, <2>3, <2>4, <2>5
<1>2. Lost = {}
  BY <1>1 DEF Lost
<1>3. Cardinality({}) = 0 /\ Len(<<>>) = 0
  BY FS_EmptySet
<1>4. TypeOK
  <2>1. \A w \in Workers : pc[w] = "dequeue"
    BY DEF Init
  <2>2. \A t \in Posters : pc[t] = "idle"
    BY Threads DEF Init
  <2>3. written \in Seq(1..MaxId)
    BY <1>1
  <2>4. QED
    BY <2>1, <2>2, <2>3, Threads DEF Init, TypeOK
<1>5. Conserved
  BY <1>1, <1>2, <1>3 DEF Conserved
<1>6. InOrder
  BY <1>1 DEF InOrder
<1>7. PcInv
  BY DEF Init, PcInv
<1>8. pc[Dtor] = "idle" /\ sent[Dtor] = 0
  BY Threads DEF Init
<1>9. DtorInv
  BY <1>8, Threads DEF Init, DtorInv
<1>10. CountInv
  BY <1>1, <1>3, <1>8, Threads DEF Init, CountInv
<1>11. RingInv
  BY <1>1 DEF RingInv
<1>12. HeldInv
  BY DEF Init, HeldInv
<1>13. DoneInv
  BY <1>1, <1>3 DEF DoneInv
<1>14. QED
  BY <1>4, <1>5, <1>6, <1>7, <1>9, <1>10, <1>11, <1>12, <1>13 DEF IInv, LogInv

\* IInv holds in every reachable state.
THEOREM Inductive == Spec => []IInv
<1>1. Init => IInv
  BY InitHolds
<1>2. IInv /\ [Next]_vars => IInv'
  <2> SUFFICES ASSUME IInv, [Next]_vars PROVE IInv'
    OBVIOUS
  <2>1. ASSUME NEW t \in Loggers, Log(t) PROVE IInv'
    BY <2>1, Threads, BeginKeeps DEF Log, GoTo
  <2>2. CASE Terminate
    BY <2>2, Threads, BeginKeeps DEF Terminate, GoTo, Terminates
  <2>3. CASE Release
    BY <2>3, ReleaseKeeps
  <2>4. CASE Join
    BY <2>4, JoinKeeps
  <2>5. ASSUME NEW t \in Posters, Enqueue(t) PROVE IInv'
    BY <2>5, EnqueueKeeps
  <2>6. ASSUME NEW w \in Workers, Dequeue(w) PROVE IInv'
    BY <2>6, DequeueKeeps
  <2>7. ASSUME NEW w \in Workers, Process(w) PROVE IInv'
    BY <2>7, ProcessKeeps
  <2>8. CASE \/ \E t \in Posters : WaitForRoom(t) \/ NotifyPush(t)
             \/ \E w \in Workers : WaitForMessage(w) \/ TimedOut(w) \/ NotifyPop(w)
    BY <2>8, WaitingKeeps
  <2>9. CASE UNCHANGED vars
    <3>1. UNCHANGED <<ringVars, workVars, pc, alive, sent>>
      BY <2>9 DEF vars
    <3>2. ControlType'
      BY <3>1 DEF IInv, LogInv, TypeOK, PcInv, ControlType
    <3>3. Started' = Started /\ Over' = Over /\ \A w \in Workers : Working(w)' <=> Working(w)
      BY <3>1 DEF Started, Over, Working
    <3>4. DtorInv'
      BY <3>1, <3>3 DEF IInv, DtorInv, Destroying
    <3>5. QED
      BY <3>1, <3>2, <3>3, <3>4, QuietKeeps
  <2>10. QED
    BY <2>1, <2>2, <2>3, <2>4, <2>5, <2>6, <2>7, <2>8, <2>9 DEF Next
<1>3. QED
  BY <1>1, <1>2, PTL DEF Spec

\* Every message pushed is in one place, or overrun and counted, and the queue keeps
\* the order of the pushes, whatever the threads do (thread_pool-inl.h, mpmc_blocking_q.h).
THEOREM LogCorrect == Spec => []LogInv
<1>1. IInv => LogInv
  BY DEF IInv
<1>2. QED
  BY <1>1, Inductive, PTL

\* When ~thread_pool returns, everything that was logged and not overrun is written.
THEOREM Drained == Spec => []DrainedAtExit
<1>1. IInv => DrainedAtExit
  <2> SUFFICES ASSUME IInv, pc[Dtor] = "done"
               PROVE  /\ Size = 0 /\ Held = {}
                      /\ Cardinality(ended) = Cardinality(Workers)
                      /\ Len(written) + overrun_counter_ = pushed - Cardinality(Workers)
    BY DEF DrainedAtExit
  <2> DEFINE W == Cardinality(Workers)
  <2>1. sent[Dtor] = W /\ Over = Workers
    BY DEF IInv, DtorInv
  <2>2. /\ pushed \in Nat /\ Size \in Nat /\ W \in Nat /\ IsFiniteSet(ended)
        /\ IsFiniteSet(Written) /\ IsFiniteSet(Lost) /\ IsFiniteSet(Queued)
        /\ Lost \subseteq 1..pushed /\ Written \subseteq 1..pushed /\ ended \subseteq 1..pushed
        /\ Queued \subseteq 1..pushed
    BY Places, Threads
  <2>3. Logged = pushed - W
    BY <2>1 DEF Logged, Terminated
  <2>4. Cardinality(ended) = W
    BY <2>1 DEF IInv, DoneInv
  <2>5. Held = {}
    <3>1. \A w \in Workers : msg[w] = NoMsg
      BY <2>1 DEF IInv, HeldInv, Over
    <3>2. QED
      BY <3>1 DEF Held, NoMsg
  <2>6. W > 0
    BY <2>2, Threads, AsyncAssumption, FS_EmptySet
  <2>7. ended = (Logged + 1)..pushed
    <3>1. /\ IsFiniteSet((Logged + 1)..pushed)
          /\ Cardinality((Logged + 1)..pushed) = IF Logged + 1 > pushed THEN 0
                                                ELSE pushed - (Logged + 1) + 1
      <4>1. Logged + 1 \in Int /\ pushed \in Int
        BY <2>2, <2>3
      <4>2. QED
        BY <4>1, FS_Interval
    <3>2. Cardinality((Logged + 1)..pushed) = W
      BY <2>2, <2>3, <2>6, <3>1
    <3>3. ended \in SUBSET ((Logged + 1)..pushed)
      BY DEF IInv, DoneInv
    <3>4. QED
      BY <2>4, <3>1, <3>2, <3>3, FS_Subset
  <2>8. pushed \in ended
    BY <2>2, <2>3, <2>6, <2>7
  <2>9. Queued = {}
    <3>1. \A j \in Queued : pushed < j /\ j \in 1..pushed
      BY <2>2, <2>8 DEF IInv, LogInv, InOrder
    <3>2. QED
      BY <2>2, <3>1
  <2>10. Size = 0
    BY <2>9, FS_EmptySet DEF IInv, LogInv, Conserved
  <2>11. 1..pushed = (Written \cup Lost) \cup ended
    BY <2>2, <2>5, <2>9 DEF Lost
  <2>12. Written \cap Lost = {}
    BY DEF Lost
  <2>13. (Written \cup Lost) \cap ended = {}
    <3>1. \A y \in Written : y \in 1..Logged
      BY DEF IInv, DoneInv
    <3>2. \A y \in Written : y \notin ended
      BY <2>2, <2>3, <2>7, <3>1
    <3>3. QED
      BY <3>2 DEF Lost
  <2>14. /\ IsFiniteSet(Written \cup Lost)
         /\ Cardinality(Written \cup Lost) = Cardinality(Written) + Cardinality(Lost)
    BY <2>2, <2>12, CountDisjoint
  <2>15. pushed = Cardinality(Written) + Cardinality(Lost) + W
    <3>1. Cardinality((Written \cup Lost) \cup ended)
            = Cardinality(Written \cup Lost) + Cardinality(ended)
      BY <2>2, <2>13, <2>14, CountDisjoint
    <3>2. Cardinality(1..pushed) = pushed
      BY <2>2, CountTo
    <3>3. QED
      BY <2>4, <2>11, <2>14, <3>1, <3>2
  <2>16. Cardinality(Written) = Len(written) /\ Cardinality(Lost) = overrun_counter_
    BY DEF IInv, LogInv, Conserved
  <2>17. Cardinality(Written) \in Nat /\ Cardinality(Lost) \in Nat
    BY <2>2, FS_CardinalityType
  <2>18. QED
    BY <2>2, <2>4, <2>5, <2>10, <2>15, <2>16, <2>17
<1>2. QED
  BY <1>1, Inductive, PTL

\* When the ring moves on, the queue is the rest of the queue with what was added.
LEMMA ShiftedQueue ==
  ASSUME RingType, NEW d \in 0..1, NEW n \in 0..1, Shift(d, n), d = 1 => Size > 0
  PROVE  LET rest == IF d = 1 THEN Tail(Queue) ELSE Queue
         IN  Queue' = IF n = 1 THEN Append(rest, Queue'[Size']) ELSE rest
<1>1. Size \in Nat /\ Queue \in Seq(Messages \cup {NoMsg}) /\ Len(Queue) = Size
  BY RingSize, QueueSeq, Threads
<1>2. PICK rest : rest = IF d = 1 THEN Tail(Queue) ELSE Queue
  OBVIOUS
<1>3. /\ rest \in Seq(Messages \cup {NoMsg}) /\ Len(rest) = Size - d
      /\ \A k \in 1..(Size - d) : rest[k] = Queue[k + d]
  <2>1. CASE d = 1
    <3>1. Queue # <<>>
      BY <1>1, <2>1
    <3>2. QED
      BY <1>1, <1>2, <2>1, <3>1
  <2>2. CASE d = 0
    BY <1>1, <1>2, <2>2
  <2>3. QED
    BY <2>1, <2>2
<1>4. Size' = Size - d + n /\ \A k \in 1..(Size - d) : Queue'[k] = rest[k]
  BY <1>3 DEF Shift
<1>5. Queue' = [k \in 1..Size' |-> Queue'[k]]
  BY DEF Queue
<1>6. rest = [k \in 1..(Size - d) |-> rest[k]]
  BY <1>3
<1>7. CASE n = 0
  BY <1>1, <1>2, <1>4, <1>5, <1>6, <1>7
<1>8. CASE n = 1
  <2>1. Append(rest, Queue'[Size']) = [k \in 1..(Size - d + 1) |->
                                       IF k = Size - d + 1 THEN Queue'[Size'] ELSE rest[k]]
    BY <1>1, <1>3
  <2>2. \A k \in 1..Size' : Queue'[k] = IF k = Size - d + 1 THEN Queue'[Size'] ELSE rest[k]
    BY <1>1, <1>4, <1>8
  <2>3. QED
    BY <1>1, <1>2, <1>4, <1>5, <1>8, <2>1, <2>2
<1>9. QED
  BY <1>7, <1>8

\* The ring buffer, its wrap-around and its free slot implement a bounded queue that
\* overruns the oldest (circular_q.h).
THEOREM Implements == Spec => LogQueueSpec
<1>1. Init => LQ!Init
  <2> SUFFICES ASSUME Init PROVE Queue = <<>> /\ overrun_counter_ = 0
    BY DEF LQ!Init
  <2>1. Size = 0
    BY DEF Init, Size
  <2>2. QED
    BY <2>1 DEF Init, Queue
<1>2. IInv /\ [Next]_vars => [LQ!Next]_(LQ!queueVars)
  <2> SUFFICES ASSUME IInv, [Next]_vars PROVE LQ!Next \/ UNCHANGED <<Queue, overrun_counter_>>
    BY DEF LQ!queueVars
  <2>1. RingType /\ Size \in Nat /\ Len(Queue) = Size
    BY Places, QueueSeq
  <2>2. ASSUME NEW t \in Posters, Enqueue(t) PROVE LQ!Next
    <3>1. PICK m \in Messages : PushBack(m)
      BY <2>2, NewMessage
    <3>2. PICK d : d = IF Full THEN 1 ELSE 0
      OBVIOUS
    <3>3. /\ Shift(d, 1) /\ Queue'[Size'] = m /\ d \in 0..1
          /\ overrun_counter_' = overrun_counter_ + d
          /\ d = 1 => Size > 0
      BY <3>1, <3>2, PushShifts
    <3>4. Queue' = Append(IF d = 1 THEN Tail(Queue) ELSE Queue, m)
      BY <2>1, <3>3, ShiftedQueue
    <3>5. Len(Queue) < MaxItems <=> d = 0
      BY <2>1, <3>2, RingSize, Threads
    <3>6. overrun_counter_ \in Nat
      BY DEF IInv, LogInv, TypeOK
    <3>7. LQ!Push(m)
      BY <3>2, <3>3, <3>4, <3>5, <3>6 DEF LQ!Push
    <3>8. QED
      BY <3>7 DEF LQ!Next
  <2>3. ASSUME NEW w \in Workers, Dequeue(w) PROVE LQ!Next
    <3>1. PopFront /\ ~Empty
      BY <2>3 DEF Dequeue
    <3>2. Shift(1, 0) /\ Size > 0 /\ overrun_counter_' = overrun_counter_
      BY <2>1, <3>1, PopRing, RingSize DEF Shift
    <3>3. Queue' = Tail(Queue)
      BY <2>1, <3>2, ShiftedQueue
    <3>4. Queue # <<>>
      BY <2>1, <3>2
    <3>5. QED
      BY <3>2, <3>3, <3>4 DEF LQ!Next, LQ!Pop
  <2>4. ASSUME \/ \E t \in Loggers : Log(t)
               \/ Release \/ Terminate \/ Join
               \/ \E t \in Posters : WaitForRoom(t) \/ NotifyPush(t)
               \/ \E w \in Workers : WaitForMessage(w) \/ TimedOut(w) \/ NotifyPop(w) \/ Process(w)
               \/ UNCHANGED vars
        PROVE  UNCHANGED <<Queue, overrun_counter_>>
    <3>1. UNCHANGED ringVars
      BY <2>4 DEF Log, Release, Terminate, Join, WaitForRoom, NotifyPush, WaitForMessage, TimedOut,
         NotifyPop, NotifyOne, Process, vars
    <3>2. QED
      BY <3>1 DEF ringVars, Queue, Size
  <2>5. QED
    BY <2>2, <2>3, <2>4 DEF Next
<1>3. QED
  BY <1>1, <1>2, Inductive, PTL DEF Spec, LogQueueSpec, LQ!Spec

-----------------------------------------------------------------------------
(* Wake-ups.                                                               *)

\* Threads can be counted.
LEMMA Crowds ==
  ASSUME NEW S \in {Posters, Workers}, NEW x
  PROVE  IsFiniteSet(At(S, x)) /\ Many(S, x) \in Nat
<1>1. IsFiniteSet(S) /\ At(S, x) \subseteq S
  BY Threads DEF At
<1>2. IsFiniteSet(At(S, x))
  BY <1>1, FS_Subset
<1>3. QED
  BY <1>2, FS_CardinalityType DEF Many

\* So can they after a step.
LEMMA PrimedCrowds ==
  ASSUME NEW S \in {Posters, Workers}, NEW x
  PROVE  Many(S, x)' \in Nat
<1>1. IsFiniteSet(S) /\ At(S, x)' \subseteq S
  BY Threads DEF At
<1>2. IsFiniteSet(At(S, x)')
  BY <1>1, FS_Subset
<1>3. QED
  BY <1>2, FS_CardinalityType DEF Many

\* Nobody comes to a place or leaves it.
LEMMA Stays ==
  ASSUME NEW S, NEW x, \A u \in S : pc'[u] = x <=> pc[u] = x
  PROVE  At(S, x)' = At(S, x) /\ Many(S, x)' = Many(S, x)
<1>1. At(S, x)' = At(S, x)
  BY DEF At
<1>2. QED
  BY <1>1 DEF Many

\* Somebody comes.
LEMMA Comes ==
  ASSUME NEW S \in {Posters, Workers}, NEW x, NEW t \in S, pc[t] # x, pc'[t] = x,
         \A u \in S : u # t => (pc'[u] = x <=> pc[u] = x)
  PROVE  Many(S, x)' = Many(S, x) + 1
<1>1. At(S, x)' = At(S, x) \cup {t} /\ t \notin At(S, x)
  BY DEF At
<1>2. Cardinality(At(S, x) \cup {t}) = Many(S, x) + 1
  BY <1>1, Crowds, FS_AddElement DEF Many
<1>3. QED
  BY <1>1, <1>2 DEF Many

\* Somebody leaves.
LEMMA Goes ==
  ASSUME NEW S \in {Posters, Workers}, NEW x, NEW t \in S, pc[t] = x, pc'[t] # x,
         \A u \in S : u # t => (pc'[u] = x <=> pc[u] = x)
  PROVE  Many(S, x)' = Many(S, x) - 1
<1>1. At(S, x)' = At(S, x) \ {t} /\ t \in At(S, x)
  BY DEF At
<1>2. Cardinality(At(S, x) \ {t}) = Many(S, x) - 1
  BY <1>1, Crowds, FS_RemoveElement DEF Many
<1>3. QED
  BY <1>1, <1>2 DEF Many

\* The invariant of wake-ups, as far as a step changes what it counts: room or messages
\* become more only by as much as those who know of them.
LEMMA KnownKeeps ==
  ASSUME IInv, NoLostWakeUp, NEW z \in Nat, Size' = z,
         NEW look \in Int, Many(Posters, "enqueue")' = Many(Posters, "enqueue") + look,
         NEW tell \in Int, Many(Workers, "notify")' = Many(Workers, "notify") + tell,
         NEW ask \in Int, Many(Workers, "dequeue")' = Many(Workers, "dequeue") + ask,
         NEW call \in Int, Many(Posters, "notify")' = Many(Posters, "notify") + call,
         \/ ~Asleep(Posters)' \/ z = MaxItems
         \/ Asleep(Posters) /\ Size - z <= look + tell,
         \/ ~Asleep(Workers)' \/ z = 0
         \/ Asleep(Workers) /\ z - Size <= ask + call
  PROVE  NoLostWakeUp'
<1>1. /\ Many(Posters, "enqueue") \in Nat /\ Many(Workers, "notify") \in Nat
      /\ Many(Workers, "dequeue") \in Nat /\ Many(Posters, "notify") \in Nat
  BY Crowds
<1>2. /\ Many(Posters, "enqueue")' \in Nat /\ Many(Workers, "notify")' \in Nat
      /\ Many(Workers, "dequeue")' \in Nat /\ Many(Posters, "notify")' \in Nat
  BY PrimedCrowds
<1>3. Size \in Nat /\ MaxItems \in Nat
  BY Places, RingSize, Threads
<1>4. PICK e \in Nat, f \in Nat, g \in Nat, h \in Nat :
      /\ e = Many(Posters, "enqueue") /\ f = Many(Workers, "notify")
      /\ g = Many(Workers, "dequeue") /\ h = Many(Posters, "notify")
  BY <1>1
<1>5. /\ Asleep(Posters) => MaxItems - Size <= f + e
      /\ Asleep(Workers) => Size <= h + g
  BY <1>4 DEF NoLostWakeUp, RoomIsKnown, MessagesAreKnown
<1>6. e + look \in Nat /\ f + tell \in Nat /\ g + ask \in Nat /\ h + call \in Nat
  BY <1>2, <1>4
<1>7. Asleep(Posters)' => MaxItems - z <= (f + tell) + (e + look)
  BY <1>3, <1>4, <1>5, <1>6
<1>8. Asleep(Workers)' => z <= (h + call) + (g + ask)
  BY <1>3, <1>4, <1>5, <1>6
<1>9. RoomIsKnown' /\ MessagesAreKnown'
  BY <1>4, <1>7, <1>8 DEF RoomIsKnown, MessagesAreKnown
<1>10. QED
  BY <1>9 DEF NoLostWakeUp

\* One thread goes from one place to another.
LEMMA OneGoes ==
  ASSUME PcInv, NEW S \in {Posters, Workers}, NEW x, NEW t \in Posters \cup Workers, NEW to,
         pc' = [pc EXCEPT ![t] = to]
  PROVE  Many(S, x)' = Many(S, x) + (IF t \in S /\ to = x THEN 1 ELSE 0)
                                  - (IF t \in S /\ pc[t] = x THEN 1 ELSE 0)
<1>1. \A u \in S : pc'[u] = IF u = t THEN to ELSE pc[u]
  BY DEF PcInv
<1>2. PICK a \in Int : a = Many(S, x)
  BY Crowds
<1>3. CASE t \in S /\ to = x /\ pc[t] # x
  BY <1>1, <1>2, <1>3, Comes
<1>4. CASE t \in S /\ to # x /\ pc[t] = x
  BY <1>1, <1>2, <1>4, Goes
<1>5. CASE t \notin S \/ (to = x <=> pc[t] = x)
  BY <1>1, <1>2, <1>5, Stays
<1>6. QED
  BY <1>3, <1>4, <1>5

\* And nobody else falls asleep.
LEMMA OneSleeps ==
  ASSUME PcInv, NEW S \in {Posters, Workers}, NEW t \in Posters \cup Workers, NEW to,
         pc' = [pc EXCEPT ![t] = to], t \notin S \/ to # "wait", Asleep(S)'
  PROVE  Asleep(S)
<1>1. PICK u \in S : pc'[u] = "wait"
  BY DEF Asleep
<1>2. u \in Posters \cup Workers
  OBVIOUS
<1>3. pc[u] = "wait"
  BY <1>1, <1>2 DEF PcInv
<1>4. QED
  BY <1>3 DEF Asleep

\* The steps of one thread alone, z being what is in the ring after it.
LEMMA OneKeeps ==
  ASSUME IInv, NoLostWakeUp, NEW z \in Nat, Size' = z,
         NEW t \in Posters \cup Workers, NEW to, pc' = [pc EXCEPT ![t] = to],
         \/ t \in Posters /\ pc[t] = "idle" /\ to \in {"enqueue", "done"} /\ z = Size
         \/ t \in Posters /\ pc[t] = "enqueue" /\ to = "wait" /\ z = Size /\ z = MaxItems
         \/ t \in Posters /\ pc[t] = "enqueue" /\ to = "notify"
              /\ (z = Size + 1 \/ (z = Size /\ z = MaxItems))
         \/ t \in Posters /\ pc[t] = "notify" /\ to = "idle" /\ z = Size /\ ~Asleep(Workers)
         \/ t \in Workers /\ pc[t] = "dequeue" /\ to = "wait" /\ z = Size /\ z = 0
         \/ t \in Workers /\ pc[t] = "dequeue" /\ to = "notify" /\ z = Size - 1
         \/ t \in Workers /\ pc[t] = "wait" /\ to = "dequeue" /\ z = Size
         \/ t \in Workers /\ pc[t] = "notify" /\ to = "process" /\ z = Size /\ ~Asleep(Posters)
         \/ t \in Workers /\ pc[t] = "process" /\ to \in {"over", "dequeue"} /\ z = Size
  PROVE  NoLostWakeUp'
<1>1. PcInv /\ Size \in Nat /\ MaxItems \in Nat
  BY Places, Threads DEF IInv
<1>2. t \in Posters <=> t \notin Workers
  BY Threads
<1>3. /\ t \in Workers \/ to # "wait" => (Asleep(Posters)' => Asleep(Posters))
      /\ t \in Posters \/ to # "wait" => (Asleep(Workers)' => Asleep(Workers))
  BY <1>1, <1>2, OneSleeps
<1>4. PICK look, call, tell, ask :
      /\ look = (IF t \in Posters /\ to = "enqueue" THEN 1 ELSE 0)
                - (IF t \in Posters /\ pc[t] = "enqueue" THEN 1 ELSE 0)
      /\ call = (IF t \in Posters /\ to = "notify" THEN 1 ELSE 0)
                - (IF t \in Posters /\ pc[t] = "notify" THEN 1 ELSE 0)
      /\ tell = (IF t \in Workers /\ to = "notify" THEN 1 ELSE 0)
                - (IF t \in Workers /\ pc[t] = "notify" THEN 1 ELSE 0)
      /\ ask = (IF t \in Workers /\ to = "dequeue" THEN 1 ELSE 0)
               - (IF t \in Workers /\ pc[t] = "dequeue" THEN 1 ELSE 0)
  OBVIOUS
<1>5. look \in Int /\ call \in Int /\ tell \in Int /\ ask \in Int
  BY <1>4
<1>6. /\ Many(Posters, "enqueue")' = Many(Posters, "enqueue") + look
      /\ Many(Posters, "notify")' = Many(Posters, "notify") + call
  BY <1>1, <1>4, OneGoes, Crowds
<1>7. /\ Many(Workers, "notify")' = Many(Workers, "notify") + tell
      /\ Many(Workers, "dequeue")' = Many(Workers, "dequeue") + ask
  BY <1>1, <1>4, OneGoes, Crowds
<1>8. \/ ~Asleep(Posters)' \/ z = MaxItems
      \/ Asleep(Posters) /\ Size - z <= look + tell
  BY <1>1, <1>2, <1>3, <1>4
<1>9. \/ ~Asleep(Workers)' \/ z = 0
      \/ Asleep(Workers) /\ z - Size <= ask + call
  BY <1>1, <1>2, <1>3, <1>4
<1>10. QED
  BY <1>5, <1>6, <1>7, <1>8, <1>9, KnownKeeps

\* notify_one wakes somebody: who told is replaced by who looks.
LEMMA TwoKeep ==
  ASSUME IInv, NoLostWakeUp, UNCHANGED ringVars, NEW t, NEW s, pc[t] = "notify", pc[s] = "wait",
         \/ /\ t \in Posters /\ s \in Workers
            /\ pc' = [pc EXCEPT ![t] = "idle", ![s] = "dequeue"]
         \/ /\ t \in Workers /\ s \in Posters
            /\ pc' = [pc EXCEPT ![t] = "process", ![s] = "enqueue"]
  PROVE  NoLostWakeUp'
<1>1. /\ \A u \in Posters \cup Workers : u # t /\ u # s => pc'[u] = pc[u]
      /\ \/ t \in Posters /\ s \in Workers /\ pc'[t] = "idle" /\ pc'[s] = "dequeue"
         \/ t \in Workers /\ s \in Posters /\ pc'[t] = "process" /\ pc'[s] = "enqueue"
  BY Threads DEF IInv, PcInv
<1>2. Size \in Nat
  BY Places
<1>3. PICK z \in Nat : z = Size
  BY <1>2
<1>4. Size' = z
  BY <1>3 DEF ringVars, Size
<1>5. /\ Asleep(Posters)' => Asleep(Posters)
      /\ Asleep(Workers)' => Asleep(Workers)
  BY <1>1, Threads DEF Asleep
<1>6. /\ ~Asleep(Posters)' \/ (Asleep(Posters) /\ Size - z <= 0)
      /\ ~Asleep(Workers)' \/ (Asleep(Workers) /\ z - Size <= 0)
  BY <1>2, <1>3, <1>5
<1>7. CASE t \in Posters
  <2>1. /\ Many(Posters, "enqueue")' = Many(Posters, "enqueue") + 0
        /\ Many(Workers, "notify")' = Many(Workers, "notify") + 0
    BY <1>1, <1>7, Threads, Stays, Crowds
  <2>2. Many(Posters, "notify")' = Many(Posters, "notify") + (-1)
    BY <1>1, <1>7, Threads, Goes, Crowds
  <2>3. Many(Workers, "dequeue")' = Many(Workers, "dequeue") + 1
    BY <1>1, <1>7, Threads, Comes
  <2>4. QED
    BY <1>3, <1>4, <1>6, <2>1, <2>2, <2>3, KnownKeeps
<1>8. CASE t \in Workers
  <2>1. /\ Many(Workers, "dequeue")' = Many(Workers, "dequeue") + 0
        /\ Many(Posters, "notify")' = Many(Posters, "notify") + 0
    BY <1>1, <1>8, Threads, Stays, Crowds
  <2>2. Many(Workers, "notify")' = Many(Workers, "notify") + (-1)
    BY <1>1, <1>8, Threads, Goes, Crowds
  <2>3. Many(Posters, "enqueue")' = Many(Posters, "enqueue") + 1
    BY <1>1, <1>8, Threads, Comes
  <2>4. QED
    BY <1>3, <1>4, <1>6, <2>1, <2>2, <2>3, KnownKeeps
<1>9. QED
  BY <1>1, <1>7, <1>8

\* Nobody sleeps at the start.
LEMMA AllAwake == Init => NoLostWakeUp
<1> SUFFICES ASSUME Init PROVE NoLostWakeUp
  OBVIOUS
<1>1. ~Asleep(Posters) /\ ~Asleep(Workers)
  BY Threads DEF Init, Asleep
<1>2. QED
  BY <1>1 DEF NoLostWakeUp, RoomIsKnown, MessagesAreKnown

\* No wake-up is lost: a thread that sleeps for room or for a message never has more of it
\* before it than others are on their way to tell or to take (mpmc_blocking_q.h, lines 32-70).
THEOREM SleepersAreWoken == Spec => []NoLostWakeUp
<1>1. IInv /\ NoLostWakeUp /\ [Next]_vars => NoLostWakeUp'
  <2> SUFFICES ASSUME IInv, NoLostWakeUp, [Next]_vars PROVE NoLostWakeUp'
    OBVIOUS
  <2>1. RingType /\ Size \in Nat /\ MaxItems \in Nat
    BY Places, Threads
  <2>2. PICK z : z = Size
    OBVIOUS
  <2>3. UNCHANGED ringVars => Size' = z
    BY <2>2 DEF ringVars, Size
  <2>4. ASSUME NEW t \in Loggers, Log(t) PROVE NoLostWakeUp'
    BY <2>1, <2>2, <2>3, <2>4, OneKeeps, Threads DEF Log, GoTo
  <2>5. CASE Terminate \/ Join
    BY <2>1, <2>2, <2>3, <2>5, OneKeeps, Threads DEF Terminate, Join, GoTo
  <2>6. ASSUME NEW t \in Posters, Enqueue(t) PROVE NoLostWakeUp'
    <3>1. PICK m \in Messages : PushBack(m)
      BY <2>6, NewMessage
    <3>2. Size' = IF Full THEN Size ELSE Size + 1
      BY <2>1, <3>1, PushWithRoom, PushOverrun
    <3>3. Full <=> Size = MaxItems
      BY <2>1, RingSize
    <3>4. PICK y \in Nat : y = Size' /\ (y = Size + 1 \/ (y = Size /\ y = MaxItems))
      BY <2>1, <3>2, <3>3
    <3>5. QED
      BY <2>6, <3>4, OneKeeps DEF Enqueue, GoTo
  <2>7. ASSUME NEW t \in Posters, WaitForRoom(t) PROVE NoLostWakeUp'
    <3>1. Size = MaxItems
      BY <2>1, <2>7, RingSize DEF WaitForRoom
    <3>2. QED
      BY <2>1, <2>2, <2>3, <2>7, <3>1, OneKeeps DEF WaitForRoom, GoTo
  <2>8. ASSUME NEW t \in Posters, NotifyPush(t) PROVE NoLostWakeUp'
    <3>1. CASE ~Asleep(Workers)
      <4>1. pc' = [pc EXCEPT ![t] = "idle"] /\ pc[t] = "notify" /\ UNCHANGED ringVars
        BY <2>8, <3>1 DEF NotifyPush, NotifyOne, Asleep
      <4>2. QED
        BY <2>1, <2>2, <2>3, <3>1, <4>1, OneKeeps
    <3>2. CASE Asleep(Workers)
      <4>1. PICK s \in Workers : pc[s] = "wait" /\ pc' = [pc EXCEPT ![t] = "idle", ![s] = "dequeue"]
        BY <2>8, <3>2 DEF NotifyPush, NotifyOne, Asleep
      <4>2. QED
        BY <2>8, <4>1, TwoKeep DEF NotifyPush, NotifyOne
    <3>3. QED
      BY <3>1, <3>2
  <2>9. ASSUME NEW w \in Workers, Dequeue(w) PROVE NoLostWakeUp'
    <3>1. PopFront /\ ~Empty
      BY <2>9 DEF Dequeue
    <3>2. Size' = Size - 1 /\ Size # 0
      BY <2>1, <3>1, PopRing, RingSize
    <3>3. PICK y \in Nat : y = Size' /\ y = Size - 1
      BY <2>1, <3>2
    <3>4. QED
      BY <2>9, <3>3, OneKeeps DEF Dequeue, GoTo
  <2>10. ASSUME NEW w \in Workers, WaitForMessage(w) PROVE NoLostWakeUp'
    <3>1. Size = 0
      BY <2>1, <2>10, RingSize DEF WaitForMessage
    <3>2. QED
      BY <2>1, <2>2, <2>3, <2>10, <3>1, OneKeeps DEF WaitForMessage, GoTo
  <2>11. ASSUME NEW w \in Workers, TimedOut(w) PROVE NoLostWakeUp'
    BY <2>1, <2>2, <2>3, <2>11, OneKeeps DEF TimedOut, GoTo
  <2>12. ASSUME NEW w \in Workers, NotifyPop(w) PROVE NoLostWakeUp'
    <3>1. CASE ~Asleep(Posters)
      <4>1. pc' = [pc EXCEPT ![w] = "process"] /\ pc[w] = "notify" /\ UNCHANGED ringVars
        BY <2>12, <3>1 DEF NotifyPop, NotifyOne, Asleep
      <4>2. QED
        BY <2>1, <2>2, <2>3, <3>1, <4>1, OneKeeps
    <3>2. CASE Asleep(Posters)
      <4>1. PICK s \in Posters : /\ pc[s] = "wait"
                                /\ pc' = [pc EXCEPT ![w] = "process", ![s] = "enqueue"]
        BY <2>12, <3>2 DEF NotifyPop, NotifyOne, Asleep
      <4>2. QED
        BY <2>12, <4>1, TwoKeep DEF NotifyPop, NotifyOne
    <3>3. QED
      BY <3>1, <3>2
  <2>13. ASSUME NEW w \in Workers, Process(w) PROVE NoLostWakeUp'
    <3>1. PICK to \in {"over", "dequeue"} : pc[w] = "process" /\ pc' = [pc EXCEPT ![w] = to]
      BY <2>13 DEF Process, GoTo
    <3>2. UNCHANGED ringVars
      BY <2>13 DEF Process
    <3>3. QED
      BY <2>1, <2>2, <2>3, <3>1, <3>2, OneKeeps
  <2>14. CASE Release \/ UNCHANGED vars
    BY <2>14 DEF Release, vars, ringVars, NoLostWakeUp, RoomIsKnown, MessagesAreKnown, Asleep,
       Many, At, Size
  <2>15. QED
    BY <2>4, <2>5, <2>6, <2>7, <2>8, <2>9, <2>10, <2>11, <2>12, <2>13, <2>14 DEF Next
<1>2. QED
  BY <1>1, AllAwake, Inductive, PTL DEF Spec
=============================================================================
