--------------------------- MODULE QueueRwProofs ---------------------------
(***************************************************************************)
(* Proofs about QueueRw, for every set of producers and messages.  IInv is *)
(* inductive: FifoConserved needs to know that the swap finds m_queueRead  *)
(* empty (SwapInv); that needs the counter, read without the lock, not to  *)
(* promise what is not there (SizeInv); and that needs the lock (LockInv). *)
(* SelfInv and ServeInv follow a pull() from its call to its return.       *)
(***************************************************************************)
EXTENDS QueueRw, SequenceTheorems, TLAPS

IInv == TypeOK /\ QueueInv /\ FifoConserved /\ SelfInv /\ ServeInv

\* Appending to the last of two sequences appends to their concatenation.
LEMMA AppendLast ==
  ASSUME NEW S, NEW s \in Seq(S), NEW t \in Seq(S), NEW e \in S
  PROVE  s \o Append(t, e) = Append(s \o t, e)
<1>1. <<e>> \in Seq(S)
  OBVIOUS
<1>2. s \o Append(t, e) = s \o (t \o <<e>>)
  BY AppendIsConcat
<1>3. @ = (s \o t) \o <<e>>
  BY <1>1, ConcatAssociative
<1>4. s \o t \in Seq(S)
  BY ConcatProperties
<1>5. (s \o t) \o <<e>> = Append(s \o t, e)
  BY <1>4, AppendIsConcat
<1> QED
  BY <1>2, <1>3, <1>5

\* Moving the head of a sequence to the end of the one before it keeps the two
\* in a row the same.
LEMMA HeadMoves ==
  ASSUME NEW S, NEW s \in Seq(S), NEW t \in Seq(S), t # <<>>
  PROVE  Append(s, Head(t)) \o Tail(t) = s \o t
<1>1. /\ Head(t) \in S
      /\ Tail(t) \in Seq(S)
      /\ <<Head(t)>> \in Seq(S)
  BY HeadTailProperties
<1>2. t = <<Head(t)>> \o Tail(t)
  BY SMT
<1>3. Append(s, Head(t)) \o Tail(t) = (s \o <<Head(t)>>) \o Tail(t)
  BY <1>1, AppendIsConcat
<1>4. @ = s \o (<<Head(t)>> \o Tail(t))
  BY <1>1, ConcatAssociative
<1> QED
  BY <1>2, <1>3, <1>4

\* The head of a row of two sequences is the head of the first.
LEMMA HeadTailOfRow ==
  ASSUME NEW S, NEW s \in Seq(S), NEW t \in Seq(S), s # <<>>
  PROVE  /\ s \o t # <<>>
         /\ Head(s \o t) = Head(s)
         /\ Tail(s \o t) = Tail(s) \o t
<1>1. Len(s) \in Nat /\ Len(s) > 0 /\ Len(t) \in Nat /\ Tail(s) \in Seq(S)
  BY HeadTailProperties, LenProperties, EmptySeq
<1>2. s \o t \in Seq(S) /\ Len(s \o t) = Len(s) + Len(t)
  BY ConcatProperties
<1>3. s \o t # <<>>
  BY <1>1, <1>2
<1>4. Head(s \o t) = Head(s)
  BY <1>1, <1>2
<1>5. Tail(s \o t) = Tail(s) \o t
  BY <1>1, <1>2, <1>3, SMT
<1> QED
  BY <1>3, <1>4, <1>5
-----------------------------------------------------------------------------
\* The types hold at the start.
LEMMA TypeInit == Init => TypeOK
<1> SUFFICES ASSUME Init PROVE TypeOK
  OBVIOUS
<1>1. <<>> \in Seq(Data)
  BY EmptySeq
<1>2. /\ alive \in BOOLEAN
      /\ one \in BOOLEAN
      /\ m_mutexWrite \in Threads \cup {NoThread}
      /\ m_sizeWrite \in Nat
      /\ pullPc \in PullPcs
      /\ arg \in [Threads -> Data]
  BY DEF Init, PullPcs
<1>3. pushPc \in [Threads -> PushPcs]
  BY DEF Init, PushPcs
<1>4. mark \in Marks
  BY DEF Init, Marks
<1> QED
  BY <1>1, <1>2, <1>3, <1>4 DEF Init, TypeOK

\* No step leaves them.
LEMMA TypeStep == TypeOK /\ [Next]_vars => TypeOK'
<1> SUFFICES ASSUME TypeOK, [Next]_vars
             PROVE  TypeOK'
  OBVIOUS
<1> USE DEF TypeOK, PushPcs, PullPcs, Marks, PushTo, PullTo, lockVars, queueVars,
            pushVars, pullVars
<1>1. ASSUME NEW t \in Threads, NEW d \in Data, PushCall(t, d)
      PROVE  TypeOK'
  BY <1>1 DEF PushCall
<1>2. ASSUME NEW t \in Threads, PushLock(t)
      PROVE  TypeOK'
  BY <1>2 DEF PushLock, Acquire
<1>3. ASSUME NEW t \in Threads, PushEmplace(t)
      PROVE  TypeOK'
  <2>1. /\ Append(m_queueWrite, arg[t]) \in Seq(Data)
        /\ Append(pushed, arg[t]) \in Seq(Data)
        /\ Len(pushed) \in Nat
    BY AppendProperties
  <2>2. mark' \in Marks
    <3> DEFINE n == IF t = Consumer /\ pullPc = "fun" /\ mark.self = 0
                    THEN Len(pushed) + 1 ELSE mark.self
    <3>1. mark' = [mark EXCEPT !.self = n]
      BY <1>3 DEF PushEmplace
    <3>2. n \in Nat
      BY <2>1
    <3> HIDE DEF n
    <3> QED
      BY <3>1, <3>2
  <2> QED
    BY <1>3, <2>1, <2>2 DEF PushEmplace
<1>4. ASSUME NEW t \in Threads, PushSize(t)
      PROVE  TypeOK'
  BY <1>4 DEF PushSize
<1>5. ASSUME NEW t \in Threads, PushUnlock(t)
      PROVE  TypeOK'
  BY <1>5 DEF PushUnlock, Release
<1>6. CASE PullCall
  <2>1. /\ Completed \in Int
        /\ Len(delivered) \in Nat
    BY LenProperties DEF Completed
  <2> QED
    BY <1>6, <2>1 DEF PullCall
<1>7. CASE PullCheck
  BY <1>7 DEF PullCheck, CheckWith
<1>8. CASE PullLock
  BY <1>8 DEF PullLock, Acquire, Threads
<1>9. CASE PullZero
  BY <1>9 DEF PullZero
<1>10. CASE PullSwap
  BY <1>10 DEF PullSwap
<1>11. CASE PullUnlock
  BY <1>11 DEF PullUnlock, Release
<1>12. CASE PullFront
  <2>1. /\ Head(m_queueRead) \in Data
        /\ Tail(m_queueRead) \in Seq(Data)
    BY <1>12, HeadTailProperties DEF PullFront
  <2>2. Append(delivered, Head(m_queueRead)) \in Seq(Data)
    BY <2>1, AppendProperties
  <2> QED
    BY <1>12, <2>1, <2>2 DEF PullFront
<1>13. CASE PullReturn
  BY <1>13 DEF PullReturn
<1>14. CASE PullDone
  BY <1>14 DEF PullDone
<1>15. CASE Destroy
  BY <1>15, EmptySeq DEF Destroy
<1>16. CASE UNCHANGED vars
  BY <1>16 DEF vars
<1> QED
  BY <1>1, <1>2, <1>3, <1>4, <1>5, <1>6, <1>7, <1>8, <1>9, <1>10, <1>11, <1>12,
     <1>13, <1>14, <1>15, <1>16 DEF Next, Push, PullStep, Destroyed

\* The state is always of its type: the counter never goes below zero.
THEOREM TypeCorrect == Spec => []TypeOK
BY TypeInit, TypeStep, PTL DEF Spec
-----------------------------------------------------------------------------
\* LockInv is mutual exclusion: who is between lock and unlock of push() is alone.
LEMMA OnePusher ==
  ASSUME TypeOK, LockInv, NEW t \in Threads, PushesUnderLock(t)
  PROVE  /\ m_mutexWrite = t
         /\ ~PullsUnderLock
         /\ \A u \in Threads : PushesUnderLock(u) => u = t
  BY QueueAssumption DEF LockInv, PushesUnderLock, PullsUnderLock, Threads

\* The same for the critical section of pull().
LEMMA OnePuller ==
  ASSUME TypeOK, LockInv, PullsUnderLock
  PROVE  /\ m_mutexWrite = Consumer
         /\ \A u \in Threads : ~PushesUnderLock(u)
  BY QueueAssumption DEF LockInv, PushesUnderLock, PullsUnderLock, Threads

\* Nobody is in a critical section of a free mutex.
LEMMA NobodyInside ==
  ASSUME TypeOK, LockInv, m_mutexWrite = NoThread
  PROVE  /\ ~PullsUnderLock
         /\ \A u \in Threads : ~PushesUnderLock(u)
  BY QueueAssumption DEF LockInv, PushesUnderLock, PullsUnderLock, Threads

\* A pusher moves the lock discipline along.
LEMMA PushKeepsLockInv ==
  ASSUME TypeOK, LockInv, NEW t \in Threads,
         Push(t) \/ \E d \in Data : PushCall(t, d)
  PROVE  LockInv'
<1> USE QueueAssumption DEF TypeOK, PushPcs, PullPcs, LockInv, PushesUnderLock,
        PullsUnderLock, PushTo, Threads, pullVars, lockVars
<1>1. CASE \E d \in Data : PushCall(t, d)
  BY <1>1 DEF PushCall
<1>2. CASE PushLock(t)
  BY <1>2 DEF PushLock, Acquire
<1>3. CASE PushEmplace(t)
  BY <1>3 DEF PushEmplace
<1>4. CASE PushSize(t)
  BY <1>4 DEF PushSize
<1>5. CASE PushUnlock(t)
  BY <1>5 DEF PushUnlock, Release
<1> QED
  BY <1>1, <1>2, <1>3, <1>4, <1>5 DEF Push

\* So does the puller, which enters and leaves with its own lock and unlock.
LEMMA PullKeepsLockInv ==
  ASSUME TypeOK, LockInv, PullCall \/ PullStep
  PROVE  LockInv'
<1> USE QueueAssumption DEF TypeOK, PushPcs, PullPcs, LockInv, PushesUnderLock,
        PullsUnderLock, PullTo, Threads, pushVars, lockVars
<1>1. CASE PullCall
  BY <1>1 DEF PullCall
<1>2. CASE PullCheck
  BY <1>2 DEF PullCheck, CheckWith
<1>3. CASE PullLock
  BY <1>3 DEF PullLock, Acquire
<1>4. CASE PullZero
  BY <1>4 DEF PullZero
<1>5. CASE PullSwap
  BY <1>5 DEF PullSwap
<1>6. CASE PullUnlock
  BY <1>6 DEF PullUnlock, Release
<1>7. CASE PullFront
  BY <1>7 DEF PullFront
<1>8. CASE PullReturn
  BY <1>8 DEF PullReturn
<1>9. CASE PullDone
  BY <1>9 DEF PullDone
<1> QED
  BY <1>1, <1>2, <1>3, <1>4, <1>5, <1>6, <1>7, <1>8, <1>9 DEF PullStep

\* The push that appends keeps counter and deque apart by the one it owes; the
\* push that counts settles it.  Neither can meet a swap.
LEMMA PushKeepsSizeInv ==
  ASSUME TypeOK, QueueInv, NEW t \in Threads,
         Push(t) \/ \E d \in Data : PushCall(t, d)
  PROVE  SizeInv' /\ SwapInv'
<1> USE DEF TypeOK, PushPcs, PullPcs, QueueInv, SizeInv, SwapInv, PushTo, pullVars,
        lockVars, queueVars
<1>1. CASE \E d \in Data : PushCall(t, d)
  BY <1>1 DEF PushCall
<1>2. CASE PushLock(t)
  BY <1>2 DEF PushLock
<1>3. CASE PushEmplace(t)
  <2>1. pullPc \notin {"zero", "swap", "unlock"} /\ ~\E u \in Threads : pushPc[u] = "size"
    BY <1>3, OnePusher DEF PushEmplace, PushesUnderLock, PullsUnderLock
  <2>2. Len(m_queueWrite') = Len(m_queueWrite) + 1 /\ Len(m_queueWrite) \in Nat
    BY <1>3, AppendProperties DEF PushEmplace
  <2>3. pushPc'[t] = "size" /\ m_sizeWrite' = m_sizeWrite /\ pullPc' = pullPc
        /\ m_queueRead' = m_queueRead
    BY <1>3 DEF PushEmplace
  <2> QED
    BY <2>1, <2>2, <2>3
<1>4. CASE PushSize(t)
  <2>1. pullPc \notin {"zero", "swap", "unlock"}
        /\ \A u \in Threads : pushPc[u] = "size" => u = t
    BY <1>4, OnePusher DEF PushSize, PushesUnderLock, PullsUnderLock
  <2>2. ~\E u \in Threads : pushPc'[u] = "size"
    BY <1>4, <2>1 DEF PushSize
  <2>3. m_sizeWrite' = m_sizeWrite + 1 /\ UNCHANGED <<m_queueWrite, m_queueRead, pullPc>>
    BY <1>4 DEF PushSize
  <2>4. pushPc[t] = "size"
    BY <1>4 DEF PushSize
  <2> QED
    BY <2>1, <2>2, <2>3, <2>4
<1>5. CASE PushUnlock(t)
  BY <1>5 DEF PushUnlock
<1> QED
  BY <1>1, <1>2, <1>3, <1>4, <1>5 DEF Push

\* The puller finds at the lock what it saw without it: its own deque is empty
\* because only it fills that one, and the counter has only grown.
LEMMA PullKeepsSizeInv ==
  ASSUME TypeOK, QueueInv, PullCall \/ PullStep
  PROVE  SizeInv' /\ SwapInv'
<1> USE DEF TypeOK, PushPcs, PullPcs, QueueInv, SizeInv, SwapInv, PullTo, pushVars,
        lockVars, queueVars
<1>1. CASE PullCall
  BY <1>1 DEF PullCall
<1>2. CASE PullCheck
  BY <1>2 DEF PullCheck, CheckWith
<1>3. CASE PullLock
  BY <1>3 DEF PullLock
<1>4. CASE PullZero
  <2>1. ~\E u \in Threads : pushPc[u] = "size"
    BY <1>4, OnePuller DEF PullZero, PushesUnderLock, PullsUnderLock
  <2>2. Len(m_queueWrite) > 0
    BY <1>4, <2>1 DEF PullZero
  <2>3. m_queueWrite # <<>>
    BY <2>2
  <2> QED
    BY <1>4, <2>3 DEF PullZero
<1>5. CASE PullSwap
  <2>1. ~\E u \in Threads : pushPc[u] = "size"
    BY <1>5, OnePuller DEF PullSwap, PushesUnderLock, PullsUnderLock
  <2>2. m_queueWrite' = <<>> /\ m_sizeWrite' = 0 /\ pullPc' = "unlock" /\ pushPc' = pushPc
    BY <1>5 DEF PullSwap
  <2> QED
    BY <2>1, <2>2
<1>6. CASE PullUnlock
  BY <1>6 DEF PullUnlock
<1>7. CASE PullFront
  BY <1>7 DEF PullFront
<1>8. CASE PullReturn
  BY <1>8 DEF PullReturn
<1>9. CASE PullDone
  BY <1>9 DEF PullDone
<1> QED
  BY <1>1, <1>2, <1>3, <1>4, <1>5, <1>6, <1>7, <1>8, <1>9 DEF PullStep

\* emplace_back is the only step of a push that FifoConserved can see.
LEMMA PushKeepsFifo ==
  ASSUME TypeOK, FifoConserved, NEW t \in Threads,
         Push(t) \/ \E d \in Data : PushCall(t, d)
  PROVE  FifoConserved'
<1>1. CASE PushEmplace(t)
  <2>1. delivered \o m_queueRead \in Seq(Data)
    BY ConcatProperties DEF TypeOK
  <2>2. arg[t] \in Data
    BY DEF TypeOK
  <2>3. delivered \o m_queueRead \o Append(m_queueWrite, arg[t])
          = Append(delivered \o m_queueRead \o m_queueWrite, arg[t])
    BY <2>1, <2>2, AppendLast DEF TypeOK
  <2> QED
    BY <1>1, <2>3 DEF PushEmplace, FifoConserved, lockVars
<1>2. CASE ~PushEmplace(t)
  <2>1. UNCHANGED <<alive, delivered, m_queueRead, m_queueWrite, pushed>>
    BY <1>2 DEF Push, PushCall, PushLock, PushSize, PushUnlock, lockVars, queueVars, pullVars
  <2> QED
    BY <2>1 DEF FifoConserved
<1> QED
  BY <1>1, <1>2

\* The swap may exchange the deques only because m_queueRead is empty; handing
\* over takes from one end of the row and adds to the other.
LEMMA PullKeepsFifo ==
  ASSUME TypeOK, QueueInv, FifoConserved, PullCall \/ PullStep
  PROVE  FifoConserved'
<1>1. CASE PullSwap
  <2>1. m_queueRead = <<>>
    BY <1>1 DEF PullSwap, PullTo, QueueInv, SwapInv
  <2>2. /\ delivered \o <<>> \o m_queueWrite = delivered \o m_queueWrite
        /\ delivered \o m_queueWrite \o <<>> = delivered \o m_queueWrite
    BY ConcatEmptySeq, ConcatProperties DEF TypeOK
  <2> QED
    BY <1>1, <2>1, <2>2 DEF PullSwap, FifoConserved, lockVars, pushVars
<1>2. CASE PullFront
  <2>1. Append(delivered, Head(m_queueRead)) \o Tail(m_queueRead) = delivered \o m_queueRead
    BY <1>2, HeadMoves DEF PullFront, TypeOK
  <2> QED
    BY <1>2, <2>1 DEF PullFront, FifoConserved, lockVars, pushVars
<1>3. CASE ~PullSwap /\ ~PullFront
  <2>1. UNCHANGED <<alive, delivered, m_queueRead, m_queueWrite, pushed>>
    BY <1>3 DEF PullCall, PullStep, PullCheck, CheckWith, PullLock, PullZero, PullUnlock,
                PullReturn, PullDone, lockVars, queueVars, pushVars
  <2> QED
    BY <2>1 DEF FifoConserved
<1> QED
  BY <1>1, <1>2, <1>3

\* Whoever calls push() or pull() finds the queue alive, and it stays so.
LEMMA KeepsLife ==
  ASSUME TypeOK, QueueInv,
         PullCall \/ PullStep \/ \E t \in Threads : Push(t) \/ \E d \in Data : PushCall(t, d)
  PROVE  alive /\ alive'
<1> USE DEF QueueInv, LifeInv, InPush, PushTo, PullTo, lockVars
<1>1. ASSUME NEW t \in Threads, Push(t) \/ \E d \in Data : PushCall(t, d)
      PROVE  alive /\ alive'
  <2>1. alive' = alive
    BY <1>1 DEF Push, PushCall, PushLock, PushEmplace, PushSize, PushUnlock
  <2>2. CASE \E d \in Data : PushCall(t, d)
    BY <2>1, <2>2 DEF PushCall
  <2>3. CASE Push(t)
    <3>1. pushPc[t] # "idle"
      BY <2>3 DEF Push, PushLock, PushEmplace, PushSize, PushUnlock
    <3> QED
      BY <2>1, <3>1
  <2> QED
    BY <1>1, <2>2, <2>3
<1>2. CASE PullCall \/ PullStep
  BY <1>2 DEF PullCall, PullStep, PullCheck, CheckWith, PullLock, PullZero, PullSwap,
              PullUnlock, PullFront, PullReturn, PullDone
<1> QED
  BY <1>1, <1>2
-----------------------------------------------------------------------------
\* Of a push, only the callback's own emplace_back matters to SelfInv: it comes
\* after everything the loop still has before it.
LEMMA PushKeepsSelfInv ==
  ASSUME IInv, NEW t \in Threads, Push(t) \/ \E d \in Data : PushCall(t, d)
  PROVE  SelfInv'
<1> USE DEF IInv
<1>1. CASE PushEmplace(t)
  <2>1. Len(pushed) = Len(delivered) + Len(m_queueRead) + Len(m_queueWrite)
    <3>1. alive
      BY <1>1, KeepsLife DEF Push
    <3>2. delivered \o m_queueRead \in Seq(Data)
      BY ConcatProperties DEF TypeOK
    <3> QED
      BY <3>1, <3>2, ConcatProperties DEF TypeOK, FifoConserved
  <2>2. /\ Len(delivered) \in Nat
        /\ Len(m_queueRead) \in Nat
        /\ Len(m_queueWrite) \in Nat
    BY LenProperties DEF TypeOK
  <2>3. UNCHANGED <<delivered, m_queueRead, pullPc>>
    BY <1>1 DEF PushEmplace
  <2>4. CASE t = Consumer /\ pullPc = "fun" /\ mark.self = 0
    <3>1. mark'.self = Len(pushed) + 1
      BY <1>1, <2>4 DEF PushEmplace, TypeOK, Marks
    <3> QED
      BY <2>1, <2>2, <2>3, <2>4, <3>1 DEF SelfInv
  <2>5. CASE ~(t = Consumer /\ pullPc = "fun" /\ mark.self = 0)
    <3>1. mark'.self = mark.self
      BY <1>1, <2>5 DEF PushEmplace, TypeOK, Marks
    <3> QED
      BY <2>3, <3>1 DEF SelfInv
  <2> QED
    BY <2>4, <2>5
<1>2. CASE ~PushEmplace(t)
  <2>1. UNCHANGED <<delivered, m_queueRead, pullPc, mark>>
    BY <1>2 DEF Push, PushCall, PushLock, PushSize, PushUnlock, lockVars, queueVars, pullVars
  <2> QED
    BY <2>1 DEF SelfInv
<1> QED
  BY <1>1, <1>2

\* The loop of a pull() only shortens what it has before it.
LEMMA PullKeepsSelfInv ==
  ASSUME IInv, PullCall \/ PullStep
  PROVE  SelfInv'
<1> USE DEF IInv, TypeOK, Marks, SelfInv, PullTo, queueVars
<1>1. CASE PullCall
  BY <1>1 DEF PullCall
<1>2. CASE PullCheck \/ PullLock \/ PullZero \/ PullSwap \/ PullUnlock
  BY <1>2 DEF PullCheck, CheckWith, PullLock, PullZero, PullSwap, PullUnlock
<1>3. CASE PullFront
  <2>1. /\ Len(delivered') = Len(delivered) + 1
        /\ Len(m_queueRead') = Len(m_queueRead) - 1
        /\ Len(delivered) \in Nat /\ Len(m_queueRead) \in Nat
    <3>1. Head(m_queueRead) \in Data
      BY <1>3, HeadTailProperties DEF PullFront
    <3> QED
      BY <1>3, <3>1, AppendProperties, HeadTailProperties, LenProperties DEF PullFront
  <2> QED
    BY <1>3, <2>1 DEF PullFront
<1>4. CASE PullReturn
  BY <1>4 DEF PullReturn
<1>5. CASE PullDone
  BY <1>5 DEF PullDone
<1> QED
  BY <1>1, <1>2, <1>3, <1>4, <1>5 DEF PullStep

\* No push takes work away from a pull() that counts on it: the counter only grows.
LEMMA PushKeepsServeInv ==
  ASSUME IInv, NEW t \in Threads, Push(t) \/ \E d \in Data : PushCall(t, d)
  PROVE  ServeInv'
<1>1. /\ UNCHANGED <<delivered, m_queueRead, pullPc>>
      /\ m_sizeWrite' \in {m_sizeWrite, m_sizeWrite + 1}
  BY DEF Push, PushCall, PushLock, PushEmplace, PushSize, PushUnlock, lockVars, queueVars, pullVars
<1>2. mark'.ready = mark.ready /\ mark'.from = mark.from
  BY DEF Push, PushCall, PushLock, PushEmplace, PushSize, PushUnlock, pullVars, IInv, TypeOK, Marks
<1> QED
  BY <1>1, <1>2 DEF IInv, TypeOK, ServeInv

\* A message whose push() had returned is in m_queueRead or in the counter.
LEMMA ReadyIsSeen ==
  ASSUME IInv, PullCall, Completed > Len(delivered)
  PROVE  m_queueRead # <<>> \/ m_sizeWrite > 0
<1> SUFFICES ASSUME m_queueRead = <<>>
             PROVE  m_sizeWrite > 0
  OBVIOUS
<1> USE DEF IInv
<1>1. alive /\ pullPc = "idle"
  BY DEF PullCall, PullTo
<1>2. Len(pushed) = Len(delivered) + Len(m_queueWrite)
  BY <1>1, ConcatEmptySeq, ConcatProperties DEF TypeOK, FifoConserved
<1>3. Len(delivered) \in Nat /\ Len(m_queueWrite) \in Nat
  BY LenProperties DEF TypeOK
<1>4. CASE \E t \in Threads : pushPc[t] = "size"
  <2>1. Emplaced # {}
    BY <1>4 DEF Emplaced
  <2>2. m_sizeWrite + 1 = Len(m_queueWrite)
    BY <1>1, <1>4 DEF QueueInv, SizeInv
  <2> QED
    BY <1>2, <1>3, <2>1, <2>2 DEF Completed, TypeOK
<1>5. CASE ~\E t \in Threads : pushPc[t] = "size"
  <2>1. m_sizeWrite = Len(m_queueWrite)
    BY <1>1, <1>5 DEF QueueInv, SizeInv
  <2> QED
    BY <1>2, <1>3, <2>1 DEF Completed, TypeOK
<1> QED
  BY <1>4, <1>5

\* From the call to the first message handed over, pull() keeps its promise.
LEMMA PullKeepsServeInv ==
  ASSUME IInv, PullCall \/ PullStep
  PROVE  ServeInv'
<1> USE DEF PullTo, queueVars
<1>1. CASE PullCall
  <2>1. /\ mark'.ready = Completed
        /\ mark'.from = Len(delivered)
        /\ pullPc' = "check"
        /\ UNCHANGED <<delivered, m_queueRead, m_sizeWrite>>
    BY <1>1 DEF PullCall
  <2> QED
    BY <1>1, <2>1, ReadyIsSeen DEF ServeInv
<1>2. CASE PullCheck
  BY <1>2 DEF PullCheck, CheckWith, IInv, ServeInv
<1>3. CASE PullLock \/ PullZero
  BY <1>3 DEF PullLock, PullZero, IInv, ServeInv
<1>4. CASE PullSwap
  BY <1>4 DEF PullSwap, IInv, ServeInv, QueueInv, SwapInv
<1>5. CASE PullUnlock
  BY <1>5 DEF PullUnlock, IInv, ServeInv
<1>6. CASE PullFront
  <2>1. Len(delivered') = Len(delivered) + 1 /\ Len(delivered) \in Nat
    BY <1>6, HeadTailProperties, AppendProperties, LenProperties DEF PullFront, IInv, TypeOK
  <2>2. /\ pullPc' = "fun"
        /\ mark' = mark
        /\ pullPc = "loop"
        /\ mark.from \in Nat
    BY <1>6 DEF PullFront, IInv, TypeOK, Marks
  <2> QED
    BY <2>1, <2>2 DEF ServeInv, IInv
<1>7. CASE PullReturn
  BY <1>7 DEF PullReturn, IInv, ServeInv
<1>8. CASE PullDone
  BY <1>8 DEF PullDone, ServeInv
<1> QED
  BY <1>1, <1>2, <1>3, <1>4, <1>5, <1>6, <1>7, <1>8 DEF PullStep
-----------------------------------------------------------------------------
\* IInv holds at the start.
LEMMA InvInit == Init => IInv
<1> SUFFICES ASSUME Init PROVE QueueInv /\ FifoConserved /\ SelfInv /\ ServeInv
  BY TypeInit DEF IInv
<1>1. QueueInv
  BY QueueAssumption DEF Init, QueueInv, LockInv, SizeInv, SwapInv, LifeInv,
                         PushesUnderLock, PullsUnderLock, Threads
<1>2. FifoConserved
  BY DEF Init, FifoConserved
<1>3. SelfInv /\ ServeInv
  BY DEF Init, SelfInv, ServeInv
<1> QED
  BY <1>1, <1>2, <1>3

\* No step leaves IInv.
LEMMA InvStep == IInv /\ [Next]_vars => IInv'
<1> SUFFICES ASSUME IInv, [Next]_vars
             PROVE  (QueueInv /\ FifoConserved /\ SelfInv /\ ServeInv)'
  BY TypeStep DEF IInv
<1>1. ASSUME NEW t \in Threads, Push(t) \/ \E d \in Data : PushCall(t, d)
      PROVE  (QueueInv /\ FifoConserved /\ SelfInv /\ ServeInv)'
  <2>1. QueueInv'
    BY <1>1, PushKeepsLockInv, PushKeepsSizeInv, KeepsLife DEF IInv, QueueInv, LifeInv
  <2>2. FifoConserved'
    BY <1>1, PushKeepsFifo DEF IInv
  <2> QED
    BY <1>1, <2>1, <2>2, PushKeepsSelfInv, PushKeepsServeInv
<1>2. CASE PullCall \/ PullStep
  <2>1. QueueInv'
    BY <1>2, PullKeepsLockInv, PullKeepsSizeInv, KeepsLife DEF IInv, QueueInv, LifeInv
  <2>2. FifoConserved'
    BY <1>2, PullKeepsFifo DEF IInv
  <2> QED
    BY <1>2, <2>1, <2>2, PullKeepsSelfInv, PullKeepsServeInv
<1>3. CASE Destroy
  <2>1. \A t \in Threads : pushPc[t] = "idle"
    BY <1>3 DEF Destroy, InPush
  <2>2. QueueInv'
    BY <1>3, <2>1 DEF Destroy, IInv, QueueInv, LockInv, SizeInv, SwapInv, LifeInv, InPush,
                      PushesUnderLock, PullsUnderLock, pushVars, pullVars
  <2> QED
    BY <1>3, <2>2 DEF Destroy, FifoConserved, SelfInv, ServeInv, pushVars, pullVars
<1>4. CASE UNCHANGED vars
  BY <1>4 DEF IInv, QueueInv, LockInv, SizeInv, SwapInv, LifeInv, InPush, PushesUnderLock,
              PullsUnderLock, FifoConserved, SelfInv, ServeInv, vars, lockVars, queueVars,
              pushVars, pullVars
<1> QED
  BY <1>1, <1>2, <1>3, <1>4 DEF Next, Destroyed

\* IInv is inductive, hence an invariant of the queue.
THEOREM Inductive == Spec => []IInv
BY InvInit, InvStep, PTL DEF Spec

\* The lock is held by whoever is inside, the counter is right outside a critical
\* section, and no swap ever meets a non-empty m_queueRead.
THEOREM QueueSound == Spec => []QueueInv
<1>1. IInv => QueueInv
  BY DEF IInv
<1> QED
  BY <1>1, Inductive, PTL

\* No message is lost, duplicated or reordered, however many threads push.
THEOREM Fifo == Spec => []FifoConserved
<1>1. IInv => FifoConserved
  BY DEF IInv
<1> QED
  BY <1>1, Inductive, PTL

\* A callback that sends to its own actor does not feed the pull() it runs in.
THEOREM SelfSends == Spec => []SelfSendDeferred
<1>1. IInv => SelfSendDeferred
  <2>1. ASSUME IInv PROVE Len(delivered) \in Nat /\ Len(m_queueRead) \in Nat
                          /\ mark.self \in Nat
    BY <2>1, LenProperties DEF IInv, TypeOK, Marks
  <2> QED
    BY <2>1 DEF IInv, SelfInv, SelfSendDeferred
<1> QED
  BY <1>1, Inductive, PTL

\* pull() serves a message whose push() had returned, though it looks at the
\* counter without the lock.
THEOREM PullServes == Spec => PullServesCompleted
<1> DEFINE A == (pullPc # "idle" /\ pullPc' = "idle" /\ mark.ready > mark.from)
                  => Len(delivered) > mark.from
<1>1. IInv /\ [Next]_vars => [A]_vars
  <2> SUFFICES ASSUME IInv, Next, pullPc # "idle", pullPc' = "idle", mark.ready > mark.from
               PROVE  Len(delivered) > mark.from
    BY DEF A
  <2>1. PullReturn \/ PullDone
    BY DEF Next, Push, PushCall, PushLock, PushEmplace, PushSize, PushUnlock, PullCall,
           PullStep, PullCheck, CheckWith, PullLock, PullZero, PullSwap, PullUnlock,
           PullFront, PullTo, Destroy, Destroyed, vars, pullVars
  <2> QED
    BY <2>1 DEF PullReturn, PullDone, PullTo, IInv, ServeInv
<1> QED
  BY <1>1, Inductive, PTL DEF Spec, PullServesCompleted

\* The owner of the queue can trust size() and empty(), whoever pushes meanwhile.
THEOREM OwnerCounts == Spec => []SizeToOwner
<1>1. IInv => SizeToOwner
  <2> SUFFICES ASSUME IInv, alive, pullPc \in {"idle", "fun"}
               PROVE  /\ Completed <= Len(delivered) + Size
                      /\ Len(delivered) + Size <= Len(pushed)
                      /\ Empty <=> Size = 0
    BY DEF SizeToOwner
  <2>1. /\ Len(delivered) \in Nat /\ Len(m_queueRead) \in Nat /\ Len(m_queueWrite) \in Nat
        /\ Len(pushed) \in Nat /\ m_sizeWrite \in Nat
        /\ m_queueRead = <<>> <=> Len(m_queueRead) = 0
    BY LenProperties, EmptySeq DEF IInv, TypeOK
  <2>2. Len(delivered) + Len(m_queueRead) + Len(m_queueWrite) = Len(pushed)
    <3>1. /\ delivered \o m_queueRead \in Seq(Data)
          /\ Len(delivered \o m_queueRead) = Len(delivered) + Len(m_queueRead)
      BY ConcatProperties DEF IInv, TypeOK
    <3>2. Len((delivered \o m_queueRead) \o m_queueWrite)
            = Len(delivered \o m_queueRead) + Len(m_queueWrite)
      BY <3>1, ConcatProperties DEF IInv, TypeOK
    <3> QED
      BY <3>1, <3>2 DEF IInv, FifoConserved
  <2>3. CASE \E t \in Threads : pushPc[t] = "size"
    <3>1. Emplaced # {} /\ m_sizeWrite + 1 = Len(m_queueWrite)
      BY <2>3 DEF Emplaced, IInv, QueueInv, SizeInv
    <3> QED
      BY <3>1, <2>1, <2>2 DEF Completed, Size, Empty
  <2>4. CASE ~\E t \in Threads : pushPc[t] = "size"
    <3>1. m_sizeWrite = Len(m_queueWrite)
      BY <2>4 DEF IInv, QueueInv, SizeInv
    <3> QED
      BY <3>1, <2>1, <2>2 DEF Completed, Size, Empty
  <2> QED
    BY <2>3, <2>4
<1> QED
  BY <1>1, Inductive, PTL
-----------------------------------------------------------------------------
\* The steps of queue_rw_t are steps of the abstract mailbox: emplace_back sends,
\* pop_front delivers, the destructor closes, and nothing else is visible.
LEMMA StepRefines == IInv /\ [Next]_vars => [MB!Next]_(MB!mailboxVars)
<1> SUFFICES ASSUME IInv, [Next]_vars
             PROVE  [MB!Next]_(MB!mailboxVars)
  OBVIOUS
<1> USE DEF MB!mailboxVars
<1>1. ASSUME NEW t \in Threads, PushEmplace(t)
      PROVE  MB!Next
  <2>1. arg[t] \in Data
    BY DEF IInv, TypeOK
  <2>2. m_queueRead \o Append(m_queueWrite, arg[t]) = Append(m_queueRead \o m_queueWrite, arg[t])
    BY <2>1, AppendLast DEF IInv, TypeOK
  <2>3. alive
    BY <1>1, KeepsLife DEF Push, IInv
  <2>4. MB!Send(arg[t])
    BY <1>1, <2>2, <2>3 DEF MB!Send, PushEmplace, lockVars
  <2> QED
    BY <2>1, <2>4 DEF MB!Next
<1>2. CASE PullFront
  <2>1. Head(m_queueRead) = Head(m_queueRead \o m_queueWrite)
        /\ Tail(m_queueRead) \o m_queueWrite = Tail(m_queueRead \o m_queueWrite)
        /\ m_queueRead \o m_queueWrite # <<>>
    BY <1>2, HeadTailOfRow DEF PullFront, IInv, TypeOK
  <2>2. alive
    BY <1>2, KeepsLife DEF PullStep, IInv
  <2>3. MB!Deliver
    BY <1>2, <2>1, <2>2 DEF MB!Deliver, PullFront, lockVars
  <2> QED
    BY <2>3 DEF MB!Next
<1>3. CASE Destroy
  <2>1. <<>> \o <<>> = <<>>
    OBVIOUS
  <2>2. MB!Close
    BY <1>3, <2>1 DEF Destroy, MB!Close, pullVars
  <2> QED
    BY <2>2 DEF MB!Next
<1>4. CASE PullSwap
  <2>1. m_queueRead = <<>>
    BY <1>4 DEF PullSwap, PullTo, IInv, QueueInv, SwapInv
  <2>2. <<>> \o m_queueWrite = m_queueWrite \o <<>>
    BY ConcatEmptySeq DEF IInv, TypeOK
  <2> QED
    BY <1>4, <2>1, <2>2 DEF PullSwap, lockVars
<1>5. CASE ~PullFront /\ ~Destroy /\ ~PullSwap /\ ~\E t \in Threads : PushEmplace(t)
  BY <1>5 DEF Next, Push, PushCall, PushLock, PushSize, PushUnlock, PullCall, PullStep,
              PullCheck, CheckWith, PullLock, PullZero, PullUnlock, PullReturn, PullDone,
              Destroyed, vars, lockVars, queueVars, pushVars, pullVars
<1> QED
  BY <1>1, <1>2, <1>3, <1>4, <1>5

\* queue_rw_t implements the mailbox: each actor's messages reach it exactly once,
\* one at a time, in the order the lock gave.
THEOREM Refines == Spec => MailboxSpec
<1>1. Init => MB!Init
  <2>1. <<>> \o <<>> = <<>>
    OBVIOUS
  <2> QED
    BY <2>1 DEF Init, MB!Init
<1> QED
  BY <1>1, StepRefines, Inductive, PTL DEF Spec, MailboxSpec, MB!Spec
=============================================================================
