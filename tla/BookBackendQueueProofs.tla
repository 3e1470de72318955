----------------------- MODULE BookBackendQueueProofs -----------------------
(***************************************************************************)
(* Proofs about BookBackendQueue for any calls and threads and every size  *)
(* of the thread pool, and that it implements OperationQueue.              *)
(***************************************************************************)
EXTENDS BookBackendQueue, SequenceTheorems, FiniteSetTheorems, TLAPS

(* ---- queues ---- *)

NoDuplicates(s) == \A i, j \in 1 .. Len(s) : s[i] = s[j] => i = j

\* g_queue_push_tail() adds the element; it is the only new one.
LEMMA AppendElements ==
    ASSUME NEW S, NEW s \in Seq(S), NEW e \in S
    PROVE  /\ Append(s, e) \in Seq(S)
           /\ Elements(Append(s, e)) = Elements(s) \cup {e}
           /\ NoDuplicates(s) /\ e \notin Elements(s) => NoDuplicates(Append(s, e))
<1> DEFINE r == Append(s, e)
<1>1. /\ r \in Seq(S) /\ Len(r) = Len(s) + 1 /\ Len(s) \in Nat
      /\ \A i \in 1 .. Len(s) : r[i] = s[i]
      /\ r[Len(s) + 1] = e
  BY AppendProperties, LenProperties
<1>2. DOMAIN s = 1 .. Len(s) /\ DOMAIN r = 1 .. Len(r)
  BY <1>1
<1> HIDE DEF r
<1>3. Elements(r) = Elements(s) \cup {e}
  <2>1. ASSUME NEW x \in Elements(r) PROVE x \in Elements(s) \cup {e}
    <3>1. PICK i \in 1 .. Len(r) : x = r[i]
      BY <1>2 DEF Elements
    <3>2. CASE i \in 1 .. Len(s)
      BY <1>1, <1>2, <3>1, <3>2 DEF Elements
    <3>3. CASE i = Len(s) + 1
      BY <1>1, <3>1, <3>3
    <3> QED
      BY <1>1, <3>2, <3>3
  <2>2. ASSUME NEW x \in Elements(s) PROVE x \in Elements(r)
    <3>1. PICK i \in 1 .. Len(s) : x = s[i]
      BY <1>2 DEF Elements
    <3> QED
      BY <1>1, <1>2, <3>1 DEF Elements
  <2>3. e \in Elements(r)
    BY <1>1, <1>2 DEF Elements
  <2> QED
    BY <2>1, <2>2, <2>3
<1>4. ASSUME NoDuplicates(s), e \notin Elements(s) PROVE NoDuplicates(r)
  <2>1. \A i \in 1 .. Len(s) : r[i] = s[i] /\ s[i] # e
    BY <1>1, <1>2, <1>4 DEF Elements
  <2>2. \A i, j \in 1 .. Len(s) : s[i] = s[j] => i = j
    BY <1>4 DEF NoDuplicates
  <2> QED
    BY <1>1, <2>1, <2>2 DEF NoDuplicates
<1> QED
  BY <1>1, <1>3, <1>4 DEF r

\* g_queue_pop_head() takes the head, which is nowhere else in the queue.
LEMMA TailElements ==
    ASSUME NEW S, NEW s \in Seq(S), s # <<>>, NoDuplicates(s)
    PROVE  /\ Head(s) \in S /\ Tail(s) \in Seq(S)
           /\ Head(s) \in Elements(s)
           /\ Elements(Tail(s)) = Elements(s) \ {Head(s)}
           /\ NoDuplicates(Tail(s))
<1> DEFINE r == Tail(s)
           h == Head(s)
<1>1. /\ h \in S /\ r \in Seq(S) /\ Len(r) = Len(s) - 1
      /\ \A i \in 1 .. Len(r) : r[i] = s[i + 1]
  BY HeadTailProperties
<1>2. Len(s) \in Nat \ {0} /\ h = s[1]
  BY LenProperties, EmptySeq
<1>3. DOMAIN s = 1 .. Len(s) /\ DOMAIN r = 1 .. Len(r)
  BY <1>1
<1>4. \A i, j \in 1 .. Len(s) : s[i] = s[j] => i = j
  BY DEF NoDuplicates
<1> HIDE DEF r, h
<1>5. h \in Elements(s)
  BY <1>2, <1>3 DEF Elements
<1>6. ASSUME NEW x \in Elements(r) PROVE x \in Elements(s) \ {h}
  <2>1. PICK i \in 1 .. Len(r) : x = r[i]
    BY <1>3 DEF Elements
  <2>2. i + 1 \in 1 .. Len(s) /\ i + 1 # 1 /\ x = s[i + 1] /\ 1 \in 1 .. Len(s)
    BY <1>1, <1>2, <2>1
  <2> QED
    BY <1>2, <1>3, <1>4, <2>2 DEF Elements
<1>7. ASSUME NEW x \in Elements(s) \ {h} PROVE x \in Elements(r)
  <2>1. PICK i \in 1 .. Len(s) : x = s[i]
    BY <1>3 DEF Elements
  <2>2. i # 1
    BY <1>2, <1>7, <2>1
  <2>3. i - 1 \in 1 .. Len(r) /\ r[i - 1] = x
    BY <1>1, <1>2, <2>1, <2>2
  <2> QED
    BY <1>3, <2>3 DEF Elements
<1>8. NoDuplicates(r)
  <2> SUFFICES ASSUME NEW i \in 1 .. Len(r), NEW j \in 1 .. Len(r), r[i] = r[j] PROVE i = j
    BY DEF NoDuplicates
  <2>1. /\ i + 1 \in 1 .. Len(s) /\ j + 1 \in 1 .. Len(s)
        /\ s[i + 1] = s[j + 1]
    BY <1>1, <1>2
  <2>2. i + 1 = j + 1
    BY <1>4, <2>1
  <2> QED
    BY <2>2
<1> QED
  BY <1>1, <1>5, <1>6, <1>7, <1>8 DEF r, h

\* A queue without duplicates is not longer than what it can hold.
LEMMA SeqOfNoDuplicates ==
    ASSUME NEW S, IsFiniteSet(S), NEW s \in Seq(S), NoDuplicates(s)
    PROVE  s \in SeqOf(S)
<1>1. s \in [1 .. Len(s) -> S] /\ Len(s) \in Nat
  OBVIOUS
<1>2. s \in Injection(1 .. Len(s), S)
  BY <1>1 DEF Injection, IsInjective, NoDuplicates
<1>3. Cardinality(1 .. Len(s)) = Len(s)
  <2>1. 1 \in Int /\ Len(s) \in Int
    BY <1>1
  <2>2. Cardinality(1 .. Len(s)) = IF 1 > Len(s) THEN 0 ELSE Len(s) - 1 + 1
    BY ONLY <2>1, FS_Interval, Zenon
  <2> QED
    BY <1>1, <2>2
<1>4. Cardinality(1 .. Len(s)) <= Cardinality(S)
  BY <1>2, FS_Injection
<1>5. Len(s) \in 0 .. Cardinality(S)
  BY <1>1, <1>3, <1>4, FS_CardinalityType
<1> QED
  BY <1>1, <1>5 DEF SeqOf

-----------------------------------------------------------------------------
(* ---- where an operation is ---- *)

\* The types, without a bound on the length of the queues.
Types ==
    /\ pending_operations \in Seq(Ops)
    /\ blocked \in Blocking \cup {None}
    /\ opened \in BOOLEAN
    /\ pool \in Seq(Ops)
    /\ running \in SUBSET Ops
    /\ answer \in [Ops -> Answers]
    /\ finished \in SUBSET Ops
    /\ thread \in [Threads -> [pc: {"idle", "dispatch", "push", "return"},
                               task: Ops \cup {None}, node: Ops \cup {None}]]
    /\ calls \in Seq(Ops)
    /\ started \in Seq(Ops)

\* The nodes which have been popped, and not yet been given to the pool.
Popped == {o \in Ops : \E t \in Threads : thread[t].node = o}

\* A thread has a node only between the pop and the push, and no two have the same.
NodesInv ==
    /\ \A t \in Threads : thread[t].node # None => thread[t].pc = "push"
    /\ \A t \in Threads : thread[t].pc = "push" => thread[t].node # None
    /\ \A t, u \in Threads : thread[t].node # None /\ thread[t].node = thread[u].node => t = u

\* A call is in one place only: in the queue, with the thread which popped it,
\* in the pool, or run.
PlaceInv ==
    /\ Elements(calls) = Elements(pending_operations) \cup Popped \cup Elements(pool)
                         \cup Elements(started)
    /\ Elements(pending_operations) \cap Popped = {}
    /\ Elements(pending_operations) \cap Elements(pool) = {}
    /\ Elements(pending_operations) \cap Elements(started) = {}
    /\ Popped \cap Elements(pool) = {}
    /\ Popped \cap Elements(started) = {}
    /\ Elements(pool) \cap Elements(started) = {}
    /\ NoDuplicates(pending_operations)
    /\ NoDuplicates(pool)
    /\ NoDuplicates(calls)
    /\ NoDuplicates(started)

\* What has no answer has not been run, or is being run; the pool has no more
\* threads than it may have.
AnswerInv ==
    /\ \A o \in Ops : answer[o] # "none" => o \in Elements(started) /\ o \notin running
    /\ \A o \in finished : answer[o] # "none"
    /\ running \subseteq Elements(started)
    /\ IsFiniteSet(running)
    /\ Cardinality(running) <= MaxThreads

\* How many calls have left the queue.
Left == Len(calls) - Len(pending_operations)

\* The queue is what is left of the calls, in their order; a blocking operation
\* without an answer is the one noted in `blocked`, and the last to have left.
OrderInv ==
    /\ Left >= 0
    /\ \A i \in 1 .. Len(pending_operations) : pending_operations[i] = calls[Left + i]
    /\ \A b \in Blocking \cap Active : blocked = b /\ Left >= 1 /\ calls[Left] = b

IInv == Types /\ NodesInv /\ PlaceInv /\ AnswerInv /\ OrderInv

\* book_backend_dispatch_next_operation() which finds something to dispatch.
Pop(t) ==
    /\ thread[t].pc = "dispatch"
    /\ blocked = None
    /\ pending_operations # <<>>
    /\ pending_operations' = Tail(pending_operations)
    /\ blocked' = IF Head(pending_operations) \in Blocking THEN Head(pending_operations) ELSE blocked
    /\ thread' = [thread EXCEPT ![t].pc = "push", ![t].node = Head(pending_operations)]
    /\ UNCHANGED <<opened, pool, running, answer, finished, calls, started>>

\* And when it finds nothing.
PopNothing(t) ==
    /\ thread[t].pc = "dispatch"
    /\ thread' = [thread EXCEPT ![t] = Leave(t)]
    /\ UNCHANGED <<pending_operations, blocked, opened, pool, running, answer, finished, calls, started>>

\* There is no other way.
LEMMA DispatchCases ==
    ASSUME NEW t, DispatchNextOperation(t)
    PROVE  Pop(t) \/ PopNothing(t)
BY DEF DispatchNextOperation, Pop, PopNothing

\* A thread of the pool takes the first node: the task is answered at once, or
\* the backend's function begins.
LEMMA StartCases ==
    ASSUME Types, StartOperation
    PROVE  /\ Head(pool) \in Ops
           /\ \/ \E result \in Answers \ {"none"} : AnswerTask(Head(pool), result)
              \/ Stash(Head(pool))
<1>1. Head(pool) \in Ops
  BY HeadTailProperties DEF StartOperation, Types
<1> QED
  BY <1>1 DEF StartOperation, OpenThread, MethodThread, CustomOperationThread, Answers

-----------------------------------------------------------------------------
(* ---- the invariant is kept ---- *)

\* Calls, dispatching, the pool and the callbacks keep the types.
LEMMA TypesInductive == IInv /\ [Next]_vars => Types'
<1> SUFFICES ASSUME IInv, [Next]_vars PROVE Types'
  OBVIOUS
<1> USE DEF IInv, Types, Idle, At
<1>1. ASSUME NEW t \in Threads, NEW o \in Ops, PushOperation(t, o) PROVE Types'
  <2>1. Append(pending_operations, o) \in Seq(Ops) /\ Append(calls, o) \in Seq(Ops)
    BY AppendElements
  <2> QED
    BY <1>1, <2>1 DEF PushOperation
<1>2. ASSUME NEW t \in Threads, Pop(t) PROVE Types'
  <2>1. Head(pending_operations) \in Ops /\ Tail(pending_operations) \in Seq(Ops)
    BY <1>2, HeadTailProperties DEF Pop
  <2> QED
    BY <1>2, <2>1 DEF Pop
<1>3. ASSUME NEW t \in Threads, PopNothing(t) PROVE Types'
  BY <1>3 DEF PopNothing, Leave
<1>4. ASSUME NEW t \in Threads, ThreadPoolPush(t) PROVE Types'
  <2>1. thread[t].node \in Ops
    BY <1>4 DEF ThreadPoolPush, NodesInv
  <2>2. Append(pool, thread[t].node) \in Seq(Ops)
    BY <2>1, AppendElements
  <2> QED
    BY <1>4, <2>2 DEF ThreadPoolPush
<1>5. ASSUME NEW t \in Threads, NEW o \in Ops, UnblockOperations(t, o) PROVE Types'
  BY <1>5 DEF UnblockOperations
<1>6. ASSUME NEW t \in Threads, Return(t) PROVE Types'
  BY <1>6 DEF Return
<1>7. CASE StartOperation
  <2>1. Head(pool) \in Ops /\ Tail(pool) \in Seq(Ops)
    BY <1>7, HeadTailProperties DEF StartOperation
  <2>2. Append(started, Head(pool)) \in Seq(Ops)
    BY <2>1, AppendElements
  <2>3. answer' \in [Ops -> Answers] /\ running' \in SUBSET Ops
    BY <1>7, <2>1, StartCases DEF AnswerTask, Stash
  <2> QED
    BY <1>7, <2>1, <2>2, <2>3 DEF StartOperation
<1>8. ASSUME NEW o \in Ops, Respond(o) PROVE Types'
  BY <1>8 DEF Respond, Answers
<1>9. CASE UNCHANGED vars
  BY <1>9 DEF vars
<1> QED
  BY <1>1, <1>2, <1>3, <1>4, <1>5, <1>6, <1>7, <1>8, <1>9, DispatchCases DEF Next, Dispatch, Finish

\* Only the pop and the push change which thread has which node.
LEMMA NodesInductive == IInv /\ [Next]_vars => NodesInv'
<1> SUFFICES ASSUME IInv, [Next]_vars PROVE NodesInv'
  OBVIOUS
<1> USE OpsAssumption DEF IInv, Types, NodesInv, Idle, At
<1>1. ASSUME NEW t \in Threads, NEW o \in Ops, PushOperation(t, o) PROVE NodesInv'
  BY <1>1 DEF PushOperation
<1>2. ASSUME NEW t \in Threads, Pop(t) PROVE NodesInv'
  <2> DEFINE h == Head(pending_operations)
  <2>1. h \in Ops /\ h \in Elements(pending_operations)
    BY <1>2, TailElements DEF Pop, PlaceInv
  <2>2. \A u \in Threads : thread[u].node # h
    BY <2>1 DEF PlaceInv, Popped
  <2> HIDE DEF h
  <2> QED
    BY <1>2, <2>1, <2>2 DEF Pop, h
<1>3. ASSUME NEW t \in Threads, PopNothing(t) PROVE NodesInv'
  BY <1>3 DEF PopNothing, Leave
<1>4. ASSUME NEW t \in Threads, ThreadPoolPush(t) PROVE NodesInv'
  BY <1>4 DEF ThreadPoolPush
<1>5. ASSUME NEW t \in Threads, NEW o \in Ops, UnblockOperations(t, o) PROVE NodesInv'
  BY <1>5 DEF UnblockOperations
<1>6. ASSUME NEW t \in Threads, Return(t) PROVE NodesInv'
  BY <1>6 DEF Return
<1>7. ASSUME UNCHANGED thread PROVE NodesInv'
  BY <1>7
<1> QED
  BY <1>1, <1>2, <1>3, <1>4, <1>5, <1>6, <1>7, DispatchCases
     DEF Next, Dispatch, Finish, StartOperation, Respond, vars

\* A call enters the queue once and goes from place to place.
LEMMA PlaceInductive == IInv /\ [Next]_vars => PlaceInv'
<1> SUFFICES ASSUME IInv, [Next]_vars PROVE PlaceInv'
  OBVIOUS
<1> USE DEF IInv, Types
<1>1. ASSUME NEW t \in Threads, NEW o \in Ops, PushOperation(t, o) PROVE PlaceInv'
  <2>1. Popped' = Popped
    BY <1>1, OpsAssumption DEF PushOperation, Popped, Idle, At
  <2>2. /\ Elements(pending_operations') = Elements(pending_operations) \cup {o}
        /\ Elements(calls') = Elements(calls) \cup {o}
        /\ NoDuplicates(pending_operations') /\ NoDuplicates(calls')
        /\ o \notin Elements(calls)
    BY <1>1, AppendElements DEF PushOperation, PlaceInv
  <2> QED
    BY <1>1, <2>1, <2>2 DEF PushOperation, PlaceInv
<1>2. ASSUME NEW t \in Threads, Pop(t) PROVE PlaceInv'
  <2> DEFINE h == Head(pending_operations)
  <2>1. /\ h \in Ops /\ h \in Elements(pending_operations)
        /\ Elements(pending_operations') = Elements(pending_operations) \ {h}
        /\ NoDuplicates(pending_operations')
    BY <1>2, TailElements DEF Pop, PlaceInv
  <2> HIDE DEF h
  <2>2. Popped' = Popped \cup {h}
    <3>1. thread[t].node = None /\ thread' = [thread EXCEPT ![t].pc = "push", ![t].node = h]
      BY <1>2 DEF Pop, NodesInv, h
    <3> QED
      BY <2>1, <3>1, OpsAssumption DEF Popped
  <2> QED
    BY <1>2, <2>1, <2>2 DEF Pop, PlaceInv
<1>3. ASSUME NEW t \in Threads, ThreadPoolPush(t) PROVE PlaceInv'
  <2> DEFINE n == thread[t].node
  <2>1. n \in Ops /\ n \in Popped
    BY <1>3 DEF ThreadPoolPush, NodesInv, Popped
  <2>2. /\ Elements(pool') = Elements(pool) \cup {n}
        /\ NoDuplicates(pool')
    BY <1>3, <2>1, AppendElements DEF ThreadPoolPush, PlaceInv
  <2>3. Popped' = Popped \ {n}
    BY <1>3, <2>1, OpsAssumption DEF ThreadPoolPush, NodesInv, Popped, Idle, At
  <2> HIDE DEF n
  <2> QED
    BY <1>3, <2>1, <2>2, <2>3 DEF ThreadPoolPush, PlaceInv
<1>4. CASE StartOperation
  <2> DEFINE h == Head(pool)
  <2>1. /\ h \in Ops /\ h \in Elements(pool)
        /\ Elements(pool') = Elements(pool) \ {h}
        /\ NoDuplicates(pool')
    BY <1>4, TailElements DEF StartOperation, PlaceInv
  <2>2. h \notin Elements(started)
    BY <2>1 DEF PlaceInv
  <2>3. /\ Elements(started') = Elements(started) \cup {h}
        /\ NoDuplicates(started')
    BY <1>4, <2>1, <2>2, AppendElements DEF StartOperation, PlaceInv
  <2>4. Popped' = Popped
    BY <1>4 DEF StartOperation, Popped
  <2> HIDE DEF h
  <2> QED
    BY <1>4, <2>1, <2>2, <2>3, <2>4 DEF StartOperation, PlaceInv
<1>5. ASSUME UNCHANGED <<pending_operations, pool, calls, started>>, Popped' = Popped
      PROVE  PlaceInv'
  BY <1>5 DEF PlaceInv
<1>6. ASSUME NEW t \in Threads, PopNothing(t) PROVE PlaceInv'
  <2>1. Popped' = Popped
    BY <1>6, OpsAssumption DEF PopNothing, NodesInv, Popped, Leave, Idle, At
  <2> QED
    BY <1>5, <1>6, <2>1 DEF PopNothing
<1>7. ASSUME NEW t \in Threads, NEW o \in Ops, UnblockOperations(t, o) PROVE PlaceInv'
  <2>1. Popped' = Popped
    BY <1>7, OpsAssumption DEF UnblockOperations, Popped, Idle, At
  <2> QED
    BY <1>5, <1>7, <2>1 DEF UnblockOperations
<1>8. ASSUME NEW t \in Threads, Return(t) PROVE PlaceInv'
  <2>1. Popped' = Popped
    BY <1>8, OpsAssumption DEF Return, NodesInv, Popped, Idle, At
  <2> QED
    BY <1>5, <1>8, <2>1 DEF Return
<1>9. ASSUME NEW o \in Ops, Respond(o) PROVE PlaceInv'
  BY <1>5, <1>9 DEF Respond, Popped
<1>10. CASE UNCHANGED vars
  BY <1>5, <1>10 DEF vars, Popped
<1> QED
  BY <1>1, <1>2, <1>3, <1>4, <1>6, <1>7, <1>8, <1>9, <1>10, DispatchCases DEF Next, Dispatch, Finish

\* A task is answered once, by what runs it, and finished after that.
LEMMA AnswerInductive == IInv /\ [Next]_vars => AnswerInv'
<1> SUFFICES ASSUME IInv, [Next]_vars PROVE AnswerInv'
  OBVIOUS
<1> USE DEF IInv, Types
<1>1. CASE StartOperation
  <2> DEFINE h == Head(pool)
  <2>1. /\ h \in Ops /\ h \notin Elements(started)
        /\ Elements(started') = Elements(started) \cup {h}
    <3>1. h \in Ops /\ h \in Elements(pool)
      BY <1>1, TailElements DEF StartOperation, PlaceInv
    <3> QED
      BY <1>1, <3>1, AppendElements DEF StartOperation, PlaceInv
  <2>2. h \notin running
    BY <2>1 DEF AnswerInv
  <2> HIDE DEF h
  <2>3. ASSUME NEW result \in Answers \ {"none"}, AnswerTask(h, result) PROVE AnswerInv'
    BY <1>1, <2>1, <2>2, <2>3 DEF StartOperation, AnswerTask, AnswerInv
  <2>4. ASSUME Stash(h) PROVE AnswerInv'
    <3>1. /\ IsFiniteSet(running \cup {h})
          /\ Cardinality(running \cup {h}) = Cardinality(running) + 1
          /\ Cardinality(running) \in Nat
      BY <2>2, FS_AddElement, FS_CardinalityType DEF AnswerInv
    <3>2. Cardinality(running \cup {h}) <= MaxThreads
      BY <1>1, <3>1, MaxThreadsAssumption DEF StartOperation
    <3> QED
      BY <1>1, <2>1, <2>4, <3>1, <3>2 DEF StartOperation, Stash, AnswerInv
  <2> QED
    BY <1>1, <2>3, <2>4, StartCases DEF h
<1>2. ASSUME NEW o \in Ops, Respond(o) PROVE AnswerInv'
  <2>1. IsFiniteSet(running \ {o}) /\ Cardinality(running \ {o}) <= Cardinality(running)
    BY FS_Subset DEF AnswerInv
  <2>2. Cardinality(running) \in Nat /\ Cardinality(running \ {o}) \in Nat
    BY <2>1, FS_CardinalityType DEF AnswerInv
  <2>3. IsFiniteSet(running') /\ Cardinality(running') <= MaxThreads
    BY <1>2, <2>1, <2>2, MaxThreadsAssumption DEF Respond, AnswerInv
  <2> QED
    BY <1>2, <2>3 DEF Respond, AnswerInv
<1>3. ASSUME NEW t \in Threads, NEW o \in Ops, UnblockOperations(t, o) PROVE AnswerInv'
  BY <1>3 DEF UnblockOperations, AnswerInv
<1>4. ASSUME UNCHANGED <<answer, running, started, finished>> PROVE AnswerInv'
  BY <1>4 DEF AnswerInv
<1> QED
  BY <1>1, <1>2, <1>3, <1>4
     DEF Next, Dispatch, Finish, vars, PushOperation, DispatchNextOperation, ThreadPoolPush, Return

\* A new call waits.
LEMMA ActivePush ==
    ASSUME IInv, NEW t \in Threads, NEW o \in Ops, PushOperation(t, o)
    PROVE  /\ Active' = Active
           /\ o \notin Active /\ o \notin Elements(pending_operations) /\ answer[o] = "none"
<1>1. /\ Elements(pending_operations') = Elements(pending_operations) \cup {o}
      /\ Elements(calls') = Elements(calls) \cup {o}
      /\ o \notin Elements(calls) /\ answer' = answer
  BY AppendElements DEF PushOperation, IInv, Types
<1>2. o \notin Elements(pending_operations) /\ answer[o] = "none"
  BY <1>1 DEF IInv, PlaceInv, AnswerInv
<1> QED
  BY <1>1, <1>2 DEF Active

\* The head of the queue is popped when no blocking operation is in progress.
LEMMA ActivePop ==
    ASSUME IInv, NEW t \in Threads, Pop(t)
    PROVE  /\ Head(pending_operations) \in Ops
           /\ Active' = Active \cup {Head(pending_operations)}
           /\ Active \cap Blocking = {}
<1> DEFINE h == Head(pending_operations)
<1>1. /\ h \in Ops /\ h \in Elements(pending_operations)
      /\ Elements(pending_operations') = Elements(pending_operations) \ {h}
  BY TailElements DEF Pop, IInv, Types, PlaceInv
<1>2. h \in Elements(calls) /\ answer[h] = "none"
  BY <1>1 DEF IInv, PlaceInv, AnswerInv
<1>3. Active \cap Blocking = {}
  BY OpsAssumption DEF Pop, IInv, OrderInv, Ops, Blocking
<1> HIDE DEF h
<1>4. Active' = Active \cup {h}
  BY <1>1, <1>2 DEF Pop, Active
<1> QED
  BY <1>1, <1>3, <1>4 DEF h

\* A call which is answered is not active any more.
LEMMA ActiveAnswer ==
    ASSUME IInv, NEW o \in Ops, NEW result \in Answers \ {"none"},
           answer' = [answer EXCEPT ![o] = result], UNCHANGED <<pending_operations, calls>>
    PROVE  Active' = Active \ {o}
BY DEF Active, IInv, Types, PlaceInv, Popped

\* The queue stays what is left of the calls, and a blocking operation the last to
\* have left it.
LEMMA OrderInductive == IInv /\ [Next]_vars => OrderInv'
<1> SUFFICES ASSUME IInv, [Next]_vars PROVE OrderInv'
  OBVIOUS
<1> DEFINE p == pending_operations
           c == calls
<1>0. /\ p \in Seq(Ops) /\ c \in Seq(Ops) /\ Len(p) \in Nat /\ Len(c) \in Nat
      /\ Left = Len(c) - Len(p) /\ Left >= 0
      /\ \A i \in 1 .. Len(p) : p[i] = c[Left + i]
      /\ \A b \in Blocking \cap Active : blocked = b /\ Left >= 1 /\ c[Left] = b
  BY LenProperties DEF IInv, Types, OrderInv, Left
<1> USE DEF OrderInv
<1>1. ASSUME NEW t \in Threads, NEW o \in Ops, PushOperation(t, o) PROVE OrderInv'
  <2>1. /\ p' = Append(p, o) /\ c' = Append(c, o) /\ blocked' = blocked
    BY <1>1 DEF PushOperation
  <2>2. /\ Len(p') = Len(p) + 1 /\ Len(c') = Len(c) + 1
        /\ \A i \in 1 .. Len(p) : p'[i] = p[i]
        /\ \A i \in 1 .. Len(c) : c'[i] = c[i]
        /\ p'[Len(p) + 1] = o /\ c'[Len(c) + 1] = o
    BY <1>0, <2>1, AppendProperties
  <2>3. Left' = Left
    BY <1>0, <2>2 DEF Left
  <2>4. Active' = Active
    BY <1>1, ActivePush
  <2> HIDE DEF p, c
  <2>5. \A i \in 1 .. Len(p') : p'[i] = c'[Left + i]
    <3> SUFFICES ASSUME NEW i \in 1 .. Len(p') PROVE p'[i] = c'[Left + i]
      OBVIOUS
    <3>1. CASE i \in 1 .. Len(p)
      <4>1. Left + i \in 1 .. Len(c) /\ p[i] = c[Left + i] /\ p'[i] = p[i]
        BY <1>0, <2>2, <3>1
      <4> QED
        BY <2>2, <4>1
    <3>2. CASE i = Len(p) + 1
      BY <1>0, <2>2, <3>2
    <3> QED
      BY <1>0, <2>2, <3>1, <3>2
  <2>6. \A b \in Blocking \cap Active : blocked' = b /\ Left >= 1 /\ c'[Left] = b
    BY <1>0, <2>1, <2>2
  <2> QED
    BY <1>0, <2>3, <2>4, <2>5, <2>6 DEF p, c
<1>2. ASSUME NEW t \in Threads, Pop(t) PROVE OrderInv'
  <2> DEFINE h == Head(p)
  <2>1. /\ p # <<>> /\ p' = Tail(p) /\ c' = c
        /\ blocked' = IF h \in Blocking THEN h ELSE blocked
    BY <1>2 DEF Pop
  <2>2. /\ Len(p) \in Nat \ {0} /\ Len(p') = Len(p) - 1 /\ h = p[1]
        /\ \A i \in 1 .. Len(p') : p'[i] = p[i + 1]
    BY <1>0, <2>1, HeadTailProperties, EmptySeq
  <2>3. Left' = Left + 1
    BY <1>0, <2>1, <2>2 DEF Left
  <2>4. Active' = Active \cup {h} /\ Active \cap Blocking = {}
    BY <1>2, ActivePop
  <2> HIDE DEF p, c, h
  <2>5. \A i \in 1 .. Len(p') : p'[i] = c'[Left + 1 + i]
    BY <1>0, <2>1, <2>2
  <2>6. c[Left + 1] = h
    BY <1>0, <2>2
  <2>7. \A b \in Blocking \cap Active' : blocked' = b /\ Left + 1 >= 1 /\ c'[Left + 1] = b
    BY <1>0, <2>1, <2>4, <2>6
  <2> QED
    BY <1>0, <2>3, <2>5, <2>7 DEF p, c
<1>3. ASSUME UNCHANGED <<pending_operations, calls, blocked>>, Active' \subseteq Active
      PROVE  OrderInv'
  BY <1>0, <1>3 DEF Left
<1>4. CASE StartOperation
  <2>1. PICK o \in Ops : (\E result \in Answers \ {"none"} : AnswerTask(o, result)) \/ Stash(o)
    BY <1>4, StartCases DEF IInv
  <2>2. UNCHANGED <<pending_operations, calls, blocked>>
    BY <1>4 DEF StartOperation
  <2>3. Active' \subseteq Active
    <3>1. ASSUME NEW result \in Answers \ {"none"}, AnswerTask(o, result) PROVE Active' \subseteq Active
      BY <2>2, <3>1, ActiveAnswer DEF AnswerTask
    <3>2. ASSUME Stash(o) PROVE Active' \subseteq Active
      BY <2>2, <3>2 DEF Stash, Active
    <3> QED
      BY <2>1, <3>1, <3>2
  <2> QED
    BY <1>3, <2>2, <2>3
<1>5. ASSUME NEW o \in Ops, Respond(o) PROVE OrderInv'
  <2>1. PICK result \in Answers \ {"none"} : answer' = [answer EXCEPT ![o] = result]
    BY <1>5 DEF Respond, Answers
  <2>2. UNCHANGED <<pending_operations, calls, blocked>>
    BY <1>5 DEF Respond
  <2> QED
    BY <1>3, <2>1, <2>2, ActiveAnswer
<1>6. ASSUME NEW t \in Threads, NEW o \in Ops, UnblockOperations(t, o) PROVE OrderInv'
  <2>1. o \notin Active
    BY <1>6 DEF UnblockOperations, Active
  <2>2. \A b \in Blocking \cap Active : blocked' = b
    BY <1>0, <1>6, <2>1 DEF UnblockOperations
  <2>3. UNCHANGED <<pending_operations, calls>> /\ Active' = Active
    BY <1>6 DEF UnblockOperations, Active
  <2> QED
    BY <1>0, <2>2, <2>3 DEF Left
<1>7. ASSUME UNCHANGED <<pending_operations, calls, blocked, answer>> PROVE OrderInv'
  BY <1>3, <1>7 DEF Active
<1> QED
  BY <1>1, <1>2, <1>4, <1>5, <1>6, <1>7, DispatchCases
     DEF Next, Dispatch, Finish, vars, PopNothing, ThreadPoolPush, Return

\* The invariant holds in every state.
LEMMA IInvCorrect == Spec => []IInv
<1>1. Init => IInv
  <2> SUFFICES ASSUME Init PROVE IInv
    OBVIOUS
  <2> USE OpsAssumption DEF Init, Idle, At
  <2>1. Types
    BY EmptySeq DEF Types, Answers
  <2>2. NodesInv
    BY DEF NodesInv
  <2>3. Elements(<<>>) = {} /\ NoDuplicates(<<>>)
    BY DEF Elements, NoDuplicates
  <2>4. Popped = {}
    BY DEF Popped
  <2>5. PlaceInv
    BY <2>3, <2>4 DEF PlaceInv
  <2>6. AnswerInv
    BY FS_EmptySet, MaxThreadsAssumption DEF AnswerInv
  <2>7. OrderInv
    BY <2>3 DEF OrderInv, Left, Active
  <2> QED
    BY <2>1, <2>2, <2>5, <2>6, <2>7 DEF IInv
<1>2. IInv /\ [Next]_vars => IInv'
  BY TypesInductive, NodesInductive, PlaceInductive, AnswerInductive, OrderInductive DEF IInv
<1> QED
  BY <1>1, <1>2, PTL DEF Spec

-----------------------------------------------------------------------------
(* ---- the theorems ---- *)

\* The queues, the threads and the answers keep their types, no queue is longer
\* than there are calls and the pool has no more threads than it may have.
THEOREM TypeCorrect == Spec => []TypeOK
<1>1. IInv => TypeOK
  <2> SUFFICES ASSUME IInv PROVE TypeOK
    OBVIOUS
  <2>1. /\ pending_operations \in SeqOf(Ops) /\ pool \in SeqOf(Ops)
        /\ calls \in SeqOf(Ops) /\ started \in SeqOf(Ops)
    BY OpsAssumption, SeqOfNoDuplicates DEF IInv, Types, PlaceInv
  <2> QED
    BY <2>1 DEF IInv, Types, AnswerInv, TypeOK
<1> QED
  BY <1>1, IInvCorrect, PTL

\* While opening the backend or a custom operation is in progress, nothing called
\* after it leaves the queue, whichever threads call and dispatch.
THEOREM BlockingCorrect == Spec => []NothingPassesBlocking
<1>1. IInv => NothingPassesBlocking
  <2> SUFFICES ASSUME IInv, NEW b \in Blocking, NEW o \in Ops, CalledBefore(b, o),
                      answer[b] = "none"
               PROVE  o \in Elements(pending_operations)
    BY DEF NothingPassesBlocking
  <2> DEFINE p == pending_operations
             c == calls
  <2>0. /\ p \in Seq(Ops) /\ c \in Seq(Ops) /\ Len(p) \in Nat /\ Len(c) \in Nat
        /\ DOMAIN p = 1 .. Len(p) /\ DOMAIN c = 1 .. Len(c)
        /\ Left = Len(c) - Len(p) /\ Left >= 0
        /\ \A k \in 1 .. Len(p) : p[k] = c[Left + k]
        /\ \A d \in Blocking \cap Active : Left >= 1 /\ c[Left] = d
        /\ \A k, l \in 1 .. Len(c) : c[k] = c[l] => k = l
    BY LenProperties DEF IInv, Types, OrderInv, PlaceInv, NoDuplicates, Left
  <2>1. PICK i \in DOMAIN c, j \in DOMAIN c : i < j /\ c[i] = b /\ c[j] = o
    BY DEF CalledBefore
  <2> HIDE DEF p, c
  <2>2. Left <= i
    <3>1. CASE b \in Elements(p)
      <4>1. PICK k \in 1 .. Len(p) : p[k] = b
        BY <2>0, <3>1 DEF Elements
      <4>2. Left + k \in 1 .. Len(c) /\ c[Left + k] = b
        BY <2>0, <4>1
      <4>3. Left + k = i
        BY <2>0, <2>1, <4>2
      <4> QED
        BY <2>0, <4>3
    <3>2. CASE b \notin Elements(p)
      <4>1. b \in Active
        BY <2>0, <2>1, <3>2 DEF Active, Elements, p, c
      <4>2. Left \in 1 .. Len(c) /\ c[Left] = b
        BY <2>0, <4>1
      <4> QED
        BY <2>0, <2>1, <4>2
    <3> QED
      BY <3>1, <3>2
  <2>3. j - Left \in 1 .. Len(p) /\ p[j - Left] = o
    BY <2>0, <2>1, <2>2
  <2> QED
    BY <2>0, <2>3 DEF Elements, p
<1> QED
  BY <1>1, IInvCorrect, PTL

\* The number of the indices at which a sequence without duplicates has an element.
LEMMA OccursOnce ==
    ASSUME NEW S, NEW s \in Seq(S), NoDuplicates(s), NEW e
    PROVE  Cardinality({i \in DOMAIN s : s[i] = e}) = IF e \in Elements(s) THEN 1 ELSE 0
<1> DEFINE I == {i \in DOMAIN s : s[i] = e}
<1>1. CASE e \in Elements(s)
  <2>1. PICK k \in DOMAIN s : s[k] = e
    BY <1>1 DEF Elements
  <2>2. DOMAIN s = 1 .. Len(s)
    BY LenProperties
  <2>3. I = {k}
    BY <2>1, <2>2 DEF NoDuplicates
  <2> QED
    BY <1>1, <2>3, FS_Singleton
<1>2. CASE e \notin Elements(s)
  <2>1. I = {}
    BY <1>2 DEF Elements
  <2> QED
    BY <1>2, <2>1, FS_EmptySet
<1> QED
  BY <1>1, <1>2

\* Nothing is run twice, and what has not been run is in one of the queues or with
\* one thread, also between the unlock and the push to the pool.
THEOREM RunOnceCorrect == Spec => []RunOnce
<1>1. IInv => RunOnce
  <2> SUFFICES ASSUME IInv PROVE RunOnce
    OBVIOUS
  <2> USE DEF IInv, Types
  <2>1. Len(started) = Cardinality(Elements(started))
    <3>1. started \in Bijection(1 .. Len(started), Elements(started)) /\ Len(started) \in Nat
      <4>1. started \in [1 .. Len(started) -> Ops] /\ DOMAIN started = 1 .. Len(started)
            /\ Len(started) \in Nat
        BY LenProperties
      <4> QED
        BY <4>1 DEF PlaceInv, NoDuplicates, Elements, Bijection, Injection, Surjection, IsInjective
    <3>2. ExistsBijection(1 .. Len(started), Elements(started))
      BY <3>1 DEF ExistsBijection
    <3> QED
      BY <3>1, <3>2, FS_CountingElements
  <2>2. ASSUME NEW o \in Elements(calls) \ Elements(started)
        PROVE  Cardinality({i \in DOMAIN pending_operations : pending_operations[i] = o})
               + Cardinality({t \in Threads : thread[t].node = o})
               + Cardinality({i \in DOMAIN pool : pool[i] = o}) = 1
    <3>1. o \in Ops
      BY LenProperties DEF Elements
    <3>2. Cardinality({t \in Threads : thread[t].node = o}) = IF o \in Popped THEN 1 ELSE 0
      <4>1. CASE o \in Popped
        <5>1. PICK t \in Threads : thread[t].node = o
          BY <4>1 DEF Popped
        <5>2. {u \in Threads : thread[u].node = o} = {t}
          BY <3>1, <5>1, OpsAssumption DEF NodesInv
        <5> QED
          BY <4>1, <5>2, FS_Singleton
      <4>2. CASE o \notin Popped
        <5>1. {u \in Threads : thread[u].node = o} = {}
          BY <3>1, <4>2 DEF Popped
        <5> QED
          BY <4>2, <5>1, FS_EmptySet
      <4> QED
        BY <4>1, <4>2
    <3>3. Cardinality({i \in DOMAIN pending_operations : pending_operations[i] = o})
          = IF o \in Elements(pending_operations) THEN 1 ELSE 0
      BY OccursOnce DEF PlaceInv
    <3>4. Cardinality({i \in DOMAIN pool : pool[i] = o}) = IF o \in Elements(pool) THEN 1 ELSE 0
      BY OccursOnce DEF PlaceInv
    <3>5. \/ o \in Elements(pending_operations) /\ o \notin Popped /\ o \notin Elements(pool)
          \/ o \notin Elements(pending_operations) /\ o \in Popped /\ o \notin Elements(pool)
          \/ o \notin Elements(pending_operations) /\ o \notin Popped /\ o \in Elements(pool)
      BY <2>2 DEF PlaceInv
    <3> QED
      BY <3>2, <3>3, <3>4, <3>5
  <2> QED
    BY <2>1, <2>2 DEF RunOnce
<1> QED
  BY <1>1, IInvCorrect, PTL

\* Whoever dispatches, and however the release of the lock, the pool and the main
\* loop interleave, the queue is the one OperationQueue promises.
THEOREM ImplementsCorrect == Spec => ImplementsQueue
<1>1. Init => Queue!Init
  <2>1. Elements(<<>>) = {}
    BY DEF Elements
  <2> QED
    BY <2>1 DEF Init, Queue!Init, Active
<1>2. IInv /\ [Next]_vars => [Queue!Next]_(Queue!vars)
  <2> SUFFICES ASSUME IInv, [Next]_vars PROVE [Queue!Next]_(Queue!vars)
    OBVIOUS
  <2>1. ASSUME NEW t \in Threads, NEW o \in Ops, PushOperation(t, o) PROVE Queue!Call(o)
    <3>1. \A i \in DOMAIN pending_operations : pending_operations[i] # o
      BY <2>1, ActivePush DEF Elements
    <3> QED
      BY <2>1, <3>1, ActivePush DEF PushOperation, Queue!Call
  <2>2. ASSUME NEW t \in Threads, Pop(t) PROVE Queue!Begin
    BY <2>2, ActivePop DEF Pop, Queue!Begin
  <2>3. ASSUME UNCHANGED <<pending_operations, calls, answer, finished>> PROVE UNCHANGED Queue!vars
    BY <2>3 DEF Active, Queue!vars
  <2>4. ASSUME NEW t \in Threads, NEW o \in Ops, UnblockOperations(t, o) PROVE Queue!Finish(o)
    BY <2>4 DEF UnblockOperations, Queue!Finish, Active
  <2>5. ASSUME NEW o \in Ops, NEW result \in Answers \ {"none"}, o \in Active,
               answer' = [answer EXCEPT ![o] = result],
               UNCHANGED <<pending_operations, calls, finished>>
        PROVE  Queue!Answer(o)
    BY <2>5, ActiveAnswer DEF Queue!Answer
  <2>6. ASSUME NEW o \in Ops, Respond(o) PROVE Queue!Answer(o)
    <3>1. o \in Active
      BY <2>6 DEF Respond, Active, IInv, PlaceInv, AnswerInv
    <3>2. PICK result \in Answers \ {"none"} : answer' = [answer EXCEPT ![o] = result]
      BY <2>6 DEF Respond, Answers
    <3> QED
      BY <2>5, <2>6, <3>1, <3>2 DEF Respond
  <2>7. ASSUME StartOperation PROVE (\E o \in Ops : Queue!Answer(o)) \/ UNCHANGED Queue!vars
    <3> DEFINE h == Head(pool)
    <3>1. h \in Elements(pool) /\ h \in Ops
      BY <2>7, TailElements DEF StartOperation, IInv, Types, PlaceInv
    <3>2. h \in Active
      BY <3>1 DEF Active, IInv, PlaceInv, AnswerInv
    <3>3. UNCHANGED <<pending_operations, calls, finished>>
      BY <2>7 DEF StartOperation
    <3>4. ASSUME NEW result \in Answers \ {"none"}, AnswerTask(h, result) PROVE Queue!Answer(h)
      BY <2>5, <3>1, <3>2, <3>3, <3>4 DEF AnswerTask
    <3>5. ASSUME Stash(h) PROVE UNCHANGED Queue!vars
      BY <2>3, <3>3, <3>5 DEF Stash
    <3> QED
      BY <2>7, <3>1, <3>4, <3>5, StartCases DEF IInv
  <2> QED
    BY <2>1, <2>2, <2>3, <2>4, <2>6, <2>7, DispatchCases
       DEF Next, Dispatch, Finish, vars, PopNothing, ThreadPoolPush, Return, Queue!Next
<1> QED
  BY <1>1, <1>2, IInvCorrect, PTL DEF Spec, ImplementsQueue, Queue!Spec

-----------------------------------------------------------------------------
(* ---- nobody is forgotten ---- *)

\* The calls which have left the queue.
Gone == Elements(calls) \ Elements(pending_operations)

\* Whoever waits has somebody who dispatches: a thread about to look into the
\* queue, or an operation whose *_finish() will; and the operation which blocks
\* the queue is one of these.
AttendInv ==
    /\ blocked # None => blocked \in Gone \ finished
    /\ \A o \in Elements(started) : o \in running \/ answer[o] # "none"
    /\ pending_operations # <<>> =>
          \/ \E t \in Threads : thread[t].pc = "dispatch"
          \/ Gone \ finished # {}

\* No step leaves the queue to itself: a thread which finds it blocked can rely on
\* the *_finish() of the operation which blocks it, one which takes a single
\* operation on that of the operation it has taken.
LEMMA AttendInductive == IInv /\ AttendInv /\ [Next]_vars => AttendInv'
<1> SUFFICES ASSUME IInv, AttendInv, [Next]_vars PROVE AttendInv'
  OBVIOUS
<1> USE DEF IInv, Types
<1>1. ASSUME NEW t \in Threads, NEW o \in Ops, PushOperation(t, o) PROVE AttendInv'
  <2>1. /\ Elements(pending_operations') = Elements(pending_operations) \cup {o}
        /\ Elements(calls') = Elements(calls) \cup {o}
    BY <1>1, AppendElements DEF PushOperation
  <2>2. Gone' = Gone
    BY <1>1, <2>1 DEF PushOperation, Gone
  <2>3. thread'[t].pc = "dispatch"
    BY <1>1 DEF PushOperation, At
  <2> QED
    BY <1>1, <2>2, <2>3 DEF PushOperation, AttendInv
<1>2. ASSUME NEW t \in Threads, Pop(t) PROVE AttendInv'
  <2> DEFINE h == Head(pending_operations)
  <2>1. /\ h \in Ops /\ h \in Elements(pending_operations)
        /\ Elements(pending_operations') = Elements(pending_operations) \ {h}
    BY <1>2, TailElements DEF Pop, PlaceInv
  <2>2. h \in Elements(calls) /\ h \notin finished
    BY <2>1 DEF PlaceInv, AnswerInv
  <2>3. blocked = None /\ blocked' \in {h, None} /\ UNCHANGED <<calls, started, running, answer, finished>>
    BY <1>2 DEF Pop
  <2> HIDE DEF h
  <2>4. h \in (Gone \ finished)'
    BY <2>1, <2>2, <2>3 DEF Gone
  <2> QED
    BY <2>3, <2>4 DEF AttendInv
<1>3. ASSUME NEW t \in Threads, DispatchNextOperation(t), PopNothing(t) PROVE AttendInv'
  <2>1. Gone' = Gone /\ UNCHANGED <<pending_operations, blocked, started, running, answer, finished>>
    BY <1>3 DEF PopNothing, Gone
  <2>2. ASSUME pending_operations # <<>>, blocked = None PROVE FALSE
    <3>1. thread'[t].pc = "push"
      BY <1>3, <2>2 DEF DispatchNextOperation
    <3>2. thread'[t].pc # "push"
      BY <1>3 DEF PopNothing, Leave, Idle, At
    <3> QED
      BY <3>1, <3>2
  <2> QED
    BY <2>1, <2>2 DEF AttendInv
<1>4. ASSUME NEW t \in Threads, ThreadPoolPush(t) \/ Return(t) PROVE AttendInv'
  <2>1. Gone' = Gone /\ UNCHANGED <<pending_operations, blocked, started, running, answer, finished>>
    BY <1>4 DEF ThreadPoolPush, Return, Gone
  <2>2. ASSUME NEW u \in Threads, thread[u].pc = "dispatch" PROVE thread'[u].pc = "dispatch"
    BY <1>4, <2>2 DEF ThreadPoolPush, Return
  <2> QED
    BY <2>1, <2>2 DEF AttendInv
<1>5. ASSUME NEW t \in Threads, NEW o \in Ops, UnblockOperations(t, o) PROVE AttendInv'
  <2>1. Gone' = Gone /\ UNCHANGED <<pending_operations, started, running, answer>>
    BY <1>5 DEF UnblockOperations, Gone
  <2>2. thread'[t].pc = "dispatch"
    BY <1>5 DEF UnblockOperations, Threads, At
  <2>3. blocked' # None => blocked' = blocked /\ blocked # o
    BY <1>5 DEF UnblockOperations
  <2>4. finished' = finished \cup {o}
    BY <1>5 DEF UnblockOperations
  <2> QED
    BY <2>1, <2>2, <2>3, <2>4 DEF AttendInv
<1>6. CASE StartOperation
  <2> DEFINE h == Head(pool)
  <2>1. Elements(started') = Elements(started) \cup {h} /\ h \in Ops
    BY <1>6, StartCases, AppendElements DEF StartOperation
  <2>2. UNCHANGED <<pending_operations, blocked, finished, thread, calls>> /\ Gone' = Gone
    BY <1>6 DEF StartOperation, Gone
  <2>3. \A o \in Elements(started') : o \in running' \/ answer'[o] # "none"
    <3> HIDE DEF h
    <3>1. ASSUME NEW result \in Answers \ {"none"}, AnswerTask(h, result)
          PROVE  \A o \in Elements(started') : o \in running' \/ answer'[o] # "none"
      BY <2>1, <3>1 DEF AnswerTask, AttendInv
    <3>2. ASSUME Stash(h) PROVE \A o \in Elements(started') : o \in running' \/ answer'[o] # "none"
      BY <2>1, <3>2 DEF Stash, AttendInv
    <3> QED
      BY <1>6, <3>1, <3>2, StartCases DEF h
  <2> QED
    BY <2>2, <2>3 DEF AttendInv
<1>7. ASSUME NEW o \in Ops, Respond(o) PROVE AttendInv'
  <2>1. Gone' = Gone /\ UNCHANGED <<pending_operations, blocked, finished, thread, calls, started>>
    BY <1>7 DEF Respond, Gone
  <2>2. \A p \in Elements(started) : p \in running' \/ answer'[p] # "none"
    BY <1>7 DEF Respond, AttendInv
  <2> QED
    BY <2>1, <2>2 DEF AttendInv
<1>8. CASE UNCHANGED vars
  BY <1>8 DEF vars, AttendInv, Gone
<1> QED
  BY <1>1, <1>2, <1>3, <1>4, <1>5, <1>6, <1>7, <1>8, DispatchCases DEF Next, Dispatch, Finish

\* Nothing the queue could still do by itself is left: every thread is out of this
\* code, the pool is idle and each answered task has been finished.
Quiet ==
    /\ \A t \in Threads : thread[t] = Idle
    /\ pool = <<>> /\ running = {}
    /\ \A o \in Ops : answer[o] # "none" => o \in finished

\* A queue which has come to rest has answered and finished every call: none is
\* left waiting behind a lost dispatch or a blocking operation which is over.
RestsOnlyWhenDone == Quiet => Elements(calls) = finished

\* Whichever threads call, dispatch and finish, no dispatch is lost: the safety
\* half of EveryCallFinishes, for any number of calls and threads.
THEOREM NoLostDispatch == Spec => []RestsOnlyWhenDone
<1>1. Init => AttendInv
  BY DEF Init, AttendInv, Elements
<1>2. IInv /\ AttendInv => RestsOnlyWhenDone
  <2> SUFFICES ASSUME IInv, AttendInv, Quiet PROVE Elements(calls) = finished
    BY DEF RestsOnlyWhenDone
  <2>1. Popped = {} /\ Elements(pool) = {}
    BY OpsAssumption DEF Quiet, Popped, Elements, Idle, At
  <2>2. Elements(started) \subseteq finished
    BY DEF Quiet, AttendInv, IInv, Types, Elements
  <2>3. finished \subseteq Elements(started)
    BY DEF IInv, Types, AnswerInv
  <2>4. Gone \subseteq Elements(started)
    BY <2>1 DEF Gone, IInv, PlaceInv
  <2>5. \A t \in Threads : thread[t].pc # "dispatch"
    BY DEF Quiet, Idle, At
  <2>6. pending_operations = <<>>
    BY <2>2, <2>4, <2>5 DEF AttendInv
  <2>7. Elements(pending_operations) = {}
    BY <2>6 DEF Elements
  <2> QED
    BY <2>1, <2>2, <2>3, <2>7 DEF IInv, PlaceInv
<1> QED
  BY <1>1, <1>2, IInvCorrect, AttendInductive, PTL DEF Spec
=============================================================================
