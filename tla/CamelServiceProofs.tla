------------------------- MODULE CamelServiceProofs -------------------------
(***************************************************************************)
(* Proofs about CamelService for every set of callers, folders and tasks.  *)
(***************************************************************************)
EXTENDS CamelService, SequenceTheorems, WellFoundedInduction, TLAPS

(* ---- the queue of a folder ---- *)

\* g_queue_remove() of the element at the head leaves the tail of the queue.
LEMMA RemoveHead ==
    ASSUME NEW S, NEW s \in Seq(S), s # <<>>
    PROVE  RemoveFirst(s, Head(s)) = Tail(s)
<1> DEFINE I == {i \in 1 .. Len(s) : s[i] = Head(s)}
<1>1. /\ Len(s) \in Nat \ {0}
      /\ 1 \in I
      /\ \A i \in I : 1 <= i
  BY EmptySeq, LenProperties
<1>2. Min(I) = 1
  BY <1>1 DEF Min
<1>3. RemoveFirst(s, Head(s)) = SubSeq(s, 1, Min(I) - 1) \o SubSeq(s, Min(I) + 1, Len(s))
  BY <1>1, <1>2 DEF RemoveFirst, RemoveAt, SelectInSeq
<1> HIDE DEF I
<1>4. RemoveFirst(s, Head(s)) = SubSeq(s, 1, 0) \o SubSeq(s, 2, Len(s))
  BY <1>2, <1>3
<1>5. SubSeq(s, 1, 0) = <<>> /\ SubSeq(s, 2, Len(s)) = Tail(s)
  BY <1>1, SubSeqEmpty, TailIsSubSeq
<1> QED
  BY <1>4, <1>5, HeadTailProperties, ConcatEmptySeq

\* A set of naturals which is not empty has a least element.
LEMMA LeastNatural ==
    ASSUME NEW T \in SUBSET Nat, T # {}
    PROVE  Min(T) \in T
<1> DEFINE R == OpToRel(<, Nat)
<1>1. IsWellFoundedOn(R, Nat)
  BY NatLessThanWellFounded
<1>2. \A i, j \in Nat : ~ (<<i, j>> \in R) => j =< i
  BY DEF OpToRel
<1> HIDE DEF R
<1>3. \E x \in T : \A y \in T : ~ (<<y, x>> \in R)
  BY <1>1, WFMin
<1>4. PICK x \in T : \A y \in T : ~ (<<y, x>> \in R)
  BY <1>3
<1>5. \A y \in T : x =< y
  BY <1>2, <1>4
<1> QED
  BY <1>5 DEF Min

\* g_queue_remove() leaves a queue of the same things.
LEMMA RemoveFirstType ==
    ASSUME NEW S, NEW s \in Seq(S), NEW e
    PROVE  RemoveFirst(s, e) \in Seq(S)
<1>1. CASE \E i \in 1 .. Len(s) : s[i] = e
  <2> DEFINE I == {i \in 1 .. Len(s) : s[i] = e}
             m == Min(I)
  <2>1. m \in 1 .. Len(s)
    BY <1>1, LeastNatural
  <2>2. RemoveFirst(s, e) = SubSeq(s, 1, m - 1) \o SubSeq(s, m + 1, Len(s))
    BY <1>1 DEF RemoveFirst, RemoveAt, SelectInSeq
  <2> HIDE DEF m
  <2>3. SubSeq(s, 1, m - 1) \in Seq(S) /\ SubSeq(s, m + 1, Len(s)) \in Seq(S)
    BY <2>1, LenProperties, ElementOfSeq, SubSeqProperties
  <2> QED
    BY <2>2, <2>3, ConcatProperties
<1>2. CASE ~ \E i \in 1 .. Len(s) : s[i] = e
  BY <1>2 DEF RemoveFirst
<1> QED
  BY <1>1, <1>2

-----------------------------------------------------------------------------
(* ---- type correctness ---- *)

\* The steps of operations, callers and tasks keep the types.
LEMMA TypeInductive == TypeOK /\ [Next]_vars => TypeOK'
<1> SUFFICES ASSUME TypeOK, [Next]_vars PROVE TypeOK'
  OBVIOUS
<1> USE DEF TypeOK
<1> DEFINE OpTypes == TypeOK!1 /\ TypeOK!2 /\ TypeOK!3 /\ TypeOK!4 /\ TypeOK!5 /\ TypeOK!6 /\ TypeOK!7
<1>a. ASSUME NEW op, NEW c \in Callers, connection_op_add_pending(op, c)
      PROVE  OpTypes'
  BY <1>a DEF connection_op_add_pending
<1>b. ASSUME NEW c \in Callers, ReturnAtOnce(c)
      PROVE  OpTypes'
  BY <1>b DEF ReturnAtOnce, Return, opVars
<1>c. ASSUME NEW c \in Callers, NEW st \in Statuses, StartOperation(c, st)
      PROVE  OpTypes'
  BY <1>c DEF StartOperation, ThreadStates
<1>1. ASSUME NEW c \in Callers, camel_service_connect(c), UNCHANGED task_table,
             task' \in [FolderTasks -> TaskStates]
      PROVE  TypeOK'
  BY <1>1, <1>a, <1>b, <1>c DEF camel_service_connect, Statuses
<1>2. ASSUME NEW c \in Callers, camel_service_disconnect(c), UNCHANGED queueVars
      PROVE  TypeOK'
  BY <1>2, <1>a, <1>b, <1>c DEF camel_service_disconnect, queueVars, Statuses
<1>3. ASSUME NEW c \in Callers, Connect(c) PROVE TypeOK'
  BY <1>1, <1>3 DEF Connect, queueVars
<1>4. ASSUME NEW c \in Callers, Disconnect(c) PROVE TypeOK'
  BY <1>2, <1>4 DEF Disconnect
<1>5. ASSUME NEW c \in Callers, ThreadReturns(c) \/ TakeResult(c) PROVE TypeOK'
  BY <1>5 DEF ThreadReturns, TakeResult, queueVars, ThreadStates
<1>6. ASSUME NEW c \in Callers, Callback(c) PROVE TypeOK'
  BY <1>6 DEF Callback, StatusAfter, Return, queueVars, ThreadStates, Statuses
<1>7. ASSUME NEW c \in Callers, Cancel(c) PROVE TypeOK'
  BY <1>7 DEF Cancel, opVars, queueVars
<1>8. ASSUME NEW t \in FolderTasks, QueueTask(t) PROVE TypeOK'
  <2> DEFINE q == Append(task_table[FolderOf[t]], t)
  <2>0. q \in Seq(FolderTasks) /\ FolderOf[t] \in Folders
    BY FolderOfAssumption, AppendProperties
  <2>1. task_table' \in [Folders -> Seq(FolderTasks)]
    <3>1. task_table' = [task_table EXCEPT ![FolderOf[t]] = q]
      BY <1>8 DEF QueueTask
    <3> HIDE DEF q
    <3> QED
      BY <2>0, <3>1
  <2>2. task' \in [FolderTasks -> TaskStates]
    BY <1>8 DEF QueueTask, TaskStates
  <2> QED
    BY <1>8, <2>1, <2>2 DEF QueueTask, opVars
<1>9. ASSUME NEW t \in FolderTasks, service_task_dispatch(t) PROVE TypeOK'
  BY <1>9 DEF service_task_dispatch, opVars, TaskStates
<1>10. ASSUME NEW t \in FolderTasks, folder_maybe_connect_sync(t) PROVE TypeOK'
  BY <1>10 DEF folder_maybe_connect_sync, opVars, TaskStates
<1>11. ASSUME NEW t \in FolderTasks, FolderConnect(t) PROVE TypeOK'
  BY <1>1, <1>11 DEF FolderConnect, TaskStates, Callers
<1>12. ASSUME NEW t \in FolderTasks, FolderConnected(t) PROVE TypeOK'
  BY <1>12 DEF FolderConnected, opVars, TaskStates
<1>13. ASSUME NEW t \in FolderTasks, service_task_table_done(t) PROVE TypeOK'
  <2>1. RemoveFirst(task_table[FolderOf[t]], t) \in Seq(FolderTasks)
    BY FolderOfAssumption, RemoveFirstType
  <2> QED
    BY <1>13, <2>1, FolderOfAssumption DEF service_task_table_done, opVars, TaskStates
<1>14. CASE UNCHANGED vars
  BY <1>14 DEF vars, opVars, queueVars
<1> QED
  BY <1>3, <1>4, <1>5, <1>6, <1>7, <1>8, <1>9, <1>10, <1>11, <1>12, <1>13, <1>14
     DEF Next, OpStep, TaskStep

\* What the operations do to the status, the calls and the queues of tasks keeps
\* the types.
THEOREM TypeCorrect == Spec => []TypeOK
<1>1. Init => TypeOK
  BY DEF Init, TypeOK, Statuses, ThreadStates, TaskStates
<1> QED
  BY <1>1, TypeInductive, PTL DEF Spec

-----------------------------------------------------------------------------
(* ---- the operations ---- *)

\* The operation started last has its outcome exactly when its callback has run,
\* and a disconnect, by status or by those who joined it, is run by a call of
\* camel_service_disconnect().
OpInv ==
    /\ StatusMatchesOp
    /\ LastOperationDecides
    /\ \A c \in Callers : last.op = c /\ thread[c] # "none" => last.outcome = "none"
    /\ status = "DISCONNECTING" => connection_op \in Disconnects
    /\ \A op \in Callers : \A c \in pending[op] : c \in Disconnects => op \in Disconnects

\* No step of an operation, of a caller or of a task breaks OpInv.
LEMMA OpInvInductive == TypeOK /\ OpInv /\ [Next]_vars => OpInv'
<1> SUFFICES ASSUME TypeOK, OpInv, [Next]_vars PROVE OpInv'
  OBVIOUS
<1> USE CallersAssumption DEF TypeOK, OpInv, StatusMatchesOp, LastOperationDecides
<1>1. ASSUME NEW c \in Callers, NEW st \in {"CONNECTING", "DISCONNECTING"},
             st = "DISCONNECTING" => c \in Disconnects, StartOperation(c, st)
      PROVE  OpInv'
  BY <1>1 DEF StartOperation
<1>2. ASSUME NEW c \in Callers, ReturnAtOnce(c) PROVE OpInv'
  BY <1>2 DEF ReturnAtOnce, opVars
<1>3. ASSUME NEW c \in Callers, connection_op_add_pending(connection_op, c),
             c \in Disconnects => status = "DISCONNECTING"
      PROVE  OpInv'
  BY <1>3 DEF connection_op_add_pending
<1>4. ASSUME NEW c \in Callers \ Disconnects, camel_service_connect(c) PROVE OpInv'
  BY <1>1, <1>2, <1>3, <1>4 DEF camel_service_connect
<1>5. ASSUME NEW c \in Disconnects, camel_service_disconnect(c) PROVE OpInv'
  BY <1>1, <1>2, <1>3, <1>5 DEF camel_service_disconnect, Callers
<1>6. ASSUME NEW c \in Callers, Connect(c) PROVE OpInv'
  BY <1>4, <1>6 DEF Connect
<1>7. ASSUME NEW c \in Callers, Disconnect(c) PROVE OpInv'
  BY <1>5, <1>7 DEF Disconnect
<1>8. ASSUME NEW c \in Callers, ThreadReturns(c) \/ TakeResult(c) PROVE OpInv'
  BY <1>8 DEF ThreadReturns, TakeResult
<1>9. ASSUME NEW c \in Callers, Callback(c) PROVE OpInv'
  <2>1. connection_op = c <=> last.op = c
    BY <1>9 DEF Callback
  <2>2. CASE last.op = c
    BY <1>9, <2>1, <2>2 DEF Callback, StatusAfter
  <2>3. CASE last.op # c
    BY <1>9, <2>1, <2>3 DEF Callback
  <2> QED
    BY <2>2, <2>3
<1>10. ASSUME NEW c \in Callers, Cancel(c) PROVE OpInv'
  BY <1>10 DEF Cancel, opVars
<1>11. ASSUME NEW t \in FolderTasks, FolderConnect(t) PROVE OpInv'
  BY <1>4, <1>11 DEF FolderConnect, Callers
<1>12. ASSUME NEW t \in FolderTasks,
              \/ QueueTask(t) \/ service_task_dispatch(t) \/ folder_maybe_connect_sync(t)
              \/ FolderConnected(t) \/ service_task_table_done(t)
       PROVE  OpInv'
  <2>1. UNCHANGED opVars
    BY <1>12 DEF QueueTask, service_task_dispatch, folder_maybe_connect_sync,
                 FolderConnected, service_task_table_done
  <2> QED
    BY <2>1 DEF opVars
<1>13. CASE UNCHANGED vars
  BY <1>13 DEF vars, opVars
<1> QED
  BY <1>6, <1>7, <1>8, <1>9, <1>10, <1>11, <1>12, <1>13 DEF Next, OpStep, TaskStep

\* The invariant holds in every state.
LEMMA OpInvCorrect == Spec => []OpInv
<1>1. Init => OpInv
  BY CallersAssumption DEF Init, OpInv, StatusMatchesOp, LastOperationDecides
<1> QED
  BY <1>1, OpInvInductive, TypeCorrect, PTL DEF Spec

\* The g_return_if_fail() calls of camel_service_connect() and
\* camel_service_disconnect() never fail.
THEOREM StatusCorrect == Spec => []StatusMatchesOp
<1>1. OpInv => StatusMatchesOp
  BY DEF OpInv
<1> QED
  BY <1>1, OpInvCorrect, PTL

\* However late the callback of a replaced operation comes, the operation started
\* last decides about the status.
THEOREM LastOperationCorrect == Spec => []LastOperationDecides
<1>1. OpInv => LastOperationDecides
  BY DEF OpInv
<1> QED
  BY <1>1, OpInvCorrect, PTL

\* A call of camel_service_disconnect() which waited and returns TRUE shared the
\* result of a disconnect operation which succeeded.
THEOREM DisconnectedCorrect == Spec => DisconnectedIndeed
<1> DEFINE Step == \A c \in Disconnects :
                      call[c] = "waiting" /\ call'[c] = "ok" =>
                          \E op \in Disconnects : thread[op] = "result_ok" /\ thread'[op] = "none"
<1>1. TypeOK /\ OpInv /\ [Next]_vars => [Step]_vars
  <2> SUFFICES ASSUME TypeOK, OpInv, Next, NEW c \in Disconnects,
                      call[c] = "waiting", call'[c] = "ok"
               PROVE  \E op \in Disconnects : thread[op] = "result_ok" /\ thread'[op] = "none"
    OBVIOUS
  <2> USE CallersAssumption DEF TypeOK, Callers
  <2>1. ASSUME NEW d \in Callers, d # c, camel_service_connect(d) \/ camel_service_disconnect(d)
        PROVE  call'[c] = call[c]
    BY <2>1 DEF camel_service_connect, camel_service_disconnect, connection_op_add_pending,
                ReturnAtOnce, StartOperation, Return
  <2>2. ASSUME NEW d \in Callers, Connect(d) \/ Disconnect(d) PROVE FALSE
    BY <2>1, <2>2 DEF Connect, Disconnect
  <2>3. ASSUME NEW t \in FolderTasks, FolderConnect(t) PROVE FALSE
    BY <2>1, <2>3 DEF FolderConnect
  <2>4. ASSUME UNCHANGED call PROVE FALSE
    BY <2>4
  <2>5. PICK op \in Callers : Callback(op)
    BY <2>2, <2>3, <2>4
       DEF Next, OpStep, TaskStep, ThreadReturns, TakeResult, Cancel, QueueTask,
           service_task_dispatch, folder_maybe_connect_sync, FolderConnected,
           service_task_table_done
  <2>6. c \in {op} \cup pending[op] /\ thread[op] = "result_ok"
    BY <2>5 DEF Callback, Return
  <2>7. op \in Disconnects
    BY <2>6 DEF OpInv
  <2> QED
    BY <2>5, <2>6, <2>7 DEF Callback
<1> QED
  BY <1>1, OpInvCorrect, TypeCorrect, PTL DEF Spec, DisconnectedIndeed

-----------------------------------------------------------------------------
(* ---- the tasks of a folder ---- *)

\* A task which has been dispatched and is not over.
Active == {"dispatch", "running", "connect", "waiting", "returned"}

\* Queue q of folder f has its tasks which are neither new nor over, each once; the
\* head has been dispatched and the others have not.
QueueOK(f, q, state) ==
    /\ \A i \in 1 .. Len(q) : /\ FolderOf[q[i]] = f
                              /\ state[q[i]] \in IF i = 1 THEN Active ELSE {"queued"}
    /\ \A i, j \in 1 .. Len(q) : q[i] = q[j] => i = j
    /\ \A t \in FolderTasks : FolderOf[t] = f /\ state[t] \notin {"new", "over"} =>
          \E i \in 1 .. Len(q) : q[i] = t

QueueInv == \A f \in Folders : QueueOK(f, task_table[f], task)

\* A task which is put at the end of its queue is to be dispatched only when the
\* queue was empty.
LEMMA AppendQueueOK ==
    ASSUME NEW f \in Folders, NEW q \in Seq(FolderTasks), NEW state \in [FolderTasks -> TaskStates],
           QueueOK(f, q, state), NEW t \in FolderTasks, FolderOf[t] = f, state[t] = "new"
    PROVE  QueueOK(f, Append(q, t),
                   [state EXCEPT ![t] = IF q = <<>> THEN "dispatch" ELSE "queued"])
<1> DEFINE r == Append(q, t)
           next == [state EXCEPT ![t] = IF q = <<>> THEN "dispatch" ELSE "queued"]
<1>1. /\ Len(r) = Len(q) + 1 /\ Len(q) \in Nat
      /\ \A i \in 1 .. Len(q) : r[i] = q[i]
      /\ r[Len(q) + 1] = t
      /\ q = <<>> <=> Len(q) = 0
  BY AppendProperties, LenProperties, EmptySeq
<1>2. \A i \in 1 .. Len(q) : q[i] # t /\ q[i] \in FolderTasks
  BY ElementOfSeq DEF QueueOK, Active
<1> HIDE DEF r
<1>3. \A i \in 1 .. Len(r) : /\ FolderOf[r[i]] = f
                             /\ next[r[i]] \in IF i = 1 THEN Active ELSE {"queued"}
  <2> SUFFICES ASSUME NEW i \in 1 .. Len(r)
               PROVE  /\ FolderOf[r[i]] = f
                      /\ next[r[i]] \in IF i = 1 THEN Active ELSE {"queued"}
    OBVIOUS
  <2>1. CASE i \in 1 .. Len(q)
    <3>1. r[i] = q[i] /\ q[i] # t /\ q[i] \in FolderTasks
      BY <1>1, <1>2, <2>1
    <3> QED
      BY <2>1, <3>1 DEF QueueOK
  <2>2. CASE i = Len(q) + 1
    BY <1>1, <2>2 DEF Active
  <2> QED
    BY <1>1, <2>1, <2>2
<1>4. \A i, j \in 1 .. Len(r) : r[i] = r[j] => i = j
  <2>1. \A i, j \in 1 .. Len(q) : q[i] = q[j] => i = j
    BY DEF QueueOK
  <2> QED
    BY <1>1, <1>2, <2>1
<1>5. \A u \in FolderTasks : FolderOf[u] = f /\ next[u] \notin {"new", "over"} =>
         \E i \in 1 .. Len(r) : r[i] = u
  <2> SUFFICES ASSUME NEW u \in FolderTasks, FolderOf[u] = f, next[u] \notin {"new", "over"}
               PROVE  \E i \in 1 .. Len(r) : r[i] = u
    OBVIOUS
  <2>1. CASE u = t
    BY <1>1, <2>1
  <2>2. CASE u # t
    <3>1. PICK i \in 1 .. Len(q) : q[i] = u
      BY <2>2 DEF QueueOK
    <3> QED
      BY <1>1, <3>1
  <2> QED
    BY <2>1, <2>2
<1> QED
  BY <1>3, <1>4, <1>5 DEF QueueOK, r

\* The tasks after t, the head of the queue q, has ended.
AfterTask(q, t, state) ==
    [u \in FolderTasks |->
        IF u = t THEN "over"
        ELSE IF Tail(q) # <<>> /\ u = Head(Tail(q)) THEN "dispatch"
        ELSE state[u]]

\* When a task ends it is at the head; the next one is dispatched.
LEMMA TailQueueOK ==
    ASSUME NEW f \in Folders, NEW q \in Seq(FolderTasks), NEW state \in [FolderTasks -> TaskStates],
           QueueOK(f, q, state), NEW t \in FolderTasks, FolderOf[t] = f, state[t] = "returned"
    PROVE  /\ q # <<>> /\ Head(q) = t
           /\ QueueOK(f, Tail(q), AfterTask(q, t, state))
<1> DEFINE r == Tail(q)
           next == [u \in FolderTasks |->
                       IF u = t THEN "over"
                       ELSE IF r # <<>> /\ u = Head(r) THEN "dispatch" ELSE state[u]]
<1>1. PICK k \in 1 .. Len(q) : q[k] = t
  BY DEF QueueOK
<1>2. k = 1
  BY <1>1 DEF QueueOK
<1>3. q # <<>> /\ Head(q) = t /\ q[1] = t
  BY <1>1, <1>2, EmptySeq
<1>4. /\ r \in Seq(FolderTasks) /\ Len(q) \in Nat \ {0} /\ Len(r) = Len(q) - 1
      /\ \A i \in 1 .. Len(r) : r[i] = q[i + 1]
      /\ r = <<>> <=> Len(r) = 0
      /\ r # <<>> => Head(r) = r[1]
  <2>1. /\ r \in Seq(FolderTasks) /\ Len(r) = Len(q) - 1
        /\ \A i \in 1 .. Len(r) : r[i] = q[i + 1]
    BY <1>3, HeadTailProperties
  <2>2. Len(q) \in Nat \ {0}
    BY <1>3, LenProperties, EmptySeq
  <2> HIDE DEF r
  <2>3. r = <<>> <=> Len(r) = 0
    BY <2>1, EmptySeq
  <2> QED
    BY <2>1, <2>2, <2>3
<1> HIDE DEF r
<1>5. \A i \in 1 .. Len(r) : r[i] # t /\ r[i] \in FolderTasks
  BY <1>3, <1>4, ElementOfSeq DEF QueueOK
<1>6. \A i \in 1 .. Len(r) : /\ FolderOf[r[i]] = f
                             /\ next[r[i]] \in IF i = 1 THEN Active ELSE {"queued"}
  <2> SUFFICES ASSUME NEW i \in 1 .. Len(r)
               PROVE  /\ FolderOf[r[i]] = f
                      /\ next[r[i]] \in IF i = 1 THEN Active ELSE {"queued"}
    OBVIOUS
  <2>1. FolderOf[r[i]] = f /\ state[r[i]] = "queued"
    <3>1. r[i] = q[i + 1] /\ i + 1 \in 1 .. Len(q) /\ i + 1 # 1
      BY <1>4
    <3> QED
      BY <3>1 DEF QueueOK
  <2>2. CASE i = 1
    BY <1>4, <1>5, <2>1, <2>2 DEF Active
  <2>3. CASE i # 1
    <3>1. r # <<>> /\ r[i] # Head(r)
      BY <1>4, <2>3 DEF QueueOK
    <3> QED
      BY <1>5, <2>1, <2>3, <3>1
  <2> QED
    BY <2>2, <2>3
<1>7. \A i, j \in 1 .. Len(r) : r[i] = r[j] => i = j
  BY <1>4 DEF QueueOK
<1>8. \A u \in FolderTasks : FolderOf[u] = f /\ next[u] \notin {"new", "over"} =>
         \E i \in 1 .. Len(r) : r[i] = u
  <2> SUFFICES ASSUME NEW u \in FolderTasks, FolderOf[u] = f, next[u] \notin {"new", "over"}
               PROVE  \E i \in 1 .. Len(r) : r[i] = u
    OBVIOUS
  <2>1. CASE r # <<>> /\ u = Head(r)
    BY <1>4, <2>1
  <2>2. CASE ~ (r # <<>> /\ u = Head(r))
    <3>1. u # t /\ state[u] \notin {"new", "over"}
      BY <2>2
    <3>2. PICK i \in 1 .. Len(q) : q[i] = u
      BY <3>1 DEF QueueOK
    <3>3. i # 1
      BY <1>3, <3>1, <3>2
    <3>4. i - 1 \in 1 .. Len(r) /\ r[i - 1] = u
      BY <1>4, <3>2, <3>3
    <3> QED
      BY <3>4
  <2> QED
    BY <2>1, <2>2
<1> QED
  BY <1>3, <1>6, <1>7, <1>8 DEF QueueOK, AfterTask, r

\* What happens to a task of another folder does not matter to a queue.
LEMMA OtherQueueOK ==
    ASSUME NEW f \in Folders, NEW q \in Seq(FolderTasks),
           NEW state \in [FolderTasks -> TaskStates], NEW next \in [FolderTasks -> TaskStates],
           QueueOK(f, q, state), \A u \in FolderTasks : FolderOf[u] = f => next[u] = state[u]
    PROVE  QueueOK(f, q, next)
BY ElementOfSeq DEF QueueOK

\* A dispatched task which goes on stays at the head of its queue.
LEMMA ActiveQueueOK ==
    ASSUME NEW f \in Folders, NEW q \in Seq(FolderTasks), NEW state \in [FolderTasks -> TaskStates],
           QueueOK(f, q, state), NEW t \in FolderTasks, state[t] \in Active, NEW s \in Active
    PROVE  QueueOK(f, q, [state EXCEPT ![t] = s])
BY ElementOfSeq DEF QueueOK, Active

\* Queueing, dispatching and ending tasks keep the queues as QueueInv says.
LEMMA QueueInvInductive == TypeOK /\ QueueInv /\ [Next]_vars => QueueInv'
<1> SUFFICES ASSUME TypeOK, TypeOK', QueueInv, [Next]_vars PROVE QueueInv'
  BY TypeInductive
<1> USE FolderOfAssumption DEF TypeOK, QueueInv
<1>1. ASSUME UNCHANGED <<task_table, task>> PROVE QueueInv'
  BY <1>1
<1>2. ASSUME NEW t \in FolderTasks, NEW s \in Active, task[t] \in Active,
             UNCHANGED task_table, task' = [task EXCEPT ![t] = s]
      PROVE  QueueInv'
  BY <1>2, ActiveQueueOK
<1>3. ASSUME NEW t \in FolderTasks, QueueTask(t) PROVE QueueInv'
  <2>1. ASSUME NEW f \in Folders, f # FolderOf[t] PROVE QueueOK(f, task_table'[f], task')
    BY <1>3, <2>1, OtherQueueOK DEF QueueTask
  <2>2. QueueOK(FolderOf[t], task_table'[FolderOf[t]], task')
    BY <1>3, AppendQueueOK DEF QueueTask
  <2> QED
    BY <2>1, <2>2
<1>4. ASSUME NEW t \in FolderTasks, service_task_table_done(t) PROVE QueueInv'
  <2> DEFINE f == FolderOf[t]
             q == task_table[f]
  <2>1. /\ q \in Seq(FolderTasks) /\ QueueOK(f, q, task) /\ f \in Folders
        /\ FolderOf[t] = f /\ task[t] = "returned" /\ task \in [FolderTasks -> TaskStates]
    BY <1>4 DEF service_task_table_done
  <2> HIDE DEF q, f
  <2>2. /\ q # <<>> /\ Head(q) = t
        /\ QueueOK(f, Tail(q), AfterTask(q, t, task))
    BY <2>1, TailQueueOK
  <2>3. RemoveFirst(q, t) = Tail(q)
    BY <2>1, <2>2, RemoveHead
  <2>4. /\ task_table' = [task_table EXCEPT ![f] = Tail(q)]
        /\ task' = AfterTask(q, t, task)
    BY <1>4, <2>3 DEF service_task_table_done, AfterTask, q, f
  <2>5. Tail(q) # <<>> => FolderOf[Head(Tail(q))] = f
    <3>1. Tail(q) # <<>> => Head(Tail(q)) = q[2] /\ 2 \in 1 .. Len(q)
      BY <2>1, <2>2, HeadTailProperties, EmptySeq
    <3> QED
      BY <2>1, <3>1 DEF QueueOK
  <2>6. ASSUME NEW g \in Folders, g # f PROVE QueueOK(g, task_table'[g], task')
    <3>1. \A u \in FolderTasks : FolderOf[u] = g => task'[u] = task[u]
      BY <2>1, <2>4, <2>5, <2>6 DEF AfterTask
    <3>2. task_table'[g] = task_table[g]
      BY <2>4, <2>6
    <3> QED
      BY <3>1, <3>2, OtherQueueOK
  <2>7. QueueOK(f, task_table'[f], task')
    BY <2>1, <2>2, <2>4
  <2> QED
    BY <2>6, <2>7
<1>5. ASSUME NEW c \in Callers, Connect(c) \/ Disconnect(c) \/ OpStep(c) \/ Cancel(c)
      PROVE  QueueInv'
  BY <1>1, <1>5 DEF Connect, Disconnect, OpStep, ThreadReturns, TakeResult, Callback, Cancel, queueVars
<1>6. ASSUME NEW t \in FolderTasks,
             \/ service_task_dispatch(t) \/ folder_maybe_connect_sync(t)
             \/ FolderConnect(t) \/ FolderConnected(t)
      PROVE  QueueInv'
  BY <1>2, <1>6 DEF service_task_dispatch, folder_maybe_connect_sync, FolderConnect,
                    FolderConnected, Active
<1>7. CASE UNCHANGED vars
  BY <1>1, <1>7 DEF vars, queueVars
<1> QED
  BY <1>3, <1>4, <1>5, <1>6, <1>7 DEF Next, TaskStep

\* The tasks of a folder run one at a time, in the order they were queued.
THEOREM OneTaskCorrect == Spec => []OneTaskAtATime
<1>1. Init => QueueInv
  BY DEF Init, QueueInv, QueueOK
<1>2. TypeOK /\ QueueInv => OneTaskAtATime
  <2> SUFFICES ASSUME TypeOK, QueueInv, NEW t \in FolderTasks, task[t] \notin {"new", "queued", "over"}
               PROVE  Head(task_table[FolderOf[t]]) = t
    BY DEF OneTaskAtATime
  <2>1. /\ FolderOf[t] \in Folders
        /\ task_table[FolderOf[t]] \in Seq(FolderTasks)
    BY FolderOfAssumption DEF TypeOK
  <2>2. PICK i \in 1 .. Len(task_table[FolderOf[t]]) : task_table[FolderOf[t]][i] = t
    BY <2>1 DEF QueueInv, QueueOK
  <2>3. i = 1
    BY <2>1, <2>2 DEF QueueInv, QueueOK
  <2> QED
    BY <2>1, <2>2, <2>3
<1> QED
  BY <1>1, <1>2, QueueInvInductive, TypeCorrect, PTL DEF Spec

-----------------------------------------------------------------------------
(* ---- nobody is forgotten ---- *)

\* A call which waits is that of an operation, or has joined one, whose callback is
\* still to come; the operation in progress is such an operation.
WaitInv ==
    /\ connection_op # None => thread[connection_op] # "none"
    /\ \A c \in Callers : call[c] = "waiting" =>
          \E op \in Callers : thread[op] # "none" /\ c \in {op} \cup pending[op]
    /\ \A t \in FolderTasks : task[t] = "waiting" => call[t] # "idle"

\* A call joins an operation only while its callback is to come, and an operation
\* which is replaced keeps the calls which joined it.
LEMMA WaitInvInductive == TypeOK /\ OpInv /\ WaitInv /\ [Next]_vars => WaitInv'
<1> SUFFICES ASSUME TypeOK, OpInv, WaitInv, [Next]_vars PROVE WaitInv'
  OBVIOUS
<1> USE CallersAssumption DEF TypeOK
<1> DEFINE Ops == /\ connection_op' # None => thread'[connection_op'] # "none"
                  /\ \A c \in Callers : call'[c] = "waiting" =>
                        \E op \in Callers : thread'[op] # "none" /\ c \in {op} \cup pending'[op]
           Kept(c) == \A d \in Callers : call[d] # "idle" \/ d = c => call'[d] # "idle"
<1>1. ASSUME NEW c \in Callers, NEW st, StartOperation(c, st) PROVE Ops /\ Kept(c)
  BY <1>1 DEF StartOperation, WaitInv
<1>2. ASSUME NEW c \in Callers, ReturnAtOnce(c) PROVE Ops /\ Kept(c)
  BY <1>2 DEF ReturnAtOnce, Return, opVars, WaitInv
<1>3. ASSUME NEW c \in Callers, connection_op # None, connection_op_add_pending(connection_op, c)
      PROVE  Ops /\ Kept(c)
  BY <1>3 DEF connection_op_add_pending, WaitInv
<1>4. ASSUME NEW c \in Callers, camel_service_connect(c) \/ camel_service_disconnect(c)
      PROVE  Ops /\ Kept(c)
  BY <1>1, <1>2, <1>3, <1>4 DEF camel_service_connect, camel_service_disconnect, OpInv, StatusMatchesOp
<1>5. ASSUME NEW c \in Callers, Connect(c) \/ Disconnect(c) PROVE WaitInv'
  BY <1>4, <1>5 DEF Connect, Disconnect, queueVars, WaitInv, Callers
<1>6. ASSUME NEW t \in FolderTasks, FolderConnect(t) PROVE WaitInv'
  <2>1. Ops /\ Kept(t)
    BY <1>4, <1>6 DEF FolderConnect, Callers
  <2>2. \A u \in FolderTasks : task'[u] = "waiting" => task[u] = "waiting" \/ u = t
    BY <1>6 DEF FolderConnect
  <2> QED
    BY <2>1, <2>2 DEF WaitInv, Callers
<1>7. ASSUME NEW c \in Callers, ThreadReturns(c) \/ TakeResult(c) PROVE WaitInv'
  <2>1. \A op \in Callers : thread[op] # "none" => thread'[op] # "none"
    BY <1>7 DEF ThreadReturns, TakeResult
  <2> QED
    BY <1>7, <2>1 DEF ThreadReturns, TakeResult, queueVars, WaitInv
<1>8. ASSUME NEW c \in Callers, Callback(c) PROVE WaitInv'
  <2>1. /\ \A op \in Callers \ {c} : thread'[op] = thread[op] /\ pending'[op] = pending[op]
        /\ connection_op' # None => connection_op' = connection_op /\ connection_op # c
        /\ task' = task
    BY <1>8 DEF Callback, queueVars
  <2>2. \A d \in Callers : /\ call'[d] = "waiting" => call[d] = "waiting" /\ d \notin {c} \cup pending[c]
                           /\ call[d] # "idle" => call'[d] # "idle"
    BY <1>8 DEF Callback, Return
  <2>3. ASSUME NEW d \in Callers, call'[d] = "waiting"
        PROVE  \E op \in Callers : thread'[op] # "none" /\ d \in {op} \cup pending'[op]
    <3>1. PICK op \in Callers : thread[op] # "none" /\ d \in {op} \cup pending[op]
      BY <2>2, <2>3 DEF WaitInv
    <3>2. op # c
      BY <2>2, <2>3, <3>1
    <3> QED
      BY <2>1, <3>1, <3>2
  <2> QED
    BY <2>1, <2>2, <2>3 DEF WaitInv, Callers
<1>9. ASSUME NEW c \in Callers, Cancel(c) PROVE WaitInv'
  BY <1>9 DEF Cancel, opVars, queueVars, WaitInv
<1>10. ASSUME NEW t \in FolderTasks,
              \/ QueueTask(t) \/ service_task_dispatch(t) \/ folder_maybe_connect_sync(t)
              \/ FolderConnected(t) \/ service_task_table_done(t)
       PROVE  WaitInv'
  <2>1. UNCHANGED <<opVars, call>>
    BY <1>10 DEF QueueTask, service_task_dispatch, folder_maybe_connect_sync,
                 FolderConnected, service_task_table_done
  <2>2. \A u \in FolderTasks : task'[u] = "waiting" => task[u] = "waiting"
    BY <1>10 DEF QueueTask, service_task_dispatch, folder_maybe_connect_sync,
                 FolderConnected, service_task_table_done
  <2> QED
    BY <2>1, <2>2 DEF opVars, WaitInv
<1>11. CASE UNCHANGED vars
  BY <1>11 DEF vars, opVars, queueVars, WaitInv
<1> QED
  BY <1>5, <1>6, <1>7, <1>8, <1>9, <1>10, <1>11 DEF Next, OpStep, TaskStep

\* Nothing the service could still do by itself is left: no thread or callback of an
\* operation is to come, and no task can go on.
Quiet ==
    /\ \A c \in Callers : thread[c] = "none"
    /\ \A t \in FolderTasks :
          \/ task[t] \in {"new", "queued", "over"}
          \/ task[t] = "waiting" /\ call[t] \notin {"ok", "error"}

\* A service which has come to rest leaves nobody waiting: every call has returned,
\* also one which joined an operation that was replaced, and no folder has a task.
RestsOnlyWhenDone ==
    Quiet => /\ \A c \in Callers : call[c] # "waiting"
             /\ \A f \in Folders : task_table[f] = <<>>

\* However operations replace each other, no call and no task is forgotten: the
\* safety half of CallsReturn, for any number of callers, folders and tasks.
THEOREM NoLostCall == Spec => []RestsOnlyWhenDone
<1>1. Init => WaitInv /\ QueueInv
  BY DEF Init, WaitInv, QueueInv, QueueOK
<1>2. TypeOK /\ QueueInv /\ WaitInv => RestsOnlyWhenDone
  <2> SUFFICES ASSUME TypeOK, QueueInv, WaitInv, Quiet
               PROVE  /\ \A c \in Callers : call[c] # "waiting"
                      /\ \A f \in Folders : task_table[f] = <<>>
    BY DEF RestsOnlyWhenDone
  <2>1. \A c \in Callers : call[c] # "waiting"
    BY DEF WaitInv, Quiet
  <2>2. \A t \in FolderTasks : task[t] \in {"new", "queued", "over"}
    BY <2>1 DEF Quiet, WaitInv, TypeOK, Callers
  <2>3. ASSUME NEW f \in Folders, task_table[f] # <<>> PROVE FALSE
    <3>1. task_table[f] \in Seq(FolderTasks)
      BY DEF TypeOK
    <3>2. 1 \in 1 .. Len(task_table[f]) /\ task_table[f][1] \in FolderTasks
      BY <2>3, <3>1, EmptySeq, LenProperties, ElementOfSeq
    <3>3. task[task_table[f][1]] \in Active
      BY <3>2 DEF QueueInv, QueueOK
    <3> QED
      BY <2>2, <3>2, <3>3 DEF Active
  <2> QED
    BY <2>1, <2>3
<1> QED
  BY <1>1, <1>2, WaitInvInductive, QueueInvInductive, OpInvCorrect, TypeCorrect, PTL DEF Spec
=============================================================================
