---------------------------- MODULE CamelService ----------------------------
(***************************************************************************)
(* CamelService (src/camel/camel-service.c): the connection operations     *)
(* which the callers of a mail service share, and the queues which run the *)
(* asynchronous methods of its folders one at a time.                      *)
(*                                                                         *)
(* A ConnectionOp is named by the caller that started it.  Its thread runs *)
(* connect_sync() or disconnect_sync() of the provider; the callback       *)
(* service_shared_connect_cb() or service_shared_disconnect_cb() takes the *)
(* result of the thread and only then connection_lock, so another caller   *)
(* can replace the operation in between.                                   *)
(*                                                                         *)
(* A folder task is queued with camel_service_queue_task(), its source     *)
(* object being the folder; when it runs it reconnects the service first   *)
(* if needed (folder_maybe_connect_sync() in src/camel/camel-folder.c), as *)
(* one more caller of camel_service_connect().                             *)
(***************************************************************************)
EXTENDS Naturals, Sequences, SequencesExt

CONSTANTS
    Connects,      \* calls of camel_service_connect()
    Disconnects,   \* calls of camel_service_disconnect()
    FolderTasks,   \* tasks given to camel_service_queue_task()
    Folders,       \* their source objects
    FolderOf,      \* the folder of each task
    Cancellers,    \* bound: the callers which cancel what they asked for
    None

Callers == Connects \cup Disconnects \cup FolderTasks

ASSUME CallersAssumption ==
    /\ Connects \cap Disconnects = {}
    /\ FolderTasks \cap (Connects \cup Disconnects) = {}
    /\ None \notin Callers
    /\ Cancellers \subseteq Callers
ASSUME FolderOfAssumption == FolderOf \in [FolderTasks -> Folders]

VARIABLES
    status,         \* CamelServiceConnectionStatus
    connection_op,  \* the operation in progress, or None
    pending,        \* the calls queued in each operation
    thread,         \* what the thread of each operation has come to
    cancelled,      \* callers whose cancellable is cancelled
    call,           \* what each caller knows of its call
    last,           \* history: the operation started last, and how it ended
    task_table,     \* the queue of each folder
    task            \* what each folder task is at

opVars == <<status, connection_op, pending, thread, last>>
queueVars == <<task_table, task>>
vars == <<opVars, cancelled, call, queueVars>>

Statuses == {"DISCONNECTED", "CONNECTING", "CONNECTED", "DISCONNECTING"}

\* "result_ok" and "result_error": the callback has taken the result of the
\* thread, and waits for connection_lock.
ThreadStates == {"none", "running", "returned_ok", "returned_error",
                 "result_ok", "result_error"}

TaskStates == {"new", "queued", "dispatch", "running", "connect", "waiting", "returned", "over"}

TypeOK ==
    /\ status \in Statuses
    /\ connection_op \in Callers \cup {None}
    /\ pending \in [Callers -> SUBSET Callers]
    /\ thread \in [Callers -> ThreadStates]
    /\ cancelled \in SUBSET Callers
    /\ call \in [Callers -> {"idle", "waiting", "ok", "error"}]
    /\ last \in [op: Callers \cup {None}, outcome: {"none", "ok", "error"}]
    /\ task_table \in [Folders -> Seq(FolderTasks)]
    /\ task \in [FolderTasks -> TaskStates]

Init ==
    /\ status = "DISCONNECTED"
    /\ connection_op = None
    /\ pending = [c \in Callers |-> {}]
    /\ thread = [c \in Callers |-> "none"]
    /\ cancelled = {}
    /\ call = [c \in Callers |-> "idle"]
    /\ last = [op |-> None, outcome |-> "none"]
    /\ task_table = [f \in Folders |-> <<>>]
    /\ task = [t \in FolderTasks |-> "new"]

-----------------------------------------------------------------------------
(* connection_op_complete() and connection_op_complete_pending() give all  *)
(* the calls the result; g_task_propagate_boolean() turns it into an error *)
(* when the cancellable of the call itself is cancelled.                   *)
Return(calls, ok) ==
    call' = [c \in Callers |->
                IF c \notin calls THEN call[c]
                ELSE IF ok /\ c \notin cancelled THEN "ok" ELSE "error"]

connection_op_add_pending(op, c) ==
    /\ pending' = [pending EXCEPT ![op] = @ \cup {c}]
    /\ call' = [call EXCEPT ![c] = "waiting"]
    /\ UNCHANGED <<status, connection_op, thread, last, cancelled>>

\* Mutation: cancels an operation also when there is none.
CancelUnchecked(c, newStatus) ==
    /\ cancelled' = cancelled \cup {connection_op}
    /\ connection_op' = c
    /\ last' = [op |-> c, outcome |-> "none"]
    /\ thread' = [thread EXCEPT ![c] = "running"]
    /\ call' = [call EXCEPT ![c] = "waiting"]
    /\ status' = newStatus
    /\ UNCHANGED pending

\* Replaces the operation in progress, if there is one, which is cancelled,
\* and runs service_shared_connect() or service_shared_disconnect().
StartOperation(c, newStatus) ==
    /\ cancelled' = cancelled \cup ({connection_op} \ {None})
    /\ connection_op' = c
    /\ last' = [op |-> c, outcome |-> "none"]
    /\ thread' = [thread EXCEPT ![c] = "running"]
    /\ call' = [call EXCEPT ![c] = "waiting"]
    /\ status' = newStatus
    /\ UNCHANGED pending

ReturnAtOnce(c) ==
    /\ Return({c}, TRUE)
    /\ UNCHANGED <<opVars, cancelled>>

camel_service_connect(c) ==
    \/ status = "CONNECTING" /\ connection_op_add_pending(connection_op, c)
    \/ status = "CONNECTED" /\ ReturnAtOnce(c)
    \/ status \in {"DISCONNECTING", "DISCONNECTED"} /\ StartOperation(c, "CONNECTING")

\* Mutation: joins whatever operation is in progress.
JoinConnecting(c) ==
    \/ status \in {"CONNECTING", "DISCONNECTING"} /\ connection_op_add_pending(connection_op, c)
    \/ status = "CONNECTED" /\ StartOperation(c, "DISCONNECTING")
    \/ status = "DISCONNECTED" /\ ReturnAtOnce(c)

\* The status is left alone when connecting.
camel_service_disconnect(c) ==
    \/ status = "CONNECTING" /\ StartOperation(c, "CONNECTING")
    \/ status = "CONNECTED" /\ StartOperation(c, "DISCONNECTING")
    \/ status = "DISCONNECTING" /\ connection_op_add_pending(connection_op, c)
    \/ status = "DISCONNECTED" /\ ReturnAtOnce(c)

Connect(c) ==
    /\ c \in Connects
    /\ call[c] = "idle"
    /\ camel_service_connect(c)
    /\ UNCHANGED queueVars

Disconnect(c) ==
    /\ c \in Disconnects
    /\ call[c] = "idle"
    /\ camel_service_disconnect(c)
    /\ UNCHANGED queueVars

\* The provider may be done although it is being cancelled.
ThreadReturns(c) ==
    /\ thread[c] = "running"
    /\ \E r \in {"returned_ok", "returned_error"} : thread' = [thread EXCEPT ![c] = r]
    /\ UNCHANGED <<status, connection_op, pending, last, cancelled, call, queueVars>>

\* g_task_propagate_boolean() at the begin of the callback.
TakeResult(c) ==
    /\ thread[c] \in {"returned_ok", "returned_error"}
    /\ thread' = [thread EXCEPT ![c] =
                     IF @ = "returned_ok" /\ c \notin cancelled THEN "result_ok" ELSE "result_error"]
    /\ UNCHANGED <<status, connection_op, pending, last, cancelled, call, queueVars>>

\* Mutation: a disconnect which failed leaves the status alone.
KeepStatusOnError(c, ok) ==
    IF c \in Disconnects
    THEN IF ok THEN "DISCONNECTED" ELSE status
    ELSE IF ok THEN "CONNECTED" ELSE "DISCONNECTED"

StatusAfter(c, ok) ==
    IF c \in Disconnects
    THEN IF ok \/ status = "CONNECTING" THEN "DISCONNECTED" ELSE "CONNECTED"
    ELSE IF ok THEN "CONNECTED" ELSE "DISCONNECTED"

\* Mutation: does not look whether the operation has been replaced.
CallbackOfAny(c) ==
    LET ok == thread[c] = "result_ok"
    IN  /\ thread[c] \in {"result_ok", "result_error"}
        /\ connection_op' = None
        /\ status' = StatusAfter(c, ok)
        /\ Return({c} \cup pending[c], ok)
        /\ pending' = [pending EXCEPT ![c] = {}]
        /\ thread' = [thread EXCEPT ![c] = "none"]
        /\ last' = IF last.op = c THEN [last EXCEPT !.outcome = IF ok THEN "ok" ELSE "error"] ELSE last
        /\ UNCHANGED <<cancelled, queueVars>>

\* Mutation: a replaced operation forgets the calls which joined it.
CallbackWithoutPending(c) ==
    LET ok == thread[c] = "result_ok"
    IN  /\ thread[c] \in {"result_ok", "result_error"}
        /\ IF connection_op = c
           THEN /\ connection_op' = None
                /\ status' = StatusAfter(c, ok)
                /\ Return({c} \cup pending[c], ok)
                /\ pending' = [pending EXCEPT ![c] = {}]
           ELSE Return({c}, ok) /\ UNCHANGED <<connection_op, status, pending>>
        /\ thread' = [thread EXCEPT ![c] = "none"]
        /\ last' = IF last.op = c THEN [last EXCEPT !.outcome = IF ok THEN "ok" ELSE "error"] ELSE last
        /\ UNCHANGED <<cancelled, queueVars>>

\* The rest of service_shared_connect_cb() and service_shared_disconnect_cb().
Callback(c) ==
    LET ok == thread[c] = "result_ok"
    IN  /\ thread[c] \in {"result_ok", "result_error"}
        /\ IF connection_op = c
           THEN /\ connection_op' = None
                /\ status' = StatusAfter(c, ok)
           ELSE UNCHANGED <<connection_op, status>>
        /\ Return({c} \cup pending[c], ok)
        /\ pending' = [pending EXCEPT ![c] = {}]
        /\ thread' = [thread EXCEPT ![c] = "none"]
        /\ last' = IF last.op = c THEN [last EXCEPT !.outcome = IF ok THEN "ok" ELSE "error"] ELSE last
        /\ UNCHANGED <<cancelled, queueVars>>

-----------------------------------------------------------------------------
(* The task queues.                                                        *)

\* Mutation: dispatches a task whether the queue was empty or not.
DispatchAlways(t) ==
    /\ task[t] = "new"
    /\ task_table' = [task_table EXCEPT ![FolderOf[t]] = Append(@, t)]
    /\ task' = [task EXCEPT ![t] = "dispatch"]
    /\ UNCHANGED <<opVars, cancelled, call>>

\* camel_service_queue_task() with service_task_table_push(); the dispatch of
\* a task put in an empty queue comes after task_table_lock is released.
QueueTask(t) ==
    LET f == FolderOf[t]
    IN  /\ task[t] = "new"
        /\ task_table' = [task_table EXCEPT ![f] = Append(@, t)]
        /\ task' = [task EXCEPT ![t] = IF task_table[f] = <<>> THEN "dispatch" ELSE "queued"]
        /\ UNCHANGED <<opVars, cancelled, call>>

\* service_task_dispatch(): a task cancelled while it was queued has been
\* completed at once, and is not run.
service_task_dispatch(t) ==
    /\ task[t] = "dispatch"
    /\ task' = [task EXCEPT ![t] = IF t \in cancelled THEN "returned" ELSE "running"]
    /\ UNCHANGED <<opVars, cancelled, call, task_table>>

\* folder_maybe_connect_sync(): the status is read without a lock; when the
\* session is offline or the host not reachable it is not connected.  What the
\* method of the folder does then is left out.
folder_maybe_connect_sync(t) ==
    /\ task[t] = "running"
    /\ \E connect \in BOOLEAN :
          /\ connect => status # "CONNECTED"
          /\ task' = [task EXCEPT ![t] = IF connect THEN "connect" ELSE "returned"]
    /\ UNCHANGED <<opVars, cancelled, call, task_table>>

FolderConnect(t) ==
    /\ task[t] = "connect"
    /\ camel_service_connect(t)
    /\ task' = [task EXCEPT ![t] = "waiting"]
    /\ UNCHANGED task_table

FolderConnected(t) ==
    /\ task[t] = "waiting"
    /\ call[t] \in {"ok", "error"}
    /\ task' = [task EXCEPT ![t] = "returned"]
    /\ UNCHANGED <<opVars, cancelled, call, task_table>>

\* service_task_table_done(): the head of what is left is dispatched next.
service_task_table_done(t) ==
    LET f == FolderOf[t]
        left == RemoveFirst(task_table[f], t)
    IN  /\ task[t] = "returned"
        /\ task_table' = [task_table EXCEPT ![f] = left]
        /\ task' = [u \in FolderTasks |->
                       IF u = t THEN "over"
                       ELSE IF left # <<>> /\ u = Head(left) THEN "dispatch"
                       ELSE task[u]]
        /\ UNCHANGED <<opVars, cancelled, call>>

\* The caller cancels a call or a task of its own that is under way.
Cancel(c) ==
    /\ c \in Cancellers \ cancelled
    /\ \/ call[c] = "waiting"
       \/ c \in FolderTasks /\ task[c] \notin {"new", "over"}
    /\ cancelled' = cancelled \cup {c}
    /\ UNCHANGED <<opVars, call, queueVars>>

-----------------------------------------------------------------------------
OpStep(c) == ThreadReturns(c) \/ TakeResult(c) \/ Callback(c)

TaskStep(t) ==
    \/ service_task_dispatch(t) \/ folder_maybe_connect_sync(t) \/ FolderConnect(t)
    \/ FolderConnected(t) \/ service_task_table_done(t)

Next ==
    \/ \E c \in Callers : Connect(c) \/ Disconnect(c) \/ OpStep(c) \/ Cancel(c)
    \/ \E t \in FolderTasks : QueueTask(t) \/ TaskStep(t)

(* The main loop runs the callbacks, the threads are scheduled, and no     *)
(* method of a provider lasts for ever: the network has timeouts.          *)
Fairness ==
    /\ \A c \in Callers : WF_vars(OpStep(c))
    /\ \A t \in FolderTasks : WF_vars(TaskStep(t))

Spec == Init /\ [][Next]_vars /\ Fairness

-----------------------------------------------------------------------------
(* Properties.                                                             *)

\* An operation is in progress exactly while the status says so: what the
\* g_return_if_fail() calls in camel_service_connect() and
\* camel_service_disconnect() expect, which return with connection_lock held
\* when they fail.
StatusMatchesOp == connection_op # None <=> status \in {"CONNECTING", "DISCONNECTING"}

\* The operation started last decides: the late completion of one which it
\* replaced neither changes the status nor ends the newer one.
LastOperationDecides ==
    /\ connection_op = IF last.outcome = "none" THEN last.op ELSE None
    /\ last.outcome = "ok" => status = IF last.op \in Disconnects THEN "DISCONNECTED" ELSE "CONNECTED"

\* A call of camel_service_disconnect() which waited and returns TRUE shared
\* the result of a disconnect operation which succeeded.
DisconnectedIndeed ==
    [][\A c \in Disconnects :
          call[c] = "waiting" /\ call'[c] = "ok" =>
              \E op \in Disconnects : thread[op] = "result_ok" /\ thread'[op] = "none"]_vars

\* The tasks of a folder run one at a time and in the order they were queued:
\* only the head of the queue is ever dispatched or running.
OneTaskAtATime ==
    \A t \in FolderTasks :
        task[t] \notin {"new", "queued", "over"} => Head(task_table[FolderOf[t]]) = t

\* Nobody waits for ever: when the calls are over, each has returned, also one
\* which joined another or was replaced by it, and the queues are empty.
CallsReturn ==
    <>[](/\ \A c \in Callers : call[c] # "waiting"
         /\ \A f \in Folders : task_table[f] = <<>>)
=============================================================================
