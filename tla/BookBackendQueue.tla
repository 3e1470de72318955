-------------------------- MODULE BookBackendQueue --------------------------
(***************************************************************************)
(* The operation queue of EBookBackend                                     *)
(* (src/addressbook/libedata-book/e-book-backend.c); ECalBackend has the   *)
(* same one.  A call of a client becomes a task at the tail of             *)
(* pending_operations; dispatching pops the head of that queue under       *)
(* operation_lock and gives it to a thread pool after the lock has been    *)
(* released.  Opening the backend and the custom operations (a refresh, a  *)
(* change of the source, going offline) are blocking: nothing else is      *)
(* dispatched until the task has been finished.  A task is answered in a   *)
(* thread of the pool and finished by a callback in the main loop.         *)
(*                                                                         *)
(* The main loop also receives the clients' calls from D-Bus.  The custom  *)
(* operations are scheduled from any thread: by a timeout in the main      *)
(* loop, or by a thread of the pool which has opened the backend.  A       *)
(* client with direct access makes its calls from its own threads with     *)
(* the *_sync() functions, which wait for the task and finish it there.    *)
(***************************************************************************)
EXTENDS Integers, Sequences, FiniteSets

CONSTANTS
    Opens,        \* e_book_backend_open() calls
    Customs,      \* e_book_backend_schedule_custom_operation() calls
    Methods,      \* all other calls: they need an opened backend
    Syncs,        \* those of all calls which are made with a *_sync() function
    Main,         \* the thread with the main loop
    Workers,      \* other threads which use the backend
    MaxThreads,   \* size of the thread pool; 1 for a serial dispatch queue
    None

Ops == Opens \cup Customs \cup Methods
Blocking == Opens \cup Customs
Threads == {Main} \cup Workers

ASSUME OpsAssumption ==
    /\ Opens \cap (Customs \cup Methods) = {}
    /\ Customs \cap Methods = {}
    /\ None \notin Ops
    /\ IsFiniteSet(Ops)
ASSUME SyncsAssumption == Syncs \subseteq Opens \cup Methods
ASSUME MaxThreadsAssumption == MaxThreads \in Nat \ {0}

VARIABLES
    pending_operations,
    blocked,         \* the blocking task in progress, or None
    opened,
    pool,            \* nodes given to the pool which wait for a thread
    running,         \* nodes a thread of the pool works on
    answer,          \* what each task returned
    finished,        \* the tasks whose *_finish() has been entered
    thread,          \* what each thread does within this code
    calls,           \* history: the calls, in the order of their push
    started          \* history: the operations, in the order they were run

vars == <<pending_operations, blocked, opened, pool, running, answer, finished,
          thread, calls, started>>

(* A thread within this code: where it is, the task it finishes (None in a *)
(* call, which dispatches only one operation) and the node it has popped.  *)
At(pc, task, node) == [pc |-> pc, task |-> task, node |-> node]
Idle == At("idle", None, None)

Answers == {"none", "ok", "error", "cancelled", "not_opened"}

SeqOf(S) == UNION {[1 .. n -> S] : n \in 0 .. Cardinality(S)}

TypeOK ==
    /\ pending_operations \in SeqOf(Ops)
    /\ blocked \in Blocking \cup {None}
    /\ opened \in BOOLEAN
    /\ pool \in SeqOf(Ops)
    /\ running \in SUBSET Ops /\ Cardinality(running) <= MaxThreads
    /\ answer \in [Ops -> Answers]
    /\ finished \in SUBSET Ops
    /\ thread \in [Threads -> [pc: {"idle", "dispatch", "push", "return"},
                               task: Ops \cup {None}, node: Ops \cup {None}]]
    /\ calls \in SeqOf(Ops)
    /\ started \in SeqOf(Ops)

Init ==
    /\ pending_operations = <<>>
    /\ blocked = None
    /\ opened = FALSE
    /\ pool = <<>>
    /\ running = {}
    /\ answer = [o \in Ops |-> "none"]
    /\ finished = {}
    /\ thread = [t \in Threads |-> Idle]
    /\ calls = <<>>
    /\ started = <<>>

Elements(s) == {s[i] : i \in DOMAIN s}

\* Nothing more to dispatch: a call is over, a *_finish() has its rest to do.
Leave(t) == IF thread[t].task = None THEN Idle ELSE At("return", thread[t].task, None)

\* A call is received, and its task finished, in the main loop, or in the thread
\* which has called the *_sync() function.
MakesCall(t, o) == t = Main <=> o \notin Syncs

-----------------------------------------------------------------------------
(* Mutations of the actions below.                                         *)

\* Unblocks the queue whichever task is finished.
UnblockAlways(t, o) ==
    /\ thread[t] = Idle
    /\ MakesCall(t, o)
    /\ answer[o] # "none" /\ o \notin finished
    /\ finished' = finished \cup {o}
    /\ blocked' = None
    /\ thread' = [thread EXCEPT ![t] = At("dispatch", o, None)]
    /\ UNCHANGED <<pending_operations, opened, pool, running, answer, calls, started>>

\* Unblocks the queue, but leaves the waiting operations in it.
UnblockOnly(t, o) ==
    /\ thread[t] = Idle
    /\ MakesCall(t, o)
    /\ answer[o] # "none" /\ o \notin finished
    /\ finished' = finished \cup {o}
    /\ blocked' = IF blocked = o THEN None ELSE blocked
    /\ thread' = [thread EXCEPT ![t] = At("return", o, None)]
    /\ UNCHANGED <<pending_operations, opened, pool, running, answer, calls, started>>

\* Keeps the pushed operation in the queue as well.
PushWithoutPop(t) ==
    /\ thread[t].pc = "dispatch"
    /\ LET head == Head(pending_operations) IN
       IF blocked # None \/ pending_operations = <<>>
       THEN /\ thread' = [thread EXCEPT ![t] = Leave(t)]
            /\ UNCHANGED blocked
       ELSE /\ blocked' = IF head \in Blocking THEN head ELSE blocked
            /\ thread' = [thread EXCEPT ![t].pc = "push", ![t].node = head]
    /\ UNCHANGED <<pending_operations, opened, pool, running, answer, finished,
                   calls, started>>

\* Puts the operation at the head of the queue.
PushHead(t, o) ==
    /\ thread[t] = Idle
    /\ o \in Customs \/ MakesCall(t, o)
    /\ o \notin Elements(calls)
    /\ pending_operations' = <<o>> \o pending_operations
    /\ calls' = Append(calls, o)
    /\ thread' = [thread EXCEPT ![t] = At("dispatch", None, None)]
    /\ UNCHANGED <<blocked, opened, pool, running, answer, finished, started>>

-----------------------------------------------------------------------------
(* Calls.                                                                  *)

\* book_backend_push_operation(), as the first half of each call.
PushOperation(t, o) ==
    /\ thread[t] = Idle
    /\ o \in Customs \/ MakesCall(t, o)
    /\ o \notin Elements(calls)
    /\ pending_operations' = Append(pending_operations, o)
    /\ calls' = Append(calls, o)
    /\ thread' = [thread EXCEPT ![t] = At("dispatch", None, None)]
    /\ UNCHANGED <<blocked, opened, pool, running, answer, finished, started>>

\* book_backend_dispatch_next_operation(), up to the release of the lock.
DispatchNextOperation(t) ==
    /\ thread[t].pc = "dispatch"
    /\ LET head == Head(pending_operations) IN
       IF blocked # None \/ pending_operations = <<>>
       THEN /\ thread' = [thread EXCEPT ![t] = Leave(t)]
            /\ UNCHANGED <<pending_operations, blocked>>
       ELSE /\ pending_operations' = Tail(pending_operations)
            /\ blocked' = IF head \in Blocking THEN head ELSE blocked
            /\ thread' = [thread EXCEPT ![t].pc = "push", ![t].node = head]
    /\ UNCHANGED <<opened, pool, running, answer, finished, calls, started>>

\* The rest of it: g_thread_pool_push().
ThreadPoolPush(t) ==
    /\ thread[t].pc = "push"
    /\ pool' = Append(pool, thread[t].node)
    /\ thread' = [thread EXCEPT ![t] = IF @.task = None THEN Idle
                                       ELSE At("dispatch", @.task, None)]
    /\ UNCHANGED <<pending_operations, blocked, opened, running, answer, finished,
                   calls, started>>

\* e_book_backend_*_finish() up to the loop which dispatches the operations, in
\* the main loop or in the thread of a *_sync() call.
UnblockOperations(t, o) ==
    /\ thread[t] = Idle
    /\ MakesCall(t, o)
    /\ answer[o] # "none" /\ o \notin finished
    /\ finished' = finished \cup {o}
    /\ blocked' = IF blocked = o THEN None ELSE blocked
    /\ thread' = [thread EXCEPT ![t] = At("dispatch", o, None)]
    /\ UNCHANGED <<pending_operations, opened, pool, running, answer, calls, started>>

\* The rest of *_finish(): e_book_backend_open_finish() sets `opened` when the
\* task has succeeded, and the call was not cancelled after the answer:
\* g_task_propagate_boolean() then gives that error instead.
Return(t) ==
    /\ thread[t].pc = "return"
    /\ \E result \in {answer[thread[t].task], "cancelled"} :
          opened' = (opened \/ (thread[t].task \in Opens /\ result = "ok"))
    /\ thread' = [thread EXCEPT ![t] = Idle]
    /\ UNCHANGED <<pending_operations, blocked, pool, running, answer, finished,
                   calls, started>>

-----------------------------------------------------------------------------
(* The thread pool: book_backend_dispatch_thread() and the dispatch        *)
(* functions.                                                              *)

AnswerTask(o, result) ==
    /\ answer' = [answer EXCEPT ![o] = result]
    /\ UNCHANGED running

\* The task goes to the backend's own function, which answers it later.
Stash(o) ==
    /\ running' = running \cup {o}
    /\ UNCHANGED answer

\* An open of an opened backend is answered at once.
OpenThread(o) == o \in Opens /\ IF opened THEN AnswerTask(o, "ok") ELSE Stash(o)

\* A method of a backend which is not opened is refused.
MethodThread(o) ==
    o \in Methods /\ IF opened THEN Stash(o) ELSE AnswerTask(o, "not_opened")

CustomOperationThread(o) == o \in Customs /\ Stash(o)

\* A cancelled task is answered without being run.
StartOperation ==
    /\ pool # <<>>
    /\ Cardinality(running) < MaxThreads
    /\ LET o == Head(pool) IN
       /\ pool' = Tail(pool)
       /\ started' = Append(started, o)
       /\ \/ AnswerTask(o, "cancelled")
          \/ OpenThread(o)
          \/ MethodThread(o)
          \/ CustomOperationThread(o)
    /\ UNCHANGED <<pending_operations, blocked, opened, finished, thread, calls>>

\* The backend's own function ends: e_data_book_respond_*() claims the task
\* and answers it, and the thread is free again.
Respond(o) ==
    /\ o \in running
    /\ running' = running \ {o}
    /\ \E result \in {"ok", "error"} : answer' = [answer EXCEPT ![o] = result]
    /\ UNCHANGED <<pending_operations, blocked, opened, pool, finished, thread, calls,
                   started>>

-----------------------------------------------------------------------------
Dispatch(t) == DispatchNextOperation(t) \/ ThreadPoolPush(t) \/ Return(t)
Finish(t) == \E o \in Ops : UnblockOperations(t, o)

Next ==
    \/ \E t \in Threads :
          \/ \E o \in Ops : PushOperation(t, o)
          \/ Dispatch(t)
          \/ Finish(t)
    \/ StartOperation
    \/ \E o \in Ops : Respond(o)
    \/ Elements(calls) = Ops /\ finished = Ops /\ UNCHANGED vars

(* Threads are scheduled, the main loop or the thread of the call finishes *)
(* the answered tasks, and a backend's function ends; that a call is made  *)
(* is not assumed.                                                         *)
Fairness ==
    /\ \A t \in Threads : WF_vars(Dispatch(t))
    /\ WF_vars(\E t \in Threads : Finish(t))
    /\ WF_vars(StartOperation)
    /\ \A o \in Ops : WF_vars(Respond(o))

Spec == Init /\ [][Next]_vars /\ Fairness

-----------------------------------------------------------------------------
(* Properties.                                                             *)

\* `a` was called before `b`.
CalledBefore(a, b) ==
    \E i, j \in DOMAIN calls : i < j /\ calls[i] = a /\ calls[j] = b

\* No operation gets past a blocking one: while a blocking operation has no
\* answer nothing that was called after it leaves the queue.
NothingPassesBlocking ==
    \A b \in Blocking, o \in Ops :
        /\ CalledBefore(b, o)
        /\ answer[b] = "none"
        => o \in Elements(pending_operations)

\* An operation is run at most once and, once in the pool, never lost.
RunOnce ==
    /\ Len(started) = Cardinality(Elements(started))
    /\ \A o \in Elements(calls) \ Elements(started) :
          Cardinality({i \in DOMAIN pending_operations : pending_operations[i] = o})
          + Cardinality({t \in Threads : thread[t].node = o})
          + Cardinality({i \in DOMAIN pool : pool[i] = o}) = 1

\* Every call is answered and finished, however calls, answers and
\* cancellations interleave.
EveryCallFinishes == \A o \in Ops : o \in Elements(calls) ~> o \in finished

\* The calls which are neither waiting nor answered.
Active == {o \in Elements(calls) \ Elements(pending_operations) : answer[o] = "none"}

Queue == INSTANCE OperationQueue WITH
             waiting <- pending_operations, active <- Active,
             Results <- Answers \ {"none"}, NoAnswer <- "none"

\* The queue with its threads, its lock released between the pop and the push,
\* and its callbacks in the main loop or in the thread of the call, is a queue
\* that keeps the order of the calls, holds everything back during a blocking
\* operation and answers each call once, whoever dispatches: OperationQueue.
ImplementsQueue == Queue!Spec
=============================================================================
