-------------------------- MODULE IMAPXConnManager --------------------------
(***************************************************************************)
(* The connection manager of the IMAP provider                             *)
(* (src/camel/providers/imapx/camel-imapx-conn-manager.c, with the jobs of *)
(* camel-imapx-job.c).  Any number of threads run jobs.  A job waits for   *)
(* the queued jobs it matches or has to follow, joins job_queue, takes a   *)
(* free connection, opens a new one or waits until one is free, and runs   *)
(* on it.  Meanwhile jobs are cancelled, connections break, the server     *)
(* refuses further connections, and the store disconnects.                 *)
(*                                                                         *)
(* The list of connections is behind a readers-writer lock.  What happens  *)
(* under the read lock is one step; opening a connection holds the write   *)
(* lock for long, `writer` is the job which does that.  A waiting thread   *)
(* gives up the read lock before it waits on busy_connections_cond, which  *)
(* is woken by a broadcast.                                                *)
(***************************************************************************)
EXTENDS Integers, FiniteSets

CONSTANTS
    GetMessages,      \* GET_MESSAGE jobs, all for the same message
    Copies,           \* COPY_MESSAGE, MOVE_MESSAGE and EXPUNGE jobs
    Expunges,         \* those of them which are EXPUNGE jobs, all for the same mailbox
    Refreshes,        \* REFRESH_INFO jobs, all for the same mailbox
    Connects,         \* camel_imapx_conn_manager_connect_sync() calls
    Conns,            \* bound: the connections which can exist at one time
    MaxConnections,   \* the concurrent-connections setting
    MaxDisconnects,   \* bound: camel_imapx_conn_manager_disconnect_sync() calls
    None

Jobs == GetMessages \cup Copies \cup Refreshes \cup Connects

ASSUME JobsAssumption ==
    /\ GetMessages \cap (Copies \cup Refreshes \cup Connects) = {}
    /\ Copies \cap (Refreshes \cup Connects) = {}
    /\ Refreshes \cap Connects = {}
    /\ None \notin Jobs \cup Conns
ASSUME ExpungesAssumption == Expunges \subseteq Copies
ASSUME ConnsAssumption ==
    /\ IsFiniteSet(Conns)
    /\ MaxConnections \in 1 .. Cardinality(Conns)
    /\ MaxDisconnects \in Nat

VARIABLES
    connections,      \* the opened connections in the list
    busy,             \* the connections whose busy flag is set
    limit_max_connections,
    writer,           \* the job which holds the write lock to connect
    job_queue,
    is_done,          \* the jobs camel_imapx_job_done() was called for
    cancelled,        \* the jobs whose caller has cancelled them
    job,              \* per job: where its thread is and what it holds
    disconnect,       \* "idle", or between the two parts of a disconnect
    disconnects       \* number of them

connVars == <<connections, busy, limit_max_connections, writer>>
queueVars == <<job_queue, is_done>>
discVars == <<disconnect, disconnects>>
vars == <<connVars, queueVars, cancelled, job, discVars>>

(* job[j]: pc; conn, the connection in use; new, is_new_connection; stop,  *)
(* whether a disconnect has cancelled the pending connection or the run;   *)
(* other, the job waited for; victim, an idle connection to be closed;     *)
(* result, what camel_imapx_job_set_result() stored; outcome, what the     *)
(* caller gets.                                                            *)
Results == {"none", "ok", "error", "cancelled"}
Pending == {"ref", "create", "connecting", "limit", "towait", "condwait"}
JobStates == [pc: {"start", "scan", "waiting", "run", "ending", "end"} \cup Pending,
              conn: Conns \cup {None}, new: BOOLEAN, stop: BOOLEAN,
              other: Jobs \cup {None}, victim: Conns \cup {None}, result: Results, outcome: Results]

TypeOK ==
    /\ connections \in SUBSET Conns
    /\ busy \in SUBSET Conns
    /\ limit_max_connections \in 0 .. Cardinality(Conns)
    /\ writer \in Jobs \cup {None}
    /\ job_queue \in SUBSET Jobs
    /\ is_done \in SUBSET Jobs
    /\ cancelled \in SUBSET Jobs
    /\ job \in [Jobs -> JobStates]
    /\ disconnect \in {"idle", "cancelled"}
    /\ disconnects \in 0 .. MaxDisconnects

Init ==
    /\ connections = {}
    /\ busy = {}
    /\ limit_max_connections = 0
    /\ writer = None
    /\ job_queue = {}
    /\ is_done = {}
    /\ cancelled = {}
    /\ job = [j \in Jobs |-> [pc |-> "start", conn |-> None, new |-> FALSE, stop |-> FALSE,
                              other |-> None, victim |-> None, result |-> "none", outcome |-> "none"]]
    /\ disconnect = "idle"
    /\ disconnects = 0

At(j, pc) == job[j].pc = pc

\* camel_imapx_job_matches(): jobs of one kind for the same thing.  Copies and
\* moves never match, as imapx_conn_manager_nothing_matches() says.
Matches(j, queued) ==
    \/ j \in GetMessages /\ queued \in GetMessages
    \/ j \in Refreshes /\ queued \in Refreshes
    \/ j \in Expunges /\ queued \in Expunges

\* imapx_conn_manager_should_wait_for(): others let these jobs finish first.
ShouldWaitFor(j, queued) ==
    j \notin GetMessages /\ queued \in GetMessages \cup Copies

get_max_connections ==
    IF limit_max_connections > 0 /\ limit_max_connections < MaxConnections
    THEN limit_max_connections ELSE MaxConnections

\* g_cond_broadcast() on busy_connections_cond, given the new job states.
Broadcast(jobs) ==
    [k \in Jobs |-> IF jobs[k].pc = "condwait" THEN [jobs[k] EXCEPT !.pc = "ref"] ELSE jobs[k]]

\* The job's thread stops with an outcome; what is left is camel_imapx_job_done().
Ended(j, outcome) == [job[j] EXCEPT !.pc = "ending", !.outcome = outcome, !.conn = None,
                                    !.new = FALSE, !.stop = FALSE]

\* Calls camel_imapx_conn_manager_ref_connection(), which fails while offline.
CallRef(j) == {[job[j] EXCEPT !.pc = "ref", !.conn = None, !.new = FALSE, !.stop = FALSE],
               Ended(j, "error")}

\* Has got a connection; running a job resets its abort cancellable.
Got(j, c, new) == [job[j] EXCEPT !.pc = "run", !.conn = c, !.new = new, !.stop = FALSE]

Idle == {c \in connections : c \notin busy}
StopRequested(j) == j \in cancelled \/ job[j].stop

\* Names which no connection has that is still known to some thread.
Unused == Conns \ (connections \cup busy \cup {job[j].victim : j \in Jobs})
NewConnection == CHOOSE c \in Unused : TRUE

-----------------------------------------------------------------------------
(* Mutations of the actions below.                                         *)

\* Queues itself after the wait without looking at the queue again.
QueueAfterWait(j) ==
    /\ At(j, "waiting")
    /\ job[j].other \in is_done \/ j \in cancelled
    /\ \E state \in CallRef(j) : job' = [job EXCEPT ![j] = state]
    /\ job_queue' = job_queue \cup {j}
    /\ UNCHANGED <<connVars, is_done, cancelled, discVars>>

\* Takes over also the result of a job which has been cancelled.
InheritCancelled(j) ==
    LET other == job[j].other IN
    /\ At(j, "waiting")
    /\ other \in is_done \/ j \in cancelled
    /\ job' = [job EXCEPT ![j] =
                 IF j \in cancelled
                 THEN [@ EXCEPT !.pc = "end", !.other = None, !.outcome = "cancelled"]
                 ELSE IF Matches(j, other) /\ job[other].result # "none"
                 THEN [@ EXCEPT !.pc = "end", !.other = None, !.result = job[other].result,
                                !.outcome = job[other].result]
                 ELSE [@ EXCEPT !.pc = "scan", !.other = None]]
    /\ UNCHANGED <<connVars, queueVars, cancelled, discVars>>

\* Marks the new connection as busy only later.
CreateWithoutBusy(j) ==
    /\ At(j, "connecting")
    /\ writer' = None
    /\ Unused # {}
    /\ connections' = connections \cup {NewConnection}
    /\ job' = [job EXCEPT ![j] = Got(j, NewConnection, TRUE)]
    /\ UNCHANGED <<busy, limit_max_connections, queueVars, cancelled, discVars>>

\* Does not look whether there still is a connection.
LimitUnchecked(j) ==
    /\ At(j, "limit")
    /\ writer = None
    /\ limit_max_connections' = Cardinality(connections) - 1
    /\ job' = [job EXCEPT ![j].pc = "towait"]
    /\ UNCHANGED <<connections, busy, writer, queueVars, cancelled, discVars>>

\* Leaves the queue without telling the jobs which wait for it.
EndWithoutDone(j) ==
    /\ At(j, "ending")
    /\ job_queue' = job_queue \ {j}
    /\ job' = [job EXCEPT ![j].pc = "end"]
    /\ UNCHANGED <<connVars, is_done, cancelled, discVars>>

\* Keeps the connection busy after an error the server reported.
FailWithoutUnmark(j) ==
    /\ At(j, "run") /\ job[j].victim = None
    /\ j \notin Connects
    /\ job' = [job EXCEPT ![j] = [Ended(j, "error") EXCEPT !.result = "error"]]
    /\ UNCHANGED <<connVars, queueVars, cancelled, discVars>>

-----------------------------------------------------------------------------
(* The queue of jobs: camel_imapx_conn_manager_run_job_sync().             *)

\* The scan of the queue, under its lock: waits for a job, or joins the queue.
ScanQueue(j) ==
    /\ At(j, "scan") \/ (At(j, "start") /\ j \notin cancelled)
    /\ j \notin Connects
    /\ LET waits == {q \in job_queue : Matches(j, q) \/ ShouldWaitFor(j, q)} IN
       IF waits = {}
       THEN /\ job_queue' = job_queue \cup {j}
            /\ \E state \in CallRef(j) : job' = [job EXCEPT ![j] = state]
       ELSE /\ \E q \in waits : job' = [job EXCEPT ![j].pc = "waiting", ![j].other = q]
            /\ UNCHANGED job_queue
    /\ UNCHANGED <<connVars, is_done, cancelled, discVars>>

\* A job cancelled before it starts.
NotStarted(j) ==
    /\ At(j, "start") /\ j \in cancelled /\ j \notin Connects
    /\ job' = [job EXCEPT ![j].pc = "end", ![j].outcome = "cancelled"]
    /\ UNCHANGED <<connVars, queueVars, cancelled, discVars>>

\* camel_imapx_job_wait_sync() ends.  The result of a matching job is taken
\* over, unless that job was cancelled; otherwise the queue is scanned again.
WaitedFor(j) ==
    LET other == job[j].other IN
    /\ At(j, "waiting")
    /\ other \in is_done \/ j \in cancelled
    /\ job' = [job EXCEPT ![j] =
                 IF j \in cancelled
                 THEN [@ EXCEPT !.pc = "end", !.other = None, !.outcome = "cancelled"]
                 ELSE IF Matches(j, other) /\ job[other].result \in {"ok", "error"}
                 THEN [@ EXCEPT !.pc = "end", !.other = None, !.result = job[other].result,
                                !.outcome = job[other].result]
                 ELSE [@ EXCEPT !.pc = "scan", !.other = None]]
    /\ UNCHANGED <<connVars, queueVars, cancelled, discVars>>

EndJob(j) ==
    /\ At(j, "ending")
    /\ job_queue' = job_queue \ {j}
    /\ is_done' = is_done \cup {j}
    /\ job' = [job EXCEPT ![j].pc = "end"]
    /\ UNCHANGED <<connVars, cancelled, discVars>>

\* camel_imapx_conn_manager_connect_sync() is no job of the queue.
Connect(j) ==
    /\ j \in Connects /\ At(j, "start")
    /\ writer = None
    /\ IF connections # {}
       THEN job' = [job EXCEPT ![j].pc = "end", ![j].outcome = "ok"]
       ELSE \E state \in CallRef(j) : job' = [job EXCEPT ![j] = state]
    /\ UNCHANGED <<connVars, queueVars, cancelled, discVars>>

-----------------------------------------------------------------------------
(* camel_imapx_conn_manager_ref_connection().                              *)

\* The loop's body under the read lock.
RefConnection(j) ==
    /\ At(j, "ref")
    /\ writer = None
    /\ IF StopRequested(j)
       THEN /\ job' = [job EXCEPT ![j] = Ended(j, "cancelled")]
            /\ UNCHANGED busy
       ELSE IF Idle # {}
       THEN \E c \in Idle :
              /\ busy' = busy \cup {c}
              /\ job' = [job EXCEPT ![j] = Got(j, c, FALSE)]
       ELSE /\ job' = [job EXCEPT ![j].pc = IF Cardinality(connections) < get_max_connections
                                            THEN "create" ELSE "towait"]
            /\ UNCHANGED busy
    /\ UNCHANGED <<connections, limit_max_connections, writer, queueVars, cancelled, discVars>>

\* The write lock is taken in place of the read lock; the number of the
\* connections is not looked at again, a cancellation is.
StartConnecting(j) ==
    /\ At(j, "create")
    /\ writer = None
    /\ IF StopRequested(j)
       THEN /\ job' = [job EXCEPT ![j] = Ended(j, "cancelled")]
            /\ UNCHANGED writer
       ELSE /\ writer' = j
            /\ job' = [job EXCEPT ![j].pc = "connecting"]
    /\ UNCHANGED <<connections, busy, limit_max_connections, queueVars, cancelled, discVars>>

\* imapx_create_new_connection_unlocked() succeeds.
Connected(j) ==
    /\ At(j, "connecting")
    /\ writer' = None
    /\ Unused # {}
    /\ connections' = connections \cup {NewConnection}
    /\ busy' = busy \cup {NewConnection}
    /\ job' = [job EXCEPT ![j] = Got(j, NewConnection, TRUE)]
    /\ UNCHANGED <<limit_max_connections, queueVars, cancelled, discVars>>

\* It fails, or notices that it was cancelled.
ConnectFailed(j) ==
    /\ At(j, "connecting")
    /\ writer' = None
    /\ job' = [job EXCEPT ![j] = Ended(j, IF StopRequested(j) THEN "cancelled" ELSE "error")]
    /\ UNCHANGED <<connections, busy, limit_max_connections, queueVars, cancelled, discVars>>

\* The server refuses a connection beside those it has.
ConnectRefused(j) ==
    /\ At(j, "connecting")
    /\ connections # {}
    /\ writer' = None
    /\ job' = [job EXCEPT ![j].pc = "limit"]
    /\ UNCHANGED <<connections, busy, limit_max_connections, queueVars, cancelled, discVars>>

\* Back under the read lock: limits the connections and waits for one.
LimitConnections(j) ==
    /\ At(j, "limit")
    /\ writer = None
    /\ IF connections # {}
       THEN /\ limit_max_connections' = IF Cardinality(connections) = 1 THEN 1
                                        ELSE Cardinality(connections) - 1
            /\ job' = [job EXCEPT ![j].pc = "towait"]
       ELSE /\ job' = [job EXCEPT ![j] = Ended(j, "error")]
            /\ UNCHANGED limit_max_connections
    /\ UNCHANGED <<connections, busy, writer, queueVars, cancelled, discVars>>

\* The read lock has been released.  The handler of a cancellation, which is
\* called at once when there already was one, is connected before the wait.
WaitForConnection(j) ==
    /\ At(j, "towait")
    /\ job' = [(IF StopRequested(j) THEN Broadcast(job) ELSE job) EXCEPT ![j].pc = "condwait"]
    /\ UNCHANGED <<connVars, queueVars, cancelled, discVars>>

-----------------------------------------------------------------------------
(* The run of a job on its connection.                                     *)

Running(j) == At(j, "run") /\ job[j].victim = None

\* imapx_conn_manager_unmark_busy().
UnmarkBusy(c, jobs) ==
    /\ busy' = busy \ {c}
    /\ job' = Broadcast(jobs)
    /\ UNCHANGED <<connections, limit_max_connections, writer>>

\* imapx_conn_manager_remove_info(): wakes the waiting threads only when the
\* connection still was in the list.
RemoveInfo(c, jobs) ==
    /\ writer = None
    /\ connections' = connections \ {c}
    /\ job' = IF c \in connections THEN Broadcast(jobs) ELSE jobs
    /\ UNCHANGED <<limit_max_connections, writer>>

Succeeded(j) ==
    /\ Running(j)
    /\ UnmarkBusy(job[j].conn, [job EXCEPT ![j] = [Ended(j, "ok") EXCEPT !.result = "ok"]])
    /\ UNCHANGED <<queueVars, cancelled, discVars>>

\* An error which says nothing against the connection.  The result is set when
\* the job itself had been started, not when IDLE could not be stopped before it.
Failed(j) ==
    /\ Running(j)
    /\ j \notin Connects
    /\ \E result \in {job[j].result, "error"} :
          UnmarkBusy(job[j].conn, [job EXCEPT ![j] = [Ended(j, "error") EXCEPT !.result = result]])
    /\ UNCHANGED <<queueVars, cancelled, discVars>>

\* The connection broke: it is removed and the job tries again, unless it was
\* a new connection.  The result is set when the job itself had been started.
ConnectionLost(j) ==
    /\ Running(j)
    /\ j \notin Connects
    /\ \E result \in {job[j].result, "error"} :
       \E state \in IF job[j].new THEN {Ended(j, "error")} ELSE CallRef(j) :
          RemoveInfo(job[j].conn, [job EXCEPT ![j] = [state EXCEPT !.result = result]])
    /\ busy' = busy \ {job[j].conn}
    /\ UNCHANGED <<queueVars, cancelled, discVars>>

\* A cancelled job is an I/O error too: its connection is removed.  The flag of
\* the removed connection is cleared here and above, the code leaves it set in
\* what nobody looks at any more.
Interrupted(j) ==
    /\ Running(j)
    /\ j \notin Connects
    /\ StopRequested(j)
    /\ RemoveInfo(job[j].conn,
                  [job EXCEPT ![j] = [Ended(j, "cancelled") EXCEPT !.result = "cancelled"]])
    /\ busy' = busy \ {job[j].conn}
    /\ UNCHANGED <<queueVars, cancelled, discVars>>

\* Another connection is in IDLE on the same mailbox, and IDLE cannot be
\* stopped there: that connection is closed, by now perhaps used by a job.
FindVictim(j, c) ==
    /\ Running(j)
    /\ j \notin Connects
    /\ writer = None
    /\ c \in Idle
    /\ job' = [job EXCEPT ![j].victim = c]
    /\ UNCHANGED <<connVars, queueVars, cancelled, discVars>>

CloseVictim(j) ==
    /\ At(j, "run") /\ job[j].victim # None
    /\ RemoveInfo(job[j].victim, [job EXCEPT ![j].victim = None])
    /\ UNCHANGED <<busy, queueVars, cancelled, discVars>>

-----------------------------------------------------------------------------
(* Cancellation by the caller, and camel_imapx_conn_manager_disconnect_sync(). *)

Cancel(j) ==
    /\ ~At(j, "end") /\ j \notin cancelled
    /\ cancelled' = cancelled \cup {j}
    /\ job' = IF At(j, "condwait") THEN Broadcast(job) ELSE job
    /\ UNCHANGED <<connVars, queueVars, discVars>>

\* Cancels the pending connections and aborts the jobs.  A job which is not
\* yet run forgets the abort, because running it resets the cancellable.
DisconnectBegin ==
    /\ disconnect = "idle" /\ disconnects < MaxDisconnects
    /\ disconnect' = "cancelled"
    /\ job' = Broadcast([j \in Jobs |->
                  IF job[j].pc \in Pending \/ (At(j, "run") /\ j \in job_queue)
                  THEN [job[j] EXCEPT !.stop = TRUE] ELSE job[j]])
    /\ UNCHANGED <<connVars, queueVars, cancelled, disconnects>>

\* Takes all the connections, those in use too; wakes nobody.
DisconnectEnd ==
    /\ disconnect = "cancelled"
    /\ writer = None
    /\ connections' = {}
    /\ disconnect' = "idle"
    /\ disconnects' = disconnects + 1
    /\ UNCHANGED <<busy, limit_max_connections, writer, queueVars, cancelled, job>>

-----------------------------------------------------------------------------
RefStep(j) ==
    \/ RefConnection(j) \/ StartConnecting(j) \/ Connected(j) \/ ConnectFailed(j)
    \/ ConnectRefused(j) \/ LimitConnections(j) \/ WaitForConnection(j)
RunStep(j) ==
    Succeeded(j) \/ Failed(j) \/ ConnectionLost(j) \/ Interrupted(j) \/ CloseVictim(j)
QueueStep(j) == ScanQueue(j) \/ NotStarted(j) \/ WaitedFor(j) \/ EndJob(j) \/ Connect(j)

Next ==
    \/ \E j \in Jobs :
          \/ QueueStep(j) \/ RefStep(j) \/ RunStep(j)
          \/ \E c \in Conns : FindVictim(j, c)
          \/ Cancel(j)
    \/ DisconnectBegin
    \/ DisconnectEnd

(* The threads are scheduled and no I/O lasts for ever: connections and    *)
(* commands have timeouts.                                                 *)
Fairness ==
    /\ \A j \in Jobs : WF_vars(QueueStep(j) \/ RefStep(j) \/ RunStep(j))
    /\ WF_vars(DisconnectEnd)

Spec == Init /\ [][Next]_vars /\ Fairness

-----------------------------------------------------------------------------
(* Properties.                                                             *)

\* Two jobs never use one connection: their commands would mix on the stream.
ExclusiveUse ==
    \A j, k \in Jobs : job[j].conn # None /\ job[j].conn = job[k].conn => j = k

\* Two jobs for the same thing are never queued, thus never run, together.
NoDuplicateJobs ==
    \A j, k \in job_queue : Matches(j, k) => j = k

\* Each connection whose busy flag is set is used by some job, however that
\* job ends: none is lost for the jobs to come.
BusyIsUsed == \A c \in busy : \E j \in Jobs : job[j].conn = c

\* The cancellation of one job does not cancel another which waits for its
\* result: a job ends as cancelled only when its own caller cancelled it or
\* the store was being disconnected.
CancelNotInherited ==
    \A j \in Jobs :
        job[j].outcome = "cancelled" => j \in cancelled \/ disconnects > 0 \/ disconnect # "idle"

\* Jobs do not wait for each other in a circle, reconnecting comes to an end,
\* and an ended job wakes those which wait for it: every job ends, as long as
\* no thread waits on busy_connections_cond.
JobsEndUnlessOneWaits ==
    \A j \in Jobs : job[j].pc \notin {"start", "end"}
                    ~> (job[j].pc = "end" \/ \E k \in Jobs : At(k, "condwait"))

\* A cancelled thread stops waiting for a connection: this is what the handler
\* connected to the cancellable and the check in the loop are for.
CancelledWaitEnds ==
    \A j \in Jobs : (At(j, "condwait") /\ j \in cancelled) ~> ~At(j, "condwait")
=============================================================================
