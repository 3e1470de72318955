----------------------- MODULE IMAPXConnManagerProofs -----------------------
(***************************************************************************)
(* Proofs about IMAPXConnManager for any jobs, any number of connections   *)
(* and any number of disconnects.                                          *)
(***************************************************************************)
EXTENDS IMAPXConnManager, FiniteSetTheorems, TLAPS

(* ---- states of a job ---- *)

\* Broadcast() only takes threads from their wait.
LEMMA BroadcastJobs ==
    ASSUME NEW jobs \in [Jobs -> JobStates]
    PROVE  /\ Broadcast(jobs) \in [Jobs -> JobStates]
           /\ \A k \in Jobs :
                 /\ Broadcast(jobs)[k].conn = jobs[k].conn
                 /\ Broadcast(jobs)[k].pc = "run" <=> jobs[k].pc = "run"
                 /\ Broadcast(jobs)[k].stop = jobs[k].stop
                 /\ Broadcast(jobs)[k].outcome = jobs[k].outcome
<1> SUFFICES ASSUME NEW k \in Jobs
             PROVE  /\ Broadcast(jobs)[k] \in JobStates
                    /\ Broadcast(jobs)[k].conn = jobs[k].conn
                    /\ Broadcast(jobs)[k].pc = "run" <=> jobs[k].pc = "run"
                    /\ Broadcast(jobs)[k].stop = jobs[k].stop
                    /\ Broadcast(jobs)[k].outcome = jobs[k].outcome
  BY DEF Broadcast
<1>1. Broadcast(jobs)[k] =
         IF jobs[k].pc = "condwait" THEN [jobs[k] EXCEPT !.pc = "ref"] ELSE jobs[k]
  BY DEF Broadcast
<1> QED
  BY <1>1 DEF JobStates, Pending

\* What a job's thread is when it has stopped.
LEMMA EndedState ==
    ASSUME TypeOK, NEW j \in Jobs, NEW o \in Results
    PROVE  /\ Ended(j, o) \in JobStates
           /\ Ended(j, o).conn = None /\ Ended(j, o).pc = "ending"
           /\ Ended(j, o).stop = FALSE /\ Ended(j, o).outcome = o
BY DEF TypeOK, JobStates, Ended

\* What it is when it looks for a connection, or cannot because it is offline.
LEMMA CallRefState ==
    ASSUME TypeOK, NEW j \in Jobs, NEW s \in CallRef(j)
    PROVE  /\ s \in JobStates
           /\ s.conn = None /\ s.pc # "run"
           /\ s.stop = FALSE /\ s.outcome \in {job[j].outcome, "error"}
<1>1. CASE s = [job[j] EXCEPT !.pc = "ref", !.conn = None, !.new = FALSE, !.stop = FALSE]
  BY <1>1 DEF TypeOK, JobStates, Pending
<1>2. CASE s = Ended(j, "error")
  BY <1>2, EndedState DEF Results
<1> QED
  BY <1>1, <1>2 DEF CallRef

\* What it is when it has got a connection.
LEMMA GotState ==
    ASSUME TypeOK, NEW j \in Jobs, NEW c \in Conns, NEW new \in BOOLEAN
    PROVE  /\ Got(j, c, new) \in JobStates
           /\ Got(j, c, new).conn = c /\ Got(j, c, new).pc = "run"
           /\ Got(j, c, new).stop = FALSE /\ Got(j, c, new).outcome = job[j].outcome
BY DEF TypeOK, JobStates, Got

\* A new connection is one that no thread knows.
LEMMA NewConnectionUnused ==
    ASSUME Unused # {}
    PROVE  NewConnection \in Conns /\ NewConnection \notin busy
BY DEF NewConnection, Unused

-----------------------------------------------------------------------------
(* ---- type correctness ---- *)

\* Only a disconnect within the bound has begun.
DisconnectInv == disconnect = "cancelled" => disconnects < MaxDisconnects

\* The steps of the jobs, the cancellations and the disconnects keep the types.
LEMMA TypeInductive == TypeOK /\ DisconnectInv /\ [Next]_vars => TypeOK' /\ DisconnectInv'
<1> SUFFICES ASSUME TypeOK, DisconnectInv, [Next]_vars PROVE TypeOK' /\ DisconnectInv'
  OBVIOUS
<1> USE DEF connVars, queueVars, discVars, At
<1>1. ASSUME NEW j \in Jobs, NEW s \in JobStates, job' = [job EXCEPT ![j] = s]
      PROVE  job' \in [Jobs -> JobStates]
  BY <1>1 DEF TypeOK
<1>2. ASSUME NEW j \in Jobs, NEW pc \in {"waiting", "end", "create", "towait", "connecting", "limit"},
             job' = [job EXCEPT ![j].pc = pc]
      PROVE  job' \in [Jobs -> JobStates]
  BY <1>2 DEF TypeOK, JobStates, Pending
<1>3. ASSUME NEW j \in Jobs, ScanQueue(j) PROVE TypeOK'
  <2>1. ASSUME NEW s \in CallRef(j), job' = [job EXCEPT ![j] = s]
        PROVE  job' \in [Jobs -> JobStates]
    BY <1>1, <2>1, CallRefState
  <2>2. ASSUME NEW q \in job_queue, job' = [job EXCEPT ![j].pc = "waiting", ![j].other = q]
        PROVE  job' \in [Jobs -> JobStates]
    <3>1. [job[j] EXCEPT !.pc = "waiting", !.other = q] \in JobStates
      BY DEF TypeOK, JobStates
    <3>2. job' = [job EXCEPT ![j] = [job[j] EXCEPT !.pc = "waiting", !.other = q]]
      BY <2>2 DEF TypeOK
    <3> QED
      BY <1>1, <3>1, <3>2
  <2> QED
    BY <1>3, <2>1, <2>2 DEF ScanQueue, TypeOK
<1>4. ASSUME NEW j \in Jobs, NotStarted(j) PROVE TypeOK'
  <2>1. [job[j] EXCEPT !.pc = "end", !.outcome = "cancelled"] \in JobStates
    BY DEF TypeOK, JobStates, Results
  <2>2. job' = [job EXCEPT ![j] = [job[j] EXCEPT !.pc = "end", !.outcome = "cancelled"]]
    BY <1>4 DEF NotStarted, TypeOK
  <2> QED
    BY <1>1, <1>4, <2>1, <2>2 DEF NotStarted, TypeOK
<1>5. ASSUME NEW j \in Jobs, WaitedFor(j) PROVE TypeOK'
  <2>1. [job[j] EXCEPT !.pc = "end", !.other = None, !.outcome = "cancelled"] \in JobStates
    BY DEF TypeOK, JobStates, Results
  <2>2. ASSUME NEW r \in {"ok", "error"}
        PROVE  [job[j] EXCEPT !.pc = "end", !.other = None, !.result = r, !.outcome = r] \in JobStates
    <3>1. r \in Results
      BY DEF Results
    <3> QED
      BY <3>1 DEF TypeOK, JobStates
  <2>3. [job[j] EXCEPT !.pc = "scan", !.other = None] \in JobStates
    BY DEF TypeOK, JobStates
  <2>4. PICK s \in JobStates : job' = [job EXCEPT ![j] = s]
    BY <1>5, <2>1, <2>2, <2>3 DEF WaitedFor
  <2> QED
    BY <1>1, <1>5, <2>4 DEF WaitedFor, TypeOK
<1>6. ASSUME NEW j \in Jobs, EndJob(j) PROVE TypeOK'
  BY <1>2, <1>6 DEF EndJob, TypeOK
<1>7. ASSUME NEW j \in Jobs, Connect(j) PROVE TypeOK'
  <2>1. ASSUME job' = [job EXCEPT ![j].pc = "end", ![j].outcome = "ok"]
        PROVE  job' \in [Jobs -> JobStates]
    <3>1. [job[j] EXCEPT !.pc = "end", !.outcome = "ok"] \in JobStates
      BY DEF TypeOK, JobStates, Results
    <3>2. job' = [job EXCEPT ![j] = [job[j] EXCEPT !.pc = "end", !.outcome = "ok"]]
      BY <2>1 DEF TypeOK
    <3> QED
      BY <1>1, <3>1, <3>2
  <2>2. ASSUME NEW s \in CallRef(j), job' = [job EXCEPT ![j] = s]
        PROVE  job' \in [Jobs -> JobStates]
    BY <1>1, <2>2, CallRefState
  <2> QED
    BY <1>7, <2>1, <2>2 DEF Connect, TypeOK
<1>8. ASSUME NEW j \in Jobs, RefConnection(j) PROVE TypeOK'
  <2>1. ASSUME NEW c \in Idle, job' = [job EXCEPT ![j] = Got(j, c, FALSE)]
        PROVE  job' \in [Jobs -> JobStates] /\ c \in Conns
    BY <1>1, <2>1, GotState DEF Idle, TypeOK
  <2>2. ASSUME job' = [job EXCEPT ![j] = Ended(j, "cancelled")]
        PROVE  job' \in [Jobs -> JobStates]
    BY <1>1, <2>2, EndedState DEF Results
  <2>3. ASSUME NEW pc \in {"create", "towait"}, job' = [job EXCEPT ![j].pc = pc]
        PROVE  job' \in [Jobs -> JobStates]
    BY <1>2, <2>3
  <2>4. job' \in [Jobs -> JobStates] /\ busy' \in SUBSET Conns
    <3>1. CASE StopRequested(j)
      BY <1>8, <2>2, <3>1 DEF RefConnection, TypeOK
    <3>2. CASE ~ StopRequested(j) /\ Idle # {}
      BY <1>8, <2>1, <3>2 DEF RefConnection, TypeOK
    <3>3. CASE ~ StopRequested(j) /\ Idle = {}
      <4>1. PICK pc \in {"create", "towait"} : job' = [job EXCEPT ![j].pc = pc]
        BY <1>8, <3>3 DEF RefConnection
      <4> QED
        BY <1>8, <2>3, <3>3, <4>1 DEF RefConnection, TypeOK
    <3> QED
      BY <3>1, <3>2, <3>3
  <2> QED
    BY <1>8, <2>4 DEF RefConnection, TypeOK
<1>9. ASSUME NEW j \in Jobs, StartConnecting(j) PROVE TypeOK'
  <2>1. job' \in [Jobs -> JobStates]
    <3>1. CASE StopRequested(j)
      <4>1. Ended(j, "cancelled") \in JobStates
        BY EndedState DEF Results
      <4> QED
        BY <1>1, <1>9, <3>1, <4>1 DEF StartConnecting
    <3>2. CASE ~ StopRequested(j)
      BY <1>2, <1>9, <3>2 DEF StartConnecting
    <3> QED
      BY <3>1, <3>2
  <2> QED
    BY <1>9, <2>1 DEF StartConnecting, TypeOK
<1>10. ASSUME NEW j \in Jobs, Connected(j) PROVE TypeOK'
  BY <1>1, <1>10, GotState, NewConnectionUnused DEF Connected, TypeOK
<1>11. ASSUME NEW j \in Jobs, ConnectFailed(j) PROVE TypeOK'
  BY <1>1, <1>11, EndedState DEF ConnectFailed, TypeOK, Results
<1>12. ASSUME NEW j \in Jobs, ConnectRefused(j) PROVE TypeOK'
  BY <1>2, <1>12 DEF ConnectRefused, TypeOK
<1>13. ASSUME NEW j \in Jobs, LimitConnections(j) PROVE TypeOK'
  <2>1. /\ Cardinality(connections) <= Cardinality(Conns)
        /\ IsFiniteSet(connections)
    BY ConnsAssumption, FS_Subset DEF TypeOK
  <2>2. /\ Cardinality(connections) \in Nat /\ Cardinality(Conns) \in Nat
        /\ connections # {} => Cardinality(connections) # 0
    BY <2>1, ConnsAssumption, FS_CardinalityType, FS_EmptySet
  <2>3. limit_max_connections' \in 0 .. Cardinality(Conns)
    BY <1>13, <2>1, <2>2 DEF LimitConnections, TypeOK
  <2>4. job' \in [Jobs -> JobStates]
    <3>1. CASE connections # {}
      BY <1>2, <1>13, <3>1 DEF LimitConnections
    <3>2. CASE connections = {}
      <4>1. Ended(j, "error") \in JobStates
        BY EndedState DEF Results
      <4> QED
        BY <1>1, <1>13, <3>2, <4>1 DEF LimitConnections
    <3> QED
      BY <3>1, <3>2
  <2> QED
    BY <1>13, <2>3, <2>4 DEF LimitConnections, TypeOK
<1>14. ASSUME NEW j \in Jobs, WaitForConnection(j) PROVE TypeOK'
  <2>1. Broadcast(job) \in [Jobs -> JobStates]
    BY BroadcastJobs DEF TypeOK
  <2>2. ASSUME NEW jobs \in [Jobs -> JobStates], job' = [jobs EXCEPT ![j].pc = "condwait"]
        PROVE  job' \in [Jobs -> JobStates]
    BY <2>2 DEF JobStates, Pending
  <2> QED
    BY <1>14, <2>1, <2>2 DEF WaitForConnection, TypeOK
<1>15. ASSUME NEW jobs \in [Jobs -> JobStates], job' \in {jobs, Broadcast(jobs)}
       PROVE  job' \in [Jobs -> JobStates]
  BY <1>15, BroadcastJobs
<1>16. ASSUME NEW j \in Jobs, NEW s \in JobStates, NEW r \in Results,
              job' \in {[job EXCEPT ![j] = [s EXCEPT !.result = r]],
                        Broadcast([job EXCEPT ![j] = [s EXCEPT !.result = r]])}
       PROVE  job' \in [Jobs -> JobStates]
  <2>1. [s EXCEPT !.result = r] \in JobStates
    BY DEF JobStates
  <2>2. [job EXCEPT ![j] = [s EXCEPT !.result = r]] \in [Jobs -> JobStates]
    BY <2>1 DEF TypeOK
  <2> QED
    BY <1>15, <1>16, <2>2
<1>17. ASSUME NEW j \in Jobs, Succeeded(j) \/ Failed(j) PROVE TypeOK'
  <2>1. PICK r \in {"ok", "error"}, stored \in {"ok", "error", job[j].result} :
           job' = Broadcast([job EXCEPT ![j] = [Ended(j, r) EXCEPT !.result = stored]])
    BY <1>17 DEF Succeeded, Failed, UnmarkBusy
  <2>s. stored \in Results
    BY DEF Results, JobStates, TypeOK
  <2>2. Ended(j, r) \in JobStates /\ r \in Results
    BY EndedState DEF Results
  <2>3. job' \in [Jobs -> JobStates]
    BY <1>16, <2>s, <2>1, <2>2
  <2> QED
    BY <1>17, <2>3 DEF Succeeded, Failed, UnmarkBusy, TypeOK
<1>18. ASSUME NEW j \in Jobs, ConnectionLost(j) PROVE TypeOK'
  <2>1. PICK r \in {job[j].result, "error"},
             s \in IF job[j].new THEN {Ended(j, "error")} ELSE CallRef(j) :
                 RemoveInfo(job[j].conn, [job EXCEPT ![j] = [s EXCEPT !.result = r]])
    BY <1>18 DEF ConnectionLost
  <2>2. s \in JobStates /\ r \in Results
    <3>1. s \in JobStates
      BY EndedState, CallRefState DEF Results
    <3> QED
      BY <3>1 DEF Results, TypeOK, JobStates
  <2>3. job' \in [Jobs -> JobStates]
    BY <1>16, <2>1, <2>2 DEF RemoveInfo
  <2> QED
    BY <1>18, <2>1, <2>3 DEF ConnectionLost, RemoveInfo, TypeOK
<1>19. ASSUME NEW j \in Jobs, Interrupted(j) PROVE TypeOK'
  BY <1>16, <1>19, EndedState DEF Interrupted, RemoveInfo, TypeOK, Results
<1>20. ASSUME NEW j \in Jobs, NEW c \in Conns, FindVictim(j, c) PROVE TypeOK'
  BY <1>20 DEF FindVictim, TypeOK, JobStates
<1>21. ASSUME NEW j \in Jobs, CloseVictim(j) PROVE TypeOK'
  <2>1. [job EXCEPT ![j].victim = None] \in [Jobs -> JobStates]
    BY DEF TypeOK, JobStates
  <2> QED
    BY <1>15, <1>21, <2>1 DEF CloseVictim, RemoveInfo, TypeOK
<1>22. ASSUME NEW j \in Jobs, Cancel(j) PROVE TypeOK'
  BY <1>15, <1>22 DEF Cancel, TypeOK
<1>23. ASSUME DisconnectBegin PROVE TypeOK'
  <2> DEFINE jobs == [j \in Jobs |->
                         IF job[j].pc \in Pending \/ (At(j, "run") /\ j \in job_queue)
                         THEN [job[j] EXCEPT !.stop = TRUE] ELSE job[j]]
  <2>1. jobs \in [Jobs -> JobStates]
    <3>1. \A j \in Jobs : job[j] \in JobStates /\ [job[j] EXCEPT !.stop = TRUE] \in JobStates
      BY DEF TypeOK, JobStates
    <3> QED
      BY <3>1
  <2>2. job' = Broadcast(jobs)
    BY <1>23 DEF DisconnectBegin
  <2> HIDE DEF jobs
  <2>3. job' \in [Jobs -> JobStates]
    BY <2>1, <2>2, BroadcastJobs
  <2> QED
    BY <1>23, <2>3 DEF DisconnectBegin, TypeOK
<1>24. ASSUME DisconnectEnd PROVE TypeOK'
  <2>1. disconnects' \in 0 .. MaxDisconnects
    BY <1>24, ConnsAssumption DEF DisconnectEnd, DisconnectInv, TypeOK
  <2> QED
    BY <1>24, <2>1 DEF DisconnectEnd, TypeOK
<1>25. ASSUME UNCHANGED vars PROVE TypeOK'
  BY <1>25 DEF vars, TypeOK
<1>26. TypeOK'
  BY <1>3, <1>4, <1>5, <1>6, <1>7, <1>8, <1>9, <1>10, <1>11, <1>12, <1>13, <1>14, <1>17, <1>18,
     <1>19, <1>20, <1>21, <1>22, <1>23, <1>24, <1>25 DEF Next, QueueStep, RefStep, RunStep
<1>27. DisconnectInv'
  <2>1. CASE UNCHANGED discVars
    BY <2>1 DEF DisconnectInv
  <2>2. CASE DisconnectBegin \/ DisconnectEnd
    BY <2>2 DEF DisconnectBegin, DisconnectEnd, DisconnectInv
  <2> QED
    BY <2>1, <2>2
       DEF Next, QueueStep, RefStep, RunStep, vars, ScanQueue, NotStarted, WaitedFor, EndJob, Connect,
           RefConnection, StartConnecting, Connected, ConnectFailed, ConnectRefused,
           LimitConnections, WaitForConnection, Succeeded, Failed, ConnectionLost, Interrupted,
           FindVictim, CloseVictim, Cancel
<1> QED
  BY <1>26, <1>27

\* Both hold in every state.
LEMMA TypeInvariant == Spec => [](TypeOK /\ DisconnectInv)
<1>1. Init => TypeOK /\ DisconnectInv
  <2> SUFFICES ASSUME Init PROVE TypeOK /\ DisconnectInv
    OBVIOUS
  <2>1. job \in [Jobs -> JobStates]
    BY DEF Init, JobStates, Results
  <2>2. 0 \in 0 .. MaxDisconnects /\ 0 \in 0 .. Cardinality(Conns)
    BY ConnsAssumption, FS_CardinalityType
  <2> QED
    BY <2>1, <2>2 DEF Init, TypeOK, DisconnectInv
<1> QED
  BY <1>1, TypeInductive, PTL DEF Spec

\* Jobs, connections and the limit of the connections keep their types, however many
\* connections the server refuses.
THEOREM TypeCorrect == Spec => []TypeOK
BY TypeInvariant, PTL

-----------------------------------------------------------------------------
(* ---- the use of the connections ---- *)

\* The jobs which run are those with a connection, which is busy on behalf of this
\* job alone; there is no other busy connection.
UseInv ==
    /\ \A j \in Jobs : job[j].conn # None <=> job[j].pc = "run"
    /\ \A j \in Jobs : job[j].conn # None => job[j].conn \in busy
    /\ ExclusiveUse
    /\ BusyIsUsed

\* The use of a connection by the job k stays the same.
SameUse(k) == job'[k].conn = job[k].conn /\ (job'[k].pc = "run" <=> job[k].pc = "run")

\* The job j begins, or ends, the use of a connection, and only this changes.
Takes(j, c) ==
    /\ c \in Conns \ busy
    /\ busy' = busy \cup {c}
    /\ job[j].pc # "run"
    /\ job'[j].conn = c /\ job'[j].pc = "run"
    /\ \A k \in Jobs \ {j} : SameUse(k)
Drops(j) ==
    /\ job[j].pc = "run"
    /\ busy' = busy \ {job[j].conn}
    /\ job'[j].conn = None /\ job'[j].pc # "run"
    /\ \A k \in Jobs \ {j} : SameUse(k)

\* The invariant survives all these.
LEMMA UseChange ==
    ASSUME TypeOK, TypeOK', UseInv,
           \/ busy' = busy /\ \A k \in Jobs : SameUse(k)
           \/ \E j \in Jobs, c \in Conns : Takes(j, c)
           \/ \E j \in Jobs : Drops(j)
    PROVE  UseInv'
<1> USE DEF UseInv, ExclusiveUse, BusyIsUsed, SameUse
<1>1. CASE busy' = busy /\ \A k \in Jobs : SameUse(k)
  BY <1>1
<1>2. ASSUME NEW j \in Jobs, NEW c \in Conns, Takes(j, c) PROVE UseInv'
  <2>1. c # None /\ job[j].conn = None
    BY <1>2, JobsAssumption DEF Takes
  <2>2. \A k \in Jobs : job[k].conn # c
    BY <1>2, <2>1 DEF Takes
  <2>3. /\ job'[j].conn = c /\ job'[j].pc = "run"
        /\ \A k \in Jobs \ {j} : job'[k].conn = job[k].conn /\ (job'[k].pc = "run" <=> job[k].pc = "run")
        /\ busy' = busy \cup {c}
    BY <1>2 DEF Takes
  <2>4. \A k \in Jobs : (job'[k].conn # None <=> job'[k].pc = "run")
    BY <2>1, <2>3
  <2>5. \A k \in Jobs : job'[k].conn # None => job'[k].conn \in busy'
    BY <2>3
  <2>6. ExclusiveUse'
    BY <2>2, <2>3
  <2>7. BusyIsUsed'
    <3> SUFFICES ASSUME NEW d \in busy' PROVE \E k \in Jobs : job'[k].conn = d
      OBVIOUS
    <3>1. CASE d = c
      BY <2>3, <3>1
    <3>2. CASE d # c
      <4>1. d \in Conns /\ d # None
        BY JobsAssumption DEF TypeOK
      <4>2. PICK k \in Jobs : job[k].conn = d
        BY <2>3, <3>2
      <4> QED
        BY <2>1, <2>3, <4>1, <4>2
    <3> QED
      BY <3>1, <3>2
  <2> QED
    BY <2>4, <2>5, <2>6, <2>7
<1>3. ASSUME NEW j \in Jobs, Drops(j) PROVE UseInv'
  <2>1. \A k \in Jobs \ {j} : job[k].conn # job[j].conn
    BY <1>3 DEF Drops
  <2> QED
    BY <1>3, <2>1 DEF Drops
<1> QED
  BY <1>1, <1>2, <1>3

\* Every step of a job leaves the use of the connections alone, begins or ends one.
LEMMA UseInductive == TypeOK /\ DisconnectInv /\ UseInv /\ [Next]_vars => UseInv'
<1> SUFFICES ASSUME TypeOK, DisconnectInv, UseInv, [Next]_vars PROVE UseInv'
  OBVIOUS
<1> DEFINE Same == busy' = busy /\ \A k \in Jobs : SameUse(k)
<1>0. TypeOK' /\ job \in [Jobs -> JobStates]
  BY TypeInductive DEF TypeOK
<1> USE DEF At, connVars
<1>1. ASSUME NEW j \in Jobs, NEW s, job' = [job EXCEPT ![j] = s], busy' = busy,
             s.conn = None, s.pc # "run", job[j].pc # "run"
      PROVE  Same
  BY <1>0, <1>1 DEF UseInv, SameUse
<1>2. ASSUME NEW j \in Jobs, NEW s \in CallRef(j), job' = [job EXCEPT ![j] = s], busy' = busy,
             job[j].pc # "run"
      PROVE  Same
  <2>1. s.conn = None /\ s.pc # "run"
    BY CallRefState
  <2> QED
    BY <1>1, <1>2, <2>1
<1>3. ASSUME NEW j \in Jobs, NEW o \in Results, job' = [job EXCEPT ![j] = Ended(j, o)], busy' = busy,
             job[j].pc # "run"
      PROVE  Same
  BY <1>1, <1>3, EndedState
<1>4. ASSUME NEW j \in Jobs, NEW pc, job' = [job EXCEPT ![j].pc = pc], busy' = busy,
             job[j].pc # "run", pc # "run"
      PROVE  Same
  BY <1>0, <1>4 DEF SameUse, JobStates
<1>5. ASSUME NEW jobs \in [Jobs -> JobStates], job' = Broadcast(jobs), busy' = busy,
             \A k \in Jobs : jobs[k].conn = job[k].conn /\ (jobs[k].pc = "run" <=> job[k].pc = "run")
      PROVE  Same
  BY <1>5, BroadcastJobs DEF SameUse
<1>6. ASSUME NEW j \in Jobs, ScanQueue(j) PROVE Same
  <2>1. job[j].pc # "run" /\ busy' = busy
    BY <1>6 DEF ScanQueue
  <2>2. ASSUME NEW q \in job_queue, job' = [job EXCEPT ![j].pc = "waiting", ![j].other = q]
        PROVE  Same
    BY <1>0, <2>1, <2>2 DEF SameUse, JobStates
  <2> QED
    BY <1>2, <1>6, <2>1, <2>2 DEF ScanQueue
<1>7. ASSUME NEW j \in Jobs, NotStarted(j) PROVE Same
  BY <1>0, <1>7 DEF NotStarted, SameUse, JobStates
<1>8. ASSUME NEW j \in Jobs, WaitedFor(j) PROVE Same
  <2>1. job'[j].conn = job[j].conn /\ job'[j].pc # "run" /\ job[j].pc # "run"
    BY <1>0, <1>8 DEF WaitedFor, JobStates
  <2> QED
    BY <1>0, <1>8, <2>1 DEF WaitedFor, SameUse
<1>9. ASSUME NEW j \in Jobs, EndJob(j) PROVE Same
  BY <1>4, <1>9 DEF EndJob
<1>10. ASSUME NEW j \in Jobs, Connect(j) PROVE Same
  <2>1. ASSUME job' = [job EXCEPT ![j].pc = "end", ![j].outcome = "ok"] PROVE Same
    BY <1>0, <1>10, <2>1 DEF Connect, SameUse, JobStates
  <2> QED
    BY <1>2, <1>10, <2>1 DEF Connect
<1>11. ASSUME NEW j \in Jobs, NEW c \in Conns \ busy, NEW new \in BOOLEAN,
              job[j].pc # "run", busy' = busy \cup {c}, job' = [job EXCEPT ![j] = Got(j, c, new)]
       PROVE  Takes(j, c)
  <2>1. Got(j, c, new).conn = c /\ Got(j, c, new).pc = "run"
    BY GotState
  <2> QED
    BY <1>0, <1>11, <2>1 DEF Takes, SameUse
<1>12. ASSUME NEW j \in Jobs, RefConnection(j) PROVE Same \/ \E c \in Conns : Takes(j, c)
  <2>1. job[j].pc # "run"
    BY <1>12 DEF RefConnection
  <2>2. CASE StopRequested(j)
    BY <1>3, <1>12, <2>1, <2>2 DEF RefConnection, Results
  <2>3. CASE ~ StopRequested(j) /\ Idle # {}
    <3>1. PICK c \in Idle : busy' = busy \cup {c} /\ job' = [job EXCEPT ![j] = Got(j, c, FALSE)]
      BY <1>12, <2>3 DEF RefConnection
    <3>2. c \in Conns \ busy
      BY DEF Idle, TypeOK
    <3> QED
      BY <1>11, <2>1, <3>1, <3>2
  <2>4. CASE ~ StopRequested(j) /\ Idle = {}
    BY <1>4, <1>12, <2>1, <2>4 DEF RefConnection
  <2> QED
    BY <2>2, <2>3, <2>4
<1>13. ASSUME NEW j \in Jobs, StartConnecting(j) PROVE Same
  BY <1>3, <1>4, <1>13 DEF StartConnecting, Results
<1>14. ASSUME NEW j \in Jobs, Connected(j) PROVE \E c \in Conns : Takes(j, c)
  BY <1>11, <1>14, NewConnectionUnused DEF Connected
<1>15. ASSUME NEW j \in Jobs, ConnectFailed(j) PROVE Same
  BY <1>3, <1>15 DEF ConnectFailed, Results
<1>16. ASSUME NEW j \in Jobs, ConnectRefused(j) PROVE Same
  BY <1>4, <1>16 DEF ConnectRefused
<1>17. ASSUME NEW j \in Jobs, LimitConnections(j) PROVE Same
  BY <1>3, <1>4, <1>17 DEF LimitConnections, Results
<1>18. ASSUME NEW j \in Jobs, WaitForConnection(j) PROVE Same
  <2>1. ASSUME NEW jobs \in [Jobs -> JobStates], job' = [jobs EXCEPT ![j].pc = "condwait"],
               \A k \in Jobs : jobs[k].conn = job[k].conn /\ (jobs[k].pc = "run" <=> job[k].pc = "run")
        PROVE  Same
    BY <1>18, <2>1 DEF WaitForConnection, SameUse, JobStates
  <2> QED
    BY <1>0, <1>18, <2>1, BroadcastJobs DEF WaitForConnection
<1>19. ASSUME NEW j \in Jobs, NEW s \in JobStates, NEW r \in Results, s.conn = None, s.pc # "run",
              busy' = busy \ {job[j].conn}, job[j].pc = "run",
              job' \in {[job EXCEPT ![j] = [s EXCEPT !.result = r]],
                        Broadcast([job EXCEPT ![j] = [s EXCEPT !.result = r]])}
       PROVE  Drops(j)
  <2> DEFINE jobs == [job EXCEPT ![j] = [s EXCEPT !.result = r]]
  <2>1. [s EXCEPT !.result = r] \in JobStates /\ [s EXCEPT !.result = r].conn = None
        /\ [s EXCEPT !.result = r].pc # "run"
    BY <1>19 DEF JobStates
  <2>2. /\ jobs \in [Jobs -> JobStates]
        /\ jobs[j].conn = None /\ jobs[j].pc # "run"
        /\ \A k \in Jobs \ {j} : jobs[k] = job[k]
    BY <1>0, <2>1
  <2> HIDE DEF jobs
  <2>3. job' \in {jobs, Broadcast(jobs)}
    BY <1>19 DEF jobs
  <2> QED
    BY <1>19, <2>2, <2>3, BroadcastJobs DEF Drops, SameUse
<1>20. ASSUME NEW j \in Jobs, Succeeded(j) \/ Failed(j) PROVE Drops(j)
  <2>1. PICK r \in {"ok", "error"}, stored \in {"ok", "error", job[j].result} :
           job' = Broadcast([job EXCEPT ![j] = [Ended(j, r) EXCEPT !.result = stored]])
    BY <1>20 DEF Succeeded, Failed, UnmarkBusy
  <2>s. stored \in Results
    BY <1>0 DEF Results, JobStates
  <2>2. r \in Results /\ Ended(j, r) \in JobStates /\ Ended(j, r).conn = None /\ Ended(j, r).pc # "run"
    <3>1. r \in Results
      BY DEF Results
    <3> QED
      BY <3>1, EndedState
  <2>3. busy' = busy \ {job[j].conn} /\ job[j].pc = "run"
    BY <1>20 DEF Succeeded, Failed, UnmarkBusy, Running
  <2> QED
    BY <1>19, <2>s, <2>1, <2>2, <2>3
<1>21. ASSUME NEW j \in Jobs, ConnectionLost(j) PROVE Drops(j)
  <2>1. PICK r \in {job[j].result, "error"},
             s \in IF job[j].new THEN {Ended(j, "error")} ELSE CallRef(j) :
                 RemoveInfo(job[j].conn, [job EXCEPT ![j] = [s EXCEPT !.result = r]])
    BY <1>21 DEF ConnectionLost
  <2>2. s \in JobStates /\ s.conn = None /\ s.pc # "run"
    <3>1. CASE s = Ended(j, "error")
      BY <3>1, EndedState DEF Results
    <3>2. CASE s \in CallRef(j)
      BY <3>2, CallRefState
    <3> QED
      BY <3>1, <3>2
  <2>3. r \in Results
    BY <1>0 DEF Results, JobStates
  <2>4. busy' = busy \ {job[j].conn} /\ job[j].pc = "run"
    BY <1>21 DEF ConnectionLost, Running
  <2> QED
    BY <1>19, <2>1, <2>2, <2>3, <2>4 DEF RemoveInfo
<1>22. ASSUME NEW j \in Jobs, Interrupted(j) PROVE Drops(j)
  <2>1. /\ "cancelled" \in Results /\ Ended(j, "cancelled") \in JobStates
        /\ Ended(j, "cancelled").conn = None /\ Ended(j, "cancelled").pc # "run"
    BY EndedState DEF Results
  <2> QED
    BY <1>19, <1>22, <2>1 DEF Interrupted, RemoveInfo, Running
<1>23. ASSUME NEW j \in Jobs, NEW c \in Conns, FindVictim(j, c) PROVE Same
  BY <1>0, <1>23 DEF FindVictim, SameUse, JobStates
<1>24. ASSUME NEW j \in Jobs, CloseVictim(j) PROVE Same
  <2> DEFINE jobs == [job EXCEPT ![j].victim = None]
  <2>1. /\ jobs \in [Jobs -> JobStates]
        /\ \A k \in Jobs : jobs[k].conn = job[k].conn /\ (jobs[k].pc = "run" <=> job[k].pc = "run")
    BY <1>0 DEF JobStates
  <2>2. job' \in {jobs, Broadcast(jobs)} /\ busy' = busy
    BY <1>24 DEF CloseVictim, RemoveInfo
  <2> HIDE DEF jobs
  <2> QED
    BY <1>5, <2>1, <2>2 DEF SameUse
<1>25. ASSUME NEW j \in Jobs, Cancel(j) PROVE Same
  BY <1>0, <1>5, <1>25 DEF Cancel, SameUse
<1>26. ASSUME DisconnectBegin PROVE Same
  <2> DEFINE jobs == [j \in Jobs |->
                         IF job[j].pc \in Pending \/ (At(j, "run") /\ j \in job_queue)
                         THEN [job[j] EXCEPT !.stop = TRUE] ELSE job[j]]
  <2>1. /\ jobs \in [Jobs -> JobStates]
        /\ \A k \in Jobs : jobs[k].conn = job[k].conn /\ (jobs[k].pc = "run" <=> job[k].pc = "run")
    BY <1>0 DEF JobStates
  <2>2. job' = Broadcast(jobs) /\ busy' = busy
    BY <1>26 DEF DisconnectBegin
  <2> HIDE DEF jobs
  <2> QED
    BY <1>5, <2>1, <2>2
<1>27. ASSUME DisconnectEnd \/ UNCHANGED vars PROVE Same
  BY <1>27 DEF DisconnectEnd, vars, SameUse
<1> HIDE DEF Same
<1>28. \/ Same
       \/ \E j \in Jobs, c \in Conns : Takes(j, c)
       \/ \E j \in Jobs : Drops(j)
  BY <1>6, <1>7, <1>8, <1>9, <1>10, <1>12, <1>13, <1>14, <1>15, <1>16, <1>17, <1>18, <1>20,
     <1>21, <1>22, <1>23, <1>24, <1>25, <1>26, <1>27 DEF Next, QueueStep, RefStep, RunStep
<1> QED
  BY <1>0, <1>28, UseChange DEF Same

\* The invariant holds in every state.
LEMMA UseCorrect == Spec => []UseInv
<1>1. Init => UseInv
  BY DEF Init, UseInv, ExclusiveUse, BusyIsUsed
<1> QED
  BY <1>1, UseInductive, TypeInvariant, PTL DEF Spec

\* Two jobs never send their commands on one connection, although connections are
\* closed and replaced while others use them.
THEOREM ExclusiveCorrect == Spec => []ExclusiveUse
<1>1. UseInv => ExclusiveUse
  BY DEF UseInv
<1> QED
  BY <1>1, UseCorrect, PTL

\* No connection stays marked as busy after the job which used it, whichever way
\* that job ends.
THEOREM BusyCorrect == Spec => []BusyIsUsed
<1>1. UseInv => BusyIsUsed
  BY DEF UseInv
<1> QED
  BY <1>1, UseCorrect, PTL

-----------------------------------------------------------------------------
(* ---- the queue of jobs ---- *)

\* Whoever waits for a job looks at the queue again before it joins it.
THEOREM NoDuplicateCorrect == Spec => []NoDuplicateJobs
<1>1. Init => NoDuplicateJobs
  BY DEF Init, NoDuplicateJobs
<1>2. NoDuplicateJobs /\ [Next]_vars => NoDuplicateJobs'
  <2> SUFFICES ASSUME NoDuplicateJobs, [Next]_vars PROVE NoDuplicateJobs'
    OBVIOUS
  <2> USE DEF NoDuplicateJobs, Matches
  <2>1. ASSUME NEW j \in Jobs, ScanQueue(j) PROVE NoDuplicateJobs'
    <3>1. CASE \E q \in job_queue : Matches(j, q) \/ ShouldWaitFor(j, q)
      BY <2>1, <3>1 DEF ScanQueue
    <3>2. CASE ~ \E q \in job_queue : Matches(j, q) \/ ShouldWaitFor(j, q)
      <4>1. job_queue' = job_queue \cup {j}
        BY <2>1, <3>2 DEF ScanQueue
      <4> QED
        BY <3>2, <4>1
    <3> QED
      BY <3>1, <3>2
  <2>2. ASSUME NEW j \in Jobs, EndJob(j) PROVE NoDuplicateJobs'
    BY <2>2 DEF EndJob
  <2>3. ASSUME UNCHANGED job_queue PROVE NoDuplicateJobs'
    BY <2>3
  <2> QED
    BY <2>1, <2>2, <2>3
       DEF Next, QueueStep, RefStep, RunStep, vars, queueVars, NotStarted, WaitedFor, Connect,
           RefConnection, StartConnecting, Connected, ConnectFailed, ConnectRefused,
           LimitConnections, WaitForConnection, Succeeded, Failed, ConnectionLost, Interrupted,
           FindVictim, CloseVictim, Cancel, DisconnectBegin, DisconnectEnd
<1> QED
  BY <1>1, <1>2, PTL DEF Spec

-----------------------------------------------------------------------------
(* ---- cancellation ---- *)

Disconnected == disconnects > 0 \/ disconnect # "idle"

\* A job is aborted or ended as cancelled for a reason of its own.
CancelInv ==
    /\ CancelNotInherited
    /\ \A j \in Jobs : job[j].stop => Disconnected

\* A step gives the job k no stop and no cancellation without such a reason.
Justified(k) ==
    /\ job'[k].stop => job[k].stop \/ disconnect' # "idle"
    /\ job'[k].outcome = "cancelled" => job[k].outcome = "cancelled" \/ StopRequested(k)

\* The reasons do not go away.
LEMMA CancelChange ==
    ASSUME TypeOK, CancelInv, \A k \in Jobs : Justified(k),
           cancelled \subseteq cancelled', Disconnected => Disconnected'
    PROVE  CancelInv'
<1> SUFFICES ASSUME NEW k \in Jobs
             PROVE  /\ job'[k].outcome = "cancelled" => k \in cancelled' \/ Disconnected'
                    /\ job'[k].stop => Disconnected'
  BY DEF CancelInv, CancelNotInherited, Disconnected
<1>1. /\ job[k].outcome = "cancelled" => k \in cancelled \/ Disconnected
      /\ job[k].stop => Disconnected
  BY DEF CancelInv, CancelNotInherited, Disconnected
<1>2. Justified(k)
  OBVIOUS
<1> QED
  BY <1>1, <1>2 DEF Justified, StopRequested, Disconnected

\* The result of a cancelled job is not taken over.
LEMMA CancelInductive == TypeOK /\ DisconnectInv /\ CancelInv /\ [Next]_vars => CancelInv'
<1> SUFFICES ASSUME TypeOK, DisconnectInv, CancelInv, [Next]_vars PROVE CancelInv'
  OBVIOUS
<1> DEFINE All == \A k \in Jobs : Justified(k)
<1>0. job \in [Jobs -> JobStates]
  BY DEF TypeOK
<1> USE DEF At
<1>1. ASSUME NEW j \in Jobs, NEW s, job' = [job EXCEPT ![j] = s], s.stop => job[j].stop,
             s.outcome = "cancelled" => job[j].outcome = "cancelled" \/ StopRequested(j)
      PROVE  All
  BY <1>0, <1>1 DEF Justified
<1>2. ASSUME NEW j \in Jobs, NEW s \in CallRef(j), job' = [job EXCEPT ![j] = s] PROVE All
  <2>1. s.stop = FALSE /\ s.outcome \in {job[j].outcome, "error"}
    BY CallRefState
  <2> QED
    BY <1>1, <1>2, <2>1
<1>3. ASSUME NEW j \in Jobs, NEW o \in Results, job' = [job EXCEPT ![j] = Ended(j, o)],
             o = "cancelled" => StopRequested(j)
      PROVE  All
  <2>1. Ended(j, o).stop = FALSE /\ Ended(j, o).outcome = o
    BY EndedState
  <2> QED
    BY <1>1, <1>3, <2>1
<1>4. ASSUME NEW j \in Jobs, NEW pc, job' = [job EXCEPT ![j].pc = pc] PROVE All
  BY <1>0, <1>4 DEF Justified, JobStates
<1>5. ASSUME NEW jobs \in [Jobs -> JobStates], job' \in {jobs, Broadcast(jobs)},
             \A k \in Jobs :
                /\ jobs[k].stop => job[k].stop \/ disconnect' # "idle"
                /\ jobs[k].outcome = "cancelled" => job[k].outcome = "cancelled" \/ StopRequested(k)
      PROVE  All
  BY <1>5, BroadcastJobs DEF Justified
<1>6. ASSUME NEW j \in Jobs, ScanQueue(j) PROVE All
  <2>1. ASSUME NEW q \in job_queue, job' = [job EXCEPT ![j].pc = "waiting", ![j].other = q] PROVE All
    BY <1>0, <2>1 DEF Justified, JobStates
  <2> QED
    BY <1>2, <1>6, <2>1 DEF ScanQueue
<1>7. ASSUME NEW j \in Jobs, NotStarted(j) PROVE All
  BY <1>0, <1>7 DEF NotStarted, Justified, JobStates, StopRequested
<1>8. ASSUME NEW j \in Jobs, WaitedFor(j) PROVE All
  <2>1. /\ job'[j].stop = job[j].stop
        /\ job'[j].outcome = "cancelled" => job[j].outcome = "cancelled" \/ j \in cancelled
    BY <1>0, <1>8 DEF WaitedFor, JobStates
  <2> QED
    BY <1>0, <1>8, <2>1 DEF WaitedFor, Justified, StopRequested
<1>9. ASSUME NEW j \in Jobs, EndJob(j) PROVE All
  BY <1>4, <1>9 DEF EndJob
<1>10. ASSUME NEW j \in Jobs, Connect(j) PROVE All
  <2>1. ASSUME job' = [job EXCEPT ![j].pc = "end", ![j].outcome = "ok"] PROVE All
    BY <1>0, <1>10, <2>1 DEF Justified, JobStates
  <2> QED
    BY <1>2, <1>10, <2>1 DEF Connect
<1>11. ASSUME NEW j \in Jobs, NEW c \in Conns, NEW new \in BOOLEAN,
              job' = [job EXCEPT ![j] = Got(j, c, new)]
       PROVE  All
  <2>1. Got(j, c, new).stop = FALSE /\ Got(j, c, new).outcome = job[j].outcome
    BY GotState
  <2> QED
    BY <1>1, <1>11, <2>1
<1>12. ASSUME NEW j \in Jobs, RefConnection(j) PROVE All
  <2>1. CASE StopRequested(j)
    BY <1>3, <1>12, <2>1 DEF RefConnection, Results
  <2>2. CASE ~ StopRequested(j) /\ Idle # {}
    <3>1. PICK c \in Idle : job' = [job EXCEPT ![j] = Got(j, c, FALSE)]
      BY <1>12, <2>2 DEF RefConnection
    <3>2. c \in Conns
      BY DEF Idle, TypeOK
    <3> QED
      BY <1>11, <3>1, <3>2
  <2>3. CASE ~ StopRequested(j) /\ Idle = {}
    BY <1>4, <1>12, <2>3 DEF RefConnection
  <2> QED
    BY <2>1, <2>2, <2>3
<1>13. ASSUME NEW j \in Jobs, StartConnecting(j) PROVE All
  BY <1>3, <1>4, <1>13 DEF StartConnecting, Results
<1>14. ASSUME NEW j \in Jobs, Connected(j) PROVE All
  BY <1>11, <1>14, NewConnectionUnused DEF Connected
<1>15. ASSUME NEW j \in Jobs, ConnectFailed(j) PROVE All
  BY <1>3, <1>15 DEF ConnectFailed, Results
<1>16. ASSUME NEW j \in Jobs, ConnectRefused(j) PROVE All
  BY <1>4, <1>16 DEF ConnectRefused
<1>17. ASSUME NEW j \in Jobs, LimitConnections(j) PROVE All
  BY <1>3, <1>4, <1>17 DEF LimitConnections, Results
<1>18. ASSUME NEW j \in Jobs, WaitForConnection(j) PROVE All
  <2>1. ASSUME NEW jobs \in [Jobs -> JobStates], job' = [jobs EXCEPT ![j].pc = "condwait"],
               \A k \in Jobs : jobs[k].stop = job[k].stop /\ jobs[k].outcome = job[k].outcome
        PROVE  All
    BY <2>1 DEF Justified, JobStates
  <2> QED
    BY <1>0, <1>18, <2>1, BroadcastJobs DEF WaitForConnection
<1>19. ASSUME NEW j \in Jobs, NEW s \in JobStates, NEW r \in Results, s.stop = FALSE,
              s.outcome = "cancelled" => job[j].outcome = "cancelled" \/ StopRequested(j),
              job' \in {[job EXCEPT ![j] = [s EXCEPT !.result = r]],
                        Broadcast([job EXCEPT ![j] = [s EXCEPT !.result = r]])}
       PROVE  All
  <2> DEFINE jobs == [job EXCEPT ![j] = [s EXCEPT !.result = r]]
  <2>1. [s EXCEPT !.result = r] \in JobStates /\ [s EXCEPT !.result = r].stop = FALSE
        /\ [s EXCEPT !.result = r].outcome = s.outcome
    BY <1>19 DEF JobStates
  <2>2. /\ jobs \in [Jobs -> JobStates]
        /\ jobs[j].stop = FALSE /\ jobs[j].outcome = s.outcome
        /\ \A k \in Jobs \ {j} : jobs[k] = job[k]
    BY <1>0, <2>1
  <2> HIDE DEF jobs
  <2>3. job' \in {jobs, Broadcast(jobs)}
    BY <1>19 DEF jobs
  <2>4. \A k \in Jobs :
           /\ jobs[k].stop => job[k].stop
           /\ jobs[k].outcome = "cancelled" => job[k].outcome = "cancelled" \/ StopRequested(k)
    BY <1>19, <2>2
  <2> QED
    BY <1>5, <2>2, <2>3, <2>4
<1>20. ASSUME NEW j \in Jobs, Succeeded(j) \/ Failed(j) PROVE All
  <2>1. PICK r \in {"ok", "error"}, stored \in {"ok", "error", job[j].result} :
           job' = Broadcast([job EXCEPT ![j] = [Ended(j, r) EXCEPT !.result = stored]])
    BY <1>20 DEF Succeeded, Failed, UnmarkBusy
  <2>s. stored \in Results
    BY <1>0 DEF Results, JobStates
  <2>2. r \in Results /\ r # "cancelled"
    BY DEF Results
  <2>3. Ended(j, r) \in JobStates /\ Ended(j, r).stop = FALSE /\ Ended(j, r).outcome = r
    BY <2>2, EndedState
  <2> QED
    BY <1>19, <2>s, <2>1, <2>2, <2>3
<1>21. ASSUME NEW j \in Jobs, ConnectionLost(j) PROVE All
  <2>1. PICK r \in {job[j].result, "error"},
             s \in IF job[j].new THEN {Ended(j, "error")} ELSE CallRef(j) :
                 RemoveInfo(job[j].conn, [job EXCEPT ![j] = [s EXCEPT !.result = r]])
    BY <1>21 DEF ConnectionLost
  <2>2. s \in JobStates /\ s.stop = FALSE /\ s.outcome \in {job[j].outcome, "error"}
    <3>1. CASE s = Ended(j, "error")
      BY <3>1, EndedState DEF Results
    <3>2. CASE s \in CallRef(j)
      BY <3>2, CallRefState
    <3> QED
      BY <3>1, <3>2
  <2>3. r \in Results
    BY <1>0 DEF Results, JobStates
  <2> QED
    BY <1>19, <2>1, <2>2, <2>3 DEF RemoveInfo
<1>22. ASSUME NEW j \in Jobs, Interrupted(j) PROVE All
  <2>1. /\ "cancelled" \in Results /\ Ended(j, "cancelled") \in JobStates
        /\ Ended(j, "cancelled").stop = FALSE
    BY EndedState DEF Results
  <2> QED
    BY <1>19, <1>22, <2>1 DEF Interrupted, RemoveInfo
<1>23. ASSUME NEW j \in Jobs, NEW c \in Conns, FindVictim(j, c) PROVE All
  BY <1>0, <1>23 DEF FindVictim, Justified, JobStates
<1>24. ASSUME NEW j \in Jobs, CloseVictim(j) PROVE All
  <2> DEFINE jobs == [job EXCEPT ![j].victim = None]
  <2>1. /\ jobs \in [Jobs -> JobStates]
        /\ \A k \in Jobs : jobs[k].stop = job[k].stop /\ jobs[k].outcome = job[k].outcome
    BY <1>0 DEF JobStates
  <2>2. job' \in {jobs, Broadcast(jobs)}
    BY <1>24 DEF CloseVictim, RemoveInfo
  <2> HIDE DEF jobs
  <2> QED
    BY <1>5, <2>1, <2>2
<1>25. ASSUME NEW j \in Jobs, Cancel(j) PROVE All
  BY <1>0, <1>5, <1>25 DEF Cancel
<1>26. ASSUME DisconnectBegin PROVE All
  <2> DEFINE jobs == [j \in Jobs |->
                         IF job[j].pc \in Pending \/ (At(j, "run") /\ j \in job_queue)
                         THEN [job[j] EXCEPT !.stop = TRUE] ELSE job[j]]
  <2>1. /\ jobs \in [Jobs -> JobStates]
        /\ \A k \in Jobs : jobs[k].outcome = job[k].outcome
    BY <1>0 DEF JobStates
  <2>2. job' = Broadcast(jobs) /\ disconnect' # "idle"
    BY <1>26 DEF DisconnectBegin
  <2> HIDE DEF jobs
  <2> QED
    BY <1>5, <2>1, <2>2
<1>27. ASSUME DisconnectEnd \/ UNCHANGED vars PROVE All
  BY <1>27 DEF DisconnectEnd, vars, Justified
<1> HIDE DEF All
<1>28. All
  BY <1>6, <1>7, <1>8, <1>9, <1>10, <1>12, <1>13, <1>14, <1>15, <1>16, <1>17, <1>18, <1>20,
     <1>21, <1>22, <1>23, <1>24, <1>25, <1>26, <1>27 DEF Next, QueueStep, RefStep, RunStep
<1>29. cancelled \subseteq cancelled' /\ (Disconnected => Disconnected')
  <2>1. CASE UNCHANGED discVars /\ cancelled \subseteq cancelled'
    BY <2>1 DEF discVars, Disconnected
  <2>2. CASE DisconnectBegin \/ DisconnectEnd
    BY <2>2 DEF DisconnectBegin, DisconnectEnd, Disconnected, TypeOK
  <2> QED
    BY <2>1, <2>2
       DEF Next, QueueStep, RefStep, RunStep, vars, ScanQueue, NotStarted, WaitedFor, EndJob, Connect,
           RefConnection, StartConnecting, Connected, ConnectFailed, ConnectRefused,
           LimitConnections, WaitForConnection, Succeeded, Failed, ConnectionLost, Interrupted,
           FindVictim, CloseVictim, Cancel
<1> QED
  BY <1>28, <1>29, CancelChange DEF All

\* A job which waits for the result of another never ends as cancelled because that
\* other job has been cancelled.
THEOREM CancelCorrect == Spec => []CancelNotInherited
<1>1. Init => CancelInv
  BY DEF Init, CancelInv, CancelNotInherited
<1>2. CancelInv => CancelNotInherited
  BY DEF CancelInv
<1> QED
  BY <1>1, <1>2, CancelInductive, TypeInvariant, PTL DEF Spec

-----------------------------------------------------------------------------
(* ---- nobody waits in a circle ---- *)

\* Where the thread of a queued job is: it looks for a connection, runs or ends, and
\* waits for no other job.
Live == Pending \cup {"run", "ending"}

\* The write lock is with the thread which connects; a queued job is live, and one
\* which is waited for is queued, or its camel_imapx_job_done() has been called.
WaitInv ==
    /\ \A j \in Jobs : writer = j <=> job[j].pc = "connecting"
    /\ \A j \in job_queue : job[j].pc \in Live
    /\ \A j \in Jobs : job[j].pc = "waiting" => job[j].other \in job_queue \cup is_done

\* The job k can become s: it begins to wait for no job and a live one stays live.
GoesOn(k, s) ==
    /\ job[k].pc \in Live => s.pc \in Live
    /\ s.pc = "waiting" => job[k].pc = "waiting" /\ s.other = job[k].other

\* The threads a broadcast wakes are live.
LEMMA BroadcastLive ==
    ASSUME NEW jobs \in [Jobs -> JobStates], NEW k \in Jobs
    PROVE  /\ Broadcast(jobs)[k].pc \in IF jobs[k].pc = "condwait" THEN {"ref"} ELSE {jobs[k].pc}
           /\ Broadcast(jobs)[k].other = jobs[k].other
<1>1. Broadcast(jobs)[k] =
         IF jobs[k].pc = "condwait" THEN [jobs[k] EXCEPT !.pc = "ref"] ELSE jobs[k]
  BY DEF Broadcast
<1> QED
  BY <1>1 DEF JobStates, Pending

\* Steps after which all jobs go on, and the lock is with the one which connects.
LEMMA WaitChange ==
    ASSUME TypeOK, WaitInv, UNCHANGED queueVars,
           NEW jobs \in [Jobs -> JobStates], job' \in {jobs, Broadcast(jobs)},
           \A k \in Jobs : GoesOn(k, jobs[k]),
           \A k \in Jobs : writer' = k <=> jobs[k].pc = "connecting"
    PROVE  WaitInv'
<1>1. \A k \in Jobs : /\ job'[k].pc \in Live <=> jobs[k].pc \in Live
                      /\ job'[k].pc = "waiting" <=> jobs[k].pc = "waiting"
                      /\ job'[k].pc = "connecting" <=> jobs[k].pc = "connecting"
                      /\ job'[k].other = jobs[k].other
  BY BroadcastLive DEF Live, Pending
<1>2. job_queue \subseteq Jobs
  BY DEF TypeOK
<1> QED
  BY <1>1, <1>2 DEF WaitInv, GoesOn, queueVars

\* A job which looks for a connection is live, and does not connect yet.
LEMMA CallRefLive ==
    ASSUME TypeOK, NEW j \in Jobs, NEW s \in CallRef(j)
    PROVE  s \in JobStates /\ s.pc \in {"ref", "ending"}
<1>1. CASE s = [job[j] EXCEPT !.pc = "ref", !.conn = None, !.new = FALSE, !.stop = FALSE]
  BY <1>1 DEF TypeOK, JobStates, Pending
<1>2. CASE s = Ended(j, "error")
  BY <1>2, EndedState DEF Results
<1> QED
  BY <1>1, <1>2 DEF CallRef

\* Whoever is waited for is not waiting itself.
LEMMA WaitInductive == TypeOK /\ WaitInv /\ [Next]_vars => WaitInv'
<1> SUFFICES ASSUME TypeOK, WaitInv, [Next]_vars PROVE WaitInv'
  OBVIOUS
<1>0. job \in [Jobs -> JobStates] /\ writer \in Jobs \cup {None}
  BY DEF TypeOK
<1> USE JobsAssumption DEF At
<1>1. ASSUME NEW j \in Jobs, NEW s \in JobStates, GoesOn(j, s),
             job' \in {[job EXCEPT ![j] = s], Broadcast([job EXCEPT ![j] = s])},
             UNCHANGED queueVars, s.pc # "connecting",
             writer' = IF job[j].pc = "connecting" THEN None ELSE writer
      PROVE  WaitInv'
  <2> DEFINE jobs == [job EXCEPT ![j] = s]
  <2>1. jobs \in [Jobs -> JobStates] /\ jobs[j] = s /\ \A k \in Jobs \ {j} : jobs[k] = job[k]
    BY <1>0, <1>1
  <2>2. job' \in {jobs, Broadcast(jobs)}
    BY <1>1
  <2> HIDE DEF jobs
  <2>3. \A k \in Jobs : GoesOn(k, jobs[k])
    BY <1>1, <2>1 DEF GoesOn
  <2>4. \A k \in Jobs : writer' = k <=> jobs[k].pc = "connecting"
    BY <1>1, <2>1 DEF WaitInv
  <2> QED
    BY <1>1, <2>1, <2>2, <2>3, <2>4, WaitChange
<1>2. ASSUME NEW j \in Jobs, ScanQueue(j) PROVE WaitInv'
  <2>1. /\ job[j].pc \in {"scan", "start"} /\ UNCHANGED <<writer, is_done>>
        /\ job_queue \subseteq Jobs
    BY <1>2 DEF ScanQueue, connVars, TypeOK
  <2>2. ASSUME NEW s \in CallRef(j), job' = [job EXCEPT ![j] = s], job_queue' = job_queue \cup {j}
        PROVE  WaitInv'
    <3>1. s.pc \in {"ref", "ending"}
      BY CallRefLive
    <3> QED
      BY <1>0, <2>1, <2>2, <3>1 DEF WaitInv, Live, Pending
  <2>3. ASSUME NEW q \in job_queue, job' = [job EXCEPT ![j].pc = "waiting", ![j].other = q],
               UNCHANGED job_queue
        PROVE  WaitInv'
    <3>1. job'[j].pc = "waiting" /\ job'[j].other = q /\ \A k \in Jobs \ {j} : job'[k] = job[k]
      BY <1>0, <2>3 DEF JobStates
    <3>2. j \notin job_queue
      BY <2>1 DEF WaitInv, Live, Pending
    <3>3. \A k \in Jobs : writer' = k <=> job'[k].pc = "connecting"
      BY <2>1, <3>1 DEF WaitInv
    <3>4. \A k \in job_queue' : job'[k].pc \in Live
      BY <2>1, <2>3, <3>1, <3>2 DEF WaitInv
    <3>5. \A k \in Jobs : job'[k].pc = "waiting" => job'[k].other \in job_queue' \cup is_done'
      <4>1. job_queue' = job_queue /\ is_done' = is_done /\ q \in job_queue
        BY <2>1, <2>3
      <4>2. \A k \in Jobs : job[k].pc = "waiting" => job[k].other \in job_queue \cup is_done
        BY DEF WaitInv
      <4> QED
        BY <3>1, <4>1, <4>2
    <3> QED
      BY <3>3, <3>4, <3>5 DEF WaitInv
  <2> QED
    BY <1>2, <2>2, <2>3 DEF ScanQueue
<1>3. ASSUME NEW j \in Jobs, EndJob(j) PROVE WaitInv'
  <2>1. /\ job'[j].pc = "end" /\ \A k \in Jobs \ {j} : job'[k] = job[k]
        /\ job[j].pc = "ending"
    BY <1>0, <1>3 DEF EndJob, JobStates
  <2>2. /\ job_queue' = job_queue \ {j} /\ is_done' = is_done \cup {j} /\ UNCHANGED writer
        /\ job_queue \subseteq Jobs
    BY <1>3 DEF EndJob, connVars, TypeOK
  <2> QED
    BY <2>1, <2>2 DEF WaitInv
<1>4. ASSUME NEW j \in Jobs, NotStarted(j) \/ WaitedFor(j) PROVE WaitInv'
  <2>1. /\ job[j].pc \in {"start", "waiting"} /\ UNCHANGED <<writer, queueVars>>
    BY <1>4 DEF NotStarted, WaitedFor, connVars
  <2>2. job' = [job EXCEPT ![j] = job'[j]] /\ job'[j].pc \in {"end", "scan"}
    <3>1. CASE NotStarted(j)
      BY <1>0, <3>1 DEF NotStarted, JobStates
    <3>2. CASE WaitedFor(j)
      BY <1>0, <3>2 DEF WaitedFor, JobStates
    <3> QED
      BY <1>4, <3>1, <3>2
  <2>3. /\ \A k \in Jobs \ {j} : job'[k] = job[k]
        /\ job_queue \subseteq Jobs /\ j \notin job_queue
    BY <1>0, <2>1, <2>2 DEF TypeOK, WaitInv, Live, Pending
  <2> QED
    BY <2>1, <2>2, <2>3 DEF WaitInv, queueVars
<1>5. ASSUME NEW j \in Jobs, NEW s \in CallRef(j), job' = [job EXCEPT ![j] = s],
             UNCHANGED <<writer, queueVars>>, job[j].pc # "connecting"
      PROVE  WaitInv'
  <2>1. s \in JobStates /\ s.pc \in {"ref", "ending"}
    BY CallRefLive
  <2> QED
    BY <1>1, <1>5, <2>1 DEF GoesOn, Live, Pending
<1>6. ASSUME NEW j \in Jobs, Connect(j) PROVE WaitInv'
  <2>1. job[j].pc = "start" /\ UNCHANGED <<writer, queueVars>>
    BY <1>6 DEF Connect, connVars
  <2>2. ASSUME job' = [job EXCEPT ![j].pc = "end", ![j].outcome = "ok"] PROVE WaitInv'
    <3> DEFINE s == [job[j] EXCEPT !.pc = "end", !.outcome = "ok"]
    <3>1. s \in JobStates /\ s.pc = "end" /\ job' = [job EXCEPT ![j] = s]
      BY <1>0, <2>2 DEF JobStates, Results
    <3> HIDE DEF s
    <3> QED
      BY <1>1, <2>1, <3>1 DEF GoesOn, Live, Pending
  <2> QED
    BY <1>5, <1>6, <2>1, <2>2 DEF Connect
<1>7. ASSUME NEW j \in Jobs, NEW pc \in Pending \ {"connecting"}, job' = [job EXCEPT ![j].pc = pc],
             UNCHANGED queueVars, writer' = IF job[j].pc = "connecting" THEN None ELSE writer
      PROVE  WaitInv'
  <2> DEFINE s == [job[j] EXCEPT !.pc = pc]
  <2>1. s \in JobStates /\ s.pc = pc /\ job' = [job EXCEPT ![j] = s]
    BY <1>0, <1>7 DEF JobStates
  <2> HIDE DEF s
  <2> QED
    BY <1>1, <1>7, <2>1 DEF GoesOn, Live, Pending
<1>8. ASSUME NEW j \in Jobs, NEW o \in Results, job' = [job EXCEPT ![j] = Ended(j, o)],
             UNCHANGED queueVars, writer' = IF job[j].pc = "connecting" THEN None ELSE writer
      PROVE  WaitInv'
  <2>1. Ended(j, o) \in JobStates /\ Ended(j, o).pc = "ending"
    BY EndedState
  <2> QED
    BY <1>1, <1>8, <2>1 DEF GoesOn, Live
<1>9. ASSUME NEW j \in Jobs, NEW c \in Conns, NEW new \in BOOLEAN,
             job' = [job EXCEPT ![j] = Got(j, c, new)],
             UNCHANGED queueVars, writer' = IF job[j].pc = "connecting" THEN None ELSE writer
      PROVE  WaitInv'
  <2>1. Got(j, c, new) \in JobStates /\ Got(j, c, new).pc = "run"
    BY GotState
  <2> QED
    BY <1>1, <1>9, <2>1 DEF GoesOn, Live
<1>10. ASSUME NEW j \in Jobs, RefConnection(j) PROVE WaitInv'
  <2>0. job[j].pc = "ref" /\ UNCHANGED <<queueVars, writer>>
    BY <1>10 DEF RefConnection
  <2>1. CASE StopRequested(j)
    BY <1>8, <1>10, <2>0, <2>1 DEF RefConnection, Results
  <2>2. CASE ~ StopRequested(j) /\ Idle # {}
    <3>1. PICK c \in Idle : job' = [job EXCEPT ![j] = Got(j, c, FALSE)]
      BY <1>10, <2>2 DEF RefConnection
    <3>2. c \in Conns
      BY DEF Idle, TypeOK
    <3> QED
      BY <1>9, <2>0, <3>1, <3>2
  <2>3. CASE ~ StopRequested(j) /\ Idle = {}
    BY <1>7, <1>10, <2>0, <2>3 DEF RefConnection, Pending
  <2> QED
    BY <2>1, <2>2, <2>3
<1>11. ASSUME NEW j \in Jobs, StartConnecting(j) PROVE WaitInv'
  <2>0. job[j].pc = "create" /\ UNCHANGED queueVars /\ writer = None
    BY <1>11 DEF StartConnecting
  <2>1. CASE StopRequested(j)
    BY <1>8, <1>11, <2>0, <2>1 DEF StartConnecting, Results
  <2>2. CASE ~ StopRequested(j)
    <3>1. /\ writer' = j /\ job'[j].pc = "connecting" /\ job'[j].other = job[j].other
          /\ \A k \in Jobs \ {j} : job'[k] = job[k]
      BY <1>0, <1>11, <2>2 DEF StartConnecting, JobStates
    <3> QED
      BY <2>0, <3>1 DEF WaitInv, queueVars, TypeOK, Live, Pending
  <2> QED
    BY <2>1, <2>2
<1>12. ASSUME NEW j \in Jobs, Connected(j) PROVE WaitInv'
  BY <1>9, <1>12, NewConnectionUnused DEF Connected
<1>13. ASSUME NEW j \in Jobs, ConnectFailed(j) PROVE WaitInv'
  BY <1>8, <1>13 DEF ConnectFailed, Results
<1>14. ASSUME NEW j \in Jobs, ConnectRefused(j) PROVE WaitInv'
  BY <1>7, <1>14 DEF ConnectRefused, Pending
<1>15. ASSUME NEW j \in Jobs, LimitConnections(j) PROVE WaitInv'
  BY <1>7, <1>8, <1>15 DEF LimitConnections, Results, Pending
<1>16. ASSUME NEW j \in Jobs, WaitForConnection(j) PROVE WaitInv'
  <2>1. ASSUME NEW jobs \in [Jobs -> JobStates], job' = [jobs EXCEPT ![j].pc = "condwait"],
               \A k \in Jobs : /\ jobs[k].pc \in IF job[k].pc = "condwait" THEN {"ref", "condwait"}
                                                 ELSE {job[k].pc}
                               /\ jobs[k].other = job[k].other
        PROVE  WaitInv'
    <3>1. /\ job'[j].pc = "condwait" /\ job' \in [Jobs -> JobStates]
          /\ \A k \in Jobs \ {j} : job'[k] = jobs[k]
      BY <2>1 DEF JobStates, Pending
    <3>2. job[j].pc = "towait" /\ UNCHANGED <<writer, queueVars>>
      BY <1>16 DEF WaitForConnection, connVars
    <3>3. \A k \in Jobs : GoesOn(k, job'[k])
      BY <2>1, <3>1, <3>2 DEF GoesOn, Live, Pending
    <3>4. \A k \in Jobs : writer' = k <=> job'[k].pc = "connecting"
      BY <2>1, <3>1, <3>2 DEF WaitInv
    <3> QED
      BY <3>1, <3>2, <3>3, <3>4, WaitChange
  <2>2. CASE StopRequested(j)
    <3>1. Broadcast(job) \in [Jobs -> JobStates]
      BY <1>0, BroadcastJobs
    <3>2. job' = [Broadcast(job) EXCEPT ![j].pc = "condwait"]
      BY <1>16, <2>2 DEF WaitForConnection
    <3> QED
      BY <1>0, <2>1, <3>1, <3>2, BroadcastLive
  <2>3. CASE ~ StopRequested(j)
    <3>1. job' = [job EXCEPT ![j].pc = "condwait"]
      BY <1>16, <2>3 DEF WaitForConnection
    <3> QED
      BY <1>0, <2>1, <3>1
  <2> QED
    BY <2>2, <2>3
<1>17. ASSUME NEW j \in Jobs, NEW s \in JobStates, NEW r \in Results, s.pc \in {"ref", "ending"},
              job' \in {[job EXCEPT ![j] = [s EXCEPT !.result = r]],
                        Broadcast([job EXCEPT ![j] = [s EXCEPT !.result = r]])},
              job[j].pc = "run", UNCHANGED <<writer, queueVars>>
       PROVE  WaitInv'
  <2> DEFINE z == [s EXCEPT !.result = r]
  <2>1. z \in JobStates /\ z.pc \in {"ref", "ending"}
    BY <1>17 DEF JobStates
  <2> HIDE DEF z
  <2>2. job' \in {[job EXCEPT ![j] = z], Broadcast([job EXCEPT ![j] = z])}
    BY <1>17 DEF z
  <2>3. GoesOn(j, z)
    BY <2>1 DEF GoesOn, Live, Pending
  <2> QED
    BY <1>1, <1>17, <2>1, <2>2, <2>3
<1>18. ASSUME NEW j \in Jobs, Succeeded(j) \/ Failed(j) PROVE WaitInv'
  <2>1. PICK r \in {"ok", "error"}, stored \in {"ok", "error", job[j].result} :
           job' = Broadcast([job EXCEPT ![j] = [Ended(j, r) EXCEPT !.result = stored]])
    BY <1>18 DEF Succeeded, Failed, UnmarkBusy
  <2>s. stored \in Results
    BY <1>0 DEF Results, JobStates
  <2>2. r \in Results
    BY DEF Results
  <2>3. Ended(j, r) \in JobStates /\ Ended(j, r).pc = "ending"
    BY <2>2, EndedState
  <2>4. job[j].pc = "run" /\ UNCHANGED <<writer, queueVars>>
    BY <1>18 DEF Succeeded, Failed, Running, UnmarkBusy
  <2> QED
    BY <1>17, <2>s, <2>1, <2>2, <2>3, <2>4
<1>19. ASSUME NEW j \in Jobs, ConnectionLost(j) PROVE WaitInv'
  <2>1. PICK r \in {job[j].result, "error"},
             s \in IF job[j].new THEN {Ended(j, "error")} ELSE CallRef(j) :
                 RemoveInfo(job[j].conn, [job EXCEPT ![j] = [s EXCEPT !.result = r]])
    BY <1>19 DEF ConnectionLost
  <2>2. s \in JobStates /\ s.pc \in {"ref", "ending"}
    <3>1. CASE s = Ended(j, "error")
      BY <3>1, EndedState DEF Results
    <3>2. CASE s \in CallRef(j)
      BY <3>2, CallRefLive
    <3> QED
      BY <3>1, <3>2
  <2>3. r \in Results
    BY <1>0 DEF Results, JobStates
  <2>4. job[j].pc = "run" /\ UNCHANGED <<writer, queueVars>>
    BY <1>19, <2>1 DEF ConnectionLost, Running, RemoveInfo
  <2> QED
    BY <1>17, <2>1, <2>2, <2>3, <2>4 DEF RemoveInfo
<1>20. ASSUME NEW j \in Jobs, Interrupted(j) PROVE WaitInv'
  <2>1. /\ "cancelled" \in Results /\ Ended(j, "cancelled") \in JobStates
        /\ Ended(j, "cancelled").pc = "ending"
    BY EndedState DEF Results
  <2>2. job[j].pc = "run" /\ UNCHANGED <<writer, queueVars>>
    BY <1>20 DEF Interrupted, Running, RemoveInfo
  <2> QED
    BY <1>17, <1>20, <2>1, <2>2 DEF Interrupted, RemoveInfo
<1>21. ASSUME NEW j \in Jobs, NEW v \in Conns \cup {None}, job[j].pc = "run",
              job' \in {[job EXCEPT ![j].victim = v], Broadcast([job EXCEPT ![j].victim = v])},
              UNCHANGED <<writer, queueVars>>
       PROVE  WaitInv'
  <2> DEFINE s == [job[j] EXCEPT !.victim = v]
  <2>1. s \in JobStates /\ s.pc = "run"
    BY <1>0, <1>21 DEF JobStates
  <2>2. job' \in {[job EXCEPT ![j] = s], Broadcast([job EXCEPT ![j] = s])}
    BY <1>21
  <2> HIDE DEF s
  <2>3. GoesOn(j, s)
    BY <2>1 DEF GoesOn, Live
  <2> QED
    BY <1>1, <1>21, <2>1, <2>2, <2>3
<1>22. ASSUME NEW j \in Jobs, NEW c \in Conns, FindVictim(j, c) PROVE WaitInv'
  BY <1>21, <1>22 DEF FindVictim, Running, connVars
<1>23. ASSUME NEW j \in Jobs, CloseVictim(j) PROVE WaitInv'
  BY <1>21, <1>23 DEF CloseVictim, RemoveInfo
<1>24. ASSUME NEW jobs \in [Jobs -> JobStates], job' \in {jobs, Broadcast(jobs)},
              \A k \in Jobs : jobs[k].pc = job[k].pc /\ jobs[k].other = job[k].other,
              UNCHANGED <<writer, queueVars>>
       PROVE  WaitInv'
  <2>1. \A k \in Jobs : GoesOn(k, jobs[k]) /\ (writer' = k <=> jobs[k].pc = "connecting")
    BY <1>24 DEF GoesOn, WaitInv
  <2> QED
    BY <1>24, <2>1, WaitChange
<1>25. ASSUME NEW j \in Jobs, Cancel(j) PROVE WaitInv'
  BY <1>0, <1>24, <1>25 DEF Cancel, connVars
<1>26. ASSUME DisconnectBegin PROVE WaitInv'
  <2> DEFINE jobs == [j \in Jobs |->
                         IF job[j].pc \in Pending \/ (At(j, "run") /\ j \in job_queue)
                         THEN [job[j] EXCEPT !.stop = TRUE] ELSE job[j]]
  <2>1. /\ jobs \in [Jobs -> JobStates]
        /\ \A k \in Jobs : jobs[k].pc = job[k].pc /\ jobs[k].other = job[k].other
    <3> SUFFICES ASSUME NEW k \in Jobs
                 PROVE  /\ jobs[k] \in JobStates
                        /\ jobs[k].pc = job[k].pc /\ jobs[k].other = job[k].other
      OBVIOUS
    <3>1. jobs[k] \in {job[k], [job[k] EXCEPT !.stop = TRUE]}
      OBVIOUS
    <3> QED
      BY <1>0, <3>1 DEF JobStates
  <2>2. job' = Broadcast(jobs) /\ UNCHANGED <<writer, queueVars>>
    BY <1>26 DEF DisconnectBegin, connVars
  <2> HIDE DEF jobs
  <2> QED
    BY <1>24, <2>1, <2>2
<1>27. ASSUME DisconnectEnd \/ UNCHANGED vars PROVE WaitInv'
  BY <1>27 DEF DisconnectEnd, vars, connVars, queueVars, WaitInv
<1> QED
  BY <1>2, <1>3, <1>4, <1>6, <1>10, <1>11, <1>12, <1>13, <1>14, <1>15, <1>16, <1>18, <1>19, <1>20,
     <1>22, <1>23, <1>25, <1>26, <1>27 DEF Next, QueueStep, RefStep, RunStep

\* The job another one waits for is done, or its thread is on its way and waits for
\* no job; the write lock is held only by a thread which is connecting.
WaitsForLive ==
    /\ \A j \in Jobs : At(j, "waiting") =>
          job[j].other \in is_done \/ job[job[j].other].pc \in Pending \cup {"run", "ending"}
    /\ writer # None => At(writer, "connecting")

\* Jobs which let others finish first, and then look at the queue again, never wait in
\* a circle, nor for a lock nobody is going to release: the safety half of
\* JobsEndUnlessOneWaits, for any number of jobs.
THEOREM NoWaitCircle == Spec => []WaitsForLive
<1>1. Init => WaitInv
  BY JobsAssumption DEF Init, WaitInv
<1>2. TypeOK /\ WaitInv => WaitsForLive
  BY DEF TypeOK, WaitInv, WaitsForLive, Live, At
<1> QED
  BY <1>1, <1>2, WaitInductive, TypeCorrect, PTL DEF Spec
=============================================================================
