----------------------- MODULE SubprocessFactoryProofs -----------------------
(***************************************************************************)
(* Proofs about SubprocessFactory for any calls, clients and sources, and  *)
(* any number of crashes.                                                  *)
(***************************************************************************)
EXTENDS SubprocessFactory, FiniteSetTheorems, TLAPS

(* ---- the invariants ---- *)

\* The calls which have spawned nothing yet.
Early == {"new", "gate", "condwait", "spawn", "start"}

\* What a call has at each of its states: a subprocess from "spawned" on, its own
\* one while the callback of the appearing name serves it.
CallInv ==
    /\ \A o \in Opens : open[o] \in {"spawned", "create", "add", "insert", "insert_failed", "opened"} =>
          backend[o] \in Opens
    /\ \A o \in Opens : open[o] \in {"spawned", "insert", "insert_failed"} => backend[o] = o
    /\ \A o \in Opens : open[o] \in Early => proc[o] = "none" /\ watch[o] = "none"

\* A name which has not appeared is waited for by the call which spawned the
\* subprocess, and nobody else knows a subprocess before it is up.
ProcInv ==
    /\ \A p \in Opens : proc[p] \in {"starting", "up"} /\ watch[p] \in {"new", "absent"} => open[p] = "spawned"
    /\ \A p \in Opens : watch[p] = "present" => proc[p] \notin {"none", "starting"}
    /\ \A p \in Opens : proc[p] \in {"none", "starting"} =>
          /\ \A s \in Sources : subprocess_helpers[s] # p
          /\ \A o \in Opens : backend[o] = p => o = p /\ open[o] = "spawned"

\* A connection comes from a call.
ConnectionInv == \A c \in Clients : Connected(c) => \E o \in Opens : open[o] # "new"

\* The calls of the client c which have the subprocess p.
UsedCalls(c, p) ==
    {o \in Opens : backend[o] = p /\ ClientOf[o] = c /\ open[o] \in {"insert", "opened"} /\ o \notin closed}

\* While a subprocess is up, each client on the bus has a connection for each of
\* its calls, and a closed one is not in use nor about to be, unless it is noted.
UseOK(p) ==
    /\ proc[p] = "up" => \A c \in alive : Cardinality(UsedCalls(c, p)) <= connections[c][p]
    /\ proc[p] = "closed" => \A o \in Opens : backend[o] = p => open[o] # "add" /\ ~InUse(o)

UseInv == \A p \in Opens \ disturbed : UseOK(p)

\* The holds of the process.
Held == {o \in Opens : open[o] \in {"gate", "condwait", "spawn", "start", "spawned", "create", "add"}}
ConnectedClients == {c \in Clients : Connected(c)}

-----------------------------------------------------------------------------
(* ---- the helpers ---- *)

\* One waiting thread goes back to the gate, at most.
LEMMA SignalMoves ==
    ASSUME TypeOK, NEW o \in Opens, NEW pc \in OpenStates, NEW state,
           open[o] # "condwait", MoveAndSignal(o, pc, state)
    PROVE  /\ open' \in [Opens -> OpenStates]
           /\ open'[o] = pc
           /\ \A p \in Opens \ {o} : \/ open'[p] = open[p]
                                     \/ open[p] = "condwait" /\ open'[p] = "gate"
           /\ spawn_subprocess_state' = state
BY DEF MoveAndSignal, TypeOK, ServerTypeOK, OpenStates

\* A hold and a release count.
LEMMA HoldTypes ==
    ASSUME TypeOK, e_dbus_server_hold \/ e_dbus_server_release
    PROVE  use_count' \in Nat /\ inactivity_timeout' \in BOOLEAN
<1>1. use_count' \in Nat
  BY DEF TypeOK, ServerTypeOK, e_dbus_server_hold, e_dbus_server_release
<1>2. inactivity_timeout' \in BOOLEAN
  BY Zenon DEF e_dbus_server_hold, e_dbus_server_release
<1> QED
  BY <1>1, <1>2

\* What becomes of the array of client c, in the terms of the invariants: entries
\* go, subprocesses which were up are closed, and the hold goes with the last entry.
Shrinks(c) ==
    /\ \E left \in [Opens -> Nat] :
          /\ \A p \in Opens : left[p] <= connections[c][p]
          /\ connections' = [connections EXCEPT ![c] = left]
          /\ IF Connected(c) /\ \A p \in Opens : left[p] = 0
             THEN e_dbus_server_release
             ELSE UNCHANGED <<use_count, inactivity_timeout>>
    /\ proc' \in [Opens -> {"none", "starting", "up", "closed", "crashed"}]
    /\ \A p \in Opens : proc'[p] = proc[p] \/ (proc[p] = "up" /\ proc'[p] = "closed")
    /\ disturbed' \in SUBSET Opens /\ disturbed \subseteq disturbed'

\* One entry, or all of them, or none: the array only shrinks.
LEMMA RemoveShrinks ==
    ASSUME TypeOK, NEW c \in Clients, NEW p, NEW mistaken \in SUBSET Opens,
           \/ p \in Opens /\ ConnectionsRemove(c, p, mistaken)
           \/ ConnectionsRemoveAll(c)
           \/ UNCHANGED <<proc, connections, use_count, inactivity_timeout, disturbed>>
    PROVE  Shrinks(c)
<1>0. /\ connections \in [Clients -> [Opens -> Nat]] /\ disturbed \subseteq Opens
      /\ proc \in [Opens -> {"none", "starting", "up", "closed", "crashed"}]
  BY DEF TypeOK
<1>1. ASSUME NEW left \in [Opens -> Nat], \A q \in Opens : left[q] <= connections[c][q],
             NEW unused \in SUBSET Opens, NEW wrong \in SUBSET Opens,
             CloseUnused(unused, wrong), SetConnections(c, left)
      PROVE  Shrinks(c)
  <2>1. /\ proc' \in [Opens -> {"none", "starting", "up", "closed", "crashed"}]
        /\ \A q \in Opens : proc'[q] = proc[q] \/ (proc[q] = "up" /\ proc'[q] = "closed")
    BY <1>0, <1>1 DEF CloseUnused
  <2>2. disturbed' \in SUBSET Opens /\ disturbed \subseteq disturbed'
    BY <1>0, <1>1 DEF CloseUnused
  <2> QED
    BY <1>1, <2>1, <2>2 DEF Shrinks, SetConnections
<1>2. CASE UNCHANGED <<proc, connections, use_count, inactivity_timeout, disturbed>>
  <2> DEFINE left == connections[c]
  <2>1. left \in [Opens -> Nat] /\ connections' = [connections EXCEPT ![c] = left]
    BY <1>0, <1>2
  <2>2. \A q \in Opens : left[q] <= connections[c][q]
    BY <1>0
  <2>3. ~(Connected(c) /\ \A q \in Opens : left[q] = 0)
    BY <1>0 DEF Connected
  <2> HIDE DEF left
  <2> QED
    BY <1>0, <1>2, <2>1, <2>2, <2>3 DEF Shrinks
<1>3. CASE p \in Opens /\ ConnectionsRemove(c, p, mistaken) /\ Connected(c)
  <2> DEFINE left == [connections[c] EXCEPT ![p] = IF @ > 0 THEN @ - 1 ELSE 0]
             unused == IF IsUsed(p, c, 1) THEN {} ELSE {p}
  <2>1. left \in [Opens -> Nat] /\ \A q \in Opens : left[q] <= connections[c][q]
    BY <1>0, <1>3
  <2>2. CloseUnused(unused, mistaken) /\ SetConnections(c, left) /\ unused \in SUBSET Opens
    BY <1>3 DEF ConnectionsRemove
  <2> HIDE DEF left, unused
  <2> QED
    BY <1>1, <2>1, <2>2
<1>4. CASE ConnectionsRemoveAll(c)
  <2> DEFINE left == [q \in Opens |-> 0]
             unused == {q \in Opens : connections[c][q] > 0 /\ ~IsUsed(q, c, connections[c][q])}
  <2>1. left \in [Opens -> Nat] /\ \A q \in Opens : left[q] <= connections[c][q]
    BY <1>0
  <2>2. CloseUnused(unused, {}) /\ SetConnections(c, left) /\ unused \in SUBSET Opens
    BY <1>4 DEF ConnectionsRemoveAll
  <2> HIDE DEF left, unused
  <2> QED
    BY <1>1, <2>1, <2>2
<1> QED
  BY <1>2, <1>3, <1>4 DEF ConnectionsRemove

\* The steps which remove connections, as the invariants see them.
LEMMA RemovingSteps ==
    ASSUME TypeOK, CallInv,
           \/ \E o \in Opens : Close(o)
           \/ \E p \in Opens : SubprocessVanished(p)
           \/ \E c \in Clients : NameVanished(c)
    PROVE  /\ \E c \in Clients : Shrinks(c)
           /\ UNCHANGED <<running, open, spawn_subprocess_state, backend, alive>>
           /\ closed' \in SUBSET Opens /\ watched_names' \in SUBSET Clients
           /\ \/ UNCHANGED <<subprocess_helpers, watch>>
              \/ \E p \in Opens :
                    /\ proc[p] # "up" /\ watch[p] \in {"new", "present"} /\ proc' = proc
                    /\ subprocess_helpers' = subprocess_helpers
                    /\ watch' = [watch EXCEPT ![p] = "absent"]
              \/ \E p \in Opens :
                    /\ watch[p] \in {"new", "present"}
                    /\ subprocess_helpers' = [subprocess_helpers EXCEPT ![SourceOf[p]] = None]
                    /\ watch' = [watch EXCEPT ![p] = "off"]
<1> USE OpensAssumption DEF gateVars, clientVars
<1>0. closed \in SUBSET Opens /\ watched_names \in SUBSET Clients
      /\ subprocess_helpers \in [Sources -> Opens \cup {None}]
  BY DEF TypeOK, ServerTypeOK
<1>1. ASSUME NEW o \in Opens, Close(o)
      PROVE  /\ Shrinks(ClientOf[o]) /\ ClientOf[o] \in Clients
             /\ UNCHANGED <<running, open, spawn_subprocess_state, backend, alive>>
             /\ closed' \in SUBSET Opens /\ watched_names' \in SUBSET Clients
             /\ UNCHANGED <<subprocess_helpers, watch>>
  <2>1. backend[o] \in Opens /\ {} \in SUBSET Opens
    BY <1>1 DEF Close, InUse, CallInv
  <2>2. \/ ConnectionsRemove(ClientOf[o], backend[o], {})
        \/ UNCHANGED <<proc, connections, use_count, inactivity_timeout, disturbed>>
    BY <1>1 DEF Close
  <2>3. Shrinks(ClientOf[o]) /\ ClientOf[o] \in Clients
    BY <2>1, <2>2, RemoveShrinks
  <2> QED
    BY <1>0, <1>1, <2>3 DEF Close
<1>2. ASSUME NEW c \in Clients, NameVanished(c)
      PROVE  /\ \E x \in Clients : Shrinks(x)
             /\ UNCHANGED <<running, open, spawn_subprocess_state, backend, alive>>
             /\ closed' \in SUBSET Opens /\ watched_names' \in SUBSET Clients
             /\ UNCHANGED <<subprocess_helpers, watch>>
  <2>1. ConnectionsRemoveAll(c)
    BY <1>2 DEF NameVanished
  <2>2. Shrinks(c)
    BY <2>1, RemoveShrinks
  <2> QED
    BY <1>0, <1>2, <2>2 DEF NameVanished
<1>3. ASSUME NEW p \in Opens, SubprocessVanished(p)
      PROVE  /\ Shrinks(ClientOf[p]) /\ ClientOf[p] \in Clients
             /\ UNCHANGED <<running, open, spawn_subprocess_state, backend, alive>>
             /\ closed' \in SUBSET Opens /\ watched_names' \in SUBSET Clients
             /\ \/ /\ proc[p] # "up" /\ watch[p] \in {"new", "present"} /\ proc' = proc
                   /\ subprocess_helpers' = subprocess_helpers
                   /\ watch' = [watch EXCEPT ![p] = "absent"]
                \/ /\ watch[p] \in {"new", "present"}
                   /\ subprocess_helpers' = [subprocess_helpers EXCEPT ![SourceOf[p]] = None]
                   /\ watch' = [watch EXCEPT ![p] = "off"]
  <2> DEFINE q == subprocess_helpers[SourceOf[p]]
  <2>1. q = None => UNCHANGED <<proc, connections, use_count, inactivity_timeout, disturbed>>
    BY <1>3 DEF SubprocessVanished
  <2>2. q # None => q \in Opens /\ {q} \ {p} \in SUBSET Opens /\ ConnectionsRemove(ClientOf[p], q, {q} \ {p})
    BY <1>0, <1>3 DEF SubprocessVanished
  <2>3. Shrinks(ClientOf[p]) /\ ClientOf[p] \in Clients
    <3>1. CASE q = None
      BY <2>1, <3>1, RemoveShrinks
    <3>2. CASE q # None
      BY <2>2, <3>2, RemoveShrinks
    <3> QED
      BY <3>1, <3>2
  <2> QED
    BY <1>0, <1>3, <2>3 DEF SubprocessVanished
<1> QED
  BY <1>1, <1>2, <1>3

-----------------------------------------------------------------------------
(* ---- types, calls and subprocesses ---- *)

\* The steps of calls, subprocesses, clients and the main loop keep the types.
LEMMA TypeInductive == TypeOK /\ CallInv /\ [Next]_vars => TypeOK'
<1> SUFFICES ASSUME TypeOK, CallInv, [Next]_vars PROVE TypeOK'
  OBVIOUS
<1> USE OpensAssumption DEF subprocessVars, serverVars, gateVars, clientVars
<1>1. ASSUME NEW o \in Opens, Open(o) PROVE TypeOK'
  <2>1. use_count' \in Nat /\ inactivity_timeout' \in BOOLEAN
    BY <1>1, HoldTypes DEF Open, OpenAddressBook
  <2> QED
    BY <1>1, <2>1 DEF Open, OpenAddressBook, TypeOK, ServerTypeOK, OpenStates
<1>2. ASSUME NEW o \in Opens, Gate(o) PROVE TypeOK'
  BY <1>2 DEF Gate, PassGate, TypeOK, ServerTypeOK, OpenStates
<1>3. ASSUME NEW o \in Opens, LookupHelper(o) PROVE TypeOK'
  BY <1>3 DEF LookupHelper, TypeOK, ServerTypeOK, OpenStates
<1>4. ASSUME NEW o \in Opens, SpawnFails(o) PROVE TypeOK'
  <2>1. use_count' \in Nat /\ inactivity_timeout' \in BOOLEAN
    BY <1>4, HoldTypes DEF SpawnFails
  <2>2. open' \in [Opens -> OpenStates] /\ spawn_subprocess_state' = "NONE"
    BY <1>4, SignalMoves DEF SpawnFails, OpenStates
  <2> QED
    BY <1>4, <2>1, <2>2 DEF SpawnFails, TypeOK, ServerTypeOK
<1>5. ASSUME NEW o \in Opens, Spawn(o) PROVE TypeOK'
  BY <1>5 DEF Spawn, TypeOK, ServerTypeOK, OpenStates
<1>6. ASSUME NEW o \in Opens, Create(o) PROVE TypeOK'
  BY <1>6 DEF Create, WatchName, TypeOK, ServerTypeOK, OpenStates
<1>7. StateAfterCreate \in {"NONE", "BLOCKED", "READY"}
  BY DEF StateAfterCreate, TypeOK, ServerTypeOK
<1>8. ASSUME NEW o \in Opens, CreateFails(o) PROVE TypeOK'
  <2>1. use_count' \in Nat /\ inactivity_timeout' \in BOOLEAN
    BY <1>8, HoldTypes DEF CreateFails
  <2>2. open' \in [Opens -> OpenStates] /\ spawn_subprocess_state' = StateAfterCreate
    BY <1>8, SignalMoves DEF CreateFails, OpenStates
  <2> QED
    BY <1>7, <1>8, <2>1, <2>2 DEF CreateFails, TypeOK, ServerTypeOK
<1>9. ASSUME NEW o \in Opens, AddConnection(o) PROVE TypeOK'
  <2> DEFINE c == ClientOf[o]
             p == backend[o]
  <2>1. p \in Opens /\ c \in Clients
    BY <1>9 DEF AddConnection, CallInv
  <2>2. use_count' \in Nat /\ inactivity_timeout' \in BOOLEAN
    BY <1>9, HoldTypes DEF AddConnection, TypeOK, ServerTypeOK
  <2>3. open' \in [Opens -> OpenStates] /\ spawn_subprocess_state' = StateAfterCreate
    BY <1>9, SignalMoves DEF AddConnection, OpenStates
  <2>4. connections' \in [Clients -> [Opens -> Nat]]
    BY <1>9, <2>1 DEF AddConnection, TypeOK
  <2> QED
    BY <1>7, <1>9, <2>2, <2>3, <2>4 DEF AddConnection, TypeOK, ServerTypeOK
<1>10. ASSUME NEW o \in Opens, InsertHelper(o) PROVE TypeOK'
  <2>1. open' \in [Opens -> OpenStates] /\ spawn_subprocess_state' = "READY"
    BY <1>10, SignalMoves DEF InsertHelper, OpenStates
  <2> QED
    BY <1>10, <2>1 DEF InsertHelper, TypeOK, ServerTypeOK
<1>11. ASSUME NEW p \in Opens, OwnName(p) \/ SubprocessAppeared(p) \/ Crash(p) PROVE TypeOK'
  BY <1>11 DEF OwnName, SubprocessAppeared, Crash, TypeOK, ServerTypeOK, OpenStates
<1>12. ASSUME \/ \E o \in Opens : Close(o)
              \/ \E p \in Opens : SubprocessVanished(p)
              \/ \E c \in Clients : NameVanished(c)
       PROVE  TypeOK'
  <2>1. PICK c \in Clients : Shrinks(c)
    BY <1>12, RemovingSteps
  <2>2. use_count' \in Nat /\ inactivity_timeout' \in BOOLEAN
    <3>1. e_dbus_server_release \/ UNCHANGED <<use_count, inactivity_timeout>>
      BY <2>1 DEF Shrinks
    <3> QED
      BY <3>1, HoldTypes DEF TypeOK, ServerTypeOK
  <2>3. connections' \in [Clients -> [Opens -> Nat]]
    BY <2>1 DEF Shrinks, TypeOK
  <2>4. proc' \in [Opens -> {"none", "starting", "up", "closed", "crashed"}] /\ disturbed' \in SUBSET Opens
    BY <2>1 DEF Shrinks
  <2>5. /\ UNCHANGED <<running, open, spawn_subprocess_state, backend, alive>>
        /\ closed' \in SUBSET Opens /\ watched_names' \in SUBSET Clients
        /\ subprocess_helpers' \in [Sources -> Opens \cup {None}]
        /\ watch' \in [Opens -> {"none", "new", "absent", "present", "off"}]
    BY <1>12, RemovingSteps DEF TypeOK
  <2> QED
    BY <2>2, <2>3, <2>4, <2>5 DEF TypeOK, ServerTypeOK
<1>13. ASSUME NEW c \in Clients, Die(c) PROVE TypeOK'
  BY <1>13 DEF Die, ClientDies, TypeOK, ServerTypeOK
<1>14. CASE Inactive \/ Terminate
  BY <1>14 DEF Inactive, InactivityTimeout, Terminate, Quit, TypeOK, ServerTypeOK
<1>15. CASE UNCHANGED vars
  BY <1>15 DEF vars, TypeOK, ServerTypeOK
<1> QED
  BY <1>1, <1>2, <1>3, <1>4, <1>5, <1>6, <1>8, <1>9, <1>10, <1>11, <1>12, <1>13, <1>14, <1>15
     DEF Next, OpenStep, ProcStep

\* A call goes on, and a subprocess is known by the call which spawned it until it
\* is up: what the watch of its name tells comes for a call which waits for it.
LEMMA CallInductive == TypeOK /\ CallInv /\ ProcInv /\ [Next]_vars => CallInv' /\ ProcInv'
<1> SUFFICES ASSUME TypeOK, CallInv, ProcInv, [Next]_vars PROVE CallInv' /\ ProcInv'
  OBVIOUS
<1> USE OpensAssumption DEF Early, subprocessVars, serverVars, gateVars, clientVars
<1>0. /\ open \in [Opens -> OpenStates] /\ backend \in [Opens -> Opens \cup {None}]
      /\ subprocess_helpers \in [Sources -> Opens \cup {None}]
      /\ proc \in [Opens -> {"none", "starting", "up", "closed", "crashed"}]
      /\ watch \in [Opens -> {"none", "new", "absent", "present", "off"}]
  BY DEF TypeOK, ServerTypeOK
<1>1. ASSUME NEW o \in Opens, Open(o) \/ Gate(o) PROVE CallInv' /\ ProcInv'
  <2>1. /\ \A p \in Opens \ {o} : open'[p] = open[p]
        /\ open[o] \in {"new", "gate"} /\ open'[o] \in {"gate", "condwait", "spawn"}
        /\ UNCHANGED <<backend, subprocess_helpers, proc, watch>>
    BY <1>0, <1>1 DEF Open, OpenAddressBook, Gate, PassGate
  <2> QED
    BY <1>0, <2>1 DEF CallInv, ProcInv
<1>2. ASSUME NEW o \in Opens, LookupHelper(o) PROVE CallInv' /\ ProcInv'
  <2> DEFINE p == subprocess_helpers[SourceOf[o]]
  <2>1. CASE p = None
    BY <1>0, <1>2, <2>1 DEF LookupHelper, CallInv, ProcInv
  <2>2. CASE p # None
    <3>1. p \in Opens /\ proc[p] \notin {"none", "starting"}
      BY <1>0, <2>2 DEF ProcInv
    <3>2. /\ open[o] = "spawn" /\ open' = [open EXCEPT ![o] = "create"]
          /\ backend' = [backend EXCEPT ![o] = p]
          /\ UNCHANGED <<subprocess_helpers, proc, watch>>
      BY <1>2, <2>2 DEF LookupHelper
    <3> HIDE DEF p
    <3> QED
      BY <1>0, <3>1, <3>2 DEF CallInv, ProcInv
  <2> QED
    BY <2>1, <2>2
<1>3. ASSUME NEW o \in Opens, NEW pc,
             open[o] \in {"start", "create", "add", "insert", "insert_failed"},
             open'[o] = pc,
             \/ pc = "failed"
             \/ pc \in {"add", "opened"} /\ open[o] # "start"
             \/ pc \in {"insert", "insert_failed"} /\ backend[o] = o,
             \A p \in Opens \ {o} : open'[p] = open[p] \/ (open[p] = "condwait" /\ open'[p] = "gate"),
             UNCHANGED <<backend, subprocess_helpers, proc, watch>>
      PROVE  CallInv' /\ ProcInv'
  BY <1>0, <1>3 DEF CallInv, ProcInv
<1>4. ASSUME NEW o \in Opens, SpawnFails(o) PROVE CallInv' /\ ProcInv'
  <2>1. /\ open[o] = "start" /\ open'[o] = "failed"
        /\ \A p \in Opens \ {o} : open'[p] = open[p] \/ (open[p] = "condwait" /\ open'[p] = "gate")
    BY <1>4, SignalMoves DEF SpawnFails, OpenStates
  <2> QED
    BY <1>3, <1>4, <2>1 DEF SpawnFails
<1>5. ASSUME NEW o \in Opens, Spawn(o) PROVE CallInv' /\ ProcInv'
  <2>1. /\ open[o] = "start" /\ open' = [open EXCEPT ![o] = "spawned"]
        /\ backend' = [backend EXCEPT ![o] = o]
        /\ proc' = [proc EXCEPT ![o] = "starting"] /\ watch' = [watch EXCEPT ![o] = "new"]
        /\ subprocess_helpers' = subprocess_helpers
    BY <1>5 DEF Spawn
  <2>2. proc[o] = "none"
    BY <2>1 DEF CallInv
  <2>3. CallInv'
    BY <1>0, <2>1 DEF CallInv
  <2>4. ProcInv'
    BY <1>0, <2>1, <2>2 DEF ProcInv
  <2> QED
    BY <2>3, <2>4
<1>6. ASSUME NEW o \in Opens, Create(o) PROVE CallInv' /\ ProcInv'
  BY <1>0, <1>3, <1>6 DEF Create
<1>7. ASSUME NEW o \in Opens, CreateFails(o) PROVE CallInv' /\ ProcInv'
  <2> DEFINE pc == IF Appearing(o) THEN "insert_failed" ELSE "failed"
  <2>1. pc \in OpenStates /\ open[o] = "create" /\ MoveAndSignal(o, pc, StateAfterCreate)
    BY <1>7 DEF CreateFails, OpenStates
  <2>2. /\ open'[o] = pc
        /\ \A p \in Opens \ {o} : open'[p] = open[p] \/ (open[p] = "condwait" /\ open'[p] = "gate")
    BY <2>1, SignalMoves
  <2>3. pc = "failed" \/ (pc = "insert_failed" /\ backend[o] = o)
    BY DEF Appearing
  <2> HIDE DEF pc
  <2> QED
    BY <1>3, <1>7, <2>1, <2>2, <2>3 DEF CreateFails
<1>8. ASSUME NEW o \in Opens, AddConnection(o) PROVE CallInv' /\ ProcInv'
  <2> DEFINE pc == IF Appearing(o) THEN "insert" ELSE "opened"
  <2>1. pc \in OpenStates /\ open[o] = "add" /\ MoveAndSignal(o, pc, StateAfterCreate)
    BY <1>8 DEF AddConnection, OpenStates
  <2>2. /\ open'[o] = pc
        /\ \A p \in Opens \ {o} : open'[p] = open[p] \/ (open[p] = "condwait" /\ open'[p] = "gate")
    BY <2>1, SignalMoves
  <2>3. pc = "opened" \/ (pc = "insert" /\ backend[o] = o)
    BY DEF Appearing
  <2> HIDE DEF pc
  <2> QED
    BY <1>3, <1>8, <2>1, <2>2, <2>3 DEF AddConnection
<1>9. ASSUME NEW o \in Opens, InsertHelper(o) PROVE CallInv' /\ ProcInv'
  <2> DEFINE pc == IF open[o] = "insert" THEN "opened" ELSE "failed"
  <2>1. pc \in OpenStates /\ open[o] \in {"insert", "insert_failed"} /\ MoveAndSignal(o, pc, "READY")
    BY <1>9 DEF InsertHelper, OpenStates
  <2>2. /\ open'[o] = pc /\ pc \in {"opened", "failed"} /\ (pc = "opened" => open[o] = "insert")
        /\ \A p \in Opens \ {o} : open'[p] = open[p] \/ (open[p] = "condwait" /\ open'[p] = "gate")
    BY <2>1, SignalMoves
  <2>3. backend[o] = o /\ proc[o] \notin {"none", "starting"}
    BY <1>0, <2>1 DEF CallInv, ProcInv
  <2>4. /\ subprocess_helpers' = [subprocess_helpers EXCEPT ![SourceOf[o]] = o]
        /\ UNCHANGED <<backend, proc, watch>>
    BY <1>9 DEF InsertHelper
  <2> HIDE DEF pc
  <2>5. CallInv'
    BY <1>0, <2>1, <2>2, <2>3, <2>4 DEF CallInv
  <2>6. ProcInv'
    BY <1>0, <2>1, <2>2, <2>3, <2>4 DEF ProcInv
  <2> QED
    BY <2>5, <2>6
<1>10. ASSUME NEW p \in Opens, OwnName(p) \/ Crash(p) PROVE CallInv' /\ ProcInv'
  <2>1. PICK st \in {"up", "crashed"} : /\ proc' = [proc EXCEPT ![p] = st]
                                        /\ proc[p] = "starting" \/ st = "crashed"
                                        /\ proc[p] # "none"
                                        /\ UNCHANGED <<open, backend, subprocess_helpers, watch>>
    BY <1>10 DEF OwnName, Crash
  <2> QED
    BY <1>0, <2>1 DEF CallInv, ProcInv
<1>11. ASSUME NEW p \in Opens, SubprocessAppeared(p) PROVE CallInv' /\ ProcInv'
  <2>1. open[p] = "spawned" /\ backend[p] = p
    BY <1>11 DEF SubprocessAppeared, CallInv, ProcInv
  <2>2. /\ proc[p] = "up" /\ open' = [open EXCEPT ![p] = "create"]
        /\ watch' = [watch EXCEPT ![p] = "present"]
        /\ UNCHANGED <<backend, subprocess_helpers, proc>>
    BY <1>11 DEF SubprocessAppeared
  <2> QED
    BY <1>0, <2>1, <2>2 DEF CallInv, ProcInv
<1>12. ASSUME \/ \E o \in Opens : Close(o)
              \/ \E p \in Opens : SubprocessVanished(p)
              \/ \E c \in Clients : NameVanished(c)
       PROVE  CallInv' /\ ProcInv'
  <2>1. UNCHANGED <<open, backend>>
    BY <1>12, RemovingSteps
  <2>2. /\ proc' \in [Opens -> {"none", "starting", "up", "closed", "crashed"}]
        /\ \A p \in Opens : proc'[p] = proc[p] \/ (proc[p] = "up" /\ proc'[p] = "closed")
    BY <1>12, RemovingSteps DEF Shrinks
  <2>3. CASE UNCHANGED <<subprocess_helpers, watch>>
    BY <1>0, <2>1, <2>2, <2>3 DEF CallInv, ProcInv
  <2>4. ASSUME NEW p \in Opens, watch[p] \in {"new", "present"}, NEW st \in {"absent", "off"},
               watch' = [watch EXCEPT ![p] = st], st = "absent" => proc[p] # "up" /\ proc' = proc,
               \A s \in Sources : subprocess_helpers'[s] \in {None, subprocess_helpers[s]}
        PROVE  CallInv' /\ ProcInv'
    <3>1. CallInv'
      BY <1>0, <2>1, <2>2, <2>4 DEF CallInv
    <3>2. ProcInv'
      BY <1>0, <2>1, <2>2, <2>4 DEF ProcInv
    <3> QED
      BY <3>1, <3>2
  <2> QED
    BY <1>0, <1>12, <2>3, <2>4, RemovingSteps
<1>13. ASSUME UNCHANGED <<open, backend, subprocess_helpers, proc, watch>> PROVE CallInv' /\ ProcInv'
  BY <1>13 DEF CallInv, ProcInv
<1> QED
  BY <1>1, <1>2, <1>4, <1>5, <1>6, <1>7, <1>8, <1>9, <1>10, <1>11, <1>12, <1>13
     DEF Next, OpenStep, ProcStep, Die, ClientDies, Inactive, InactivityTimeout, Terminate, Quit, vars

\* Connections are made by a call which has come; no call gets new again.
LEMMA ConnectionInductive == TypeOK /\ CallInv /\ ProcInv /\ ConnectionInv /\ [Next]_vars => ConnectionInv'
<1> SUFFICES ASSUME TypeOK, CallInv, ProcInv, ConnectionInv, [Next]_vars PROVE ConnectionInv'
  OBVIOUS
<1> USE OpensAssumption DEF subprocessVars, serverVars, gateVars, clientVars
<1>0. open \in [Opens -> OpenStates] /\ connections \in [Clients -> [Opens -> Nat]]
  BY DEF TypeOK, ServerTypeOK
<1>1. ASSUME NEW o \in Opens, open'[o] # "new" PROVE ConnectionInv'
  BY <1>1 DEF ConnectionInv
<1>2. ASSUME NEW o \in Opens, Open(o) \/ Gate(o) \/ LookupHelper(o) \/ Spawn(o) \/ Create(o)
      PROVE  ConnectionInv'
  BY <1>0, <1>1, <1>2 DEF Open, OpenAddressBook, Gate, PassGate, LookupHelper, Spawn, Create
<1>3. ASSUME NEW o \in Opens, SpawnFails(o) \/ CreateFails(o) \/ AddConnection(o) \/ InsertHelper(o)
      PROVE  ConnectionInv'
  <2>1. PICK pc \in OpenStates \ {"new"}, state \in {"NONE", "READY", StateAfterCreate} :
           open[o] # "condwait" /\ MoveAndSignal(o, pc, state)
    BY <1>3 DEF SpawnFails, CreateFails, AddConnection, InsertHelper, OpenStates
  <2>2. open'[o] # "new"
    BY <2>1, SignalMoves
  <2> QED
    BY <1>1, <2>2
<1>4. ASSUME NEW p \in Opens, SubprocessAppeared(p) PROVE ConnectionInv'
  BY <1>0, <1>1, <1>4 DEF SubprocessAppeared
<1>5. ASSUME UNCHANGED <<open, connections>> PROVE ConnectionInv'
  BY <1>5 DEF ConnectionInv, Connected
<1>6. ASSUME \/ \E o \in Opens : Close(o)
             \/ \E p \in Opens : SubprocessVanished(p)
             \/ \E c \in Clients : NameVanished(c)
      PROVE  ConnectionInv'
  <2>1. PICK c \in Clients : Shrinks(c)
    BY <1>6, RemovingSteps
  <2>2. PICK left \in [Opens -> Nat] : /\ \A p \in Opens : left[p] <= connections[c][p]
                                       /\ connections' = [connections EXCEPT ![c] = left]
    BY <2>1 DEF Shrinks
  <2>3. \A x \in Clients, p \in Opens : connections'[x][p] > 0 => connections[x][p] > 0
    BY <1>0, <2>2
  <2>4. open' = open
    BY <1>6, RemovingSteps
  <2> QED
    BY <2>3, <2>4 DEF ConnectionInv, Connected
<1> QED
  BY <1>2, <1>3, <1>4, <1>5, <1>6
     DEF Next, OpenStep, ProcStep, OwnName, Crash, Die, ClientDies, Inactive, InactivityTimeout,
         Terminate, Quit, vars

IInv == TypeOK /\ CallInv /\ ProcInv /\ ConnectionInv

\* At the start nothing has been spawned.
LEMMA InitIInv == Init => IInv
<1> SUFFICES ASSUME Init PROVE IInv
  OBVIOUS
<1> USE OpensAssumption DEF Init, ServerInit
<1>1. TypeOK
  BY DEF TypeOK, ServerTypeOK, OpenStates
<1>2. CallInv /\ ProcInv /\ ConnectionInv
  BY DEF CallInv, ProcInv, ConnectionInv, Connected, Early
<1> QED
  BY <1>1, <1>2 DEF IInv

\* The invariants of calls, subprocesses and connections hold in every state.
LEMMA SpecIInv == Spec => []IInv
<1>1. Init => IInv
  BY InitIInv
<1>2. IInv /\ [Next]_vars => IInv'
  BY TypeInductive, CallInductive, ConnectionInductive DEF IInv
<1> QED
  BY <1>1, <1>2, PTL DEF Spec

\* The state of EDataFactory has its types; that a name appears only to the call
\* which waits for it is part of the argument.
THEOREM TypeCorrect == Spec => []TypeOK
<1>1. IInv => TypeOK
  BY DEF IInv
<1> QED
  BY <1>1, SpecIInv, PTL

-----------------------------------------------------------------------------
(* ---- the holds of the process ---- *)

\* The sets which are counted are finite.
LEMMA CountedFinite ==
    /\ IsFiniteSet(Held) /\ IsFiniteSet(ConnectedClients)
    /\ Cardinality(Held) \in Nat /\ Cardinality(ConnectedClients) \in Nat
<1>1. Held \in SUBSET Opens /\ ConnectedClients \in SUBSET Clients
  BY DEF Held, ConnectedClients
<1>2. IsFiniteSet(Held) /\ IsFiniteSet(ConnectedClients)
  BY <1>1, OpensAssumption, FS_Subset
<1> QED
  BY <1>2, FS_CardinalityType

\* A step which takes no hold and drops none, while the counted sets stay as large.
LEMMA HoldsKept ==
    ASSUME HoldsExact, use_count' = use_count,
           Cardinality(Held)' + Cardinality(ConnectedClients)' = Cardinality(Held) + Cardinality(ConnectedClients),
           \/ ~running'
           \/ /\ UNCHANGED <<running, inactivity_timeout>>
              /\ (\E o \in Opens : open'[o] # "new") => \E o \in Opens : open[o] # "new"
    PROVE  HoldsExact'
<1>1. (use_count = Cardinality(Held) + Cardinality(ConnectedClients))'
  BY DEF HoldsExact, Held, ConnectedClients
<1>2. ASSUME running', \E o \in Opens : open'[o] # "new"
      PROVE  inactivity_timeout' <=> use_count' = 0
  <2>1. running /\ inactivity_timeout' = inactivity_timeout /\ \E o \in Opens : open[o] # "new"
    BY <1>2
  <2>2. inactivity_timeout <=> use_count = 0
    BY <2>1, Zenon DEF HoldsExact
  <2> QED
    BY <2>1, <2>2, Zenon
<1> QED
  BY <1>1, <1>2, Zenon DEF HoldsExact, Held, ConnectedClients

\* A step which drops a hold, with a call or a client that is counted no more: the
\* timeout is set with the last one.
LEMMA HoldsReleased ==
    ASSUME TypeOK, HoldsExact, e_dbus_server_release, running' = running,
           \E o \in Opens : open[o] # "new",
           \/ \E o \in Held : Held' = Held \ {o} /\ ConnectedClients' = ConnectedClients
           \/ \E c \in ConnectedClients : Held' = Held /\ ConnectedClients' = ConnectedClients \ {c}
    PROVE  HoldsExact'
<1>0. use_count \in Nat /\ use_count = Cardinality(Held) + Cardinality(ConnectedClients)
  BY DEF HoldsExact, Held, ConnectedClients, TypeOK, ServerTypeOK
<1>1. use_count > 0 /\ use_count - 1 = Cardinality(Held)' + Cardinality(ConnectedClients)'
  <2>1. ASSUME NEW o \in Held, Held' = Held \ {o}, ConnectedClients' = ConnectedClients
        PROVE  use_count > 0 /\ use_count - 1 = Cardinality(Held)' + Cardinality(ConnectedClients)'
    <3>1. /\ Cardinality(Held)' = Cardinality(Held) - 1
          /\ Cardinality(ConnectedClients)' = Cardinality(ConnectedClients)
      BY <2>1, CountedFinite, FS_RemoveElement
    <3>2. Cardinality(Held) # 0
      BY <2>1, CountedFinite, FS_EmptySet
    <3> QED
      BY <1>0, <3>1, <3>2, CountedFinite
  <2>2. ASSUME NEW c \in ConnectedClients, Held' = Held, ConnectedClients' = ConnectedClients \ {c}
        PROVE  use_count > 0 /\ use_count - 1 = Cardinality(Held)' + Cardinality(ConnectedClients)'
    <3>1. /\ Cardinality(Held)' = Cardinality(Held)
          /\ Cardinality(ConnectedClients)' = Cardinality(ConnectedClients) - 1
      BY <2>2, CountedFinite, FS_RemoveElement
    <3>2. Cardinality(ConnectedClients) # 0
      BY <2>2, CountedFinite, FS_EmptySet
    <3> QED
      BY <1>0, <3>1, <3>2, CountedFinite
  <2> QED
    BY <2>1, <2>2
<1>2. use_count' = use_count - 1 /\ (use_count' = 0 <=> use_count = 1) /\ ~(use_count = 0)
  BY <1>0, <1>1 DEF e_dbus_server_release
<1>3. use_count' = Cardinality(Held)' + Cardinality(ConnectedClients)'
  BY <1>1, <1>2
<1>4. inactivity_timeout' <=> inactivity_timeout \/ use_count = 1
  BY Zenon DEF e_dbus_server_release
<1>5. running => ~inactivity_timeout
  BY <1>2, Zenon DEF HoldsExact
<1>6. running => (inactivity_timeout' <=> use_count' = 0)
  BY <1>2, <1>4, <1>5, Zenon
<1> QED
  BY <1>3, <1>6, Zenon DEF HoldsExact, Held, ConnectedClients

\* Each call under way has a hold, which becomes that of its client with the first
\* connection; the last connection drops it.
LEMMA HoldsInductive == IInv /\ HoldsExact /\ [Next]_vars => HoldsExact'
<1> SUFFICES ASSUME IInv, HoldsExact, [Next]_vars PROVE HoldsExact'
  OBVIOUS
<1> USE OpensAssumption DEF subprocessVars, serverVars, gateVars, clientVars
<1>0. /\ open \in [Opens -> OpenStates] /\ use_count \in Nat
      /\ connections \in [Clients -> [Opens -> Nat]] /\ TypeOK
  BY DEF IInv, TypeOK, ServerTypeOK
<1>1. ASSUME NEW o \in Opens, Open(o) PROVE HoldsExact'
  <2>1. Held' = Held \cup {o} /\ o \notin Held
    BY <1>0, <1>1 DEF Open, OpenAddressBook, Held
  <2>2. ConnectedClients' = ConnectedClients
    BY <1>1 DEF Open, ConnectedClients, Connected
  <2>3. /\ Cardinality(Held)' = Cardinality(Held) + 1
        /\ Cardinality(ConnectedClients)' = Cardinality(ConnectedClients)
    BY <2>1, <2>2, CountedFinite, FS_AddElement
  <2>4. use_count' = use_count + 1 /\ use_count = Cardinality(Held) + Cardinality(ConnectedClients)
    BY <1>1 DEF Open, OpenAddressBook, e_dbus_server_hold, HoldsExact, Held, ConnectedClients
  <2>5. use_count' = Cardinality(Held)' + Cardinality(ConnectedClients)' /\ ~(use_count' = 0)
    BY <1>0, <2>3, <2>4, CountedFinite
  <2>6. ~inactivity_timeout'
    BY <1>1, Zenon DEF Open, OpenAddressBook, e_dbus_server_hold
  <2> QED
    BY <2>5, <2>6, Zenon DEF HoldsExact, Held, ConnectedClients
<1>2. ASSUME Held' = Held, connections' = connections, use_count' = use_count,
             \/ ~running'
             \/ UNCHANGED <<running, inactivity_timeout>> /\
                (UNCHANGED open \/ \E o \in Opens : open[o] # "new")
      PROVE  HoldsExact'
  <2>1. ConnectedClients' = ConnectedClients
    BY <1>2 DEF ConnectedClients, Connected
  <2>2. Cardinality(Held)' + Cardinality(ConnectedClients)' = Cardinality(Held) + Cardinality(ConnectedClients)
    BY <1>2, <2>1
  <2> QED
    BY <1>2, <2>2, HoldsKept, Zenon
<1>3. ASSUME NEW o \in Opens, Gate(o) \/ LookupHelper(o) \/ Spawn(o) \/ Create(o) PROVE HoldsExact'
  <2>1. Held' = Held /\ open[o] # "new"
    BY <1>0, <1>3 DEF Gate, PassGate, LookupHelper, Spawn, Create, Held
  <2>2. UNCHANGED <<connections, use_count, running, inactivity_timeout>>
    BY <1>3 DEF Gate, PassGate, LookupHelper, Spawn, Create
  <2> QED
    BY <1>2, <2>1, <2>2
<1>4. ASSUME NEW o \in Opens, SpawnFails(o) \/ CreateFails(o) PROVE HoldsExact'
  <2>1. PICK pc \in {"failed", "insert_failed"}, state \in {"NONE", "READY", StateAfterCreate} :
           open[o] \in {"start", "create"} /\ MoveAndSignal(o, pc, state)
    BY <1>4 DEF SpawnFails, CreateFails
  <2>2. /\ open'[o] = pc
        /\ \A p \in Opens \ {o} : open'[p] = open[p] \/ (open[p] = "condwait" /\ open'[p] = "gate")
    BY <1>0, <2>1, SignalMoves DEF OpenStates
  <2>3. o \in Held /\ Held' = Held \ {o} /\ open[o] # "new"
    BY <2>1, <2>2 DEF Held
  <2>4. ConnectedClients' = ConnectedClients /\ e_dbus_server_release /\ running' = running
    BY <1>4 DEF SpawnFails, CreateFails, ConnectedClients, Connected
  <2> QED
    BY <1>0, <2>3, <2>4, HoldsReleased
<1>5. ASSUME NEW o \in Opens, AddConnection(o) PROVE HoldsExact'
  <2> DEFINE c == ClientOf[o]
             p == backend[o]
             pc == IF Appearing(o) THEN "insert" ELSE "opened"
  <2>1. pc \in {"insert", "opened"} /\ open[o] = "add" /\ MoveAndSignal(o, pc, StateAfterCreate)
        /\ running' = running
    BY <1>5 DEF AddConnection
  <2>2. /\ open'[o] = pc
        /\ \A q \in Opens \ {o} : open'[q] = open[q] \/ (open[q] = "condwait" /\ open'[q] = "gate")
    BY <1>0, <2>1, SignalMoves DEF OpenStates
  <2> HIDE DEF pc
  <2>3. o \in Held /\ Held' = Held \ {o} /\ open[o] # "new"
    BY <2>1, <2>2 DEF Held
  <2>4. p \in Opens /\ c \in Clients /\ connections' = [connections EXCEPT ![c][p] = @ + 1]
    BY <1>5 DEF AddConnection, IInv, CallInv
  <2>5. connections'[c][p] > 0 /\ \A x \in Clients \ {c} : connections'[x] = connections[x]
    BY <1>0, <2>4
  <2>6. ConnectedClients' = ConnectedClients \cup {c}
    BY <2>4, <2>5 DEF ConnectedClients, Connected
  <2>7. CASE Connected(c)
    <3>1. ConnectedClients' = ConnectedClients /\ e_dbus_server_release
      BY <1>5, <2>4, <2>6, <2>7 DEF AddConnection, ConnectedClients
    <3> QED
      BY <1>0, <2>1, <2>3, <3>1, HoldsReleased
  <2>8. CASE ~Connected(c)
    <3>1. UNCHANGED <<use_count, inactivity_timeout>> /\ c \notin ConnectedClients
      BY <1>5, <2>8 DEF AddConnection, ConnectedClients
    <3>2. /\ Cardinality(Held)' = Cardinality(Held) - 1
          /\ Cardinality(ConnectedClients)' = Cardinality(ConnectedClients) + 1
      BY <2>3, <2>6, <3>1, CountedFinite, FS_AddElement, FS_RemoveElement
    <3>3. Cardinality(Held)' + Cardinality(ConnectedClients)' = Cardinality(Held) + Cardinality(ConnectedClients)
      BY <3>2, CountedFinite
    <3> QED
      BY <2>1, <2>3, <3>1, <3>3, HoldsKept, Zenon
  <2> QED
    BY <2>7, <2>8
<1>6. ASSUME NEW o \in Opens, InsertHelper(o) PROVE HoldsExact'
  <2>1. PICK pc \in {"opened", "failed"} :
           open[o] \in {"insert", "insert_failed"} /\ MoveAndSignal(o, pc, "READY")
    BY <1>6 DEF InsertHelper
  <2>2. /\ open'[o] = pc
        /\ \A p \in Opens \ {o} : open'[p] = open[p] \/ (open[p] = "condwait" /\ open'[p] = "gate")
    BY <1>0, <2>1, SignalMoves DEF OpenStates
  <2>3. Held' = Held /\ open[o] # "new"
    BY <2>1, <2>2 DEF Held
  <2> QED
    BY <1>2, <1>6, <2>3 DEF InsertHelper
<1>7. ASSUME NEW p \in Opens, SubprocessAppeared(p) PROVE HoldsExact'
  <2>1. open[p] = "spawned"
    BY <1>7 DEF SubprocessAppeared, IInv, ProcInv
  <2>2. Held' = Held /\ open[p] # "new"
    BY <1>0, <1>7, <2>1 DEF SubprocessAppeared, Held
  <2> QED
    BY <1>2, <1>7, <2>2 DEF SubprocessAppeared
<1>8. ASSUME \/ \E o \in Opens : Close(o)
             \/ \E p \in Opens : SubprocessVanished(p)
             \/ \E c \in Clients : NameVanished(c)
      PROVE  HoldsExact'
  <2>1. UNCHANGED <<running, open>>
    BY <1>0, <1>8, RemovingSteps DEF IInv
  <2>2. PICK c \in Clients : Shrinks(c)
    BY <1>0, <1>8, RemovingSteps DEF IInv
  <2>3. PICK left \in [Opens -> Nat] :
          /\ \A p \in Opens : left[p] <= connections[c][p]
          /\ connections' = [connections EXCEPT ![c] = left]
          /\ IF Connected(c) /\ \A p \in Opens : left[p] = 0
             THEN e_dbus_server_release
             ELSE UNCHANGED <<use_count, inactivity_timeout>>
    BY <2>2 DEF Shrinks
  <2>4. Held' = Held
    BY <2>1 DEF Held
  <2>5. connections'[c] = left /\ \A x \in Clients \ {c} : connections'[x] = connections[x]
    BY <1>0, <2>3
  <2>6. CASE Connected(c) /\ \A p \in Opens : left[p] = 0
    <3>1. c \in ConnectedClients /\ ConnectedClients' = ConnectedClients \ {c}
      BY <2>5, <2>6 DEF ConnectedClients, Connected
    <3>2. \E o \in Opens : open[o] # "new"
      BY <2>6 DEF IInv, ConnectionInv
    <3> QED
      BY <1>0, <2>1, <2>3, <2>4, <2>6, <3>1, <3>2, HoldsReleased
  <2>7. CASE ~(Connected(c) /\ \A p \in Opens : left[p] = 0)
    <3>1. ConnectedClients' = ConnectedClients
      <4>1. Connected(c)' <=> Connected(c)
        BY <1>0, <2>3, <2>5, <2>7 DEF Connected
      <4>2. \A x \in Clients \ {c} : Connected(x)' <=> Connected(x)
        BY <2>5 DEF Connected
      <4> QED
        BY <4>1, <4>2 DEF ConnectedClients
    <3>2. Cardinality(Held)' + Cardinality(ConnectedClients)' = Cardinality(Held) + Cardinality(ConnectedClients)
      BY <2>4, <3>1
    <3>3. UNCHANGED <<use_count, inactivity_timeout>>
      BY <2>3, <2>7
    <3> QED
      BY <2>1, <3>2, <3>3, HoldsKept, Zenon
  <2> QED
    BY <2>6, <2>7
<1>9. ASSUME UNCHANGED <<open, connections, use_count>>,
             ~running' \/ UNCHANGED <<running, inactivity_timeout>>
      PROVE  HoldsExact'
  <2>1. Held' = Held
    BY <1>9 DEF Held
  <2> QED
    BY <1>2, <1>9, <2>1
<1>10. ASSUME NEW p \in Opens, OwnName(p) \/ Crash(p) PROVE HoldsExact'
  BY <1>9, <1>10 DEF OwnName, Crash
<1>11. ASSUME NEW c \in Clients, Die(c) PROVE HoldsExact'
  BY <1>9, <1>11 DEF Die, ClientDies
<1>12. CASE Inactive \/ Terminate
  BY <1>9, <1>12 DEF Inactive, InactivityTimeout, Terminate, Quit
<1>13. CASE UNCHANGED vars
  BY <1>9, <1>13 DEF vars
<1> QED
  BY <1>1, <1>3, <1>4, <1>5, <1>6, <1>7, <1>8, <1>10, <1>11, <1>12, <1>13 DEF Next, OpenStep, ProcStep

\* The process is held exactly for the calls under way and the clients with a
\* connection, and schedules its end exactly when there is neither, whichever
\* subprocesses crash and clients vanish.
THEOREM HoldsCorrect == Spec => []HoldsExact
<1>1. Init => HoldsExact
  <2> SUFFICES ASSUME Init PROVE HoldsExact
    OBVIOUS
  <2>1. Held = {} /\ ConnectedClients = {}
    BY DEF Init, ServerInit, Held, ConnectedClients, Connected
  <2>2. use_count = Cardinality(Held) + Cardinality(ConnectedClients)
    BY <2>1, FS_EmptySet DEF Init, ServerInit
  <2>3. \A o \in Opens : open[o] = "new"
    BY DEF Init, ServerInit
  <2> QED
    BY <2>2, <2>3 DEF HoldsExact, Held, ConnectedClients
<1>2. IInv /\ HoldsExact /\ [Next]_vars => HoldsExact'
  BY HoldsInductive
<1> QED
  BY <1>1, <1>2, SpecIInv, PTL DEF Spec

-----------------------------------------------------------------------------
(* ---- the connections of the clients ---- *)

\* The sets which are counted are finite.
LEMMA UsedFinite ==
    ASSUME NEW c, NEW p
    PROVE  IsFiniteSet(UsedCalls(c, p)) /\ Cardinality(UsedCalls(c, p)) \in Nat
<1>1. UsedCalls(c, p) \in SUBSET Opens
  BY DEF UsedCalls
<1> QED
  BY <1>1, OpensAssumption, FS_Subset, FS_CardinalityType

\* A step which gives p to no call, nor takes a connection away.
LEMMA UseFrame ==
    ASSUME TypeOK, NEW p \in Opens, UseOK(p), proc'[p] = proc[p], alive' \subseteq alive,
           closed' = closed, connections' = connections,
           \A o \in Opens : backend'[o] = p /\ open'[o] \in {"add", "insert", "opened"} =>
              /\ backend[o] = p
              /\ open'[o] = "add" => open[o] = "add"
              /\ open'[o] \in {"insert", "opened"} => open[o] \in {"insert", "opened"}
    PROVE  UseOK(p)'
<1>1. ASSUME proc[p] = "up", NEW c \in alive' PROVE Cardinality(UsedCalls(c, p)') <= connections'[c][p]
  <2>1. UsedCalls(c, p)' \in SUBSET UsedCalls(c, p)
    BY DEF UsedCalls
  <2>2. Cardinality(UsedCalls(c, p)') <= Cardinality(UsedCalls(c, p)) /\ Cardinality(UsedCalls(c, p)') \in Nat
    BY <2>1, UsedFinite, FS_Subset, FS_CardinalityType
  <2>3. Cardinality(UsedCalls(c, p)) <= connections[c][p] /\ c \in Clients
    BY <1>1 DEF UseOK, TypeOK, ServerTypeOK
  <2> QED
    BY <2>2, <2>3, UsedFinite DEF TypeOK
<1>2. ASSUME proc[p] = "closed", NEW o \in Opens, backend'[o] = p PROVE open'[o] # "add" /\ ~InUse(o)'
  BY <1>2 DEF UseOK, InUse, Keeps
<1> QED
  BY <1>1, <1>2 DEF UseOK

\* A step which takes connections away, or closes p.
LEMMA UseRemoval ==
    ASSUME NEW p \in Opens, UseOK(p), UNCHANGED <<open, backend, alive>>, closed \subseteq closed',
           \/ proc'[p] = proc[p]
           \/ /\ proc[p] = "up" /\ proc'[p] = "closed"
              /\ \A o \in Opens : backend[o] = p => open[o] # "add"
              /\ \A c \in alive : connections'[c][p] = 0,
           \A c \in alive : proc[p] = "up" => Cardinality(UsedCalls(c, p)') <= connections'[c][p]
    PROVE  UseOK(p)'
<1>1. CASE proc'[p] = proc[p]
  BY <1>1 DEF UseOK, InUse, Keeps
<1>2. CASE proc[p] = "up" /\ proc'[p] = "closed"
  <2> SUFFICES ASSUME NEW o \in Opens, backend[o] = p, InUse(o)' PROVE FALSE
    BY <1>2 DEF UseOK
  <2> DEFINE c == ClientOf[o]
  <2>1. c \in alive /\ o \in UsedCalls(c, p)'
    BY DEF InUse, Keeps, UsedCalls
  <2>2. Cardinality(UsedCalls(c, p)') <= 0
    BY <1>2, <2>1
  <2>3. IsFiniteSet(UsedCalls(c, p)')
    <3>1. UsedCalls(c, p)' \in SUBSET Opens
      BY DEF UsedCalls
    <3> QED
      BY <3>1, OpensAssumption, FS_Subset
  <2>4. Cardinality(UsedCalls(c, p)') = 0
    BY <2>2, <2>3, FS_CardinalityType
  <2> QED
    BY <2>1, <2>3, <2>4, FS_EmptySet
<1> QED
  BY <1>1, <1>2

\* A client closes what it has.
LEMMA UseClose ==
    ASSUME IInv, UseInv, NEW o \in Opens, Close(o)
    PROVE  UseInv'
<1> USE OpensAssumption DEF gateVars
<1> DEFINE c == ClientOf[o]
           q == backend[o]
<1>0. /\ connections \in [Clients -> [Opens -> Nat]] /\ alive \subseteq Clients /\ c \in Clients
      /\ proc \in [Opens -> {"none", "starting", "up", "closed", "crashed"}]
      /\ closed \subseteq Opens /\ q \in Opens
  BY DEF IInv, TypeOK, ServerTypeOK, Close, InUse, CallInv
<1>1. /\ InUse(o) /\ c \in alive /\ o \notin closed /\ closed' = closed \cup {o}
      /\ UNCHANGED <<open, backend, alive>>
  BY DEF Close, InUse, Keeps
<1>2. \A p \in Opens, x \in Clients : p # q \/ x # c => UsedCalls(x, p)' = UsedCalls(x, p)
  BY <1>1 DEF UsedCalls
<1>3. CASE proc[q] = "up" /\ q \notin disturbed
  <2>1. o \in UsedCalls(c, q) /\ UsedCalls(c, q)' = UsedCalls(c, q) \ {o}
    BY <1>1 DEF UsedCalls, InUse
  <2>2. Cardinality(UsedCalls(c, q)') = Cardinality(UsedCalls(c, q)) - 1 /\ Cardinality(UsedCalls(c, q)) # 0
    <3>1. IsFiniteSet(UsedCalls(c, q))
      BY UsedFinite
    <3>2. Cardinality(UsedCalls(c, q) \ {o}) = Cardinality(UsedCalls(c, q)) - 1
      BY <2>1, <3>1, FS_RemoveElement
    <3>3. Cardinality(UsedCalls(c, q)) # 0
      BY <2>1, <3>1, FS_EmptySet
    <3> QED
      BY <2>1, <3>2, <3>3
  <2>3. \A x \in alive : Cardinality(UsedCalls(x, q)) <= connections[x][q]
    BY <1>0, <1>3 DEF UseInv, UseOK
  <2>4. connections[c][q] > 0
    BY <1>0, <1>1, <2>2, <2>3, UsedFinite
  <2>5. /\ CloseUnused(IF IsUsed(q, c, 1) THEN {} ELSE {q}, {})
        /\ connections' = [connections EXCEPT ![c] = [connections[c] EXCEPT ![q] = IF @ > 0 THEN @ - 1 ELSE 0]]
    BY <1>0, <1>3, <2>4 DEF Close, ConnectionsRemove, Connected, SetConnections
  <2>6. /\ connections'[c][q] = connections[c][q] - 1
        /\ \A x \in Clients, p \in Opens : p # q \/ x # c => connections'[x][p] = connections[x][p]
    BY <1>0, <2>4, <2>5
  <2> SUFFICES ASSUME NEW p \in Opens \ disturbed' PROVE UseOK(p)'
    BY DEF UseInv
  <2>7. UseOK(p)
    BY <2>5 DEF UseInv, CloseUnused
  <2>8. \/ proc'[p] = proc[p]
        \/ /\ p = q /\ ~IsUsed(q, c, 1) /\ proc'[p] = "closed"
           /\ \A x \in Opens : backend[x] = p => open[x] # "add"
    BY <1>0, <2>5 DEF CloseUnused
  <2>9. p = q /\ ~IsUsed(q, c, 1) => \A x \in alive : connections'[x][p] = 0
    BY <1>0, <2>4, <2>6 DEF IsUsed
  <2>10. ASSUME NEW x \in alive, proc[p] = "up" PROVE Cardinality(UsedCalls(x, p)') <= connections'[x][p]
    <3>1. CASE p = q /\ x = c
      <4>1. Cardinality(UsedCalls(c, q)) \in Nat /\ Cardinality(UsedCalls(c, q)) <= connections[c][q]
        BY <1>1, <2>3, UsedFinite
      <4>2. Cardinality(UsedCalls(c, q)') <= connections'[c][q]
        BY <1>0, <2>2, <2>6, <4>1
      <4>3. UsedCalls(x, p)' = UsedCalls(c, q)'
        BY <1>1, <3>1 DEF UsedCalls
      <4> QED
        BY <3>1, <4>2, <4>3
    <3>2. CASE p # q \/ x # c
      <4>1. UsedCalls(x, p)' = UsedCalls(x, p) /\ connections'[x][p] = connections[x][p]
        BY <1>0, <1>2, <2>6, <3>2
      <4> QED
        BY <2>7, <2>10, <4>1 DEF UseOK
    <3> QED
      BY <3>1, <3>2
  <2> QED
    BY <1>1, <1>3, <2>7, <2>8, <2>9, <2>10, UseRemoval
<1>4. CASE proc[q] # "up" \/ q \in disturbed
  <2> SUFFICES ASSUME NEW p \in Opens \ disturbed' PROVE UseOK(p)'
    BY DEF UseInv
  <2>1. \/ UNCHANGED <<proc, connections, disturbed>>
        \/ /\ q \in disturbed /\ disturbed \subseteq disturbed'
           /\ \A x \in Opens \ {q} : proc'[x] = proc[x]
           /\ \A x \in Clients, y \in Opens \ {q} : connections'[x][y] = connections[x][y]
    <3>1. CASE proc[q] = "up" /\ Connected(c)
      <4>1. /\ CloseUnused(IF IsUsed(q, c, 1) THEN {} ELSE {q}, {})
            /\ connections' = [connections EXCEPT ![c] = [connections[c] EXCEPT ![q] = IF @ > 0 THEN @ - 1 ELSE 0]]
        BY <3>1 DEF Close, ConnectionsRemove, SetConnections
      <4>2. \A x \in Clients, y \in Opens \ {q} : connections'[x][y] = connections[x][y]
        BY <1>0, <4>1
      <4>3. disturbed \subseteq disturbed' /\ \A x \in Opens \ {q} : proc'[x] = proc[x]
        BY <1>0, <4>1 DEF CloseUnused
      <4> QED
        BY <1>4, <3>1, <4>2, <4>3
    <3>2. CASE ~(proc[q] = "up" /\ Connected(c))
      BY <3>2 DEF Close, ConnectionsRemove
    <3> QED
      BY <3>1, <3>2
  <2>2. UseOK(p) /\ proc'[p] = proc[p] /\ (p # q \/ proc[p] # "up")
    BY <1>4, <2>1 DEF UseInv
  <2>3. ASSUME NEW x \in alive, proc[p] = "up" PROVE Cardinality(UsedCalls(x, p)') <= connections'[x][p]
    <3>1. UsedCalls(x, p)' = UsedCalls(x, p) /\ connections'[x][p] = connections[x][p]
      BY <1>0, <1>2, <2>1, <2>2, <2>3
    <3> QED
      BY <2>2, <2>3, <3>1 DEF UseOK
  <2> QED
    BY <1>1, <2>2, <2>3, UseRemoval
<1> QED
  BY <1>3, <1>4

\* A client vanishes: it had all its connections to itself, so nobody else's count
\* changes, and what is closed has no other client.
LEMMA UseNameVanished ==
    ASSUME IInv, UseInv, NEW c \in Clients, NameVanished(c)
    PROVE  UseInv'
<1> USE DEF gateVars, clientVars
<1> DEFINE unused == {p \in Opens : connections[c][p] > 0 /\ ~IsUsed(p, c, connections[c][p])}
<1>0. /\ connections \in [Clients -> [Opens -> Nat]] /\ alive \subseteq Clients
      /\ proc \in [Opens -> {"none", "starting", "up", "closed", "crashed"}]
  BY DEF IInv, TypeOK, ServerTypeOK
<1>1. /\ c \notin alive /\ CloseUnused(unused, {})
      /\ connections' = [connections EXCEPT ![c] = [p \in Opens |-> 0]]
      /\ UNCHANGED <<open, backend, alive, closed>>
  BY DEF NameVanished, ConnectionsRemoveAll, SetConnections
<1>2. \A x \in alive : x # c /\ x \in Clients /\ connections'[x] = connections[x]
  BY <1>0, <1>1
<1>3. \A p \in unused, x \in alive : connections[x][p] = 0
  BY <1>0, <1>1 DEF IsUsed
<1> HIDE DEF unused
<1> SUFFICES ASSUME NEW p \in Opens \ disturbed' PROVE UseOK(p)'
  BY DEF UseInv
<1>4. UseOK(p)
  BY <1>1 DEF UseInv, CloseUnused
<1>5. \/ proc'[p] = proc[p]
      \/ /\ p \in unused /\ proc[p] = "up" /\ proc'[p] = "closed"
         /\ \A x \in Opens : backend[x] = p => open[x] # "add"
  BY <1>0, <1>1 DEF CloseUnused
<1>6. ASSUME NEW x \in alive, proc[p] = "up" PROVE Cardinality(UsedCalls(x, p)') <= connections'[x][p]
  <2>1. UsedCalls(x, p)' = UsedCalls(x, p)
    BY <1>1 DEF UsedCalls
  <2> QED
    BY <1>2, <1>4, <1>6, <2>1 DEF UseOK
<1> QED
  BY <1>1, <1>2, <1>3, <1>4, <1>5, <1>6, UseRemoval

\* A name vanishes: the connection which is removed is one to a subprocess that is
\* gone, or to one taken by mistake, which is noted.
LEMMA UseVanished ==
    ASSUME IInv, UseInv, NEW r \in Opens, SubprocessVanished(r)
    PROVE  UseInv'
<1> USE OpensAssumption DEF gateVars, clientVars
<1> DEFINE c == ClientOf[r]
           q == subprocess_helpers[SourceOf[r]]
<1>0. /\ connections \in [Clients -> [Opens -> Nat]] /\ alive \subseteq Clients /\ c \in Clients
      /\ proc \in [Opens -> {"none", "starting", "up", "closed", "crashed"}]
      /\ q \in Opens \cup {None}
  BY DEF IInv, TypeOK, ServerTypeOK
<1>1. UNCHANGED <<open, backend, alive, closed>> /\ proc[r] # "up"
  BY DEF SubprocessVanished
<1>2. CASE q = None \/ ~Connected(c)
  <2>1. UNCHANGED <<proc, connections, disturbed>>
    BY <1>2 DEF SubprocessVanished, ConnectionsRemove
  <2> QED
    BY <1>1, <2>1 DEF UseInv, UseOK, UsedCalls, InUse, Keeps
<1>3. CASE q # None /\ Connected(c)
  <2>1. /\ CloseUnused(IF IsUsed(q, c, 1) THEN {} ELSE {q}, {q} \ {r})
        /\ connections' = [connections EXCEPT ![c] = [connections[c] EXCEPT ![q] = IF @ > 0 THEN @ - 1 ELSE 0]]
    BY <1>3 DEF SubprocessVanished, ConnectionsRemove, SetConnections
  <2>2. \A x \in Clients, p \in Opens \ {q} : connections'[x][p] = connections[x][p]
    BY <1>0, <2>1
  <2> SUFFICES ASSUME NEW p \in Opens \ disturbed' PROVE UseOK(p)'
    BY DEF UseInv
  <2>3. UseOK(p) /\ proc'[p] = proc[p] /\ (p # q \/ proc[p] # "up")
    BY <1>0, <1>1, <2>1 DEF UseInv, CloseUnused
  <2>4. ASSUME NEW x \in alive, proc[p] = "up" PROVE Cardinality(UsedCalls(x, p)') <= connections'[x][p]
    <3>1. UsedCalls(x, p)' = UsedCalls(x, p)
      BY <1>1 DEF UsedCalls
    <3>2. connections'[x][p] = connections[x][p]
      BY <1>0, <2>2, <2>3, <2>4
    <3> QED
      BY <2>3, <2>4, <3>1, <3>2 DEF UseOK
  <2> QED
    BY <1>1, <2>3, <2>4, UseRemoval
<1> QED
  BY <1>2, <1>3

\* A call gets its connection.
LEMMA UseAdd ==
    ASSUME IInv, UseInv, NEW o \in Opens, AddConnection(o)
    PROVE  UseInv'
<1> USE OpensAssumption DEF clientVars
<1> DEFINE c == ClientOf[o]
           q == backend[o]
           pc == IF Appearing(o) THEN "insert" ELSE "opened"
<1>0. /\ connections \in [Clients -> [Opens -> Nat]] /\ alive \subseteq Clients /\ c \in Clients
      /\ q \in Opens /\ TypeOK
  BY DEF IInv, TypeOK, ServerTypeOK, AddConnection, CallInv
<1>1. /\ open[o] = "add" /\ MoveAndSignal(o, pc, StateAfterCreate) /\ pc \in {"insert", "opened"}
      /\ connections' = [connections EXCEPT ![c][q] = @ + 1]
      /\ UNCHANGED <<backend, closed, alive, proc, disturbed>>
  BY DEF AddConnection
<1>2. /\ open'[o] = pc
      /\ \A x \in Opens \ {o} : open'[x] = open[x] \/ (open[x] = "condwait" /\ open'[x] = "gate")
  BY <1>0, <1>1, SignalMoves DEF OpenStates
<1> HIDE DEF pc
<1>3. /\ connections'[c][q] = connections[c][q] + 1
      /\ \A x \in Clients, p \in Opens : p # q \/ x # c => connections'[x][p] = connections[x][p]
  BY <1>0, <1>1
<1> SUFFICES ASSUME NEW p \in Opens \ disturbed PROVE UseOK(p)'
  BY <1>1 DEF UseInv
<1>4. UseOK(p)
  BY DEF UseInv
<1>5. ASSUME proc[p] = "up", NEW x \in alive PROVE Cardinality(UsedCalls(x, p)') <= connections'[x][p]
  <2>1. Cardinality(UsedCalls(x, p)) <= connections[x][p] /\ Cardinality(UsedCalls(x, p)) \in Nat
    BY <1>4, <1>5, UsedFinite DEF UseOK
  <2>2. CASE p = q /\ x = c
    <3>1. UsedCalls(c, q)' \in SUBSET (UsedCalls(c, q) \cup {o})
      BY <1>1, <1>2 DEF UsedCalls
    <3>2. /\ IsFiniteSet(UsedCalls(c, q) \cup {o})
          /\ Cardinality(UsedCalls(c, q) \cup {o}) <= Cardinality(UsedCalls(c, q)) + 1
          /\ Cardinality(UsedCalls(c, q) \cup {o}) \in Nat
      <4>1. IsFiniteSet(UsedCalls(c, q)) /\ Cardinality(UsedCalls(c, q)) \in Nat
        BY UsedFinite
      <4>2. /\ IsFiniteSet(UsedCalls(c, q) \cup {o})
            /\ Cardinality(UsedCalls(c, q) \cup {o}) =
                 IF o \in UsedCalls(c, q) THEN Cardinality(UsedCalls(c, q)) ELSE Cardinality(UsedCalls(c, q)) + 1
        BY <4>1, FS_AddElement
      <4> QED
        BY <4>1, <4>2
    <3>3. /\ Cardinality(UsedCalls(c, q)') <= Cardinality(UsedCalls(c, q) \cup {o})
          /\ Cardinality(UsedCalls(c, q)') \in Nat
      BY <3>1, <3>2, FS_Subset, FS_CardinalityType
    <3>4. Cardinality(UsedCalls(c, q)) <= connections[c][q] /\ Cardinality(UsedCalls(c, q)) \in Nat
      BY <2>1, <2>2
    <3>5. Cardinality(UsedCalls(c, q)') <= connections'[c][q]
      BY <1>0, <1>3, <3>2, <3>3, <3>4
    <3>6. UsedCalls(x, p)' = UsedCalls(c, q)'
      BY <1>1, <2>2 DEF UsedCalls
    <3> QED
      BY <2>2, <3>5, <3>6
  <2>3. CASE p # q \/ x # c
    <3>1. UsedCalls(x, p)' = UsedCalls(x, p)
      BY <1>1, <1>2, <2>3 DEF UsedCalls
    <3>2. connections'[x][p] = connections[x][p]
      BY <1>0, <1>3, <2>3
    <3> QED
      BY <2>1, <3>1, <3>2
  <2> QED
    BY <2>2, <2>3
<1>6. ASSUME proc[p] = "closed", NEW x \in Opens, backend[x] = p PROVE open'[x] # "add" /\ ~InUse(x)'
  <2>1. open[x] # "add" /\ ~InUse(x) /\ x # o
    BY <1>1, <1>4, <1>6 DEF UseOK
  <2> QED
    BY <1>1, <1>2, <2>1 DEF InUse, Keeps
<1> QED
  BY <1>1, <1>5, <1>6 DEF UseOK

\* Every step keeps a connection for each call, or notes that it does not.
LEMMA UseInductive == IInv /\ UseInv /\ [Next]_vars => UseInv'
<1> SUFFICES ASSUME IInv, UseInv, [Next]_vars PROVE UseInv'
  OBVIOUS
<1> USE OpensAssumption DEF subprocessVars, serverVars, gateVars, clientVars
<1>0. /\ open \in [Opens -> OpenStates] /\ backend \in [Opens -> Opens \cup {None}] /\ TypeOK
      /\ proc \in [Opens -> {"none", "starting", "up", "closed", "crashed"}]
      /\ connections \in [Clients -> [Opens -> Nat]] /\ alive \subseteq Clients
  BY DEF IInv, TypeOK, ServerTypeOK
<1>1. ASSUME \A p \in Opens \ disturbed : proc'[p] = proc[p] \/ proc'[p] \notin {"up", "closed"},
             alive' \subseteq alive, UNCHANGED <<closed, connections, disturbed>>,
             \A o \in Opens : open'[o] \in {"add", "insert", "opened"} =>
                /\ backend'[o] = backend[o]
                /\ open'[o] = "add" => open[o] = "add"
                /\ open'[o] \in {"insert", "opened"} => open[o] \in {"insert", "opened"}
      PROVE  UseInv'
  <2> SUFFICES ASSUME NEW p \in Opens \ disturbed PROVE UseOK(p)'
    BY <1>1 DEF UseInv
  <2>1. CASE proc'[p] = proc[p]
    BY <1>0, <1>1, <2>1, UseFrame DEF UseInv
  <2>2. CASE proc'[p] \notin {"up", "closed"}
    BY <2>2 DEF UseOK
  <2> QED
    BY <1>1, <2>1, <2>2
<1>2. ASSUME NEW o \in Opens, Open(o) \/ Gate(o) \/ LookupHelper(o) \/ Spawn(o) PROVE UseInv'
  BY <1>0, <1>1, <1>2 DEF Open, OpenAddressBook, Gate, PassGate, LookupHelper, Spawn
<1>3. ASSUME NEW o \in Opens, SpawnFails(o) \/ CreateFails(o) \/ InsertHelper(o) PROVE UseInv'
  <2>1. PICK pc \in {"failed", "insert_failed", "opened"}, state \in {"NONE", "READY", StateAfterCreate} :
           /\ open[o] \in {"start", "create", "insert", "insert_failed"} /\ MoveAndSignal(o, pc, state)
           /\ pc = "opened" => open[o] = "insert"
    BY <1>3 DEF SpawnFails, CreateFails, InsertHelper
  <2>2. /\ open'[o] = pc
        /\ \A p \in Opens \ {o} : open'[p] = open[p] \/ (open[p] = "condwait" /\ open'[p] = "gate")
    BY <1>0, <2>1, SignalMoves DEF OpenStates
  <2>3. UNCHANGED <<backend, proc, alive, closed, connections, disturbed>>
    BY <1>3 DEF SpawnFails, CreateFails, InsertHelper
  <2> QED
    BY <1>1, <2>1, <2>2, <2>3
<1>4. ASSUME NEW o \in Opens, Create(o) PROVE UseInv'
  <2>1. /\ open[o] = "create" /\ proc[backend[o]] = "up" /\ open' = [open EXCEPT ![o] = "add"]
        /\ UNCHANGED <<backend, proc, alive, closed, connections, disturbed>>
    BY <1>4 DEF Create
  <2> SUFFICES ASSUME NEW p \in Opens \ disturbed PROVE UseOK(p)'
    BY <2>1 DEF UseInv
  <2>2. UseOK(p)
    BY DEF UseInv
  <2>3. \A x \in alive : UsedCalls(x, p)' = UsedCalls(x, p)
    BY <1>0, <2>1 DEF UsedCalls
  <2>4. proc[p] = "closed" => \A x \in Opens : backend[x] = p => x # o
    BY <2>1
  <2> QED
    BY <1>0, <2>1, <2>2, <2>3, <2>4 DEF UseOK, InUse, Keeps
<1>5. ASSUME NEW p \in Opens, SubprocessAppeared(p) PROVE UseInv'
  BY <1>0, <1>1, <1>5 DEF SubprocessAppeared
<1>6. ASSUME NEW p \in Opens, Crash(p) PROVE UseInv'
  BY <1>0, <1>1, <1>6 DEF Crash
<1>7. ASSUME NEW p \in Opens, OwnName(p) PROVE UseInv'
  <2>1. /\ proc[p] = "starting" /\ proc' = [proc EXCEPT ![p] = "up"]
        /\ UNCHANGED <<open, backend, alive, closed, connections, disturbed>>
    BY <1>7 DEF OwnName
  <2>2. \A x \in Opens : backend[x] = p => open[x] = "spawned"
    BY <2>1 DEF IInv, ProcInv
  <2> SUFFICES ASSUME NEW q \in Opens \ disturbed PROVE UseOK(q)'
    BY <2>1 DEF UseInv
  <2>3. CASE q # p
    BY <1>0, <2>1, <2>3, UseFrame DEF UseInv
  <2>4. CASE q = p
    <3>1. \A c \in alive : UsedCalls(c, q)' = {}
      BY <2>1, <2>2, <2>4 DEF UsedCalls
    <3>2. \A c \in alive : Cardinality(UsedCalls(c, q)') = 0
      BY <3>1, FS_EmptySet
    <3>3. \A c \in alive : 0 <= connections[c][q]
      BY <1>0
    <3> QED
      BY <1>0, <2>1, <2>4, <3>2, <3>3 DEF UseOK
  <2> QED
    BY <2>3, <2>4
<1>8. ASSUME NEW c \in Clients, Die(c) PROVE UseInv'
  BY <1>0, <1>1, <1>8 DEF Die, ClientDies
<1>9. CASE Inactive \/ Terminate
  BY <1>1, <1>9 DEF Inactive, InactivityTimeout, Terminate, Quit
<1>10. CASE UNCHANGED vars
  BY <1>1, <1>10 DEF vars
<1> QED
  BY <1>2, <1>3, <1>4, <1>5, <1>6, <1>7, <1>8, <1>9, <1>10, UseAdd, UseClose, UseVanished, UseNameVanished
     DEF Next, OpenStep, ProcStep

\* The subprocess of a client is not closed by what other clients do, nor by the ends
\* of other subprocesses, unless the factory closes it under a call about to use it
\* or takes it for another one; for any number of calls, clients and crashes.
THEOREM KeptCorrect == Spec => []KeptWhileUsed
<1>1. Init => UseInv
  <2> SUFFICES ASSUME Init, NEW p \in Opens PROVE UseOK(p)
    BY DEF UseInv
  <2> QED
    BY DEF Init, UseOK
<1>2. IInv /\ UseInv /\ [Next]_vars => UseInv'
  BY UseInductive
<1>3. IInv /\ UseInv => KeptWhileUsed
  <2> SUFFICES ASSUME IInv, UseInv, NEW o \in Opens, InUse(o), backend[o] \notin disturbed
               PROVE  proc[backend[o]] # "closed"
    BY DEF KeptWhileUsed
  <2>1. backend[o] \in Opens
    BY DEF InUse, IInv, CallInv
  <2> QED
    BY <2>1 DEF UseInv, UseOK
<1> QED
  BY <1>1, <1>2, <1>3, SpecIInv, PTL DEF Spec

-----------------------------------------------------------------------------
(* ---- nobody is forgotten at the gate ---- *)

\* The calls which are behind the gate, and are going to signal.
Behind == {"spawn", "start", "spawned", "create", "add", "insert", "insert_failed"}

\* A closed gate has somebody behind it who is going to open it, and a thread waits
\* for spawn_subprocess_cond only while another one is behind the gate or goes there
\* next, be it a call whose subprocess never appears.
GateIsServed ==
    /\ spawn_subprocess_state = "BLOCKED" => \E o \in Opens : open[o] \in Behind
    /\ (\E w \in Opens : open[w] = "condwait") => \E o \in Opens : open[o] \in Behind \cup {"gate"}

\* Who opens the gate wakes a thread if there is one.
LEMMA SignalWakes ==
    ASSUME TypeOK, NEW o \in Opens, NEW pc \in OpenStates \ {"condwait"}, NEW state, state # "BLOCKED",
           open[o] # "condwait", MoveAndSignal(o, pc, state)
    PROVE  GateIsServed'
<1> USE DEF TypeOK, ServerTypeOK
<1>1. CASE /\ {w \in Opens : open[w] = "condwait"} = {}
           /\ spawn_subprocess_state' = state
           /\ open' = [open EXCEPT ![o] = pc]
  BY <1>1 DEF GateIsServed
<1>2. ASSUME NEW w \in Opens, open[w] = "condwait", spawn_subprocess_state' = state,
             open' = [open EXCEPT ![o] = pc, ![w] = "gate"]
      PROVE  GateIsServed'
  BY <1>2 DEF GateIsServed
<1> QED
  BY <1>1, <1>2 DEF MoveAndSignal

\* No thread is the last to go and leaves another in its wait.
LEMMA WakeInductive == TypeOK /\ GateIsServed /\ [Next]_vars => GateIsServed'
<1> SUFFICES ASSUME TypeOK, GateIsServed, [Next]_vars PROVE GateIsServed'
  OBVIOUS
<1> USE DEF TypeOK, ServerTypeOK
<1>1. ASSUME NEW o \in Opens, NEW pc \in Behind, open' = [open EXCEPT ![o] = pc]
      PROVE  GateIsServed'
  BY <1>1 DEF GateIsServed
<1>2. ASSUME NEW o \in Opens, Open(o) PROVE GateIsServed'
  BY <1>2 DEF Open, OpenAddressBook, GateIsServed, Behind
<1>3. ASSUME NEW o \in Opens, Gate(o) PROVE GateIsServed'
  <2>1. CASE spawn_subprocess_state = "BLOCKED"
    BY <1>3, <2>1 DEF Gate, PassGate, GateIsServed, Behind
  <2>2. CASE spawn_subprocess_state # "BLOCKED"
    BY <1>1, <1>3, <2>2 DEF Gate, PassGate, Behind
  <2> QED
    BY <2>1, <2>2
<1>4. ASSUME NEW o \in Opens, LookupHelper(o) \/ Spawn(o) \/ Create(o) PROVE GateIsServed'
  BY <1>1, <1>4 DEF LookupHelper, Spawn, Create, Behind
<1>5. ASSUME NEW o \in Opens, SubprocessAppeared(o) PROVE GateIsServed'
  BY <1>1, <1>5 DEF SubprocessAppeared, Behind
<1>6. StateAfterCreate # "BLOCKED"
  BY DEF StateAfterCreate
<1>7. ASSUME NEW o \in Opens, SpawnFails(o) PROVE GateIsServed'
  BY <1>7, SignalWakes DEF SpawnFails, OpenStates
<1>8. ASSUME NEW o \in Opens, CreateFails(o) PROVE GateIsServed'
  <2>1. PICK pc \in {"insert_failed", "failed"} : MoveAndSignal(o, pc, StateAfterCreate)
    BY <1>8 DEF CreateFails
  <2> QED
    BY <1>6, <1>8, <2>1, SignalWakes DEF CreateFails, OpenStates
<1>9. ASSUME NEW o \in Opens, AddConnection(o) PROVE GateIsServed'
  <2>1. PICK pc \in {"insert", "opened"} : MoveAndSignal(o, pc, StateAfterCreate)
    BY <1>9 DEF AddConnection
  <2> QED
    BY <1>6, <1>9, <2>1, SignalWakes DEF AddConnection, OpenStates
<1>10. ASSUME NEW o \in Opens, InsertHelper(o) PROVE GateIsServed'
  <2>1. PICK pc \in {"opened", "failed"} : MoveAndSignal(o, pc, "READY")
    BY <1>10 DEF InsertHelper
  <2> QED
    BY <1>10, <2>1, SignalWakes DEF InsertHelper, OpenStates
<1>11. ASSUME UNCHANGED gateVars PROVE GateIsServed'
  BY <1>11 DEF gateVars, GateIsServed
<1> QED
  BY <1>2, <1>3, <1>4, <1>5, <1>7, <1>8, <1>9, <1>10, <1>11
     DEF Next, OpenStep, ProcStep, OwnName, SubprocessVanished, Crash, Close, Die, ClientDies,
         NameVanished, Inactive, InactivityTimeout, Terminate, Quit, vars

\* No wakeup is lost at the gate, although g_cond_signal() wakes one thread only and
\* several calls can be behind it: the safety half of what Settled says of the calls.
THEOREM NoLostWakeup == Spec => []GateIsServed
<1>1. Init => GateIsServed
  BY DEF Init, ServerInit, GateIsServed
<1> QED
  BY <1>1, WakeInductive, TypeCorrect, PTL DEF Spec
=============================================================================
