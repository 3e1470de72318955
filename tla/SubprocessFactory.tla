------------------------- MODULE SubprocessFactory -------------------------
(***************************************************************************)
(* EDataFactory (src/libebackend/e-data-factory.c) built with              *)
(* ENABLE_BACKEND_PER_PROCESS: each backend lives in a subprocess, which   *)
(* the factory spawns, finds by its bus name, and tells to close when no   *)
(* client uses it any more.                                                *)
(*                                                                         *)
(* The callback of the appearing name calls Create and waits for it in the *)
(* main loop; a call which finds a helper does the same in its own thread. *)
(* A subprocess ends when it is told to close, when it crashes, and when   *)
(* the factory goes (evolution-addressbook-factory-subprocess.c).          *)
(***************************************************************************)
EXTENDS FactoryServer

CONSTANT MaxCrashes   \* bound: subprocesses which crash

VARIABLES
    subprocess_helpers,   \* the subprocess of each source
    proc,                 \* the subprocesses
    watch,                \* what the watch of its bus name has told
    connections,          \* how often each client has each subprocess
    disturbed             \* history: subprocesses which may be closed by mistake

subprocessVars == <<subprocess_helpers, proc, watch, connections, disturbed>>
vars == <<serverVars, gateVars, backend, clientVars, watched_names, subprocessVars>>

TypeOK ==
    /\ ServerTypeOK
    /\ subprocess_helpers \in [Sources -> Opens \cup {None}]
    /\ proc \in [Opens -> {"none", "starting", "up", "closed", "crashed"}]
    /\ watch \in [Opens -> {"none", "new", "absent", "present", "off"}]
    /\ connections \in [Clients -> [Opens -> Nat]]
    /\ disturbed \in SUBSET Opens

Init ==
    /\ ServerInit
    /\ subprocess_helpers = [s \in Sources |-> None]
    /\ proc = [p \in Opens |-> "none"]
    /\ watch = [p \in Opens |-> "none"]
    /\ connections = [c \in Clients |-> [p \in Opens |-> 0]]
    /\ disturbed = {}

-----------------------------------------------------------------------------
\* Call o spawned the subprocess, and is served by the callback in the main loop.
Appearing(o) == backend[o] = o /\ open[o] \in {"create", "add", "insert", "insert_failed"}

MainFree == running /\ \A o \in Opens : ~Appearing(o)

InUse(o) == open[o] \in {"insert", "opened"} /\ Keeps(o)

Connected(c) == \E p \in Opens : connections[c][p] > 0

\* Mutation: forgets that the client can have the subprocess several times.
IsUsedByOthers(p, c, n) == \E d \in Clients \ {c} : connections[d][p] > 0

\* data_factory_verify_subprocess_backend_proxy_is_used(), but for client c
\* itself, which has it n times.
IsUsed(p, c, n) == connections[c][p] > n \/ \E d \in Clients \ {c} : connections[d][p] > 0

\* Close is called for each of the subprocesses, and waited for.  The history notes
\* the ones a call is about to use, which is not seen, and the mistaken ones.
CloseUnused(unused, mistaken) ==
    /\ proc' = [p \in Opens |-> IF p \in unused /\ proc[p] = "up" THEN "closed" ELSE proc[p]]
    /\ disturbed' = disturbed \cup mistaken \cup
           {p \in unused : \E o \in Opens : backend[o] = p /\ open[o] \in {"create", "add"}}

\* The array of client c becomes left; the last entry's removal drops the hold.
SetConnections(c, left) ==
    /\ connections' = [connections EXCEPT ![c] = left]
    /\ IF Connected(c) /\ \A p \in Opens : left[p] = 0
       THEN e_dbus_server_release
       ELSE UNCHANGED <<use_count, inactivity_timeout>>

\* Mutation: removes without looking whether it is there.
RemoveUnchecked(c, p, mistaken) ==
    IF Connected(c)
    THEN /\ CloseUnused(IF IsUsed(p, c, 1) THEN {} ELSE {p}, mistaken)
         /\ SetConnections(c, [connections[c] EXCEPT ![p] = @ - 1])
    ELSE UNCHANGED <<proc, connections, use_count, inactivity_timeout, disturbed>>

\* data_factory_connections_remove() of one subprocess.
ConnectionsRemove(c, p, mistaken) ==
    IF Connected(c)
    THEN /\ CloseUnused(IF IsUsed(p, c, 1) THEN {} ELSE {p}, mistaken)
         /\ SetConnections(c, [connections[c] EXCEPT ![p] = IF @ > 0 THEN @ - 1 ELSE 0])
    ELSE UNCHANGED <<proc, connections, use_count, inactivity_timeout, disturbed>>

\* data_factory_connections_remove() of all the subprocesses of a client.
ConnectionsRemoveAll(c) ==
    /\ CloseUnused({p \in Opens : connections[c][p] > 0 /\ ~IsUsed(p, c, connections[c][p])}, {})
    /\ SetConnections(c, [p \in Opens |-> 0])

-----------------------------------------------------------------------------
Open(o) ==
    /\ MainFree
    /\ OpenAddressBook(o)
    /\ UNCHANGED subprocessVars

Gate(o) ==
    /\ PassGate(o)
    /\ UNCHANGED subprocessVars

\* data_factory_spawn_subprocess_backend() looks for the helper.
LookupHelper(o) ==
    LET p == subprocess_helpers[SourceOf[o]]
    IN  /\ running
        /\ open[o] = "spawn"
        /\ IF p = None
           THEN open' = [open EXCEPT ![o] = "start"] /\ UNCHANGED backend
           ELSE open' = [open EXCEPT ![o] = "create"] /\ backend' = [backend EXCEPT ![o] = p]
        /\ UNCHANGED <<serverVars, spawn_subprocess_state, clientVars, watched_names, subprocessVars>>

\* There is no such source or factory of backends, or g_subprocess_new() fails.
SpawnFails(o) ==
    /\ running
    /\ open[o] = "start"
    /\ e_dbus_server_release
    /\ MoveAndSignal(o, "failed", "NONE")
    /\ UNCHANGED <<running, backend, clientVars, watched_names, subprocessVars>>

Spawn(o) ==
    /\ running
    /\ open[o] = "start"
    /\ spawn_subprocess_state' = "BLOCKED"
    /\ open' = [open EXCEPT ![o] = "spawned"]
    /\ backend' = [backend EXCEPT ![o] = o]
    /\ proc' = [proc EXCEPT ![o] = "starting"]
    /\ watch' = [watch EXCEPT ![o] = "new"]
    /\ UNCHANGED <<serverVars, clientVars, watched_names, subprocess_helpers, connections, disturbed>>

\* The subprocess has got its bus name.
OwnName(p) ==
    /\ running
    /\ proc[p] = "starting"
    /\ proc' = [proc EXCEPT ![p] = "up"]
    /\ UNCHANGED <<serverVars, gateVars, backend, clientVars, watched_names,
                   subprocess_helpers, watch, connections, disturbed>>

Crash(p) ==
    /\ running
    /\ proc[p] \in {"starting", "up"}
    /\ Cardinality({q \in Opens : proc[q] = "crashed"}) < MaxCrashes
    /\ proc' = [proc EXCEPT ![p] = "crashed"]
    /\ UNCHANGED <<serverVars, gateVars, backend, clientVars, watched_names,
                   subprocess_helpers, watch, connections, disturbed>>

\* data_factory_subprocess_appeared_cb() begins.
SubprocessAppeared(p) ==
    /\ MainFree
    /\ proc[p] = "up" /\ watch[p] \in {"new", "absent"}
    /\ watch' = [watch EXCEPT ![p] = "present"]
    /\ open' = [open EXCEPT ![p] = "create"]
    /\ UNCHANGED <<serverVars, spawn_subprocess_state, backend, clientVars, watched_names,
                   subprocess_helpers, proc, connections, disturbed>>

\* data_factory_call_subprocess_backend_create_sync(): Create returns a path, and
\* the client is watched.
Create(o) ==
    /\ running
    /\ open[o] = "create" /\ proc[backend[o]] = "up"
    /\ open' = [open EXCEPT ![o] = "add"]
    /\ WatchName(ClientOf[o])
    /\ UNCHANGED <<serverVars, spawn_subprocess_state, backend, clientVars, subprocessVars>>

\* Mutation: leaves the gate as it is.
StateKept == spawn_subprocess_state

StateAfterCreate == IF spawn_subprocess_state = "BLOCKED" THEN "NONE" ELSE spawn_subprocess_state

\* The subprocess refuses, or is gone: the error is the answer.
CreateFails(o) ==
    /\ running
    /\ open[o] = "create"
    /\ e_dbus_server_release
    /\ MoveAndSignal(o, IF Appearing(o) THEN "insert_failed" ELSE "failed", StateAfterCreate)
    /\ UNCHANGED <<running, backend, clientVars, watched_names, subprocessVars>>

\* Mutation: holds the process once more for each connection of a client.
AddHeldConnection(o) ==
    LET c == ClientOf[o]
    IN  /\ running
        /\ open[o] = "add"
        /\ connections' = [connections EXCEPT ![c][backend[o]] = @ + 1]
        /\ MoveAndSignal(o, IF Appearing(o) THEN "insert" ELSE "opened", StateAfterCreate)
        /\ UNCHANGED <<serverVars, backend, clientVars, watched_names,
                       subprocess_helpers, proc, watch, disturbed>>

\* data_factory_connections_add(), complete_open(), the hold of the call is
\* dropped, and the gate is opened.
AddConnection(o) ==
    LET c == ClientOf[o]
    IN  /\ running
        /\ open[o] = "add"
        /\ IF Connected(c) THEN e_dbus_server_release ELSE UNCHANGED <<use_count, inactivity_timeout>>
        /\ connections' = [connections EXCEPT ![c][backend[o]] = @ + 1]
        /\ MoveAndSignal(o, IF Appearing(o) THEN "insert" ELSE "opened", StateAfterCreate)
        /\ UNCHANGED <<running, backend, clientVars, watched_names,
                       subprocess_helpers, proc, watch, disturbed>>

\* The rest of data_factory_subprocess_appeared_cb().
InsertHelper(o) ==
    /\ running
    /\ open[o] \in {"insert", "insert_failed"}
    /\ subprocess_helpers' = [subprocess_helpers EXCEPT ![SourceOf[o]] = o]
    /\ MoveAndSignal(o, IF open[o] = "insert" THEN "opened" ELSE "failed", "READY")
    /\ UNCHANGED <<serverVars, backend, clientVars, watched_names, proc, watch, connections, disturbed>>

\* data_factory_subprocess_vanished_cb(), also called when the watch begins and
\* the name has no owner yet.  The helper it removes is that of the source,
\* whichever subprocess that is; then the name is not watched any more.
SubprocessVanished(p) ==
    LET q == subprocess_helpers[SourceOf[p]]
    IN  /\ MainFree
        /\ proc[p] # "up" /\ watch[p] \in {"new", "present"}
        /\ IF q = None
           THEN /\ watch' = [watch EXCEPT ![p] = "absent"]
                /\ UNCHANGED <<use_count, inactivity_timeout, subprocess_helpers, proc, connections, disturbed>>
           ELSE /\ watch' = [watch EXCEPT ![p] = "off"]
                /\ subprocess_helpers' = [subprocess_helpers EXCEPT ![SourceOf[p]] = None]
                /\ ConnectionsRemove(ClientOf[p], q, {q} \ {p})
        /\ UNCHANGED <<running, gateVars, backend, clientVars, watched_names>>

-----------------------------------------------------------------------------
\* The client calls Close of the address book; its subprocess emits
\* "backend-closed", which data_factory_backend_closed_cb() takes.
Close(o) ==
    /\ MainFree
    /\ InUse(o)
    /\ closed' = closed \cup {o}
    /\ IF proc[backend[o]] = "up"
       THEN ConnectionsRemove(ClientOf[o], backend[o], {})
       ELSE UNCHANGED <<proc, connections, use_count, inactivity_timeout, disturbed>>
    /\ UNCHANGED <<running, gateVars, backend, alive, watched_names, subprocess_helpers, watch>>

Die(c) ==
    /\ running
    /\ ClientDies(c)
    /\ UNCHANGED subprocessVars

\* data_factory_name_vanished_cb()
NameVanished(c) ==
    /\ MainFree
    /\ c \in watched_names \ alive
    /\ ConnectionsRemoveAll(c)
    /\ watched_names' = watched_names \ {c}
    /\ UNCHANGED <<running, gateVars, backend, clientVars, subprocess_helpers, watch>>

Inactive ==
    /\ MainFree
    /\ InactivityTimeout
    /\ UNCHANGED subprocessVars

Terminate ==
    /\ MainFree
    /\ Quit
    /\ UNCHANGED subprocessVars

-----------------------------------------------------------------------------
OpenStep(o) ==
    \/ Gate(o) \/ LookupHelper(o) \/ SpawnFails(o) \/ Spawn(o) \/ Create(o) \/ CreateFails(o)
    \/ AddConnection(o) \/ InsertHelper(o)

ProcStep(p) == OwnName(p) \/ SubprocessAppeared(p) \/ SubprocessVanished(p)

Next ==
    \/ \E o \in Opens : Open(o) \/ OpenStep(o) \/ Close(o)
    \/ \E p \in Opens : ProcStep(p) \/ Crash(p)
    \/ \E c \in Clients : Die(c) \/ NameVanished(c)
    \/ Inactive \/ Terminate

(* The threads are scheduled, the main loop runs its sources, and a        *)
(* subprocess which does not crash gets its name.                          *)
Fairness ==
    /\ \A o \in Opens : WF_vars(OpenStep(o))
    /\ \A p \in Opens : WF_vars(ProcStep(p))
    /\ \A c \in Clients : WF_vars(NameVanished(c))
    /\ WF_vars(Inactive)

Spec == Init /\ [][Next]_vars /\ Fairness

-----------------------------------------------------------------------------
(* Properties.                                                             *)

\* The process is held once for each call under way and once for each client
\* with a connection, and its end is scheduled exactly when neither is left.
HoldsExact ==
    /\ use_count = Cardinality({o \in Opens : open[o] \in {"gate", "condwait", "spawn", "start", "spawned",
                                                           "create", "add"}})
                   + Cardinality({c \in Clients : Connected(c)})
    /\ running /\ (\E o \in Opens : open[o] # "new") => (inactivity_timeout <=> use_count = 0)

\* The subprocess of a client is not told to close by what other clients do,
\* unless the factory closes it under a call which is about to use it, or takes it
\* for another one.
KeptWhileUsed ==
    \A o \in Opens : InUse(o) /\ backend[o] \notin disturbed => proc[backend[o]] # "closed"

\* The bus name of the subprocess is never going to appear to the watch.
Stuck(o) == open[o] = "spawned" /\ (proc[o] = "crashed" \/ watch[o] = "off")

\* A connection nobody removes: the end of the client was noticed before it was
\* there, or its subprocess is gone, which removes the connection of one client.
Leaked == \E c \in Clients, p \in Opens :
              connections[c][p] > 0 /\ (c \notin alive \cup watched_names \/ proc[p] \in {"closed", "crashed"})

\* When nobody calls any more, each call has been answered, and the process has
\* ended unless some client still has a subprocess.  Excepted are a call whose
\* subprocess ends before it appears, or whose watch is taken away, and leaked
\* connections.
Settled ==
    <>[](\/ \E o \in Opens : Stuck(o)
         \/ ~running
         \/ /\ \A o \in Opens : open[o] \in {"new", "opened", "failed"}
            /\ \/ \E o \in Opens : InUse(o)
               \/ \A o \in Opens : open[o] = "new"
               \/ Leaked)
=============================================================================
