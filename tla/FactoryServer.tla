--------------------------- MODULE FactoryServer ---------------------------
(***************************************************************************)
(* What the two builds of EDataFactory (src/libebackend/e-data-factory.c)  *)
(* have in common: the use count of EDBusServer (e-dbus-server.c), which   *)
(* ends the process when nothing needs it any more; the clients, whose bus *)
(* names are watched; and the gate before the threads which serve their    *)
(* calls, made of a mutex, a condition and a state.                        *)
(*                                                                         *)
(* The main loop runs the D-Bus handlers, the callbacks of the watches and *)
(* the timeout, one at a time; the modules which extend this one say when  *)
(* it is free to.  A backend, or a subprocess, is named by the call that   *)
(* created it.                                                             *)
(***************************************************************************)
EXTENDS Naturals, FiniteSets

CONSTANTS
    Opens,      \* calls of OpenAddressBook
    Clients,    \* the bus names they come from
    ClientOf,   \* the client of each call
    Sources,    \* what is opened
    SourceOf,   \* the source of each call
    None

ASSUME OpensAssumption ==
    /\ IsFiniteSet(Opens) /\ IsFiniteSet(Clients) /\ IsFiniteSet(Sources)
    /\ None \notin Opens
    /\ ClientOf \in [Opens -> Clients]
    /\ SourceOf \in [Opens -> Sources]

VARIABLES
    running,                 \* the main loop runs
    use_count,
    inactivity_timeout,      \* inactivity_timeout_id is set
    spawn_subprocess_state,
    open,                    \* what each call is at
    backend,                 \* the backend or subprocess each call got
    closed,                  \* calls whose result the client has closed
    alive,                   \* clients on the bus
    watched_names            \* clients being watched

serverVars == <<running, use_count, inactivity_timeout>>
gateVars == <<spawn_subprocess_state, open>>
clientVars == <<closed, alive>>

\* "condwait" waits for spawn_subprocess_cond; the states from "spawn" on are behind
\* the gate; the thread of a "hung" call has ended and has not answered it.
OpenStates == {"new", "gate", "condwait", "spawn", "reply", "add", "start", "spawned",
               "create", "insert", "insert_failed", "opened", "failed", "hung"}

ServerTypeOK ==
    /\ running \in BOOLEAN
    /\ use_count \in Nat
    /\ inactivity_timeout \in BOOLEAN
    /\ spawn_subprocess_state \in {"NONE", "BLOCKED", "READY"}
    /\ open \in [Opens -> OpenStates]
    /\ backend \in [Opens -> Opens \cup {None}]
    /\ closed \in SUBSET Opens
    /\ alive \in SUBSET Clients
    /\ watched_names \in SUBSET Clients

\* Right after dbus_server_bus_acquired(): with wait_for_client the timeout is
\* set only when the first client has come and gone.
ServerInit ==
    /\ running = TRUE
    /\ use_count = 0
    /\ inactivity_timeout \in BOOLEAN
    /\ spawn_subprocess_state = "NONE"
    /\ open = [o \in Opens |-> "new"]
    /\ backend = [o \in Opens |-> None]
    /\ closed = {}
    /\ alive = Clients
    /\ watched_names = {}

-----------------------------------------------------------------------------
(* EDBusServer.                                                            *)

e_dbus_server_hold ==
    /\ use_count' = use_count + 1
    /\ inactivity_timeout' = FALSE

\* Without a hold it does nothing.
e_dbus_server_release ==
    /\ use_count' = IF use_count > 0 THEN use_count - 1 ELSE 0
    /\ inactivity_timeout' = (inactivity_timeout \/ use_count = 1)

\* dbus_server_inactivity_timeout_cb() with e_dbus_server_quit().
InactivityTimeout ==
    /\ running
    /\ inactivity_timeout
    /\ running' = FALSE
    /\ inactivity_timeout' = FALSE
    /\ UNCHANGED <<use_count, gateVars, backend, clientVars, watched_names>>

\* dbus_server_terminate_cb(), or dbus_server_bus_name_lost().
Quit ==
    /\ running
    /\ running' = FALSE
    /\ UNCHANGED <<use_count, inactivity_timeout, gateVars, backend, clientVars, watched_names>>

-----------------------------------------------------------------------------
(* The gate.  spawn_subprocess_lock makes each of these steps atomic.      *)

\* The handler of OpenAddressBook, with e_data_factory_spawn_subprocess_backend().
OpenAddressBook(o) ==
    /\ running
    /\ open[o] = "new" /\ ClientOf[o] \in alive
    /\ open' = [open EXCEPT ![o] = "gate"]
    /\ e_dbus_server_hold
    /\ UNCHANGED <<running, spawn_subprocess_state, backend, clientVars, watched_names>>

\* One turn of the loop in data_factory_spawn_subprocess_backend_in_thread().
PassGate(o) ==
    /\ running
    /\ open[o] = "gate"
    /\ IF spawn_subprocess_state = "BLOCKED"
       THEN /\ open' = [open EXCEPT ![o] = "condwait"]
            /\ UNCHANGED spawn_subprocess_state
       ELSE /\ open' = [open EXCEPT ![o] = "spawn"]
            /\ spawn_subprocess_state' = "BLOCKED"
    /\ UNCHANGED <<serverVars, backend, clientVars, watched_names>>

\* Mutation: opens the gate and wakes nobody.
MoveSilently(o, pc, state) ==
    /\ spawn_subprocess_state' = state
    /\ open' = [open EXCEPT ![o] = pc]

\* Call o goes on at pc; spawn_subprocess_state is set and g_cond_signal() wakes
\* one of the waiting threads, if there is one.
MoveAndSignal(o, pc, state) ==
    LET waiting == {w \in Opens : open[w] = "condwait"}
    IN  /\ spawn_subprocess_state' = state
        /\ \/ waiting = {} /\ open' = [open EXCEPT ![o] = pc]
           \/ \E w \in waiting : open' = [open EXCEPT ![o] = pc, ![w] = "gate"]

\* data_factory_watched_names_add()
WatchName(c) == watched_names' = watched_names \cup {c}

\* A client leaves the bus; what it has under way stays with the factory.
ClientDies(c) ==
    /\ c \in alive
    /\ alive' = alive \ {c}
    /\ UNCHANGED <<serverVars, gateVars, backend, closed, watched_names>>

\* The client of call o has not closed what it opened.
Keeps(o) == o \notin closed /\ ClientOf[o] \in alive
=============================================================================
