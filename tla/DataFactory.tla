---------------------------- MODULE DataFactory ----------------------------
(***************************************************************************)
(* EDataFactory (src/libebackend/e-data-factory.c) in the default build,   *)
(* where the backends live in the factory's process.  A backend is kept by *)
(* the references of the clients; a toggle reference of the factory tells  *)
(* when the last of them goes, which shuts the backend down, takes it out  *)
(* of opened_backends and drops the hold of the process it stood for.      *)
(*                                                                         *)
(* Clients close a backend, or just vanish from the bus.  References which *)
(* operations in progress have on their backend only put the end of it off *)
(* and are left out.                                                       *)
(***************************************************************************)
EXTENDS FactoryServer

VARIABLES
    opened_backends,   \* the backend of each source
    refs,              \* references to each backend, without the toggle reference
    toggling,          \* backends whose last reference is gone, and not yet their hold
    backend_clients,   \* how often each client is noted to have each backend
    disturbed          \* history: backends kept by fewer references than clients

inProcessVars == <<opened_backends, refs, toggling, backend_clients, disturbed>>
vars == <<serverVars, gateVars, backend, clientVars, watched_names, inProcessVars>>

TypeOK ==
    /\ ServerTypeOK
    /\ opened_backends \in [Sources -> Opens \cup {None}]
    /\ refs \in [Opens -> Nat]
    /\ toggling \in SUBSET Opens
    /\ backend_clients \in [Clients -> [Opens -> Nat]]
    /\ disturbed \in SUBSET Opens

Init ==
    /\ ServerInit
    /\ opened_backends = [s \in Sources |-> None]
    /\ refs = [b \in Opens |-> 0]
    /\ toggling = {}
    /\ backend_clients = [c \in Clients |-> [b \in Opens |-> 0]]
    /\ disturbed = {}

-----------------------------------------------------------------------------
\* data_factory_backend_toggle_notify_cb() runs in the main loop, which gave
\* the last reference up.
MainFree == running /\ toggling = {}

InTable(b) == opened_backends[SourceOf[b]] = b

\* The client of call o has the answer, and the backend.
InUse(o) == open[o] \in {"add", "opened"} /\ Keeps(o)

\* A weak reference to a backend still gives it.
Exists(b) == refs[b] > 0 \/ InTable(b)

\* Mutation: the arrays have plain pointers, which outlive the backend.
UnrefPointer(n) ==
    LET left == [b \in Opens |-> refs[b] - n[b]]
    IN  /\ refs' = left
        /\ toggling' = toggling \cup {b \in Opens : refs[b] > 0 /\ left[b] = 0 /\ InTable(b)}

\* n[b] calls of g_object_unref() for each backend b, which end when it is gone.
Unref(n) ==
    LET left == [b \in Opens |-> IF n[b] < refs[b] THEN refs[b] - n[b] ELSE 0]
    IN  /\ refs' = left
        /\ toggling' = toggling \cup {b \in Opens : refs[b] > 0 /\ left[b] = 0 /\ InTable(b)}

Open(o) ==
    /\ MainFree
    /\ OpenAddressBook(o)
    /\ UNCHANGED inProcessVars

Gate(o) ==
    /\ PassGate(o)
    /\ UNCHANGED inProcessVars

\* The rest are the parts of data_factory_spawn_subprocess_backend().

\* Mutation: keeps the hold of the call.
UseWithoutRelease(o) ==
    LET b == opened_backends[SourceOf[o]]
    IN  /\ running
        /\ open[o] = "spawn" /\ b # None
        /\ backend' = [backend EXCEPT ![o] = b]
        /\ refs' = [refs EXCEPT ![b] = @ + 1]
        /\ open' = [open EXCEPT ![o] = "reply"]
        /\ UNCHANGED <<serverVars, spawn_subprocess_state, clientVars, watched_names,
                       opened_backends, toggling, backend_clients, disturbed>>

\* Mutation: takes no reference for the client.
UseWithoutRef(o) ==
    LET b == opened_backends[SourceOf[o]]
    IN  /\ running
        /\ open[o] = "spawn" /\ b # None
        /\ backend' = [backend EXCEPT ![o] = b]
        /\ open' = [open EXCEPT ![o] = "reply"]
        /\ disturbed' = IF b \in toggling THEN disturbed \cup {b} ELSE disturbed
        /\ e_dbus_server_release
        /\ UNCHANGED <<running, spawn_subprocess_state, clientVars, watched_names,
                       opened_backends, refs, toggling, backend_clients>>

\* The source has a backend already: its reference is the caller's, and the
\* hold taken for the call is dropped.
UseOpened(o) ==
    LET b == opened_backends[SourceOf[o]]
    IN  /\ running
        /\ open[o] = "spawn" /\ b # None
        /\ backend' = [backend EXCEPT ![o] = b]
        /\ refs' = [refs EXCEPT ![b] = @ + 1]
        /\ open' = [open EXCEPT ![o] = "reply"]
        /\ disturbed' = IF b \in toggling THEN disturbed \cup {b} ELSE disturbed
        /\ e_dbus_server_release
        /\ UNCHANGED <<running, spawn_subprocess_state, clientVars, watched_names,
                       opened_backends, toggling, backend_clients>>

\* The hold taken for the call is left to the backend.
CreateBackend(o) ==
    /\ running
    /\ open[o] = "spawn" /\ opened_backends[SourceOf[o]] = None
    /\ backend' = [backend EXCEPT ![o] = o]
    /\ refs' = [refs EXCEPT ![o] = 1]
    /\ opened_backends' = [opened_backends EXCEPT ![SourceOf[o]] = o]
    /\ open' = [open EXCEPT ![o] = "reply"]
    /\ UNCHANGED <<serverVars, spawn_subprocess_state, clientVars, watched_names,
                   toggling, backend_clients, disturbed>>

\* There is no such source or factory of backends (any more, perhaps: the backend
\* of the source is looked for later), or e_data_factory_open_backend() fails: the
\* error is the answer.
OpenFails(o) ==
    /\ running
    /\ open[o] = "spawn"
    /\ e_dbus_server_release
    /\ MoveAndSignal(o, "failed", "NONE")
    /\ UNCHANGED <<running, backend, clientVars, watched_names, inProcessVars>>

\* e_data_factory_create_backend() returns NULL, as for an EBookBackendFile whose
\* initialization fails: e_data_factory_open_backend() refuses it and sets no error.
CreateReturnsNull(o) ==
    /\ running
    /\ open[o] = "spawn" /\ opened_backends[SourceOf[o]] = None
    /\ open' = [open EXCEPT ![o] = "hung"]
    /\ UNCHANGED <<serverVars, spawn_subprocess_state, backend, clientVars, watched_names,
                   inProcessVars>>

\* complete_open() and data_factory_watched_names_add().  The array of a client
\* which vanished is still there: watching the client again, for a call it made
\* before it vanished, is going to drop the same references again.
Reply(o) ==
    LET c == ClientOf[o]
    IN  /\ running
        /\ open[o] = "reply"
        /\ open' = [open EXCEPT ![o] = "add"]
        /\ WatchName(c)
        /\ disturbed' = disturbed \cup
               IF c \in watched_names THEN {} ELSE {b \in Opens : backend_clients[c][b] > 0}
        /\ UNCHANGED <<serverVars, spawn_subprocess_state, backend, clientVars,
                       opened_backends, refs, toggling, backend_clients>>

\* data_factory_add_backend_client(), and the gate is opened.  The client, who
\* has the answer, can have closed the backend: then it is noted although the
\* client does not have it, or is gone.  The code uses its pointer to a backend
\* which is gone; that nothing is noted then is one of the possible outcomes.
AddBackendClient(o) ==
    LET b == backend[o]
    IN  /\ running
        /\ open[o] = "add"
        /\ backend_clients' = IF Exists(b) THEN [backend_clients EXCEPT ![ClientOf[o]][b] = @ + 1]
                              ELSE backend_clients
        /\ disturbed' = IF o \in closed THEN disturbed \cup {b} ELSE disturbed
        /\ MoveAndSignal(o, "opened", "NONE")
        /\ UNCHANGED <<serverVars, backend, clientVars, watched_names,
                       opened_backends, refs, toggling>>

-----------------------------------------------------------------------------
\* data_book_handle_close_cb() with e_data_factory_backend_closed_by_sender().
Close(o) ==
    LET c == ClientOf[o]
        b == backend[o]
    IN  /\ MainFree
        /\ InUse(o)
        /\ closed' = closed \cup {o}
        /\ backend_clients' = [backend_clients EXCEPT ![c][b] = IF @ > 0 THEN @ - 1 ELSE 0]
        /\ Unref([x \in Opens |-> IF x = b THEN 1 ELSE 0])
        /\ UNCHANGED <<serverVars, gateVars, backend, alive, watched_names,
                       opened_backends, disturbed>>

Die(c) ==
    /\ running
    /\ ClientDies(c)
    /\ UNCHANGED inProcessVars

\* data_factory_name_vanished_cb(): the array of the client is walked through,
\* and stays.
NameVanished(c) ==
    /\ MainFree
    /\ c \in watched_names \ alive
    /\ Unref(backend_clients[c])
    /\ watched_names' = watched_names \ {c}
    /\ UNCHANGED <<serverVars, gateVars, backend, clientVars,
                   opened_backends, backend_clients, disturbed>>

\* data_factory_backend_toggle_notify_cb(), after the backend has been told to
\* shut down: takes the backend out of the table, under the mutex.
ToggleNotify(b) ==
    /\ b \in toggling /\ InTable(b)
    /\ opened_backends' = [opened_backends EXCEPT ![SourceOf[b]] = None]
    /\ UNCHANGED <<serverVars, gateVars, backend, clientVars, watched_names,
                   refs, toggling, backend_clients, disturbed>>

\* Its last statement, without the mutex: a call may have opened the source again.
ToggleRelease(b) ==
    /\ b \in toggling /\ ~InTable(b)
    /\ toggling' = toggling \ {b}
    /\ e_dbus_server_release
    /\ UNCHANGED <<running, gateVars, backend, clientVars, watched_names,
                   opened_backends, refs, backend_clients, disturbed>>

Inactive ==
    /\ MainFree
    /\ InactivityTimeout
    /\ UNCHANGED inProcessVars

Terminate ==
    /\ MainFree
    /\ Quit
    /\ UNCHANGED inProcessVars

-----------------------------------------------------------------------------
OpenStep(o) ==
    \/ Gate(o) \/ UseOpened(o) \/ CreateBackend(o) \/ OpenFails(o) \/ CreateReturnsNull(o)
    \/ Reply(o) \/ AddBackendClient(o)

Next ==
    \/ \E o \in Opens : Open(o) \/ OpenStep(o) \/ Close(o)
    \/ \E c \in Clients : Die(c) \/ NameVanished(c)
    \/ \E b \in Opens : ToggleNotify(b) \/ ToggleRelease(b)
    \/ Inactive \/ Terminate

(* The threads are scheduled and the main loop runs its sources.           *)
Fairness ==
    /\ \A o \in Opens : WF_vars(OpenStep(o))
    /\ \A c \in Clients : WF_vars(NameVanished(c))
    /\ \A b \in Opens : WF_vars(ToggleNotify(b) \/ ToggleRelease(b))
    /\ WF_vars(Inactive)

Spec == Init /\ [][Next]_vars /\ Fairness

-----------------------------------------------------------------------------
(* Properties.                                                             *)

\* The process is held once for each call under way and once for each backend which
\* is in the table or just has been taken out of it, and its end is scheduled
\* exactly when neither is left.  A hold too few ends the process under its
\* clients, one too many keeps it for ever.
HoldsExact ==
    /\ use_count = Cardinality({o \in Opens : open[o] \in {"gate", "condwait", "spawn", "hung"}})
                   + Cardinality({b \in Opens : InTable(b) \/ b \in toggling})
    /\ running /\ (\E o \in Opens : open[o] # "new") => (inactivity_timeout <=> use_count = 0)

\* A backend which a client has is neither shut down nor taken out of the table
\* by what other clients do, whether they close it or vanish, unless the code
\* lost count of its references in one of the ways the actions note.
KeptWhileUsed ==
    \A o \in Opens : InUse(o) /\ backend[o] \notin disturbed =>
        InTable(backend[o]) /\ backend[o] \notin toggling

\* An entry of a client whose end was noticed before the entry was there.
Leaked == \E c \in Clients \ (alive \cup watched_names), b \in Opens :
              backend_clients[c][b] > 0 /\ refs[b] > 0

\* When nobody calls any more, each call has been answered, and the process has
\* ended unless some client still has a backend.  Excepted are a call whose
\* backend could not be created (it blocks the gate for all others), the entry
\* of a client who vanished too early, and a process which waits for its first
\* client.
Settled ==
    <>[](\/ \E o \in Opens : open[o] = "hung"
         \/ ~running
         \/ /\ \A o \in Opens : open[o] \in {"new", "opened", "failed"}
            /\ \/ \E o \in Opens : InUse(o)
               \/ \A o \in Opens : open[o] = "new"
               \/ Leaked)
=============================================================================
