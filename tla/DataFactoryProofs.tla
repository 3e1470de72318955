-------------------------- MODULE DataFactoryProofs --------------------------
(***************************************************************************)
(* Proofs about DataFactory for any calls, clients and sources.            *)
(***************************************************************************)
EXTENDS DataFactory, FiniteSetTheorems, TLAPS

(* ---- the invariants ---- *)

\* The calls before the gate or in the first part behind it have no backend yet.
Early == {"new", "gate", "condwait", "spawn"}
Behind == {"spawn", "reply", "add"}

\* One call at a time is behind the gate.
GateInv ==
    /\ \A o \in Opens : open[o] \in Behind => spawn_subprocess_state = "BLOCKED"
    /\ \A o, p \in Opens : open[o] \in Behind /\ open[p] \in Behind => o = p

\* A call has a backend which was created from "reply" on, a client closes what it
\* has been given, and a client on the bus which has been answered is watched.
CallInv ==
    /\ \A o \in Opens : open[o] \in {"reply", "add", "opened"} =>
          backend[o] \in Opens /\ open[backend[o]] \notin Early
    /\ \A o \in Opens : backend[o] # None => open[o] \in {"reply", "add", "opened"}
    /\ \A o \in closed : open[o] \in {"add", "opened"}
    /\ \A o \in Opens : open[o] \in {"add", "opened"} /\ ClientOf[o] \in alive =>
          ClientOf[o] \in watched_names

\* The table has a source's own backends; one with references is there to stay.
\* A backend which is going has been created.
TableInv ==
    /\ \A b \in toggling : open[b] \notin Early
    /\ \A s \in Sources : opened_backends[s] # None =>
          SourceOf[opened_backends[s]] = s /\ open[opened_backends[s]] \notin Early
    /\ \A b \in Opens \ disturbed : refs[b] > 0 => InTable(b) /\ b \notin toggling

\* The calls which a reference to the backend b is kept for, and those which the
\* array of the client c has an entry for.
Owned(b) ==
    {o \in Opens : /\ backend[o] = b /\ o \notin closed
                   /\ open[o] = "opened" => ClientOf[o] \in watched_names}
Noted(c, b) ==
    {o \in Opens : backend[o] = b /\ ClientOf[o] = c /\ open[o] = "opened" /\ o \notin closed}

\* The client c closed b before it was noted that it has it.
ClosedEarly(c, b) ==
    \E o \in closed : open[o] = "add" /\ backend[o] = b /\ ClientOf[o] = c

\* Unless the code has lost count, each call has its reference, and the arrays
\* never have more entries than there are calls to be undone.
RefOK(b) ==
    /\ Cardinality(Owned(b)) <= refs[b]
    /\ \A c \in Clients : backend_clients[c][b] <= Cardinality(Noted(c, b))
    /\ \A c \in Clients : ClosedEarly(c, b) \/ backend_clients[c][b] = Cardinality(Noted(c, b))

RefInv == \A b \in Opens \ disturbed : RefOK(b)

\* The holds of the process.
Held == {o \in Opens : open[o] \in {"gate", "condwait", "spawn", "hung"}}
Tabled == {b \in Opens : InTable(b) \/ b \in toggling}

-----------------------------------------------------------------------------
(* ---- types ---- *)

\* One waiting thread goes back to the gate, at most.
LEMMA SignalMoves ==
    ASSUME TypeOK, NEW o \in Opens, NEW pc \in OpenStates, NEW state,
           open[o] # "condwait", MoveAndSignal(o, pc, state)
    PROVE  /\ open' \in [Opens -> OpenStates]
           /\ open'[o] = pc
           /\ \A p \in Opens \ {o} : \/ open'[p] = open[p]
                                     \/ open[p] = "condwait" /\ open'[p] = "gate"
           /\ spawn_subprocess_state' = state
BY DEF MoveAndSignal, TypeOK, ServerTypeOK, OpenStates

\* g_object_unref() does not make the references more; the backend whose last one
\* goes is toggled.
LEMMA UnrefRefs ==
    ASSUME TypeOK, NEW n \in [Opens -> Nat], Unref(n)
    PROVE  /\ refs' \in [Opens -> Nat]
           /\ toggling' \in SUBSET Opens
           /\ \A b \in Opens : refs'[b] = IF n[b] < refs[b] THEN refs[b] - n[b] ELSE 0
           /\ \A b \in toggling' : b \in toggling \/ (refs'[b] = 0 /\ InTable(b))
           /\ toggling \subseteq toggling'
<1> DEFINE left == [b \in Opens |-> IF n[b] < refs[b] THEN refs[b] - n[b] ELSE 0]
<1>1. refs' = left /\ toggling' = toggling \cup {b \in Opens : refs[b] > 0 /\ left[b] = 0 /\ InTable(b)}
  BY DEF Unref
<1>2. left \in [Opens -> Nat]
  BY DEF TypeOK
<1>3. \A b \in Opens : left[b] = IF n[b] < refs[b] THEN refs[b] - n[b] ELSE 0
  OBVIOUS
<1> HIDE DEF left
<1> QED
  BY <1>1, <1>2, <1>3 DEF TypeOK

\* A hold and a release count.
LEMMA HoldTypes ==
    ASSUME TypeOK, e_dbus_server_hold \/ e_dbus_server_release
    PROVE  use_count' \in Nat /\ inactivity_timeout' \in BOOLEAN
<1>1. use_count' \in Nat
  BY DEF TypeOK, ServerTypeOK, e_dbus_server_hold, e_dbus_server_release
<1>2. inactivity_timeout' \in BOOLEAN
  BY Zenon DEF e_dbus_server_hold, e_dbus_server_release
<1> QED
  BY <1>1, <1>2

\* The steps of calls, clients and the main loop keep the types.
LEMMA TypeInductive == TypeOK /\ CallInv /\ [Next]_vars => TypeOK'
<1> SUFFICES ASSUME TypeOK, CallInv, [Next]_vars PROVE TypeOK'
  OBVIOUS
<1> USE OpensAssumption DEF inProcessVars, serverVars, gateVars, clientVars
<1>1. ASSUME NEW o \in Opens, Open(o) PROVE TypeOK'
  <2>1. use_count' \in Nat /\ inactivity_timeout' \in BOOLEAN
    BY <1>1, HoldTypes DEF Open, OpenAddressBook
  <2> QED
    BY <1>1, <2>1 DEF Open, OpenAddressBook, TypeOK, ServerTypeOK, OpenStates
<1>2. ASSUME NEW o \in Opens, Gate(o) PROVE TypeOK'
  BY <1>2 DEF Gate, PassGate, TypeOK, ServerTypeOK, OpenStates
<1>3. ASSUME NEW o \in Opens, UseOpened(o) PROVE TypeOK'
  <2> DEFINE b == opened_backends[SourceOf[o]]
  <2>1. b \in Opens
    BY <1>3 DEF UseOpened, TypeOK
  <2>2. use_count' \in Nat /\ inactivity_timeout' \in BOOLEAN
    BY <1>3, HoldTypes DEF UseOpened
  <2>3. /\ refs' \in [Opens -> Nat] /\ disturbed' \in SUBSET Opens
        /\ backend' \in [Opens -> Opens \cup {None}]
    BY <1>3, <2>1 DEF UseOpened, TypeOK, ServerTypeOK
  <2> QED
    BY <1>3, <2>2, <2>3 DEF UseOpened, TypeOK, ServerTypeOK, OpenStates
<1>4. ASSUME NEW o \in Opens, CreateBackend(o) PROVE TypeOK'
  BY <1>4 DEF CreateBackend, TypeOK, ServerTypeOK, OpenStates
<1>5. ASSUME NEW o \in Opens, OpenFails(o) PROVE TypeOK'
  <2>1. use_count' \in Nat /\ inactivity_timeout' \in BOOLEAN
    BY <1>5, HoldTypes DEF OpenFails
  <2>2. open' \in [Opens -> OpenStates] /\ spawn_subprocess_state' = "NONE"
    BY <1>5, SignalMoves DEF OpenFails, OpenStates
  <2> QED
    BY <1>5, <2>1, <2>2 DEF OpenFails, TypeOK, ServerTypeOK
<1>6. ASSUME NEW o \in Opens, CreateReturnsNull(o) PROVE TypeOK'
  BY <1>6 DEF CreateReturnsNull, TypeOK, ServerTypeOK, OpenStates
<1>7. ASSUME NEW o \in Opens, Reply(o) PROVE TypeOK'
  BY <1>7 DEF Reply, WatchName, TypeOK, ServerTypeOK, OpenStates
<1>8. ASSUME NEW o \in Opens, AddBackendClient(o) PROVE TypeOK'
  <2> DEFINE b == backend[o]
             c == ClientOf[o]
  <2>1. b \in Opens /\ c \in Clients
    BY <1>8 DEF AddBackendClient, CallInv
  <2>2. open' \in [Opens -> OpenStates] /\ spawn_subprocess_state' = "NONE"
    BY <1>8, SignalMoves DEF AddBackendClient, OpenStates
  <2>3. backend_clients' \in [Clients -> [Opens -> Nat]] /\ disturbed' \in SUBSET Opens
    BY <1>8, <2>1 DEF AddBackendClient, TypeOK
  <2> QED
    BY <1>8, <2>2, <2>3 DEF AddBackendClient, TypeOK, ServerTypeOK
<1>9. ASSUME NEW o \in Opens, Close(o) PROVE TypeOK'
  <2> DEFINE b == backend[o]
             c == ClientOf[o]
             n == [x \in Opens |-> IF x = b THEN 1 ELSE 0]
  <2>1. b \in Opens /\ c \in Clients /\ n \in [Opens -> Nat] /\ Unref(n)
    BY <1>9 DEF Close, InUse, CallInv
  <2>2. refs' \in [Opens -> Nat] /\ toggling' \in SUBSET Opens
    BY <2>1, UnrefRefs
  <2>3. backend_clients' \in [Clients -> [Opens -> Nat]]
    BY <1>9, <2>1 DEF Close, TypeOK
  <2> QED
    BY <1>9, <2>2, <2>3 DEF Close, TypeOK, ServerTypeOK
<1>10. ASSUME NEW c \in Clients, Die(c) PROVE TypeOK'
  BY <1>10 DEF Die, ClientDies, TypeOK, ServerTypeOK
<1>11. ASSUME NEW c \in Clients, NameVanished(c) PROVE TypeOK'
  <2>1. backend_clients[c] \in [Opens -> Nat] /\ Unref(backend_clients[c])
    BY <1>11 DEF NameVanished, TypeOK
  <2>2. refs' \in [Opens -> Nat] /\ toggling' \in SUBSET Opens
    BY <2>1, UnrefRefs
  <2> QED
    BY <1>11, <2>2 DEF NameVanished, TypeOK, ServerTypeOK
<1>12. ASSUME NEW b \in Opens, ToggleRelease(b) PROVE TypeOK'
  <2>1. use_count' \in Nat /\ inactivity_timeout' \in BOOLEAN
    BY <1>12, HoldTypes DEF ToggleRelease
  <2> QED
    BY <1>12, <2>1 DEF ToggleRelease, TypeOK, ServerTypeOK
<1>t. ASSUME NEW b \in Opens, ToggleNotify(b) PROVE TypeOK'
  BY <1>t DEF ToggleNotify, TypeOK, ServerTypeOK
<1>13. CASE Inactive \/ Terminate
  BY <1>13 DEF Inactive, InactivityTimeout, Terminate, Quit, TypeOK, ServerTypeOK
<1>14. CASE UNCHANGED vars
  BY <1>14 DEF vars, TypeOK, ServerTypeOK
<1> QED
  BY <1>1, <1>2, <1>3, <1>4, <1>5, <1>6, <1>7, <1>8, <1>9, <1>10, <1>11, <1>12, <1>t, <1>13, <1>14
     DEF Next, OpenStep

-----------------------------------------------------------------------------
(* ---- the gate, the calls and the table ---- *)

\* The gate is closed by the call which passes it and opened by the same.
LEMMA GateInductive == TypeOK /\ GateInv /\ [Next]_vars => GateInv'
<1> SUFFICES ASSUME TypeOK, GateInv, [Next]_vars PROVE GateInv'
  OBVIOUS
<1> USE DEF Behind
<1>1. ASSUME NEW o \in Opens, Open(o) PROVE GateInv'
  BY <1>1 DEF Open, OpenAddressBook, GateInv, TypeOK, ServerTypeOK
<1>2. ASSUME NEW o \in Opens, Gate(o) PROVE GateInv'
  BY <1>2 DEF Gate, PassGate, GateInv, TypeOK, ServerTypeOK
<1>3. ASSUME NEW o \in Opens, UseOpened(o) \/ CreateBackend(o) \/ CreateReturnsNull(o) \/ Reply(o)
      PROVE  GateInv'
  BY <1>3 DEF UseOpened, CreateBackend, CreateReturnsNull, Reply, GateInv, TypeOK, ServerTypeOK
<1>4. ASSUME NEW o \in Opens, OpenFails(o) \/ AddBackendClient(o) PROVE GateInv'
  <2>1. PICK pc \in {"failed", "opened"} : MoveAndSignal(o, pc, "NONE") /\ open[o] \in {"spawn", "add"}
    BY <1>4 DEF OpenFails, AddBackendClient
  <2>2. /\ open'[o] = pc
        /\ \A p \in Opens \ {o} : open'[p] = open[p] \/ open'[p] = "gate"
    BY <2>1, SignalMoves DEF OpenStates
  <2>3. \A p \in Opens : open'[p] \notin Behind
    BY <2>1, <2>2 DEF GateInv
  <2> QED
    BY <2>3 DEF GateInv
<1>5. ASSUME UNCHANGED gateVars PROVE GateInv'
  BY <1>5 DEF GateInv, gateVars
<1> QED
  BY <1>1, <1>2, <1>3, <1>4, <1>5
     DEF Next, OpenStep, Close, Die, ClientDies, NameVanished, ToggleNotify, ToggleRelease, Inactive,
         InactivityTimeout, Terminate, Quit, vars

\* Answers, closes and ends of clients come in this order.
LEMMA CallInductive == TypeOK /\ CallInv /\ TableInv /\ [Next]_vars => CallInv'
<1> SUFFICES ASSUME TypeOK, CallInv, TableInv, [Next]_vars PROVE CallInv'
  OBVIOUS
<1> USE OpensAssumption DEF Early, clientVars, gateVars, serverVars
<1>0. open \in [Opens -> OpenStates] /\ backend \in [Opens -> Opens \cup {None}]
      /\ closed \subseteq Opens
  BY DEF TypeOK, ServerTypeOK
<1>1. ASSUME NEW o \in Opens, Open(o) PROVE CallInv'
  BY <1>0, <1>1 DEF Open, OpenAddressBook, CallInv
<1>2. ASSUME NEW o \in Opens, Gate(o) PROVE CallInv'
  BY <1>0, <1>2 DEF Gate, PassGate, CallInv
<1>3. ASSUME NEW o \in Opens, UseOpened(o) PROVE CallInv'
  <2> DEFINE b == opened_backends[SourceOf[o]]
  <2>1. b \in Opens /\ open[b] \notin Early /\ open[o] = "spawn" /\ b # o
    BY <1>3 DEF UseOpened, TypeOK, TableInv
  <2>2. /\ open' = [open EXCEPT ![o] = "reply"] /\ backend' = [backend EXCEPT ![o] = b]
        /\ UNCHANGED <<closed, alive, watched_names>>
    BY <1>3 DEF UseOpened
  <2> HIDE DEF b
  <2> QED
    BY <1>0, <2>1, <2>2 DEF CallInv
<1>4. ASSUME NEW o \in Opens, CreateBackend(o) PROVE CallInv'
  BY <1>0, <1>4 DEF CreateBackend, CallInv
<1>5. ASSUME NEW o \in Opens, OpenFails(o) PROVE CallInv'
  <2>1. /\ open[o] = "spawn" /\ open'[o] = "failed"
        /\ \A p \in Opens \ {o} : open'[p] = open[p] \/ (open[p] = "condwait" /\ open'[p] = "gate")
    BY <1>5, SignalMoves DEF OpenFails, OpenStates
  <2>2. UNCHANGED <<backend, closed, alive, watched_names>>
    BY <1>5 DEF OpenFails
  <2> QED
    BY <1>0, <2>1, <2>2 DEF CallInv
<1>6. ASSUME NEW o \in Opens, CreateReturnsNull(o) PROVE CallInv'
  BY <1>0, <1>6 DEF CreateReturnsNull, CallInv
<1>7. ASSUME NEW o \in Opens, Reply(o) PROVE CallInv'
  BY <1>0, <1>7 DEF Reply, WatchName, CallInv
<1>8. ASSUME NEW o \in Opens, AddBackendClient(o) PROVE CallInv'
  <2>1. /\ open[o] = "add" /\ open'[o] = "opened"
        /\ \A p \in Opens \ {o} : open'[p] = open[p] \/ (open[p] = "condwait" /\ open'[p] = "gate")
    BY <1>8, SignalMoves DEF AddBackendClient, OpenStates
  <2>2. UNCHANGED <<backend, closed, alive, watched_names>>
    BY <1>8 DEF AddBackendClient
  <2> QED
    BY <1>0, <2>1, <2>2 DEF CallInv
<1>9. ASSUME NEW o \in Opens, Close(o) PROVE CallInv'
  BY <1>0, <1>9 DEF Close, InUse, CallInv
<1>10. ASSUME NEW c \in Clients, Die(c) PROVE CallInv'
  BY <1>0, <1>10 DEF Die, ClientDies, CallInv
<1>11. ASSUME NEW c \in Clients, NameVanished(c) PROVE CallInv'
  BY <1>0, <1>11 DEF NameVanished, CallInv
<1>12. ASSUME UNCHANGED <<open, backend, clientVars, watched_names>> PROVE CallInv'
  BY <1>12 DEF CallInv
<1> QED
  BY <1>1, <1>2, <1>3, <1>4, <1>5, <1>6, <1>7, <1>8, <1>9, <1>10, <1>11, <1>12
     DEF Next, OpenStep, ToggleNotify, ToggleRelease, Inactive, InactivityTimeout, Terminate, Quit, vars

\* Only backends without references leave the table.
LEMMA TableInductive == TypeOK /\ CallInv /\ TableInv /\ [Next]_vars => TableInv'
<1> SUFFICES ASSUME TypeOK, CallInv, TableInv, [Next]_vars PROVE TableInv'
  OBVIOUS
<1> USE OpensAssumption DEF Early, InTable, inProcessVars, gateVars
<1>0. /\ open \in [Opens -> OpenStates] /\ refs \in [Opens -> Nat]
      /\ opened_backends \in [Sources -> Opens \cup {None}] /\ toggling \subseteq Opens
  BY DEF TypeOK, ServerTypeOK
<1>1. ASSUME UNCHANGED <<opened_backends, refs, toggling>>, disturbed \subseteq disturbed',
             \A b \in Opens : open[b] \notin Early => open'[b] \notin Early
      PROVE  TableInv'
  BY <1>0, <1>1 DEF TableInv
<1>2. ASSUME NEW o \in Opens, Open(o) \/ Gate(o) PROVE TableInv'
  BY <1>0, <1>1, <1>2 DEF Open, OpenAddressBook, Gate, PassGate
<1>3. ASSUME NEW o \in Opens, UseOpened(o) PROVE TableInv'
  <2> DEFINE b == opened_backends[SourceOf[o]]
  <2>1. b \in Opens /\ SourceOf[b] = SourceOf[o] /\ InTable(b)
    BY <1>3 DEF UseOpened, TypeOK, TableInv
  <2>2. /\ open' = [open EXCEPT ![o] = "reply"] /\ refs' = [refs EXCEPT ![b] = @ + 1]
        /\ disturbed' = IF b \in toggling THEN disturbed \cup {b} ELSE disturbed
        /\ UNCHANGED <<opened_backends, toggling>>
    BY <1>3 DEF UseOpened
  <2> HIDE DEF b
  <2> QED
    BY <1>0, <2>1, <2>2 DEF TableInv
<1>4. ASSUME NEW o \in Opens, CreateBackend(o) PROVE TableInv'
  <2>1. /\ open' = [open EXCEPT ![o] = "reply"] /\ refs' = [refs EXCEPT ![o] = 1]
        /\ opened_backends' = [opened_backends EXCEPT ![SourceOf[o]] = o]
        /\ opened_backends[SourceOf[o]] = None
        /\ UNCHANGED <<toggling, disturbed>>
    BY <1>4 DEF CreateBackend
  <2>2. o \notin toggling
    BY <1>4 DEF CreateBackend, TableInv
  <2>3. \A s \in Sources : opened_backends'[s] # None =>
           SourceOf[opened_backends'[s]] = s /\ open'[opened_backends'[s]] \notin Early
    BY <1>0, <2>1 DEF TableInv
  <2>4. \A b \in Opens \ disturbed : refs'[b] > 0 => InTable(b)' /\ b \notin toggling
    BY <1>0, <2>1, <2>2 DEF TableInv
  <2> QED
    BY <1>0, <2>1, <2>2, <2>3, <2>4 DEF TableInv
<1>5. ASSUME NEW o \in Opens, OpenFails(o) PROVE TableInv'
  <2>1. /\ open'[o] = "failed"
        /\ \A p \in Opens \ {o} : open'[p] = open[p] \/ (open[p] = "condwait" /\ open'[p] = "gate")
    BY <1>5, SignalMoves DEF OpenFails, OpenStates
  <2> QED
    BY <1>1, <1>5, <2>1 DEF OpenFails
<1>6. ASSUME NEW o \in Opens, CreateReturnsNull(o) \/ Reply(o) PROVE TableInv'
  BY <1>0, <1>1, <1>6 DEF CreateReturnsNull, Reply
<1>7. ASSUME NEW o \in Opens, AddBackendClient(o) PROVE TableInv'
  <2>1. /\ open'[o] = "opened"
        /\ \A p \in Opens \ {o} : open'[p] = open[p] \/ (open[p] = "condwait" /\ open'[p] = "gate")
    BY <1>7, SignalMoves DEF AddBackendClient, OpenStates
  <2> QED
    BY <1>1, <1>7, <2>1 DEF AddBackendClient
<1>8. ASSUME NEW n \in [Opens -> Nat], Unref(n), UNCHANGED <<opened_backends, disturbed, open>>
      PROVE  TableInv'
  <2>1. /\ \A b \in Opens : refs'[b] > 0 => refs[b] > 0
        /\ \A b \in toggling' : b \in toggling \/ (refs'[b] = 0 /\ InTable(b))
        /\ toggling' \subseteq Opens
    BY <1>0, <1>8, UnrefRefs
  <2> QED
    BY <1>0, <1>8, <2>1 DEF TableInv
<1>9. ASSUME NEW o \in Opens, Close(o) PROVE TableInv'
  <2>1. [x \in Opens |-> IF x = backend[o] THEN 1 ELSE 0] \in [Opens -> Nat]
    OBVIOUS
  <2> QED
    BY <1>8, <1>9, <2>1 DEF Close
<1>10. ASSUME NEW c \in Clients, NameVanished(c) PROVE TableInv'
  <2>1. backend_clients[c] \in [Opens -> Nat]
    BY DEF TypeOK
  <2> QED
    BY <1>8, <1>10, <2>1 DEF NameVanished
<1>11. ASSUME NEW b \in Opens, ToggleNotify(b) \/ ToggleRelease(b) PROVE TableInv'
  <2>1. /\ b \in toggling /\ toggling' \subseteq toggling /\ UNCHANGED <<refs, disturbed, open>>
        /\ \A s \in Sources : opened_backends'[s] \in {opened_backends[s], None}
    BY <1>0, <1>11 DEF ToggleNotify, ToggleRelease
  <2>2. \A d \in Opens \ {b} : InTable(d) => InTable(d)'
    BY <1>0, <1>11 DEF ToggleNotify, ToggleRelease
  <2> QED
    BY <1>0, <2>1, <2>2 DEF TableInv
<1>12. ASSUME UNCHANGED <<inProcessVars, open>> PROVE TableInv'
  BY <1>1, <1>12
<1> QED
  BY <1>2, <1>3, <1>4, <1>5, <1>6, <1>7, <1>9, <1>10, <1>11, <1>12
     DEF Next, OpenStep, Die, ClientDies, Inactive, InactivityTimeout, Terminate, Quit, vars

\* What the calls, the gate and the table keep together.
IInv == TypeOK /\ GateInv /\ CallInv /\ TableInv

\* At the start nothing is open.
LEMMA InitIInv == Init => IInv
<1> SUFFICES ASSUME Init PROVE IInv
  OBVIOUS
<1> USE OpensAssumption DEF Init, ServerInit
<1>1. TypeOK
  BY DEF TypeOK, ServerTypeOK, OpenStates
<1>2. GateInv /\ CallInv /\ TableInv
  BY DEF GateInv, Behind, CallInv, TableInv, Early, InTable
<1> QED
  BY <1>1, <1>2 DEF IInv

\* Each step of a call, a client or the main loop keeps the four parts together.
LEMMA NextIInv == IInv /\ [Next]_vars => IInv'
BY TypeInductive, GateInductive, CallInductive, TableInductive DEF IInv

\* So they hold in every state of the factory.
LEMMA SpecIInv == Spec => []IInv
<1>1. Init => IInv
  BY InitIInv
<1>2. IInv /\ [Next]_vars => IInv'
  BY NextIInv
<1> QED
  BY <1>1, <1>2, PTL DEF Spec

\* The state of EDataFactory has its types whatever the clients do; that the call
\* which answers a client has a backend is what makes the last step type correct.
THEOREM TypeCorrect == Spec => []TypeOK
<1>1. IInv => TypeOK
  BY DEF IInv
<1> QED
  BY <1>1, SpecIInv, PTL

-----------------------------------------------------------------------------
(* ---- the holds of the process ---- *)

\* The sets which are counted are finite.
LEMMA CountedFinite ==
    /\ IsFiniteSet(Held) /\ IsFiniteSet(Tabled)
    /\ Cardinality(Held) \in Nat /\ Cardinality(Tabled) \in Nat
<1>1. Held \in SUBSET Opens /\ Tabled \in SUBSET Opens
  BY DEF Held, Tabled
<1>2. IsFiniteSet(Held) /\ IsFiniteSet(Tabled)
  BY <1>1, OpensAssumption, FS_Subset
<1> QED
  BY <1>2, FS_CardinalityType

\* A release of a hold which was taken: the timeout is set with the last one.
LEMMA ReleaseExact ==
    ASSUME TypeOK, use_count > 0, running => ~inactivity_timeout, running' = running,
           e_dbus_server_release
    PROVE  /\ use_count' = use_count - 1
           /\ running => (inactivity_timeout' <=> use_count' = 0)
<1>1. use_count' = use_count - 1 /\ (use_count' = 0 <=> use_count = 1)
  BY DEF e_dbus_server_release, TypeOK, ServerTypeOK
<1>2. inactivity_timeout' <=> inactivity_timeout \/ use_count = 1
  BY Zenon DEF e_dbus_server_release
<1>3. running => (inactivity_timeout' <=> use_count = 1)
  BY <1>2, Zenon
<1> QED
  BY <1>1, <1>3

\* A step which neither takes nor drops a hold.
LEMMA HoldsUnchanged ==
    ASSUME HoldsExact, Held' = Held, Tabled' = Tabled, use_count' = use_count,
           \/ ~running'
           \/ /\ UNCHANGED <<running, inactivity_timeout>>
              /\ (\E o \in Opens : open'[o] # "new") => \E o \in Opens : open[o] # "new"
    PROVE  HoldsExact'
<1>1. Cardinality(Held)' = Cardinality(Held) /\ Cardinality(Tabled)' = Cardinality(Tabled)
  OBVIOUS
<1>2. (use_count = Cardinality(Held) + Cardinality(Tabled))'
  BY <1>1 DEF HoldsExact, Held, Tabled
<1>3. ASSUME running', \E o \in Opens : open'[o] # "new"
      PROVE  inactivity_timeout' <=> use_count' = 0
  <2>1. running /\ inactivity_timeout' = inactivity_timeout /\ \E o \in Opens : open[o] # "new"
    BY <1>3
  <2>2. inactivity_timeout <=> use_count = 0
    BY <2>1, Zenon DEF HoldsExact
  <2> QED
    BY <2>1, <2>2, Zenon
<1> QED
  BY <1>2, <1>3, Zenon DEF HoldsExact, Held, Tabled

\* Each call under way and each backend in the table has one hold, which the backend
\* takes over from the call which creates it.
LEMMA HoldsInductive == IInv /\ HoldsExact /\ [Next]_vars => HoldsExact'
<1> SUFFICES ASSUME IInv, HoldsExact, [Next]_vars PROVE HoldsExact'
  OBVIOUS
<1> USE OpensAssumption DEF inProcessVars, serverVars, gateVars, clientVars, InTable
<1>0. /\ open \in [Opens -> OpenStates] /\ use_count \in Nat
      /\ opened_backends \in [Sources -> Opens \cup {None}]
      /\ TypeOK
  BY DEF IInv, TypeOK, ServerTypeOK
<1>a. /\ use_count = Cardinality(Held) + Cardinality(Tabled)
      /\ running /\ (\E o \in Opens : open[o] # "new") => (inactivity_timeout <=> use_count = 0)
  BY DEF HoldsExact, Held, Tabled
<1>1. ASSUME NEW o \in Opens, Open(o) PROVE HoldsExact'
  <2>1. Held' = Held \cup {o} /\ o \notin Held /\ Tabled' = Tabled
    BY <1>0, <1>1 DEF Open, OpenAddressBook, Held, Tabled
  <2>2. Cardinality(Held)' = Cardinality(Held) + 1 /\ Cardinality(Tabled)' = Cardinality(Tabled)
    BY <2>1, CountedFinite, FS_AddElement
  <2>3. use_count' = use_count + 1
    BY <1>1 DEF Open, OpenAddressBook, e_dbus_server_hold
  <2>4. use_count' = Cardinality(Held)' + Cardinality(Tabled)' /\ ~(use_count' = 0)
    BY <1>0, <1>a, <2>2, <2>3, CountedFinite
  <2>5. ~inactivity_timeout'
    BY <1>1, Zenon DEF Open, OpenAddressBook, e_dbus_server_hold
  <2> QED
    BY <2>4, <2>5, Zenon DEF HoldsExact, Held, Tabled
<1>2. ASSUME NEW o \in Opens, Gate(o) PROVE HoldsExact'
  <2>1. Held' = Held /\ Tabled' = Tabled
    BY <1>0, <1>2 DEF Gate, PassGate, Held, Tabled
  <2>2. open[o] # "new"
    BY <1>2 DEF Gate, PassGate
  <2> QED
    BY <1>2, <2>1, <2>2, HoldsUnchanged, Zenon DEF Gate, PassGate
<1>3. ASSUME NEW x \in {"held", "tabled"},
             IF x = "held" THEN \E o \in Held : Held' = Held \ {o} /\ Tabled' = Tabled
                           ELSE \E b \in Tabled : Held' = Held /\ Tabled' = Tabled \ {b},
             e_dbus_server_release, running' = running, \E o \in Opens : open[o] # "new"
      PROVE  HoldsExact'
  <2>1. /\ use_count > 0
        /\ use_count - 1 = Cardinality(Held)' + Cardinality(Tabled)'
    <3>1. CASE x = "held"
      <4>1. PICK o \in Held : Held' = Held \ {o} /\ Tabled' = Tabled
        BY <1>3, <3>1
      <4>2. /\ Cardinality(Held)' = Cardinality(Held) - 1
            /\ Cardinality(Tabled)' = Cardinality(Tabled)
        BY <4>1, CountedFinite, FS_RemoveElement
      <4>3. Cardinality(Held) # 0
        BY <4>1, CountedFinite, FS_EmptySet
      <4> QED
        BY <1>a, <4>2, <4>3, CountedFinite
    <3>2. CASE x = "tabled"
      <4>1. PICK b \in Tabled : Held' = Held /\ Tabled' = Tabled \ {b}
        BY <1>3, <3>2
      <4>2. /\ Cardinality(Held)' = Cardinality(Held)
            /\ Cardinality(Tabled)' = Cardinality(Tabled) - 1
        BY <4>1, CountedFinite, FS_RemoveElement
      <4>3. Cardinality(Tabled) # 0
        BY <4>1, CountedFinite, FS_EmptySet
      <4> QED
        BY <1>a, <4>2, <4>3, CountedFinite
    <3> QED
      BY <3>1, <3>2
  <2>2. ~(use_count = 0)
    BY <1>0, <2>1
  <2>3. running => ~inactivity_timeout
    BY <1>a, <1>3, <2>2, Zenon
  <2>4. /\ use_count' = use_count - 1
        /\ running => (inactivity_timeout' <=> use_count' = 0)
    BY <1>0, <1>3, <2>1, <2>3, ReleaseExact
  <2>5. use_count' = Cardinality(Held)' + Cardinality(Tabled)'
    BY <2>1, <2>4
  <2> QED
    BY <1>3, <2>4, <2>5, Zenon DEF HoldsExact, Held, Tabled
<1>4. ASSUME NEW o \in Opens, UseOpened(o) PROVE HoldsExact'
  <2>1. o \in Held /\ Held' = Held \ {o} /\ Tabled' = Tabled /\ open[o] # "new"
    BY <1>0, <1>4 DEF UseOpened, Held, Tabled
  <2> QED
    BY <1>3, <1>4, <2>1 DEF UseOpened
<1>5. ASSUME NEW o \in Opens, CreateBackend(o) PROVE HoldsExact'
  <2>1. o \in Held /\ Held' = Held \ {o} /\ open[o] # "new"
    BY <1>0, <1>5 DEF CreateBackend, Held
  <2>2. o \notin Tabled /\ Tabled' = Tabled \cup {o}
    BY <1>0, <1>5 DEF CreateBackend, Tabled, IInv, TableInv, Early
  <2>3. /\ Cardinality(Held)' = Cardinality(Held) - 1
        /\ Cardinality(Tabled)' = Cardinality(Tabled) + 1
    BY <2>1, <2>2, CountedFinite, FS_AddElement, FS_RemoveElement
  <2>4. use_count' = Cardinality(Held)' + Cardinality(Tabled)'
    BY <1>5, <1>a, <2>3, CountedFinite DEF CreateBackend
  <2>5. UNCHANGED <<running, inactivity_timeout, use_count>>
    BY <1>5 DEF CreateBackend
  <2> QED
    BY <1>a, <2>1, <2>4, <2>5, Zenon DEF HoldsExact, Held, Tabled
<1>6. ASSUME NEW o \in Opens, OpenFails(o) PROVE HoldsExact'
  <2>1. /\ open[o] = "spawn" /\ open'[o] = "failed"
        /\ \A p \in Opens \ {o} : open'[p] = open[p] \/ (open[p] = "condwait" /\ open'[p] = "gate")
    BY <1>0, <1>6, SignalMoves DEF OpenFails, OpenStates
  <2>2. o \in Held /\ Held' = Held \ {o} /\ Tabled' = Tabled /\ open[o] # "new"
    BY <1>6, <2>1 DEF OpenFails, Held, Tabled
  <2> QED
    BY <1>3, <1>6, <2>2 DEF OpenFails
<1>7. ASSUME NEW o \in Opens, CreateReturnsNull(o) \/ Reply(o) PROVE HoldsExact'
  <2>1. Held' = Held /\ Tabled' = Tabled
    BY <1>0, <1>7 DEF CreateReturnsNull, Reply, Held, Tabled
  <2>2. open[o] # "new"
    BY <1>7 DEF CreateReturnsNull, Reply
  <2> QED
    BY <1>7, <2>1, <2>2, HoldsUnchanged, Zenon DEF CreateReturnsNull, Reply
<1>8. ASSUME NEW o \in Opens, AddBackendClient(o) PROVE HoldsExact'
  <2>1. /\ open[o] = "add" /\ open'[o] = "opened"
        /\ \A p \in Opens \ {o} : open'[p] = open[p] \/ (open[p] = "condwait" /\ open'[p] = "gate")
    BY <1>0, <1>8, SignalMoves DEF AddBackendClient, OpenStates
  <2>2. Held' = Held /\ Tabled' = Tabled /\ open[o] # "new"
    BY <1>8, <2>1 DEF AddBackendClient, Held, Tabled
  <2> QED
    BY <1>8, <2>2, HoldsUnchanged, Zenon DEF AddBackendClient
<1>9. ASSUME NEW b \in Opens, ToggleRelease(b) PROVE HoldsExact'
  <2>1. open[b] # "new"
    BY <1>9 DEF ToggleRelease, IInv, TableInv, Early
  <2>2. b \in Tabled /\ Tabled' = Tabled \ {b} /\ Held' = Held
    BY <1>0, <1>9 DEF ToggleRelease, Tabled, Held
  <2> QED
    BY <1>3, <1>9, <2>1, <2>2 DEF ToggleRelease
<1>10. ASSUME UNCHANGED <<open, use_count>>, Tabled' = Tabled,
              ~running' \/ UNCHANGED <<running, inactivity_timeout>>
       PROVE  HoldsExact'
  <2>1. Held' = Held
    BY <1>10 DEF Held
  <2> QED
    BY <1>10, <2>1, HoldsUnchanged, Zenon
<1>b. ASSUME UNCHANGED <<opened_backends, toggling>> PROVE Tabled' = Tabled
  BY <1>b DEF Tabled
<1>c. ASSUME NEW n \in [Opens -> Nat], Unref(n), UNCHANGED opened_backends PROVE Tabled' = Tabled
  <2>1. /\ \A b \in toggling' : b \in toggling \/ InTable(b)
        /\ toggling \subseteq toggling' /\ toggling' \subseteq Opens
    BY <1>0, <1>c, UnrefRefs
  <2> QED
    BY <1>c, <2>1 DEF Tabled
<1>d. ASSUME NEW b \in Opens, ToggleNotify(b) PROVE HoldsExact'
  <2>1. Tabled' = Tabled
    BY <1>0, <1>d DEF ToggleNotify, Tabled
  <2> QED
    BY <1>10, <1>d, <2>1 DEF ToggleNotify
<1>11. ASSUME NEW o \in Opens, Close(o) PROVE HoldsExact'
  <2>1. [x \in Opens |-> IF x = backend[o] THEN 1 ELSE 0] \in [Opens -> Nat]
    OBVIOUS
  <2>2. Tabled' = Tabled
    BY <1>c, <1>11, <2>1 DEF Close
  <2> QED
    BY <1>10, <1>11, <2>2 DEF Close
<1>v. ASSUME NEW c \in Clients, NameVanished(c) PROVE HoldsExact'
  <2>1. backend_clients[c] \in [Opens -> Nat]
    BY <1>0 DEF TypeOK
  <2>2. Tabled' = Tabled
    BY <1>c, <1>v, <2>1 DEF NameVanished
  <2> QED
    BY <1>10, <1>v, <2>2 DEF NameVanished
<1>12. ASSUME NEW c \in Clients, Die(c) PROVE HoldsExact'
  BY <1>10, <1>b, <1>12 DEF Die, ClientDies
<1>13. CASE Inactive \/ Terminate
  BY <1>10, <1>b, <1>13 DEF Inactive, InactivityTimeout, Terminate, Quit
<1>14. CASE UNCHANGED vars
  BY <1>10, <1>b, <1>14 DEF vars
<1> QED
  BY <1>1, <1>2, <1>4, <1>5, <1>6, <1>7, <1>8, <1>9, <1>d, <1>11, <1>v, <1>12, <1>13, <1>14
     DEF Next, OpenStep

\* The process is held exactly for the calls under way and the backends which are
\* in the table or on the way out of it, and schedules its end exactly when there is neither: for any number of
\* calls, clients and sources, whichever of them fail or vanish.
THEOREM HoldsCorrect == Spec => []HoldsExact
<1>1. Init => HoldsExact
  <2> SUFFICES ASSUME Init PROVE HoldsExact
    OBVIOUS
  <2>1. Held = {} /\ Tabled = {}
    BY OpensAssumption DEF Init, ServerInit, Held, Tabled, InTable
  <2>2. use_count = Cardinality(Held) + Cardinality(Tabled)
    BY <2>1, FS_EmptySet DEF Init, ServerInit
  <2>3. \A o \in Opens : open[o] = "new"
    BY DEF Init, ServerInit
  <2> QED
    BY <2>2, <2>3 DEF HoldsExact, Held, Tabled
<1>2. IInv /\ HoldsExact /\ [Next]_vars => HoldsExact'
  BY HoldsInductive
<1> QED
  BY <1>1, <1>2, SpecIInv, PTL DEF Spec

-----------------------------------------------------------------------------
(* ---- the references of the clients ---- *)

\* The sets which are counted are finite.
LEMMA OwnedFinite ==
    ASSUME NEW b
    PROVE  /\ Owned(b) \subseteq Opens /\ IsFiniteSet(Owned(b)) /\ Cardinality(Owned(b)) \in Nat
           /\ \A c : Noted(c, b) \subseteq Opens /\ IsFiniteSet(Noted(c, b))
                     /\ Cardinality(Noted(c, b)) \in Nat
<1>1. Owned(b) \in SUBSET Opens
  BY DEF Owned
<1>2. IsFiniteSet(Owned(b)) /\ Cardinality(Owned(b)) \in Nat
  BY <1>1, OpensAssumption, FS_Subset, FS_CardinalityType
<1>3. ASSUME NEW c
      PROVE  Noted(c, b) \subseteq Opens /\ IsFiniteSet(Noted(c, b)) /\ Cardinality(Noted(c, b)) \in Nat
  <2>1. Noted(c, b) \in SUBSET Opens
    BY DEF Noted
  <2> QED
    BY <2>1, OpensAssumption, FS_Subset, FS_CardinalityType
<1> QED
  BY <1>1, <1>2, <1>3

\* A step which does not touch the count of b.
LEMMA RefFrame ==
    ASSUME NEW b \in Opens, RefOK(b), Owned(b)' = Owned(b), refs'[b] = refs[b],
           \A c \in Clients : /\ Noted(c, b)' = Noted(c, b)
                              /\ backend_clients'[c][b] = backend_clients[c][b]
                              /\ ClosedEarly(c, b) => ClosedEarly(c, b)'
    PROVE  RefOK(b)'
BY DEF RefOK

\* A call which finds or creates its backend has a reference.
LEMMA RefUse ==
    ASSUME IInv, RefInv, NEW o \in Opens, UseOpened(o) \/ CreateBackend(o)
    PROVE  RefInv'
<1> USE OpensAssumption
<1>0. /\ open \in [Opens -> OpenStates] /\ refs \in [Opens -> Nat]
      /\ backend \in [Opens -> Opens \cup {None}] /\ closed \subseteq Opens
      /\ opened_backends \in [Sources -> Opens \cup {None}]
  BY DEF IInv, TypeOK, ServerTypeOK
<1>1. PICK d \in Opens :
        /\ backend' = [backend EXCEPT ![o] = d]
        /\ \/ refs' = [refs EXCEPT ![d] = @ + 1]
           \/ d = o /\ refs' = [refs EXCEPT ![d] = 1]
        /\ open[o] = "spawn" /\ open' = [open EXCEPT ![o] = "reply"]
        /\ disturbed \subseteq disturbed'
        /\ UNCHANGED <<closed, watched_names, backend_clients>>
  BY <1>0 DEF UseOpened, CreateBackend, clientVars
<1>2. backend[o] = None /\ o \notin closed
  BY <1>0, <1>1 DEF IInv, CallInv
<1>3. ASSUME NEW b \in Opens
      PROVE  /\ \A c \in Clients : Noted(c, b)' = Noted(c, b)
             /\ \A c \in Clients : ClosedEarly(c, b)' <=> ClosedEarly(c, b)
             /\ b # d => Owned(b)' = Owned(b)
             /\ b = d => Owned(b)' = Owned(b) \cup {o} /\ o \notin Owned(b)
  <2>1. \A c \in Clients : Noted(c, b)' = Noted(c, b)
    BY <1>0, <1>1, <1>2 DEF Noted
  <2>2. \A c \in Clients : ClosedEarly(c, b)' <=> ClosedEarly(c, b)
    BY <1>0, <1>1, <1>2 DEF ClosedEarly
  <2>3. b # d => Owned(b)' = Owned(b)
    BY <1>0, <1>1, <1>2 DEF Owned
  <2>4. b = d => Owned(b)' = Owned(b) \cup {o} /\ o \notin Owned(b)
    BY <1>0, <1>1, <1>2 DEF Owned
  <2> QED
    BY <2>1, <2>2, <2>3, <2>4
<1>4. ASSUME NEW b \in Opens \ disturbed', b # d PROVE RefOK(b)'
  <2>1. RefOK(b) /\ refs'[b] = refs[b]
    BY <1>0, <1>1, <1>4 DEF RefInv
  <2> QED
    BY <1>1, <1>3, <1>4, <2>1, RefFrame
<1>5. ASSUME d \notin disturbed' PROVE RefOK(d)'
  <2>1. RefOK(d)
    BY <1>1, <1>5 DEF RefInv
  <2>2. Cardinality(Owned(d))' = Cardinality(Owned(d)) + 1
    BY <1>3, OwnedFinite, FS_AddElement
  <2>3. CASE refs' = [refs EXCEPT ![d] = @ + 1]
    <3>1. refs'[d] = refs[d] + 1
      BY <1>0, <2>3
    <3>2. Cardinality(Owned(d))' <= refs'[d]
      BY <1>0, <2>1, <2>2, <3>1, OwnedFinite DEF RefOK
    <3> QED
      BY <1>1, <1>3, <2>1, <3>2 DEF RefOK
  <2>4. CASE d = o /\ refs' = [refs EXCEPT ![d] = 1]
    <3>1. Owned(d) = {}
      BY <1>0, <1>1, <2>4 DEF Owned, IInv, CallInv, Early
    <3>2. Cardinality(Owned(d))' = 1 /\ refs'[d] = 1
      BY <1>0, <2>2, <2>4, <3>1, FS_EmptySet
    <3> QED
      BY <1>1, <1>3, <2>1, <3>2 DEF RefOK
  <2> QED
    BY <1>1, <2>3, <2>4
<1> QED
  BY <1>4, <1>5 DEF RefInv

\* Watching a client again: the backends which its array has entries for are the
\* ones that the code loses count of.
LEMMA RefReply ==
    ASSUME IInv, RefInv, NEW o \in Opens, Reply(o)
    PROVE  RefInv'
<1> USE OpensAssumption
<1> DEFINE c == ClientOf[o]
<1>0. /\ open \in [Opens -> OpenStates] /\ refs \in [Opens -> Nat]
      /\ backend \in [Opens -> Opens \cup {None}] /\ closed \subseteq Opens
      /\ backend_clients \in [Clients -> [Opens -> Nat]] /\ c \in Clients
  BY DEF IInv, TypeOK, ServerTypeOK
<1>1. /\ open[o] = "reply" /\ open' = [open EXCEPT ![o] = "add"]
      /\ watched_names' = watched_names \cup {c}
      /\ disturbed' = disturbed \cup
            IF c \in watched_names THEN {} ELSE {b \in Opens : backend_clients[c][b] > 0}
      /\ UNCHANGED <<refs, backend, closed, backend_clients>>
  BY DEF Reply, WatchName, clientVars
<1>2. o \notin closed /\ \A q \in Opens : open[q] # "add"
  BY <1>1 DEF IInv, CallInv, GateInv, Behind
<1> HIDE DEF c
<1> SUFFICES ASSUME NEW b \in Opens \ disturbed' PROVE RefOK(b)'
  BY DEF RefInv
<1>3. RefOK(b)
  BY <1>1 DEF RefInv
<1>4. \A x \in Clients : Noted(x, b)' = Noted(x, b)
  BY <1>0, <1>1 DEF Noted
<1>5. \A x \in Clients : ~ClosedEarly(x, b)
  BY <1>0, <1>2 DEF ClosedEarly
<1>6. Owned(b)' = Owned(b)
  <2>1. CASE c \in watched_names
    BY <1>0, <1>1, <2>1 DEF Owned
  <2>2. CASE c \notin watched_names
    <3>1. backend_clients[c][b] = 0
      BY <1>0, <1>1, <2>2
    <3>2. Cardinality(Noted(c, b)) = 0
      BY <1>0, <1>3, <1>5, <3>1 DEF RefOK
    <3>3. Noted(c, b) = {}
      BY <3>2, OwnedFinite, FS_EmptySet
    <3> QED
      BY <1>0, <1>1, <3>3 DEF Owned, Noted
  <2> QED
    BY <2>1, <2>2
<1> QED
  BY <1>1, <1>3, <1>4, <1>5, <1>6, RefFrame

\* The call is noted in the array of its client.
LEMMA RefAdd ==
    ASSUME IInv, RefInv, NEW o \in Opens, AddBackendClient(o)
    PROVE  RefInv'
<1> USE OpensAssumption
<1> DEFINE c == ClientOf[o]
           d == backend[o]
<1>0. /\ open \in [Opens -> OpenStates] /\ refs \in [Opens -> Nat]
      /\ backend \in [Opens -> Opens \cup {None}] /\ closed \subseteq Opens
      /\ backend_clients \in [Clients -> [Opens -> Nat]] /\ c \in Clients
  BY DEF IInv, TypeOK, ServerTypeOK
<1>1. /\ open[o] = "add" /\ open'[o] = "opened"
      /\ \A p \in Opens \ {o} : open'[p] = open[p] \/ (open[p] = "condwait" /\ open'[p] = "gate")
  BY SignalMoves DEF AddBackendClient, OpenStates, IInv
<1>2. /\ d \in Opens /\ disturbed' = IF o \in closed THEN disturbed \cup {d} ELSE disturbed
      /\ backend_clients' = IF Exists(d) THEN [backend_clients EXCEPT ![c][d] = @ + 1]
                            ELSE backend_clients
      /\ UNCHANGED <<backend, closed, watched_names, refs>>
  BY DEF AddBackendClient, clientVars, IInv, CallInv
<1>3. \A q \in Opens : open[q] = "add" => q = o
  BY <1>1 DEF IInv, GateInv, Behind
<1> SUFFICES ASSUME NEW b \in Opens \ disturbed' PROVE RefOK(b)'
  BY DEF RefInv
<1>4. RefOK(b)
  BY <1>2 DEF RefInv
<1>5. CASE b # d
  <2>1. Owned(b)' = Owned(b)
    BY <1>0, <1>1, <1>2, <1>5 DEF Owned
  <2>2. \A x \in Clients : Noted(x, b)' = Noted(x, b)
    BY <1>0, <1>1, <1>2, <1>5 DEF Noted
  <2>3. \A x \in Clients : ClosedEarly(x, b) => ClosedEarly(x, b)'
    BY <1>0, <1>1, <1>2, <1>5 DEF ClosedEarly
  <2>4. \A x \in Clients : backend_clients'[x][b] = backend_clients[x][b]
    BY <1>0, <1>2, <1>5
  <2> QED
    BY <1>2, <1>4, <2>1, <2>2, <2>3, <2>4, RefFrame
<1>6. CASE b = d
  <2>1. o \notin closed
    BY <1>2, <1>6
  <2>2. \A x \in Clients : ~ClosedEarly(x, b)
    BY <1>0, <1>3, <2>1 DEF ClosedEarly
  <2>3. o \in Owned(b)
    BY <1>1, <1>6, <2>1 DEF Owned
  <2>4. Cardinality(Owned(b)) # 0
    BY <2>3, OwnedFinite, FS_EmptySet
  <2>5. refs[b] > 0
    BY <1>0, <1>4, <2>4, OwnedFinite DEF RefOK
  <2>6. backend_clients' = [backend_clients EXCEPT ![c][b] = @ + 1]
    BY <1>2, <1>6, <2>5 DEF Exists
  <2>7. Owned(b)' \in SUBSET Owned(b)
    BY <1>0, <1>1, <1>2 DEF Owned
  <2>8. Cardinality(Owned(b))' <= refs'[b]
    <3>1. Cardinality(Owned(b)') <= Cardinality(Owned(b)) /\ IsFiniteSet(Owned(b)')
      BY <2>7, OwnedFinite, FS_Subset
    <3>2. Cardinality(Owned(b)') \in Nat
      BY <3>1, FS_CardinalityType
    <3> QED
      BY <1>0, <1>2, <1>4, <3>1, <3>2, OwnedFinite DEF RefOK
  <2>9. ASSUME NEW x \in Clients PROVE backend_clients'[x][b] = Cardinality(Noted(x, b))'
    <3>1. backend_clients[x][b] = Cardinality(Noted(x, b))
      BY <1>4, <2>2 DEF RefOK
    <3>2. CASE x = c
      <4>1. Noted(x, b)' = Noted(x, b) \cup {o} /\ o \notin Noted(x, b)
        BY <1>0, <1>1, <1>2, <1>6, <2>1, <3>2 DEF Noted
      <4>2. Cardinality(Noted(x, b))' = Cardinality(Noted(x, b)) + 1
        BY <4>1, OwnedFinite, FS_AddElement
      <4>3. backend_clients'[x][b] = backend_clients[x][b] + 1
        BY <1>0, <2>6, <3>2
      <4> QED
        BY <3>1, <4>2, <4>3
    <3>3. CASE x # c
      <4>1. Noted(x, b)' = Noted(x, b)
        BY <1>0, <1>1, <1>2, <3>3 DEF Noted
      <4> QED
        BY <1>0, <2>6, <3>1, <3>3, <4>1
    <3> QED
      BY <3>2, <3>3
  <2>10. \A x \in Clients : Cardinality(Noted(x, b))' <= Cardinality(Noted(x, b))'
    <3>1. \A x \in Clients : Noted(x, b)' \in SUBSET Opens
      BY DEF Noted
    <3>2. \A x \in Clients : Cardinality(Noted(x, b)') \in Nat
      BY <3>1, FS_Subset, FS_CardinalityType
    <3> QED
      BY <3>2
  <2> QED
    BY <2>8, <2>9, <2>10 DEF RefOK
<1> QED
  BY <1>5, <1>6

\* The client closes what it has: its reference goes, and its entry, if that is there.
LEMMA RefClose ==
    ASSUME IInv, RefInv, NEW o \in Opens, Close(o)
    PROVE  RefInv'
<1> USE OpensAssumption
<1> DEFINE c == ClientOf[o]
           d == backend[o]
           n == [x \in Opens |-> IF x = d THEN 1 ELSE 0]
<1>0. /\ open \in [Opens -> OpenStates] /\ refs \in [Opens -> Nat]
      /\ backend \in [Opens -> Opens \cup {None}] /\ closed \subseteq Opens
      /\ backend_clients \in [Clients -> [Opens -> Nat]] /\ c \in Clients
      /\ n \in [Opens -> Nat]
  BY DEF IInv, TypeOK, ServerTypeOK
<1>1. /\ open[o] \in {"add", "opened"} /\ o \notin closed /\ c \in watched_names /\ d \in Opens
      /\ closed' = closed \cup {o}
      /\ backend_clients' = [backend_clients EXCEPT ![c][d] = IF @ > 0 THEN @ - 1 ELSE 0]
      /\ Unref(n)
      /\ UNCHANGED <<open, backend, watched_names, disturbed>>
  BY DEF Close, InUse, Keeps, gateVars, IInv, CallInv
<1>n. \A b \in Opens : n[b] = IF b = d THEN 1 ELSE 0
  OBVIOUS
<1> HIDE DEF n
<1>2. \A b \in Opens : refs'[b] = IF n[b] < refs[b] THEN refs[b] - n[b] ELSE 0
  BY <1>0, <1>1, UnrefRefs DEF IInv
<1> SUFFICES ASSUME NEW b \in Opens \ disturbed' PROVE RefOK(b)'
  BY DEF RefInv
<1>3. RefOK(b)
  BY <1>1 DEF RefInv
<1>4. \A x \in Clients : ClosedEarly(x, b) => ClosedEarly(x, b)'
  BY <1>0, <1>1 DEF ClosedEarly
<1>5. \A x \in Clients : x # c \/ b # d =>
         Noted(x, b)' = Noted(x, b) /\ backend_clients'[x][b] = backend_clients[x][b]
  BY <1>0, <1>1 DEF Noted
<1>6. CASE b # d
  <2>1. Owned(b)' = Owned(b)
    BY <1>0, <1>1, <1>6 DEF Owned
  <2>2. refs'[b] = refs[b]
    BY <1>0, <1>2, <1>6, <1>n
  <2> QED
    BY <1>3, <1>4, <1>5, <1>6, <2>1, <2>2, RefFrame
<1>7. CASE b = d
  <2>1. Owned(b)' = Owned(b) \ {o} /\ o \in Owned(b)
    BY <1>0, <1>1, <1>7 DEF Owned
  <2>2. Cardinality(Owned(b))' = Cardinality(Owned(b)) - 1 /\ Cardinality(Owned(b)) # 0
    <3>1. IsFiniteSet(Owned(b))
      BY OwnedFinite
    <3> QED
      BY <2>1, <3>1, FS_RemoveElement, FS_EmptySet
  <2>3. refs'[b] = IF 1 < refs[b] THEN refs[b] - 1 ELSE 0
    BY <1>2, <1>7, <1>n
  <2>4. Cardinality(Owned(b))' <= refs'[b]
    BY <1>0, <1>3, <2>2, <2>3, OwnedFinite DEF RefOK
  <2>5. backend_clients'[c][b] = IF backend_clients[c][b] > 0 THEN backend_clients[c][b] - 1 ELSE 0
    BY <1>0, <1>1, <1>7
  <2>6. backend_clients[c][b] \in Nat /\ backend_clients[c][b] <= Cardinality(Noted(c, b))
        /\ (ClosedEarly(c, b) \/ backend_clients[c][b] = Cardinality(Noted(c, b)))
    BY <1>0, <1>3 DEF RefOK
  <2>7. /\ backend_clients'[c][b] <= Cardinality(Noted(c, b))'
        /\ ClosedEarly(c, b)' \/ backend_clients'[c][b] = Cardinality(Noted(c, b))'
    <3>1. CASE open[o] = "opened"
      <4>1. Noted(c, b)' = Noted(c, b) \ {o} /\ o \in Noted(c, b)
        BY <1>0, <1>1, <1>7, <3>1 DEF Noted
      <4>2. Cardinality(Noted(c, b))' = Cardinality(Noted(c, b)) - 1 /\ Cardinality(Noted(c, b)) # 0
        <5>1. IsFiniteSet(Noted(c, b))
          BY OwnedFinite
        <5>2. Cardinality(Noted(c, b) \ {o}) = Cardinality(Noted(c, b)) - 1
          BY <4>1, <5>1, FS_RemoveElement
        <5>3. Cardinality(Noted(c, b)) # 0
          BY <4>1, <5>1, FS_EmptySet
        <5> QED
          BY <4>1, <5>2, <5>3
      <4>3. /\ backend_clients'[c][b] <= Cardinality(Noted(c, b))'
            /\ backend_clients[c][b] = Cardinality(Noted(c, b)) =>
                 backend_clients'[c][b] = Cardinality(Noted(c, b))'
        <5>1. Cardinality(Noted(c, b)) \in Nat
          BY OwnedFinite
        <5> QED
          BY <2>5, <2>6, <4>2, <5>1
      <4> QED
        BY <1>0, <1>4, <2>6, <4>3
    <3>2. CASE open[o] = "add"
      <4>1. Noted(c, b)' = Noted(c, b)
        BY <1>0, <1>1, <3>2 DEF Noted
      <4>2. ClosedEarly(c, b)'
        BY <1>1, <1>7, <3>2 DEF ClosedEarly
      <4>3. backend_clients'[c][b] <= Cardinality(Noted(c, b))
        <5>1. Cardinality(Noted(c, b)) \in Nat
          BY OwnedFinite
        <5> QED
          BY <2>5, <2>6, <5>1
      <4> QED
        BY <4>1, <4>2, <4>3
    <3> QED
      BY <1>1, <3>1, <3>2
  <2>8. ASSUME NEW x \in Clients, x # c
        PROVE  /\ backend_clients'[x][b] <= Cardinality(Noted(x, b))'
               /\ ClosedEarly(x, b)' \/ backend_clients'[x][b] = Cardinality(Noted(x, b))'
    <3>1. Noted(x, b)' = Noted(x, b) /\ backend_clients'[x][b] = backend_clients[x][b]
      BY <1>5, <2>8
    <3> QED
      BY <1>3, <1>4, <3>1 DEF RefOK
  <2> QED
    BY <2>4, <2>7, <2>8 DEF RefOK
<1> QED
  BY <1>6, <1>7

\* A client vanishes: the references of the calls noted for it go.
LEMMA RefVanished ==
    ASSUME IInv, RefInv, NEW c \in Clients, NameVanished(c)
    PROVE  RefInv'
<1> USE OpensAssumption
<1>0. /\ refs \in [Opens -> Nat] /\ backend \in [Opens -> Opens \cup {None}] /\ closed \subseteq Opens
      /\ backend_clients \in [Clients -> [Opens -> Nat]]
  BY DEF IInv, TypeOK, ServerTypeOK
<1>1. /\ c \in watched_names /\ watched_names' = watched_names \ {c}
      /\ Unref(backend_clients[c])
      /\ UNCHANGED <<open, backend, closed, disturbed, backend_clients>>
  BY DEF NameVanished, gateVars, clientVars
<1> SUFFICES ASSUME NEW b \in Opens \ disturbed' PROVE RefOK(b)'
  BY DEF RefInv
<1>2. RefOK(b)
  BY <1>1 DEF RefInv
<1>3. refs'[b] = IF backend_clients[c][b] < refs[b] THEN refs[b] - backend_clients[c][b] ELSE 0
  BY <1>0, <1>1, UnrefRefs DEF IInv
<1>4. Owned(b)' = Owned(b) \ Noted(c, b) /\ Owned(b) \cap Noted(c, b) = Noted(c, b)
  BY <1>0, <1>1 DEF Owned, Noted
<1>5. /\ Cardinality(Owned(b))' = Cardinality(Owned(b)) - Cardinality(Noted(c, b))
      /\ IsFiniteSet(Owned(b)')
  <2>1. IsFiniteSet(Owned(b))
    BY OwnedFinite
  <2>2. /\ Cardinality(Owned(b) \ Noted(c, b)) = Cardinality(Owned(b)) - Cardinality(Owned(b) \cap Noted(c, b))
        /\ IsFiniteSet(Owned(b) \ Noted(c, b))
    BY <2>1, FS_Difference
  <2> QED
    BY <1>4, <2>2
<1>6. Cardinality(Owned(b)') \in Nat
  BY <1>5, FS_CardinalityType
<1>7. backend_clients[c][b] \in Nat /\ backend_clients[c][b] <= Cardinality(Noted(c, b))
      /\ Cardinality(Owned(b)) <= refs[b]
  BY <1>0, <1>2 DEF RefOK
<1>8. Cardinality(Owned(b))' <= refs'[b]
  <2>1. Cardinality(Owned(b)) - Cardinality(Noted(c, b)) <= refs'[b]
    BY <1>0, <1>3, <1>5, <1>6, <1>7, OwnedFinite
  <2> QED
    BY <1>5, <2>1
<1>9. \A x \in Clients : /\ Noted(x, b)' = Noted(x, b)
                         /\ ClosedEarly(x, b)' <=> ClosedEarly(x, b)
  BY <1>1 DEF Noted, ClosedEarly
<1> QED
  BY <1>1, <1>2, <1>8, <1>9 DEF RefOK

\* Every step keeps a reference for each client, or notes that it does not.
LEMMA RefInductive == IInv /\ RefInv /\ [Next]_vars => RefInv'
<1> SUFFICES ASSUME IInv, RefInv, [Next]_vars PROVE RefInv'
  OBVIOUS
<1> USE DEF inProcessVars, serverVars, gateVars, clientVars
<1>0. open \in [Opens -> OpenStates] /\ closed \subseteq Opens /\ TypeOK
  BY DEF IInv, TypeOK, ServerTypeOK
<1>1. ASSUME UNCHANGED <<backend, closed, watched_names, refs, backend_clients, disturbed>>,
             \A o \in Opens : /\ open'[o] = "opened" <=> open[o] = "opened"
                              /\ open'[o] = "add" <=> open[o] = "add"
      PROVE  RefInv'
  <2> SUFFICES ASSUME NEW b \in Opens \ disturbed' PROVE RefOK(b)'
    BY DEF RefInv
  <2>1. RefOK(b)
    BY <1>1 DEF RefInv
  <2>2. Owned(b)' = Owned(b)
    BY <1>1 DEF Owned
  <2>3. \A x \in Clients : Noted(x, b)' = Noted(x, b)
    BY <1>1 DEF Noted
  <2>4. \A x \in Clients : ClosedEarly(x, b) => ClosedEarly(x, b)'
    BY <1>0, <1>1 DEF ClosedEarly
  <2> QED
    BY <1>1, <2>1, <2>2, <2>3, <2>4, RefFrame
<1>2. ASSUME NEW o \in Opens, Open(o) \/ Gate(o) \/ CreateReturnsNull(o) PROVE RefInv'
  BY <1>0, <1>1, <1>2 DEF Open, OpenAddressBook, Gate, PassGate, CreateReturnsNull
<1>3. ASSUME NEW o \in Opens, OpenFails(o) PROVE RefInv'
  <2>1. /\ open[o] = "spawn" /\ open'[o] = "failed"
        /\ \A p \in Opens \ {o} : open'[p] = open[p] \/ (open[p] = "condwait" /\ open'[p] = "gate")
    BY <1>0, <1>3, SignalMoves DEF OpenFails, OpenStates
  <2> QED
    BY <1>1, <1>3, <2>1 DEF OpenFails
<1>4. ASSUME UNCHANGED <<open, backend, closed, watched_names, refs, backend_clients, disturbed>>
      PROVE  RefInv'
  BY <1>1, <1>4
<1> QED
  BY <1>2, <1>3, <1>4, RefUse, RefReply, RefAdd, RefClose, RefVanished
     DEF Next, OpenStep, Die, ClientDies, ToggleNotify, ToggleRelease, Inactive, InactivityTimeout, Terminate, Quit, vars

\* The references of each backend are accounted for in every state.
LEMMA SpecRefInv == Spec => []RefInv
<1>1. Init => RefInv
  <2> SUFFICES ASSUME Init, NEW b \in Opens PROVE RefOK(b)
    BY DEF RefInv
  <2>1. Owned(b) = {} /\ \A c \in Clients : Noted(c, b) = {}
    BY OpensAssumption DEF Init, ServerInit, Owned, Noted
  <2>2. refs[b] = 0 /\ \A c \in Clients : backend_clients[c][b] = 0
    BY DEF Init, ServerInit
  <2>3. Cardinality(Owned(b)) = 0 /\ \A c \in Clients : Cardinality(Noted(c, b)) = 0
    BY <2>1, FS_EmptySet
  <2> QED
    BY <2>2, <2>3 DEF RefOK
<1>2. IInv /\ RefInv /\ [Next]_vars => RefInv'
  BY RefInductive
<1> QED
  BY <1>1, <1>2, SpecIInv, PTL DEF Spec

\* No close and no end of another client shuts down a backend which a client has,
\* for any number of calls and clients, unless the code has lost count of its
\* references in one of the noted ways.
THEOREM KeptCorrect == Spec => []KeptWhileUsed
<1>1. IInv /\ RefInv => KeptWhileUsed
  <2> SUFFICES ASSUME IInv, RefInv, NEW o \in Opens, InUse(o), backend[o] \notin disturbed
               PROVE  InTable(backend[o]) /\ backend[o] \notin toggling
    BY DEF KeptWhileUsed
  <2> DEFINE b == backend[o]
  <2>1. b \in Opens /\ o \in Owned(b)
    BY DEF InUse, Keeps, IInv, CallInv, Owned
  <2>2. Cardinality(Owned(b)) # 0
    BY <2>1, OwnedFinite, FS_EmptySet
  <2>3. RefOK(b) /\ refs[b] \in Nat
    BY <2>1 DEF RefInv, IInv, TypeOK
  <2>4. refs[b] > 0
    BY <2>2, <2>3, OwnedFinite DEF RefOK
  <2> QED
    BY <2>1, <2>4 DEF IInv, TableInv
<1> QED
  BY <1>1, SpecIInv, SpecRefInv, PTL

-----------------------------------------------------------------------------
(* ---- nobody is forgotten at the gate ---- *)

\* A closed gate has somebody behind it who is going to open it, and a thread waits
\* for spawn_subprocess_cond only while another one is behind the gate or goes there
\* next, or while one has left the gate closed for good: its backend could not be
\* created.
GateIsServed ==
    /\ spawn_subprocess_state = "BLOCKED" => \E o \in Opens : open[o] \in Behind \cup {"hung"}
    /\ (\E w \in Opens : open[w] = "condwait") =>
          \E o \in Opens : open[o] \in Behind \cup {"gate", "hung"}

\* Who opens the gate wakes a thread if there is one.
LEMMA SignalWakes ==
    ASSUME TypeOK, NEW o \in Opens, NEW pc \in OpenStates \ {"condwait"}, NEW state, state # "BLOCKED",
           open[o] # "condwait", MoveAndSignal(o, pc, state)
    PROVE  GateIsServed'
<1> USE DEF TypeOK, ServerTypeOK
<1>1. CASE /\ {w \in Opens : open[w] = "condwait"} = {}
           /\ spawn_subprocess_state' = state
           /\ open' = [open EXCEPT ![o] = pc]
  BY <1>1 DEF GateIsServed
<1>2. ASSUME NEW w \in Opens, open[w] = "condwait", spawn_subprocess_state' = state,
             open' = [open EXCEPT ![o] = pc, ![w] = "gate"]
      PROVE  GateIsServed'
  BY <1>2 DEF GateIsServed
<1> QED
  BY <1>1, <1>2 DEF MoveAndSignal

\* No thread is the last to go and leaves another in its wait.
LEMMA WakeInductive == TypeOK /\ GateIsServed /\ [Next]_vars => GateIsServed'
<1> SUFFICES ASSUME TypeOK, GateIsServed, [Next]_vars PROVE GateIsServed'
  OBVIOUS
<1> USE DEF TypeOK, ServerTypeOK
<1>1. ASSUME NEW o \in Opens, NEW pc \in Behind \cup {"hung"}, open' = [open EXCEPT ![o] = pc]
      PROVE  GateIsServed'
  BY <1>1 DEF GateIsServed
<1>2. ASSUME NEW o \in Opens, Open(o) PROVE GateIsServed'
  BY <1>2 DEF Open, OpenAddressBook, GateIsServed, Behind
<1>3. ASSUME NEW o \in Opens, Gate(o) PROVE GateIsServed'
  <2>1. CASE spawn_subprocess_state = "BLOCKED"
    BY <1>3, <2>1 DEF Gate, PassGate, GateIsServed, Behind
  <2>2. CASE spawn_subprocess_state # "BLOCKED"
    BY <1>1, <1>3, <2>2 DEF Gate, PassGate, Behind
  <2> QED
    BY <2>1, <2>2
<1>4. ASSUME NEW o \in Opens, UseOpened(o) \/ CreateBackend(o) \/ CreateReturnsNull(o) \/ Reply(o)
      PROVE  GateIsServed'
  BY <1>1, <1>4 DEF UseOpened, CreateBackend, CreateReturnsNull, Reply, Behind
<1>5. ASSUME NEW o \in Opens, OpenFails(o) PROVE GateIsServed'
  BY <1>5, SignalWakes DEF OpenFails, OpenStates
<1>6. ASSUME NEW o \in Opens, AddBackendClient(o) PROVE GateIsServed'
  BY <1>6, SignalWakes DEF AddBackendClient, OpenStates
<1>7. ASSUME UNCHANGED gateVars PROVE GateIsServed'
  BY <1>7 DEF gateVars, GateIsServed
<1> QED
  BY <1>2, <1>3, <1>4, <1>5, <1>6, <1>7
     DEF Next, OpenStep, Close, Die, ClientDies, NameVanished, ToggleNotify, ToggleRelease, Inactive,
         InactivityTimeout, Terminate, Quit, vars

\* No wakeup is lost at the gate, although g_cond_signal() wakes one thread only:
\* the safety half of what Settled says of the calls.
THEOREM NoLostWakeup == Spec => []GateIsServed
<1>1. Init => GateIsServed
  BY DEF Init, ServerInit, GateIsServed
<1> QED
  BY <1>1, WakeInductive, TypeCorrect, PTL DEF Spec
=============================================================================
