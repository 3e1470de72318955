--------------------------- MODULE OperationQueue ---------------------------
(***************************************************************************)
(* What the operation queue of a backend promises to those who call it,    *)
(* without its threads and locks: operations leave the queue in the order  *)
(* of their calls, none does while a blocking operation is in progress,    *)
(* and each that has left is answered once and finished once, in this      *)
(* order.  BookBackendQueue implements it.                                 *)
(***************************************************************************)
EXTENDS Sequences

CONSTANTS
    Ops,        \* the calls
    Blocking,   \* the ones which keep others waiting
    Results,    \* the possible answers
    NoAnswer

VARIABLES
    waiting,    \* calls in the queue
    active,     \* calls which left it and are not answered
    answer,
    finished

vars == <<waiting, active, answer, finished>>

Init ==
    /\ waiting = <<>>
    /\ active = {}
    /\ answer = [o \in Ops |-> NoAnswer]
    /\ finished = {}

Call(o) ==
    /\ answer[o] = NoAnswer
    /\ o \notin active
    /\ \A i \in DOMAIN waiting : waiting[i] # o
    /\ waiting' = Append(waiting, o)
    /\ UNCHANGED <<active, answer, finished>>

Begin ==
    /\ waiting # <<>>
    /\ active \cap Blocking = {}
    /\ waiting' = Tail(waiting)
    /\ active' = active \cup {Head(waiting)}
    /\ UNCHANGED <<answer, finished>>

Answer(o) ==
    /\ o \in active
    /\ active' = active \ {o}
    /\ \E r \in Results : answer' = [answer EXCEPT ![o] = r]
    /\ UNCHANGED <<waiting, finished>>

Finish(o) ==
    /\ answer[o] # NoAnswer
    /\ o \notin finished
    /\ finished' = finished \cup {o}
    /\ UNCHANGED <<waiting, active, answer>>

Next ==
    \/ Begin
    \/ \E o \in Ops : Call(o) \/ Answer(o) \/ Finish(o)

Spec == Init /\ [][Next]_vars
=============================================================================
