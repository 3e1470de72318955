----------------------------- MODULE BookView -----------------------------
(***************************************************************************)
(* EDataBookView (src/addressbook/libedata-book/e-data-book-view.c): the   *)
(* live view a client has on the contacts of an EBookMetaBackend which     *)
(* match its query.                                                        *)
(*                                                                         *)
(* Three kinds of threads notify a view.  The thread of Start sends what a *)
(* search found, some time after the search (ebmb_start_view() in          *)
(* e-book-meta-backend.c).  The thread of the backend's operations sends   *)
(* what a refresh changes.  The main loop sends what a call of a client    *)
(* changed when that call finishes, while the next operation can run       *)
(* already (e_book_backend_create_contacts_finish() in e-book-backend.c).  *)
(* The view collects notifications under pending_mutex and sends them in   *)
(* batches.  D-Bus keeps their order, so client, what a client knows, is   *)
(* what it knows once it has received all that has been sent.  The view    *)
(* has the flags it is made with, NOTIFY_INITIAL, and sends whole contacts.*)
(***************************************************************************)
EXTENDS Naturals, Sequences, FiniteSets, SequencesExt

CONSTANTS
    BookUids,         \* UIDs of contacts
    Contents,         \* contents of a contact
    Initial,          \* the contacts there are at first
    Matching,         \* the ones the query of the view matches
    None,
    THRESHOLD_ITEMS,  \* a batch has at most so many strings, two for a contact
    MaxStarts,        \* bound: calls of Start
    MaxChanges        \* bound: changes of the contacts

ASSUME ContentsAssumption == None \notin Contents /\ Matching \subseteq Contents
ASSUME NoneAssumption == None \notin [uid: BookUids, content: Contents \cup {None}]
ASSUME InitialAssumption == Initial \in [BookUids -> Contents \cup {None}]
ASSUME ThresholdAssumption ==
    THRESHOLD_ITEMS \in Nat /\ THRESHOLD_ITEMS > 1 /\ THRESHOLD_ITEMS % 2 = 0
ASSUME BoundsAssumption == MaxStarts \in Nat /\ MaxChanges \in Nat

Starts == 1..MaxStarts

VARIABLES
    contacts,         \* the backend's contacts
    finishing,        \* changes by clients, their calls about to finish
    completing,       \* such a call has notified its change, not yet the end of it
    notifying,        \* the change a refresh is about to notify, or None
    running, complete,
    ids,              \* contacts the view takes the client to know
    adds, changes, removes,
    flush,            \* flush_id is set
    client,           \* what the client knows
    starter,          \* the threads of Start
    unsent,           \* what the search of each found and it has not notified
    cancelled,        \* cancelled ones of them
    cancellable,      \* the one a stop can cancel, or 0
    last,             \* the last call of Start, or 0
    stopping,         \* the thread of Stop
    changed,          \* how many changes there were
    overtaken         \* history: contacts whose last notification was not the
                      \* newest, or came while the view was stopped

backendVars == <<contacts, finishing, completing, notifying, changed>>
pendingVars == <<ids, adds, changes, removes, flush, client>>
startVars == <<starter, unsent, cancelled, cancellable, last, stopping>>
viewVars == <<backendVars, running, complete, pendingVars,
          startVars, overtaken>>

Known == Contents \cup {None}
Note == [uid: BookUids, content: Known]

ViewTypeOK ==
    /\ contacts \in [BookUids -> Known]
    /\ finishing \in Seq(Note)
    /\ notifying \in Note \cup {None}
    /\ {completing, running, complete} \subseteq BOOLEAN
    /\ ids \in SUBSET BookUids
    /\ adds \in Seq(Note) /\ 2 * Len(adds) <= THRESHOLD_ITEMS
    /\ changes \in Seq(Note) /\ Len(changes) <= THRESHOLD_ITEMS
    /\ removes \in Seq(Note) /\ Len(removes) <= THRESHOLD_ITEMS
    /\ flush \in BOOLEAN
    /\ client \in [BookUids -> Known]
    /\ starter \in [Starts -> {"idle", "begin", "search", "notify", "done"}]
    /\ unsent \in [Starts -> [BookUids -> Known]]
    /\ cancelled \in SUBSET Starts
    /\ cancellable \in 0..MaxStarts
    /\ last \in 0..MaxStarts
    /\ stopping \in {"none", "begin", "cancel"}
    /\ changed \in 0..MaxChanges
    /\ overtaken \in SUBSET BookUids

Nothing == [u \in BookUids |-> None]

ViewInit ==
    /\ contacts = Initial
    /\ finishing = <<>> /\ completing = FALSE
    /\ notifying = None
    /\ running = FALSE /\ complete = FALSE
    /\ ids = {}
    /\ adds = <<>> /\ changes = <<>> /\ removes = <<>>
    /\ flush = FALSE
    /\ client = Nothing
    /\ starter = [t \in Starts |-> "idle"]
    /\ unsent = [t \in Starts |-> Nothing]
    /\ cancelled = {}
    /\ cancellable = 0
    /\ last = 0
    /\ stopping = "none"
    /\ changed = 0
    /\ overtaken = {}

-----------------------------------------------------------------------------
(* The batches, all under pending_mutex.                                   *)

\* The notifications about u in a batch.
About(u, batch) == {i \in 1..Len(batch) : batch[i].uid = u}

\* What a client which knows k knows after a batch: the last one about it tells.
Receive(k, batch) ==
    [u \in BookUids |-> IF About(u, batch) = {} THEN k[u] ELSE batch[Max(About(u, batch))].content]

Flushed == Receive(Receive(Receive(client, adds), changes), removes)

\* send_pending_adds(), send_pending_changes(), send_pending_removes().
SendAll ==
    /\ client' = Flushed
    /\ adds' = <<>> /\ changes' = <<>> /\ removes' = <<>>

\* A mutant of NotifyIn: no timeout is set for the batch.
NotifyInUntimed(batch, others, limit) ==
    /\ client' = IF Len(batch) = limit
                 THEN Receive(Receive(client, others), batch)
                 ELSE Receive(client, others)
    /\ UNCHANGED flush

\* Sends the batches of other kinds than the one n joins, and a full one of its own.
NotifyIn(batch, others, limit) ==
    /\ client' = IF Len(batch) = limit
                 THEN Receive(Receive(client, others), batch)
                 ELSE Receive(client, others)
    /\ flush' = TRUE

\* A mutant of Joined: a full batch grows on.
JoinedUnlimited(batch, limit, n) == Append(batch, n)

Joined(batch, limit, n) == IF Len(batch) = limit THEN <<n>> ELSE Append(batch, n)

\* A mutant of notify_add: removals which wait are not sent first.
AddBeforeRemoves(n) ==
    /\ NotifyIn(adds, changes, THRESHOLD_ITEMS \div 2)
    /\ adds' = Joined(adds, THRESHOLD_ITEMS \div 2, n)
    /\ changes' = <<>>
    /\ ids' = ids \cup {n.uid}
    /\ UNCHANGED removes

notify_add(n) ==
    /\ NotifyIn(adds, changes \o removes, THRESHOLD_ITEMS \div 2)
    /\ adds' = Joined(adds, THRESHOLD_ITEMS \div 2, n)
    /\ changes' = <<>> /\ removes' = <<>>
    /\ ids' = ids \cup {n.uid}

notify_change(n) ==
    /\ NotifyIn(changes, adds \o removes, THRESHOLD_ITEMS)
    /\ changes' = Joined(changes, THRESHOLD_ITEMS, n)
    /\ adds' = <<>> /\ removes' = <<>>
    /\ UNCHANGED ids

notify_remove(n) ==
    /\ NotifyIn(removes, adds \o changes, THRESHOLD_ITEMS)
    /\ removes' = Joined(removes, THRESHOLD_ITEMS, [n EXCEPT !.content = None])
    /\ adds' = <<>> /\ changes' = <<>>
    /\ ids' = ids \ {n.uid}

-----------------------------------------------------------------------------
(* Notifications of a view.                                                *)

Matches(n) == n.content \in Matching

Ignore == UNCHANGED pendingVars

\* What the client should know of u.
Wanted(u) == IF contacts[u] \in Matching THEN contacts[u] ELSE None

\* e_data_book_view_notify_update(), for a content None
\* e_data_book_view_notify_remove().
NotifyUpdate(n) ==
    CASE ~running                          -> Ignore
      [] running /\ Matches(n)             -> IF n.uid \in ids THEN notify_change(n)
                                                               ELSE notify_add(n)
      [] running /\ ~Matches(n)            -> IF n.uid \in ids THEN notify_remove(n)
                                                               ELSE Ignore

\* e_data_book_view_notify_update_prefiltered_vcard().
NotifyPrefiltered(n) ==
    IF ~running THEN Ignore
    ELSE IF n.uid \in ids THEN notify_change(n) ELSE notify_add(n)

\* e_data_book_view_notify_complete().
NotifyComplete ==
    IF running
    THEN /\ complete' = TRUE
         /\ SendAll
    ELSE UNCHANGED <<complete, client, adds, changes, removes>>

\* What n, notified now, does to overtaken.
Judge(n) ==
    overtaken' = CASE running /\ n.content = contacts[n.uid]  -> overtaken \ {n.uid}
                   [] running /\ n.content # contacts[n.uid]  -> overtaken \cup {n.uid}
                   [] ~running /\ (n.uid \notin ids \/ Matches(n)) -> overtaken
                   [] ~running /\ n.uid \in ids /\ ~Matches(n)
                                                    -> overtaken \cup {n.uid}

\* pending_flush_timeout_cb().
FlushTimeout ==
    /\ ~completing
    /\ flush
    /\ flush' = FALSE
    /\ SendAll
    /\ UNCHANGED <<backendVars, running, complete, ids,
                   startVars, overtaken>>

-----------------------------------------------------------------------------
(* The backend's changes, and how they reach the view.                     *)

\* The operation thread has changed a contact.
Change(u, v) ==
    /\ notifying = None
    /\ changed < MaxChanges
    /\ v # contacts[u]
    /\ contacts' = [contacts EXCEPT ![u] = v]
    /\ changed' = changed + 1

\* For a call of a client, which it lets finish in the main loop.
ClientChange(u, v) ==
    /\ Change(u, v)
    /\ finishing' = Append(finishing, [uid |-> u, content |-> v])
    /\ UNCHANGED <<completing, notifying, running, complete, pendingVars,
                   startVars, overtaken>>

\* For a refresh, which notifies it itself, e_book_meta_backend_process_changes_sync().
RefreshChange(u, v) ==
    /\ Change(u, v)
    /\ notifying' = [uid |-> u, content |-> v]
    /\ UNCHANGED <<finishing, completing, running, complete, pendingVars,
                   startVars, overtaken>>

\* e_book_backend_create_contacts_finish() and the ones of modify and remove.
\* The main loop does nothing else meanwhile, other threads may.
NotifyFinished ==
    /\ ~completing
    /\ finishing # <<>>
    /\ NotifyUpdate(Head(finishing))
    /\ Judge(Head(finishing))
    /\ finishing' = Tail(finishing)
    /\ completing' = TRUE
    /\ UNCHANGED <<contacts, notifying, changed, running, complete,
                   startVars>>

CompleteFinished ==
    /\ completing
    /\ completing' = FALSE
    /\ NotifyComplete
    /\ UNCHANGED <<contacts, finishing, notifying, changed, running,
                   ids, flush, startVars, overtaken>>

NotifyRefreshed ==
    /\ notifying # None
    /\ NotifyUpdate(notifying)
    /\ Judge(notifying)
    /\ notifying' = None
    /\ UNCHANGED <<contacts, finishing, completing, changed, running,
                   complete, startVars>>

-----------------------------------------------------------------------------
(* Starting and stopping.                                                  *)

\* impl_DataBookView_start().
Start ==
    /\ ~completing
    /\ last < MaxStarts
    /\ running' = TRUE /\ complete' = FALSE
    /\ last' = last + 1
    /\ starter' = [starter EXCEPT ![last'] = "begin"]
    /\ UNCHANGED <<backendVars, pendingVars, unsent,
                   cancelled, cancellable, stopping, overtaken>>

\* bookview_start_thread() up to ebmb_create_view_cancellable().
StartThread(t) ==
    /\ starter[t] = "begin"
    /\ IF running
       THEN /\ starter' = [starter EXCEPT ![t] = "search"]
            /\ cancellable' = t
       ELSE /\ starter' = [starter EXCEPT ![t] = "done"]
            /\ UNCHANGED cancellable
    /\ UNCHANGED <<backendVars, running, complete,
                   pendingVars, unsent, cancelled, last, stopping, overtaken>>

\* The search of ebmb_start_view(), none of whose contacts are used when it
\* has been cancelled.
Search(t) ==
    /\ starter[t] = "search"
    /\ starter' = [starter EXCEPT ![t] = "notify"]
    /\ unsent' = IF t \in cancelled THEN unsent
                 ELSE [unsent EXCEPT ![t] = [u \in BookUids |-> Wanted(u)]]
    /\ UNCHANGED <<backendVars, running, complete,
                   pendingVars, cancelled, cancellable, last, stopping, overtaken>>

NotifyFound(t, u) ==
    LET n == [uid |-> u, content |-> unsent[t][u]]
    IN  /\ starter[t] = "notify"
        /\ unsent[t][u] # None
        /\ NotifyPrefiltered(n)
        /\ Judge(n)
        /\ unsent' = [unsent EXCEPT ![t][u] = None]
        /\ UNCHANGED <<backendVars, running, complete,
                       starter, cancelled, cancellable, last, stopping>>

CompleteStart(t) ==
    /\ starter[t] = "notify"
    /\ unsent[t] = Nothing
    /\ starter' = [starter EXCEPT ![t] = "done"]
    /\ NotifyComplete
    /\ UNCHANGED <<backendVars, running, ids, flush, unsent,
                   cancelled, cancellable, last, stopping, overtaken>>

\* impl_DataBookView_stop().
Stop ==
    /\ ~completing
    /\ running
    /\ stopping = "none"
    /\ running' = FALSE /\ complete' = FALSE
    /\ stopping' = "begin"
    /\ UNCHANGED <<backendVars, pendingVars, starter, unsent,
                   cancelled, cancellable, last, overtaken>>

\* bookview_stop_thread().
StopThread ==
    /\ stopping = "begin"
    /\ stopping' = IF running THEN "none" ELSE "cancel"
    /\ UNCHANGED <<backendVars, running, complete,
                   pendingVars, starter, unsent, cancelled, cancellable, last, overtaken>>

\* ebmb_stop_view().  Cancelling a search which has ended does nothing.
StopView ==
    /\ cancelled' = cancelled \cup {t \in Starts : t = cancellable /\ starter[t] = "search"}
    /\ cancellable' = 0

CancelSearch ==
    /\ stopping = "cancel"
    /\ stopping' = "none"
    /\ StopView
    /\ UNCHANGED <<backendVars, running, complete,
                   pendingVars, starter, unsent, last, overtaken>>

-----------------------------------------------------------------------------
StartStep(t) ==
    StartThread(t) \/ Search(t) \/ (\E u \in BookUids : NotifyFound(t, u)) \/ CompleteStart(t)

MainLoopStep == NotifyFinished \/ CompleteFinished

ViewNext ==
    \/ \E u \in BookUids, v \in Known : ClientChange(u, v) \/ RefreshChange(u, v)
    \/ MainLoopStep \/ NotifyRefreshed \/ FlushTimeout
    \/ \E t \in Starts : StartStep(t)
    \/ Start \/ Stop \/ StopThread \/ CancelSearch

(* The threads are scheduled and the main loop runs its sources.           *)
Fairness ==
    /\ WF_viewVars(MainLoopStep) /\ WF_viewVars(FlushTimeout)
    /\ WF_viewVars(NotifyRefreshed)
    /\ \A t \in Starts : WF_viewVars(StartStep(t))
    /\ WF_viewVars(StopThread) /\ WF_viewVars(CancelSearch)

ViewSpec == ViewInit /\ [][ViewNext]_viewVars /\ Fairness

-----------------------------------------------------------------------------
(* Properties.                                                             *)

\* At most one of the arrays has something to send, for they are sent in an
\* order of their own, and everything in it applies to what the client knows
\* when it comes: contacts are added which it does not know, changed and removed
\* which it does, and afterwards it knows those the view takes it to know.
EventsApply ==
    /\ adds = <<>> \/ changes \o removes = <<>>
    /\ changes = <<>> \/ removes = <<>>
    /\ \A n \in ToSet(adds) : client[n.uid] = None
    /\ \A n \in ToSet(changes \o removes) : client[n.uid] # None
    /\ ids = {u \in BookUids : Flushed[u] # None}

\* A view whose last search has been told to the end, with no notification on its
\* way and no timeout set, is in sync, with the same exceptions as below: no
\* change gets lost between the threads.
QuietInSync ==
    /\ running /\ last \notin cancelled /\ starter[last] = "done"
    /\ finishing = <<>> /\ notifying = None /\ ~flush
    => \A u \in BookUids \ overtaken : client[u] = Wanted(u)

\* When nothing changes any more, a client of a running view knows exactly the
\* contacts which match its query.  Excepted are a contact whose last
\* notification was overtaken, and a view whose new start has been cancelled by
\* the thread of the stop before it.
SettlesInSync ==
    <>[](running /\ last \notin cancelled =>
            \A u \in BookUids \ overtaken : client[u] = Wanted(u))
=============================================================================
