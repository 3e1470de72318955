# A verification project for evolution-data-server

evolution-data-server (EDS) stores address books, calendars and mail for a
desktop. This directory holds TLA+ models of the parts of it where ordering,
failure and concurrency decide about correctness, the TLC configurations which
check them on small instances, and TLAPS proofs of what can be shown for every
instance. Paths below are relative to `src/src/`.

## 1. Inventory of the system

| Part | State it keeps | Operations | What is hard | What makes it correct |
|---|---|---|---|---|
| `libebackend/e-cache.c` ECache | SQLite objects table with an offline state per row, key/value table, transaction nesting, revision memory | put, remove, remove all, get, lock/unlock, freeze/thaw, offline changes | nesting, rollback of half of a batch, crash, memory that a rollback does not undo | the offline changes can be replayed; a revision stands for one content |
| `libebackend/e-cache-keys.c` ECacheKeys | reference count per key | put, remove, remove all | counts against a history of puts and removals | a key is there as long as it is used |
| `addressbook/libedata-book/e-book-cache.c` EBookCache | ECache + auxiliary tables + categories | the same, in hooks | the hooks see other rows than the caller | all tables agree |
| `addressbook/libedata-book/e-book-backend.c`, `calendar/libedata-cal/e-cal-backend.c` | operation queue, blocking task, thread pool, `opened` | push, dispatch, unblock, finish | main loop, pool threads and callbacks interleave | nothing passes a blocking operation, each call is run once and finished |
| `addressbook/libedata-book/e-book-meta-backend.c` with `addressbook/backends/carddav` | cache, sync tag, offline changes | create, modify, remove, get, upload, refresh | other clients change the server between requests, answers get lost, a refresh fails half way | no offline change is lost; cache and server converge |
| `calendar/libedata-cal/e-cal-meta-backend.c` with `calendar/backends/caldav` | the same for events with recurrences | the same | one resource is several rows | the same |
| `camel/providers/imapx/camel-imapx-conn-manager.c`, `camel-imapx-job.c` | list of connections with busy flags, job queue, pending connections, limit | run job, connect, disconnect, cancel | threads, a readers-writer lock which is exchanged, a condition variable, broken connections | a connection serves one job; no job is stuck; the limit holds |
| `camel/camel-service.c` | connection status, operation in progress with the calls which joined it, a task queue per folder | connect, disconnect, queue a task | a late completion of a replaced operation, shared results, cancellation | the newest operation decides; nobody waits for ever; the tasks of a folder run one at a time |
| `libebackend/e-dbus-server.c`, `e-data-factory.c` | use count, inactivity timeout, gate, backends or subprocesses per client, watched names | hold, release, open, close, quit | clients vanish and subprocesses crash in the middle of an open | the process is held exactly while it is needed; a used backend stays |
| `libebackend/e-subprocess-factory.c` | backends of one subprocess | create, close | — | like EDataFactory |
| `addressbook/libedata-book/e-data-book-view.c` EDataBookView | running, known ids, three batches of notifications, flush timeout | start, stop, notify, flush | the threads of Start and of the operations and the main loop notify, in no order | each batch applies to what the client knows; the client ends in sync |
| `libebackend/e-source-registry-server.c`, `e-server-side-source.c` | tree of sources, orphans, files | add, remove, save | parents appear after children | each source with a parent is exported |
| `libebackend/e-user-prompter-server.c`, `e-cache-reaper.c` | queue of prompts; trash directories | prompt, respond; reap | out of order responses | one prompt at a time |
| `calendar/libecal/e-reminder-watcher.c` | scheduled, past and snoozed reminders | schedule, dismiss, snooze | timers, suspended machine | each reminder fires once |
| `libedataserver`, `libebook`, `libebook-contacts`, `libecal` | client side proxies, data types | D-Bus calls, conversions | mostly data | — |
| other backends and Camel providers, `modules`, `services`, `libedataserverui`, `tools`, `examples`, `vala` | — | storage formats, protocol I/O, account discovery, user interface, main functions | — | — |

How they interact: a client library calls a factory over D-Bus; `EDataBook`
turns the call into an operation of `EBookBackend`'s queue; a pool thread runs
it in the backend, for most backends an `EBookMetaBackend`, which works on its
`EBookCache` (an `ECache` with an `ECacheKeys`) and on the server. Mail does
not pass through D-Bus: Camel runs in the mail client's process, and its IMAP
folders give jobs to the connection manager. The hazards found while reading,
each with its line, are listed in `PROJECT.json`.

## 2. Modules

```
ECacheObjects <--EXTENDS-- ECache <-- MCECache, ECacheProofs
      ^  ^
      |  +--INSTANCE-- BookCache <-- MCBookCache, AddressBookProofs
      +-----INSTANCE-- BookMetaBackend <-- MCBookMetaBackend, BookMetaBackendProofs
OperationQueue <--INSTANCE (refinement)-- BookBackendQueue
                           <-- MCBookBackendQueue, BookBackendQueueProofs
BookView <-- MCBookView, AddressBookProofs
FactoryServer <--EXTENDS-- DataFactory <-- MCDataFactory, DataFactoryProofs
      ^--EXTENDS-- SubprocessFactory <-- MCSubprocessFactory, SubprocessFactoryProofs
CamelService <-- MCCamelService, CamelServiceProofs
IMAPXConnManager <-- MCIMAPXConnManager, IMAPXConnManagerProofs
```

**ECacheObjects** has the objects table as a value and ECache's calls as
operators on it (`e_cache_put`, `e_cache_remove`, ...), with the choice of the
offline state, which depends on the row that is there. An object is a model
value; it stands for all columns of a row. All modules with a cache use it.

**ECache** adds transactions, the revision and crashes. `Lock`, `Unlock`,
`Freeze`, `Thaw`, `Put`, `Remove`, `RemoveAll` and `ClearOfflineChanges` are the
functions of the same names. Each takes ECache's recursive mutex, so while
`owner` is in a transaction no other thread does anything, and a call outside of
one commits by itself. `cur` is what the open transaction sees and `disk` what is
committed. `frozen`, `needs_revision_change`, `last_revision_time` and
`revision_counter` are in memory: `Unlock` with ROLLBACK leaves them alone,
`Restart` forgets them. Callers freeze after they lock and thaw before they
unlock (`e_book_cache_put_contacts()` and its like), hence the guards of
`Freeze` and `Unlock`. History: `known` is what the cache was told about the
server, `announced` what the last "revision-changed" signal told, `guard` the
revision a cursor of a client holds (`edbcc_step()` compares it with the
committed one).

**BookCache** is EBookCache: `rows`, the categories' counts `refs`, the
auxiliary tables `aux`. `put_locked` looks the replaced contact up with
`e_book_cache_get_contact()`, which does not find a locally deleted one; this
is why counts only ever err upwards. The initial states are all tables an older
version can have left, counted by `e_book_cache_migrate()`.

**BookBackendQueue** is the operation queue. The node is popped under
`operation_lock` (`DispatchNextOperation`) and pushed to the pool after it
(`ThreadPoolPush`); the main loop and other threads interleave. `*_finish()` is
`UnblockOperations`, which dispatches in a loop, and `Return`, where
`open_finish` sets `opened`, unless the call was cancelled after the answer. Both
are run by the main loop or, for the calls in `Syncs`, by the thread of the
`*_sync()` function (`MakesCall`). Such a thread does not wait for its own call in
the model and may finish another's, which only adds interleavings; a `*_sync()` call
in the thread of the main loop, which stops that loop meanwhile, is left out. `StartOperation` is the dispatch thread with the
three kinds of dispatch functions, `Respond` the answer of the backend.
A backend of the product uses a serial queue (`MaxThreads = 1`); the class
supports a concurrent one, which `book_queue` checks.

**OperationQueue** is what that queue promises to its callers, without threads
and locks: operations leave it in the order of the calls and not while a
blocking one is in progress, each is answered once and then finished once.
`ImplementsQueue` is the refinement: the waiting calls are `pending_operations`,
the active ones those which are neither there nor answered. Where a node is
between the pop and the thread that runs it, which can change the order of two
of them, is what the abstraction hides.

**BookView** is EDataBookView with the search of EBookMetaBackend. A view
collects adds, changes and removals in three arrays (`adds`, `changes`,
`removes`); `notify_add`, `notify_change` and `notify_remove` first send the two
others, and a full array of their own. `NotifyUpdate`, `NotifyPrefiltered` and
`NotifyComplete` are the functions a backend calls. They are called by the
thread of Start (`StartThread`, `Search`, `NotifyFound`, `CompleteStart`), by the
thread of the operations when a refresh changes a contact (`RefreshChange`,
`NotifyRefreshed`), and by the main loop when the call of a client finishes
(`ClientChange`, `NotifyFinished`, `CompleteFinished`), by when the next
operation can run already. `Stop` and its thread (`StopThread`, `CancelSearch`)
cancel the search of a start. `client` is what the client knows when all that
was sent has come: D-Bus keeps the order, so what a batch makes of it is, for each
contact, the last entry about it (`Receive`). `overtaken` is history. `ViewInit`,
`ViewNext` and `ViewSpec` have their names because one module of proofs extends both
BookView and BookCache. The flag
`running`, which the functions read outside of the mutex, is read together with
the notification; a stop in between drops the notification or sends it, which
the client of a stopped view cannot tell apart.

**FactoryServer** is what both builds of EDataFactory share: EDBusServer's
`e_dbus_server_hold`, `e_dbus_server_release` and `InactivityTimeout`, the gate
which lets one open after the other create something (`PassGate`,
`MoveAndSignal` with `g_cond_signal()`, which wakes one of the waiting threads),
and the clients. **DataFactory** is the default build: `UseOpened`,
`CreateBackend`, `OpenFails` and `CreateReturnsNull` are the ways an open can go
on, `Reply` and `AddBackendClient` what follows. A backend is named by the open
that created it; `refs` are its references without the toggle reference of the
factory. When they are gone `ToggleNotify` takes the backend out of the table and,
after the mutex has been given up, `ToggleRelease` drops the hold. The
arrays of `backend_clients` have weak references, so removing an entry of a
backend which is gone does nothing (`Unref`). **SubprocessFactory** is the build
with ENABLE_BACKEND_PER_PROCESS: `Spawn`, `OwnName`, `SubprocessAppeared`, `Create`
or `CreateFails`, `AddConnection`, `InsertHelper`, and `SubprocessVanished`, which
D-Bus also calls when a watch begins and the name has no owner. A callback which
waits in the main loop keeps it busy (`Appearing`, `MainFree`). The history
`disturbed` notes the backends whose references or connections the code has
miscounted.

**CamelService** has the connection operations and the task queues of
`camel-service.c`. An operation is named by the call that started it; its thread
returns (`ThreadReturns`), the callback takes the result (`TakeResult`) and then
the lock (`Callback`), and between the two another call can replace the
operation. `camel_service_connect` and `camel_service_disconnect` are the switch
statements over the status. A folder task is queued (`QueueTask`), dispatched,
connects the service first when that is needed (`folder_maybe_connect_sync`,
`FolderConnect`) and, when done, dispatches the next
(`service_task_table_done`).

**BookMetaBackend** is EBookMetaBackend with the CardDAV backend. The queue
runs one operation at a time, so there is one thread; `op` is where it is. Each
request to the server is a step; between two of them other clients change the
server (`OtherClient`), a request fails or the process dies (`Abort`). The
server numbers its changes; ETag, CTag and sync token are such numbers, so that
comparing them means what it means in HTTP. `save_contact_sync` and
`remove_contact_sync` compute what the CardDAV functions return from
If-Match/If-None-Match, the conflict resolution and a missing href. `Saved` has
the three ends of a save: loaded back from the answer, with a further request,
or the answer is lost (`reliable = FALSE`). A refresh is `StartRefresh`,
`UploadChange`..., `ClearOfflineChanges`, then `SyncCollection`, or `GetCTag` and
`ListContacts`, and `ProcessChanges`, in one transaction. The sync-collection report
can be asked from the beginning, when the server refuses the token or the stored tag
is a CTag, and when it fails the CTag and the list are used. `ProcessPartly` is the
refresh that fails half way and, as the code says, is committed all the same.
`recreated` is history: contacts removed and created again in offline.
USE_NEWER and WRITE_COPY behave like FAIL in this backend.

**IMAPXConnManager** is the connection manager. A job goes through `ScanQueue`,
`WaitedFor`, `RefConnection` (the loop's body under the read lock),
`StartConnecting`/`Connected`/`ConnectFailed`/`ConnectRefused` (under the write
lock, `writer`), `LimitConnections`, `WaitForConnection`, then `Succeeded`,
`Failed`, `ConnectionLost`, `Interrupted`, and `EndJob`. `FindVictim` and
`CloseVictim` are the closing of a connection which is in IDLE on the same
mailbox. `Cancel` comes from the caller, `DisconnectBegin`/`DisconnectEnd` from
the store. `finish_before_job`, a function some callers pass, is not modelled
beyond `ShouldWaitFor`. Jobs of one kind on one mailbox match as
`camel_imapx_job_matches()` says: without a function of their own (`Expunges`)
always.

## 3. Runs

| Run | Checks | Shows |
|---|---|---|
| `ecache` | TypeOK, ReplayGivesVisible, ChangesApply, GuardSound | the offline journal and the revision survive every mix of batches, rollbacks and crashes |
| `book_cache` | TypeOK, UsedCategoriesListed, ListExactWithoutOfflineRemove, AuxMatchesRows | every used category is offered, and only these as long as nothing is removed offline; searches by email see what is stored |
| `book_queue` | TypeOK, NothingPassesBlocking, RunOnce, EveryCallFinishes, ImplementsQueue | the queue is right with a concurrent pool, and implements OperationQueue |
| `meta_backend` | TypeOK, InSync, OfflineChangesUploaded, RefreshSynchronizes | no refresh loses an offline change, an equal tag means equal content, refreshing converges |
| `keep_server` (violation) | UpdatedByRefresh | a pretended success with an outdated ETag is never repaired |
| `imapx` | TypeOK, ExclusiveUse, NoDuplicateJobs, BusyIsUsed, CancelNotInherited | connections and queue stay consistent under cancellation, loss and disconnect |
| `imapx_progress` | JobsEndUnlessOneWaits | no circular wait among jobs and connects |
| `imapx_wakeup` (violation) | CancelledWaitEnds | a cancelled thread can sleep on |
| `camel_service` | TypeOK, StatusMatchesOp, LastOperationDecides, OneTaskAtATime, DisconnectedIndeed, CallsReturn | connects, disconnects and reconnecting folder tasks join, replace and cancel each other; the newest operation decides, each call returns |
| `data_factory` | TypeOK, HoldsExact, KeptWhileUsed, Settled | the process is held once per call under way and per backend, a used backend stays, an unused process ends |
| `subprocess_factory` | TypeOK, HoldsExact, KeptWhileUsed, Settled | the same with a subprocess per backend, which can appear late, vanish or crash |
| `book_view` | ViewTypeOK, EventsApply, SettlesInSync | every batch applies to what the client knows, and a running view ends in sync |

Each property of a passing run has a mutant in `PROJECT.json`: a plausible slip
in the code, defined under "Mutations" in the module, that breaks it.

### Bounds

* `ecache`: one UID (rows are independent of each other; only the revision is
  shared, and two objects are enough to tell contents apart), two threads,
  nesting 2 (outermost and nested calls differ, deeper ones do not), three
  seconds with two revisions each: enough for a change before and after a
  rollback in one second and for a restart. The theorems below have no bounds.
* `book_cache`: two contacts, two categories, one email; `MaxRefs` 5 is more
  than twice the contacts, because counts left over from offline removals add up.
* `book_queue`: an open, a custom operation and two methods, one of them called with
  its `*_sync()` function from the one thread beside the main loop.
* `meta_backend`: a contact made up here and one made up elsewhere, two
  contents, all three conflict resolutions; `MaxChanges` bounds the changes of
  the server, the uploads included. A change by a client is made only while there
  is room for the uploads it can lead to (`Room`), so that the bound never keeps a
  refresh from ending; that the room is enough is part of what is proved. `keep_server` has clients which send back what they read
  long ago (`StaleClients`).
* `imapx`: two jobs which get the same message and a refresh that waits for them, a
  limit of two connections and a third that can exceed it, one disconnect.
  `imapx_progress`: two expunges of one mailbox, which match and wait for each other,
  and a connect. Symmetry is used only where all properties
  are invariants.

* `camel_service`: a connect, two disconnects and two tasks of one folder, each of
  which may connect; one connect and one task are cancelled by their callers. An
  operation can be replaced twice and joined by two calls meanwhile.
* `data_factory`: two clients, four opens of two sources: one client opens a
  source twice, the other opens it too, and another one. This is enough for an
  open which finds a backend that is going, for a client that vanishes between
  being watched and being noted, and for two clients of one backend.
* `subprocess_factory`: three opens of one source by two clients and one crash
  (`MaxCrashes`): two subprocesses of one source can exist and disturb each other.
* `book_view`: two contacts, one there at first, a content which matches and one
  which does not, batches of one contact (an add has two strings, of which
  `THRESHOLD_ITEMS` = 2 are sent at once) or two changes or removals, two starts
  with a stop between or after them, two changes by clients or a refresh.

Deadlock is checked except where the calls are bounded and the system comes to
rest: the connection manager, CamelService, the factories and BookView.

### Fairness

* BookBackendQueue: threads are scheduled, the main loop or the thread of the call
  finishes answered tasks, a backend's function returns. That a call is made is not assumed.
* BookMetaBackend: weak fairness of the refresh's steps as a whole: the source's
  refresh timeout starts one refresh after the other, and requests have timeouts.
  RefreshSynchronizes says nothing about behaviours in which other steps
  (changes, failures) happen again and again.
* IMAPXConnManager: each job's thread is scheduled and no I/O lasts for ever
  (connections and commands have timeouts). Nothing is assumed of the waiting on
  the condition variable beyond what broadcasts give.

* CamelService: the main loop runs callbacks, threads are scheduled, and no method
  of a provider lasts for ever. Calls and cancellations are not assumed.
* DataFactory, SubprocessFactory: threads are scheduled, the main loop runs the
  watches and the timeout, a subprocess which does not crash gets its name. That
  a client closes what it has or ends is not assumed.
* BookView: threads are scheduled, the main loop runs callbacks and the timeout
  of the flush.

### What the properties leave out, and why

* InSync and RefreshSynchronizes except contacts in `recreated`: such a contact
  has lost its href, its upload is refused as invalid and its row removed, while
  the server still has the old version and the tag is equal. TLC finds this at
  once when the exception is dropped.
* RefreshSynchronizes needs `reliable`: when the answer to the upload of a
  created contact is lost, each later refresh gets 412 for it and stops before
  the download.
* JobsEndUnlessOneWaits excepts a thread on the condition variable, because of
  what `imapx_wakeup` shows.
* GuardSound needs `RestartTime > 0`: the counter of the revision is not stored.
* KeptWhileUsed excepts backends in `disturbed`: an open found the backend while
  its last reference was being given up; a client closed it before it was noted,
  or was watched again after it vanished, so that a reference is dropped twice; in
  the other build a subprocess is closed under a call which is about to use it, or
  is taken for another one of the same source.
* Settled excepts a call whose backend could not be created (`hung`: no error is
  set, so it is never answered and the gate stays closed), a call whose subprocess
  ends before it appears (`Stuck`), and entries nobody removes (`Leaked`).
* SettlesInSync excepts contacts in `overtaken`, whose last notification was not
  the newest one or came while the view was stopped, and a view whose last start
  was cancelled by the thread of the stop before it.

### What the models show and no property claims

While the properties were written TLC found behaviours which contradict what one
would expect or a text says; the properties are stated so that they hold, and
these are kept in mind as hazards:

* A put in offline over a row which is LOCALLY_DELETED makes it LOCALLY_MODIFIED,
  while `e-cache.c` 1498 says that overwriting such an object "behaves like an
  addition of a completely new object". The sentence follows the one about puts in
  online, where it is right, and `test-book-cache-offline.c` 1096 expects what the
  code does; ChangesApply needs it so, since the server still has the object.
* The list of categories keeps those of contacts removed in offline (BookCache;
  hence ListExactWithoutOfflineRemove).
* Two threads which dispatch at once can swap two operations of a serial queue, and
  a method queued behind an open which succeeds can be refused as not opened,
  because `open_finish` sets `opened` after it has dispatched (BookBackendQueue).
* A connection which is to be closed because it is in IDLE on the mailbox may have
  been taken by another job meanwhile; that job gets an I/O error and is tried again
  on another connection (IMAPXConnManager, `CloseVictim`).
* Two threads can pass the check of the number of connections before either opens
  one, so the limit is exceeded (IMAPXConnManager).
* A connect which comes while a disconnect has replaced a connect joins the
  disconnect, and returns TRUE without a connection (CamelService; the status is
  still CONNECTING, and `camel-service.c` 1583 speaks of "a connect operation").
* The gate of the factory is opened by Create before the helper is in the table, so
  a second subprocess is spawned for the source (SubprocessFactory;
  `e-data-factory.c` 65 says the second call "will wait the first one be created").
* A call of a client which finishes makes a view complete before its own search has
  been run (BookView; `e-data-book-view.c` 1381 says "should now be in sync").

## 4. Proofs

`ECacheProofs` proves, for any sets of UIDs, objects and threads and any bounds:

* `TypeCorrect`: `Spec => []TypeOK`.
* `ReplayCorrect` and `ChangesCorrect`: `Spec => []ReplayGivesVisible` and
  `Spec => []ChangesApply`. Neither is inductive: they say nothing about rows
  that are synchronized. `JournalInv` adds what each offline state says about
  the server (UNKNOWN and LOCALLY_CREATED: it has none; SYNCED: the same object;
  LOCALLY_MODIFIED and LOCALLY_DELETED: some object), for both `cur` and `disk`,
  since a rollback brings `disk` back. One lemma per operator (`PutJournal`,
  `RemoveJournal`, `ClearJournal`) carries the step; `ReplayVisible` derives the
  property.
* `GuardCorrect`: `RestartTime > 0` implies `Spec => []GuardSound`. The
  invariant has two more parts: `TransactionInv` (locks and freezes are paired;
  outside of a transaction nothing is uncommitted, nothing frozen) and
  `RevisionInv` (no revision handed out so far can be handed out again, and no
  two snapshots disagree about one). While a change is frozen the tables have
  new content under the old revision, which is why agreement with `cur` is
  claimed only when no change is pending, and why the pairing of freeze and
  unlock matters.

`AddressBookProofs`, about BookCache for any finite set of UIDs, any categories and
emails:

* `TypeCorrect`, `UsedCorrect` (UsedCategoriesListed), `ListCorrect`
  (ListExactWithoutOfflineRemove), `AuxCorrect` (AuxMatchesRows). "Every used
  category is listed" is not inductive, since a removal takes one from a count:
  `CountInv` says that the count of a category is at least the number of its
  visible contacts, and `ExactInv` that it is exactly this number while nothing
  was removed offline. `CategoriesMove` relates the counts to the set of users
  when one row changes; one lemma per call (`PutStep`, `RemoveStep`,
  `RemoveAllStep`, `ClearStep`) uses it. `MaxRefs` must be at least the number of
  UIDs (`MaxRefsAssumption`), so that counting an old cache stays in range.

and about BookView for any contacts and contents, any query and any number of
starts, stops and changes:

* `ViewTypeCorrect` (ViewTypeOK), where the types of the arrays and the threshold for
  their lengths are `PendingTypes`; `EventsCorrect` (EventsApply), from `BatchInv`: at
  most one array has notifications, adds are of contacts the client does not know,
  changes and removals of those it does, the view's `ids` are the contacts the client
  will know once everything pending has been sent, and the timeout is set while
  something is pending. The lemmas about `Joined`, `Sent` and `Receive` say what one
  more notification does to a batch and to its receiver. `Receive` is defined by the
  last entry about each contact and not as a fold, so that no induction over the
  batch is needed.
* `QuietCorrect` (QuietInSync, the safety half of SettlesInSync): when a running
  view, whose last search was not cancelled and has been told to the end, has no
  notification on its way and no timeout set, the client knows exactly the matching
  contacts, but for those in `overtaken`. `ViewFollowInv` says of each such contact:
  once the search of the last start is over (`Searched`), what the client will know
  when the arrays are sent is the wanted content, or the present content is about to
  be notified (`Announced`), or the search has found it and its thread has not yet
  told (`Found`). Of a contact which the client should not know the first two hold
  even while the view is stopped: this is what makes a new start right, whose search
  tells only what there is.

`BookBackendQueueProofs`, for any finite set of operations, any threads and
every size of the pool:

* `TypeCorrect`, `BlockingCorrect` (NothingPassesBlocking), `RunOnceCorrect`
  (RunOnce) and `ImplementsCorrect` (`Spec => ImplementsQueue`: the first states of
  the queue map to first states of OperationQueue and each step to a step or a
  stutter). The invariant has one part per question: `NodesInv` (a thread has a
  node only between the pop and the push, no two the same), `PlaceInv` (a call is
  in the queue, popped, in the pool, or run, and in one of them only),
  `AnswerInv` (what is answered was run), and `OrderInv` (the queue is the rest of
  the calls, in their order, and a blocking operation without an answer is the
  last one which left). The last part is what makes the refinement go through,
  because the abstract queue asks of a pop that no active call is blocking, while
  the code looks only at the field `blocked`. TypeOK's bounds on the lengths of
  the sequences follow from their having no duplicates.
* `NoLostDispatch` (RestsOnlyWhenDone, the safety half of EveryCallFinishes): when
  all threads are out of this code, the pool is idle and every answered task is
  finished, every call is finished. `AttendInv`: whoever waits has a thread about to
  dispatch or an unfinished operation which has left the queue, and what blocks the
  queue is such an operation.

`CamelServiceProofs`, for any callers, folders and tasks:

* `TypeCorrect`, `StatusCorrect` (StatusMatchesOp), `LastOperationCorrect`
  (LastOperationDecides), `DisconnectedCorrect` (the action property
  DisconnectedIndeed), from `OpInv`: the two invariants, that the last operation
  has no outcome while its thread or callback is still to come, and that
  whoever is a disconnect joined a disconnect. `OneTaskCorrect` (OneTaskAtATime),
  from `QueueInv`: the queue of a folder has its unfinished tasks, each once, and
  only the head has been dispatched.
* `NoLostCall` (RestsOnlyWhenDone, the safety half of CallsReturn): when no thread or
  callback of an operation is to come and no task can go on, no call waits and no
  folder has a task. `WaitInv`: a call which waits started or joined an operation
  whose callback is still to come, be it one that has been replaced.

`IMAPXConnManagerProofs`, for any jobs, connections and disconnects:

* `TypeCorrect`; `ExclusiveCorrect` (ExclusiveUse) and `BusyCorrect` (BusyIsUsed)
  together, from `UseInv`: exactly the running jobs have a connection, and it is
  busy on their behalf. Neither half is inductive alone, since a job which ends
  clears the flag of its connection. `NoDuplicateCorrect` (NoDuplicateJobs);
  `CancelCorrect` (CancelNotInherited), from `CancelInv`: a job is stopped only by
  a disconnect.
* `NoWaitCircle` (WaitsForLive, the safety half of JobsEndUnlessOneWaits): the job
  another one waits for is done or on its way without waiting for a job itself, and
  the write lock is with a thread which is connecting. `WaitInv`: a queued job never
  waits for a job, and what is waited for is queued or done.

`DataFactoryProofs` and `SubprocessFactoryProofs`, for any finite sets of calls,
clients and sources, and any number of crashes:

* `TypeCorrect` and `HoldsCorrect` (HoldsExact). The steps change one of the sets
  which HoldsExact counts; that each changes the count by one needs to know in
  which state a call can be: `GateInv`, `CallInv`, `TableInv` of the one,
  `CallInv`, `ProcInv`, `ConnectionInv` of the other build.
* `KeptCorrect` (KeptWhileUsed), from `RefInv`: a backend which is not in
  `disturbed` has at least one reference per call which has it, and the array of
  each client has no more entries than calls to be undone; from `UseInv` of the
  other build: a client has at least one connection per call.
* `NoLostWakeup` (GateIsServed), in both: a closed gate has a call behind it which is
  going to open it, and a thread waits for the condition only while another one is
  behind the gate or goes there next, although a signal wakes only one. In the
  default build the exception is a call which has hung, in the other one a call
  behind the gate may wait for a subprocess which never appears.

`BookMetaBackendProofs`, for any finite set of UIDs and any contents:

* `TypeCorrect`, with `NumbersInv` (no ETag or tag is ahead of the server; the
  server's number plus the number of possible uploads is within `MaxChanges`) and
  `ProgressInv` (what a refresh is to upload is still there, nothing is changed
  locally after the upload, the tag it will store is not older than the stored
  one). It holds with stale clients too.
* `InSyncCorrect` (InSync) and `UploadedCorrect` (the action property
  OfflineChangesUploaded), when `StaleClients` is FALSE; what happens with clients
  which send back an ETag they read long ago is the run `keep_server`. `FollowInv`
  says of each contact which is not in `recreated`: a row which came from the
  server has its version, by ETag, or the next refresh will be told of another one
  (`KnownInv`, `SyncedInv`, `CreatedInv`); a change the refresh is done with has
  been uploaded or conflicts (`UploadedInv`); and processing what was listed makes
  the row agree unless it has changed since the tag that will be stored
  (`ListedInv`). InSync alone is far from inductive: it speaks about equal tags
  only, and the hard case is a change by somebody else between the request for the
  tag and the one for the contacts.

The assumptions are those the modules name (`NoObjectAssumption`,
`ThreadsAssumption`, `BoundsAssumption`; `UidsFinite`, `MaxRefsAssumption`;
`OpsAssumption`, `SyncsAssumption`, `MaxThreadsAssumption`; `CallersAssumption`,
`FolderOfAssumption`; `JobsAssumption`, `ExpungesAssumption`, `ConnsAssumption`; `OpensAssumption`;
`UidsAssumption`, `ContentsAssumption`, `ConflictsAssumption`,
`ClientsAssumption`, `MaxChangesAssumption`; of BookView `ContentsAssumption`,
`NoneAssumption`, `InitialAssumption`, `ThresholdAssumption`, an even number of strings
since each contact has two, `BoundsAssumption`): kinds of calls are disjoint, what is
counted is finite, `None` is no member. The MC modules extend the modules, so TLC
evaluates them on every run. TLC also confirms the inductive invariants on the
instances of the runs.

Every invariant and action property which a passing run checks is a theorem. Only
model-checked is liveness, which is out of the prover's reach: EveryCallFinishes,
CallsReturn, Settled of both factories, SettlesInSync, JobsEndUnlessOneWaits,
CancelledWaitEnds, RefreshSynchronizes. The theorems which are called a safety half
above say that none of these systems comes to rest too early, and leave to TLC that
it comes to rest.

## 5. What is not modelled

In the modelled parts: the SQL of the searches, authentication, photo files stored beside a contact, servers without a CTag, the
Google exception from If-Match, e_book_meta_backend_refresh_sync() called with a
connection error (public, but not used by the product), a server which changes the
UID of an uploaded contact (`e-book-meta-backend.c` 1156), a request for the CTag
which fails other than by ending the refresh, the power saver, the refresh signals of
IMAP mailboxes. Reading the cache is assumed not to fail: when
`e_cache_get_offline_changes()` does (`e-book-meta-backend.c` 611) its empty list is
taken for nothing to upload. A connection which was removed from the
manager's list keeps its busy flag in the code and loses it in the model; nobody looks
at it again. A clock that is set back is not modelled:
GuardSound would not hold. Of a view, dispose, the flags other than the one it is
made with, the fields of interest, manual queries and progress. Of the factories, a
subprocess shared by several sources, the reload on SIGHUP, and references which
operations in progress have on a backend (they only put its end off). Noting a
client of a backend which has been freed meanwhile is a use after free in the code
(`e-data-factory.c` 1532) and notes nothing in the model. In the other build a
subprocess is watched and the watch noted in one step (1596-1607), although a callback
may come in between, and the close of a client comes together with the "closed" signal
which the subprocess sends for it. Of
CamelService, authentication, settings and the property changes of the session, and
a provider whose connect returns FALSE without setting an error, against the
convention of GError (`camel-service.c` 460; its calls would return TRUE); of
a folder's methods, only that they connect first.

Most of the repository's lines convert data (MIME, vCard, iCalendar, SQL, IMAP and
WebDAV syntax, character sets, user interface, generated bindings) and keep no
state whose order of changes could go wrong; a model of them would repeat the code.
The calendar's queue, cache and meta backend are near copies of the address book's
with recurrences added. The parts which are not modelled at all are listed with
their reasons in `PROJECT.json`.

## 6. Plan

Done: ECacheObjects, ECache and its proofs, BookCache, BookBackendQueue with
OperationQueue, BookMetaBackend, BookView, DataFactory and SubprocessFactory,
CamelService, IMAPXConnManager, and the proofs of section 4, which cover every
invariant and action property of the runs. Next, in this order:

1. ECalMetaBackend with CalDAV, where a resource is several rows.
2. The IDLE bookkeeping of the connection manager, EUserPrompterServer, the tree of
   the source registry, EReminderWatcher.
