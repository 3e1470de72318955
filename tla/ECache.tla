------------------------------- MODULE ECache -------------------------------
(***************************************************************************)
(* ECache, the SQLite backed cache of src/libebackend/e-cache.c: the       *)
(* objects with their offline states, the transactions, and the revision   *)
(* of the whole cache.                                                     *)
(*                                                                         *)
(* e_cache_lock() takes a recursive mutex and counts the nesting in        *)
(* in_transaction; only the outermost pair runs BEGIN and COMMIT or        *)
(* ROLLBACK.  Every call on the cache takes the mutex, thus while a thread *)
(* is in a transaction no other thread does anything, and a call made      *)
(* outside of a transaction is a transaction of its own.  `cur` is what    *)
(* the statements of the open transaction see, `disk` what is committed.   *)
(*                                                                         *)
(* The revision is "<time>(<counter>)".  The counter, the time of the last *)
(* change and the freeze count live in memory: a rollback does not undo    *)
(* them and a crash forgets them.                                          *)
(***************************************************************************)
EXTENDS ECacheObjects, Integers

CONSTANTS
    Threads,         \* threads of the backend process
    NoThread,        \* nobody owns the mutex
    MaxNesting,      \* bound: nested e_cache_lock() calls
    RestartTime,     \* seconds a restart of the process takes at least
    MaxTime,         \* bound: seconds the clock can show
    MaxCounter       \* bound: revision changes within one second

ASSUME ThreadsAssumption == NoThread \notin Threads
ASSUME BoundsAssumption ==
    /\ MaxNesting \in Nat
    /\ RestartTime \in Nat
    /\ MaxTime \in Nat \ {0}
    /\ MaxCounter \in Nat

VARIABLES
    cur,             \* the tables as the open transaction sees them
    disk,            \* the committed tables
    owner,           \* the thread which holds the mutex
    in_transaction,  \* nesting of e_cache_lock()
    frozen,          \* revision_change_frozen
    needs_revision_change,
    last_revision_time,
    revision_counter,
    clock,           \* g_get_real_time() in seconds
    announced,       \* what the last "revision-changed" signal told about
    guard            \* the revision guard a client's cursor holds

memory == <<frozen, needs_revision_change, last_revision_time, revision_counter>>
vars == <<cur, disk, owner, in_transaction, memory, clock, announced, guard>>

(* A revision is the time and the counter printed in it.  No revision has  *)
(* been stored yet: time zero, which the clock never shows.                *)
Revisions == (0 .. MaxTime) \X (0 .. MaxCounter)
NoRevision == <<0, 0>>

(* `known` is a history variable: what the cache has been told about the   *)
(* server's content by calls with E_CACHE_IS_ONLINE, or by                 *)
(* e_cache_clear_offline_changes(), which its caller makes once it has     *)
(* uploaded all the offline changes.                                       *)
Contents == [Uids -> Objects \cup {NoObject}]
Database == [rows: Tables, revision: Revisions, known: Contents]

(* A client remembers a revision together with the content it saw then.    *)
Seen(revision, rows) == [revision |-> revision, content |-> Visible(rows)]
Snapshots == [revision: Revisions, content: Contents]

TypeOK ==
    /\ cur \in Database
    /\ disk \in Database
    /\ owner \in Threads \cup {NoThread}
    /\ in_transaction \in 0 .. MaxNesting
    /\ frozen \in 0 .. MaxNesting
    /\ needs_revision_change \in BOOLEAN
    /\ last_revision_time \in 0 .. MaxTime
    /\ revision_counter \in 0 .. MaxCounter
    /\ clock \in 1 .. MaxTime
    /\ announced \in Snapshots
    /\ guard \in Snapshots

NewDatabase == [rows |-> NoRows, revision |-> NoRevision, known |-> Visible(NoRows)]

Init ==
    /\ cur = NewDatabase
    /\ disk = NewDatabase
    /\ owner = NoThread
    /\ in_transaction = 0
    /\ frozen = 0
    /\ needs_revision_change = FALSE
    /\ last_revision_time = 0
    /\ revision_counter = 0
    /\ clock = 1
    /\ announced = Seen(NoRevision, NoRows)
    /\ guard = announced

-----------------------------------------------------------------------------
(* Mutation of the definition below.                                       *)

\* Starts every revision of a second from the same counter.
RestartCounter == 0

-----------------------------------------------------------------------------
(* The counter of the next revision: it restarts when the second changes.  *)
NextCounter == IF clock # last_revision_time THEN 0 ELSE revision_counter

(* e_cache_change_revision(), once the tables have the new content.  While *)
(* frozen, the change is only noted.  The "revision-changed" signal is     *)
(* emitted before the transaction ends.                                    *)
ChangeRevision(rows, known) ==
    IF frozen > 0
    THEN /\ cur' = [cur EXCEPT !.rows = rows, !.known = known]
         /\ needs_revision_change' = TRUE
         /\ UNCHANGED <<last_revision_time, revision_counter, announced>>
    ELSE /\ NextCounter < MaxCounter
         /\ cur' = [rows |-> rows, revision |-> <<clock, NextCounter>>, known |-> known]
         /\ last_revision_time' = clock
         /\ revision_counter' = NextCounter + 1
         /\ announced' = Seen(<<clock, NextCounter>>, rows)
         /\ UNCHANGED needs_revision_change

(* A call outside of a transaction commits what it did.                    *)
CommitOutermost == disk' = IF in_transaction = 0 THEN cur' ELSE disk

MayUse(t) == owner \in {NoThread, t}

Put(t, u, o, flag) ==
    /\ MayUse(t)
    /\ ChangeRevision(e_cache_put(cur.rows, u, o, flag),
                      IF flag = "IS_ONLINE" THEN [cur.known EXCEPT ![u] = o]
                      ELSE cur.known)
    /\ CommitOutermost
    /\ UNCHANGED <<owner, in_transaction, frozen, clock, guard>>

Remove(t, u, flag) ==
    /\ MayUse(t)
    /\ CanRemove(cur.rows, u, flag)
    /\ ChangeRevision(e_cache_remove(cur.rows, u, flag),
                      IF flag = "IS_ONLINE" THEN [cur.known EXCEPT ![u] = NoObject]
                      ELSE cur.known)
    /\ CommitOutermost
    /\ UNCHANGED <<owner, in_transaction, frozen, clock, guard>>

RemoveAll(t) ==
    /\ MayUse(t)
    /\ ChangeRevision(e_cache_remove_all(cur.rows), Visible(NoRows))
    /\ CommitOutermost
    /\ UNCHANGED <<owner, in_transaction, frozen, clock, guard>>

(* Leaves the revision alone.                                              *)
ClearOfflineChanges(t) ==
    /\ MayUse(t)
    /\ cur' = [cur EXCEPT !.rows = e_cache_clear_offline_changes(cur.rows),
                          !.known = Visible(cur.rows)]
    /\ CommitOutermost
    /\ UNCHANGED <<owner, in_transaction, memory, clock, announced, guard>>

-----------------------------------------------------------------------------
(* Transactions.  A caller which groups calls takes the lock, as the       *)
(* refresh of the meta backends does; the calls which store or remove a    *)
(* list of objects also freeze the revision, after the lock and until      *)
(* right before the unlock (e_book_cache_put_contacts() and its like).     *)

Lock(t) ==
    /\ MayUse(t)
    /\ in_transaction < MaxNesting
    /\ owner' = t
    /\ in_transaction' = in_transaction + 1
    /\ UNCHANGED <<cur, disk, memory, clock, announced, guard>>

(* Only the outermost unlock runs COMMIT or ROLLBACK: the action asked for *)
(* in a nested one has no effect.                                          *)
Unlock(t, action) ==
    /\ owner = t
    /\ frozen < in_transaction
    /\ LET outermost == in_transaction = 1 IN
       /\ cur' = IF outermost /\ action = "ROLLBACK" THEN disk ELSE cur
       /\ disk' = IF outermost THEN cur' ELSE disk
       /\ owner' = IF outermost THEN NoThread ELSE t
    /\ in_transaction' = in_transaction - 1
    /\ UNCHANGED <<memory, clock, announced, guard>>

Freeze(t) ==
    /\ owner = t
    /\ frozen < in_transaction
    /\ frozen' = frozen + 1
    /\ UNCHANGED <<cur, disk, owner, in_transaction, needs_revision_change,
                   last_revision_time, revision_counter, clock, announced, guard>>

Thaw(t) ==
    /\ owner = t
    /\ frozen > 0
    /\ frozen' = frozen - 1
    /\ IF frozen = 1 /\ needs_revision_change
       THEN /\ NextCounter < MaxCounter
            /\ needs_revision_change' = FALSE
            /\ cur' = [cur EXCEPT !.revision = <<clock, NextCounter>>]
            /\ last_revision_time' = clock
            /\ revision_counter' = NextCounter + 1
            /\ announced' = Seen(<<clock, NextCounter>>, cur.rows)
       ELSE UNCHANGED <<cur, needs_revision_change, last_revision_time,
                        revision_counter, announced>>
    /\ UNCHANGED <<disk, owner, in_transaction, clock, guard>>

-----------------------------------------------------------------------------
(* The environment: time passes, a client keeps the announced revision as  *)
(* the guard of its cursor, the process dies and is started again, which   *)
(* also ends the clients' cursors.                                         *)

Tick ==
    /\ clock < MaxTime
    /\ clock' = clock + 1
    /\ UNCHANGED <<cur, disk, owner, in_transaction, memory, announced, guard>>

TakeGuard ==
    /\ guard' = announced
    /\ UNCHANGED <<cur, disk, owner, in_transaction, memory, clock, announced>>

Restart ==
    /\ clock + RestartTime <= MaxTime
    /\ clock' = clock + RestartTime
    /\ cur' = disk
    /\ owner' = NoThread
    /\ in_transaction' = 0
    /\ frozen' = 0
    /\ needs_revision_change' = FALSE
    /\ last_revision_time' = 0
    /\ revision_counter' = 0
    /\ announced' = Seen(disk.revision, disk.rows)
    /\ guard' = announced'
    /\ UNCHANGED disk

ThreadNext(t) ==
    \/ \E u \in Uids, flag \in OfflineFlags :
          \/ \E o \in Objects : Put(t, u, o, flag)
          \/ Remove(t, u, flag)
    \/ RemoveAll(t)
    \/ ClearOfflineChanges(t)
    \/ Lock(t)
    \/ \E action \in {"COMMIT", "ROLLBACK"} : Unlock(t, action)
    \/ Freeze(t)
    \/ Thaw(t)

Next ==
    \/ \E t \in Threads : ThreadNext(t)
    \/ Tick
    \/ TakeGuard
    \/ Restart

Spec == Init /\ [][Next]_vars

-----------------------------------------------------------------------------
(* Properties.                                                             *)

\* The offline changes of a table, applied to what the server holds.
Replay(rows, known) ==
    [u \in Uids |->
        LET changes == {c \in e_cache_get_offline_changes(rows) : c.uid = u} IN
        IF changes = {} THEN known[u]
        ELSE LET c == CHOOSE c \in changes : TRUE IN
             IF c.state = "LOCALLY_DELETED" THEN NoObject ELSE c.object]

\* Replaying what e_cache_get_offline_changes() returns over the content the
\* cache knows the server to have gives exactly what the readers of the cache
\* see, whatever sequence of online and offline calls, batches, rollbacks and
\* crashes led there: no offline change is lost and none is invented.
ReplayGivesVisible ==
    \A db \in {cur, disk} : Replay(db.rows, db.known) = Visible(db.rows)

\* Each offline change can be uploaded as what it is: the server does not have
\* a locally created object yet, and has the one to modify or to delete.
ChangesApply ==
    \A db \in {cur, disk} : \A c \in e_cache_get_offline_changes(db.rows) :
        c.state = "LOCALLY_CREATED" <=> db.known[c.uid] = NoObject

\* A cursor's revision guard is sound (edbcc_step() compares it with the
\* committed revision): when they are equal the content is the one the client
\* saw with that revision.  An announced revision whose transaction was rolled
\* back never becomes the revision of another content.
GuardSound ==
    guard.revision = disk.revision => guard.content = Visible(disk.rows)

-----------------------------------------------------------------------------
(* The inductive invariant behind these properties.                        *)

\* What each offline state says about the server's copy.
JournalOK(rows, known) ==
    \A u \in Uids :
        /\ rows[u].state \in {"UNKNOWN", "LOCALLY_CREATED"} => known[u] = NoObject
        /\ rows[u].state = "SYNCED" => known[u] = rows[u].object
        /\ rows[u].state \in {"LOCALLY_MODIFIED", "LOCALLY_DELETED"} => known[u] # NoObject

JournalInv == JournalOK(cur.rows, cur.known) /\ JournalOK(disk.rows, disk.known)

\* Outside of a transaction nothing is uncommitted and nothing is frozen.
TransactionInv ==
    /\ frozen <= in_transaction
    /\ needs_revision_change => frozen > 0
    /\ owner = NoThread <=> in_transaction = 0
    /\ in_transaction = 0 => cur = disk

\* No revision handed out so far can be handed out again.
Used(revision) ==
    /\ revision[1] <= clock
    /\ revision[1] = clock => /\ last_revision_time = clock
                              /\ revision[2] < revision_counter

\* Two snapshots do not disagree about one revision.
Agree(s1, s2) == s1.revision = s2.revision => s1.content = s2.content

RevisionInv ==
    /\ last_revision_time <= clock
    /\ \A r \in {cur.revision, disk.revision, announced.revision, guard.revision} : Used(r)
    /\ \A s \in {announced, guard} :
          /\ Agree(s, Seen(disk.revision, disk.rows))
          /\ ~needs_revision_change => Agree(s, Seen(cur.revision, cur.rows))
=============================================================================
