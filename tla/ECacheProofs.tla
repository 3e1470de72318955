---------------------------- MODULE ECacheProofs ----------------------------
(***************************************************************************)
(* Proofs about ECache for every value of its constants.                   *)
(***************************************************************************)
EXTENDS ECache, TLAPS

(* ---- the objects table ---- *)

\* e_cache_put() keeps the table well formed.
LEMMA PutTable ==
    ASSUME NEW rows \in Tables, NEW u \in Uids, NEW o \in Objects, NEW flag \in OfflineFlags
    PROVE  e_cache_put(rows, u, o, flag) \in Tables
<1>1. PutState(rows, u, flag) \in OfflineStates \ {"UNKNOWN"}
  BY DEF PutState, OfflineStates
<1>2. o # NoObject
  BY NoObjectAssumption
<1> QED
  BY <1>1, <1>2 DEF Tables, e_cache_put, Row, OfflineStates

\* e_cache_remove() keeps the table well formed when it does not fail.
LEMMA RemoveTable ==
    ASSUME NEW rows \in Tables, NEW u \in Uids, NEW flag \in OfflineFlags,
           CanRemove(rows, u, flag)
    PROVE  e_cache_remove(rows, u, flag) \in Tables
BY DEF Tables, e_cache_remove, RemovesRow, CanRemove, NoRow, Row, OfflineStates, OfflineFlags

\* An empty table is well formed.
LEMMA NoRowsTable == NoRows \in Tables
BY DEF Tables, NoRows, NoRow, Row, OfflineStates

\* e_cache_clear_offline_changes() keeps the table well formed.
LEMMA ClearTable ==
    ASSUME NEW rows \in Tables
    PROVE  e_cache_clear_offline_changes(rows) \in Tables
BY DEF Tables, e_cache_clear_offline_changes, NoRow, Row, OfflineStates

\* What a reader sees of a well formed table.
LEMMA VisibleType ==
    ASSUME NEW rows \in Tables
    PROVE  Visible(rows) \in Contents
BY DEF Tables, Visible, Contents, e_cache_get, e_cache_contains

\* Clearing the offline changes does not change what the readers see: this is
\* why e_cache_clear_offline_changes() can leave the revision alone.
LEMMA ClearKeepsVisible ==
    ASSUME NEW rows \in Tables
    PROVE  Visible(e_cache_clear_offline_changes(rows)) = Visible(rows)
BY DEF Tables, e_cache_clear_offline_changes, NoRow, Row, Visible, e_cache_get,
       e_cache_contains, ExcludeDeleted, OfflineStates

(* ---- the offline journal ---- *)

\* e_cache_put() keeps each offline state true to the server: stored online, the
\* object is what the server has; stored offline, it stays created while the server
\* has none and becomes modified otherwise.
LEMMA PutJournal ==
    ASSUME NEW rows \in Tables, NEW known \in Contents, JournalOK(rows, known),
           NEW u \in Uids, NEW o \in Objects, NEW flag \in OfflineFlags
    PROVE  JournalOK(e_cache_put(rows, u, o, flag),
                     IF flag = "IS_ONLINE" THEN [known EXCEPT ![u] = o] ELSE known)
<1>1. CASE flag = "IS_ONLINE"
  BY <1>1, NoObjectAssumption
     DEF JournalOK, Tables, Contents, e_cache_put, PutState, Row
<1>2. CASE flag = "IS_OFFLINE"
  BY <1>2, NoObjectAssumption
     DEF JournalOK, Tables, Contents, e_cache_put, PutState, Row, e_cache_contains,
         IncludeDeleted, ExcludeDeleted, OfflineStates
<1> QED
  BY <1>1, <1>2 DEF OfflineFlags

\* e_cache_remove() keeps the journal true: a locally created row goes away, any
\* other is marked only when the server has the object.
LEMMA RemoveJournal ==
    ASSUME NEW rows \in Tables, NEW known \in Contents, JournalOK(rows, known),
           NEW u \in Uids, NEW flag \in OfflineFlags, CanRemove(rows, u, flag)
    PROVE  JournalOK(e_cache_remove(rows, u, flag),
                     IF flag = "IS_ONLINE" THEN [known EXCEPT ![u] = NoObject] ELSE known)
<1>1. CASE flag = "IS_ONLINE"
  BY <1>1 DEF JournalOK, Tables, Contents, e_cache_remove, RemovesRow, NoRow, Row
<1>2. CASE flag = "IS_OFFLINE"
  BY <1>2, NoObjectAssumption
     DEF JournalOK, Tables, Contents, e_cache_remove, RemovesRow, CanRemove, NoRow, Row,
         OfflineStates
<1> QED
  BY <1>1, <1>2 DEF OfflineFlags

\* An empty table has nothing to say about an empty server.
LEMMA NoRowsJournal == JournalOK(NoRows, Visible(NoRows))
BY DEF JournalOK, NoRows, NoRow, Row, Visible, e_cache_get, e_cache_contains

\* After e_cache_clear_offline_changes() each row is what the server now has: the
\* content the readers saw, which has been uploaded.
LEMMA ClearJournal ==
    ASSUME NEW rows \in Tables
    PROVE  JournalOK(e_cache_clear_offline_changes(rows), Visible(rows))
BY DEF JournalOK, Tables, e_cache_clear_offline_changes, NoRow, Row, Visible, e_cache_get,
       e_cache_contains, ExcludeDeleted, OfflineStates

-----------------------------------------------------------------------------
(* ---- type correctness ---- *)

\* What the calls write to the tables, and the snapshots taken of them, have the
\* types of the SQL schema.
LEMMA DatabaseUpdate ==
    ASSUME NEW db \in Database, NEW rows \in Tables, NEW known \in Contents,
           NEW revision \in Revisions
    PROVE  /\ [db EXCEPT !.rows = rows, !.known = known] \in Database
           /\ [db EXCEPT !.revision = revision] \in Database
           /\ [rows |-> rows, revision |-> revision, known |-> known] \in Database
           /\ Seen(revision, rows) \in Snapshots
BY VisibleType DEF Database, Snapshots, Seen

\* The next revision of e_cache_change_revision() stays within its bounds.
LEMMA NextCounterType ==
    ASSUME TypeOK, NextCounter < MaxCounter
    PROVE  /\ NextCounter \in 0 .. MaxCounter
           /\ NextCounter + 1 \in 0 .. MaxCounter
           /\ <<clock, NextCounter>> \in Revisions
           /\ clock \in 0 .. MaxTime
BY BoundsAssumption DEF TypeOK, NextCounter, Revisions

\* e_cache_change_revision() keeps the types, frozen or not.
LEMMA ChangeRevisionType ==
    ASSUME TypeOK, NEW rows \in Tables, NEW known \in Contents, ChangeRevision(rows, known)
    PROVE  /\ cur' \in Database
           /\ needs_revision_change' \in BOOLEAN
           /\ last_revision_time' \in 0 .. MaxTime
           /\ revision_counter' \in 0 .. MaxCounter
           /\ announced' \in Snapshots
<1>1. CASE frozen > 0
  BY <1>1, DatabaseUpdate DEF ChangeRevision, TypeOK, Database
<1>2. CASE ~(frozen > 0)
  <2>1. /\ NextCounter < MaxCounter
        /\ cur' = [rows |-> rows, revision |-> <<clock, NextCounter>>, known |-> known]
        /\ last_revision_time' = clock
        /\ revision_counter' = NextCounter + 1
        /\ announced' = Seen(<<clock, NextCounter>>, rows)
        /\ needs_revision_change' = needs_revision_change
    BY <1>2 DEF ChangeRevision
  <2>2. /\ NextCounter + 1 \in 0 .. MaxCounter
        /\ <<clock, NextCounter>> \in Revisions
        /\ clock \in 0 .. MaxTime
    BY <2>1, NextCounterType
  <2>3. cur' \in Database /\ announced' \in Snapshots
    BY <2>1, <2>2, DatabaseUpdate DEF TypeOK
  <2> QED
    BY <2>1, <2>2, <2>3 DEF TypeOK
<1> QED
  BY <1>1, <1>2

\* The commit at the end of a call outside of a transaction keeps the type of the
\* committed tables.
LEMMA CommitType ==
    ASSUME TypeOK, CommitOutermost, cur' \in Database
    PROVE  disk' \in Database
BY DEF TypeOK, CommitOutermost

\* The initial states are of the right type.
LEMMA InitType == Init => TypeOK
<1> SUFFICES ASSUME Init PROVE TypeOK
  OBVIOUS
<1>1. Visible(NoRows) \in Contents
  BY VisibleType, NoRowsTable
<1>2. NoRevision \in Revisions
  BY BoundsAssumption DEF NoRevision, Revisions
<1>3. NewDatabase \in Database
  BY <1>1, <1>2, NoRowsTable DEF NewDatabase, Database
<1>4. Seen(NoRevision, NoRows) \in Snapshots
  BY <1>1, <1>2 DEF Seen, Snapshots
<1>5. /\ in_transaction \in 0 .. MaxNesting /\ frozen \in 0 .. MaxNesting
      /\ last_revision_time \in 0 .. MaxTime /\ revision_counter \in 0 .. MaxCounter
      /\ clock \in 1 .. MaxTime
  BY BoundsAssumption DEF Init
<1> QED
  BY <1>3, <1>4, <1>5 DEF Init, TypeOK

\* Every step keeps the types.
LEMMA NextType == TypeOK /\ [Next]_vars => TypeOK'
<1> SUFFICES ASSUME TypeOK, [Next]_vars PROVE TypeOK'
  OBVIOUS
<1>1. ASSUME NEW t \in Threads, NEW u \in Uids, NEW o \in Objects, NEW flag \in OfflineFlags,
             Put(t, u, o, flag)
      PROVE  TypeOK'
  <2>1. e_cache_put(cur.rows, u, o, flag) \in Tables
    BY PutTable DEF TypeOK, Database
  <2>2. (IF flag = "IS_ONLINE" THEN [cur.known EXCEPT ![u] = o] ELSE cur.known) \in Contents
    BY DEF TypeOK, Database, Contents
  <2>3. /\ cur' \in Database
        /\ needs_revision_change' \in BOOLEAN
        /\ last_revision_time' \in 0 .. MaxTime
        /\ revision_counter' \in 0 .. MaxCounter
        /\ announced' \in Snapshots
    BY <1>1, <2>1, <2>2, ChangeRevisionType DEF Put
  <2> QED
    BY <1>1, <2>3, CommitType DEF Put, TypeOK
<1>2. ASSUME NEW t \in Threads, NEW u \in Uids, NEW flag \in OfflineFlags,
             Remove(t, u, flag)
      PROVE  TypeOK'
  <2>1. e_cache_remove(cur.rows, u, flag) \in Tables
    BY <1>2, RemoveTable DEF TypeOK, Database, Remove
  <2>2. (IF flag = "IS_ONLINE" THEN [cur.known EXCEPT ![u] = NoObject] ELSE cur.known) \in Contents
    BY DEF TypeOK, Database, Contents
  <2>3. /\ cur' \in Database
        /\ needs_revision_change' \in BOOLEAN
        /\ last_revision_time' \in 0 .. MaxTime
        /\ revision_counter' \in 0 .. MaxCounter
        /\ announced' \in Snapshots
    BY <1>2, <2>1, <2>2, ChangeRevisionType DEF Remove
  <2> QED
    BY <1>2, <2>3, CommitType DEF Remove, TypeOK
<1>3. ASSUME NEW t \in Threads, RemoveAll(t) PROVE TypeOK'
  <2>1. e_cache_remove_all(cur.rows) \in Tables /\ Visible(NoRows) \in Contents
    BY NoRowsTable, VisibleType DEF e_cache_remove_all
  <2>2. /\ cur' \in Database
        /\ needs_revision_change' \in BOOLEAN
        /\ last_revision_time' \in 0 .. MaxTime
        /\ revision_counter' \in 0 .. MaxCounter
        /\ announced' \in Snapshots
    BY <1>3, <2>1, ChangeRevisionType DEF RemoveAll
  <2> QED
    BY <1>3, <2>2, CommitType DEF RemoveAll, TypeOK
<1>4. ASSUME NEW t \in Threads, ClearOfflineChanges(t) PROVE TypeOK'
  <2>1. cur.rows \in Tables /\ cur \in Database /\ cur.revision \in Revisions
    BY DEF TypeOK, Database
  <2>2. cur' \in Database
    BY <1>4, <2>1, ClearTable, VisibleType, DatabaseUpdate DEF ClearOfflineChanges
  <2> QED
    BY <1>4, <2>2, CommitType DEF ClearOfflineChanges, TypeOK, memory
<1>5. ASSUME NEW t \in Threads, Lock(t) PROVE TypeOK'
  BY <1>5, BoundsAssumption DEF Lock, TypeOK, memory
<1>6. ASSUME NEW t \in Threads, NEW action \in {"COMMIT", "ROLLBACK"}, Unlock(t, action)
      PROVE  TypeOK'
  BY <1>6, BoundsAssumption DEF Unlock, TypeOK, memory
<1>7. ASSUME NEW t \in Threads, Freeze(t) PROVE TypeOK'
  BY <1>7, BoundsAssumption DEF Freeze, TypeOK
<1>8. ASSUME NEW t \in Threads, Thaw(t) PROVE TypeOK'
  <2>1. CASE frozen = 1 /\ needs_revision_change
    <3>1. cur.rows \in Tables /\ cur.known \in Contents
      BY DEF TypeOK, Database
    <3>2. /\ NextCounter < MaxCounter
          /\ cur' = [cur EXCEPT !.revision = <<clock, NextCounter>>]
          /\ announced' = Seen(<<clock, NextCounter>>, cur.rows)
          /\ last_revision_time' = clock
          /\ revision_counter' = NextCounter + 1
      BY <1>8, <2>1 DEF Thaw
    <3>3. /\ NextCounter + 1 \in 0 .. MaxCounter
          /\ <<clock, NextCounter>> \in Revisions
          /\ clock \in 0 .. MaxTime
      BY <3>2, NextCounterType
    <3>4. cur' \in Database /\ announced' \in Snapshots
      BY <3>1, <3>2, <3>3, DatabaseUpdate DEF TypeOK
    <3>5. needs_revision_change' \in BOOLEAN
      BY <1>8, <2>1 DEF Thaw
    <3>6. frozen' \in 0 .. MaxNesting
      BY <1>8, BoundsAssumption DEF Thaw, TypeOK
    <3> QED
      BY <1>8, <3>2, <3>3, <3>4, <3>5, <3>6 DEF Thaw, TypeOK
  <2>2. CASE ~(frozen = 1 /\ needs_revision_change)
    BY <1>8, <2>2, BoundsAssumption DEF Thaw, TypeOK
  <2> QED
    BY <2>1, <2>2
<1>9. ASSUME Tick PROVE TypeOK'
  BY <1>9, BoundsAssumption DEF Tick, TypeOK, memory
<1>10. ASSUME TakeGuard PROVE TypeOK'
  BY <1>10 DEF TakeGuard, TypeOK, memory
<1>11. ASSUME Restart PROVE TypeOK'
  <2>1. announced' \in Snapshots
    BY <1>11, DatabaseUpdate DEF Restart, TypeOK, Database
  <2>2. /\ in_transaction' \in 0 .. MaxNesting /\ frozen' \in 0 .. MaxNesting
        /\ last_revision_time' \in 0 .. MaxTime /\ revision_counter' \in 0 .. MaxCounter
        /\ clock' \in 1 .. MaxTime
    BY <1>11, BoundsAssumption DEF Restart, TypeOK
  <2>3. /\ cur' \in Database /\ disk' \in Database
        /\ owner' \in Threads \cup {NoThread}
        /\ needs_revision_change' \in BOOLEAN
        /\ guard' \in Snapshots
    BY <1>11, <2>1 DEF Restart, TypeOK
  <2> QED
    BY <2>1, <2>2, <2>3 DEF TypeOK
<1>12. CASE UNCHANGED vars
  BY <1>12 DEF vars, memory, TypeOK
<1> QED
  BY <1>1, <1>2, <1>3, <1>4, <1>5, <1>6, <1>7, <1>8, <1>9, <1>10, <1>11, <1>12
     DEF Next, ThreadNext

\* The cache's tables, its transaction nesting and its revision memory always
\* have the types of the C structure and of the SQL schema.
THEOREM TypeCorrect == Spec => []TypeOK
BY InitType, NextType, PTL DEF Spec

-----------------------------------------------------------------------------
(* ---- the offline journal is an invariant ---- *)

\* e_cache_change_revision() stores the given rows, whether it is frozen or not.
LEMMA ChangeRevisionTables ==
    ASSUME TypeOK, NEW rows, NEW known, ChangeRevision(rows, known)
    PROVE  cur'.rows = rows /\ cur'.known = known
<1>0. cur \in Database
  BY DEF TypeOK
<1>1. CASE frozen > 0
  BY <1>0, <1>1 DEF Database, ChangeRevision
<1>2. CASE ~(frozen > 0)
  <2>1. cur' = [rows |-> rows, revision |-> <<clock, NextCounter>>, known |-> known]
    BY <1>2 DEF ChangeRevision
  <2> QED
    BY <2>1
<1> QED
  BY <1>1, <1>2

\* Every step keeps each offline state true to the server's copy.
LEMMA NextJournal == TypeOK /\ JournalInv /\ [Next]_vars => JournalInv'
<1> SUFFICES ASSUME TypeOK, JournalInv, [Next]_vars PROVE JournalInv'
  OBVIOUS
<1> USE DEF JournalInv
<1>0. cur.rows \in Tables /\ cur.known \in Contents
  BY DEF TypeOK, Database
<1>1. ASSUME NEW t \in Threads, NEW u \in Uids, NEW o \in Objects, NEW flag \in OfflineFlags,
             Put(t, u, o, flag)
      PROVE  JournalInv'
  <2>1. JournalOK(cur.rows, cur.known)'
    BY <1>0, <1>1, PutJournal, ChangeRevisionTables DEF Put
  <2> QED
    BY <1>1, <2>1 DEF Put, CommitOutermost
<1>2. ASSUME NEW t \in Threads, NEW u \in Uids, NEW flag \in OfflineFlags,
             Remove(t, u, flag)
      PROVE  JournalInv'
  <2>1. JournalOK(cur.rows, cur.known)'
    BY <1>0, <1>2, RemoveJournal, ChangeRevisionTables DEF Remove
  <2> QED
    BY <1>2, <2>1 DEF Remove, CommitOutermost
<1>3. ASSUME NEW t \in Threads, RemoveAll(t) PROVE JournalInv'
  <2>1. JournalOK(cur.rows, cur.known)'
    BY <1>3, NoRowsJournal, ChangeRevisionTables DEF RemoveAll, e_cache_remove_all
  <2> QED
    BY <1>3, <2>1 DEF RemoveAll, CommitOutermost
<1>4. ASSUME NEW t \in Threads, ClearOfflineChanges(t) PROVE JournalInv'
  <2>1. /\ cur'.rows = e_cache_clear_offline_changes(cur.rows)
        /\ cur'.known = Visible(cur.rows)
    BY <1>4 DEF ClearOfflineChanges, TypeOK, Database
  <2>2. JournalOK(cur.rows, cur.known)'
    BY <1>0, <2>1, ClearJournal
  <2> QED
    BY <1>4, <2>2 DEF ClearOfflineChanges, CommitOutermost
<1>5. ASSUME NEW t \in Threads, Lock(t) PROVE JournalInv'
  BY <1>5 DEF Lock
<1>6. ASSUME NEW t \in Threads, NEW action \in {"COMMIT", "ROLLBACK"}, Unlock(t, action)
      PROVE  JournalInv'
  BY <1>6 DEF Unlock
<1>7. ASSUME NEW t \in Threads, Freeze(t) PROVE JournalInv'
  BY <1>7 DEF Freeze
<1>8. ASSUME NEW t \in Threads, Thaw(t) PROVE JournalInv'
  <2>1. cur'.rows = cur.rows /\ cur'.known = cur.known /\ disk' = disk
    BY <1>8 DEF Thaw, TypeOK, Database
  <2> QED
    BY <2>1
<1>9. ASSUME Tick PROVE JournalInv'
  BY <1>9 DEF Tick
<1>10. ASSUME TakeGuard PROVE JournalInv'
  BY <1>10 DEF TakeGuard
<1>11. ASSUME Restart PROVE JournalInv'
  BY <1>11 DEF Restart
<1>12. CASE UNCHANGED vars
  BY <1>12 DEF vars
<1> QED
  BY <1>1, <1>2, <1>3, <1>4, <1>5, <1>6, <1>7, <1>8, <1>9, <1>10, <1>11, <1>12
     DEF Next, ThreadNext

\* The journal of a new cache is true.
LEMMA InitJournal == Init => JournalInv
BY NoRowsJournal DEF Init, JournalInv, NewDatabase

\* In every reachable state, committed or not, each offline state is true to the
\* content the server is known to have.
LEMMA JournalInvariant == Spec => [](TypeOK /\ JournalInv)
BY InitType, InitJournal, NextType, NextJournal, PTL DEF Spec

\* A true journal, replayed over the server's content, gives what is visible.
LEMMA ReplayVisible ==
    ASSUME NEW rows \in Tables, NEW known \in Contents, JournalOK(rows, known)
    PROVE  Replay(rows, known) = Visible(rows)
<1> DEFINE change(u) == [uid |-> u, state |-> rows[u].state, object |-> rows[u].object]
           changes(u) == {c \in e_cache_get_offline_changes(rows) : c.uid = u}
           replayed(u) == IF changes(u) = {} THEN known[u]
                          ELSE LET c == CHOOSE c \in changes(u) : TRUE IN
                               IF c.state = "LOCALLY_DELETED" THEN NoObject ELSE c.object
<1>1. ASSUME NEW u \in Uids PROVE replayed(u) = e_cache_get(rows, u)
  <2>1. CASE rows[u].state \in OfflineChangeStates
    <3>1. changes(u) = {change(u)}
      BY <2>1 DEF e_cache_get_offline_changes
    <3>2. (CHOOSE c \in changes(u) : TRUE) = change(u)
      BY <3>1
    <3>3. replayed(u) = IF rows[u].state = "LOCALLY_DELETED" THEN NoObject ELSE rows[u].object
      BY <3>1, <3>2
    <3> HIDE DEF replayed
    <3> QED
      BY <2>1, <3>3 DEF e_cache_get, e_cache_contains, ExcludeDeleted, OfflineChangeStates
  <2>2. CASE rows[u].state \notin OfflineChangeStates
    <3>1. changes(u) = {}
      BY <2>2 DEF e_cache_get_offline_changes
    <3>2. replayed(u) = known[u]
      BY <3>1
    <3>3. rows[u].state \in {"UNKNOWN", "SYNCED"}
      BY <2>2 DEF Tables, OfflineStates, OfflineChangeStates
    <3> HIDE DEF replayed
    <3> QED
      BY <3>2, <3>3 DEF JournalOK, e_cache_get, e_cache_contains, ExcludeDeleted
  <2> QED
    BY <2>1, <2>2
<1>2. Replay(rows, known) = [u \in Uids |-> replayed(u)]
  BY DEF Replay
<1> HIDE DEF replayed
<1> QED
  BY <1>1, <1>2 DEF Visible

\* Whatever online and offline calls, batches, rollbacks and crashes there are,
\* the offline changes the cache reports are exactly the difference between
\* the server's content and what the readers of the cache see.
THEOREM ReplayCorrect == Spec => []ReplayGivesVisible
<1>1. TypeOK /\ JournalInv => ReplayGivesVisible
  BY ReplayVisible DEF TypeOK, Database, JournalInv, ReplayGivesVisible
<1> QED
  BY <1>1, JournalInvariant, PTL

\* Each offline change can be uploaded to the server as what it says it is.
THEOREM ChangesCorrect == Spec => []ChangesApply
<1>1. ASSUME NEW rows \in Tables, NEW known \in Contents, JournalOK(rows, known),
             NEW c \in e_cache_get_offline_changes(rows)
      PROVE  c.state = "LOCALLY_CREATED" <=> known[c.uid] = NoObject
  <2>1. PICK u \in Uids : /\ rows[u].state \in OfflineChangeStates
                          /\ c = [uid |-> u, state |-> rows[u].state, object |-> rows[u].object]
    BY DEF e_cache_get_offline_changes
  <2>2. c.uid = u /\ c.state = rows[u].state
    BY <2>1
  <2> QED
    BY <1>1, <2>1, <2>2 DEF JournalOK, OfflineChangeStates
<1>2. TypeOK /\ JournalInv => ChangesApply
  BY <1>1 DEF TypeOK, Database, JournalInv, ChangesApply
<1> QED
  BY <1>2, JournalInvariant, PTL

-----------------------------------------------------------------------------
(* ---- transactions and revisions ---- *)

\* The pairing of locks and freezes is kept by every step.
LEMMA NextTransaction == TypeOK /\ TransactionInv /\ [Next]_vars => TransactionInv'
<1> SUFFICES ASSUME TypeOK, TransactionInv, [Next]_vars PROVE TransactionInv'
  OBVIOUS
<1> USE DEF TransactionInv
<1>0. /\ in_transaction \in Nat /\ frozen \in Nat
      /\ \A t \in Threads : t # NoThread
  BY ThreadsAssumption, BoundsAssumption DEF TypeOK
<1>1. ASSUME NEW rows, NEW known, ChangeRevision(rows, known), CommitOutermost,
             UNCHANGED <<owner, in_transaction, frozen>>
      PROVE  TransactionInv'
  <2>1. CASE frozen > 0
    BY <1>0, <1>1, <2>1 DEF ChangeRevision, CommitOutermost
  <2>2. CASE ~(frozen > 0)
    BY <1>0, <1>1, <2>2 DEF ChangeRevision, CommitOutermost
  <2> QED
    BY <2>1, <2>2
<1>2. ASSUME NEW t \in Threads, ClearOfflineChanges(t) PROVE TransactionInv'
  BY <1>0, <1>2 DEF ClearOfflineChanges, CommitOutermost, memory
<1>3. ASSUME NEW t \in Threads, Lock(t) PROVE TransactionInv'
  BY <1>0, <1>3 DEF Lock, memory
<1>4. ASSUME NEW t \in Threads, NEW action \in {"COMMIT", "ROLLBACK"}, Unlock(t, action)
      PROVE  TransactionInv'
  BY <1>0, <1>4 DEF Unlock, memory
<1>5. ASSUME NEW t \in Threads, Freeze(t) PROVE TransactionInv'
  BY <1>0, <1>5 DEF Freeze
<1>6. ASSUME NEW t \in Threads, Thaw(t) PROVE TransactionInv'
  <2>1. owner = t /\ frozen > 0 /\ frozen' = frozen - 1 /\ UNCHANGED <<owner, in_transaction>>
    BY <1>6 DEF Thaw
  <2>2. in_transaction # 0
    BY <1>0, <2>1
  <2>3. needs_revision_change' => frozen' > 0
    <3>1. CASE frozen = 1 /\ needs_revision_change
      BY <1>6, <3>1 DEF Thaw
    <3>2. CASE frozen # 1
      BY <1>0, <2>1, <3>2
    <3>3. CASE ~needs_revision_change
      BY <1>6, <3>3 DEF Thaw
    <3> QED
      BY <3>1, <3>2, <3>3
  <2> QED
    BY <1>0, <2>1, <2>2, <2>3
<1>7. ASSUME Tick PROVE TransactionInv'
  BY <1>7 DEF Tick, memory
<1>8. ASSUME TakeGuard PROVE TransactionInv'
  BY <1>8 DEF TakeGuard, memory
<1>9. ASSUME Restart PROVE TransactionInv'
  BY <1>9 DEF Restart
<1>10. CASE UNCHANGED vars
  BY <1>10 DEF vars, memory
<1>11. ASSUME NEW t \in Threads, NEW u \in Uids, NEW o \in Objects, NEW flag \in OfflineFlags,
              Put(t, u, o, flag)
       PROVE  TransactionInv'
  BY <1>1, <1>11 DEF Put
<1>12. ASSUME NEW t \in Threads, NEW u \in Uids, NEW flag \in OfflineFlags, Remove(t, u, flag)
       PROVE  TransactionInv'
  BY <1>1, <1>12 DEF Remove
<1>13. ASSUME NEW t \in Threads, RemoveAll(t) PROVE TransactionInv'
  BY <1>1, <1>13 DEF RemoveAll
<1> QED
  BY <1>2, <1>3, <1>4, <1>5, <1>6, <1>7, <1>8, <1>9, <1>10, <1>11, <1>12, <1>13
     DEF Next, ThreadNext

\* The revision handed out next is none of those handed out before, and once
\* it is handed out all of them are used up.
LEMMA NextRevisionIsNew ==
    ASSUME TypeOK, NEW r \in Revisions, Used(r), last_revision_time <= clock,
           NEW fresh, fresh = <<clock, NextCounter>>
    PROVE  /\ r # fresh
           /\ /\ last_revision_time' = clock
              /\ revision_counter' = NextCounter + 1
              /\ clock' = clock
              => Used(r)' /\ Used(fresh)'
<1>1. /\ r[1] \in Nat /\ r[2] \in Nat
      /\ clock \in Nat /\ last_revision_time \in Nat /\ revision_counter \in Nat
  BY BoundsAssumption DEF TypeOK, Revisions
<1>2. NextCounter \in Nat
  BY <1>1 DEF NextCounter
<1>3. r[1] = clock => r[2] < NextCounter
  BY <1>1 DEF Used, NextCounter
<1>4. fresh[1] = clock /\ fresh[2] = NextCounter
  OBVIOUS
<1>5. r # fresh
  BY <1>1, <1>2, <1>3, <1>4
<1>6. ASSUME last_revision_time' = clock, revision_counter' = NextCounter + 1, clock' = clock
      PROVE  Used(r)' /\ Used(fresh)'
  <2>1. r[1] <= clock
    BY DEF Used
  <2> HIDE DEF NextCounter
  <2> QED
    BY <1>1, <1>2, <1>3, <1>4, <1>6, <2>1 DEF Used
<1> QED
  BY <1>5, <1>6

\* Every step keeps the revisions unique, if a restart takes a second.
LEMMA NextRevision ==
    ASSUME RestartTime > 0
    PROVE  TypeOK /\ TransactionInv /\ RevisionInv /\ [Next]_vars => RevisionInv'
<1> SUFFICES ASSUME TypeOK, TransactionInv, RevisionInv, [Next]_vars PROVE RevisionInv'
  OBVIOUS
<1>0. /\ cur.revision \in Revisions /\ disk.revision \in Revisions
      /\ announced.revision \in Revisions /\ guard.revision \in Revisions
      /\ cur \in Database
      /\ clock \in Nat /\ last_revision_time \in Nat /\ revision_counter \in Nat
      /\ in_transaction \in Nat /\ frozen \in Nat
  BY BoundsAssumption DEF TypeOK, Database, Snapshots
<1>1. /\ last_revision_time <= clock
      /\ Used(cur.revision) /\ Used(disk.revision)
      /\ Used(announced.revision) /\ Used(guard.revision)
      /\ Agree(announced, Seen(disk.revision, disk.rows))
      /\ Agree(guard, Seen(disk.revision, disk.rows))
      /\ ~needs_revision_change => Agree(announced, Seen(cur.revision, cur.rows))
      /\ ~needs_revision_change => Agree(guard, Seen(cur.revision, cur.rows))
  BY DEF RevisionInv
<1>2. (
      /\ last_revision_time' <= clock'
      /\ Used(cur.revision)' /\ Used(disk.revision)'
      /\ Used(announced.revision)' /\ Used(guard.revision)'
      /\ Agree(announced, Seen(disk.revision, disk.rows))'
      /\ Agree(guard, Seen(disk.revision, disk.rows))'
      /\ ~needs_revision_change' => Agree(announced, Seen(cur.revision, cur.rows))'
      /\ ~needs_revision_change' => Agree(guard, Seen(cur.revision, cur.rows))'
      ) => RevisionInv'
  BY DEF RevisionInv
\* A fresh revision is announced together with its content.
<1>3. ASSUME NEW rows, last_revision_time' = clock, revision_counter' = NextCounter + 1,
             clock' = clock, cur'.revision = <<clock, NextCounter>>, cur'.rows = rows,
             announced' = Seen(<<clock, NextCounter>>, rows), guard' = guard,
             disk' = disk \/ disk' = cur'
      PROVE  RevisionInv'
  <2> DEFINE fresh == <<clock, NextCounter>>
  <2>1. /\ fresh # disk.revision /\ fresh # guard.revision
        /\ \A r \in {disk.revision, guard.revision, fresh} : Used(r)'
    BY <1>0, <1>1, <1>3, NextRevisionIsNew
  <2>2. /\ announced'.revision = fresh /\ announced'.content = Visible(rows)
        /\ cur'.revision = fresh /\ cur'.rows = rows
    BY <1>3 DEF Seen
  <2> HIDE DEF fresh
  <2>3. last_revision_time' <= clock'
    BY <1>0, <1>3
  <2>4. /\ Agree(announced, Seen(cur.revision, cur.rows))'
        /\ Agree(guard, Seen(cur.revision, cur.rows))'
    BY <1>3, <2>1, <2>2 DEF Agree, Seen
  <2>5. /\ Used(cur.revision)' /\ Used(announced.revision)' /\ Used(guard.revision)'
    BY <1>3, <2>1, <2>2 DEF Used
  <2>6. CASE disk' = disk
    <3>1. /\ Agree(announced, Seen(disk.revision, disk.rows))'
          /\ Agree(guard, Seen(disk.revision, disk.rows))'
      BY <1>1, <1>3, <2>1, <2>2, <2>6 DEF Agree, Seen
    <3>2. Used(disk.revision)'
      BY <2>1, <2>6 DEF Used
    <3> QED
      BY <1>2, <2>3, <2>4, <2>5, <3>1, <3>2
  <2>7. CASE disk' = cur'
    BY <1>2, <2>3, <2>4, <2>5, <2>7
  <2> QED
    BY <1>3, <2>6, <2>7
\* A change in a batch waits for the thaw.
<1>4. ASSUME NEW rows, NEW known, ChangeRevision(rows, known), CommitOutermost,
             UNCHANGED <<in_transaction, frozen, clock, guard>>
      PROVE  RevisionInv'
  <2>1. CASE frozen > 0
    <3>1. cur'.revision = cur.revision /\ needs_revision_change' = TRUE
          /\ UNCHANGED <<last_revision_time, revision_counter, announced, clock, guard>>
      BY <1>0, <1>4, <2>1 DEF ChangeRevision, Database
    <3>2. disk' = disk
      BY <1>0, <1>4, <2>1 DEF CommitOutermost, TransactionInv
    <3> QED
      BY <1>1, <3>1, <3>2 DEF RevisionInv, Used
  <2>2. CASE ~(frozen > 0)
    <3>1. /\ cur' = [rows |-> rows, revision |-> <<clock, NextCounter>>, known |-> known]
          /\ last_revision_time' = clock
          /\ revision_counter' = NextCounter + 1
          /\ announced' = Seen(<<clock, NextCounter>>, rows)
      BY <2>2, <1>4 DEF ChangeRevision
    <3>2. cur'.revision = <<clock, NextCounter>> /\ cur'.rows = rows
      BY <3>1
    <3>3. disk' = disk \/ disk' = cur'
      BY <1>4 DEF CommitOutermost
    <3> QED
      BY <1>3, <1>4, <3>1, <3>2, <3>3
  <2> QED
    BY <2>1, <2>2
<1>5. ASSUME NEW t \in Threads, ClearOfflineChanges(t) PROVE RevisionInv'
  <2>1. /\ cur'.revision = cur.revision
        /\ cur'.rows = e_cache_clear_offline_changes(cur.rows)
        /\ UNCHANGED <<needs_revision_change, last_revision_time, revision_counter, clock,
                       announced, guard>>
    BY <1>0, <1>5 DEF ClearOfflineChanges, Database, memory
  <2>2. Seen(cur'.revision, cur'.rows) = Seen(cur.revision, cur.rows)
    BY <1>0, <2>1, ClearKeepsVisible DEF Seen, Database
  <2>3. CASE in_transaction = 0
    <3>1. disk' = cur' /\ cur = disk /\ ~needs_revision_change
      BY <1>0, <1>5, <2>3 DEF ClearOfflineChanges, CommitOutermost, TransactionInv
    <3> QED
      BY <1>1, <2>1, <2>2, <3>1 DEF RevisionInv, Used
  <2>4. CASE in_transaction # 0
    <3>1. disk' = disk
      BY <1>5, <2>4 DEF ClearOfflineChanges, CommitOutermost
    <3> QED
      BY <1>1, <2>1, <2>2, <3>1 DEF RevisionInv, Used
  <2> QED
    BY <2>3, <2>4
<1>6. ASSUME NEW t \in Threads, Lock(t) PROVE RevisionInv'
  BY <1>1, <1>6 DEF Lock, memory, RevisionInv, Used
<1>7. ASSUME NEW t \in Threads, NEW action \in {"COMMIT", "ROLLBACK"}, Unlock(t, action)
      PROVE  RevisionInv'
  <2>1. UNCHANGED <<needs_revision_change, last_revision_time, revision_counter, clock,
                    announced, guard>>
    BY <1>7 DEF Unlock, memory
  <2>2. \/ cur' = cur /\ disk' = disk
        \/ cur' = disk /\ disk' = disk
        \/ cur' = cur /\ disk' = cur /\ in_transaction = 1 /\ frozen < in_transaction
    BY <1>7 DEF Unlock
  <2>3. CASE cur' = cur /\ disk' = disk
    BY <1>1, <2>1, <2>3 DEF RevisionInv, Used
  <2>4. CASE cur' = disk /\ disk' = disk
    BY <1>1, <2>1, <2>4 DEF RevisionInv, Used
  <2>5. CASE cur' = cur /\ disk' = cur /\ in_transaction = 1 /\ frozen < in_transaction
    <3>1. ~needs_revision_change
      BY <1>0, <2>5 DEF TransactionInv
    <3> QED
      BY <1>1, <2>1, <2>5, <3>1 DEF RevisionInv, Used
  <2> QED
    BY <2>2, <2>3, <2>4, <2>5
<1>8. ASSUME NEW t \in Threads, Freeze(t) PROVE RevisionInv'
  BY <1>1, <1>8 DEF Freeze, RevisionInv, Used
<1>9. ASSUME NEW t \in Threads, Thaw(t) PROVE RevisionInv'
  <2>1. CASE frozen = 1 /\ needs_revision_change
    <3>1. /\ last_revision_time' = clock
          /\ revision_counter' = NextCounter + 1
          /\ cur' = [cur EXCEPT !.revision = <<clock, NextCounter>>]
          /\ announced' = Seen(<<clock, NextCounter>>, cur.rows)
          /\ UNCHANGED <<disk, clock, guard>>
      BY <1>9, <2>1 DEF Thaw
    <3>2. cur'.revision = <<clock, NextCounter>> /\ cur'.rows = cur.rows
      BY <1>0, <3>1 DEF Database
    <3> QED
      BY <1>3, <3>1, <3>2
  <2>2. CASE ~(frozen = 1 /\ needs_revision_change)
    BY <1>1, <1>9, <2>2 DEF Thaw, RevisionInv, Used
  <2> QED
    BY <2>1, <2>2
<1>10. ASSUME Tick PROVE RevisionInv'
  <2>1. clock' = clock + 1
        /\ UNCHANGED <<cur, disk, announced, guard, needs_revision_change, last_revision_time>>
    BY <1>10 DEF Tick, memory
  <2>2. ASSUME NEW r \in Revisions, Used(r) PROVE r[1] <= clock' /\ r[1] # clock'
    BY <1>0, <2>1, <2>2, BoundsAssumption DEF Used, Revisions
  <2>3. ASSUME NEW r \in {cur.revision, disk.revision, announced.revision, guard.revision}
        PROVE  Used(r)'
    <3>1. r \in Revisions /\ Used(r)
      BY <1>0, <1>1
    <3> QED
      BY <2>2, <3>1 DEF Used
  <2> QED
    BY <1>0, <1>1, <2>1, <2>3 DEF RevisionInv
<1>11. ASSUME TakeGuard PROVE RevisionInv'
  BY <1>1, <1>11 DEF TakeGuard, memory, RevisionInv, Used
<1>12. ASSUME Restart PROVE RevisionInv'
  <2>1. /\ clock' = clock + RestartTime /\ last_revision_time' = 0
        /\ cur' = disk /\ disk' = disk
        /\ announced' = Seen(disk.revision, disk.rows) /\ guard' = announced'
    BY <1>12 DEF Restart
  <2>2. disk.revision[1] <= clock' /\ disk.revision[1] # clock'
    BY <1>0, <1>1, <2>1, BoundsAssumption DEF Used, Revisions
  <2>3. Used(disk.revision)'
    BY <2>1, <2>2 DEF Used
  <2>4. announced'.revision = disk.revision
    BY <2>1 DEF Seen
  <2>5. last_revision_time' <= clock'
    BY <1>0, <2>1, BoundsAssumption
  <2> QED
    BY <2>1, <2>3, <2>4, <2>5 DEF RevisionInv, Agree
<1>13. CASE UNCHANGED vars
  BY <1>1, <1>13 DEF vars, memory, RevisionInv, Used
<1>14. ASSUME NEW t \in Threads, NEW u \in Uids, NEW o \in Objects, NEW flag \in OfflineFlags,
              Put(t, u, o, flag)
       PROVE  RevisionInv'
  BY <1>4, <1>14 DEF Put
<1>15. ASSUME NEW t \in Threads, NEW u \in Uids, NEW flag \in OfflineFlags, Remove(t, u, flag)
       PROVE  RevisionInv'
  BY <1>4, <1>15 DEF Remove
<1>16. ASSUME NEW t \in Threads, RemoveAll(t) PROVE RevisionInv'
  BY <1>4, <1>16 DEF RemoveAll
<1> QED
  BY <1>5, <1>6, <1>7, <1>8, <1>9, <1>10, <1>11, <1>12, <1>13, <1>14, <1>15, <1>16
     DEF Next, ThreadNext

\* A new cache has handed out no revision and has no open transaction.
LEMMA InitRevision == Init => TransactionInv /\ RevisionInv
<1> SUFFICES ASSUME Init PROVE TransactionInv /\ RevisionInv
  OBVIOUS
<1>1. TransactionInv
  BY DEF Init, TransactionInv
<1>2. /\ cur.revision = NoRevision /\ disk.revision = NoRevision
      /\ cur.rows = NoRows /\ disk.rows = NoRows
      /\ announced.revision = NoRevision /\ guard.revision = NoRevision
      /\ announced = Seen(NoRevision, NoRows) /\ guard = announced
  BY DEF Init, NewDatabase, Seen
<1>3. Used(NoRevision) /\ last_revision_time <= clock
  BY DEF Init, Used, NoRevision
<1> QED
  BY <1>1, <1>2, <1>3 DEF RevisionInv, Agree

\* A cursor's revision guard is sound: while the revision committed to the
\* database equals the one a client remembers, the content is the one the
\* client saw, provided the clock is not set back and a restart takes a second.
THEOREM GuardCorrect == ASSUME RestartTime > 0 PROVE Spec => []GuardSound
<1>1. TypeOK /\ TransactionInv /\ RevisionInv => GuardSound
  BY DEF RevisionInv, GuardSound, Agree, Seen
<1>2. TypeOK /\ TransactionInv /\ RevisionInv /\ [Next]_vars
         => (TypeOK /\ TransactionInv /\ RevisionInv)'
  BY NextType, NextTransaction, NextRevision
<1>3. Init => TypeOK /\ TransactionInv /\ RevisionInv
  BY InitType, InitRevision
<1> QED
  BY <1>1, <1>2, <1>3, PTL DEF Spec
=============================================================================
