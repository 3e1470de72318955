------------------------ MODULE BookMetaBackendProofs ------------------------
(***************************************************************************)
(* Proofs about BookMetaBackend for any UIDs, contents and bound.          *)
(***************************************************************************)
EXTENDS BookMetaBackend, FiniteSetTheorems, TLAPS

(* ---- the inductive invariants ---- *)

\* What a refresh could upload now.
UploadOK(u) ==
    \/ rows[u].state = "LOCALLY_CREATED" /\ ~OnServer(u)
    \/ rows[u].state = "LOCALLY_MODIFIED" /\ u \in extra /\ Precondition(u, rows[u].object.etag)
    \/ rows[u].state = "LOCALLY_DELETED" /\ u \in extra /\ OnServer(u)

Uploadable == {u \in Uids : UploadOK(u)}

\* No number is ahead of the server, and the server has room for the uploads.
NumbersInv ==
    /\ 1 <= ctag /\ ctag + Cardinality(Uploadable) <= MaxChanges
    /\ \A u \in Uids : /\ server[u].stamp <= ctag
                       /\ OnServer(u) => 1 <= server[u].stamp
                       /\ rows[u].state # "UNKNOWN" => rows[u].object.etag <= ctag
    /\ sync_tag <= ctag /\ op.tag <= ctag

\* What the operation in progress knows: what it has to upload is still there,
\* after the upload nothing is changed locally, and the tag it will store is not
\* older than the stored one.
ProgressInv ==
    /\ op.pc = "load" => op.uid \in Uids \ op.todo
    /\ op.pc \in {"load", "upload"} => \A u \in op.todo : rows[u].state \in OfflineChangeStates
    /\ op.pc \in {"changes", "list", "multiget"} =>
          \A u \in Uids : rows[u].state \notin OfflineChangeStates
    /\ op.pc \in {"list", "multiget"} => sync_tag <= op.tag

IInv == TypeOK /\ NumbersInv /\ ProgressInv

\* The cache has of the contact what the server has.
Agree(u) ==
    IF OnServer(u)
    THEN rows[u] = Row("SYNCED", Contact(server[u].content, server[u].stamp))
    ELSE rows[u] = NoRow

\* The next refresh will be told about the contact.
News(u) == server[u].stamp > sync_tag

\* A row which came from the server has the server's version, by its ETag, or
\* the next refresh will be told that there is another one.
KnownInv(u) ==
    rows[u].state \in {"SYNCED", "LOCALLY_MODIFIED", "LOCALLY_DELETED"} =>
        /\ u \in extra
        /\ 1 <= rows[u].object.etag
        /\ server[u].stamp = rows[u].object.etag => OnServer(u)
        /\ rows[u].state # "SYNCED" => (server[u].stamp = rows[u].object.etag \/ News(u))
        /\ rows[u].state = "SYNCED" /\ server[u].stamp = rows[u].object.etag =>
              rows[u].object.content = server[u].content

SyncedInv(u) == rows[u].state \in {"SYNCED", "UNKNOWN"} => Agree(u) \/ News(u)

CreatedInv(u) ==
    rows[u].state = "LOCALLY_CREATED" => u \notin extra /\ (~OnServer(u) \/ News(u))

\* The changes the refresh is done with have been uploaded, or conflict.
UploadedInv(u) ==
    (op.pc = "upload" \/ (op.pc = "load" /\ op.then = "upload")) /\ u \notin op.todo =>
        /\ rows[u].state = "LOCALLY_CREATED" => op.pc = "load" /\ u = op.uid
        /\ rows[u].state \in {"LOCALLY_MODIFIED", "LOCALLY_DELETED"} /\ OnServer(u) =>
              server[u].stamp # rows[u].object.etag

\* Processing the changes which were listed makes the contact agree, unless it
\* has changed since the tag which will be stored.
ListedInv(u) ==
    op.pc = "multiget" =>
        \/ server[u].stamp > op.tag
        \/ /\ OnServer(u) => u \notin op.removed
           /\ Agree(u) \/ u \in (IF OnServer(u) THEN op.wanted ELSE op.removed)

CacheInv(u) == KnownInv(u) /\ SyncedInv(u) /\ CreatedInv(u)

UidInv(u) == CacheInv(u) /\ UploadedInv(u) /\ ListedInv(u)

FollowInv == \A u \in Followed : UidInv(u)

(* ---- the cache, one contact at a time ---- *)

Operations == [pc: {"idle", "load", "upload", "changes", "list", "multiget"},
               uid: Uids \cup {None}, then: {"idle", "upload"}, todo: SUBSET Uids, tag: Stamps,
               removed: SUBSET Uids, wanted: SUBSET Uids]

\* "No contact" is not a contact.
LEMMA NoContactIsNone == NoContact \notin Contacts
<1> SUFFICES ASSUME NoContact \in Contacts PROVE FALSE
  OBVIOUS
<1>1. "etag" \in DOMAIN NoContact
  BY DEF Contacts
<1>2. "etag" \notin DOMAIN NoContact
  BY DEF NoContact
<1> QED
  BY <1>1, <1>2

\* A row is there exactly when it has a state, and then has a contact with an ETag.
LEMMA RowOrNone ==
    ASSUME NEW table \in Tables, NEW u \in Uids
    PROVE  /\ table[u].state \in OfflineStates
           /\ table[u] = NoRow <=> table[u].state = "UNKNOWN"
           /\ table[u].state # "UNKNOWN" => /\ table[u].object \in Contacts
                                            /\ table[u].object.content \in Contents
                                            /\ table[u].object.etag \in Stamps
                                            /\ table[u] = Row(table[u].state, table[u].object)
<1>1. /\ table[u] \in [state: OfflineStates, object: Contacts \cup {NoContact}]
      /\ table[u].state = "UNKNOWN" <=> table[u].object = NoContact
  BY DEF Tables
<1>2. table[u] = Row(table[u].state, table[u].object)
  BY <1>1 DEF Row
<1> QED
  BY <1>1, <1>2 DEF NoRow, Row, Contacts

\* A contact is made of its content and its ETag.
LEMMA ContactParts ==
    ASSUME NEW content \in Contents, NEW etag \in Stamps
    PROVE  /\ Contact(content, etag) \in Contacts
           /\ Contact(content, etag).content = content
           /\ Contact(content, etag).etag = etag
BY DEF Contact, Contacts

\* e_cache_put() stores the contact, and nothing else changes.
LEMMA PutRows ==
    ASSUME NEW table \in Tables, NEW u \in Uids, NEW contact \in Contacts, NEW flag \in OfflineFlags,
           NEW new, new = e_cache_put(table, u, contact, flag)
    PROVE  /\ new \in Tables
           /\ new[u] = Row(PutState(table, u, flag), contact)
           /\ new[u].object = contact /\ new[u].state = PutState(table, u, flag)
           /\ PutState(table, u, flag) \in {"SYNCED", "LOCALLY_CREATED", "LOCALLY_MODIFIED"}
           /\ \A v \in Uids \ {u} : new[v] = table[v]
<1>1. PutState(table, u, flag) \in {"SYNCED", "LOCALLY_CREATED", "LOCALLY_MODIFIED"}
  BY DEF PutState
<1>2. contact # NoContact
  BY NoContactIsNone
<1> QED
  BY <1>1, <1>2 DEF Tables, e_cache_put, Row, OfflineStates

\* e_cache_remove() removes the row or marks it.
LEMMA RemoveRows ==
    ASSUME NEW table \in Tables, NEW u \in Uids, NEW flag \in OfflineFlags, table[u].state # "UNKNOWN",
           NEW new, new = e_cache_remove(table, u, flag)
    PROVE  /\ new \in Tables
           /\ RemovesRow(table, u, flag) => new[u] = NoRow
           /\ ~RemovesRow(table, u, flag) => /\ new[u].object = table[u].object
                                             /\ new[u].state = "LOCALLY_DELETED"
           /\ \A v \in Uids \ {u} : new[v] = table[v]
BY DEF Tables, e_cache_remove, RemovesRow, NoRow, Row, OfflineStates, OfflineFlags

\* e_cache_clear_offline_changes() marks each row as synchronized or removes it.
LEMMA ClearRows ==
    ASSUME NEW table \in Tables, NEW new, new = e_cache_clear_offline_changes(table)
    PROVE  /\ new \in Tables
           /\ \A v \in Uids : IF table[v].state \in {"UNKNOWN", "LOCALLY_DELETED"} THEN new[v] = NoRow
                              ELSE new[v].state = "SYNCED" /\ new[v].object = table[v].object
BY DEF Tables, e_cache_clear_offline_changes, NoRow, Row, OfflineStates

\* The offline changes are the rows in one of their states.
LEMMA ChangedAre ==
    ASSUME NEW table \in Tables
    PROVE  ChangedUids(table) = {u \in Uids : table[u].state \in OfflineChangeStates}
<1> DEFINE changed == {v \in Uids : table[v].state \in OfflineChangeStates}
           change(v) == [uid |-> v, state |-> table[v].state, object |-> table[v].object]
<1>1. e_cache_get_offline_changes(table) = {change(v) : v \in changed}
  BY DEF e_cache_get_offline_changes
<1>2. \A v : change(v).uid = v
  OBVIOUS
<1>3. ASSUME NEW u PROVE u \in ChangedUids(table) <=> u \in changed
  <2> HIDE DEF change, changed
  <2> QED
    BY <1>1, <1>2 DEF ChangedUids
<1> QED
  BY <1>3

\* Counting: of a subset, and of a subset which lacks an element.
LEMMA Counting ==
    ASSUME NEW big \in SUBSET Uids, NEW small \in SUBSET big
    PROVE  /\ Cardinality(big) \in Nat /\ Cardinality(small) \in Nat
           /\ Cardinality(small) <= Cardinality(big)
           /\ \A u \in big \ small : Cardinality(small) + 1 <= Cardinality(big)
<1>1. IsFiniteSet(big) /\ IsFiniteSet(small)
  BY UidsAssumption, FS_Subset
<1>2. Cardinality(big) \in Nat /\ Cardinality(small) \in Nat /\ Cardinality(small) <= Cardinality(big)
  BY <1>1, FS_CardinalityType, FS_Subset
<1>3. ASSUME NEW u \in big \ small PROVE Cardinality(small) + 1 <= Cardinality(big)
  <2>1. IsFiniteSet(big \ {u}) /\ Cardinality(big \ {u}) = Cardinality(big) - 1
    BY <1>1, FS_RemoveElement
  <2>2. Cardinality(small) <= Cardinality(big \ {u})
    BY <2>1, <1>3, FS_Subset
  <2> QED
    BY <2>1, <2>2, <1>2
<1> QED
  BY <1>2, <1>3

\* What the types say of one contact.
LEMMA Parts ==
    ASSUME TypeOK, NEW u \in Uids
    PROVE  /\ server[u].content \in Contents \cup {None} /\ server[u].stamp \in Stamps
           /\ server[u] = [content |-> server[u].content, stamp |-> server[u].stamp]
           /\ OnServer(u) <=> server[u].content \in Contents
           /\ Stamps \subseteq Nat /\ ctag \in Nat /\ sync_tag \in Nat /\ op.tag \in Nat
BY ContentsAssumption, MaxChangesAssumption DEF TypeOK, OnServer, Stamps

(* ---- the parts of the actions ---- *)

\* A change of the server: one resource gets a number no one has seen.
LEMMA ServerChanges ==
    ASSUME TypeOK, NEW u \in Uids, NEW content \in Contents \cup {None}, ServerChange(u, content)
    PROVE  /\ ctag' = ctag + 1
           /\ server'[u] = [content |-> content, stamp |-> ctag + 1]
           /\ server'[u].content = content /\ server'[u].stamp = ctag + 1
           /\ \A v \in Uids \ {u} : server'[v] = server[v]
           /\ OnServer(u)' <=> content # None
           /\ \A v \in Uids \ {u} : OnServer(v)' <=> OnServer(v)
           /\ ctag + 1 \in Stamps => server' \in [Uids -> [content: Contents \cup {None}, stamp: Stamps]]
<1>1. /\ ctag' = ctag + 1
      /\ server'[u] = [content |-> content, stamp |-> ctag + 1]
      /\ \A v \in Uids \ {u} : server'[v] = server[v]
  BY DEF ServerChange, TypeOK
<1>2. ctag + 1 \in Stamps => server' \in [Uids -> [content: Contents \cup {None}, stamp: Stamps]]
  BY DEF ServerChange, TypeOK
<1> QED
  BY <1>1, <1>2 DEF OnServer

\* The contact is loaded into the cache.
LEMMA Loads ==
    ASSUME TypeOK, NEW u \in Uids, NEW content \in Contents, NEW etag \in Stamps,
           PutLoaded(u, content, etag)
    PROVE  /\ rows' \in Tables
           /\ rows'[u] = Row("SYNCED", Contact(content, etag))
           /\ rows'[u].state = "SYNCED" /\ rows'[u].object = Contact(content, etag)
           /\ rows'[u].object.content = content /\ rows'[u].object.etag = etag
           /\ \A v \in Uids \ {u} : rows'[v] = rows[v]
           /\ extra' = extra \cup {u} /\ extra' \in SUBSET Uids
           /\ sync_tag' = sync_tag
<1>1. /\ rows' = e_cache_put(rows, u, Contact(content, etag), "IS_ONLINE")
      /\ extra' = extra \cup {u} /\ sync_tag' = sync_tag
  BY DEF PutLoaded
<1>2. PutState(rows, u, "IS_ONLINE") = "SYNCED"
  BY DEF PutState
<1>3. rows \in Tables /\ extra \in SUBSET Uids
  BY DEF TypeOK
<1> QED
  BY <1>1, <1>2, <1>3, PutRows, ContactParts DEF OfflineFlags

\* The contact is removed from the cache, or marked.
LEMMA Removes ==
    ASSUME TypeOK, NEW u \in Uids, NEW flag \in OfflineFlags, RemoveFromCache(u, flag)
    PROVE  /\ rows' \in Tables
           /\ IsVisible(u) /\ RemovesRow(rows, u, flag) => rows'[u] = NoRow
           /\ IsVisible(u) /\ ~RemovesRow(rows, u, flag) => /\ rows'[u].object = rows[u].object
                                                            /\ rows'[u].state = "LOCALLY_DELETED"
           /\ ~IsVisible(u) => rows'[u] = rows[u]
           /\ \A v \in Uids \ {u} : rows'[v] = rows[v]
           /\ extra' \in SUBSET Uids /\ extra' \subseteq extra
           /\ \A v \in Uids : rows'[v] # NoRow => (v \in extra' <=> v \in extra)
           /\ sync_tag' = sync_tag
<1>1. /\ rows' = IF IsVisible(u) THEN e_cache_remove(rows, u, flag) ELSE rows
      /\ extra' = {v \in extra : rows'[v] # NoRow} /\ sync_tag' = sync_tag
  BY DEF RemoveFromCache
<1>2. rows \in Tables /\ extra \in SUBSET Uids
  BY DEF TypeOK
<1>3. IsVisible(u) => rows[u].state # "UNKNOWN"
  BY DEF IsVisible, e_cache_contains
<1>4. CASE IsVisible(u)
  <2>1. /\ rows' \in Tables
        /\ RemovesRow(rows, u, flag) => rows'[u] = NoRow
        /\ ~RemovesRow(rows, u, flag) => /\ rows'[u].object = rows[u].object
                                         /\ rows'[u].state = "LOCALLY_DELETED"
        /\ \A v \in Uids \ {u} : rows'[v] = rows[v]
    BY <1>1, <1>2, <1>3, <1>4, RemoveRows
  <2> QED
    BY <1>1, <1>2, <1>4, <2>1
<1>5. CASE ~IsVisible(u)
  BY <1>1, <1>2, <1>5
<1> QED
  BY <1>4, <1>5

\* Processing a part of the changes: each contact is what the server sent,
\* gone, or as it was.
LEMMA Processes ==
    ASSUME TypeOK, NEW removed \in SUBSET Uids, NEW wanted \in SUBSET Uids, Processed(removed, wanted)
    PROVE  /\ rows' \in Tables
           /\ extra' \in SUBSET Uids
           /\ \A u \in Uids :
                /\ u \in wanted /\ OnServer(u) =>
                      /\ rows'[u] = Row("SYNCED", Contact(server[u].content, server[u].stamp))
                      /\ rows'[u].state = "SYNCED"
                      /\ rows'[u].object.content = server[u].content
                      /\ rows'[u].object.etag = server[u].stamp
                /\ ~(u \in wanted /\ OnServer(u)) /\ u \in removed /\ IsVisible(u) => rows'[u] = NoRow
                /\ ~(u \in wanted /\ OnServer(u)) /\ ~(u \in removed /\ IsVisible(u)) =>
                      rows'[u] = rows[u]
                /\ (u \in extra \/ u \in wanted) /\ rows'[u] # NoRow => u \in extra'
<1>1. /\ rows' = [u \in Uids |->
                    IF u \in Sent(wanted)
                    THEN Row("SYNCED", Contact(server[u].content, server[u].stamp))
                    ELSE IF u \in removed /\ IsVisible(u) THEN NoRow ELSE rows[u]]
      /\ extra' = {u \in extra \cup wanted : rows'[u] # NoRow}
  BY DEF Processed
<1>2. rows \in Tables /\ extra \in SUBSET Uids
  BY DEF TypeOK
<1>3. ASSUME NEW u \in Uids
      PROVE  /\ rows'[u] \in [state: OfflineStates, object: Contacts \cup {NoContact}]
             /\ rows'[u].state = "UNKNOWN" <=> rows'[u].object = NoContact
             /\ u \in wanted /\ OnServer(u) =>
                   /\ rows'[u] = Row("SYNCED", Contact(server[u].content, server[u].stamp))
                   /\ rows'[u].state = "SYNCED"
                   /\ rows'[u].object.content = server[u].content
                   /\ rows'[u].object.etag = server[u].stamp
  <2>1. CASE u \in wanted /\ OnServer(u)
    <3>1. rows'[u] = Row("SYNCED", Contact(server[u].content, server[u].stamp))
      BY <1>1, <1>3, <2>1 DEF Sent
    <3>2. /\ Contact(server[u].content, server[u].stamp) \in Contacts
          /\ Contact(server[u].content, server[u].stamp).content = server[u].content
          /\ Contact(server[u].content, server[u].stamp).etag = server[u].stamp
      BY <2>1, Parts, ContactParts
    <3> QED
      BY <3>1, <3>2, <2>1, NoContactIsNone DEF Row, OfflineStates
  <2>2. CASE ~(u \in wanted /\ OnServer(u))
    <3>1. rows'[u] = NoRow \/ rows'[u] = rows[u]
      BY <1>1, <1>3, <2>2 DEF Sent
    <3> QED
      BY <3>1, <1>2, <2>2 DEF NoRow, Row, OfflineStates, Tables
  <2> QED
    BY <2>1, <2>2
<1>4. DOMAIN rows' = Uids /\ rows' = [u \in Uids |-> rows'[u]]
  BY <1>1
<1>5. rows' \in Tables
  BY <1>3, <1>4 DEF Tables
<1> QED
  BY <1>1, <1>2, <1>3, <1>5 DEF Sent

\* The server accepts a contact: it is loaded back, or the cache stays as it is.
LEMMA Saves ==
    ASSUME TypeOK, NEW u \in Uids, NEW content \in Contents, NEW after \in Operations,
           after.pc \in {"idle", "upload"}, ctag + 1 \in Stamps, Saved(u, content, after)
    PROVE  /\ ServerChange(u, content)
           /\ rows' \in Tables /\ extra' \in SUBSET Uids /\ sync_tag' = sync_tag
           /\ \A v \in Uids \ {u} : rows'[v] = rows[v] /\ (v \in extra' <=> v \in extra)
           /\ \/ /\ rows'[u] = Row("SYNCED", Contact(content, ctag + 1))
                 /\ rows'[u].state = "SYNCED" /\ u \in extra'
                 /\ rows'[u].object.content = content /\ rows'[u].object.etag = ctag + 1
                 /\ op' = after
              \/ /\ rows' = rows /\ extra' = extra
                 /\ \/ op' = Idle
                    \/ /\ op'.pc = "load" /\ op'.uid = u /\ op'.then = after.pc
                       /\ op'.todo = after.todo /\ op'.tag = after.tag
           /\ op' \in Operations
<1>1. ServerChange(u, content)
  BY DEF Saved
<1>2. CASE PutLoaded(u, content, ctag + 1) /\ op' = after
  BY <1>1, <1>2, Loads
<1>3. CASE UNCHANGED cacheVars /\ op' = [after EXCEPT !.pc = "load", !.uid = u, !.then = after.pc]
  <2>1. op' \in Operations
    BY <1>3 DEF Operations
  <2>2. /\ op'.pc = "load" /\ op'.uid = u /\ op'.then = after.pc
        /\ op'.todo = after.todo /\ op'.tag = after.tag
    BY <1>3 DEF Operations
  <2> QED
    BY <1>1, <1>3, <2>1, <2>2 DEF cacheVars, TypeOK
<1>4. CASE UNCHANGED cacheVars /\ op' = Idle
  <2>1. op' \in Operations
    BY <1>4, MaxChangesAssumption DEF Operations, Idle, Stamps
  <2> QED
    BY <1>1, <1>4, <2>1 DEF cacheVars, TypeOK
<1> QED
  BY <1>2, <1>3, <1>4 DEF Saved

(* ---- the numbers ---- *)

\* When there is room, it is enough for one more change and all the uploads.
LEMMA RoomFor ==
    ASSUME TypeOK, NEW table \in Tables, Room(table), NEW set, set \subseteq ChangedUids(table)
    PROVE  /\ Cardinality(set) \in Nat /\ ctag + 1 + Cardinality(set) <= MaxChanges
           /\ ctag + 1 \in Stamps
<1>1. ChangedUids(table) \in SUBSET Uids
  BY ChangedAre
<1>2. /\ Cardinality(set) \in Nat /\ Cardinality(ChangedUids(table)) \in Nat
      /\ Cardinality(set) <= Cardinality(ChangedUids(table))
  BY <1>1, Counting
<1>3. ctag + Cardinality(ChangedUids(table)) < MaxChanges
  BY DEF Room
<1> QED
  BY <1>2, <1>3, MaxChangesAssumption DEF TypeOK, Stamps

\* Only an offline change can be uploaded.
LEMMA UploadsAreChanges ==
    ASSUME rows \in Tables
    PROVE  Uploadable \subseteq ChangedUids(rows)
BY ChangedAre DEF Uploadable, UploadOK, OfflineChangeStates

\* Idle is an operation.
LEMMA IdleIsOperation == Idle \in Operations /\ Idle.pc = "idle" /\ Idle.tag = 0 /\ Idle.then = "idle"
                         /\ Idle.todo = {}
BY MaxChangesAssumption DEF Idle, Operations, Stamps

\* What a step has to establish for the numbers and the types.
LEMMA Establish ==
    ASSUME TypeOK,
           rows' \in Tables, extra' \in SUBSET Uids, op' \in Operations,
           sync_tag' \in Stamps, sync_tag' <= ctag',
           ctag' \in Nat, 1 <= ctag', Cardinality(Uploadable') \in Nat,
           ctag' + Cardinality(Uploadable') <= MaxChanges,
           server' \in [Uids -> [content: Contents \cup {None}, stamp: Stamps]],
           \A u \in Uids : /\ server'[u].stamp <= ctag'
                           /\ OnServer(u)' => 1 <= server'[u].stamp
                           /\ rows'[u].state # "UNKNOWN" => rows'[u].object.etag <= ctag',
           op'.tag <= ctag', UNCHANGED kind, recreated' \in SUBSET Uids
    PROVE  TypeOK' /\ NumbersInv'
<1>1. ctag' \in Stamps
  BY MaxChangesAssumption DEF Stamps
<1>2. TypeOK'
  BY <1>1 DEF TypeOK, kind, Operations
<1>3. NumbersInv'
  BY DEF NumbersInv
<1> QED
  BY <1>2, <1>3

\* A step which does not change the server, and makes nothing uploadable.
LEMMA QuietStep ==
    ASSUME TypeOK, NumbersInv, UNCHANGED <<server, ctag, kind>>, recreated' \in SUBSET Uids,
           rows' \in Tables, extra' \in SUBSET Uids, op' \in Operations,
           sync_tag' \in Stamps, sync_tag' <= ctag,
           \A u \in Uids : UploadOK(u)' => UploadOK(u),
           \A u \in Uids : rows'[u].state # "UNKNOWN" => rows'[u].object.etag <= ctag,
           op'.tag <= ctag
    PROVE  TypeOK' /\ NumbersInv'
<1>1. Uploadable' \subseteq Uploadable /\ Uploadable \subseteq Uids
  BY DEF Uploadable
<1>2. /\ Cardinality(Uploadable) \in Nat /\ Cardinality(Uploadable') \in Nat
      /\ Cardinality(Uploadable') <= Cardinality(Uploadable)
  BY <1>1, Counting
<1>3. ctag \in Nat /\ ctag' = ctag /\ server' = server /\ UNCHANGED kind
  BY MaxChangesAssumption DEF TypeOK, Stamps, kind
<1>4. 1 <= ctag' /\ ctag' + Cardinality(Uploadable') <= MaxChanges
  BY <1>2, <1>3, MaxChangesAssumption DEF NumbersInv
<1>5. \A u \in Uids : /\ server'[u].stamp <= ctag'
                      /\ OnServer(u)' => 1 <= server'[u].stamp
  BY <1>3 DEF NumbersInv, OnServer
<1>6. server' \in [Uids -> [content: Contents \cup {None}, stamp: Stamps]]
  BY <1>3 DEF TypeOK
<1> QED
  BY <1>2, <1>3, <1>4, <1>5, <1>6, Establish

\* A step which leaves room: the server does not change, or changes once.
LEMMA RoomStep ==
    ASSUME TypeOK, NumbersInv, UNCHANGED kind, recreated' \in SUBSET Uids,
           NEW table \in Tables, Room(table), Uploadable' \subseteq ChangedUids(table),
           rows' \in Tables, extra' \in SUBSET Uids, op' \in Operations, sync_tag' = sync_tag,
           UNCHANGED serverVars \/ \E w \in Uids, content \in Contents \cup {None} : ServerChange(w, content),
           \A u \in Uids : rows'[u].state # "UNKNOWN" => rows'[u].object.etag <= ctag',
           op'.tag <= ctag
    PROVE  TypeOK' /\ NumbersInv'
<1>1. /\ Cardinality(Uploadable') \in Nat /\ ctag + 1 + Cardinality(Uploadable') <= MaxChanges
      /\ ctag + 1 \in Stamps
  BY RoomFor
<1>2. /\ ctag \in Nat /\ 1 <= ctag /\ sync_tag \in Stamps /\ sync_tag <= ctag
      /\ sync_tag \in Nat /\ op'.tag \in Nat
  BY MaxChangesAssumption DEF TypeOK, NumbersInv, Stamps, Operations
<1>3. CASE UNCHANGED serverVars
  <2>1. ctag' = ctag /\ server' = server
    BY <1>3 DEF serverVars
  <2>2. \A u \in Uids : /\ server'[u].stamp <= ctag'
                        /\ OnServer(u)' => 1 <= server'[u].stamp
    BY <2>1 DEF NumbersInv, OnServer
  <2>3. server' \in [Uids -> [content: Contents \cup {None}, stamp: Stamps]]
    BY <2>1 DEF TypeOK
  <2>4. 1 <= ctag' /\ ctag' + Cardinality(Uploadable') <= MaxChanges
    BY <1>1, <1>2, <2>1, MaxChangesAssumption
  <2> QED
    BY <1>1, <1>2, <2>1, <2>2, <2>3, <2>4, Establish
<1>4. CASE \E w \in Uids, content \in Contents \cup {None} : ServerChange(w, content)
  <2> PICK w \in Uids, content \in Contents \cup {None} : ServerChange(w, content)
    BY <1>4
  <2>1. /\ ctag' = ctag + 1
        /\ server'[w] = [content |-> content, stamp |-> ctag + 1]
        /\ \A v \in Uids \ {w} : server'[v] = server[v]
        /\ server' \in [Uids -> [content: Contents \cup {None}, stamp: Stamps]]
    BY <1>1, ServerChanges
  <2>2. ASSUME NEW u \in Uids
        PROVE  server'[u].stamp <= ctag' /\ (OnServer(u)' => 1 <= server'[u].stamp)
    <3>1. CASE u = w
      BY <2>1, <3>1, <1>2
    <3>2. CASE u # w
      <4>1. server[u].stamp \in Nat /\ server[u].stamp <= ctag /\ (OnServer(u) => 1 <= server[u].stamp)
        BY Parts DEF NumbersInv
      <4>2. server'[u] = server[u]
        BY <2>1, <3>2
      <4> QED
        BY <4>1, <4>2, <2>1, <1>2 DEF OnServer
    <3> QED
      BY <3>1, <3>2
  <2>3. 1 <= ctag' /\ ctag' \in Nat /\ ctag' + Cardinality(Uploadable') <= MaxChanges
    BY <1>1, <1>2, <2>1, MaxChangesAssumption
  <2>4. sync_tag' <= ctag' /\ op'.tag <= ctag'
    BY <1>2, <2>1
  <2> QED
    BY <1>1, <1>2, <2>1, <2>2, <2>3, <2>4, Establish
<1> QED
  BY <1>3, <1>4

\* Each upload takes one of those there is room for.
LEMMA UploadStep ==
    ASSUME TypeOK, NumbersInv, UNCHANGED kind, recreated' \in SUBSET Uids,
           NEW u \in Uids, NEW content \in Contents \cup {None}, ServerChange(u, content),
           UploadOK(u), ~UploadOK(u)', \A v \in Uids : v # u /\ UploadOK(v)' => UploadOK(v),
           rows' \in Tables, extra' \in SUBSET Uids, op' \in Operations, sync_tag' = sync_tag,
           \A v \in Uids : rows'[v].state # "UNKNOWN" => rows'[v].object.etag <= ctag',
           op'.tag <= ctag
    PROVE  TypeOK' /\ NumbersInv'
<1>1. /\ ctag \in Nat /\ 1 <= ctag /\ ctag + Cardinality(Uploadable) <= MaxChanges
      /\ op'.tag \in Nat
  BY MaxChangesAssumption DEF TypeOK, NumbersInv, Stamps, Operations
<1>2. u \in Uploadable /\ Uploadable' \subseteq Uploadable /\ u \notin Uploadable' /\ Uploadable \in SUBSET Uids
  BY DEF Uploadable
<1>3. /\ Cardinality(Uploadable') \in Nat /\ Cardinality(Uploadable) \in Nat
      /\ Cardinality(Uploadable') + 1 <= Cardinality(Uploadable)
  BY <1>2, Counting
<1>4. ctag + 1 \in Stamps
  BY <1>1, <1>3, MaxChangesAssumption DEF Stamps
<1>5. /\ ctag' = ctag + 1
      /\ server'[u] = [content |-> content, stamp |-> ctag + 1]
      /\ \A v \in Uids \ {u} : server'[v] = server[v]
      /\ server' \in [Uids -> [content: Contents \cup {None}, stamp: Stamps]]
  BY <1>4, ServerChanges
<1>6. ctag' \in Nat /\ 1 <= ctag' /\ ctag' + Cardinality(Uploadable') <= MaxChanges
  BY <1>1, <1>3, <1>5, MaxChangesAssumption
<1>7. sync_tag' \in Stamps /\ sync_tag' <= ctag' /\ op'.tag <= ctag'
  BY <1>1, <1>5, Parts DEF TypeOK, NumbersInv
<1>8. ASSUME NEW v \in Uids
      PROVE server'[v].stamp <= ctag' /\ (OnServer(v)' => 1 <= server'[v].stamp)
  <2>1. server[v].stamp \in Nat /\ server[v].stamp <= ctag /\ (OnServer(v) => 1 <= server[v].stamp)
    BY Parts DEF NumbersInv
  <2> QED
    BY <2>1, <1>1, <1>5 DEF OnServer
<1> QED
  BY <1>3, <1>5, <1>6, <1>7, <1>8, Establish

(* ---- IInv ---- *)

\* The initial states satisfy the invariant.
LEMMA InitInv == Init => IInv
<1> SUFFICES ASSUME Init PROVE IInv
  OBVIOUS
<1>0. /\ rows = NoRows /\ extra = {} /\ sync_tag = 0 /\ ctag = 1 /\ op = Idle /\ recreated = {}
      /\ server = [u \in Uids |-> [content |-> None, stamp |-> 0]]
      /\ supports_sync_collection \in BOOLEAN /\ reliable \in BOOLEAN
  BY DEF Init
<1>1. rows \in Tables /\ \A u \in Uids : rows[u].state = "UNKNOWN"
  BY <1>0 DEF Tables, NoRows, NoRow, Row, OfflineStates
<1>2. 0 \in Stamps /\ 1 \in Stamps
  BY MaxChangesAssumption DEF Stamps
<1>3. TypeOK
  BY <1>0, <1>1, <1>2, IdleIsOperation DEF TypeOK, Operations
<1>4. Uploadable = {}
  BY <1>1 DEF Uploadable, UploadOK
<1>5. Cardinality(Uploadable) = 0
  BY <1>4, FS_EmptySet
<1>6. \A u \in Uids : server[u].stamp = 0 /\ ~OnServer(u)
  BY <1>0 DEF OnServer
<1>7. NumbersInv
  BY <1>0, <1>1, <1>5, <1>6, IdleIsOperation, MaxChangesAssumption DEF NumbersInv
<1>8. ProgressInv
  BY <1>0, IdleIsOperation DEF ProgressInv
<1> QED
  BY <1>3, <1>7, <1>8 DEF IInv

\* An online create or modify, or the upload of one, which the server accepts.
\* There is room for it: the operation checked, or it is one of the uploads.
LEMMA SavedInv ==
    ASSUME IInv, NEW u \in Uids, NEW content \in Contents, NEW after \in Operations,
           after.pc \in {"idle", "upload"}, after.tag <= ctag, UNCHANGED <<kind, recreated>>,
           Saved(u, content, after),
           \A v \in after.todo : v # u /\ rows[v].state \in OfflineChangeStates,
           Room(rows) \/ (UploadOK(u) /\ rows[u].state # "LOCALLY_DELETED")
    PROVE  IInv'
<1>0. TypeOK /\ NumbersInv /\ rows \in Tables
  BY DEF IInv, TypeOK
<1>1. ctag \in Nat /\ ctag + Cardinality(Uploadable) <= MaxChanges /\ 1 <= ctag
  BY <1>0, MaxChangesAssumption DEF TypeOK, NumbersInv, Stamps
<1>2. ctag + 1 \in Stamps
  <2>1. CASE Room(rows)
    BY <2>1, <1>0, RoomFor, UploadsAreChanges
  <2>2. CASE UploadOK(u)
    <3>1. u \in Uploadable /\ Uploadable \in SUBSET Uids /\ {} \in SUBSET Uploadable
      BY <2>2 DEF Uploadable
    <3>2. Cardinality(Uploadable) \in Nat /\ Cardinality({}) + 1 <= Cardinality(Uploadable)
      BY <3>1, Counting
    <3>3. Cardinality({}) = 0
      BY FS_EmptySet
    <3> QED
      BY <3>2, <3>3, <1>1, MaxChangesAssumption DEF Stamps
  <2> QED
    BY <2>1, <2>2
<1>3. /\ ServerChange(u, content)
      /\ rows' \in Tables /\ extra' \in SUBSET Uids /\ sync_tag' = sync_tag
      /\ \A v \in Uids \ {u} : rows'[v] = rows[v] /\ (v \in extra' <=> v \in extra)
      /\ \/ /\ rows'[u].state = "SYNCED"
            /\ rows'[u].object.content = content /\ rows'[u].object.etag = ctag + 1
            /\ op' = after
         \/ /\ rows' = rows /\ extra' = extra
            /\ \/ op' = Idle
               \/ /\ op'.pc = "load" /\ op'.uid = u /\ op'.then = after.pc
                  /\ op'.todo = after.todo /\ op'.tag = after.tag
      /\ op' \in Operations
  BY <1>0, <1>2, Saves
<1>4. /\ ctag' = ctag + 1
      /\ server'[u] = [content |-> content, stamp |-> ctag + 1]
      /\ \A v \in Uids \ {u} : server'[v] = server[v]
      /\ OnServer(u)'
      /\ \A v \in Uids \ {u} : OnServer(v)' <=> OnServer(v)
  BY <1>0, <1>3, ServerChanges, ContentsAssumption
<1>5. \A v \in Uids : rows'[v].state # "UNKNOWN" => rows'[v].object.etag <= ctag'
  <2> SUFFICES ASSUME NEW v \in Uids, rows'[v].state # "UNKNOWN" PROVE rows'[v].object.etag <= ctag'
    OBVIOUS
  <2>1. rows'[v] = rows[v] \/ rows'[v].object.etag = ctag + 1
    BY <1>3
  <2>2. rows[v].state # "UNKNOWN" => rows[v].object.etag \in Nat /\ rows[v].object.etag <= ctag
    BY <1>0, RowOrNone, Parts DEF NumbersInv
  <2> QED
    BY <2>1, <2>2, <1>1, <1>4
<1>6. op'.tag <= ctag /\ op'.tag \in Nat
  BY <1>3, <1>1, IdleIsOperation, MaxChangesAssumption DEF Operations, Stamps
<1>7. ASSUME NEW v \in Uids, v # u, UploadOK(v)' PROVE UploadOK(v)
  <2>1. rows'[v] = rows[v] /\ (v \in extra' <=> v \in extra) /\ server'[v] = server[v]
    BY <1>3, <1>4, <1>7
  <2> QED
    BY <2>1, <1>7 DEF UploadOK, OnServer, Precondition
<1>8. UploadOK(u)' => rows[u].state = "LOCALLY_DELETED" /\ rows'[u] = rows[u]
  <2> SUFFICES ASSUME UploadOK(u)' PROVE rows[u].state = "LOCALLY_DELETED" /\ rows'[u] = rows[u]
    OBVIOUS
  <2>1. rows' = rows
    BY <1>3 DEF UploadOK
  <2>2. rows[u].state # "UNKNOWN" => rows[u].object.etag \in Nat /\ rows[u].object.etag <= ctag
    BY <1>0, RowOrNone, Parts DEF NumbersInv
  <2>3. rows[u].state = "LOCALLY_MODIFIED" => ~Precondition(u, rows[u].object.etag)'
    BY <2>1, <2>2, <1>1, <1>4 DEF Precondition
  <2> QED
    BY <2>1, <2>3, <1>4 DEF UploadOK
<1>9. TypeOK' /\ NumbersInv'
  <2>1. CASE Room(rows)
    <3>1. Uploadable' \subseteq ChangedUids(rows)
      BY <1>0, <1>7, <1>8, UploadsAreChanges, ChangedAre DEF Uploadable, OfflineChangeStates
    <3>2. recreated' \in SUBSET Uids
      BY <1>0 DEF TypeOK
    <3> QED
      BY <1>0, <1>3, <1>5, <1>6, <2>1, <3>1, <3>2, RoomStep
  <2>2. CASE UploadOK(u) /\ rows[u].state # "LOCALLY_DELETED"
    <3>1. ~UploadOK(u)' /\ recreated' \in SUBSET Uids
      BY <1>0, <1>8, <2>2 DEF TypeOK
    <3> QED
      BY <1>0, <1>3, <1>5, <1>6, <1>7, <2>2, <3>1, UploadStep
  <2> QED
    BY <2>1, <2>2
<1>10. ProgressInv'
  <2>1. after.todo \subseteq Uids
    BY DEF Operations
  <2>2. \A v \in after.todo : v # u /\ rows'[v].state \in OfflineChangeStates
    BY <1>3, <2>1
  <2> QED
    BY <1>3, <2>2, IdleIsOperation DEF ProgressInv
<1> QED
  BY <1>9, <1>10 DEF IInv

\* The lemma on what can be uploaded, for the state after a step.
LEMMA UploadsAreChangesNext ==
    ASSUME rows' \in Tables
    PROVE  Uploadable' \subseteq ChangedUids(rows')
BY ChangedAre DEF Uploadable, UploadOK, OfflineChangeStates

\* The ETag of a row is a number the server has given out.
LEMMA EtagKnown ==
    ASSUME IInv, NEW u \in Uids, rows[u].state # "UNKNOWN"
    PROVE  rows[u].object.etag \in Nat /\ rows[u].object.etag <= ctag /\ rows[u].object.etag \in Stamps
BY RowOrNone, Parts DEF IInv, NumbersInv, TypeOK

\* A step which leaves room for the uploads: an offline change, or a change of
\* the server which the cache does not take notice of.
LEMMA RoomInv ==
    ASSUME IInv, UNCHANGED <<sync_tag, op, kind>>, recreated' \in SUBSET Uids,
           rows' \in Tables, extra' \in SUBSET Uids, Room(rows'), op = Idle \/ rows' = rows,
           UNCHANGED serverVars \/ \E w \in Uids, content \in Contents \cup {None} : ServerChange(w, content),
           \A u \in Uids : rows'[u].state # "UNKNOWN" => rows'[u].object.etag <= ctag
    PROVE  IInv'
<1>1. TypeOK /\ NumbersInv /\ ctag \in Nat
  BY MaxChangesAssumption DEF IInv, TypeOK, Stamps
<1>2. Uploadable' \subseteq ChangedUids(rows')
  BY UploadsAreChangesNext
<1>3. op' \in Operations /\ op'.tag <= ctag
  BY <1>1 DEF TypeOK, Operations, NumbersInv
<1>4. ctag' = ctag \/ ctag' = ctag + 1
  BY DEF serverVars, ServerChange
<1>5. \A u \in Uids : rows'[u].state # "UNKNOWN" => rows'[u].object.etag \in Nat
  BY RowOrNone, MaxChangesAssumption DEF Stamps
<1>6. \A u \in Uids : rows'[u].state # "UNKNOWN" => rows'[u].object.etag <= ctag'
  BY <1>1, <1>4, <1>5
<1>7. UNCHANGED kind
  BY DEF kind
<1>8. TypeOK' /\ NumbersInv'
  BY <1>1, <1>2, <1>3, <1>6, <1>7, RoomStep
<1>9. ProgressInv'
  BY IdleIsOperation DEF IInv, ProgressInv
<1> QED
  BY <1>8, <1>9 DEF IInv

\* A client creates a contact, online or offline.
LEMMA CreateInv ==
    ASSUME IInv, NEW u \in Uids, NEW content \in Contents, NEW flag \in OfflineFlags,
           CreateContact(u, content, flag)
    PROVE  IInv'
<1>1. op = Idle /\ ~IsVisible(u) /\ UNCHANGED kind
  BY DEF CreateContact
<1>2. TypeOK /\ NumbersInv /\ ctag \in Nat /\ 1 <= ctag
  BY MaxChangesAssumption DEF IInv, TypeOK, Stamps, NumbersInv
<1>3. CASE flag = "IS_ONLINE"
  <2>1. Room(rows) /\ Saved(u, content, Idle) /\ UNCHANGED recreated
    BY <1>3 DEF CreateContact
  <2> QED
    BY <1>1, <1>2, <2>1, IdleIsOperation, SavedInv
<1>4. CASE flag # "IS_ONLINE"
  <2>1. /\ rows' = e_cache_put(rows, u, Contact(content, NoEtag), flag)
        /\ Room(rows') /\ extra' = extra \ {u}
        /\ recreated' = IF rows[u] = NoRow THEN recreated ELSE recreated \cup {u}
        /\ UNCHANGED <<sync_tag, serverVars, op>>
    BY <1>4 DEF CreateContact
  <2>2. NoEtag \in Stamps /\ NoEtag = 0
    BY MaxChangesAssumption DEF NoEtag, Stamps
  <2>3. /\ rows' \in Tables /\ rows'[u].object.etag = 0
        /\ \A v \in Uids \ {u} : rows'[v] = rows[v]
    BY <1>2, <2>1, <2>2, PutRows, ContactParts DEF TypeOK
  <2>4. \A v \in Uids : rows'[v].state # "UNKNOWN" => rows'[v].object.etag <= ctag
    BY <1>2, <2>3, EtagKnown
  <2>5. recreated' \in SUBSET Uids /\ extra' \in SUBSET Uids
    BY <1>2, <2>1 DEF TypeOK
  <2> QED
    BY <1>1, <2>1, <2>3, <2>4, <2>5, RoomInv
<1> QED
  BY <1>3, <1>4

\* A client modifies a contact; it may send an ETag it got long ago.
LEMMA ModifyInv ==
    ASSUME IInv, NEW u \in Uids, NEW content \in Contents, NEW etag \in Stamps,
           NEW flag \in OfflineFlags, NEW conflict \in Conflicts,
           ModifyContact(u, content, etag, flag, conflict)
    PROVE  IInv'
<1>1. /\ op = Idle /\ IsVisible(u) /\ UNCHANGED <<kind, recreated>>
      /\ etag = rows[u].object.etag \/ (StaleClients /\ etag < ctag)
  BY DEF ModifyContact
<1>2. TypeOK /\ NumbersInv /\ ctag \in Nat /\ 1 <= ctag /\ etag \in Nat
  BY MaxChangesAssumption DEF IInv, TypeOK, Stamps, NumbersInv
<1>3. rows[u].state # "UNKNOWN"
  BY <1>1 DEF IsVisible, e_cache_contains
<1>4. etag <= ctag
  BY <1>1, <1>2, <1>3, EtagKnown
<1>5. CASE Room(rows) /\ Saved(u, content, Idle)
  BY <1>1, <1>2, <1>5, IdleIsOperation, SavedInv
<1>6. CASE /\ rows' = e_cache_put(rows, u, Contact(content, etag), flag)
           /\ Room(rows') /\ UNCHANGED <<extra, sync_tag, serverVars, op>>
  <2>1. /\ rows' \in Tables /\ rows'[u].object.etag = etag
        /\ \A v \in Uids \ {u} : rows'[v] = rows[v]
    BY <1>2, <1>6, PutRows, ContactParts DEF TypeOK
  <2>2. \A v \in Uids : rows'[v].state # "UNKNOWN" => rows'[v].object.etag <= ctag
    BY <1>2, <1>4, <2>1, EtagKnown
  <2>3. recreated' \in SUBSET Uids /\ extra' \in SUBSET Uids
    BY <1>1, <1>2, <1>6 DEF TypeOK
  <2> QED
    BY <1>1, <1>6, <2>1, <2>2, <2>3, RoomInv
<1> QED
  BY <1>5, <1>6 DEF ModifyContact

\* A client removes a contact; the answer of the server may get lost.
LEMMA RemoveInv ==
    ASSUME IInv, NEW u \in Uids, NEW flag \in OfflineFlags, NEW conflict \in Conflicts,
           RemoveContact(u, flag, conflict)
    PROVE  IInv'
<1>1. /\ op = Idle /\ IsVisible(u) /\ UNCHANGED <<op, kind, recreated>>
      /\ UNCHANGED serverVars \/ ServerChange(u, None)
      /\ \/ RemoveFromCache(u, flag) /\ Room(rows')
         \/ Room(rows) /\ UNCHANGED cacheVars
  BY DEF RemoveContact
<1>2. TypeOK /\ rows \in Tables /\ extra \in SUBSET Uids /\ recreated' \in SUBSET Uids
  BY <1>1 DEF IInv, TypeOK
<1>3. rows[u].state # "UNKNOWN"
  BY <1>1 DEF IsVisible, e_cache_contains
<1>4. CASE RemoveFromCache(u, flag) /\ Room(rows')
  <2>1. /\ rows' \in Tables /\ extra' \in SUBSET Uids /\ sync_tag' = sync_tag
        /\ rows'[u] = NoRow \/ rows'[u].object = rows[u].object
        /\ \A v \in Uids \ {u} : rows'[v] = rows[v]
    BY <1>1, <1>2, <1>4, Removes
  <2>2. \A v \in Uids : rows'[v].state # "UNKNOWN" => rows'[v].object.etag <= ctag
    BY <1>3, <2>1, EtagKnown DEF NoRow, Row
  <2> QED
    BY <1>1, <1>2, <1>4, <2>1, <2>2, RoomInv
<1>5. CASE Room(rows) /\ UNCHANGED cacheVars
  <2>1. rows' = rows /\ extra' = extra /\ sync_tag' = sync_tag
    BY <1>5 DEF cacheVars
  <2>2. Room(rows')
    BY <1>5, <2>1
  <2>3. \A v \in Uids : rows'[v].state # "UNKNOWN" => rows'[v].object.etag <= ctag
    BY <2>1, EtagKnown
  <2> QED
    BY <1>1, <1>2, <2>1, <2>2, <2>3, RoomInv
<1> QED
  BY <1>1, <1>4, <1>5

\* Another client changes the server.
LEMMA OtherClientInv ==
    ASSUME IInv, NEW u \in Uids, OtherClient(u)
    PROVE  IInv'
<1>1. /\ Room(rows) /\ UNCHANGED <<cacheVars, op, kind, recreated>>
      /\ \E w \in Uids, content \in Contents \cup {None} : ServerChange(w, content)
  BY DEF OtherClient
<1>2. rows' = rows /\ extra' = extra /\ sync_tag' = sync_tag
  BY <1>1 DEF cacheVars
<1>3. Room(rows')
  BY <1>1, <1>2
<1>4. \A v \in Uids : rows'[v].state # "UNKNOWN" => rows'[v].object.etag <= ctag
  BY <1>2, EtagKnown
<1>5. rows' \in Tables /\ extra' \in SUBSET Uids /\ recreated' \in SUBSET Uids
  BY <1>1, <1>2 DEF IInv, TypeOK
<1> QED
  BY <1>1, <1>2, <1>3, <1>4, <1>5, RoomInv

\* A contact is loaded from the server, by a get or after a save.
LEMMA LoadedInv ==
    ASSUME IInv, NEW u \in Uids, OnServer(u), PutLoaded(u, server[u].content, server[u].stamp),
           UNCHANGED <<serverVars, kind, recreated>>, op' \in Operations, op'.tag <= ctag,
           op'.pc \in {"idle", "upload"},
           \A v \in op'.todo : v # u /\ rows[v].state \in OfflineChangeStates
    PROVE  IInv'
<1>1. TypeOK /\ NumbersInv /\ rows \in Tables
  BY DEF IInv, TypeOK
<1>2. server[u].content \in Contents /\ server[u].stamp \in Stamps
  BY <1>1, Parts
<1>3. /\ rows' \in Tables /\ rows'[u].state = "SYNCED" /\ rows'[u].object.etag = server[u].stamp
      /\ \A v \in Uids \ {u} : rows'[v] = rows[v]
      /\ extra' = extra \cup {u} /\ extra' \in SUBSET Uids /\ sync_tag' = sync_tag
  BY <1>1, <1>2, Loads
<1>4. /\ UNCHANGED <<server, ctag, kind>> /\ recreated' \in SUBSET Uids
      /\ sync_tag' \in Stamps /\ sync_tag' <= ctag
  BY <1>1, <1>3 DEF serverVars, TypeOK, NumbersInv
<1>5. ASSUME NEW v \in Uids, UploadOK(v)' PROVE UploadOK(v)
  <2>1. v # u
    BY <1>3, <1>5 DEF UploadOK
  <2>2. rows'[v] = rows[v] /\ (v \in extra' <=> v \in extra) /\ server' = server
    BY <1>3, <1>4, <2>1
  <2> QED
    BY <1>5, <2>2 DEF UploadOK, OnServer, Precondition
<1>6. \A v \in Uids : rows'[v].state # "UNKNOWN" => rows'[v].object.etag <= ctag
  BY <1>1, <1>3, EtagKnown DEF NumbersInv
<1>7. TypeOK' /\ NumbersInv'
  BY <1>1, <1>3, <1>4, <1>5, <1>6, QuietStep
<1>8. ProgressInv'
  <2>1. op'.todo \subseteq Uids
    BY DEF Operations
  <2> QED
    BY <1>3, <2>1 DEF ProgressInv
<1> QED
  BY <1>7, <1>8 DEF IInv

\* A client gets a contact which the cache does not show.
LEMMA GetInv ==
    ASSUME IInv, NEW u \in Uids, GetContact(u)
    PROVE  IInv'
<1>1. /\ op = Idle /\ OnServer(u) /\ PutLoaded(u, server[u].content, server[u].stamp)
      /\ UNCHANGED <<serverVars, op, kind, recreated>>
  BY DEF GetContact
<1>2. op' \in Operations /\ op'.tag <= ctag /\ op'.pc = "idle" /\ op'.todo = {}
  BY <1>1, IdleIsOperation, MaxChangesAssumption DEF IInv, NumbersInv
<1> QED
  BY <1>1, <1>2, LoadedInv

\* The cache and the server stay as they are, and the refresh goes on.
LEMMA SteadyInv ==
    ASSUME IInv, UNCHANGED <<cacheVars, serverVars, kind, recreated>>, op' \in Operations,
           op'.tag <= ctag, op'.pc # "load",
           op'.pc = "upload" => \A u \in op'.todo : rows[u].state \in OfflineChangeStates,
           op'.pc \in {"changes", "list", "multiget"} => op.pc \in {"changes", "list", "multiget"},
           op'.pc \in {"list", "multiget"} => sync_tag <= op'.tag
    PROVE  IInv'
<1>1. TypeOK /\ NumbersInv /\ ProgressInv
  BY DEF IInv
<1>2. /\ rows' = rows /\ extra' = extra /\ sync_tag' = sync_tag
      /\ UNCHANGED <<server, ctag, kind>> /\ recreated' = recreated
  BY DEF cacheVars, serverVars
<1>3. \A u \in Uids : UploadOK(u)' => UploadOK(u)
  BY <1>2 DEF UploadOK, OnServer, Precondition
<1>4. \A u \in Uids : rows'[u].state # "UNKNOWN" => rows'[u].object.etag <= ctag
  BY <1>2, EtagKnown
<1>5. /\ rows' \in Tables /\ extra' \in SUBSET Uids /\ recreated' \in SUBSET Uids
      /\ sync_tag' \in Stamps /\ sync_tag' <= ctag
  BY <1>1, <1>2 DEF TypeOK, NumbersInv
<1>6. TypeOK' /\ NumbersInv'
  BY <1>1, <1>2, <1>3, <1>4, <1>5, QuietStep
<1>7. ProgressInv'
  BY <1>1, <1>2 DEF ProgressInv
<1> QED
  BY <1>6, <1>7 DEF IInv

\* Ending the operation early.
LEMMA GiveUpInv ==
    ASSUME IInv, UNCHANGED <<cacheVars, serverVars, kind, recreated>>, op' = Idle
    PROVE  IInv'
<1>1. 0 <= ctag
  BY MaxChangesAssumption DEF IInv, TypeOK, Stamps
<1> QED
  BY <1>1, IdleIsOperation, SteadyInv

\* The request which loads back a saved contact.
LEMMA LoadInv ==
    ASSUME IInv, LoadContact
    PROVE  IInv'
<1>1. /\ op.pc = "load" /\ UNCHANGED <<serverVars, kind, recreated>> /\ op \in Operations
      /\ op.uid \in Uids \ op.todo /\ op.tag <= ctag
      /\ \A v \in op.todo : rows[v].state \in OfflineChangeStates
  BY DEF LoadContact, IInv, TypeOK, Operations, ProgressInv, NumbersInv
<1>2. CASE OnServer(op.uid)
  <2>1. /\ PutLoaded(op.uid, server[op.uid].content, server[op.uid].stamp)
        /\ op' = [op EXCEPT !.pc = op.then, !.uid = None, !.then = "idle"]
    BY <1>2 DEF LoadContact
  <2>2. op' \in Operations /\ op'.tag = op.tag /\ op'.pc \in {"idle", "upload"} /\ op'.todo = op.todo
    BY <1>1, <2>1 DEF Operations
  <2> QED
    BY <1>1, <1>2, <2>1, <2>2, LoadedInv
<1>3. CASE ~OnServer(op.uid)
  BY <1>1, <1>3, GiveUpInv DEF LoadContact
<1> QED
  BY <1>2, <1>3

\* A request fails or the process dies.
LEMMA AbortInv ==
    ASSUME IInv, Abort
    PROVE  IInv'
BY GiveUpInv DEF Abort

\* A refresh starts.
LEMMA StartInv ==
    ASSUME IInv, StartRefresh
    PROVE  IInv'
<1>1. /\ op' = [Idle EXCEPT !.pc = "upload", !.todo = ChangedUids(rows)]
      /\ UNCHANGED <<cacheVars, serverVars, kind, recreated>>
  BY DEF StartRefresh
<1>2. /\ ChangedUids(rows) \in SUBSET Uids
      /\ \A v \in ChangedUids(rows) : rows[v].state \in OfflineChangeStates
  BY ChangedAre DEF IInv, TypeOK
<1>3. op' \in Operations /\ op'.pc = "upload" /\ op'.tag = 0 /\ op'.todo = ChangedUids(rows)
  BY <1>1, <1>2, IdleIsOperation DEF Operations
<1>4. op'.tag <= ctag
  BY <1>3, MaxChangesAssumption DEF IInv, TypeOK, Stamps
<1> QED
  BY <1>1, <1>2, <1>3, <1>4, SteadyInv

\* What comes of the upload of one change.
LEMMA Uploads ==
    ASSUME IInv, NEW u \in Uids, UploadChange(u), NEW done, done = [op EXCEPT !.todo = @ \ {u}]
    PROVE  /\ op.pc = "upload" /\ u \in op.todo /\ UNCHANGED <<kind, recreated>>
           /\ done \in Operations /\ done.pc = "upload" /\ done.todo = op.todo \ {u} /\ done.tag = op.tag
           /\ rows[u].state \in OfflineChangeStates
           /\ \/ /\ UploadOK(u) /\ rows[u].state # "LOCALLY_DELETED"
                 /\ Saved(u, rows[u].object.content, done)
              \/ /\ UploadOK(u) /\ rows[u].state = "LOCALLY_DELETED"
                 /\ ServerChange(u, None) /\ UNCHANGED cacheVars /\ op' \in {done, Idle}
              \/ /\ rows[u].state = "LOCALLY_MODIFIED" /\ u \notin extra
                 /\ RemoveFromCache(u, "IS_ONLINE") /\ op' = done /\ UNCHANGED serverVars
              \/ /\ ~UploadOK(u) /\ rows[u].state # "LOCALLY_CREATED"
                 /\ op' = done /\ UNCHANGED <<cacheVars, serverVars>>
              \/ op' = Idle /\ UNCHANGED <<cacheVars, serverVars>>
<1> DEFINE state == rows[u].state
<1>0. PICK result :
        result = IF state = "LOCALLY_DELETED" THEN remove_contact_sync(u, UploadConflict)
                 ELSE save_contact_sync(u, rows[u].object.etag, state = "LOCALLY_MODIFIED", UploadConflict)
  OBVIOUS
<1>1. op.pc = "upload" /\ u \in op.todo /\ UNCHANGED <<kind, recreated>>
  BY DEF UploadChange
<1>2. op \in Operations /\ state \in OfflineChangeStates
  BY <1>1 DEF IInv, TypeOK, Operations, ProgressInv
<1>3. done \in Operations /\ done.pc = "upload" /\ done.todo = op.todo \ {u} /\ done.tag = op.tag
  BY <1>1, <1>2 DEF Operations
<1>4. state = "LOCALLY_CREATED" => /\ result \in {"OK", "OUT_OF_SYNC"}
                                   /\ result = "OK" => UploadOK(u)
  BY <1>0 DEF save_contact_sync, UploadOK, Precondition, UploadConflict, NoEtag
<1>5. state = "LOCALLY_MODIFIED" => /\ result \in {"OK", "INVALID_ARG", "PRETENDED"}
                                    /\ result = "OK" => UploadOK(u)
                                    /\ result = "INVALID_ARG" => u \notin extra
                                    /\ result = "PRETENDED" => ~UploadOK(u)
  BY <1>0 DEF save_contact_sync, UploadOK, UploadConflict
<1>6. state = "LOCALLY_DELETED" => /\ result \in {"OK", "INVALID_ARG", "NOT_FOUND"}
                                   /\ result = "OK" => UploadOK(u)
                                   /\ result # "OK" => ~UploadOK(u)
  BY <1>0 DEF remove_contact_sync, UploadOK, UploadConflict
<1>7. \/ /\ result = "OK" /\ state # "LOCALLY_DELETED"
         /\ Saved(u, rows[u].object.content, done)
      \/ /\ result = "OK" /\ state = "LOCALLY_DELETED"
         /\ ServerChange(u, None)
         /\ op' = done \/ (~reliable /\ op' = Idle)
         /\ UNCHANGED cacheVars
      \/ /\ result = "INVALID_ARG" /\ state # "LOCALLY_DELETED"
         /\ RemoveFromCache(u, "IS_ONLINE")
         /\ op' = done
         /\ UNCHANGED serverVars
      \/ /\ \/ result \in {"PRETENDED", "NOT_FOUND"}
            \/ result = "INVALID_ARG" /\ state = "LOCALLY_DELETED"
         /\ op' = done
         /\ UNCHANGED <<cacheVars, serverVars>>
      \/ /\ result = "OUT_OF_SYNC"
         /\ op' = Idle
         /\ UNCHANGED <<cacheVars, serverVars>>
  BY <1>0 DEF UploadChange
<1>8. state \in {"LOCALLY_CREATED", "LOCALLY_MODIFIED", "LOCALLY_DELETED"}
  BY <1>2 DEF OfflineChangeStates
<1>9. CASE state = "LOCALLY_CREATED"
  BY <1>1, <1>2, <1>3, <1>4, <1>7, <1>9
<1>10. CASE state = "LOCALLY_MODIFIED"
  BY <1>1, <1>2, <1>3, <1>5, <1>7, <1>10
<1>11. CASE state = "LOCALLY_DELETED"
  BY <1>1, <1>2, <1>3, <1>6, <1>7, <1>11
<1> QED
  BY <1>8, <1>9, <1>10, <1>11

\* The upload of one change.
LEMMA UploadInv ==
    ASSUME IInv, NEW u \in Uids, UploadChange(u)
    PROVE  IInv'
<1> DEFINE done == [op EXCEPT !.todo = @ \ {u}]
<1>1. /\ op.pc = "upload" /\ u \in op.todo /\ UNCHANGED <<kind, recreated>>
      /\ done \in Operations /\ done.pc = "upload" /\ done.todo = op.todo \ {u} /\ done.tag = op.tag
      /\ rows[u].state \in OfflineChangeStates
  BY Uploads
<1>2. /\ TypeOK /\ NumbersInv /\ rows \in Tables /\ extra \in SUBSET Uids /\ ctag \in Nat
      /\ done.tag <= ctag /\ op.todo \subseteq Uids
      /\ \A v \in op.todo : rows[v].state \in OfflineChangeStates
  BY <1>1, MaxChangesAssumption DEF IInv, TypeOK, NumbersInv, ProgressInv, Stamps
<1>3. rows[u].state # "UNKNOWN"
  BY <1>1 DEF OfflineChangeStates
<1>4. CASE /\ UploadOK(u) /\ rows[u].state # "LOCALLY_DELETED"
           /\ Saved(u, rows[u].object.content, done)
  <2>1. rows[u].object.content \in Contents
    BY <1>2, <1>3, RowOrNone
  <2>2. \A v \in done.todo : v # u /\ rows[v].state \in OfflineChangeStates
    BY <1>1, <1>2
  <2> HIDE DEF done
  <2> QED
    BY <1>1, <1>2, <1>4, <2>1, <2>2, SavedInv
<1>5. CASE /\ UploadOK(u) /\ rows[u].state = "LOCALLY_DELETED"
           /\ ServerChange(u, None) /\ UNCHANGED cacheVars /\ op' \in {done, Idle}
  <2>1. rows' = rows /\ extra' = extra /\ sync_tag' = sync_tag
    BY <1>5 DEF cacheVars
  <2>2. ctag' = ctag + 1 /\ ~OnServer(u)' /\ \A v \in Uids \ {u} : server'[v] = server[v]
    BY <1>2, <1>5, ServerChanges
  <2>3. ~UploadOK(u)'
    BY <1>5, <2>1, <2>2 DEF UploadOK
  <2>4. \A v \in Uids : v # u /\ UploadOK(v)' => UploadOK(v)
    BY <2>1, <2>2 DEF UploadOK, OnServer, Precondition
  <2>5. op' \in Operations /\ op'.tag <= ctag
    <3> HIDE DEF done
    <3> QED
      BY <1>1, <1>2, <1>5, IdleIsOperation
  <2>6. \A v \in Uids : rows'[v].state # "UNKNOWN" => rows'[v].object.etag <= ctag'
    BY <1>2, <2>1, <2>2, EtagKnown
  <2>7. TypeOK' /\ NumbersInv'
    <3>1. recreated' \in SUBSET Uids /\ None \in Contents \cup {None} /\ UNCHANGED kind
      BY <1>1, <1>2 DEF TypeOK
    <3> HIDE DEF done
    <3> QED
      BY <1>2, <1>5, <2>1, <2>3, <2>4, <2>5, <2>6, <3>1, UploadStep
  <2>8. ProgressInv'
    <3> HIDE DEF done
    <3> QED
      BY <1>1, <1>2, <1>5, <2>1, IdleIsOperation DEF ProgressInv
  <2> QED
    BY <2>7, <2>8 DEF IInv
<1>6. CASE /\ rows[u].state = "LOCALLY_MODIFIED" /\ u \notin extra
           /\ RemoveFromCache(u, "IS_ONLINE") /\ op' = done /\ UNCHANGED serverVars
  <2>1. IsVisible(u) /\ RemovesRow(rows, u, "IS_ONLINE")
    BY <1>6 DEF IsVisible, e_cache_contains, RemovesRow
  <2>2. /\ rows' \in Tables /\ rows'[u] = NoRow /\ extra' \in SUBSET Uids /\ extra' \subseteq extra
        /\ \A v \in Uids \ {u} : rows'[v] = rows[v] /\ sync_tag' = sync_tag
        /\ sync_tag' = sync_tag
    BY <1>2, <1>6, <2>1, Removes DEF OfflineFlags
  <2>3. server' = server /\ ctag' = ctag /\ UNCHANGED <<server, ctag, kind>>
    BY <1>1, <1>6 DEF serverVars
  <2>4. rows'[u].state = "UNKNOWN"
    BY <2>2 DEF NoRow, Row
  <2>5. ASSUME NEW v \in Uids, UploadOK(v)' PROVE UploadOK(v)
    <3>1. v # u
      BY <2>4, <2>5 DEF UploadOK
    <3> QED
      BY <2>2, <2>3, <2>5, <3>1 DEF UploadOK, OnServer, Precondition
  <2>6. \A v \in Uids : rows'[v].state # "UNKNOWN" => rows'[v].object.etag <= ctag
    BY <2>2, <2>4, EtagKnown
  <2>7. recreated' \in SUBSET Uids /\ sync_tag' \in Stamps /\ sync_tag' <= ctag
    BY <1>1, <1>2, <2>2 DEF TypeOK, NumbersInv
  <2> HIDE DEF done
  <2>8. TypeOK' /\ NumbersInv'
    BY <1>1, <1>2, <1>6, <2>2, <2>3, <2>5, <2>6, <2>7, QuietStep
  <2>9. ProgressInv'
    BY <1>1, <1>2, <1>6, <2>2 DEF ProgressInv
  <2> QED
    BY <2>8, <2>9 DEF IInv
<1>7. CASE op' = done /\ UNCHANGED <<cacheVars, serverVars>>
  <2> HIDE DEF done
  <2> QED
    BY <1>1, <1>2, <1>7, SteadyInv
<1>8. CASE op' = Idle /\ UNCHANGED <<cacheVars, serverVars>>
  BY <1>1, <1>8, GiveUpInv
<1> QED
  BY <1>4, <1>5, <1>6, <1>7, <1>8, Uploads

\* The offline changes are forgotten.
LEMMA ClearInv ==
    ASSUME IInv, ClearOfflineChanges
    PROVE  IInv'
<1>1. /\ op.pc = "upload" /\ op.todo = {} /\ rows' = e_cache_clear_offline_changes(rows)
      /\ extra' = {u \in extra : rows'[u] # NoRow} /\ op' = [op EXCEPT !.pc = "changes"]
      /\ UNCHANGED <<sync_tag, serverVars, kind, recreated>>
  BY DEF ClearOfflineChanges
<1>2. TypeOK /\ NumbersInv /\ rows \in Tables /\ extra \in SUBSET Uids /\ op \in Operations
  BY DEF IInv, TypeOK, Operations
<1>3. /\ rows' \in Tables
      /\ \A v \in Uids : IF rows[v].state \in {"UNKNOWN", "LOCALLY_DELETED"} THEN rows'[v] = NoRow
                         ELSE rows'[v].state = "SYNCED" /\ rows'[v].object = rows[v].object
  BY <1>1, <1>2, ClearRows
<1>4. op' \in Operations /\ op'.pc = "changes" /\ op'.tag = op.tag
  BY <1>1, <1>2 DEF Operations
<1>5. \A v \in Uids : rows'[v].state \notin OfflineChangeStates
  BY <1>3 DEF NoRow, Row, OfflineChangeStates
<1>6. \A v \in Uids : ~UploadOK(v)'
  BY <1>5 DEF UploadOK, OfflineChangeStates
<1>7. \A v \in Uids : rows'[v].state # "UNKNOWN" => rows'[v].object.etag <= ctag
  BY <1>3, EtagKnown DEF NoRow, Row
<1>8. /\ UNCHANGED <<server, ctag, kind>> /\ recreated' \in SUBSET Uids /\ extra' \in SUBSET Uids
      /\ sync_tag' \in Stamps /\ sync_tag' <= ctag /\ op'.tag <= ctag
  BY <1>1, <1>2, <1>4 DEF serverVars, TypeOK, NumbersInv
<1>9. TypeOK' /\ NumbersInv'
  BY <1>2, <1>3, <1>4, <1>6, <1>7, <1>8, QuietStep
<1>10. ProgressInv'
  BY <1>4, <1>5 DEF ProgressInv
<1> QED
  BY <1>9, <1>10 DEF IInv

\* What is listed: the tag, and which contacts are gone and which are wanted.
LEMMA Lists ==
    ASSUME IInv, NEW known \in SUBSET Uids, NEW consider_removed \in BOOLEAN, NEW gone,
           NEW tag \in Stamps, Listed(known, consider_removed, gone, tag)
    PROVE  /\ op' \in Operations /\ op'.pc = "multiget" /\ op'.tag = tag
           /\ op'.removed = Compare(known, consider_removed, gone).removed
           /\ op'.wanted = Compare(known, consider_removed, gone).wanted
<1> DEFINE changes == Compare(known, consider_removed, gone)
<1>1. op' = [op EXCEPT !.pc = "multiget", !.tag = tag, !.removed = changes.removed,
                       !.wanted = changes.wanted]
  BY DEF Listed
<1>2. changes.removed \in SUBSET Uids /\ changes.wanted \in SUBSET Uids
  BY DEF Compare
<1>3. op \in Operations
  BY DEF IInv, TypeOK, Operations
<1> HIDE DEF changes
<1>4. /\ op' \in Operations /\ op'.pc = "multiget" /\ op'.tag = tag
      /\ op'.removed = changes.removed /\ op'.wanted = changes.wanted
  BY <1>1, <1>2, <1>3 DEF Operations
<1> QED
  BY <1>4 DEF changes

\* The sync-collection report.
LEMMA SyncCollectionInv ==
    ASSUME IInv, SyncCollection
    PROVE  IInv'
<1>1. /\ op.pc = "changes" /\ UNCHANGED <<cacheVars, serverVars, kind, recreated>>
      /\ \E known \in SUBSET Uids, whole \in BOOLEAN : \E gone : Listed(known, whole, gone, ctag)
  <2>1. PICK token \in {sync_tag, 0} :
           Listed({u \in {w \in Uids : server[w].stamp > token} : OnServer(u)}, token = 0,
                  {u \in {w \in Uids : server[w].stamp > token} : ~OnServer(u)}, ctag)
    BY DEF SyncCollection
  <2>2. PICK known, whole, gone :
           /\ known = {u \in {w \in Uids : server[w].stamp > token} : OnServer(u)}
           /\ whole = (token = 0)
           /\ gone = {u \in {w \in Uids : server[w].stamp > token} : ~OnServer(u)}
    OBVIOUS
  <2>3. known \in SUBSET Uids /\ whole \in BOOLEAN /\ Listed(known, whole, gone, ctag)
    BY <2>1, <2>2
  <2> QED
    BY <2>3 DEF SyncCollection
<1>2. ctag \in Stamps /\ ctag \in Nat /\ sync_tag <= ctag
  BY MaxChangesAssumption DEF IInv, TypeOK, Stamps, NumbersInv
<1>3. op' \in Operations /\ op'.pc = "multiget" /\ op'.tag = ctag
  BY <1>1, <1>2, Lists
<1> QED
  BY <1>1, <1>2, <1>3, SteadyInv

\* The CTag is read.
LEMMA GetCTagInv ==
    ASSUME IInv, GetCTag
    PROVE  IInv'
<1>1. /\ op.pc = "changes" /\ UNCHANGED <<cacheVars, serverVars, kind, recreated>>
      /\ op' = Idle \/ op' = [op EXCEPT !.pc = "list", !.tag = ctag]
  BY DEF GetCTag
<1>2. ctag \in Stamps /\ ctag \in Nat /\ sync_tag <= ctag /\ op \in Operations
  BY MaxChangesAssumption DEF IInv, TypeOK, Stamps, NumbersInv, Operations
<1>3. CASE op' = Idle
  BY <1>1, <1>3, GiveUpInv
<1>4. CASE op' = [op EXCEPT !.pc = "list", !.tag = ctag]
  <2>1. op' \in Operations /\ op'.pc = "list" /\ op'.tag = ctag
    BY <1>2, <1>4 DEF Operations
  <2> QED
    BY <1>1, <1>2, <2>1, SteadyInv
<1> QED
  BY <1>1, <1>3, <1>4

\* All contacts are listed.
LEMMA ListContactsInv ==
    ASSUME IInv, ListContacts
    PROVE  IInv'
<1>1. /\ op.pc = "list" /\ UNCHANGED <<cacheVars, serverVars, kind, recreated>>
      /\ Listed({u \in Uids : OnServer(u)}, TRUE, {}, op.tag)
  BY DEF ListContacts
<1>2. op.tag \in Stamps /\ op.tag <= ctag /\ sync_tag <= op.tag
  BY <1>1 DEF IInv, TypeOK, NumbersInv, ProgressInv
<1>3. op' \in Operations /\ op'.pc = "multiget" /\ op'.tag = op.tag
  BY <1>1, <1>2, Lists
<1> QED
  BY <1>1, <1>2, <1>3, SteadyInv

\* The changes, or some of them, are stored; the sync tag may be, too.
LEMMA ProcessedInv ==
    ASSUME IInv, op.pc = "multiget", NEW removed \in SUBSET Uids, NEW wanted \in SUBSET Uids,
           Processed(removed, wanted), sync_tag' = op.tag \/ sync_tag' = sync_tag, op' = Idle,
           UNCHANGED <<serverVars, kind, recreated>>
    PROVE  IInv'
<1>1. TypeOK /\ NumbersInv /\ \A u \in Uids : rows[u].state \notin OfflineChangeStates
  BY DEF IInv, ProgressInv
<1>2. rows' \in Tables /\ extra' \in SUBSET Uids
  BY <1>1, Processes
<1>3. ASSUME NEW u \in Uids
      PROVE  /\ rows'[u].state \notin OfflineChangeStates
             /\ rows'[u].state # "UNKNOWN" => rows'[u].object.etag <= ctag
  <2>1. \/ rows'[u].state = "SYNCED" /\ rows'[u].object.etag = server[u].stamp
        \/ rows'[u] = NoRow
        \/ rows'[u] = rows[u]
    BY <1>1, Processes
  <2>2. server[u].stamp <= ctag
    BY <1>1 DEF NumbersInv
  <2> QED
    BY <1>1, <2>1, <2>2, EtagKnown DEF NoRow, Row, OfflineChangeStates
<1>4. \A u \in Uids : ~UploadOK(u)'
  BY <1>3 DEF UploadOK, OfflineChangeStates
<1>5. /\ UNCHANGED <<server, ctag, kind>> /\ recreated' \in SUBSET Uids
      /\ sync_tag' \in Stamps /\ sync_tag' <= ctag
  BY <1>1 DEF serverVars, TypeOK, NumbersInv
<1>6. op' \in Operations /\ op'.tag <= ctag
  BY <1>1, IdleIsOperation, MaxChangesAssumption DEF TypeOK, Stamps
<1>7. TypeOK' /\ NumbersInv'
  BY <1>1, <1>2, <1>3, <1>4, <1>5, <1>6, QuietStep
<1>8. ProgressInv'
  BY IdleIsOperation DEF ProgressInv
<1> QED
  BY <1>7, <1>8 DEF IInv

\* Both ways to store the changes process what was listed, or a part of it.
LEMMA Storing ==
    ASSUME IInv, ProcessChanges \/ ProcessPartly
    PROVE  /\ op.pc = "multiget" /\ op' = Idle /\ UNCHANGED <<serverVars, kind, recreated>>
           /\ \E removed \in SUBSET op.removed, wanted \in SUBSET op.wanted :
                 /\ removed \in SUBSET Uids /\ wanted \in SUBSET Uids
                 /\ Processed(removed, wanted)
                 /\ \/ sync_tag' = op.tag /\ removed = op.removed /\ wanted = op.wanted
                    \/ sync_tag' = sync_tag
<1>1. op.removed \in SUBSET Uids /\ op.wanted \in SUBSET Uids
  BY DEF IInv, TypeOK
<1>2. CASE ProcessChanges
  BY <1>1, <1>2 DEF ProcessChanges
<1>3. CASE ProcessPartly
  <2>1. /\ op.pc = "multiget" /\ op' = Idle /\ UNCHANGED <<serverVars, kind, recreated>>
        /\ sync_tag' = sync_tag
    BY <1>3 DEF ProcessPartly
  <2>2. PICK removed \in SUBSET op.removed, wanted \in SUBSET op.wanted : Processed(removed, wanted)
    BY <1>3 DEF ProcessPartly
  <2> QED
    BY <1>1, <2>1, <2>2
<1> QED
  BY <1>2, <1>3

\* Every step keeps the invariant.
LEMMA StepInv == IInv /\ [Next]_vars => IInv'
<1> SUFFICES ASSUME IInv, [Next]_vars PROVE IInv'
  OBVIOUS
<1>1. ASSUME NEW u \in Uids, NEW flag \in OfflineFlags, NEW content \in Contents, CreateContact(u, content, flag)
      PROVE  IInv'
  BY <1>1, CreateInv
<1>2. ASSUME NEW u \in Uids, NEW flag \in OfflineFlags, NEW content \in Contents, NEW etag \in Stamps,
             NEW conflict \in Conflicts, ModifyContact(u, content, etag, flag, conflict)
      PROVE  IInv'
  BY <1>2, ModifyInv
<1>3. ASSUME NEW u \in Uids, NEW flag \in OfflineFlags, NEW conflict \in Conflicts, RemoveContact(u, flag, conflict)
      PROVE  IInv'
  BY <1>3, RemoveInv
<1>4. ASSUME NEW u \in Uids, GetContact(u) PROVE IInv'
  BY <1>4, GetInv
<1>5. CASE ClientNext
  BY <1>1, <1>2, <1>3, <1>4, <1>5 DEF ClientNext
<1>6. ASSUME NEW u \in Uids, UploadChange(u) PROVE IInv'
  BY <1>6, UploadInv
<1>7. ASSUME ProcessChanges \/ ProcessPartly PROVE IInv'
  <2>1. PICK removed \in SUBSET Uids, wanted \in SUBSET Uids :
               Processed(removed, wanted) /\ (sync_tag' = op.tag \/ sync_tag' = sync_tag)
    BY <1>7, Storing
  <2> QED
    BY <1>7, <2>1, Storing, ProcessedInv
<1>8. CASE RefreshNext
  BY <1>6, <1>7, <1>8, StartInv, ClearInv, SyncCollectionInv, GetCTagInv, ListContactsInv, LoadInv
     DEF RefreshNext
<1>9. ASSUME NEW u \in Uids, OtherClient(u) PROVE IInv'
  BY <1>9, OtherClientInv
<1>10. CASE UNCHANGED vars
  BY <1>10 DEF vars, cacheVars, serverVars, kind, IInv, TypeOK, NumbersInv, ProgressInv, Uploadable,
               UploadOK, OnServer, Precondition
<1> QED
  BY <1>5, <1>7, <1>8, <1>9, <1>10, AbortInv DEF Next

\* The invariant holds in every state.
LEMMA InvCorrect == Spec => []IInv
BY InitInv, StepInv, PTL DEF Spec

\* All variables keep their types, with every number within the bound: the room
\* which the operations leave for the uploads is enough, however often an upload
\* is repeated or its answer lost.
THEOREM TypeCorrect == Spec => []TypeOK
<1>1. IInv => TypeOK
  BY DEF IInv
<1> QED
  BY <1>1, InvCorrect, PTL

(* ---- FollowInv: what the cache has of one contact ---- *)

\* The contact is left alone.
LEMMA FrameCache ==
    ASSUME rows \in Tables, NEW v \in Uids, CacheInv(v), rows'[v] = rows[v], server'[v] = server[v],
           sync_tag' = sync_tag, rows'[v] # NoRow => (v \in extra' <=> v \in extra)
    PROVE  CacheInv(v)'
<1>1. rows[v].state # "UNKNOWN" => rows[v] # NoRow
  BY RowOrNone
<1>2. KnownInv(v)'
  BY <1>1 DEF CacheInv, KnownInv, News, OnServer
<1>3. SyncedInv(v)'
  BY DEF CacheInv, SyncedInv, Agree, News, OnServer
<1>4. CreatedInv(v)'
  BY <1>1 DEF CacheInv, CreatedInv, News, OnServer
<1> QED
  BY <1>2, <1>3, <1>4 DEF CacheInv

\* The server changes the contact, and the cache does not know of it.
LEMMA NewsCache ==
    ASSUME IInv, NEW v \in Uids, CacheInv(v), rows'[v] = rows[v], server'[v].stamp = ctag + 1,
           sync_tag' = sync_tag, v \in extra' <=> v \in extra
    PROVE  /\ CacheInv(v)' /\ News(v)' /\ server'[v].stamp > ctag
           /\ rows[v].state # "UNKNOWN" => server'[v].stamp # rows[v].object.etag
<1>1. ctag \in Nat /\ sync_tag \in Nat /\ sync_tag <= ctag
  BY Parts DEF IInv, NumbersInv
<1>2. News(v)' /\ server'[v].stamp > ctag
  BY <1>1 DEF News
<1>3. rows[v].state # "UNKNOWN" => server'[v].stamp # rows[v].object.etag
  BY <1>1, EtagKnown
<1>4. KnownInv(v)'
  BY <1>2, <1>3 DEF CacheInv, KnownInv
<1> QED
  BY <1>2, <1>3, <1>4 DEF CacheInv, SyncedInv, CreatedInv

\* The contact is in the cache as the server has it.
LEMMA AgreeCache ==
    ASSUME NEW v \in Uids, NEW content \in Contents, NEW stamp \in Stamps, 1 <= stamp,
           rows'[v] = Row("SYNCED", Contact(content, stamp)), v \in extra',
           server'[v].content = content, server'[v].stamp = stamp
    PROVE  CacheInv(v)'
<1>1. rows'[v].state = "SYNCED" /\ rows'[v].object.content = content /\ rows'[v].object.etag = stamp
  BY ContactParts DEF Row
<1>2. OnServer(v)'
  BY ContentsAssumption DEF OnServer
<1>3. Agree(v)'
  BY <1>2 DEF Agree
<1> QED
  BY <1>1, <1>2, <1>3 DEF CacheInv, KnownInv, SyncedInv, CreatedInv

\* The contact is not in the cache, and not on the server, or about to be loaded.
LEMMA GoneCache ==
    ASSUME NEW v \in Uids, rows'[v] = NoRow, ~OnServer(v)' \/ News(v)'
    PROVE  CacheInv(v)'
<1>1. rows'[v].state = "UNKNOWN"
  BY DEF NoRow, Row
<1> QED
  BY <1>1 DEF CacheInv, KnownInv, SyncedInv, CreatedInv, Agree

\* What the invariant says of a contact the cache shows: it was read from the
\* server, or created here.
LEMMA ShownCache ==
    ASSUME IInv, NEW v \in Uids, CacheInv(v), rows[v].state = "SYNCED"
    PROVE  /\ v \in extra /\ 1 <= rows[v].object.etag
           /\ (OnServer(v) /\ server[v].stamp = rows[v].object.etag) \/ News(v)
           /\ server[v].stamp = rows[v].object.etag => OnServer(v)
<1>1. SyncedInv(v) /\ KnownInv(v)
  BY DEF CacheInv
<1>2. Agree(v) \/ News(v)
  BY <1>1 DEF SyncedInv
<1>3. ASSUME Agree(v) PROVE OnServer(v) /\ server[v].stamp = rows[v].object.etag
  <2>1. rows[v] # NoRow
    BY DEF NoRow, Row
  <2>2. OnServer(v) /\ rows[v] = Row("SYNCED", Contact(server[v].content, server[v].stamp))
    BY <1>3, <2>1 DEF Agree
  <2> QED
    BY <2>2 DEF Row, Contact
<1> QED
  BY <1>1, <1>2, <1>3 DEF KnownInv

\* When no refresh is in progress nothing is claimed of one.
LEMMA NoRefresh ==
    ASSUME op'.pc \in {"idle", "changes", "list"} \/ (op'.pc = "load" /\ op'.then = "idle"), NEW v
    PROVE  UploadedInv(v)' /\ ListedInv(v)'
BY DEF UploadedInv, ListedInv

\* An operation that saves a contact.
LEMMA SavedCache ==
    ASSUME IInv, NEW u \in Uids, NEW content \in Contents, NEW after \in Operations,
           after.pc \in {"idle", "upload"}, ctag + 1 \in Stamps, Saved(u, content, after),
           NEW v \in Uids, CacheInv(v)
    PROVE  CacheInv(v)'
<1>0. TypeOK /\ rows \in Tables /\ ctag \in Nat /\ 1 <= ctag
  BY MaxChangesAssumption DEF IInv, TypeOK, Stamps, NumbersInv
<1>1. /\ ServerChange(u, content) /\ sync_tag' = sync_tag
      /\ \A w \in Uids \ {u} : rows'[w] = rows[w] /\ (w \in extra' <=> w \in extra)
      /\ \/ rows'[u] = Row("SYNCED", Contact(content, ctag + 1)) /\ u \in extra'
         \/ rows' = rows /\ extra' = extra
  BY <1>0, Saves
<1>2. /\ server'[u] = [content |-> content, stamp |-> ctag + 1]
      /\ \A w \in Uids \ {u} : server'[w] = server[w]
  BY <1>0, <1>1, ServerChanges
<1>3. CASE v # u
  BY <1>0, <1>1, <1>2, <1>3, FrameCache
<1>4. CASE v = u
  <2>1. server'[v].content = content /\ server'[v].stamp = ctag + 1
    BY <1>2, <1>4
  <2>2. CASE rows'[u] = Row("SYNCED", Contact(content, ctag + 1)) /\ u \in extra'
    <3>1. 1 <= ctag + 1
      BY <1>0
    <3> QED
      BY <1>4, <2>1, <2>2, <3>1, AgreeCache
  <2>3. CASE rows' = rows /\ extra' = extra
    BY <1>1, <1>4, <2>1, <2>3, NewsCache
  <2> QED
    BY <1>1, <2>2, <2>3
<1> QED
  BY <1>3, <1>4

\* Room for the uploads is room for one more change.
LEMMA RoomForOne ==
    ASSUME IInv, Room(rows)
    PROVE  ctag + 1 \in Stamps
<1>1. TypeOK /\ rows \in Tables /\ {} \subseteq ChangedUids(rows)
  BY DEF IInv, TypeOK
<1> QED
  BY <1>1, RoomFor

\* A client creates a contact; one which takes the place of a locally deleted
\* one is not followed any more.
LEMMA CreateFollow ==
    ASSUME IInv, FollowInv, NEW u \in Uids, NEW content \in Contents, NEW flag \in OfflineFlags,
           CreateContact(u, content, flag)
    PROVE  FollowInv'
<1>1. op = Idle /\ ~IsVisible(u) /\ TypeOK /\ rows \in Tables
  BY DEF CreateContact, IInv, TypeOK
<1>2. CASE flag = "IS_ONLINE"
  <2>1. Room(rows) /\ Saved(u, content, Idle) /\ UNCHANGED recreated
    BY <1>2 DEF CreateContact
  <2>2. ctag + 1 \in Stamps
    BY <2>1, RoomForOne
  <2>3. op' = Idle \/ (op'.pc = "load" /\ op'.then = "idle")
    BY <1>1, <2>1, <2>2, IdleIsOperation, Saves
  <2>4. ASSUME NEW v \in Followed PROVE UidInv(v)'
    <3>1. v \in Uids /\ CacheInv(v)
      BY DEF Followed, FollowInv, UidInv
    <3>2. CacheInv(v)'
      BY <2>1, <2>2, <3>1, IdleIsOperation, SavedCache
    <3> QED
      BY <2>3, <3>2, IdleIsOperation, NoRefresh DEF UidInv
  <2> QED
    BY <2>1, <2>4 DEF FollowInv, Followed
<1>3. CASE flag # "IS_ONLINE"
  <2>1. /\ rows' = e_cache_put(rows, u, Contact(content, NoEtag), flag) /\ extra' = extra \ {u}
        /\ recreated' = IF rows[u] = NoRow THEN recreated ELSE recreated \cup {u}
        /\ UNCHANGED <<sync_tag, serverVars, op>>
    BY <1>3 DEF CreateContact
  <2>2. Contact(content, NoEtag) \in Contacts /\ server' = server /\ sync_tag' = sync_tag /\ op' = Idle
    BY <1>1, <2>1, ContactParts, MaxChangesAssumption DEF NoEtag, Stamps, serverVars
  <2>3. /\ rows' \in Tables /\ rows'[u].state = PutState(rows, u, flag)
        /\ \A v \in Uids \ {u} : rows'[v] = rows[v]
    BY <1>1, <2>1, <2>2, PutRows
  <2>4. ASSUME NEW v \in Followed' PROVE UidInv(v)'
    <3>1. v \in Uids /\ v \in Followed /\ CacheInv(v) /\ (v = u => rows[u] = NoRow)
      BY <2>1 DEF Followed, FollowInv, UidInv
    <3>2. ASSUME v # u PROVE CacheInv(v)'
      BY <1>1, <2>1, <2>2, <2>3, <3>1, <3>2, FrameCache
    <3>3. ASSUME v = u PROVE CacheInv(v)'
      <4>1. rows[u].state = "UNKNOWN"
        BY <3>1, <3>3 DEF NoRow, Row
      <4>2. rows'[u].state = "LOCALLY_CREATED"
        BY <1>3, <2>3, <4>1 DEF PutState, e_cache_contains
      <4>3. ~OnServer(u) \/ News(u)
        BY <3>1, <3>3, <4>1 DEF CacheInv, SyncedInv, Agree, NoRow, Row
      <4>4. ~OnServer(u)' \/ News(u)'
        BY <2>2, <4>3 DEF OnServer, News
      <4> QED
        BY <2>1, <3>3, <4>2, <4>4 DEF CacheInv, KnownInv, SyncedInv, CreatedInv
    <3>4. CacheInv(v)'
      BY <3>2, <3>3
    <3> QED
      BY <2>2, <3>4, IdleIsOperation, NoRefresh DEF UidInv
  <2> QED
    BY <2>4 DEF FollowInv
<1> QED
  BY <1>2, <1>3

\* A client modifies a contact, with the ETag the cache has.
LEMMA ModifyFollow ==
    ASSUME IInv, FollowInv, ~StaleClients, NEW u \in Uids, NEW content \in Contents, NEW etag \in Stamps,
           NEW flag \in OfflineFlags, NEW conflict \in Conflicts,
           ModifyContact(u, content, etag, flag, conflict)
    PROVE  FollowInv'
<1>1. /\ op = Idle /\ IsVisible(u) /\ UNCHANGED recreated /\ etag = rows[u].object.etag
      /\ TypeOK /\ rows \in Tables
  BY DEF ModifyContact, IInv, TypeOK
<1>2. CASE Room(rows) /\ Saved(u, content, Idle)
  <2>1. ctag + 1 \in Stamps
    BY <1>2, RoomForOne
  <2>2. op' = Idle \/ (op'.pc = "load" /\ op'.then = "idle")
    BY <1>1, <1>2, <2>1, IdleIsOperation, Saves
  <2>3. ASSUME NEW v \in Followed PROVE UidInv(v)'
    <3>1. v \in Uids /\ CacheInv(v)
      BY DEF Followed, FollowInv, UidInv
    <3>2. CacheInv(v)'
      BY <1>2, <2>1, <3>1, IdleIsOperation, SavedCache
    <3> QED
      BY <2>2, <3>2, IdleIsOperation, NoRefresh DEF UidInv
  <2> QED
    BY <1>1, <2>3 DEF FollowInv, Followed
<1>3. CASE /\ flag = "IS_OFFLINE" \/ save_contact_sync(u, etag, TRUE, conflict) = "PRETENDED"
           /\ rows' = e_cache_put(rows, u, Contact(content, etag), flag)
           /\ UNCHANGED <<extra, sync_tag, serverVars, op>>
  <2>1. /\ Contact(content, etag) \in Contacts /\ Contact(content, etag).etag = etag
        /\ server' = server /\ sync_tag' = sync_tag /\ op' = Idle /\ extra' = extra
    BY <1>1, <1>3, ContactParts DEF serverVars
  <2>2. /\ rows' \in Tables /\ rows'[u].state = PutState(rows, u, flag) /\ rows'[u].object.etag = etag
        /\ \A v \in Uids \ {u} : rows'[v] = rows[v]
    BY <1>1, <1>3, <2>1, PutRows
  <2>3. rows[u].state \in {"SYNCED", "LOCALLY_CREATED", "LOCALLY_MODIFIED"}
    BY <1>1, RowOrNone DEF IsVisible, e_cache_contains, OfflineStates
  <2>4. ASSUME u \in Followed PROVE CacheInv(u)'
    <3>1. CacheInv(u)
      BY <2>4 DEF FollowInv, UidInv
    <3>2. CASE rows[u].state = "LOCALLY_CREATED"
      <4>1. u \notin extra /\ (~OnServer(u) \/ News(u))
        BY <3>1, <3>2 DEF CacheInv, CreatedInv
      <4>2. flag = "IS_OFFLINE"
        BY <1>3, <4>1 DEF save_contact_sync
      <4>3. rows'[u].state = "LOCALLY_CREATED"
        BY <2>2, <3>2, <4>2 DEF PutState, e_cache_contains, IncludeDeleted, ExcludeDeleted
      <4> QED
        BY <2>1, <4>1, <4>3 DEF CacheInv, KnownInv, SyncedInv, CreatedInv, OnServer, News
    <3>3. CASE rows[u].state # "LOCALLY_CREATED"
      <4>1. /\ u \in extra /\ 1 <= etag /\ (server[u].stamp = etag => OnServer(u))
            /\ server[u].stamp = etag \/ News(u)
        BY <1>1, <2>3, <3>1, <3>3, ShownCache DEF CacheInv, KnownInv
      <4>2. CASE flag = "IS_OFFLINE"
        <5>1. rows'[u].state = "LOCALLY_MODIFIED"
          BY <2>2, <2>3, <3>3, <4>2 DEF PutState, e_cache_contains, IncludeDeleted, ExcludeDeleted
        <5> QED
          BY <2>1, <2>2, <4>1, <5>1 DEF CacheInv, KnownInv, SyncedInv, CreatedInv, OnServer, News
      <4>3. CASE flag = "IS_ONLINE"
        <5>1. rows'[u].state = "SYNCED"
          BY <2>2, <4>3 DEF PutState
        <5>2. ~Precondition(u, etag)
          BY <1>3, <4>3 DEF save_contact_sync
        <5>3. server[u].stamp # etag
          BY <4>1, <5>2, MaxChangesAssumption DEF Precondition, NoEtag, Stamps
        <5> QED
          BY <2>1, <2>2, <4>1, <5>1, <5>3 DEF CacheInv, KnownInv, SyncedInv, CreatedInv, OnServer, News
      <4> QED
        BY <4>2, <4>3 DEF OfflineFlags
    <3> QED
      BY <3>2, <3>3
  <2>5. ASSUME NEW v \in Followed PROVE UidInv(v)'
    <3>1. v \in Uids /\ CacheInv(v)
      BY DEF Followed, FollowInv, UidInv
    <3>2. ASSUME v # u PROVE CacheInv(v)'
      BY <1>1, <2>1, <2>2, <3>1, <3>2, FrameCache
    <3>3. CacheInv(v)'
      BY <2>4, <3>2
    <3> QED
      BY <2>1, <3>3, IdleIsOperation, NoRefresh DEF UidInv
  <2> QED
    BY <1>1, <2>5 DEF FollowInv, Followed
<1> QED
  BY <1>2, <1>3 DEF ModifyContact

\* A client removes a contact, offline or from the server.
LEMMA RemoveFollow ==
    ASSUME IInv, FollowInv, NEW u \in Uids, NEW flag \in OfflineFlags, NEW conflict \in Conflicts,
           RemoveContact(u, flag, conflict)
    PROVE  FollowInv'
<1>0. PICK result : result = IF flag = "IS_OFFLINE" \/ rows[u].state = "LOCALLY_CREATED" THEN "LOCAL"
                             ELSE remove_contact_sync(u, conflict)
  OBVIOUS
<1>1. /\ op = Idle /\ op' = Idle /\ IsVisible(u) /\ UNCHANGED recreated
      /\ result \in {"LOCAL", "NOT_FOUND", "OK"}
      /\ IF result = "OK" THEN ServerChange(u, None) ELSE UNCHANGED serverVars
      /\ RemoveFromCache(u, flag) \/ (result = "OK" /\ UNCHANGED cacheVars)
  BY <1>0 DEF RemoveContact
<1>2. TypeOK /\ rows \in Tables
  BY DEF IInv, TypeOK
<1>3. /\ \A v \in Uids \ {u} : server'[v] = server[v]
      /\ result = "OK" => ~OnServer(u)' /\ server'[u].stamp = ctag + 1
      /\ result # "OK" => server' = server
  <2>1. CASE result = "OK"
    BY <1>1, <1>2, <2>1, ServerChanges
  <2>2. CASE result # "OK"
    BY <1>1, <2>2 DEF serverVars
  <2> QED
    BY <2>1, <2>2
<1>4. /\ sync_tag' = sync_tag
      /\ \A v \in Uids \ {u} : rows'[v] = rows[v] /\ (rows'[v] # NoRow => (v \in extra' <=> v \in extra))
  BY <1>1, <1>2, Removes DEF cacheVars
<1>5. rows[u].state \in {"SYNCED", "LOCALLY_CREATED", "LOCALLY_MODIFIED"}
  BY <1>1, <1>2, RowOrNone DEF IsVisible, e_cache_contains, OfflineStates
<1>6. ASSUME u \in Followed PROVE CacheInv(u)'
  <2>1. CacheInv(u)
    BY <1>6 DEF FollowInv, UidInv
  <2>2. CASE UNCHANGED cacheVars /\ result = "OK"
    BY <1>3, <2>1, <2>2, NewsCache DEF cacheVars
  <2>3. CASE RemoveFromCache(u, flag) /\ result = "LOCAL" /\ rows[u].state # "LOCALLY_CREATED"
                /\ flag = "IS_OFFLINE"
    <3>1. /\ rows'[u].object = rows[u].object /\ rows'[u].state = "LOCALLY_DELETED"
          /\ rows'[u] # NoRow
      BY <1>1, <1>2, <2>3, Removes DEF RemovesRow, NoRow, Row
    <3>2. u \in extra' <=> u \in extra
      BY <1>2, <2>3, <3>1, Removes
    <3>3. /\ u \in extra /\ 1 <= rows[u].object.etag
          /\ (server[u].stamp = rows[u].object.etag => OnServer(u))
          /\ server[u].stamp = rows[u].object.etag \/ News(u)
      BY <1>5, <2>1, <2>3, ShownCache DEF CacheInv, KnownInv
    <3>4. server' = server
      BY <1>3, <2>3
    <3> QED
      BY <1>4, <3>1, <3>2, <3>3, <3>4 DEF CacheInv, KnownInv, SyncedInv, CreatedInv, OnServer, News
  <2>4. CASE RemoveFromCache(u, flag) /\ (rows[u].state = "LOCALLY_CREATED" \/ flag = "IS_ONLINE")
    <3>1. rows'[u] = NoRow
      BY <1>1, <1>2, <2>4, Removes DEF RemovesRow
    <3>2. ~OnServer(u)' \/ News(u)'
      <4>1. CASE rows[u].state = "LOCALLY_CREATED"
        <5>1. result = "LOCAL" /\ (~OnServer(u) \/ News(u))
          BY <1>0, <2>1, <4>1 DEF CacheInv, CreatedInv
        <5> QED
          BY <1>3, <1>4, <5>1 DEF OnServer, News
      <4>2. CASE rows[u].state # "LOCALLY_CREATED"
        <5>1. result = remove_contact_sync(u, conflict)
          BY <1>0, <2>4, <4>2
        <5>2. result \in {"NOT_FOUND", "OK"} /\ (result = "NOT_FOUND" => ~OnServer(u))
          BY <1>1, <5>1 DEF remove_contact_sync
        <5> QED
          BY <1>3, <5>2 DEF OnServer
      <4> QED
        BY <4>1, <4>2
    <3> QED
      BY <3>1, <3>2, GoneCache
  <2> QED
    BY <1>0, <1>1, <2>2, <2>3, <2>4 DEF OfflineFlags
<1>7. ASSUME NEW v \in Followed PROVE UidInv(v)'
  <2>1. v \in Uids /\ CacheInv(v)
    BY DEF Followed, FollowInv, UidInv
  <2>2. ASSUME v # u PROVE CacheInv(v)'
    BY <1>2, <1>3, <1>4, <2>1, <2>2, FrameCache
  <2>3. CacheInv(v)'
    BY <1>6, <2>2
  <2> QED
    BY <1>1, <2>3, IdleIsOperation, NoRefresh DEF UidInv
<1> QED
  BY <1>1, <1>7 DEF FollowInv, Followed

\* A contact is loaded from the server; the others are left alone.
LEMMA LoadedCache ==
    ASSUME IInv, NEW u \in Uids, OnServer(u), PutLoaded(u, server[u].content, server[u].stamp),
           UNCHANGED serverVars, NEW v \in Uids, CacheInv(v)
    PROVE  CacheInv(v)' /\ server' = server /\ rows'[u].state = "SYNCED" /\ (v # u => rows'[v] = rows[v])
<1>1. TypeOK /\ rows \in Tables /\ server' = server
  BY DEF IInv, TypeOK, serverVars
<1>2. server[u].content \in Contents /\ server[u].stamp \in Stamps /\ 1 <= server[u].stamp
  BY <1>1, Parts DEF IInv, NumbersInv
<1>3. /\ rows'[u] = Row("SYNCED", Contact(server[u].content, server[u].stamp))
      /\ rows'[u].state = "SYNCED" /\ extra' = extra \cup {u} /\ sync_tag' = sync_tag
      /\ \A w \in Uids \ {u} : rows'[w] = rows[w]
  BY <1>1, <1>2, Loads
<1>4. ASSUME v = u PROVE CacheInv(v)'
  BY <1>1, <1>2, <1>3, <1>4, AgreeCache
<1>5. ASSUME v # u PROVE CacheInv(v)'
  BY <1>1, <1>3, <1>5, FrameCache
<1> QED
  BY <1>1, <1>3, <1>4, <1>5

\* A client gets a contact.
LEMMA GetFollow ==
    ASSUME IInv, FollowInv, NEW u \in Uids, GetContact(u)
    PROVE  FollowInv'
<1>1. /\ op' = Idle /\ OnServer(u) /\ PutLoaded(u, server[u].content, server[u].stamp)
      /\ UNCHANGED serverVars /\ UNCHANGED recreated
  BY DEF GetContact
<1>2. ASSUME NEW v \in Followed PROVE UidInv(v)'
  <2>1. CacheInv(v)'
    BY <1>1, LoadedCache DEF Followed, FollowInv, UidInv
  <2> QED
    BY <1>1, <2>1, IdleIsOperation, NoRefresh DEF UidInv
<1> QED
  BY <1>1, <1>2 DEF FollowInv, Followed

\* A step of the operation which leaves the cache and the server alone, and
\* claims nothing about a refresh.
LEMMA SteadyFollow ==
    ASSUME IInv, FollowInv, UNCHANGED <<cacheVars, serverVars, kind, recreated>>,
           \A v \in Followed : UploadedInv(v)' /\ ListedInv(v)'
    PROVE  FollowInv'
<1>1. /\ rows' = rows /\ extra' = extra /\ sync_tag' = sync_tag /\ server' = server
      /\ recreated' = recreated /\ rows \in Tables
  BY DEF cacheVars, serverVars, IInv, TypeOK
<1>2. ASSUME NEW v \in Followed PROVE UidInv(v)'
  <2>1. CacheInv(v)'
    BY <1>1, FrameCache DEF Followed, FollowInv, UidInv
  <2> QED
    BY <2>1 DEF UidInv
<1> QED
  BY <1>1, <1>2 DEF FollowInv, Followed

\* Ending the operation early.
LEMMA GiveUpFollow ==
    ASSUME IInv, FollowInv, UNCHANGED <<cacheVars, serverVars, kind, recreated>>, op' = Idle
    PROVE  FollowInv'
BY SteadyFollow, NoRefresh, IdleIsOperation

\* A saved contact is loaded back.
LEMMA LoadFollow ==
    ASSUME IInv, FollowInv, LoadContact
    PROVE  FollowInv'
<1>1. /\ op.pc = "load" /\ UNCHANGED <<serverVars, kind, recreated>> /\ op \in Operations
      /\ op.uid \in Uids
  BY DEF LoadContact, IInv, TypeOK, Operations, ProgressInv
<1>2. CASE OnServer(op.uid)
  <2>1. /\ PutLoaded(op.uid, server[op.uid].content, server[op.uid].stamp)
        /\ op' = [op EXCEPT !.pc = op.then, !.uid = None, !.then = "idle"]
        /\ UNCHANGED serverVars /\ UNCHANGED recreated
    BY <1>1, <1>2 DEF LoadContact
  <2>2. op'.pc = op.then /\ op'.todo = op.todo /\ op.then \in {"idle", "upload"}
    BY <1>1, <2>1 DEF Operations
  <2>3. ASSUME NEW v \in Followed PROVE UidInv(v)'
    <3>1. v \in Uids /\ CacheInv(v) /\ UploadedInv(v)
      BY DEF Followed, FollowInv, UidInv
    <3>2. /\ CacheInv(v)' /\ server' = server /\ rows'[op.uid].state = "SYNCED"
          /\ v # op.uid => rows'[v] = rows[v]
      BY <1>1, <1>2, <2>1, <3>1, LoadedCache
    <3>3. UploadedInv(v)'
      <4>1. CASE v = op.uid
        BY <3>2, <4>1 DEF UploadedInv
      <4>2. CASE v # op.uid
        BY <1>1, <2>2, <3>1, <3>2, <4>2 DEF UploadedInv, OnServer
      <4> QED
        BY <4>1, <4>2
    <3>4. ListedInv(v)'
      BY <2>2 DEF ListedInv
    <3> QED
      BY <3>2, <3>3, <3>4 DEF UidInv
  <2> QED
    BY <2>1, <2>3 DEF FollowInv, Followed
<1>3. CASE ~OnServer(op.uid)
  BY <1>1, <1>3, GiveUpFollow DEF LoadContact
<1> QED
  BY <1>2, <1>3

\* Another client changes a contact: the next refresh will be told, also when one
\* is in progress.
LEMMA OtherClientFollow ==
    ASSUME IInv, FollowInv, NEW u \in Uids, OtherClient(u)
    PROVE  FollowInv'
<1>1. /\ UNCHANGED <<cacheVars, op, kind, recreated>>
      /\ \E content \in Contents \cup {None} : ServerChange(u, content)
  BY DEF OtherClient
<1>2. /\ rows' = rows /\ extra' = extra /\ sync_tag' = sync_tag /\ op' = op /\ recreated' = recreated
      /\ TypeOK /\ rows \in Tables
  BY <1>1 DEF cacheVars, IInv, TypeOK
<1>3. /\ server'[u].stamp = ctag + 1
      /\ \A v \in Uids \ {u} : server'[v] = server[v]
  <2> PICK content \in Contents \cup {None} : ServerChange(u, content)
    BY <1>1
  <2> QED
    BY <1>2, ServerChanges
<1>4. ASSUME NEW v \in Followed PROVE UidInv(v)'
  <2>1. v \in Uids /\ CacheInv(v) /\ UploadedInv(v) /\ ListedInv(v)
    BY DEF Followed, FollowInv, UidInv
  <2>2. CASE v # u
    <3>1. rows'[v] = rows[v] /\ server'[v] = server[v]
      BY <1>2, <1>3, <2>1, <2>2
    <3>2. CacheInv(v)'
      BY <1>2, <2>1, <3>1, FrameCache
    <3>3. UploadedInv(v)'
      BY <1>2, <2>1, <3>1 DEF UploadedInv, OnServer
    <3>4. ListedInv(v)'
      BY <1>2, <2>1, <3>1 DEF ListedInv, OnServer, Agree
    <3> QED
      BY <3>2, <3>3, <3>4 DEF UidInv
  <2>3. CASE v = u
    <3>1. /\ CacheInv(v)' /\ server'[v].stamp > ctag
          /\ rows[v].state # "UNKNOWN" => server'[v].stamp # rows[v].object.etag
      BY <1>2, <1>3, <2>1, <2>3, NewsCache
    <3>2. UploadedInv(v)'
      BY <1>2, <2>1, <3>1 DEF UploadedInv
    <3>3. op.tag \in Nat /\ ctag \in Nat /\ op.tag <= ctag
      BY <1>2, Parts DEF IInv, NumbersInv
    <3>4. server'[v].stamp > op.tag
      BY <1>3, <2>3, <3>3
    <3> QED
      BY <1>2, <3>1, <3>2, <3>4 DEF UidInv, ListedInv
  <2> QED
    BY <2>2, <2>3
<1> QED
  BY <1>2, <1>4 DEF FollowInv, Followed

\* A refresh starts: it will upload each offline change.
LEMMA StartFollow ==
    ASSUME IInv, FollowInv, StartRefresh
    PROVE  FollowInv'
<1>1. /\ op' = [Idle EXCEPT !.pc = "upload", !.todo = ChangedUids(rows)]
      /\ UNCHANGED <<cacheVars, serverVars, kind, recreated>> /\ rows' = rows /\ rows \in Tables
  BY DEF StartRefresh, cacheVars, IInv, TypeOK
<1>2. op'.pc = "upload" /\ op'.todo = ChangedUids(rows)
  BY <1>1 DEF Idle
<1>3. ASSUME NEW v \in Followed PROVE UploadedInv(v)' /\ ListedInv(v)'
  <2>1. v \notin op'.todo => rows'[v].state \notin OfflineChangeStates
    BY <1>1, <1>2, ChangedAre DEF Followed
  <2> QED
    BY <1>2, <2>1 DEF UploadedInv, ListedInv, OfflineChangeStates
<1> QED
  BY <1>1, <1>3, SteadyFollow

\* The upload of one change: it is done, or the refresh ends.
LEMMA UploadFollow ==
    ASSUME IInv, FollowInv, NEW u \in Uids, UploadChange(u)
    PROVE  FollowInv'
<1>0. PICK done : done = [op EXCEPT !.todo = @ \ {u}]
  OBVIOUS
<1>1. /\ op.pc = "upload" /\ u \in op.todo /\ UNCHANGED <<kind, recreated>>
      /\ done \in Operations /\ done.pc = "upload" /\ done.todo = op.todo \ {u}
      /\ rows[u].state \in OfflineChangeStates
  BY <1>0, Uploads
<1>2. TypeOK /\ rows \in Tables /\ rows[u].state # "UNKNOWN" /\ TypeOK' /\ ctag \in Nat
  BY <1>1, UploadInv, MaxChangesAssumption DEF IInv, TypeOK, OfflineChangeStates, Stamps
<1>3. ASSUME NEW v \in Followed
      PROVE  /\ v \in Uids /\ v \in Followed' /\ CacheInv(v)
             /\ v \notin op.todo =>
                   /\ rows[v].state # "LOCALLY_CREATED"
                   /\ rows[v].state \in {"LOCALLY_MODIFIED", "LOCALLY_DELETED"} /\ OnServer(v) =>
                         server[v].stamp # rows[v].object.etag
  BY <1>1 DEF Followed, FollowInv, UidInv, UploadedInv
<1>4. ASSUME NEW v \in Followed, v # u, rows'[v] = rows[v], server'[v] = server[v],
             op' = Idle \/ (op'.todo = done.todo /\ op'.pc \in {"load", "upload"})
      PROVE  UploadedInv(v)'
  <2>1. v \in op'.todo \/ v \notin op.todo \/ op' = Idle
    BY <1>1, <1>4
  <2> QED
    BY <1>3, <1>4, <2>1, IdleIsOperation DEF UploadedInv, OnServer
<1>5. CASE /\ UploadOK(u) /\ rows[u].state # "LOCALLY_DELETED"
           /\ Saved(u, rows[u].object.content, done)
  <2>1. rows[u].object.content \in Contents
    BY <1>2, RowOrNone
  <2>2. ctag + 1 \in Stamps
    <3>1. ServerChange(u, rows[u].object.content)
      BY <1>5 DEF Saved
    <3>2. ctag' = ctag + 1 /\ ctag' \in Stamps
      BY <1>2, <3>1 DEF ServerChange, TypeOK
    <3> QED
      BY <3>2
  <2>3. /\ ServerChange(u, rows[u].object.content) /\ sync_tag' = sync_tag
        /\ \A v \in Uids \ {u} : rows'[v] = rows[v] /\ (v \in extra' <=> v \in extra)
        /\ \/ rows'[u].state = "SYNCED" /\ op' = done
           \/ /\ rows' = rows
              /\ \/ op' = Idle
                 \/ op'.pc = "load" /\ op'.uid = u /\ op'.then = done.pc /\ op'.todo = done.todo
    BY <1>1, <1>2, <1>5, <2>1, <2>2, Saves
  <2>4. /\ server'[u].stamp = ctag + 1
        /\ \A v \in Uids \ {u} : server'[v] = server[v]
    BY <1>2, <2>1, <2>3, ServerChanges
  <2>5. op'.pc # "multiget"
    BY <1>1, <2>3, IdleIsOperation
  <2>6. ASSUME NEW v \in Followed PROVE UidInv(v)'
    <3>1. CacheInv(v)'
      BY <1>1, <1>3, <1>5, <2>1, <2>2, SavedCache
    <3>2. UploadedInv(v)'
      <4>1. CASE v # u
        BY <1>1, <1>3, <1>4, <2>3, <2>4, <4>1
      <4>2. CASE v = u
        <5>1. CASE rows'[u].state = "SYNCED"
          BY <4>2, <5>1 DEF UploadedInv
        <5>2. CASE rows' = rows /\ op' = Idle
          BY <5>2, IdleIsOperation DEF UploadedInv
        <5>3. CASE rows' = rows /\ op'.pc = "load" /\ op'.uid = u
          <6>1. server'[u].stamp # rows[u].object.etag
            BY <1>2, <2>4, EtagKnown
          <6> QED
            BY <4>2, <5>3, <6>1 DEF UploadedInv
        <5> QED
          BY <2>3, <5>1, <5>2, <5>3
      <4> QED
        BY <4>1, <4>2
    <3> QED
      BY <2>5, <3>1, <3>2 DEF UidInv, ListedInv
  <2> QED
    BY <1>1, <2>6 DEF FollowInv, Followed
<1>6. CASE /\ UploadOK(u) /\ rows[u].state = "LOCALLY_DELETED"
           /\ ServerChange(u, None) /\ UNCHANGED cacheVars /\ op' \in {done, Idle}
  <2>1. rows' = rows /\ extra' = extra /\ sync_tag' = sync_tag
    BY <1>6 DEF cacheVars
  <2>2. /\ ~OnServer(u)' /\ server'[u].stamp = ctag + 1
        /\ \A v \in Uids \ {u} : server'[v] = server[v]
    BY <1>2, <1>6, ServerChanges
  <2>3. ASSUME NEW v \in Followed PROVE UidInv(v)'
    <3>1. CASE v # u
      <4>1. CacheInv(v)'
        BY <1>2, <1>3, <2>1, <2>2, <3>1, FrameCache
      <4>2. UploadedInv(v)'
        BY <1>1, <1>3, <1>4, <1>6, <2>1, <2>2, <3>1
      <4> QED
        BY <1>1, <1>6, <4>1, <4>2, IdleIsOperation DEF UidInv, ListedInv
    <3>2. CASE v = u
      <4>1. CacheInv(v)'
        BY <1>3, <2>1, <2>2, <3>2, NewsCache
      <4>2. UploadedInv(v)'
        BY <1>6, <2>1, <2>2, <3>2 DEF UploadedInv
      <4> QED
        BY <1>1, <1>6, <4>1, <4>2, IdleIsOperation DEF UidInv, ListedInv
    <3> QED
      BY <3>1, <3>2
  <2> QED
    BY <1>1, <2>3 DEF FollowInv, Followed
<1>7. CASE /\ rows[u].state = "LOCALLY_MODIFIED" /\ u \notin extra
           /\ RemoveFromCache(u, "IS_ONLINE") /\ op' = done /\ UNCHANGED serverVars
  <2>1. u \notin Followed
    <3> SUFFICES ASSUME u \in Followed PROVE FALSE
      OBVIOUS
    <3> QED
      BY <1>3, <1>7 DEF CacheInv, KnownInv
  <2>2. /\ \A v \in Uids \ {u} : /\ rows'[v] = rows[v]
                                 /\ rows'[v] # NoRow => (v \in extra' <=> v \in extra)
        /\ sync_tag' = sync_tag /\ server' = server
    BY <1>2, <1>7, Removes DEF OfflineFlags, serverVars
  <2>3. ASSUME NEW v \in Followed PROVE UidInv(v)'
    <3>1. v # u
      BY <2>1
    <3>2. CacheInv(v)'
      BY <1>2, <1>3, <2>2, <3>1, FrameCache
    <3>3. UploadedInv(v)'
      BY <1>1, <1>3, <1>4, <1>7, <2>2, <3>1
    <3> QED
      BY <1>1, <1>7, <3>2, <3>3 DEF UidInv, ListedInv
  <2> QED
    BY <1>1, <2>3 DEF FollowInv, Followed
<1>8. CASE /\ ~UploadOK(u) /\ rows[u].state # "LOCALLY_CREATED"
           /\ op' = done /\ UNCHANGED <<cacheVars, serverVars>>
  <2>1. rows' = rows /\ server' = server
    BY <1>8 DEF cacheVars, serverVars
  <2>2. ASSUME NEW v \in Followed PROVE UploadedInv(v)' /\ ListedInv(v)'
    <3>1. CASE v # u
      BY <1>1, <1>3, <1>4, <1>8, <2>1, <3>1 DEF ListedInv
    <3>2. CASE v = u
      <4>1. u \in extra /\ 1 <= rows[u].object.etag
        BY <1>1, <1>3, <1>8, <3>2 DEF CacheInv, KnownInv, OfflineChangeStates
      <4>2. OnServer(u) => server[u].stamp # rows[u].object.etag
        BY <1>1, <1>8, <4>1 DEF UploadOK, Precondition, NoEtag, OfflineChangeStates
      <4> QED
        BY <1>1, <1>8, <2>1, <3>2, <4>2 DEF UploadedInv, ListedInv, OnServer
    <3> QED
      BY <3>1, <3>2
  <2> QED
    BY <1>1, <1>8, <2>2, SteadyFollow
<1>9. CASE op' = Idle /\ UNCHANGED <<cacheVars, serverVars>>
  BY <1>1, <1>9, GiveUpFollow
<1> QED
  BY <1>0, <1>5, <1>6, <1>7, <1>8, <1>9, Uploads

\* Forgetting about the offline changes loses nothing: what is left of them are
\* conflicts, of which the next refresh will be told, and removals.
LEMMA ClearFollow ==
    ASSUME IInv, FollowInv, ClearOfflineChanges
    PROVE  FollowInv'
<1>1. /\ op.pc = "upload" /\ op.todo = {} /\ rows' = e_cache_clear_offline_changes(rows)
      /\ extra' = {u \in extra : rows'[u] # NoRow} /\ op' = [op EXCEPT !.pc = "changes"]
      /\ UNCHANGED <<sync_tag, serverVars, kind, recreated>>
  BY DEF ClearOfflineChanges
<1>2. /\ rows \in Tables /\ extra \in SUBSET Uids /\ op \in Operations
      /\ server' = server /\ sync_tag' = sync_tag /\ recreated' = recreated
  BY <1>1 DEF IInv, TypeOK, Operations, serverVars
<1>3. op'.pc = "changes"
  BY <1>1, <1>2 DEF Operations
<1>4. \A v \in Uids : IF rows[v].state \in {"UNKNOWN", "LOCALLY_DELETED"} THEN rows'[v] = NoRow
                      ELSE rows'[v].state = "SYNCED" /\ rows'[v].object = rows[v].object
  BY <1>1, <1>2, ClearRows
<1>5. ASSUME NEW v \in Followed PROVE CacheInv(v)'
  <2>1. v \in Uids /\ CacheInv(v) /\ UploadedInv(v)
    BY DEF Followed, FollowInv, UidInv
  <2>2. /\ rows[v].state # "LOCALLY_CREATED"
        /\ rows[v].state \in {"LOCALLY_MODIFIED", "LOCALLY_DELETED"} /\ OnServer(v) =>
              server[v].stamp # rows[v].object.etag
    BY <1>1, <2>1 DEF UploadedInv
  <2>3. CASE rows[v].state = "UNKNOWN"
    <3>1. rows[v] = NoRow /\ rows'[v] = NoRow
      BY <1>2, <1>4, <2>1, <2>3, RowOrNone
    <3> QED
      BY <1>2, <2>1, <3>1, FrameCache
  <2>4. CASE rows[v].state = "LOCALLY_DELETED"
    <3>1. rows'[v] = NoRow
      BY <1>4, <2>1, <2>4
    <3>2. ~OnServer(v) \/ News(v)
      BY <2>1, <2>2, <2>4 DEF CacheInv, KnownInv
    <3>3. ~OnServer(v)' \/ News(v)'
      BY <1>2, <3>2 DEF OnServer, News
    <3> QED
      BY <2>1, <3>1, <3>3, GoneCache
  <2>5. CASE rows[v].state = "LOCALLY_MODIFIED"
    <3>1. rows'[v].state = "SYNCED" /\ rows'[v].object = rows[v].object /\ rows'[v] # NoRow
      BY <1>4, <2>1, <2>5 DEF NoRow, Row
    <3>2. /\ v \in extra /\ 1 <= rows[v].object.etag
          /\ server[v].stamp # rows[v].object.etag /\ News(v)
      BY <2>1, <2>2, <2>5 DEF CacheInv, KnownInv
    <3>3. v \in extra'
      BY <1>1, <3>1, <3>2
    <3> QED
      BY <1>2, <3>1, <3>2, <3>3 DEF CacheInv, KnownInv, SyncedInv, CreatedInv, News, OnServer
  <2>6. CASE rows[v].state = "SYNCED"
    <3>1. rows'[v].state = "SYNCED" /\ rows'[v].object = rows[v].object /\ rows'[v] # NoRow
      BY <1>4, <2>1, <2>6 DEF NoRow, Row
    <3>2. rows[v] = Row("SYNCED", rows[v].object)
      BY <1>2, <2>1, <2>6, RowOrNone
    <3>3. rows'[v] = rows[v]
      <4>1. rows'[v] = Row("SYNCED", rows[v].object)
        BY <1>1, <2>1, <2>6 DEF e_cache_clear_offline_changes
      <4> QED
        BY <3>2, <4>1
    <3>4. v \in extra' <=> v \in extra
      BY <1>1, <3>1
    <3> QED
      BY <1>2, <2>1, <3>3, <3>4, FrameCache
  <2> QED
    BY <1>2, <2>1, <2>2, <2>3, <2>4, <2>5, <2>6, RowOrNone DEF OfflineStates
<1> QED
  BY <1>2, <1>3, <1>5, NoRefresh DEF FollowInv, UidInv, Followed

\* After the upload a contact is synchronized or not there.
LEMMA TwoStates ==
    ASSUME IInv, op.pc \in {"changes", "list", "multiget"}, NEW v \in Uids
    PROVE  rows[v].state \in {"SYNCED", "UNKNOWN"} /\ (IsVisible(v) <=> rows[v].state = "SYNCED")
<1>1. rows[v].state \in OfflineStates /\ rows[v].state \notin OfflineChangeStates
  BY RowOrNone DEF IInv, TypeOK, ProgressInv
<1> QED
  BY <1>1 DEF OfflineStates, OfflineChangeStates, IsVisible, e_cache_contains

\* What is listed makes the contact agree: the contacts on the server which are
\* known are compared, the others are known not to have changed or not to be there.
LEMMA ListedFollow ==
    ASSUME IInv, op.pc \in {"changes", "list"}, NEW v \in Uids, CacheInv(v),
           NEW known \in SUBSET Uids, NEW consider_removed \in BOOLEAN, NEW gone,
           v \in known => OnServer(v),
           v \notin known => ~OnServer(v) \/ (~News(v) /\ ~consider_removed /\ v \notin gone),
           v \notin known /\ rows[v].state = "SYNCED" /\ News(v) => consider_removed \/ v \in gone,
           op'.removed = Compare(known, consider_removed, gone).removed,
           op'.wanted = Compare(known, consider_removed, gone).wanted
    PROVE  /\ OnServer(v) => v \notin op'.removed
           /\ Agree(v) \/ v \in (IF OnServer(v) THEN op'.wanted ELSE op'.removed)
<1> DEFINE cached == {u \in Uids : IsVisible(u) /\ (u \in extra \/ rows[u].state # "LOCALLY_CREATED")}
           found == {u \in cached : u \in extra /\ u \in known}
<1>1. /\ op'.removed = {u \in cached \ found : consider_removed \/ u \in gone}
      /\ op'.wanted = {u \in found : rows[u].object.etag # server[u].stamp} \cup (known \ found)
  BY DEF Compare
<1>2. rows[v].state \in {"SYNCED", "UNKNOWN"} /\ (IsVisible(v) <=> rows[v].state = "SYNCED")
  BY TwoStates
<1>3. CASE rows[v].state = "SYNCED"
  <2>1. v \in extra /\ v \in cached /\ (v \in found <=> v \in known)
    BY <1>2, <1>3, ShownCache
  <2>2. CASE v \in known
    <3>1. v \notin op'.removed /\ OnServer(v)
      BY <1>1, <2>1, <2>2
    <3>2. CASE rows[v].object.etag # server[v].stamp
      BY <1>1, <2>1, <2>2, <3>1, <3>2
    <3>3. CASE rows[v].object.etag = server[v].stamp
      <4>1. rows[v].object.content = server[v].content
        BY <1>3, <3>3 DEF CacheInv, KnownInv
      <4>2. /\ rows[v] = Row("SYNCED", rows[v].object) /\ rows[v].object \in Contacts
        BY <1>3, RowOrNone DEF IInv, TypeOK
      <4>3. rows[v].object = Contact(server[v].content, server[v].stamp)
        BY <3>3, <4>1, <4>2 DEF Contact, Contacts
      <4>4. Agree(v)
        BY <3>1, <4>2, <4>3 DEF Agree
      <4> QED
        BY <3>1, <4>4
    <3> QED
      BY <3>2, <3>3
  <2>3. CASE v \notin known
    <3>1. CASE News(v)
      BY <1>1, <1>3, <2>1, <2>3, <3>1
    <3>2. CASE ~News(v)
      <4>1. Agree(v)
        BY <1>3, <3>2 DEF CacheInv, SyncedInv
      <4> QED
        BY <1>1, <2>3, <4>1
    <3> QED
      BY <3>1, <3>2
  <2> QED
    BY <2>2, <2>3
<1>4. CASE rows[v].state = "UNKNOWN"
  <2>1. v \notin cached /\ v \notin found /\ v \notin op'.removed
    BY <1>1, <1>2, <1>4
  <2>2. CASE v \in known
    BY <1>1, <2>1, <2>2
  <2>3. CASE v \notin known
    <3>1. rows[v] = NoRow
      BY <1>4, RowOrNone DEF IInv, TypeOK
    <3>2. CASE OnServer(v)
      <4>1. Agree(v)
        BY <1>4, <2>3, <3>2 DEF CacheInv, SyncedInv
      <4> QED
        BY <2>1, <4>1
    <3>3. CASE ~OnServer(v)
      BY <3>1, <3>3 DEF Agree
    <3> QED
      BY <3>2, <3>3
  <2> QED
    BY <2>2, <2>3
<1> QED
  BY <1>2, <1>3, <1>4

\* The sync-collection report tells about all that happened since the tag.
LEMMA SyncCollectionFollow ==
    ASSUME IInv, FollowInv, SyncCollection
    PROVE  FollowInv'
<1>0. PICK token \in {sync_tag, 0} :
         Listed({u \in {w \in Uids : server[w].stamp > token} : OnServer(u)}, token = 0,
                {u \in {w \in Uids : server[w].stamp > token} : ~OnServer(u)}, ctag)
  BY DEF SyncCollection
<1> DEFINE whole == token = 0
<1>1. PICK known, gone :
         /\ known = {u \in {w \in Uids : server[w].stamp > token} : OnServer(u)}
         /\ gone = {u \in {w \in Uids : server[w].stamp > token} : ~OnServer(u)}
  OBVIOUS
<1>a. /\ op.pc = "changes" /\ UNCHANGED <<cacheVars, serverVars, kind, recreated>>
      /\ Listed(known, whole, gone, ctag)
  BY <1>0, <1>1 DEF SyncCollection
<1>2. ctag \in Stamps /\ known \in SUBSET Uids /\ whole \in BOOLEAN /\ TypeOK
  BY <1>1 DEF IInv, TypeOK
<1> HIDE DEF whole
<1>3. /\ op'.pc = "multiget" /\ op'.removed = Compare(known, whole, gone).removed
      /\ op'.wanted = Compare(known, whole, gone).wanted
  BY <1>a, <1>2, Lists
<1>4. rows' = rows /\ server' = server
  BY <1>a DEF cacheVars, serverVars
<1>5. ASSUME NEW v \in Followed PROVE UploadedInv(v)' /\ ListedInv(v)'
  <2>1. v \in Uids /\ CacheInv(v)
    BY DEF Followed, FollowInv, UidInv
  <2>2. /\ server[v].stamp \in Nat /\ sync_tag \in Nat /\ (OnServer(v) => 1 <= server[v].stamp)
    BY <1>2, <2>1, Parts DEF IInv, NumbersInv
  <2>3. /\ v \in known <=> server[v].stamp > token /\ OnServer(v)
        /\ v \in gone <=> server[v].stamp > token /\ ~OnServer(v)
    BY <1>1, <2>1
  <2>4. /\ News(v) => server[v].stamp > token
        /\ OnServer(v) /\ ~(server[v].stamp > token) => ~News(v) /\ ~whole
    BY <2>2 DEF News, whole
  <2>5. /\ OnServer(v) => v \notin op'.removed
        /\ Agree(v) \/ v \in (IF OnServer(v) THEN op'.wanted ELSE op'.removed)
    BY <1>a, <1>2, <1>3, <2>1, <2>3, <2>4, ListedFollow
  <2>6. ListedInv(v)'
    BY <1>4, <2>5 DEF ListedInv, Agree, OnServer
  <2> QED
    BY <1>3, <2>6 DEF UploadedInv
<1> QED
  BY <1>a, <1>5, SteadyFollow

\* The list of all contacts is compared with the cache; the tag is older.
LEMMA ListContactsFollow ==
    ASSUME IInv, FollowInv, ListContacts
    PROVE  FollowInv'
<1>0. PICK known : known = {u \in Uids : OnServer(u)}
  OBVIOUS
<1>1. /\ op.pc = "list" /\ UNCHANGED <<cacheVars, serverVars, kind, recreated>>
      /\ Listed(known, TRUE, {}, op.tag)
  BY <1>0 DEF ListContacts
<1>2. op.tag \in Stamps /\ known \in SUBSET Uids
  BY <1>0 DEF IInv, TypeOK
<1>3. /\ op'.pc = "multiget" /\ op'.removed = Compare(known, TRUE, {}).removed
      /\ op'.wanted = Compare(known, TRUE, {}).wanted
  BY <1>1, <1>2, Lists
<1>4. rows' = rows /\ server' = server
  BY <1>1 DEF cacheVars, serverVars
<1>5. ASSUME NEW v \in Followed PROVE UploadedInv(v)' /\ ListedInv(v)'
  <2>1. v \in Uids /\ CacheInv(v) /\ (v \in known <=> OnServer(v))
    BY <1>0 DEF Followed, FollowInv, UidInv
  <2>2. /\ OnServer(v) => v \notin op'.removed
        /\ Agree(v) \/ v \in (IF OnServer(v) THEN op'.wanted ELSE op'.removed)
    BY <1>1, <1>2, <1>3, <2>1, ListedFollow
  <2>3. ListedInv(v)'
    BY <1>4, <2>2 DEF ListedInv, Agree, OnServer
  <2> QED
    BY <1>3, <2>3 DEF UploadedInv
<1> QED
  BY <1>1, <1>5, SteadyFollow

\* Storing all that was listed, with the tag, or a part of it, without.
LEMMA StoreFollow ==
    ASSUME IInv, FollowInv, ProcessChanges \/ ProcessPartly
    PROVE  FollowInv'
<1>1. op.pc = "multiget" /\ op' = Idle /\ UNCHANGED <<serverVars, kind, recreated>>
  BY Storing
<1>2. PICK removed \in SUBSET op.removed, wanted \in SUBSET op.wanted :
         /\ removed \in SUBSET Uids /\ wanted \in SUBSET Uids
         /\ Processed(removed, wanted)
         /\ \/ sync_tag' = op.tag /\ removed = op.removed /\ wanted = op.wanted
            \/ sync_tag' = sync_tag
  BY Storing
<1>3. /\ TypeOK /\ rows \in Tables /\ server' = server /\ recreated' = recreated
      /\ sync_tag \in Nat /\ op.tag \in Nat /\ sync_tag <= op.tag
  BY <1>1, MaxChangesAssumption DEF IInv, TypeOK, serverVars, ProgressInv, Stamps
<1>4. ASSUME NEW v \in Followed PROVE CacheInv(v)'
  <2>1. v \in Uids /\ CacheInv(v) /\ ListedInv(v)
    BY DEF Followed, FollowInv, UidInv
  <2>2. rows[v].state \in {"SYNCED", "UNKNOWN"} /\ (IsVisible(v) <=> rows[v].state = "SYNCED")
    BY <1>1, <2>1, TwoStates
  <2>3. /\ server[v].stamp \in Stamps /\ server[v].stamp \in Nat
        /\ OnServer(v) => server[v].content \in Contents /\ 1 <= server[v].stamp
    BY <1>3, <2>1, Parts DEF IInv, NumbersInv
  <2>4. server[v].stamp > op.tag => News(v)'
    BY <1>2, <1>3, <2>3 DEF News
  <2>5. CASE v \in wanted /\ OnServer(v)
    <3>1. rows'[v] = Row("SYNCED", Contact(server[v].content, server[v].stamp)) /\ rows'[v] # NoRow
      BY <1>2, <1>3, <2>1, <2>5, Processes DEF NoRow, Row
    <3>2. v \in extra'
      BY <1>2, <1>3, <2>1, <2>5, <3>1, Processes
    <3> QED
      BY <1>3, <2>1, <2>3, <2>5, <3>1, <3>2, AgreeCache
  <2>6. CASE ~(v \in wanted /\ OnServer(v)) /\ v \in removed /\ IsVisible(v)
    <3>1. rows'[v] = NoRow
      BY <1>2, <1>3, <2>1, <2>6, Processes
    <3>2. server[v].stamp > op.tag \/ ~OnServer(v)
      BY <1>1, <2>1, <2>6 DEF ListedInv
    <3>3. News(v)' \/ ~OnServer(v)'
      BY <1>3, <2>4, <3>2 DEF OnServer
    <3> QED
      BY <2>1, <3>1, <3>3, GoneCache
  <2>7. CASE ~(v \in wanted /\ OnServer(v)) /\ ~(v \in removed /\ IsVisible(v))
    <3>1. /\ rows'[v] = rows[v]
          /\ rows[v].state = "SYNCED" => v \in extra /\ v \in extra'
      <4>1. rows'[v] = rows[v] /\ (v \in extra /\ rows'[v] # NoRow => v \in extra')
        BY <1>2, <1>3, <2>1, <2>7, Processes
      <4>2. rows[v].state = "SYNCED" => v \in extra /\ rows[v] # NoRow
        BY <2>1, ShownCache DEF NoRow, Row
      <4> QED
        BY <4>1, <4>2
    <3>2. rows[v].state = "UNKNOWN" => rows[v] = NoRow
      BY <1>3, <2>1, RowOrNone
    <3>3. CASE sync_tag' = sync_tag
      BY <1>3, <2>1, <2>2, <3>1, <3>2, <3>3, FrameCache
    <3>4. CASE sync_tag' = op.tag /\ removed = op.removed /\ wanted = op.wanted
      <4>1. News(v)' \/ Agree(v)
        <5>1. CASE server[v].stamp > op.tag
          BY <2>4, <5>1
        <5>2. CASE ~(server[v].stamp > op.tag)
          <6>1. Agree(v) \/ v \in (IF OnServer(v) THEN op.wanted ELSE op.removed)
            BY <1>1, <2>1, <5>2 DEF ListedInv
          <6>2. CASE ~OnServer(v) /\ v \in op.removed
            BY <2>2, <2>7, <3>2, <3>4, <6>2 DEF Agree
          <6> QED
            BY <2>7, <3>4, <6>1, <6>2
        <5> QED
          BY <5>1, <5>2
      <4>2. SyncedInv(v)'
        BY <1>3, <3>1, <4>1 DEF SyncedInv, Agree, OnServer
      <4>3. KnownInv(v)'
        BY <1>3, <2>1, <2>2, <3>1 DEF CacheInv, KnownInv, OnServer
      <4> QED
        BY <2>2, <3>1, <4>2, <4>3 DEF CacheInv, CreatedInv
    <3> QED
      BY <1>2, <3>3, <3>4
  <2> QED
    BY <2>5, <2>6, <2>7
<1> QED
  BY <1>1, <1>3, <1>4, IdleIsOperation, NoRefresh DEF FollowInv, UidInv, Followed

\* The first cache is empty, and so is the server.
LEMMA InitFollow == Init => FollowInv
<1> SUFFICES ASSUME Init, NEW v \in Followed PROVE UidInv(v)
  BY DEF FollowInv
<1>1. v \in Uids /\ rows[v] = NoRow /\ rows[v].state = "UNKNOWN" /\ ~OnServer(v) /\ op.pc = "idle"
  BY IdleIsOperation DEF Init, Followed, NoRows, NoRow, Row, OnServer
<1> QED
  BY <1>1 DEF UidInv, CacheInv, KnownInv, SyncedInv, CreatedInv, UploadedInv, ListedInv, Agree

\* Every step keeps what is said of the contacts which are followed, if the
\* clients send the ETags the cache has.
LEMMA StepFollow == ASSUME ~StaleClients PROVE IInv /\ FollowInv /\ [Next]_vars => FollowInv'
<1> SUFFICES ASSUME IInv, FollowInv, [Next]_vars PROVE FollowInv'
  OBVIOUS
<1>1. ASSUME NEW u \in Uids, NEW flag \in OfflineFlags, NEW content \in Contents, CreateContact(u, content, flag)
      PROVE  FollowInv'
  BY <1>1, CreateFollow
<1>2. ASSUME NEW u \in Uids, NEW flag \in OfflineFlags, NEW content \in Contents, NEW etag \in Stamps,
             NEW conflict \in Conflicts, ModifyContact(u, content, etag, flag, conflict)
      PROVE  FollowInv'
  BY <1>2, ModifyFollow
<1>3. ASSUME NEW u \in Uids, NEW flag \in OfflineFlags, NEW conflict \in Conflicts, RemoveContact(u, flag, conflict)
      PROVE  FollowInv'
  BY <1>3, RemoveFollow
<1>4. ASSUME NEW u \in Uids, GetContact(u) PROVE FollowInv'
  BY <1>4, GetFollow
<1>5. CASE ClientNext
  BY <1>1, <1>2, <1>3, <1>4, <1>5 DEF ClientNext
<1>6. ASSUME NEW u \in Uids, UploadChange(u) PROVE FollowInv'
  BY <1>6, UploadFollow
<1>7. ASSUME GetCTag PROVE FollowInv'
  <2>1. /\ UNCHANGED <<cacheVars, serverVars, kind, recreated>>
        /\ op' = Idle \/ op' = [op EXCEPT !.pc = "list", !.tag = ctag]
    BY <1>7 DEF GetCTag
  <2>2. op'.pc \in {"idle", "list"}
    BY <2>1, IdleIsOperation DEF IInv, TypeOK
  <2> QED
    BY <2>1, <2>2, NoRefresh, SteadyFollow
<1>8. CASE RefreshNext
  BY <1>6, <1>7, <1>8, StartFollow, ClearFollow, SyncCollectionFollow, ListContactsFollow, StoreFollow,
     LoadFollow DEF RefreshNext
<1>9. ASSUME NEW u \in Uids, OtherClient(u) PROVE FollowInv'
  BY <1>9, OtherClientFollow
<1>10. CASE Abort
  BY <1>10, GiveUpFollow DEF Abort
<1>11. CASE UNCHANGED vars
  <2>1. UNCHANGED <<cacheVars, serverVars, kind, recreated>> /\ op' = op /\ rows' = rows /\ server' = server
    BY <1>11 DEF vars, cacheVars, serverVars
  <2>2. \A v \in Followed : UploadedInv(v)' /\ ListedInv(v)'
    BY <2>1 DEF FollowInv, UidInv, UploadedInv, ListedInv, Agree, OnServer
  <2> QED
    BY <2>1, <2>2, SteadyFollow
<1> QED
  BY <1>5, <1>8, <1>9, <1>10, <1>11, StoreFollow DEF Next

\* What is said of the contacts which are followed holds in every state.
LEMMA FollowCorrect == ASSUME ~StaleClients PROVE Spec => []FollowInv
<1>1. Spec => []IInv
  BY InvCorrect
<1> QED
  BY <1>1, InitFollow, StepFollow, PTL DEF Spec

\* If the clients send the ETags the cache has, an equal sync tag means equal
\* content: when there are no offline changes and the server's tag is the stored
\* one, the cache shows each contact as the server has it, whatever failed or
\* changed in between.
THEOREM InSyncCorrect == ASSUME ~StaleClients PROVE Spec => []InSync
<1>1. IInv /\ FollowInv => InSync
  <2> SUFFICES ASSUME IInv, FollowInv, sync_tag = ctag, ChangedUids(rows) = {}, NEW u \in Followed
               PROVE  e_cache_get(rows, u).content = server[u].content
    BY DEF InSync, SameContent
  <2>1. u \in Uids /\ CacheInv(u) /\ rows \in Tables /\ TypeOK
    BY DEF Followed, FollowInv, UidInv, IInv, TypeOK
  <2>2. rows[u].state \in {"SYNCED", "UNKNOWN"}
    BY <2>1, ChangedAre, RowOrNone DEF OfflineStates, OfflineChangeStates
  <2>3. ~News(u)
    <3>1. server[u].stamp \in Nat /\ ctag \in Nat /\ server[u].stamp <= ctag
      BY <2>1, Parts DEF IInv, NumbersInv
    <3> QED
      BY <3>1 DEF News
  <2>4. Agree(u)
    BY <2>1, <2>2, <2>3 DEF CacheInv, SyncedInv
  <2>5. CASE OnServer(u)
    <3>1. rows[u] = Row("SYNCED", Contact(server[u].content, server[u].stamp))
      BY <2>4, <2>5 DEF Agree
    <3>2. e_cache_get(rows, u) = Contact(server[u].content, server[u].stamp)
      BY <3>1 DEF e_cache_get, e_cache_contains, Row
    <3> QED
      BY <3>2 DEF Contact
  <2>6. CASE ~OnServer(u)
    <3>1. rows[u] = NoRow
      BY <2>4, <2>6 DEF Agree
    <3>2. e_cache_get(rows, u) = NoContact
      BY <3>1 DEF e_cache_get, e_cache_contains, NoRow, Row
    <3> QED
      BY <2>6, <3>2 DEF NoContact, OnServer
  <2> QED
    BY <2>5, <2>6
<1>2. Spec => []FollowInv
  BY FollowCorrect
<1> QED
  BY <1>1, <1>2, InvCorrect, PTL

\* If the clients send the ETags the cache has, a refresh forgets about an offline
\* change only when it is uploaded, or in conflict with a version of the server
\* which the cache has not seen.
THEOREM UploadedCorrect == ASSUME ~StaleClients PROVE Spec => OfflineChangesUploaded
<1> DEFINE Uploaded ==
             op.pc = "upload" /\ op'.pc = "changes" =>
               \A u \in ChangedUids(rows) \cap Followed :
                  /\ rows[u].state # "LOCALLY_CREATED"
                  /\ OnServer(u) => server[u].stamp # rows[u].object.etag
<1>1. IInv /\ FollowInv /\ [Next]_vars => [Uploaded]_vars
  <2> SUFFICES ASSUME IInv, FollowInv, Next, op.pc = "upload", op'.pc = "changes",
                      NEW u \in ChangedUids(rows) \cap Followed
               PROVE  /\ rows[u].state # "LOCALLY_CREATED"
                      /\ OnServer(u) => server[u].stamp # rows[u].object.etag
    OBVIOUS
  <2>1. op # Idle /\ op' # Idle /\ op' # op
    BY IdleIsOperation
  <2>2. ~ClientNext
    <3>1. \A v, content, flag : ~CreateContact(v, content, flag)
      BY <2>1 DEF CreateContact
    <3>2. \A v, content, etag, flag, conflict : ~ModifyContact(v, content, etag, flag, conflict)
      BY <2>1 DEF ModifyContact
    <3>3. \A v, flag, conflict : ~RemoveContact(v, flag, conflict)
      BY <2>1 DEF RemoveContact
    <3>4. \A v : ~GetContact(v)
      BY <2>1 DEF GetContact
    <3> QED
      BY <3>1, <3>2, <3>3, <3>4 DEF ClientNext
  <2>3. ASSUME NEW v \in Uids PROVE ~UploadChange(v)
    <3> SUFFICES ASSUME UploadChange(v) PROVE FALSE
      OBVIOUS
    <3>1. PICK done : done = [op EXCEPT !.todo = @ \ {v}]
      OBVIOUS
    <3>2. done.pc = "upload"
      BY <3>1, Uploads
    <3>3. op' = done \/ op' = Idle \/ op' = [done EXCEPT !.pc = "load", !.uid = v, !.then = done.pc]
      BY <3>1, Uploads DEF Saved
    <3>4. done \in Operations
      BY <3>1, Uploads
    <3> QED
      BY <2>1, <3>2, <3>3, <3>4 DEF Operations
  <2>4. ClearOfflineChanges
    BY <2>1, <2>2, <2>3 DEF Next, RefreshNext, StartRefresh, SyncCollection, GetCTag, ListContacts,
                            ProcessChanges, LoadContact, ProcessPartly, Abort, OtherClient
  <2>5. op.todo = {} /\ UploadedInv(u)
    BY <2>4 DEF ClearOfflineChanges, FollowInv, UidInv
  <2>6. rows[u].state \in OfflineChangeStates
    BY ChangedAre DEF IInv, TypeOK
  <2> QED
    BY <2>5, <2>6 DEF UploadedInv, OfflineChangeStates
<1>2. Spec => []FollowInv
  BY FollowCorrect
<1> QED
  BY <1>1, <1>2, InvCorrect, PTL DEF Spec, OfflineChangesUploaded
=============================================================================
