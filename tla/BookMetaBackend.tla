--------------------------- MODULE BookMetaBackend ---------------------------
(***************************************************************************)
(* EBookMetaBackend (src/addressbook/libedata-book/e-book-meta-backend.c)  *)
(* with the CardDAV backend                                                *)
(* (src/addressbook/backends/carddav/e-book-backend-carddav.c): a cache of *)
(* the contacts of a server, which the clients change online or offline    *)
(* and which a refresh synchronizes with the server.                       *)
(*                                                                         *)
(* The operations of a backend are run one at a time (see                  *)
(* BookBackendQueue), so one thread is modelled.  Each request to the      *)
(* server is a step; between two of them other clients change the server,  *)
(* the connection breaks or the process dies.  The cache is an ECache, see *)
(* ECacheObjects; a refresh changes it in a single transaction.            *)
(*                                                                         *)
(* The server numbers its changes: the number of the last change of a      *)
(* resource is its ETag, and the number of the last change at all is both  *)
(* the CTag and the sync token of the collection.                          *)
(***************************************************************************)
EXTENDS Integers, FiniteSets

CONSTANTS
    LocalUids,     \* UIDs the clients of this backend make up
    RemoteUids,    \* UIDs other clients of the server make up
    Contents,      \* what a contact says
    Conflicts,     \* EConflictResolution values the clients use
    StaleClients,  \* whether clients send back contacts they read long ago
    MaxChanges,    \* bound: changes of the server, the uploads included
    None

Uids == LocalUids \cup RemoteUids

ASSUME UidsAssumption == LocalUids \cap RemoteUids = {} /\ IsFiniteSet(Uids)
ASSUME ContentsAssumption == None \notin Contents
ASSUME ConflictsAssumption == Conflicts \subseteq {"FAIL", "KEEP_SERVER", "KEEP_LOCAL"}
ASSUME ClientsAssumption == StaleClients \in BOOLEAN
ASSUME MaxChangesAssumption == MaxChanges \in Nat \ {0}

Stamps == 0 .. MaxChanges
NoEtag == 0

\* A contact, as a client or the cache has it, carries its ETag with it.
Contacts == [content: Contents, etag: Stamps]
NoContact == [content |-> None]
Contact(content, etag) == [content |-> content, etag |-> etag]

INSTANCE ECacheObjects WITH Objects <- Contacts, NoObject <- NoContact

VARIABLES
    rows,          \* the cached contacts
    extra,         \* the UIDs whose href is stored in the cache
    sync_tag,      \* EBMB_KEY_SYNC_TAG; zero when there is none
    server,        \* per UID: the content, or None, and the last change
    ctag,          \* the number of changes of the server
    op,            \* the operation in progress
    supports_sync_collection,
    reliable,      \* whether each change the server made is answered
    recreated      \* history: UIDs removed and then created again, both offline

cacheVars == <<rows, extra, sync_tag>>
serverVars == <<server, ctag>>
kind == <<supports_sync_collection, reliable>>
vars == <<cacheVars, serverVars, op, kind, recreated>>

(* op: pc; uid, what is to be loaded, and the pc after that; todo, the     *)
(* changes to be uploaded; tag, removed and wanted, what get_changes_sync() *)
(* has found out so far.                                                   *)
Idle == [pc |-> "idle", uid |-> None, then |-> "idle", todo |-> {}, tag |-> 0,
         removed |-> {}, wanted |-> {}]

TypeOK ==
    /\ rows \in Tables
    /\ extra \in SUBSET Uids
    /\ sync_tag \in Stamps
    /\ server \in [Uids -> [content: Contents \cup {None}, stamp: Stamps]]
    /\ ctag \in Stamps
    /\ op \in [pc: {"idle", "load", "upload", "changes", "list", "multiget"},
               uid: Uids \cup {None}, then: {"idle", "upload"}, todo: SUBSET Uids, tag: Stamps,
               removed: SUBSET Uids, wanted: SUBSET Uids]
    /\ supports_sync_collection \in BOOLEAN
    /\ reliable \in BOOLEAN
    /\ recreated \in SUBSET Uids

Init ==
    /\ rows = NoRows
    /\ extra = {}
    /\ sync_tag = 0
    /\ server = [u \in Uids |-> [content |-> None, stamp |-> 0]]
    /\ ctag = 1
    /\ op = Idle
    /\ supports_sync_collection \in BOOLEAN
    /\ reliable \in BOOLEAN
    /\ recreated = {}

OnServer(u) == server[u].content # None
IsVisible(u) == e_cache_contains(rows, u, ExcludeDeleted)
ChangedUids(table) == {c.uid : c \in e_cache_get_offline_changes(table)}

\* Leaves room for the upload of the offline changes.
Room(table) == ctag + Cardinality(ChangedUids(table)) < MaxChanges

-----------------------------------------------------------------------------
(* The requests to the server.                                             *)

\* If-Match with the ETag, or "If-None-Match: *" when there is none.
Precondition(u, etag) ==
    IF etag = NoEtag THEN ~OnServer(u) ELSE OnServer(u) /\ server[u].stamp = etag

ServerChange(u, content) ==
    /\ server' = [server EXCEPT ![u] = [content |-> content, stamp |-> ctag + 1]]
    /\ ctag' = ctag + 1

\* ebb_carddav_save_contact_sync(): what comes of saving a contact.  With
\* KEEP_SERVER a conflict is pretended to be a success.
save_contact_sync(u, etag, overwrite, conflict) ==
    IF overwrite /\ u \notin extra THEN "INVALID_ARG"
    ELSE IF \/ overwrite /\ conflict = "KEEP_LOCAL"
            \/ Precondition(u, IF overwrite THEN etag ELSE NoEtag) THEN "OK"
    ELSE IF overwrite /\ conflict = "KEEP_SERVER" THEN "PRETENDED"
    ELSE "OUT_OF_SYNC"

\* ebb_carddav_remove_contact_sync(): If-Match is used only with FAIL.
remove_contact_sync(u, conflict) ==
    IF u \notin extra THEN "INVALID_ARG"
    ELSE IF ~OnServer(u) THEN "NOT_FOUND"
    ELSE IF conflict = "FAIL" /\ rows[u].object.etag \notin {NoEtag, server[u].stamp}
    THEN "OUT_OF_SYNC"
    ELSE "OK"

-----------------------------------------------------------------------------
(* The cache.                                                              *)

\* ebmb_put_contact() of a contact which was just loaded, with its href.
PutLoaded(u, content, etag) ==
    /\ rows' = e_cache_put(rows, u, Contact(content, etag), "IS_ONLINE")
    /\ extra' = extra \cup {u}
    /\ UNCHANGED sync_tag

\* ebmb_maybe_remove_from_cache(): only what can be seen is removed.
RemoveFromCache(u, flag) ==
    /\ rows' = IF IsVisible(u) THEN e_cache_remove(rows, u, flag) ELSE rows
    /\ extra' = {v \in extra : rows'[v] # NoRow}
    /\ UNCHANGED sync_tag

\* ebb_carddav_multiget_from_sets_sync(): a contact which has been removed
\* since it was listed is not sent, and skipped.
Sent(wanted) == {u \in wanted : OnServer(u)}

\* e_book_meta_backend_process_changes_sync(): the removals first, then the
\* contacts the server sent.
Processed(removed, wanted) ==
    /\ rows' = [u \in Uids |->
                  IF u \in Sent(wanted)
                  THEN Row("SYNCED", Contact(server[u].content, server[u].stamp))
                  ELSE IF u \in removed /\ IsVisible(u) THEN NoRow ELSE rows[u]]
    /\ extra' = {u \in extra \cup wanted : rows'[u] # NoRow}

\* ebmb_save_contact_wrapper_sync() after the server accepted the contact.  It
\* is loaded back: from the answer to the request when that has a strong ETag,
\* else with a request of its own.  The answer may also be lost, which ends the
\* operation.
Saved(u, content, after) ==
    /\ ServerChange(u, content)
    /\ \/ /\ PutLoaded(u, content, ctag + 1)
          /\ op' = after
       \/ /\ op' = [after EXCEPT !.pc = "load", !.uid = u, !.then = after.pc]
          /\ UNCHANGED cacheVars
       \/ /\ ~reliable
          /\ op' = Idle
          /\ UNCHANGED cacheVars

\* ebmb_load_contact_wrapper_sync() with a request: fails when another client
\* has removed the contact meanwhile, which ends the operation.
LoadContact ==
    /\ op.pc = "load"
    /\ IF OnServer(op.uid)
       THEN /\ PutLoaded(op.uid, server[op.uid].content, server[op.uid].stamp)
            /\ op' = [op EXCEPT !.pc = op.then, !.uid = None, !.then = "idle"]
       ELSE /\ op' = Idle
            /\ UNCHANGED cacheVars
    /\ UNCHANGED <<serverVars, kind, recreated>>

-----------------------------------------------------------------------------
(* The clients' operations.  Connecting decides about the offline flag.    *)

\* ebmb_create_contact_sync(): in offline the contact has no href, also when it
\* takes the place of a locally deleted one.
CreateContact(u, content, flag) ==
    /\ op = Idle
    /\ ~IsVisible(u)
    /\ IF flag = "IS_ONLINE"
       THEN /\ Room(rows)
            /\ save_contact_sync(u, NoEtag, FALSE, "FAIL") = "OK"
            /\ Saved(u, content, Idle)
            /\ UNCHANGED recreated
       ELSE /\ rows' = e_cache_put(rows, u, Contact(content, NoEtag), flag)
            /\ Room(rows')
            /\ extra' = extra \ {u}
            /\ recreated' = IF rows[u] = NoRow THEN recreated ELSE recreated \cup {u}
            /\ UNCHANGED <<sync_tag, serverVars, op>>
    /\ UNCHANGED kind

\* ebmb_modify_contact_sync().  When the save was only pretended the contact
\* of the client is put into the cache, as it is in offline.
ModifyContact(u, content, etag, flag, conflict) ==
    LET result == save_contact_sync(u, etag, TRUE, conflict) IN
    /\ op = Idle
    /\ IsVisible(u)
    /\ etag = rows[u].object.etag \/ (StaleClients /\ etag < ctag)
    /\ \/ /\ flag = "IS_ONLINE" /\ result = "OK"
          /\ Room(rows)
          /\ Saved(u, content, Idle)
       \/ /\ flag = "IS_OFFLINE" \/ result = "PRETENDED"
          /\ rows' = e_cache_put(rows, u, Contact(content, etag), flag)
          /\ Room(rows')
          /\ UNCHANGED <<extra, sync_tag, serverVars, op>>
    /\ UNCHANGED <<kind, recreated>>

\* ebmb_remove_contact_sync().
RemoveContact(u, flag, conflict) ==
    LET result == IF flag = "IS_OFFLINE" \/ rows[u].state = "LOCALLY_CREATED" THEN "LOCAL"
                  ELSE remove_contact_sync(u, conflict) IN
    /\ op = Idle
    /\ IsVisible(u)
    /\ result \in {"LOCAL", "NOT_FOUND", "OK"}
    /\ IF result = "OK" THEN Room(rows) /\ ServerChange(u, None)
       ELSE UNCHANGED serverVars
    /\ \/ RemoveFromCache(u, flag) /\ Room(rows')
       \/ ~reliable /\ result = "OK" /\ UNCHANGED cacheVars
    /\ UNCHANGED <<op, kind, recreated>>

\* ebmb_get_contact_sync() of a contact which cannot be seen in the cache: it
\* is looked for on the server, unless the CTag says that nothing changed, which
\* it need not say when the sync tag is a sync token.
GetContact(u) ==
    /\ op = Idle
    /\ ~IsVisible(u)
    /\ sync_tag # ctag \/ supports_sync_collection
    /\ OnServer(u)
    /\ PutLoaded(u, server[u].content, server[u].stamp)
    /\ UNCHANGED <<serverVars, op, kind, recreated>>

-----------------------------------------------------------------------------
(* Mutations of the actions below.                                         *)

\* Forgets about the offline changes also when their upload has failed.
ClearRegardless ==
    /\ op.pc = "upload"
    /\ rows' = e_cache_clear_offline_changes(rows)
    /\ extra' = {u \in extra : rows'[u] # NoRow}
    /\ op' = [op EXCEPT !.pc = "changes", !.todo = {}]
    /\ UNCHANGED <<sync_tag, serverVars, kind, recreated>>

\* Stores the tag the server has when the changes are stored.
TagAtTheEnd ==
    /\ op.pc = "multiget"
    /\ Processed(op.removed, op.wanted)
    /\ sync_tag' = ctag
    /\ op' = Idle
    /\ UNCHANGED <<serverVars, kind, recreated>>

\* Uploads with the default conflict resolution.
UploadFails == "FAIL"

-----------------------------------------------------------------------------
(* ebmb_refresh_internal_sync().                                           *)

UploadConflict == "KEEP_SERVER"

\* The refresh timeout has come, or a client has asked for it, and the server
\* is connected; the offline changes are read from the cache.
StartRefresh ==
    /\ op = Idle
    /\ op' = [Idle EXCEPT !.pc = "upload", !.todo = ChangedUids(rows)]
    /\ UNCHANGED <<cacheVars, serverVars, kind, recreated>>

\* ebmb_upload_local_changes_sync(): the upload of one change.  What cannot be
\* saved for ever is given up; any other error ends the refresh.
UploadChange(u) ==
    LET state == rows[u].state
        done == [op EXCEPT !.todo = @ \ {u}]
        result == IF state = "LOCALLY_DELETED" THEN remove_contact_sync(u, UploadConflict)
                  ELSE save_contact_sync(u, rows[u].object.etag, state = "LOCALLY_MODIFIED",
                                         UploadConflict) IN
    /\ op.pc = "upload" /\ u \in op.todo
    /\ \/ /\ result = "OK" /\ state # "LOCALLY_DELETED"
          /\ Saved(u, rows[u].object.content, done)
       \/ /\ result = "OK" /\ state = "LOCALLY_DELETED"
          /\ ServerChange(u, None)
          /\ op' = done \/ (~reliable /\ op' = Idle)
          /\ UNCHANGED cacheVars
       \/ /\ result = "INVALID_ARG" /\ state # "LOCALLY_DELETED"
          /\ RemoveFromCache(u, "IS_ONLINE")
          /\ op' = done
          /\ UNCHANGED serverVars
       \/ /\ \/ result \in {"PRETENDED", "NOT_FOUND"}
             \/ result = "INVALID_ARG" /\ state = "LOCALLY_DELETED"
          /\ op' = done
          /\ UNCHANGED <<cacheVars, serverVars>>
       \/ /\ result = "OUT_OF_SYNC"
          /\ op' = Idle
          /\ UNCHANGED <<cacheVars, serverVars>>
    /\ UNCHANGED <<kind, recreated>>

\* Everything is uploaded: e_cache_clear_offline_changes().
ClearOfflineChanges ==
    /\ op.pc = "upload" /\ op.todo = {}
    /\ rows' = e_cache_clear_offline_changes(rows)
    /\ extra' = {u \in extra : rows'[u] # NoRow}
    /\ op' = [op EXCEPT !.pc = "changes"]
    /\ UNCHANGED <<sync_tag, serverVars, kind, recreated>>

\* ebb_carddav_search_changes_cb() over the contacts which can be seen, given
\* the resources the server has told about.
Compare(known, consider_removed, gone) ==
    LET cached == {u \in Uids : IsVisible(u) /\ (u \in extra \/ rows[u].state # "LOCALLY_CREATED")}
        found == {u \in cached : u \in extra /\ u \in known}
    IN [removed |-> {u \in cached \ found : consider_removed \/ u \in gone},
        wanted  |-> {u \in found : rows[u].object.etag # server[u].stamp} \cup (known \ found)]

Listed(known, consider_removed, gone, tag) ==
    LET changes == Compare(known, consider_removed, gone) IN
    op' = [op EXCEPT !.pc = "multiget", !.tag = tag, !.removed = changes.removed,
                     !.wanted = changes.wanted]

\* ebb_carddav_get_changes_sync() with the sync-collection report: what
\* changed since the sync token, or everything when there is none, when the sync
\* tag is a CTag or when the server does not take the token any more.
SyncCollection ==
    /\ op.pc = "changes" /\ supports_sync_collection
    /\ \E token \in {sync_tag, 0} :
          LET since == {u \in Uids : server[u].stamp > token} IN
          Listed({u \in since : OnServer(u)}, token = 0, {u \in since : ~OnServer(u)}, ctag)
    /\ UNCHANGED <<cacheVars, serverVars, kind, recreated>>

\* Without that report, or when it fails: the CTag first, and the list when it
\* has changed.  A sync token can differ from the CTag of the same state.
GetCTag ==
    /\ op.pc = "changes"
    /\ \/ /\ ctag = sync_tag
          /\ op' = Idle
       \/ /\ ctag # sync_tag \/ supports_sync_collection
          /\ op' = [op EXCEPT !.pc = "list", !.tag = ctag]
    /\ UNCHANGED <<cacheVars, serverVars, kind, recreated>>

ListContacts ==
    /\ op.pc = "list"
    /\ Listed({u \in Uids : OnServer(u)}, TRUE, {}, op.tag)
    /\ UNCHANGED <<cacheVars, serverVars, kind, recreated>>

\* The new and the changed contacts are requested and put into the cache; this
\* and the new sync tag are committed together.
ProcessChanges ==
    /\ op.pc = "multiget"
    /\ Processed(op.removed, op.wanted)
    /\ sync_tag' = op.tag
    /\ op' = Idle
    /\ UNCHANGED <<serverVars, kind, recreated>>

\* Processing the changes fails half way.  What has been processed is committed
\* all the same, without the new sync tag.
ProcessPartly ==
    /\ op.pc = "multiget"
    /\ \E removed \in SUBSET op.removed, wanted \in SUBSET op.wanted :
          /\ wanted # {} => removed = op.removed
          /\ Processed(removed, wanted)
    /\ op' = Idle
    /\ UNCHANGED <<sync_tag, serverVars, kind, recreated>>

\* A request fails, the operation is cancelled or the process dies.
Abort ==
    /\ op # Idle
    /\ op.pc = "load" => ~reliable
    /\ op' = Idle
    /\ UNCHANGED <<cacheVars, serverVars, kind, recreated>>

-----------------------------------------------------------------------------
\* Other clients of the server.
OtherClient(u) ==
    /\ Room(rows)
    /\ \/ /\ u \in RemoteUids \/ OnServer(u)
          /\ \E content \in Contents : ServerChange(u, content)
       \/ OnServer(u) /\ ServerChange(u, None)
    /\ UNCHANGED <<cacheVars, op, kind, recreated>>

ClientNext ==
    \/ \E u \in Uids, flag \in OfflineFlags :
          \/ \E content \in Contents :
                \/ u \in LocalUids /\ CreateContact(u, content, flag)
                \/ \E etag \in Stamps, conflict \in Conflicts :
                      ModifyContact(u, content, etag, flag, conflict)
          \/ \E conflict \in Conflicts : RemoveContact(u, flag, conflict)
    \/ \E u \in Uids : GetContact(u)

RefreshNext ==
    \/ StartRefresh
    \/ \E u \in Uids : UploadChange(u)
    \/ ClearOfflineChanges
    \/ SyncCollection
    \/ GetCTag
    \/ ListContacts
    \/ ProcessChanges
    \/ LoadContact

Next ==
    \/ ClientNext
    \/ RefreshNext
    \/ ProcessPartly
    \/ Abort
    \/ \E u \in Uids : OtherClient(u)

(* The source's refresh timeout starts one refresh after another.          *)
Fairness == WF_vars(RefreshNext)

Spec == Init /\ [][Next]_vars /\ Fairness

-----------------------------------------------------------------------------
(* Properties.                                                             *)

\* The contacts which were not removed and created again.
Followed == Uids \ recreated

SameContent == \A u \in Followed : e_cache_get(rows, u).content = server[u].content

\* The sync tag tells the truth: when it is the one the server has, and there
\* are no offline changes, the cache shows what the server has.  A refresh
\* which finds the tag unchanged, and therefore does nothing, misses nothing.
InSync ==
    op = Idle /\ sync_tag = ctag /\ ChangedUids(rows) = {} => SameContent

\* When a refresh forgets about the offline changes, each one has been
\* uploaded: what is left of them are removals the server has made, and
\* conflicts with a version the cache has not seen.
OfflineChangesUploaded ==
    [][op.pc = "upload" /\ op'.pc = "changes" =>
         \A u \in ChangedUids(rows) \cap Followed :
            /\ rows[u].state # "LOCALLY_CREATED"
            /\ OnServer(u) => server[u].stamp # rows[u].object.etag]_vars

\* When from some time on there are only refreshes, which all get their
\* answers, then the cache and the server become the same and stay so: no
\* conflict and no interrupted refresh stops the synchronization for ever,
\* unless a contact was removed and created again.
RefreshSynchronizes ==
    []<><<~RefreshNext>>_vars \/ ([](reliable /\ recreated = {}) => <>[](ChangedUids(rows) = {} /\ SameContent))

\* What the comment at the pretended success says: a refresh which gets to its
\* end, while nobody changes the server, leaves the server's version in the
\* cache.
UpdatedByRefresh ==
    [][(GetCTag \/ ProcessChanges) /\ op' = Idle /\ sync_tag' = ctag => SameContent']_vars
=============================================================================
