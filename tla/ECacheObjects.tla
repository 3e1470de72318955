---------------------------- MODULE ECacheObjects ----------------------------
(***************************************************************************)
(* The objects table of ECache (src/libebackend/e-cache.c) and the calls   *)
(* that read and write it, as operators on the value of the table.  Every  *)
(* module that keeps a cache builds its actions from these operators.      *)
(*                                                                         *)
(* A table is a function from UIDs to rows.  A row has the offline state   *)
(* and the stored object; the object stands for the columns a caller       *)
(* passes to e_cache_put() together: revision, object and other columns.   *)
(* A UID without a row has the state UNKNOWN, which is what                *)
(* e_cache_get_offline_state() returns for it.                             *)
(***************************************************************************)
CONSTANTS
    Uids,       \* unique identifiers of the objects
    Objects,    \* what can be stored under a UID
    NoObject    \* "there is no object"

ASSUME NoObjectAssumption == NoObject \notin Objects

OfflineStates == {"UNKNOWN", "SYNCED", "LOCALLY_CREATED", "LOCALLY_MODIFIED",
                  "LOCALLY_DELETED"}
OfflineFlags == {"IS_ONLINE", "IS_OFFLINE"}

Row(state, object) == [state |-> state, object |-> object]
NoRow == Row("UNKNOWN", NoObject)
NoRows == [u \in Uids |-> NoRow]

\* The tables: an object is stored exactly where there is a row.
Tables == {rows \in [Uids -> [state: OfflineStates, object: Objects \cup {NoObject}]] :
             \A u \in Uids : rows[u].state = "UNKNOWN" <=> rows[u].object = NoObject}

IncludeDeleted == "INCLUDE_DELETED"
ExcludeDeleted == "EXCLUDE_DELETED"

e_cache_contains(rows, uid, deleted_flag) ==
    /\ rows[uid].state # "UNKNOWN"
    /\ deleted_flag = ExcludeDeleted => rows[uid].state # "LOCALLY_DELETED"

\* What a reader sees: e_cache_get() and the searches skip the rows which
\* are marked as locally deleted.
e_cache_get(rows, uid) ==
    IF e_cache_contains(rows, uid, ExcludeDeleted) THEN rows[uid].object ELSE NoObject

Visible(rows) == [u \in Uids |-> e_cache_get(rows, u)]

-----------------------------------------------------------------------------
(* Mutations of the operators below, each a plausible slip in the code.    *)

\* Forgets that an object created offline stays "created" until uploaded.
ForgetCreatedState(rows, uid, offline_flag) ==
    IF offline_flag = "IS_ONLINE" THEN "SYNCED"
    ELSE IF e_cache_contains(rows, uid, IncludeDeleted) THEN "LOCALLY_MODIFIED"
    ELSE "LOCALLY_CREATED"

\* Resets the state of a removed object, but leaves the object in its place.
LeaveObject(rows, uid, offline_flag) ==
    IF offline_flag = "IS_ONLINE" \/ rows[uid].state = "LOCALLY_CREATED"
    THEN [rows EXCEPT ![uid].state = "UNKNOWN"]
    ELSE [rows EXCEPT ![uid].state = "LOCALLY_DELETED"]

\* Marks everything as synchronized, the locally deleted objects too.
ReviveDeletedRows(rows) ==
    [u \in Uids |-> IF rows[u].state = "UNKNOWN" THEN NoRow
                    ELSE Row("SYNCED", rows[u].object)]

-----------------------------------------------------------------------------
(* The offline state e_cache_put() stores.                                 *)
PutState(rows, uid, offline_flag) ==
    IF offline_flag = "IS_ONLINE" THEN "SYNCED"
    ELSE IF ~e_cache_contains(rows, uid, IncludeDeleted) THEN "LOCALLY_CREATED"
    ELSE IF rows[uid].state = "LOCALLY_CREATED" THEN "LOCALLY_CREATED"
    ELSE "LOCALLY_MODIFIED"

\* The is_replace argument of the "before-put" signal and of put_locked().
IsReplace(rows, uid, offline_flag) ==
    e_cache_contains(rows, uid, IF offline_flag = "IS_ONLINE" THEN ExcludeDeleted
                                ELSE IncludeDeleted)

e_cache_put(rows, uid, object, offline_flag) ==
    [rows EXCEPT ![uid] = Row(PutState(rows, uid, offline_flag), object)]

\* Removing in offline fails for an object which is not in the cache.
CanRemove(rows, uid, offline_flag) ==
    offline_flag = "IS_OFFLINE" => rows[uid].state # "UNKNOWN"

\* Whether e_cache_remove() calls remove_locked(), rather than marking the row.
RemovesRow(rows, uid, offline_flag) ==
    offline_flag = "IS_ONLINE" \/ rows[uid].state = "LOCALLY_CREATED"

e_cache_remove(rows, uid, offline_flag) ==
    IF RemovesRow(rows, uid, offline_flag)
    THEN [rows EXCEPT ![uid] = NoRow]
    ELSE [rows EXCEPT ![uid].state = "LOCALLY_DELETED"]

e_cache_remove_all(rows) == NoRows

OfflineChangeStates == {"LOCALLY_CREATED", "LOCALLY_MODIFIED", "LOCALLY_DELETED"}

e_cache_get_offline_changes(rows) ==
    {[uid |-> u, state |-> rows[u].state, object |-> rows[u].object] :
        u \in {v \in Uids : rows[v].state \in OfflineChangeStates}}

e_cache_clear_offline_changes(rows) ==
    [u \in Uids |-> IF rows[u].state \in {"UNKNOWN", "LOCALLY_DELETED"} THEN NoRow
                    ELSE Row("SYNCED", rows[u].object)]
=============================================================================
