------------------------------ MODULE BookCache ------------------------------
(***************************************************************************)
(* EBookCache (src/addressbook/libedata-book/e-book-cache.c): the ECache   *)
(* of an address book.  Beside the objects table it keeps                  *)
(*  - auxiliary tables with the values of the multi-value summary fields   *)
(*    (the emails), which the searches join with the objects table;        *)
(*  - the categories table, an ECacheKeys (src/libebackend/e-cache-keys.c) *)
(*    with a reference count per category, which feeds the list of         *)
(*    categories the book offers to its clients.                           *)
(* All three are written in one transaction, so each call is one step.     *)
(***************************************************************************)
EXTENDS Integers, FiniteSets

CONSTANTS
    Uids,
    Categories,
    Emails,
    MaxRefs      \* bound: references counted for one category

ASSUME UidsFinite == IsFiniteSet(Uids)
ASSUME MaxRefsAssumption == MaxRefs \in Nat /\ Cardinality(Uids) <= MaxRefs

Contacts == [categories: SUBSET Categories, emails: SUBSET Emails]
NoContact == [categories |-> {}]

INSTANCE ECacheObjects WITH Objects <- Contacts, NoObject <- NoContact

VARIABLES
    rows,              \* the objects table
    refs,              \* the categories table: Absent, or the reference count
    aux,               \* the auxiliary tables: the emails stored for a UID
    deletedOffline     \* history: a contact has been locally deleted

vars == <<rows, refs, aux, deletedOffline>>

\* e_cache_keys_get_current_refs() of a key which is not in the table.
Absent == -1

TypeOK ==
    /\ rows \in Tables
    /\ refs \in [Categories -> {Absent} \cup 0 .. MaxRefs]
    /\ aux \in [Uids -> SUBSET Emails]
    /\ deletedOffline \in BOOLEAN

-----------------------------------------------------------------------------
(* Mutations of the definitions below.                                     *)

\* Stores the increment instead of adding it to the present count.
OverwriteRefs(current, inc) == IF inc > 0 /\ current = 0 THEN 0 ELSE inc

\* Leaves a row with no references behind.
KeepUnreferenced(current, dec) ==
    IF current <= 0 THEN current ELSE IF current >= dec THEN current - dec ELSE 0

\* Deletes the rows before it looks for their auxiliary values.
ClearRowsFirst ==
    /\ rows' = e_cache_clear_offline_changes(rows)
    /\ aux' = [u \in Uids |-> IF rows'[u].state = "LOCALLY_DELETED" THEN {} ELSE aux[u]]
    /\ UNCHANGED <<refs, deletedOffline>>

-----------------------------------------------------------------------------
(* ECacheKeys.                                                             *)

\* e_cache_keys_put_sync(): the stored count; zero means "keep forever".
KeysPut(current, inc) ==
    IF inc > 0 /\ current = 0 THEN 0
    ELSE IF inc > 0 /\ current > 0 THEN current + inc
    ELSE inc

\* e_cache_keys_remove_sync(): a count which drops to zero deletes the row,
\* as does a call with no count at all.
KeysRemove(current, dec) ==
    IF current <= 0 THEN current
    ELSE IF dec > 0 /\ current > dec THEN current - dec
    ELSE Absent

-----------------------------------------------------------------------------
(* ebc_update_categories_table(): counts the difference between the old    *)
(* and the new contact; NoContact has no categories.                       *)
UpdateCategoriesTable(old, new) ==
    [c \in Categories |->
        IF c \in old.categories \ new.categories THEN KeysRemove(refs[c], 1)
        ELSE IF c \in new.categories \ old.categories THEN KeysPut(refs[c], 1)
        ELSE refs[c]]

\* The categories e_book_cache_dup_categories() returns.
dup_categories == {c \in Categories : refs[c] # Absent}

\* e_book_cache_get_contact(): finds no locally deleted contact.
get_contact(uid) == e_cache_get(rows, uid)

\* e_book_cache_put_locked(): the replaced contact is looked up only when
\* e_cache_put() found one to replace.
e_book_cache_put_contact(u, contact, flag) ==
    LET old == IF IsReplace(rows, u, flag) THEN get_contact(u) ELSE NoContact IN
    /\ \A c \in contact.categories : refs[c] < MaxRefs
    /\ rows' = e_cache_put(rows, u, contact, flag)
    /\ aux' = [aux EXCEPT ![u] = contact.emails]
    /\ refs' = UpdateCategoriesTable(old, contact)
    /\ UNCHANGED deletedOffline

\* e_book_cache_remove_locked() is run when the row is to be deleted;
\* otherwise e_cache_remove() only marks the row.
e_book_cache_remove_contact(u, flag) ==
    /\ CanRemove(rows, u, flag)
    /\ rows' = e_cache_remove(rows, u, flag)
    /\ IF RemovesRow(rows, u, flag)
       THEN /\ aux' = [aux EXCEPT ![u] = {}]
            /\ refs' = UpdateCategoriesTable(get_contact(u), NoContact)
            /\ UNCHANGED deletedOffline
       ELSE /\ deletedOffline' = TRUE
            /\ UNCHANGED <<aux, refs>>

\* e_cache_remove_all() with e_book_cache_remove_all_locked(), which is not
\* called when there are no rows.
e_book_cache_remove_all ==
    /\ rows' = e_cache_remove_all(rows)
    /\ IF rows = NoRows
       THEN UNCHANGED <<aux, refs, deletedOffline>>
       ELSE /\ aux' = [u \in Uids |-> {}]
            /\ refs' = [c \in Categories |-> Absent]
            /\ deletedOffline' = FALSE

\* e_book_cache_clear_offline_changes_locked(): the auxiliary values of the
\* locally deleted contacts first, then the rows.
e_book_cache_clear_offline_changes ==
    /\ aux' = [u \in Uids |-> IF rows[u].state = "LOCALLY_DELETED" THEN {} ELSE aux[u]]
    /\ rows' = e_cache_clear_offline_changes(rows)
    /\ UNCHANGED <<refs, deletedOffline>>

-----------------------------------------------------------------------------
\* The number of rows with a category.
Count(table, c) == Cardinality({u \in Uids : c \in table[u].object.categories})

(* A new cache is empty.  One written by an older version has rows but no  *)
(* categories: e_book_cache_migrate() counts them over all its rows, the   *)
(* locally deleted ones included.                                          *)
e_book_cache_migrate ==
    /\ rows \in Tables
    /\ refs = [c \in Categories |-> IF Count(rows, c) = 0 THEN Absent ELSE Count(rows, c)]

Init ==
    /\ e_book_cache_migrate
    /\ aux = [u \in Uids |-> IF rows[u] = NoRow THEN {} ELSE rows[u].object.emails]
    /\ deletedOffline = \E u \in Uids : rows[u].state = "LOCALLY_DELETED"

Next ==
    \/ \E u \in Uids, flag \in OfflineFlags :
          \/ \E contact \in Contacts : e_book_cache_put_contact(u, contact, flag)
          \/ e_book_cache_remove_contact(u, flag)
    \/ e_book_cache_remove_all
    \/ e_book_cache_clear_offline_changes

Spec == Init /\ [][Next]_vars

-----------------------------------------------------------------------------
(* Properties.                                                             *)

\* A category is counted at least once for each contact which uses it, so a
\* client is offered every category in use, whichever contacts are removed or
\* changed, online or offline.
UsedCategoriesListed ==
    \A c \in Categories :
        LET users == {u \in Uids : c \in get_contact(u).categories} IN
        users # {} => refs[c] >= Cardinality(users)

\* Every offered category is used by some contact, as long as no contact has
\* been removed while offline.
ListExactWithoutOfflineRemove ==
    ~deletedOffline => \A c \in dup_categories : \E u \in Uids : c \in get_contact(u).categories

\* The auxiliary tables hold the emails of each stored contact and of nothing
\* else: a search by email neither misses a contact nor finds a removed one.
AuxMatchesRows ==
    \A u \in Uids : aux[u] = IF rows[u] = NoRow THEN {} ELSE rows[u].object.emails
=============================================================================
