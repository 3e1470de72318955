-------------------------- MODULE AddressBookProofs --------------------------
(***************************************************************************)
(* Proofs about what a backend of an address book keeps and shows:         *)
(* BookCache for any UIDs, categories and emails, and BookView for any     *)
(* contacts and contents and any number of starts, stops and changes.      *)
(***************************************************************************)
EXTENDS BookCache, BookView, FiniteSetTheorems, SequenceTheorems, WellFoundedInduction, TLAPS

(* ---- the objects table of contacts ---- *)

\* "No contact" is not a contact.
LEMMA NoContactIsNone == NoContact \notin Contacts
<1> SUFFICES ASSUME NoContact \in Contacts PROVE FALSE
  OBVIOUS
<1>1. "emails" \in DOMAIN NoContact
  BY DEF Contacts
<1>2. "emails" \notin DOMAIN NoContact
  BY DEF NoContact
<1> QED
  BY <1>1, <1>2

\* A row is there exactly when it has a state.
LEMMA RowOrNone ==
    ASSUME NEW table \in Tables, NEW u \in Uids
    PROVE  /\ table[u] \in [state: OfflineStates, object: Contacts \cup {NoContact}]
           /\ table[u] = NoRow <=> table[u].state = "UNKNOWN"
           /\ table[u].state # "UNKNOWN" => table[u].object \in Contacts
BY DEF Tables, NoRow, Row

\* e_cache_put() stores the contact where a reader finds it, and nothing else changes.
LEMMA PutRows ==
    ASSUME NEW table \in Tables, NEW u \in Uids, NEW contact \in Contacts, NEW flag \in OfflineFlags,
           NEW new, new = e_cache_put(table, u, contact, flag)
    PROVE  /\ new \in Tables
           /\ new[u].object = contact /\ new[u].state \notin {"UNKNOWN", "LOCALLY_DELETED"}
           /\ \A v \in Uids \ {u} : new[v] = table[v]
<1>1. PutState(table, u, flag) \in OfflineStates \ {"UNKNOWN", "LOCALLY_DELETED"}
  BY DEF PutState, OfflineStates
<1>2. contact # NoContact
  BY NoContactIsNone
<1> QED
  BY <1>1, <1>2 DEF Tables, e_cache_put, Row

\* e_cache_remove() takes the contact away from the readers.
LEMMA RemoveRows ==
    ASSUME NEW table \in Tables, NEW u \in Uids, NEW flag \in OfflineFlags, CanRemove(table, u, flag),
           NEW new, new = e_cache_remove(table, u, flag)
    PROVE  /\ new \in Tables
           /\ RemovesRow(table, u, flag) => new[u] = NoRow
           /\ ~RemovesRow(table, u, flag) => /\ table[u].state # "UNKNOWN"
                                             /\ new[u].object = table[u].object
                                             /\ new[u].state = "LOCALLY_DELETED"
           /\ \A v \in Uids \ {u} : new[v] = table[v]
BY DEF Tables, e_cache_remove, RemovesRow, CanRemove, NoRow, Row, OfflineStates, OfflineFlags

\* e_cache_clear_offline_changes() keeps what the readers find.
LEMMA ClearRows ==
    ASSUME NEW table \in Tables, NEW new, new = e_cache_clear_offline_changes(table)
    PROVE  /\ new \in Tables
           /\ \A v \in Uids : IF table[v].state \in {"UNKNOWN", "LOCALLY_DELETED"} THEN new[v] = NoRow
                              ELSE new[v].state = "SYNCED" /\ new[v].object = table[v].object
BY DEF Tables, e_cache_clear_offline_changes, NoRow, Row, OfflineStates

\* A new cache, or one whose rows were all removed, is a well formed table.
LEMMA NoRowsTable == NoRows \in Tables
BY DEF Tables, NoRows, NoRow, Row, OfflineStates

-----------------------------------------------------------------------------
(* ---- the counts of the categories ---- *)

\* The contacts which a reader finds in a category.
Users(table, c) == {u \in Uids : c \in e_cache_get(table, u).categories}

\* No category is kept for ever, and each is counted at least once for a user.
CountInv ==
    \A c \in Categories :
        /\ refs[c] # 0
        /\ Users(rows, c) # {} => refs[c] >= Cardinality(Users(rows, c))

\* The counts are exact as long as no contact has been removed while offline.
ExactInv ==
    ~deletedOffline => \A c \in Categories :
        refs[c] = IF Users(rows, c) = {} THEN Absent ELSE Cardinality(Users(rows, c))

\* The contacts which use a category can be counted, and there are at most as many as UIDs.
LEMMA UsersFinite ==
    ASSUME NEW table, NEW c
    PROVE  IsFiniteSet(Users(table, c)) /\ Cardinality(Users(table, c)) \in Nat
           /\ Cardinality(Users(table, c)) <= Cardinality(Uids) /\ Cardinality(Uids) \in Nat
<1>1. Users(table, c) \in SUBSET Uids
  BY DEF Users
<1> QED
  BY <1>1, UidsFinite, FS_Subset, FS_CardinalityType

\* The users after the row of one UID has changed.
LEMMA UsersMove ==
    ASSUME NEW old, NEW new, NEW u \in Uids, NEW c,
           \A v \in Uids \ {u} : new[v] = old[v]
    PROVE  Users(new, c) = IF c \in e_cache_get(new, u).categories THEN Users(old, c) \cup {u}
                           ELSE Users(old, c) \ {u}
BY DEF Users, e_cache_get, e_cache_contains

\* What the count of a category becomes.
LEMMA KeysStep ==
    ASSUME NEW current \in {Absent} \cup Nat, current # 0
    PROVE  /\ KeysPut(current, 1) = IF current = Absent THEN 1 ELSE current + 1
           /\ KeysRemove(current, 1) = IF current <= 1 THEN Absent ELSE current - 1
BY DEF KeysPut, KeysRemove, Absent

\* ebc_update_categories_table() counts the row of one UID over: with the contact
\* a reader found before and the one it finds now, the count of each category
\* follows its users.
LEMMA CategoriesMove ==
    ASSUME TypeOK, CountInv, NEW u \in Uids, NEW new, \A v \in Uids \ {u} : new[v] = rows[v],
           NEW contact, e_cache_get(new, u).categories = contact.categories,
           NEW c \in Categories,
           NEW r, r = UpdateCategoriesTable(get_contact(u), contact)[c]
    PROVE  /\ r \in {Absent} \cup (Nat \ {0})
           /\ Users(new, c) # {} => r >= Cardinality(Users(new, c))
           /\ \/ r <= refs[c]
              \/ c \in contact.categories /\ (r = refs[c] + 1 \/ r = 1)
           /\ refs[c] = (IF Users(rows, c) = {} THEN Absent ELSE Cardinality(Users(rows, c))) =>
              r = (IF Users(new, c) = {} THEN Absent ELSE Cardinality(Users(new, c)))
<1> DEFINE was == c \in get_contact(u).categories
           is == c \in contact.categories
           old == Users(rows, c)
           now == Users(new, c)
<1>1. refs[c] \in {Absent} \cup Nat /\ refs[c] # 0
  BY MaxRefsAssumption DEF TypeOK, CountInv
<1>2. old # {} => refs[c] >= Cardinality(old)
  BY DEF CountInv
<1>3. now = IF is THEN old \cup {u} ELSE old \ {u}
  BY UsersMove
<1>4. was <=> u \in old
  BY DEF Users, get_contact
<1>5. r = IF was /\ ~is THEN KeysRemove(refs[c], 1) ELSE IF is /\ ~was THEN KeysPut(refs[c], 1) ELSE refs[c]
  BY DEF UpdateCategoriesTable
<1>6. IsFiniteSet(old) /\ Cardinality(old) \in Nat
  BY UsersFinite
<1> HIDE DEF was, is, old, now
<1>7. CASE was /\ ~is
  <2>1. now = old \ {u} /\ Cardinality(now) = Cardinality(old) - 1 /\ Cardinality(old) # 0
    BY <1>3, <1>4, <1>6, <1>7, FS_RemoveElement, FS_EmptySet
  <2>2. IsFiniteSet(now)
    BY <1>6, <2>1, FS_RemoveElement
  <2>3. now = {} <=> Cardinality(now) = 0
    BY <2>2, FS_EmptySet
  <2>4. r = IF refs[c] <= 1 THEN Absent ELSE refs[c] - 1
    BY <1>1, <1>5, <1>7, KeysStep
  <2>5. old # {} /\ refs[c] >= Cardinality(old)
    BY <1>2, <1>4, <1>7
  <2> QED
    BY <1>1, <1>6, <2>1, <2>3, <2>4, <2>5 DEF old, now, Absent
<1>8. CASE is /\ ~was
  <2>1. now = old \cup {u} /\ Cardinality(now) = Cardinality(old) + 1 /\ now # {}
    BY <1>3, <1>4, <1>6, <1>8, FS_AddElement
  <2>2. r = IF refs[c] = Absent THEN 1 ELSE refs[c] + 1
    BY <1>1, <1>5, <1>8, KeysStep
  <2>3. old = {} <=> Cardinality(old) = 0
    BY <1>6, FS_EmptySet
  <2> QED
    BY <1>1, <1>2, <1>6, <1>8, <2>1, <2>2, <2>3 DEF old, now, is, Absent
<1>9. CASE was <=> is
  <2>1. now = old /\ r = refs[c]
    BY <1>3, <1>4, <1>5, <1>9
  <2> QED
    BY <1>1, <1>2, <1>6, <2>1 DEF old, now, Absent
<1> QED
  BY <1>7, <1>8, <1>9

\* The row which put looks up as replaced is the one a reader found, if any.
LEMMA ReplacedIsVisible ==
    ASSUME NEW table \in Tables, NEW u \in Uids, NEW flag \in OfflineFlags
    PROVE  ~IsReplace(table, u, flag) => e_cache_get(table, u) = NoContact
BY DEF IsReplace, e_cache_get, e_cache_contains, ExcludeDeleted, IncludeDeleted, OfflineFlags

\* Storing a contact.
LEMMA PutStep ==
    ASSUME TypeOK, CountInv, ExactInv, AuxMatchesRows,
           NEW u \in Uids, NEW flag \in OfflineFlags, NEW contact \in Contacts,
           e_book_cache_put_contact(u, contact, flag)
    PROVE  TypeOK' /\ CountInv' /\ ExactInv' /\ AuxMatchesRows'
<1>1. rows \in Tables /\ refs \in [Categories -> {Absent} \cup 0 .. MaxRefs]
      /\ aux \in [Uids -> SUBSET Emails] /\ deletedOffline \in BOOLEAN
  BY DEF TypeOK
<1>2. /\ rows' = e_cache_put(rows, u, contact, flag)
      /\ aux' = [aux EXCEPT ![u] = contact.emails]
      /\ refs' = UpdateCategoriesTable(get_contact(u), contact)
      /\ deletedOffline' = deletedOffline
      /\ \A c \in contact.categories : refs[c] < MaxRefs
  BY <1>1, ReplacedIsVisible DEF e_book_cache_put_contact, get_contact
<1>3. /\ rows' \in Tables
      /\ rows'[u].object = contact /\ rows'[u].state \notin {"UNKNOWN", "LOCALLY_DELETED"}
      /\ \A v \in Uids \ {u} : rows'[v] = rows[v]
  BY <1>1, <1>2, PutRows
<1>4. e_cache_get(rows', u).categories = contact.categories /\ contact.emails \subseteq Emails
  BY <1>3 DEF e_cache_get, e_cache_contains, Contacts
<1>5. MaxRefs \in Nat /\ MaxRefs >= 1
  <2>1. Cardinality(Uids) # 0 /\ Cardinality(Uids) \in Nat
    BY UidsFinite, FS_EmptySet, FS_CardinalityType
  <2> QED
    BY <2>1, MaxRefsAssumption
<1>6. ASSUME NEW c \in Categories
      PROVE  /\ refs'[c] \in {Absent} \cup 1 .. MaxRefs
             /\ Users(rows', c) # {} => refs'[c] >= Cardinality(Users(rows', c))
             /\ refs[c] = (IF Users(rows, c) = {} THEN Absent ELSE Cardinality(Users(rows, c))) =>
                refs'[c] = (IF Users(rows', c) = {} THEN Absent ELSE Cardinality(Users(rows', c)))
  <2>1. refs[c] \in {Absent} \cup 0 .. MaxRefs
    BY <1>1
  <2>2. /\ refs'[c] \in {Absent} \cup (Nat \ {0})
        /\ \/ refs'[c] <= refs[c]
           \/ c \in contact.categories /\ (refs'[c] = refs[c] + 1 \/ refs'[c] = 1)
    BY <1>2, <1>3, <1>4, CategoriesMove
  <2>3. refs'[c] \in {Absent} \cup 1 .. MaxRefs
    BY <1>2, <1>5, <2>1, <2>2 DEF Absent
  <2> QED
    BY <1>2, <1>3, <1>4, <2>3, CategoriesMove
<1>7. TypeOK'
  <2>1. refs' \in [Categories -> {Absent} \cup 0 .. MaxRefs]
    <3>1. \A c \in Categories : refs'[c] \in {Absent} \cup 0 .. MaxRefs
      BY <1>6
    <3> QED
      BY <1>2, <3>1 DEF UpdateCategoriesTable
  <2> QED
    BY <1>1, <1>2, <1>3, <1>4, <2>1 DEF TypeOK
<1>8. CountInv'
  BY <1>6 DEF CountInv, Absent
<1>9. ExactInv'
  BY <1>2, <1>6 DEF ExactInv
<1>10. AuxMatchesRows'
  <2>1. rows'[u] # NoRow
    BY <1>3, RowOrNone
  <2> QED
    BY <1>1, <1>2, <1>3, <2>1 DEF AuxMatchesRows
<1> QED
  BY <1>7, <1>8, <1>9, <1>10

\* Removing a contact, or marking it as removed.
LEMMA RemoveStep ==
    ASSUME TypeOK, CountInv, ExactInv, AuxMatchesRows,
           NEW u \in Uids, NEW flag \in OfflineFlags, e_book_cache_remove_contact(u, flag)
    PROVE  TypeOK' /\ CountInv' /\ ExactInv' /\ AuxMatchesRows'
<1>1. rows \in Tables /\ refs \in [Categories -> {Absent} \cup 0 .. MaxRefs]
      /\ aux \in [Uids -> SUBSET Emails] /\ deletedOffline \in BOOLEAN
      /\ MaxRefs \in Nat
  BY MaxRefsAssumption DEF TypeOK
<1>2. /\ CanRemove(rows, u, flag) /\ rows' = e_cache_remove(rows, u, flag)
      /\ RemovesRow(rows, u, flag) =>
           /\ aux' = [aux EXCEPT ![u] = {}] /\ deletedOffline' = deletedOffline
           /\ refs' = UpdateCategoriesTable(get_contact(u), NoContact)
      /\ ~RemovesRow(rows, u, flag) => deletedOffline' = TRUE /\ UNCHANGED <<aux, refs>>
  BY DEF e_book_cache_remove_contact
<1>3. /\ rows' \in Tables
      /\ RemovesRow(rows, u, flag) => rows'[u] = NoRow
      /\ ~RemovesRow(rows, u, flag) => /\ rows[u].state # "UNKNOWN"
                                       /\ rows'[u].object = rows[u].object
                                       /\ rows'[u].state = "LOCALLY_DELETED"
      /\ \A v \in Uids \ {u} : rows'[v] = rows[v]
  BY <1>1, <1>2, RemoveRows
<1>4. e_cache_get(rows', u) = NoContact /\ NoContact.categories = {}
  BY <1>3 DEF e_cache_get, e_cache_contains, NoContact, NoRow, Row, ExcludeDeleted
<1>5. CASE RemovesRow(rows, u, flag)
  <2>1. ASSUME NEW c \in Categories
        PROVE  /\ refs'[c] \in {Absent} \cup 1 .. MaxRefs
               /\ Users(rows', c) # {} => refs'[c] >= Cardinality(Users(rows', c))
               /\ refs[c] = (IF Users(rows, c) = {} THEN Absent ELSE Cardinality(Users(rows, c))) =>
                  refs'[c] = (IF Users(rows', c) = {} THEN Absent ELSE Cardinality(Users(rows', c)))
    <3>1. refs[c] \in {Absent} \cup 0 .. MaxRefs
      BY <1>1
    <3>2. /\ refs'[c] \in {Absent} \cup (Nat \ {0})
          /\ refs'[c] <= refs[c]
      BY <1>2, <1>3, <1>4, <1>5, CategoriesMove
    <3>3. refs'[c] \in {Absent} \cup 1 .. MaxRefs
      BY <1>1, <3>1, <3>2 DEF Absent
    <3> QED
      BY <1>2, <1>3, <1>4, <1>5, <3>3, CategoriesMove
  <2>2. TypeOK'
    <3>1. refs' \in [Categories -> {Absent} \cup 0 .. MaxRefs]
      <4>1. \A c \in Categories : refs'[c] \in {Absent} \cup 0 .. MaxRefs
        BY <2>1
      <4> QED
        BY <1>2, <1>5, <4>1 DEF UpdateCategoriesTable
    <3> QED
      BY <1>1, <1>2, <1>3, <1>5, <3>1 DEF TypeOK
  <2>3. CountInv' /\ ExactInv'
    BY <1>2, <1>5, <2>1 DEF CountInv, ExactInv, Absent
  <2>4. AuxMatchesRows'
    BY <1>1, <1>2, <1>3, <1>5 DEF AuxMatchesRows
  <2> QED
    BY <2>2, <2>3, <2>4
<1>6. CASE ~RemovesRow(rows, u, flag)
  <2>1. TypeOK' /\ ExactInv'
    BY <1>1, <1>2, <1>3, <1>6 DEF TypeOK, ExactInv
  <2>2. CountInv'
    <3> SUFFICES ASSUME NEW c \in Categories
                 PROVE  /\ refs[c] # 0
                        /\ Users(rows', c) # {} => refs[c] >= Cardinality(Users(rows', c))
      BY <1>2, <1>6 DEF CountInv
    <3>1. Users(rows', c) = Users(rows, c) \ {u}
      BY <1>3, <1>4, UsersMove
    <3>2. Cardinality(Users(rows', c)) <= Cardinality(Users(rows, c))
          /\ (Users(rows', c) # {} => Users(rows, c) # {})
      BY <3>1, UsersFinite, FS_RemoveElement
    <3>3. refs[c] \in Int
      BY <1>1 DEF Absent
    <3> QED
      BY <3>2, <3>3, UsersFinite DEF CountInv
  <2>3. AuxMatchesRows'
    <3>1. rows[u] # NoRow /\ rows'[u] # NoRow
      BY <1>1, <1>3, <1>6, RowOrNone
    <3> QED
      BY <1>1, <1>2, <1>3, <1>6, <3>1 DEF AuxMatchesRows
  <2> QED
    BY <2>1, <2>2, <2>3
<1> QED
  BY <1>5, <1>6

\* Emptying the cache.
LEMMA RemoveAllStep ==
    ASSUME TypeOK, CountInv, ExactInv, AuxMatchesRows, e_book_cache_remove_all
    PROVE  TypeOK' /\ CountInv' /\ ExactInv' /\ AuxMatchesRows'
<1>1. rows' = NoRows
  BY DEF e_book_cache_remove_all, e_cache_remove_all
<1>2. CASE rows = NoRows
  BY <1>1, <1>2 DEF e_book_cache_remove_all, TypeOK, CountInv, ExactInv, AuxMatchesRows
<1>3. CASE rows # NoRows
  <2>1. aux' = [u \in Uids |-> {}] /\ refs' = [c \in Categories |-> Absent] /\ deletedOffline' = FALSE
    BY <1>3 DEF e_book_cache_remove_all
  <2>2. \A c : Users(rows', c) = {}
    BY <1>1 DEF Users, NoRows, NoRow, Row, e_cache_get, e_cache_contains, NoContact
  <2>3. TypeOK'
    BY <1>1, <2>1, NoRowsTable DEF TypeOK
  <2>4. CountInv' /\ ExactInv'
    BY <2>1, <2>2 DEF CountInv, ExactInv, Absent
  <2>5. AuxMatchesRows'
    BY <1>1, <2>1 DEF AuxMatchesRows, NoRows
  <2> QED
    BY <2>3, <2>4, <2>5
<1> QED
  BY <1>2, <1>3

\* Taking the offline changes as synchronized.
LEMMA ClearStep ==
    ASSUME TypeOK, CountInv, ExactInv, AuxMatchesRows, e_book_cache_clear_offline_changes
    PROVE  TypeOK' /\ CountInv' /\ ExactInv' /\ AuxMatchesRows'
<1>1. rows \in Tables /\ aux \in [Uids -> SUBSET Emails]
  BY DEF TypeOK
<1>2. /\ rows' = e_cache_clear_offline_changes(rows) /\ UNCHANGED <<refs, deletedOffline>>
      /\ aux' = [u \in Uids |-> IF rows[u].state = "LOCALLY_DELETED" THEN {} ELSE aux[u]]
  BY DEF e_book_cache_clear_offline_changes
<1>3. /\ rows' \in Tables
      /\ \A v \in Uids : IF rows[v].state \in {"UNKNOWN", "LOCALLY_DELETED"} THEN rows'[v] = NoRow
                         ELSE rows'[v].state = "SYNCED" /\ rows'[v].object = rows[v].object
  BY <1>1, <1>2, ClearRows
<1>4. \A v \in Uids : e_cache_get(rows', v) = e_cache_get(rows, v)
  BY <1>3 DEF e_cache_get, e_cache_contains, NoRow, Row, ExcludeDeleted
<1>5. \A c : Users(rows', c) = Users(rows, c)
  BY <1>4 DEF Users
<1>6. TypeOK'
  BY <1>1, <1>2, <1>3 DEF TypeOK
<1>7. CountInv' /\ ExactInv'
  BY <1>2, <1>5 DEF CountInv, ExactInv
<1>8. AuxMatchesRows'
  <2> SUFFICES ASSUME NEW v \in Uids
               PROVE  aux'[v] = IF rows'[v] = NoRow THEN {} ELSE rows'[v].object.emails
    BY DEF AuxMatchesRows
  <2>1. aux[v] = IF rows[v] = NoRow THEN {} ELSE rows[v].object.emails
    BY DEF AuxMatchesRows
  <2>2. (rows[v] = NoRow <=> rows[v].state = "UNKNOWN") /\ (rows'[v] = NoRow <=> rows'[v].state = "UNKNOWN")
    BY <1>1, <1>3, RowOrNone
  <2> QED
    BY <1>2, <1>3, <2>1, <2>2
<1> QED
  BY <1>6, <1>7, <1>8

-----------------------------------------------------------------------------
(* ---- the theorems ---- *)

IInv == TypeOK /\ CountInv /\ ExactInv /\ AuxMatchesRows

\* e_book_cache_migrate() counts the rows of the old cache.
LEMMA InitIInv == Init => IInv
<1> SUFFICES ASSUME Init PROVE IInv
  OBVIOUS
<1>1. /\ rows \in Tables
      /\ refs = [c \in Categories |-> IF Count(rows, c) = 0 THEN Absent ELSE Count(rows, c)]
      /\ aux = [u \in Uids |-> IF rows[u] = NoRow THEN {} ELSE rows[u].object.emails]
      /\ deletedOffline = \E u \in Uids : rows[u].state = "LOCALLY_DELETED"
  BY Zenon DEF Init, e_book_cache_migrate
<1>2. ASSUME NEW c \in Categories
      PROVE  /\ Count(rows, c) \in 0 .. MaxRefs
             /\ Cardinality(Users(rows, c)) <= Count(rows, c)
             /\ Users(rows, c) # {} => Count(rows, c) # 0
             /\ ~deletedOffline => Count(rows, c) = Cardinality(Users(rows, c))
  <2> DEFINE all == {u \in Uids : c \in rows[u].object.categories}
  <2>1. all \in SUBSET Uids
    OBVIOUS
  <2>2. IsFiniteSet(all) /\ Cardinality(all) <= Cardinality(Uids)
        /\ Cardinality(all) \in Nat /\ Cardinality(Uids) \in Nat
    BY <2>1, UidsFinite, FS_Subset, FS_CardinalityType
  <2>3. Users(rows, c) \in SUBSET all
    BY DEF Users, e_cache_get, NoContact
  <2>4. /\ Cardinality(Users(rows, c)) <= Cardinality(all)
        /\ Users(rows, c) # {} => Cardinality(all) # 0
    BY <2>2, <2>3, FS_Subset, FS_EmptySet
  <2>5. ~deletedOffline => Users(rows, c) = all
    <3> SUFFICES ASSUME ~deletedOffline PROVE \A u \in Uids : rows[u].object = e_cache_get(rows, u)
      BY DEF Users
    <3>1. \A u \in Uids : rows[u].state # "LOCALLY_DELETED"
      BY <1>1, Zenon
    <3> QED
      BY <1>1, <3>1 DEF e_cache_get, e_cache_contains, ExcludeDeleted, Tables
  <2>6. Count(rows, c) = Cardinality(all)
    BY DEF Count
  <2> HIDE DEF all
  <2> QED
    BY <2>2, <2>4, <2>5, <2>6, MaxRefsAssumption
<1>3. TypeOK
  <2>1. refs \in [Categories -> {Absent} \cup 0 .. MaxRefs]
    BY <1>1, <1>2
  <2>2. aux \in [Uids -> SUBSET Emails]
    BY <1>1, RowOrNone DEF Contacts
  <2>3. deletedOffline \in BOOLEAN
    BY <1>1, Zenon
  <2> QED
    BY <1>1, <2>1, <2>2, <2>3 DEF TypeOK
<1>4. CountInv
  <2> SUFFICES ASSUME NEW c \in Categories
               PROVE  /\ refs[c] # 0
                      /\ Users(rows, c) # {} => refs[c] >= Cardinality(Users(rows, c))
    BY DEF CountInv
  <2>1. refs[c] = IF Count(rows, c) = 0 THEN Absent ELSE Count(rows, c)
    BY <1>1
  <2> QED
    BY <1>2, <2>1, UsersFinite DEF Absent
<1>5. ExactInv
  <2> SUFFICES ASSUME ~deletedOffline, NEW c \in Categories
               PROVE  refs[c] = IF Users(rows, c) = {} THEN Absent ELSE Cardinality(Users(rows, c))
    BY DEF ExactInv
  <2>1. refs[c] = IF Count(rows, c) = 0 THEN Absent ELSE Count(rows, c)
    BY <1>1
  <2>2. Users(rows, c) = {} <=> Cardinality(Users(rows, c)) = 0
    BY UsersFinite, FS_EmptySet
  <2> QED
    BY <1>2, <2>1, <2>2
<1>6. AuxMatchesRows
  BY <1>1 DEF AuxMatchesRows
<1> QED
  BY <1>3, <1>4, <1>5, <1>6 DEF IInv

\* Each call keeps the counts, the auxiliary tables and the types consistent.
LEMMA NextIInv == IInv /\ [Next]_vars => IInv'
<1> SUFFICES ASSUME IInv, [Next]_vars PROVE IInv'
  OBVIOUS
<1>1. CASE Next
  BY <1>1, PutStep, RemoveStep, RemoveAllStep, ClearStep DEF IInv, Next
<1>2. CASE UNCHANGED vars
  BY <1>2 DEF vars, IInv, TypeOK, CountInv, ExactInv, AuxMatchesRows
<1> QED
  BY <1>1, <1>2

\* So they are consistent after any history of calls.
LEMMA SpecIInv == Spec => []IInv
<1>1. Init => IInv
  BY InitIInv
<1>2. IInv /\ [Next]_vars => IInv'
  BY NextIInv
<1> QED
  BY <1>1, <1>2, PTL DEF Spec

\* The tables of EBookCache have their types; the bound on the counts admits every
\* table an older version can have left.
THEOREM TypeCorrect == Spec => []TypeOK
<1>1. IInv => TypeOK
  BY DEF IInv
<1> QED
  BY <1>1, SpecIInv, PTL

\* Whatever is stored, replaced, removed, marked as removed or taken as synchronized,
\* in any order, no category which a visible contact has is missing in the list.
THEOREM UsedCorrect == Spec => []UsedCategoriesListed
<1>1. IInv => UsedCategoriesListed
  <2> SUFFICES ASSUME IInv, NEW c \in Categories PROVE Users(rows, c) # {} => refs[c] >= Cardinality(Users(rows, c))
    BY DEF UsedCategoriesListed, Users, get_contact
  <2> QED
    BY DEF IInv, CountInv
<1> QED
  BY <1>1, SpecIInv, PTL

\* As long as no contact has been removed while offline, every category in the list
\* is the category of a contact a reader finds.
THEOREM ListCorrect == Spec => []ListExactWithoutOfflineRemove
<1>1. IInv => ListExactWithoutOfflineRemove
  <2> SUFFICES ASSUME IInv, ~deletedOffline, NEW c \in dup_categories PROVE Users(rows, c) # {}
    BY DEF ListExactWithoutOfflineRemove, Users, get_contact
  <2> QED
    BY DEF IInv, ExactInv, dup_categories
<1> QED
  BY <1>1, SpecIInv, PTL

\* The auxiliary tables have the emails of exactly the stored contacts.
THEOREM AuxCorrect == Spec => []AuxMatchesRows
<1>1. IInv => AuxMatchesRows
  BY DEF IInv
<1> QED
  BY <1>1, SpecIInv, PTL

-----------------------------------------------------------------------------
(* ---- batches ---- *)

\* A set of positions of a batch which is not empty has a last one.
LEMMA LastPosition ==
    ASSUME NEW n \in Nat, NEW I \in SUBSET (1 .. n), I # {}
    PROVE  Max(I) \in I /\ \A i \in I : i <= Max(I)
<1> DEFINE R == OpToRel(<, Nat)
           T == {n - i : i \in I}
<1>1. IsWellFoundedOn(R, Nat)
  BY NatLessThanWellFounded
<1>2. \A i, j \in Nat : ~ (<<i, j>> \in R) => j =< i
  BY DEF OpToRel
<1>3. T \in SUBSET Nat /\ T # {}
  <2>1. \A i \in I : n - i \in Nat
    OBVIOUS
  <2> QED
    BY <2>1
<1> HIDE DEF R
<1>4. PICK x \in T : \A y \in T : ~ (<<y, x>> \in R)
  BY <1>1, <1>3, WFMin
<1>5. \A y \in T : x =< y
  BY <1>2, <1>3, <1>4
<1>6. PICK m \in I : x = n - m
  OBVIOUS
<1>7. ASSUME NEW i \in I PROVE m >= i
  <2>1. n - i \in T
    OBVIOUS
  <2>2. n - m <= n - i
    BY <1>5, <1>6, <2>1
  <2> QED
    BY <2>2
<1>8. \E y \in I : \A z \in I : y >= z
  BY <1>7
<1>9. Max(I) \in I /\ \A z \in I : Max(I) >= z
  BY <1>8 DEF Max
<1> QED
  BY <1>9

\* A batch does not concern the contacts it has no notification about.
LEMMA ReceiveOther ==
    ASSUME NEW k, NEW b, NEW u \in BookUids, About(u, b) = {}
    PROVE  Receive(k, b)[u] = k[u]
BY DEF Receive

\* Of the others a client knows what one of the notifications tells.
LEMMA ReceiveAbout ==
    ASSUME NEW k, NEW b \in Seq(Note), NEW u \in BookUids, About(u, b) # {}
    PROVE  \E i \in 1 .. Len(b) : b[i].uid = u /\ Receive(k, b)[u] = b[i].content
<1>1. Len(b) \in Nat /\ About(u, b) \in SUBSET (1 .. Len(b))
  BY LenProperties DEF About
<1>2. Max(About(u, b)) \in About(u, b)
  BY <1>1, LastPosition
<1>3. Receive(k, b)[u] = b[Max(About(u, b))].content
  BY DEF Receive
<1> QED
  BY <1>2, <1>3 DEF About

\* What a client knows stays of its type.
LEMMA ReceiveType ==
    ASSUME NEW k \in [BookUids -> Known], NEW b \in Seq(Note)
    PROVE  Receive(k, b) \in [BookUids -> Known]
<1> SUFFICES ASSUME NEW u \in BookUids PROVE Receive(k, b)[u] \in Known
  BY DEF Receive
<1>1. ASSUME NEW i \in 1 .. Len(b) PROVE b[i].content \in Known
  <2>1. b[i] \in Note
    BY ElementOfSeq
  <2> QED
    BY <2>1 DEF Note
<1> QED
  BY <1>1, ReceiveOther, ReceiveAbout

\* An empty batch tells nothing.
LEMMA ReceiveNothing ==
    ASSUME NEW k \in [BookUids -> Known]
    PROVE  Receive(k, <<>>) = k
<1>1. \A u \in BookUids : About(u, <<>>) = {}
  BY DEF About
<1> QED
  BY <1>1 DEF Receive

\* The last notification of a batch has the last word.
LEMMA ReceiveAppend ==
    ASSUME NEW k \in [BookUids -> Known], NEW b \in Seq(Note), NEW n \in Note
    PROVE  Receive(k, Append(b, n)) = [Receive(k, b) EXCEPT ![n.uid] = n.content]
<1> DEFINE r == Append(b, n)
<1>1. /\ r \in Seq(Note) /\ Len(r) = Len(b) + 1 /\ Len(b) \in Nat
      /\ \A i \in 1 .. Len(b) : r[i] = b[i]
      /\ r[Len(b) + 1] = n
  BY AppendProperties, LenProperties
<1>2. n.uid \in BookUids
  BY DEF Note
<1> HIDE DEF r
<1> SUFFICES ASSUME NEW u \in BookUids
             PROVE  Receive(k, r)[u] = IF u = n.uid THEN n.content ELSE Receive(k, b)[u]
  BY <1>2 DEF Receive, r
<1>3. CASE u = n.uid
  <2>1. Len(b) + 1 \in About(u, r) /\ About(u, r) \in SUBSET (1 .. Len(b) + 1)
    BY <1>1, <1>3 DEF About
  <2>2. Max(About(u, r)) \in About(u, r) /\ \A i \in About(u, r) : i <= Max(About(u, r))
    <3>1. Len(b) + 1 \in Nat /\ About(u, r) # {}
      BY <1>1, <2>1
    <3> QED
      BY <2>1, <3>1, LastPosition
  <2>3. Max(About(u, r)) = Len(b) + 1
    BY <1>1, <2>1, <2>2
  <2> QED
    BY <1>1, <1>3, <2>1, <2>3 DEF Receive
<1>4. CASE u # n.uid
  <2>1. About(u, r) = About(u, b)
    BY <1>1, <1>4 DEF About
  <2>2. CASE About(u, b) = {}
    BY <1>4, <2>1, <2>2 DEF Receive
  <2>3. CASE About(u, b) # {}
    <3>1. Max(About(u, b)) \in 1 .. Len(b)
      BY <1>1, <2>3, LastPosition DEF About
    <3> QED
      BY <1>1, <1>4, <2>1, <2>3, <3>1 DEF Receive
  <2> QED
    BY <2>2, <2>3
<1> QED
  BY <1>3, <1>4

\* What a client which knows k knows when a batch has been sent if it is full.
Sent(k, b, limit) == IF Len(b) = limit THEN Receive(k, b) ELSE k

\* A notification joins a batch, or a new one when the client has been sent the
\* full one.
LEMMA JoinedBatch ==
    ASSUME NEW k \in [BookUids -> Known], NEW b \in Seq(Note), NEW limit \in Nat, limit > 0,
           Len(b) <= limit, NEW n \in Note
    PROVE  /\ Sent(k, b, limit) \in [BookUids -> Known]
           /\ Joined(b, limit, n) \in Seq(Note)
           /\ Joined(b, limit, n) # <<>>
           /\ Len(Joined(b, limit, n)) <= limit
           /\ Receive(Sent(k, b, limit), Joined(b, limit, n)) = [Receive(k, b) EXCEPT ![n.uid] = n.content]
<1>1. CASE Len(b) = limit
  <2>1. Joined(b, limit, n) = <<n>> /\ <<n>> = Append(<<>>, n)
    BY <1>1 DEF Joined
  <2>2. Receive(k, b) \in [BookUids -> Known]
    BY ReceiveType
  <2>3. Receive(Receive(k, b), Append(<<>>, n)) = [Receive(k, b) EXCEPT ![n.uid] = n.content]
    <3> DEFINE e == <<>>
    <3>1. e \in Seq(Note)
      BY EmptySeq
    <3>2. Receive(Receive(k, b), e) = Receive(k, b)
      BY <2>2, ReceiveNothing
    <3> HIDE DEF e
    <3>3. Receive(Receive(k, b), Append(e, n)) = [Receive(k, b) EXCEPT ![n.uid] = n.content]
      BY <2>2, <3>1, <3>2, ReceiveAppend
    <3> QED
      BY <3>3 DEF e
  <2> QED
    BY <1>1, <2>1, <2>2, <2>3 DEF Sent
<1>2. CASE Len(b) # limit
  <2>1. Joined(b, limit, n) = Append(b, n)
    BY <1>2 DEF Joined
  <2>2. /\ Append(b, n) \in Seq(Note) /\ Len(Append(b, n)) = Len(b) + 1 /\ Len(b) \in Nat
        /\ Append(b, n) # <<>>
    BY AppendProperties, LenProperties
  <2> QED
    BY <1>2, <2>1, <2>2, ReceiveAppend DEF Sent
<1> QED
  BY <1>1, <1>2

\* All in it but the new one were there before, and have not been sent.
LEMMA JoinedFrom ==
    ASSUME NEW k, NEW b \in Seq(Note), NEW limit \in Nat, NEW n \in Note,
           NEW i \in 1 .. Len(Joined(b, limit, n)), Joined(b, limit, n)[i] # n
    PROVE  /\ b # <<>> /\ Sent(k, b, limit) = k
           /\ \E j \in 1 .. Len(b) : Joined(b, limit, n)[i] = b[j]
<1>1. CASE Len(b) = limit
  BY <1>1 DEF Joined
<1>2. CASE Len(b) # limit
  <2>1. Joined(b, limit, n) = Append(b, n) /\ Sent(k, b, limit) = k
    BY <1>2 DEF Joined, Sent
  <2>2. /\ Len(Append(b, n)) = Len(b) + 1 /\ Len(b) \in Nat
        /\ \A j \in 1 .. Len(b) : Append(b, n)[j] = b[j]
        /\ Append(b, n)[Len(b) + 1] = n
    BY AppendProperties, LenProperties
  <2>3. i \in 1 .. Len(b)
    BY <2>1, <2>2
  <2> QED
    BY <2>1, <2>2, <2>3, EmptySeq
<1> QED
  BY <1>1, <1>2

-----------------------------------------------------------------------------
(* ---- what is sent applies ---- *)

\* The types of what is under pending_mutex.
PendingTypes ==
    /\ ids \in SUBSET BookUids
    /\ adds \in Seq(Note) /\ 2 * Len(adds) <= THRESHOLD_ITEMS
    /\ changes \in Seq(Note) /\ Len(changes) <= THRESHOLD_ITEMS
    /\ removes \in Seq(Note) /\ Len(removes) <= THRESHOLD_ITEMS
    /\ flush \in BOOLEAN
    /\ client \in [BookUids -> Known]

\* One array at most has notifications, for contacts which the client does not
\* know yet or does know; the ids are those it will know, and the timeout is set.
BatchInv ==
    /\ adds # <<>> => changes = <<>> /\ removes = <<>>
    /\ changes # <<>> => removes = <<>>
    /\ \A i \in 1 .. Len(adds) : adds[i].content # None /\ client[adds[i].uid] = None
    /\ \A i \in 1 .. Len(changes) : changes[i].content # None /\ client[changes[i].uid] # None
    /\ \A i \in 1 .. Len(removes) : removes[i].content = None /\ client[removes[i].uid] # None
    /\ ids = {u \in BookUids : Flushed[u] # None}
    /\ ~flush => adds = <<>> /\ changes = <<>> /\ removes = <<>>

\* A batch of adds has two strings for each contact.
LEMMA Threshold ==
    /\ THRESHOLD_ITEMS \div 2 \in Nat /\ THRESHOLD_ITEMS \div 2 > 0
    /\ \A x \in Nat : 2 * x <= THRESHOLD_ITEMS <=> x <= THRESHOLD_ITEMS \div 2
BY ThresholdAssumption

\* Sending everything is sending the array which has something.
LEMMA FlushedIs ==
    ASSUME PendingTypes
    PROVE  /\ Flushed \in [BookUids -> Known]
           /\ changes = <<>> /\ removes = <<>> => Flushed = Receive(client, adds)
           /\ adds = <<>> /\ removes = <<>> => Flushed = Receive(client, changes)
           /\ adds = <<>> /\ changes = <<>> => Flushed = Receive(client, removes)
<1>1. /\ Receive(client, adds) \in [BookUids -> Known]
      /\ Receive(Receive(client, adds), changes) \in [BookUids -> Known]
  BY ReceiveType DEF PendingTypes
<1>2. Flushed \in [BookUids -> Known]
  BY <1>1, ReceiveType DEF PendingTypes, Flushed
<1>3. client \in [BookUids -> Known]
  BY DEF PendingTypes
<1>4. ASSUME changes = <<>>, removes = <<>> PROVE Flushed = Receive(client, adds)
  BY <1>1, <1>4, ReceiveNothing DEF Flushed
<1>5. ASSUME adds = <<>>, removes = <<>> PROVE Flushed = Receive(client, changes)
  BY <1>1, <1>3, <1>5, ReceiveNothing DEF Flushed
<1>6. ASSUME adds = <<>>, changes = <<>> PROVE Flushed = Receive(client, removes)
  BY <1>3, <1>6, ReceiveNothing DEF Flushed
<1> QED
  BY <1>2, <1>4, <1>5, <1>6

\* The same in the next state.
LEMMA FlushedIsNext ==
    ASSUME PendingTypes'
    PROVE  /\ Flushed' \in [BookUids -> Known]
           /\ changes' = <<>> /\ removes' = <<>> => Flushed' = Receive(client', adds')
           /\ adds' = <<>> /\ removes' = <<>> => Flushed' = Receive(client', changes')
           /\ adds' = <<>> /\ changes' = <<>> => Flushed' = Receive(client', removes')
<1>1. /\ Receive(client', adds') \in [BookUids -> Known]
      /\ Receive(Receive(client', adds'), changes') \in [BookUids -> Known]
  BY ReceiveType DEF PendingTypes
<1>2. Flushed' = Receive(Receive(Receive(client', adds'), changes'), removes')
  BY DEF Flushed, Receive, About
<1>3. Flushed' \in [BookUids -> Known]
  BY <1>1, <1>2, ReceiveType DEF PendingTypes
<1>4. client' \in [BookUids -> Known]
  BY DEF PendingTypes
<1>5. ASSUME changes' = <<>>, removes' = <<>> PROVE Flushed' = Receive(client', adds')
  BY <1>1, <1>2, <1>5, ReceiveNothing
<1>6. ASSUME adds' = <<>>, removes' = <<>> PROVE Flushed' = Receive(client', changes')
  BY <1>1, <1>2, <1>4, <1>6, ReceiveNothing
<1>7. ASSUME adds' = <<>>, changes' = <<>> PROVE Flushed' = Receive(client', removes')
  BY <1>2, <1>4, <1>7, ReceiveNothing
<1> QED
  BY <1>3, <1>5, <1>6, <1>7

\* SendAll: the client gets what it was about to get.
LEMMA SendAllStep ==
    ASSUME PendingTypes, BatchInv, SendAll, ids' = ids, flush' \in BOOLEAN
    PROVE  PendingTypes' /\ BatchInv' /\ Flushed' = Flushed
<1>1. client' = Flushed /\ adds' = <<>> /\ changes' = <<>> /\ removes' = <<>>
  BY DEF SendAll
<1>2. Flushed \in [BookUids -> Known]
  BY FlushedIs
<1>3. <<>> \in Seq(Note) /\ Len(<<>>) = 0
  BY EmptySeq
<1>4. PendingTypes'
  BY <1>1, <1>2, <1>3, ThresholdAssumption DEF PendingTypes
<1>5. Flushed' = Flushed
  BY <1>1, <1>2, <1>4, FlushedIsNext, ReceiveNothing
<1> QED
  BY <1>1, <1>3, <1>4, <1>5 DEF BatchInv

\* The other two arrays are sent before a notification joins one.
LEMMA OthersFirst ==
    ASSUME PendingTypes, BatchInv
    PROVE  /\ Receive(client, changes \o removes) \in [BookUids -> Known]
           /\ Receive(Receive(client, changes \o removes), adds) = Flushed
           /\ adds # <<>> => Receive(client, changes \o removes) = client
           /\ Receive(client, adds \o removes) \in [BookUids -> Known]
           /\ Receive(Receive(client, adds \o removes), changes) = Flushed
           /\ changes # <<>> => Receive(client, adds \o removes) = client
           /\ Receive(client, adds \o changes) \in [BookUids -> Known]
           /\ Receive(Receive(client, adds \o changes), removes) = Flushed
           /\ removes # <<>> => Receive(client, adds \o changes) = client
<1>1. /\ client \in [BookUids -> Known]
      /\ adds \in Seq(Note) /\ changes \in Seq(Note) /\ removes \in Seq(Note)
      /\ changes \o removes \in Seq(Note) /\ adds \o removes \in Seq(Note)
      /\ adds \o changes \in Seq(Note)
  BY ConcatProperties DEF PendingTypes
<1>2. \/ changes = <<>> /\ removes = <<>>
      \/ adds = <<>> /\ removes = <<>>
      \/ adds = <<>> /\ changes = <<>>
  BY DEF BatchInv
<1>3. /\ \A s \in Seq(Note) : s \o <<>> = s /\ <<>> \o s = s
      /\ \A k \in [BookUids -> Known] : Receive(k, <<>>) = k
      /\ \A s \in Seq(Note) : Receive(client, s) \in [BookUids -> Known]
  BY <1>1, ConcatEmptySeq, ReceiveNothing, ReceiveType
<1>4. <<>> \in Seq(Note)
  BY EmptySeq
<1>5. CASE changes = <<>> /\ removes = <<>>
  BY <1>1, <1>3, <1>4, <1>5, FlushedIs
<1>6. CASE adds = <<>> /\ removes = <<>>
  BY <1>1, <1>3, <1>4, <1>6, FlushedIs
<1>7. CASE adds = <<>> /\ changes = <<>>
  BY <1>1, <1>3, <1>4, <1>7, FlushedIs
<1> QED
  BY <1>2, <1>5, <1>6, <1>7

\* notify_add() of a contact the client will not know.
LEMMA AddStep ==
    ASSUME PendingTypes, BatchInv, NEW n \in Note, n.uid \notin ids, n.content # None,
           notify_add(n)
    PROVE  /\ PendingTypes' /\ BatchInv'
           /\ Flushed' = [Flushed EXCEPT ![n.uid] = n.content]
<1> DEFINE k == Receive(client, changes \o removes)
           limit == THRESHOLD_ITEMS \div 2
           b == Joined(adds, limit, n)
<1>1. /\ client' = Sent(k, adds, limit)
      /\ flush' = TRUE
      /\ adds' = b /\ changes' = <<>> /\ removes' = <<>>
      /\ ids' = ids \cup {n.uid}
  BY DEF notify_add, NotifyIn, Sent
<1>2. /\ adds \in Seq(Note) /\ changes \in Seq(Note) /\ removes \in Seq(Note)
      /\ client \in [BookUids -> Known] /\ n.uid \in BookUids
      /\ limit \in Nat /\ limit > 0 /\ Len(adds) <= limit
  BY Threshold, LenProperties DEF PendingTypes, Note
<1>3. /\ k \in [BookUids -> Known] /\ Receive(k, adds) = Flushed
      /\ adds # <<>> => k = client
  BY OthersFirst DEF BatchInv
<1> HIDE DEF k, limit
<1>4. /\ client' \in [BookUids -> Known] /\ b \in Seq(Note) /\ b # <<>> /\ Len(b) <= limit
      /\ Receive(client', b) = [Flushed EXCEPT ![n.uid] = n.content]
  <2>1. client' \in [BookUids -> Known] /\ b \in Seq(Note) /\ b # <<>> /\ Len(b) <= limit
    BY <1>1, <1>2, <1>3, JoinedBatch
  <2>2. k \in [BookUids -> Known] /\ adds \in Seq(Note) /\ limit \in Nat /\ limit > 0 /\ Len(adds) <= limit
    BY <1>2, <1>3
  <2>3. Receive(Sent(k, adds, limit), b) = [Receive(k, adds) EXCEPT ![n.uid] = n.content]
    BY <2>2, JoinedBatch
  <2> QED
    BY <1>1, <1>2, <1>3, <2>1, <2>3
<1>5. PendingTypes'
  <2>1. 2 * Len(b) <= THRESHOLD_ITEMS
    BY <1>4, Threshold, LenProperties DEF limit
  <2>2. <<>> \in Seq(Note) /\ Len(<<>>) = 0
    BY EmptySeq
  <2> QED
    BY <1>1, <1>2, <1>4, <2>1, <2>2, ThresholdAssumption DEF PendingTypes
<1>6. Flushed' = [Flushed EXCEPT ![n.uid] = n.content]
  BY <1>1, <1>4, <1>5, FlushedIsNext
<1>7. Flushed[n.uid] = None /\ Flushed \in [BookUids -> Known]
  BY <1>2, FlushedIs DEF BatchInv
<1>8. client'[n.uid] = None
  <2>1. CASE Len(adds) = limit
    BY <1>1, <1>3, <1>7, <2>1 DEF Sent
  <2>2. CASE Len(adds) # limit
    <3>1. client' = k
      BY <1>1, <2>2 DEF Sent
    <3>2. About(n.uid, adds) = {}
      BY <1>2, <1>3, <1>7, ReceiveAbout DEF BatchInv
    <3> QED
      BY <1>2, <1>3, <1>7, <3>1, <3>2, ReceiveOther
  <2> QED
    BY <2>1, <2>2
<1>9. ASSUME NEW i \in 1 .. Len(b), b[i] # n PROVE b[i].content # None /\ client'[b[i].uid] = None
  BY <1>1, <1>2, <1>3, <1>9, JoinedFrom DEF BatchInv
<1>10. ids' = {u \in BookUids : Flushed'[u] # None}
  BY <1>1, <1>2, <1>6, <1>7 DEF BatchInv
<1> QED
  BY <1>1, <1>5, <1>6, <1>8, <1>9, <1>10 DEF BatchInv

\* notify_change() of a contact the client will know.
LEMMA ChangeStep ==
    ASSUME PendingTypes, BatchInv, NEW n \in Note, n.uid \in ids, n.content # None,
           notify_change(n)
    PROVE  /\ PendingTypes' /\ BatchInv'
           /\ Flushed' = [Flushed EXCEPT ![n.uid] = n.content]
<1> DEFINE k == Receive(client, adds \o removes)
           limit == THRESHOLD_ITEMS
           b == Joined(changes, limit, n)
<1>1. /\ client' = Sent(k, changes, limit)
      /\ flush' = TRUE
      /\ changes' = b /\ adds' = <<>> /\ removes' = <<>>
      /\ ids' = ids
  BY DEF notify_change, NotifyIn, Sent
<1>2. /\ adds \in Seq(Note) /\ changes \in Seq(Note) /\ removes \in Seq(Note)
      /\ client \in [BookUids -> Known] /\ n.uid \in BookUids
      /\ limit \in Nat /\ limit > 0 /\ Len(changes) <= limit
  BY ThresholdAssumption DEF PendingTypes, Note
<1>3. /\ k \in [BookUids -> Known] /\ Receive(k, changes) = Flushed
      /\ changes # <<>> => k = client
  BY OthersFirst DEF BatchInv
<1> HIDE DEF k, limit
<1>4. /\ client' \in [BookUids -> Known] /\ b \in Seq(Note) /\ b # <<>> /\ Len(b) <= limit
      /\ Receive(client', b) = [Flushed EXCEPT ![n.uid] = n.content]
  <2>1. client' \in [BookUids -> Known] /\ b \in Seq(Note) /\ b # <<>> /\ Len(b) <= limit
    BY <1>1, <1>2, <1>3, JoinedBatch
  <2>2. k \in [BookUids -> Known] /\ changes \in Seq(Note) /\ limit \in Nat /\ limit > 0 /\ Len(changes) <= limit
    BY <1>2, <1>3
  <2>3. Receive(Sent(k, changes, limit), b) = [Receive(k, changes) EXCEPT ![n.uid] = n.content]
    BY <2>2, JoinedBatch
  <2> QED
    BY <1>1, <1>2, <1>3, <2>1, <2>3
<1>5. PendingTypes'
  <2>1. <<>> \in Seq(Note) /\ Len(<<>>) = 0
    BY EmptySeq
  <2> QED
    BY <1>1, <1>4, <2>1, ThresholdAssumption DEF PendingTypes, limit
<1>6. Flushed' = [Flushed EXCEPT ![n.uid] = n.content]
  BY <1>1, <1>4, <1>5, FlushedIsNext
<1>7. Flushed[n.uid] # None /\ Flushed \in [BookUids -> Known]
  BY <1>2, FlushedIs DEF BatchInv
<1>8. client'[n.uid] # None
  <2>1. CASE Len(changes) = limit
    BY <1>1, <1>3, <1>7, <2>1 DEF Sent
  <2>2. CASE Len(changes) # limit
    <3>1. client' = k
      BY <1>1, <2>2 DEF Sent
    <3>2. CASE About(n.uid, changes) = {}
      BY <1>2, <1>3, <1>7, <3>1, <3>2, ReceiveOther
    <3>3. CASE About(n.uid, changes) # {}
      <4>1. changes # <<>>
        BY <3>3 DEF About
      <4> QED
        BY <1>3, <3>1, <3>3, <4>1 DEF BatchInv, About
    <3> QED
      BY <3>2, <3>3
  <2> QED
    BY <2>1, <2>2
<1>9. ASSUME NEW i \in 1 .. Len(b), b[i] # n PROVE b[i].content # None /\ client'[b[i].uid] # None
  BY <1>1, <1>2, <1>3, <1>9, JoinedFrom DEF BatchInv
<1>10. ids' = {u \in BookUids : Flushed'[u] # None}
  BY <1>1, <1>2, <1>6, <1>7 DEF BatchInv
<1> QED
  BY <1>1, <1>5, <1>6, <1>8, <1>9, <1>10 DEF BatchInv

\* notify_remove() of a contact the client will know, which tells no content.
LEMMA RemoveViewStep ==
    ASSUME PendingTypes, BatchInv, NEW n \in Note, n.uid \in ids,
           notify_remove(n)
    PROVE  /\ PendingTypes' /\ BatchInv'
           /\ Flushed' = [Flushed EXCEPT ![n.uid] = None]
<1> DEFINE k == Receive(client, adds \o changes)
           limit == THRESHOLD_ITEMS
           m == [n EXCEPT !.content = None]
           b == Joined(removes, limit, m)
<1>1. /\ client' = Sent(k, removes, limit)
      /\ flush' = TRUE
      /\ removes' = b /\ adds' = <<>> /\ changes' = <<>>
      /\ ids' = ids \ {n.uid}
  BY DEF notify_remove, NotifyIn, Sent
<1>2. /\ adds \in Seq(Note) /\ changes \in Seq(Note) /\ removes \in Seq(Note)
      /\ client \in [BookUids -> Known] /\ n.uid \in BookUids
      /\ m \in Note /\ m.uid = n.uid /\ m.content = None
      /\ limit \in Nat /\ limit > 0 /\ Len(removes) <= limit
  BY ThresholdAssumption DEF PendingTypes, Note, Known
<1>3. /\ k \in [BookUids -> Known] /\ Receive(k, removes) = Flushed
      /\ removes # <<>> => k = client
  BY OthersFirst DEF BatchInv
<1> HIDE DEF k, limit, m
<1>4. /\ client' \in [BookUids -> Known] /\ b \in Seq(Note) /\ b # <<>> /\ Len(b) <= limit
      /\ Receive(client', b) = [Flushed EXCEPT ![n.uid] = None]
  <2>1. client' \in [BookUids -> Known] /\ b \in Seq(Note) /\ b # <<>> /\ Len(b) <= limit
    BY <1>1, <1>2, <1>3, JoinedBatch
  <2>2. /\ k \in [BookUids -> Known] /\ removes \in Seq(Note) /\ m \in Note
        /\ limit \in Nat /\ limit > 0 /\ Len(removes) <= limit
    BY <1>2, <1>3
  <2>3. Receive(Sent(k, removes, limit), b) = [Receive(k, removes) EXCEPT ![m.uid] = m.content]
    BY <2>2, JoinedBatch
  <2> QED
    BY <1>1, <1>2, <1>3, <2>1, <2>3
<1>5. PendingTypes'
  <2>1. <<>> \in Seq(Note) /\ Len(<<>>) = 0
    BY EmptySeq
  <2> QED
    BY <1>1, <1>4, <2>1, ThresholdAssumption DEF PendingTypes, limit
<1>6. Flushed' = [Flushed EXCEPT ![n.uid] = None]
  BY <1>1, <1>4, <1>5, FlushedIsNext
<1>7. Flushed[n.uid] # None /\ Flushed \in [BookUids -> Known]
  BY <1>2, FlushedIs DEF BatchInv
<1>8. client'[n.uid] # None
  <2>1. CASE Len(removes) = limit
    BY <1>1, <1>3, <1>7, <2>1 DEF Sent
  <2>2. CASE Len(removes) # limit
    <3>1. client' = k
      BY <1>1, <2>2 DEF Sent
    <3>2. CASE About(n.uid, removes) = {}
      BY <1>2, <1>3, <1>7, <3>1, <3>2, ReceiveOther
    <3>3. CASE About(n.uid, removes) # {}
      <4>1. removes # <<>>
        BY <3>3 DEF About
      <4> QED
        BY <1>3, <3>1, <3>3, <4>1 DEF BatchInv, About
    <3> QED
      BY <3>2, <3>3
  <2> QED
    BY <2>1, <2>2
<1>9. ASSUME NEW i \in 1 .. Len(b), b[i] # m PROVE b[i].content = None /\ client'[b[i].uid] # None
  BY <1>1, <1>2, <1>3, <1>9, JoinedFrom DEF BatchInv
<1>10. ids' = {u \in BookUids : Flushed'[u] # None}
  BY <1>1, <1>2, <1>6, <1>7 DEF BatchInv
<1> QED
  BY <1>1, <1>2, <1>5, <1>6, <1>8, <1>9, <1>10 DEF BatchInv

\* Nothing happens to the arrays.
LEMMA IgnoreStep ==
    ASSUME PendingTypes, BatchInv, UNCHANGED pendingVars
    PROVE  PendingTypes' /\ BatchInv' /\ Flushed' = Flushed
<1>1. /\ ids' = ids /\ adds' = adds /\ changes' = changes /\ removes' = removes
      /\ flush' = flush /\ client' = client
  BY DEF pendingVars
<1>2. Flushed' = Flushed
  BY <1>1 DEF Flushed, Receive, About
<1> QED
  BY <1>1, <1>2 DEF PendingTypes, BatchInv

\* A change is told as what it is to the query: the client of a running view will
\* know the content, or not know the contact any more.
LEMMA UpdateStep ==
    ASSUME PendingTypes, BatchInv, NEW n \in Note, NotifyUpdate(n), running \in BOOLEAN
    PROVE  /\ PendingTypes' /\ BatchInv'
           /\ ~running => Flushed' = Flushed
           /\ running => Flushed' = [Flushed EXCEPT ![n.uid] = IF Matches(n) THEN n.content ELSE None]
<1>1. CASE ~running
  BY <1>1, IgnoreStep DEF NotifyUpdate, Ignore
<1>2. CASE running /\ Matches(n)
  <2>1. n.content # None
    BY <1>2, ContentsAssumption DEF Matches
  <2>2. CASE n.uid \in ids
    <3>1. notify_change(n)
      BY <1>2, <2>2 DEF NotifyUpdate
    <3> QED
      BY <1>2, <2>1, <2>2, <3>1, ChangeStep
  <2>3. CASE n.uid \notin ids
    <3>1. notify_add(n)
      BY <1>2, <2>3 DEF NotifyUpdate
    <3> QED
      BY <1>2, <2>1, <2>3, <3>1, AddStep
  <2> QED
    BY <2>2, <2>3
<1>3. CASE running /\ ~Matches(n)
  <2>1. CASE n.uid \in ids
    <3>1. notify_remove(n)
      BY <1>3, <2>1 DEF NotifyUpdate
    <3> QED
      BY <1>3, <2>1, <3>1, RemoveViewStep
  <2>2. CASE n.uid \notin ids
    <3>1. UNCHANGED pendingVars
      BY <1>3, <2>2 DEF NotifyUpdate, Ignore
    <3>2. n.uid \in BookUids /\ Flushed \in [BookUids -> Known]
      BY FlushedIs DEF Note
    <3>3. Flushed[n.uid] = None
      BY <2>2, <3>2 DEF BatchInv
    <3>4. Flushed = [Flushed EXCEPT ![n.uid] = None]
      BY <3>2, <3>3
    <3> QED
      BY <1>3, <3>1, <3>4, IgnoreStep
  <2> QED
    BY <2>1, <2>2
<1> QED
  BY <1>1, <1>2, <1>3

\* What a search has found is told to a running view.
LEMMA FoundStep ==
    ASSUME PendingTypes, BatchInv, NEW n \in Note, n.content # None, NotifyPrefiltered(n),
           running \in BOOLEAN
    PROVE  /\ PendingTypes' /\ BatchInv'
           /\ ~running => Flushed' = Flushed
           /\ running => Flushed' = [Flushed EXCEPT ![n.uid] = n.content]
<1>1. CASE ~running
  BY <1>1, IgnoreStep DEF NotifyPrefiltered, Ignore
<1>2. CASE running /\ n.uid \in ids
  <2>1. notify_change(n)
    BY <1>2 DEF NotifyPrefiltered
  <2> QED
    BY <1>2, <2>1, ChangeStep
<1>3. CASE running /\ n.uid \notin ids
  <2>1. notify_add(n)
    BY <1>3 DEF NotifyPrefiltered
  <2> QED
    BY <1>3, <2>1, AddStep
<1> QED
  BY <1>1, <1>2, <1>3

\* The end of a search or of a call sends everything, or does nothing.
LEMMA CompleteStep ==
    ASSUME PendingTypes, BatchInv, NotifyComplete, UNCHANGED <<ids, flush>>
    PROVE  PendingTypes' /\ BatchInv' /\ Flushed' = Flushed
<1>1. CASE running
  <2>1. SendAll /\ ids' = ids /\ flush' \in BOOLEAN
    BY <1>1 DEF NotifyComplete, PendingTypes
  <2> QED
    BY <2>1, SendAllStep
<1>2. CASE ~running
  <2>1. UNCHANGED pendingVars
    BY <1>2 DEF NotifyComplete, pendingVars
  <2> QED
    BY <2>1, IgnoreStep
<1> QED
  BY <1>1, <1>2

-----------------------------------------------------------------------------
(* ---- the view ---- *)

ViewIInv == ViewTypeOK /\ BatchInv

\* The first call of a finished operation is a note, and leaves notes behind.
LEMMA FinishingHead ==
    ASSUME finishing \in Seq(Note), finishing # <<>>
    PROVE  Head(finishing) \in Note /\ Tail(finishing) \in Seq(Note)
BY HeadTailProperties

\* What a search has found of a contact is a note.
LEMMA FoundNote ==
    ASSUME ViewTypeOK, NEW t \in Starts, NEW u \in BookUids
    PROVE  [uid |-> u, content |-> unsent[t][u]] \in Note
BY DEF ViewTypeOK, Note

\* The parts of the steps which notify nothing.
LEMMA SilentStep ==
    ASSUME ViewTypeOK, [ViewNext]_viewVars
    PROVE  \/ UNCHANGED pendingVars
           \/ NotifyFinished \/ CompleteFinished \/ NotifyRefreshed \/ FlushTimeout
           \/ \E t \in Starts : CompleteStart(t) \/ \E u \in BookUids : NotifyFound(t, u)
BY DEF ViewNext, MainLoopStep, StartStep, ClientChange, RefreshChange, StartThread, Search,
       Start, Stop, StopThread, CancelSearch, viewVars

\* Whatever notifies or sends keeps the arrays in order.
LEMMA BatchInductive == ViewIInv /\ [ViewNext]_viewVars => PendingTypes' /\ BatchInv'
<1> SUFFICES ASSUME ViewTypeOK, BatchInv, [ViewNext]_viewVars
             PROVE  PendingTypes' /\ BatchInv'
  BY DEF ViewIInv
<1>1. PendingTypes /\ running \in BOOLEAN /\ finishing \in Seq(Note) /\ notifying \in Note \cup {None}
  BY DEF ViewTypeOK, PendingTypes
<1>2. CASE UNCHANGED pendingVars
  BY <1>1, <1>2, IgnoreStep
<1>3. CASE NotifyFinished
  BY <1>1, <1>3, FinishingHead, UpdateStep DEF NotifyFinished
<1>4. CASE NotifyRefreshed
  BY <1>1, <1>4, UpdateStep DEF NotifyRefreshed
<1>5. CASE CompleteFinished
  BY <1>1, <1>5, CompleteStep DEF CompleteFinished
<1>6. CASE FlushTimeout
  BY <1>1, <1>6, SendAllStep DEF FlushTimeout
<1>7. ASSUME NEW t \in Starts, CompleteStart(t) PROVE PendingTypes' /\ BatchInv'
  BY <1>1, <1>7, CompleteStep DEF CompleteStart
<1>8. ASSUME NEW t \in Starts, NEW u \in BookUids, NotifyFound(t, u) PROVE PendingTypes' /\ BatchInv'
  <2> DEFINE n == [uid |-> u, content |-> unsent[t][u]]
  <2>1. n \in Note
    BY FoundNote
  <2>2. n.content # None /\ NotifyPrefiltered(n)
    BY <1>8 DEF NotifyFound
  <2> HIDE DEF n
  <2> QED
    BY <1>1, <2>1, <2>2, FoundStep
<1> QED
  BY <1>2, <1>3, <1>4, <1>5, <1>6, <1>7, <1>8, SilentStep

\* The other variables keep their types too.
LEMMA ViewTypeInductive == ViewIInv /\ [ViewNext]_viewVars => ViewTypeOK'
<1> SUFFICES ASSUME ViewTypeOK, BatchInv, [ViewNext]_viewVars
             PROVE  ViewTypeOK'
  BY DEF ViewIInv
<1> DEFINE Rest == /\ contacts \in [BookUids -> Known]
                   /\ finishing \in Seq(Note)
                   /\ notifying \in Note \cup {None}
                   /\ {completing, running, complete} \subseteq BOOLEAN
                   /\ starter \in [Starts -> {"idle", "begin", "search", "notify", "done"}]
                   /\ unsent \in [Starts -> [BookUids -> Known]]
                   /\ cancelled \in SUBSET Starts
                   /\ cancellable \in 0..MaxStarts
                   /\ last \in 0..MaxStarts
                   /\ stopping \in {"none", "begin", "cancel"}
                   /\ changed \in 0..MaxChanges
                   /\ overtaken \in SUBSET BookUids
<1>1. PendingTypes'
  BY BatchInductive DEF ViewIInv
<1>2. Rest
  BY DEF ViewTypeOK
<1>3. ASSUME NEW n \in Note, Judge(n) PROVE overtaken' \in SUBSET BookUids
  <2>1. n.uid \in BookUids /\ overtaken \in SUBSET BookUids
    BY DEF Note, ViewTypeOK
  <2>2. overtaken' \in {overtaken, overtaken \ {n.uid}, overtaken \cup {n.uid}}
    BY <1>2, <1>3 DEF Judge
  <2> QED
    BY <2>1, <2>2
<1>4. Rest'
  <2>1. ASSUME NEW u \in BookUids, NEW v \in Known, ClientChange(u, v) PROVE Rest'
    <3>1. [uid |-> u, content |-> v] \in Note
      BY DEF Note
    <3>2. finishing' \in Seq(Note)
      BY <1>2, <2>1, <3>1, AppendProperties DEF ClientChange
    <3>3. contacts' \in [BookUids -> Known] /\ changed' \in 0..MaxChanges
      BY <1>2, <2>1, BoundsAssumption DEF ClientChange, Change
    <3> QED
      BY <1>2, <2>1, <3>2, <3>3 DEF ClientChange, startVars
  <2>2. ASSUME NEW u \in BookUids, NEW v \in Known, RefreshChange(u, v) PROVE Rest'
    <3>1. notifying' \in Note
      BY <2>2 DEF RefreshChange, Note
    <3>2. contacts' \in [BookUids -> Known] /\ changed' \in 0..MaxChanges
      BY <1>2, <2>2, BoundsAssumption DEF RefreshChange, Change
    <3> QED
      BY <1>2, <2>2, <3>1, <3>2 DEF RefreshChange, startVars
  <2>3. CASE NotifyFinished
    BY <1>2, <1>3, <2>3, FinishingHead DEF NotifyFinished, startVars
  <2>4. CASE CompleteFinished
    BY <1>2, <2>4 DEF CompleteFinished, NotifyComplete, startVars
  <2>5. CASE NotifyRefreshed
    BY <1>2, <1>3, <2>5 DEF NotifyRefreshed, startVars
  <2>6. CASE FlushTimeout
    BY <1>2, <2>6 DEF FlushTimeout, startVars, backendVars
  <2>7. ASSUME NEW t \in Starts, StartThread(t) PROVE Rest'
    BY <1>2, <2>7, BoundsAssumption DEF StartThread, backendVars, Starts
  <2>8. ASSUME NEW t \in Starts, Search(t) PROVE Rest'
    <3>1. [u \in BookUids |-> Wanted(u)] \in [BookUids -> Known]
      BY <1>2 DEF Wanted, Known
    <3>2. unsent' \in [Starts -> [BookUids -> Known]]
      BY <1>2, <2>8, <3>1 DEF Search
    <3> QED
      BY <1>2, <2>8, <3>2 DEF Search, backendVars
  <2>9. ASSUME NEW t \in Starts, NEW u \in BookUids, NotifyFound(t, u) PROVE Rest'
    <3>1. overtaken' \in SUBSET BookUids
      BY <1>3, <2>9, FoundNote DEF NotifyFound
    <3>2. unsent' \in [Starts -> [BookUids -> Known]]
      BY <1>2, <2>9 DEF NotifyFound, Known
    <3> QED
      BY <1>2, <2>9, <3>1, <3>2 DEF NotifyFound, backendVars
  <2>10. ASSUME NEW t \in Starts, CompleteStart(t) PROVE Rest'
    BY <1>2, <2>10 DEF CompleteStart, NotifyComplete, backendVars
  <2>11. CASE Start
    <3>1. last' \in Starts /\ last' \in 0..MaxStarts
      BY <1>2, <2>11, BoundsAssumption DEF Start, Starts
    <3>2. starter' \in [Starts -> {"idle", "begin", "search", "notify", "done"}]
      BY <1>2, <2>11, <3>1 DEF Start
    <3> QED
      BY <1>2, <2>11, <3>1, <3>2 DEF Start, backendVars
  <2>12. CASE Stop
    BY <1>2, <2>12 DEF Stop, backendVars
  <2>13. CASE StopThread
    BY <1>2, <2>13 DEF StopThread, backendVars
  <2>14. CASE CancelSearch
    BY <1>2, <2>14, BoundsAssumption DEF CancelSearch, StopView, backendVars
  <2>15. CASE UNCHANGED viewVars
    BY <1>2, <2>15 DEF viewVars, backendVars, startVars
  <2> QED
    BY <2>1, <2>2, <2>3, <2>4, <2>5, <2>6, <2>7, <2>8, <2>9, <2>10, <2>11, <2>12, <2>13, <2>14, <2>15
       DEF ViewNext, MainLoopStep, StartStep
<1> QED
  BY <1>1, <1>4 DEF ViewTypeOK, PendingTypes

\* A view which has not been started has nothing to send.
LEMMA ViewInitIInv == ViewInit => ViewIInv
<1> SUFFICES ASSUME ViewInit PROVE ViewIInv
  OBVIOUS
<1>1. <<>> \in Seq(Note) /\ Len(<<>>) = 0
  BY EmptySeq
<1>2. Nothing \in [BookUids -> Known] /\ \A u \in BookUids : Nothing[u] = None
  BY DEF Nothing, Known
<1>3. PendingTypes
  <2>1. /\ ids = {} /\ adds = <<>> /\ changes = <<>> /\ removes = <<>>
        /\ flush = FALSE /\ client = Nothing
    BY DEF ViewInit
  <2>2. 2 * 0 <= THRESHOLD_ITEMS /\ 0 <= THRESHOLD_ITEMS
    BY ThresholdAssumption
  <2>3. flush \in BOOLEAN
    BY <2>1
  <2> QED
    BY <1>1, <1>2, <2>1, <2>2, <2>3 DEF PendingTypes
<1>4. Flushed = Nothing
  BY <1>2, <1>3, FlushedIs, ReceiveNothing DEF ViewInit
<1>5. BatchInv
  BY <1>1, <1>2, <1>4 DEF ViewInit, BatchInv
<1>6. ViewTypeOK
  <2>1. {completing, running, complete} \subseteq BOOLEAN
    BY DEF ViewInit
  <2>2. unsent \in [Starts -> [BookUids -> Known]] /\ contacts \in [BookUids -> Known] /\ finishing \in Seq(Note)
    BY <1>1, <1>2, InitialAssumption DEF ViewInit, Known
  <2>3. starter \in [Starts -> {"idle", "begin", "search", "notify", "done"}]
    BY DEF ViewInit
  <2>4. cancellable \in 0..MaxStarts /\ last \in 0..MaxStarts /\ changed \in 0..MaxChanges
    BY BoundsAssumption DEF ViewInit
  <2>5. /\ notifying \in Note \cup {None} /\ cancelled \in SUBSET Starts
        /\ stopping \in {"none", "begin", "cancel"} /\ overtaken \in SUBSET BookUids
    BY DEF ViewInit
  <2> QED
    BY <1>3, <2>1, <2>2, <2>3, <2>4, <2>5 DEF ViewTypeOK, PendingTypes
<1> QED
  BY <1>5, <1>6 DEF ViewIInv

\* So both hold in every state of a view.
LEMMA ViewIInvCorrect == ViewSpec => []ViewIInv
<1>1. ViewIInv /\ [ViewNext]_viewVars => ViewIInv'
  BY BatchInductive, ViewTypeInductive DEF ViewIInv
<1> QED
  BY <1>1, ViewInitIInv, PTL DEF ViewSpec

\* The arrays never have more strings than THRESHOLD_ITEMS, which is the capacity
\* they are allocated with, and all else keeps its type.
THEOREM ViewTypeCorrect == ViewSpec => []ViewTypeOK
<1>1. ViewIInv => ViewTypeOK
  BY DEF ViewIInv
<1> QED
  BY <1>1, ViewIInvCorrect, PTL

\* Whatever the three kinds of threads notify, in whatever order, and however it is
\* cut into batches, each batch applies to what the client knows when it comes, and
\* the ids of the view are what the client will know.
THEOREM EventsCorrect == ViewSpec => []EventsApply
<1>1. ViewIInv => EventsApply
  <2> SUFFICES ASSUME PendingTypes, BatchInv PROVE EventsApply
    BY DEF ViewIInv, ViewTypeOK, PendingTypes
  <2>1. /\ adds \in Seq(Note) /\ changes \in Seq(Note) /\ removes \in Seq(Note)
        /\ DOMAIN adds = 1 .. Len(adds)
    BY DEF PendingTypes
  <2>2. /\ changes = <<>> => changes \o removes = removes
        /\ removes = <<>> => changes \o removes = changes
    BY <2>1, ConcatEmptySeq
  <2>3. adds = <<>> \/ changes \o removes = <<>>
    BY <2>2 DEF BatchInv
  <2>4. \A n \in ToSet(adds) : client[n.uid] = None
    BY <2>1 DEF BatchInv, ToSet
  <2>5. \A n \in ToSet(changes \o removes) : client[n.uid] # None
    <3>1. CASE changes = <<>>
      BY <2>1, <2>2, <3>1 DEF BatchInv, ToSet
    <3>2. CASE removes = <<>>
      BY <2>1, <2>2, <3>2 DEF BatchInv, ToSet
    <3> QED
      BY <3>1, <3>2 DEF BatchInv
  <2> QED
    BY <2>3, <2>4, <2>5 DEF EventsApply, BatchInv
<1> QED
  BY <1>1, ViewIInvCorrect, PTL

-----------------------------------------------------------------------------
(* ---- nothing is lost ---- *)

\* The present content of the contact is about to be notified.
Announced(u) ==
    \/ \E i \in 1 .. Len(finishing) : finishing[i] = [uid |-> u, content |-> contacts[u]]
    \/ notifying = [uid |-> u, content |-> contacts[u]]

\* The view is running and the search of its last start is over.
Searched == running /\ last \notin cancelled /\ starter[last] \in {"notify", "done"}

\* The thread of the last start has found the contact and not yet told.
Found(u) == starter[last] = "notify" /\ unsent[last][u] # None /\ unsent[last][u] = Wanted(u)

\* What the client will know when everything has been sent is right, or somebody
\* is about to tell; of a contact it should not know this holds even while the
\* view is stopped.
FollowedOK(u) ==
    /\ Wanted(u) = None => Flushed[u] = None \/ Announced(u)
    /\ Searched => Flushed[u] = Wanted(u) \/ Announced(u) \/ Found(u)

ViewFollowInv ==
    /\ \A t \in Starts, u \in BookUids : unsent[t][u] \in Matching \cup {None}
    /\ running => last \in Starts
    /\ \A u \in BookUids \ overtaken : FollowedOK(u)

\* A step which does not concern the contact.
LEMMA FollowedFrame ==
    ASSUME NEW u, FollowedOK(u), Flushed'[u] = Flushed[u], Wanted(u)' = Wanted(u),
           Announced(u) => Announced(u)', Searched' => Searched,
           Searched' /\ Found(u) => Found(u)'
    PROVE  FollowedOK(u)'
BY DEF FollowedOK

\* What is in the array of finishing calls stays there when one joins, and all but
\* the first when this one is taken.
LEMMA FinishingMoves ==
    ASSUME finishing \in Seq(Note), NEW n, NEW x
    PROVE  /\ n \in Note /\ finishing' = Append(finishing, n) =>
                 /\ \E i \in 1 .. Len(finishing') : finishing'[i] = n
                 /\ (\E i \in 1 .. Len(finishing) : finishing[i] = x) =>
                       \E i \in 1 .. Len(finishing') : finishing'[i] = x
           /\ finishing # <<>> /\ finishing' = Tail(finishing) /\ x # Head(finishing) =>
                 ((\E i \in 1 .. Len(finishing) : finishing[i] = x) =>
                       \E i \in 1 .. Len(finishing') : finishing'[i] = x)
<1>1. ASSUME n \in Note, finishing' = Append(finishing, n)
      PROVE  /\ \E i \in 1 .. Len(finishing') : finishing'[i] = n
             /\ (\E i \in 1 .. Len(finishing) : finishing[i] = x) =>
                   \E i \in 1 .. Len(finishing') : finishing'[i] = x
  <2>1. /\ Len(finishing') = Len(finishing) + 1 /\ Len(finishing) \in Nat
        /\ \A i \in 1 .. Len(finishing) : finishing'[i] = finishing[i]
        /\ finishing'[Len(finishing) + 1] = n
    BY <1>1, AppendProperties, LenProperties
  <2>2. Len(finishing) + 1 \in 1 .. Len(finishing')
    BY <2>1
  <2> QED
    BY <2>1, <2>2
<1>2. ASSUME finishing # <<>>, finishing' = Tail(finishing), x # Head(finishing),
             NEW i \in 1 .. Len(finishing), finishing[i] = x
      PROVE  \E j \in 1 .. Len(finishing') : finishing'[j] = x
  <2>1. /\ Len(finishing') = Len(finishing) - 1 /\ Len(finishing) \in Nat
        /\ \A j \in 1 .. Len(finishing') : finishing'[j] = finishing[j + 1]
        /\ Head(finishing) = finishing[1]
    BY <1>2, HeadTailProperties, LenProperties, EmptySeq
  <2>2. i - 1 \in 1 .. Len(finishing') /\ (i - 1) + 1 = i
    BY <1>2, <2>1
  <2> QED
    BY <1>2, <2>1, <2>2
<1> QED
  BY <1>1, <1>2

\* A change of a contact which is notified now: it is the present content, and the
\* client will know it, or the contact is overtaken.
LEMMA JudgedUpdate ==
    ASSUME ViewIInv, NEW n \in Note, NotifyUpdate(n), Judge(n), UNCHANGED <<contacts, running>>,
           UNCHANGED startVars, \A u \in BookUids \ overtaken : FollowedOK(u),
           \A u \in BookUids : n # [uid |-> u, content |-> contacts[u]] =>
                               (Announced(u) => Announced(u)')
    PROVE  \A u \in BookUids \ overtaken' : FollowedOK(u)'
<1> SUFFICES ASSUME NEW u \in BookUids, u \notin overtaken' PROVE FollowedOK(u)'
  OBVIOUS
<1>1. /\ PendingTypes /\ BatchInv /\ running \in BOOLEAN
      /\ Flushed \in [BookUids -> Known] /\ n.uid \in BookUids
      /\ n = [uid |-> n.uid, content |-> n.content]
      /\ contacts \in [BookUids -> Known]
  <2>1. PendingTypes /\ BatchInv /\ running \in BOOLEAN /\ contacts \in [BookUids -> Known]
    BY DEF ViewIInv, ViewTypeOK, PendingTypes
  <2> QED
    BY <2>1, FlushedIs DEF Note
<1>2. /\ ~running => Flushed' = Flushed
      /\ running => Flushed' = [Flushed EXCEPT ![n.uid] = IF Matches(n) THEN n.content ELSE None]
  BY <1>1, UpdateStep
<1>3. /\ Wanted(u)' = Wanted(u) /\ (Searched' <=> Searched) /\ (Found(u)' <=> Found(u))
  BY DEF Wanted, Searched, Found, startVars
<1>4. CASE n.uid # u
  <2>1. Flushed'[u] = Flushed[u]
    BY <1>1, <1>2, <1>4
  <2>2. Announced(u) => Announced(u)'
    BY <1>1, <1>4
  <2>3. u \notin overtaken
    BY <1>4 DEF Judge
  <2> QED
    BY <1>3, <2>1, <2>2, <2>3, FollowedFrame
<1>5. CASE n.uid = u /\ running
  <2>1. n.content = contacts[u]
    BY <1>5 DEF Judge
  <2>2. Flushed'[u] = Wanted(u)
    BY <1>1, <1>2, <1>5, <2>1 DEF Wanted, Matches
  <2> QED
    BY <1>3, <2>2 DEF FollowedOK
<1>6. CASE n.uid = u /\ ~running
  <2>1. u \notin overtaken /\ (u \notin ids \/ Matches(n))
    BY <1>1, <1>6 DEF Judge
  <2>2. ~Searched' /\ Flushed' = Flushed
    BY <1>2, <1>3, <1>6 DEF Searched
  <2>3. ASSUME Wanted(u) = None PROVE Flushed[u] = None \/ Announced(u)'
    <3>1. CASE u \notin ids
      BY <1>1, <3>1 DEF BatchInv
    <3>2. CASE Matches(n)
      <4>1. contacts[u] \notin Matching
        BY <2>3, ContentsAssumption DEF Wanted
      <4>2. n # [uid |-> u, content |-> contacts[u]]
        BY <3>2, <4>1 DEF Matches
      <4> QED
        BY <2>1, <2>3, <4>2 DEF FollowedOK
    <3> QED
      BY <2>1, <3>1, <3>2
  <2> QED
    BY <1>3, <2>2, <2>3 DEF FollowedOK
<1> QED
  BY <1>1, <1>4, <1>5, <1>6

\* The threads of Start tell only contents which match, and a view runs only once
\* it has been started.
LEMMA UnsentInductive ==
    ASSUME ViewIInv, ViewFollowInv, [ViewNext]_viewVars
    PROVE  /\ \A t \in Starts, u \in BookUids : unsent'[t][u] \in Matching \cup {None}
           /\ running' => last' \in Starts
<1>1. /\ unsent \in [Starts -> [BookUids -> Known]] /\ last \in 0..MaxStarts
      /\ MaxStarts \in Nat
  BY BoundsAssumption DEF ViewIInv, ViewTypeOK
<1>2. \A t \in Starts, u \in BookUids : unsent'[t][u] \in Matching \cup {None}
  <2>1. CASE UNCHANGED unsent
    BY <2>1 DEF ViewFollowInv
  <2>2. ASSUME NEW t \in Starts, Search(t)
        PROVE  \A s \in Starts, u \in BookUids : unsent'[s][u] \in Matching \cup {None}
    <3>1. \A u \in BookUids : Wanted(u) \in Matching \cup {None}
      BY DEF Wanted
    <3> QED
      BY <1>1, <2>2, <3>1 DEF Search, ViewFollowInv
  <2>3. ASSUME NEW t \in Starts, NEW w \in BookUids, NotifyFound(t, w)
        PROVE  \A s \in Starts, u \in BookUids : unsent'[s][u] \in Matching \cup {None}
    BY <1>1, <2>3 DEF NotifyFound, ViewFollowInv
  <2> QED
    BY <2>1, <2>2, <2>3
       DEF ViewNext, MainLoopStep, StartStep, ClientChange, RefreshChange, NotifyFinished,
           CompleteFinished, NotifyRefreshed, FlushTimeout, StartThread, CompleteStart, Start, Stop,
           StopThread, CancelSearch, viewVars, startVars
<1>3. running' => last' \in Starts
  <2>1. CASE UNCHANGED <<running, last>>
    BY <2>1 DEF ViewFollowInv
  <2>2. CASE Start
    BY <1>1, <2>2 DEF Start, Starts
  <2>3. CASE Stop
    BY <2>3 DEF Stop
  <2> QED
    BY <2>1, <2>2, <2>3
       DEF ViewNext, MainLoopStep, StartStep, ClientChange, RefreshChange, NotifyFinished,
           CompleteFinished, NotifyRefreshed, FlushTimeout, StartThread, Search, NotifyFound,
           CompleteStart, StopThread, CancelSearch, viewVars, startVars
<1> QED
  BY <1>2, <1>3

\* A change is announced until it has been told.
LEMMA ChangeFollowed ==
    ASSUME ViewIInv, ViewFollowInv, NEW w \in BookUids, NEW v \in Known,
           ClientChange(w, v) \/ RefreshChange(w, v), NEW u \in BookUids, u \notin overtaken'
    PROVE  FollowedOK(u)'
<1> DEFINE n == [uid |-> w, content |-> v]
<1>1. /\ PendingTypes /\ BatchInv /\ finishing \in Seq(Note) /\ contacts \in [BookUids -> Known]
      /\ u \notin overtaken /\ contacts' = [contacts EXCEPT ![w] = v] /\ notifying = None
      /\ UNCHANGED pendingVars /\ UNCHANGED startVars /\ running' = running
  BY DEF ViewIInv, ViewTypeOK, PendingTypes, ClientChange, RefreshChange, Change
<1>2. FollowedOK(u) /\ n \in Note
  BY <1>1 DEF ViewFollowInv, Note
<1>3. Flushed' = Flushed
  BY <1>1, IgnoreStep
<1>4. CASE u = w
  <2>1. n = [uid |-> u, content |-> contacts'[u]]
    BY <1>1, <1>4
  <2>2. Announced(u)'
    <3>1. CASE ClientChange(w, v)
      <4>1. finishing' = Append(finishing, n)
        BY <3>1 DEF ClientChange
      <4>2. \E i \in 1 .. Len(finishing') : finishing'[i] = n
        BY <1>1, <1>2, <4>1, FinishingMoves
      <4> QED
        BY <2>1, <4>2 DEF Announced
    <3>2. CASE RefreshChange(w, v)
      BY <2>1, <3>2 DEF RefreshChange, Announced
    <3> QED
      BY <3>1, <3>2
  <2> QED
    BY <2>2 DEF FollowedOK
<1>5. CASE u # w
  <2>1. contacts'[u] = contacts[u]
    BY <1>1, <1>5
  <2>2. [uid |-> u, content |-> contacts[u]] # None
    BY <1>1, NoneAssumption DEF Known
  <2>3. Announced(u) => Announced(u)'
    <3>1. CASE ClientChange(w, v)
      <4>1. finishing' = Append(finishing, n)
        BY <3>1 DEF ClientChange
      <4>2. ASSUME NEW x, \E i \in 1 .. Len(finishing) : finishing[i] = x
            PROVE  \E i \in 1 .. Len(finishing') : finishing'[i] = x
        BY <1>1, <1>2, <4>1, <4>2, FinishingMoves
      <4> QED
        BY <1>1, <2>1, <2>2, <4>2 DEF Announced
    <3>2. CASE RefreshChange(w, v)
      <4>1. finishing' = finishing
        BY <3>2 DEF RefreshChange
      <4> QED
        BY <1>1, <2>1, <2>2, <4>1 DEF Announced
    <3> QED
      BY <3>1, <3>2
  <2>4. Wanted(u)' = Wanted(u) /\ (Searched' <=> Searched) /\ (Found(u)' <=> Found(u))
    BY <1>1, <2>1 DEF Wanted, Searched, Found, startVars
  <2> QED
    BY <1>2, <1>3, <2>3, <2>4, FollowedFrame
<1> QED
  BY <1>4, <1>5

\* The steps of a thread of Start, a start and a stop.
LEMMA StartFollowed ==
    ASSUME ViewIInv, ViewFollowInv, NEW u \in BookUids, u \notin overtaken',
           Flushed' = Flushed, UNCHANGED <<backendVars, overtaken>>,
           \/ \E t \in Starts : StartThread(t) \/ Search(t) \/ CompleteStart(t)
           \/ Start \/ Stop \/ StopThread \/ CancelSearch
    PROVE  FollowedOK(u)'
<1>1. /\ FollowedOK(u) /\ (Announced(u) <=> Announced(u)') /\ Wanted(u)' = Wanted(u)
      /\ starter \in [Starts -> {"idle", "begin", "search", "notify", "done"}]
      /\ unsent \in [Starts -> [BookUids -> Known]]
      /\ running => last \in Starts
  BY DEF ViewIInv, ViewTypeOK, ViewFollowInv, backendVars, Announced, Wanted
<1>2. ASSUME NEW t \in Starts, StartThread(t) PROVE FollowedOK(u)'
  <2>1. (Searched' => Searched) /\ (Searched' /\ Found(u) => Found(u)')
    BY <1>1, <1>2 DEF StartThread, Searched, Found, Wanted, backendVars
  <2> QED
    BY <1>1, <2>1, FollowedFrame
<1>3. ASSUME NEW t \in Starts, Search(t) PROVE FollowedOK(u)'
  <2>1. CASE t = last
    <3>1. ASSUME Searched', Wanted(u) # None PROVE Found(u)'
      <4>1. t \notin cancelled
        BY <1>3, <2>1, <3>1 DEF Searched, Search
      <4>2. unsent'[t][u] = Wanted(u) /\ starter'[t] = "notify" /\ last' = last
        BY <1>1, <1>3, <4>1 DEF Search
      <4> QED
        BY <1>1, <2>1, <3>1, <4>2 DEF Found
    <3> QED
      BY <1>1, <3>1 DEF FollowedOK
  <2>2. CASE t # last
    <3>1. (Searched' => Searched) /\ (Searched' /\ Found(u) => Found(u)')
      BY <1>1, <1>3, <2>2 DEF Search, Searched, Found, Wanted, backendVars
    <3> QED
      BY <1>1, <3>1, FollowedFrame
  <2> QED
    BY <2>1, <2>2
<1>4. ASSUME NEW t \in Starts, CompleteStart(t) PROVE FollowedOK(u)'
  <2>1. Searched' => Searched
    BY <1>1, <1>4 DEF CompleteStart, Searched
  <2>2. ASSUME Found(u), Searched' PROVE Found(u)'
    <3>1. t # last
      BY <1>4, <2>2 DEF CompleteStart, Found, Nothing
    <3> QED
      BY <1>1, <1>4, <2>2, <3>1 DEF CompleteStart, Found
  <2> QED
    BY <1>1, <2>1, <2>2, FollowedFrame
<1>5. CASE Start
  <2>1. last' \in Starts
    BY <1>5, BoundsAssumption DEF Start, Starts, ViewIInv, ViewTypeOK
  <2>2. ~Searched'
    BY <1>1, <1>5, <2>1 DEF Start, Searched
  <2> QED
    BY <1>1, <2>2, FollowedFrame
<1>6. CASE Stop
  <2>1. ~Searched'
    BY <1>6 DEF Stop, Searched
  <2> QED
    BY <1>1, <2>1, FollowedFrame
<1>7. CASE StopThread \/ CancelSearch
  <2>1. (Searched' => Searched) /\ (Found(u) => Found(u)')
    BY <1>7 DEF StopThread, CancelSearch, StopView, Searched, Found, Wanted, backendVars
  <2> QED
    BY <1>1, <2>1, FollowedFrame
<1> QED
  BY <1>2, <1>3, <1>4, <1>5, <1>6, <1>7

\* What a search found is told: it is the present content, and the client will know
\* it, or the contact is overtaken.
LEMMA FoundFollowed ==
    ASSUME ViewIInv, ViewFollowInv, NEW t \in Starts, NEW w \in BookUids, NotifyFound(t, w),
           NEW u \in BookUids, u \notin overtaken'
    PROVE  FollowedOK(u)'
<1> DEFINE n == [uid |-> w, content |-> unsent[t][w]]
<1>1. /\ PendingTypes /\ BatchInv /\ running \in BOOLEAN /\ n \in Note
      /\ unsent \in [Starts -> [BookUids -> Known]] /\ (running => last \in Starts)
  BY FoundNote DEF ViewIInv, ViewTypeOK, PendingTypes, ViewFollowInv
<1>2. /\ NotifyPrefiltered(n) /\ Judge(n) /\ n.content # None /\ n.uid = w
      /\ unsent' = [unsent EXCEPT ![t][w] = None]
      /\ UNCHANGED <<backendVars, running, starter, cancelled, last>>
  BY <1>1 DEF NotifyFound
<1>3. n.content \in Matching
  BY <1>2 DEF ViewFollowInv
<1> HIDE DEF n
<1>4. /\ ~running => Flushed' = Flushed
      /\ running => Flushed' = [Flushed EXCEPT ![w] = n.content]
  BY <1>1, <1>2, FoundStep
<1>5. /\ (Announced(u) <=> Announced(u)') /\ Wanted(u)' = Wanted(u) /\ (Searched' <=> Searched)
      /\ Flushed \in [BookUids -> Known]
  BY <1>1, <1>2, FlushedIs DEF Announced, Wanted, Searched, backendVars
<1>6. CASE w # u
  <2>1. Flushed'[u] = Flushed[u]
    BY <1>4, <1>5, <1>6, <1>1
  <2>2. u \notin overtaken
    BY <1>2, <1>6 DEF Judge
  <2>3. Searched' /\ Found(u) => Found(u)'
    BY <1>1, <1>2, <1>5, <1>6 DEF Found, Searched
  <2> QED
    BY <1>5, <2>1, <2>2, <2>3, FollowedFrame DEF ViewFollowInv
<1>7. CASE w = u /\ running
  <2>1. n.content = contacts[u]
    BY <1>2, <1>7 DEF Judge
  <2>2. Flushed'[u] = Wanted(u)
    BY <1>3, <1>4, <1>5, <1>7, <2>1 DEF Wanted
  <2> QED
    BY <1>5, <2>2 DEF FollowedOK
<1>8. CASE w = u /\ ~running
  <2>1. u \notin overtaken /\ Flushed' = Flushed /\ ~Searched'
    BY <1>2, <1>3, <1>4, <1>5, <1>8 DEF Judge, Searched, Matches
  <2> QED
    BY <1>5, <2>1, FollowedFrame DEF ViewFollowInv
<1> QED
  BY <1>1, <1>6, <1>7, <1>8

\* No step loses the track of a contact.
LEMMA ViewFollowInductive == ViewIInv /\ ViewFollowInv /\ [ViewNext]_viewVars => ViewFollowInv'
<1> SUFFICES ASSUME ViewIInv, ViewFollowInv, [ViewNext]_viewVars PROVE ViewFollowInv'
  OBVIOUS
<1>1. /\ PendingTypes /\ BatchInv /\ running \in BOOLEAN /\ finishing \in Seq(Note)
      /\ notifying \in Note \cup {None} /\ contacts \in [BookUids -> Known]
  BY DEF ViewIInv, ViewTypeOK, PendingTypes
<1>2. \A u \in BookUids \ overtaken : FollowedOK(u)
  BY DEF ViewFollowInv
<1>3. \A u \in BookUids \ overtaken' : FollowedOK(u)'
  <2> DEFINE Goal == \A u \in BookUids \ overtaken' : FollowedOK(u)'
  <2>1. ASSUME NEW w \in BookUids, NEW v \in Known, ClientChange(w, v) \/ RefreshChange(w, v) PROVE Goal
    BY <2>1, ChangeFollowed
  <2>2. CASE NotifyFinished
    <3> DEFINE n == Head(finishing)
    <3>1. /\ n \in Note /\ finishing # <<>> /\ NotifyUpdate(n) /\ Judge(n)
          /\ finishing' = Tail(finishing) /\ UNCHANGED <<contacts, running, notifying>>
          /\ UNCHANGED startVars
      BY <1>1, <2>2, FinishingHead DEF NotifyFinished
    <3>2. ASSUME NEW u \in BookUids, n # [uid |-> u, content |-> contacts[u]], Announced(u)
          PROVE  Announced(u)'
      <4> DEFINE x == [uid |-> u, content |-> contacts[u]]
      <4>1. (\E i \in 1 .. Len(finishing) : finishing[i] = x) =>
               \E i \in 1 .. Len(finishing') : finishing'[i] = x
        BY <1>1, <3>1, <3>2, FinishingMoves
      <4> QED
        BY <3>1, <3>2, <4>1 DEF Announced
    <3> HIDE DEF n
    <3> QED
      BY <1>2, <3>1, <3>2, JudgedUpdate
  <2>3. CASE NotifyRefreshed
    <3>1. /\ notifying \in Note /\ NotifyUpdate(notifying) /\ Judge(notifying)
          /\ UNCHANGED <<contacts, running, finishing>> /\ UNCHANGED startVars
      BY <1>1, <2>3 DEF NotifyRefreshed
    <3>2. PICK n \in Note : n = notifying
      BY <3>1
    <3>3. ASSUME NEW u \in BookUids, n # [uid |-> u, content |-> contacts[u]], Announced(u)
          PROVE  Announced(u)'
      BY <3>1, <3>2, <3>3 DEF Announced
    <3> QED
      BY <1>2, <3>1, <3>2, <3>3, JudgedUpdate
  <2>4. CASE CompleteFinished \/ FlushTimeout \/ UNCHANGED viewVars
    <3>1. Flushed' = Flushed
      BY <1>1, <2>4, CompleteStep, SendAllStep, IgnoreStep
         DEF CompleteFinished, FlushTimeout, viewVars, pendingVars
    <3>2. UNCHANGED <<contacts, finishing, notifying, running, overtaken>> /\ UNCHANGED startVars
      BY <2>4 DEF CompleteFinished, FlushTimeout, viewVars, backendVars, startVars
    <3>3. \A u \in BookUids : /\ Announced(u)' <=> Announced(u)
                              /\ Wanted(u)' = Wanted(u)
                              /\ Searched' <=> Searched
                              /\ Found(u)' <=> Found(u)
      BY <3>2 DEF Announced, Wanted, Searched, Found, startVars
    <3> QED
      BY <1>2, <3>1, <3>2, <3>3, FollowedFrame
  <2>5. ASSUME NEW t \in Starts, NEW w \in BookUids, NotifyFound(t, w) PROVE Goal
    BY <2>5, FoundFollowed
  <2>6. CASE \/ \E t \in Starts : StartThread(t) \/ Search(t) \/ CompleteStart(t)
             \/ Start \/ Stop \/ StopThread \/ CancelSearch
    <3>1. UNCHANGED <<backendVars, overtaken>>
      BY <2>6 DEF StartThread, Search, CompleteStart, Start, Stop, StopThread, CancelSearch
    <3>2. Flushed' = Flushed
      BY <1>1, <2>6, CompleteStep, IgnoreStep
         DEF StartThread, Search, CompleteStart, Start, Stop, StopThread, CancelSearch
    <3> QED
      BY <2>6, <3>1, <3>2, StartFollowed
  <2> QED
    BY <2>1, <2>2, <2>3, <2>4, <2>5, <2>6 DEF ViewNext, MainLoopStep, StartStep
<1> QED
  BY <1>3, UnsentInductive DEF ViewFollowInv

\* No change gets lost on its way to the client: not between a search and the
\* changes which come meanwhile, not in a batch, not around a stop and a new start,
\* for any contacts, contents and number of starts.
THEOREM QuietCorrect == ViewSpec => []QuietInSync
<1>1. ViewInit => ViewFollowInv
  <2> SUFFICES ASSUME ViewInit PROVE ViewFollowInv
    OBVIOUS
  <2>1. PendingTypes
    BY ViewInitIInv DEF ViewIInv, ViewTypeOK, PendingTypes
  <2>2. Flushed = Nothing
    BY <2>1, FlushedIs, ReceiveNothing DEF ViewInit, PendingTypes
  <2> QED
    BY <2>2 DEF ViewInit, ViewFollowInv, FollowedOK, Searched, Nothing
<1>2. ViewIInv /\ ViewFollowInv => QuietInSync
  <2> SUFFICES ASSUME ViewIInv, ViewFollowInv,
                      running, last \notin cancelled, starter[last] = "done",
                      finishing = <<>>, notifying = None, ~flush,
                      NEW u \in BookUids, u \notin overtaken
               PROVE  client[u] = Wanted(u)
    BY DEF QuietInSync
  <2>1. PendingTypes /\ BatchInv /\ contacts \in [BookUids -> Known] /\ client \in [BookUids -> Known]
    BY DEF ViewIInv, ViewTypeOK, PendingTypes
  <2>2. Flushed = client
    BY <2>1, FlushedIs, ReceiveNothing DEF BatchInv
  <2>3. [uid |-> u, content |-> contacts[u]] # None
    BY <2>1, NoneAssumption DEF Known
  <2>4. ~Announced(u) /\ Searched /\ ~Found(u)
    BY <2>3 DEF Announced, Searched, Found
  <2> QED
    BY <2>2, <2>4 DEF ViewFollowInv, FollowedOK
<1> QED
  BY <1>1, <1>2, ViewIInvCorrect, ViewFollowInductive, PTL DEF ViewSpec
=============================================================================
