-------------------------- MODULE StoreSyncProofs ---------------------------
(***************************************************************************)
(* Proofs about StoreSync, for any number of processes, profiles and rows: *)
(* the variables keep their types, and no saved profile is forgotten.      *)
(***************************************************************************)
EXTENDS StoreSync, TLAPS

-----------------------------------------------------------------------------
\* Types

LEMMA SaveHeavyType ==
  ASSUME TypeOK, NEW q \in Proc, NEW p \in Profile, SaveHeavy(q, p)
  PROVE  /\ healthy' \in [Proc -> {"unknown", "yes", "no"}]
         /\ postgres' \in SUBSET Profile
         /\ sync_queue' \in [RowId -> Row \cup {None}]
         /\ current_mode' \in Mode
  BY DEF TypeOK, SaveHeavy, Mode

LEMMA NewRowType ==
  ASSUME NEW p \in Profile
  PROVE  NewRow(p) \in Row
  BY DEF NewRow, Row

LEMMA SaveLiteType ==
  ASSUME TypeOK, NEW q \in Proc, NEW p \in Profile, SaveLite(q, p)
  PROVE  /\ healthy' \in [Proc -> {"unknown", "yes", "no"}]
         /\ postgres' \in SUBSET Profile
         /\ sync_queue' \in [RowId -> Row \cup {None}]
         /\ current_mode' \in Mode
<1>1. healthy' \in [Proc -> {"unknown", "yes", "no"}]
  BY DEF TypeOK, SaveLite
<1>2. postgres' \in SUBSET Profile
  BY DEF TypeOK, SaveLite
<1>3. PICK i \in RowId : sync_queue' = [sync_queue EXCEPT ![i] = NewRow(p)]
  BY DEF SaveLite
<1>4. sync_queue' \in [RowId -> Row \cup {None}]
  BY <1>3, NewRowType DEF TypeOK
<1> QED
  BY <1>1, <1>2, <1>4 DEF SaveLite, Mode

LEMMA MarkedRowsType ==
  ASSUME TypeOK, NEW x \in Item
  PROVE  /\ Completed(sync_queue, x) \in [RowId -> Row \cup {None}]
         /\ Failed(sync_queue, x) \in [RowId -> Row \cup {None}]
<1>1. [data |-> x.data, target |-> "postgres", status |-> "failed"] \in Row
  BY DEF Item, Row
<1> QED
  BY <1>1 DEF TypeOK, Completed, Failed

LEMMA PendingType == Pending \in SUBSET Item
  BY DEF Pending

\* A process that marks a row has an item for it.
LEMMA MarkType ==
  ASSUME TypeOK, NEW q \in Proc, marks[q] # None
  PROVE  /\ marks[q] \in Mark
         /\ marks[q].item \in Item
         /\ marks[q].status \in {"completed", "failed"}
  BY DEF TypeOK, Mark

LEMMA ReplayType ==
  ASSUME TypeOK, NEW q \in Proc, NEW x \in Item, Replay(q, x)
  PROVE  TypeOK'
<1>1. x.data \in Profile
  BY DEF Item
<1>2. items' \in [Proc -> SUBSET Item]
  BY DEF TypeOK, Replay
<1>3. marks' \in [Proc -> Mark \cup {None}]
  <2>1. /\ [item |-> x, status |-> "completed"] \in Mark
        /\ [item |-> x, status |-> "failed"] \in Mark
    BY DEF Mark
  <2> QED
    BY <2>1 DEF TypeOK, Replay
<1>4. CASE SyncItem(q, x.data)
  BY <1>1, <1>2, <1>3, <1>4, SaveHeavyType, SaveLiteType DEF TypeOK, Replay, SyncItem
<1>5. CASE SyncItemRaises(q)
  BY <1>2, <1>3, <1>5 DEF TypeOK, Replay, SyncItemRaises
<1> QED
  BY <1>4, <1>5 DEF Replay

\* Every variable keeps its type.
THEOREM TypeCorrect == Spec => []TypeOK
<1>1. ASSUME Init PROVE TypeOK
  <2>1. marks \in [Proc -> Mark \cup {None}] /\ sync_queue \in [RowId -> Row \cup {None}]
    BY <1>1 DEF Init
  <2> QED
    BY <1>1, <2>1 DEF Init, TypeOK, Mode
<1>2. TypeOK /\ [Next]_vars => TypeOK'
  <2> SUFFICES ASSUME TypeOK, [Next]_vars PROVE TypeOK'
    OBVIOUS
  <2>1. CASE PostgresChanges
    BY <2>1 DEF TypeOK, PostgresChanges
  <2>2. ASSUME NEW q \in Proc, NEW p \in Profile, Save(q, p) PROVE TypeOK'
    <3>1. CASE SaveHeavy(q, p) /\ saved' = saved \cup {p}
      BY <2>2, <3>1, SaveHeavyType DEF TypeOK, Save
    <3>2. CASE SaveLite(q, p) /\ saved' = saved \cup {p}
      BY <2>2, <3>2, SaveLiteType DEF TypeOK, Save
    <3>3. CASE SaveRaises(q) /\ UNCHANGED saved
      BY <2>2, <3>3 DEF TypeOK, Save, SaveRaises
    <3> QED
      BY <2>2, <3>1, <3>2, <3>3 DEF Save
  <2>3. ASSUME NEW q \in Proc, Connect(q) PROVE TypeOK'
    <3>1. /\ syncing' \in [Proc -> {"no", "recover", "force"}]
          /\ items' \in [Proc -> SUBSET Item]
      BY <2>3, PendingType DEF TypeOK, Connect
    <3>2. fallback' \in [Proc -> BOOLEAN] /\ tables' \in BOOLEAN /\ current_mode' \in Mode
      BY <2>3 DEF TypeOK, Connect, Mode
    <3> QED
      BY <2>3, <3>1, <3>2 DEF TypeOK, Connect
  <2>4. ASSUME NEW q \in Proc, CheckAndRecover(q) PROVE TypeOK'
    <3>1. /\ syncing' \in [Proc -> {"no", "recover", "force"}]
          /\ items' \in [Proc -> SUBSET Item]
      BY <2>4, PendingType DEF TypeOK, CheckAndRecover
    <3>2. healthy' \in [Proc -> {"unknown", "yes", "no"}]
      BY <2>4 DEF TypeOK, CheckAndRecover
    <3> QED
      BY <2>4, <3>1, <3>2 DEF TypeOK, CheckAndRecover, Mode
  <2>5. ASSUME NEW q \in Proc, ForceSync(q) PROVE TypeOK'
    BY <2>5, PendingType DEF TypeOK, ForceSync, shared
  <2>6. ASSUME NEW q \in Proc, NEW x \in Item, Replay(q, x) PROVE TypeOK'
    BY <2>6, ReplayType
  <2>7. ASSUME NEW q \in Proc, Replayed(q) PROVE TypeOK'
    BY <2>7 DEF TypeOK, Replayed, Mode
  <2>8. ASSUME NEW q \in Proc, Crash(q) PROVE TypeOK'
    BY <2>8 DEF TypeOK, Crash, shared
  <2>9. ASSUME NEW q \in Proc, MarkRow(q) PROVE TypeOK'
    <3>1. sync_queue' \in [RowId -> Row \cup {None}]
      BY <2>9, MarkType, MarkedRowsType DEF MarkRow
    <3> QED
      BY <2>9, <3>1 DEF TypeOK, MarkRow
  <2>10. CASE UNCHANGED vars
    BY <2>10 DEF TypeOK, vars, shared
  <2> QED
    BY <2>1, <2>2, <2>3, <2>4, <2>5, <2>6, <2>7, <2>8, <2>9, <2>10 DEF Next
<1> QED
  BY <1>1, <1>2, PTL DEF Spec

-----------------------------------------------------------------------------
\* Nothing is forgotten

\* An item that a replay still lists is about the profile of its row, as long as the
\* row lives, and about the same profile as every other item of that row: the row may
\* have been completed by another process in the meantime.
Held ==
  \A q \in Proc : \A x \in Listed(q) :
    /\ sync_queue[x.id] # None => sync_queue[x.id].data = x.data
    /\ \A r \in Proc : \A y \in Listed(r) : x.id = y.id => x = y

\* A row that a process is about to complete
Leaving(i) ==
  \E q \in Proc : /\ marks[q] # None
                  /\ marks[q].status = "completed"
                  /\ marks[q].item.id = i

\* The profile has a row that stays.
Stays(p) ==
  \E i \in RowId : sync_queue[i] # None /\ sync_queue[i].data = p /\ ~Leaving(i)

\* Between the save of a replay and its mark, the row does not count.
Stored == \A p \in saved : p \in postgres \/ Stays(p)

Kept == Held /\ Stored

LEMMA ListedType ==
  ASSUME TypeOK, NEW q \in Proc
  PROVE  Listed(q) \subseteq Item
  BY MarkType DEF TypeOK, Listed

\* A fresh id is neither that of a row nor that of an item.
LEMMA FreshIsNew ==
  ASSUME TypeOK, NEW i \in RowId, Fresh(i)
  PROVE  /\ sync_queue[i] = None
         /\ \A q \in Proc : \A x \in Listed(q) : x.id # i
         /\ ~Leaving(i)
<1>1. ASSUME Leaving(i) PROVE FALSE
  <2>1. PICK q \in Proc : marks[q] # None /\ marks[q].item.id = i
    BY <1>1 DEF Leaving
  <2>2. marks[q].item \in Listed(q)
    BY <2>1 DEF Listed
  <2> QED
    BY <2>1, <2>2 DEF Fresh
<1> QED
  BY <1>1 DEF Fresh

LEMMA NewRowIsARow ==
  ASSUME NEW p \in Profile
  PROVE  NewRow(p) # None /\ NewRow(p).data = p
  BY NoneAssumption, NewRowType DEF NewRow

\* What a save puts into PostgreSQL or into a new row, while the replays list no more
\* than before and complete no row but that of one item of that profile.
LEMMA SavingKeeps ==
  ASSUME TypeOK, Kept, NEW q \in Proc, NEW p \in Profile, SaveHeavy(q, p) \/ SaveLite(q, p),
         \A r \in Proc : Listed(r)' \subseteq Listed(r),
         saved' \in {saved, saved \cup {p}},
         \A i \in RowId :
           Leaving(i)' => \/ Leaving(i)
                         \/ \E x \in Listed(q) : x.id = i /\ x.data = p
  PROVE  Kept'
<1>1. CASE SaveHeavy(q, p)
  <2>1. sync_queue' = sync_queue /\ postgres' = postgres \cup {p}
    BY <1>1 DEF SaveHeavy
  <2>2. Held'
    BY <2>1 DEF Kept, Held
  <2>3. ASSUME NEW s \in saved, s \notin postgres' PROVE Stays(s)'
    <3>1. PICK i \in RowId : sync_queue[i] # None /\ sync_queue[i].data = s /\ ~Leaving(i)
      BY <2>1, <2>3 DEF Kept, Stored, Stays
    <3>2. ~Leaving(i)'
      BY <2>1, <2>3, <3>1 DEF Kept, Held
    <3> QED
      BY <2>1, <3>1, <3>2 DEF Stays
  <2> QED
    BY <2>1, <2>2, <2>3 DEF Kept, Stored
<1>2. CASE SaveLite(q, p)
  <2>1. PICK i \in RowId : Fresh(i) /\ sync_queue' = [sync_queue EXCEPT ![i] = NewRow(p)]
    BY <1>2 DEF SaveLite
  <2>2. postgres \subseteq postgres'
    BY <1>2 DEF SaveLite
  <2>3. /\ sync_queue'[i] = NewRow(p)
        /\ \A j \in RowId \ {i} : sync_queue'[j] = sync_queue[j]
    BY <2>1 DEF TypeOK
  <2>4. Stays(p)'
    BY <2>1, <2>3, FreshIsNew, NewRowIsARow DEF Stays
  <2>5. ASSUME NEW s \in saved, s \notin postgres', s # p PROVE Stays(s)'
    <3>1. PICK j \in RowId : sync_queue[j] # None /\ sync_queue[j].data = s /\ ~Leaving(j)
      BY <2>2, <2>5 DEF Kept, Stored, Stays
    <3>2. j # i
      BY <2>1, <3>1 DEF Fresh
    <3>3. ~Leaving(j)'
      BY <2>5, <3>1 DEF Kept, Held
    <3> QED
      BY <2>3, <3>1, <3>2, <3>3 DEF Stays
  <2>6. Held'
    <3> SUFFICES ASSUME NEW r \in Proc, NEW x \in Listed(r)
                 PROVE  sync_queue'[x.id] # None => sync_queue'[x.id].data = x.data
      BY DEF Kept, Held
    <3>1. x.id \in RowId /\ x.id # i
      BY <2>1, ListedType, FreshIsNew DEF Item
    <3> QED
      BY <2>3, <3>1 DEF Kept, Held
  <2> QED
    BY <2>4, <2>5, <2>6 DEF Kept, Stored
<1> QED
  BY <1>1, <1>2

\* What neither saves nor marks a row.
LEMMA ShrinkingKeeps ==
  ASSUME Kept, UNCHANGED <<sync_queue, saved>>, postgres \subseteq postgres',
         \A r \in Proc : Listed(r)' \subseteq Listed(r),
         \A i \in RowId : Leaving(i)' => Leaving(i)
  PROVE  Kept'
<1>1. Held'
  BY DEF Kept, Held
<1>2. Stored'
  BY DEF Kept, Stored, Stays
<1> QED
  BY <1>1, <1>2 DEF Kept

\* A save for a client.
LEMMA SaveKeeps ==
  ASSUME TypeOK, Kept, NEW q \in Proc, NEW p \in Profile, Save(q, p)
  PROVE  Kept'
<1>1. /\ \A r \in Proc : Listed(r)' = Listed(r)
      /\ \A i \in RowId : Leaving(i)' = Leaving(i)
  BY DEF Save, Listed, Leaving
<1>2. CASE SaveHeavy(q, p) \/ SaveLite(q, p)
  <2>1. saved' \in {saved, saved \cup {p}}
    BY DEF Save
  <2> QED
    BY <1>1, <1>2, <2>1, SavingKeeps
<1>3. CASE SaveRaises(q) /\ UNCHANGED saved
  BY <1>1, <1>3, ShrinkingKeeps DEF SaveRaises
<1> QED
  BY <1>2, <1>3 DEF Save

\* A replay that starts takes pending rows as they are.
LEMMA ListKeeps ==
  ASSUME TypeOK, Kept, NEW q \in Proc, items' = [items EXCEPT ![q] = Pending],
         UNCHANGED <<sync_queue, postgres, saved, marks>>
  PROVE  Kept'
<1>1. /\ Listed(q)' \subseteq Pending \cup Listed(q)
      /\ \A r \in Proc \ {q} : Listed(r)' = Listed(r)
  BY DEF TypeOK, Listed
<1>2. \A x \in Pending : sync_queue[x.id] # None /\ sync_queue[x.id].data = x.data /\ x \in Item
  BY DEF Pending
<1>3. \A x, y \in Item : x.id = y.id /\ x.data = y.data => x = y
  BY DEF Item
<1>4. ASSUME NEW r \in Proc, NEW x \in Listed(r)'
      PROVE  x \in Item /\ (sync_queue[x.id] # None => sync_queue[x.id].data = x.data)
  BY <1>1, <1>2, ListedType DEF Kept, Held
<1>5. ASSUME NEW r \in Proc, NEW x \in Listed(r)', NEW s \in Proc, NEW y \in Listed(s)',
             x.id = y.id
      PROVE  x = y
  <2>1. CASE x \in Pending \/ y \in Pending
    BY <1>2, <1>3, <1>4, <1>5, <2>1
  <2>2. CASE x \notin Pending /\ y \notin Pending
    <3>1. x \in Listed(r) /\ y \in Listed(s)
      BY <1>1, <2>2
    <3> QED
      BY <1>5, <3>1 DEF Kept, Held
  <2> QED
    BY <2>1, <2>2
<1>6. Held'
  BY <1>4, <1>5 DEF Held
<1>7. Stored'
  BY DEF Kept, Stored, Stays, Leaving
<1> QED
  BY <1>6, <1>7 DEF Kept

\* The row that a replay is going to complete has its profile in PostgreSQL or in
\* another row.
LEMMA ReplayKeeps ==
  ASSUME TypeOK, Kept, NEW q \in Proc, NEW x \in Item, Replay(q, x)
  PROVE  Kept'
<1>1. x \in items[q] /\ marks[q] = None /\ x.data \in Profile /\ saved' = saved
  BY DEF Replay, Item
<1>2. /\ items'[q] = items[q] \ {x}
      /\ \A r \in Proc \ {q} : items'[r] = items[r] /\ marks'[r] = marks[r]
      /\ marks'[q] # None => marks'[q].item = x
  BY DEF Replay, TypeOK
<1>3. \A r \in Proc : Listed(r)' \subseteq Listed(r)
  BY <1>1, <1>2 DEF Listed
<1>4. x \in Listed(q)
  BY <1>1 DEF Listed
<1>5. CASE SyncItem(q, x.data)
  <2>1. \A i \in RowId : Leaving(i)' => Leaving(i) \/ x.id = i
    BY <1>1, <1>2 DEF Leaving
  <2> QED
    BY <1>1, <1>3, <1>4, <1>5, <2>1, SavingKeeps DEF SyncItem
<1>6. CASE /\ SyncItemRaises(q)
           /\ marks' = [marks EXCEPT ![q] = IF syncing[q] = "recover"
                                            THEN [item |-> x, status |-> "failed"]
                                            ELSE None]
  <2>1. marks'[q] # None => marks'[q].status = "failed"
    BY <1>6 DEF TypeOK
  <2>2. \A i \in RowId : Leaving(i)' => Leaving(i)
    BY <1>1, <1>2, <2>1 DEF Leaving
  <2> QED
    BY <1>1, <1>3, <1>6, <2>2, ShrinkingKeeps DEF SyncItemRaises
<1> QED
  BY <1>5, <1>6 DEF Replay

\* The row that goes was one that did not count; a row that failed stays what it was.
LEMMA MarkKeeps ==
  ASSUME TypeOK, Kept, NEW q \in Proc, MarkRow(q)
  PROVE  Kept'
<1> DEFINE x == marks[q].item
<1>1. /\ x \in Listed(q) /\ x \in Item /\ x.id \in RowId /\ x.data \in Profile
      /\ UNCHANGED <<postgres, saved>>
  BY MarkType DEF MarkRow, Listed, Item
<1>2. /\ marks'[q] = None
      /\ \A r \in Proc \ {q} : marks'[r] = marks[r]
      /\ items' = items
  BY DEF MarkRow, TypeOK
<1>3. \A r \in Proc : Listed(r)' \subseteq Listed(r) /\ Listed(r) \subseteq Item
  BY <1>2, ListedType DEF Listed
<1>4. \A i \in RowId : Leaving(i)' => Leaving(i)
  BY <1>2 DEF Leaving
<1>5. \A j \in RowId \ {x.id} : sync_queue'[j] = sync_queue[j]
  BY <1>1 DEF MarkRow, Completed, Failed, TypeOK
<1>6. CASE marks[q].status = "completed"
  <2>1. Leaving(x.id)
    BY <1>6 DEF MarkRow, Leaving
  <2>2. sync_queue'[x.id] = None
    BY <1>1, <1>6 DEF MarkRow, Completed, TypeOK
  <2>3. Held'
    BY <1>3, <1>5, <2>2 DEF Kept, Held, Item
  <2>4. ASSUME NEW s \in saved, Stays(s) PROVE Stays(s)'
    <3>1. PICK i \in RowId : sync_queue[i] # None /\ sync_queue[i].data = s /\ ~Leaving(i)
      BY <2>4 DEF Stays
    <3>2. i # x.id
      BY <2>1, <3>1
    <3> QED
      BY <1>4, <1>5, <3>1, <3>2 DEF Stays
  <2> QED
    BY <1>1, <2>3, <2>4 DEF Kept, Stored
<1>7. CASE marks[q].status = "failed"
  <2> DEFINE row == [data |-> x.data, target |-> "postgres", status |-> "failed"]
  <2>1. row # None /\ row.data = x.data
    BY <1>1, NoneAssumption DEF Row
  <2>2. sync_queue'[x.id] = row
    BY <1>1, <1>7 DEF MarkRow, Failed, TypeOK
  <2> HIDE DEF row
  <2>3. Held'
    <3> SUFFICES ASSUME NEW r \in Proc, NEW y \in Listed(r)'
                 PROVE  sync_queue'[y.id] # None => sync_queue'[y.id].data = y.data
      BY <1>3 DEF Kept, Held
    <3>1. y \in Listed(r) /\ y.id \in RowId
      BY <1>3 DEF Item
    <3>2. CASE y.id = x.id
      BY <1>1, <2>1, <2>2, <3>1, <3>2 DEF Kept, Held
    <3>3. CASE y.id # x.id
      BY <1>5, <3>1, <3>3 DEF Kept, Held
    <3> QED
      BY <3>2, <3>3
  <2>4. ASSUME NEW s \in saved, Stays(s) PROVE Stays(s)'
    <3>1. PICK i \in RowId : sync_queue[i] # None /\ sync_queue[i].data = s /\ ~Leaving(i)
      BY <2>4 DEF Stays
    <3>2. sync_queue'[i] # None /\ sync_queue'[i].data = s
      BY <1>1, <1>5, <2>1, <2>2, <3>1 DEF Kept, Held
    <3> QED
      BY <1>4, <3>1, <3>2 DEF Stays
  <2> QED
    BY <1>1, <2>3, <2>4 DEF Kept, Stored
<1> QED
  BY <1>6, <1>7, MarkType DEF MarkRow

\* What a save has returned for is in PostgreSQL or in the queue, whatever replays,
\* failures and ends of processes come between, those between the save of a replay
\* and the mark of its row included.
THEOREM NothingForgotten == Spec => []NothingIsForgotten
<1>1. Init => Kept
  BY DEF Init, Kept, Held, Listed, Stored
<1>2. TypeOK /\ Kept /\ [Next]_vars => Kept'
  <2> SUFFICES ASSUME TypeOK, Kept, [Next]_vars PROVE Kept'
    OBVIOUS
  <2>1. ASSUME UNCHANGED <<sync_queue, postgres, saved, items, marks>> PROVE Kept'
    BY <2>1 DEF Kept, Held, Listed, Stored, Stays, Leaving
  <2>2. CASE PostgresChanges
    BY <2>1, <2>2 DEF PostgresChanges
  <2>3. ASSUME NEW q \in Proc, Connect(q) PROVE Kept'
    BY <2>1, <2>3, ListKeeps DEF Connect
  <2>4. ASSUME NEW q \in Proc, CheckAndRecover(q) PROVE Kept'
    BY <2>1, <2>4, ListKeeps DEF CheckAndRecover
  <2>5. ASSUME NEW q \in Proc, ForceSync(q) PROVE Kept'
    BY <2>5, ListKeeps DEF ForceSync, shared
  <2>6. ASSUME NEW q \in Proc, Replayed(q) PROVE Kept'
    BY <2>1, <2>6 DEF Replayed
  <2>7. ASSUME NEW q \in Proc, Crash(q) PROVE Kept'
    <3>1. \A r \in Proc : items'[r] \subseteq items[r] /\ marks'[r] \in {marks[r], None}
      BY <2>7 DEF Crash, TypeOK
    <3>2. UNCHANGED <<sync_queue, postgres, saved>>
      BY <2>7 DEF Crash, shared
    <3>3. \A r \in Proc : Listed(r)' \subseteq Listed(r)
      BY <3>1 DEF Listed
    <3>4. \A i \in RowId : Leaving(i)' => Leaving(i)
      BY <3>1 DEF Leaving
    <3> QED
      BY <3>2, <3>3, <3>4, ShrinkingKeeps
  <2>8. CASE UNCHANGED vars
    BY <2>1, <2>8 DEF vars, shared
  <2> QED
    BY <2>2, <2>3, <2>4, <2>5, <2>6, <2>7, <2>8, SaveKeeps, ReplayKeeps, MarkKeeps DEF Next
<1>3. Kept => NothingIsForgotten
  BY DEF Kept, Stored, Stays, NothingIsForgotten, Queued
<1> QED
  BY <1>1, <1>2, <1>3, TypeCorrect, PTL DEF Spec

=============================================================================
