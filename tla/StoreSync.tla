----------------------------- MODULE StoreSync ------------------------------
(***************************************************************************)
(* Profiles saved through BidirectionalSyncStore,                          *)
(* storage/bidirectional_sync.py over storage/profile_store.py.            *)
(*                                                                         *)
(* Every process has a store of its own; they share PostgreSQL and one     *)
(* SQLite file, which holds the mode and the queue of changes that are to  *)
(* be replayed.  A save that cannot use PostgreSQL goes to SQLite and to   *)
(* the queue.  A replay reads the queue once and takes its rows one by     *)
(* one, between other saves of the same process: it saves the profile of a *)
(* row, and then marks the row.  It ends by declaring the mode heavy.      *)
(*                                                                         *)
(* A save is one step, and a process is in one replay at a time.  Which    *)
(* version of the profile is the active one, and with it the snapshots of  *)
(* PostgreSQL in SQLite, is left out, and so are failures of SQLite other  *)
(* than the lack of its tables.  A row of the queue that is completed is   *)
(* never read again and counts as none.                                    *)
(***************************************************************************)
EXTENDS Naturals

CONSTANTS
  Proc,     \* processes with a store
  Profile,  \* profiles that clients save, each of them once
  RowId,    \* rows of the queue; its size bounds those that are alive at a time
  None      \* no row, no mark

Mode == {"lite", "heavy"}
Row == [data : Profile, target : {"postgres", "sqlite"}, status : {"pending", "failed"}]
Item == [id : RowId, data : Profile]
Mark == [item : Item, status : {"completed", "failed"}]

ASSUME NoneAssumption == None \notin Row /\ None \notin Mark

VARIABLES
  postgres_up,   \* PostgreSQL answers
  postgres,      \* profiles in its table
  tables,        \* the profile tables of the SQLite file exist
  current_mode,  \* of the mode_sync_state row
  sync_queue,    \* the rows of sync_queue, by id
  saved,         \* profiles whose save has returned
  started,       \* processes that have a store
  fallback,      \* _using_fallback
  healthy,       \* _postgres_healthy
  syncing,       \* the replay a process is in
  items,         \* what is left of its list
  marks          \* how it will mark the row of the item that it has tried

shared == <<postgres_up, postgres, tables, current_mode, sync_queue, saved>>
vars == <<shared, started, fallback, healthy, syncing, items, marks>>

TypeOK ==
  /\ postgres_up \in BOOLEAN
  /\ postgres \in SUBSET Profile
  /\ tables \in BOOLEAN
  /\ current_mode \in Mode
  /\ sync_queue \in [RowId -> Row \cup {None}]
  /\ saved \in SUBSET Profile
  /\ started \in SUBSET Proc
  /\ fallback \in [Proc -> BOOLEAN]
  /\ healthy \in [Proc -> {"unknown", "yes", "no"}]
  /\ syncing \in [Proc -> {"no", "recover", "force"}]
  /\ items \in [Proc -> SUBSET Item]
  /\ marks \in [Proc -> Mark \cup {None}]

\* A first start, with or without PostgreSQL.
Init ==
  /\ postgres_up \in BOOLEAN
  /\ postgres = {}
  /\ tables = FALSE
  /\ current_mode = "lite"
  /\ sync_queue = [i \in RowId |-> None]
  /\ saved = {}
  /\ started = {}
  /\ fallback = [q \in Proc |-> FALSE]
  /\ healthy = [q \in Proc |-> "unknown"]
  /\ syncing = [q \in Proc |-> "no"]
  /\ items = [q \in Proc |-> {}]
  /\ marks = [q \in Proc |-> None]

PostgresChanges ==
  /\ postgres_up' = ~postgres_up
  /\ UNCHANGED <<postgres, tables, current_mode, sync_queue, saved, started, fallback,
                 healthy, syncing, items, marks>>

-----------------------------------------------------------------------------
\* The queue

\* The items that a replay has still to try or to mark
Listed(q) == items[q] \cup {m.item : m \in {marks[q]} \ {None}}

\* An id that is not in use, neither by a row nor by an item of a replay.
Fresh(i) ==
  /\ sync_queue[i] = None
  /\ \A q \in Proc : \A x \in Listed(q) : x.id # i

\* _get_pending_queue('postgres')
Pending ==
  {x \in Item : /\ sync_queue[x.id] # None
                /\ sync_queue[x.id].target = "postgres"
                /\ sync_queue[x.id].status = "pending"
                /\ sync_queue[x.id].data = x.data}

\* Seeded fault, for NewRow: the target is named after the mode.
NewRowByMode(p) == [data |-> p, target |-> current_mode, status |-> "pending"]

\* queue_for_sync: the target is chosen by the mode before the save changes it.
NewRow(p) ==
  [data |-> p,
   target |-> IF current_mode = "lite" THEN "postgres" ELSE "sqlite",
   status |-> "pending"]

\* _mark_queue_item_completed and _mark_queue_item_failed
Completed(queue, x) == [queue EXCEPT ![x.id] = None]
Failed(queue, x) ==
  [queue EXCEPT ![x.id] = [data |-> x.data, target |-> "postgres", status |-> "failed"]]

-----------------------------------------------------------------------------
\* save_profile, of a client or of a replay

\* _quick_health_check passes, and PostgreSQL takes the profile.  The shadow copy in
\* SQLite fails without its tables, which is not an error.
SaveHeavy(q, p) ==
  /\ ~fallback[q]
  /\ postgres_up
  /\ healthy' = [healthy EXCEPT ![q] = "yes"]
  /\ postgres' = postgres \cup {p}
  /\ UNCHANGED sync_queue
  /\ current_mode' = "heavy"

\* PostgreSQL is not tried, or the check fails, or it fails in the middle, before or
\* after the insertion.  The profile goes to SQLite, if that has its tables.
SaveLite(q, p) ==
  /\ \/ /\ fallback[q] \/ healthy[q] = "no"
        /\ UNCHANGED <<healthy, postgres>>
     \/ /\ ~fallback[q]
        /\ healthy' = [healthy EXCEPT ![q] = "no"]
        /\ \/ UNCHANGED postgres
           \/ postgres_up /\ postgres' = postgres \cup {p}
  /\ tables
  /\ \E i \in RowId :
       /\ Fresh(i)
       /\ sync_queue' = [sync_queue EXCEPT ![i] = NewRow(p)]
  /\ current_mode' = "lite"

\* Neither has the profile when it raises.
SaveRaises(q) ==
  /\ ~tables
  /\ UNCHANGED <<postgres, sync_queue, current_mode>>
  /\ \/ fallback[q] /\ UNCHANGED healthy
     \/ ~fallback[q] /\ healthy' = [healthy EXCEPT ![q] = "no"]

\* A client's call
Save(q, p) ==
  /\ q \in started
  /\ p \notin saved
  /\ \/ SaveHeavy(q, p) /\ saved' = saved \cup {p}
     \/ SaveLite(q, p) /\ saved' = saved \cup {p}
     \/ SaveRaises(q) /\ UNCHANGED saved
  /\ UNCHANGED <<postgres_up, tables, started, fallback, syncing, items, marks>>

-----------------------------------------------------------------------------
\* Replays

\* connect and _detect_and_handle_mode_switch.  Without PostgreSQL the tables of
\* SQLite are made and the process stays without it: no later success resets
\* _using_fallback.
Connect(q) ==
  /\ q \notin started
  /\ started' = started \cup {q}
  /\ healthy' = [healthy EXCEPT ![q] = "unknown"]
  /\ \/ /\ postgres_up
        /\ fallback' = [fallback EXCEPT ![q] = FALSE]
        /\ UNCHANGED tables
        /\ IF current_mode = "lite"
           THEN /\ syncing' = [syncing EXCEPT ![q] = "recover"]
                /\ items' = [items EXCEPT ![q] = Pending]
           ELSE UNCHANGED <<syncing, items>>
        /\ UNCHANGED current_mode
     \/ /\ fallback' = [fallback EXCEPT ![q] = TRUE]
        /\ ~postgres_up
        /\ tables' = TRUE
        /\ current_mode' = "lite"
        /\ UNCHANGED <<syncing, items>>
  /\ UNCHANGED <<postgres_up, postgres, sync_queue, saved, marks>>

\* check_and_recover
CheckAndRecover(q) ==
  /\ q \in started
  /\ syncing[q] = "no"
  /\ ~fallback[q]
  /\ healthy' = [healthy EXCEPT ![q] = IF postgres_up THEN "yes" ELSE "no"]
  /\ IF postgres_up /\ healthy[q] = "no"
     THEN /\ syncing' = [syncing EXCEPT ![q] = "recover"]
          /\ items' = [items EXCEPT ![q] = Pending]
     ELSE UNCHANGED <<syncing, items>>
  /\ current_mode' = IF ~postgres_up /\ healthy[q] = "yes" THEN "lite" ELSE current_mode
  /\ UNCHANGED <<postgres_up, postgres, tables, sync_queue, saved, started, fallback,
                 marks>>

\* force_sync, in the transition to heavy mode, whether or not there is PostgreSQL
ForceSync(q) ==
  /\ q \in started
  /\ syncing[q] = "no"
  /\ syncing' = [syncing EXCEPT ![q] = "force"]
  /\ items' = [items EXCEPT ![q] = Pending]
  /\ UNCHANGED <<shared, started, fallback, healthy, marks>>

\* _sync_item_to_postgres.  A save that falls back to SQLite is no error here: it has
\* queued a new row.  (That there is a row means that SQLite has its tables.)
SyncItem(q, p) ==
  /\ ~fallback[q]
  /\ postgres_up
  /\ SaveHeavy(q, p) \/ SaveLite(q, p)

SyncItemRaises(q) ==
  /\ fallback[q] \/ ~postgres_up
  /\ UNCHANGED <<postgres, sync_queue, current_mode, healthy>>

\* Seeded fault, for Replay: the row is completed before its profile is saved.
CompletedFirst(q, x) ==
  /\ \/ /\ marks[q] = None
        /\ x \in items[q]
        /\ items' = [items EXCEPT ![q] = @ \ {x}]
        /\ sync_queue' = Completed(sync_queue, x)
        /\ marks' = [marks EXCEPT ![q] = [item |-> x, status |-> "completed"]]
        /\ UNCHANGED <<postgres, current_mode, healthy>>
     \/ /\ marks[q] # None
        /\ x = marks[q].item
        /\ SyncItem(q, x.data)
        /\ marks' = [marks EXCEPT ![q] = None]
        /\ UNCHANGED items
  /\ UNCHANGED <<postgres_up, tables, saved, started, fallback, syncing>>

\* The next row of the list.  force_sync leaves a row that failed as it is.
Replay(q, x) ==
  /\ marks[q] = None
  /\ x \in items[q]
  /\ items' = [items EXCEPT ![q] = @ \ {x}]
  /\ \/ /\ SyncItem(q, x.data)
        /\ marks' = [marks EXCEPT ![q] = [item |-> x, status |-> "completed"]]
     \/ /\ SyncItemRaises(q)
        /\ marks' = [marks EXCEPT ![q] = IF syncing[q] = "recover"
                                         THEN [item |-> x, status |-> "failed"]
                                         ELSE None]
  /\ UNCHANGED <<postgres_up, tables, saved, started, fallback, syncing>>

\* The row is marked, whatever has become of it.
MarkRow(q) ==
  /\ marks[q] # None
  /\ sync_queue' = IF marks[q].status = "completed"
                   THEN Completed(sync_queue, marks[q].item)
                   ELSE Failed(sync_queue, marks[q].item)
  /\ marks' = [marks EXCEPT ![q] = None]
  /\ UNCHANGED <<postgres_up, postgres, tables, current_mode, saved, started, fallback,
                 healthy, syncing, items>>

\* The end of a replay, and HEAVY_ACTIVATION at the end of the transition
Replayed(q) ==
  /\ syncing[q] # "no"
  /\ items[q] = {}
  /\ marks[q] = None
  /\ syncing' = [syncing EXCEPT ![q] = "no"]
  /\ current_mode' = "heavy"
  /\ UNCHANGED <<postgres_up, postgres, tables, sync_queue, saved, started, fallback,
                 healthy, items, marks>>

\* The process ends, perhaps in the middle of a replay, between a save and its mark.
Crash(q) ==
  /\ q \in started
  /\ started' = started \ {q}
  /\ syncing' = [syncing EXCEPT ![q] = "no"]
  /\ items' = [items EXCEPT ![q] = {}]
  /\ marks' = [marks EXCEPT ![q] = None]
  /\ UNCHANGED <<shared, fallback, healthy>>

Next ==
  \/ PostgresChanges
  \/ \E q \in Proc :
       \/ \E p \in Profile : Save(q, p)
       \/ Connect(q) \/ CheckAndRecover(q) \/ ForceSync(q)
       \/ \E x \in Item : Replay(q, x)
       \/ MarkRow(q) \/ Replayed(q) \/ Crash(q)

Spec == Init /\ [][Next]_vars

-----------------------------------------------------------------------------
\* Properties

Queued(p) == \E i \in RowId : sync_queue[i] # None /\ sync_queue[i].data = p

\* "NEVER returns without saving data somewhere", and what is only in SQLite keeps a
\* row of the queue, whatever replays, failures of PostgreSQL and ends of processes
\* come between: a row is completed only when another place has its profile.
NothingIsForgotten == \A p \in saved : p \in postgres \/ Queued(p)

\* "write to SQLite + queue for sync": a profile that PostgreSQL does not have is
\* waiting to be written there.
WaitsForPostgres ==
  \A p \in saved :
    \/ p \in postgres
    \/ \E i \in RowId : /\ sync_queue[i] # None
                        /\ sync_queue[i].data = p
                        /\ sync_queue[i].target = "postgres"

=============================================================================
