---------------------------- MODULE HistoryStore ----------------------------
(***************************************************************************)
(* The SQLite task history that every Mercury process of one user shares   *)
(* (src/mercury/history.py).  The store is passive: this module holds its  *)
(* two tables and one operator per transaction, and the modules that own   *)
(* processes compose them.  A transaction is one step; what the code does  *)
(* as two statements in autocommit mode (read, then write) is two.         *)
(*                                                                         *)
(* A row of `tasks' is abstracted to its lifecycle columns, an event to    *)
(* its type; the events of a task are a sequence, so that an event's index *)
(* is its `sequence' column.                                               *)
(***************************************************************************)
EXTENDS Integers, Sequences, FiniteSets

CONSTANTS
    Tasks,      \* task ids; numbers stand for the ordered text ids
    Procs,      \* processes that open the database, one TaskService each
    Legacy,     \* tasks a version 1 database already held, still active
    LegacyOwner,\* the owner "legacy-v1" the migration gives them
    NoOwner,    \* SQL NULL in owner_id
    NoLease,    \* SQL NULL in lease_expires_at
    LegacyLease,\* LEGACY_ACTIVE_LEASE_SECONDS, in ticks
    MaxAge,     \* max_age_days, in ticks
    MaxTasks    \* max_tasks

ASSUME TasksAssumption == Tasks \subseteq Nat /\ Legacy \subseteq Tasks
ASSUME RetentionAssumption == MaxAge \in Nat /\ MaxTasks \in Nat \ {0}
ASSUME LegacyAssumption == LegacyLease \in Nat
ASSUME MigratedAssumption == IsFiniteSet(Legacy)
ASSUME NullAssumption == NoOwner \notin Procs \cup {LegacyOwner} /\ NoLease \notin Nat

VARIABLES
    row,        \* table tasks: task id -> its lifecycle columns
    events      \* table events: task id -> the types of its events, in order

storeVars == <<row, events>>

-----------------------------------------------------------------------------
Active   == {"pending", "running"}
Terminal == {"completed", "failed", "cancelled"}
Owners   == Procs \cup {LegacyOwner}

EventTypes ==
    {"accepted", "running", "observation", "cancelling", "recovered", "terminal"}

Rows == [state: Active \cup Terminal \cup {"absent"}, owner: Owners \cup {NoOwner},
         lease: Nat \cup {NoLease}, updated: Nat]

\* No row with this task id; its events have gone with it (ON DELETE CASCADE).
Absent == [state |-> "absent", owner |-> NoOwner, lease |-> NoLease, updated |-> 0]

\* A terminal row: the transition clears the owner and the lease.
Closed(verdict, at) ==
    [state |-> verdict, owner |-> NoOwner, lease |-> NoLease, updated |-> at]

-----------------------------------------------------------------------------
(* The constructor's migration: a version 1 row that is still active gets  *)
(* a placeholder owner and a lease counted from its last update.           *)
Migrated == [state: Active, owner: {LegacyOwner}, lease: {LegacyLease}, updated: {0}]

StoreInit ==
    /\ row \in {r \in [Tasks -> Migrated \cup {Absent}] :
                   \A t \in Tasks : t \in Legacy <=> r[t] # Absent}
    /\ events = [t \in Tasks |-> CASE row[t].state = "pending" -> <<"accepted">>
                                   [] row[t].state = "running" -> <<"accepted", "running">>
                                   [] OTHER -> << >>]

StoreTypeOK ==
    /\ row \in [Tasks -> Rows]
    /\ events \in [Tasks -> Seq(EventTypes)]

-----------------------------------------------------------------------------
(* Transactions.                                                           *)

CreateTask(t, owner, lease, at) ==
    /\ row[t].state = "absent"
    /\ row' = [row EXCEPT ![t] = [state |-> "pending", owner |-> owner,
                                  lease |-> lease, updated |-> at]]
    /\ events' = [events EXCEPT ![t] = Append(@, "accepted")]

\* The UPDATE's WHERE clause: the row the caller may still start.
MayStart(t, owner) == row[t].state = "pending" /\ row[t].owner = owner

\* A variant to be refuted: the start does not extend the lease.
MarkRunning_sameLease(t, owner, lease, at) ==
    /\ MayStart(t, owner)
    /\ row' = [row EXCEPT ![t] = [@ EXCEPT !.state = "running", !.updated = at]]
    /\ events' = [events EXCEPT ![t] = Append(@, "running")]

MarkRunning(t, owner, lease, at) ==
    /\ MayStart(t, owner)
    /\ row' = [row EXCEPT ![t] = [@ EXCEPT !.state = "running", !.lease = lease,
                                           !.updated = at]]
    /\ events' = [events EXCEPT ![t] = Append(@, "running")]

\* What finish_task requires of the row it reads, and again of the row its
\* UPDATE touches.
MayFinish(t, owner) == row[t].state = "running" /\ row[t].owner = owner

FinishTask(t, owner, verdict, at) ==
    /\ MayFinish(t, owner)
    /\ row' = [row EXCEPT ![t] = Closed(verdict, at)]
    /\ events' = [events EXCEPT ![t] = Append(@, "terminal")]

\* append_event reads MAX(sequence)+1 before its INSERT opens a transaction ...
NextSequence(t) == Len(events[t]) + 1

\* ... so the INSERT meets the primary key and the foreign key on its own.
MayInsert(t, sequence) == row[t].state # "absent" /\ sequence = NextSequence(t)

InsertEvent(t, sequence, type) ==
    /\ MayInsert(t, sequence)
    /\ events' = [events EXCEPT ![t] = Append(@, type)]
    /\ UNCHANGED row

\* A variant to be refuted: only started tasks count as interrupted.
Orphan_running(t, at) ==
    /\ row[t].state = "running"
    /\ row[t].lease = NoLease \/ row[t].lease =< at

\* recover_interrupted first reads every active row nobody holds a lease on,
Orphan(t, at) ==
    /\ row[t].state \in Active
    /\ \/ row[t].owner = NoOwner
       \/ row[t].lease = NoLease
       \/ row[t].lease # NoLease /\ row[t].lease =< at

Snapshot(t, at) == [task |-> t, state |-> row[t].state, owner |-> row[t].owner,
                    lease |-> row[t].lease, at |-> at]

OrphanSnapshots(at) == {Snapshot(t, at) : t \in {u \in Tasks : Orphan(u, at)}}

\* then closes each of them only if the row is still the one it read.
Unchanged(s) == s = Snapshot(s.task, s.at)

\* A variant to be refuted: the row is closed whatever it has become.
RecoverTask_blind(s) ==
    /\ row[s.task].state # "absent"
    /\ row' = [row EXCEPT ![s.task] = Closed("failed", s.at)]
    /\ events' = [events EXCEPT ![s.task] = Append(@, "recovered")]

RecoverTask(s) ==
    /\ Unchanged(s)
    /\ row' = [row EXCEPT ![s.task] = Closed("failed", s.at)]
    /\ events' = [events EXCEPT ![s.task] = Append(@, "recovered")]

-----------------------------------------------------------------------------
(* Retention: one transaction deletes terminal rows past their age, then   *)
(* those beyond the newest MaxTasks, ordered by (updated_at, task_id).     *)

Aged(at) == {t \in Tasks : row[t].state \in Terminal /\ row[t].updated + MaxAge < at}

Recent(at) == {t \in Tasks : row[t].state \in Terminal} \ Aged(at)

Newer(s, t) ==
    \/ row[s].updated > row[t].updated
    \/ row[s].updated = row[t].updated /\ s > t

\* A variant to be refuted: one row too few is kept.
Excess_offByOne(at) == {t \in Recent(at) :
                  Cardinality({s \in Recent(at) : Newer(s, t)}) + 1 >= MaxTasks}

Excess(at) == {t \in Recent(at) :
                  Cardinality({s \in Recent(at) : Newer(s, t)}) >= MaxTasks}

Pruned(at) == Aged(at) \cup Excess(at)

Prune(at) ==
    /\ row' = [t \in Tasks |-> IF t \in Pruned(at) THEN Absent ELSE row[t]]
    /\ events' = [t \in Tasks |-> IF t \in Pruned(at) THEN << >> ELSE events[t]]
=============================================================================
