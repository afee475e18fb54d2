-------------------------- MODULE TaskServiceProofs --------------------------
(***************************************************************************)
(* Theorems of TaskService, for every number of processes and tasks and    *)
(* every value of the other constants.                                     *)
(***************************************************************************)
EXTENDS TaskService, FiniteSetTheorems, WellFoundedInduction, TLAPS

USE TasksAssumption, RetentionAssumption, LegacyAssumption, NullAssumption,
    DurationAssumption, EventsAssumption, FlagAssumption, TimeAssumption

-----------------------------------------------------------------------------
(* Type correctness.                                                       *)

\* Retention leaves both tables well formed.
LEMMA PruneType ==
    ASSUME StoreTypeOK, NEW at \in Nat, Prune(at) PROVE StoreTypeOK'
<1>1. Absent \in Rows
    BY DEF Absent, Rows
<1>2. << >> \in Seq(EventTypes)
    OBVIOUS
<1>3. row' \in [Tasks -> Rows]
    BY <1>1 DEF Prune, StoreTypeOK
<1>4. events' \in [Tasks -> Seq(EventTypes)]
    BY <1>2 DEF Prune, StoreTypeOK
<1> QED BY <1>3, <1>4 DEF StoreTypeOK

\* So does every transaction that moves one row and appends one event.
LEMMA WriteType ==
    ASSUME StoreTypeOK, NEW t \in Tasks, NEW r \in Rows, NEW e \in EventTypes,
           row' = [row EXCEPT ![t] = r], events' = [events EXCEPT ![t] = Append(@, e)]
    PROVE  StoreTypeOK'
BY DEF StoreTypeOK

\* The state after the migration has its type.
LEMMA InitType == Init => TypeOK
<1> SUFFICES ASSUME Init PROVE TypeOK
    OBVIOUS
<1>1. row \in [Tasks -> Rows]
    BY DEF Init, StoreInit, Migrated, Absent, Rows, Active, Owners
<1>2. events \in [Tasks -> Seq(EventTypes)]
    <2>1. << >> \in Seq(EventTypes) /\ <<"accepted">> \in Seq(EventTypes)
             /\ <<"accepted", "running">> \in Seq(EventTypes)
        BY DEF EventTypes
    <2>2. events = [t \in Tasks |-> IF row[t].state = "pending" THEN <<"accepted">>
                     ELSE IF row[t].state = "running" THEN <<"accepted", "running">> ELSE << >>]
        BY DEF Init, StoreInit
    <2> QED BY <2>1, <2>2
<1>3. NotSubmitted \in Executions
    BY DEF NotSubmitted, Executions, Phases, Live, Terminal
<1> QED BY <1>1, <1>2, <1>3 DEF Init, TypeOK, StoreTypeOK

\* What is left of a finished execution is an execution.
LEMMA OverType ==
    ASSUME TypeOK, NEW t \in Tasks, NEW ph \in Phases PROVE Over(t, ph) \in Executions
<1>1. exec[t].verdict \in Terminal /\ exec[t].ended \in Nat
    BY DEF TypeOK, Executions
<1>2. NotSubmitted \in Executions
    BY DEF NotSubmitted, Executions, Phases, Live, Terminal
<1>3. CASE ph \in Recorded
    <2>1. [NotSubmitted EXCEPT !.phase = ph] \in Executions
        BY <1>2 DEF Executions
    <2>2. Over(t, ph) \in Executions
        BY <1>1, <1>2, <1>3 DEF Over, Executions
    <2> QED BY <2>2
<1>4. CASE ph \notin Recorded
    BY <1>2, <1>4 DEF Over, Executions
<1> QED BY <1>3, <1>4

\* An execution with a flag set is one.
LEMMA FlagType ==
    ASSUME TypeOK, NEW t \in Tasks, NEW b \in BOOLEAN
    PROVE  /\ [exec[t] EXCEPT !.token = b] \in Executions
           /\ [exec[t] EXCEPT !.observed = b] \in Executions
BY DEF TypeOK, Executions

\* Ending the runner leaves an execution.
LEMMA EndsType ==
    ASSUME TypeOK, NEW t \in Tasks, NEW v \in Terminal, NEW n \in 0..2, NEW b \in BOOLEAN,
           Ends(t, v, n, b)
    PROVE  exec' \in [Tasks -> Executions]
<1> DEFINE r == [exec[t] EXCEPT !.phase = "settling", !.deadline = now, !.verdict = v,
                              !.todo = n, !.token = b]
<1>1. exec[t] \in Executions /\ now \in Nat /\ "settling" \in Phases
    BY DEF TypeOK, Phases, Live
<1>2. r \in Executions
    BY <1>1 DEF Executions
<1>3. exec' = [exec EXCEPT ![t] = r]
    BY DEF Ends
<1> QED BY <1>2, <1>3 DEF TypeOK

\* An append that starts is one.
LEMMA StartAppendType ==
    ASSUME TypeOK, NEW p \in Procs, NEW t \in Tasks, NEW e \in {"observation", "cancelling"},
           StartAppend(p, t, e)
    PROVE  append' \in [Procs -> Appends \cup {NoAppend}]
<1>1. NextSequence(t) \in Nat \ {0}
    BY DEF TypeOK, StoreTypeOK, NextSequence
<1> QED BY <1>1 DEF StartAppend, TypeOK, Appends

\* The steps of a process keep the types.
LEMMA HostType ==
    ASSUME TypeOK, NEW p \in Procs, Host(p) PROVE TypeOK'
<1>1. CASE Open(p)
    BY <1>1, PruneType DEF Open, TypeOK
<1>2. CASE ScanOrphans(p)
    <2>1. OrphanSnapshots(now) \in SUBSET Snapshots
        BY DEF OrphanSnapshots, Snapshot, Orphan, Snapshots, TypeOK, StoreTypeOK, Rows
    <2> QED BY <1>2, <2>1 DEF ScanOrphans, TypeOK, StoreTypeOK
<1>3. CASE RecoverOne(p)
    <2> PICK s \in scan[p] :
            /\ RecoverTask(s) \/ (~Unchanged(s) /\ UNCHANGED storeVars)
            /\ scan' = [scan EXCEPT ![p] = @ \ {s}]
            /\ boot' = [boot EXCEPT ![p] = IF scan[p] = {s} THEN "up" ELSE @]
        BY <1>3 DEF RecoverOne
    <2>1. s \in Snapshots
        BY DEF TypeOK
    <2>2. StoreTypeOK'
        <3>1. CASE RecoverTask(s)
            <4>1. Closed("failed", s.at) \in Rows /\ s.task \in Tasks
                BY <2>1 DEF Closed, Rows, Terminal, Snapshots
            <4> QED BY <3>1, <4>1, WriteType DEF RecoverTask, TypeOK, EventTypes
        <3>2. CASE UNCHANGED storeVars
            BY <3>2 DEF storeVars, TypeOK, StoreTypeOK
        <3> QED BY <3>1, <3>2
    <2> QED BY <1>3, <2>2 DEF RecoverOne, TypeOK
<1>4. CASE RecoveryFails(p)
    BY <1>4 DEF RecoveryFails, TypeOK, StoreTypeOK
<1>5. CASE Exit(p)
    BY <1>5 DEF Exit, TypeOK, StoreTypeOK
<1>6. CASE Crash(p)
    <2>1. \A t \in Tasks : Over(t, "crashed") \in Executions /\ Over(t, "unanswered") \in Executions
        BY OverType DEF Phases
    <2>2. exec' \in [Tasks -> Executions]
        BY <1>6, <2>1 DEF Crash, TypeOK
    <2> QED BY <1>6, <2>2 DEF Crash, TypeOK, StoreTypeOK
<1>7. CASE ReadHistory(p)
    BY <1>7, PruneType DEF ReadHistory, TypeOK
<1>8. CASE AppendSucceeds(p)
    <2> DEFINE t == append[p].task
    <2>1. append[p] \in Appends
        BY <1>8 DEF AppendSucceeds, TypeOK
    <2>2. t \in Tasks /\ append[p].type \in EventTypes
        BY <2>1 DEF Appends, EventTypes
    <2>3. row' = row /\ events' = [events EXCEPT ![t] = Append(@, append[p].type)]
        BY <1>8 DEF AppendSucceeds, InsertEvent
    <2>4. StoreTypeOK'
        <3>1. row \in [Tasks -> Rows] /\ events \in [Tasks -> Seq(EventTypes)]
            BY DEF TypeOK, StoreTypeOK
        <3>2. \A u \in Tasks, e \in EventTypes : Append(events[u], e) \in Seq(EventTypes)
            BY <3>1
        <3> QED BY <2>2, <2>3, <3>1, <3>2 DEF StoreTypeOK
    <2>5. exec' = exec \/ exec' = [exec EXCEPT ![t].observed = TRUE]
        BY <1>8 DEF AppendSucceeds
    <2>6. exec' \in [Tasks -> Executions]
        <3>1. [exec[t] EXCEPT !.observed = TRUE] \in Executions
            BY <2>2, FlagType
        <3> QED BY <2>2, <2>5, <3>1 DEF TypeOK
    <2>7. acked' \in [Tasks -> BOOLEAN]
        BY <1>8, <2>2 DEF AppendSucceeds, TypeOK
    <2> QED BY <1>8, <2>4, <2>6, <2>7 DEF AppendSucceeds, TypeOK
<1>9. CASE AppendFails(p)
    BY <1>9 DEF AppendFails, TypeOK, StoreTypeOK
<1> QED BY <1>1, <1>2, <1>3, <1>4, <1>5, <1>6, <1>7, <1>8, <1>9 DEF Host

\* The steps of an execution keep the types.
LEMMA ExecuteType ==
    ASSUME TypeOK, NEW p \in Procs, NEW t \in Tasks, Execute(p, t) PROVE TypeOK'
<1>1. exec[t] \in Executions /\ now \in Nat /\ row[t] \in Rows
    BY DEF TypeOK, StoreTypeOK
<1>2. 1 + CancelledToo(t) \in 0..2
    BY DEF CancelledToo
<1>3. Lease \in Nat
    BY <1>1 DEF Lease
<1>4. CASE Start(p, t)
    <2>1. [row[t] EXCEPT !.state = "running", !.lease = Lease, !.updated = now] \in Rows
        BY <1>1, <1>3 DEF Rows, Active
    <2>2. StoreTypeOK'
        BY <1>4, <2>1, WriteType DEF Start, MarkRunning, TypeOK, EventTypes
    <2>3. [exec[t] EXCEPT !.phase = "running", !.deadline = now + Duration] \in Executions
        <3>1. "running" \in Phases /\ now + Duration \in Nat
            BY <1>1 DEF Phases, Live
        <3> QED BY <1>1, <3>1 DEF Executions
    <2>4. exec' \in [Tasks -> Executions]
        BY <1>4, <2>3 DEF Start, TypeOK
    <2> QED BY <1>4, <2>2, <2>4 DEF Start, TypeOK
<1>5. ASSUME NEW v \in Terminal, NEW n \in 0..2, NEW b \in BOOLEAN, Ends(t, v, n, b),
             UNCHANGED <<row, events, now, boot, scan, append, acked>>
      PROVE  TypeOK'
    BY <1>5, EndsType DEF TypeOK, StoreTypeOK
<1>6. /\ exec[t].token \in BOOLEAN
      /\ "failed" \in Terminal /\ "completed" \in Terminal /\ "cancelled" \in Terminal
      /\ 0 \in 0..2 /\ 1 \in 0..2
    BY <1>1 DEF Executions, Terminal
<1>7. CASE StartFails(p, t)
    BY <1>2, <1>5, <1>6, <1>7 DEF StartFails
<1>8. CASE Observe(p, t)
    <2>1. [exec[t] EXCEPT !.count = @ + 1] \in Executions
        <3>1. exec[t].count + 1 \in 3..(MaxEvents - 1)
            BY <1>1, <1>8, EventsAssumption DEF Observe, WithinEventBudget, Executions
        <3> QED BY <1>1, <3>1 DEF Executions
    <2>3. exec' \in [Tasks -> Executions]
        BY <1>8, <2>1 DEF Observe, TypeOK
    <2> QED BY <1>8, <2>3, StartAppendType DEF Observe, TypeOK, StoreTypeOK
<1>9. CASE RunnerReturns(p, t)
    <2>1. Ends(t, "cancelled", 1, TRUE) \/ Ends(t, "completed", 0, FALSE)
        BY <1>9 DEF RunnerReturns
    <2> QED BY <1>5, <1>6, <1>9, <2>1 DEF RunnerReturns
<1>10. CASE RunnerCancelled(p, t)
    BY <1>5, <1>6, <1>10 DEF RunnerCancelled
<1>11. CASE RunnerTimesOut(p, t)
    BY <1>2, <1>5, <1>6, <1>11 DEF RunnerTimesOut
<1>12. CASE RunnerRaises(p, t)
    BY <1>2, <1>5, <1>6, <1>12 DEF RunnerRaises
<1>13. CASE RecordTerminal(p, t)
    <2>1. exec[t].todo - 1 \in 0..2
        BY <1>13, <1>1 DEF RecordTerminal, Executions
    <2>2. [exec[t] EXCEPT !.todo = @ - 1] \in Executions
        BY <1>1, <2>1 DEF Executions
    <2>3. ASSUME WithinEventBudget(t)
          PROVE  [exec[t] EXCEPT !.todo = @ - 1, !.count = @ + 1] \in Executions
        <3>1. exec[t].count + 1 \in 3..(MaxEvents - 1)
            BY <1>1, <2>3, EventsAssumption DEF WithinEventBudget, Executions
        <3> QED BY <1>1, <2>1, <3>1 DEF Executions
    <2>4. exec' \in [Tasks -> Executions]
        BY <1>13, <2>2, <2>3 DEF RecordTerminal, TypeOK
    <2>5. append' \in [Procs -> Appends \cup {NoAppend}]
        BY <1>13, StartAppendType DEF RecordTerminal, TypeOK
    <2> QED BY <1>13, <2>4, <2>5 DEF RecordTerminal, TypeOK, StoreTypeOK
<1>14. CASE BuildResult(p, t)
    <2>1. PICK v \in {exec[t].verdict, "failed"} :
             exec' = [exec EXCEPT ![t] = [@ EXCEPT !.phase = "settled", !.verdict = v, !.ended = now]]
        BY <1>14 DEF BuildResult
    <2>2. [exec[t] EXCEPT !.phase = "settled", !.verdict = v, !.ended = now] \in Executions
        BY <1>1 DEF Executions, Phases, Live, Terminal
    <2> QED BY <1>14, <2>1, <2>2 DEF BuildResult, TypeOK, StoreTypeOK
<1>15. CASE FinishRead(p, t)
    BY <1>15, <1>1 DEF FinishRead, TypeOK, StoreTypeOK, Executions, Phases, Live
<1>16. CASE FinishWrite(p, t)
    <2>1. Closed(exec[t].verdict, exec[t].ended) \in Rows
        BY <1>1 DEF Closed, Rows, Executions
    <2>2. StoreTypeOK'
        BY <1>16, <2>1, WriteType DEF FinishWrite, FinishTask, TypeOK, EventTypes
    <2>3. exec' \in [Tasks -> Executions]
        BY <1>16, <1>1 DEF FinishWrite, TypeOK, Executions, Phases, Live
    <2> QED BY <1>16, <2>2, <2>3 DEF FinishWrite, TypeOK
<1>17. CASE FinishFails(p, t)
    <2>1. [exec[t] EXCEPT !.phase = "settled", !.attempt = 2, !.verdict = "failed",
                          !.ended = now] \in Executions
        <3>1. "settled" \in Phases /\ 2 \in 1..2
            BY DEF Phases, Live
        <3> QED BY <1>1, <1>6, <3>1 DEF Executions
    <2>2. Over(t, "lost") \in Executions
        BY OverType DEF Phases
    <2>3. exec' \in [Tasks -> Executions]
        BY <1>17, <2>1, <2>2 DEF FinishFails, TypeOK
    <2> QED BY <1>17, <2>3 DEF FinishFails, TypeOK, StoreTypeOK
<1>18. CASE Return(p, t)
    <2>1. StoreTypeOK'
        BY <1>18, PruneType DEF Return, storeVars, TypeOK, StoreTypeOK
    <2>2. Over(t, "returned") \in Executions
        BY OverType DEF Phases
    <2>3. exec' \in [Tasks -> Executions]
        BY <1>18, <2>2 DEF Return, TypeOK
    <2> QED BY <1>18, <2>1, <2>3 DEF Return, TypeOK
<1> QED BY <1>4, <1>7, <1>8, <1>9, <1>10, <1>11, <1>12, <1>13, <1>14, <1>15, <1>16, <1>17,
           <1>18 DEF Execute

\* Every step keeps the types.
LEMMA NextType == TypeOK /\ [Next]_vars => TypeOK'
<1> SUFFICES ASSUME TypeOK, [Next]_vars PROVE TypeOK'
    OBVIOUS
<1>1. CASE Tick
    BY <1>1 DEF Tick, TypeOK, StoreTypeOK
<1>2. ASSUME NEW p \in Procs, Host(p) PROVE TypeOK'
    BY <1>2, HostType
<1>3. ASSUME NEW p \in Procs, NEW t \in Tasks, Execute(p, t) PROVE TypeOK'
    BY <1>3, ExecuteType
<1>4. ASSUME NEW p \in Procs, NEW t \in Tasks, Submit(p, t) PROVE TypeOK'
    <2> DEFINE r == [state |-> "pending", owner |-> p, lease |-> Lease, updated |-> now]
    <2>1. r \in Rows
        BY DEF TypeOK, Rows, Active, Owners, Lease
    <2>2. StoreTypeOK'
        BY <1>4, <2>1, WriteType DEF Submit, CreateTask, TypeOK, EventTypes
    <2>3. [exec[t] EXCEPT !.phase = "scheduled", !.proc = p, !.deadline = now] \in Executions
        <3>1. "scheduled" \in Phases /\ now \in Nat /\ exec[t] \in Executions
            BY DEF Phases, Live, TypeOK
        <3> QED BY <3>1 DEF Executions
    <2>4. exec' \in [Tasks -> Executions]
        BY <1>4, <2>3 DEF Submit, TypeOK
    <2> QED BY <1>4, <2>2, <2>4 DEF Submit, TypeOK
<1>5. ASSUME NEW p \in Procs, NEW t \in Tasks, Cancel(p, t) PROVE TypeOK'
    <2>1. [exec[t] EXCEPT !.token = TRUE] \in Executions
        BY FlagType
    <2>2. exec' \in [Tasks -> Executions]
        BY <1>5, <2>1 DEF Cancel, TypeOK
    <2> QED BY <1>5, <2>2, StartAppendType DEF Cancel, TypeOK, StoreTypeOK
<1>6. CASE UNCHANGED vars
    BY <1>6 DEF vars, TypeOK, StoreTypeOK
<1> QED BY <1>1, <1>2, <1>3, <1>4, <1>5, <1>6 DEF Next

\* Every variable keeps to its type.
THEOREM TypeCorrect == Spec => []TypeOK
<1> QED BY InitType, NextType, PTL DEF Spec

-----------------------------------------------------------------------------
(* The history alone.                                                      *)

\* The only steps that change a row.
LEMMA RowSteps ==
    ASSUME [Next]_vars
    PROVE  \/ UNCHANGED row
           \/ Prune(now)
           \/ \E p \in Procs : \E s \in scan[p] : RecoverTask(s)
           \/ \E p \in Procs, t \in Tasks :
                 Submit(p, t) \/ Start(p, t) \/ FinishWrite(p, t)
<1>1. CASE Tick
    BY <1>1 DEF Tick
<1>2. ASSUME NEW p \in Procs, Host(p)
      PROVE  UNCHANGED row \/ Prune(now) \/ \E s \in scan[p] : RecoverTask(s)
    BY <1>2 DEF Host, Open, ScanOrphans, RecoverOne, RecoveryFails, Exit, Crash, ReadHistory,
                AppendSucceeds, AppendFails, InsertEvent, storeVars
<1>3. ASSUME NEW p \in Procs, NEW t \in Tasks, Execute(p, t)
      PROVE  UNCHANGED row \/ Prune(now) \/ Start(p, t) \/ FinishWrite(p, t)
    BY <1>3 DEF Execute, StartFails, Observe, RunnerReturns, RunnerCancelled, RunnerTimesOut,
                RunnerRaises, RecordTerminal, BuildResult, FinishRead, FinishFails, Return,
                storeVars
<1>4. ASSUME NEW p \in Procs, NEW t \in Tasks, Cancel(p, t) PROVE UNCHANGED row
    BY <1>4 DEF Cancel
<1>5. CASE UNCHANGED vars
    BY <1>5 DEF vars
<1> QED BY <1>1, <1>2, <1>3, <1>4, <1>5 DEF Next

\* Owner and lease are there while the row is active, and only then.
THEOREM OwnedCorrect == Spec => []OwnedWhileActive
<1>1. Init => OwnedWhileActive
    BY DEF Init, StoreInit, Migrated, Absent, Active, Owners, OwnedWhileActive
<1>2. TypeOK /\ OwnedWhileActive /\ [Next]_vars => OwnedWhileActive'
    <2> SUFFICES ASSUME TypeOK, OwnedWhileActive, [Next]_vars PROVE OwnedWhileActive'
        OBVIOUS
    <2>1. CASE UNCHANGED row
        BY <2>1 DEF OwnedWhileActive
    <2>2. CASE Prune(now)
        BY <2>2 DEF Prune, Absent, Active, Owners, OwnedWhileActive
    <2>3. ASSUME NEW p \in Procs, NEW s \in scan[p], RecoverTask(s)
          PROVE  OwnedWhileActive'
        BY <2>3 DEF RecoverTask, Closed, Active, Owners, OwnedWhileActive, TypeOK, StoreTypeOK
    <2>4. ASSUME NEW p \in Procs, NEW t \in Tasks, Submit(p, t) PROVE OwnedWhileActive'
        <3>1. Lease \in Nat
            BY DEF Lease, TypeOK
        <3> QED BY <2>4, <3>1 DEF Submit, CreateTask, Active, Owners, OwnedWhileActive, TypeOK,
                   StoreTypeOK
    <2>5. ASSUME NEW p \in Procs, NEW t \in Tasks, Start(p, t) PROVE OwnedWhileActive'
        <3>1. Lease \in Nat
            BY DEF Lease, TypeOK
        <3> QED BY <2>5, <3>1 DEF Start, MarkRunning, MayStart, Active, Owners,
                   OwnedWhileActive, TypeOK, StoreTypeOK, Rows
    <2>6. ASSUME NEW p \in Procs, NEW t \in Tasks, FinishWrite(p, t) PROVE OwnedWhileActive'
        <3>1. exec[t].verdict \in Terminal
            BY DEF TypeOK, Executions
        <3> QED BY <2>6, <3>1 DEF FinishWrite, FinishTask, Closed, Active, Terminal, Owners,
                   OwnedWhileActive, TypeOK, StoreTypeOK
    <2> QED BY <2>1, <2>2, <2>3, <2>4, <2>5, <2>6, RowSteps
<1> QED BY <1>1, <1>2, TypeCorrect, PTL DEF Spec

\* What changes a terminal row can only be retention.
LEMMA StepKeepsVerdict ==
    ASSUME TypeOK, [Next]_vars, NEW t \in Tasks, row[t].state \in Terminal
    PROVE  row'[t] = row[t] \/ row'[t] = Absent
<1>1. row[t].state \notin Active /\ row[t].state # "absent"
    BY DEF Terminal, Active
<1>2. CASE UNCHANGED row
    BY <1>2
<1>3. CASE Prune(now)
    BY <1>3 DEF Prune
<1>4. ASSUME NEW p \in Procs, NEW s \in scan[p], RecoverTask(s) PROVE row'[t] = row[t]
    <2>1. s \in Snapshots
        BY DEF TypeOK
    <2>2. s.state \in Active /\ s.state = row[s.task].state
        BY <1>4, <2>1 DEF RecoverTask, Unchanged, Snapshot, Snapshots
    <2>3. t # s.task
        BY <1>1, <2>2
    <2> QED BY <1>4, <2>3 DEF RecoverTask, TypeOK, StoreTypeOK
<1>5. ASSUME NEW p \in Procs, NEW u \in Tasks, Submit(p, u) PROVE row'[t] = row[t]
    BY <1>1, <1>5 DEF Submit, CreateTask, TypeOK, StoreTypeOK
<1>6. ASSUME NEW p \in Procs, NEW u \in Tasks, Start(p, u) PROVE row'[t] = row[t]
    BY <1>1, <1>6 DEF Start, MarkRunning, MayStart, Active, TypeOK, StoreTypeOK
<1>7. ASSUME NEW p \in Procs, NEW u \in Tasks, FinishWrite(p, u) PROVE row'[t] = row[t]
    BY <1>1, <1>7 DEF FinishWrite, FinishTask, MayFinish, Active, TypeOK, StoreTypeOK
<1> QED BY <1>2, <1>3, <1>4, <1>5, <1>6, <1>7, RowSteps

\* A verdict is written once: no process, however late, changes it.
THEOREM VerdictCorrect == Spec => VerdictIsFinal
<1>1. TypeOK /\ [Next]_vars =>
          [\A t \in Tasks : row[t].state \in Terminal =>
              row'[t] = row[t] \/ row'[t] = Absent]_vars
    BY StepKeepsVerdict
<1> QED BY <1>1, TypeCorrect, PTL DEF Spec, VerdictIsFinal

-----------------------------------------------------------------------------
(* The life of one execution.                                              *)

\* Nothing of e that decides the task has changed in f.
SameCourse(e, f) ==
    f.phase = e.phase /\ f.token = e.token /\ f.verdict = e.verdict /\ f.ended = e.ended

\* Every step an execution can take, from e to f.
Course(e, f) ==
    \/ SameCourse(e, f)
    \/ e.phase = "none" /\ f.phase = "scheduled"
    \/ e.phase \in {"scheduled", "running"} /\ f.phase = e.phase /\ f.token
    \/ e.phase = "scheduled" /\ f.phase = "running" /\ f.token = e.token
    \/ /\ e.phase \in {"scheduled", "running"} /\ f.phase = "settling"
       /\ f.verdict = "completed" => ~e.token
    \/ /\ e.phase \in {"settling", "settled", "checked"}
       /\ f.phase \in {"settling", "settled", "checked"}
       /\ f.verdict \in {e.verdict, "failed"}
    \/ /\ e.phase = "retaining" /\ f.phase \in {"unanswered", "returned"}
       /\ f.verdict = e.verdict /\ f.ended = e.ended
    \/ e.phase \in Live \ {"retaining"} /\ f.phase \in {"lost", "crashed"}

\* A process that dies takes its executions with it, and no other.
LEMMA CrashCourse ==
    ASSUME TypeOK, NEW p \in Procs, Crash(p), NEW t \in Tasks
    PROVE  Course(exec[t], exec'[t])
<1>1. CASE ~(Owns(p, t) /\ exec[t].phase \in Live)
    BY <1>1 DEF Crash, Course, SameCourse
<1>2. CASE Owns(p, t) /\ exec[t].phase \in Live /\ exec[t].phase = "retaining"
    BY <1>2 DEF Crash, Course, Over, Recorded, NotSubmitted
<1>3. CASE Owns(p, t) /\ exec[t].phase \in Live /\ exec[t].phase # "retaining"
    BY <1>3 DEF Crash, Course, Over, Recorded, NotSubmitted
<1> QED BY <1>1, <1>2, <1>3

\* The end of the runner leads from running, or a start, to settling.
LEMMA EndsCourse ==
    ASSUME TypeOK, NEW t \in Tasks, NEW v, NEW n, NEW b, Ends(t, v, n, b)
    PROVE  exec'[t].phase = "settling" /\ exec'[t].verdict = v
BY DEF TypeOK, Ends, Executions

\* A step of the execution u leaves the others alone and u on its course;
\* only FinishWrite moves it into the recorded phases.
LEMMA ExecuteCourse ==
    ASSUME TypeOK, NEW p \in Procs, NEW u \in Tasks, Execute(p, u), NEW t \in Tasks
    PROVE  Course(exec[t], exec'[t]) \/ (FinishWrite(p, u) /\ t = u)
<1>1. exec \in [Tasks -> Executions]
    BY DEF TypeOK
<1>2. CASE Start(p, u)
    BY <1>1, <1>2 DEF Start, Turn, Course, SameCourse, Executions
<1>3. CASE StartFails(p, u)
    BY <1>1, <1>3 DEF StartFails, Turn, Ends, Course, SameCourse, Executions
<1>4. CASE Observe(p, u)
    BY <1>1, <1>4 DEF Observe, Course, SameCourse, Executions
<1>5. CASE RunnerReturns(p, u)
    <2>1. CASE u # t
        BY <1>5, <2>1 DEF RunnerReturns, Ends, TypeOK, Course, SameCourse
    <2>2. CASE u = t
        <3>1. exec[t].phase = "running"
            BY <1>5, <2>2 DEF RunnerReturns, Turn
        <3>2. exec'[t].phase = "settling"
            BY <1>5, <2>2, EndsCourse DEF RunnerReturns
        <3>3. exec'[t].verdict = "completed" => ~exec[t].token
            <4>1. CASE exec[t].token
                <5>1. Ends(t, "cancelled", 1, TRUE)
                    BY <1>5, <2>2, <4>1 DEF RunnerReturns
                <5>2. exec'[t].verdict = "cancelled"
                    BY <5>1, EndsCourse
                <5> QED BY <5>2
            <4> QED BY <4>1
        <3> QED BY <3>1, <3>2, <3>3 DEF Course
    <2> QED BY <2>1, <2>2
<1>6. CASE RunnerCancelled(p, u)
    BY <1>1, <1>6 DEF RunnerCancelled, Turn, Ends, Course, SameCourse, Executions
<1>7. CASE RunnerTimesOut(p, u)
    BY <1>1, <1>7 DEF RunnerTimesOut, Turn, Ends, Course, SameCourse, Executions
<1>8. CASE RunnerRaises(p, u)
    BY <1>1, <1>8 DEF RunnerRaises, Turn, Ends, Course, SameCourse, Executions
<1>9. CASE RecordTerminal(p, u)
    BY <1>1, <1>9 DEF RecordTerminal, Course, SameCourse, Executions
<1>10. CASE BuildResult(p, u)
    BY <1>1, <1>10 DEF BuildResult, Continue, Course, SameCourse, Executions
<1>11. CASE FinishRead(p, u)
    BY <1>1, <1>11 DEF FinishRead, Continue, Course, SameCourse, Executions
<1>12. CASE FinishWrite(p, u)
    BY <1>1, <1>12 DEF FinishWrite, Course, SameCourse, Executions
<1>13. CASE FinishFails(p, u)
    BY <1>1, <1>13 DEF FinishFails, Continue, Over, NotSubmitted, Recorded, Live, Course,
                       SameCourse, Executions
<1>14. CASE Return(p, u)
    BY <1>1, <1>14 DEF Return, Continue, Over, NotSubmitted, Recorded, Course, SameCourse,
                       Executions
<1> QED BY <1>2, <1>3, <1>4, <1>5, <1>6, <1>7, <1>8, <1>9, <1>10, <1>11, <1>12, <1>13, <1>14
        DEF Execute

\* Every step moves every execution along its course.
LEMMA NextCourse ==
    ASSUME TypeOK, [Next]_vars, NEW t \in Tasks
    PROVE  Course(exec[t], exec'[t]) \/ \E p \in Procs : FinishWrite(p, t)
<1>1. CASE Tick
    BY <1>1 DEF Tick, Course, SameCourse
<1>2. ASSUME NEW p \in Procs, Host(p) PROVE Course(exec[t], exec'[t])
    <2>1. CASE Crash(p)
        BY <2>1, CrashCourse
    <2>2. CASE AppendSucceeds(p)
        <3>1. \/ exec' = exec
              \/ exec' = [exec EXCEPT ![append[p].task].observed = TRUE]
            BY <2>2 DEF AppendSucceeds
        <3> QED BY <3>1 DEF TypeOK, Executions, Course, SameCourse
    <2>3. CASE ~(Crash(p) \/ AppendSucceeds(p))
        BY <1>2, <2>3 DEF Host, Open, ScanOrphans, RecoverOne, RecoveryFails, Exit, ReadHistory,
                          AppendFails, Course, SameCourse
    <2> QED BY <2>1, <2>2, <2>3
<1>3. ASSUME NEW p \in Procs, NEW u \in Tasks, Execute(p, u)
      PROVE  Course(exec[t], exec'[t]) \/ FinishWrite(p, t)
    BY <1>3, ExecuteCourse
<1>4. ASSUME NEW p \in Procs, NEW u \in Tasks, Submit(p, u) PROVE Course(exec[t], exec'[t])
    BY <1>4 DEF Submit, TypeOK, Executions, Course, SameCourse
<1>5. ASSUME NEW p \in Procs, NEW u \in Tasks, Cancel(p, u) PROVE Course(exec[t], exec'[t])
    <2>1. CASE u # t
        BY <1>5, <2>1 DEF Cancel, TypeOK, Course, SameCourse
    <2>2. CASE u = t
        <3>1. exec[t].phase \in {"scheduled", "running"}
            BY <1>5, <2>2 DEF Cancel, Turn
        <3>2. exec'[t] = [exec[t] EXCEPT !.token = TRUE] /\ exec[t] \in Executions
            BY <1>5, <2>2 DEF Cancel, TypeOK
        <3>3. exec'[t].phase = exec[t].phase
            BY <3>2 DEF Executions
        <3>4. exec'[t].token = TRUE
            BY <3>2 DEF Executions
        <3> QED BY <3>1, <3>3, <3>4 DEF Course
    <2> QED BY <2>1, <2>2
<1>6. CASE UNCHANGED vars
    BY <1>6 DEF vars, Course, SameCourse
<1> QED BY <1>1, <1>2, <1>3, <1>4, <1>5, <1>6 DEF Next

-----------------------------------------------------------------------------
(* The result a caller gets is the one the history holds.                  *)

\* What a caller was told is in the history, or was deleted by retention.
THEOREM DurableCorrect == Spec => []ResultIsDurable
<1>1. Init => ResultIsDurable
    BY DEF Init, NotSubmitted, ResultIsDurable, Recorded
<1>2. TypeOK /\ ResultIsDurable /\ [Next]_vars => ResultIsDurable'
    <2> SUFFICES ASSUME TypeOK, ResultIsDurable, [Next]_vars,
                        NEW t \in Tasks, exec'[t].phase \in Recorded
                 PROVE  row'[t] = Absent \/ row'[t] = Closed(exec'[t].verdict, exec'[t].ended)
        BY DEF ResultIsDurable, Closed
    <2>1. CASE \E p \in Procs : FinishWrite(p, t)
        BY <2>1 DEF FinishWrite, FinishTask, TypeOK, StoreTypeOK, Executions
    <2>2. CASE Course(exec[t], exec'[t])
        <3>1. /\ exec[t].phase \in Recorded
              /\ exec'[t].verdict = exec[t].verdict /\ exec'[t].ended = exec[t].ended
            BY <2>2 DEF Course, SameCourse, Recorded, Live
        <3>2. row[t] = Absent \/ row[t] = Closed(exec[t].verdict, exec[t].ended)
            BY <3>1 DEF ResultIsDurable
        <3>3. exec[t].verdict \in Terminal
            BY DEF TypeOK, Executions
        <3>4. CASE row[t] = Closed(exec[t].verdict, exec[t].ended)
            <4>1. row[t].state \in Terminal
                BY <3>3, <3>4 DEF Closed
            <4> QED BY <3>1, <3>4, <4>1, StepKeepsVerdict
        <3>5. CASE row[t] = Absent
            <4>1. row[t].state = "absent"
                BY <3>5 DEF Absent
            <4>2. row'[t] = Absent
                <5>1. CASE UNCHANGED row
                    BY <3>5, <5>1
                <5>2. CASE Prune(now)
                    BY <3>5, <5>2 DEF Prune
                <5>3. ASSUME NEW p \in Procs, NEW s \in scan[p], RecoverTask(s)
                      PROVE  row'[t] = Absent
                    <6>1. s \in Snapshots
                        BY DEF TypeOK
                    <6>2. row[s.task].state \in Active
                        BY <5>3, <6>1 DEF RecoverTask, Unchanged, Snapshot, Snapshots
                    <6>3. t # s.task
                        BY <4>1, <6>2 DEF Active
                    <6> QED BY <3>5, <5>3, <6>3 DEF RecoverTask, TypeOK, StoreTypeOK
                <5>4. ASSUME NEW p \in Procs, NEW u \in Tasks, Submit(p, u)
                      PROVE  row'[t] = Absent
                    BY <3>1, <3>5, <5>4 DEF Submit, CreateTask, Recorded, TypeOK, StoreTypeOK
                <5>5. ASSUME NEW p \in Procs, NEW u \in Tasks, Start(p, u) \/ FinishWrite(p, u)
                      PROVE  row'[t] = Absent
                    BY <3>5, <4>1, <5>5 DEF Start, MarkRunning, MayStart, FinishWrite, FinishTask,
                                            MayFinish, TypeOK, StoreTypeOK
                <5> QED BY <5>1, <5>2, <5>3, <5>4, <5>5, RowSteps
            <4> QED BY <4>2
        <3> QED BY <3>2, <3>4, <3>5
    <2> QED BY <2>1, <2>2, NextCourse
<1> QED BY <1>1, <1>2, TypeCorrect, PTL DEF Spec

-----------------------------------------------------------------------------
(* A cancellation that was acknowledged wins over completion.              *)

\* The inductive invariant: a cancelling event on its way belongs to an
\* execution that has not ended and holds its token; a token stays; a
\* completed row was written by an execution that had not been cancelled.
CancelInv ==
    /\ \A p \in Procs : append[p] # NoAppend /\ append[p].type = "cancelling" =>
          LET e == exec[append[p].task]
          IN e.proc = p /\ e.phase \in {"scheduled", "running"} /\ e.token
    /\ \A t \in Tasks : acked[t] =>
          /\ exec[t].phase # "none"
          /\ exec[t].phase \in {"scheduled", "running"} => exec[t].token
          /\ exec[t].phase \in Sync \cup Recorded => exec[t].verdict # "completed"
    /\ \A t \in Tasks : row[t].state = "completed" =>
          exec[t].phase \in Recorded /\ exec[t].verdict = "completed"

\* While p has a cancelling event on its way nothing but p's own crash can
\* move the execution it belongs to.
LEMMA PendingHolds ==
    ASSUME TypeOK, CancelInv, [Next]_vars, NEW p \in Procs,
           append[p] # NoAppend, append[p].type = "cancelling", append'[p] = append[p]
    PROVE  LET e == exec'[append[p].task]
           IN e.proc = p /\ e.phase \in {"scheduled", "running"} /\ e.token
<1> DEFINE t == append[p].task
<1>1. t \in Tasks /\ exec[t] \in Executions /\ append \in [Procs -> Appends \cup {NoAppend}]
    BY DEF TypeOK, Appends
<1>2. exec[t].proc = p /\ exec[t].phase \in {"scheduled", "running"} /\ exec[t].token
    BY DEF CancelInv
<1>3. CASE exec'[t] = exec[t]
    BY <1>2, <1>3
<1>4. CASE Tick
    BY <1>3, <1>4 DEF Tick
<1>5. ASSUME NEW q \in Procs, Host(q)
      PROVE  exec'[t].proc = p /\ exec'[t].phase \in {"scheduled", "running"} /\ exec'[t].token
    <2>1. CASE Crash(q)
        <3>1. q # p
            BY <1>1, <2>1 DEF Crash
        <3>2. exec'[t] = exec[t]
            BY <1>1, <1>2, <2>1, <3>1 DEF Crash, Owns
        <3> QED BY <1>3, <3>2
    <2>2. CASE AppendSucceeds(q)
        <3>1. exec' = exec \/ exec' = [exec EXCEPT ![append[q].task].observed = TRUE]
            BY <2>2 DEF AppendSucceeds
        <3>2. /\ exec'[t].proc = exec[t].proc /\ exec'[t].phase = exec[t].phase
              /\ exec'[t].token = exec[t].token
            BY <1>1, <3>1 DEF TypeOK, Executions
        <3> QED BY <1>2, <3>2
    <2>3. CASE ~(Crash(q) \/ AppendSucceeds(q))
        <3>1. exec' = exec
            BY <1>5, <2>3 DEF Host, Open, ScanOrphans, RecoverOne, RecoveryFails, Exit,
                              ReadHistory, AppendFails
        <3> QED BY <1>3, <3>1
    <2> QED BY <2>1, <2>2, <2>3
<1>6. ASSUME NEW q \in Procs, NEW u \in Tasks, Execute(q, u) PROVE exec'[t] = exec[t]
    <2>1. append[q] = NoAppend /\ exec[u].proc = q
        BY <1>6 DEF Execute, Start, StartFails, Observe, RunnerReturns, RunnerCancelled,
                    RunnerTimesOut, RunnerRaises, RecordTerminal, BuildResult, FinishRead,
                    FinishWrite, FinishFails, Return, Turn, Continue, Busy, Owns
    <2>2. u # t
        BY <1>2, <2>1
    <2>3. \A x \in Tasks : x # u => exec'[x] = exec[x]
        BY <1>6 DEF Execute, Start, StartFails, Observe, RunnerReturns, RunnerCancelled,
                    RunnerTimesOut, RunnerRaises, RecordTerminal, BuildResult, FinishRead,
                    FinishWrite, FinishFails, Return, Ends, TypeOK
    <2> QED BY <1>1, <2>2, <2>3
<1>7. ASSUME NEW q \in Procs, NEW u \in Tasks, Submit(q, u) PROVE exec'[t] = exec[t]
    BY <1>1, <1>2, <1>7 DEF Submit, TypeOK
<1>8. ASSUME NEW q \in Procs, NEW u \in Tasks, Cancel(q, u) PROVE exec'[t] = exec[t]
    <2>1. append[q] = NoAppend /\ exec[u].proc = q
        BY <1>8 DEF Cancel, Turn, Busy, Owns
    <2> QED BY <1>1, <1>2, <1>8, <2>1 DEF Cancel, TypeOK
<1>9. CASE UNCHANGED vars
    BY <1>3, <1>9 DEF vars
<1> QED BY <1>3, <1>4, <1>5, <1>6, <1>7, <1>8, <1>9 DEF Next

\* Only cancel() puts a cancelling event on its way.
LEMMA PendingStarts ==
    ASSUME TypeOK, [Next]_vars, NEW p \in Procs, append'[p] # append[p],
           append'[p] # NoAppend, append'[p].type = "cancelling"
    PROVE  \E t \in Tasks : Cancel(p, t) /\ append'[p].task = t
<1>1. append \in [Procs -> Appends \cup {NoAppend}]
    BY DEF TypeOK
<1>2. CASE Tick \/ UNCHANGED vars
    BY <1>2 DEF Tick, vars
<1>3. ASSUME NEW q \in Procs, Host(q) PROVE append'[p] = append[p] \/ append'[p] = NoAppend
    BY <1>1, <1>3 DEF Host, Open, ScanOrphans, RecoverOne, RecoveryFails, Exit, Crash,
                      ReadHistory, AppendSucceeds, AppendFails
<1>4. ASSUME NEW q \in Procs, NEW u \in Tasks, Execute(q, u)
      PROVE  append'[p] = append[p] \/ append'[p].type = "observation"
    <2>1. StartAppend(q, u, "observation") \/ UNCHANGED append
        BY <1>4 DEF Execute, Start, StartFails, Observe, RunnerReturns, RunnerCancelled,
                    RunnerTimesOut, RunnerRaises, RecordTerminal, BuildResult, FinishRead,
                    FinishWrite, FinishFails, Return
    <2> QED BY <1>1, <2>1 DEF StartAppend
<1>5. ASSUME NEW q \in Procs, NEW u \in Tasks, Submit(q, u) PROVE append'[p] = append[p]
    BY <1>5 DEF Submit
<1>6. ASSUME NEW q \in Procs, NEW u \in Tasks, Cancel(q, u)
      PROVE  append'[p] = append[p] \/ (q = p /\ append'[p].task = u)
    BY <1>1, <1>6 DEF Cancel, StartAppend
<1> QED BY <1>2, <1>3, <1>4, <1>5, <1>6 DEF Next

\* Only the end of cancel()'s append acknowledges.
LEMMA AckSteps ==
    ASSUME TypeOK, [Next]_vars, NEW t \in Tasks, acked'[t], ~acked[t]
    PROVE  \E p \in Procs : /\ append[p] # NoAppend /\ append[p].type = "cancelling"
                            /\ append[p].task = t /\ exec' = exec /\ row' = row
<1>1. CASE Tick \/ UNCHANGED vars
    BY <1>1 DEF Tick, vars
<1>2. ASSUME NEW p \in Procs, Host(p)
      PROVE  /\ append[p] # NoAppend /\ append[p].type = "cancelling"
             /\ append[p].task = t /\ exec' = exec /\ row' = row
    <2>1. AppendSucceeds(p)
        BY <1>2 DEF Host, Open, ScanOrphans, RecoverOne, RecoveryFails, Exit, Crash, ReadHistory,
                    AppendFails
    <2>2. append[p] # NoAppend /\ append[p].type = "cancelling"
        BY <2>1 DEF AppendSucceeds
    <2>3. acked' = [acked EXCEPT ![append[p].task] = TRUE] /\ exec' = exec /\ row' = row
        BY <2>1, <2>2 DEF AppendSucceeds, InsertEvent
    <2>4. append[p].task = t
        BY <2>3 DEF TypeOK
    <2> QED BY <2>2, <2>3, <2>4
<1>3. ASSUME NEW p \in Procs, NEW u \in Tasks, Submit(p, u) \/ Cancel(p, u) \/ Execute(p, u)
      PROVE  UNCHANGED acked
    BY <1>3 DEF Submit, Cancel, Execute, Start, StartFails, Observe, RunnerReturns,
                RunnerCancelled, RunnerTimesOut, RunnerRaises, RecordTerminal, BuildResult,
                FinishRead, FinishWrite, FinishFails, Return
<1> QED BY <1>1, <1>2, <1>3 DEF Next

\* Every step keeps the invariant of cancellations.
LEMMA CancelInvStep == TypeOK /\ CancelInv /\ [Next]_vars => CancelInv'
<1> SUFFICES ASSUME TypeOK, CancelInv, [Next]_vars PROVE CancelInv'
    OBVIOUS
<1>1. ASSUME NEW p \in Procs, append'[p] # NoAppend, append'[p].type = "cancelling"
      PROVE  LET e == exec'[append'[p].task]
             IN e.proc = p /\ e.phase \in {"scheduled", "running"} /\ e.token
    <2>1. CASE append'[p] = append[p]
        BY <1>1, <2>1, PendingHolds
    <2>2. CASE append'[p] # append[p]
        <3>1. PICK t \in Tasks : Cancel(p, t) /\ append'[p].task = t
            BY <1>1, <2>2, PendingStarts
        <3>2. exec[t].proc = p /\ exec[t].phase \in {"scheduled", "running"}
            BY <3>1 DEF Cancel, Turn, Owns
        <3>3. exec'[t] = [exec[t] EXCEPT !.token = TRUE] /\ exec[t] \in Executions
            BY <3>1 DEF Cancel, TypeOK
        <3>4. exec'[t].token = TRUE
            BY <3>3 DEF Executions
        <3>5. exec'[t].proc = exec[t].proc /\ exec'[t].phase = exec[t].phase
            BY <3>3 DEF Executions
        <3> QED BY <3>1, <3>2, <3>4, <3>5
    <2> QED BY <2>1, <2>2
<1>2. ASSUME NEW t \in Tasks, acked'[t]
      PROVE  /\ exec'[t].phase # "none"
             /\ exec'[t].phase \in {"scheduled", "running"} => exec'[t].token
             /\ exec'[t].phase \in Sync \cup Recorded => exec'[t].verdict # "completed"
    <2>1. CASE ~acked[t]
        <3>1. PICK p \in Procs : /\ append[p] # NoAppend /\ append[p].type = "cancelling"
                                 /\ append[p].task = t /\ exec' = exec
            BY <1>2, <2>1, AckSteps
        <3>2. exec[t].phase \in {"scheduled", "running"} /\ exec[t].token
            BY <3>1 DEF CancelInv
        <3> QED BY <3>1, <3>2 DEF Sync, Recorded
    <2>2. CASE acked[t]
        <3>1. /\ exec[t].phase # "none"
              /\ exec[t].phase \in {"scheduled", "running"} => exec[t].token
              /\ exec[t].phase \in Sync \cup Recorded => exec[t].verdict # "completed"
            BY <2>2 DEF CancelInv
        <3>2. CASE Course(exec[t], exec'[t])
            BY <3>1, <3>2 DEF Course, SameCourse, Sync, Recorded, Live
        <3>3. ASSUME NEW p \in Procs, FinishWrite(p, t)
              PROVE  exec[t].phase = "checked" /\ exec'[t] = [exec[t] EXCEPT !.phase = "retaining"]
            BY <3>3 DEF FinishWrite, Continue, TypeOK
        <3>4. exec[t] \in Executions
            BY DEF TypeOK
        <3> QED BY <3>1, <3>2, <3>3, <3>4, NextCourse DEF Sync, Recorded, Executions
    <2> QED BY <2>1, <2>2
<1>3. ASSUME NEW t \in Tasks, row'[t].state = "completed"
      PROVE  exec'[t].phase \in Recorded /\ exec'[t].verdict = "completed"
    <2>1. CASE \E p \in Procs : FinishWrite(p, t)
        <3>1. exec[t] \in Executions
            BY DEF TypeOK
        <3>2. /\ row'[t] = Closed(exec[t].verdict, exec[t].ended)
              /\ exec'[t] = [exec[t] EXCEPT !.phase = "retaining"]
            BY <2>1 DEF FinishWrite, FinishTask, TypeOK, StoreTypeOK
        <3> QED BY <1>3, <3>1, <3>2 DEF Closed, Executions, Recorded
    <2>2. CASE Course(exec[t], exec'[t]) /\ ~ \E p \in Procs : FinishWrite(p, t)
        <3>1. row[t].state = "completed"
            <4>1. CASE UNCHANGED row
                BY <1>3, <4>1
            <4>2. CASE Prune(now)
                BY <1>3, <4>2 DEF Prune, Absent
            <4>3. ASSUME NEW p \in Procs, NEW s \in scan[p], RecoverTask(s)
                  PROVE  row[t].state = "completed"
                BY <1>3, <4>3 DEF RecoverTask, Closed, TypeOK, StoreTypeOK
            <4>4. ASSUME NEW p \in Procs, NEW u \in Tasks, Submit(p, u)
                  PROVE  row[t].state = "completed"
                BY <1>3, <4>4 DEF Submit, CreateTask, TypeOK, StoreTypeOK
            <4>5. ASSUME NEW p \in Procs, NEW u \in Tasks, Start(p, u)
                  PROVE  row[t].state = "completed"
                BY <1>3, <4>5 DEF Start, MarkRunning, TypeOK, StoreTypeOK, Rows
            <4>6. ASSUME NEW p \in Procs, NEW u \in Tasks, FinishWrite(p, u)
                  PROVE  row[t].state = "completed"
                BY <1>3, <2>2, <4>6 DEF FinishWrite, FinishTask, TypeOK, StoreTypeOK
            <4> QED BY <4>1, <4>2, <4>3, <4>4, <4>5, <4>6, RowSteps
        <3>2. exec[t].phase \in Recorded /\ exec[t].verdict = "completed"
            BY <3>1 DEF CancelInv
        <3> QED BY <2>2, <3>2 DEF Course, SameCourse, Recorded, Live
    <2> QED BY <2>1, <2>2, NextCourse
<1> QED BY <1>1, <1>2, <1>3 DEF CancelInv

\* It holds in every reachable state.
LEMMA CancelInvCorrect == Spec => []CancelInv
<1>1. Init => CancelInv
    <2> SUFFICES ASSUME Init PROVE CancelInv
        OBVIOUS
    <2>1. \A t \in Tasks : acked[t] = FALSE
        BY DEF Init
    <2>3. \A t \in Tasks : row[t].state # "completed"
        <3>1. \A t \in Tasks : row[t] \in Migrated \cup {Absent}
            BY DEF Init, StoreInit
        <3>2. \A r \in Migrated \cup {Absent} : r.state # "completed"
            BY DEF Migrated, Absent, Active
        <3> QED BY <3>1, <3>2
    <2>2. \A p \in Procs : append[p] = NoAppend
        BY DEF Init
    <2> QED BY <2>1, <2>2, <2>3 DEF CancelInv
<1> QED BY <1>1, CancelInvStep, TypeCorrect, PTL DEF Spec

\* Never "completed" after cancel() returned True.
THEOREM CancelCorrect == Spec => []CancelWins
<1>1. CancelInv => CancelWins
    BY DEF CancelInv, CancelWins, Sync, Recorded
<1> QED BY <1>1, CancelInvCorrect, PTL

-----------------------------------------------------------------------------
(* Leases are long enough: if every live process runs what is due at most  *)
(* Slack ticks late, and the grace period covers two such delays (the end  *)
(* of the runner, then the verdict), no recovery takes a task away from a  *)
(* process that is still executing it.                                     *)

\* The phases in which the owner still needs its row.
Holding == Live \ {"retaining"}

\* The row of a task that is executed is its owner's, its step is not later
\* than Slack, and its lease lasts longer than the step may.
HeldInv(t) ==
    exec[t].phase \in Holding =>
       /\ row[t].state \in Active /\ row[t].owner = exec[t].proc
       /\ now =< exec[t].deadline + Slack
       /\ exec[t].phase \in {"scheduled", "running"} =>
             row[t].lease >= exec[t].deadline + Grace
       /\ row[t].lease + Slack >= exec[t].deadline + Grace

\* What a recovery has read was an orphan when it read it.
ScanInv ==
    \A p \in Procs : \A s \in scan[p] :
       /\ s.at =< now
       /\ s.owner = NoOwner \/ s.lease = NoLease \/ (s.lease \in Nat /\ s.lease =< s.at)

LeaseInv == ScanInv /\ \A t \in Tasks : HeldInv(t)

\* Only a tick moves the clock.
LEMMA ClockSteps == ASSUME [Next]_vars PROVE Tick \/ now' = now
<1>1. ASSUME NEW p \in Procs, Host(p) PROVE now' = now
    BY <1>1 DEF Host, Open, ScanOrphans, RecoverOne, RecoveryFails, Exit, Crash, ReadHistory,
                AppendSucceeds, AppendFails
<1>2. ASSUME NEW p \in Procs, NEW t \in Tasks, Submit(p, t) \/ Cancel(p, t) \/ Execute(p, t)
      PROVE  now' = now
    BY <1>2 DEF Submit, Cancel, Execute, Start, StartFails, Observe, RunnerReturns,
       RunnerCancelled, RunnerTimesOut, RunnerRaises, RecordTerminal, BuildResult, FinishRead,
       FinishWrite, FinishFails, Return
<1> QED BY <1>1, <1>2 DEF Next, vars

\* What a recovery has read stays a truth of its instant.
LEMMA ScanInvStep == TypeOK /\ ScanInv /\ [Next]_vars => ScanInv'
<1> SUFFICES ASSUME TypeOK, ScanInv, [Next]_vars PROVE ScanInv'
    OBVIOUS
<1>1. now \in Nat /\ now' \in Nat /\ now =< now'
    <2>1. CASE Tick
        BY <2>1 DEF Tick, TypeOK
    <2>2. CASE now' = now
        BY <2>2 DEF TypeOK
    <2> QED BY <2>1, <2>2, ClockSteps
<1>2. CASE \A p \in Procs : scan'[p] \subseteq scan[p]
    <2> SUFFICES ASSUME NEW p \in Procs, NEW s \in scan'[p]
                 PROVE  /\ s.at =< now'
                        /\ s.owner = NoOwner \/ s.lease = NoLease
                              \/ (s.lease \in Nat /\ s.lease =< s.at)
        BY DEF ScanInv
    <2>1. s \in scan[p] /\ s.at \in Nat
        BY <1>2 DEF TypeOK, Snapshots
    <2> QED BY <1>1, <2>1 DEF ScanInv
<1>3. ASSUME NEW p \in Procs, ScanOrphans(p) PROVE ScanInv'
    <2>1. \A s \in OrphanSnapshots(now) :
             /\ s.at = now
             /\ s.owner = NoOwner \/ s.lease = NoLease \/ (s.lease \in Nat /\ s.lease =< s.at)
        BY DEF OrphanSnapshots, Snapshot, Orphan, TypeOK, StoreTypeOK, Rows
    <2>2. now' = now /\ scan' = [scan EXCEPT ![p] = OrphanSnapshots(now)]
        BY <1>3 DEF ScanOrphans
    <2> QED BY <1>1, <2>1, <2>2 DEF ScanInv, TypeOK
<1>4. (\A p \in Procs : scan'[p] \subseteq scan[p]) \/ \E p \in Procs : ScanOrphans(p)
    <2>1. CASE Tick \/ UNCHANGED vars
        BY <2>1 DEF Tick, vars
    <2>2. ASSUME NEW p \in Procs, Host(p), ~ScanOrphans(p)
          PROVE  \A q \in Procs : scan'[q] \subseteq scan[q]
        BY <2>2 DEF Host, Open, RecoverOne, RecoveryFails, Exit, Crash, ReadHistory,
                    AppendSucceeds, AppendFails, TypeOK
    <2>3. ASSUME NEW p \in Procs, NEW t \in Tasks, Submit(p, t) \/ Cancel(p, t) \/ Execute(p, t)
          PROVE  scan' = scan
        BY <2>3 DEF Submit, Cancel, Execute, Start, StartFails, Observe, RunnerReturns,
           RunnerCancelled, RunnerTimesOut, RunnerRaises, RecordTerminal, BuildResult,
           FinishRead, FinishWrite, FinishFails, Return
    <2> QED BY <2>1, <2>2, <2>3 DEF Next
<1> QED BY <1>2, <1>3, <1>4

\* How a step of any process but the clock can leave an execution holding
\* its row.
Deadlines(t) ==
    LET e == exec[t]
        f == exec'[t]
    IN \/ f.phase = e.phase /\ f.deadline = e.deadline /\ f.proc = e.proc
       \/ f.phase \notin Holding
       \/ \E p \in Procs : Submit(p, t) \/ Start(p, t)
       \/ /\ e.phase \in {"scheduled", "running"} /\ f.phase = "settling"
          /\ f.deadline = now /\ f.proc = e.proc
       \/ /\ e.phase \in {"settling", "settled", "checked"}
          /\ f.phase \in {"settling", "settled", "checked"}
          /\ f.deadline = e.deadline /\ f.proc = e.proc

\* The end of the runner is due at once.
LEMMA EndsDeadline ==
    ASSUME TypeOK, NEW t \in Tasks, NEW u \in Tasks, NEW v, NEW n, NEW b, Ends(u, v, n, b),
           exec[u].phase \in {"scheduled", "running"}
    PROVE  Deadlines(t)
<1>1. CASE t # u
    BY <1>1 DEF Ends, Deadlines, TypeOK
<1>2. CASE t = u
    BY <1>2 DEF Ends, Deadlines, TypeOK, Executions
<1> QED BY <1>1, <1>2

\* Only a start and an end move a deadline.
LEMMA ExecuteDeadlines ==
    ASSUME TypeOK, NEW p \in Procs, NEW u \in Tasks, Execute(p, u), NEW t \in Tasks
    PROVE  Deadlines(t)
<1>1. exec \in [Tasks -> Executions]
    BY DEF TypeOK
<1>2. CASE Start(p, u)
    BY <1>1, <1>2 DEF Start, Deadlines
<1>3. CASE StartFails(p, u) \/ RunnerReturns(p, u) \/ RunnerCancelled(p, u)
              \/ RunnerTimesOut(p, u) \/ RunnerRaises(p, u)
    <2>1. exec[u].phase \in {"scheduled", "running"}
        BY <1>3 DEF StartFails, RunnerReturns, RunnerCancelled, RunnerTimesOut, RunnerRaises, Turn
    <2>2. PICK v, n, b : Ends(u, v, n, b)
        BY <1>3 DEF StartFails, RunnerReturns, RunnerCancelled, RunnerTimesOut, RunnerRaises
    <2> QED BY <2>1, <2>2, EndsDeadline
<1>4. CASE Observe(p, u)
    BY <1>1, <1>4 DEF Observe, Deadlines, Executions
<1>5. CASE RecordTerminal(p, u)
    BY <1>1, <1>5 DEF RecordTerminal, Deadlines, Executions
<1>6. CASE BuildResult(p, u)
    BY <1>1, <1>6 DEF BuildResult, Continue, Deadlines, Executions
<1>7. CASE FinishRead(p, u)
    BY <1>1, <1>7 DEF FinishRead, Continue, Deadlines, Executions
<1>8. CASE FinishWrite(p, u)
    BY <1>1, <1>8 DEF FinishWrite, Deadlines, Executions, Holding
<1>9. CASE FinishFails(p, u)
    BY <1>1, <1>9 DEF FinishFails, Continue, Over, NotSubmitted, Recorded, Holding, Live,
                      Deadlines, Executions
<1>10. CASE Return(p, u)
    BY <1>1, <1>10 DEF Return, Over, NotSubmitted, Recorded, Holding, Live, Deadlines, Executions
<1> QED BY <1>2, <1>3, <1>4, <1>5, <1>6, <1>7, <1>8, <1>9, <1>10 DEF Execute

\* No other step moves one.
LEMMA NextDeadlines ==
    ASSUME TypeOK, [Next]_vars, NEW t \in Tasks PROVE Deadlines(t)
<1>1. CASE Tick \/ UNCHANGED vars
    BY <1>1 DEF Tick, vars, Deadlines
<1>2. ASSUME NEW p \in Procs, Host(p) PROVE Deadlines(t)
    <2>1. CASE Crash(p)
        <3>1. exec'[t] = exec[t] \/ exec'[t].phase \in {"crashed", "unanswered"}
            BY <2>1 DEF Crash, Over, NotSubmitted, Recorded
        <3> QED BY <3>1 DEF Deadlines, Holding, Live
    <2>2. CASE AppendSucceeds(p)
        <3>1. \/ exec' = exec
              \/ exec' = [exec EXCEPT ![append[p].task].observed = TRUE]
            BY <2>2 DEF AppendSucceeds
        <3> QED BY <3>1 DEF TypeOK, Executions, Deadlines
    <2>3. CASE ~(Crash(p) \/ AppendSucceeds(p))
        BY <1>2, <2>3 DEF Host, Open, ScanOrphans, RecoverOne, RecoveryFails, Exit, ReadHistory,
                          AppendFails, Deadlines
    <2> QED BY <2>1, <2>2, <2>3
<1>3. ASSUME NEW p \in Procs, NEW u \in Tasks, Execute(p, u) PROVE Deadlines(t)
    BY <1>3, ExecuteDeadlines
<1>4. ASSUME NEW p \in Procs, NEW u \in Tasks, Submit(p, u) PROVE Deadlines(t)
    BY <1>4 DEF Submit, TypeOK, Deadlines
<1>5. ASSUME NEW p \in Procs, NEW u \in Tasks, Cancel(p, u) PROVE Deadlines(t)
    BY <1>5 DEF Cancel, TypeOK, Executions, Deadlines
<1> QED BY <1>1, <1>2, <1>3, <1>4, <1>5 DEF Next

\* While the lease has not run out nobody else touches the row.
LEMMA HeldRow ==
    ASSUME TypeOK, OwnedWhileActive, LeaseInv, [Next]_vars, 2 * Slack < Grace,
           NEW t \in Tasks, exec[t].phase \in Holding
    PROVE  row'[t] = row[t] \/ \E p \in Procs : Start(p, t) \/ FinishWrite(p, t)
<1>1. row[t].state \in Active /\ row[t].owner \in Owners /\ row[t].lease \in Nat
    BY DEF LeaseInv, HeldInv, OwnedWhileActive
<1>2. row[t].lease > now
    <2>1. /\ now =< exec[t].deadline + Slack
          /\ row[t].lease + Slack >= exec[t].deadline + Grace
        BY DEF LeaseInv, HeldInv
    <2>2. now \in Nat /\ exec[t].deadline \in Nat
        BY DEF TypeOK, Executions
    <2> QED BY <1>1, <2>1, <2>2
<1>3. CASE UNCHANGED row
    BY <1>3
<1>4. CASE Prune(now)
    <2>1. t \notin Pruned(now)
        BY <1>1 DEF Pruned, Aged, Excess, Recent, Active, Terminal
    <2> QED BY <1>4, <2>1 DEF Prune
<1>5. ASSUME NEW p \in Procs, NEW s \in scan[p], RecoverTask(s) PROVE row'[t] = row[t]
    <2>1. s \in Snapshots
        BY DEF TypeOK
    <2>2. CASE s.task = t
        <3>1. s.owner = row[t].owner /\ s.lease = row[t].lease
            BY <1>5, <2>2 DEF RecoverTask, Unchanged, Snapshot
        <3>2. s.owner # NoOwner /\ s.lease # NoLease
            BY <1>1, <3>1 DEF Owners
        <3>3. s.lease =< s.at /\ s.at =< now /\ s.at \in Nat /\ now \in Nat
            BY <2>1, <3>2 DEF LeaseInv, ScanInv, Snapshots, TypeOK
        <3> QED BY <1>1, <1>2, <3>1, <3>3
    <2>3. CASE s.task # t
        BY <1>5, <2>1, <2>3 DEF RecoverTask, TypeOK, StoreTypeOK
    <2> QED BY <2>2, <2>3
<1>6. ASSUME NEW p \in Procs, NEW u \in Tasks, Submit(p, u) PROVE row'[t] = row[t]
    BY <1>6 DEF Submit, CreateTask, Holding, Live, TypeOK, StoreTypeOK
<1>7. ASSUME NEW p \in Procs, NEW u \in Tasks, Start(p, u) \/ FinishWrite(p, u), u # t
      PROVE  row'[t] = row[t]
    BY <1>7 DEF Start, MarkRunning, FinishWrite, FinishTask, TypeOK, StoreTypeOK
<1> QED BY <1>3, <1>4, <1>5, <1>6, <1>7, RowSteps

\* A row that is held stays held while its owner keeps to Slack.
LEMMA HeldStep ==
    ASSUME TypeOK, OwnedWhileActive, LeaseInv, [Next]_vars, Punctual, 2 * Slack < Grace,
           NEW t \in Tasks
    PROVE  HeldInv(t)'
<1> SUFFICES ASSUME exec'[t].phase \in Holding PROVE HeldInv(t)'
    BY DEF HeldInv
<1>1. exec[t] \in Executions /\ row[t] \in Rows /\ now \in Nat
    BY DEF TypeOK, StoreTypeOK
<1>2. CASE Tick
    <2>1. exec[t].phase \in Holding /\ exec[t].phase \in Live
        BY <1>2 DEF Tick, Holding
    <2>2. now < exec[t].deadline + Slack /\ now' = now + 1
        BY <1>2, <2>1 DEF Tick
    <2>3. now' =< exec[t].deadline + Slack
        BY <1>1, <2>2 DEF Executions
    <2>4. HeldInv(t)
        BY DEF LeaseInv
    <2> QED BY <1>2, <2>1, <2>3, <2>4 DEF Tick, HeldInv
<1>3. ASSUME NEW p \in Procs, Submit(p, t) PROVE HeldInv(t)'
    <2>1. row'[t] = [state |-> "pending", owner |-> p, lease |-> Lease, updated |-> now]
        BY <1>3 DEF Submit, CreateTask, TypeOK, StoreTypeOK
    <2>2. exec'[t] = [exec[t] EXCEPT !.phase = "scheduled", !.proc = p, !.deadline = now]
        BY <1>3 DEF Submit, TypeOK
    <2>3. exec'[t].proc = p /\ exec'[t].deadline = now /\ now' = now
        BY <1>1, <1>3, <2>2 DEF Submit, Executions
    <2>4. row'[t].state \in Active /\ row'[t].owner = p /\ row'[t].lease = now + Duration + Grace
        BY <2>1 DEF Active, Lease
    <2>5. now =< now + Slack /\ now + Duration + Grace >= now + Grace
             /\ now + Duration + Grace + Slack >= now + Grace
        BY <1>1
    <2> QED BY <2>3, <2>4, <2>5 DEF HeldInv
<1>4. ASSUME NEW p \in Procs, Start(p, t) PROVE HeldInv(t)'
    <2>1. row'[t] = [row[t] EXCEPT !.state = "running", !.lease = Lease, !.updated = now]
        BY <1>4 DEF Start, MarkRunning, TypeOK, StoreTypeOK
    <2>2. exec'[t] = [exec[t] EXCEPT !.phase = "running", !.deadline = now + Duration]
        BY <1>4 DEF Start, TypeOK
    <2>3. exec[t].phase = "scheduled" /\ exec[t].proc = p /\ row[t].owner = p /\ now' = now
        BY <1>4 DEF Start, Turn, Owns, MarkRunning, MayStart
    <2>4. exec'[t].proc = p /\ exec'[t].deadline = now + Duration
        BY <1>1, <2>2, <2>3 DEF Executions
    <2>5. row'[t].state \in Active /\ row'[t].owner = p /\ row'[t].lease = now + Duration + Grace
        BY <1>1, <2>1, <2>3 DEF Active, Lease, Rows
    <2>6. now =< now + Duration + Slack /\ now + Duration + Grace >= now + Duration + Grace
             /\ now + Duration + Grace + Slack >= now + Duration + Grace
        BY <1>1
    <2> QED BY <2>3, <2>4, <2>5, <2>6 DEF HeldInv
<1>5. CASE ~Tick /\ ~ \E p \in Procs : Submit(p, t) \/ Start(p, t)
    <2>1. now' = now
        BY <1>5, ClockSteps
    <2>2. Deadlines(t)
        BY NextDeadlines
    <2>3. exec[t].phase \in Holding /\ exec'[t].proc = exec[t].proc
        BY <1>5, <2>2 DEF Deadlines, Holding, Live
    <2>4. HeldInv(t)
        BY DEF LeaseInv
    <2>5. ~ \E p \in Procs : FinishWrite(p, t)
        <3>1. ASSUME NEW p \in Procs, FinishWrite(p, t) PROVE exec'[t].phase = "retaining"
            BY <1>1, <3>1 DEF FinishWrite, TypeOK, Executions
        <3> QED BY <3>1 DEF Holding
    <2>6. row'[t] = row[t]
        BY <1>5, <2>3, <2>5, HeldRow
    <2>7. exec[t].deadline \in Nat /\ row[t].lease \in Nat
        BY <1>1, <2>3, <2>4 DEF Executions, HeldInv, OwnedWhileActive
    <2>8. CASE exec'[t].phase = exec[t].phase /\ exec'[t].deadline = exec[t].deadline
        BY <2>1, <2>3, <2>4, <2>6, <2>8 DEF HeldInv
    <2>9. CASE /\ exec[t].phase \in {"scheduled", "running"} /\ exec'[t].phase = "settling"
               /\ exec'[t].deadline = now
        <3>1. row[t].lease >= exec[t].deadline + Grace /\ now =< exec[t].deadline + Slack
            BY <2>3, <2>4, <2>9 DEF HeldInv
        <3>2. row[t].lease + Slack >= now + Grace /\ now =< now + Slack
            BY <1>1, <2>7, <3>1
        <3> QED BY <2>1, <2>3, <2>4, <2>6, <2>9, <3>2 DEF HeldInv
    <2>10. CASE /\ exec'[t].phase \in {"settling", "settled", "checked"}
                /\ exec'[t].deadline = exec[t].deadline
        BY <2>1, <2>3, <2>4, <2>6, <2>10 DEF HeldInv
    <2> QED BY <1>5, <2>2, <2>8, <2>9, <2>10 DEF Deadlines
<1> QED BY <1>2, <1>3, <1>4, <1>5

\* Leases outlast the work they cover, whatever the recovery of other
\* processes does meanwhile.
THEOREM LeaseCorrect ==
    ASSUME 2 * Slack < Grace PROVE Spec => []LiveOwnerKeepsTask
<1>1. CASE Punctual
    <2>1. Init => LeaseInv
        BY DEF Init, NotSubmitted, LeaseInv, ScanInv, HeldInv, Holding, Live
    <2>2. TypeOK /\ OwnedWhileActive /\ LeaseInv /\ [Next]_vars => LeaseInv'
        BY <1>1, ScanInvStep, HeldStep DEF LeaseInv
    <2>3. LeaseInv => LiveOwnerKeepsTask
        BY DEF LeaseInv, HeldInv, Holding, LiveOwnerKeepsTask
    <2> QED BY <2>1, <2>2, <2>3, TypeCorrect, OwnedCorrect, PTL DEF Spec
<1>2. CASE ~Punctual
    <2>1. LiveOwnerKeepsTask
        BY <1>2 DEF LiveOwnerKeepsTask
    <2> QED BY <2>1, PTL
<1> QED BY <1>1, <1>2

-----------------------------------------------------------------------------
(* The service implements the record of a task.                            *)

\* A task that nobody submitted has no row; and a verdict that is not its owner's is
\* that of a recovery.
RecordInv ==
    /\ \A t \in Tasks : ~Used(t) => row[t].state = "absent"
    /\ \A t \in Tasks : row[t].state \in Terminal /\ exec[t].phase \notin Recorded =>
          row[t].state = "failed"

\* How the row of one task can change, with what happens to its execution meanwhile.
RowCourse(t) ==
    \/ row'[t] = row[t]
    \/ row[t].state \in Terminal /\ row'[t] = Absent
    \/ row[t].state \in Active /\ row'[t].state = "failed"
    \/ \E p \in Procs : Submit(p, t) \/ Start(p, t) \/ FinishWrite(p, t)

\* A row is moved by its execution, closed by a recovery or deleted by retention.
LEMMA NextRowCourse ==
    ASSUME TypeOK, [Next]_vars, NEW t \in Tasks
    PROVE  RowCourse(t)
<1>1. CASE UNCHANGED row
    BY <1>1 DEF RowCourse
<1>2. CASE Prune(now)
    <2>1. t \in Pruned(now) => row[t].state \in Terminal
        BY DEF Pruned, Aged, Excess, Recent
    <2> QED BY <1>2, <2>1 DEF Prune, RowCourse
<1>3. ASSUME NEW p \in Procs, NEW s \in scan[p], RecoverTask(s) PROVE RowCourse(t)
    <2>1. s \in Snapshots
        BY DEF TypeOK
    <2>2. row[s.task].state \in Active
        BY <1>3, <2>1 DEF RecoverTask, Unchanged, Snapshot, Snapshots
    <2>3. CASE s.task = t
        BY <1>3, <2>2, <2>3 DEF RecoverTask, Closed, TypeOK, StoreTypeOK, RowCourse
    <2>4. CASE s.task # t
        BY <1>3, <2>1, <2>4 DEF RecoverTask, TypeOK, StoreTypeOK, RowCourse
    <2> QED BY <2>3, <2>4
<1>4. ASSUME NEW p \in Procs, NEW u \in Tasks, Submit(p, u) \/ Start(p, u) \/ FinishWrite(p, u)
      PROVE  RowCourse(t)
    <2>1. CASE u = t
        BY <1>4, <2>1 DEF RowCourse
    <2>2. CASE u # t
        BY <1>4, <2>2 DEF Submit, CreateTask, Start, MarkRunning, FinishWrite, FinishTask, TypeOK,
                          StoreTypeOK, RowCourse
    <2> QED BY <2>1, <2>2
<1> QED BY <1>1, <1>2, <1>3, <1>4, RowSteps

\* The verdict of an execution, once recorded, stays; and only FinishWrite records one.
RecordingKept(t) ==
    /\ exec'[t].phase \in Recorded <=> exec[t].phase \in Recorded
    /\ exec[t].phase \in Recorded => exec'[t].verdict = exec[t].verdict

\* Only FinishWrite records a verdict, and one that is recorded stays.
LEMMA RecordingIsKept ==
    ASSUME TypeOK, [Next]_vars, NEW t \in Tasks, ~ \E p \in Procs : FinishWrite(p, t)
    PROVE  RecordingKept(t)
<1>1. Course(exec[t], exec'[t])
    BY NextCourse
<1> QED BY <1>1 DEF Course, SameCourse, Recorded, Live, RecordingKept

\* A task that was submitted stays submitted, and only Submit makes it so.
LEMMA UsedIsKept ==
    ASSUME TypeOK, [Next]_vars, NEW t \in Tasks
    PROVE  /\ Used(t) => Used(t)'
           /\ (\E p \in Procs : Submit(p, t)) \/ (Used(t)' => Used(t))
<1>1. exec[t].phase # "none" => exec'[t].phase # "none"
    <2>1. CASE Course(exec[t], exec'[t])
        BY <2>1 DEF Course, SameCourse
    <2>2. ASSUME NEW p \in Procs, FinishWrite(p, t) PROVE exec'[t].phase # "none"
        BY <2>2 DEF FinishWrite, TypeOK, Executions
    <2> QED BY <2>1, <2>2, NextCourse
<1>2. exec[t].phase = "none" /\ exec'[t].phase # "none" => \E p \in Procs : Submit(p, t)
    <2> SUFFICES ASSUME exec[t].phase = "none", exec'[t].phase # "none"
                 PROVE  \E p \in Procs : Submit(p, t)
        OBVIOUS
    <2>1. CASE Tick \/ UNCHANGED vars
        BY <2>1 DEF Tick, vars
    <2>2. ASSUME NEW p \in Procs, Host(p) PROVE exec'[t].phase = exec[t].phase
        <3>1. CASE Crash(p)
            BY <3>1 DEF Crash, Live
        <3>2. CASE AppendSucceeds(p)
            <4>1. exec' = exec \/ exec' = [exec EXCEPT ![append[p].task].observed = TRUE]
                BY <3>2 DEF AppendSucceeds
            <4> QED BY <4>1 DEF TypeOK, Executions
        <3>3. CASE ~(Crash(p) \/ AppendSucceeds(p))
            BY <2>2, <3>3 DEF Host, Open, ScanOrphans, RecoverOne, RecoveryFails, Exit,
                              ReadHistory, AppendFails
        <3> QED BY <3>1, <3>2, <3>3
    <2>3. ASSUME NEW p \in Procs, NEW u \in Tasks, Execute(p, u) PROVE exec'[t] = exec[t]
        <3>1. exec[u].phase \in Live
            BY <2>3 DEF Execute, Start, StartFails, Observe, RunnerReturns, RunnerCancelled,
                        RunnerTimesOut, RunnerRaises, RecordTerminal, BuildResult, FinishRead,
                        FinishWrite, FinishFails, Return, Turn, Continue, Live
        <3>2. u # t
            BY <3>1 DEF Live
        <3> QED BY <2>3, <3>2
            DEF Execute, Start, StartFails, Observe, RunnerReturns, RunnerCancelled,
                RunnerTimesOut, RunnerRaises, RecordTerminal, BuildResult, FinishRead,
                    FinishWrite, FinishFails, Return, Ends, TypeOK
    <2>4. ASSUME NEW p \in Procs, NEW u \in Tasks, Submit(p, u), u # t PROVE exec'[t] = exec[t]
        BY <2>4 DEF Submit, TypeOK
    <2>5. ASSUME NEW p \in Procs, NEW u \in Tasks, Cancel(p, u)
          PROVE  exec'[t].phase = exec[t].phase
        BY <2>5 DEF Cancel, TypeOK, Executions
    <2> QED BY <2>1, <2>2, <2>3, <2>4, <2>5 DEF Next
<1> QED BY <1>1, <1>2 DEF Used

\* A task nobody submitted has no row at first.
LEMMA RecordInvInit == Init => RecordInv
<1> SUFFICES ASSUME Init, NEW t \in Tasks
             PROVE  /\ ~Used(t) => row[t].state = "absent"
                    /\ row[t].state \notin Terminal
    BY DEF RecordInv
<1>1. row[t] \in Migrated \cup {Absent} /\ (t \notin Legacy => row[t] = Absent)
    BY DEF Init, StoreInit
<1>2. row[t].state \in Active \cup {"absent"}
    BY <1>1 DEF Migrated, Absent
<1>3. t \notin Legacy => row[t].state = "absent"
    BY <1>1 DEF Absent
<1> QED BY <1>2, <1>3 DEF Used, Active, Terminal

\* Every step keeps the invariant of the record.
LEMMA RecordInvStep ==
    ASSUME TypeOK, RecordInv, [Next]_vars
    PROVE  RecordInv'
<1>1. ASSUME NEW t \in Tasks, ~Used(t)' PROVE row'[t].state = "absent"
    <2>1. ~Used(t) /\ exec'[t].phase = "none"
        BY <1>1, UsedIsKept DEF Used
    <2>2. row[t].state = "absent"
        BY <2>1 DEF RecordInv
    <2>3. ASSUME NEW p \in Procs, Submit(p, t) PROVE FALSE
        BY <2>1, <2>3 DEF Submit, TypeOK, Executions
    <2>4. ASSUME NEW p \in Procs, Start(p, t) \/ FinishWrite(p, t) PROVE FALSE
        BY <2>2, <2>4 DEF Start, MarkRunning, MayStart, FinishWrite, FinishTask, MayFinish
    <2> QED BY <2>2, <2>3, <2>4, NextRowCourse DEF RowCourse, Active, Terminal
<1>2. ASSUME NEW t \in Tasks, row'[t].state \in Terminal, exec'[t].phase \notin Recorded
      PROVE  row'[t].state = "failed"
    <2>1. ASSUME NEW p \in Procs, FinishWrite(p, t) PROVE FALSE
        <3>1. exec'[t].phase = "retaining"
            BY <2>1 DEF FinishWrite, TypeOK, Executions
        <3> QED BY <1>2, <3>1 DEF Recorded
    <2>2. exec[t].phase \notin Recorded
        BY <1>2, <2>1, RecordingIsKept DEF RecordingKept
    <2>3. ASSUME NEW p \in Procs, Submit(p, t) \/ Start(p, t) PROVE row'[t].state \in Active
        <3>1. row \in [Tasks -> Rows] /\ row[t] \in Rows
            BY DEF TypeOK, StoreTypeOK
        <3>2. CASE Submit(p, t)
            BY <3>1, <3>2 DEF Submit, CreateTask, Active
        <3>3. CASE Start(p, t)
            <4>1. row'[t] = [row[t] EXCEPT !.state = "running", !.lease = Lease, !.updated = now]
                BY <3>1, <3>3 DEF Start, MarkRunning
            <4> QED BY <3>1, <4>1 DEF Rows, Active
        <3> QED BY <2>3, <3>2, <3>3
    <2>4. \A p \in Procs : ~Submit(p, t) /\ ~Start(p, t)
        BY <1>2, <2>3 DEF Active, Terminal
    <2>5. CASE row'[t] = row[t]
        BY <1>2, <2>2, <2>5 DEF RecordInv
    <2>6. CASE row'[t] = Absent
        BY <1>2, <2>6 DEF Absent, Terminal
    <2> QED BY <2>1, <2>4, <2>5, <2>6, NextRowCourse DEF RowCourse
<1> QED BY <1>1, <1>2 DEF RecordInv

\* A caller is told a verdict by Return and by nothing else.
LEMMA OnlyReturnTells ==
    ASSUME TypeOK, [Next]_vars, NEW t \in Tasks, ~ \E p \in Procs : Return(p, t)
    PROVE  exec'[t].phase = "returned" <=> exec[t].phase = "returned"
<1>1. exec[t].phase = "retaining" => exec'[t].phase # "returned"
    <2> SUFFICES ASSUME exec[t].phase = "retaining" PROVE exec'[t].phase # "returned"
        OBVIOUS
    <2>1. CASE Tick \/ UNCHANGED vars
        BY <2>1 DEF Tick, vars
    <2>2. ASSUME NEW p \in Procs, Host(p) PROVE exec'[t].phase # "returned"
        <3>1. CASE Crash(p)
            BY <3>1 DEF Crash, Over, NotSubmitted, Recorded
        <3>2. CASE AppendSucceeds(p)
            <4>1. exec' = exec \/ exec' = [exec EXCEPT ![append[p].task].observed = TRUE]
                BY <3>2 DEF AppendSucceeds
            <4> QED BY <4>1 DEF TypeOK, Executions
        <3>3. CASE ~(Crash(p) \/ AppendSucceeds(p))
            BY <2>2, <3>3 DEF Host, Open, ScanOrphans, RecoverOne, RecoveryFails, Exit,
                              ReadHistory, AppendFails
        <3> QED BY <3>1, <3>2, <3>3
    <2>3. ASSUME NEW p \in Procs, NEW u \in Tasks, Execute(p, u) PROVE exec'[t] = exec[t]
        <3>1. u # t
            BY <2>3 DEF Execute, Start, StartFails, Observe, RunnerReturns, RunnerCancelled,
                        RunnerTimesOut, RunnerRaises, RecordTerminal, BuildResult, FinishRead,
                        FinishWrite, FinishFails, Turn, Continue
        <3> QED BY <2>3, <3>1
            DEF Execute, Start, StartFails, Observe, RunnerReturns, RunnerCancelled,
                RunnerTimesOut, RunnerRaises, RecordTerminal, BuildResult, FinishRead,
                    FinishWrite, FinishFails, Return, Ends, TypeOK
    <2>4. ASSUME NEW p \in Procs, NEW u \in Tasks, Submit(p, u) PROVE exec'[t] = exec[t]
        BY <2>4 DEF Submit, TypeOK
    <2>5. ASSUME NEW p \in Procs, NEW u \in Tasks, Cancel(p, u)
          PROVE  exec'[t].phase = exec[t].phase
        BY <2>5 DEF Cancel, TypeOK, Executions
    <2> QED BY <2>1, <2>2, <2>3, <2>4, <2>5 DEF Next
<1>2. CASE Course(exec[t], exec'[t])
    BY <1>1, <1>2 DEF Course, SameCourse, Live
<1>3. ASSUME NEW p \in Procs, FinishWrite(p, t)
      PROVE  exec[t].phase = "checked" /\ exec'[t].phase = "retaining"
    BY <1>3 DEF FinishWrite, Continue, TypeOK, Executions
<1> QED BY <1>2, <1>3, NextCourse

\* The tasks whose rows retention deletes in a step.
Deleted == {t \in Tasks : row[t].state \in Terminal /\ row'[t] = Absent}

\* A step that at most deletes rows changes nothing in the record but that they are
\* forgotten.
LEMMA DeletingForgets ==
    ASSUME TypeOK, ResultIsDurable, RecordInv, [Next]_vars,
           \A t \in Tasks : row'[t] = row[t] \/ t \in Deleted,
           \A t \in Tasks, p \in Procs : ~Submit(p, t) /\ ~FinishWrite(p, t)
    PROVE  Record!Forgetting(Deleted) /\ recordVerdict' = recordVerdict
<1>1. ASSUME NEW t \in Tasks
      PROVE  /\ t \in Deleted => recordStage[t] = "settled" /\ recordStage'[t] = "forgotten"
             /\ t \notin Deleted => recordStage'[t] = recordStage[t]
             /\ recordVerdict'[t] = recordVerdict[t]
    <2>1. RecordingKept(t)
        BY RecordingIsKept
    <2>2. Used(t)' <=> Used(t)
        BY UsedIsKept
    <2>3. CASE t \in Deleted
        <3>1. row[t].state \in Terminal /\ row'[t].state = "absent" /\ row[t] # Absent
            BY <2>3 DEF Deleted, Absent, Terminal
        <3>2. Used(t) /\ Used(t)'
            BY <2>2, <3>1 DEF RecordInv, Terminal
        <3>3. recordStage[t] = "settled" /\ recordStage'[t] = "forgotten"
            BY <3>1, <3>2 DEF recordStage, Active, Terminal
        <3>4. recordVerdict[t] = row[t].state
            BY <3>1 DEF recordVerdict
        <3>5. recordVerdict'[t] = IF exec'[t].phase \in Recorded THEN exec'[t].verdict ELSE "failed"
            BY <3>1, <3>2 DEF recordVerdict, Active, Terminal
        <3>6. CASE exec[t].phase \in Recorded
            <4>1. row[t].state = exec[t].verdict
                <5>1. row[t] = Closed(exec[t].verdict, exec[t].ended)
                    BY <3>1, <3>6 DEF ResultIsDurable
                <5> QED BY <5>1 DEF Closed
            <4> QED BY <2>1, <2>3, <3>3, <3>4, <3>5, <3>6, <4>1 DEF RecordingKept
        <3>7. CASE exec[t].phase \notin Recorded
            <4>1. row[t].state = "failed"
                BY <3>1, <3>7 DEF RecordInv
            <4> QED BY <2>1, <2>3, <3>3, <3>4, <3>5, <3>7, <4>1 DEF RecordingKept
        <3> QED BY <3>6, <3>7
    <2>4. CASE t \notin Deleted
        <3>1. row'[t] = row[t]
            BY <2>4
        <3>2. recordStage'[t] = recordStage[t]
            BY <2>2, <3>1 DEF recordStage
        <3>3. recordVerdict'[t] = recordVerdict[t]
            BY <2>1, <2>2, <3>1 DEF recordVerdict, RecordingKept
        <3> QED BY <2>4, <3>2, <3>3
    <2> QED BY <2>3, <2>4
<1>2. /\ recordStage' = [t \in Tasks |-> recordStage'[t]]
      /\ recordVerdict = [t \in Tasks |-> recordVerdict[t]]
      /\ recordVerdict' = [t \in Tasks |-> recordVerdict'[t]]
    BY DEF recordStage, recordVerdict
<1>3. recordStage' = [t \in Tasks |-> IF t \in Deleted THEN "forgotten" ELSE recordStage[t]]
    BY <1>1, <1>2
<1>4. \A t \in Deleted : recordStage[t] = "settled"
    BY <1>1 DEF Deleted
<1> QED BY <1>1, <1>2, <1>3, <1>4 DEF Record!Forgetting

\* Nobody is told anything in a step that is not a Return.
LEMMA TellingNobody ==
    ASSUME TypeOK, [Next]_vars, \A t \in Tasks, p \in Procs : ~Return(p, t)
    PROVE  recordTold' = recordTold
BY OnlyReturnTells DEF recordTold

\* The steps of a task's record that its row shows.
LEMMA RowStepIsRecordStep ==
    ASSUME TypeOK, ResultIsDurable, CancelInv, RecordInv, [Next]_vars,
           NEW p \in Procs, NEW t \in Tasks,
           Submit(p, t) \/ Start(p, t) \/ FinishWrite(p, t)
    PROVE  Record!Next
<1>1. row \in [Tasks -> Rows] /\ exec \in [Tasks -> Executions]
    BY DEF TypeOK, StoreTypeOK
<1>2. acked' = acked
    BY DEF Submit, Start, FinishWrite
<1>3. ASSUME NEW u \in Tasks, u # t
      PROVE  row'[u] = row[u] /\ exec'[u] = exec[u]
    BY <1>1, <1>3 DEF Submit, CreateTask, Start, MarkRunning, FinishWrite, FinishTask
<1>4. ASSUME NEW u \in Tasks, u # t
      PROVE  /\ recordStage'[u] = recordStage[u] /\ recordVerdict'[u] = recordVerdict[u]
             /\ recordTold'[u] = recordTold[u]
    BY <1>3, <1>4 DEF recordStage, recordVerdict, recordTold, Used
<1>5. /\ recordStage = [u \in Tasks |-> recordStage[u]]
      /\ recordStage' = [u \in Tasks |-> recordStage'[u]]
      /\ recordVerdict = [u \in Tasks |-> recordVerdict[u]]
      /\ recordVerdict' = [u \in Tasks |-> recordVerdict'[u]]
      /\ recordTold = [u \in Tasks |-> recordTold[u]]
      /\ recordTold' = [u \in Tasks |-> recordTold'[u]]
    BY DEF recordStage, recordVerdict, recordTold
<1>6. recordTold'[t] = recordTold[t] => recordTold' = recordTold
    BY <1>4, <1>5
<1>7. recordStage' = [recordStage EXCEPT ![t] = recordStage'[t]]
    BY <1>4, <1>5
<1>8. recordVerdict' = [recordVerdict EXCEPT ![t] = recordVerdict'[t]]
    BY <1>4, <1>5
<1>9. recordVerdict'[t] = recordVerdict[t] => recordVerdict' = recordVerdict
    BY <1>4, <1>5
<1>10. CASE Submit(p, t)
    <2>1. row[t].state = "absent" /\ exec[t].phase = "none" /\ t \notin Legacy
        BY <1>10 DEF Submit, CreateTask
    <2>2. row'[t].state = "pending"
        BY <1>1, <1>10 DEF Submit, CreateTask
    <2>3. exec'[t] = [exec[t] EXCEPT !.phase = "scheduled", !.proc = p, !.deadline = now]
        BY <1>1, <1>10 DEF Submit
    <2>4. exec'[t].phase = "scheduled"
        BY <1>1, <2>3 DEF Executions
    <2>5. recordStage[t] = "absent" /\ recordStage'[t] = "pending"
        BY <2>1, <2>2 DEF recordStage, Used, Active, Terminal
    <2>6. recordVerdict[t] = "none" /\ recordVerdict'[t] = "none"
        BY <2>1, <2>2 DEF recordVerdict, Used, Active, Terminal
    <2>7. recordTold'[t] = recordTold[t]
        BY <2>1, <2>4 DEF recordTold
    <2>8. Record!Accept(t)
        BY <1>2, <1>6, <1>7, <1>9, <2>5, <2>6, <2>7 DEF Record!Accept
    <2> QED BY <2>8 DEF Record!Next
<1>11. CASE Start(p, t)
    <2>1. row[t].state = "pending" /\ exec[t].phase = "scheduled"
        BY <1>11 DEF Start, MarkRunning, MayStart, Turn
    <2>2. row'[t] = [row[t] EXCEPT !.state = "running", !.lease = Lease, !.updated = now]
        BY <1>1, <1>11 DEF Start, MarkRunning
    <2>3. row'[t].state = "running"
        BY <1>1, <2>2 DEF Rows
    <2>4. exec'[t] = [exec[t] EXCEPT !.phase = "running", !.deadline = now + Duration]
        BY <1>1, <1>11 DEF Start
    <2>5. exec'[t].phase = "running"
        BY <1>1, <2>4 DEF Executions
    <2>6. recordStage[t] = "pending" /\ recordStage'[t] = "running"
        BY <2>1, <2>3 DEF recordStage, Active
    <2>7. recordVerdict[t] = "none" /\ recordVerdict'[t] = "none"
        BY <2>1, <2>3 DEF recordVerdict, Active, Terminal
    <2>8. recordTold'[t] = recordTold[t]
        BY <2>1, <2>5 DEF recordTold
    <2>9. Record!Begin(t)
        BY <1>2, <1>6, <1>7, <1>9, <2>6, <2>7, <2>8 DEF Record!Begin
    <2> QED BY <2>9 DEF Record!Next
<1>12. CASE FinishWrite(p, t)
    <2> DEFINE v == exec[t].verdict
    <2>1. row[t].state = "running" /\ exec[t].phase = "checked" /\ v \in Terminal
        BY <1>1, <1>12 DEF FinishWrite, FinishTask, MayFinish, Continue, Executions
    <2>2. row'[t].state = v
        BY <1>1, <1>12 DEF FinishWrite, FinishTask, Closed
    <2>3. exec'[t].phase = "retaining"
        BY <1>1, <1>12 DEF FinishWrite, Executions
    <2>4. recordStage[t] = "running" /\ recordStage'[t] = "settled"
        BY <2>1, <2>2 DEF recordStage, Active, Terminal
    <2>5. recordVerdict'[t] = v
        BY <2>1, <2>2 DEF recordVerdict
    <2>6. recordTold'[t] = recordTold[t]
        BY <2>1, <2>3 DEF recordTold
    <2>7. acked[t] => v # "completed"
        BY <2>1 DEF CancelInv, Sync
    <2>8. Record!Settle(t, v)
        BY <1>2, <1>6, <1>7, <1>8, <2>4, <2>5, <2>6, <2>7 DEF Record!Settle
    <2>9. v \in Record!Verdicts
        BY <2>1 DEF Terminal, Record!Verdicts
    <2> QED BY <2>8, <2>9 DEF Record!Next
<1> QED BY <1>10, <1>11, <1>12

\* A recovery gives up on a task for its owner.
LEMMA RecoveryIsRecordStep ==
    ASSUME TypeOK, RecordInv, [Next]_vars, NEW p \in Procs, RecoverOne(p),
           NEW s \in scan[p], RecoverTask(s)
    PROVE  Record!Next
<1> DEFINE t == s.task
<1>1. t \in Tasks /\ s \in Snapshots /\ row \in [Tasks -> Rows]
    BY DEF TypeOK, StoreTypeOK, Snapshots
<1>2. acked' = acked /\ exec' = exec
    BY DEF RecoverOne
<1>3. row[t].state \in Active
    BY <1>1 DEF RecoverTask, Unchanged, Snapshot, Snapshots
<1>4. row' = [row EXCEPT ![t] = Closed("failed", s.at)]
    BY DEF RecoverTask
<1>5. row'[t].state = "failed" /\ \A u \in Tasks : u # t => row'[u] = row[u]
    BY <1>1, <1>4 DEF Closed
<1>6. \A u \in Tasks : Used(u)' <=> Used(u)
    BY <1>2 DEF Used
<1>7. recordStage[t] = row[t].state /\ recordStage'[t] = "settled" /\ recordVerdict'[t] = "failed"
    BY <1>1, <1>3, <1>5 DEF recordStage, recordVerdict, Active, Terminal
<1>8. ASSUME NEW u \in Tasks, u # t
      PROVE  recordStage'[u] = recordStage[u] /\ recordVerdict'[u] = recordVerdict[u]
    BY <1>2, <1>5, <1>6, <1>8 DEF recordStage, recordVerdict
<1>9. recordTold' = recordTold
    BY <1>2 DEF recordTold
<1>10. /\ recordStage = [u \in Tasks |-> recordStage[u]]
       /\ recordStage' = [u \in Tasks |-> recordStage'[u]]
       /\ recordVerdict = [u \in Tasks |-> recordVerdict[u]]
       /\ recordVerdict' = [u \in Tasks |-> recordVerdict'[u]]
    BY DEF recordStage, recordVerdict
<1>11. recordStage' = [recordStage EXCEPT ![t] = "settled"]
       /\ recordVerdict' = [recordVerdict EXCEPT ![t] = "failed"]
    BY <1>1, <1>7, <1>8, <1>10
<1>12. Record!GiveUp(t)
    BY <1>2, <1>3, <1>7, <1>9, <1>11 DEF Record!GiveUp, Active
<1> QED BY <1>1, <1>12 DEF Record!Next

\* The end of cancel()'s append is the promise.
LEMMA AckIsRecordStep ==
    ASSUME TypeOK, CancelInv, RecordInv, NEW p \in Procs, AppendSucceeds(p),
           append[p].type = "cancelling"
    PROVE  Record!Next
<1> DEFINE t == append[p].task
<1>1. append[p] # NoAppend /\ t \in Tasks
    BY DEF AppendSucceeds, TypeOK, Appends
<1>2. row' = row /\ exec' = exec /\ acked' = [acked EXCEPT ![t] = TRUE]
    BY DEF AppendSucceeds, InsertEvent
<1>3. recordStage' = recordStage /\ recordVerdict' = recordVerdict /\ recordTold' = recordTold
    BY <1>2 DEF recordStage, recordVerdict, recordTold, Used
<1>4. exec[t].phase \in {"scheduled", "running"}
    BY <1>1 DEF CancelInv
<1>5. exec[t].phase \notin Recorded /\ Used(t)
    BY <1>4 DEF Recorded, Used
<1>6. recordStage[t] # "absent"
    BY <1>1, <1>5 DEF recordStage, Active
<1>7. recordVerdict[t] # "completed"
    <2>1. row[t].state # "completed"
        BY <1>1, <1>5 DEF CancelInv
    <2> QED BY <1>1, <1>5, <2>1 DEF recordVerdict
<1>8. Record!Promise(t)
    BY <1>2, <1>3, <1>6, <1>7 DEF Record!Promise
<1> QED BY <1>1, <1>8 DEF Record!Next

\* wait() hands out the verdict of a record that is settled, or was.
LEMMA ReturnIsRecordStep ==
    ASSUME TypeOK, ResultIsDurable, RecordInv, [Next]_vars,
           NEW p \in Procs, NEW t \in Tasks, Return(p, t)
    PROVE  Record!Next
<1>1. /\ exec[t].phase = "retaining" /\ acked' = acked
      /\ exec' = [exec EXCEPT ![t] = Over(t, "returned")]
      /\ Prune(now) \/ UNCHANGED row
    BY DEF Return, Continue, storeVars
<1>2. \A u \in Tasks : row'[u] = row[u] \/ u \in Deleted
    BY <1>1 DEF Prune, Pruned, Aged, Excess, Recent, Deleted
<1>3. exec'[t].phase = "returned" /\ \A u \in Tasks : u # t => exec'[u] = exec[u]
    BY <1>1 DEF TypeOK, Over, Recorded, NotSubmitted
<1>4. \A u \in Tasks, q \in Procs : ~Submit(q, u) /\ ~FinishWrite(q, u)
    <2> SUFFICES ASSUME NEW u \in Tasks, NEW q \in Procs, Submit(q, u) \/ FinishWrite(q, u)
                 PROVE  FALSE
        OBVIOUS
    <2>1. exec'[u].phase \in {"scheduled", "retaining"} /\ exec[u].phase \in {"none", "checked"}
        <3>1. exec \in [Tasks -> Executions]
            BY DEF TypeOK
        <3>2. CASE Submit(q, u)
            <4>1. exec'[u] = [exec[u] EXCEPT !.phase = "scheduled", !.proc = q, !.deadline = now]
                BY <3>1, <3>2 DEF Submit
            <4> QED BY <3>1, <3>2, <4>1 DEF Submit, Executions
        <3>3. CASE FinishWrite(q, u)
            <4>1. exec'[u] = [exec[u] EXCEPT !.phase = "retaining"]
                BY <3>1, <3>3 DEF FinishWrite
            <4> QED BY <3>1, <3>3, <4>1 DEF FinishWrite, Continue, Executions
        <3> QED BY <3>2, <3>3
    <2>2. u # t
        BY <1>1, <2>1
    <2>3. exec'[u] = exec[u]
        BY <1>3, <2>2
    <2> QED BY <2>1, <2>3
<1>5. Record!Forgetting(Deleted) /\ recordVerdict' = recordVerdict
    BY <1>2, <1>4, DeletingForgets
<1>6. recordTold' = [recordTold EXCEPT ![t] = TRUE]
    BY <1>3 DEF recordTold
<1>7. recordStage[t] \in {"settled", "forgotten"}
    <2>1. Used(t) /\ exec[t].phase \in Recorded
        BY <1>1 DEF Used, Recorded
    <2>2. exec[t].verdict \in Terminal
        BY DEF TypeOK, Executions
    <2>3. row[t].state \notin Active
        <3>1. row[t] = Absent \/ row[t] = Closed(exec[t].verdict, exec[t].ended)
            BY <2>1 DEF ResultIsDurable
        <3> QED BY <2>2, <3>1 DEF Absent, Closed, Active, Terminal
    <2> QED BY <2>1, <2>3 DEF recordStage
<1>8. Record!Tell(t, Deleted)
    BY <1>1, <1>5, <1>6, <1>7 DEF Record!Tell
<1>9. Deleted \in SUBSET Tasks
    BY DEF Deleted
<1> QED BY <1>8, <1>9 DEF Record!Next

\* Every other step of the service changes no record but by retention.
LEMMA OtherStepForgets ==
    ASSUME TypeOK, ResultIsDurable, RecordInv, [Next]_vars, acked' = acked,
           UNCHANGED row \/ Prune(now),
           \A t \in Tasks, p \in Procs : ~Submit(p, t) /\ ~FinishWrite(p, t) /\ ~Return(p, t)
    PROVE  Record!Next
<1>1. \A u \in Tasks : row'[u] = row[u] \/ u \in Deleted
    BY DEF Prune, Pruned, Aged, Excess, Recent, Deleted
<1>2. Record!Forgetting(Deleted) /\ recordVerdict' = recordVerdict
    BY <1>1, DeletingForgets
<1>3. recordTold' = recordTold
    BY TellingNobody
<1>4. Record!Forget(Deleted)
    BY <1>2, <1>3 DEF Record!Forget
<1>5. Deleted \in SUBSET Tasks
    BY DEF Deleted
<1> QED BY <1>4, <1>5 DEF Record!Next

\* Each step of the service is one of the record, or none.
LEMMA StepIsRecordStep ==
    ASSUME TypeOK, ResultIsDurable, CancelInv, RecordInv, [Next]_vars
    PROVE  Record!Next
<1>1. CASE \E p \in Procs, t \in Tasks : Submit(p, t) \/ Start(p, t) \/ FinishWrite(p, t)
    BY <1>1, RowStepIsRecordStep
<1>2. CASE \E p \in Procs, t \in Tasks : Return(p, t)
    BY <1>2, ReturnIsRecordStep
<1>3. CASE \E p \in Procs : RecoverOne(p) /\ \E s \in scan[p] : RecoverTask(s)
    BY <1>3, RecoveryIsRecordStep
<1>4. CASE \E p \in Procs : AppendSucceeds(p) /\ append[p].type = "cancelling"
    BY <1>4, AckIsRecordStep
<1>5. ASSUME \A p \in Procs, t \in Tasks :
                ~Submit(p, t) /\ ~Start(p, t) /\ ~FinishWrite(p, t) /\ ~Return(p, t),
             \A p \in Procs : ~(RecoverOne(p) /\ \E s \in scan[p] : RecoverTask(s)),
             \A p \in Procs : ~(AppendSucceeds(p) /\ append[p].type = "cancelling")
      PROVE  acked' = acked /\ (UNCHANGED row \/ Prune(now))
    <2>1. CASE Tick \/ UNCHANGED vars
        BY <2>1 DEF Tick, vars
    <2>2. ASSUME NEW p \in Procs, Host(p) PROVE acked' = acked /\ (UNCHANGED row \/ Prune(now))
        BY <1>5, <2>2 DEF Host, Open, ScanOrphans, RecoverOne, RecoveryFails, Exit, Crash,
                          ReadHistory, AppendSucceeds, AppendFails, InsertEvent, storeVars
    <2>3. ASSUME NEW p \in Procs, NEW t \in Tasks, Execute(p, t) \/ Cancel(p, t)
          PROVE  acked' = acked /\ UNCHANGED row
        BY <1>5, <2>3 DEF Execute, Cancel, StartFails, Observe, RunnerReturns, RunnerCancelled,
                          RunnerTimesOut, RunnerRaises, RecordTerminal, BuildResult, FinishRead,
                          FinishFails
    <2> QED BY <1>5, <2>1, <2>2, <2>3 DEF Next
<1>6. CASE /\ \A p \in Procs, t \in Tasks :
                 ~Submit(p, t) /\ ~Start(p, t) /\ ~FinishWrite(p, t) /\ ~Return(p, t)
           /\ \A p \in Procs : ~(RecoverOne(p) /\ \E s \in scan[p] : RecoverTask(s))
           /\ \A p \in Procs : ~(AppendSucceeds(p) /\ append[p].type = "cancelling")
    BY <1>5, <1>6, OtherStepForgets
<1> QED BY <1>1, <1>2, <1>3, <1>4, <1>6

\* The first state of the service is one of the record.
LEMMA InitIsRecordInit == Init => Record!Init
<1> SUFFICES ASSUME Init PROVE Record!Init
    OBVIOUS
<1>1. \A t \in Tasks : row[t] \in Migrated \cup {Absent} /\ (t \in Legacy <=> row[t] # Absent)
    BY DEF Init, StoreInit
<1>2. \A t \in Tasks : exec[t].phase = "none" /\ acked[t] = FALSE
    BY DEF Init, NotSubmitted
<1>3. \A t \in Tasks : IF t \in Legacy THEN row[t].state \in Active ELSE row[t].state = "absent"
    BY <1>1 DEF Migrated, Absent
<1>4. \A t \in Tasks : /\ recordStage[t] \in {"absent", "pending", "running"}
                       /\ recordStage[t] = "absent" <=> t \notin Legacy
    BY <1>2, <1>3 DEF recordStage, Active, Terminal, Used
<1>5. recordStage \in [Tasks -> {"absent", "pending", "running"}]
    BY <1>4 DEF recordStage
<1>6. recordVerdict = [t \in Tasks |-> "none"]
    BY <1>2, <1>3 DEF recordVerdict, Active, Terminal, Used
<1>7. recordTold = [t \in Tasks |-> FALSE]
    BY <1>2 DEF recordTold
<1>8. acked = [t \in Tasks |-> FALSE]
    BY DEF Init
<1> QED BY <1>4, <1>5, <1>6, <1>7, <1>8 DEF Record!Init

\* Every behaviour of the service, with its crashes, its recoveries and its failing
\* writes, is one that the record of a task allows (TaskRecord).
THEOREM RecordCorrect == Spec => ImplementsRecord
<1>1. Spec => [](TypeOK /\ ResultIsDurable /\ CancelInv)
    BY TypeCorrect, DurableCorrect, CancelInvCorrect, PTL
<1>2. TypeOK /\ RecordInv /\ [Next]_vars => RecordInv'
    BY RecordInvStep
<1>3. (TypeOK /\ ResultIsDurable /\ CancelInv) /\ RecordInv /\ [Next]_vars
          => [Record!Next]_(Record!recordVars)
    BY StepIsRecordStep
<1> QED BY <1>1, <1>2, <1>3, RecordInvInit, InitIsRecordInit, PTL
        DEF Spec, ImplementsRecord, Record!Spec

-----------------------------------------------------------------------------
(* The log of a task.                                                      *)

\* Who is in the middle of an append_event: a process, for an execution of its own that
\* has not built its result.
AppendInv ==
    \A p \in Procs : append[p] # NoAppend =>
       LET e == exec[append[p].task]
       IN  e.proc = p /\ e.phase \in {"scheduled", "running", "settling"}

\* How the execution of an append on its way can go on.
LEMMA AppendHolds ==
    ASSUME TypeOK, AppendInv, [Next]_vars, NEW p \in Procs,
           append'[p] # NoAppend, append'[p] = append[p]
    PROVE  LET e == exec'[append'[p].task]
           IN  e.proc = p /\ e.phase \in {"scheduled", "running", "settling"}
<1> DEFINE t == append[p].task
<1>1. t \in Tasks /\ exec[t] \in Executions /\ append \in [Procs -> Appends \cup {NoAppend}]
    BY DEF TypeOK, Appends
<1>2. exec[t].proc = p /\ exec[t].phase \in {"scheduled", "running", "settling"}
    BY DEF AppendInv
<1>3. CASE exec'[t] = exec[t]
    BY <1>2, <1>3
<1>4. CASE Tick \/ UNCHANGED vars
    BY <1>3, <1>4 DEF Tick, vars
<1>5. ASSUME NEW q \in Procs, Host(q)
      PROVE  exec'[t].proc = exec[t].proc /\ exec'[t].phase = exec[t].phase
    <2>1. CASE Crash(q)
        <3>1. q # p
            BY <1>1, <2>1 DEF Crash
        <3> QED BY <1>1, <1>2, <2>1, <3>1 DEF Crash, Owns
    <2>2. CASE AppendSucceeds(q)
        <3>1. exec' = exec \/ exec' = [exec EXCEPT ![append[q].task].observed = TRUE]
            BY <2>2 DEF AppendSucceeds
        <3> QED BY <1>1, <3>1 DEF TypeOK, Executions
    <2>3. CASE ~(Crash(q) \/ AppendSucceeds(q))
        BY <1>5, <2>3 DEF Host, Open, ScanOrphans, RecoverOne, RecoveryFails, Exit, ReadHistory,
                          AppendFails
    <2> QED BY <2>1, <2>2, <2>3
<1>6. ASSUME NEW q \in Procs, NEW u \in Tasks, Execute(q, u) \/ Cancel(q, u) \/ Submit(q, u)
      PROVE  exec'[t] = exec[t]
    <2>1. append[q] = NoAppend /\ (exec[u].proc = q \/ exec[u].phase = "none")
        BY <1>6 DEF Execute, Start, StartFails, Observe, RunnerReturns, RunnerCancelled,
                    RunnerTimesOut, RunnerRaises, RecordTerminal, BuildResult, FinishRead,
                    FinishWrite, FinishFails, Return, Cancel, Submit, Turn, Continue, Busy, Owns
    <2>2. u # t
        BY <1>2, <2>1
    <2>3. \A x \in Tasks : x # u => exec'[x] = exec[x]
        BY <1>6 DEF Execute, Start, StartFails, Observe, RunnerReturns, RunnerCancelled,
                    RunnerTimesOut, RunnerRaises, RecordTerminal, BuildResult, FinishRead,
                    FinishWrite, FinishFails, Return, Ends, Cancel, Submit, TypeOK
    <2> QED BY <1>1, <2>2, <2>3
<1> QED BY <1>2, <1>3, <1>4, <1>5, <1>6 DEF Next

\* The steps that begin an append, and what they spend of the budget.
Begins(p, t) ==
    /\ append[p] = NoAppend /\ exec[t].proc = p
    /\ append' = [append EXCEPT ![p] = append'[p]] /\ append'[p].task = t
    /\ exec'[t].proc = p /\ exec'[t].phase \in {"scheduled", "running", "settling"}
    /\ exec[t].phase = exec'[t].phase
    /\ row' = row /\ events' = events
    /\ \A u \in Tasks : u # t => exec'[u] = exec[u]
    /\ \/ exec'[t].count = exec[t].count + 1 /\ exec'[t].token = exec[t].token
       \/ exec'[t].count = exec[t].count /\ ~exec[t].token /\ exec'[t].token

\* An append that starts is of its task.
LEMMA StartAppendBegins ==
    ASSUME TypeOK, NEW p \in Procs, NEW t \in Tasks, NEW type, StartAppend(p, t, type)
    PROVE  append' = [append EXCEPT ![p] = append'[p]] /\ append'[p].task = t
<1>1. append \in [Procs -> Appends \cup {NoAppend}]
    BY DEF TypeOK
<1> QED BY <1>1 DEF StartAppend

\* Who is in the middle of an append that was not there before has just begun it.
LEMMA AppendBegins ==
    ASSUME TypeOK, [Next]_vars, NEW p \in Procs, append'[p] # append[p], append'[p] # NoAppend
    PROVE  \E t \in Tasks : Begins(p, t)
<1>1. append \in [Procs -> Appends \cup {NoAppend}] /\ exec \in [Tasks -> Executions]
    BY DEF TypeOK
<1>2. CASE Tick \/ UNCHANGED vars
    BY <1>2 DEF Tick, vars
<1>3. ASSUME NEW q \in Procs, Host(q) PROVE append'[p] = append[p] \/ append'[p] = NoAppend
    BY <1>1, <1>3 DEF Host, Open, ScanOrphans, RecoverOne, RecoveryFails, Exit, Crash,
                      ReadHistory, AppendSucceeds, AppendFails
<1>4. ASSUME NEW q \in Procs, NEW t \in Tasks, Execute(q, t) PROVE Begins(p, t)
    <2>1. Observe(q, t) \/ RecordTerminal(q, t)
        BY <1>4 DEF Execute, Start, StartFails, RunnerReturns, RunnerCancelled,
                    RunnerTimesOut, RunnerRaises, BuildResult, FinishRead, FinishWrite,
                    FinishFails, Return
    <2>2. StartAppend(q, t, "observation")
        BY <2>1 DEF Observe, RecordTerminal
    <2>3. q = p
        BY <1>1, <2>2 DEF StartAppend
    <2>4. append' = [append EXCEPT ![p] = append'[p]] /\ append'[p].task = t
        BY <2>2, <2>3, StartAppendBegins
    <2>5. append[p] = NoAppend /\ exec[t].proc = p /\ row' = row /\ events' = events
          /\ exec[t].phase \in {"running", "settling"}
        BY <2>1, <2>3 DEF Observe, RecordTerminal, Turn, Continue, Busy, Owns
    <2>6. \/ exec' = [exec EXCEPT ![t] = [exec[t] EXCEPT !.count = @ + 1]]
          \/ exec' = [exec EXCEPT ![t] = [exec[t] EXCEPT !.todo = @ - 1, !.count = @ + 1]]
        BY <1>1, <2>1, <2>2, <2>3 DEF Observe, RecordTerminal, StartAppend
    <2>7. /\ exec'[t].proc = exec[t].proc /\ exec'[t].phase = exec[t].phase
          /\ exec'[t].count = exec[t].count + 1 /\ exec'[t].token = exec[t].token
          /\ \A u \in Tasks : u # t => exec'[u] = exec[u]
        BY <1>1, <2>6 DEF Executions
    <2> QED BY <2>4, <2>5, <2>7 DEF Begins
<1>5. ASSUME NEW q \in Procs, NEW t \in Tasks, Submit(q, t) PROVE FALSE
    BY <1>5 DEF Submit
<1>6. ASSUME NEW q \in Procs, NEW t \in Tasks, Cancel(q, t) PROVE Begins(p, t)
    <2>1. q = p
        BY <1>1, <1>6 DEF Cancel, StartAppend
    <2>2. append' = [append EXCEPT ![p] = append'[p]] /\ append'[p].task = t
        BY <1>6, <2>1, StartAppendBegins DEF Cancel
    <2>3. append[p] = NoAppend /\ exec[t].proc = p /\ row' = row /\ events' = events
          /\ exec[t].phase \in {"scheduled", "running"} /\ ~exec[t].token
        BY <1>6, <2>1 DEF Cancel, Turn, Busy, Owns
    <2>4. exec' = [exec EXCEPT ![t] = [exec[t] EXCEPT !.token = TRUE]]
        BY <1>6 DEF Cancel
    <2>5. /\ exec'[t].proc = exec[t].proc /\ exec'[t].phase = exec[t].phase
          /\ exec'[t].count = exec[t].count /\ exec'[t].token
          /\ \A u \in Tasks : u # t => exec'[u] = exec[u]
        BY <1>1, <2>4 DEF Executions
    <2> QED BY <2>2, <2>3, <2>5 DEF Begins
<1> QED BY <1>2, <1>3, <1>4, <1>5, <1>6 DEF Next

\* Every step keeps the appends within their tasks.
LEMMA AppendInvStep ==
    ASSUME TypeOK, AppendInv, [Next]_vars
    PROVE  AppendInv'
<1> SUFFICES ASSUME NEW p \in Procs, append'[p] # NoAppend
             PROVE  LET e == exec'[append'[p].task]
                    IN  e.proc = p /\ e.phase \in {"scheduled", "running", "settling"}
    BY DEF AppendInv
<1>1. CASE append'[p] = append[p]
    BY <1>1, AppendHolds
<1>2. CASE append'[p] # append[p]
    BY <1>2, AppendBegins DEF Begins
<1> QED BY <1>1, <1>2

\* It holds in every reachable state.
LEMMA AppendInvCorrect == Spec => []AppendInv
<1>1. Init => AppendInv
    BY DEF Init, AppendInv
<1> QED BY <1>1, AppendInvStep, TypeCorrect, PTL DEF Spec

\* How the row and the log of one task change together.
Grows(t, from, to, type) ==
    /\ row[t].state = from /\ row'[t].state = to
    /\ events'[t] = Append(events[t], type)

LogCourse(t) ==
    \/ row'[t].state = row[t].state /\ events'[t] = events[t]
    \/ row[t].state \in Terminal /\ row'[t].state = "absent" /\ events'[t] = << >>
    \/ /\ exec[t].phase = "none" /\ exec'[t].phase = "scheduled"
       /\ Grows(t, "absent", "pending", "accepted")
    \/ exec'[t].phase = "running" /\ Grows(t, "pending", "running", "running")
    \/ exec[t].phase = "checked" /\ Grows(t, "running", exec[t].verdict, "terminal")
    \/ row[t].state \in Active /\ exec' = exec /\ Grows(t, row[t].state, "failed", "recovered")
    \/ \E p \in Procs :
          /\ append[p] # NoAppend /\ append[p].task = t
          /\ append' = [append EXCEPT ![p] = NoAppend]
          /\ row[t].state # "absent"
          /\ Grows(t, row[t].state, row[t].state, append[p].type)

\* The log and the row of a task move together.
LEMMA NextLogCourse ==
    ASSUME TypeOK, [Next]_vars, NEW t \in Tasks
    PROVE  LogCourse(t)
<1>1. row \in [Tasks -> Rows] /\ events \in [Tasks -> Seq(EventTypes)]
      /\ exec \in [Tasks -> Executions] /\ append \in [Procs -> Appends \cup {NoAppend}]
    BY DEF TypeOK, StoreTypeOK
<1>2. CASE UNCHANGED <<row, events>>
    BY <1>2 DEF LogCourse
<1>3. CASE Prune(now)
    <2>1. t \in Pruned(now) => row[t].state \in Terminal
        BY DEF Pruned, Aged, Excess, Recent
    <2> QED BY <1>3, <2>1 DEF Prune, Absent, LogCourse
<1>4. ASSUME NEW p \in Procs, NEW s \in scan[p], RecoverTask(s), exec' = exec PROVE LogCourse(t)
    <2>1. s \in Snapshots /\ s.task \in Tasks
        BY DEF TypeOK, Snapshots
    <2>2. row[s.task].state \in Active
        BY <1>4, <2>1 DEF RecoverTask, Unchanged, Snapshot, Snapshots
    <2>3. CASE s.task = t
        <3>1. row'[t] = Closed("failed", s.at) /\ events'[t] = Append(events[t], "recovered")
            BY <1>1, <1>4, <2>3 DEF RecoverTask
        <3> QED BY <1>4, <2>2, <2>3, <3>1 DEF Closed, LogCourse, Grows
    <2>4. CASE s.task # t
        BY <1>1, <1>4, <2>1, <2>4 DEF RecoverTask, LogCourse
    <2> QED BY <2>3, <2>4
<1>5. ASSUME NEW p \in Procs, AppendSucceeds(p) PROVE LogCourse(t)
    <2> DEFINE u == append[p].task
    <2>1. append[p] # NoAppend /\ u \in Tasks /\ row' = row /\ row[u].state # "absent"
          /\ events' = [events EXCEPT ![u] = Append(@, append[p].type)]
          /\ append' = [append EXCEPT ![p] = NoAppend]
        BY <1>1, <1>5 DEF AppendSucceeds, InsertEvent, MayInsert, Appends
    <2>2. CASE u = t
        BY <1>1, <2>1, <2>2 DEF LogCourse, Grows
    <2>3. CASE u # t
        BY <1>1, <2>1, <2>3 DEF LogCourse
    <2> QED BY <2>2, <2>3
<1>6. ASSUME NEW p \in Procs, NEW u \in Tasks, Submit(p, u) PROVE LogCourse(t)
    <2>1. CASE u # t
        BY <1>1, <1>6, <2>1 DEF Submit, CreateTask, LogCourse
    <2>2. CASE u = t
        <3>1. exec'[t] = [exec[t] EXCEPT !.phase = "scheduled", !.proc = p, !.deadline = now]
            BY <1>1, <1>6, <2>2 DEF Submit
        <3>2. exec'[t].phase = "scheduled" /\ exec[t].phase = "none"
            BY <1>1, <1>6, <2>2, <3>1 DEF Submit, Executions
        <3>3. Grows(t, "absent", "pending", "accepted")
            BY <1>1, <1>6, <2>2 DEF Submit, CreateTask, Grows
        <3> QED BY <3>2, <3>3 DEF LogCourse
    <2> QED BY <2>1, <2>2
<1>7. ASSUME NEW p \in Procs, NEW u \in Tasks, Start(p, u) PROVE LogCourse(t)
    <2>1. CASE u # t
        BY <1>1, <1>7, <2>1 DEF Start, MarkRunning, LogCourse
    <2>2. CASE u = t
        <3>1. exec'[t] = [exec[t] EXCEPT !.phase = "running", !.deadline = now + Duration]
            BY <1>1, <1>7, <2>2 DEF Start
        <3>2. row'[t] = [row[t] EXCEPT !.state = "running", !.lease = Lease, !.updated = now]
            BY <1>1, <1>7, <2>2 DEF Start, MarkRunning
        <3>3. exec'[t].phase = "running" /\ row'[t].state = "running"
            BY <1>1, <3>1, <3>2 DEF Executions, Rows
        <3>4. row[t].state = "pending" /\ events'[t] = Append(events[t], "running")
            BY <1>1, <1>7, <2>2 DEF Start, MarkRunning, MayStart
        <3> QED BY <3>3, <3>4 DEF LogCourse, Grows
    <2> QED BY <2>1, <2>2
<1>8. ASSUME NEW p \in Procs, NEW u \in Tasks, FinishWrite(p, u) PROVE LogCourse(t)
    <2>1. CASE u # t
        BY <1>1, <1>8, <2>1 DEF FinishWrite, FinishTask, LogCourse
    <2>2. CASE u = t
        <3>1. exec[t].phase = "checked" /\ row[t].state = "running"
            BY <1>8, <2>2 DEF FinishWrite, Continue, FinishTask, MayFinish
        <3>2. row'[t].state = exec[t].verdict /\ events'[t] = Append(events[t], "terminal")
            BY <1>1, <1>8, <2>2 DEF FinishWrite, FinishTask, Closed
        <3> QED BY <3>1, <3>2 DEF LogCourse, Grows
    <2> QED BY <2>1, <2>2
<1>9. CASE Tick \/ UNCHANGED vars
    BY <1>2, <1>9 DEF Tick, vars
<1>10. ASSUME NEW p \in Procs, Host(p) PROVE LogCourse(t)
    BY <1>2, <1>3, <1>4, <1>5, <1>10 DEF Host, Open, ScanOrphans, RecoverOne, RecoveryFails, Exit,
       Crash, ReadHistory, AppendFails, storeVars
<1>11. ASSUME NEW p \in Procs, NEW u \in Tasks, Execute(p, u) \/ Cancel(p, u) PROVE LogCourse(t)
    BY <1>2, <1>3, <1>7, <1>8, <1>11 DEF Execute, StartFails, Observe, RunnerReturns,
       RunnerCancelled, RunnerTimesOut, RunnerRaises, RecordTerminal, BuildResult, FinishRead,
       FinishFails, Return, Cancel, storeVars
<1> QED BY <1>6, <1>9, <1>10, <1>11 DEF Next

\* What LogMatchesRow says of one log and the state of its row.
Has(log, types) == \E i \in DOMAIN log : log[i] \in types

Tells(log, state) ==
    /\ state = "absent" <=> log = << >>
    /\ state \in Terminal <=> Has(log, Closing)
    /\ \A i, j \in DOMAIN log : log[i] \in Closing /\ log[j] \in Closing => i = j
    /\ \A i, j \in DOMAIN log : log[i] = "running" /\ log[j] = "running" => i = j
    /\ state = "running" => Has(log, {"running"})
    /\ state = "pending" => ~Has(log, {"running"})
    /\ Has(log, {"terminal"}) => Has(log, {"running"})
    /\ state = "completed" => Has(log, {"terminal"}) /\ Has(log, {"observation"})

\* LogMatchesRow, task by task.
LEMMA LogIsTold == LogMatchesRow <=> \A t \in Tasks : Tells(events[t], row[t].state)
BY DEF LogMatchesRow, Tells, Has

\* A longer log has what the shorter one has, and its last event.
LEMMA AppendHas ==
    ASSUME NEW log \in Seq(EventTypes), NEW e \in EventTypes, NEW types
    PROVE  /\ Has(Append(log, e), types) <=> Has(log, types) \/ e \in types
           /\ Append(log, e) # << >>
<1>1. /\ DOMAIN Append(log, e) = 1..(Len(log) + 1) /\ DOMAIN log = 1..Len(log) /\ Len(log) \in Nat
      /\ Append(log, e)[Len(log) + 1] = e
      /\ \A i \in 1..Len(log) : Append(log, e)[i] = log[i]
    OBVIOUS
<1>2. Append(log, e) # << >>
    <2>1. Len(log) + 1 \in DOMAIN Append(log, e)
        BY <1>1
    <2>2. DOMAIN << >> = {}
        OBVIOUS
    <2> QED BY <2>1, <2>2
<1>3. ASSUME Has(log, types) PROVE Has(Append(log, e), types)
    BY <1>1, <1>3 DEF Has
<1>4. ASSUME e \in types PROVE Has(Append(log, e), types)
    <2>1. Len(log) + 1 \in DOMAIN Append(log, e)
        BY <1>1
    <2> QED BY <1>1, <1>4, <2>1 DEF Has
<1>5. ASSUME Has(Append(log, e), types), e \notin types PROVE Has(log, types)
    BY <1>1, <1>5 DEF Has
<1> QED BY <1>2, <1>3, <1>4, <1>5

\* What occurs once in it still does if the last event is no second one.
LEMMA AppendOnce ==
    ASSUME NEW log \in Seq(EventTypes), NEW e \in EventTypes, NEW types,
           \A i, j \in DOMAIN log : log[i] \in types /\ log[j] \in types => i = j,
           Has(log, types) => e \notin types
    PROVE  LET longer == Append(log, e)
           IN  \A i, j \in DOMAIN longer : longer[i] \in types /\ longer[j] \in types => i = j
<1>1. /\ DOMAIN Append(log, e) = 1..(Len(log) + 1) /\ DOMAIN log = 1..Len(log) /\ Len(log) \in Nat
      /\ Append(log, e)[Len(log) + 1] = e
      /\ \A i \in 1..Len(log) : Append(log, e)[i] = log[i]
    OBVIOUS
<1> SUFFICES ASSUME NEW i \in DOMAIN Append(log, e), NEW j \in DOMAIN Append(log, e),
                    Append(log, e)[i] \in types, Append(log, e)[j] \in types
             PROVE  i = j
    OBVIOUS
<1>2. CASE i \in DOMAIN log /\ j \in DOMAIN log
    BY <1>1, <1>2
<1>3. CASE i \notin DOMAIN log /\ j \notin DOMAIN log
    BY <1>1, <1>3
<1>4. CASE e \in types
    BY <1>1, <1>4 DEF Has
<1> QED BY <1>1, <1>2, <1>3, <1>4

\* A running step's evidence, and a result called complete, are in the log as long as
\* there is one.
EvidenceInv ==
    \A t \in Tasks :
       /\ exec[t].phase \in {"none", "scheduled"} => ~exec[t].observed
       /\ exec[t].phase = "running" /\ exec[t].observed =>
             row[t].state = "absent" \/ Has(events[t], {"observation"})
       /\ exec[t].phase \in {"settling", "settled", "checked"} /\ exec[t].verdict = "completed" =>
             row[t].state = "absent" \/ Has(events[t], {"observation"})

\* How far an execution has come with its evidence.
EvidenceCourse(t) ==
    LET e == exec[t]
        f == exec'[t]
    IN  \/ f.phase = e.phase /\ f.observed = e.observed /\ f.verdict = e.verdict
        \/ /\ f.phase = e.phase /\ f.verdict = e.verdict /\ e.phase = "running"
           /\ row[t].state # "absent" /\ Grows(t, row[t].state, row[t].state, "observation")
        \/ e.phase \in {"none", "scheduled"} /\ f.phase \in {"scheduled", "running"} /\ ~f.observed
        \/ /\ e.phase \in {"scheduled", "running"} /\ f.phase = "settling"
           /\ f.verdict = "completed" => e.phase = "running" /\ e.observed
        \/ /\ e.phase \in {"settling", "settled", "checked"}
           /\ f.phase \in {"settling", "settled", "checked"} /\ f.verdict \in {e.verdict, "failed"}
        \/ f.phase \in {"retaining", "lost", "crashed", "unanswered", "returned"}

\* A runner ends completed only with evidence.
LEMMA EndsEvidence ==
    ASSUME TypeOK, NEW u \in Tasks, NEW v \in Terminal, NEW n, NEW b, Ends(u, v, n, b),
           exec[u].phase \in {"scheduled", "running"},
           v = "completed" => exec[u].phase = "running" /\ exec[u].observed,
           NEW t \in Tasks
    PROVE  EvidenceCourse(t)
<1>1. CASE t # u
    BY <1>1 DEF Ends, TypeOK, EvidenceCourse
<1>2. CASE t = u
    <2>1. exec'[t].phase = "settling" /\ exec'[t].verdict = v
        BY <1>2, EndsCourse
    <2> QED BY <1>2, <2>1 DEF EvidenceCourse
<1> QED BY <1>1, <1>2

\* How an execution comes by its evidence.
LEMMA ExecuteEvidence ==
    ASSUME TypeOK, EvidenceInv, NEW p \in Procs, NEW u \in Tasks, Execute(p, u), NEW t \in Tasks
    PROVE  EvidenceCourse(t)
<1>1. exec \in [Tasks -> Executions]
    BY DEF TypeOK
<1>2. CASE t # u
    <2>1. exec'[t] = exec[t]
        BY <1>1, <1>2 DEF Execute, Start, StartFails, Observe, RunnerReturns, RunnerCancelled,
           RunnerTimesOut, RunnerRaises, RecordTerminal, BuildResult, FinishRead, FinishWrite,
           FinishFails, Return, Ends
    <2> QED BY <2>1 DEF EvidenceCourse
<1>3. ASSUME t = u PROVE EvidenceCourse(t)
    <2>1. CASE Start(p, t)
        <3>1. exec'[t] = [exec[t] EXCEPT !.phase = "running", !.deadline = now + Duration]
              /\ exec[t].phase = "scheduled"
            BY <1>1, <2>1 DEF Start, Turn
        <3>2. exec'[t].phase = "running" /\ exec'[t].observed = exec[t].observed
            BY <1>1, <3>1 DEF Executions
        <3> QED BY <3>1, <3>2 DEF EvidenceInv, EvidenceCourse
    <2>2. CASE \/ StartFails(p, t) \/ RunnerCancelled(p, t)
               \/ RunnerTimesOut(p, t) \/ RunnerRaises(p, t)
        <3>1. exec[t].phase \in {"scheduled", "running"}
            BY <2>2 DEF StartFails, RunnerCancelled, RunnerTimesOut, RunnerRaises, Turn
        <3>2. \/ \E n, b : Ends(t, "failed", n, b)
              \/ \E n, b : Ends(t, "cancelled", n, b)
            BY <2>2 DEF StartFails, RunnerCancelled, RunnerTimesOut, RunnerRaises
        <3>3. {"failed", "cancelled"} \subseteq Terminal
            BY DEF Terminal
        <3> QED BY <3>1, <3>2, <3>3, EndsEvidence
    <2>3. CASE RunnerReturns(p, t)
        <3>1. exec[t].phase = "running" /\ exec[t].observed
            BY <2>3 DEF RunnerReturns, Turn
        <3>2. Ends(t, "cancelled", 1, TRUE) \/ Ends(t, "completed", 0, FALSE)
            BY <2>3 DEF RunnerReturns
        <3>3. {"completed", "cancelled"} \subseteq Terminal
            BY DEF Terminal
        <3> QED BY <3>1, <3>2, <3>3, EndsEvidence
    <2>4. CASE Observe(p, t)
        BY <1>1, <2>4 DEF Observe, Executions, EvidenceCourse
    <2>5. CASE RecordTerminal(p, t)
        BY <1>1, <2>5 DEF RecordTerminal, Executions, EvidenceCourse
    <2>6. CASE BuildResult(p, t)
        BY <1>1, <2>6 DEF BuildResult, Continue, Executions, EvidenceCourse
    <2>7. CASE FinishRead(p, t)
        BY <1>1, <2>7 DEF FinishRead, Continue, Executions, EvidenceCourse
    <2>8. CASE FinishWrite(p, t)
        <3>1. exec'[t].phase = "retaining"
            BY <1>1, <2>8 DEF FinishWrite, Executions
        <3> QED BY <3>1 DEF EvidenceCourse
    <2>9. CASE FinishFails(p, t)
        <3>1. exec[t].phase \in {"settled", "checked"}
            BY <2>9 DEF FinishFails, Continue
        <3>2. \/ exec'[t].phase = "settled" /\ exec'[t].verdict = "failed"
              \/ exec'[t].phase = "lost"
            BY <1>1, <2>9 DEF FinishFails, Over, NotSubmitted, Recorded, Executions
        <3> QED BY <3>1, <3>2 DEF EvidenceCourse
    <2>10. CASE Return(p, t)
        <3>1. exec'[t].phase = "returned"
            BY <1>1, <2>10 DEF Return, Over, NotSubmitted, Recorded
        <3> QED BY <3>1 DEF EvidenceCourse
    <2> QED BY <1>3, <2>1, <2>2, <2>3, <2>4, <2>5, <2>6, <2>7, <2>8, <2>9, <2>10 DEF Execute
<1> QED BY <1>2, <1>3

\* An execution takes for observed only what it has appended.
LEMMA NextEvidence ==
    ASSUME TypeOK, EvidenceInv, [Next]_vars, NEW t \in Tasks
    PROVE  EvidenceCourse(t)
<1>1. exec \in [Tasks -> Executions] /\ events \in [Tasks -> Seq(EventTypes)]
    BY DEF TypeOK, StoreTypeOK
<1>2. CASE Tick \/ UNCHANGED vars
    BY <1>2 DEF Tick, vars, EvidenceCourse
<1>3. ASSUME NEW p \in Procs, Host(p) PROVE EvidenceCourse(t)
    <2>1. CASE Crash(p)
        <3>1. exec'[t] = exec[t] \/ exec'[t].phase \in {"crashed", "unanswered"}
            BY <1>1, <2>1 DEF Crash, Over, NotSubmitted, Recorded
        <3> QED BY <3>1 DEF EvidenceCourse
    <2>2. CASE AppendSucceeds(p)
        <3> DEFINE u == append[p].task
        <3>1. u \in Tasks /\ row' = row /\ row[u].state # "absent"
              /\ events' = [events EXCEPT ![u] = Append(@, append[p].type)]
            BY <2>2 DEF AppendSucceeds, InsertEvent, MayInsert, TypeOK, Appends
        <3>2. \/ exec' = exec
              \/ /\ exec' = [exec EXCEPT ![u].observed = TRUE]
                 /\ append[p].type = "observation" /\ exec[u].phase = "running"
            BY <2>2 DEF AppendSucceeds
        <3>3. CASE exec'[t] = exec[t]
            BY <3>3 DEF EvidenceCourse
        <3>4. CASE u = t /\ exec' = [exec EXCEPT ![u].observed = TRUE]
                   /\ append[p].type = "observation" /\ exec[u].phase = "running"
            <4>1. exec'[t].phase = exec[t].phase /\ exec'[t].verdict = exec[t].verdict
                BY <1>1, <3>4 DEF Executions
            <4>2. Grows(t, row[t].state, row[t].state, "observation")
                BY <1>1, <3>1, <3>4 DEF Grows
            <4> QED BY <3>1, <3>4, <4>1, <4>2 DEF EvidenceCourse
        <3> QED BY <1>1, <3>2, <3>3, <3>4
    <2>3. CASE ~(Crash(p) \/ AppendSucceeds(p))
        BY <1>3, <2>3 DEF Host, Open, ScanOrphans, RecoverOne, RecoveryFails, Exit, ReadHistory,
                          AppendFails, EvidenceCourse
    <2> QED BY <2>1, <2>2, <2>3
<1>4. ASSUME NEW p \in Procs, NEW u \in Tasks, Execute(p, u) PROVE EvidenceCourse(t)
    BY <1>4, ExecuteEvidence
<1>5. ASSUME NEW p \in Procs, NEW u \in Tasks, Submit(p, u) PROVE EvidenceCourse(t)
    <2>1. CASE u # t
        BY <1>1, <1>5, <2>1 DEF Submit, EvidenceCourse
    <2>2. CASE u = t
        <3>1. exec'[t] = [exec[t] EXCEPT !.phase = "scheduled", !.proc = p, !.deadline = now]
              /\ exec[t].phase = "none"
            BY <1>1, <1>5, <2>2 DEF Submit
        <3>2. exec'[t].phase = "scheduled" /\ exec'[t].observed = exec[t].observed
            BY <1>1, <3>1 DEF Executions
        <3> QED BY <3>1, <3>2 DEF EvidenceInv, EvidenceCourse
    <2> QED BY <2>1, <2>2
<1>6. ASSUME NEW p \in Procs, NEW u \in Tasks, Cancel(p, u) PROVE EvidenceCourse(t)
    <2>1. exec' = [exec EXCEPT ![u] = [exec[u] EXCEPT !.token = TRUE]]
        BY <1>6 DEF Cancel
    <2> QED BY <1>1, <2>1 DEF Executions, EvidenceCourse
<1> QED BY <1>2, <1>3, <1>4, <1>5, <1>6 DEF Next

\* The log keeps what it has, unless it is deleted with its row; and no row comes back.
LEMMA EvidenceStays ==
    ASSUME TypeOK, [Next]_vars, NEW t \in Tasks, exec[t].phase # "none",
           row[t].state = "absent" \/ Has(events[t], {"observation"})
    PROVE  row'[t].state = "absent" \/ Has(events'[t], {"observation"})
<1>1. events[t] \in Seq(EventTypes) /\ exec[t] \in Executions
    BY DEF TypeOK, StoreTypeOK
<1>2. ASSUME NEW from, NEW to, NEW e \in EventTypes, Grows(t, from, to, e), from # "absent"
      PROVE  row'[t].state = "absent" \/ Has(events'[t], {"observation"})
    BY <1>1, <1>2, AppendHas DEF Grows
<1>3. \A p \in Procs : append[p] # NoAppend => append[p].type \in EventTypes
    BY DEF TypeOK, Appends, EventTypes
<1>4. "accepted" \in EventTypes /\ "running" \in EventTypes /\ "terminal" \in EventTypes
         /\ "recovered" \in EventTypes
    BY DEF EventTypes
<1>5. row[t].state \in Active => row[t].state # "absent"
    BY DEF Active
<1> QED BY <1>2, <1>3, <1>4, <1>5, NextLogCourse DEF LogCourse

\* Every step keeps evidence in the log.
LEMMA EvidenceInvStep ==
    ASSUME TypeOK, EvidenceInv, [Next]_vars
    PROVE  EvidenceInv'
<1> SUFFICES ASSUME NEW t \in Tasks
             PROVE  /\ exec'[t].phase \in {"none", "scheduled"} => ~exec'[t].observed
                    /\ exec'[t].phase = "running" /\ exec'[t].observed =>
                          row'[t].state = "absent" \/ Has(events'[t], {"observation"})
                    /\ exec'[t].phase \in {"settling", "settled", "checked"}
                          /\ exec'[t].verdict = "completed" =>
                          row'[t].state = "absent" \/ Has(events'[t], {"observation"})
    BY DEF EvidenceInv
<1>1. EvidenceCourse(t)
    BY NextEvidence
<1>2. /\ exec[t].phase \in {"none", "scheduled"} => ~exec[t].observed
      /\ exec[t].phase = "running" /\ exec[t].observed =>
            row[t].state = "absent" \/ Has(events[t], {"observation"})
      /\ exec[t].phase \in {"settling", "settled", "checked"} /\ exec[t].verdict = "completed" =>
            row[t].state = "absent" \/ Has(events[t], {"observation"})
    BY DEF EvidenceInv
<1>3. exec[t].phase # "none" /\ (row[t].state = "absent" \/ Has(events[t], {"observation"}))
          => row'[t].state = "absent" \/ Has(events'[t], {"observation"})
    BY EvidenceStays
<1>4. ASSUME Grows(t, row[t].state, row[t].state, "observation")
      PROVE  Has(events'[t], {"observation"})
    BY <1>4, AppendHas DEF Grows, EventTypes, TypeOK, StoreTypeOK
<1> QED BY <1>1, <1>2, <1>3, <1>4 DEF EvidenceCourse

\* It holds in every reachable state.
LEMMA EvidenceInvCorrect == Spec => []EvidenceInv
<1>1. Init => EvidenceInv
    BY DEF Init, NotSubmitted, EvidenceInv
<1> QED BY <1>1, EvidenceInvStep, TypeCorrect, PTL DEF Spec

\* The first events of a log that the migration has made.
LEMMA LogInit == Init => LogMatchesRow
<1> SUFFICES ASSUME Init, NEW t \in Tasks PROVE Tells(events[t], row[t].state)
    BY LogIsTold
<1>1. row[t] \in Migrated \cup {Absent}
    BY DEF Init, StoreInit
<1>2. events[t] = IF row[t].state = "pending" THEN <<"accepted">>
                  ELSE IF row[t].state = "running" THEN <<"accepted", "running">> ELSE << >>
    BY DEF Init, StoreInit
<1>3. CASE row[t].state = "pending"
    <2>1. DOMAIN <<"accepted">> = {1}
        OBVIOUS
    <2>2. events[t] = <<"accepted">> /\ events[t] # << >>
        BY <1>2, <1>3
    <2> QED BY <1>3, <2>1, <2>2 DEF Tells, Has, Closing, Terminal
<1>4. CASE row[t].state = "running"
    <2>1. DOMAIN <<"accepted", "running">> = {1, 2}
        OBVIOUS
    <2>2. events[t] = <<"accepted", "running">> /\ events[t] # << >>
        BY <1>2, <1>4
    <2> QED BY <1>4, <2>1, <2>2 DEF Tells, Has, Closing, Terminal
<1>5. CASE row[t].state = "absent"
    <2>1. events[t] = << >> /\ DOMAIN << >> = {}
        BY <1>2, <1>5
    <2> QED BY <1>5, <2>1 DEF Tells, Has, Closing, Terminal
<1> QED BY <1>1, <1>3, <1>4, <1>5 DEF Migrated, Absent, Active

\* A row and its log change so that they still tell the same story.
LEMMA GrowthTells ==
    ASSUME NEW log \in Seq(EventTypes), NEW e \in EventTypes, NEW from, NEW to,
           Tells(log, from),
           \/ from = "absent" /\ to = "pending" /\ e = "accepted"
           \/ from = "pending" /\ to = "running" /\ e = "running"
           \/ /\ from = "running" /\ to \in Terminal /\ e = "terminal"
              /\ to = "completed" => Has(log, {"observation"})
           \/ from \in Active /\ to = "failed" /\ e = "recovered"
           \/ from # "absent" /\ to = from /\ e \in {"observation", "cancelling"}
    PROVE  Tells(Append(log, e), to)
<1> DEFINE longer == Append(log, e)
<1>1. /\ longer # << >>
      /\ Has(longer, Closing) <=> Has(log, Closing) \/ e \in Closing
      /\ Has(longer, {"running"}) <=> Has(log, {"running"}) \/ e \in {"running"}
      /\ Has(longer, {"terminal"}) <=> Has(log, {"terminal"}) \/ e \in {"terminal"}
      /\ Has(longer, {"observation"}) <=> Has(log, {"observation"}) \/ e \in {"observation"}
    BY AppendHas
<1>2. from = "absent" => /\ ~Has(log, Closing) /\ ~Has(log, {"running"})
                         /\ ~Has(log, {"terminal"}) /\ ~Has(log, {"observation"})
    <2>1. DOMAIN << >> = {}
        OBVIOUS
    <2> QED BY <2>1 DEF Tells, Has
<1>3. Has(log, Closing) => e \notin Closing
    BY <1>2 DEF Tells, Closing, Active, Terminal
<1>4. \A i, j \in DOMAIN longer : longer[i] \in Closing /\ longer[j] \in Closing => i = j
    <2>1. \A i, j \in DOMAIN log : log[i] \in Closing /\ log[j] \in Closing => i = j
        BY DEF Tells
    <2> QED BY <1>3, <2>1, AppendOnce
<1>5. Has(log, {"running"}) => e \notin {"running"}
    BY DEF Tells
<1>6. \A i, j \in DOMAIN longer : longer[i] = "running" /\ longer[j] = "running" => i = j
    <2>1. \A i, j \in DOMAIN log : log[i] \in {"running"} /\ log[j] \in {"running"} => i = j
        BY DEF Tells
    <2>2. \A i, j \in DOMAIN longer :
              longer[i] \in {"running"} /\ longer[j] \in {"running"} => i = j
        BY <1>5, <2>1, AppendOnce
    <2> QED BY <2>2
<1> HIDE DEF longer
<1>7. to # "absent"
    BY DEF Active, Terminal
<1>8. to \in Terminal <=> Has(longer, Closing)
    BY <1>1, <1>2 DEF Tells, Active, Terminal, Closing
<1>9. to = "running" => Has(longer, {"running"})
    BY <1>1 DEF Tells, Active, Terminal
<1>10. to = "pending" => ~Has(longer, {"running"})
    BY <1>1, <1>2 DEF Tells, Active, Terminal
<1>11. Has(longer, {"terminal"}) => Has(longer, {"running"})
    BY <1>1, <1>2 DEF Tells
<1>12. to = "completed" => Has(longer, {"terminal"}) /\ Has(longer, {"observation"})
    BY <1>1 DEF Tells, Active, Terminal
<1>13. Tells(longer, to)
    BY <1>1, <1>4, <1>6, <1>7, <1>8, <1>9, <1>10, <1>11, <1>12 DEF Tells
<1> QED BY <1>13 DEF longer

\* Each way to grow keeps the log telling the row's state.
LEMMA LogStep ==
    ASSUME TypeOK, EvidenceInv, LogMatchesRow, [Next]_vars
    PROVE  LogMatchesRow'
<1> SUFFICES ASSUME NEW t \in Tasks PROVE Tells(events'[t], row'[t].state)
    BY DEF LogMatchesRow, Tells, Has
<1>1. Tells(events[t], row[t].state) /\ events[t] \in Seq(EventTypes) /\ exec[t] \in Executions
    BY LogIsTold DEF TypeOK, StoreTypeOK
<1>2. ASSUME NEW e \in EventTypes, NEW from, NEW to, Grows(t, from, to, e),
           \/ from = "absent" /\ to = "pending" /\ e = "accepted"
           \/ from = "pending" /\ to = "running" /\ e = "running"
           \/ /\ from = "running" /\ to \in Terminal /\ e = "terminal"
              /\ to = "completed" => Has(events[t], {"observation"})
           \/ from \in Active /\ to = "failed" /\ e = "recovered"
           \/ from # "absent" /\ to = from /\ e \in {"observation", "cancelling"}
      PROVE  Tells(events'[t], row'[t].state)
    <2>1. Tells(events[t], from)
        BY <1>1, <1>2 DEF Grows
    <2>2. Tells(Append(events[t], e), to)
        BY <1>1, <1>2, <2>1, GrowthTells
    <2> QED BY <1>2, <2>2 DEF Grows
<1>3. "accepted" \in EventTypes /\ "running" \in EventTypes /\ "terminal" \in EventTypes
         /\ "recovered" \in EventTypes
    BY DEF EventTypes
<1>4. CASE row'[t].state = row[t].state /\ events'[t] = events[t]
    BY <1>1, <1>4
<1>5. CASE row'[t].state = "absent" /\ events'[t] = << >>
    <2>1. DOMAIN << >> = {}
        OBVIOUS
    <2> QED BY <1>5, <2>1 DEF Tells, Has, Terminal
<1>6. CASE Grows(t, "absent", "pending", "accepted") \/ Grows(t, "pending", "running", "running")
    BY <1>2, <1>3, <1>6
<1>7. CASE exec[t].phase = "checked" /\ Grows(t, "running", exec[t].verdict, "terminal")
    <2>1. exec[t].verdict \in Terminal
        BY <1>1 DEF Executions
    <2>2. exec[t].verdict = "completed" => Has(events[t], {"observation"})
        BY <1>7 DEF EvidenceInv, Grows
    <2> QED BY <1>2, <1>3, <1>7, <2>1, <2>2
<1>8. CASE row[t].state \in Active /\ Grows(t, row[t].state, "failed", "recovered")
    BY <1>2, <1>3, <1>8
<1>9. ASSUME NEW p \in Procs, append[p] # NoAppend, row[t].state # "absent",
             Grows(t, row[t].state, row[t].state, append[p].type)
      PROVE  Tells(events'[t], row'[t].state)
    <2>1. append[p].type \in {"observation", "cancelling"} /\ append[p].type \in EventTypes
        BY <1>9 DEF TypeOK, Appends, EventTypes
    <2> QED BY <1>2, <1>9, <2>1
<1> QED BY <1>4, <1>5, <1>6, <1>7, <1>8, <1>9, NextLogCourse DEF LogCourse

\* A row is terminal exactly when its log is closed, once; it is running only after one
\* start; and a completed one has evidence: whichever of mark_running, finish_task and
\* recover_interrupted comes first.
THEOREM LogCorrect == Spec => []LogMatchesRow
BY LogInit, LogStep, EvidenceInvCorrect, TypeCorrect, PTL DEF Spec

-----------------------------------------------------------------------------
(* A verdict ends the log, with processes that are punctual.               *)

\* No log is closed at first.
LEMMA EndInit == Init => VerdictEndsLog
<1> SUFFICES ASSUME Init, NEW t \in Tasks, NEW i \in DOMAIN events[t], events[t][i] \in Closing
             PROVE  FALSE
    BY DEF VerdictEndsLog
<1>1. row[t].state \notin Terminal
    BY DEF Init, StoreInit, Migrated, Absent, Active, Terminal
<1>2. Tells(events[t], row[t].state)
    BY LogInit, LogIsTold
<1> QED BY <1>1, <1>2 DEF Tells, Has

\* Every step keeps the closing event last.
LEMMA EndStep ==
    ASSUME TypeOK, AppendInv, LogMatchesRow, LiveOwnerKeepsTask, VerdictEndsLog, [Next]_vars
    PROVE  VerdictEndsLog'
<1> SUFFICES ASSUME Punctual, NEW t \in Tasks
             PROVE  \A i \in DOMAIN events'[t] : events'[t][i] \in Closing => i = Len(events'[t])
    BY DEF VerdictEndsLog
<1>1. Tells(events[t], row[t].state) /\ events[t] \in Seq(EventTypes)
    BY LogIsTold DEF TypeOK, StoreTypeOK
<1>2. ASSUME NEW e \in EventTypes, events'[t] = Append(events[t], e), ~Has(events[t], Closing)
      PROVE  \A i \in DOMAIN events'[t] : events'[t][i] \in Closing => i = Len(events'[t])
    BY <1>1, <1>2 DEF Has
<1>3. CASE events'[t] = events[t]
    BY <1>3 DEF VerdictEndsLog
<1>4. CASE events'[t] = << >>
    BY <1>4
<1>5. ASSUME NEW from, NEW to, NEW e \in EventTypes, Grows(t, from, to, e), from \notin Terminal
      PROVE  \A i \in DOMAIN events'[t] : events'[t][i] \in Closing => i = Len(events'[t])
    BY <1>1, <1>2, <1>5 DEF Grows, Tells
<1>6. ASSUME NEW p \in Procs, append[p] # NoAppend, append[p].task = t
      PROVE  row[t].state \in Active /\ append[p].type \in EventTypes
    <2>1. exec[t].phase \in Live \ {"retaining"}
        BY <1>6 DEF AppendInv, Live
    <2> QED BY <1>6, <2>1 DEF LiveOwnerKeepsTask, TypeOK, Appends, EventTypes
<1>7. /\ "accepted" \in EventTypes /\ "running" \in EventTypes /\ "terminal" \in EventTypes
      /\ "recovered" \in EventTypes
      /\ "absent" \notin Terminal /\ "pending" \notin Terminal /\ "running" \notin Terminal
      /\ \A s \in Active : s \notin Terminal
    BY DEF EventTypes, Active, Terminal
<1> QED BY <1>3, <1>4, <1>5, <1>6, <1>7, NextLogCourse DEF LogCourse

\* No late observation or cancellation comes after the verdict: what is on its way
\* belongs to an execution whose row nobody else closes.
THEOREM LogEndCorrect ==
    ASSUME 2 * Slack < Grace PROVE Spec => []VerdictEndsLog
<1>1. TypeOK /\ AppendInv /\ LogMatchesRow /\ LiveOwnerKeepsTask /\ VerdictEndsLog /\ [Next]_vars
          => VerdictEndsLog'
    BY EndStep
<1> QED BY <1>1, EndInit, LeaseCorrect, LogCorrect, AppendInvCorrect, TypeCorrect, PTL DEF Spec

-----------------------------------------------------------------------------
(* The event budget.                                                       *)

\* An event of t is on its way.
OnItsWay(t) == \E p \in Procs : append[p] # NoAppend /\ append[p].task = t

InFlight(t) == IF OnItsWay(t) THEN 1 ELSE 0

\* The transitions the row may still make.
Due(t) == IF row[t].state = "pending" THEN 2 ELSE IF row[t].state = "running" THEN 1 ELSE 0

\* What the log may come to with them.
Weight(t) == Len(events[t]) + InFlight(t) + Due(t)

\* The count of TaskContext covers all of it but one event: the cancelling one, which
\* only a task whose token is set may have.
BudgetInv ==
    \A t \in Tasks :
       /\ Weight(t) =< MaxEvents
       /\ exec[t].phase \in Live =>
             Weight(t) =< exec[t].count + (IF exec[t].token THEN 1 ELSE 0)

\* What the count and the token of a live execution do in a step.
CountCourse(t) ==
    LET e == exec[t]
        f == exec'[t]
    IN  \/ f.phase \notin Live
        \/ e.phase = "none" /\ Grows(t, "absent", "pending", "accepted")
        \/ e.phase \in Live /\ f.count >= e.count /\ (e.token => f.token)

\* An execution counts up while it is live.
LEMMA ExecuteCount ==
    ASSUME TypeOK, NEW p \in Procs, NEW u \in Tasks, Execute(p, u), NEW t \in Tasks
    PROVE  CountCourse(t)
<1>1. exec \in [Tasks -> Executions] /\ exec[t].count \in Nat
    BY EventsAssumption DEF TypeOK, Executions
<1>2. CASE exec'[t] = exec[t]
    BY <1>1, <1>2 DEF CountCourse
<1>3. CASE t # u
    <2>1. exec'[t] = exec[t]
        BY <1>1, <1>3 DEF Execute, Start, StartFails, Observe, RunnerReturns, RunnerCancelled,
           RunnerTimesOut, RunnerRaises, RecordTerminal, BuildResult, FinishRead, FinishWrite,
           FinishFails, Return, Ends
    <2> QED BY <1>2, <2>1
<1>4. ASSUME t = u PROVE CountCourse(t)
    <2>1. exec[t].phase \in Live
        BY <1>4 DEF Execute, Start, StartFails, Observe, RunnerReturns, RunnerCancelled,
           RunnerTimesOut, RunnerRaises, RecordTerminal, BuildResult, FinishRead, FinishWrite,
           FinishFails, Return, Turn, Continue, Live
    <2>2. ASSUME NEW v, NEW n, NEW b, Ends(t, v, n, b), exec[t].token => b
          PROVE  CountCourse(t)
        <3>1. exec'[t].count = exec[t].count /\ exec'[t].token = b
            BY <1>1, <2>2 DEF Ends, Executions
        <3> QED BY <1>1, <2>1, <2>2, <3>1 DEF CountCourse
    <2>3. CASE StartFails(p, t) \/ RunnerTimesOut(p, t) \/ RunnerRaises(p, t)
        BY <2>2, <2>3 DEF StartFails, RunnerTimesOut, RunnerRaises
    <2>4. CASE RunnerReturns(p, t)
        BY <2>2, <2>4 DEF RunnerReturns
    <2>5. CASE RunnerCancelled(p, t)
        BY <2>2, <2>5 DEF RunnerCancelled
    <2>6. CASE Start(p, t) \/ Observe(p, t) \/ RecordTerminal(p, t) \/ BuildResult(p, t)
                  \/ FinishRead(p, t) \/ FinishWrite(p, t)
        <3>1. /\ exec'[t].count \in {exec[t].count, exec[t].count + 1}
              /\ exec'[t].token = exec[t].token
            <4>1. CASE Start(p, t)
                BY <1>1, <4>1 DEF Start, Executions
            <4>2. CASE Observe(p, t) \/ FinishRead(p, t) \/ FinishWrite(p, t)
                BY <1>1, <4>2 DEF Observe, FinishRead, FinishWrite, Executions
            <4>3. CASE RecordTerminal(p, t)
                BY <1>1, <4>3 DEF RecordTerminal, Executions
            <4>4. CASE BuildResult(p, t)
                BY <1>1, <4>4 DEF BuildResult, Executions
            <4> QED BY <2>6, <4>1, <4>2, <4>3, <4>4
        <3> QED BY <1>1, <2>1, <3>1 DEF CountCourse
    <2>7. CASE FinishFails(p, t)
        <3>1. \/ exec'[t].phase = "lost"
              \/ exec'[t].count = exec[t].count /\ exec'[t].token = exec[t].token
            BY <1>1, <2>7 DEF FinishFails, Over, NotSubmitted, Recorded, Executions
        <3> QED BY <1>1, <2>1, <3>1 DEF CountCourse, Live
    <2>8. CASE Return(p, t)
        <3>1. exec'[t].phase = "returned"
            BY <1>1, <2>8 DEF Return, Over, NotSubmitted, Recorded
        <3> QED BY <3>1 DEF CountCourse, Live
    <2> QED BY <1>4, <2>3, <2>4, <2>5, <2>6, <2>7, <2>8 DEF Execute
<1> QED BY <1>3, <1>4

\* The count of a live execution never falls and its token stays set.
LEMMA NextCount ==
    ASSUME TypeOK, [Next]_vars, NEW t \in Tasks
    PROVE  CountCourse(t)
<1>1. exec \in [Tasks -> Executions] /\ exec[t].count \in Nat
    BY EventsAssumption DEF TypeOK, Executions
<1>2. CASE exec'[t] = exec[t]
    BY <1>1, <1>2 DEF CountCourse
<1>3. CASE Tick \/ UNCHANGED vars
    BY <1>2, <1>3 DEF Tick, vars
<1>4. ASSUME NEW p \in Procs, Host(p) PROVE CountCourse(t)
    <2>1. CASE Crash(p)
        <3>1. exec'[t] = exec[t] \/ exec'[t].phase \in {"crashed", "unanswered"}
            BY <1>1, <2>1 DEF Crash, Over, NotSubmitted, Recorded
        <3> QED BY <1>2, <3>1 DEF CountCourse, Live
    <2>2. CASE AppendSucceeds(p)
        <3>1. exec' = exec \/ exec' = [exec EXCEPT ![append[p].task].observed = TRUE]
            BY <2>2 DEF AppendSucceeds
        <3>2. /\ exec'[t].phase = exec[t].phase /\ exec'[t].count = exec[t].count
              /\ exec'[t].token = exec[t].token
            BY <1>1, <3>1 DEF Executions
        <3> QED BY <1>1, <3>2 DEF CountCourse
    <2>3. CASE ~(Crash(p) \/ AppendSucceeds(p))
        BY <1>2, <1>4, <2>3 DEF Host, Open, ScanOrphans, RecoverOne, RecoveryFails, Exit,
                                ReadHistory, AppendFails
    <2> QED BY <2>1, <2>2, <2>3
<1>5. ASSUME NEW p \in Procs, NEW u \in Tasks, Execute(p, u) PROVE CountCourse(t)
    BY <1>5, ExecuteCount
<1>6. ASSUME NEW p \in Procs, NEW u \in Tasks, Submit(p, u) PROVE CountCourse(t)
    <2>1. CASE u # t
        BY <1>1, <1>2, <1>6, <2>1 DEF Submit
    <2>2. CASE u = t
        <3>1. exec'[t] = [exec[t] EXCEPT !.phase = "scheduled", !.proc = p, !.deadline = now]
              /\ exec[t].phase = "none"
            BY <1>1, <1>6, <2>2 DEF Submit
        <3>2. Grows(t, "absent", "pending", "accepted")
            BY <1>6, <2>2 DEF Submit, CreateTask, Grows, TypeOK, StoreTypeOK
        <3> QED BY <3>1, <3>2 DEF CountCourse
    <2> QED BY <2>1, <2>2
<1>7. ASSUME NEW p \in Procs, NEW u \in Tasks, Cancel(p, u) PROVE CountCourse(t)
    <2>1. exec' = [exec EXCEPT ![u] = [exec[u] EXCEPT !.token = TRUE]]
        BY <1>7 DEF Cancel
    <2>2. /\ exec'[t].phase = exec[t].phase /\ exec'[t].count = exec[t].count
          /\ exec[t].token => exec'[t].token
        BY <1>1, <2>1 DEF Executions
    <2> QED BY <1>1, <2>2 DEF CountCourse
<1> QED BY <1>3, <1>4, <1>5, <1>6, <1>7 DEF Next

\* A task that is accepted weighs what it needs to come to a verdict.
LEMMA SubmitWeighs ==
    ASSUME TypeOK, AppendInv, LogMatchesRow, [Next]_vars, NEW t \in Tasks,
           exec[t].phase = "none", Grows(t, "absent", "pending", "accepted")
    PROVE  Weight(t)' = 3
<1>1. events[t] = << >> /\ row'[t].state = "pending" /\ events'[t] = Append(events[t], "accepted")
    BY DEF Grows, LogMatchesRow
<1>2. Len(events'[t]) = 1
    BY <1>1
<1>3. ~OnItsWay(t)'
    <2> SUFFICES ASSUME NEW p \in Procs, append'[p] # NoAppend, append'[p].task = t PROVE FALSE
        BY DEF OnItsWay
    <2>1. CASE append'[p] = append[p]
        BY <2>1 DEF AppendInv
    <2>2. CASE append'[p] # append[p]
        <3>1. PICK u \in Tasks : Begins(p, u)
            BY <2>2, AppendBegins
        <3>2. u = t
            BY <3>1 DEF Begins
        <3> QED BY <3>1, <3>2 DEF Begins
    <2> QED BY <2>1, <2>2
<1>4. InFlight(t)' = 0
    BY <1>3 DEF InFlight
<1> QED BY <1>1, <1>2, <1>4 DEF Weight, Due

\* Without a new append nothing gets heavier but what is accepted.
LEMMA WeightFalls ==
    ASSUME TypeOK, AppendInv, LogMatchesRow, [Next]_vars, NEW t \in Tasks,
           OnItsWay(t)' => OnItsWay(t)
    PROVE  Weight(t)' =< Weight(t) \/ Weight(t)' = 3
<1>1. /\ events[t] \in Seq(EventTypes) /\ Len(events[t]) \in Nat /\ exec[t] \in Executions
      /\ append \in [Procs -> Appends \cup {NoAppend}]
    BY DEF TypeOK, StoreTypeOK
<1>2. InFlight(t)' =< InFlight(t) /\ InFlight(t) \in 0..1 /\ InFlight(t)' \in 0..1
    BY DEF InFlight
<1>3. ASSUME NEW from, NEW to, NEW e, Grows(t, from, to, e)
      PROVE  row[t].state = from /\ row'[t].state = to /\ Len(events'[t]) = Len(events[t]) + 1
    BY <1>1, <1>3 DEF Grows
<1>4. CASE row'[t].state = row[t].state /\ events'[t] = events[t]
    BY <1>1, <1>2, <1>4 DEF Weight, Due
<1>5. CASE row'[t].state = "absent" /\ events'[t] = << >>
    <2>1. Len(events'[t]) = 0
        BY <1>5
    <2> QED BY <1>1, <1>2, <1>5, <2>1 DEF Weight, Due
<1>6. CASE exec[t].phase = "none" /\ Grows(t, "absent", "pending", "accepted")
    BY <1>6, SubmitWeighs
<1>7. CASE Grows(t, "pending", "running", "running")
    BY <1>1, <1>2, <1>3, <1>7 DEF Weight, Due
<1>8. CASE Grows(t, "running", exec[t].verdict, "terminal")
    <2>1. exec[t].verdict \in Terminal
        BY <1>1 DEF Executions
    <2> QED BY <1>1, <1>2, <1>3, <1>8, <2>1 DEF Weight, Due, Terminal
<1>9. CASE row[t].state \in Active /\ Grows(t, row[t].state, "failed", "recovered")
    BY <1>1, <1>2, <1>3, <1>9 DEF Weight, Due, Active
<1>10. ASSUME NEW p \in Procs, append[p] # NoAppend, append[p].task = t,
              append' = [append EXCEPT ![p] = NoAppend],
              Grows(t, row[t].state, row[t].state, append[p].type)
       PROVE  Weight(t)' =< Weight(t)
    <2>1. OnItsWay(t) /\ exec[t].proc = p
        BY <1>10 DEF OnItsWay, AppendInv
    <2>2. ~OnItsWay(t)'
        BY <1>1, <1>10, <2>1 DEF OnItsWay, AppendInv
    <2>3. InFlight(t) = 1 /\ InFlight(t)' = 0
        BY <2>1, <2>2 DEF InFlight
    <2>4. row'[t].state = row[t].state /\ Len(events'[t]) = Len(events[t]) + 1
        BY <1>3, <1>10
    <2>5. Due(t)' = Due(t) /\ Due(t) \in 0..2
        BY <2>4 DEF Due
    <2>6. Weight(t) = Len(events[t]) + 1 + Due(t)
        BY <2>3 DEF Weight
    <2>7. Weight(t)' = Len(events[t]) + 1 + 0 + Due(t)
        BY <2>3, <2>4, <2>5 DEF Weight
    <2> QED BY <1>1, <2>5, <2>6, <2>7
<1> QED BY <1>4, <1>5, <1>6, <1>7, <1>8, <1>9, <1>10, NextLogCourse DEF LogCourse

\* A new append makes the log of its task one event heavier and is counted, or is the
\* cancellation.
LEMMA BeginningWeighs ==
    ASSUME TypeOK, NEW t \in Tasks, NEW p \in Procs, Begins(p, t)
    PROVE  Weight(t)' =< Weight(t) + 1
<1>1. row' = row /\ events' = events /\ Len(events[t]) \in Nat
    BY DEF Begins, TypeOK, StoreTypeOK
<1>2. InFlight(t) \in 0..1 /\ InFlight(t)' \in 0..1
    BY DEF InFlight
<1> QED BY <1>1, <1>2 DEF Weight, Due

\* The weight of a task is a number.
LEMMA WeightType ==
    ASSUME TypeOK, NEW t \in Tasks
    PROVE  Weight(t) \in Nat /\ Weight(t) >= Len(events[t]) /\ Len(events[t]) \in Nat
<1>1. Len(events[t]) \in Nat /\ InFlight(t) \in 0..1 /\ Due(t) \in 0..2
    BY DEF TypeOK, StoreTypeOK, InFlight, Due
<1> QED BY <1>1 DEF Weight

\* The migration leaves every log within its budget.
LEMMA BudgetInit == Init => BudgetInv
<1> SUFFICES ASSUME Init, NEW t \in Tasks
             PROVE  Weight(t) =< MaxEvents /\ exec[t].phase \notin Live
    BY DEF BudgetInv
<1>1. events[t] = IF row[t].state = "pending" THEN <<"accepted">>
                  ELSE IF row[t].state = "running" THEN <<"accepted", "running">> ELSE << >>
    BY DEF Init, StoreInit
<1>2. InFlight(t) = 0 /\ exec[t].phase \notin Live
    BY DEF Init, InFlight, OnItsWay, NotSubmitted, Live
<1>3. Len(events[t]) + Due(t) =< 3
    BY <1>1 DEF Due
<1>4. Len(events[t]) \in Nat /\ Due(t) \in 0..2
    BY <1>1 DEF Due
<1> QED BY <1>2, <1>3, <1>4, EventsAssumption DEF Weight

\* What is begun was counted; all else is only moved.
LEMMA BudgetStep ==
    ASSUME TypeOK, TypeOK', AppendInv, LogMatchesRow, BudgetInv, [Next]_vars
    PROVE  BudgetInv'
<1> SUFFICES ASSUME NEW t \in Tasks
             PROVE  /\ Weight(t)' =< MaxEvents
                    /\ exec'[t].phase \in Live =>
                          Weight(t)' =< exec'[t].count + (IF exec'[t].token THEN 1 ELSE 0)
    BY DEF BudgetInv
<1>1. Weight(t) \in Nat /\ Weight(t)' \in Nat
    <2>1. Weight(t) \in Nat
        BY WeightType
    <2>2. /\ Len(events'[t]) \in Nat /\ InFlight(t)' \in 0..1 /\ Due(t)' \in 0..2
        BY DEF TypeOK, StoreTypeOK, InFlight, Due
    <2>3. Weight(t)' \in Nat
        BY <2>2 DEF Weight
    <2> QED BY <2>1, <2>3
<1>2. /\ exec[t].count \in 3..(MaxEvents - 1) /\ exec'[t].count \in 3..(MaxEvents - 1)
      /\ exec[t].token \in BOOLEAN /\ exec'[t].token \in BOOLEAN
    BY DEF TypeOK, Executions
<1>3. /\ Weight(t) =< MaxEvents
      /\ exec[t].phase \in Live =>
            Weight(t) =< exec[t].count + (IF exec[t].token THEN 1 ELSE 0)
    BY DEF BudgetInv
<1>4. ASSUME NEW p \in Procs, Begins(p, t)
      PROVE  /\ exec'[t].phase \in Live
             /\ Weight(t)' =< exec'[t].count + (IF exec'[t].token THEN 1 ELSE 0)
    <2>1. exec[t].phase \in Live /\ exec'[t].phase \in Live
        BY <1>4 DEF Begins, Live
    <2>2. Weight(t)' =< Weight(t) + 1
        BY <1>4, BeginningWeighs
    <2>3. \/ exec'[t].count = exec[t].count + 1 /\ exec'[t].token = exec[t].token
          \/ exec'[t].count = exec[t].count /\ ~exec[t].token /\ exec'[t].token
        BY <1>4 DEF Begins
    <2> QED BY <1>1, <1>2, <1>3, <2>1, <2>2, <2>3
<1>5. CASE OnItsWay(t)' => OnItsWay(t)
    <2>1. Weight(t)' =< Weight(t) \/ Weight(t)' = 3
        BY <1>5, WeightFalls
    <2>2. CountCourse(t)
        BY NextCount
    <2>3. Weight(t)' =< MaxEvents
        BY <1>1, <1>3, <2>1, EventsAssumption
    <2>4. ASSUME exec'[t].phase \in Live
          PROVE  Weight(t)' =< exec'[t].count + (IF exec'[t].token THEN 1 ELSE 0)
        <3>1. CASE Weight(t)' = 3
            BY <1>2, <3>1, EventsAssumption
        <3>2. CASE /\ Weight(t)' =< Weight(t) /\ exec[t].phase \in Live
                   /\ exec'[t].count >= exec[t].count /\ (exec[t].token => exec'[t].token)
            BY <1>1, <1>2, <1>3, <3>2, EventsAssumption
        <3>3. CASE exec[t].phase = "none" /\ Grows(t, "absent", "pending", "accepted")
            <4>1. Weight(t)' = 3
                BY <3>3, SubmitWeighs
            <4> QED BY <3>1, <4>1
        <3> QED BY <2>1, <2>2, <2>4, <3>1, <3>2, <3>3 DEF CountCourse
    <2> QED BY <2>3, <2>4
<1>6. CASE OnItsWay(t)' /\ ~OnItsWay(t)
    <2>1. PICK p \in Procs : append'[p] # NoAppend /\ append'[p].task = t
        BY <1>6 DEF OnItsWay
    <2>2. append'[p] # append[p]
        BY <1>6, <2>1 DEF OnItsWay
    <2>3. PICK u \in Tasks : Begins(p, u)
        BY <2>1, <2>2, AppendBegins
    <2>4. u = t
        BY <2>1, <2>3 DEF Begins
    <2>5. Weight(t)' =< exec'[t].count + (IF exec'[t].token THEN 1 ELSE 0)
        BY <1>4, <2>3, <2>4
    <2> QED BY <1>1, <1>2, <2>5, EventsAssumption
<1> QED BY <1>5, <1>6

\* However an execution ends, the log keeps within the plan's max_events: the count of
\* TaskContext leaves room for the verdict and for one cancellation.
THEOREM BudgetCorrect == Spec => []EventBudget
<1>1. TypeOK /\ TypeOK' /\ AppendInv /\ LogMatchesRow /\ BudgetInv /\ [Next]_vars => BudgetInv'
    BY BudgetStep
<1>2. TypeOK /\ BudgetInv => EventBudget
    <2> SUFFICES ASSUME TypeOK, BudgetInv, NEW t \in Tasks PROVE Len(events[t]) =< MaxEvents
        BY DEF EventBudget
    <2>1. Weight(t) =< MaxEvents
        BY DEF BudgetInv
    <2> QED BY <2>1, WeightType, EventsAssumption
<1> QED BY <1>1, <1>2, BudgetInit, LogCorrect, AppendInvCorrect, TypeCorrect, PTL DEF Spec

-----------------------------------------------------------------------------
(* What retention keeps.                                                   *)

\* The tasks the history has a row of.
Stored == {t \in Tasks : row[t] # Absent}

\* A history holds finitely many rows: those of its migration, and one more
\* with each task submitted.
FiniteInv == IsFiniteSet(Stored)

\* The migration leaves finitely many rows.
LEMMA FiniteInit == Init => FiniteInv
<1>1. ASSUME Init PROVE Stored \subseteq Legacy
    BY <1>1 DEF Init, StoreInit, Stored
<1> QED BY <1>1, MigratedAssumption, FS_Subset DEF FiniteInv

\* A step stores at most one task more.
LEMMA FiniteStep == TypeOK /\ FiniteInv /\ [Next]_vars => FiniteInv'
<1> SUFFICES ASSUME TypeOK, FiniteInv, [Next]_vars
             PROVE  FiniteInv'
    OBVIOUS
<1>1. ASSUME NEW u, Stored' \subseteq Stored \cup {u} PROVE FiniteInv'
    BY <1>1, FS_AddElement, FS_Subset DEF FiniteInv
<1>2. CASE UNCHANGED row
    BY <1>2, <1>1 DEF Stored
<1>3. CASE Prune(now)
    BY <1>3, <1>1 DEF Prune, Stored
<1>4. ASSUME NEW p \in Procs, NEW s \in scan[p], RecoverTask(s) PROVE FiniteInv'
    <2>1. \A t \in Tasks : t # s.task => row'[t] = row[t]
        BY <1>4 DEF RecoverTask, TypeOK, StoreTypeOK
    <2> QED BY <2>1, <1>1 DEF Stored
<1>5. ASSUME NEW p \in Procs, NEW u \in Tasks, Submit(p, u) \/ Start(p, u) \/ FinishWrite(p, u)
      PROVE  FiniteInv'
    <2>1. \A t \in Tasks : t # u => row'[t] = row[t]
        BY <1>5 DEF Submit, CreateTask, Start, MarkRunning, FinishWrite, FinishTask, TypeOK,
                    StoreTypeOK
    <2> QED BY <2>1, <1>1 DEF Stored
<1> QED BY <1>2, <1>3, <1>4, <1>5, RowSteps

\* There are finitely many in every reachable state.
LEMMA FiniteCorrect == Spec => []FiniteInv
<1> QED BY TypeCorrect, FiniteInit, FiniteStep, PTL DEF Spec

\* The rows that retention orders before that of t.
Before(t) == {s \in Recent(now) : Newer(s, t)}

\* Newer is a strict linear order of the rows: by time, then by task id.
LEMMA NewerOrders ==
    ASSUME TypeOK, NEW r \in Tasks, NEW s \in Tasks, NEW t \in Tasks
    PROVE  /\ ~Newer(t, t)
           /\ Newer(r, s) /\ Newer(s, t) => Newer(r, t)
           /\ s = t \/ Newer(s, t) \/ Newer(t, s)
           /\ Newer(s, t) => row[s].updated >= row[t].updated
<1>1. /\ row[r].updated \in Nat /\ row[s].updated \in Nat /\ row[t].updated \in Nat
      /\ r \in Nat /\ s \in Nat /\ t \in Nat
    BY DEF TypeOK, StoreTypeOK, Rows
<1> QED BY <1>1 DEF Newer

\* Fewer rows come before a row than before a later one.
LEMMA BeforeShrinks ==
    ASSUME TypeOK, FiniteInv, NEW t \in Recent(now), NEW s \in Recent(now), Newer(s, t)
    PROVE  Cardinality(Before(s)) < Cardinality(Before(t))
<1>1. s \in Tasks /\ t \in Tasks /\ s \in Before(t) /\ s \notin Before(s)
    BY NewerOrders DEF Recent, Before
<1>2. Before(s) \subseteq Before(t)
    BY <1>1, NewerOrders DEF Before, Recent
<1>3. Before(t) \subseteq Stored
    BY DEF Before, Recent, Stored, Absent, Terminal
<1>4. IsFiniteSet(Before(t))
    BY <1>3, FS_Subset DEF FiniteInv
<1>5. /\ Cardinality(Before(s)) =< Cardinality(Before(t))
      /\ Cardinality(Before(s)) # Cardinality(Before(t))
    BY <1>1, <1>2, <1>4, FS_Subset
<1>6. Cardinality(Before(s)) \in Nat /\ Cardinality(Before(t)) \in Nat
    BY <1>2, <1>4, FS_Subset, FS_CardinalityType
<1> QED BY <1>5, <1>6

\* Of the rows beyond the newest MaxTasks, the first one in retention's order:
\* all before it are kept, and it comes before every other one or is it.
LEMMA FirstExcess ==
    ASSUME TypeOK, FiniteInv, NEW t \in Excess(now)
    PROVE  \E x \in Excess(now) :
              /\ Before(x) \cap Excess(now) = {}
              /\ x = t \/ Newer(x, t)
<1> DEFINE Sizes == {Cardinality(Before(x)) : x \in Excess(now)}
<1>1. \A x \in Excess(now) : x \in Recent(now) /\ x \in Tasks
    BY DEF Excess, Recent
<1>2. ASSUME NEW x \in Excess(now) PROVE Cardinality(Before(x)) \in Nat
    <2>1. Before(x) \subseteq Stored
        BY DEF Before, Recent, Stored, Absent, Terminal
    <2> QED BY <2>1, FS_Subset, FS_CardinalityType DEF FiniteInv
<1>3. Sizes \subseteq Nat /\ Sizes # {}
    BY <1>2
<1>4. PICK n \in Sizes : \A m \in Sizes : <<m, n>> \notin OpToRel(<, Nat)
    <2> HIDE DEF Sizes
    <2> QED BY <1>3, WFMin, NatLessThanWellFounded
<1>5. \A m \in Sizes : ~(m < n)
    <2> HIDE DEF Sizes
    <2> QED BY <1>3, <1>4, Zenon DEF OpToRel
<1>6. PICK x \in Excess(now) : n = Cardinality(Before(x))
    OBVIOUS
<1>7. \A y \in Excess(now) : ~Newer(y, x)
    BY <1>1, <1>5, <1>6, BeforeShrinks
<1> QED BY <1>1, <1>6, <1>7, NewerOrders DEF Before

\* What retention deletes was too old, or MaxTasks rows as recent stay.
LEMMA PruneKeepsRecent ==
    ASSUME TypeOK, FiniteInv, Prune(now), NEW t \in Tasks,
           row[t] # Absent, row'[t] = Absent
    PROVE  /\ row[t].state \in Terminal
           /\ \/ row[t].updated + MaxAge < now
              \/ Cardinality({s \in Tasks : /\ row'[s].state \in Terminal
                                            /\ row'[s].updated >= row[t].updated})
                   >= MaxTasks
<1> DEFINE Kept == {s \in Tasks : /\ row'[s].state \in Terminal
                                  /\ row'[s].updated >= row[t].updated}
<1>1. t \in Pruned(now)
    BY DEF Prune
<1>2. CASE t \in Aged(now)
    BY <1>2 DEF Aged
<1>3. CASE t \in Excess(now)
    <2>1. PICK x \in Excess(now) : /\ Before(x) \cap Excess(now) = {}
                                   /\ x = t \/ Newer(x, t)
        BY <1>3, FirstExcess
    <2>2. row[t].state \in Terminal /\ x \in Tasks /\ Cardinality(Before(x)) >= MaxTasks
        BY <1>3 DEF Excess, Recent, Before
    <2>3. ASSUME NEW s \in Before(x) PROVE s \in Kept
        <3>1. s \in Tasks /\ s \in Recent(now) /\ Newer(s, x) /\ s \notin Pruned(now)
            BY <2>1 DEF Before, Recent, Pruned
        <3>2. row'[s] = row[s] /\ row[s].state \in Terminal
            BY <3>1 DEF Prune, Recent
        <3>3. s = t \/ Newer(s, t)
            BY <2>1, <2>2, <3>1, NewerOrders
        <3>4. row[s].updated >= row[t].updated
            BY <3>1, <3>3, NewerOrders DEF TypeOK, StoreTypeOK, Rows
        <3> QED BY <3>1, <3>2, <3>4
    <2>4. Kept \subseteq Stored
        BY DEF Prune, Stored, Absent, Terminal
    <2>5. IsFiniteSet(Kept)
        BY <2>4, FS_Subset DEF FiniteInv
    <2>6. Cardinality(Before(x)) =< Cardinality(Kept)
        BY <2>3, <2>5, FS_Subset
    <2>7. Cardinality(Before(x)) \in Nat /\ Cardinality(Kept) \in Nat
        BY <2>3, <2>5, FS_Subset, FS_CardinalityType
    <2>8. Cardinality(Kept) >= MaxTasks
        BY <2>2, <2>6, <2>7
    <2> QED BY <2>2, <2>8
<1> QED BY <1>1, <1>2, <1>3 DEF Pruned

\* Only retention deletes a row.
LEMMA OnlyPruneDeletes ==
    ASSUME TypeOK, [Next]_vars, NEW t \in Tasks, row[t] # Absent, row'[t] = Absent
    PROVE  Prune(now)
<1>1. ASSUME NEW p \in Procs, NEW s \in scan[p], RecoverTask(s) PROVE FALSE
    <2>1. s \in Snapshots
        BY DEF TypeOK
    <2> QED BY <1>1, <2>1 DEF RecoverTask, Closed, Absent, TypeOK, StoreTypeOK
<1>2. ASSUME NEW p \in Procs, NEW u \in Tasks, Submit(p, u) \/ Start(p, u) PROVE FALSE
    <2>1. CASE u = t
        <3>1. CASE Submit(p, t)
            BY <3>1 DEF Submit, CreateTask, Absent, TypeOK, StoreTypeOK
        <3>2. CASE Start(p, t)
            <4>1. row'[t] = [row[t] EXCEPT !.state = "running", !.lease = Lease, !.updated = now]
                BY <3>2 DEF Start, MarkRunning, TypeOK, StoreTypeOK
            <4>2. row'[t].state = "running"
                BY <4>1 DEF TypeOK, StoreTypeOK, Rows
            <4> QED BY <4>2 DEF Absent
        <3> QED BY <1>2, <2>1, <3>1, <3>2
    <2>2. CASE u # t
        BY <1>2, <2>2 DEF Submit, CreateTask, Start, MarkRunning, TypeOK, StoreTypeOK
    <2> QED BY <2>1, <2>2
<1>3. ASSUME NEW p \in Procs, NEW u \in Tasks, FinishWrite(p, u) PROVE FALSE
    <2>1. exec[u].verdict \in Terminal
        BY DEF TypeOK, Executions
    <2> QED BY <1>3, <2>1 DEF FinishWrite, FinishTask, Closed, Absent, Terminal, TypeOK, StoreTypeOK
<1> QED BY <1>1, <1>2, <1>3, RowSteps

\* No step of any process loses a row that is recent.
THEOREM RetentionCorrect == Spec => RetentionKeepsRecent
<1>1. TypeOK /\ FiniteInv /\ [Next]_vars =>
          [\A t \in Tasks : row[t] # Absent /\ row'[t] = Absent =>
              /\ row[t].state \in Terminal
              /\ \/ row[t].updated + MaxAge < now
                 \/ Cardinality({s \in Tasks : /\ row'[s].state \in Terminal
                                               /\ row'[s].updated >= row[t].updated})
                      >= MaxTasks]_vars
    BY PruneKeepsRecent, OnlyPruneDeletes
<1> QED BY <1>1, TypeCorrect, FiniteCorrect, PTL DEF Spec, RetentionKeepsRecent
=============================================================================
