----------------------------- MODULE TaskService -----------------------------
(***************************************************************************)
(* The lifecycle of tasks (TaskService in src/mercury/tasks.py) over the   *)
(* shared history.  Each process hosts one TaskService on one event loop   *)
(* and one SQLite connection: a process never interleaves with itself      *)
(* inside a synchronous section, but any other process may step between    *)
(* two of its statements.  Processes crash, restart, stall past their      *)
(* leases, and meet writes that fail.                                      *)
(*                                                                         *)
(* The runner (probes, discovery, paired roles) is left open: it records   *)
(* observations, then returns, raises, is cancelled or times out.          *)
(***************************************************************************)
EXTENDS HistoryStore

CONSTANTS
    Duration,    \* max_duration_s of every plan, in ticks
    Grace,       \* LEASE_FINALIZATION_GRACE_SECONDS, in ticks
    Slack,       \* how late a live process runs what is due, in ticks
    Punctual,    \* whether live processes keep to Slack
    MaxEvents,   \* max_events of every plan
    StoreFaults, \* whether a write may fail (locked or broken database)
    NoAppend,    \* no append_event is between its read and its write
    MaxTime      \* bound of the clock

ASSUME DurationAssumption == Duration \in Nat /\ Grace \in Nat /\ Slack \in Nat
ASSUME EventsAssumption == MaxEvents \in Nat /\ MaxEvents >= 4
ASSUME FlagAssumption == Punctual \in BOOLEAN /\ StoreFaults \in BOOLEAN
ASSUME TimeAssumption == MaxTime \in Nat

VARIABLES
    now,    \* the wall clock all processes share
    boot,   \* process -> "down", "opening", "recovering" or "up"
    scan,   \* process -> the rows its recovery has read and not yet handled
    append, \* process -> the append_event it is in the middle of
    exec,   \* task id -> its execution in the process that submitted it
    acked   \* task id -> whether a cancel() returned True

vars == <<row, events, now, boot, scan, append, exec, acked>>

-----------------------------------------------------------------------------
Live     == {"scheduled", "running", "settling", "settled", "checked", "retaining"}
\* After the runner has ended _execute_inner never awaits again.
Sync     == {"settling", "settled", "checked", "retaining"}
\* finish_task has committed.
Recorded == {"retaining", "unanswered", "returned"}
Phases   == Live \cup {"none", "unanswered", "returned", "lost", "crashed"}

Appends == [task: Tasks, type: {"observation", "cancelling"}, seq: Nat \ {0}]

Snapshots == [task: Tasks, state: Active, owner: Owners \cup {NoOwner},
              lease: Nat \cup {NoLease}, at: Nat]

Executions == [phase: Phases, proc: Procs \cup {NoOwner},
               token: BOOLEAN,      \* the CancellationToken is set
               observed: BOOLEAN,   \* a step has persisted evidence
               count: 3..(MaxEvents - 1), \* TaskContext._event_count
               deadline: Nat,       \* when what it does now is due
               todo: 0..2,          \* terminal observations still to record
               verdict: Terminal, ended: Nat, attempt: 1..2]

NotSubmitted == [phase |-> "none", proc |-> NoOwner, token |-> FALSE,
                 observed |-> FALSE, count |-> 3, deadline |-> 0, todo |-> 0,
                 verdict |-> "failed", ended |-> 0, attempt |-> 1]

TypeOK ==
    /\ StoreTypeOK
    /\ now \in Nat
    /\ boot \in [Procs -> {"down", "opening", "recovering", "up"}]
    /\ scan \in [Procs -> SUBSET Snapshots]
    /\ append \in [Procs -> Appends \cup {NoAppend}]
    /\ exec \in [Tasks -> Executions]
    /\ acked \in [Tasks -> BOOLEAN]

Init ==
    /\ StoreInit
    /\ now = 0
    /\ boot   = [p \in Procs |-> "down"]
    /\ scan   = [p \in Procs |-> {}]
    /\ append = [p \in Procs |-> NoAppend]
    /\ exec   = [t \in Tasks |-> NotSubmitted]
    /\ acked  = [t \in Tasks |-> FALSE]

-----------------------------------------------------------------------------
Owns(p, t) == exec[t].proc = p

\* p is inside a synchronous section of one of its tasks.
Busy(p) ==
    \/ append[p] # NoAppend
    \/ \E t \in Tasks : Owns(p, t) /\ exec[t].phase \in Sync

\* The event loop of p is free to run a callback of task t in phase ph.
Turn(p, t, ph) ==
    /\ boot[p] = "up" /\ ~Busy(p)
    /\ Owns(p, t) /\ exec[t].phase = ph

\* The synchronous section of t goes on.
Continue(p, t, ph) ==
    /\ Owns(p, t) /\ exec[t].phase = ph
    /\ append[p] = NoAppend

\* The coroutine of t is over and its context with it: of a result that was
\* recorded the verdict is left, of anything else nothing.
Over(t, ph) ==
    IF ph \in Recorded
    THEN [NotSubmitted EXCEPT !.phase = ph, !.verdict = exec[t].verdict,
                              !.ended = exec[t].ended]
    ELSE [NotSubmitted EXCEPT !.phase = ph]

\* A variant to be refuted: no time to write the verdict.
Lease_noGrace == now + Duration

Lease == now + Duration + Grace

StartAppend(p, t, type) ==
    append' = [append EXCEPT ![p] = [task |-> t, type |-> type, seq |-> NextSequence(t)]]

\* A variant to be refuted: no room is kept for the verdict.
WithinEventBudget_noRoom(t) == exec[t].count + 1 =< MaxEvents

\* TaskContext keeps room for the cancelling event and the terminal one.
WithinEventBudget(t) == exec[t].count + 2 =< MaxEvents

\* A cancellation adds an observation to whatever else ended the task.
CancelledToo(t) == IF exec[t].token THEN 1 ELSE 0

-----------------------------------------------------------------------------
(* The clock, and processes that come and go.                              *)

\* A live process that is punctual never lets its own work get later than
\* Slack; one that is not may stall for any time.
Tick ==
    /\ now < MaxTime
    /\ Punctual => \A t \in Tasks :
          exec[t].phase \in Live => now < exec[t].deadline + Slack
    /\ now' = now + 1
    /\ UNCHANGED <<row, events, boot, scan, append, exec, acked>>

\* HistoryStore(...): migration is done, retention runs.
Open(p) ==
    /\ boot[p] = "down"
    /\ boot' = [boot EXCEPT ![p] = "opening"]
    /\ Prune(now)
    /\ UNCHANGED <<now, scan, append, exec, acked>>

\* TaskService(...) reads the orphans it is going to close.
ScanOrphans(p) ==
    /\ boot[p] = "opening"
    /\ scan' = [scan EXCEPT ![p] = OrphanSnapshots(now)]
    /\ boot' = [boot EXCEPT ![p] = IF OrphanSnapshots(now) = {} THEN "up" ELSE "recovering"]
    /\ UNCHANGED <<row, events, now, append, exec, acked>>

\* One orphan: closed if its row is still the one the scan read, else left.
RecoverOne(p) ==
    /\ boot[p] = "recovering"
    /\ \E s \in scan[p] :
          /\ \/ RecoverTask(s)
             \/ ~Unchanged(s) /\ UNCHANGED storeVars
          /\ scan' = [scan EXCEPT ![p] = @ \ {s}]
          /\ boot' = [boot EXCEPT ![p] = IF scan[p] = {s} THEN "up" ELSE @]
    /\ UNCHANGED <<now, append, exec, acked>>

\* A write of the recovery fails: the constructor raises, the command ends.
RecoveryFails(p) ==
    /\ StoreFaults
    /\ boot[p] = "recovering"
    /\ boot' = [boot EXCEPT ![p] = "down"]
    /\ scan' = [scan EXCEPT ![p] = {}]
    /\ UNCHANGED <<row, events, now, append, exec, acked>>

\* A command ends with nothing left to run.
Exit(p) ==
    /\ boot[p] = "up" /\ ~Busy(p)
    /\ ~ \E t \in Tasks : Owns(p, t) /\ exec[t].phase \in Live
    /\ boot' = [boot EXCEPT ![p] = "down"]
    /\ UNCHANGED <<row, events, now, scan, append, exec, acked>>

\* The process dies, or its event loop is torn down, between any two steps.
Crash(p) ==
    /\ boot[p] # "down"
    /\ boot'   = [boot EXCEPT ![p] = "down"]
    /\ scan'   = [scan EXCEPT ![p] = {}]
    /\ append' = [append EXCEPT ![p] = NoAppend]
    /\ exec' = [t \in Tasks |->
          IF ~(Owns(p, t) /\ exec[t].phase \in Live) THEN exec[t]
          ELSE Over(t, IF exec[t].phase = "retaining" THEN "unanswered" ELSE "crashed")]
    /\ UNCHANGED <<row, events, now, acked>>

\* get_task, list_tasks and list_events run retention before they read.
ReadHistory(p) ==
    /\ boot[p] = "up" /\ ~Busy(p)
    /\ Prune(now)
    /\ UNCHANGED <<now, boot, scan, append, exec, acked>>

-----------------------------------------------------------------------------
(* The operations of a service.                                            *)

Submit(p, t) ==
    /\ boot[p] = "up" /\ ~Busy(p)
    /\ exec[t].phase = "none" /\ t \notin Legacy
    /\ CreateTask(t, p, Lease, now)
    /\ exec' = [exec EXCEPT ![t] =
          [@ EXCEPT !.phase = "scheduled", !.proc = p, !.deadline = now]]
    /\ UNCHANGED <<now, boot, scan, append, acked>>

\* cancel(): sets the token at once, then writes the event.
Cancel(p, t) ==
    /\ Turn(p, t, "scheduled") \/ Turn(p, t, "running")
    /\ ~exec[t].token
    /\ exec' = [exec EXCEPT ![t].token = TRUE]
    /\ StartAppend(p, t, "cancelling")
    /\ UNCHANGED <<row, events, now, boot, scan, acked>>

\* The INSERT of append_event; its caller learns how it went: cancel()
\* returns True, the runner's record() counts as evidence of the step.
AppendSucceeds(p) ==
    /\ append[p] # NoAppend
    /\ LET t == append[p].task
           type == append[p].type
       IN /\ InsertEvent(t, append[p].seq, type)
          /\ acked' = IF type = "cancelling" THEN [acked EXCEPT ![t] = TRUE] ELSE acked
          /\ exec' = IF type = "observation" /\ exec[t].phase = "running"
                     THEN [exec EXCEPT ![t].observed = TRUE] ELSE exec
    /\ append' = [append EXCEPT ![p] = NoAppend]
    /\ UNCHANGED <<now, boot, scan>>

\* HistoryError: cancel() raises with the token set, record() raises in the
\* runner, a terminal observation is given up.
AppendFails(p) ==
    /\ append[p] # NoAppend
    /\ StoreFaults \/ ~MayInsert(append[p].task, append[p].seq)
    /\ append' = [append EXCEPT ![p] = NoAppend]
    /\ UNCHANGED <<row, events, now, boot, scan, exec, acked>>

-----------------------------------------------------------------------------
(* _execute_inner.                                                         *)

Start(p, t) ==
    /\ Turn(p, t, "scheduled")
    /\ MarkRunning(t, p, Lease, now)
    /\ exec' = [exec EXCEPT ![t] =
          [@ EXCEPT !.phase = "running", !.deadline = now + Duration]]
    /\ UNCHANGED <<now, boot, scan, append, acked>>

\* The runner (or mark_running) has ended: `verdict' is what the task comes
\* to unless its result cannot be built, `todo' the terminal observations.
Ends(t, verdict, todo, token) ==
    exec' = [exec EXCEPT ![t] = [@ EXCEPT !.phase = "settling", !.deadline = now,
                !.verdict = verdict, !.todo = todo, !.token = token]]

StartFails(p, t) ==
    /\ Turn(p, t, "scheduled")
    /\ StoreFaults \/ ~MayStart(t, p)
    /\ Ends(t, "failed", 1 + CancelledToo(t), exec[t].token)
    /\ UNCHANGED <<row, events, now, boot, scan, append, acked>>

Observe(p, t) ==
    /\ Turn(p, t, "running")
    /\ WithinEventBudget(t)
    /\ exec' = [exec EXCEPT ![t].count = @ + 1]
    /\ StartAppend(p, t, "observation")
    /\ UNCHANGED <<row, events, now, boot, scan, acked>>

\* A variant to be refuted: a runner that completed is not asked whether it
\* was cancelled.
RunnerReturns_anyway(p, t) ==
    /\ Turn(p, t, "running")
    /\ exec[t].observed
    /\ Ends(t, "completed", 0, exec[t].token)
    /\ UNCHANGED <<row, events, now, boot, scan, append, acked>>

\* It returns with every step of the plan completed, which takes evidence.
RunnerReturns(p, t) ==
    /\ Turn(p, t, "running")
    /\ exec[t].observed
    /\ IF exec[t].token THEN Ends(t, "cancelled", 1, TRUE)
                        ELSE Ends(t, "completed", 0, FALSE)
    /\ UNCHANGED <<row, events, now, boot, scan, append, acked>>

\* It noticed the token, or its asyncio task was cancelled.
RunnerCancelled(p, t) ==
    /\ Turn(p, t, "running")
    /\ Ends(t, "cancelled", 1, TRUE)
    /\ UNCHANGED <<row, events, now, boot, scan, append, acked>>

\* asyncio.timeout, or an exception (one is a plan left incomplete).
RunnerTimesOut(p, t) ==
    /\ Turn(p, t, "running")
    /\ now >= exec[t].deadline
    /\ Ends(t, "failed", 1 + CancelledToo(t), exec[t].token)
    /\ UNCHANGED <<row, events, now, boot, scan, append, acked>>

RunnerRaises(p, t) ==
    /\ Turn(p, t, "running")
    /\ Ends(t, "failed", 1 + CancelledToo(t), exec[t].token)
    /\ UNCHANGED <<row, events, now, boot, scan, append, acked>>

\* _record_terminal_observation: best effort, and not tried when the event
\* budget is spent.
RecordTerminal(p, t) ==
    /\ Continue(p, t, "settling") /\ exec[t].todo > 0
    /\ \/ /\ WithinEventBudget(t)
          /\ exec' = [exec EXCEPT ![t].todo = @ - 1, ![t].count = @ + 1]
          /\ StartAppend(p, t, "observation")
       \/ /\ ~WithinEventBudget(t)
          /\ exec' = [exec EXCEPT ![t].todo = @ - 1]
          /\ UNCHANGED append
    /\ UNCHANGED <<row, events, now, boot, scan, acked>>

\* _terminal_result: a result over the output budget, or one that cannot be
\* built, is replaced by a failed one.
BuildResult(p, t) ==
    /\ Continue(p, t, "settling") /\ exec[t].todo = 0
    /\ \E v \in {exec[t].verdict, "failed"} :
          exec' = [exec EXCEPT ![t] = [@ EXCEPT !.phase = "settled", !.verdict = v,
                                                !.ended = now]]
    /\ UNCHANGED <<row, events, now, boot, scan, append, acked>>

\* finish_task: the SELECT and its checks, the transaction, the retention.
FinishRead(p, t) ==
    /\ Continue(p, t, "settled")
    /\ MayFinish(t, p)
    /\ exec' = [exec EXCEPT ![t].phase = "checked"]
    /\ UNCHANGED <<row, events, now, boot, scan, append, acked>>

FinishWrite(p, t) ==
    /\ Continue(p, t, "checked")
    /\ FinishTask(t, p, exec[t].verdict, exec[t].ended)
    /\ exec' = [exec EXCEPT ![t].phase = "retaining"]
    /\ UNCHANGED <<now, boot, scan, append, acked>>

\* Variants to be refuted: the result is handed out although it could not be
\* stored, and the store is tried until it works.
FinishFails_returned(p, t) ==
    /\ Continue(p, t, "settled") \/ Continue(p, t, "checked")
    /\ StoreFaults \/ ~MayFinish(t, p)
    /\ exec' = [exec EXCEPT ![t] = Over(t, "returned")]
    /\ UNCHANGED <<row, events, now, boot, scan, append, acked>>

FinishFails_again(p, t) ==
    /\ Continue(p, t, "settled") \/ Continue(p, t, "checked")
    /\ StoreFaults \/ ~MayFinish(t, p)
    /\ exec' = [exec EXCEPT ![t] = [@ EXCEPT !.phase = "settled", !.verdict = "failed"]]
    /\ UNCHANGED <<row, events, now, boot, scan, append, acked>>

\* The first failure is retried once with a failed result; the second one
\* leaves wait() with an exception and the row to the recovery.
FinishFails(p, t) ==
    /\ Continue(p, t, "settled") \/ Continue(p, t, "checked")
    /\ StoreFaults \/ ~MayFinish(t, p)
    /\ exec' = [exec EXCEPT ![t] =
          IF @.attempt = 1
          THEN [@ EXCEPT !.phase = "settled", !.attempt = 2, !.verdict = "failed",
                         !.ended = now]
          ELSE Over(t, "lost")]
    /\ UNCHANGED <<row, events, now, boot, scan, append, acked>>

\* A failing retention only warns; the result is then there for wait().
Return(p, t) ==
    /\ Continue(p, t, "retaining")
    /\ Prune(now) \/ (StoreFaults /\ UNCHANGED storeVars)
    /\ exec' = [exec EXCEPT ![t] = Over(t, "returned")]
    /\ UNCHANGED <<now, boot, scan, append, acked>>

-----------------------------------------------------------------------------
Host(p) ==
    \/ Open(p) \/ ScanOrphans(p) \/ RecoverOne(p) \/ RecoveryFails(p)
    \/ Exit(p) \/ Crash(p) \/ ReadHistory(p)
    \/ AppendSucceeds(p) \/ AppendFails(p)

Execute(p, t) ==
    \/ Start(p, t) \/ StartFails(p, t) \/ Observe(p, t)
    \/ RunnerReturns(p, t) \/ RunnerCancelled(p, t) \/ RunnerTimesOut(p, t)
    \/ RunnerRaises(p, t) \/ RecordTerminal(p, t) \/ BuildResult(p, t)
    \/ FinishRead(p, t) \/ FinishWrite(p, t) \/ FinishFails(p, t) \/ Return(p, t)

Next ==
    \/ Tick
    \/ \E p \in Procs : Host(p)
    \/ \E p \in Procs, t \in Tasks : Submit(p, t) \/ Cancel(p, t) \/ Execute(p, t)

Spec == Init /\ [][Next]_vars

-----------------------------------------------------------------------------
(* Safety.                                                                 *)

Closing == {"recovered", "terminal"}

\* The log of a task and its row tell the same story: a row has a closing
\* event exactly when it is terminal, never two; it has a running event
\* exactly when it was started, never two; the owner's terminal event only
\* follows a start; and "completed" is never without persisted evidence.
\* (finish_task, mark_running and recover_interrupted race on one row.)
LogMatchesRow ==
    \A t \in Tasks :
       LET log  == events[t]
           has(type) == \E i \in DOMAIN log : log[i] = type
       IN /\ row[t].state = "absent" <=> log = << >>
          /\ row[t].state \in Terminal <=> \E i \in DOMAIN log : log[i] \in Closing
          /\ \A i, j \in DOMAIN log :
                \/ log[i] \in Closing /\ log[j] \in Closing
                \/ log[i] = "running" /\ log[j] = "running"
                => i = j
          /\ row[t].state = "running" => has("running")
          /\ row[t].state = "pending" => ~has("running")
          /\ has("terminal") => has("running")
          /\ row[t].state = "completed" => has("terminal") /\ has("observation")

\* A row names an owner and a lease exactly while it is active, so that an
\* active row can always be recovered and a terminal one never is.
OwnedWhileActive ==
    \A t \in Tasks :
       /\ row[t].state \in Active <=> row[t].owner \in Owners
       /\ row[t].state \in Active <=> row[t].lease \in Nat

\* What wait() hands out is what the history holds, under the owner's own
\* terminal event, unless retention has deleted it; nobody else's verdict
\* (a recovery) ever stands in the place of a result given to a caller.
ResultIsDurable ==
    \A t \in Tasks : exec[t].phase \in Recorded =>
       \/ row[t] = Absent
       \/ row[t] = Closed(exec[t].verdict, exec[t].ended)

\* A cancel() that returned True is never answered by "completed", not in
\* the history and not in the result, whatever raced with it.
CancelWins ==
    \A t \in Tasks : acked[t] =>
       /\ row[t].state # "completed"
       /\ exec[t].phase \in Sync \cup Recorded => exec[t].verdict # "completed"

\* The history never holds more events of a task than its plan allows, the
\* transitions, the cancellation and the verdict included.
EventBudget == \A t \in Tasks : Len(events[t]) =< MaxEvents

\* No step of any process changes a verdict; only retention removes it.
VerdictIsFinal ==
    [][\A t \in Tasks : row[t].state \in Terminal =>
          row'[t] = row[t] \/ row'[t] = Absent]_vars

\* Retention deletes a terminal row only if it is too old, or if MaxTasks
\* rows at least as recent are kept; never a row somebody still owns.
RetentionKeepsRecent ==
    [][\A t \in Tasks : row[t] # Absent /\ row'[t] = Absent =>
          /\ row[t].state \in Terminal
          /\ \/ row[t].updated + MaxAge < now
             \/ Cardinality({s \in Tasks : /\ row'[s].state \in Terminal
                                           /\ row'[s].updated >= row[t].updated})
                  >= MaxTasks]_vars

\* With processes that keep to Slack, nobody recovers a task that its owner
\* is still running: the lease of submit() lasts until mark_running()
\* extends it, and that one until the verdict is written.
LiveOwnerKeepsTask ==
    Punctual => \A t \in Tasks :
       exec[t].phase \in Live \ {"retaining"} =>
          row[t].state \in Active /\ row[t].owner = exec[t].proc

\* With such processes the verdict also ends the log: no late observation
\* or cancellation event of a stalled owner is written after it.
VerdictEndsLog ==
    Punctual => \A t \in Tasks : \A i \in DOMAIN events[t] :
       events[t][i] \in Closing => i = Len(events[t])

-----------------------------------------------------------------------------
(* What the service implements.                                            *)

Used(t) == exec[t].phase # "none" \/ t \in Legacy

\* The record's variables, of the rows and the executions.
recordStage == [t \in Tasks |->
    IF row[t].state \in Active THEN row[t].state
    ELSE IF row[t].state \in Terminal THEN "settled"
    ELSE IF Used(t) THEN "forgotten" ELSE "absent"]

recordVerdict == [t \in Tasks |->
    IF row[t].state \in Terminal THEN row[t].state
    ELSE IF row[t].state \in Active \/ ~Used(t) THEN "none"
    ELSE IF exec[t].phase \in Recorded THEN exec[t].verdict ELSE "failed"]

recordTold == [t \in Tasks |-> exec[t].phase = "returned"]

Record == INSTANCE TaskRecord WITH
    NoVerdict <- "none", stage <- recordStage, verdict <- recordVerdict,
    promised <- acked, told <- recordTold

\* Every behaviour of the service is one the task record allows.
ImplementsRecord == Record!Spec

-----------------------------------------------------------------------------
(* Liveness.                                                               *)

\* A process that is up runs its event loop; the clock runs; commands end and
\* somebody runs Mercury again; and a recovery that is tried over and over is
\* not cut short each time by a crash or a failing write.
Fairness ==
    /\ WF_vars(Tick)
    /\ \A p \in Procs :
          /\ WF_vars(Open(p)) /\ WF_vars(Exit(p))
          /\ SF_vars(ScanOrphans(p)) /\ SF_vars(RecoverOne(p))
          /\ WF_vars(AppendSucceeds(p) \/ AppendFails(p))
    /\ \A p \in Procs, t \in Tasks :
          /\ WF_vars(Start(p, t) \/ StartFails(p, t))
          /\ WF_vars(RunnerTimesOut(p, t))
          /\ WF_vars(RecordTerminal(p, t)) /\ WF_vars(BuildResult(p, t))
          /\ WF_vars(FinishRead(p, t) \/ FinishFails(p, t))
          /\ WF_vars(FinishWrite(p, t) \/ FinishFails(p, t))
          /\ WF_vars(Return(p, t))

FairSpec == Spec /\ Fairness

\* A submitted task whose process survives is answered: with a result, or
\* with the exception of a history that failed twice.  (A deadline beyond
\* the clock's bound never comes in the model.)
EveryTaskAnswered ==
    \A t \in Tasks : exec[t].phase \in Live ~>
       \/ exec[t].phase \in {"returned", "lost", "crashed", "unanswered"}
       \/ exec[t].phase = "running" /\ exec[t].deadline > MaxTime

\* No task stays active for ever, whoever crashed or failed on the way: a
\* row whose lease ends within the clock's bound is settled or extended.
EveryRowSettles ==
    \A t \in Tasks :
       row[t].state \in Active /\ row[t].lease < MaxTime
          ~> \/ row[t].state \notin Active
             \/ row[t].lease >= MaxTime
=============================================================================
