------------------------------- MODULE WebBroker -------------------------------
(***************************************************************************)
(* WebTaskBroker (src/mercury/web/__init__.py): threads of HTTP requests,  *)
(* and one thread with an event loop that runs a coroutine of the facade   *)
(* per task.  What the threads ask for goes through call_soon_threadsafe   *)
(* into the loop's queue of callbacks, which it takes in order, one at a   *)
(* time; between two of them a synchronous section (SQLite waits for a     *)
(* lock up to five seconds) may take longer than the two that submit()     *)
(* waits for.                                                              *)
(*                                                                         *)
(* A facade waits for its own I/O ("direct": status, the compiler of a     *)
(* diagnosis, both peer runs) or for a task of TaskService, whose promise  *)
(* is TaskRecord's: it ends, and not cancelled unless it was told so.      *)
(***************************************************************************)
EXTENDS Naturals, Sequences, SequencesExt

CONSTANTS
    Tasks,      \* identifiers, one for each POST
    MaxDeletes  \* bound of the DELETEs of a task that are answered with 202

VARIABLES
    state,      \* _WebTask.state, "absent" before submit()
    held,       \* what _WebTask.result holds, "error" for _WebTask.error
    post,       \* what the caller of submit() knows
    deletes,    \* DELETEs that were answered with 202, by task
    ready,      \* the loop's queue
    loop,       \* the thread of the loop
    drained,    \* tasks that _run waits for at the end
    task,       \* where the asyncio task of _execute is
    hit,        \* its next step throws CancelledError
    service,    \* the task of TaskService it has submitted
    told        \* tasks whose service was told to cancel

threads == <<post, deletes>>
record  == <<state, held>>
thread  == <<loop, drained>>
run     == <<task, hit>>
inner   == <<service, told>>
vars    == <<threads, record, ready, thread, run, inner>>

-----------------------------------------------------------------------------
Verdicts == {"completed", "failed", "cancelled"}
Awaits == {"direct", "serving", "absorbing", "fetching"}

TypeOK ==
    /\ state \in [Tasks -> Verdicts \cup {"absent", "accepted", "running"}]
    /\ held \in [Tasks -> Verdicts \cup {"none", "error"}]
    /\ post \in [Tasks -> {"none", "waiting", "accepted", "refused", "raised"}]
    /\ deletes \in [Tasks -> 0..MaxDeletes]
    /\ \A i \in DOMAIN ready : ready[i] \in {"schedule", "step", "cancel", "fetch"} \X Tasks
                                            \cup {<<"stop">>}
    /\ loop \in {"running", "closing", "stopping", "draining", "closed"}
    /\ drained \subseteq Tasks
    /\ task \in [Tasks -> Awaits \cup {"none", "created", "done"}]
    /\ hit \in [Tasks -> BOOLEAN]
    /\ service \in [Tasks -> Verdicts \cup {"none", "running", "raised"}]
    /\ told \subseteq Tasks

Init ==
    /\ state = [t \in Tasks |-> "absent"] /\ held = [t \in Tasks |-> "none"]
    /\ post = [t \in Tasks |-> "none"] /\ deletes = [t \in Tasks |-> 0]
    /\ ready = <<>> /\ loop = "running" /\ drained = {}
    /\ task = [t \in Tasks |-> "none"] /\ hit = [t \in Tasks |-> FALSE]
    /\ service = [t \in Tasks |-> "none"] /\ told = {}

Alive(t) == task[t] \notin {"none", "done"}
Wake(queue, t) ==
    IF <<"step", t>> \in Range(queue) THEN queue ELSE Append(queue, <<"step", t>>)

-----------------------------------------------------------------------------
(* The threads of requests.                                                *)

\* submit() as far as its wait.  On a closed loop call_soon_threadsafe raises,
\* after the record was put into the table.
Post(t) ==
    /\ post[t] = "none"
    /\ state' = [state EXCEPT ![t] = "accepted"]
    /\ IF loop = "closed"
       THEN post' = [post EXCEPT ![t] = "raised"] /\ UNCHANGED ready
       ELSE post' = [post EXCEPT ![t] = "waiting"] /\ ready' = Append(ready, <<"schedule", t>>)
    /\ UNCHANGED <<held, deletes, thread, run, inner>>

\* The event is set or two seconds are over: record.task says which.
Posted(t) ==
    /\ post[t] = "waiting"
    /\ post' = [post EXCEPT ![t] = IF task[t] = "none" THEN "refused" ELSE "accepted"]
    /\ UNCHANGED <<record, deletes, ready, thread, run, inner>>

\* A variant to be refuted: a cancel overtakes what is queued.
Delete_ahead(t) ==
    /\ Alive(t) /\ loop # "closed"
    /\ deletes[t] < MaxDeletes
    /\ deletes' = [deletes EXCEPT ![t] = @ + 1]
    /\ ready' = <<<<"cancel", t>>>> \o ready
    /\ UNCHANGED <<post, record, thread, run, inner>>

\* cancel() that returns True; otherwise it changes nothing.
Delete(t) ==
    /\ Alive(t) /\ loop # "closed"
    /\ deletes[t] < MaxDeletes
    /\ deletes' = [deletes EXCEPT ![t] = @ + 1]
    /\ ready' = Append(ready, <<"cancel", t>>)
    /\ UNCHANGED <<post, record, thread, run, inner>>

\* close(), of which the caller gives up the join after three seconds.
Close ==
    /\ loop = "running"
    /\ loop' = "closing" /\ ready' = Append(ready, <<"stop">>)
    /\ UNCHANGED <<threads, record, drained, run, inner>>

-----------------------------------------------------------------------------
(* The callbacks of the loop.                                              *)

Takes(callback) ==
    /\ loop # "closed" /\ ready # <<>> /\ Head(ready) = callback

\* schedule(): the new task's first step is queued behind what is queued already.
Schedule(t) ==
    /\ Takes(<<"schedule", t>>)
    /\ task' = [task EXCEPT ![t] = "created"]
    /\ ready' = Append(Tail(ready), <<"step", t>>)
    /\ UNCHANGED <<threads, record, thread, hit, inner>>

\* task.cancel(): what the task waits for is cancelled, which wakes it.
Cancel(t) ==
    /\ Takes(<<"cancel", t>>)
    /\ IF Alive(t)
       THEN hit' = [hit EXCEPT ![t] = TRUE] /\ ready' = Wake(Tail(ready), t)
       ELSE UNCHANGED hit /\ ready' = Tail(ready)
    /\ UNCHANGED <<threads, record, thread, task, inner>>

\* A step of the task of _execute ends in an await of the kind at.
Suspends(t, at) ==
    /\ task' = [task EXCEPT ![t] = at] /\ hit' = [hit EXCEPT ![t] = FALSE]
    /\ UNCHANGED record

\* It ends _execute: the facade has returned a result, or raised.
Ends(t, verdict, what) ==
    /\ task' = [task EXCEPT ![t] = "done"] /\ hit' = [hit EXCEPT ![t] = FALSE]
    /\ state' = [state EXCEPT ![t] = verdict] /\ held' = [held EXCEPT ![t] = what]

Returns(t, verdict) == Ends(t, verdict, verdict)
Raises(t) == Ends(t, "failed", "error")
Interrupted(t) == Ends(t, "cancelled", "none")

\* submit_diagnosis and what is like it, and the first wait of service.wait().
Submits(t) ==
    /\ service' = [service EXCEPT ![t] = "running"] /\ UNCHANGED told
    /\ Suspends(t, "serving")

\* The task's first step.  One that is cancelled before it never enters _execute.
Begin(t) ==
    /\ Takes(<<"step", t>>) /\ task[t] = "created"
    /\ ready' = Tail(ready)
    /\ IF hit[t]
       THEN /\ task' = [task EXCEPT ![t] = "done"] /\ hit' = [hit EXCEPT ![t] = FALSE]
            /\ UNCHANGED <<record, inner>>
       ELSE \/ Raises(t) /\ UNCHANGED inner
            \/ /\ state' = [state EXCEPT ![t] = "running"] /\ UNCHANGED <<held, hit>>
               /\ \/ task' = [task EXCEPT ![t] = "direct"] /\ UNCHANGED inner
                  \/ /\ task' = [task EXCEPT ![t] = "serving"]
                     /\ service' = [service EXCEPT ![t] = "running"] /\ UNCHANGED told
    /\ UNCHANGED <<threads, thread>>

\* The facade's own I/O is over, or cancelled.
Direct(t) ==
    /\ Takes(<<"step", t>>) /\ task[t] = "direct"
    /\ ready' = Tail(ready)
    /\ IF hit[t] THEN Interrupted(t) /\ UNCHANGED inner
       ELSE \/ \E verdict \in {"completed", "failed"} : Returns(t, verdict) /\ UNCHANGED inner
            \/ Raises(t) /\ UNCHANGED inner
            \/ Submits(t)
    /\ UNCHANGED <<threads, thread>>

\* The end of wait()'s except clause: the service's task is done, its exception is
\* raised, or the facade asks for the stored result in a shielded task of its own.
\* close() may cancel that task before its first step: then the exception is a
\* CancelledError again.
Leaves(t) ==
    IF service[t] = "raised"
    THEN ready' = Tail(ready) /\ (Raises(t) \/ (loop = "draining" /\ Interrupted(t)))
    ELSE Suspends(t, "fetching") /\ ready' = Append(Tail(ready), <<"fetch", t>>)

\* The token is set, and the event of it is written.  Then the service's task is
\* cancelled, and wait() stays.  If the event cannot be written, that error leaves wait()
\* and the facade, whose store is closed: nobody waits for the service's task any more.
PassesOn(t) ==
    /\ told' = told \cup {t}
    /\ Suspends(t, "absorbing") \/ Raises(t)

\* wait(): a CancelledError is passed on to the service's task.
Serving(t) ==
    /\ Takes(<<"step", t>>) /\ task[t] = "serving"
    /\ IF ~hit[t]
       THEN /\ IF service[t] = "raised" THEN Raises(t) ELSE Returns(t, service[t])
            /\ ready' = Tail(ready) /\ UNCHANGED told
       ELSE IF service[t] = "running"
       THEN PassesOn(t) /\ ready' = Tail(ready)
       ELSE Leaves(t) /\ UNCHANGED told
    /\ UNCHANGED <<threads, thread, service>>

\* A variant to be refuted: a further cancellation ends the wait.
Absorbing_twice(t) ==
    /\ Takes(<<"step", t>>) /\ task[t] = "absorbing"
    /\ IF hit[t] THEN Interrupted(t) /\ ready' = Tail(ready)
       ELSE IF service[t] = "running" THEN Suspends(t, "absorbing") /\ ready' = Tail(ready)
       ELSE Leaves(t)
    /\ UNCHANGED <<threads, thread, inner>>

\* Its loop: any further CancelledError is swallowed until the task is done.
Absorbing(t) ==
    /\ Takes(<<"step", t>>) /\ task[t] = "absorbing"
    /\ IF service[t] = "running" THEN Suspends(t, "absorbing") /\ ready' = Tail(ready)
       ELSE Leaves(t)
    /\ UNCHANGED <<threads, thread, inner>>

\* The shielded task finds the result; the facade's await of it can be cancelled.
Fetch(t) ==
    /\ Takes(<<"fetch", t>>)
    /\ ready' = IF task[t] = "fetching" THEN Wake(Tail(ready), t) ELSE Tail(ready)
    /\ UNCHANGED <<threads, record, thread, run, inner>>

Fetching(t) ==
    /\ Takes(<<"step", t>>) /\ task[t] = "fetching"
    /\ ready' = Tail(ready)
    /\ IF hit[t] THEN Interrupted(t) ELSE Returns(t, service[t])
    /\ UNCHANGED <<threads, thread, inner>>

Stop ==
    /\ Takes(<<"stop">>)
    /\ loop' = "stopping" /\ ready' = Tail(ready)
    /\ UNCHANGED <<threads, record, drained, run, inner>>

-----------------------------------------------------------------------------
(* What the loop waits for, and its end.                                   *)

Arrives(t) ==
    /\ loop # "closed" /\ task[t] = "direct" /\ <<"step", t>> \notin Range(ready)
    /\ ready' = Wake(ready, t)
    /\ UNCHANGED <<threads, record, thread, run, inner>>

\* A task of TaskService runs, and its _execute has ended.
Orphan(t) == task[t] = "done" /\ service[t] = "running"

\* The task of TaskService ends, and wakes who waits for it.  That of an orphan raises:
\* its verdict cannot be written to a store that is closed.
ServiceEnds(t) ==
    /\ loop # "closed" /\ service[t] = "running"
    /\ IF Orphan(t)
       THEN service' = [service EXCEPT ![t] = "raised"] /\ UNCHANGED ready
       ELSE /\ \E end \in {"completed", "failed", "raised"}
                           \cup {v \in {"cancelled"} : t \in told} :
                  service' = [service EXCEPT ![t] = end]
            /\ ready' = Wake(ready, t)
    /\ UNCHANGED <<threads, record, thread, run, told>>

\* _run after run_forever: every task there is is cancelled, those of TaskService too.
\* What is still queued, and what comes, is run until those tasks are done.
Drain ==
    /\ loop = "stopping"
    /\ loop' = "draining"
    /\ drained' = {t \in Tasks : Alive(t) \/ Orphan(t)}
    /\ hit' = [t \in Tasks |-> Alive(t)]
    /\ told' = told \cup {t \in Tasks : service[t] = "running"}
    /\ ready' = ready \o SetToSeq({<<"step", t>> : t \in {u \in Tasks : Alive(u)}} \ Range(ready))
    /\ UNCHANGED <<threads, record, task, service>>

Closed ==
    /\ loop = "draining" /\ \A t \in drained : ~Alive(t) /\ ~Orphan(t)
    /\ loop' = "closed"
    /\ UNCHANGED <<threads, record, ready, drained, run, inner>>

-----------------------------------------------------------------------------
Callback ==
    \/ Stop
    \/ \E t \in Tasks :
          \/ Schedule(t) \/ Cancel(t) \/ Begin(t) \/ Direct(t) \/ Serving(t)
          \/ Absorbing(t) \/ Fetch(t) \/ Fetching(t)

Next ==
    \/ Callback \/ Close \/ Drain \/ Closed
    \/ \E t \in Tasks :
          Post(t) \/ Posted(t) \/ Delete(t) \/ Arrives(t) \/ ServiceEnds(t)

Spec == Init /\ [][Next]_vars

\* The loop goes on with its queue, its I/O and the service's tasks end, and a
\* thread that waits for an event with a timeout goes on.
Fairness ==
    /\ WF_vars(Callback) /\ WF_vars(Drain) /\ WF_vars(Closed)
    /\ \A t \in Tasks : WF_vars(Posted(t)) /\ WF_vars(Arrives(t)) /\ WF_vars(ServiceEnds(t))

FairSpec == Spec /\ Fairness

-----------------------------------------------------------------------------
\* However often a task is cancelled, by DELETEs or by close(), its store is closed over
\* a task of TaskService that is running only when somebody asked to cancel it, and then
\* nothing is hidden: the service's task has its token set and will not go on, and the
\* record shows a failure, not the end of a cancellation that was carried out.
OrphanIsShown ==
    \A t \in Tasks : Orphan(t) =>
       /\ t \in told /\ (deletes[t] > 0 \/ loop # "running")
       /\ state[t] = "failed" /\ held[t] = "error"

Promise == INSTANCE WebTask WITH
    view <- [t \in Tasks |-> <<state[t], held[t]>>],
    asked <- {t \in Tasks : deletes[t] > 0 \/ loop # "running"},
    open <- loop = "running"

\* The broker keeps what WebTask promises of snapshots: states in order, nothing cancelled
\* that nobody cancelled, and an end for every task of a broker that is not closed.  A
\* task whose POST was refused is no exception.
ImplementsWebTask == Promise!TaskSpec

\* close() comes to the end of the thread.
CloseEnds == loop = "closing" ~> loop = "closed"

=============================================================================
