----------------------------- MODULE TaskContext -----------------------------
(***************************************************************************)
(* A running task seen from inside.  The coroutines of its runner (the     *)
(* worker pool of a full discovery, the concurrent senders of a coverage   *)
(* run, the one coroutine of a sequential runner) share a TaskContext      *)
(* (src/mercury/tasks.py): it admits the steps of the plan under an        *)
(* asyncio.Lock, paces them, and completes a step only with evidence.      *)
(*                                                                         *)
(* A step of this module is what a coroutine does between two awaits.  The *)
(* three cost reservations of admit() sum the costs of distinct steps of   *)
(* the plan and compare them with the plan's own total; they refuse        *)
(* nothing beyond what admitting a step once does, and are left out.       *)
(***************************************************************************)
EXTENDS Integers, Sequences, FiniteSets

CONSTANTS
    Workers,        \* the coroutines a runner may have
    NSteps,         \* logical_attempts of the plan
    Targets,        \* the addresses of its steps
    TargetOf,       \* step -> its address
    Hostnames,      \* steps whose name is resolved again at admission
    Gap,            \* 1 / max_global_rate, in ticks
    TargetGap,      \* 1 / max_target_rate, in ticks
    MaxConcurrency, \* max_concurrency of the plan
    MaxEvents,      \* max_events of the plan
    Duration,       \* max_duration_s of the plan, in ticks
    ScopeEnds,      \* expires_at of its ScopeGrant, in ticks
    NoWorker,       \* no worker has raised
    MaxTime         \* bound of the clock

Steps == 1..NSteps

ASSUME PlanAssumption ==
    /\ NSteps \in Nat /\ TargetOf \in [Steps -> Targets] /\ Hostnames \subseteq Steps
    /\ MaxEvents \in Nat /\ MaxEvents >= NSteps + 5
ASSUME RateAssumption == Gap \in Nat /\ TargetGap \in Nat
ASSUME LimitAssumption == {MaxConcurrency, Duration, ScopeEnds, MaxTime} \subseteq Nat
\* DiscoveryRunner starts at most max_concurrency workers, and a coverage run
\* has no more profiles than its plan allows in flight.
ASSUME PoolAssumption ==
    /\ IsFiniteSet(Workers) /\ NoWorker \notin Workers
    /\ Cardinality(Workers) =< MaxConcurrency

VARIABLES
    now,        \* the clock, wall and monotonic
    token,      \* the CancellationToken is set
    worker,     \* coroutine -> where it awaits, and for what
    queue,      \* who holds _admission_lock (first) and who waits for it
    taken,      \* how far the iterator the coroutines share has come
    nextGlobal, \* _next_global_start
    nextTarget, \* _next_target_start
    started,    \* step -> when it was admitted
    observed,   \* _observed_steps
    completed,  \* _completed_steps
    count,      \* _event_count
    raised,     \* the coroutine whose exception gather hands to the runner
    verdict     \* what _execute_inner recorded

slots    == <<nextGlobal, nextTarget, started>>
evidence == <<observed, completed, count>>
vars     == <<now, token, worker, queue, taken, slots, evidence, raised, verdict>>

-----------------------------------------------------------------------------
\* With the lock held a coroutine awaits the resolver, or sleeps until its
\* slot; the timer of the slot may have fired without its having run yet.
Holding == {"resolving", "pacing", "woken"}
\* Over: by the end of the plan, a cancellation of its asyncio task, or an
\* exception: CooperativeCancellation, a refusal of the context, any other.
Raised == {"cancelled", "refused", "failed"}
Over   == {"finished", "stopped"} \cup Raised
Phases == {"idle", "locking", "probing"} \cup Holding \cup Over

Coroutines == [phase: Phases, step: 0..NSteps,
               due: Nat,     \* when the timer it sleeps on fires
               asked: Nat]   \* the instant its scope is checked against

Admitted == DOMAIN started
InFlight == Admitted \ completed

TypeOK ==
    /\ now \in Nat /\ token \in BOOLEAN
    /\ worker \in [Workers -> Coroutines]
    /\ queue \in Seq(Workers)
    /\ taken \in 0..NSteps
    /\ nextGlobal \in Nat /\ nextTarget \in [Targets -> Nat]
    /\ Admitted \subseteq Steps /\ started \in [Admitted -> Nat]
    /\ observed \subseteq Steps /\ completed \subseteq Steps
    /\ count \in 3..(MaxEvents - 1)
    /\ raised \in Workers \cup {NoWorker}
    /\ verdict \in {"none", "completed", "failed", "cancelled"}

\* The coroutines given to asyncio.gather, or the one of a sequential runner;
\* there are no others.
Started(pool) ==
    [w \in Workers |-> [phase |-> IF w \in pool THEN "idle" ELSE "finished",
                        step |-> 0, due |-> 0, asked |-> 0]]

Init ==
    /\ now = 0 /\ token = FALSE
    /\ \E pool \in SUBSET Workers : pool # {} /\ worker = Started(pool)
    /\ queue = << >> /\ taken = 0
    /\ nextGlobal = 0 /\ nextTarget = [a \in Targets |-> 0]
    /\ started = << >> /\ observed = {} /\ completed = {}
    /\ count = 3
    /\ raised = NoWorker /\ verdict = "none"

-----------------------------------------------------------------------------
At(w, ph) == worker[w].phase = ph
Goes(w, ph) == worker' = [worker EXCEPT ![w].phase = ph]

\* A variant to be refuted: admission without a lock.
Holds_anyway(w) == \E i \in DOMAIN queue : queue[i] = w

\* asyncio.Lock is handed on in the order of arrival.
Holds(w) == queue # << >> /\ Head(queue) = w

\* A variant to be refuted: an admission that raises keeps the lock.
Release_never == UNCHANGED queue

Release == queue' = Tail(queue)

Checkpoint == ~token

\* A variant to be refuted: what completed is still counted as in flight.
Refuses_completed(s) ==
    \/ s \in Admitted
    \/ Cardinality(Admitted) >= NSteps
    \/ Cardinality(Admitted) >= MaxConcurrency

\* The ceilings of admit().
Refuses(s) ==
    \/ s \in Admitted
    \/ Cardinality(Admitted) >= NSteps
    \/ Cardinality(InFlight) >= MaxConcurrency

\* A variant to be refuted: the scope's last instant is still inside.
ScopeCurrent_atEnd(at) == at =< ScopeEnds

\* assert_current.
ScopeCurrent(at) == at < ScopeEnds

StartAt(s) ==
    LET earliest == {now, nextGlobal, nextTarget[TargetOf[s]]}
    IN CHOOSE t \in earliest : \A u \in earliest : u =< t

\* gather hands on the exception of the first coroutine that raises one, and
\* lets the others run.
Raises(w, how) ==
    /\ Goes(w, how)
    /\ raised' = IF raised = NoWorker THEN w ELSE raised
    /\ UNCHANGED <<now, token, taken, slots, verdict>>

RaisesHolding(w, how) == Raises(w, how) /\ Release /\ UNCHANGED evidence

\* The end of admit(): the slot is used up and the lock free; the coroutine
\* opens its socket before it awaits again.
Admit(w, s) ==
    /\ nextGlobal' = now + Gap
    /\ nextTarget' = [nextTarget EXCEPT ![TargetOf[s]] = now + TargetGap]
    /\ started' = [r \in Admitted \cup {s} |-> IF r = s THEN now ELSE started[r]]
    /\ Goes(w, "probing")
    /\ Release
    /\ UNCHANGED <<now, token, taken, evidence, raised, verdict>>

\* A variant to be refuted: a slot that is free now takes no checkpoint.
Pace_unchecked(w, s) ==
    \/ StartAt(s) = now /\ Admit(w, s)
    \/ ~Checkpoint /\ StartAt(s) > now /\ RaisesHolding(w, "cancelled")
    \/ /\ Checkpoint /\ StartAt(s) > now
       /\ worker' = [worker EXCEPT ![w].phase = "pacing", ![w].due = StartAt(s)]
       /\ UNCHANGED <<now, token, queue, taken, slots, evidence, raised, verdict>>

\* Preflight has passed: a checkpoint, then now or asleep until the slot.
Pace(w, s) ==
    \/ ~Checkpoint /\ RaisesHolding(w, "cancelled")
    \/ Checkpoint /\ StartAt(s) = now /\ Admit(w, s)
    \/ /\ Checkpoint /\ StartAt(s) > now
       /\ worker' = [worker EXCEPT ![w].phase = "pacing", ![w].due = StartAt(s)]
       /\ UNCHANGED <<now, token, queue, taken, slots, evidence, raised, verdict>>

-----------------------------------------------------------------------------
(* The coroutines.                                                         *)

\* next(steps), and admit() as far as the lock.
Take(w) ==
    /\ At(w, "idle") /\ taken < NSteps
    /\ taken' = taken + 1
    /\ \/ /\ Checkpoint
          /\ worker' = [worker EXCEPT ![w].phase = "locking", ![w].step = taken + 1]
          /\ queue' = Append(queue, w)
          /\ UNCHANGED raised
       \/ /\ ~Checkpoint
          /\ Goes(w, "cancelled")
          /\ raised' = IF raised = NoWorker THEN w ELSE raised
          /\ UNCHANGED queue
    /\ UNCHANGED <<now, token, slots, evidence, verdict>>

Finish(w) ==
    /\ At(w, "idle") /\ taken = NSteps
    /\ Goes(w, "finished")
    /\ UNCHANGED <<now, token, queue, taken, slots, evidence, raised, verdict>>

\* The lock is w's: the refusals, and the preflight as of this instant.  A
\* name is resolved first, unless the deadline leaves no time for it.
Preflight(w) ==
    /\ At(w, "locking") /\ Holds(w)
    /\ LET s == worker[w].step IN
       \/ ~Checkpoint /\ RaisesHolding(w, "cancelled")
       \/ Checkpoint /\ Refuses(s) /\ RaisesHolding(w, "refused")
       \/ /\ Checkpoint /\ ~Refuses(s) /\ s \notin Hostnames
          /\ \/ ScopeCurrent(now) /\ Pace(w, s)
             \/ ~ScopeCurrent(now) /\ RaisesHolding(w, "failed")
       \/ /\ Checkpoint /\ ~Refuses(s) /\ s \in Hostnames
          /\ \/ now >= Duration /\ RaisesHolding(w, "failed")
             \/ /\ now < Duration
                /\ worker' = [worker EXCEPT ![w].phase = "resolving", ![w].asked = now]
                /\ UNCHANGED <<now, token, queue, taken, slots, evidence, raised, verdict>>

\* The resolver fails or its answer has changed; or the scope, as of the
\* instant before the resolution, still covers the step.
Resolved(w) ==
    /\ At(w, "resolving")
    /\ \/ RaisesHolding(w, "failed")
       \/ ScopeCurrent(worker[w].asked) /\ Pace(w, worker[w].step)

\* wait_or_timeout: the token wakes the sleeper, or its timer does; what the
\* timer has woken no longer asks for the token when it runs.
Interrupted(w) ==
    /\ At(w, "pacing") /\ ~Checkpoint
    /\ RaisesHolding(w, "cancelled")

TimerFires(w) ==
    /\ At(w, "pacing") /\ Checkpoint
    /\ now >= worker[w].due
    /\ Goes(w, "woken")
    /\ UNCHANGED <<now, token, queue, taken, slots, evidence, raised, verdict>>

Resumes(w) == At(w, "woken") /\ Admit(w, worker[w].step)

\* The probe's answer: recorded, then completed; or the probe, the budgets or
\* the history raise, and the step stays in flight without evidence.
Probed(w) ==
    /\ At(w, "probing")
    /\ \/ /\ count + 2 =< MaxEvents
          /\ Goes(w, "idle")
          /\ observed'  = observed \cup {worker[w].step}
          /\ completed' = completed \cup {worker[w].step}
          /\ count' = count + 1
          /\ UNCHANGED <<now, token, queue, taken, slots, raised, verdict>>
       \/ /\ count + 2 > MaxEvents
          /\ Raises(w, "refused")
          /\ UNCHANGED <<queue, evidence>>
       \/ /\ count + 2 =< MaxEvents
          /\ Raises(w, "failed")
          /\ count' \in {count, count + 1}
          /\ UNCHANGED <<queue, observed, completed>>

-----------------------------------------------------------------------------
(* The task around them.                                                   *)

Tick ==
    /\ now < MaxTime
    /\ now' = now + 1
    /\ UNCHANGED <<token, worker, queue, taken, slots, evidence, raised, verdict>>

\* TaskService.cancel().
Cancel ==
    /\ verdict = "none" /\ ~token
    /\ token' = TRUE
    /\ UNCHANGED <<now, worker, queue, taken, slots, evidence, raised, verdict>>

\* Cancelled by asyncio, every coroutine that is not over ends at its await,
\* and leaves the lock.
StopAll ==
    /\ worker' = [w \in Workers |-> IF worker[w].phase \in Over THEN worker[w]
                                    ELSE [worker[w] EXCEPT !.phase = "stopped"]]
    /\ queue' = << >>
    /\ UNCHANGED <<now, taken, slots, raised>>

\* The terminal observations of the task, at most n: each takes an event if
\* the event budget and the result have room for it.
Concludes(n) ==
    /\ count' \in {c \in count..(count + n) : c < MaxEvents}
    /\ UNCHANGED <<observed, completed>>

\* A cancellation is recorded besides whatever else ended the runner.
Endings == IF token THEN 2 ELSE 1

\* The runner's own task is cancelled, or runs into asyncio.timeout.
CancelTask ==
    /\ verdict = "none" /\ raised = NoWorker
    /\ StopAll /\ Concludes(1)
    /\ token' = TRUE /\ verdict' = "cancelled"

TimesOut ==
    /\ verdict = "none" /\ raised = NoWorker
    /\ now >= Duration
    /\ StopAll /\ Concludes(Endings)
    /\ verdict' = "failed" /\ UNCHANGED token

\* The exception of a coroutine reaches _execute_inner, which records the
\* verdict at once while the other coroutines go on.  It takes an iteration
\* of the event loop or more: whoever a timer has woken has run by then.
RunnerRaises ==
    /\ verdict = "none" /\ raised # NoWorker
    /\ \A w \in Workers : ~At(w, "woken")
    /\ \/ verdict' = IF At(raised, "cancelled") THEN "cancelled" ELSE "failed"
       \/ now >= Duration /\ verdict' = "failed"
    /\ Concludes(IF verdict' = "failed" THEN Endings ELSE 1)
    /\ UNCHANGED <<now, token, worker, queue, taken, slots, raised>>

RunnerReturns ==
    /\ verdict = "none"
    /\ \A w \in Workers : At(w, "finished")
    /\ verdict' = IF token THEN "cancelled"
                  ELSE IF completed = Steps THEN "completed" ELSE "failed"
    /\ Concludes(IF verdict' = "completed" THEN 0 ELSE 1)
    /\ UNCHANGED <<now, token, worker, queue, taken, slots, raised>>

\* asyncio.run ends after the answer and cancels what the runner left behind.
\* The loop of a peer agent or of the web server goes on, and never does.
Teardown ==
    /\ verdict # "none"
    /\ \E w \in Workers : worker[w].phase \notin Over
    /\ StopAll
    /\ UNCHANGED <<evidence, token, verdict>>

-----------------------------------------------------------------------------
Coroutine(w) ==
    \/ Take(w) \/ Finish(w) \/ Preflight(w) \/ Resolved(w) \/ Interrupted(w)
    \/ TimerFires(w) \/ Resumes(w) \/ Probed(w)

Next ==
    \/ Tick \/ Cancel \/ CancelTask \/ TimesOut
    \/ RunnerRaises \/ RunnerReturns \/ Teardown
    \/ \E w \in Workers : Coroutine(w)

Spec == Init /\ [][Next]_vars

-----------------------------------------------------------------------------
(* Safety.                                                                 *)

Apart(s, r, gap) == started[s] - started[r] >= gap \/ started[r] - started[s] >= gap

\* Any two attempts start at least 1 / max_global_rate apart, and two at the
\* same address 1 / max_target_rate, whichever coroutines admit them, however
\* late they run, and whether the task is still going on or not.
RateCeiling ==
    \A s, r \in Admitted : s # r =>
       /\ Apart(s, r, Gap)
       /\ TargetOf[s] = TargetOf[r] => Apart(s, r, TargetGap)

\* A runner of no more coroutines than max_concurrency never runs into a
\* ceiling of its own validated plan, even when one of them has left a step
\* in flight for good: neither into admit()'s nor into the event budget.
\* (The verdict's own events come after it, and may leave none for the rest.)
NeverRefused == verdict = "none" => \A w \in Workers : ~At(w, "refused")

\* "completed" is a verdict about every step of the plan: each was completed,
\* each with persisted evidence, and no coroutine is left behind.
CompletedIsWhole ==
    verdict = "completed" =>
       /\ observed = Steps /\ InFlight = {}
       /\ \A w \in Workers : At(w, "finished")

\* Nobody sleeps towards a slot that lies more than one interval past the
\* end of the scope: the instant the scope is checked against is taken with
\* the lock held.  (A step that resolves a name is not held to this.)
SlotNearScope ==
    \A w \in Workers :
       worker[w].phase \in {"pacing", "woken"} /\ worker[w].step \notin Hostnames =>
          \/ worker[w].due < ScopeEnds + Gap
          \/ worker[w].due < ScopeEnds + TargetGap

\* Once a task is recorded as cancelled none of the coroutines it left
\* behind starts another attempt.
QuietAfterCancel == [][verdict = "cancelled" => UNCHANGED started]_vars

-----------------------------------------------------------------------------
(* Liveness.                                                               *)

\* The event loop runs whoever is ready, the resolver and the probes answer
\* or time out, the clock runs.
Fairness ==
    /\ WF_vars(Tick) /\ WF_vars(TimesOut) /\ WF_vars(RunnerRaises) /\ WF_vars(RunnerReturns)
    /\ \A w \in Workers : WF_vars(Coroutine(w))

FairSpec == Spec /\ Fairness

\* The runner is answered for and every coroutine ends, those it has left
\* behind too: nobody keeps the lock from the rest.  (A slot beyond the
\* clock's bound never comes in the model.)
PoolEnds ==
    <>(/\ verdict # "none"
       /\ \/ \A w \in Workers : worker[w].phase \in Over
          \/ \E w \in Workers : At(w, "pacing") /\ worker[w].due > MaxTime)
=============================================================================
