---------------------------- MODULE TaskRunProofs ----------------------------
(***************************************************************************)
(* Proofs about a running task and its answer, for any number of           *)
(* coroutines, any plan, any rates and any sizes.                          *)
(*                                                                         *)
(* TaskContext.  The heart of the inductive invariant is the admission     *)
(* lock: a coroutine that resolves or sleeps in admit() is the head of the *)
(* queue, so the deadlines its slot was computed from are still the        *)
(* deadlines when it wakes up.                                             *)
(*                                                                         *)
(* TaskRun, every step of which is one of TaskContext.  What is added is   *)
(* an argument about room: as long as the runner goes on, the events and   *)
(* bytes spent are those of distinct steps, so the five events and the     *)
(* envelope a plan reserves besides its steps are still there when its end *)
(* is recorded, and a diagnosis that did not complete always has lifecycle *)
(* evidence for its classifier to find.  And every step in flight belongs  *)
(* to a coroutine of its own, so that whoever asks for admission finds     *)
(* fewer of them than there are coroutines.                                *)
(***************************************************************************)
EXTENDS TaskRun, FiniteSetTheorems, TLAPS

-----------------------------------------------------------------------------
(* TaskContext.                                                            *)

\* Who is inside admit() holds the lock; who has a step has one of the plan.
LockInv ==
    \A w \in Workers :
       /\ worker[w].phase \in Holding => Holds(w)
       /\ worker[w].phase \in Holding \cup {"locking", "probing"} => worker[w].step \in Steps
       /\ worker[w].phase = "resolving" => worker[w].step \in Hostnames

\* The next deadlines lie an interval past every attempt so far, and nobody's
\* slot lies before them.
PaceInv ==
    /\ \A r \in Admitted : /\ nextGlobal >= started[r] + Gap
                           /\ nextTarget[TargetOf[r]] >= started[r] + TargetGap
    /\ \A w \in Workers : worker[w].phase \in {"pacing", "woken"} =>
          /\ worker[w].due >= nextGlobal
          /\ worker[w].due >= nextTarget[TargetOf[worker[w].step]]
    /\ \A w \in Workers : worker[w].phase = "woken" => now >= worker[w].due

\* They never lie more than an interval ahead of the clock.
NearInv ==
    /\ nextGlobal =< now + Gap
    /\ \A x \in Targets : nextTarget[x] =< now + TargetGap

\* Coroutines end with "cancelled" only by the token, and none is past its
\* last look at the token when a task is recorded as cancelled.
CancelInv ==
    /\ \A w \in Workers : worker[w].phase = "cancelled" => token
    /\ verdict = "cancelled" => /\ token
                                /\ \A w \in Workers : worker[w].phase # "woken"

PoolInv == TypeOK /\ LockInv /\ PaceInv /\ NearInv /\ RateCeiling /\ SlotNearScope
                  /\ CancelInv /\ completed \subseteq observed /\ CompletedIsWhole

USE PlanAssumption, RateAssumption, LimitAssumption

-----------------------------------------------------------------------------
(* The latest of three instants.                                           *)

\* The start of a step is the latest of the clock and its two pacing instants.
LEMMA StartAtIsLatest ==
    ASSUME TypeOK, NEW s \in Steps
    PROVE  /\ StartAt(s) \in Nat
           /\ StartAt(s) \in {now, nextGlobal, nextTarget[TargetOf[s]]}
           /\ StartAt(s) >= now /\ StartAt(s) >= nextGlobal
           /\ StartAt(s) >= nextTarget[TargetOf[s]]
<1> DEFINE earliest == {now, nextGlobal, nextTarget[TargetOf[s]]}
<1>1. now \in Nat /\ nextGlobal \in Nat /\ nextTarget[TargetOf[s]] \in Nat
    BY DEF TypeOK
<1>2. \E t \in earliest : \A u \in earliest : u =< t
    <2>1. CASE now >= nextGlobal /\ now >= nextTarget[TargetOf[s]]
        BY <1>1, <2>1
    <2>2. CASE nextGlobal >= now /\ nextGlobal >= nextTarget[TargetOf[s]]
        BY <1>1, <2>2
    <2>3. CASE nextTarget[TargetOf[s]] >= now /\ nextTarget[TargetOf[s]] >= nextGlobal
        BY <1>1, <2>3
    <2> QED BY <1>1, <2>1, <2>2, <2>3
<1>3. StartAt(s) \in earliest /\ \A u \in earliest : u =< StartAt(s)
    <2> DEFINE latest == CHOOSE t \in earliest : \A u \in earliest : u =< t
    <2>1. latest \in earliest /\ \A u \in earliest : u =< latest
        BY <1>2
    <2>2. StartAt(s) = latest
        BY DEF StartAt
    <2> QED BY <2>1, <2>2
<1> QED BY <1>1, <1>3

-----------------------------------------------------------------------------
\* A pool that has not begun satisfies the invariant.
LEMMA PoolInit == Init => PoolInv
<1> SUFFICES ASSUME Init PROVE PoolInv
    OBVIOUS
<1>1. Admitted = {}
    BY DEF Init, Admitted
<1>2. TypeOK
    <2>1. worker \in [Workers -> Coroutines]
        BY DEF Init, Started, Coroutines, Phases, Over
    <2>2. started \in [Admitted -> Nat]
        BY <1>1 DEF Init, Admitted
    <2>3. queue \in Seq(Workers) /\ nextTarget \in [Targets -> Nat]
        BY DEF Init
    <2>4. count \in 3..(MaxEvents - 1) /\ taken \in 0..NSteps
        BY DEF Init
    <2> QED BY <1>1, <2>1, <2>2, <2>3, <2>4 DEF Init, TypeOK
<1>3. LockInv /\ CancelInv
    BY DEF Init, Started, LockInv, CancelInv, Holding
<1>4. PaceInv /\ NearInv
    BY <1>1 DEF Init, Started, PaceInv, NearInv
<1>5. RateCeiling /\ SlotNearScope /\ CompletedIsWhole
    BY <1>1 DEF Init, Started, RateCeiling, SlotNearScope, CompletedIsWhole
<1> QED BY <1>2, <1>3, <1>4, <1>5 DEF PoolInv, Init

\* A coroutine alone holds the lock.
LEMMA OnlyHolder ==
    ASSUME LockInv, NEW w \in Workers, NEW v \in Workers, Holds(w), v # w
    PROVE  worker[v].phase \notin Holding
BY DEF LockInv, Holds

\* Releasing the lock leaves a queue of coroutines.
LEMMA ReleaseType ==
    ASSUME TypeOK, NEW w \in Workers, Holds(w), Release
    PROVE  queue' \in Seq(Workers)
BY DEF TypeOK, Holds, Release

-----------------------------------------------------------------------------
(* The three ways out of the lock, or on in it.                            *)

\* The attempt starts at its slot or later; both deadlines move on.
LEMMA AdmitStep ==
    ASSUME PoolInv, NEW w \in Workers, worker[w].step \in Steps, Holds(w),
           worker[w].phase \notin Over,
           now >= nextGlobal, now >= nextTarget[TargetOf[worker[w].step]],
           Admit(w, worker[w].step)
    PROVE  PoolInv'
<1> DEFINE s == worker[w].step
<1> USE DEF PoolInv
<1>1. /\ now' = now /\ token' = token /\ taken' = taken /\ observed' = observed
      /\ completed' = completed /\ count' = count /\ raised' = raised /\ verdict' = verdict
      /\ nextGlobal' = now + Gap
      /\ nextTarget' = [nextTarget EXCEPT ![TargetOf[s]] = now + TargetGap]
      /\ started' = [r \in Admitted \cup {s} |-> IF r = s THEN now ELSE started[r]]
      /\ worker' = [worker EXCEPT ![w].phase = "probing"]
      /\ queue' = Tail(queue)
    BY DEF Admit, evidence, Goes, Release
<1>2. Admitted' = Admitted \cup {s} /\ started'[s] = now
      /\ \A r \in Admitted : r # s => started'[r] = started[r]
    BY <1>1 DEF Admitted
<1>3. /\ now \in Nat /\ nextGlobal \in Nat /\ nextTarget \in [Targets -> Nat]
      /\ started \in [Admitted -> Nat] /\ Admitted \subseteq Steps
      /\ TargetOf \in [Steps -> Targets] /\ worker \in [Workers -> Coroutines]
    BY DEF TypeOK
<1>4. /\ worker' \in [Workers -> Coroutines]
      /\ worker'[w].phase = "probing" /\ worker'[w].step = s
      /\ \A v \in Workers : v # w => worker'[v] = worker[v]
    BY <1>1, <1>3 DEF Coroutines, Phases
<1>5. \A v \in Workers : worker'[v].phase \notin Holding
    BY <1>4, OnlyHolder DEF Holding
<1>6. TypeOK'
    <2>1. queue' \in Seq(Workers)
        BY <1>1, ReleaseType DEF Release
    <2>2. nextGlobal' \in Nat /\ nextTarget' \in [Targets -> Nat]
        BY <1>1, <1>3
    <2>3. started' \in [Admitted' -> Nat] /\ Admitted' \subseteq Steps
        BY <1>1, <1>2, <1>3
    <2> QED BY <1>1, <1>4, <2>1, <2>2, <2>3 DEF TypeOK
<1>7. LockInv'
    BY <1>4, <1>5 DEF LockInv
<1>8. PaceInv'
    <2>1. ASSUME NEW r \in Admitted'
          PROVE  /\ nextGlobal' >= started'[r] + Gap
                 /\ nextTarget'[TargetOf[r]] >= started'[r] + TargetGap
        <3>1. CASE r = s
            BY <1>1, <1>2, <1>3, <3>1
        <3>2. CASE r # s
            <4>1. r \in Admitted /\ started'[r] = started[r] /\ started[r] \in Nat
                  /\ TargetOf[r] \in Targets
                BY <1>2, <1>3, <3>2
            <4>2. nextGlobal >= started[r] + Gap
                  /\ nextTarget[TargetOf[r]] >= started[r] + TargetGap
                BY <4>1 DEF PaceInv
            <4>3. nextTarget'[TargetOf[r]] >= nextTarget[TargetOf[r]]
                BY <1>1, <1>3, <4>1
            <4>4. nextTarget'[TargetOf[r]] \in Nat /\ nextTarget[TargetOf[r]] \in Nat
                BY <1>6, <1>3, <4>1 DEF TypeOK
            <4>5. nextGlobal' >= started'[r] + Gap
                <5>1. nextGlobal' = now + Gap
                    BY <1>1
                <5>2. now + Gap >= started[r] + Gap
                    <6>1. now \in Nat /\ nextGlobal \in Nat /\ Gap \in Nat
                        BY <1>3
                    <6> QED BY <6>1, <4>1, <4>2
                <5> QED BY <5>1, <5>2, <4>1
            <4>6. nextTarget'[TargetOf[r]] >= started'[r] + TargetGap
                BY <4>1, <4>2, <4>3, <4>4
            <4> QED BY <4>5, <4>6
        <3> QED BY <3>1, <3>2
    <2> QED BY <2>1, <1>5 DEF PaceInv, Holding
<1>9. NearInv'
    BY <1>1, <1>3 DEF NearInv
<1>10. RateCeiling'
    <2>1. ASSUME NEW r \in Admitted, r # s
          PROVE  /\ now - started[r] >= Gap
                 /\ TargetOf[s] = TargetOf[r] => now - started[r] >= TargetGap
        <3>1. /\ nextGlobal >= started[r] + Gap
              /\ nextTarget[TargetOf[r]] >= started[r] + TargetGap
            BY <2>1 DEF PaceInv
        <3> QED BY <1>3, <2>1, <3>1
    <2> SUFFICES ASSUME NEW x \in Admitted', NEW r \in Admitted', x # r
                 PROVE  /\ Apart(x, r, Gap)'
                        /\ TargetOf[x] = TargetOf[r] => Apart(x, r, TargetGap)'
        BY DEF RateCeiling
    <2>2. CASE x # s /\ r # s
        BY <1>2, <2>2 DEF RateCeiling, Apart
    <2>3. CASE x = s /\ r # s
        BY <1>2, <2>1, <2>3 DEF Apart
    <2>4. CASE x # s /\ r = s
        BY <1>2, <2>1, <2>4 DEF Apart
    <2> QED BY <2>2, <2>3, <2>4
<1>11. SlotNearScope'
    BY <1>5 DEF SlotNearScope, Holding
<1>12. CancelInv'
    BY <1>1, <1>4, <1>5 DEF CancelInv, Holding
<1>13. CompletedIsWhole'
    BY <1>1 DEF CompletedIsWhole, At, Over
<1> QED BY <1>1, <1>6, <1>7, <1>8, <1>9, <1>10, <1>11, <1>12, <1>13

\* The coroutine is over and the lock free.
LEMMA RaiseStep ==
    ASSUME PoolInv, NEW w \in Workers, Holds(w), worker[w].phase \notin Over,
           NEW how \in Raised, how = "cancelled" => token, RaisesHolding(w, how)
    PROVE  PoolInv'
<1> USE DEF PoolInv
<1>1. /\ UNCHANGED <<now, token, taken, slots, evidence, verdict>>
      /\ worker' = [worker EXCEPT ![w].phase = how]
      /\ raised' \in {raised, w}
      /\ queue' = Tail(queue)
    BY DEF RaisesHolding, Raises, Goes, Release
<1>2. /\ worker' \in [Workers -> Coroutines]
      /\ worker'[w].phase = how
      /\ \A v \in Workers : v # w => worker'[v] = worker[v]
    BY <1>1 DEF TypeOK, Coroutines, Phases, Over, Raised
<1>3. \A v \in Workers : worker'[v].phase \notin Holding
    BY <1>2, OnlyHolder DEF Holding, Raised
<1>4. Admitted' = Admitted
    BY <1>1 DEF Admitted, slots
<1>5. TypeOK'
    <2>1. queue' \in Seq(Workers)
        BY <1>1, ReleaseType DEF Release
    <2> QED BY <1>1, <1>2, <1>4, <2>1 DEF TypeOK, slots, evidence
<1>6. LockInv'
    BY <1>2, <1>3 DEF LockInv, Raised
<1>7. PaceInv' /\ NearInv'
    BY <1>1, <1>3, <1>4 DEF PaceInv, NearInv, slots, Holding
<1>8. RateCeiling' /\ SlotNearScope'
    BY <1>1, <1>3, <1>4 DEF RateCeiling, SlotNearScope, slots, Holding, Apart
<1>9. CancelInv'
    BY <1>1, <1>2, <1>3 DEF CancelInv, Holding
<1>10. CompletedIsWhole' /\ (completed \subseteq observed)'
    BY <1>1 DEF CompletedIsWhole, At, Over, evidence
<1> QED BY <1>5, <1>6, <1>7, <1>8, <1>9, <1>10

\* The coroutine sleeps towards a slot that is not before either deadline and,
\* unless its name was resolved, at most an interval past the scope.
LEMMA SleepStep ==
    ASSUME PoolInv, NEW w \in Workers, Holds(w), worker[w].phase \notin Over,
           worker[w].step \in Steps,
           worker[w].step \notin Hostnames => ScopeCurrent(now), Checkpoint,
           worker' = [worker EXCEPT ![w].phase = "pacing",
                                    ![w].due = StartAt(worker[w].step)],
           UNCHANGED <<now, token, queue, taken, slots, evidence, raised, verdict>>
    PROVE  PoolInv'
<1> DEFINE s == worker[w].step
<1> USE DEF PoolInv
<1>1. /\ StartAt(s) \in Nat
      /\ StartAt(s) \in {now, nextGlobal, nextTarget[TargetOf[s]]}
      /\ StartAt(s) >= nextGlobal /\ StartAt(s) >= nextTarget[TargetOf[s]]
    BY StartAtIsLatest
<1>2. /\ worker' \in [Workers -> Coroutines]
      /\ worker'[w].phase = "pacing" /\ worker'[w].step = s /\ worker'[w].due = StartAt(s)
      /\ \A v \in Workers : v # w => worker'[v] = worker[v]
    BY <1>1 DEF TypeOK, Coroutines, Phases, Holding
<1>3. Admitted' = Admitted
    BY DEF Admitted, slots
<1>4. TypeOK'
    BY <1>2, <1>3 DEF TypeOK, slots, evidence
<1>5. LockInv'
    BY <1>2, OnlyHolder DEF LockInv, Holds, Holding
<1>6. PaceInv'
    <2>1. \A v \in Workers : worker'[v].phase \in {"pacing", "woken"} => v = w
        BY <1>2, OnlyHolder DEF Holding
    <2>2. \A v \in Workers : worker'[v].phase # "woken"
        BY <2>1, <1>2
    <2> QED BY <1>1, <1>2, <1>3, <2>1, <2>2 DEF PaceInv, slots
<1>7. NearInv' /\ RateCeiling'
    BY <1>3 DEF NearInv, RateCeiling, Apart, slots
<1>8. SlotNearScope'
    <2>1. ASSUME s \notin Hostnames
          PROVE  StartAt(s) < ScopeEnds + Gap \/ StartAt(s) < ScopeEnds + TargetGap
        <3>1. now < ScopeEnds /\ ScopeEnds \in Nat /\ now \in Nat
            BY <2>1 DEF ScopeCurrent, TypeOK
        <3>2. /\ nextGlobal \in Nat /\ nextTarget[TargetOf[s]] \in Nat
              /\ nextGlobal =< now + Gap /\ nextTarget[TargetOf[s]] =< now + TargetGap
            BY DEF TypeOK, NearInv
        <3>3. CASE StartAt(s) = now
            BY <3>1, <3>3
        <3>4. CASE StartAt(s) = nextGlobal
            BY <3>1, <3>2, <3>4
        <3>5. CASE StartAt(s) = nextTarget[TargetOf[s]]
            BY <3>1, <3>2, <3>5
        <3> QED BY <1>1, <3>3, <3>4, <3>5
    <2> QED BY <1>2, <2>1 DEF SlotNearScope
<1>9. CancelInv'
    BY <1>2 DEF CancelInv, Checkpoint
<1>10. CompletedIsWhole' /\ (completed \subseteq observed)'
    BY DEF CompletedIsWhole, At, Over, evidence
<1> QED BY <1>4, <1>5, <1>6, <1>7, <1>8, <1>9, <1>10

\* Pacing keeps the invariant however it ends.
LEMMA PaceStep ==
    ASSUME PoolInv, NEW w \in Workers, Holds(w), worker[w].phase \notin Over,
           worker[w].step \in Steps,
           worker[w].step \notin Hostnames => ScopeCurrent(now),
           Pace(w, worker[w].step)
    PROVE  PoolInv'
<1> DEFINE s == worker[w].step
<1>1. CASE ~Checkpoint /\ RaisesHolding(w, "cancelled")
    BY <1>1, RaiseStep DEF Checkpoint, Raised
<1>2. CASE Checkpoint /\ StartAt(s) = now /\ Admit(w, s)
    <2>1. now >= nextGlobal /\ now >= nextTarget[TargetOf[s]]
        BY <1>2, StartAtIsLatest DEF PoolInv
    <2> QED BY <1>2, <2>1, AdmitStep
<1>3. CASE /\ Checkpoint
           /\ worker' = [worker EXCEPT ![w].phase = "pacing", ![w].due = StartAt(s)]
           /\ UNCHANGED <<now, token, queue, taken, slots, evidence, raised, verdict>>
    BY <1>3, SleepStep
<1> QED BY <1>1, <1>2, <1>3 DEF Pace

-----------------------------------------------------------------------------
(* The steps of a coroutine.                                               *)

\* A step of w that neither admits nor sleeps keeps what is said of slots.
LEMMA QuietStep ==
    ASSUME PoolInv, NEW w \in Workers,
           worker' \in [Workers -> Coroutines], worker'[w].phase \notin {"pacing", "woken"},
           \A v \in Workers : v # w => worker'[v] = worker[v],
           worker'[w].phase = "cancelled" => token,
           worker[w].phase # "finished",
           UNCHANGED <<now, token, slots, verdict>>
    PROVE  /\ PaceInv' /\ NearInv' /\ RateCeiling' /\ SlotNearScope' /\ CancelInv'
           /\ CompletedIsWhole'
<1> USE DEF PoolInv
<1>1. Admitted' = Admitted
    BY DEF Admitted, slots
<1>2. \A v \in Workers : worker'[v].phase \in {"pacing", "woken"} => worker'[v] = worker[v]
    OBVIOUS
<1>3. PaceInv' /\ NearInv'
    BY <1>1, <1>2 DEF PaceInv, NearInv, slots
<1>4. RateCeiling' /\ SlotNearScope'
    BY <1>1, <1>2 DEF RateCeiling, SlotNearScope, Apart, slots
<1>5. CancelInv'
    BY <1>2 DEF CancelInv
<1>6. CompletedIsWhole'
    BY DEF CompletedIsWhole, At
<1> QED BY <1>3, <1>4, <1>5, <1>6

\* A coroutine takes the next step of the plan.
LEMMA TakeStep == ASSUME PoolInv, NEW w \in Workers, Take(w) PROVE PoolInv'
<1> USE DEF PoolInv
<1>1. /\ worker[w].phase = "idle" /\ taken < NSteps /\ taken' = taken + 1
      /\ UNCHANGED <<now, token, slots, evidence, verdict>>
      /\ worker \in [Workers -> Coroutines] /\ queue \in Seq(Workers)
      /\ taken \in 0..NSteps
    BY DEF Take, At, TypeOK
<1>2. taken' \in 0..NSteps /\ taken + 1 \in Steps /\ taken + 1 \in 0..NSteps
    BY <1>1 DEF Steps
<1>3. Admitted' = Admitted
    BY <1>1 DEF Admitted, slots
<1>4. CASE /\ Checkpoint
           /\ worker' = [worker EXCEPT ![w].phase = "locking", ![w].step = taken + 1]
           /\ queue' = Append(queue, w)
           /\ UNCHANGED raised
    <2>1. /\ worker' \in [Workers -> Coroutines]
          /\ worker'[w].phase = "locking" /\ worker'[w].step = taken + 1
          /\ \A v \in Workers : v # w => worker'[v] = worker[v]
        BY <1>1, <1>2, <1>4 DEF Coroutines, Phases
    <2>2. queue' \in Seq(Workers) /\ \A v \in Workers : Holds(v) => Holds(v)'
        BY <1>1, <1>4 DEF Holds
    <2>3. TypeOK'
        BY <1>1, <1>2, <1>3, <1>4, <2>1, <2>2 DEF TypeOK, slots, evidence
    <2>4. LockInv'
        BY <1>2, <2>1, <2>2 DEF LockInv, Holding
    <2> QED BY <1>1, <2>1, <2>3, <2>4, QuietStep DEF evidence
<1>5. CASE /\ ~Checkpoint
           /\ Goes(w, "cancelled")
           /\ raised' = IF raised = NoWorker THEN w ELSE raised
           /\ UNCHANGED queue
    <2>1. /\ worker' \in [Workers -> Coroutines]
          /\ worker'[w].phase = "cancelled"
          /\ \A v \in Workers : v # w => worker'[v] = worker[v]
        BY <1>1, <1>5 DEF Coroutines, Phases, Over, Raised, Goes
    <2>2. TypeOK'
        BY <1>1, <1>2, <1>3, <1>5, <2>1 DEF TypeOK, slots, evidence
    <2>3. LockInv'
        BY <1>5, <2>1 DEF LockInv, Holding, Holds
    <2> QED BY <1>1, <1>5, <2>1, <2>2, <2>3, QuietStep DEF evidence, Checkpoint
<1> QED BY <1>4, <1>5 DEF Take

\* A coroutine that is idle finds no step left.
LEMMA FinishStep == ASSUME PoolInv, NEW w \in Workers, Finish(w) PROVE PoolInv'
<1> USE DEF PoolInv
<1>1. /\ worker[w].phase = "idle" /\ worker \in [Workers -> Coroutines]
      /\ worker' = [worker EXCEPT ![w].phase = "finished"]
      /\ UNCHANGED <<now, token, queue, taken, slots, evidence, raised, verdict>>
    BY DEF Finish, At, Goes, TypeOK
<1>2. /\ worker' \in [Workers -> Coroutines]
      /\ worker'[w].phase = "finished"
      /\ \A v \in Workers : v # w => worker'[v] = worker[v]
    BY <1>1 DEF Coroutines, Phases, Over
<1>3. Admitted' = Admitted
    BY <1>1 DEF Admitted, slots
<1>4. TypeOK' /\ LockInv'
    BY <1>1, <1>2, <1>3 DEF TypeOK, LockInv, Holds, Holding, slots, evidence
<1> QED BY <1>1, <1>2, <1>4, QuietStep DEF evidence

\* The checks under the lock.
LEMMA PreflightStep == ASSUME PoolInv, NEW w \in Workers, Preflight(w) PROVE PoolInv'
<1> DEFINE s == worker[w].step
<1>1. worker[w].phase = "locking" /\ Holds(w) /\ s \in Steps /\ worker[w].phase \notin Over
    BY DEF Preflight, At, PoolInv, LockInv, Over, Raised
<1>2. CASE ~Checkpoint /\ RaisesHolding(w, "cancelled")
    BY <1>1, <1>2, RaiseStep DEF Checkpoint, Raised
<1>3. CASE RaisesHolding(w, "refused") \/ RaisesHolding(w, "failed")
    BY <1>1, <1>3, RaiseStep DEF Raised
<1>4. CASE s \notin Hostnames /\ ScopeCurrent(now) /\ Pace(w, s)
    BY <1>1, <1>4, PaceStep
<1>5. CASE /\ s \in Hostnames
           /\ worker' = [worker EXCEPT ![w].phase = "resolving", ![w].asked = now]
           /\ UNCHANGED <<now, token, queue, taken, slots, evidence, raised, verdict>>
    <2> USE DEF PoolInv
    <2>1. /\ worker' \in [Workers -> Coroutines]
          /\ worker'[w].phase = "resolving" /\ worker'[w].step = s
          /\ \A v \in Workers : v # w => worker'[v] = worker[v]
        BY <1>5 DEF TypeOK, Coroutines, Phases, Holding
    <2>2. Admitted' = Admitted
        BY <1>5 DEF Admitted, slots
    <2>3. TypeOK' /\ LockInv'
        BY <1>1, <1>5, <2>1, <2>2 DEF TypeOK, LockInv, Holds, slots, evidence
    <2> QED BY <1>1, <1>5, <2>1, <2>3, QuietStep DEF evidence
<1> QED BY <1>2, <1>3, <1>4, <1>5 DEF Preflight

\* The resolution of a name comes back, under the lock.
LEMMA ResolvedStep == ASSUME PoolInv, NEW w \in Workers, Resolved(w) PROVE PoolInv'
<1>1. /\ worker[w].phase = "resolving" /\ Holds(w) /\ worker[w].step \in Steps
      /\ worker[w].phase \notin Over /\ worker[w].step \in Hostnames
    BY DEF Resolved, At, PoolInv, LockInv, Holding, Over, Raised
<1>2. CASE RaisesHolding(w, "failed")
    BY <1>1, <1>2, RaiseStep DEF Raised
<1>3. CASE Pace(w, worker[w].step)
    BY <1>1, <1>3, PaceStep
<1> QED BY <1>2, <1>3 DEF Resolved

\* A coroutine is interrupted where it waits.
LEMMA InterruptedStep == ASSUME PoolInv, NEW w \in Workers, Interrupted(w) PROVE PoolInv'
<1>1. /\ worker[w].phase = "pacing" /\ Holds(w) /\ worker[w].phase \notin Over
    BY DEF Interrupted, At, PoolInv, LockInv, Holding, Over, Raised
<1> QED BY <1>1, RaiseStep DEF Interrupted, Checkpoint, Raised

\* The timer of a paced coroutine fires.
LEMMA TimerStep == ASSUME PoolInv, NEW w \in Workers, TimerFires(w) PROVE PoolInv'
<1> USE DEF PoolInv
<1>1. /\ worker[w].phase = "pacing" /\ ~token /\ now >= worker[w].due
      /\ worker \in [Workers -> Coroutines]
      /\ worker' = [worker EXCEPT ![w].phase = "woken"]
      /\ UNCHANGED <<now, token, queue, taken, slots, evidence, raised, verdict>>
    BY DEF TimerFires, At, Goes, Checkpoint, TypeOK
<1>2. /\ worker' \in [Workers -> Coroutines]
      /\ worker'[w].phase = "woken" /\ worker'[w].step = worker[w].step
      /\ worker'[w].due = worker[w].due
      /\ \A v \in Workers : v # w => worker'[v] = worker[v]
    BY <1>1 DEF Coroutines, Phases, Holding
<1>3. Admitted' = Admitted
    BY <1>1 DEF Admitted, slots
<1>4. TypeOK'
    BY <1>1, <1>2, <1>3 DEF TypeOK, slots, evidence
<1>5. LockInv'
    BY <1>1, <1>2 DEF LockInv, Holds, Holding
<1>6. PaceInv' /\ NearInv'
    BY <1>1, <1>2, <1>3 DEF PaceInv, NearInv, slots
<1>7. RateCeiling' /\ SlotNearScope'
    BY <1>1, <1>2, <1>3 DEF RateCeiling, SlotNearScope, Apart, slots
<1>8. CancelInv'
    BY <1>1, <1>2 DEF CancelInv
<1>9. CompletedIsWhole' /\ (completed \subseteq observed)'
    BY <1>1 DEF CompletedIsWhole, At, evidence
<1> QED BY <1>4, <1>5, <1>6, <1>7, <1>8, <1>9

\* A coroutine that slept looks at the token and the scope once more.
LEMMA ResumesStep == ASSUME PoolInv, NEW w \in Workers, Resumes(w) PROVE PoolInv'
<1>1. /\ worker[w].phase = "woken" /\ Holds(w) /\ worker[w].step \in Steps
      /\ worker[w].phase \notin Over
    BY DEF Resumes, At, PoolInv, LockInv, Holding, Over, Raised
<1>2. now >= nextGlobal /\ now >= nextTarget[TargetOf[worker[w].step]]
    <2>1. /\ now >= worker[w].due /\ worker[w].due >= nextGlobal
          /\ worker[w].due >= nextTarget[TargetOf[worker[w].step]]
        BY <1>1 DEF PoolInv, PaceInv
    <2>2. /\ now \in Nat /\ worker[w].due \in Nat /\ nextGlobal \in Nat
          /\ nextTarget[TargetOf[worker[w].step]] \in Nat
        BY <1>1 DEF PoolInv, TypeOK, Coroutines
    <2> QED BY <2>1, <2>2
<1> QED BY <1>1, <1>2, AdmitStep DEF Resumes

\* A probe comes back with its evidence, or raises.
LEMMA ProbedStep == ASSUME PoolInv, NEW w \in Workers, Probed(w) PROVE PoolInv'
<1> USE DEF PoolInv
<1>1. /\ worker[w].phase = "probing" /\ worker[w].step \in Steps
      /\ worker \in [Workers -> Coroutines] /\ count \in 3..(MaxEvents - 1)
      /\ UNCHANGED <<now, token, queue, taken, slots, verdict>>
    BY DEF Probed, Raises, At, TypeOK, LockInv
<1>2. Admitted' = Admitted
    BY <1>1 DEF Admitted, slots
<1>3. CASE /\ count + 2 =< MaxEvents
           /\ Goes(w, "idle")
           /\ observed'  = observed \cup {worker[w].step}
           /\ completed' = completed \cup {worker[w].step}
           /\ count' = count + 1
           /\ UNCHANGED raised
    <2>1. /\ worker' \in [Workers -> Coroutines]
          /\ worker'[w].phase = "idle"
          /\ \A v \in Workers : v # w => worker'[v] = worker[v]
        BY <1>1, <1>3 DEF Coroutines, Phases, Goes
    <2>2. count' \in 3..(MaxEvents - 1)
        BY <1>1, <1>3
    <2>3. TypeOK' /\ LockInv'
        BY <1>1, <1>2, <1>3, <2>1, <2>2 DEF TypeOK, LockInv, Holds, Holding, slots
    <2> QED BY <1>1, <1>3, <2>1, <2>3, QuietStep
<1>4. CASE /\ Raises(w, "refused") \/ Raises(w, "failed")
           /\ UNCHANGED <<observed, completed>>
           /\ count' \in 3..(MaxEvents - 1)
    <2>1. /\ worker' \in [Workers -> Coroutines]
          /\ worker'[w].phase \in {"refused", "failed"}
          /\ \A v \in Workers : v # w => worker'[v] = worker[v]
        BY <1>1, <1>4 DEF Coroutines, Phases, Over, Raised, Raises, Goes
    <2>2. raised' \in Workers \cup {NoWorker}
        BY <1>4 DEF Raises, TypeOK
    <2>3. TypeOK' /\ LockInv'
        BY <1>1, <1>2, <1>4, <2>1, <2>2 DEF TypeOK, LockInv, Holds, Holding, slots
    <2> QED BY <1>1, <1>4, <2>1, <2>3, QuietStep
<1>5. CASE /\ count + 2 > MaxEvents
           /\ Raises(w, "refused")
           /\ UNCHANGED <<queue, evidence>>
    BY <1>1, <1>4, <1>5 DEF evidence
<1>6. CASE /\ count + 2 =< MaxEvents
           /\ Raises(w, "failed")
           /\ count' \in {count, count + 1}
           /\ UNCHANGED <<queue, observed, completed>>
    <2>1. count' \in 3..(MaxEvents - 1)
        BY <1>1, <1>6
    <2> QED BY <1>4, <1>6, <2>1
<1> QED BY <1>3, <1>5, <1>6 DEF Probed

\* Every step of a coroutine keeps the invariant.
LEMMA CoroutineStep == ASSUME PoolInv, NEW w \in Workers, Coroutine(w) PROVE PoolInv'
BY TakeStep, FinishStep, PreflightStep, ResolvedStep, InterruptedStep, TimerStep,
   ResumesStep, ProbedStep DEF Coroutine

-----------------------------------------------------------------------------
(* The steps of the task around the coroutines.                            *)

\* The clock moves on.
LEMMA TickStep == ASSUME PoolInv, Tick PROVE PoolInv'
<1> USE DEF PoolInv
<1>1. /\ now \in Nat /\ now' = now + 1
      /\ UNCHANGED <<token, worker, queue, taken, slots, evidence, raised, verdict>>
    BY DEF Tick, TypeOK
<1>2. Admitted' = Admitted
    BY <1>1 DEF Admitted, slots
<1>3. TypeOK' /\ LockInv'
    BY <1>1, <1>2 DEF TypeOK, LockInv, Holds, slots, evidence
<1>4. PaceInv'
    <2>1. \A w \in Workers : worker[w].phase = "woken" => now' >= worker[w].due
        BY <1>1 DEF PaceInv, TypeOK, Coroutines
    <2> QED BY <1>1, <1>2, <2>1 DEF PaceInv, slots
<1>5. NearInv'
    <2>1. nextGlobal \in Nat /\ \A x \in Targets : nextTarget[x] \in Nat
        BY DEF TypeOK
    <2>2. nextGlobal =< now' + Gap
        BY <1>1, <2>1 DEF NearInv
    <2>3. \A x \in Targets : nextTarget[x] =< now' + TargetGap
        BY <1>1, <2>1 DEF NearInv
    <2> QED BY <1>1, <2>2, <2>3 DEF NearInv, slots
<1>6. RateCeiling' /\ SlotNearScope' /\ CancelInv'
    BY <1>1, <1>2 DEF RateCeiling, SlotNearScope, CancelInv, Apart, slots
<1>7. CompletedIsWhole' /\ (completed \subseteq observed)'
    BY <1>1, <1>2 DEF CompletedIsWhole, InFlight, At, evidence
<1> QED BY <1>3, <1>4, <1>5, <1>6, <1>7

\* The token is set.
LEMMA CancelStep == ASSUME PoolInv, Cancel PROVE PoolInv'
<1> USE DEF PoolInv
<1>1. /\ token' = TRUE /\ verdict = "none"
      /\ UNCHANGED <<now, worker, queue, taken, slots, evidence, raised, verdict>>
    BY DEF Cancel
<1>2. Admitted' = Admitted
    BY <1>1 DEF Admitted, slots
<1>3. TypeOK' /\ LockInv'
    BY <1>1, <1>2 DEF TypeOK, LockInv, Holds, slots, evidence
<1>4. PaceInv' /\ NearInv' /\ RateCeiling' /\ SlotNearScope'
    BY <1>1, <1>2 DEF PaceInv, NearInv, RateCeiling, SlotNearScope, Apart, slots
<1>5. CancelInv' /\ CompletedIsWhole' /\ (completed \subseteq observed)'
    BY <1>1 DEF CancelInv, CompletedIsWhole, evidence
<1> QED BY <1>3, <1>4, <1>5

\* The terminal observations touch nothing but the event count.
LEMMA ConcludesType ==
    ASSUME TypeOK, NEW n \in 0..2, Concludes(n)
    PROVE  /\ count' \in 3..(MaxEvents - 1)
           /\ observed' = observed /\ completed' = completed
BY DEF TypeOK, Concludes

\* Whoever is left is stopped, with the token set or on the way to another
\* verdict than "cancelled".
LEMMA StopStep ==
    ASSUME PoolInv, StopAll, token' \in BOOLEAN, token => token',
           verdict' \in {"none", "completed", "failed", "cancelled"},
           verdict' = "completed" => verdict = "completed",
           verdict' = "cancelled" => token',
           UNCHANGED <<observed, completed>>, count' \in 3..(MaxEvents - 1)
    PROVE  PoolInv'
<1> USE DEF PoolInv
<1>1. /\ queue' = << >> /\ UNCHANGED <<now, taken, slots, observed, completed, raised>>
      /\ worker \in [Workers -> Coroutines]
    BY DEF StopAll, TypeOK
<1>2. /\ worker' \in [Workers -> Coroutines]
      /\ \A w \in Workers : /\ worker'[w].phase \in Over
                            /\ worker'[w].phase # "stopped" => worker'[w] = worker[w]
                            /\ worker[w].phase \in Over => worker'[w] = worker[w]
    BY <1>1 DEF StopAll, Coroutines, Phases, Over
<1>3. \A w \in Workers : worker'[w].phase \notin Holding \cup {"locking", "probing"}
    BY <1>2 DEF Over, Raised, Holding
<1>4. Admitted' = Admitted
    BY <1>1 DEF Admitted, slots
<1>5. TypeOK'
    BY <1>1, <1>2, <1>4 DEF TypeOK, slots
<1>6. LockInv' /\ PaceInv' /\ NearInv'
    BY <1>1, <1>3, <1>4 DEF LockInv, PaceInv, NearInv, slots, Holding
<1>7. RateCeiling' /\ SlotNearScope'
    BY <1>1, <1>3, <1>4 DEF RateCeiling, SlotNearScope, Apart, slots, Holding
<1>8. CancelInv'
    BY <1>2, <1>3 DEF CancelInv, Holding
<1>9. CompletedIsWhole' /\ (completed \subseteq observed)'
    BY <1>1, <1>2, <1>4 DEF CompletedIsWhole, InFlight, At, Over
<1> QED BY <1>5, <1>6, <1>7, <1>8, <1>9

\* The runner's end: what is recorded follows from what the coroutines did.
LEMMA EndStep == ASSUME PoolInv, RunnerRaises \/ RunnerReturns PROVE PoolInv'
<1> USE DEF PoolInv
<1>1. /\ verdict = "none"
      /\ \A w \in Workers : worker[w].phase # "woken"
      /\ UNCHANGED <<now, token, worker, queue, taken, slots, raised>>
      /\ \E n \in 0..2 : Concludes(n)
    BY DEF RunnerRaises, RunnerReturns, At, Endings
<1>b. count' \in 3..(MaxEvents - 1) /\ observed' = observed /\ completed' = completed
    BY <1>1, ConcludesType
<1>2. /\ verdict' \in {"completed", "failed", "cancelled"}
      /\ verdict' = "cancelled" => token
      /\ verdict' = "completed" => /\ completed = Steps
                                   /\ \A w \in Workers : worker[w].phase = "finished"
    <2>1. CASE RunnerRaises
        BY <2>1 DEF RunnerRaises, At, CancelInv, TypeOK
    <2>2. CASE RunnerReturns
        BY <2>2 DEF RunnerReturns, At
    <2> QED BY <2>1, <2>2
<1>3. Admitted' = Admitted
    BY <1>1 DEF Admitted, slots
<1>4. TypeOK' /\ LockInv'
    BY <1>1, <1>b, <1>2, <1>3 DEF TypeOK, LockInv, Holds, slots
<1>5. PaceInv' /\ NearInv' /\ RateCeiling' /\ SlotNearScope'
    BY <1>1, <1>3 DEF PaceInv, NearInv, RateCeiling, SlotNearScope, Apart, slots
<1>6. CancelInv'
    BY <1>1, <1>2 DEF CancelInv
<1>7. CompletedIsWhole' /\ (completed \subseteq observed)'
    BY <1>1, <1>b, <1>2, <1>3 DEF CompletedIsWhole, InFlight, At, TypeOK
<1> QED BY <1>4, <1>5, <1>6, <1>7

\* Every step of the pool keeps the invariant.
LEMMA PoolStep == PoolInv /\ [Next]_vars => PoolInv'
<1> SUFFICES ASSUME PoolInv, [Next]_vars PROVE PoolInv'
    OBVIOUS
<1>1. CASE Tick
    BY <1>1, TickStep
<1>2. CASE Cancel
    BY <1>2, CancelStep
<1>3. CASE CancelTask \/ TimesOut \/ Teardown
    <2>1. /\ StopAll /\ token' \in BOOLEAN /\ (token => token')
          /\ verdict' \in {"none", "completed", "failed", "cancelled"}
          /\ verdict' = "completed" => verdict = "completed"
          /\ verdict' = "cancelled" => token'
        BY <1>3 DEF CancelTask, TimesOut, Teardown, PoolInv, TypeOK, CancelInv
    <2>2. UNCHANGED evidence \/ \E n \in 0..2 : Concludes(n)
        BY <1>3 DEF CancelTask, TimesOut, Teardown, Endings
    <2>3. UNCHANGED <<observed, completed>> /\ count' \in 3..(MaxEvents - 1)
        BY <2>2, ConcludesType DEF PoolInv, TypeOK, evidence
    <2> QED BY <2>1, <2>3, StopStep
<1>4. CASE RunnerRaises \/ RunnerReturns
    BY <1>4, EndStep
<1>5. CASE \E w \in Workers : Coroutine(w)
    BY <1>5, CoroutineStep
<1>6. CASE UNCHANGED vars
    BY <1>6 DEF vars, PoolInv, TypeOK, LockInv, PaceInv, NearInv, RateCeiling, SlotNearScope,
        CancelInv, CompletedIsWhole, Apart, Admitted, InFlight, Holds, At, slots, evidence
<1> QED BY <1>1, <1>2, <1>3, <1>4, <1>5, <1>6 DEF Next

\* PoolInv holds in every reachable state.
THEOREM PoolCorrect == Spec => []PoolInv
BY PoolInit, PoolStep, PTL DEF Spec

-----------------------------------------------------------------------------
\* Every reachable state of a running task is of the declared types.
THEOREM ContextTypeCorrect == Spec => []TypeOK
<1>1. PoolInv => TypeOK
    BY DEF PoolInv
<1> QED BY <1>1, PoolCorrect, PTL

\* The rates of the plan hold for any number of coroutines: admit() hands
\* out slots one after the other, each past the deadlines of the last.
THEOREM RateCorrect == Spec => []RateCeiling
<1>1. PoolInv => RateCeiling
    BY DEF PoolInv
<1> QED BY <1>1, PoolCorrect, PTL

\* No slot lies more than an interval past the end of the scope it was
\* checked against (assert_current, for steps without a name).
THEOREM ScopeCorrect == Spec => []SlotNearScope
<1>1. PoolInv => SlotNearScope
    BY DEF PoolInv
<1> QED BY <1>1, PoolCorrect, PTL

\* "completed" is a verdict about every step, with evidence for each.
THEOREM CompletionCorrect == Spec => []CompletedIsWhole
<1>1. PoolInv => CompletedIsWhole
    BY DEF PoolInv
<1> QED BY <1>1, PoolCorrect, PTL

\* Without the token's consent nobody is admitted: a coroutine passes Pace
\* only with the token clear, and otherwise only when its timer has woken it.
LEMMA AdmissionNeedsToken ==
    ASSUME NEW w \in Workers, Coroutine(w), token, worker[w].phase # "woken"
    PROVE  started' = started
<1>1. ASSUME NEW s, Pace(w, s) PROVE started' = started
    BY <1>1 DEF Pace, Checkpoint, RaisesHolding, Raises, slots
<1>2. CASE Preflight(w) \/ Resolved(w)
    BY <1>1, <1>2 DEF Preflight, Resolved, Checkpoint, RaisesHolding, Raises, slots
<1>3. CASE Take(w) \/ Finish(w) \/ Interrupted(w) \/ TimerFires(w) \/ Probed(w)
    BY <1>3 DEF Take, Finish, Interrupted, TimerFires, Probed, RaisesHolding, Raises, slots
<1>4. CASE Resumes(w)
    BY <1>4 DEF Resumes, At
<1> QED BY <1>2, <1>3, <1>4 DEF Coroutine

\* A task recorded as cancelled starts no further attempt, whichever
\* coroutines its runner has left behind.
THEOREM QuietCorrect == Spec => QuietAfterCancel
<1>1. PoolInv /\ [Next]_vars => [verdict = "cancelled" => UNCHANGED started]_vars
    <2> SUFFICES ASSUME PoolInv, Next, verdict = "cancelled" PROVE started' = started
        OBVIOUS
    <2>1. token /\ \A w \in Workers : worker[w].phase # "woken"
        BY DEF PoolInv, CancelInv
    <2>2. CASE \E w \in Workers : Coroutine(w)
        BY <2>1, <2>2, AdmissionNeedsToken
    <2>3. CASE Tick \/ Cancel \/ CancelTask \/ TimesOut \/ RunnerRaises \/ RunnerReturns
               \/ Teardown
        BY <2>3 DEF Tick, Cancel, CancelTask, TimesOut, RunnerRaises, RunnerReturns, Teardown,
                    StopAll, slots
    <2> QED BY <2>2, <2>3 DEF Next
<1> QED BY <1>1, PoolCorrect, PTL DEF Spec, QuietAfterCancel

-----------------------------------------------------------------------------
(* TaskRun.                                                                *)

HIDE LimitAssumption
HIDE RateAssumption
HIDE PlanAssumption
USE SizeAssumption

\* Every probe answers what its context accepts; only a reset of a UDP
\* socket, which _failure takes for one of TCP, is refused.
THEOREM AnswersAreAccepted ==
    \A k \in ProbeKinds : \A e \in Answers[k] :
       Kind(e) \in Allowed[k] \/ (k = "udp_exchange" /\ e = <<"tcp_reset", "negative">>)
<1>1. ProbeKinds = {"local_snapshot", "system_dns", "tcp_connect", "udp_exchange",
                    "tls_handshake", "http_exchange", "native_path", "native_port_scan"}
    BY DEF ProbeKinds, Answers
<1>2. \A e \in LocalAnswers : Kind(e) \in Allowed["local_snapshot"]
    BY DEF LocalAnswers, Kind, Allowed, Unavailable
<1>3. \A e \in DnsAnswers : Kind(e) \in Allowed["system_dns"]
    BY DEF DnsAnswers, Kind, Allowed
<1>4. \A e \in TcpAnswers : Kind(e) \in Allowed["tcp_connect"]
    BY DEF TcpAnswers, Failures, Kind, Allowed, Broken, Unreachable
<1>5. \A e \in UdpAnswers : Kind(e) \in Allowed["udp_exchange"] \/ e = <<"tcp_reset", "negative">>
    BY DEF UdpAnswers, Failures, Kind, Allowed, Unreachable
<1>6. \A e \in TlsAnswers : Kind(e) \in Allowed["tls_handshake"]
    BY DEF TlsAnswers, TlsFailures, Failures, Kind, Allowed, Broken, Unreachable
<1>7. \A e \in HttpAnswers : Kind(e) \in Allowed["http_exchange"]
    BY DEF HttpAnswers, TlsFailures, Failures, Kind, Allowed, Broken, Unreachable
<1>8. \A e \in PathAnswers : Kind(e) \in Allowed["native_path"]
    BY DEF PathAnswers, Kind, Allowed, Unavailable
<1>9. \A e \in ScanAnswers : Kind(e) \in Allowed["native_port_scan"]
    BY DEF ScanAnswers, Kind, Allowed, Unavailable
<1> QED BY <1>1, <1>2, <1>3, <1>4, <1>5, <1>6, <1>7, <1>8, <1>9 DEF Answers

-----------------------------------------------------------------------------
\* A step of TaskRun is one of TaskContext, with the answers filled in.
LEMMA RunStepIsStep == [RunNext]_runVars => [Next]_vars
<1> SUFFICES ASSUME [RunNext]_runVars PROVE [Next]_vars
    OBVIOUS
<1>1. CASE \E w \in Workers : RunCoroutine(w)
    BY <1>1 DEF RunCoroutine, RunProbed, Elsewhere, Next, Coroutine
<1>2. CASE RunCancelTask \/ RunTimesOut \/ RunnerRaised \/ RunnerReturned
    BY <1>2 DEF RunCancelTask, RunTimesOut, RunnerRaised, RunnerReturned, Next
<1>3. CASE Tick \/ Cancel \/ Teardown
    BY <1>3 DEF Next
<1>4. CASE UNCHANGED runVars
    BY <1>4 DEF runVars
<1> QED BY <1>1, <1>2, <1>3, <1>4 DEF RunNext

\* A run with its evidence and its answer is a run of TaskContext.
THEOREM RunIsContext == RunSpec => Spec
<1>1. RunInit => Init
    BY DEF RunInit
<1> QED BY <1>1, RunStepIsStep, PTL DEF RunSpec, Spec

\* What is proved of TaskContext holds of TaskRun.
LEMMA PoolHolds == RunSpec => []PoolInv
BY RunIsContext, PoolCorrect, PTL

-----------------------------------------------------------------------------
(* Whose steps they are.                                                   *)

Busy(w) == worker[w].phase \in {"locking", "probing"} \cup Holding

\* Every coroutine that has a step has one of its own, without evidence yet.
OwnInv ==
    /\ \A w \in Workers : Busy(w) => worker[w].step =< taken /\ worker[w].step \notin DOMAIN found
    /\ \A w, v \in Workers : Busy(w) /\ Busy(v) /\ w # v => worker[w].step # worker[v].step
    /\ DOMAIN found \subseteq 1..taken

\* Nobody gets a step.
Calm == /\ \A v \in Workers : Busy(v)' => Busy(v) /\ worker'[v].step = worker[v].step
        /\ taken' = taken

\* Steps stay with their coroutines while nobody takes one.
LEMMA CalmOwn ==
    ASSUME OwnInv, Calm, found' = found
    PROVE  OwnInv'
BY DEF OwnInv, Calm

\* A coroutine that goes on without taking a step leaves the others theirs.
LEMMA GoesCalm ==
    ASSUME TypeOK, NEW w \in Workers, Busy(w), taken' = taken,
           \A v \in Workers : v # w => worker'[v] = worker[v],
           worker'[w].step = worker[w].step
    PROVE  Calm
BY DEF Calm, Busy

\* A coroutine that raises takes no step.
LEMMA RaisesCalm ==
    ASSUME TypeOK, NEW w \in Workers, Busy(w), NEW how \in Raised, Raises(w, how)
    PROVE  Calm
<1>1. /\ worker' = [worker EXCEPT ![w].phase = how] /\ taken' = taken
      /\ worker \in [Workers -> Coroutines]
    BY DEF Raises, Goes, TypeOK
<1>2. worker'[w].step = worker[w].step /\ \A v \in Workers : v # w => worker'[v] = worker[v]
    BY <1>1 DEF Coroutines
<1> QED BY <1>1, <1>2, GoesCalm

\* A coroutine that paces takes no step.
LEMMA PaceCalm ==
    ASSUME TypeOK, NEW w \in Workers, Busy(w), NEW s \in Steps, Pace(w, s)
    PROVE  Calm
<1>1. CASE RaisesHolding(w, "cancelled")
    BY <1>1, RaisesCalm DEF RaisesHolding, Raised
<1>2. CASE Admit(w, s)
    <2>1. /\ worker' = [worker EXCEPT ![w].phase = "probing"] /\ taken' = taken
          /\ worker \in [Workers -> Coroutines]
        BY <1>2 DEF Admit, Goes, TypeOK
    <2>2. worker'[w].step = worker[w].step /\ \A v \in Workers : v # w => worker'[v] = worker[v]
        BY <2>1 DEF Coroutines
    <2> QED BY <2>1, <2>2, GoesCalm
<1>3. CASE /\ worker' = [worker EXCEPT ![w].phase = "pacing", ![w].due = StartAt(s)]
           /\ UNCHANGED <<now, token, queue, taken, slots, evidence, raised, verdict>>
    <2>1. worker \in [Workers -> Coroutines] /\ taken' = taken
        BY <1>3 DEF TypeOK
    <2>2. worker'[w].step = worker[w].step /\ \A v \in Workers : v # w => worker'[v] = worker[v]
        BY <1>3, <2>1 DEF Coroutines
    <2> QED BY <2>1, <2>2, GoesCalm
<1> QED BY <1>1, <1>2, <1>3 DEF Pace

\* The checks under the lock take no step, nor does a resolution.
LEMMA PreflightCalm ==
    ASSUME PoolInv, NEW w \in Workers, Preflight(w) \/ Resolved(w)
    PROVE  Calm
<1>1. Busy(w) /\ TypeOK /\ worker[w].step \in Steps
    BY DEF Preflight, Resolved, At, Busy, Holding, PoolInv, LockInv
<1>2. \/ \E how \in Raised : Raises(w, how)
      \/ Pace(w, worker[w].step)
      \/ /\ worker' = [worker EXCEPT ![w].phase = "resolving", ![w].asked = now]
         /\ taken' = taken
    BY DEF Preflight, Resolved, RaisesHolding, Raised
<1>3. CASE \E how \in Raised : Raises(w, how)
    BY <1>1, <1>3, RaisesCalm
<1>4. CASE Pace(w, worker[w].step)
    BY <1>1, <1>4, PaceCalm
<1>5. CASE /\ worker' = [worker EXCEPT ![w].phase = "resolving", ![w].asked = now]
           /\ taken' = taken
    <2>1. worker \in [Workers -> Coroutines]
        BY <1>1 DEF TypeOK
    <2>2. worker'[w].step = worker[w].step /\ \A v \in Workers : v # w => worker'[v] = worker[v]
        BY <1>5, <2>1 DEF Coroutines
    <2> QED BY <1>1, <1>5, <2>2, GoesCalm
<1> QED BY <1>2, <1>3, <1>4, <1>5

\* Nor does what is left of a coroutine.
LEMMA RestCalm ==
    ASSUME PoolInv, NEW w \in Workers,
           Finish(w) \/ Interrupted(w) \/ TimerFires(w) \/ Resumes(w)
    PROVE  Calm
<1>1. TypeOK /\ worker \in [Workers -> Coroutines]
    BY DEF PoolInv, TypeOK
<1>2. CASE Finish(w)
    <2>1. worker' = [worker EXCEPT ![w].phase = "finished"] /\ taken' = taken
        BY <1>2 DEF Finish, Goes
    <2>2. worker'[w].phase = "finished" /\ \A v \in Workers : v # w => worker'[v] = worker[v]
        BY <1>1, <2>1 DEF Coroutines
    <2>3. ~ Busy(w)'
        BY <2>2 DEF Busy, Holding
    <2> QED BY <2>1, <2>2, <2>3 DEF Calm, Busy
<1>3. CASE Interrupted(w)
    <2>1. Busy(w) /\ Raises(w, "cancelled")
        BY <1>3 DEF Interrupted, RaisesHolding, At, Busy, Holding
    <2> QED BY <1>1, <2>1, RaisesCalm DEF Raised
<1>4. CASE TimerFires(w) \/ Resumes(w)
    <2>1. Busy(w) /\ taken' = taken /\ \E ph \in Phases : worker' = [worker EXCEPT ![w].phase = ph]
        BY <1>4 DEF TimerFires, Resumes, Admit, Goes, At, Busy, Holding, Phases
    <2>2. worker'[w].step = worker[w].step /\ \A v \in Workers : v # w => worker'[v] = worker[v]
        BY <1>1, <2>1 DEF Coroutines
    <2> QED BY <1>1, <2>1, <2>2, GoesCalm
<1> QED BY <1>2, <1>3, <1>4

\* No action of the task around the coroutines gives anybody a step.
LEMMA TaskCalm ==
    ASSUME PoolInv,
           Tick \/ Cancel \/ CancelTask \/ TimesOut \/ Teardown \/ RunnerRaises \/ RunnerReturns
    PROVE  Calm
<1>1. CASE StopAll
    <2>1. worker \in [Workers -> Coroutines] /\ taken' = taken
        BY <1>1 DEF StopAll, PoolInv, TypeOK
    <2>2. \A v \in Workers : worker'[v].phase \in Over
        BY <1>1, <2>1 DEF StopAll, Coroutines, Over
    <2> QED BY <2>1, <2>2 DEF Calm, Busy, Holding, Over, Raised
<1>2. CASE UNCHANGED <<worker, taken>>
    BY <1>2 DEF Calm, Busy
<1> QED BY <1>1, <1>2 DEF Tick, Cancel, CancelTask, TimesOut, Teardown, RunnerRaises, RunnerReturns

\* The iterator hands out each step once.
LEMMA TakeOwn ==
    ASSUME PoolInv, OwnInv, NEW w \in Workers, Take(w), found' = found
    PROVE  OwnInv'
<1>1. worker \in [Workers -> Coroutines] /\ taken \in Nat /\ taken' = taken + 1
    BY DEF PoolInv, TypeOK, Take
<1>2. CASE worker' = [worker EXCEPT ![w].phase = "locking", ![w].step = taken + 1]
    <2>1. /\ worker'[w].step = taken + 1
          /\ \A v \in Workers : v # w => worker'[v] = worker[v]
        BY <1>1, <1>2 DEF Coroutines
    <2>2. \A v \in Workers : worker[v].step \in Nat
        BY <1>1 DEF Coroutines
    <2> QED BY <1>1, <2>1, <2>2 DEF OwnInv, Busy
<1>3. CASE Goes(w, "cancelled")
    <2>1. /\ worker'[w].phase = "cancelled"
          /\ \A v \in Workers : v # w => worker'[v] = worker[v]
        BY <1>1, <1>3 DEF Goes, Coroutines
    <2>2. ~ Busy(w)' /\ \A v \in Workers : worker[v].step \in Nat
        BY <1>1, <2>1 DEF Busy, Holding, Coroutines
    <2> QED BY <1>1, <2>1, <2>2 DEF OwnInv, Busy
<1> QED BY <1>2, <1>3 DEF Take

\* Whoever has probed a step has it no longer.
LEMMA ProbedOwn ==
    ASSUME PoolInv, OwnInv, NEW w \in Workers, RunProbed(w)
    PROVE  OwnInv'
<1>1. /\ worker \in [Workers -> Coroutines] /\ taken' = taken
      /\ Busy(w) /\ DOMAIN found' \subseteq DOMAIN found \cup {worker[w].step}
    BY DEF PoolInv, TypeOK, RunProbed, Probed, Raises, At, Busy
<1>2. /\ worker'[w].phase \in {"idle", "refused", "failed"}
      /\ \A v \in Workers : v # w => worker'[v] = worker[v]
    BY <1>1 DEF RunProbed, Probed, Raises, Goes, Coroutines
<1>3. ~ Busy(w)' /\ worker[w].step \in Steps
    BY <1>1, <1>2 DEF Busy, Holding, PoolInv, LockInv
<1>4. worker[w].step \in 1..taken
    BY <1>1, <1>3 DEF OwnInv, PoolInv, TypeOK, Steps
<1> QED BY <1>1, <1>2, <1>3, <1>4 DEF OwnInv, Busy

\* Every step leaves each coroutine a step of its own.
LEMMA OwnStep ==
    ASSUME PoolInv, OwnInv, [RunNext]_runVars
    PROVE  OwnInv'
<1>1. CASE \E w \in Workers : RunProbed(w)
    BY <1>1, ProbedOwn
<1>2. CASE \E w \in Workers : Elsewhere(w) /\ UNCHANGED trail
    <2>1. PICK w \in Workers : Elsewhere(w)
        BY <1>2
    <2>2. found' = found
        BY <1>2 DEF trail
    <2>3. CASE Take(w)
        BY <2>2, <2>3, TakeOwn
    <2>4. CASE ~ Take(w)
        BY <2>1, <2>2, <2>4, PreflightCalm, RestCalm, CalmOwn DEF Elsewhere
    <2> QED BY <2>3, <2>4
<1>3. CASE \/ (Tick \/ Cancel \/ Teardown) /\ UNCHANGED trail
           \/ RunCancelTask \/ RunTimesOut \/ RunnerRaised \/ RunnerReturned
    <2>1. found' = found
        BY <1>3 DEF trail, RunCancelTask, RunTimesOut, RunnerRaised, RunnerReturned, Answered
    <2>2. Calm
        BY <1>3, TaskCalm DEF RunCancelTask, RunTimesOut, RunnerRaised, RunnerReturned
    <2> QED BY <2>1, <2>2, CalmOwn
<1>4. CASE UNCHANGED runVars
    BY <1>4 DEF runVars, vars, trail, OwnInv, Busy
<1> QED BY <1>1, <1>2, <1>3, <1>4 DEF RunNext, RunCoroutine

-----------------------------------------------------------------------------
(* Room.                                                                   *)

TrailTypeOK ==
    /\ diagnosis \in BOOLEAN
    /\ DOMAIN found \subseteq Steps /\ found \in [DOMAIN found -> Evidence]
    /\ used \in Nat
    /\ answer \in TaskResults \cup {NoAnswer}

\* What a running task has spent are the events and bytes of its steps.
RoomInv ==
    /\ completed \subseteq DOMAIN found
    /\ verdict = "none" => /\ answer = NoAnswer
                           /\ count = 3 + Cardinality(DOMAIN found)
                           /\ used =< Cardinality(DOMAIN found) * Refusal

AnswerInv == TrailTypeOK /\ OwnInv /\ RoomInv /\ AnswerFits /\ HealthyIsWhole

\* A plan has finitely many steps.
LEMMA StepsAreFinite ==
    /\ IsFiniteSet(Steps) /\ Cardinality(Steps) = NSteps
    /\ \A F \in SUBSET Steps : IsFiniteSet(F) /\ Cardinality(F) \in 0..NSteps
<1>1. IsFiniteSet(Steps) /\ Cardinality(Steps) = NSteps
    BY PlanAssumption, FS_Interval DEF Steps
<1>2. \A F \in SUBSET Steps : IsFiniteSet(F) /\ Cardinality(F) \in 0..NSteps
    BY PlanAssumption, <1>1, FS_Subset, FS_CardinalityType
<1> QED BY <1>1, <1>2

\* One product more.
LEMMA OneMore ==
    ASSUME NEW n \in Nat, NEW r \in Nat
    PROVE  (n + 1) * r = n * r + r
OBVIOUS

\* A product grows with its factor.
LEMMA NoMore ==
    ASSUME NEW n \in Nat, NEW m \in Nat, n =< m, NEW r \in Nat
    PROVE  n * r =< m * r
OBVIOUS

\* A running task still has room for the end of a diagnosis.
LEMMA RoomLeft ==
    ASSUME TypeOK, TrailTypeOK, RoomInv, verdict = "none"
    PROVE  /\ count + 2 =< MaxEvents
           /\ diagnosis => Baseline + used + 2 * Note + 3 * Slip =< Limit
<1> DEFINE n == Cardinality(DOMAIN found)
<1>1. n \in Nat /\ n =< NSteps
    BY StepsAreFinite DEF TrailTypeOK
<1>2. count = 3 + n /\ used =< n * Refusal /\ used \in Nat
    BY DEF RoomInv, TrailTypeOK
<1> HIDE DEF n
<1>3. count + 2 =< MaxEvents
    BY PlanAssumption, <1>1, <1>2
<1>4. ASSUME diagnosis PROVE Baseline + used + 2 * Note + 3 * Slip =< Limit
    <2>1. n * Refusal =< NSteps * Refusal /\ n * Refusal \in Nat /\ NSteps * Refusal \in Nat
        BY PlanAssumption, <1>1, NoMore
    <2>2. used =< NSteps * Refusal
        BY <1>2, <2>1
    <2>3. Baseline + NSteps * Refusal + 2 * Note + 3 * Slip =< DiagnosisCeiling
        BY DiagnosisAssumption
    <2>4. Limit = DiagnosisCeiling
        BY <1>4 DEF Limit
    <2> QED BY <1>2, <2>1, <2>2, <2>3, <2>4
<1> QED BY <1>3, <1>4

-----------------------------------------------------------------------------
(* The end of the runner.                                                  *)

EndKinds == {"task-cancelled", "task-timeout", "task-execution-error"}
Contexts == [used : Nat, count : Nat, ends : SUBSET EndKinds]

\* A context that took the slip of a cancellation is one.
LEMMA ToldType ==
    ASSUME NEW c \in Contexts
    PROVE  /\ Told(c) \in Contexts /\ Told(c).ends = c.ends /\ Told(c).count = c.count
           /\ Told(c).used =< c.used + Slip
BY DEF Told, Contexts

\* So is one that noted how the task ended, as it does when there is room.
LEMMA EndedType ==
    ASSUME NEW c \in Contexts, NEW what \in EndKinds, NEW logged \in BOOLEAN
    PROVE  /\ Ended(c, what, logged) \in Contexts
           /\ c.ends \subseteq Ended(c, what, logged).ends
           /\ c.count + 2 =< MaxEvents /\ Fits(c.used + Note)
                 => what \in Ended(c, what, logged).ends
<1> DEFINE kept == Noted(c, what)
<1>1. kept \in Contexts /\ c.ends \subseteq kept.ends /\ what \in kept.ends
    <2>1. Note \in Nat /\ c.used + Note \in Nat /\ c.count + 1 \in Nat
        BY DEF Contexts
    <2>2. c.ends \cup {what} \in SUBSET EndKinds
        BY DEF Contexts
    <2> QED BY <2>1, <2>2 DEF Contexts, Noted
<1>3. Told(c) \in Contexts /\ Told(c).ends = c.ends
    BY ToldType
<1> HIDE DEF kept
<1>2. Told(kept) \in Contexts /\ Told(kept).ends = kept.ends
    BY <1>1, ToldType
<1>4. Ended(c, what, logged) = IF c.count + 2 =< MaxEvents /\ Fits(c.used + Note)
                               THEN IF logged THEN kept ELSE Told(kept)
                               ELSE Told(c)
    BY DEF Ended, kept
<1> QED BY <1>1, <1>2, <1>3, <1>4

\* However the runner ends, the context it leaves is one; and of a diagnosis
\* that still ran it holds the observation of that end.
LEMMA EndIsKept ==
    ASSUME TypeOK, TrailTypeOK, RoomInv, verdict = "none", NEW logged \in BOOLEAN,
           NEW what \in EndKinds
    PROVE  /\ Context \in Contexts
           /\ EndedByCancel(logged) \in Contexts /\ EndedBy(what, logged) \in Contexts
           /\ diagnosis => EndedByCancel(logged).ends # {} /\ EndedBy(what, logged).ends # {}
<1>1. /\ Context \in Contexts /\ Context.used = used /\ Context.count = count
      /\ used \in Nat /\ count \in Nat
    BY DEF Context, Contexts, TrailTypeOK, TypeOK
<1>2. /\ Told(Context) \in Contexts /\ Told(Context).count = count
      /\ Told(Context).used =< used + Slip
    BY <1>1, ToldType
<1>3. /\ Told(Context).used \in Nat
      /\ diagnosis => Fits(Context.used + Note) /\ Fits(Told(Context).used + Note)
    <2>1. Told(Context).used \in Nat
        BY <1>2 DEF Contexts
    <2>2. ASSUME diagnosis PROVE Fits(used + Note) /\ Fits(Told(Context).used + Note)
        <3>1. Baseline + used + 2 * Note + 3 * Slip =< Limit /\ Limit \in Nat
            BY <2>2, RoomLeft DEF Limit
        <3> QED BY <1>1, <1>2, <2>1, <3>1 DEF Fits
    <2> QED BY <1>1, <2>1, <2>2
<1>4. count + 2 =< MaxEvents
    BY RoomLeft
<1>5. /\ EndedByCancel(logged) \in Contexts
      /\ diagnosis => "task-cancelled" \in EndedByCancel(logged).ends
    BY <1>1, <1>3, <1>4, EndedType DEF EndedByCancel, EndKinds
<1> DEFINE failed == Ended(Told(Context), what, logged)
<1>6. failed \in Contexts /\ (diagnosis => what \in failed.ends)
    BY <1>2, <1>3, <1>4, EndedType
<1> HIDE DEF failed
<1>7. /\ Ended(failed, "task-cancelled", logged) \in Contexts
      /\ failed.ends \subseteq Ended(failed, "task-cancelled", logged).ends
    BY <1>6, EndedType DEF EndKinds
<1>8. EndedBy(what, logged) \in {failed, Ended(failed, "task-cancelled", logged)}
    BY DEF EndedBy, failed
<1> QED BY <1>1, <1>5, <1>6, <1>7, <1>8

-----------------------------------------------------------------------------
(* The answer.                                                             *)

Healths == {"none", "healthy", "partial", "failed"}
States  == {"completed", "failed", "cancelled"}

\* What the result is measured to take is a number.
LEMMA MeasuredFits ==
    ASSUME TrailTypeOK, NEW full \in TaskResults
    PROVE  /\ Measured(full) \in TaskResults /\ Measured(full).size =< Limit
           /\ Measured(full) \in {full, BoundedAnswer}
<1>1. BoundedAnswer \in TaskResults /\ BoundedAnswer.size =< Limit
    BY BoundedAssumption DEF BoundedAnswer, TaskResults, Limit
<1> QED BY <1>1 DEF Measured

\* What a probe says is one of its answers.
LEMMA SaysType ==
    ASSUME TrailTypeOK, NEW state \in States, NEW health \in Healths, NEW size \in Nat
    PROVE  Says(state, health, size) \in TaskResults
BY DEF Says, States, Healths, TaskResults, TrailTypeOK

\* Only a completed pool, or a diagnosis without lifecycle evidence, can be
\* found healthy.
LEMMA HealthOf ==
    ASSUME NEW c \in Contexts, NEW state \in States
    PROVE  /\ Classified(c) \in Healths /\ (Classified(c) = "healthy" => c.ends = {})
           /\ Derived(c, state) \in Healths
           /\ Derived(c, state) = "healthy" => state = "completed"
<1>1. Classified(c) \in {"partial", "healthy", "failed"}
      /\ (Classified(c) = "healthy" => c.ends = {})
    BY DEF Classified, Lifecycle
<1>2. Derived(c, state) \in {"partial", "healthy", "failed"}
      /\ (Derived(c, state) = "healthy" => state = "completed")
    BY DEF Derived, States
<1> QED BY <1>1, <1>2 DEF Healths

\* The answer fits, keeps what was found, and is healthy only of what is whole.
LEMMA AnswerOf ==
    ASSUME TrailTypeOK, NEW c \in Contexts, NEW state \in States, Answered(c, state),
           answer' # NoAnswer
    PROVE  /\ answer' \in TaskResults /\ answer'.size =< Limit
           /\ answer' # BoundedAnswer =>
                 answer'.kept = DOMAIN found /\ answer'.state \in {state, "failed"}
           /\ answer'.health = "healthy" =>
                 /\ answer'.state = state
                 /\ state = "completed" \/ (diagnosis /\ c.ends = {})
<1> DEFINE U == Says("failed", "failed", Baseline + c.used + Note + Slip + Summary)
           H == IF diagnosis THEN Classified(c) ELSE Derived(c, state)
           F == Says(state, H, Baseline + c.used + Summary)
           E == Says(state, "none", Baseline + c.used)
<1>1. c.used \in Nat /\ H \in Healths
    BY HealthOf DEF Contexts
<1>2. U \in TaskResults /\ F \in TaskResults /\ E \in TaskResults
    <2>1. "failed" \in States /\ "failed" \in Healths /\ "none" \in Healths
        BY DEF States, Healths
    <2>2. /\ Baseline + c.used + Note + Slip + Summary \in Nat
          /\ Baseline + c.used + Summary \in Nat /\ Baseline + c.used \in Nat
        BY <1>1
    <2> HIDE DEF H
    <2> QED BY <1>1, <2>1, <2>2, SaysType
<1>3. answer' \in {Measured(U), Measured(F), Measured(E)}
    BY DEF Answered, Result, Unfinalised
<1>4. /\ U.kept = DOMAIN found /\ U.state = "failed" /\ U.health = "failed"
      /\ F.kept = DOMAIN found /\ F.state = state /\ F.health = H
      /\ E.kept = DOMAIN found /\ E.state = state /\ E.health = "none"
    BY DEF Says
<1>5. BoundedAnswer.health = "failed"
    BY DEF BoundedAnswer
<1>6. H = "healthy" => state = "completed" \/ (diagnosis /\ c.ends = {})
    BY HealthOf
<1> HIDE DEF U, F, E, H
<1>7. PICK full \in {U, F, E} : answer' = Measured(full)
    BY <1>3
<1>8. answer' \in TaskResults /\ answer'.size =< Limit /\ answer' \in {full, BoundedAnswer}
    BY <1>2, <1>7, MeasuredFits
<1> QED BY <1>4, <1>5, <1>6, <1>7, <1>8

-----------------------------------------------------------------------------
(* The invariant.                                                          *)

\* A task that has not begun has found nothing.
LEMMA AnswerInit == RunInit => AnswerInv
<1> SUFFICES ASSUME RunInit PROVE AnswerInv
    OBVIOUS
<1>1. /\ DOMAIN found = {} /\ found \in [DOMAIN found -> Evidence] /\ used = 0
      /\ diagnosis \in BOOLEAN /\ answer = NoAnswer
      /\ completed = {} /\ count = 3 /\ taken = 0
    BY DEF RunInit, Init
<1>2. \A w \in Workers : ~Busy(w)
    BY DEF RunInit, Init, Started, Busy, Holding
<1>3. TrailTypeOK
    BY <1>1 DEF TrailTypeOK
<1>4. OwnInv
    BY <1>1, <1>2 DEF OwnInv
<1>5. RoomInv
    <2>1. Cardinality(DOMAIN found) = 0
        BY <1>1, FS_EmptySet
    <2> QED BY <1>1, <2>1 DEF RoomInv
<1> QED BY <1>1, <1>3, <1>4, <1>5 DEF AnswerInv, AnswerFits, HealthyIsWhole

\* A step that adds no evidence changes no answer.
LEMMA RestAnswers ==
    ASSUME AnswerInv, OwnInv', UNCHANGED trail, UNCHANGED <<evidence, verdict>>
    PROVE  AnswerInv'
BY DEF AnswerInv, TrailTypeOK, RoomInv, AnswerFits, HealthyIsWhole, Limit, trail, evidence

\* A probe adds one finding, within the room of its step.
LEMMA ProbedAnswers ==
    ASSUME PoolInv, PoolInv', AnswerInv, OwnInv', NEW w \in Workers, RunProbed(w)
    PROVE  AnswerInv'
<1> DEFINE s == worker[w].step
           F == DOMAIN found
<1>1. /\ s \in Steps /\ s \notin F /\ UNCHANGED <<diagnosis, answer, verdict>>
      /\ count \in Nat
    <2>1. worker[w].phase = "probing" /\ Busy(w)
        BY DEF RunProbed, Probed, At, Busy
    <2>2. s \in Steps /\ count \in Nat
        BY <2>1 DEF PoolInv, LockInv, TypeOK
    <2>3. s \notin F
        BY <2>1 DEF AnswerInv, OwnInv
    <2>4. UNCHANGED <<diagnosis, answer, verdict>>
        BY DEF RunProbed, Probed, Raises
    <2> QED BY <2>2, <2>3, <2>4
<1>2. /\ completed' = completed \/ (completed' = completed \cup {s} /\ count' = count + 1)
      /\ observed \subseteq observed' /\ completed \subseteq completed'
    BY DEF RunProbed, Probed, evidence
<1>3. IsFiniteSet(F) /\ Cardinality(F) \in Nat
    BY StepsAreFinite DEF AnswerInv, TrailTypeOK
<1>4. TrailTypeOK' /\ RoomInv'
    <2>1. CASE count' = count /\ UNCHANGED <<found, used>>
        BY <1>1, <1>2, <2>1 DEF AnswerInv, TrailTypeOK, RoomInv
    <2>2. CASE /\ count' = count + 1
               /\ \E e \in Answers[KindOf(s)] :
                     /\ Kind(e) \in Allowed[KindOf(s)] \cap Shown[diagnosis][s]
                     /\ Fits(used + Size(e))
                     /\ found' = [r \in F \cup {s} |-> IF r = s THEN e ELSE found[r]]
                     /\ used' = used + Size(e)
        <3>1. PICK e \in Answers[KindOf(s)] :
                     /\ found' = [r \in F \cup {s} |-> IF r = s THEN e ELSE found[r]]
                     /\ used' = used + Size(e)
            BY <2>2
        <3>2. Size(e) \in Nat /\ Size(e) =< Refusal
            BY DEF Size
        <3>3. e \in Evidence
            <4>1. KindOf(s) \in ProbeKinds
                BY <1>1, CompiledAssumption DEF KindOf, ProbeKinds, Answers
            <4> QED BY <4>1 DEF Evidence
        <3>4. DOMAIN found' = F \cup {s}
            BY <3>1
        <3>5. TrailTypeOK'
            BY <1>1, <3>1, <3>2, <3>3, <3>4 DEF AnswerInv, TrailTypeOK
        <3>6. Cardinality(F \cup {s}) = Cardinality(F) + 1
            BY <1>1, <1>3, FS_AddElement
        <3>7. ASSUME verdict = "none"
              PROVE  used' =< Cardinality(F \cup {s}) * Refusal
            <4> DEFINE n == Cardinality(F)
            <4>1. used =< n * Refusal /\ used \in Nat /\ n \in Nat
                BY <1>3, <3>7 DEF AnswerInv, RoomInv, TrailTypeOK
            <4>2. Cardinality(F \cup {s}) = n + 1
                BY <3>6
            <4> HIDE DEF n
            <4>3. (n + 1) * Refusal = n * Refusal + Refusal /\ n * Refusal \in Nat
                BY <4>1, OneMore
            <4>4. used' =< n * Refusal + Refusal
                BY <3>1, <3>2, <4>1, <4>3
            <4> QED BY <4>2, <4>3, <4>4
        <3>8. RoomInv'
            <4>1. completed' \subseteq F \cup {s}
                BY <1>2 DEF AnswerInv, RoomInv
            <4>2. verdict = "none" => answer = NoAnswer /\ count' = 3 + Cardinality(F \cup {s})
                BY <1>3, <2>2, <3>6 DEF AnswerInv, RoomInv
            <4> QED BY <1>1, <3>4, <3>7, <4>1, <4>2 DEF RoomInv
        <3> QED BY <3>5, <3>8
    <2> QED BY <2>1, <2>2 DEF RunProbed
<1>5. AnswerFits' /\ HealthyIsWhole'
    <2>1. AnswerFits'
        BY <1>1 DEF AnswerInv, AnswerFits, Limit
    <2>2. observed' \subseteq Steps /\ completed' \subseteq Steps
        BY DEF PoolInv, TypeOK
    <2>3. HealthyIsWhole'
        BY <1>1, <1>2, <2>2 DEF AnswerInv, HealthyIsWhole
    <2> QED BY <2>1, <2>3
<1> QED BY <1>4, <1>5 DEF AnswerInv

\* The step AnswerIsWhole speaks of.
WholeAnswer ==
    answer = NoAnswer /\ answer' # NoAnswer =>
       \/ answer'.state = "completed" /\ answer'.kept = Steps
       \/ answer'.state # "completed" /\ completed \subseteq answer'.kept
       \/ answer' = BoundedAnswer

\* The end of the task fits what was found into the room.
LEMMA EndAnswers ==
    ASSUME PoolInv, AnswerInv, OwnInv', verdict = "none", verdict' # "none",
           UNCHANGED <<observed, completed>>,
           NEW c \in Contexts, NEW state \in States, Answered(c, state),
           state = "completed" => completed = Steps,
           state # "completed" /\ diagnosis => c.ends # {}
    PROVE  AnswerInv' /\ WholeAnswer
<1> USE DEF AnswerInv
<1>1. /\ UNCHANGED <<diagnosis, found>> /\ used' = c.used /\ used' \in Nat
      /\ completed \subseteq DOMAIN found /\ DOMAIN found \subseteq Steps
    BY DEF Answered, Contexts, RoomInv, TrailTypeOK
<1>2. CASE answer' = NoAnswer
    BY <1>1, <1>2 DEF TrailTypeOK, RoomInv, AnswerFits, HealthyIsWhole, WholeAnswer
<1>3. CASE answer' # NoAnswer
    <2>1. /\ answer' \in TaskResults /\ answer'.size =< Limit
          /\ answer' # BoundedAnswer =>
                answer'.kept = DOMAIN found /\ answer'.state \in {state, "failed"}
          /\ answer'.health = "healthy" => answer'.state = state /\ state = "completed"
        BY <1>3, AnswerOf
    <2>2. TrailTypeOK' /\ RoomInv' /\ AnswerFits'
        BY <1>1, <2>1 DEF TrailTypeOK, RoomInv, AnswerFits, Limit
    <2>3. HealthyIsWhole'
        <3>1. completed = Steps => observed = Steps
            BY DEF PoolInv, TypeOK
        <3> QED BY <2>1, <3>1 DEF HealthyIsWhole
    <2>4. WholeAnswer
        BY <1>1, <2>1 DEF WholeAnswer, States
    <2> QED BY <2>2, <2>3, <2>4
<1> QED BY <1>2, <1>3

\* The four ways a runner ends.
LEMMA EndsAnswer ==
    ASSUME PoolInv, AnswerInv, OwnInv',
           RunCancelTask \/ RunTimesOut \/ RunnerRaised \/ RunnerReturned
    PROVE  AnswerInv' /\ WholeAnswer
<1>1. /\ verdict = "none" /\ verdict' # "none" /\ UNCHANGED <<observed, completed>>
      /\ TypeOK /\ TrailTypeOK /\ RoomInv
    <2>1. verdict = "none" /\ TypeOK /\ TrailTypeOK /\ RoomInv
        BY DEF RunCancelTask, RunTimesOut, RunnerRaised, RunnerReturned, CancelTask, TimesOut,
               RunnerRaises, RunnerReturns, PoolInv, AnswerInv
    <2>2. verdict' # "none"
        BY DEF RunCancelTask, RunTimesOut, RunnerRaised, RunnerReturned, CancelTask, TimesOut,
               RunnerRaises, RunnerReturns
    <2>3. UNCHANGED <<observed, completed>>
        BY DEF RunCancelTask, RunTimesOut, RunnerRaised, RunnerReturned, CancelTask, TimesOut,
               RunnerRaises, RunnerReturns, Concludes
    <2> QED BY <2>1, <2>2, <2>3
<1>2. ASSUME NEW logged \in BOOLEAN, Answered(EndedByCancel(logged), "cancelled")
      PROVE  AnswerInv' /\ WholeAnswer
    <2>1. EndedByCancel(logged) \in Contexts /\ (diagnosis => EndedByCancel(logged).ends # {})
        BY <1>1, EndIsKept DEF EndKinds
    <2> QED BY <1>1, <1>2, <2>1, EndAnswers DEF States
<1>3. ASSUME NEW logged \in BOOLEAN, NEW what \in EndKinds,
             Answered(EndedBy(what, logged), "failed")
      PROVE  AnswerInv' /\ WholeAnswer
    <2>1. EndedBy(what, logged) \in Contexts /\ (diagnosis => EndedBy(what, logged).ends # {})
        BY <1>1, EndIsKept
    <2> QED BY <1>1, <1>3, <2>1, EndAnswers DEF States
<1>4. ASSUME completed = Steps, Answered(Context, "completed")
      PROVE  AnswerInv' /\ WholeAnswer
    <2>1. Context \in Contexts
        BY <1>1, EndIsKept DEF EndKinds
    <2> QED BY <1>1, <1>4, <2>1, EndAnswers DEF States
<1>5. \/ \E logged \in BOOLEAN : Answered(EndedByCancel(logged), "cancelled")
      \/ \E logged \in BOOLEAN, what \in EndKinds : Answered(EndedBy(what, logged), "failed")
      \/ completed = Steps /\ Answered(Context, "completed")
    <2>1. CASE RunCancelTask \/ RunTimesOut
        BY <2>1 DEF RunCancelTask, RunTimesOut, EndKinds
    <2>2. CASE RunnerRaised
        BY <2>2 DEF RunnerRaised, EndKinds
    <2>3. CASE RunnerReturned
        BY <2>3 DEF RunnerReturned, RunnerReturns, EndKinds
    <2> QED BY <2>1, <2>2, <2>3
<1> QED BY <1>2, <1>3, <1>4, <1>5

\* Every step of the run keeps the invariant of its answer.
LEMMA AnswerStep ==
    PoolInv /\ PoolInv' /\ AnswerInv /\ [RunNext]_runVars => AnswerInv' /\ [WholeAnswer]_runVars
<1> SUFFICES ASSUME PoolInv, PoolInv', AnswerInv, [RunNext]_runVars
             PROVE  AnswerInv' /\ [WholeAnswer]_runVars
    OBVIOUS
<1>1. OwnInv'
    BY OwnStep DEF AnswerInv
<1>2. CASE RunCancelTask \/ RunTimesOut \/ RunnerRaised \/ RunnerReturned
    BY <1>1, <1>2, EndsAnswer
<1>3. CASE \E w \in Workers : RunProbed(w)
    <2>1. answer' = answer
        BY <1>3 DEF RunProbed
    <2> QED BY <1>1, <1>3, <2>1, ProbedAnswers DEF WholeAnswer
<1>4. CASE \/ (Tick \/ Cancel \/ Teardown) /\ UNCHANGED trail
           \/ \E w \in Workers : Elsewhere(w) /\ UNCHANGED trail
    <2>1. UNCHANGED trail
        BY <1>4
    <2>2. UNCHANGED <<evidence, verdict>>
        <3>1. CASE Tick \/ Cancel \/ Teardown
            BY <3>1 DEF Tick, Cancel, Teardown
        <3>2. ASSUME NEW w \in Workers, NEW s, Pace(w, s) PROVE UNCHANGED <<evidence, verdict>>
            BY <3>2 DEF Pace, Admit, RaisesHolding, Raises
        <3>3. CASE \E w \in Workers : Preflight(w) \/ Resolved(w)
            BY <3>2, <3>3 DEF Preflight, Resolved, RaisesHolding, Raises
        <3>4. CASE \E w \in Workers : Take(w) \/ Finish(w) \/ Interrupted(w) \/ TimerFires(w)
            BY <3>4 DEF Take, Finish, Interrupted, TimerFires, RaisesHolding, Raises
        <3>5. CASE \E w \in Workers : Resumes(w)
            BY <3>5 DEF Resumes, Admit
        <3> QED BY <1>4, <3>1, <3>3, <3>4, <3>5 DEF Elsewhere
    <2>3. answer' = answer
        BY <2>1 DEF trail
    <2> QED BY <1>1, <2>1, <2>2, <2>3, RestAnswers DEF WholeAnswer
<1>5. CASE UNCHANGED runVars
    <2>1. UNCHANGED trail /\ UNCHANGED <<evidence, verdict>>
        BY <1>5 DEF runVars, vars
    <2> QED BY <1>1, <1>5, <2>1, RestAnswers
<1> QED BY <1>2, <1>3, <1>4, <1>5 DEF RunNext, RunCoroutine

\* The answer, the evidence kept and the budgets agree in every reachable state.
THEOREM AnswerCorrect == RunSpec => []AnswerInv
BY PoolHolds, AnswerInit, AnswerStep, PTL DEF RunSpec

-----------------------------------------------------------------------------
\* Every reachable state of a task and its answer is of the declared types.
THEOREM RunTypeCorrect == RunSpec => []RunTypeOK
<1>1. PoolInv /\ AnswerInv => RunTypeOK
    BY DEF PoolInv, AnswerInv, TrailTypeOK, RunTypeOK
<1> QED BY <1>1, PoolHolds, AnswerCorrect, PTL

\* Whatever was kept, no answer is larger than its plan allows: a result is
\* measured again with its conclusion, and the bounded one always fits.
THEOREM FitsCorrect == RunSpec => []AnswerFits
<1>1. AnswerInv => AnswerFits
    BY DEF AnswerInv
<1> QED BY <1>1, AnswerCorrect, PTL

\* A diagnosis is called healthy only when every step of it was completed:
\* whatever else ends it, there is room for the evidence of that end, and
\* the classifier finds it.
THEOREM HealthyCorrect == RunSpec => []HealthyIsWhole
<1>1. AnswerInv => HealthyIsWhole
    BY DEF AnswerInv
<1> QED BY <1>1, AnswerCorrect, PTL

\* An answer leaves out nothing that was completed before it, unless it is
\* the bounded one.
THEOREM WholeCorrect == RunSpec => AnswerIsWhole
<1>1. PoolInv /\ PoolInv' /\ AnswerInv /\ [RunNext]_runVars
         => [answer = NoAnswer /\ answer' # NoAnswer =>
               \/ answer'.state = "completed" /\ answer'.kept = Steps
               \/ answer'.state # "completed" /\ completed \subseteq answer'.kept
               \/ answer' = BoundedAnswer]_runVars
    BY AnswerStep DEF WholeAnswer
<1> QED BY <1>1, PoolHolds, AnswerCorrect, PTL DEF RunSpec, AnswerIsWhole

-----------------------------------------------------------------------------
(* No ceiling of the plan is met.                                          *)

\* Inside admit(); and past it, with the step in flight for as long as it has no evidence.
Waiting == {"locking"} \cup Holding
Settled == {"probing"} \cup Over

\* A step is admitted for the coroutine that took it, and a step in flight is that of
\* a coroutine that probes it or has left it behind.
FlightInv ==
    /\ Admitted \subseteq 1..taken
    /\ \A w \in Workers : worker[w].phase \in Waiting => worker[w].step \notin Admitted
    /\ \A r \in InFlight : \E w \in Workers : worker[w].phase \in Settled /\ worker[w].step = r

\* Coroutines that go on with their steps, or leave them, keep this.
LEMMA GoesFlight ==
    ASSUME FlightInv, Admitted' = Admitted, taken' = taken, completed \subseteq completed',
           \A v \in Workers :
              /\ worker'[v].step = worker[v].step
              /\ worker'[v].phase \in Waiting => worker[v].phase \in Waiting
              /\ worker[v].phase \in Settled =>
                    worker'[v].phase \in Settled \/ worker[v].step \in completed'
    PROVE  FlightInv'
BY DEF FlightInv, InFlight

\* So does an admission.
LEMMA AdmitFlight ==
    ASSUME PoolInv, OwnInv, FlightInv, NEW w \in Workers, worker[w].phase \in Waiting,
           Admit(w, worker[w].step)
    PROVE  FlightInv'
<1> DEFINE s == worker[w].step
<1>1. /\ worker \in [Workers -> Coroutines] /\ taken \in Nat /\ s \in Steps
      /\ taken' = taken /\ completed' = completed
      /\ worker' = [worker EXCEPT ![w].phase = "probing"]
      /\ started' = [r \in Admitted \cup {s} |-> IF r = s THEN now ELSE started[r]]
  BY DEF PoolInv, TypeOK, LockInv, Waiting, Admit, Goes, evidence
<1>2. Admitted' = Admitted \cup {s}
  BY <1>1 DEF Admitted
<1>3. /\ worker'[w].phase = "probing" /\ worker'[w].step = s
      /\ \A v \in Workers : v # w => worker'[v] = worker[v]
  BY <1>1 DEF Coroutines
<1>4. Busy(w) /\ s \in 1..taken
  BY <1>1 DEF OwnInv, Busy, Waiting, Steps
<1>5. "probing" \notin Waiting /\ "probing" \in Settled
  BY DEF Waiting, Holding, Settled
<1>6. (Admitted \subseteq 1..taken)'
  BY <1>1, <1>2, <1>4 DEF FlightInv
<1>7. \A v \in Workers : worker'[v].phase \in Waiting => worker'[v].step \notin Admitted'
  BY <1>2, <1>3, <1>4, <1>5 DEF FlightInv, OwnInv, Busy, Waiting
<1>8. ASSUME NEW r \in InFlight'
      PROVE  \E v \in Workers : worker'[v].phase \in Settled /\ worker'[v].step = r
  <2>1. CASE r = s
    BY <1>3, <1>5, <2>1
  <2>2. CASE r # s
    <3>1. r \in InFlight
      BY <1>1, <1>2, <2>2 DEF InFlight
    <3>2. PICK v \in Workers : worker[v].phase \in Settled /\ worker[v].step = r
      BY <3>1 DEF FlightInv
    <3> QED BY <1>3, <2>2, <3>2
  <2> QED BY <2>1, <2>2
<1> QED BY <1>6, <1>7, <1>8 DEF FlightInv

\* A coroutine that ends with an exception leaves its step in flight.
LEMMA RaisesFlight ==
    ASSUME TypeOK, FlightInv, NEW w \in Workers, NEW how \in Raised, Raises(w, how),
           completed \subseteq completed'
    PROVE  FlightInv'
<1>1. /\ worker' = [worker EXCEPT ![w].phase = how] /\ taken' = taken /\ Admitted' = Admitted
      /\ worker \in [Workers -> Coroutines]
  BY DEF Raises, Goes, TypeOK, slots, Admitted
<1>2. /\ worker'[w].phase = how /\ worker'[w].step = worker[w].step
      /\ \A v \in Workers : v # w => worker'[v] = worker[v]
  BY <1>1 DEF Coroutines
<1>3. how \in Settled /\ how \notin Waiting
  BY DEF Settled, Waiting, Over, Raised, Holding
<1> QED BY <1>1, <1>2, <1>3, GoesFlight

\* A coroutine that moves on inside admit().
LEMMA MovesFlight ==
    ASSUME TypeOK, FlightInv, NEW w \in Workers, worker[w].phase \in Waiting,
           taken' = taken, UNCHANGED <<slots, evidence>>,
           \A v \in Workers : v # w => worker'[v] = worker[v],
           worker'[w].step = worker[w].step
    PROVE  FlightInv'
<1>1. Admitted' = Admitted /\ completed' = completed
  BY DEF Admitted, slots, evidence
<1>2. worker[w].phase \notin Settled
  BY DEF Settled, Waiting, Over, Raised, Holding
<1> QED BY <1>1, <1>2, GoesFlight

\* Pace raises, admits or sleeps.
LEMMA PaceFlight ==
    ASSUME PoolInv, OwnInv, FlightInv, NEW w \in Workers, worker[w].phase \in Waiting,
           Pace(w, worker[w].step)
    PROVE  FlightInv'
<1>1. CASE RaisesHolding(w, "cancelled")
  BY <1>1, RaisesFlight DEF RaisesHolding, Raised, PoolInv, evidence
<1>2. CASE Admit(w, worker[w].step)
  BY <1>2, AdmitFlight
<1>3. CASE /\ worker' = [worker EXCEPT ![w].phase = "pacing",
                                       ![w].due = StartAt(worker[w].step)]
           /\ UNCHANGED <<now, token, queue, taken, slots, evidence, raised, verdict>>
  <2>1. worker \in [Workers -> Coroutines] /\ taken' = taken /\ UNCHANGED <<slots, evidence>>
    BY <1>3 DEF PoolInv, TypeOK
  <2>2. worker'[w].step = worker[w].step /\ \A v \in Workers : v # w => worker'[v] = worker[v]
    BY <1>3, <2>1 DEF Coroutines
  <2> QED BY <2>1, <2>2, MovesFlight DEF PoolInv
<1> QED BY <1>1, <1>2, <1>3 DEF Pace

\* The steps of a coroutine.
LEMMA CoroutineFlight ==
    ASSUME PoolInv, OwnInv, FlightInv, NEW w \in Workers, Coroutine(w)
    PROVE  FlightInv'
<1>1. TypeOK /\ worker \in [Workers -> Coroutines] /\ taken \in Nat
  BY DEF PoolInv, TypeOK
<1>2. CASE Take(w)
  <2>1. /\ taken' = taken + 1 /\ worker[w].phase = "idle"
        /\ Admitted' = Admitted /\ completed' = completed
    BY <1>2 DEF Take, At, Admitted, slots, evidence
  <2>2. "idle" \notin Settled /\ "cancelled" \notin Waiting
    BY DEF Settled, Waiting, Over, Raised, Holding
  <2>3. \/ worker' = [worker EXCEPT ![w].phase = "locking", ![w].step = taken + 1]
        \/ worker' = [worker EXCEPT ![w].phase = "cancelled"]
    BY <1>2 DEF Take, Goes
  <2>4. /\ worker'[w].step = taken + 1 \/ worker'[w].phase = "cancelled"
        /\ \A v \in Workers : v # w => worker'[v] = worker[v]
    BY <1>1, <2>3 DEF Coroutines
  <2>5. taken + 1 \notin Admitted /\ Admitted \subseteq 1..taken'
    BY <1>1, <2>1 DEF FlightInv
  <2>6. InFlight' = InFlight
    BY <2>1 DEF InFlight
  <2> QED BY <2>1, <2>2, <2>4, <2>5, <2>6 DEF FlightInv
<1>3. CASE Finish(w)
  <2>1. /\ worker' = [worker EXCEPT ![w].phase = "finished"] /\ taken' = taken
        /\ Admitted' = Admitted /\ completed' = completed
    BY <1>3 DEF Finish, Goes, Admitted, slots, evidence
  <2>2. /\ worker'[w].phase = "finished" /\ worker'[w].step = worker[w].step
        /\ \A v \in Workers : v # w => worker'[v] = worker[v]
    BY <1>1, <2>1 DEF Coroutines
  <2>3. "finished" \in Settled /\ "finished" \notin Waiting
    BY DEF Settled, Waiting, Over, Raised, Holding
  <2> QED BY <2>1, <2>2, <2>3, GoesFlight
<1>4. CASE Preflight(w) \/ Resolved(w)
  <2>1. worker[w].phase \in Waiting
    BY <1>4 DEF Preflight, Resolved, At, Waiting, Holding
  <2>2. \/ \E how \in Raised : RaisesHolding(w, how)
        \/ Pace(w, worker[w].step)
        \/ /\ worker' = [worker EXCEPT ![w].phase = "resolving", ![w].asked = now]
           /\ UNCHANGED <<now, token, queue, taken, slots, evidence, raised, verdict>>
    BY <1>4 DEF Preflight, Resolved, Raised
  <2>3. CASE \E how \in Raised : RaisesHolding(w, how)
    BY <1>1, <2>3, RaisesFlight DEF RaisesHolding, evidence
  <2>4. CASE Pace(w, worker[w].step)
    BY <2>1, <2>4, PaceFlight
  <2>5. CASE /\ worker' = [worker EXCEPT ![w].phase = "resolving", ![w].asked = now]
             /\ UNCHANGED <<now, token, queue, taken, slots, evidence, raised, verdict>>
    <3>1. worker'[w].step = worker[w].step /\ \A v \in Workers : v # w => worker'[v] = worker[v]
      BY <1>1, <2>5 DEF Coroutines
    <3> QED BY <1>1, <2>1, <2>5, <3>1, MovesFlight
  <2> QED BY <2>2, <2>3, <2>4, <2>5
<1>5. CASE Interrupted(w)
  BY <1>1, <1>5, RaisesFlight DEF Interrupted, RaisesHolding, Raised, evidence
<1>6. CASE TimerFires(w)
  <2>1. /\ worker[w].phase = "pacing" /\ worker' = [worker EXCEPT ![w].phase = "woken"]
        /\ taken' = taken /\ UNCHANGED <<slots, evidence>>
    BY <1>6 DEF TimerFires, At, Goes
  <2>2. worker'[w].step = worker[w].step /\ \A v \in Workers : v # w => worker'[v] = worker[v]
    BY <1>1, <2>1 DEF Coroutines
  <2> QED BY <1>1, <2>1, <2>2, MovesFlight DEF Waiting, Holding
<1>7. CASE Resumes(w)
  BY <1>7, AdmitFlight DEF Resumes, At, Waiting, Holding
<1>8. CASE Probed(w)
  <2>1. CASE \E how \in Raised : Raises(w, how) /\ completed' = completed
    BY <1>1, <2>1, RaisesFlight
  <2>2. CASE /\ Goes(w, "idle") /\ completed' = completed \cup {worker[w].step}
             /\ UNCHANGED <<taken, slots>>
    <3>1. /\ worker'[w].phase = "idle" /\ worker'[w].step = worker[w].step
          /\ \A v \in Workers : v # w => worker'[v] = worker[v]
      BY <1>1, <2>2 DEF Goes, Coroutines
    <3>2. "idle" \notin Waiting /\ Admitted' = Admitted
      BY <2>2 DEF Waiting, Holding, Admitted, slots
    <3> QED BY <2>2, <3>1, <3>2, GoesFlight
  <2> QED BY <1>8, <2>1, <2>2 DEF Probed, evidence, Raised
<1> QED BY <1>2, <1>3, <1>4, <1>5, <1>6, <1>7, <1>8 DEF Coroutine

\* What the task around them does stops them all, or none.
LEMMA FlightStep == ASSUME PoolInv, OwnInv, FlightInv, [Next]_vars PROVE FlightInv'
<1>1. worker \in [Workers -> Coroutines]
  BY DEF PoolInv, TypeOK
<1>2. CASE \E w \in Workers : Coroutine(w)
  BY <1>2, CoroutineFlight
<1>3. CASE StopAll /\ completed' = completed
  <2>1. /\ taken' = taken /\ Admitted' = Admitted
        /\ \A v \in Workers : worker'[v].step = worker[v].step /\ worker'[v].phase \in Over
    BY <1>1, <1>3 DEF StopAll, Admitted, slots, Coroutines, Over
  <2>2. Over \subseteq Settled /\ Over \cap Waiting = {}
    BY DEF Settled, Waiting, Over, Raised, Holding
  <2> QED BY <1>3, <2>1, <2>2, GoesFlight
<1>4. CASE UNCHANGED <<worker, taken, started, completed>>
  BY <1>4 DEF FlightInv, Admitted, InFlight
<1> QED BY <1>2, <1>3, <1>4
        DEF Next, Tick, Cancel, CancelTask, TimesOut, RunnerRaises, RunnerReturns, Teardown,
            Concludes, vars, slots, evidence

\* Whoever asks for admission finds room: its step is new, one of those not yet admitted,
\* and every step in flight belongs to another coroutine.
LEMMA RoomToAdmit ==
    ASSUME PoolInv, FlightInv, NEW w \in Workers, worker[w].phase = "locking"
    PROVE  ~Refuses(worker[w].step)
<1> DEFINE s == worker[w].step
           others == Workers \ {w}
           whose == [r \in InFlight |->
                       CHOOSE v \in Workers : worker[v].phase \in Settled /\ worker[v].step = r]
<1>1. s \in Steps /\ s \notin Admitted /\ Admitted \subseteq Steps
  BY DEF PoolInv, LockInv, TypeOK, FlightInv, Waiting
<1>2. Cardinality(Admitted) < NSteps
  <2>1. /\ IsFiniteSet(Steps \ {s}) /\ Cardinality(Steps \ {s}) = NSteps - 1
    BY <1>1, StepsAreFinite, FS_RemoveElement
  <2>2. Cardinality(Admitted) =< Cardinality(Steps \ {s}) /\ Cardinality(Admitted) \in Nat
    BY <1>1, <2>1, FS_Subset, FS_CardinalityType
  <2> QED BY <2>1, <2>2, PlanAssumption
<1>3. Cardinality(InFlight) < MaxConcurrency
  <2>1. /\ IsFiniteSet(others) /\ Cardinality(others) = Cardinality(Workers) - 1
        /\ Cardinality(Workers) \in Nat
    BY PoolAssumption, FS_RemoveElement, FS_CardinalityType
  <2>2. \A r \in InFlight : whose[r] \in others /\ worker[whose[r]].step = r
    <3>1. SUFFICES ASSUME NEW r \in InFlight
                   PROVE  whose[r] \in others /\ worker[whose[r]].step = r
      OBVIOUS
    <3>2. \E v \in Workers : worker[v].phase \in Settled /\ worker[v].step = r
      BY DEF FlightInv
    <3>3. whose[r] \in Workers /\ worker[whose[r]].phase \in Settled /\ worker[whose[r]].step = r
      BY <3>2
    <3>4. "locking" \notin Settled
      BY DEF Settled, Over, Raised
    <3> QED BY <3>3, <3>4
  <2>3. whose \in Injection(InFlight, others)
    <3>1. DOMAIN whose = InFlight /\ whose = [r \in InFlight |-> whose[r]]
      OBVIOUS
    <3> HIDE DEF whose
    <3>2. whose \in [InFlight -> others]
      BY <2>2, <3>1
    <3>3. \A r, q \in InFlight : whose[r] = whose[q] => r = q
      BY <2>2
    <3> QED BY <3>1, <3>2, <3>3 DEF Injection, IsInjective
  <2>4. IsFiniteSet(InFlight) /\ Cardinality(InFlight) =< Cardinality(others)
    <3> HIDE DEF whose, others
    <3> QED BY <2>1, <2>3, FS_Injection
  <2>5. Cardinality(InFlight) \in Nat
    BY <2>4, FS_CardinalityType
  <2>6. MaxConcurrency \in Nat
    BY LimitAssumption
  <2> QED BY <2>1, <2>4, <2>5, <2>6, PoolAssumption
<1>4. Cardinality(Admitted) \in Nat /\ Cardinality(InFlight) \in Nat
  BY <1>1, StepsAreFinite DEF InFlight
<1> QED BY <1>1, <1>2, <1>3, <1>4, PlanAssumption, LimitAssumption DEF Refuses

\* So admit() refuses nobody, and the event budget has room as long as the runner goes on.
LEMMA RefusedStep ==
    ASSUME PoolInv, AnswerInv, FlightInv, NeverRefused, [RunNext]_runVars
    PROVE  NeverRefused'
<1> SUFFICES ASSUME verdict' = "none", NEW v \in Workers, worker'[v].phase = "refused"
             PROVE  FALSE
  BY DEF NeverRefused, At
<1> USE DEF PoolInv
<1>1. [Next]_vars /\ worker \in [Workers -> Coroutines]
  BY RunStepIsStep DEF TypeOK
<1>2. verdict = "none" => worker[v].phase # "refused" /\ count + 2 =< MaxEvents
  BY RoomLeft DEF NeverRefused, At, AnswerInv
<1>3. ASSUME NEW w \in Workers, NEW ph \in Phases \ {"refused"}, Goes(w, ph), verdict = "none"
      PROVE  FALSE
  BY <1>1, <1>2, <1>3 DEF Goes, Coroutines
<1>4. ASSUME NEW w \in Workers, Pace(w, worker[w].step) PROVE FALSE
  <2>1. CASE /\ worker' = [worker EXCEPT ![w].phase = "pacing",
                                         ![w].due = StartAt(worker[w].step)]
             /\ verdict' = verdict
    BY <1>1, <1>2, <2>1 DEF Coroutines
  <2> QED BY <1>3, <1>4, <2>1 DEF Pace, Admit, RaisesHolding, Raises, Phases, Holding, Over, Raised
<1>5. ASSUME NEW w \in Workers, Preflight(w) \/ Resolved(w) PROVE FALSE
  <2>1. ~ (worker[w].phase = "locking" /\ Refuses(worker[w].step))
    BY RoomToAdmit
  <2>2. \/ \E how \in {"cancelled", "failed"} : Raises(w, how)
        \/ Pace(w, worker[w].step)
        \/ /\ worker' = [worker EXCEPT ![w].phase = "resolving", ![w].asked = now]
           /\ verdict' = verdict
    BY <1>5, <2>1 DEF Preflight, Resolved, RaisesHolding, At
  <2>3. CASE \E how \in {"cancelled", "failed"} : Raises(w, how)
    BY <1>3, <2>3 DEF Raises, Phases, Over, Raised
  <2>4. CASE /\ worker' = [worker EXCEPT ![w].phase = "resolving", ![w].asked = now]
             /\ verdict' = verdict
    BY <1>1, <1>2, <2>4 DEF Coroutines
  <2> QED BY <1>4, <2>2, <2>3, <2>4
<1>6. ASSUME NEW w \in Workers, Take(w) PROVE FALSE
  <2>1. verdict' = verdict
    BY <1>6 DEF Take
  <2>2. CASE worker' = [worker EXCEPT ![w].phase = "locking", ![w].step = taken + 1]
    BY <1>1, <1>2, <2>1, <2>2 DEF Coroutines
  <2> QED BY <1>3, <1>6, <2>1, <2>2 DEF Take, Phases, Over, Raised
<1>7. ASSUME NEW w \in Workers,
             Finish(w) \/ Interrupted(w) \/ TimerFires(w) \/ Resumes(w)
      PROVE  FALSE
  BY <1>3, <1>7 DEF Finish, Interrupted, TimerFires, Resumes, Admit, RaisesHolding, Raises,
       Phases, Holding, Over, Raised
<1>8. ASSUME NEW w \in Workers, Probed(w) PROVE FALSE
  <2>1. verdict' = verdict
    BY <1>8 DEF Probed, Raises
  <2>2. count + 2 =< MaxEvents /\ count \in Nat
    BY <1>2, <2>1 DEF TypeOK
  <2>3. Goes(w, "idle") \/ Goes(w, "failed")
    BY <1>8, <2>2, PlanAssumption DEF Probed, Raises
  <2> QED BY <1>3, <2>1, <2>3 DEF Phases, Over, Raised
<1>9. ~ UNCHANGED <<worker, verdict>>
  BY <1>2
<1>10. CASE \E w \in Workers : Coroutine(w)
  BY <1>5, <1>6, <1>7, <1>8, <1>10 DEF Coroutine
<1> QED BY <1>1, <1>9, <1>10
        DEF Next, Tick, Cancel, CancelTask, TimesOut, RunnerRaises, RunnerReturns, Teardown,
            vars, TypeOK

\* No coroutine of a runner that goes on is refused by its own plan, though others have
\* left their steps in flight and their events spent.
THEOREM RefusedCorrect == RunSpec => []NeverRefused
<1>1. RunInit => FlightInv /\ NeverRefused
  BY DEF RunInit, Init, Started, FlightInv, NeverRefused, Admitted, InFlight, Waiting, Holding,
         At
<1>2. PoolInv /\ AnswerInv /\ FlightInv /\ NeverRefused /\ [RunNext]_runVars
         => (FlightInv /\ NeverRefused)'
  BY FlightStep, RefusedStep, RunStepIsStep DEF AnswerInv
<1> QED BY <1>1, <1>2, PoolHolds, AnswerCorrect, PTL DEF RunSpec
=============================================================================
