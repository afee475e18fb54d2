---------------------------- MODULE WebBrokerProofs ----------------------------
(***************************************************************************)
(* What WebBroker keeps for any number of tasks, of cancellations and of   *)
(* callbacks between them: a store is closed over a task of TaskService    *)
(* that runs only on a cancellation, and then a failure is shown; and the  *)
(* broker does step by step what WebTask promises.  The argument is about the loop's queue: until a task is told *)
(* to cancel, at most one of its steps is queued, and none while it waits  *)
(* for a task of TaskService that is running.                              *)
(***************************************************************************)
EXTENDS WebBroker, FiniteSetTheorems, TLAPS

Callbacks == {"schedule", "step", "cancel", "fetch"} \X Tasks \cup {<<"stop">>}

\* TypeOK without the bound of the DELETEs, which is the runs' own.
BrokerType ==
    /\ state \in [Tasks -> Verdicts \cup {"absent", "accepted", "running"}]
    /\ held \in [Tasks -> Verdicts \cup {"none", "error"}]
    /\ post \in [Tasks -> {"none", "waiting", "accepted", "refused", "raised"}]
    /\ deletes \in [Tasks -> Nat]
    /\ ready \in Seq(Callbacks)
    /\ loop \in {"running", "closing", "stopping", "draining", "closed"}
    /\ drained \subseteq Tasks
    /\ task \in [Tasks -> Awaits \cup {"none", "created", "done"}]
    /\ hit \in [Tasks -> BOOLEAN]
    /\ service \in [Tasks -> Verdicts \cup {"none", "running", "raised"}]
    /\ told \subseteq Tasks

Queued(c) == c \in Range(ready)
Single(q, c) == \A i, j \in DOMAIN q : q[i] = c /\ q[j] = c => i = j
Asked(t) == deletes[t] > 0 \/ loop # "running"

\* A POST schedules its task once, and nothing steps a task there is not.
ScheduledOnce ==
    \A t \in Tasks :
       /\ post[t] = "none" =>
             task[t] = "none" /\ ~Queued(<<"schedule", t>>)
       /\ Queued(<<"schedule", t>>) => task[t] = "none"
       /\ Single(ready, <<"schedule", t>>)
       /\ task[t] = "none" => ~Queued(<<"step", t>>) /\ ~hit[t]

\* Until it is hit, a task has at most one step in the queue, and while it waits for
\* a task of TaskService that is running, none.
StepIsDue ==
    \A t \in Tasks : ~hit[t] =>
       /\ task[t] \in {"created", "direct"} => Single(ready, <<"step", t>>)
       /\ task[t] = "serving" /\ Queued(<<"step", t>>) => service[t] # "running"

\* What has become of the task of TaskService, by place.
ServiceByPlace ==
    \A t \in Tasks :
       /\ task[t] \in {"none", "created", "direct"} => service[t] = "none"
       /\ task[t] \in {"serving", "absorbing"} => service[t] # "none"
       /\ task[t] = "fetching" => service[t] \in Verdicts

\* The record by place.
RecordByPlace ==
    \A t \in Tasks :
       /\ task[t] = "none" =>
             state[t] = (IF post[t] = "none" THEN "absent" ELSE "accepted") /\ held[t] = "none"
       /\ task[t] = "created" => state[t] = "accepted" /\ held[t] = "none"
       /\ task[t] \in Awaits => state[t] = "running" /\ held[t] = "none"

\* Nothing is cancelled, or about to be, that nobody asked to cancel.
CancelIsAsked ==
    \A t \in Tasks :
       /\ Queued(<<"cancel", t>>) => Asked(t)
       /\ hit[t] => Asked(t)
       /\ t \in told => Asked(t)
       /\ service[t] = "cancelled" => t \in told

BrokerInv ==
    /\ BrokerType /\ ScheduledOnce /\ StepIsDue /\ ServiceByPlace /\ RecordByPlace
    /\ CancelIsAsked /\ OrphanIsShown

-----------------------------------------------------------------------------
(* The queue.                                                              *)

\* What is behind the head of a queue was in it, and was not the head if that was the
\* only one of its kind.
LEMMA TailOfQueue ==
    ASSUME NEW q \in Seq(Callbacks), q # <<>>
    PROVE  /\ Tail(q) \in Seq(Callbacks)
           /\ Head(q) \in Callbacks /\ Head(q) \in Range(q)
           /\ Range(Tail(q)) \subseteq Range(q)
           /\ \A c : Single(q, c) => Single(Tail(q), c)
           /\ \A c : Single(q, c) /\ Head(q) = c => c \notin Range(Tail(q))
<1>1. /\ Tail(q) \in Seq(Callbacks) /\ Len(q) \in Nat \ {0} /\ Len(Tail(q)) = Len(q) - 1
      /\ DOMAIN q = 1..Len(q) /\ DOMAIN Tail(q) = 1..(Len(q) - 1)
      /\ \A i \in 1..(Len(q) - 1) : Tail(q)[i] = q[i + 1]
      /\ Head(q) = q[1] /\ q[1] \in Callbacks
  OBVIOUS
<1>2. \A i \in 1..(Len(q) - 1) : i + 1 \in 1..Len(q) /\ i + 1 # 1
  BY <1>1
<1>3. Range(Tail(q)) \subseteq Range(q) /\ Head(q) \in Range(q)
  BY <1>1, <1>2 DEF Range
<1>4. ASSUME NEW c, Single(q, c)
      PROVE  Single(Tail(q), c) /\ (Head(q) = c => c \notin Range(Tail(q)))
  <2>1. \A i, j \in 1..Len(q) : q[i] = c /\ q[j] = c => i = j
    BY <1>1, <1>4 DEF Single
  <2>2. Single(Tail(q), c)
    <3> SUFFICES ASSUME NEW i \in 1..(Len(q) - 1), NEW j \in 1..(Len(q) - 1),
                        Tail(q)[i] = c, Tail(q)[j] = c
                 PROVE  i = j
      BY <1>1 DEF Single
    <3>1. i + 1 = j + 1
      BY <1>1, <1>2, <2>1
    <3> QED BY <3>1
  <2>3. ASSUME Head(q) = c, c \in Range(Tail(q)) PROVE FALSE
    <3>1. PICK i \in 1..(Len(q) - 1) : Tail(q)[i] = c
      BY <1>1, <2>3 DEF Range
    <3>2. q[i + 1] = c /\ q[1] = c /\ i + 1 \in 1..Len(q) /\ 1 \in 1..Len(q)
      BY <1>1, <1>2, <2>3, <3>1
    <3> QED BY <1>2, <2>1, <3>2
  <2> QED BY <2>2, <2>3
<1> QED BY <1>1, <1>3, <1>4

\* What comes to the end of a queue is in it, and stays the only one of its kind if
\* there was none.
LEMMA EndOfQueue ==
    ASSUME NEW q \in Seq(Callbacks), NEW d \in Callbacks
    PROVE  /\ Append(q, d) \in Seq(Callbacks)
           /\ Range(Append(q, d)) = Range(q) \cup {d}
           /\ \A c : Single(q, c) /\ (c # d \/ d \notin Range(q)) => Single(Append(q, d), c)
<1> DEFINE r == Append(q, d)
<1>1. /\ r \in Seq(Callbacks) /\ Len(q) \in Nat /\ DOMAIN q = 1..Len(q)
      /\ DOMAIN r = 1..(Len(q) + 1) /\ r[Len(q) + 1] = d
      /\ \A i \in 1..Len(q) : r[i] = q[i]
  OBVIOUS
<1>2. \A i \in 1..(Len(q) + 1) : i \in 1..Len(q) \/ i = Len(q) + 1
  BY <1>1
<1>3. \A i \in 1..Len(q) : i \in 1..(Len(q) + 1)
  BY <1>1
<1> HIDE DEF r
<1>4. Range(r) = Range(q) \cup {d}
  <2>1. Range(r) \subseteq Range(q) \cup {d}
    BY <1>1, <1>2 DEF Range
  <2>2. Len(q) + 1 \in 1..(Len(q) + 1)
    BY <1>1
  <2>3. Range(q) \subseteq Range(r) /\ d \in Range(r)
    BY <1>1, <1>3, <2>2 DEF Range
  <2> QED BY <2>1, <2>3
<1>5. ASSUME NEW c, Single(q, c), c # d \/ d \notin Range(q) PROVE Single(r, c)
  <2> SUFFICES ASSUME NEW i \in 1..(Len(q) + 1), NEW j \in 1..(Len(q) + 1), r[i] = c, r[j] = c
               PROVE  i = j
    BY <1>1 DEF Single
  <2>1. CASE i \in 1..Len(q) /\ j \in 1..Len(q)
    BY <1>1, <1>5, <2>1 DEF Single
  <2>2. ASSUME NEW k \in 1..Len(q), r[k] = d, c = d PROVE FALSE
    BY <1>1, <1>5, <2>2 DEF Range
  <2> QED BY <1>1, <1>2, <2>1, <2>2
<1> QED BY <1>1, <1>4, <1>5 DEF r

\* A step that is queued already is not queued again.
LEMMA WakeOnce ==
    ASSUME NEW q \in Seq(Callbacks), NEW t \in Tasks
    PROVE  /\ Wake(q, t) \in Seq(Callbacks)
           /\ Range(Wake(q, t)) = Range(q) \cup {<<"step", t>>}
           /\ \A c : Single(q, c) => Single(Wake(q, t), c)
<1>1. <<"step", t>> \in Callbacks
  BY DEF Callbacks
<1> QED BY <1>1, EndOfQueue DEF Wake

\* A finite set can be queued.
LEMMA SetAsSequence ==
    ASSUME NEW S, IsFiniteSet(S), S \subseteq Callbacks
    PROVE  SetToSeq(S) \in Seq(Callbacks) /\ Range(SetToSeq(S)) \subseteq S
<1>1. Cardinality(S) \in Nat /\ ExistsBijection(1..Cardinality(S), S)
  BY FS_CardinalityType
<1>2. \E f \in [1..Cardinality(S) -> S] : IsInjective(f)
  BY <1>1 DEF ExistsBijection, Bijection, Injection
<1>3. SetToSeq(S) \in [1..Cardinality(S) -> S]
  BY <1>2 DEF SetToSeq
<1>4. SetToSeq(S) \in [1..Cardinality(S) -> Callbacks]
  BY <1>3
<1> QED BY <1>1, <1>3, <1>4 DEF Range

\* What is queued behind others leaves them alone.
LEMMA BehindQueue ==
    ASSUME NEW q \in Seq(Callbacks), NEW s \in Seq(Callbacks)
    PROVE  /\ q \o s \in Seq(Callbacks)
           /\ Range(q \o s) \subseteq Range(q) \cup Range(s)
           /\ \A c : Single(q, c) /\ c \notin Range(s) => Single(q \o s, c)
<1> DEFINE r == q \o s
<1>1. /\ r \in Seq(Callbacks) /\ Len(q) \in Nat /\ Len(s) \in Nat
      /\ DOMAIN q = 1..Len(q) /\ DOMAIN s = 1..Len(s) /\ DOMAIN r = 1..(Len(q) + Len(s))
      /\ \A i \in 1..(Len(q) + Len(s)) : r[i] = IF i <= Len(q) THEN q[i] ELSE s[i - Len(q)]
  OBVIOUS
<1>2. \A i \in 1..(Len(q) + Len(s)) :
         (i \in 1..Len(q) /\ r[i] = q[i]) \/ (i - Len(q) \in 1..Len(s) /\ r[i] = s[i - Len(q)])
  BY <1>1
<1> HIDE DEF r
<1>3. Range(r) \subseteq Range(q) \cup Range(s)
  <2> SUFFICES ASSUME NEW i \in 1..(Len(q) + Len(s)) PROVE r[i] \in Range(q) \cup Range(s)
    BY <1>1 DEF Range
  <2> QED BY <1>1, <1>2 DEF Range
<1>4. ASSUME NEW c, Single(q, c), c \notin Range(s) PROVE Single(r, c)
  <2> SUFFICES ASSUME NEW i \in 1..(Len(q) + Len(s)), NEW j \in 1..(Len(q) + Len(s)),
                      r[i] = c, r[j] = c
               PROVE  i = j
    BY <1>1 DEF Single
  <2>1. \A k \in 1..Len(s) : s[k] # c
    BY <1>1, <1>4 DEF Range
  <2>2. i \in 1..Len(q) /\ q[i] = c /\ j \in 1..Len(q) /\ q[j] = c
    BY <1>2, <2>1
  <2> QED BY <1>1, <1>4, <2>2 DEF Single
<1> QED BY <1>1, <1>3, <1>4 DEF r

-----------------------------------------------------------------------------
(* The invariant, action by action.                                        *)

\* An empty broker satisfies the invariant.
LEMMA BrokerInvInit == Init => BrokerInv
<1> SUFFICES ASSUME Init PROVE BrokerInv
  OBVIOUS
<1>1. ready \in Seq(Callbacks) /\ Range(ready) = {}
  BY DEF Init, Range
<1>2. BrokerType
  BY <1>1 DEF Init, BrokerType, Verdicts, Awaits
<1>3. ScheduledOnce /\ StepIsDue
  BY <1>1 DEF Init, ScheduledOnce, StepIsDue, Queued, Single
<1>4. ServiceByPlace /\ RecordByPlace /\ CancelIsAsked /\ OrphanIsShown
  BY <1>1 DEF Init, ServiceByPlace, RecordByPlace, CancelIsAsked, Queued, Awaits,
     OrphanIsShown, Orphan
<1> QED BY <1>2, <1>3, <1>4 DEF BrokerInv

\* What a callback finds, and leaves behind in the queue.
LEMMA TakenOff ==
    ASSUME BrokerInv, NEW c, Takes(c)
    PROVE  /\ ready \in Seq(Callbacks) /\ Tail(ready) \in Seq(Callbacks)
           /\ Queued(c) /\ c \in Callbacks
           /\ Range(Tail(ready)) \subseteq Range(ready)
           /\ \A d : Single(ready, d) => Single(Tail(ready), d)
           /\ Single(ready, c) => c \notin Range(Tail(ready))
<1>1. ready \in Seq(Callbacks) /\ ready # <<>> /\ Head(ready) = c
  BY DEF BrokerInv, BrokerType, Takes
<1> QED BY <1>1, TailOfQueue DEF Queued

\* What an orphan shows stays, as long as its token and the request to cancel do.
LEMMA OrphanKept ==
    ASSUME OrphanIsShown, told \subseteq told',
           \A t \in Tasks : Asked(t) => Asked(t)',
           \A t \in Tasks : Orphan(t)' =>
              Orphan(t) /\ state'[t] = state[t] /\ held'[t] = held[t]
    PROVE  OrphanIsShown'
BY DEF OrphanIsShown, Asked

\* A POST puts a record into the table and queues its schedule().
LEMMA PostKeeps == ASSUME BrokerInv, NEW t \in Tasks, Post(t) PROVE BrokerInv'
<1> USE DEF BrokerInv
<1>1. <<"schedule", t>> \in Callbacks /\ ready \in Seq(Callbacks)
  BY DEF Callbacks, BrokerType
<1>2. /\ ready' \in Seq(Callbacks)
      /\ Range(ready') \subseteq Range(ready) \cup {<<"schedule", t>>}
      /\ \A c : Single(ready, c) => Single(ready', c)
  <2>1. CASE loop = "closed"
    BY <1>1, <2>1 DEF Post
  <2>2. CASE loop # "closed"
    BY <1>1, <2>2, EndOfQueue DEF Post, ScheduledOnce, Queued
  <2> QED BY <2>1, <2>2
<1>3. BrokerType'
  BY <1>2 DEF Post, BrokerType, thread, run, inner
<1>4. ScheduledOnce'
  BY <1>2 DEF Post, BrokerType, ScheduledOnce, Queued, thread, run, inner
<1>5. StepIsDue'
  BY <1>2 DEF Post, BrokerType, StepIsDue, Queued, thread, run, inner
<1>6. ServiceByPlace'
  BY DEF Post, ServiceByPlace, run, inner
<1>7. RecordByPlace'
  <2>1. /\ state' = [state EXCEPT ![t] = "accepted"] /\ UNCHANGED <<held, task>>
        /\ task[t] = "none" /\ post'[t] # "none"
        /\ \A u \in Tasks : u # t => post'[u] = post[u]
    BY DEF Post, BrokerType, ScheduledOnce, run
  <2> QED BY <2>1 DEF BrokerType, RecordByPlace, Awaits
<1>8. CancelIsAsked'
  BY <1>2 DEF Post, BrokerType, CancelIsAsked, Queued, Asked, thread, run, inner
<1>9. OrphanIsShown'
  <2>1. /\ task[t] = "none" /\ \A u \in Tasks : u # t => state'[u] = state[u]
        /\ UNCHANGED <<held, deletes, task, service, told, loop>>
    BY DEF Post, BrokerType, ScheduledOnce, thread, run, inner
  <2> QED BY <2>1, OrphanKept DEF Orphan, Asked
<1> QED BY <1>3, <1>4, <1>5, <1>6, <1>7, <1>8, <1>9

\* What does not touch the queue, nor where a task or its service is.
LEMMA QuietKeeps ==
    ASSUME BrokerInv, Closed \/ (\E t \in Tasks : Posted(t)) \/ UNCHANGED vars
    PROVE  BrokerInv'
<1> USE DEF BrokerInv, threads, record, thread, run, inner
<1>1. UNCHANGED <<record, deletes, ready, run, inner, drained>>
  BY DEF Closed, Posted, vars
<1>2. /\ post' \in [Tasks -> {"none", "waiting", "accepted", "refused", "raised"}]
      /\ loop' \in {"running", "closing", "stopping", "draining", "closed"}
      /\ \A t \in Tasks : post'[t] = "none" <=> post[t] = "none"
      /\ \A t \in Tasks : Asked(t) => Asked(t)'
  BY DEF Closed, Posted, vars, BrokerType, Asked
<1>3. BrokerType' /\ ScheduledOnce'
  BY <1>1, <1>2 DEF BrokerType, ScheduledOnce, Queued
<1>4. StepIsDue' /\ ServiceByPlace' /\ RecordByPlace'
  BY <1>1, <1>2 DEF StepIsDue, ServiceByPlace, RecordByPlace, Queued
<1>5. CancelIsAsked'
  BY <1>1, <1>2 DEF CancelIsAsked, Queued
<1>6. OrphanIsShown'
  BY <1>1, <1>2, OrphanKept DEF Orphan
<1> QED BY <1>3, <1>4, <1>5, <1>6

\* A DELETE queues a cancel, close() a stop; both ask for it.
LEMMA AskKeeps ==
    ASSUME BrokerInv, Close \/ \E t \in Tasks : Delete(t)
    PROVE  BrokerInv'
<1> USE DEF BrokerInv, threads, record, thread, run, inner
<1>1. PICK c \in Callbacks :
         /\ ready' = Append(ready, c)
         /\ \/ c = <<"stop">> /\ loop' = "closing" /\ UNCHANGED deletes
            \/ \E t \in Tasks : /\ c = <<"cancel", t>> /\ UNCHANGED loop
                                /\ deletes' = [deletes EXCEPT ![t] = @ + 1]
  BY DEF Close, Delete, Callbacks
<1>2. /\ ready' \in Seq(Callbacks) /\ Range(ready') = Range(ready) \cup {c}
      /\ \A d : Single(ready, d) /\ d # c => Single(ready', d)
  BY <1>1, EndOfQueue DEF BrokerType
<1>3. \A t \in Tasks : c # <<"schedule", t>> /\ c # <<"step", t>>
  BY <1>1
<1>4. \A t \in Tasks : (Asked(t) \/ c = <<"cancel", t>>) => Asked(t)'
  BY <1>1 DEF Asked, BrokerType, Close
<1>5. UNCHANGED <<record, post, run, inner, drained>>
  BY DEF Close, Delete
<1>6. BrokerType'
  BY <1>1, <1>2, <1>5 DEF BrokerType
<1>7. ScheduledOnce' /\ StepIsDue'
  BY <1>2, <1>3, <1>5 DEF ScheduledOnce, StepIsDue, Queued
<1>8. ServiceByPlace' /\ RecordByPlace'
  BY <1>5 DEF ServiceByPlace, RecordByPlace
<1>9. CancelIsAsked'
  BY <1>2, <1>4, <1>5 DEF CancelIsAsked, Queued
<1>10. OrphanIsShown'
  BY <1>4, <1>5, OrphanKept DEF Orphan
<1> QED BY <1>6, <1>7, <1>8, <1>9, <1>10

\* schedule() queues the first step of its task behind what is queued.
LEMMA ScheduleKeeps == ASSUME BrokerInv, NEW t \in Tasks, Schedule(t) PROVE BrokerInv'
<1> USE DEF BrokerInv, threads, record, thread, run, inner
<1>1. Takes(<<"schedule", t>>) /\ <<"step", t>> \in Callbacks
  BY DEF Schedule, Callbacks
<1>2. task[t] = "none" /\ ~Queued(<<"step", t>>) /\ Single(ready, <<"schedule", t>>)
  BY <1>1, TakenOff DEF ScheduledOnce
<1>3. /\ ready' \in Seq(Callbacks)
      /\ Range(ready') \subseteq Range(ready) \cup {<<"step", t>>}
      /\ ~Queued(<<"schedule", t>>)'
      /\ \A d : Single(ready, d) => Single(ready', d)
  <2>1. /\ ready' = Append(Tail(ready), <<"step", t>>)
        /\ Range(ready') = Range(Tail(ready)) \cup {<<"step", t>>}
        /\ <<"step", t>> \notin Range(Tail(ready))
    BY <1>1, <1>2, TakenOff, EndOfQueue DEF Schedule, Queued
  <2> QED BY <1>1, <1>2, <2>1, TakenOff, EndOfQueue DEF Queued
<1>4. BrokerType'
  BY <1>3 DEF Schedule, BrokerType
<1>5. post[t] # "none" /\ UNCHANGED <<post, record, hit, service>>
  BY <1>1, TakenOff DEF ScheduledOnce, Schedule
<1>6. ScheduledOnce'
  BY <1>2, <1>3, <1>5 DEF Schedule, BrokerType, ScheduledOnce, Queued
<1>7. StepIsDue'
  <2>1. Single(ready', <<"step", t>>)
    BY <1>2, <1>3 DEF Single, Queued, Range
  <2> QED BY <1>2, <1>3, <2>1 DEF Schedule, BrokerType, StepIsDue, Queued
<1>8. ServiceByPlace' /\ RecordByPlace'
  <2>1. state[t] = "accepted"
    BY <1>2, <1>5 DEF RecordByPlace
  <2> QED BY <1>2, <1>5, <2>1 DEF Schedule, BrokerType, ServiceByPlace, RecordByPlace, Awaits
<1>9. CancelIsAsked'
  BY <1>3 DEF Schedule, CancelIsAsked, Queued, Asked
<1>10. OrphanIsShown'
  <2>1. /\ task' = [task EXCEPT ![t] = "created"]
        /\ UNCHANGED <<record, deletes, service, told, loop>>
    BY DEF Schedule
  <2> QED BY <2>1, OrphanKept DEF BrokerType, Orphan, Asked
<1> QED BY <1>4, <1>6, <1>7, <1>8, <1>9, <1>10

\* Where a step leaves its task, with nothing of it asked that was not.
Left(t) ==
    /\ task[t] = "direct" => /\ Single(ready, <<"step", t>>)
                             /\ service[t] = "none" /\ state[t] = "running" /\ held[t] = "none"
    /\ task[t] = "serving" => /\ hit[t] \/ ~Queued(<<"step", t>>)
                              /\ service[t] # "none" /\ state[t] = "running" /\ held[t] = "none"
    /\ task[t] = "absorbing" => service[t] # "none" /\ state[t] = "running" /\ held[t] = "none"
    /\ task[t] = "fetching" =>
          service[t] \in Verdicts /\ state[t] = "running" /\ held[t] = "none"
    /\ Orphan(t) =>
          t \in told /\ Asked(t) /\ state[t] = "failed" /\ held[t] = "error"
    /\ task[t] \notin {"none", "created"}

\* A step of a task moves only that task.
LEMMA StepKeeps ==
    ASSUME BrokerInv, NEW t \in Tasks, task[t] # "none",
           BrokerType', UNCHANGED <<threads, thread>>, Left(t)',
           \A c : c # <<"fetch", t>> =>
              (Queued(c)' => Queued(c)) /\ (Single(ready, c) => Single(ready', c)),
           \A u \in Tasks : u # t =>
              /\ state'[u] = state[u] /\ held'[u] = held[u] /\ task'[u] = task[u]
              /\ hit'[u] = hit[u] /\ service'[u] = service[u],
           hit'[t] => hit[t],
           told \subseteq told', \A u \in told' : u \in told \/ Asked(u),
           service'[t] = "cancelled" => service[t] = "cancelled"
    PROVE  BrokerInv'
<1> USE DEF BrokerInv, threads, thread
<1>1. \A u \in Tasks : Asked(u)' <=> Asked(u)
  BY DEF Asked
<1>2. ScheduledOnce'
  BY DEF ScheduledOnce, Left
<1>3. StepIsDue'
  <2> SUFFICES ASSUME NEW u \in Tasks, ~hit'[u]
               PROVE  /\ task'[u] \in {"created", "direct"} => Single(ready', <<"step", u>>)
                      /\ task'[u] = "serving" /\ Queued(<<"step", u>>)' => service'[u] # "running"
    BY DEF StepIsDue
  <2>1. CASE u = t
    BY <2>1 DEF Left
  <2>2. CASE u # t
    BY <2>2 DEF StepIsDue
  <2> QED BY <2>1, <2>2
<1>4. ServiceByPlace'
  BY DEF ServiceByPlace, Left, Verdicts
<1>5. RecordByPlace'
  BY DEF RecordByPlace, Left, Awaits
<1>6. CancelIsAsked'
  BY <1>1 DEF CancelIsAsked
<1>7. OrphanIsShown'
  <2> SUFFICES ASSUME NEW u \in Tasks, Orphan(u)'
               PROVE  u \in told' /\ Asked(u)' /\ state'[u] = "failed" /\ held'[u] = "error"
    BY DEF OrphanIsShown, Asked
  <2>1. CASE u = t
    BY <2>1 DEF Left
  <2>2. CASE u # t
    BY <1>1, <2>2 DEF OrphanIsShown, Orphan, Asked
  <2> QED BY <2>1, <2>2
<1> QED BY <1>2, <1>3, <1>4, <1>5, <1>6, <1>7

\* A task is cancelled: it is hit, and has a step in the queue.
LEMMA CancelKeeps == ASSUME BrokerInv, NEW t \in Tasks, Cancel(t) PROVE BrokerInv'
<1> USE DEF BrokerInv, threads, record, thread, run, inner
<1>1. Takes(<<"cancel", t>>) /\ Asked(t)
  BY TakenOff DEF Cancel, CancelIsAsked
<1>2. /\ ready' \in Seq(Callbacks)
      /\ \A c : (Single(ready, c) => Single(ready', c))
      /\ \A c : Queued(c)' => Queued(c) \/ (c = <<"step", t>> /\ Alive(t))
  BY <1>1, TakenOff, WakeOnce DEF Cancel, Queued
<1>3. /\ hit' \in [Tasks -> BOOLEAN] /\ UNCHANGED <<post, deletes, record, thread, task, inner>>
      /\ \A u \in Tasks : (hit'[u] => hit[u] \/ (u = t /\ Alive(t))) /\ (hit[u] => hit'[u])
      /\ Alive(t) => hit'[t]
  BY DEF Cancel, BrokerType
<1>4. BrokerType'
  BY <1>2, <1>3 DEF BrokerType
<1>5. ScheduledOnce'
  <2>1. \A u \in Tasks : (Queued(<<"schedule", u>>)' => Queued(<<"schedule", u>>))
    BY <1>2
  <2>2. ASSUME NEW u \in Tasks, task[u] = "none" PROVE ~Queued(<<"step", u>>)'
    <3>1. ~Queued(<<"step", u>>)
      BY <2>2 DEF ScheduledOnce
    <3>2. ~(<<"step", u>> = <<"step", t>> /\ Alive(t))
      BY <2>2 DEF Alive
    <3> QED BY <1>2, <3>1, <3>2
  <2>3. \A u \in Tasks : task[u] = "none" => ~hit'[u]
    BY <1>3 DEF ScheduledOnce, Alive
  <2> QED BY <1>2, <1>3, <2>1, <2>2, <2>3 DEF ScheduledOnce
<1>6. StepIsDue'
  <2> SUFFICES ASSUME NEW u \in Tasks, ~hit'[u]
               PROVE  /\ task[u] \in {"created", "direct"} => Single(ready', <<"step", u>>)
                      /\ task[u] = "serving" /\ Queued(<<"step", u>>)' => service[u] # "running"
    BY <1>3 DEF StepIsDue
  <2>1. ~hit[u]
    BY <1>3
  <2>2. u = t => ~Alive(t)
    BY <1>3
  <2> QED BY <1>2, <2>1, <2>2 DEF StepIsDue
<1>7. ServiceByPlace' /\ RecordByPlace'
  BY <1>3 DEF ServiceByPlace, RecordByPlace
<1>8. CancelIsAsked'
  <2>1. \A u \in Tasks : (Queued(<<"cancel", u>>)' => Queued(<<"cancel", u>>))
    BY <1>2
  <2>2. \A u \in Tasks : hit'[u] => hit[u] \/ u = t
    BY <1>3
  <2> QED BY <1>1, <1>3, <2>1, <2>2 DEF CancelIsAsked, Asked
<1>9. OrphanIsShown'
  BY <1>3, OrphanKept DEF Orphan, Asked
<1> QED BY <1>4, <1>5, <1>6, <1>7, <1>8, <1>9

\* What a step of t finds.
LEMMA StepTaken ==
    ASSUME BrokerInv, NEW t \in Tasks, Takes(<<"step", t>>), NEW q, q = Tail(ready)
    PROVE  /\ q \in Seq(Callbacks) /\ Queued(<<"step", t>>)
           /\ \A c : (c \in Range(q) => Queued(c)) /\ (Single(ready, c) => Single(q, c))
           /\ Single(ready, <<"step", t>>) => <<"step", t>> \notin Range(q)
           /\ task[t] # "none"
<1>1. Queued(<<"step", t>>) /\ task[t] # "none"
  BY TakenOff DEF BrokerInv, ScheduledOnce
<1> QED BY <1>1, TakenOff DEF Queued

\* The first step of a task.
LEMMA BeginKeeps == ASSUME BrokerInv, NEW t \in Tasks, Begin(t) PROVE BrokerInv'
<1> USE DEF BrokerInv, threads, record, thread, run, inner
<1>1. Takes(<<"step", t>>) /\ task[t] = "created" /\ ready' = Tail(ready)
  BY DEF Begin
<1>2. /\ ready' \in Seq(Callbacks)
      /\ \A c : (Queued(c)' => Queued(c)) /\ (Single(ready, c) => Single(ready', c))
      /\ Single(ready, <<"step", t>>) => ~Queued(<<"step", t>>)'
  BY <1>1, StepTaken DEF Queued
<1>3. state[t] = "accepted" /\ held[t] = "none" /\ service[t] = "none"
  BY <1>1 DEF ServiceByPlace, RecordByPlace
<1>4. ~hit[t] => Single(ready, <<"step", t>>)
  BY <1>1 DEF StepIsDue
<1>5. UNCHANGED <<threads, thread>> /\ told' = told
  BY DEF Begin, Raises
<1>6. CASE /\ task' = [task EXCEPT ![t] = "done"] /\ hit' = [hit EXCEPT ![t] = FALSE]
           /\ UNCHANGED service
           /\ \/ UNCHANGED record
              \/ /\ state' = [state EXCEPT ![t] = "failed"]
                 /\ held' = [held EXCEPT ![t] = "error"]
  <2>1. BrokerType'
    BY <1>2, <1>5, <1>6 DEF BrokerType, Verdicts
  <2>2. Left(t)'
    BY <1>3, <1>6 DEF BrokerType, Left, Orphan
  <2>3. /\ \A u \in Tasks : u # t =>
              /\ state'[u] = state[u] /\ held'[u] = held[u] /\ task'[u] = task[u]
              /\ hit'[u] = hit[u] /\ service'[u] = service[u]
        /\ hit'[t] => hit[t]
    BY <1>6 DEF BrokerType
  <2> QED BY <1>1, <1>2, <1>5, <1>6, <2>1, <2>2, <2>3, StepKeeps
<1>7. ASSUME NEW to \in {"direct", "serving"}, ~hit[t],
             task' = [task EXCEPT ![t] = to], UNCHANGED <<held, hit>>,
             state' = [state EXCEPT ![t] = "running"],
             service' = [service EXCEPT ![t] = IF to = "serving" THEN "running" ELSE @]
      PROVE  BrokerInv'
  <2>1. BrokerType'
    BY <1>2, <1>5, <1>7 DEF BrokerType, Awaits
  <2>2. Left(t)'
    BY <1>2, <1>3, <1>4, <1>7 DEF BrokerType, Left, Orphan
  <2>3. /\ \A u \in Tasks : u # t =>
              /\ state'[u] = state[u] /\ held'[u] = held[u] /\ task'[u] = task[u]
              /\ hit'[u] = hit[u] /\ service'[u] = service[u]
        /\ hit'[t] => hit[t]
        /\ service'[t] = "cancelled" => service[t] = "cancelled"
    BY <1>7 DEF BrokerType
  <2> QED BY <1>1, <1>2, <1>5, <2>1, <2>2, <2>3, StepKeeps
<1>8. CASE hit[t]
  BY <1>6, <1>8 DEF Begin
<1>9. CASE ~hit[t] /\ Raises(t) /\ UNCHANGED inner
  BY <1>6, <1>9 DEF Raises, Ends
<1>10. CASE /\ ~hit[t] /\ task' = [task EXCEPT ![t] = "direct"] /\ UNCHANGED inner
            /\ state' = [state EXCEPT ![t] = "running"] /\ UNCHANGED <<held, hit>>
  <2>1. service' = [service EXCEPT ![t] = IF "direct" = "serving" THEN "running" ELSE @]
    BY <1>10 DEF BrokerType
  <2> QED BY <1>7, <1>10, <2>1
<1>11. CASE /\ ~hit[t] /\ task' = [task EXCEPT ![t] = "serving"]
            /\ service' = [service EXCEPT ![t] = "running"]
            /\ state' = [state EXCEPT ![t] = "running"] /\ UNCHANGED <<held, hit>>
  BY <1>7, <1>11
<1> QED BY <1>8, <1>9, <1>10, <1>11 DEF Begin

\* The end of the facade's own I/O.
LEMMA DirectKeeps == ASSUME BrokerInv, NEW t \in Tasks, Direct(t) PROVE BrokerInv'
<1> USE DEF BrokerInv, threads, record, thread, run, inner
<1>1. Takes(<<"step", t>>) /\ task[t] = "direct" /\ ready' = Tail(ready)
  BY DEF Direct
<1>2. /\ ready' \in Seq(Callbacks)
      /\ \A c : (Queued(c)' => Queued(c)) /\ (Single(ready, c) => Single(ready', c))
      /\ Single(ready, <<"step", t>>) => ~Queued(<<"step", t>>)'
  BY <1>1, StepTaken DEF Queued
<1>3. state[t] = "running" /\ held[t] = "none" /\ service[t] = "none"
  BY <1>1 DEF ServiceByPlace, RecordByPlace, Awaits
<1>4. ~hit[t] => Single(ready, <<"step", t>>)
  BY <1>1 DEF StepIsDue
<1>5. \/ /\ \E verdict \in Verdicts, what \in Verdicts \cup {"none", "error"} :
              Ends(t, verdict, what)
         /\ UNCHANGED inner
      \/ ~hit[t] /\ Submits(t)
  BY DEF Direct, Interrupted, Returns, Raises, Verdicts
<1>6. BrokerType'
  <2>1. UNCHANGED <<threads, thread>>
    BY DEF Direct
  <2>2. CASE \E verdict \in Verdicts, what \in Verdicts \cup {"none", "error"} :
                Ends(t, verdict, what) /\ UNCHANGED inner
    BY <1>2, <2>1, <2>2 DEF BrokerType, Ends
  <2>3. CASE Submits(t)
    BY <1>2, <2>1, <2>3 DEF BrokerType, Submits, Suspends, Awaits
  <2> QED BY <1>5, <2>2, <2>3
<1>7. Left(t)'
  BY <1>1, <1>2, <1>3, <1>4, <1>5 DEF BrokerType, Ends, Submits, Suspends, Left, Orphan
<1>8. /\ \A u \in Tasks : u # t =>
            /\ state'[u] = state[u] /\ held'[u] = held[u] /\ task'[u] = task[u]
            /\ hit'[u] = hit[u] /\ service'[u] = service[u]
      /\ hit'[t] => hit[t]
      /\ told' = told /\ (service'[t] = "cancelled" => service[t] = "cancelled")
  BY <1>5 DEF BrokerType, Ends, Submits, Suspends
<1>9. UNCHANGED <<threads, thread>>
  BY DEF Direct
<1> QED BY <1>1, <1>2, <1>6, <1>7, <1>8, <1>9, StepKeeps

\* A step of a task that waits for one of TaskService, or for its result.
LEMMA MoveKeeps ==
    ASSUME BrokerInv, NEW t \in Tasks, Takes(<<"step", t>>),
           task[t] \in {"serving", "absorbing", "fetching"},
           ready' = Tail(ready) \/ ready' = Append(Tail(ready), <<"fetch", t>>),
           UNCHANGED <<threads, thread, service>>,
           told' = told \/ (told' = told \cup {t} /\ Asked(t)),
           \/ Suspends(t, "absorbing") /\ service[t] # "none"
           \/ Suspends(t, "fetching") /\ service[t] \in Verdicts
           \/ /\ service[t] # "running"
              /\ \E v \in Verdicts, w \in Verdicts \cup {"none", "error"} : Ends(t, v, w)
           \/ t \in told' /\ Asked(t) /\ Raises(t)
    PROVE  BrokerInv'
<1> USE DEF BrokerInv, threads, record, thread, run, inner
<1>1. <<"fetch", t>> \in Callbacks
  BY DEF Callbacks
<1>2. /\ ready' \in Seq(Callbacks)
      /\ \A c : c # <<"fetch", t>> =>
            (Queued(c)' => Queued(c)) /\ (Single(ready, c) => Single(ready', c))
  <2>1. CASE ready' = Tail(ready)
    BY <2>1, StepTaken DEF Queued
  <2>2. CASE ready' = Append(Tail(ready), <<"fetch", t>>)
    <3> DEFINE q == Tail(ready)
    <3>1. /\ q \in Seq(Callbacks)
          /\ \A c : (c \in Range(q) => Queued(c)) /\ (Single(ready, c) => Single(q, c))
      BY StepTaken
    <3>2. /\ ready' \in Seq(Callbacks) /\ Range(ready') = Range(q) \cup {<<"fetch", t>>}
          /\ \A c : Single(q, c) /\ c # <<"fetch", t>> => Single(ready', c)
      BY <1>1, <2>2, <3>1, EndOfQueue
    <3> QED BY <3>1, <3>2 DEF Queued
  <2> QED BY <2>1, <2>2
<1>3. state[t] = "running" /\ held[t] = "none"
  BY DEF RecordByPlace, Awaits
<1>4. /\ task' \in [Tasks -> Awaits \cup {"none", "created", "done"}]
      /\ task'[t] \in {"absorbing", "fetching", "done"}
      /\ hit' = [hit EXCEPT ![t] = FALSE]
      /\ task'[t] = "fetching" => service[t] \in Verdicts
      /\ task'[t] = "absorbing" => service[t] # "none"
      /\ task'[t] = "done" /\ service[t] = "running" =>
            t \in told' /\ Asked(t) /\ state'[t] = "failed" /\ held'[t] = "error"
      /\ task'[t] # "done" => UNCHANGED record
      /\ \A u \in Tasks : u # t => task'[u] = task[u]
  BY DEF Suspends, Raises, Ends, BrokerType, Awaits
<1>5. /\ state' \in [Tasks -> Verdicts \cup {"absent", "accepted", "running"}]
      /\ held' \in [Tasks -> Verdicts \cup {"none", "error"}]
      /\ \A u \in Tasks : u # t => state'[u] = state[u] /\ held'[u] = held[u]
  <2>1. CASE UNCHANGED record
    BY <2>1 DEF BrokerType
  <2>2. CASE \E v \in Verdicts, w \in Verdicts \cup {"none", "error"} : Ends(t, v, w)
    BY <2>2 DEF Ends, BrokerType
  <2> QED BY <2>1, <2>2 DEF Suspends, Raises, Verdicts
<1>6. BrokerType'
  <2>1. hit' \in [Tasks -> BOOLEAN] /\ told' \subseteq Tasks
    BY <1>4 DEF BrokerType
  <2> QED BY <1>2, <1>4, <1>5, <2>1 DEF BrokerType
<1>7. Left(t)'
  BY <1>3, <1>4 DEF Left, Orphan, Asked
<1>8. /\ \A u \in Tasks : u # t => hit'[u] = hit[u] /\ service'[u] = service[u]
      /\ hit'[t] => hit[t]
  BY <1>4 DEF BrokerType
<1>9. told \subseteq told' /\ \A u \in told' : u \in told \/ Asked(u)
  OBVIOUS
<1> QED BY <1>2, <1>4, <1>5, <1>6, <1>7, <1>8, <1>9, StepKeeps

\* wait() comes to its end.
LEMMA LeavesMoves ==
    ASSUME BrokerInv, NEW t \in Tasks, task[t] \in {"serving", "absorbing"},
           service[t] # "running", Leaves(t)
    PROVE  /\ ready' = Tail(ready) \/ ready' = Append(Tail(ready), <<"fetch", t>>)
           /\ \/ Suspends(t, "fetching") /\ service[t] \in Verdicts
              \/ /\ service[t] # "running"
                 /\ \E v \in Verdicts, w \in Verdicts \cup {"none", "error"} : Ends(t, v, w)
<1>1. service[t] \in Verdicts \cup {"raised"}
  BY DEF BrokerInv, BrokerType, ServiceByPlace
<1>2. CASE service[t] = "raised"
  BY <1>2 DEF Leaves, Raises, Interrupted, Verdicts
<1>3. CASE service[t] # "raised"
  BY <1>1, <1>3 DEF Leaves
<1> QED BY <1>2, <1>3

\* wait() passes a cancellation on, or ends with the task it waits for.
LEMMA ServingKeeps == ASSUME BrokerInv, NEW t \in Tasks, Serving(t) PROVE BrokerInv'
<1>1. /\ Takes(<<"step", t>>) /\ task[t] = "serving"
      /\ UNCHANGED <<threads, thread, service>>
  BY DEF Serving
<1>2. service[t] \in Verdicts \cup {"raised", "running"}
  BY <1>1 DEF BrokerInv, BrokerType, ServiceByPlace
<1>3. CASE ~hit[t]
  <2>1. service[t] # "running"
    BY <1>1, <1>3, TakenOff DEF BrokerInv, StepIsDue
  <2>2. /\ ready' = Tail(ready) /\ told' = told
        /\ \E v \in Verdicts, w \in Verdicts \cup {"none", "error"} : Ends(t, v, w)
    BY <1>2, <1>3, <2>1 DEF Serving, Raises, Returns, Verdicts
  <2> QED BY <1>1, <2>1, <2>2, MoveKeeps
<1>4. CASE hit[t] /\ service[t] = "running"
  <2>1. /\ ready' = Tail(ready) /\ told' = told \cup {t}
        /\ Suspends(t, "absorbing") \/ Raises(t)
    BY <1>4 DEF Serving, PassesOn
  <2>2. Asked(t)
    BY <1>4 DEF BrokerInv, CancelIsAsked
  <2> QED BY <1>1, <1>4, <2>1, <2>2, MoveKeeps
<1>5. CASE hit[t] /\ service[t] # "running"
  <2>1. Leaves(t) /\ told' = told
    BY <1>5 DEF Serving
  <2> QED BY <1>1, <1>5, <2>1, LeavesMoves, MoveKeeps
<1> QED BY <1>3, <1>4, <1>5 DEF BrokerInv, BrokerType

\* wait() swallows further cancellations.
LEMMA AbsorbingKeeps == ASSUME BrokerInv, NEW t \in Tasks, Absorbing(t) PROVE BrokerInv'
<1>1. /\ Takes(<<"step", t>>) /\ task[t] = "absorbing"
      /\ UNCHANGED <<threads, thread, service>> /\ told' = told
  BY DEF Absorbing, inner
<1>2. CASE service[t] = "running"
  <2>1. ready' = Tail(ready) /\ Suspends(t, "absorbing")
    BY <1>2 DEF Absorbing
  <2> QED BY <1>1, <1>2, <2>1, MoveKeeps
<1>3. CASE service[t] # "running"
  <2>1. Leaves(t)
    BY <1>3 DEF Absorbing
  <2> QED BY <1>1, <1>3, <2>1, LeavesMoves, MoveKeeps
<1> QED BY <1>2, <1>3

\* The stored result is there, or the await of it is cancelled.
LEMMA FetchingKeeps == ASSUME BrokerInv, NEW t \in Tasks, Fetching(t) PROVE BrokerInv'
<1>1. /\ Takes(<<"step", t>>) /\ task[t] = "fetching" /\ ready' = Tail(ready)
      /\ UNCHANGED <<threads, thread, service>> /\ told' = told
  BY DEF Fetching, inner
<1>2. service[t] \in Verdicts
  BY <1>1 DEF BrokerInv, ServiceByPlace
<1>3. \E v \in Verdicts, w \in Verdicts \cup {"none", "error"} : Ends(t, v, w)
  BY <1>2 DEF Fetching, Interrupted, Returns, Verdicts
<1>4. service[t] # "running"
  BY <1>2 DEF Verdicts
<1> QED BY <1>1, <1>3, <1>4, MoveKeeps

\* What only wakes a task that waits for something else than a running service.
LEMMA WakeKeeps ==
    ASSUME BrokerInv, NEW t \in Tasks, NEW q \in Seq(Callbacks),
           \A c : (c \in Range(q) => Queued(c)) /\ (Single(ready, c) => Single(q, c)),
           task[t] \in {"direct", "fetching"},
           ready' = Wake(q, t),
           UNCHANGED <<threads, record, thread, run, inner>>
    PROVE  BrokerInv'
<1> USE DEF BrokerInv, threads, record, thread, run, inner
<1>1. /\ ready' \in Seq(Callbacks)
      /\ \A c : Queued(c)' => Queued(c) \/ c = <<"step", t>>
      /\ \A c : Single(ready, c) => Single(ready', c)
  BY WakeOnce DEF Queued
<1>2. BrokerType'
  BY <1>1 DEF BrokerType
<1>3. \A u \in Tasks : /\ Queued(<<"schedule", u>>)' => Queued(<<"schedule", u>>)
                       /\ Queued(<<"cancel", u>>)' => Queued(<<"cancel", u>>)
                       /\ u # t /\ Queued(<<"step", u>>)' => Queued(<<"step", u>>)
  BY <1>1
<1>4. ScheduledOnce' /\ StepIsDue'
  BY <1>1, <1>3 DEF ScheduledOnce, StepIsDue
<1>5. ServiceByPlace' /\ RecordByPlace' /\ CancelIsAsked'
  BY <1>3 DEF ServiceByPlace, RecordByPlace, CancelIsAsked, Asked
<1>6. OrphanIsShown'
  BY OrphanKept DEF Orphan, Asked
<1> QED BY <1>2, <1>4, <1>5, <1>6

\* What a task awaits outside the service arrives.
LEMMA ArrivesKeeps == ASSUME BrokerInv, NEW t \in Tasks, Arrives(t) PROVE BrokerInv'
<1>1. ready \in Seq(Callbacks)
  BY DEF BrokerInv, BrokerType
<1> QED BY <1>1, WakeKeeps DEF Arrives, Queued

\* A callback that leaves every task where it is.
LEMMA PassKeeps ==
    ASSUME BrokerInv, NEW c, Takes(c), ready' = Tail(ready),
           loop' \in {loop, "stopping"},
           UNCHANGED <<threads, record, drained, run, inner>>
    PROVE  BrokerInv'
<1> USE DEF BrokerInv, threads, record, run, inner
<1>1. /\ ready' \in Seq(Callbacks)
      /\ \A d : Queued(d)' => Queued(d)
      /\ \A d : Single(ready, d) => Single(ready', d)
  BY TakenOff DEF Queued
<1>2. \A t \in Tasks : Asked(t) => Asked(t)'
  BY DEF Asked
<1>3. BrokerType' /\ ScheduledOnce' /\ StepIsDue'
  BY <1>1 DEF BrokerType, ScheduledOnce, StepIsDue
<1>4. ServiceByPlace' /\ RecordByPlace' /\ CancelIsAsked'
  BY <1>1, <1>2 DEF ServiceByPlace, RecordByPlace, CancelIsAsked
<1>5. OrphanIsShown'
  BY <1>2, OrphanKept DEF Orphan
<1> QED BY <1>3, <1>4, <1>5

\* The shielded task finds the stored result.
LEMMA FetchKeeps == ASSUME BrokerInv, NEW t \in Tasks, Fetch(t) PROVE BrokerInv'
<1>1. Takes(<<"fetch", t>>)
  BY DEF Fetch
<1>2. CASE task[t] = "fetching"
  BY <1>1, <1>2, TakenOff, WakeKeeps DEF Fetch, Queued
<1>3. CASE task[t] # "fetching"
  BY <1>1, <1>3, PassKeeps DEF Fetch, thread
<1> QED BY <1>2, <1>3

\* close() stops the loop.
LEMMA StopKeeps == ASSUME BrokerInv, Stop PROVE BrokerInv'
BY PassKeeps DEF Stop

\* A task of TaskService that ends wakes who waits for it; a cancelled one was told.
LEMMA ServiceEndsKeeps == ASSUME BrokerInv, NEW t \in Tasks, ServiceEnds(t) PROVE BrokerInv'
<1> USE DEF BrokerInv, threads, record, thread, run, inner
<1>1. /\ ready \in Seq(Callbacks) /\ ready' \in {ready, Wake(ready, t)}
      /\ service[t] = "running"
      /\ UNCHANGED <<threads, record, thread, run, told>>
  BY DEF ServiceEnds, BrokerType
<1>2. PICK end \in Verdicts \cup {"raised"} :
         service' = [service EXCEPT ![t] = end] /\ (end = "cancelled" => t \in told)
  BY DEF ServiceEnds, Verdicts
<1>3. /\ ready' \in Seq(Callbacks)
      /\ \A c : Queued(c)' => Queued(c) \/ c = <<"step", t>>
      /\ \A c : Single(ready, c) => Single(ready', c)
  BY <1>1, WakeOnce DEF Queued
<1>4. /\ service' \in [Tasks -> Verdicts \cup {"none", "running", "raised"}]
      /\ \A u \in Tasks : u # t => service'[u] = service[u]
      /\ service'[t] = end /\ end # "none" /\ end # "running"
  BY <1>2 DEF BrokerType, Verdicts
<1>5. task[t] \notin {"none", "created", "direct", "fetching"}
  BY <1>1 DEF ServiceByPlace, Verdicts
<1>6. \A u \in Tasks : /\ Queued(<<"schedule", u>>)' => Queued(<<"schedule", u>>)
                       /\ Queued(<<"cancel", u>>)' => Queued(<<"cancel", u>>)
                       /\ u # t /\ Queued(<<"step", u>>)' => Queued(<<"step", u>>)
  BY <1>3
<1>7. BrokerType'
  BY <1>1, <1>3, <1>4 DEF BrokerType
<1>8. ScheduledOnce'
  BY <1>1, <1>3, <1>5, <1>6 DEF ScheduledOnce
<1>9. StepIsDue'
  BY <1>1, <1>3, <1>4, <1>5, <1>6 DEF StepIsDue
<1>10. ServiceByPlace' /\ RecordByPlace'
  BY <1>1, <1>4, <1>5 DEF ServiceByPlace, RecordByPlace
<1>11. CancelIsAsked'
  BY <1>1, <1>2, <1>4, <1>6 DEF CancelIsAsked, Asked
<1>12. OrphanIsShown'
  BY <1>1, <1>4, OrphanKept DEF Orphan, Asked
<1> QED BY <1>7, <1>8, <1>9, <1>10, <1>11, <1>12

\* close() wakes every task there is, and hits it.
LEMMA DrainKeeps ==
    ASSUME BrokerInv, IsFiniteSet(Tasks), Drain
    PROVE  BrokerInv'
<1> USE DEF BrokerInv, threads, record, thread, run, inner
<1> DEFINE S == {<<"step", t>> : t \in {u \in Tasks : Alive(u)}} \ Range(ready)
<1>1. IsFiniteSet(S) /\ S \subseteq Callbacks
  <2>1. IsFiniteSet({"step"} \X Tasks)
    BY FS_Singleton, FS_Product
  <2>2. S \subseteq {"step"} \X Tasks
    OBVIOUS
  <2> HIDE DEF S
  <2> QED BY <2>1, <2>2, FS_Subset DEF Callbacks
<1>2. /\ SetToSeq(S) \in Seq(Callbacks) /\ Range(SetToSeq(S)) \subseteq S
      /\ ready \in Seq(Callbacks)
  BY <1>1, SetAsSequence DEF BrokerType
<1>3. /\ ready' \in Seq(Callbacks) /\ Range(ready') \subseteq Range(ready) \cup S
      /\ \A c : Single(ready, c) /\ c \notin S => Single(ready', c)
  <2>1. ready' = ready \o SetToSeq(S)
    BY DEF Drain
  <2> HIDE DEF S
  <2> QED BY <1>2, <2>1, BehindQueue
<1>4. /\ loop = "stopping" /\ loop' = "draining"
      /\ hit' \in [Tasks -> BOOLEAN] /\ (\A t \in Tasks : hit'[t] <=> Alive(t))
      /\ told \subseteq told' /\ told' \subseteq Tasks
      /\ UNCHANGED <<threads, record, task, service>>
  BY DEF Drain, Alive, BrokerType
<1>5. \A t \in Tasks : /\ Queued(<<"schedule", t>>)' => Queued(<<"schedule", t>>)
                       /\ Queued(<<"cancel", t>>)' => Queued(<<"cancel", t>>)
                       /\ Queued(<<"step", t>>)' => Queued(<<"step", t>>) \/ Alive(t)
                       /\ <<"schedule", t>> \notin S
  BY <1>3, <1>4 DEF Queued
<1>6. \A t \in Tasks : Asked(t)'
  BY <1>4 DEF Asked
<1>7. BrokerType'
  <2>1. drained' \subseteq Tasks
    BY DEF Drain
  <2> QED BY <1>3, <1>4, <2>1 DEF BrokerType
<1>8. ScheduledOnce'
  BY <1>3, <1>4, <1>5 DEF ScheduledOnce, Alive
<1>9. StepIsDue'
  BY <1>4 DEF StepIsDue, Alive
<1>10. ServiceByPlace' /\ RecordByPlace'
  BY <1>4 DEF ServiceByPlace, RecordByPlace
<1>11. CancelIsAsked'
  BY <1>4, <1>6 DEF CancelIsAsked
<1>12. OrphanIsShown'
  BY <1>4, <1>6, OrphanKept DEF Orphan
<1> QED BY <1>7, <1>8, <1>9, <1>10, <1>11, <1>12

-----------------------------------------------------------------------------
\* Every step keeps it, as long as the POSTs of a behaviour are finitely many: _run
\* waits for a set of tasks.
LEMMA BrokerInvStep ==
    ASSUME IsFiniteSet(Tasks), BrokerInv, [Next]_vars
    PROVE  BrokerInv'
<1>1. CASE Callback
  BY <1>1, StopKeeps, ScheduleKeeps, CancelKeeps, BeginKeeps, DirectKeeps, ServingKeeps,
     AbsorbingKeeps, FetchKeeps, FetchingKeeps DEF Callback
<1>2. CASE Close \/ \E t \in Tasks : Delete(t)
  BY <1>2, AskKeeps
<1>3. CASE Drain
  BY <1>3, DrainKeeps
<1>4. CASE Closed \/ (\E t \in Tasks : Posted(t)) \/ UNCHANGED vars
  BY <1>4, QuietKeeps
<1>5. CASE \E t \in Tasks : Post(t) \/ Arrives(t) \/ ServiceEnds(t)
  BY <1>5, PostKeeps, ArrivesKeeps, ServiceEndsKeeps
<1> QED BY <1>1, <1>2, <1>3, <1>4, <1>5 DEF Next

\* A task of TaskService is left running over a closed store only when wait() was
\* cancelled and could not write its event (TaskService.cancel), and then its token is set
\* and a failure is shown: for any number of tasks and of cancellations.
THEOREM OrphansAreShown ==
    ASSUME IsFiniteSet(Tasks)
    PROVE  Spec => []OrphanIsShown
<1>1. BrokerInv => OrphanIsShown
  BY DEF BrokerInv
<1>2. BrokerInv /\ [Next]_vars => BrokerInv'
  BY BrokerInvStep
<1> QED BY <1>1, <1>2, BrokerInvInit, PTL DEF Spec

-----------------------------------------------------------------------------
(* WebTask.                                                                *)

\* Where a step of the broker leaves the view of a task.
LEMMA ViewOf ==
    ASSUME BrokerInv, NEW t \in Tasks,
           state' = [state EXCEPT ![t] = state'[t]], held' = [held EXCEPT ![t] = held'[t]],
           UNCHANGED <<deletes, loop>>,
           NEW v, v = <<state'[t], held'[t]>>, NEW w, w = <<state[t], held[t]>>,
           \/ v = w
           \/ w = Promise!Absent /\ v = Promise!Accepted
           \/ w = Promise!Accepted /\ v = Promise!Running
           \/ w \in {Promise!Accepted, Promise!Running} /\ v = Promise!Failure
           \/ /\ w = Promise!Running /\ v \in Promise!Answers \cup {Promise!Bare}
              /\ v[1] = "cancelled" => Asked(t)
    PROVE  [Promise!TaskNext]_(Promise!taskVars)
<1> DEFINE view == [u \in Tasks |-> <<state[u], held[u]>>]
           asked == {u \in Tasks : deletes[u] > 0 \/ loop # "running"}
           open == loop = "running"
<1>1. UNCHANGED <<asked, open>> /\ (t \in asked <=> Asked(t))
  BY DEF Asked
<1>2. view' = [view EXCEPT ![t] = v] /\ view[t] = w /\ (v = w => view' = view)
  <2>1. \A u \in Tasks : u # t => state'[u] = state[u] /\ held'[u] = held[u]
    BY DEF BrokerInv, BrokerType
  <2>2. \A u \in Tasks : <<state'[u], held'[u]>> = IF u = t THEN v ELSE <<state[u], held[u]>>
    BY <2>1
  <2>3. view' = [u \in Tasks |-> IF u = t THEN v ELSE <<state[u], held[u]>>]
    BY <2>2
  <2>4. [view EXCEPT ![t] = v] = [u \in Tasks |-> IF u = t THEN v ELSE <<state[u], held[u]>>]
    OBVIOUS
  <2>5. v = w => view' = view
    BY <2>3
  <2> QED BY <2>3, <2>4, <2>5
<1>3. CASE v = w
  <2>1. UNCHANGED Promise!taskVars
    BY <1>1, <1>2, <1>3 DEF Promise!taskVars
  <2> QED BY <2>1
<1> USE DEF Promise!TaskNext, Promise!Progress, Promise!Shows
<1> HIDE DEF view, asked, open
<1>4. CASE w = Promise!Absent /\ v = Promise!Accepted
  BY <1>1, <1>2, <1>4 DEF Promise!Submitted, view, asked, open
<1>5. CASE w = Promise!Accepted /\ v = Promise!Running
  BY <1>1, <1>2, <1>5 DEF Promise!Enters, view, asked, open
<1>6. CASE w \in {Promise!Accepted, Promise!Running} /\ v = Promise!Failure
  BY <1>1, <1>2, <1>6 DEF Promise!Settles, view, asked, open
<1>7. CASE /\ w = Promise!Running /\ v \in Promise!Answers \cup {Promise!Bare}
           /\ v[1] = "cancelled" => Asked(t)
  BY <1>1, <1>2, <1>7 DEF Promise!Settles, view, asked, open
<1> QED BY <1>3, <1>4, <1>5, <1>6, <1>7

\* Where a step ends _execute, the view has an end that WebTask allows.
LEMMA EndOf ==
    ASSUME BrokerInv, NEW t \in Tasks, task[t] \in Awaits, UNCHANGED <<deletes, loop>>,
           NEW v \in Verdicts, NEW w \in {v} \cup {"none", "error"}, Ends(t, v, w),
           w = "error" => v = "failed",
           w = "none" => v = "cancelled",
           v = "cancelled" => Asked(t)
    PROVE  [Promise!TaskNext]_(Promise!taskVars)
<1>1. state[t] = "running" /\ held[t] = "none"
  BY DEF BrokerInv, RecordByPlace
<1>2. /\ state' = [state EXCEPT ![t] = state'[t]] /\ held' = [held EXCEPT ![t] = held'[t]]
      /\ state'[t] = v /\ held'[t] = w
  BY DEF Ends, BrokerInv, BrokerType
<1>3. \/ <<v, w>> = Promise!Failure
      \/ <<v, w>> \in Promise!Answers \cup {Promise!Bare}
  BY DEF Promise!Failure, Promise!Answers, Promise!Bare, Verdicts
<1>4. <<state[t], held[t]>> = Promise!Running
  BY <1>1 DEF Promise!Running
<1> QED BY <1>2, <1>3, <1>4, ViewOf

\* A step that leaves the record alone, and who has been asked.
LEMMA SameView ==
    ASSUME UNCHANGED record, \A t \in Tasks : Asked(t)' <=> Asked(t),
           loop' = "running" <=> loop = "running"
    PROVE  [Promise!TaskNext]_(Promise!taskVars)
BY DEF record, Asked, Promise!taskVars

\* What somebody asks for.
LEMMA AskView ==
    ASSUME UNCHANGED record, NEW S \in SUBSET Tasks,
           \A t \in Tasks : Asked(t)' <=> Asked(t) \/ t \in S,
           loop' = "running" => loop = "running"
    PROVE  Promise!TaskNext
<1> DEFINE asked == {u \in Tasks : deletes[u] > 0 \/ loop # "running"}
<1>1. asked' = asked \cup S
  BY DEF Asked
<1>2. (loop = "running")' \in {loop = "running", FALSE}
  OBVIOUS
<1> QED BY <1>1, <1>2 DEF record, Promise!TaskNext, Promise!Ask

\* The first step of a task enters it, or ends it, as promised.
LEMMA BeginView ==
    ASSUME BrokerInv, NEW t \in Tasks, Begin(t) PROVE [Promise!TaskNext]_(Promise!taskVars)
<1> USE DEF record, thread, threads
<1>1. state[t] = "accepted" /\ held[t] = "none" /\ UNCHANGED <<deletes, loop>>
  BY DEF Begin, BrokerInv, RecordByPlace, Raises, Ends
<1>2. CASE UNCHANGED record
  BY <1>1, <1>2, SameView DEF Asked
<1>3. CASE state' = [state EXCEPT ![t] = "running"] /\ UNCHANGED held
  <2>1. /\ state' = [state EXCEPT ![t] = state'[t]] /\ held' = [held EXCEPT ![t] = held'[t]]
        /\ state'[t] = "running" /\ held'[t] = "none"
    BY <1>1, <1>3 DEF BrokerInv, BrokerType
  <2> QED BY <1>1, <2>1, ViewOf DEF Promise!Accepted, Promise!Running
<1>4. CASE Raises(t)
  <2>1. /\ state' = [state EXCEPT ![t] = state'[t]] /\ held' = [held EXCEPT ![t] = held'[t]]
        /\ state'[t] = "failed" /\ held'[t] = "error"
    BY <1>1, <1>4 DEF Raises, Ends, BrokerInv, BrokerType
  <2> QED BY <1>1, <2>1, ViewOf DEF Promise!Accepted, Promise!Failure
<1> QED BY <1>2, <1>3, <1>4 DEF Begin

\* The end of the facade's own I/O goes on or settles the task.
LEMMA DirectView ==
    ASSUME BrokerInv, NEW t \in Tasks, Direct(t) PROVE [Promise!TaskNext]_(Promise!taskVars)
<1> USE DEF thread, threads
<1>1. task[t] \in Awaits /\ UNCHANGED <<deletes, loop>>
  BY DEF Direct, Awaits
<1>2. CASE hit[t] /\ Interrupted(t)
  <2>1. Asked(t)
    BY <1>2 DEF BrokerInv, CancelIsAsked
  <2> QED BY <1>1, <1>2, <2>1, EndOf DEF Interrupted, Verdicts
<1>3. CASE \E verdict \in {"completed", "failed"} : Returns(t, verdict)
  BY <1>1, <1>3, EndOf DEF Returns, Verdicts
<1>4. CASE Raises(t)
  BY <1>1, <1>4, EndOf DEF Raises, Verdicts
<1>5. CASE Submits(t)
  BY <1>1, <1>5, SameView DEF Submits, Suspends, Asked
<1> QED BY <1>2, <1>3, <1>4, <1>5 DEF Direct

\* A result of TaskService is cancelled only if it was asked for.
LEMMA ReturnsView ==
    ASSUME BrokerInv, NEW t \in Tasks, task[t] \in Awaits, UNCHANGED <<deletes, loop>>,
           service[t] \in Verdicts, Returns(t, service[t])
    PROVE  [Promise!TaskNext]_(Promise!taskVars)
<1>1. service[t] = "cancelled" => Asked(t)
  BY DEF BrokerInv, CancelIsAsked
<1>2. Ends(t, service[t], service[t]) /\ service[t] # "error" /\ service[t] # "none"
  BY DEF Returns, Verdicts
<1> QED BY <1>1, <1>2, EndOf

\* So does the end of wait().
LEMMA LeavesView ==
    ASSUME BrokerInv, NEW t \in Tasks, task[t] \in Awaits, UNCHANGED <<deletes, loop>>, Leaves(t)
    PROVE  [Promise!TaskNext]_(Promise!taskVars)
<1>1. CASE Raises(t)
  BY <1>1, EndOf DEF Raises, Verdicts
<1>2. CASE loop = "draining" /\ Interrupted(t)
  BY <1>2, EndOf DEF Interrupted, Verdicts, Asked
<1>3. CASE Suspends(t, "fetching")
  BY <1>3, SameView DEF Suspends, Asked
<1> QED BY <1>1, <1>2, <1>3 DEF Leaves

\* wait() settles a task only as its service did.
LEMMA ServingView ==
    ASSUME BrokerInv, NEW t \in Tasks, Serving(t) PROVE [Promise!TaskNext]_(Promise!taskVars)
<1> USE DEF thread, threads
<1>1. Takes(<<"step", t>>) /\ task[t] \in Awaits /\ UNCHANGED <<deletes, loop>>
  BY DEF Serving, Awaits
<1>2. CASE ~hit[t]
  <2>1. service[t] \in Verdicts \cup {"raised"}
    BY <1>1, <1>2, TakenOff
       DEF Serving, BrokerInv, BrokerType, ServiceByPlace, StepIsDue
  <2>2. CASE service[t] = "raised"
    BY <1>1, <1>2, <2>2, EndOf DEF Serving, Raises, Verdicts
  <2>3. CASE service[t] \in Verdicts
    BY <1>1, <1>2, <2>3, ReturnsView DEF Serving, Verdicts
  <2> QED BY <2>1, <2>2, <2>3
<1>3. CASE Suspends(t, "absorbing")
  BY <1>1, <1>3, SameView DEF Suspends, Asked
<1>4. CASE Leaves(t)
  BY <1>1, <1>4, LeavesView
<1>5. CASE Raises(t)
  BY <1>1, <1>5, EndOf DEF Raises, Verdicts
<1> QED BY <1>2, <1>3, <1>4, <1>5 DEF Serving, PassesOn

\* Swallowing a cancellation shows nothing.
LEMMA AbsorbingView ==
    ASSUME BrokerInv, NEW t \in Tasks, Absorbing(t) PROVE [Promise!TaskNext]_(Promise!taskVars)
<1> USE DEF thread, threads
<1>1. task[t] \in Awaits /\ UNCHANGED <<deletes, loop>>
  BY DEF Absorbing, Awaits
<1>2. CASE Suspends(t, "absorbing")
  BY <1>1, <1>2, SameView DEF Suspends, Asked
<1>3. CASE Leaves(t)
  BY <1>1, <1>3, LeavesView
<1> QED BY <1>2, <1>3 DEF Absorbing

\* A task that has its result settles with it.
LEMMA FetchingView ==
    ASSUME BrokerInv, NEW t \in Tasks, Fetching(t) PROVE [Promise!TaskNext]_(Promise!taskVars)
<1> USE DEF thread, threads
<1>1. task[t] \in Awaits /\ service[t] \in Verdicts /\ UNCHANGED <<deletes, loop>>
  BY DEF Fetching, Awaits, BrokerInv, ServiceByPlace
<1>2. CASE hit[t] /\ Interrupted(t)
  <2>1. Asked(t)
    BY <1>2 DEF BrokerInv, CancelIsAsked
  <2> QED BY <1>1, <1>2, <2>1, EndOf DEF Interrupted, Verdicts
<1>3. CASE Returns(t, service[t])
  BY <1>1, <1>3, ReturnsView
<1> QED BY <1>2, <1>3 DEF Fetching

\* Every step of the broker is one of the promise, or none.
LEMMA ViewStep == BrokerInv /\ [Next]_vars => [Promise!TaskNext]_(Promise!taskVars)
<1> SUFFICES ASSUME BrokerInv, [Next]_vars PROVE [Promise!TaskNext]_(Promise!taskVars)
  OBVIOUS
<1> USE DEF threads, record, thread
<1>1. CASE Callback
  <2>1. CASE \E t \in Tasks : Schedule(t) \/ Cancel(t) \/ Fetch(t)
    BY <2>1, SameView DEF Schedule, Cancel, Fetch, Asked
  <2>2. CASE Stop
    <3>1. loop' = "stopping" /\ UNCHANGED record
      BY <2>2 DEF Stop
    <3>2. \A t \in Tasks : Asked(t)'
      BY <3>1 DEF Asked
    <3> QED BY <3>1, <3>2, AskView
  <2>3. CASE \E t \in Tasks : \/ Begin(t) \/ Direct(t) \/ Serving(t) \/ Absorbing(t)
                              \/ Fetching(t)
    BY <2>3, BeginView, DirectView, ServingView, AbsorbingView, FetchingView
  <2> QED BY <1>1, <2>1, <2>2, <2>3 DEF Callback
<1>2. CASE Close
  <2>1. loop' = "closing" /\ loop = "running" /\ UNCHANGED record
    BY <1>2 DEF Close
  <2>2. \A t \in Tasks : Asked(t)'
    BY <2>1 DEF Asked
  <2> QED BY <2>1, <2>2, AskView
<1>3. ASSUME NEW t \in Tasks, Delete(t) PROVE [Promise!TaskNext]_(Promise!taskVars)
  <2>1. /\ UNCHANGED <<record, loop>> /\ deletes' = [deletes EXCEPT ![t] = @ + 1]
        /\ deletes \in [Tasks -> Nat]
    BY <1>3 DEF Delete, BrokerInv, BrokerType
  <2>2. \A u \in Tasks : Asked(u)' <=> Asked(u) \/ u \in {t}
    BY <2>1 DEF Asked
  <2> QED BY <2>1, <2>2, AskView
<1>4. CASE Drain \/ Closed \/ UNCHANGED vars
  <2>1. UNCHANGED <<record, deletes>> /\ (loop' = "running" <=> loop = "running")
    BY <1>4 DEF Drain, Closed, vars
  <2> QED BY <2>1, SameView DEF Asked
<1>5. ASSUME NEW t \in Tasks, Post(t) PROVE [Promise!TaskNext]_(Promise!taskVars)
  <2>1. state[t] = "absent" /\ held[t] = "none" /\ UNCHANGED <<deletes, loop>>
    BY <1>5 DEF Post, BrokerInv, ScheduledOnce, RecordByPlace
  <2>2. /\ state' = [state EXCEPT ![t] = state'[t]] /\ held' = [held EXCEPT ![t] = held'[t]]
        /\ state'[t] = "accepted" /\ held'[t] = "none"
    BY <1>5, <2>1 DEF Post, BrokerInv, BrokerType
  <2> QED BY <2>1, <2>2, ViewOf DEF Promise!Absent, Promise!Accepted
<1>6. CASE \E t \in Tasks : Posted(t) \/ Arrives(t) \/ ServiceEnds(t)
  BY <1>6, SameView DEF Posted, Arrives, ServiceEnds, Asked
<1> QED BY <1>1, <1>2, <1>3, <1>4, <1>5, <1>6 DEF Next

\* What a poll of the broker sees is, step by step, what WebTask promises: states in
\* order, an end that stays, and nothing cancelled that nobody asked to cancel.
THEOREM BrokerImplementsWebTask ==
    ASSUME IsFiniteSet(Tasks)
    PROVE  Spec => Promise!TaskSafe
<1>1. Init => Promise!TaskInit
  BY DEF Init, Promise!TaskInit, Promise!Absent
<1>2. BrokerInv /\ [Next]_vars => BrokerInv'
  BY BrokerInvStep
<1> QED BY <1>1, <1>2, BrokerInvInit, ViewStep, PTL DEF Spec, Promise!TaskSafe

=============================================================================
