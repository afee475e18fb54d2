----------------------------- MODULE TaskRecord -----------------------------
(***************************************************************************)
(* What Mercury promises about one diagnostic task, whatever process runs  *)
(* it: the task is accepted, may start, and gets one verdict that never    *)
(* changes; a cancellation that was acknowledged is never followed by the  *)
(* verdict "completed"; and a caller is told the verdict of the record,    *)
(* even when retention has forgotten the record meanwhile.                 *)
(***************************************************************************)
EXTENDS FiniteSets

CONSTANTS
    Tasks,      \* task ids
    Legacy,     \* tasks found unfinished in a database of an older version
    NoVerdict   \* the verdict of a task that is not settled

VARIABLES
    stage,      \* how far the record of a task has come
    verdict,    \* its verdict
    promised,   \* a cancellation of it was acknowledged
    told        \* a caller was given its verdict

recordVars == <<stage, verdict, promised, told>>

Stages   == {"absent", "pending", "running", "settled", "forgotten"}
Verdicts == {"completed", "failed", "cancelled"}

Init ==
    /\ stage \in [Tasks -> {"absent", "pending", "running"}]
    /\ \A t \in Tasks : stage[t] = "absent" <=> t \notin Legacy
    /\ verdict  = [t \in Tasks |-> NoVerdict]
    /\ promised = [t \in Tasks |-> FALSE]
    /\ told     = [t \in Tasks |-> FALSE]

Accept(t) ==
    /\ stage[t] = "absent"
    /\ stage' = [stage EXCEPT ![t] = "pending"]
    /\ UNCHANGED <<verdict, promised, told>>

Begin(t) ==
    /\ stage[t] = "pending"
    /\ stage' = [stage EXCEPT ![t] = "running"]
    /\ UNCHANGED <<verdict, promised, told>>

\* The owner settles what it was running.
Settle(t, v) ==
    /\ stage[t] = "running"
    /\ promised[t] => v # "completed"
    /\ stage'   = [stage EXCEPT ![t] = "settled"]
    /\ verdict' = [verdict EXCEPT ![t] = v]
    /\ UNCHANGED <<promised, told>>

\* Another process gives up on a task whose owner is gone, started or not.
GiveUp(t) ==
    /\ stage[t] \in {"pending", "running"}
    /\ stage'   = [stage EXCEPT ![t] = "settled"]
    /\ verdict' = [verdict EXCEPT ![t] = "failed"]
    /\ UNCHANGED <<promised, told>>

\* A cancellation is acknowledged: never one of a completed task.
Promise(t) ==
    /\ stage[t] # "absent"
    /\ verdict[t] # "completed"
    /\ promised' = [promised EXCEPT ![t] = TRUE]
    /\ UNCHANGED <<stage, verdict, told>>

Forgetting(F) ==
    /\ \A t \in F : stage[t] = "settled"
    /\ stage' = [t \in Tasks |-> IF t \in F THEN "forgotten" ELSE stage[t]]

\* Retention runs by itself, or while the caller of t is being answered.
Forget(F) ==
    /\ Forgetting(F)
    /\ UNCHANGED <<verdict, promised, told>>

Tell(t, F) ==
    /\ stage[t] \in {"settled", "forgotten"}
    /\ Forgetting(F)
    /\ told' = [told EXCEPT ![t] = TRUE]
    /\ UNCHANGED <<verdict, promised>>

Next ==
    \/ \E t \in Tasks :
          \/ Accept(t) \/ Begin(t) \/ GiveUp(t) \/ Promise(t)
          \/ \E v \in Verdicts : Settle(t, v)
          \/ \E F \in SUBSET Tasks : Tell(t, F)
    \/ \E F \in SUBSET Tasks : Forget(F)

Spec == Init /\ [][Next]_recordVars
=============================================================================
