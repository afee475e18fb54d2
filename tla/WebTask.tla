-------------------------------- MODULE WebTask --------------------------------
(***************************************************************************)
(* What the web broker of src/mercury/web/__init__.py promises about its   *)
(* tasks to whoever polls them: the states a snapshot can show, in order,  *)
(* and an end.  WebBroker implements it; the page (Dashboard) relies on it. *)
(***************************************************************************)
EXTENDS Naturals

CONSTANT Tasks  \* identifiers, one for each POST

VARIABLES
    view,   \* task -> the state of a snapshot, and what it has for a result or error
    asked,  \* tasks somebody has asked to cancel
    open    \* the broker is not being closed

taskVars == <<view, asked, open>>

-----------------------------------------------------------------------------
Absent == <<"absent", "none">>
Accepted == <<"accepted", "none">>
Running == <<"running", "none">>
Failure == <<"failed", "error">>
Bare == <<"cancelled", "none">>
Answers == {<<v, v>> : v \in {"completed", "failed", "cancelled"}}
Settled == Answers \cup {Failure, Bare}

TaskTypeOK ==
    /\ view \in [Tasks -> Settled \cup {Absent, Accepted, Running}]
    /\ asked \subseteq Tasks /\ open \in BOOLEAN

TaskInit ==
    view = [t \in Tasks |-> Absent] /\ asked = {} /\ open = TRUE

Shows(t, v) == view' = [view EXCEPT ![t] = v]

Submitted(t) == view[t] = Absent /\ Shows(t, Accepted) /\ UNCHANGED <<asked, open>>

\* A DELETE asks for one task, close() for all of them.
Ask(S) == asked' = asked \cup S /\ UNCHANGED view

Enters(t) == view[t] = Accepted /\ Shows(t, Running)

\* A result is cancelled, and a cancellation is without a result, only if it was asked for.
Settles(t) ==
    /\ view[t] \in {Accepted, Running}
    /\ \/ Shows(t, Failure)
       \/ /\ view[t] = Running
          /\ \E v \in Answers \cup {Bare} : (v[1] = "cancelled" => t \in asked) /\ Shows(t, v)

Progress(t) == (Enters(t) \/ Settles(t)) /\ UNCHANGED <<asked, open>>

TaskNext ==
    \/ \E t \in Tasks : Submitted(t) \/ Progress(t)
    \/ \E S \in SUBSET Tasks : Ask(S) /\ open' \in {open, FALSE}

\* Unless the broker is closed, what was submitted is settled.
TaskFairness == \A t \in Tasks : WF_taskVars(open /\ Progress(t))

TaskSafe == TaskInit /\ [][TaskNext]_taskVars
TaskSpec == TaskSafe /\ TaskFairness
=============================================================================
