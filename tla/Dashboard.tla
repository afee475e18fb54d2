------------------------------- MODULE Dashboard -------------------------------
(***************************************************************************)
(* The page of the web interface (src/mercury/web/static/app.js) over the  *)
(* broker's promise, WebTask.  Its script runs from await to await; every  *)
(* start() begins a chain of poll() calls: a request, then a timer, then a *)
(* request again.  Which task a chain asks for is decided anew each time,  *)
(* by activeTask, of which there is one.                                   *)
(***************************************************************************)
EXTENDS WebTask

CONSTANTS
    Hasty,  \* whether the user starts a task before the last poll has ended
    Loses   \* whether a request may fail: a lost connection, a session that was dropped

VARIABLES
    posting,    \* tasks whose POST has not been answered
    activeTask, \* a task, or "null"
    chain,      \* task -> what the chain of its start() is at: a timer, or the task asked for
    enabled,    \* whether #cancel-button is
    shown,      \* tasks whose result or error was rendered
    lost        \* tasks that were being asked for when a request failed

pageVars == <<posting, activeTask, chain, enabled, shown, lost>>
vars == <<taskVars, pageVars>>

-----------------------------------------------------------------------------
TypeOK ==
    /\ TaskTypeOK /\ posting \subseteq Tasks
    /\ activeTask \in Tasks \cup {"null"}
    /\ chain \in [Tasks -> Tasks \cup {"none", "timer"}]
    /\ enabled \in BOOLEAN /\ shown \subseteq Tasks /\ lost \subseteq Tasks

Init ==
    /\ TaskInit
    /\ posting = {} /\ activeTask = "null" /\ chain = [t \in Tasks |-> "none"]
    /\ enabled = FALSE /\ shown = {} /\ lost = {}

Polling(c) == chain[c] # "none"
\* value.result || value.error
HasContent(v) == v[2] # "none"

-----------------------------------------------------------------------------
\* The form or the status button; nothing disables them while a task is active.
Start(t) ==
    /\ Hasty \/ (posting = {} /\ activeTask = "null" /\ \A c \in Tasks : ~Polling(c))
    /\ Submitted(t)
    /\ posting' = posting \cup {t}
    /\ UNCHANGED <<activeTask, chain, enabled, shown, lost>>

\* The POST is answered with 202: the first call of poll() asks for the task at once.
Started(t) ==
    /\ t \in posting /\ posting' = posting \ {t}
    /\ activeTask' = t /\ enabled' = TRUE /\ chain' = [chain EXCEPT ![t] = t]
    /\ UNCHANGED <<taskVars, shown, lost>>

\* It is refused, or lost, whether or not the task runs: a message is all there is.
Refused(t) ==
    /\ Loses /\ t \in posting /\ posting' = posting \ {t}
    /\ lost' = lost \cup {t}
    /\ UNCHANGED <<taskVars, activeTask, chain, enabled, shown>>

\* A variant to be refuted: a snapshot without a result is the last one.
Answered_once(c) ==
    /\ chain[c] \in Tasks
    /\ chain' = [chain EXCEPT ![c] = "none"]
    /\ IF HasContent(view[chain[c]])
       THEN /\ shown' = shown \cup {chain[c]}
            /\ activeTask' = "null" /\ enabled' = FALSE
       ELSE UNCHANGED <<shown, activeTask, enabled>>
    /\ UNCHANGED <<taskVars, posting, lost>>

\* The snapshot of the task a chain asks for arrives.
Answered(c) ==
    /\ chain[c] \in Tasks
    /\ IF HasContent(view[chain[c]])
       THEN /\ shown' = shown \cup {chain[c]}
            /\ activeTask' = "null" /\ enabled' = FALSE
            /\ chain' = [chain EXCEPT ![c] = "none"]
       ELSE chain' = [chain EXCEPT ![c] = "timer"] /\ UNCHANGED <<shown, activeTask, enabled>>
    /\ UNCHANGED <<taskVars, posting, lost>>

\* The catch clause of poll().
Failed(c) ==
    /\ Loses /\ chain[c] \in Tasks
    /\ lost' = lost \cup {chain[c]}
    /\ activeTask' = "null" /\ chain' = [chain EXCEPT ![c] = "none"]
    /\ UNCHANGED <<taskVars, posting, enabled, shown>>

\* The timer calls poll(), which asks for whatever task is active by then.
Tick(c) ==
    /\ chain[c] = "timer"
    /\ chain' = [chain EXCEPT ![c] = IF activeTask = "null" THEN "none" ELSE activeTask]
    /\ UNCHANGED <<taskVars, posting, activeTask, enabled, shown, lost>>

\* The cancel button: a DELETE for the active task, whose answer is not looked at.
Press ==
    /\ enabled /\ activeTask # "null" /\ view[activeTask] \in {Accepted, Running}
    /\ Ask({activeTask}) /\ UNCHANGED open
    /\ UNCHANGED pageVars

\* The broker goes on with a task.
Settling(t) == Progress(t) /\ UNCHANGED pageVars

Next ==
    \/ Press
    \/ \E t \in Tasks :
          Start(t) \/ Started(t) \/ Refused(t) \/ Answered(t) \/ Failed(t) \/ Tick(t) \/ Settling(t)

\* Requests are answered or fail, timers fire, and the broker keeps its promise.
Fairness ==
    \A t \in Tasks :
        /\ WF_vars(Started(t) \/ Refused(t)) /\ WF_vars(Answered(t) \/ Failed(t))
        /\ WF_vars(Tick(t)) /\ WF_vars(Settling(t))

Spec == Init /\ [][Next]_vars /\ Fairness

-----------------------------------------------------------------------------
\* Whatever a task of the page ends with is rendered, unless the page was told that a
\* request about it failed.  A cancelled task without a result has nothing to render.
ResultIsShown ==
    \A t \in Tasks : view[t] \in Answers \cup {Failure} ~> t \in shown \cup lost

=============================================================================
