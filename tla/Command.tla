-------------------------------- MODULE Command --------------------------------
(***************************************************************************)
(* run_command (src/mercury/platform/common.py): a child process with two  *)
(* pipes, two tasks that read them up to a bound, a timeout over all of    *)
(* it, and a cleanup that is itself made of awaits, which a cancellation    *)
(* may end.  The child may hang, exit early, leave a process of its own    *)
(* behind that holds the pipes, or be slow to die.                         *)
(*                                                                         *)
(* Arguments that are refused before anything starts, a process whose pipes *)
(* are missing although they were asked for, and a kill() the system does   *)
(* not allow are left out.                                                  *)
(***************************************************************************)
EXTENDS Integers

CONSTANTS
    Maximum,    \* max_output_bytes
    Chunk,      \* _READ_CHUNK_BYTES
    MaxWritten, \* bound of what is written to a stream
    MaxCancels  \* bound of the cancellations of the caller's task

Streams == {"stdout", "stderr"}

VARIABLES
    pc,         \* where run_command is
    outcome,    \* what it returns, or "cancelled" when it raises that
    cancels,    \* cancellations of the task so far
    child,      \* the process
    heir,       \* whether a process of the child's holds the pipes
    writers,    \* streams the child has not closed
    written,    \* stream -> bytes written to it
    held,       \* stream -> bytes in its buffer
    reader,     \* stream -> its _read_bounded
    pipes       \* streams whose transport is open

process == <<child, heir, writers, written>>
vars    == <<pc, outcome, cancels, process, held, reader, pipes>>

Failures == {"MISSING_TOOL", "PERMISSION_DENIED", "ERROR"}
Outcomes == Failures \cup {"SUCCESS", "NONZERO", "TIMEOUT", "OUTPUT_OVERFLOW", "cancelled"}
Ended    == {"exited", "crashed", "dead"}

TypeOK ==
    /\ pc \in {"creating", "reading", "waiting", "draining", "reaping", "over"}
    /\ outcome \in Outcomes \cup {"none"}
    /\ cancels \in 0..MaxCancels
    /\ child \in {"none", "running", "killed"} \cup Ended
    /\ heir \in BOOLEAN
    /\ writers \subseteq Streams
    /\ written \in [Streams -> 0..MaxWritten]
    /\ held \in [Streams -> 0..Maximum]
    /\ reader \in [Streams -> {"none", "reading", "eof", "overflow", "failed", "cancelled"}]
    /\ pipes \subseteq Streams

Init ==
    /\ pc = "creating" /\ outcome = "none" /\ cancels = 0
    /\ child = "none" /\ heir = FALSE /\ writers = {}
    /\ written = [s \in Streams |-> 0] /\ held = [s \in Streams |-> 0]
    /\ reader = [s \in Streams |-> "none"] /\ pipes = {}

-----------------------------------------------------------------------------
(* The process.                                                            *)

Write(s) ==
    /\ heir \/ (child = "running" /\ s \in writers)
    /\ written[s] < MaxWritten
    /\ written' = [written EXCEPT ![s] = @ + 1]
    /\ UNCHANGED <<pc, outcome, cancels, child, heir, writers, held, reader, pipes>>

CloseStream(s) ==
    /\ child = "running" /\ s \in writers
    /\ writers' = writers \ {s}
    /\ UNCHANGED <<pc, outcome, cancels, child, heir, written, held, reader, pipes>>

Fork ==
    /\ child = "running" /\ writers = Streams /\ heir' = TRUE
    /\ UNCHANGED <<pc, outcome, cancels, child, writers, written, held, reader, pipes>>

HeirExits ==
    /\ heir /\ heir' = FALSE
    /\ UNCHANGED <<pc, outcome, cancels, child, writers, written, held, reader, pipes>>

\* It exits with zero or another code, or dies of the signal sent to it.
ChildEnds ==
    /\ \/ child = "running" /\ child' \in {"exited", "crashed"}
       \/ child = "killed" /\ child' = "dead"
    /\ writers' = {}
    /\ UNCHANGED <<pc, outcome, cancels, heir, written, held, reader, pipes>>

-----------------------------------------------------------------------------
(* The readers: _read_bounded.                                             *)

\* A chunk, of which the buffer takes what it has room for.
Read(s) ==
    /\ reader[s] = "reading"
    /\ \E n \in 1..Chunk :
          /\ n <= written[s] - held[s]
          /\ IF n > Maximum - held[s]
             THEN /\ held' = [held EXCEPT ![s] = Maximum]
                  /\ reader' = [reader EXCEPT ![s] = "overflow"]
             ELSE /\ held' = [held EXCEPT ![s] = @ + n]
                  /\ UNCHANGED reader
    /\ UNCHANGED <<pc, outcome, cancels, process, pipes>>

\* The end comes when nobody can write any more.
AtEnd(s) == held[s] = written[s] /\ ~heir /\ (s \notin writers \/ child \in Ended)

Reads(s) ==
    /\ reader[s] = "reading"
    /\ \/ AtEnd(s) /\ reader' = [reader EXCEPT ![s] = "eof"]
       \/ reader' = [reader EXCEPT ![s] = "failed"]
    /\ UNCHANGED <<pc, outcome, cancels, process, held, pipes>>

-----------------------------------------------------------------------------
(* run_command.                                                            *)

Returns(o) == pc' = "over" /\ outcome' = o

\* _terminate_and_reap, up to its first await.
Terminate(o) ==
    /\ outcome' = o
    /\ child' = IF child = "running" THEN "killed" ELSE child
    /\ reader' = [s \in Streams |-> IF reader[s] = "reading" THEN "cancelled" ELSE reader[s]]
    /\ pc' = "draining"

Create ==
    /\ pc = "creating"
    /\ \/ /\ pc' = "reading" /\ child' = "running"
          /\ writers' = Streams /\ pipes' = Streams
          /\ reader' = [s \in Streams |-> "reading"]
          /\ UNCHANGED outcome
       \/ /\ \E o \in Failures : Returns(o)
          /\ UNCHANGED <<child, writers, pipes, reader>>
    /\ UNCHANGED <<cancels, heir, written, held>>

\* A variant to be refuted: the first reader at its end will do.
Gather_first ==
    /\ pc = "reading" /\ \E s \in Streams : reader[s] = "eof"
    /\ pc' = "waiting"
    /\ UNCHANGED <<outcome, cancels, process, held, reader, pipes>>

\* `await asyncio.gather(*readers)' returns ...
Gather ==
    /\ pc = "reading" /\ \A s \in Streams : reader[s] = "eof"
    /\ pc' = "waiting"
    /\ UNCHANGED <<outcome, cancels, process, held, reader, pipes>>

\* ... or hands on what a reader raised, while the other one goes on.
GatherFails ==
    /\ pc = "reading"
    /\ \/ (\E s \in Streams : reader[s] = "overflow") /\ Terminate("OUTPUT_OVERFLOW")
       \/ (\E s \in Streams : reader[s] = "failed") /\ Terminate("ERROR")
    /\ UNCHANGED <<cancels, heir, writers, written, held, pipes>>

\* `returncode = await process.wait()'.
Wait ==
    /\ pc = "waiting" /\ child \in Ended
    /\ Returns(IF child = "exited" THEN "SUCCESS" ELSE "NONZERO")
    /\ UNCHANGED <<cancels, process, held, reader, pipes>>

TimesOut ==
    /\ pc \in {"reading", "waiting"}
    /\ Terminate("TIMEOUT")
    /\ UNCHANGED <<cancels, heir, writers, written, held, pipes>>

\* The cleanup goes on when the readers have taken their cancellation.
Drain ==
    /\ pc = "draining" /\ pc' = "reaping" /\ pipes' = {}
    /\ UNCHANGED <<outcome, cancels, process, held, reader>>

\* A variant to be refuted: the wait for the killed process has no timeout.
Reap_patient ==
    /\ pc = "reaping" /\ child \in Ended /\ Returns(outcome)
    /\ UNCHANGED <<cancels, process, held, reader, pipes>>

\* The process is dead, or _REAP_TIMEOUT_S is over.
Reap ==
    /\ pc = "reaping" /\ Returns(outcome)
    /\ UNCHANGED <<cancels, process, held, reader, pipes>>

\* The caller is cancelled.  asyncio undoes a process it is creating; within the
\* cleanup nothing takes the CancelledError, and the rest of it is not done.
Cancel ==
    /\ cancels < MaxCancels /\ cancels' = cancels + 1
    /\ \/ /\ pc \in {"reading", "waiting"} /\ Terminate("cancelled")
       \/ /\ pc \in {"creating", "draining", "reaping"} /\ Returns("cancelled")
          /\ UNCHANGED <<child, reader>>
    /\ UNCHANGED <<heir, writers, written, held, pipes>>

Loop == Create \/ Gather \/ GatherFails \/ Wait \/ Drain

Next ==
    \/ \E s \in Streams : Write(s) \/ CloseStream(s) \/ Read(s) \/ Reads(s)
    \/ Fork \/ HeirExits \/ ChildEnds
    \/ Loop \/ TimesOut \/ Reap \/ Cancel

\* The event loop runs what is ready, and its two timers fire.  The process
\* promises nothing.
Fairness == WF_vars(Loop) /\ WF_vars(TimesOut) /\ WF_vars(Reap)

Spec == Init /\ [][Next]_vars
FairSpec == Spec /\ Fairness

-----------------------------------------------------------------------------
(* Safety.                                                                 *)

\* What run_command ends with is true of its process.  A success is the whole output
\* of a process that ended by itself, and nobody is left who could still write.  A
\* timeout and an overflow have closed the pipes, whoever else holds them.  However
\* it ends, also by a second cancellation within its cleanup, the process has ended
\* or has been killed.
OutcomeIsTrue ==
    /\ outcome = "SUCCESS" =>
          child = "exited" /\ ~heir /\ \A s \in Streams : held[s] = written[s]
    /\ pc = "over" /\ outcome \in {"TIMEOUT", "OUTPUT_OVERFLOW"} => pipes = {}
    /\ pc = "over" => child # "running"

-----------------------------------------------------------------------------
(* Liveness.                                                               *)

\* run_command ends although its process may not, not even when it is killed.
CommandEnds == <>(pc = "over")
=============================================================================
