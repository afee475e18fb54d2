---------------------------- MODULE PairedListener ----------------------------
(***************************************************************************)
(* The listening half of a paired diagnosis (src/mercury/paired.py): the   *)
(* B-to-A role that ConfiguredPairedExecutor runs on a peer.  Its runner   *)
(* owns a PairedListenerService, which admits a TCP and a UDP step, binds  *)
(* two sockets for the time of a lease, and completes each step once: with *)
(* what arrived, or with the silence that expiry or the end records.       *)
(*                                                                         *)
(* The runner, the expiry task, the TCP handlers and the datagram tasks    *)
(* share one event loop: a step of this module is what one of them does    *)
(* between two awaits.  The listener's `outcome' is never read and left    *)
(* out; so are packets of a wrong source or tag, which change nothing.     *)
(***************************************************************************)
EXTENDS Integers, Sequences, FiniteSets

CONSTANTS
    Conns,          \* TCP connections from the peer
    MaxDatagrams,   \* bound of the datagrams that wait for their task
    Lease,          \* expires_at, in ticks after authorized_at
    Duration,       \* max_duration_s of the plan, in ticks
    RecordFaults,   \* whether the history may refuse a write
    MaxTime         \* bound of the clock

ASSUME LeaseAssumption == {Lease, Duration, MaxTime, MaxDatagrams} \subseteq Nat
ASSUME FaultAssumption == RecordFaults \in BOOLEAN

VARIABLES
    waits,      \* Server.wait_closed waits for handlers: since Python 3.12
    now,        \* the clock, from the plan's authorized_at
    token,      \* the CancellationToken is set
    requested,  \* who has asked asyncio to cancel the runner's task
    pending,    \* a CancelledError is on its way to it
    pc,         \* where the runner awaits
    exit,       \* with what it leaves while it awaits its handlers
    deadline,   \* when asyncio.timeout fires
    listening,  \* the sockets the system accepts traffic on
    own,        \* those the service still holds: _tcp and _udp
    expiry,     \* the _expire task
    conn,       \* connection -> its _handle_tcp
    datagrams,  \* tasks of _datagram_tasks that have not run yet
    claimed,    \* _claimed_steps
    evidence,   \* step -> the phases recorded for it
    completed,  \* the context's completed steps
    ready,      \* the executor's ready event
    readyError, \* an error is left for wait_ready
    waiter,     \* the submit handler in wait_ready
    verdict     \* of the role's task

control  == <<token, requested, pending>>
runner   == <<pc, exit, deadline, verdict>>
sockets  == <<listening, own, expiry>>
traffic  == <<conn, datagrams>>
findings == <<claimed, evidence, completed>>
answer   == <<ready, readyError, waiter>>
vars     == <<waits, now, control, runner, sockets, traffic, findings, answer>>

-----------------------------------------------------------------------------
Steps == {"tcp", "udp"}

Places == {"submitted", "pacing", "bindingTcp", "startingTcp", "bindingUdp",
           "serving", "closing", "over", "neverBegun"}

\* The exceptions a runner ends with: CooperativeCancellation, CancelledError
\* and any other.
Reasons == {"returned", "cancelled", "interrupted", "failed"}

TypeOK ==
    /\ waits \in BOOLEAN /\ now \in Nat
    /\ token \in BOOLEAN /\ pending \in BOOLEAN
    /\ requested \subseteq {"cancel", "deadline"}
    /\ pc \in Places /\ deadline \in Nat
    /\ exit \in [why: Reasons, inStart: BOOLEAN]
    /\ own \subseteq listening /\ listening \subseteq Steps
    /\ expiry \in {"none", "sleeping", "closing", "expired", "over"}
    /\ conn \in [Conns -> {"none", "reading", "closed"}]
    /\ datagrams \in 0..MaxDatagrams
    /\ claimed \subseteq Steps /\ completed \subseteq Steps
    /\ evidence \in [Steps -> Seq({"arrived", "replied", "received"})]
    /\ ready \in BOOLEAN /\ readyError \in BOOLEAN
    /\ waiter \in {"waiting", "accepted", "refused"}
    /\ verdict \in {"none", "completed", "failed", "cancelled"}

Init ==
    /\ waits \in BOOLEAN /\ now = 0
    /\ token = FALSE /\ requested = {} /\ pending = FALSE
    /\ pc = "submitted" /\ exit = [why |-> "returned", inStart |-> FALSE]
    /\ deadline = 0 /\ verdict = "none"
    /\ listening = {} /\ own = {} /\ expiry = "none"
    /\ conn = [c \in Conns |-> "none"] /\ datagrams = 0
    /\ claimed = {} /\ evidence = [s \in Steps |-> << >>] /\ completed = {}
    /\ ready = FALSE /\ readyError = FALSE /\ waiter = "waiting"

-----------------------------------------------------------------------------
\* assert_current.
Current == now < Lease

Reading == {c \in Conns : conn[c] = "reading"}

\* start() admits TCP before it waits for the slot of UDP.
Admitted == IF pc = "pacing" THEN {"tcp"} ELSE Steps

\* What _execute_inner makes of the end of the runner.  A timeout whose
\* CancelledError was asked for by a cancellation too stays a cancellation.
Verdict(why) ==
    CASE why = "failed"      -> "failed"
      [] why = "interrupted" -> IF "cancel" \in requested THEN "cancelled" ELSE "failed"
      [] why = "cancelled"   -> "cancelled"
      [] why = "returned"    -> IF token THEN "cancelled" ELSE "completed"

-----------------------------------------------------------------------------
(* _claim_step, _record_pair and complete_attempt never wait for anybody:  *)
(* from the claim of a step to its end is one step of the model, and what  *)
(* raises in between leaves a step claimed but not completed.              *)

\* A variant to be refuted: a step may be claimed again.
Claim_again(s) == claimed' = claimed \cup {s}

Claim(s) == s \notin claimed /\ claimed' = claimed \cup {s}

\* The matching packet of step s: arrival, reply and completion, unless the
\* history refuses a record or the connection is lost before the reply.
Arrive(s) ==
    /\ Claim(s)
    /\ \/ /\ evidence' = [evidence EXCEPT ![s] = @ \o <<"arrived", "replied">>]
          /\ completed' = completed \cup {s}
       \/ /\ s = "tcp" \/ RecordFaults
          /\ evidence' = [evidence EXCEPT ![s] = Append(@, "arrived")]
          /\ UNCHANGED completed
       \/ RecordFaults /\ UNCHANGED <<evidence, completed>>

\* The steps _complete_missing may fail to record: one that is not admitted
\* raises for certain.
Losses ==
    LET refused == Steps \ (claimed \cup Admitted)
    IN {l \in SUBSET (Steps \ claimed) :
           refused \subseteq l /\ (RecordFaults \/ l = refused)}

\* A variant to be refuted: a step is claimed once its silence is recorded.
RecordSilence_late(lost, tries) ==
    LET left == IF "tcp" \in lost /\ tries = 1 THEN {"udp"} ELSE {}
        done == Steps \ (claimed \cup lost \cup left)
    IN /\ claimed' = claimed \cup done
       /\ evidence' = [s \in Steps |-> IF s \in done THEN Append(evidence[s], "received")
                                       ELSE evidence[s]]
       /\ completed' = completed \cup done

\* _complete_missing, TCP first: what raises there ends it, so that UDP takes
\* a second try.
RecordSilence(lost, tries) ==
    LET left == IF "tcp" \in lost /\ tries = 1 THEN {"udp"} ELSE {}
        done == Steps \ (claimed \cup lost \cup left)
    IN /\ claimed' = claimed \cup (Steps \ left)
       /\ evidence' = [s \in Steps |-> IF s \in done THEN Append(evidence[s], "received")
                                       ELSE evidence[s]]
       /\ completed' = completed \cup done

-----------------------------------------------------------------------------
(* stop() and the end of the runner.                                       *)

\* A variant to be refuted: the datagram socket is forgotten.
CloseSockets_tcpOnly == listening' = listening \ (own \ {"udp"}) /\ own' = {}

CloseSockets == listening' = listening \ own /\ own' = {}

\* stop() waits for the handlers of the server it has just closed.
MustWait == waits /\ "tcp" \in own /\ Reading # {}

\* A variant to be refuted: only a runner that returns sets the event.
Leaves_byReturning(why) ==
    ready' = (ready \/ why = "returned") /\ readyError' = (readyError \/ why # "returned")

\* except BaseException, and the first line of the finally clause.
Leaves(why) == ready' = TRUE /\ readyError' = (readyError \/ why # "returned")

End(why) == pc' = "over" /\ verdict' = Verdict(why) /\ UNCHANGED <<exit, deadline>>

\* stop(mark_silence=True) past its handlers: an exception of its own takes
\* the place of the runner's.
Finish(why, tries) ==
    \E lost \in Losses :
       /\ RecordSilence(lost, tries)
       /\ End(IF lost = {} THEN why ELSE "failed")

\* stop() in the finally clause, or in start() and again in the finally
\* clause; tries counts the calls that mark silence.
Stop(why, inStart, tries) ==
    /\ CloseSockets /\ datagrams' = 0
    /\ expiry' = IF expiry \in {"sleeping", "closing"} THEN "over" ELSE expiry
    /\ \/ /\ MustWait
          /\ pc' = "closing" /\ exit' = [why |-> why, inStart |-> inStart]
          /\ IF inStart THEN UNCHANGED <<ready, readyError>> ELSE Leaves(why)
          /\ UNCHANGED <<deadline, verdict, findings>>
       \/ /\ ~MustWait
          /\ Leaves(why)
          /\ Finish(why, tries)
    /\ UNCHANGED <<waits, now, token, requested, conn, waiter>>

-----------------------------------------------------------------------------
(* The runner.                                                             *)

At(place) == pc = place /\ ~pending

\* The task fails before its runner is called.
NeverBegins ==
    /\ RecordFaults /\ At("submitted")
    /\ pc' = "neverBegun" /\ verdict' = "failed"
    /\ UNCHANGED <<waits, now, control, exit, deadline, sockets, traffic, findings, answer>>

\* start() until the slot of the UDP step; a lease that is over raises first.
Begin ==
    /\ At("submitted")
    /\ \/ /\ Current
          /\ pc' = "pacing" /\ deadline' = now + Duration
          /\ UNCHANGED <<exit, verdict, ready, readyError>>
       \/ /\ ~Current
          /\ Leaves("failed") /\ End("failed")
    /\ UNCHANGED <<waits, now, control, sockets, traffic, findings, waiter>>

\* The UDP step is admitted, or the token ends the wait for its slot.
Paced ==
    /\ At("pacing")
    /\ \/ /\ ~token
          /\ pc' = "bindingTcp"
          /\ UNCHANGED <<waits, now, token, requested, exit, deadline, verdict, sockets,
                         traffic, findings, answer>>
       \/ token /\ Stop("cancelled", FALSE, 1)
    /\ UNCHANGED pending

\* create_server listens, and awaits once more before it returns the server.
ListenTcp ==
    /\ At("bindingTcp")
    /\ \/ /\ listening' = listening \cup {"tcp"} /\ pc' = "startingTcp"
          /\ UNCHANGED <<waits, now, token, requested, exit, deadline, verdict, own, expiry,
                         traffic, findings, answer>>
       \/ Stop("failed", TRUE, 2)
    /\ UNCHANGED pending

TcpStarted ==
    /\ At("startingTcp")
    /\ own' = own \cup {"tcp"} /\ pc' = "bindingUdp"
    /\ UNCHANGED <<waits, now, control, exit, deadline, verdict, listening, expiry,
                   traffic, findings, answer>>

BindUdp ==
    /\ At("bindingUdp")
    /\ \/ /\ listening' = listening \cup {"udp"} /\ own' = own \cup {"udp"}
          /\ pc' = "serving" /\ expiry' = "sleeping" /\ ready' = TRUE
          /\ UNCHANGED <<waits, now, token, requested, exit, deadline, verdict, traffic,
                         findings, readyError, waiter>>
       \/ Stop("failed", TRUE, 2)
    /\ UNCHANGED pending

\* The loop: completed, or cancelled, or asleep for ten milliseconds more.
Poll ==
    /\ At("serving")
    /\ \/ completed = Steps /\ Stop("returned", FALSE, 1)
       \/ completed # Steps /\ token /\ Stop("cancelled", FALSE, 1)
    /\ UNCHANGED pending

\* The handlers that stop() waited for are over.
Closed ==
    /\ At("closing") /\ Reading = {}
    /\ Leaves(exit.why)
    /\ Finish(exit.why, IF exit.inStart /\ exit.why = "failed" THEN 2 ELSE 1)
    /\ UNCHANGED <<waits, now, control, sockets, traffic, waiter>>

\* A CancelledError arrives where the runner awaits.  In start() it closes
\* what start() holds; in a stop() of start() it leaves the second one; in
\* the stop() of the finally clause it leaves no other.
Interrupted ==
    /\ pending /\ pending' = FALSE
    /\ \/ pc = "pacing" /\ Stop("interrupted", FALSE, 1)
       \/ pc \in {"bindingTcp", "startingTcp", "bindingUdp"} /\ Stop("interrupted", TRUE, 1)
       \/ pc = "serving" /\ Stop("interrupted", FALSE, 1)
       \/ /\ pc = "closing" /\ exit.inStart
          /\ Leaves("interrupted") /\ Finish("interrupted", 1)
          /\ UNCHANGED <<waits, now, token, requested, sockets, traffic, waiter>>
       \/ /\ pc = "closing" /\ ~exit.inStart
          /\ End("interrupted")
          /\ UNCHANGED <<waits, now, token, requested, sockets, traffic, findings, answer>>

-----------------------------------------------------------------------------
(* Around the runner.                                                      *)

Tick ==
    /\ now < MaxTime /\ now' = now + 1
    /\ UNCHANGED <<waits, control, runner, sockets, traffic, findings, answer>>

Begun == pc \notin {"submitted", "over", "neverBegun"}

\* TaskService.wait() is cancelled: it cancels the token, then the task,
\* unless the event in between could not be written.
Cancel ==
    /\ Begun /\ ~token
    /\ token' = TRUE
    /\ \/ requested' = requested \cup {"cancel"} /\ pending' = TRUE
       \/ RecordFaults /\ UNCHANGED <<requested, pending>>
    /\ UNCHANGED <<waits, now, runner, sockets, traffic, findings, answer>>

TimesOut ==
    /\ Begun /\ now >= deadline /\ "deadline" \notin requested
    /\ requested' = requested \cup {"deadline"} /\ pending' = TRUE
    /\ UNCHANGED <<waits, now, token, runner, sockets, traffic, findings, answer>>

\* wait_ready, for the submit handler.
Answer ==
    /\ waiter = "waiting" /\ ready
    /\ waiter' = IF readyError THEN "refused" ELSE "accepted"
    /\ readyError' = FALSE
    /\ UNCHANGED <<waits, now, control, runner, sockets, traffic, findings, ready>>

\* _expire wakes up at the end of the lease, and stops the listeners; by a
\* coarse clock it is too early, and over.
Expire ==
    /\ expiry = "sleeping" /\ ~Current
    /\ \/ /\ CloseSockets /\ datagrams' = 0
          /\ \/ MustWait /\ expiry' = "closing" /\ UNCHANGED findings
             \/ /\ ~MustWait /\ expiry' = "expired"
                /\ \E lost \in Losses : RecordSilence(lost, 1)
       \/ expiry' = "over" /\ UNCHANGED <<listening, own, datagrams, findings>>
    /\ UNCHANGED <<waits, now, control, runner, conn, answer>>

ExpiryCloses ==
    /\ expiry = "closing" /\ Reading = {}
    /\ expiry' = "expired"
    /\ \E lost \in Losses : RecordSilence(lost, 1)
    /\ UNCHANGED <<waits, now, control, runner, listening, own, traffic, answer>>

-----------------------------------------------------------------------------
(* The packets of the peer.                                                *)

\* A connection is let in while the lease is current ...
Connect(c) ==
    /\ "tcp" \in listening /\ conn[c] = "none" /\ Current
    /\ conn' = [conn EXCEPT ![c] = "reading"]
    /\ UNCHANGED <<waits, now, control, runner, sockets, datagrams, findings, answer>>

\* ... and read for up to timeout_s: the tag comes, and finds the step free
\* or not and the token set or not, or the end comes, or something else.
HandleTcp(c) ==
    /\ conn[c] = "reading"
    /\ conn' = [conn EXCEPT ![c] = "closed"]
    /\ \/ ~token /\ Arrive("tcp")
       \/ UNCHANGED findings
    /\ UNCHANGED <<waits, now, control, runner, sockets, datagrams, answer>>

Datagram ==
    /\ "udp" \in listening /\ datagrams < MaxDatagrams
    /\ datagrams' = datagrams + 1
    /\ UNCHANGED <<waits, now, control, runner, sockets, conn, findings, answer>>

HandleDatagram ==
    /\ datagrams > 0 /\ datagrams' = datagrams - 1
    /\ \/ Current /\ ~token /\ Arrive("udp")
       \/ /\ ~Current \/ token \/ "udp" \in claimed
          /\ UNCHANGED findings
    /\ UNCHANGED <<waits, now, control, runner, sockets, conn, answer>>

-----------------------------------------------------------------------------
Runner ==
    \/ NeverBegins \/ Begin \/ Paced \/ ListenTcp \/ TcpStarted \/ BindUdp
    \/ Poll \/ Closed \/ Interrupted

Next ==
    \/ Runner \/ Tick \/ Cancel \/ TimesOut \/ Answer
    \/ Expire \/ ExpiryCloses \/ Datagram \/ HandleDatagram
    \/ \E c \in Conns : Connect(c) \/ HandleTcp(c)

Spec == Init /\ [][Next]_vars

-----------------------------------------------------------------------------
(* Safety.                                                                 *)

\* A step tells one story: what arrived, and perhaps the reply to it, or
\* silence; never both and never twice, although expiry, the end of the
\* runner and any number of packets compete for it.
EvidenceOnce ==
    \A s \in Steps :
       /\ evidence[s] \in {<< >>, <<"arrived">>, <<"arrived", "replied">>, <<"received">>}
       /\ s \in completed => evidence[s] \in {<<"arrived", "replied">>, <<"received">>}

\* Silence is never recorded of a listener that was still to listen: not
\* before the lease is over or the runner on its way out.
SilenceIsLate ==
    (\E s \in Steps : evidence[s] = <<"received">>) => now >= Lease \/ pc = "over"

\* A submit that was answered with "accepted" is one whose listeners were
\* bound, whatever became of them.
AcceptedMeansBound == waiter = "accepted" => expiry # "none"

\* A role that has come to listen on both ports listens on none when its
\* verdict is recorded.  One that is interrupted before may leave a port open, which
\* start() never received.
BoundPortsReleased == verdict # "none" /\ expiry # "none" => listening = {}

\* Nothing is recorded of a role after its verdict, by none of the handlers
\* that outlive it.
QuietAfterVerdict == [][verdict # "none" => UNCHANGED evidence]_vars

\* A role nobody cancelled, whose lease ran out and left both of its steps
\* completed, is a completed role.
SilentRoleCompletes ==
    verdict # "none" /\ ~token /\ expiry = "expired" /\ completed = Steps
       => verdict = "completed"

-----------------------------------------------------------------------------
(* Liveness.                                                               *)

\* The event loop runs whoever is ready, the clock runs, and a handler's
\* read ends with its timeout.
Fairness ==
    /\ WF_vars(Tick) /\ WF_vars(Runner) /\ WF_vars(TimesOut) /\ WF_vars(Answer)
    /\ WF_vars(Expire) /\ WF_vars(ExpiryCloses) /\ WF_vars(HandleDatagram)
    /\ \A c \in Conns : WF_vars(HandleTcp(c))

FairSpec == Spec /\ Fairness

\* Every role ends and is told from one that goes on: a verdict, no handler
\* left, and an answer to the submit that asked for it, unless the task
\* failed before its runner was called, which nobody tells wait_ready.
RoleEnds ==
    <>[](/\ verdict # "none" /\ own = {} /\ Reading = {}
         /\ \/ waiter # "waiting"
            \/ pc = "neverBegun")
=============================================================================
