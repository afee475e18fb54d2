------------------------------ MODULE PeerControl ------------------------------
(***************************************************************************)
(* One run of a paired or coverage diagnosis over the control channel:     *)
(* AuthenticatedPairedRunner or AuthenticatedCoverageRunner as the client, *)
(* PeerAgent with PairedPeerService as the peer (src/mercury/paired.py,    *)
(* src/mercury/peer.py).  Each request has a connection of its own, which  *)
(* the client may leave while the agent goes on with it.                   *)
(*                                                                         *)
(* A paired run has the correlation "p"; a coverage run has "f", for which *)
(* the peer opens receivers, and then "r", for which it sends to receivers *)
(* of the client's.  Correlations are random, so that runs share nothing   *)
(* but the ports, which are CoverageLease's and PairedListener's.          *)
(***************************************************************************)
EXTENDS Naturals

CONSTANTS
    Window,     \* timeout_s of the request, in ticks
    Grace,      \* _CONTROL_RESULT_GRACE_S, in ticks
    Turns,      \* len(request.profiles) * 2
    Faults,     \* what may go wrong besides: see FaultAssumption
    MaxRestarts,\* bound of the restarts of the peer
    MaxTime     \* bound of the clock

ASSUME TimeAssumption == Window \in Nat \ {0} /\ {Grace, Turns, MaxRestarts, MaxTime} \subseteq Nat
ASSUME FaultAssumption == Faults \subseteq {"loss", "interrupt", "unbegun"}

VARIABLES
    now,        \* the clock, from the client's start
    pc,         \* the request the client awaits, or what it does instead
    leg,        \* the correlation it is at
    reply,      \* what has come back
    deadline,   \* when asyncio.timeout fires
    until,      \* forward_expires_at, then reverse_expires_at
    submitted,  \* correlations the client knows to be accepted
    local,      \* correlations in the table of its own registry
    outcome,    \* what run() ends with
    confirmed,  \* correlations whose cancel was answered
    wire,       \* requests on their way
    owners,     \* _correlations of the agent
    tabled,     \* _tasks of the service
    results,    \* _results
    leases,     \* correlations in the table of the registry
    role,       \* correlation -> the asyncio task of its role
    ready,      \* what the event of wait_ready says
    waiting,    \* correlations with a handler in wait_ready
    restarts    \* how often the peer's process was replaced

client == <<pc, leg, reply, deadline, until, submitted, local, outcome, confirmed>>
tables == <<owners, tabled, results, leases>>
peer   == <<tables, role, ready, waiting, restarts>>
vars   == <<now, client, wire, peer>>

-----------------------------------------------------------------------------
Corrs == {"p", "f", "r"}
Ops == {"capabilities", "submit", "read-result", "cancel"}
Body == {"capabilities", "submit", "sending", "read-result", "polling", "opening"}
Active == {"created", "serving", "failing"}

TypeOK ==
    /\ now \in Nat /\ deadline \in Nat /\ until \in Nat
    /\ pc \in Body \cup {"closing", "cancel", "done"} /\ leg \in Corrs
    /\ reply \in {"none", "capable", "accepted", "pending", "receipts", "result",
                  "cancelled", "error"}
    /\ outcome \in {"none", "completed", "failed", "expired", "interrupted"}
    /\ submitted \subseteq Corrs /\ confirmed \subseteq Corrs
    /\ wire \subseteq Ops \X Corrs
    /\ owners \subseteq Corrs /\ tabled \subseteq Corrs
    /\ results \subseteq Corrs /\ leases \subseteq {"f"}
    /\ role \in [Corrs -> Active \cup {"none", "stored", "raised", "cancelling", "cancelled"}]
    /\ ready \in {"unset", "bound", "failed", "never"}
    /\ local \subseteq Corrs /\ waiting \subseteq {"p"} /\ restarts \in Nat

\* control_expires_at, and the time of the client's asyncio.timeout.
Patience == IF leg = "p" THEN Window + Grace ELSE Turns * Window + Grace

Init ==
    /\ now = 0 /\ pc = "capabilities" /\ leg \in {"p", "f"} /\ reply = "none"
    /\ deadline = Patience /\ until = 0
    /\ submitted = {} /\ confirmed = {} /\ local = {} /\ outcome = "none"
    /\ wire = {<<"capabilities", leg>>}
    /\ owners = {} /\ tabled = {} /\ results = {} /\ leases = {}
    /\ role = [c \in Corrs |-> "none"] /\ ready = "unset" /\ waiting = {}
    /\ restarts = 0

-----------------------------------------------------------------------------
(* Requests.                                                               *)

\* expires_at of a frame: a coverage submit carries the window of its lease.
Expires(op, c, end) == IF op = "submit" /\ c # "p" THEN end ELSE Patience

Ask(op, c) ==
    pc' = op /\ leg' = c /\ reply' = "none" /\ wire' = wire \cup {<<op, c>>}

\* The finally clause: one cancel for each correlation of S, "f" first.  A frame
\* whose expiry has passed cannot be made, and the error is ignored.
CancelNext(S) ==
    \/ /\ S # {} /\ now < Patience
       /\ \E c \in S : (c = "f" \/ "f" \notin S) /\ Ask("cancel", c)
    \/ /\ S = {} \/ now >= Patience
       /\ pc' = "done" /\ UNCHANGED <<leg, reply, wire>>

\* The body of run() is left.
Unwind(how, S) ==
    /\ outcome' = how
    /\ \/ local # {} /\ pc' = "closing" /\ UNCHANGED <<leg, reply, wire>>
       \/ local = {} /\ CancelNext(S)

\* The next request of the body, unless its frame would have expired.
Request(op, c, end, S) ==
    \/ now < Expires(op, c, end) /\ Ask(op, c) /\ UNCHANGED outcome
    \/ now >= Expires(op, c, end) /\ Unwind("failed", S)

-----------------------------------------------------------------------------
(* The client.                                                             *)

\* The peers agree on manifest, profiles and ports, or the client gives up.
Capable ==
    /\ pc = "capabilities" /\ reply = "capable"
    /\ \/ /\ IF leg = "p" THEN UNCHANGED <<deadline, until>>
             ELSE deadline' = now + Patience /\ until' = now + Window
          /\ Request("submit", leg, now + Window, submitted)
       \/ Unwind("failed", submitted) /\ UNCHANGED <<deadline, until>>
    /\ UNCHANGED <<now, submitted, local, confirmed, peer>>

Submitted ==
    /\ pc = "submit" /\ reply = "accepted"
    /\ submitted' = submitted \cup {leg}
    /\ \/ leg # "r" /\ pc' = "sending" /\ UNCHANGED <<leg, reply, wire, outcome>>
       \/ leg = "r" /\ Request("read-result", leg, until, submitted')
    /\ UNCHANGED <<now, deadline, until, local, confirmed, peer>>

\* The local role, which takes its time, ends or raises.
Sent ==
    /\ pc = "sending"
    /\ Request("read-result", leg, until, submitted) \/ Unwind("failed", submitted)
    /\ UNCHANGED <<now, deadline, until, submitted, local, confirmed, peer>>

Pending ==
    /\ pc = "read-result"
    /\ \/ leg # "f" /\ reply = "pending"
       \/ leg = "f" /\ reply = "receipts" /\ now < until
    /\ pc' = "polling"
    /\ UNCHANGED <<now, leg, reply, deadline, until, submitted, local, outcome, confirmed,
                   wire, peer>>

Polled ==
    /\ pc = "polling"
    /\ Request("read-result", leg, until, submitted)
    /\ UNCHANGED <<now, deadline, until, submitted, local, confirmed, peer>>

\* All receipts are there, or no more can come: the other direction.
Receipts ==
    /\ pc = "read-result" /\ leg = "f" /\ reply = "receipts"
    /\ pc' = "opening"
    /\ UNCHANGED <<now, leg, reply, deadline, until, submitted, local, outcome, confirmed,
                   wire, peer>>

Opened ==
    /\ pc = "opening"
    /\ \/ /\ local' = {"r"} /\ until' = now + Window
          /\ Ask("submit", "r") /\ UNCHANGED outcome
       \/ Unwind("failed", submitted) /\ UNCHANGED <<local, until>>
    /\ UNCHANGED <<now, deadline, submitted, confirmed, peer>>

\* The result is read, and combined if it is valid.
Result ==
    /\ pc = "read-result" /\ leg # "f" /\ reply = "result"
    /\ \E how \in {"completed", "failed"} : Unwind(how, submitted)
    /\ UNCHANGED <<now, deadline, until, submitted, local, confirmed, peer>>

\* No answer, or none that is expected here.
Fails ==
    /\ pc \in Body \cap Ops
    /\ reply = "error" \/ (pc = "read-result" /\ leg = "f" /\ reply \in {"pending", "result"})
    /\ Unwind("failed", submitted)
    /\ UNCHANGED <<now, deadline, until, submitted, local, confirmed, peer>>

\* asyncio.timeout, inside of which a coverage run has not asked for
\* capabilities yet.
TimesOut ==
    /\ pc \in Body /\ (pc = "capabilities" => leg = "p")
    /\ now >= deadline
    /\ Unwind("expired", submitted)
    /\ UNCHANGED <<now, deadline, until, submitted, local, confirmed, peer>>

Closed ==
    /\ pc = "closing"
    /\ local' = {} /\ CancelNext(submitted)
    /\ UNCHANGED <<now, deadline, until, submitted, outcome, confirmed, peer>>

Cancelled ==
    /\ pc = "cancel" /\ reply # "none"
    /\ confirmed' = IF reply = "cancelled" THEN confirmed \cup {leg} ELSE confirmed
    /\ CancelNext(IF leg = "f" THEN submitted \ {"f"} ELSE {})
    /\ UNCHANGED <<now, deadline, until, submitted, local, outcome, peer>>

\* run() is cancelled; in its finally clause this leaves what is left undone.
Interrupt ==
    /\ "interrupt" \in Faults
    /\ \/ pc \in Body /\ Unwind("interrupted", submitted)
       \/ /\ pc \in {"closing", "cancel"} /\ pc' = "done" /\ outcome' = "interrupted"
          /\ UNCHANGED <<leg, reply, wire>>
    /\ UNCHANGED <<now, deadline, until, submitted, local, confirmed, peer>>

-----------------------------------------------------------------------------
(* The agent: _handle_connection, and the handlers of PairedPeerService.    *)

\* The answer, if the client still awaits it.
Respond(op, c, answer) ==
    /\ reply' \in IF pc = op /\ leg = c /\ reply = "none"
                  THEN {answer} \cup (IF "loss" \in Faults THEN {"error"} ELSE {})
                  ELSE {reply}
    /\ UNCHANGED <<pc, leg, deadline, until, submitted, local, outcome, confirmed>>

\* A variant to be refuted: whose correlation it is does not matter.
Owned_anyone(op, c) == TRUE

\* A correlation is its submitter's.
Owned(op, c) == op \in {"read-result", "cancel"} => c \in owners

Admitted(op, c) == now < Expires(op, c, until) /\ Owned(op, c)

\* A frame that is refused closes the connection without an answer.
Refuse(op, c) ==
    /\ ~Admitted(op, c)
    /\ Respond(op, c, "error") /\ UNCHANGED peer

Capabilities(c) ==
    /\ Admitted("capabilities", c)
    /\ Respond("capabilities", c, "capable") /\ UNCHANGED peer

\* Coverage: receivers are opened, which CoverageLease is about, or refused.
SubmitLease(c) ==
    /\ Admitted("submit", c) /\ c = "f"
    /\ owners' = owners \cup {c}
    /\ \/ c \notin leases /\ leases' = leases \cup {c} /\ Respond("submit", c, "accepted")
       \/ Respond("submit", c, "error") /\ UNCHANGED leases
    /\ UNCHANGED <<tabled, results, role, ready, waiting, restarts>>

\* A variant to be refuted: a paired role is accepted before it listens.
SubmitRole_atOnce(c) ==
    /\ Admitted("submit", c) /\ c # "f" /\ c \notin tabled \cup results
    /\ owners' = owners \cup {c} /\ tabled' = tabled \cup {c}
    /\ role' = [role EXCEPT ![c] = "created"]
    /\ Respond("submit", c, "accepted")
    /\ UNCHANGED <<results, leases, ready, waiting, restarts>>

\* A role is started; a paired one is answered when its listeners are bound.
SubmitRole(c) ==
    /\ Admitted("submit", c) /\ c # "f"
    /\ owners' = owners \cup {c}
    /\ \/ /\ c \notin tabled \cup results
          /\ tabled' = tabled \cup {c} /\ role' = [role EXCEPT ![c] = "created"]
          /\ \/ c = "r" /\ Respond("submit", c, "accepted") /\ UNCHANGED waiting
             \/ c = "p" /\ waiting' = waiting \cup {c} /\ UNCHANGED client
       \/ /\ c \in tabled \cup results
          /\ Respond("submit", c, "error") /\ UNCHANGED <<tabled, role, waiting>>
    /\ UNCHANGED <<results, leases, ready, restarts>>

\* wait_ready returns or raises, and so does a task that is over.
WaitReady ==
    /\ "p" \in waiting /\ ready \in {"bound", "failed"}
    /\ waiting' = waiting \ {"p"}
    /\ Respond("submit", "p", IF ready = "bound" /\ role["p"] # "raised"
                              THEN "accepted" ELSE "error")
    /\ UNCHANGED <<now, wire, tables, role, ready, restarts>>

ReadResult(c) ==
    /\ Admitted("read-result", c)
    /\ \/ c \in leases /\ Respond("read-result", c, "receipts") /\ UNCHANGED tabled
       \/ /\ c \notin leases /\ c \in tabled
          /\ \/ /\ role[c] \in Active
                /\ Respond("read-result", c, "pending") /\ UNCHANGED tabled
             \/ /\ role[c] = "raised"
                /\ Respond("read-result", c, "error") /\ UNCHANGED tabled
             \/ /\ role[c] = "stored"
                /\ Respond("read-result", c, "result") /\ tabled' = tabled \ {c}
       \/ /\ c \notin leases \cup tabled
          /\ Respond("read-result", c, IF c \in results THEN "result" ELSE "pending")
          /\ UNCHANGED tabled
    /\ UNCHANGED <<owners, results, leases, role, ready, waiting, restarts>>

\* A variant to be refuted: the tables forget a role that goes on.
Cancel_tables(c) ==
    /\ Admitted("cancel", c)
    /\ tabled' = tabled \ {c} /\ results' = results \ {c} /\ leases' = leases \ {c}
    /\ Respond("cancel", c, "cancelled")
    /\ UNCHANGED <<owners, role, ready, waiting, restarts>>

Cancel(c) ==
    /\ Admitted("cancel", c)
    /\ tabled' = tabled \ {c} /\ results' = results \ {c} /\ leases' = leases \ {c}
    /\ role' = IF c \in tabled /\ role[c] \in Active
               THEN [role EXCEPT ![c] = "cancelling"] ELSE role
    /\ Respond("cancel", c, "cancelled")
    /\ UNCHANGED <<owners, ready, waiting, restarts>>

Handle(op, c) ==
    /\ <<op, c>> \in wire /\ wire' = wire \ {<<op, c>>}
    /\ \/ Refuse(op, c)
       \/ op = "capabilities" /\ Capabilities(c)
       \/ op = "submit" /\ (SubmitLease(c) \/ SubmitRole(c))
       \/ op = "read-result" /\ ReadResult(c)
       \/ op = "cancel" /\ Cancel(c)
    /\ UNCHANGED now

\* A connection breaks before the agent has read the frame.
Lose(op, c) ==
    /\ "loss" \in Faults
    /\ <<op, c>> \in wire /\ wire' = wire \ {<<op, c>>}
    /\ Respond(op, c, "error")
    /\ UNCHANGED <<now, peer>>

\* The client's read gives up after MAX_CONTROL_OPERATION_SECONDS, on a handler
\* that takes as long as it does.
GiveUp ==
    /\ pc = "submit" /\ leg = "p" /\ reply = "none" /\ "p" \in waiting
    /\ "loss" \in Faults \/ ready = "never"
    /\ Respond("submit", "p", "error")
    /\ UNCHANGED <<now, wire, peer>>

-----------------------------------------------------------------------------
(* The roles of the peer.                                                  *)

RoleBinds ==
    /\ role["p"] = "created" /\ role' = [role EXCEPT !["p"] = "serving"]
    /\ ready' = "bound"
    /\ UNCHANGED <<now, client, wire, tables, waiting, restarts>>

\* The runner raises, before its listeners are bound or after it.
RoleFails ==
    /\ role["p"] \in {"created", "serving"} /\ role' = [role EXCEPT !["p"] = "failing"]
    /\ ready' = IF "p" \in waiting \/ role["p"] = "created" THEN "failed" ELSE ready
    /\ UNCHANGED <<now, client, wire, tables, waiting, restarts>>

\* The task of a role that has not begun to run cannot be started or recorded.
RoleNeverBegins ==
    /\ "unbegun" \in Faults
    /\ role["p"] = "created" /\ ready' = "never"
    /\ \/ role' = [role EXCEPT !["p"] = "stored"] /\ results' = results \cup {"p"}
       \/ role' = [role EXCEPT !["p"] = "raised"] /\ UNCHANGED results
    /\ UNCHANGED <<now, client, wire, owners, tabled, leases, waiting, restarts>>

\* _run_role, _run_coverage_sender: a result, or an exception.
RoleEnds(c) ==
    /\ role[c] \in {"serving", "failing"} \/ (c = "r" /\ role[c] = "created")
    /\ \/ role' = [role EXCEPT ![c] = "stored"] /\ results' = results \cup {c}
       \/ role' = [role EXCEPT ![c] = "raised"] /\ UNCHANGED results
    /\ UNCHANGED <<now, client, wire, owners, tabled, leases, ready, waiting, restarts>>

RoleCancelled(c) ==
    /\ role[c] = "cancelling" /\ role' = [role EXCEPT ![c] = "cancelled"]
    /\ UNCHANGED <<now, client, wire, tables, ready, waiting, restarts>>

\* Another process listens for the agent: nothing of all this is persistent.
Restart ==
    /\ restarts < MaxRestarts /\ restarts' = restarts + 1
    /\ owners' = {} /\ tabled' = {} /\ results' = {} /\ leases' = {}
    /\ role' = [c \in Corrs |-> "none"] /\ ready' = "unset" /\ waiting' = {}
    /\ reply' = IF "p" \in waiting /\ pc = "submit" /\ reply = "none" THEN "error" ELSE reply
    /\ UNCHANGED <<now, pc, leg, deadline, until, submitted, local, outcome, confirmed, wire>>

Tick == now < MaxTime /\ now' = now + 1 /\ UNCHANGED <<client, wire, peer>>

-----------------------------------------------------------------------------
Client ==
    \/ Capable \/ Submitted \/ Sent \/ Pending \/ Polled \/ Receipts \/ Opened
    \/ Result \/ Fails \/ TimesOut \/ Closed \/ Cancelled

Role(c) ==
    \/ RoleEnds(c) \/ RoleCancelled(c)
    \/ c = "p" /\ (RoleBinds \/ RoleFails \/ RoleNeverBegins)

Next ==
    \/ Tick \/ Client \/ Interrupt
    \/ \E op \in Ops, c \in Corrs : Handle(op, c) \/ Lose(op, c)
    \/ WaitReady \/ GiveUp \/ Restart
    \/ \E c \in Corrs : Role(c)

Spec == Init /\ [][Next]_vars

-----------------------------------------------------------------------------
(* Safety.                                                                 *)

Released(c) == c \notin tabled \cup results \cup leases /\ role[c] \notin Active

\* The client begins to send only when the peer has been listening, whatever
\* its role came to afterwards.
AcceptedIsReady == "p" \in submitted => ready = "bound" \/ restarts > 0

\* A cancel that was answered is final: the peer keeps nothing of the correlation,
\* and nothing that was under way brings something back.
ConfirmedIsReleased == \A c \in confirmed : Released(c)

\* Who is told to ask again has a role that is going on to wait for: no client
\* polls a peer that has lost or dropped its correlation.
PendingIsAlive ==
    [][reply # "pending" /\ reply' = "pending" => role[leg] \in Active]_vars

-----------------------------------------------------------------------------
(* Liveness.                                                               *)

\* The event loops run whoever is ready, frames arrive unless they are lost, and
\* roles and requests end with their own timeouts.
Fairness ==
    /\ WF_vars(Tick) /\ WF_vars(Client) /\ WF_vars(WaitReady) /\ WF_vars(GiveUp)
    /\ \A c \in Corrs : WF_vars(Role(c))
    /\ \A op \in Ops, c \in Corrs : WF_vars(Handle(op, c))

FairSpec == Spec /\ Fairness

\* The client comes back, and leaves no role and no handler running at the
\* peer, save one that waits for a role which never began.
ExchangeEnds ==
    <>[](/\ pc = "done"
         /\ \A c \in Corrs : role[c] \notin Active \cup {"cancelling"}
         /\ "p" \in waiting => ready = "never")

\* What 02-01-PLAN.md:155 asks of leases and cancellation: retained results are
\* released once the client of an accepted submit is over.
ResultsReleased == <>[](\A c \in submitted : Released(c))
=============================================================================
