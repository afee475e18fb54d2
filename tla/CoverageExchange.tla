--------------------------- MODULE CoverageExchange ---------------------------
(***************************************************************************)
(* A coverage assessment of two peers (src/mercury/paired.py): for each    *)
(* direction in turn, receivers open for a while at one end               *)
(* (CoverageLease), a sender role at the other end sends what every        *)
(* profile prescribes, the receipts are fetched, and the evidence of both  *)
(* ends becomes one row per profile and direction (coverage_matrix).       *)
(*                                                                         *)
(* The network is a path per direction and profile that the program does   *)
(* not know.  Time is what may happen next: a receiver's window closes, a   *)
(* send's timer fires, the duration of the role is over.  profiles of the   *)
(* local link (arp, ipv6_nd) and icmp_echo send nothing to a receiver and   *)
(* are left out.                                                           *)
(***************************************************************************)
CONSTANTS
    Requests,   \* sets of known profiles a request may select, tcp_tagged with tcp_connect
    Mixed,      \* bound: directions whose profiles have paths of different kinds
    Posix       \* directions whose sender runs on POSIX

Forward == "A-to-B"
Reverse == "B-to-A"
Directions == {Forward, Reverse}

\* The receiver answers what it has recorded, and the sender reads the answer.
Acked == {"tcp_tagged", "udp_tagged", "dns_udp", "dns_tcp", "http_exchange"}
\* The profiles that send to a receiver.
Known == Acked \cup {"tcp_connect", "ssh_banner", "tls_handshake"}
Udp == {"udp_tagged", "dns_udp"}
Streamed == Known \ Udp
\* Their last wait is bounded by step.timeout_s.
Timed == Known \ {"tcp_connect", "dns_tcp", "tls_handshake"}

\* tcp_connect uses the receiver of tcp_tagged.
ReceiverOf(p) == IF p = "tcp_connect" THEN "tcp_tagged" ELSE p

\* What becomes of a send's traffic: it passes; all of it is dropped; what comes
\* back is dropped; it is refused; something accepts it and then closes it.
Kinds == {"open", "silent", "deaf", "refusing", "cutting"}

VARIABLES
    profiles,   \* those of the request
    path,       \* direction -> profile -> how the network treats it
    phase,      \* where the coordinator is
    role,       \* direction -> its sender role
    sender,     \* direction -> profile -> its send: at work, or its evidence
    windows,    \* direction -> receivers that are open
    arriving,   \* direction -> sends the receiver has yet to record
    receipts,   \* direction -> profiles the receiver has recorded
    taken,      \* direction -> profiles of the receipts that were fetched
    late        \* direction -> profiles still to be connected when their window closed

ends == <<windows, arriving, receipts, late>>
vars == <<profiles, path, phase, role, sender, ends, taken>>

Receivers == profiles \ {"tcp_connect"}
Unsent   == {"idle", "connecting", "exchanging"}
Evidence == {"TCP_CONNECTED", "PEER_ACKNOWLEDGEMENT", "DNS_QUERY", "HTTP_RESPONSE",
             "SSH_BANNER", "TLS_HANDSHAKE", "TIMEOUT", "TCP_REFUSED", "EXECUTION_ERROR"}

TypeOK ==
    /\ profiles \in Requests
    /\ path \in [Directions -> [profiles -> Kinds]]
    /\ phase \in {Forward, "polling", Reverse, "done", "failed"}
    /\ role \in [Directions -> {"waiting", "running", "completed", "failed"}]
    /\ sender \in [Directions -> [profiles -> Unsent \cup Evidence \cup {"raised", "abandoned"}]]
    /\ windows \in [Directions -> SUBSET Receivers]
    /\ arriving \in [Directions -> SUBSET Receivers]
    /\ receipts \in [Directions -> SUBSET Receivers]
    /\ taken \in [Directions -> SUBSET Receivers]
    /\ late \in [Directions -> SUBSET profiles]

\* The peer has admitted the forward lease, and the local sender starts.
Init ==
    /\ profiles \in Requests
    /\ path \in [Directions -> [profiles -> Kinds]]
    /\ \A d \in Directions \ Mixed, p, q \in profiles : path[d][p] = path[d][q]
    /\ phase = Forward
    /\ role = [d \in Directions |-> IF d = Forward THEN "running" ELSE "waiting"]
    /\ sender = [d \in Directions |-> [p \in profiles |-> "idle"]]
    /\ windows = [d \in Directions |-> IF d = Forward THEN Receivers ELSE {}]
    /\ arriving = [d \in Directions |-> {}]
    /\ receipts = [d \in Directions |-> {}]
    /\ taken = [d \in Directions |-> {}]
    /\ late = [d \in Directions |-> {}]

-----------------------------------------------------------------------------
(* The sender role: ConfiguredCoverageExecutor.                            *)

Open(d, p) == ReceiverOf(p) \in windows[d]

\* Positive evidence of a profile.
Proof(p) ==
    CASE p = "tcp_connect" -> "TCP_CONNECTED"
      [] p \in {"tcp_tagged", "udp_tagged"} -> "PEER_ACKNOWLEDGEMENT"
      [] p \in {"dns_udp", "dns_tcp"} -> "DNS_QUERY"
      [] p = "http_exchange" -> "HTTP_RESPONSE"
      [] p = "ssh_banner" -> "SSH_BANNER"
      [] p = "tls_handshake" -> "TLS_HANDSHAKE"

\* A send records its evidence, if the role is still there to take it; the last
\* one completes the role.
Records(d, p, kind) ==
    LET is == [sender[d] EXCEPT ![p] = IF role[d] = "running" THEN kind ELSE "abandoned"]
    IN  /\ sender' = [sender EXCEPT ![d] = is]
        /\ role' = IF role[d] = "running" /\ \A q \in profiles : is[q] \in Evidence
                   THEN [role EXCEPT ![d] = "completed"] ELSE role

\* An exception no clause of _send takes ends the role by way of gather, which
\* leaves the other sends to themselves.
Raises(d, p) ==
    /\ sender' = [sender EXCEPT ![d][p] = "raised"]
    /\ role' = IF role[d] = "running" THEN [role EXCEPT ![d] = "failed"] ELSE role

Moves(d, p, to) == sender' = [sender EXCEPT ![d][p] = to] /\ UNCHANGED role

\* admit(): a datagram is sent at once, a connection has to be made first.
Admit(d, p) ==
    /\ sender[d][p] = "idle"
    /\ Moves(d, p, IF p \in Udp THEN "exchanging" ELSE "connecting")
    /\ UNCHANGED <<profiles, path, phase, ends, taken>>

\* open_connection returns; it has no timer of its own.  For TLS it includes
\* the handshake, after which the receiver has nothing to read.
Connected(d, p) ==
    /\ sender[d][p] = "connecting"
    /\ \/ path[d][p] = "cutting"
       \/ path[d][p] \in {"open", "deaf"} /\ Open(d, p)
    /\ CASE p = "tcp_connect" -> Records(d, p, Proof(p)) /\ UNCHANGED ends
         [] p = "tls_handshake" ->
               /\ path[d][p] = "open" /\ Records(d, p, Proof(p))
               /\ arriving' = [arriving EXCEPT ![d] = @ \cup {p}]
               /\ UNCHANGED <<windows, receipts, late>>
         [] OTHER -> Moves(d, p, "exchanging") /\ UNCHANGED ends
    /\ UNCHANGED <<profiles, path, phase, taken>>

\* ECONNREFUSED: something on the way refuses, or nobody listens any more.
IsRefused(d, p) ==
    /\ sender[d][p] = "connecting"
    /\ \/ path[d][p] = "refusing"
       \/ path[d][p] \in {"open", "deaf"} /\ ~Open(d, p)
    /\ Records(d, p, "TCP_REFUSED")
    /\ UNCHANGED <<profiles, path, phase, ends, taken>>

\* The system gives a connection up: on Windows within a role's duration.
ConnectTimesOut(d, p) ==
    /\ sender[d][p] = "connecting" /\ path[d][p] = "silent" /\ d \notin Posix
    /\ Records(d, p, "TIMEOUT")
    /\ UNCHANGED <<profiles, path, phase, ends, taken>>

\* A variant to be refuted: no answer is a refusal.
TimesOut_refused(d, p) ==
    /\ sender[d][p] = "exchanging" /\ p \in Timed
    /\ Records(d, p, "TCP_REFUSED")
    /\ UNCHANGED <<profiles, path, phase, ends, taken>>

TimesOut(d, p) ==
    /\ sender[d][p] = "exchanging" /\ p \in Timed
    /\ Records(d, p, "TIMEOUT")
    /\ UNCHANGED <<profiles, path, phase, ends, taken>>

\* The answer is read; ssh_banner sends its own line after it.
Answered(d, p) ==
    /\ sender[d][p] = "exchanging" /\ path[d][p] = "open"
    /\ IF p \in Acked THEN p \in receipts[d] /\ UNCHANGED arriving
                      ELSE arriving' = [arriving EXCEPT ![d] = @ \cup {p}]
    /\ Records(d, p, Proof(p))
    /\ UNCHANGED <<profiles, path, phase, windows, receipts, late, taken>>

\* A connection is reset, or closed before the answer: by something on the way,
\* or by the receiver, which finds its lease or the wait for the tag over.
\* readexactly and readuntil raise IncompleteReadError.  An end within a banner
\* or a handshake is an OSError without errno, and _paired_socket_failure then
\* takes its winerror, which is an AttributeError on POSIX.
Cut(d, p) ==
    /\ p \in Streamed
    /\ \/ sender[d][p] = "exchanging"
       \/ sender[d][p] = "connecting" /\ p = "tls_handshake"
    /\ \/ path[d][p] = "cutting"
       \/ path[d][p] = "open" /\ ~Open(d, p) /\ p \notin receipts[d]
    /\ \/ Records(d, p, "EXECUTION_ERROR")
       \/ (p \in Acked \/ d \in Posix) /\ Raises(d, p)
    /\ UNCHANGED <<profiles, path, phase, ends, taken>>

\* Sends of the role that are not over.
Lasting(d) == {p \in profiles : sender[d][p] \in Unsent}

\* A variant to be refuted: the deadline is not looked at while a connection is made.
DurationOver_exchanging(d) ==
    /\ role[d] = "running" /\ Lasting(d) # {} /\ Lasting(d) \subseteq Streamed
    /\ \A p \in Lasting(d) : sender[d][p] = "exchanging"
    /\ role' = [role EXCEPT ![d] = "failed"]
    /\ UNCHANGED <<profiles, path, phase, sender, ends, taken>>

\* The deadline of the task cancels the role and its sends.  It is later than
\* the last admission and timeout_s together: only a connection is still made,
\* or was made late, or is read without a timer.
DurationOver(d) ==
    /\ role[d] = "running" /\ Lasting(d) # {} /\ Lasting(d) \subseteq Streamed
    /\ \A p \in Lasting(d) : sender[d][p] # "idle"
    /\ role' = [role EXCEPT ![d] = "failed"]
    /\ sender' = [sender EXCEPT ![d] =
          [p \in profiles |-> IF p \in Lasting(d) THEN "abandoned" ELSE @[p]]]
    /\ UNCHANGED <<profiles, path, phase, ends, taken>>

-----------------------------------------------------------------------------
(* The receivers: CoverageReceiverService.                                 *)

\* What was sent arrives, and is answered and recorded in one step of the loop;
\* a handler of a connection goes on after the lease, a datagram comes in vain.
Arrives(d, p) ==
    /\ p \in Acked \ receipts[d] /\ sender[d][p] \in {"exchanging", "TIMEOUT"}
    /\ path[d][p] \in {"open", "deaf"}
    /\ p \in Udp => Open(d, p)
    /\ receipts' = [receipts EXCEPT ![d] = @ \cup {p}]
    /\ UNCHANGED <<profiles, path, phase, role, sender, windows, arriving, late, taken>>

\* A banner's answer or a finished handshake reaches the handler.
Recorded(d, p) ==
    /\ p \in arriving[d]
    /\ arriving' = [arriving EXCEPT ![d] = @ \ {p}]
    /\ receipts' = [receipts EXCEPT ![d] = @ \cup {p}]
    /\ UNCHANGED <<profiles, path, phase, role, sender, windows, late, taken>>

\* Sends of a receiver that have no connection yet.
Unconnected(d, r) ==
    {p \in profiles : ReceiverOf(p) = r /\ sender[d][p] \in {"idle", "connecting"}}

\* Every window starts with the lease and sends are admitted at a rate: a window closes
\* whether or not its sends have been made.
Expire(d, r) ==
    /\ r \in windows[d]
    /\ windows' = [windows EXCEPT ![d] = @ \ {r}]
    /\ late' = [late EXCEPT ![d] = @ \cup Unconnected(d, r)]
    /\ UNCHANGED <<profiles, path, phase, role, sender, arriving, receipts, taken>>

-----------------------------------------------------------------------------
(* The coordinator: AuthenticatedCoverageRunner._run_assessment.           *)

Over(d) == role[d] \in {"completed", "failed"}

\* The second direction: the local receivers are open, and the peer sends.
Turns ==
    /\ phase' = Reverse
    /\ windows' = [windows EXCEPT ![Reverse] = Receivers]
    /\ role' = [role EXCEPT ![Reverse] = "running"]

\* A variant to be refuted: the receipts are fetched while the role sends.
ReadReceipts_early ==
    /\ phase \in {Forward, "polling"}
    /\ taken' = [taken EXCEPT ![Forward] = receipts[Forward]]
    /\ IF receipts[Forward] = Receivers
       THEN Turns
       ELSE phase' = "polling" /\ UNCHANGED <<windows, role>>
    /\ UNCHANGED <<profiles, path, sender, arriving, receipts, late>>

\* _read_receipts, once the local role is over: until all are there ...
ReadReceipts ==
    /\ \/ phase = Forward /\ Over(Forward)
       \/ phase = "polling"
    /\ taken' = [taken EXCEPT ![Forward] = receipts[Forward]]
    /\ IF receipts[Forward] = Receivers
       THEN Turns
       ELSE phase' = "polling" /\ UNCHANGED <<windows, role>>
    /\ UNCHANGED <<profiles, path, sender, arriving, receipts, late>>

\* ... or the lease was over when the last answer came.
StopReading ==
    /\ phase = "polling" /\ windows[Forward] = {}
    /\ Turns
    /\ UNCHANGED <<profiles, path, sender, arriving, receipts, late, taken>>

\* The peer's result is there, and the receipts are at hand.
Conclude ==
    /\ phase = Reverse /\ Over(Reverse)
    /\ taken' = [taken EXCEPT ![Reverse] = receipts[Reverse]]
    /\ phase' = "done"
    /\ UNCHANGED <<profiles, path, role, sender, ends>>

\* A request of the control channel fails, or the assessment's time is over.
GivesUp ==
    /\ phase \notin {"done", "failed"} /\ phase' = "failed"
    /\ UNCHANGED <<profiles, path, role, sender, ends, taken>>

\* What is sent of a direction after its receipts were taken is never read.
Working(d) == phase = d \/ (phase = "polling" /\ d = Forward)

Send(d, p) ==
    \/ Admit(d, p) \/ Connected(d, p) \/ IsRefused(d, p) \/ ConnectTimesOut(d, p)
    \/ TimesOut(d, p) \/ Answered(d, p) \/ Cut(d, p)

Coordinate == ReadReceipts \/ StopReading \/ Conclude

Next ==
    \/ \E d \in Directions :
          /\ Working(d)
          /\ \/ \E p \in profiles : Send(d, p) \/ Arrives(d, p) \/ Recorded(d, p) \/ Expire(d, p)
             \/ DurationOver(d)
    \/ Coordinate
    \/ GivesUp

\* What comes by itself in the direction that is under way.
Deadline(d) == Working(d) /\ DurationOver(d)
Timer(d, p) == p \in profiles /\ Working(d) /\ (Admit(d, p) \/ TimesOut(d, p))
Lapse(d, p) == p \in profiles /\ Working(d) /\ Expire(d, p)

\* The event loops of both ends run what is ready, timers fire, and leases and
\* the role's duration end.  The network promises nothing.
Fairness ==
    /\ WF_vars(Coordinate)
    /\ \A d \in Directions :
          /\ WF_vars(Deadline(d))
          /\ \A p \in Known : WF_vars(Timer(d, p)) /\ WF_vars(Lapse(d, p))

Spec == Init /\ [][Next]_vars
FairSpec == Spec /\ Fairness

-----------------------------------------------------------------------------
(* The matrix: coverage_matrix, of what _combine_coverage_results joins.   *)

Seen(d, p) ==
    ({sender[d][p]} \cap Evidence)
    \cup (IF p \in taken[d] THEN {"PEER_OBSERVED_ARRIVAL"} ELSE {})

Positive == {"PEER_OBSERVED_ARRIVAL"} \cup {Proof(p) : p \in Known}

\* _coverage_outcome.
Row(d, p) ==
    CASE Seen(d, p) \cap Positive # {} -> "candidate_carrier"
      [] "TIMEOUT" \in Seen(d, p) -> "inconclusive_silence_or_timeout"
      [] Seen(d, p) \cap {"TCP_REFUSED"} # {} -> "direct_negative"
      [] OTHER -> "skipped"

-----------------------------------------------------------------------------
(* Safety.                                                                 *)

\* A row says of the path what it may, whatever timers, losses and failures of other
\* profiles came between.  A candidate is a path on which requests get through, or for a
\* bare connection are accepted.  A negative one refuses them, unless the connection was
\* still to be made when the receiver's window closed (coverage_matrix).
RowsTellThePath ==
    phase = "done" =>
       \A d \in Directions, p \in profiles :
          /\ Row(d, p) = "candidate_carrier" =>
                path[d][p] \in {"open", "deaf"} \cup (IF p = "tcp_connect" THEN {"cutting"} ELSE {})
          /\ Row(d, p) = "direct_negative" => path[d][p] = "refusing" \/ p \in late[d]

\* That nobody receives any more is a gap and no negative result: a row is negative only
\* when the path refuses.  Nothing in the code keeps a window open until its send.
NegativeIsOfThePath ==
    phase = "done" =>
       \A d \in Directions, p \in profiles :
          Row(d, p) = "direct_negative" => path[d][p] = "refusing"

\* An acknowledgement the sender has seen is matched by the peer's receipt: the
\* coordinator does not fetch the receipts too early.
AckHasReceipt ==
    phase = "done" =>
       \A d \in Directions : \A p \in Acked \cap profiles :
          sender[d][p] = Proof(p) => p \in taken[d]

-----------------------------------------------------------------------------
(* Liveness.                                                               *)

\* An assessment comes to an end although connections have no timer and the
\* network may swallow everything.
AssessmentEnds == <>(phase \in {"done", "failed"})
=============================================================================
