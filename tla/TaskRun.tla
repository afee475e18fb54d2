------------------------------- MODULE TaskRun -------------------------------
(***************************************************************************)
(* From evidence to answer.  TaskContext says when a step is admitted and  *)
(* completed; this module adds what its probe answers (probes.py), what    *)
(* the context keeps of it under the output ceiling (tasks.py), how the    *)
(* end of the runner is recorded besides, and the answer that is built     *)
(* from both: of a pool of coroutines by _derive_conclusion, of a          *)
(* diagnosis of one endpoint, which one coroutine runs, by                 *)
(* classify_diagnosis (diagnosis.py).                                      *)
(*                                                                         *)
(* A step leaves one observation here.  The result is built and persisted  *)
(* without an await: it belongs to the action in which the runner ends.    *)
(***************************************************************************)
EXTENDS TaskContext

CONSTANTS
    Named, Port,      \* the endpoint of the diagnosis: a name or an address, and its port
    Addresses,        \* how many addresses the name resolved to, or the one given
    Shown,            \* bound: in a diagnosis or not, step -> the evidence told apart
    Ceiling,          \* max_output_bytes of a plan
    DiagnosisCeiling, \* max_output_bytes of a diagnosis
    Baseline,         \* bytes of a result without items
    Item, Refusal,    \* bytes of a positive observation, and of any other
    Note,             \* of a terminal observation
    Slip,             \* of an error
    Summary,          \* of the conclusion about the task
    Bounded,          \* bytes of the bounded result
    NoAnswer          \* the task has not been answered

\* submit() refuses a plan whose ceiling cannot hold the bounded result, as it
\* is before anything is admitted.  (The digits of a later progress are left out.)
ASSUME BoundedAssumption == Bounded =< Ceiling /\ Bounded =< DiagnosisCeiling
ASSUME SizeAssumption ==
    /\ {Ceiling, DiagnosisCeiling, Baseline, Item, Refusal, Note, Slip, Summary, Bounded} \subseteq Nat
    /\ Item =< Refusal
\* preview_probe_plan reserves what each step may leave and an envelope for the
\* rest, and refuses a plan that reserves more than its ceiling.
ASSUME DiagnosisAssumption ==
    Baseline + NSteps * Refusal + 2 * Note + 3 * Slip =< DiagnosisCeiling
ASSUME EndpointAssumption ==
    Named \in BOOLEAN /\ {Port, Addresses} \subseteq Nat /\ (Named \/ Addresses = 1)

VARIABLES
    diagnosis,  \* the task was submitted by submit_diagnosis
    found,      \* step -> its observation in _observations
    used,       \* bytes of _collection_output_bytes
    answer      \* the TaskResult

trail   == <<diagnosis, found, used, answer>>
runVars == <<vars, trail>>

-----------------------------------------------------------------------------
(* What probes answer.                                                     *)

\* _failure: what an exception of a socket is taken for.
Failures(udp) ==
    {<<"timeout", "inconclusive">>, <<"tcp_reset", "negative">>,
     <<"network_unreachable", "negative">>, <<"host_unreachable", "negative">>,
     <<"execution_error", "error">>,
     <<IF udp THEN "icmp_unreachable" ELSE "tcp_refused", "negative">>}

\* A snapshot leaves many observations; one stands for them: an up interface
\* with an address and a default route is "local_fact", and anything else what
\* could not be found or listed.
LocalAnswers ==
    {<<"local_fact", "positive">>, <<"unsupported", "unavailable">>,
     <<"execution_error", "error">>}

DnsAnswers ==
    {<<"dns_answer", "positive">>, <<"dns_failure", "negative">>,
     <<"dns_failure", "inconclusive">>, <<"dns_failure", "error">>,
     <<"timeout", "inconclusive">>, <<"execution_error", "error">>}

TcpAnswers == {<<"tcp_connected", "positive">>} \cup Failures(FALSE)

\* Silence is told apart from a timeout before _failure is asked.
UdpAnswers ==
    {<<"udp_application_reply", "positive">>, <<"silent", "inconclusive">>}
       \cup (Failures(TRUE) \ {<<"timeout", "inconclusive">>})

TlsFailures ==
    {<<"tls_verification_failed", "negative">>, <<"tls_handshake_failed", "negative">>}
       \cup Failures(FALSE)
TlsAnswers  == {<<"tls_handshake", "positive">>} \cup TlsFailures
HttpAnswers == {<<"http_response", "positive">>} \cup TlsFailures

\* The trace of a route: its last word on a step.
PathAnswers ==
    {<<"path_complete", "positive">>, <<"path_incomplete", "inconclusive">>,
     <<"unsupported", "unavailable">>, <<"permission_denied", "unavailable">>,
     <<"timeout", "inconclusive">>, <<"execution_error", "error">>}

\* A port of a native scan: its state, or what kept nmap from telling.
ScanAnswers ==
    {<<"native_port_state", d>> : d \in {"positive", "negative", "inconclusive"}}
       \cup {<<"unsupported", "unavailable">>, <<"permission_denied", "unavailable">>,
             <<"timeout", "inconclusive">>, <<"silent", "inconclusive">>,
             <<"execution_error", "error">>}

Answers == [local_snapshot |-> LocalAnswers, system_dns |-> DnsAnswers,
            tcp_connect |-> TcpAnswers, udp_exchange |-> UdpAnswers,
            tls_handshake |-> TlsAnswers, http_exchange |-> HttpAnswers,
            native_path |-> PathAnswers, native_port_scan |-> ScanAnswers]
ProbeKinds == DOMAIN Answers

\* _ALLOWED_EVIDENCE: what the context accepts for a step of each kind.
Unreachable == {"network_unreachable", "host_unreachable"}
Unavailable == {"unsupported", "permission_denied"}
Received    == {"peer_observed_arrival", "peer_acknowledgement", "dns_query"}
Broken      == {"tcp_refused", "tcp_reset", "timeout", "execution_error"} \cup Unreachable
Allowed ==
    [local_snapshot   |-> {"local_fact", "execution_error"} \cup Unavailable,
     system_dns       |-> {"dns_answer", "dns_failure", "timeout", "execution_error"},
     tcp_connect      |-> {"tcp_connected", "admin_prohibited", "silent", "ssh_banner"}
                             \cup Broken \cup Received,
     udp_exchange     |-> {"udp_application_reply", "icmp_unreachable", "admin_prohibited",
                           "timeout", "silent", "execution_error"} \cup Received \cup Unreachable,
     tls_handshake    |-> {"tls_handshake", "tls_verification_failed", "tls_handshake_failed"}
                             \cup Broken,
     http_exchange    |-> {"http_response", "tls_verification_failed", "tls_handshake_failed"}
                             \cup Broken,
     native_path      |-> {"path_hop", "path_hop_unanswered", "path_complete", "path_incomplete",
                           "timeout", "execution_error"} \cup Unavailable,
     native_port_scan |-> {"native_port_state", "timeout", "silent", "execution_error"}
                             \cup Unavailable]

Kind(e)        == e[1]
Disposition(e) == e[2]
Evidence == UNION {Answers[k] : k \in ProbeKinds}

-----------------------------------------------------------------------------
(* The plan of a diagnosis.                                                *)

\* _required_groups, for one endpoint: what a healthy one must have shown.
RequiredKinds ==
    {"tcp_connect"} \cup (IF Named THEN {"system_dns"} ELSE {})
       \cup (IF Port = 443 THEN {"tls_handshake", "http_exchange"}
             ELSE IF Port = 80 THEN {"http_exchange"} ELSE {})

\* compile_diagnosis: the snapshot first, then layer by layer, address by address.
CompiledKinds ==
    <<"local_snapshot">>
       \o (IF Named THEN <<"system_dns">> ELSE << >>)
       \o [i \in 1..Addresses |-> "tcp_connect"]
       \o (IF Port = 443
           THEN [i \in 1..(2 * Addresses) |-> IF i % 2 = 1 THEN "tls_handshake" ELSE "http_exchange"]
           ELSE [i \in 1..(IF Port = 80 THEN Addresses ELSE 0) |-> "http_exchange"])

\* The pool of a full discovery only connects.
KindOf(s) == IF diagnosis THEN CompiledKinds[s] ELSE "tcp_connect"

\* The plan modelled is that of the endpoint.
ASSUME CompiledAssumption == CompiledKinds \in [Steps -> ProbeKinds]

-----------------------------------------------------------------------------
(* What the context keeps.                                                 *)

Limit   == IF diagnosis THEN DiagnosisCeiling ELSE Ceiling
Size(e) == IF Disposition(e) = "positive" THEN Item ELSE Refusal

\* _reserve_output_item.
Fits(bytes) == Baseline + bytes =< Limit

\* A step's observation is in the list and counted before the history is
\* asked for its event; what the context or the probe refuses leaves nothing.
RunProbed(w) ==
    /\ Probed(w)
    /\ LET s == worker[w].step IN
       \/ /\ count' = count + 1
          /\ \E e \in Answers[KindOf(s)] :
                /\ Kind(e) \in Allowed[KindOf(s)] \cap Shown[diagnosis][s]
                /\ Fits(used + Size(e))
                /\ found' = [r \in DOMAIN found \cup {s} |-> IF r = s THEN e ELSE found[r]]
                /\ used' = used + Size(e)
       \/ count' = count /\ UNCHANGED <<found, used>>
    /\ UNCHANGED <<diagnosis, answer>>

-----------------------------------------------------------------------------
(* What the end of the runner adds to it.  A record stands for the context *)
(* while one event of the loop finalises the task.                         *)

Context == [used |-> used, count |-> count, ends |-> {}]

\* add_error: kept if it fits.
Told(c) == IF Fits(c.used + Slip) THEN [c EXCEPT !.used = @ + Slip] ELSE c

\* The observation takes its bytes and an event.
Noted(c, what) == [used |-> c.used + Note, count |-> c.count + 1, ends |-> c.ends \cup {what}]

\* A variant to be refuted: the observation is kept only with its event.
Ended_onlyLogged(c, what, logged) ==
    IF logged /\ c.count + 2 =< MaxEvents /\ Fits(c.used + Note)
    THEN Noted(c, what)
    ELSE Told(c)

\* _record_terminal_observation: kept if the budgets allow it, even if the
\* history then does not log it; what goes wrong becomes an error.
Ended(c, what, logged) ==
    IF c.count + 2 =< MaxEvents /\ Fits(c.used + Note)
    THEN IF logged THEN Noted(c, what) ELSE Told(Noted(c, what))
    ELSE Told(c)

EndedByCancel(logged) == Ended(Context, "task-cancelled", logged)

\* A timeout or an exception, and a cancellation besides.
EndedBy(what, logged) ==
    LET failed == Ended(Told(Context), what, logged)
    IN IF token THEN Ended(failed, "task-cancelled", logged) ELSE failed

-----------------------------------------------------------------------------
(* The answer.                                                             *)

Says(state, health, size) ==
    [state |-> state, health |-> health, size |-> size, kept |-> DOMAIN found]

\* _output_budget_result.
BoundedAnswer == [state |-> "failed", health |-> "failed", size |-> Bounded, kept |-> {}]

\* A variant to be refuted: the result is not measured again with its conclusion.
Measured_never(full) == full

\* A variant to be refuted: the bounded result keeps the state.
Measured_sameState(full) ==
    IF full.size =< Limit THEN full ELSE [BoundedAnswer EXCEPT !.state = full.state]

Measured(full) == IF full.size =< Limit THEN full ELSE BoundedAnswer

Dispositions(c) ==
    {Disposition(found[s]) : s \in DOMAIN found}
       \cup {[x \in {"task-cancelled", "task-timeout", "task-execution-error"} |->
               IF x = "task-cancelled" THEN "cancelled"
               ELSE IF x = "task-timeout" THEN "inconclusive" ELSE "error"][what] : what \in c.ends}

\* _derive_conclusion.
Derived(c, state) ==
    IF state = "failed" THEN "failed"
    ELSE IF state = "cancelled" THEN "partial"
    ELSE IF Dispositions(c) = {"positive"} THEN "healthy"
    ELSE IF "inconclusive" \in Dispositions(c) THEN "partial"
    ELSE IF "negative" \in Dispositions(c) THEN "failed"
    ELSE "partial"

\* _local_prerequisites.
Prerequisites == \E s \in DOMAIN found : Kind(found[s]) = "local_fact"

\* The observations of a required group.
Group(k) == {Disposition(found[s]) : s \in {r \in DOMAIN found : KindOf(r) = k}}

Lifecycle(c) == c.ends # {}

\* classify_diagnosis.
Classified(c) ==
    LET groups == {Group(k) : k \in RequiredKinds}
        shown  == UNION groups
    IN  IF Lifecycle(c) THEN "partial"
        ELSE IF Prerequisites /\ \A g \in groups : g = {"positive"} THEN "healthy"
        ELSE IF {} \notin groups /\ "positive" \notin shown /\ shown \cap {"negative", "error"} # {}
             THEN "failed"
        ELSE "partial"

Nothing(c) == DOMAIN found = {} /\ c.ends = {}

\* _finalization_failure_result: what was found, and why it is not enough.
Unfinalised(c) ==
    Measured(Says("failed", "failed", Baseline + c.used + Note + Slip + Summary))

\* _terminal_result; a diagnosis is not classified without any evidence.
Result(c, state) ==
    IF ~Nothing(c)
    THEN Measured(Says(state, IF diagnosis THEN Classified(c) ELSE Derived(c, state),
                       Baseline + c.used + Summary))
    ELSE IF diagnosis THEN Unfinalised(c)
    ELSE Measured(Says(state, "none", Baseline + c.used))

\* The history takes the result; or only, in its place, a failed one; or none
\* at all, and the caller is handed the exception.
Answered(c, state) ==
    /\ used' = c.used /\ count' = c.count
    /\ answer' \in {Result(c, state), Unfinalised(c), NoAnswer}
    /\ UNCHANGED <<diagnosis, found>>

-----------------------------------------------------------------------------
RunInit ==
    /\ Init
    /\ diagnosis \in BOOLEAN
    /\ diagnosis => \E w \in Workers : worker = Started({w})
    /\ found = << >> /\ used = 0
    /\ answer = NoAnswer

RunCancelTask ==
    /\ CancelTask
    /\ \E logged \in BOOLEAN : Answered(EndedByCancel(logged), "cancelled")

RunTimesOut ==
    /\ TimesOut
    /\ \E logged \in BOOLEAN : Answered(EndedBy("task-timeout", logged), "failed")

RunnerRaised ==
    /\ RunnerRaises
    /\ \E logged \in BOOLEAN :
       \/ /\ verdict' = "cancelled"
          /\ Answered(EndedByCancel(logged), "cancelled")
       \/ /\ verdict' = "failed" /\ ~At(raised, "cancelled")
          /\ Answered(EndedBy("task-execution-error", logged), "failed")
       \/ /\ verdict' = "failed" /\ now >= Duration
          /\ Answered(EndedBy("task-timeout", logged), "failed")

RunnerReturned ==
    /\ RunnerReturns
    /\ \E logged \in BOOLEAN :
       \/ /\ verdict' = "completed"
          /\ Answered(Context, "completed")
       \/ /\ verdict' = "cancelled"
          /\ Answered(EndedByCancel(logged), "cancelled")
       \/ /\ verdict' = "failed"
          /\ Answered(EndedBy("task-execution-error", logged), "failed")

\* What the context and the answer have no part in.
Elsewhere(w) ==
    Take(w) \/ Finish(w) \/ Preflight(w) \/ Resolved(w) \/ Interrupted(w)
       \/ TimerFires(w) \/ Resumes(w)

RunCoroutine(w) == RunProbed(w) \/ (Elsewhere(w) /\ UNCHANGED trail)

RunNext ==
    \/ (Tick \/ Cancel \/ Teardown) /\ UNCHANGED trail
    \/ RunCancelTask \/ RunTimesOut \/ RunnerRaised \/ RunnerReturned
    \/ \E w \in Workers : RunCoroutine(w)

RunSpec == RunInit /\ [][RunNext]_runVars

RunFairness ==
    /\ WF_runVars(Tick /\ UNCHANGED trail) /\ WF_runVars(RunTimesOut)
    /\ WF_runVars(RunnerRaised) /\ WF_runVars(RunnerReturned)
    /\ \A w \in Workers : WF_runVars(RunCoroutine(w))

FairRunSpec == RunSpec /\ RunFairness

-----------------------------------------------------------------------------
TaskResults ==
    [state: {"completed", "failed", "cancelled"}, health: {"none", "healthy", "partial", "failed"},
     size: Nat, kept: SUBSET Steps]

\* What a task has done, kept and answered is of the declared types; the event
\* count stays within the plan's budget whatever records what.
RunTypeOK ==
    /\ TypeOK
    /\ diagnosis \in BOOLEAN
    /\ DOMAIN found \subseteq Steps /\ found \in [DOMAIN found -> Evidence]
    /\ used \in Nat
    /\ answer \in TaskResults \cup {NoAnswer}

\* No answer is larger than its plan allows, whatever was kept before the
\* runner ended and whatever its end added.
AnswerFits == answer # NoAnswer => answer.size =< Limit

\* "completed" is answered only with the evidence of every step.  Any other
\* answer still has the evidence of every step that was completed before it,
\* unless it is the bounded one, which says failed.
AnswerIsWhole ==
    [][answer = NoAnswer /\ answer' # NoAnswer =>
          \/ answer'.state = "completed" /\ answer'.kept = Steps
          \/ answer'.state # "completed" /\ completed \subseteq answer'.kept
          \/ answer' = BoundedAnswer]_runVars

\* A diagnosis is called healthy only if its task was neither cancelled nor
\* failed and every step was completed with its evidence in the history: the
\* classifier does not see the state, only what the end of the runner left
\* among the observations, and that must be there whenever it is needed.
HealthyIsWhole ==
    answer # NoAnswer /\ answer.health = "healthy" =>
       answer.state = "completed" /\ observed = Steps /\ completed = Steps
=============================================================================
