------------------------------ MODULE ProbePlan ------------------------------
(***************************************************************************)
(* From a request to a socket.  A request is compiled into an immutable    *)
(* preview, the operator sees it, an authorization binds it to a scope     *)
(* that expires, the service validates it again, and each step is checked  *)
(* once more against what DNS answers by then (src/mercury/planner.py and  *)
(* policy.py, with the compilers of trace.py, profiles.py, discovery.py    *)
(* and paired.py).                                                         *)
(*                                                                         *)
(* There are two compilers: preview_plan multiplies targets, ports,        *)
(* transports and repeats, preview_probe_plan takes a list of specs.  An   *)
(* authorization compiles the preview again and compares the two.          *)
(*                                                                         *)
(* Identifiers and digests are what they are hashes of.  The order of      *)
(* steps, which each compiler keeps, and timeouts are left out; addresses  *)
(* are numbers, ordered as policy.py orders them.                          *)
(***************************************************************************)
EXTENDS Integers, Sequences, FiniteSetsExt

CONSTANTS
    Sources,      \* the interfaces in use, of Interfaces
    Profiles,     \* the coverage profiles in use, of CoverageProfiles
    Addresses,    \* numbers, the greater address the greater number
    TextRank,     \* address -> the place of its text among the texts
    Loopback,     \* the addresses of 127.0.0.0/8
    Network,      \* the addresses of the operator's network
    Peer,         \* address of the configured peer, of Network
    Answers,      \* the sets of addresses a name may resolve to
    AllPorts,     \* stands for 1..65535
    Window,       \* a quarter of an hour
    MaxAttempts,  \* BudgetLimits.max_attempts
    MaxHosts,     \* BudgetLimits.max_hosts
    Envelope,     \* result_envelope_upper_bound of a plan, in bytes
    MaxTime,      \* bound of the clock
    MaxShown,     \* bound of the previews the operator is shown
    None

Interfaces == {"plan", "discover", "trace", "map", "diagnose", "paired", "coverage",
               "assessment"}
CoverageProfiles == {"tcp_connect", "tcp_tagged", "udp_tagged", "http_exchange", "icmp_echo"}

ASSUME PlanAssumption ==
    /\ Addresses \subseteq Nat /\ Loopback \subseteq Addresses /\ Network \subseteq Addresses
    /\ Peer \in Network /\ Answers \subseteq SUBSET Addresses
    /\ Window \in Nat \ {0} /\ MaxTime \in Nat 
    /\ Sources \subseteq Interfaces /\ Profiles \subseteq CoverageProfiles

VARIABLES
    now,      \* the wall clock
    dns,      \* hostname -> the addresses it resolves to
    preview,  \* the preview the last invocation compiled, or None
    shown,    \* the previews whose phrases the operator has seen
    plan,     \* the authorized plan, or None
    asked,    \* the step in admission, since when and with which answer, or None
    opened    \* the step that the last admission has let through to its socket, or None

vars == <<now, dns, preview, shown, plan, asked, opened>>

------------------------------------------------------------------------------
(* Scope (policy.py).                                                      *)

NoName == ""
Hostnames == {"localhost", "printer"}

\* A target is a name, or the addresses of an address or a network.
Named(h) == [name |-> h, addresses |-> {}]
Literal(A) == [name |-> NoName, addresses |-> A]

IsLoopback(x) ==
    IF x.name = NoName THEN x.addresses \subseteq Loopback ELSE x.name = "localhost"

Scope(networks, names, ports, transports, kinds, expires) ==
    [networks |-> networks, names |-> names, ports |-> ports,
     transports |-> transports, kinds |-> kinds, expires |-> expires]

Current(g, t) == t < g.expires

PermitsAddress(g, a) == \E n \in g.networks : a \in n

Authorized(targets, g, t) ==
    /\ Current(g, t)
    /\ \A x \in targets :
          \/ IsLoopback(x)
          \/ x.name # NoName /\ x.name \in g.names
          \/ x.name = NoName /\ \E n \in g.networks : x.addresses \subseteq n

Kinds == {"local_snapshot", "system_dns", "tcp_connect", "udp_exchange",
          "tls_handshake", "http_exchange", "native_ping", "native_path"}
Ported == {"tcp_connect", "udp_exchange", "tls_handshake", "http_exchange"}
NoPort == 0

TransportOf(kind) == IF kind = "udp_exchange" THEN "udp" ELSE "tcp"

PermitsProbe(g, kind, port) ==
    /\ kind \in g.kinds
    /\ kind \in Ported => port \in g.ports /\ TransportOf(kind) \in g.transports

\* Every address of an answer has to lie inside the scope.
Resolves(h, answer, g) ==
    /\ answer # {}
    /\ \A a \in answer : (h = "localhost" /\ a \in Loopback) \/ PermitsAddress(g, a)

\* _addresses_from_resolution sorts addresses by number.
Slot(answer, a) == Cardinality({b \in answer : b < a})

\* A variant to be refuted: the scope names the host, so its addresses are trusted.
Rechecks_nameOnly(h, answer, g, t) == Current(g, t) /\ (h = "localhost" \/ h \in g.names)

\* recheck_resolution.
Rechecks(h, answer, g, t) ==
    /\ Current(g, t)
    /\ h = "localhost" \/ h \in g.names
    /\ Resolves(h, answer, g)

------------------------------------------------------------------------------
(* Steps, and what a plan reserves for them.                               *)

Payload(profile, length) == [profile |-> profile, length |-> length]
NoPayload == Payload("none-v1", 0)

\* StepCost: observations and bytes of output have defaults of their own.
Cost(datagrams, bytes, packets) ==
    [datagrams |-> datagrams, bytes |-> bytes, packets |-> packets,
     observations |-> 2, output |-> 16384]
Reserving(cost, observations, output) ==
    [cost EXCEPT !.observations = observations, !.output = output]

Step(kind, place, port, attempt, payload, cost) ==
    [kind |-> kind, place |-> place, port |-> port, attempt |-> attempt,
     payload |-> payload, cost |-> cost]

\* Where a step goes: a slot of the answer for a name, an address, or nowhere.
At(x, a) == [target |-> x, at |-> {a}, name |-> NoName, slot |-> 0]
InSlot(h, a, i) == [target |-> Named(h), at |-> {a}, name |-> h, slot |-> i]
Nowhere(x) == [target |-> x, at |-> {}, name |-> NoName, slot |-> 0]

Concrete(x, answer) ==
    IF x.name = NoName THEN {At(x, a) : a \in x.addresses}
    ELSE {InSlot(x.name, a, Slot(answer[x.name], a)) : a \in answer[x.name]}

Total(field, steps) == MapThenSumSet(LAMBDA s : s.cost[field], steps)

Estimate(steps, hosts, ports, events, output) ==
    [hosts |-> hosts, ports |-> Cardinality(ports), attempts |-> Cardinality(steps),
     datagrams |-> Total("datagrams", steps), bytes |-> Total("bytes", steps),
     packets |-> Total("packets", steps), events |-> events, output |-> output]

\* The other ceilings of BudgetLimits are compared in the same way.
Within(estimate) == estimate.attempts <= MaxAttempts /\ estimate.hosts <= MaxHosts

------------------------------------------------------------------------------
(* preview_plan: the product of targets, ports, transports and repeats.    *)

\* The payload a request describes: its own bytes, a profile, zeros or nothing.
PayloadOf(r) ==
    Payload(IF r.custom THEN "custom-sha256-v1"
            ELSE IF r.profiled # "" THEN r.profiled
            ELSE IF r.bytes # 0 THEN "zero-bytes-v1" ELSE "none-v1", r.bytes)

CartesianSteps(r, answer) ==
    LET step(place, port, udp, attempt) ==
          IF udp THEN Step("udp_exchange", place, port, attempt, PayloadOf(r),
                           Cost(r.datagrams, r.bytes * r.datagrams, r.datagrams))
          ELSE Step("tcp_connect", place, port, attempt, NoPayload, Cost(0, r.bytes, 1))
    IN {step(place, port, transport = "udp", attempt) :
          place \in UNION {Concrete(x, answer) : x \in r.targets}, port \in r.ports,
          transport \in r.transports, attempt \in 1..r.repeats}

HostCount(r, answer) ==
    MapThenSumSet(LAMBDA x : Cardinality(Concrete(x, answer)), r.targets)

NamesOf(targets) == {x.name : x \in targets} \ {NoName}

Required(r) ==
    {"full_" \o t : t \in IF r.ports = AllPorts THEN r.transports ELSE {}}
       \cup (IF r.custom THEN {"custom_udp"} ELSE {})

CartesianPreview(r, answer, t) ==
    LET steps == CartesianSteps(r, answer)
        attempts == Cardinality(steps)
    IN [profile |-> r.profile, targets |-> r.targets, ports |-> r.ports,
        transports |-> r.transports, repeats |-> r.repeats, bytes |-> r.bytes,
        datagrams |-> r.datagrams, steps |-> steps, scope |-> r.scope,
        resolutions |-> {[name |-> h, addresses |-> answer[h]] : h \in NamesOf(r.targets)},
        estimate |-> Estimate(steps, HostCount(r, answer), r.ports, attempts + 5,
                              attempts * 512 + 4096),
        required |-> Required(r), created |-> t]

CartesianFits(r, answer, t) ==
    /\ Authorized(r.targets, r.scope, t)
    /\ r.custom => "udp" \in r.transports
    /\ \A x \in r.targets : \/ IsLoopback(x)
                            \/ r.ports \subseteq r.scope.ports /\ r.transports \subseteq r.scope.transports
    /\ \A h \in NamesOf(r.targets) : Resolves(h, answer[h], r.scope)
    /\ Within(CartesianPreview(r, answer, t).estimate)

------------------------------------------------------------------------------
(* preview_probe_plan: exactly the steps it is given.                      *)

\* The slots of a name that steps refer to.
SlotsOf(steps, h) == {s.place.slot : s \in {s \in steps : s.place.name = h}}
AddressesOf(steps, h) == UNION {s.place.at : s \in {s \in steps : s.place.name = h}}
Snapshots(steps) == {s.place.name : s \in steps} \ {NoName}

UdpPayloads(steps) == {s.payload : s \in {s \in steps : s.kind = "udp_exchange"}}

SparsePreview(profile, steps, scope, t) ==
    LET ports == {s.port : s \in steps} \ {NoPort}
        payload == IF UdpPayloads(steps) = {} THEN NoPayload
                   ELSE CHOOSE p \in UdpPayloads(steps) : TRUE
    IN [profile |-> profile, targets |-> {s.place.target : s \in steps}, ports |-> ports,
        transports |-> {TransportOf(s.kind) : s \in {s \in steps : s.kind \in Ported}},
        repeats |-> CHOOSE n \in {s.attempt : s \in steps} : \A s \in steps : s.attempt <= n,
        bytes |-> payload.length, datagrams |-> 1, steps |-> steps, scope |-> scope,
        resolutions |-> {[name |-> h, addresses |-> AddressesOf(steps, h)] : h \in Snapshots(steps)},
        estimate |-> Estimate(steps,
                       Cardinality({IF s.place.at = {} THEN s.place.target ELSE Literal(s.place.at) :
                                      s \in steps}),
                       ports, Total("observations", steps) + 5, Total("output", steps) + Envelope),
        required |-> {}, created |-> t]

SparseFits(profile, steps, scope, t) ==
    /\ \A s \in steps :
          /\ s.kind # "local_snapshot" => Authorized({s.place.target}, scope, t)
          /\ s.place.at # {} => Authorized({Literal(s.place.at)}, scope, t)
          /\ IsLoopback(s.place.target) \/ PermitsProbe(scope, s.kind, s.port)
          /\ s.kind # "local_snapshot" => s.cost.packets > 0
    /\ \A h \in Snapshots(steps) :
          /\ SlotsOf(steps, h) = 0..(Cardinality(SlotsOf(steps, h)) - 1)
          /\ \A s, r \in steps : s.place.name = h /\ r.place.name = h =>
                (s.place.slot = r.place.slot => s.place.at = r.place.at)
    /\ Cardinality(UdpPayloads(steps)) <= 1
    /\ Within(SparsePreview(profile, steps, scope, t).estimate)

------------------------------------------------------------------------------
(* Authorization, and validation at the boundary of the service.           *)

\* A variant to be refuted: a digest that leaves the scope out.
Digest_unscoped(p) == [p EXCEPT !.created = 0, !.scope = {}]

\* What the digest covers: all of a preview but the times.
Digest(p) == [p EXCEPT !.created = 0]

Phrases(p) == {<<kind, Digest(p)>> : kind \in p.required}

\* A variant to be refuted: a preview is validated by resolving again.
SnapshotAnswers_live(p) == dns

\* snapshot_resolver: the answers the preview was made with.
SnapshotAnswers(p) ==
    [h \in Hostnames |-> UNION {r.addresses : r \in {r \in p.resolutions : r.name = h}}]

PayloadsOf(p) == {s.payload : s \in p.steps}

IsSparse(p) ==
    \/ p.profile \in {"internal-mapping-v1", "coverage-v2"}
    \/ \E s \in p.steps : s.kind \notin {"tcp_connect", "udp_exchange"}
    \/ Cardinality(PayloadsOf(p)) > 1

\* The request a Cartesian preview is taken to come from.
RequestOf(p) ==
    LET payload == CHOOSE q \in PayloadsOf(p) : TRUE
        custom == payload.profile = "custom-sha256-v1"
    IN [profile |-> p.profile, targets |-> p.targets, ports |-> p.ports,
        transports |-> p.transports, repeats |-> p.repeats, bytes |-> p.bytes,
        datagrams |-> p.datagrams, custom |-> custom,
        profiled |-> IF custom THEN "" ELSE payload.profile, scope |-> p.scope]

Recompiles(p) ==
    IF IsSparse(p)
    THEN /\ SparseFits(p.profile, p.steps, p.scope, p.created)
         /\ SparsePreview(p.profile, p.steps, p.scope, p.created) = p
    ELSE /\ CartesianFits(RequestOf(p), SnapshotAnswers(p), p.created)
         /\ CartesianPreview(RequestOf(p), SnapshotAnswers(p), p.created) = p

ValidPreview(p, t) ==
    /\ p.created <= t /\ Current(p.scope, t)
    /\ {r.name : r \in p.resolutions} = Snapshots(p.steps)
    /\ Recompiles(p)

ValidPlan(q, t) ==
    ValidPreview(q.preview, t) /\ q.preview.created <= q.authorized /\ q.authorized <= t

\* preflight_step: the last look before a socket.
Preflight(p, s, answer, t) ==
    LET x == s.place.target  h == s.place.name IN
    /\ Current(p.scope, t)
    /\ s.kind # "local_snapshot" => Authorized({x}, p.scope, t)
    /\ IsLoopback(x) \/ PermitsProbe(p.scope, s.kind, s.port)
    /\ h # NoName =>
          /\ Rechecks(h, answer[h], p.scope, t)
          /\ Cardinality(answer[h]) <= Cardinality(SnapshotAnswers(p)[h])
          /\ \A a \in s.place.at : a \in answer[h] /\ Slot(answer[h], a) = s.place.slot

------------------------------------------------------------------------------
(* What the interfaces ask for.                                            *)

HttpPort == 80
HttpsPort == 443
Never == MaxTime + 1

Host(a) == Literal({a})

\* Callers of preview_plan and authorize_plan choose targets, transports, payload
\* and a scope, which need not expire (`mercury plan` compiles the like, to show it).
PlanRequests ==
    {[profile |-> "custom-v1", targets |-> x, ports |-> {HttpPort}, transports |-> t,
      repeats |-> 1, bytes |-> b, datagrams |-> 2, custom |-> c, profiled |-> "",
      scope |-> Scope({Network}, {"printer"}, {HttpPort}, t, Kinds, Never)] :
        x \in {{Named("printer")}, {Host(Peer), Named("localhost")}},
        t \in {{"tcp"}, {"udp"}, {"tcp", "udp"}}, b \in {0, 8}, c \in BOOLEAN}

\* default_discovery_grant: a scope that stays the same for a quarter of an hour.
WindowStart(t) == t - (t % Window)

DiscoverRequests(t) ==
    {[profile |-> "discovery", targets |-> {Literal(Network)}, ports |-> ports,
      transports |-> {"tcp"}, repeats |-> 1, bytes |-> 0, datagrams |-> 1,
      custom |-> FALSE, profiled |-> "",
      scope |-> Scope({Network}, {}, ports, {"tcp"}, {"tcp_connect"},
                      WindowStart(t) + (IF ports = AllPorts THEN 4 ELSE 1) * Window)] :
        ports \in {{HttpPort}, AllPorts}}

CartesianRequests(t) ==
    (IF "plan" \in Sources THEN PlanRequests ELSE {})
       \cup (IF "discover" \in Sources THEN DiscoverRequests(t) ELSE {})

\* compile_trace: one native path, of one hop, per repeat.
TraceSteps ==
    {Step("native_path", At(Host(Peer), Peer), NoPort, n, NoPayload,
          Reserving(Cost(0, 0, 3), 2, 65536)) : n \in 1..2}

\* compile_internal_mapping: hosts by profiles by ports.
MappingSteps(profile) ==
    LET n == IF profile = "udp_tagged" THEN 1 ELSE 0 IN
    {Step(IF n = 1 THEN "udp_exchange" ELSE "tcp_connect", At(Host(a), a), HttpPort, 1,
          Payload("mapping-" \o profile, n), Cost(n, n, 1)) : a \in Network}

\* resolve_addresses, unlike policy.py, sorts the addresses of a name as text.
TextSlot(answer, a) == Cardinality({b \in answer : TextRank[b] < TextRank[a]})

DiagnosisCost == Reserving(Cost(0, 0, 1), 1, 8192)

\* compile_diagnosis: a name is looked up for each of its endpoints, and each
\* of its addresses is probed; TLS and HTTP follow at the ports they belong to.
EndpointSteps(e, answer) ==
    LET x == e.target
        places == IF x.name = NoName THEN {At(x, a) : a \in x.addresses}
                  ELSE {InSlot(x.name, a, TextSlot(answer[x.name], a)) : a \in answer[x.name]}
        kinds == {"tcp_connect"}
                   \cup (IF e.port = HttpsPort THEN {"tls_handshake"} ELSE {})
                   \cup (IF e.port \in {HttpPort, HttpsPort} THEN {"http_exchange"} ELSE {})
    IN {Step("system_dns", Nowhere(y), NoPort, 1, NoPayload, DiagnosisCost) :
          y \in {y \in {x} : y.name # NoName}}
       \cup {Step(k, place, e.port, 1, NoPayload, DiagnosisCost) : k \in kinds, place \in places}

LocalSnapshot ==
    Step("local_snapshot", Nowhere(Named("local")), NoPort, 1, NoPayload,
         Reserving(Cost(0, 0, 0), 8720, 12582912))

Endpoint(x, port) == [target |-> x, port |-> port]

DiagnoseTargets ==
    {{Endpoint(x, port)} : x \in {Named("printer"), Named("localhost"), Host(Peer)},
                           port \in {HttpPort, HttpsPort}}
       \cup {{Endpoint(Named("printer"), port) : port \in {HttpPort, HttpsPort}}}

\* _runtime_plan of a paired run: a TCP and a UDP probe.
PairedSteps ==
    {Step("tcp_connect", At(Host(Peer), Peer), 1, 1, NoPayload, Cost(0, 20, 1)),
     Step("udp_exchange", At(Host(Peer), Peer), 2, 1, Payload("paired-v1", 24), Cost(1, 24, 1))}

ProfileKind == [tcp_connect |-> "tcp_connect", tcp_tagged |-> "tcp_connect",
                udp_tagged |-> "udp_exchange", http_exchange |-> "http_exchange",
                icmp_echo |-> "native_ping"]

\* _coverage_receiver_for: tcp_connect falls back on the receiver of tcp_tagged.
ReceiverPort == [tcp_connect |-> 1, tcp_tagged |-> 1, udp_tagged |-> 2,
                 http_exchange |-> 3, icmp_echo |-> NoPort]
TagLength == [tcp_connect |-> 11, tcp_tagged |-> 10, udp_tagged |-> 10,
              http_exchange |-> 13, icmp_echo |-> 0]

\* _coverage_runtime_plan: a step per profile, all with one payload.
CoverageStep(q, attempt) ==
    LET datagrams == IF q = "udp_tagged" THEN 1 ELSE 0 IN
    Step(ProfileKind[q], At(Host(Peer), Peer), ReceiverPort[q], attempt,
         Payload("coverage-v2", 0), Cost(datagrams, TagLength[q], 1))

\* coverage_assessment_plan: the same in either direction, with a larger budget.
AssessmentStep(q, attempt) ==
    LET s == CoverageStep(q, attempt) IN [s EXCEPT !.cost = Reserving(s.cost, 4, 32768)]

PeerScope(ports, transports, t) ==
    Scope({{Peer}}, {}, ports, transports, Kinds, t + Window)

CoverageScope(P, t) ==
    PeerScope({ReceiverPort[q] : q \in P} \ {NoPort},
              {TransportOf(ProfileKind[q]) : q \in P \ {"icmp_echo"}}, t)

\* What is given to preview_probe_plan; specs counts the steps asked for, those
\* asked for twice as well.
Sparse(profile, steps, specs, scope) ==
    [profile |-> profile, steps |-> steps, specs |-> specs, scope |-> scope]

Once(profile, steps, scope) == Sparse(profile, steps, Cardinality(steps), scope)

SparseRequestsOf(source, answer, t) ==
    CASE source = "trace" ->
           {Once("native-trace-v1", TraceSteps,
                 Scope({Network}, {}, {}, {}, {"native_path"}, t + Window))}
      [] source = "map" ->
           {Once("internal-mapping-v1", MappingSteps(q),
                 Scope({Network}, {}, {HttpPort}, {TransportOf(ProfileKind[q])}, Kinds, Never)) :
              q \in {"tcp_tagged", "udp_tagged"}}
      [] source = "diagnose" ->
           {Sparse("custom-v1",
                   {LocalSnapshot} \cup UNION {EndpointSteps(e, answer) : e \in E},
                   1 + MapThenSumSet(LAMBDA e : Cardinality(EndpointSteps(e, answer)), E),
                   Scope({Network}, {"localhost", "printer"}, {e.port : e \in E}, {"tcp"},
                         Kinds, t + Window)) :
              E \in DiagnoseTargets}
      [] source = "paired" ->
           {Once("paired-v1", PairedSteps, PeerScope({1, 2}, {"tcp", "udp"}, t))}
      [] source = "coverage" ->
           {Once("coverage-v2", {CoverageStep(q, 1) : q \in P}, CoverageScope(P, t)) :
              P \in SUBSET Profiles \ {{}}}
      [] source = "assessment" ->
           {Once("coverage-assessment-v2", {AssessmentStep(q, n) : q \in P, n \in 1..2},
                 CoverageScope(P, t)) :
              P \in SUBSET Profiles \ {{}}}
      [] OTHER -> {}

------------------------------------------------------------------------------
Init ==
    /\ now = 0
    /\ dns \in [Hostnames -> Answers \cup {Loopback}] /\ dns["localhost"] = Loopback
    /\ preview = None /\ shown = {} /\ plan = None
    /\ asked = None /\ opened = None

Tick == now < MaxTime /\ now' = now + 1 /\ UNCHANGED <<dns, preview, shown, plan, asked, opened>>

\* A name, but for localhost, resolves to something else.
Rotate ==
    /\ \E A \in Answers : A # dns["printer"] /\ dns' = [dns EXCEPT !["printer"] = A]
    /\ UNCHANGED <<now, preview, shown, plan, asked, opened>>

\* An invocation compiles a request.  One whose preview was neither shown nor
\* authorized has left nothing behind, and none is modelled to follow it.
Compiled(p) == preview' = p /\ UNCHANGED <<now, dns, shown, plan, asked, opened>>
Invoked == plan = None /\ (preview = None \/ preview \in shown)

PreviewPlan ==
    /\ Invoked
    /\ \E r \in CartesianRequests(now) :
          CartesianFits(r, dns, now) /\ Compiled(CartesianPreview(r, dns, now))

PreviewProbePlan ==
    /\ Invoked
    /\ \E source \in Sources : \E r \in SparseRequestsOf(source, dns, now) :
          /\ r.specs = Cardinality(r.steps)
          /\ SparseFits(r.profile, r.steps, r.scope, now)
          /\ Compiled(SparsePreview(r.profile, r.steps, r.scope, now))

\* The operator is shown a preview, with the phrases that confirm it.
Show ==
    /\ preview # None /\ preview.required # {}
    /\ Cardinality(shown) < MaxShown
    /\ shown' = shown \cup {preview}
    /\ UNCHANGED <<now, dns, preview, plan, asked, opened>>

\* authorize_plan, with the phrases the operator has seen.
AuthorizePlan ==
    /\ preview # None /\ plan = None
    /\ ValidPreview(preview, now)
    /\ Phrases(preview) \subseteq UNION {Phrases(p) : p \in shown}
    /\ plan' = [preview |-> preview, authorized |-> now, submitted |-> FALSE]
    /\ UNCHANGED <<now, dns, preview, shown, asked, opened>>

\* submit() validates the plan once more.
Submit ==
    /\ plan # None /\ ~plan.submitted /\ ValidPlan(plan, now)
    /\ plan' = [plan EXCEPT !.submitted = TRUE]
    /\ UNCHANGED <<now, dns, preview, shown, asked, opened>>

\* admit() takes its instant for the preflight.  A step without a name is checked at once,
\* and goes on to the wait for its slot; a name is looked up first.
Admit ==
    /\ plan # None /\ plan.submitted /\ asked = None
    /\ \E s \in plan.preview.steps :
          \/ /\ s.place.name # NoName
             /\ asked' = [step |-> s, since |-> now, at |-> "resolving", answer |-> {}]
          \/ /\ s.place.name = NoName /\ Preflight(plan.preview, s, dns, now)
             /\ asked' = [step |-> s, since |-> now, at |-> "waiting", answer |-> {}]
    /\ opened' = None
    /\ UNCHANGED <<now, dns, preview, shown, plan>>

\* The lookup answers, and the step is checked with what it says, and with the instant
\* that admit() began with.
Resolved ==
    /\ asked # None /\ asked.at = "resolving"
    /\ Preflight(plan.preview, asked.step, dns, asked.since)
    /\ asked' = [asked EXCEPT !.at = "waiting", !.answer = dns[asked.step.place.name]]
    /\ UNCHANGED <<now, dns, preview, shown, plan, opened>>

\* A lookup fails or its answer is refused, or the task ends under either wait.
Unadmitted ==
    /\ asked # None /\ asked' = None
    /\ UNCHANGED <<now, dns, preview, shown, plan, opened>>

\* The slot has come: the step is let through to its socket, and is not checked again.
Open ==
    /\ asked # None /\ asked.at = "waiting"
    /\ opened' = asked.step /\ asked' = None
    /\ UNCHANGED <<now, dns, preview, shown, plan>>

Next ==
    \/ Tick \/ Rotate \/ PreviewPlan \/ PreviewProbePlan \/ Show \/ AuthorizePlan
    \/ Submit \/ Admit \/ Resolved \/ Unadmitted \/ Open

Spec == Init /\ [][Next]_vars

------------------------------------------------------------------------------
(* Safety.                                                                 *)

\* A plan that was authorized is valid until its scope expires, whatever DNS
\* answers meanwhile: no boundary of the service refuses it for what changed
\* outside of it.
AuthorizedStaysValid ==
    plan # None /\ Current(plan.preview.scope, now) => ValidPlan(plan, now)

\* A phrase authorizes the work the operator has seen, to the last address and
\* no longer than was said: a plan that needs phrases differs from a preview
\* shown before in nothing but the time it was compiled.
ConfirmedIsShown ==
    plan # None /\ plan.preview.required # {} =>
       \E p \in shown : [p EXCEPT !.created = plan.preview.created] = plan.preview

\* A socket is opened to an address of this machine or one inside the scope, and for a
\* name only when all that DNS answered during this very admission, and not when the plan
\* was made, lies inside of it.  The scope lasted at the instant the admission began; that
\* it lasts when the socket is opened, or that DNS still answers so, is not said: the
\* lookup and the wait for the slot come between.
OpensChecked ==
    opened' \notin {opened, None} =>
       LET g == plan.preview.scope
           place == opened'.place
       IN /\ asked.since <= now /\ Current(g, asked.since)
          /\ \A a \in place.at : a \in Loopback \/ PermitsAddress(g, a)
          /\ place.name # NoName =>
                place.at \subseteq asked.answer /\ Resolves(place.name, asked.answer, g)

OpensInScope == [][OpensChecked]_vars

\* A preview the program has compiled can be authorized while its scope lasts.
PreviewIsConfirmable ==
    preview # None /\ Current(preview.scope, now) => ValidPreview(preview, now)

\* DNS that answers what it answered for the preview refuses no step.
OnlyRotationRefuses ==
    plan # None /\ Current(plan.preview.scope, now)
       /\ (\A h \in Snapshots(plan.preview.steps) : SnapshotAnswers(plan.preview)[h] = dns[h]) =>
       \A s \in plan.preview.steps : Preflight(plan.preview, s, dns, now)
=============================================================================
