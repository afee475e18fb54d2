# Mercury: models, checks and proofs

Mercury diagnoses private networks: it plans finite sets of probe steps, runs
them as recorded tasks, and, with a peer, measures a path from both ends. This
directory models the parts of `src/mercury` that run concurrently, fail, or have
to agree with each other. The modules are checked with TLC on small instances and
their main safety properties are proved with TLAPS for all values of the
constants. Every definition that models code is listed in `PROJECT.json` under
`map` with the lines it stands for.

## 1. The system

| Component | State it keeps | Operations | Module |
|---|---|---|---|
| Task history `history.py` | SQLite tables `tasks`, `events`, `reports`, shared by all processes of one user | open (migrate, prune), `create_task`, `mark_running`, `append_event`, `finish_task`, `recover_interrupted`, `prune`, reads | `HistoryStore` |
| Task lifecycle `tasks.py` `TaskService` | tasks, tokens and results of one process; owner id and leases in the rows | start-up recovery, `submit`, `cancel`, `wait`, `_execute_inner` | `TaskService` over `HistoryStore`; implements `TaskRecord` |
| Step admission `tasks.py` `TaskContext`, `discovery.py` worker pool | admission lock, rate deadlines, admitted/observed/completed steps, event and output-byte budgets, observations, errors | `admit`, `record`, `complete_attempt`, terminal observations, token, pool of coroutines | `TaskContext`, `TaskRun` |
| Paired listener `paired.py` `PairedListenerService`, `ConfiguredPairedExecutor` | two sockets, expiry task, handlers, claimed steps, ready event | `start`, `stop`, `_expire`, `_handle_tcp`, datagrams, `wait_ready` | `PairedListener` |
| Paired and coverage control `paired.py` `PairedPeerService`, `AuthenticatedPairedRunner`, `AuthenticatedCoverageRunner` | `_tasks`, `_results` by correlation | submit, read-result, cancel over a lossy channel; client deadline and polling | `PeerControl` |
| Coverage sender and matrix `paired.py` `ConfiguredCoverageExecutor`, `_read_receipts`, `coverage_matrix` | the sends of a role, receipts of both ends | one exchange per profile and direction, receipts, one row per profile and direction | `CoverageExchange` |
| Coverage receivers `paired.py` `CoverageReceiverService`, `CoverageLeaseRegistry` | receivers and receipts by correlation, expiries | start, stop, expire, receipts | `CoverageLease` |
| Peer channel `peer.py` `PeerAgent`, `PeerClient`, `_NonceCache` | nonces, correlation owners, audit | authenticate, admit, dispatch, respond, audit | `PeerAgent`; what a client sees of it in `PeerControl` |
| Web broker `web/__init__.py` `WebTaskBroker` | table of tasks, a thread with an event loop and its queue | submit (waits two seconds), cancel, snapshot, close; `_execute` over a facade | `WebBroker`; implements `WebTask` |
| Web page `web/static/app.js` | the active task, timers, the cancel button | start, poll, cancel | `Dashboard` over `WebTask` |
| Command runner `platform/common.py` `run_command` | a child process, two pipes, two readers | run with bounds, terminate and reap | `Command` |
| Planner and policy `planner.py`, `policy.py`, and the compilers of `trace.py`, `profiles.py`, `discovery.py`, `paired.py` | none (pure); an operator's memory of phrases, what DNS answers, the clock | `preview_plan`, `preview_probe_plan`, `validate_preview`, `authorize_plan`, `validate_plan`, `preflight_step`, scope checks | `ProbePlan` |
| Diagnosis `diagnosis.py`, answers of `tasks.py`, evidence `models.py` | none (pure) | required groups, ordered rules, conclusion of a pool, bounded result | `TaskRun`, for one endpoint |
| Probes, trace, resolver, parsers of the platform adapters, nmap, inventory | none beyond a call | I/O and parsing | not modelled; a probe or a resolution is one action; what it may answer is in `TaskRun` (`Answers`) |
| Codec, reports, rendering, CLI, application facade, HTTP handlers | none | parsing, formatting, wiring | not modelled (the compilers of `profiles.py` are in `ProbePlan` and `TaskRun`, what a facade waits for in `WebBroker`) |

How they interact. A command plans, then calls `TaskService.submit`; the service
writes a row with an owner and a lease, runs the runner in an asyncio task, and
gives it a `TaskContext`, through which all evidence goes into the same history.
The runner's coroutines share the context through an `asyncio.Lock` and shared
deadlines. `cancel()` sets a token the coroutines look at between awaits. A
second process opens the same database: its constructor prunes and its recovery
closes rows whose lease is over. On a peer, a control frame makes
`PairedPeerService` start a role, which is a task of its own `TaskService` whose
runner owns the listeners. A coverage assessment opens receivers at one end and runs a
sender at the other, for each direction in turn. The web interface runs facades in a
thread of its own; its page polls what they have come to.

What is hard about it: statements of different processes interleave on one row
(`append_event` and `finish_task` read in autocommit mode and write later); an
owner may crash or be late past its lease; a terminal write can fail twice; inside
a process every await is a point where a token, a timer, an `asyncio.timeout`, an
expiry or a handler may come first; and several of them finish the same step.
`PROJECT.json` lists these hazards at their lines with the properties for them.

What makes each component correct:

- history and lifecycle: the row and the event log tell the same story; a verdict
  never changes; an acknowledged cancellation is not followed by `completed`; what
  `wait()` returns is what is stored; a task's owner is not recovered from under
  it; every row is settled in the end; retention deletes only what it may;
- context: rates hold between any two attempts; a validated plan is not refused by
  its own ceilings; `completed` means evidence of every step; nobody keeps the lock;
- answer: none is larger than the plan allows; what was completed is in it, unless it
  is the bounded one, which says so; a diagnosis is healthy only when it is whole;
- listener: arrival and silence exclude each other; ports and handlers end with the
  role; `accepted` means bound; a role's evidence is complete at its verdict;
- receivers: one receipt each; what is open is in the table; a refused start and a
  finished stop leave no port open; every port closes with its lease;
- control: `accepted` means that the peer listens; an answered cancel is final; only
  a role that goes on is polled; both sides come to an end;
- planner: an authorized plan stays valid while its scope lasts; what was confirmed is
  what was shown; a socket goes to an address inside the scope, and DNS is asked again
  for it, whatever it answered before;
- peer channel: a frame is dispatched once as long as it is current, and one that is
  current and new is not refused because of old ones; who was served or refused is in the
  audit;
- exchange: a row says of the path only what its evidence allows; an acknowledgement is
  matched by a receipt; profiles do not disturb each other; an assessment ends;
- broker and page: no task behind a caller that was told there is none; a store that is
  closed under a running task is no secret; a stored result reaches the page, and what runs there can
  be cancelled; a poll ends;
- command: a success is the whole output; the child, its pipes and the call itself end.

Not all of it holds: section 3 ends with what does not.

## 2. The modules

`HistoryStore` holds the two tables and one operator per transaction. It has no
next-state relation: `TaskService` composes the operators into the actions of its
processes. A transaction (`BEGIN IMMEDIATE`, or one `with connection`) is one step.
What the code does as a SELECT and a later write is two: `StartAppend` then
`InsertEvent` for `append_event`, `FinishRead` then `FinishWrite` for `finish_task`,
`ScanOrphans` then `RecoverOne` for the recovery. The order of the event table is
a sequence, whose index is the column `sequence`.

`TaskService` has one action per handler and way to end: `Open`, `ScanOrphans`,
`RecoverOne`, `RecoveryFails`, `Exit`, `Crash`, `ReadHistory`; `Submit`, `Cancel`;
`Start`, `StartFails`, `Observe`, `RunnerReturns`, `RunnerCancelled`,
`RunnerTimesOut`, `RunnerRaises`, `RecordTerminal`, `BuildResult`, `FinishRead`,
`FinishWrite`, `FinishFails` (first failure: retried once with a failed result;
second: `wait()` raises), `Return`. `Busy` keeps a process inside its synchronous
sections, as its event loop does, while other processes step. `Punctual` states an
assumption of some checks: a live process runs what is due within `Slack` ticks.

`TaskRecord` is the abstract specification of one task: accepted, running,
settled, forgotten, with one verdict, promises and answers. `TaskService` maps a
row, an execution and the acknowledgements to it (`recordStage`, `recordVerdict`,
`recordTold`); `ImplementsRecord` is checked as a property and proved.

`TaskContext` is a running task from inside: coroutines that `Take` a step, wait for
the lock, `Preflight` it (token, ceilings, scope, name), `Pace` it, `Admit` it, probe
and record. A timer that has fired (`woken`) and a token that is set meet here.
`gather` gives on the first exception and leaves the others running; `Teardown` is
the end of `asyncio.run`. `Started` is the pool as it starts, `Concludes` the verdict
of a runner that ended, with the events its terminal observations take (`Endings`). It
leaves out the three cost sums of `admit()`, which refuse nothing beyond admitting a
step once.

`TaskRun` extends it from steps to the answer. `Answers` is what a probe of each kind can
leave, `Allowed` what the context accepts of it (the table `_ALLOWED_EVIDENCE`);
`RunProbed` keeps an observation if the output ceiling has room (`Fits`). A step leaves
one observation here, also where the code leaves several (a snapshot, a route): the one
that the classification tells apart. The runner's end is `RunnerReturned`,
`RunnerRaised`, `RunTimesOut` or `RunCancelTask`: it adds errors (`Told`) and terminal
observations (`Ended`, `EndedBy`), each kept only if it fits and each logged or not, and
then builds the result. The code does this and persists it without an await, so that it
is one step. A pool concludes by `Derived`, a diagnosis of one endpoint by `Classified`
(required groups, lifecycle evidence, local prerequisites), and a result that is too
large with its conclusion becomes `BoundedAnswer` (`Measured`). Sizes are abstract: one
for each class of item, the largest the code reserves for it. The reservation of each
single step and what diagnosis says of several endpoints are left out.

`PairedListener` is the B-to-A role: the runner's places between awaits
(`submitted`, `pacing`, `bindingTcp`, `startingTcp`, `bindingUdp`, `serving`,
`closing`), the expiry task, TCP handlers and datagram tasks, `stop()` with what it
waits for, and `wait_ready`. `waits` is chosen at the start: since Python 3.12
`Server.wait_closed` waits for handlers, before it returns at once, and the project
supports both. A `CancelledError` on its way is `pending`; who asked for it is
`requested`, because `asyncio.timeout` turns into a timeout only what nobody else
asked for. Packets that fail the source or tag check change nothing and are left
out, as is the field `outcome`, which nothing reads.

`CoverageLease` is the registry of coverage receivers. A call of `start()` goes
through its receivers in order: `Start`, then `Bind`, `Bound` or `BindFails` for each,
`Undone` while a failed start closes what it has opened. `Stop` and `Stopped` are the
registry's `stop()`, `Expire` the receivers' own. All three close receivers up to the
first that has handlers to wait for (`Sweep`, with `waits` as above). Callers of an
agent are not cancelled; those of a runner that owns its registry are (`Interrupt`).
`prompt` chooses at the start whether every `start()` is over before the first of its
leases: nothing in the code makes it so, but `OpenIsRegistered` holds only then,
because a start whose first receiver has expired no longer keeps others from its port.

`PeerControl` is one run of a paired or of a coverage diagnosis over the control
channel, with both ends. A paired run has the correlation `p`, a coverage run `f` and
then `r`; correlations are random, so that two runs share nothing but the ports,
which are the business of the two modules above. The client is a sequence of requests
(`pc` is the one it awaits, `reply` what came back) with the ways to leave it
(`Unwind`: result, failure, deadline, interruption) and its `finally` clause
(`Closed`, `CancelNext`, `Cancelled`). A request is a frame on `wire`, which the
agent takes (`Handle`) in any order, as each has a connection of its own; it is
answered to a client that still waits for it (`Respond`). The peer's tables, the life
of its role and the event of `wait_ready` follow the code; the role's own work is
`PairedListener`. Frames whose expiry has passed are not made by the client (`Ask`
is guarded by `Expires`) and are refused by the agent (`Admitted`). The registries
are tables here; who opens a receiver when is `CoverageLease`. `Faults` says which of
lost requests and answers (`loss`), an interrupted client (`interrupt`) and a role
that is refused before its runner begins (`unbegun`) may happen. The frame's maximal
lifetime of ten minutes and agents that only receive are left out.

`ProbePlan` goes from a request to a socket. `PreviewPlan` and `PreviewProbePlan` are an
invocation of an interface that compiles a request with one of the two compilers
(`CartesianPreview` with its conditions `CartesianFits`, `SparsePreview` with
`SparseFits`); `Show` is an operator who reads a preview and its phrases;
`AuthorizePlan` and `Submit` validate, each with the clock of its time (`ValidPreview`,
`ValidPlan`). An admission is several steps, as it awaits twice: `Admit` takes its
instant, and checks a step without a name at once; `Resolved` checks a name with what the
lookup answers by then, but with that first instant (`Preflight`); `Open` comes after the
wait for the rate's slot and checks nothing again; `Unadmitted` is any end of either
wait. `OpensInScope` therefore speaks of the instant and the answer of the admission, not
of those of the socket. `Recompiles` is the heart of
`validate_preview`: it chooses a compiler, feeds the preview back to it and compares.
`Tick` and `Rotate` are the environment. A digest is the preview without its times, and
a phrase is a kind with a digest (the code prints twelve hexadecimal digits of a hash);
a target is a name or the set of addresses of an address or a network; a step's place
is a slot of a name, an address or nowhere. Left out: the order of steps, timeouts,
attestation (always given), native scans, the ceilings but those of hosts and attempts
(all are compared in the same way), parsing of targets, and `preflight_addresses`,
which nothing calls. `localhost` resolves to one loopback address throughout. The
requests are those the interfaces make: the grants are theirs too, with the quarter
hours of `default_discovery_grant`; `plan` stands for callers of the planner's own
functions, because `mercury plan` itself authorizes nothing. An invocation whose
preview was neither shown nor authorized leaves nothing behind, so a second one is
modelled only after a first was shown.

`PeerAgent` is the agent's end of the channel: a frame is made once and may come on any
number of connections (`Connect`), late, early or cut. From reading a frame to calling
its handler there is no await, so that `Refused` and `Admitted` are one step with the
purge of the cache. The clock is read twice in that step, with the token file between:
the frame is found current by the first reading, the cache is purged by the second
(`ReadsClock`, `Purged`). `dispatched` and `admitted` count what the properties need. One
identity is modelled, as an agent has one; tokens, pins and a malformed frame are
`Unreadable`, and `read` stands for the two operations that ask for an owned correlation.

`CoverageExchange` is an assessment from above: `sender` holds for each direction and
profile where its send is or what evidence it left, `path` is what the network does to
it (passes, drops all, drops answers, refuses, accepts and cuts), which the program does
not see. `Connected` to `Cut` are the ways through `_send`; `Raises` is an exception no
clause takes, with what `gather` makes of it; `DurationOver` is the role's deadline.
`Arrives`, `Recorded` and `Expire` are the receivers, one window for each, which may close
at any time: all windows of a lease begin with it, while the sends are paced. `late`
remembers the sends that were not connected yet when theirs closed (`Unconnected`); the
program does not know of it. `Turns`, `ReadReceipts`, `StopReading`, `Conclude` and
`GivesUp` are the coordinator, whose requests are `PeerControl`'s; `Row` is the matrix.
`RowsTellThePath` says what a row is worth: a proof is one of the path, and a negative is
one of the path or of a late send. `NegativeIsOfThePath`, without that exception, is what
the documents say, and does not hold. Left out: `icmp_echo`, profiles of the local link, certificates that
do not verify, networks that are unreachable.

`WebTask` is what the broker promises of a task to who polls it. `WebBroker` has the
loop's queue of callbacks (`ready`), filled by threads (`Post`, `Delete`, `Close`) and by
what the loop waits for (`Arrives`, `ServiceEnds`), and one action per callback: the
closure of `submit`, `task.cancel`, the steps of `_execute` in each of its awaits, and
`stop`. `task` is the await it is in: the facade's own I/O, the first wait of
`TaskService.wait`, its loop after a cancellation, or the facade's shielded second wait.
A cancellation in the first wait sets the service's token and writes an event
(`PassesOn`); if that write fails, the error leaves the facade, its store is closed and
the service's task goes on by itself (`Orphan`), until `Drain` cancels it.
`Drain` and `Closed` are the end of the thread. What a task of `TaskService` does is
`TaskRecord`'s. `Dashboard` extends `WebTask` with the page: each `start` begins a chain
of polls, all of which ask for the one `activeTask`. `Hasty` says whether a user starts
a task before the last poll has ended, which the page does not prevent and under which
`ResultIsShown` fails; `Loses` whether requests may fail.

`Command` is `run_command` from its first await to its last (`pc`), with the child, its
pipes and what it leaves behind (`heir`) as environment, and `Cancel` at every await.

Operators named `X_something` next to a definition `X` are variants with a
plausible bug; no specification uses them. Each property of a passing run is shown
to fail when the variant takes the definition's place.

## 3. The runs

| Run | Instance | Question |
|---|---|---|
| `shared_history` | 2 processes, 1 new task and 1 of a version 1 database, retention of 1, failing writes, stalls | do row, log, acknowledgements and budget agree, is a returned result what is stored, does retention delete only what it may, is `TaskRecord` implemented |
| `leases` | 2 processes, 1 task, lateness at most `Slack`, crashes, faults, fair | is a live owner left alone; does the verdict end the log; is every task answered, does every row settle |
| `worker_pool` | 2 coroutines as a pool, or 1 as a diagnosis; 4 steps at 3 targets (the machine, a name, an address twice), one resolved by name, lease shorter than the plan; output ceilings that are met | rates, how long after the scope's end a slot is waited for, ceilings, quiet after cancellation, end of the pool; is an answer small enough, is it whole, is what is called healthy whole |
| `listener` | 2 connections, 2 datagrams, lease = deadline = 2, both Pythons, faults | evidence once, ports released, quiet after the verdict, every role ends |
| `receivers` | the registry: 2 calls for one correlation or two, a server and a datagram socket, failing binds, cancelled callers, both Pythons. Or an assessment: two pairs of profiles and four single ones, windows that close before or after the sends, every kind of path, mixed in one direction; a POSIX sender there, a Windows one in the other | open means registered, ended means closed; rows tell of the path or of a window that was over, acknowledgements have receipts; every listener and every assessment ends |
| `control` | one of five parts. The channel: a paired run or a coverage run of one profile, all faults, one restart of the peer. The agent: 2 frames, 2 connections, a cache of 1, lifetimes of 1 and 2, a skew of 1. The broker: 1 task, 3 cancellations, a close. The page: 2 tasks, failing requests. A command: buffers of 2, 3 bytes written to each, 2 cancellations | accepted means bound, a cancel is final, only live roles are polled; a frame is dispatched again only when it has expired, a fresh one is served; `WebTask` is implemented, a task that outlives its store is shown as failed; what ends is shown; what a command returns is true; the exchange, the broker's thread and the command end |
| `plans` | every interface, a network of two addresses, a name with three answers, quarter hours of two ticks | authorized stays valid, confirmed means shown, a socket goes where its own admission found the scope and DNS |
| `silent_role`, `late_cancel` | the listener and the control run without faults | findings, below |
| `late_send` | an assessment of two profiles with one receiver, one path for all | a finding, below |
| `unconfirmable`, `false_rotation` | one interface of `plans` | findings, below |

Two runs check components side by side that share no state. `Edges` (the control
channel, the agent, the broker, the page, a command) and `Coverage` (the registry and an
assessment; `MCCoverage` is its instance) declare the variables of each, a variable
`part` that is chosen at the start and says which of them goes on, and fairness for the
part that does. The others stay as they begin, so that each part's behaviours are those
of its own specification; that is proved too (`PartsBehave`, `HalvesBehave`).

Bounds and why they are enough. Two processes give every pair of conflicting
statements; a third would only repeat a role (a recovery, an owner, a reader). Two
tasks and room for one make retention choose; three rows add no new comparison to
its order. `MaxEvents` of 5 or 6 is at the limit from the first observations on, so
the budget is refused in many states. The clock passes the lease, its extension,
the age of retention and the deadline. In the pool, four steps, two of them
at one address, make both rates bind, two coroutines queue for the lock while one
sleeps, and the scope ends while slots are waited for. The four steps are the layers of
the smallest diagnosis that has a name and a second layer (snapshot, lookup, connect,
HTTP); the ceiling of a pool is met by the observations and what the end adds, so that
bounded and unfinalised results both happen. Two connections and two datagrams compete
for a step of which one can be claimed, before and after expiry, deadline and
cancellation at the same tick. Two calls of the registry meet on a correlation, or
only on the ports; two receivers are a first, whose handlers are waited for, and one
after it; leases of one and two ticks end before, between and after. One control run has one window and a grace of
one tick each, so that every place of the client is reached before, at and after its
deadline, the lease of each direction and the expiry of each frame. The clock bounds appear in the liveness properties:
what is due after `MaxTime` never comes in the model and is excepted there.
Symmetry is used for processes in safety runs only. Type invariants, and what else is proved and
no hazard by itself, are not checked again by the runs. In `plans` a scope of one quarter hour ends before, between and after authorization,
submission and admission, and one of several quarter hours spans two of them; an answer
of DNS shrinks, grows, changes and leaves the scope; one shown preview is enough, as
phrases of two are only ever compared with those of one plan. Of the agent a cache of one
is full with one frame, the second is refused for it, and either connection brings
either again at, before and after its expiry. Of an assessment two profiles are
enough for one to disturb the other, and to be late for a window that was in time for the
other: one pair shares a receiver, the other has nothing in common, a datagram and a
handshake. The profiles of the single requests differ in what they leave behind, and any
window may close at any time. A broker's queue holds what one task, its cancellations and a close
put there; the third cancellation finds a task that has swallowed one and been hit
by another. Two tasks let a page end or lose one and start the next. A child
writes less than the buffer takes, as much, and more, and a second
cancellation comes at each place of the cleanup of the first. Deadlock checking is off
where the work really ends: in all runs but those of the service.

Fairness. `Fairness` of `TaskService`: the event loop runs what is ready (weak
fairness of each continuation), the clock runs, commands end and Mercury is run
again (`Open`, `Exit`), and a recovery tried over and over is not cut short for ever
(strong fairness of `ScanOrphans` and `RecoverOne`, since crashes and failing writes
disable them again and again). Nothing is assumed of `Observe`, `Submit`, `Cancel`,
crashes or faults; a runner need not return, because `asyncio.timeout` ends it.
In `TaskContext` every coroutine that can run runs, and a probe or a resolution
answers, as both carry timeouts. In `PairedListener` and `CoverageLease` in addition
a handler's read ends with its timeout. In `PeerControl` the loops run who is ready,
frames that are not lost arrive, a role ends with its own timeouts and a client stops
reading an answer after ten seconds; nothing makes a fault happen or not.
In `CoverageExchange` a send is admitted and its timed wait ends, leases and the role's
duration end, and the coordinator goes on; of the network nothing is assumed, nor of a
connection that is being made. In `WebBroker` the loop goes on with its queue, its I/O
and the service's tasks end (`EveryTaskAnswered` is that of the service), and a thread
that waits with a timeout goes on. In `Dashboard` requests are answered or fail and
timers fire; that a task is settled is the broker's promise. In `Command` the loop runs
what is ready and two timers fire; the child may do nothing for ever.

### Findings

- `silent_role` (`paired.py:1565`): lease and deadline end together when `timeout_s`
  is whole. Expiry completes both steps with silence, but the runner is asleep for
  up to 10 ms, the deadline fires first, and the role is recorded as failed. With
  `timeout_s` of 1.0 and 2.0 the program does this every time, with 0.5 it does not.

- `late_cancel` (`paired.py:345`, and 602 for coverage): the cancel of the `finally`
  clause carries `control_expires_at`, which has passed whenever the run's own
  deadline has fired. The frame cannot be built, the error is swallowed, and the peer
  keeps the role's task and result for the life of the agent. A script with a client
  that records its requests shows it: after a timeout there is no cancel, after a
  failure of the local role there is one.

- `unconfirmable` (`planner.py:1390`): `validate_preview` recognises a sparse plan by two
  profile names, by step kinds and by differing payloads. The assessment of
  `mercury coverage` is sparse and has another name; with TCP or UDP profiles alone,
  which share one payload, it is recompiled as a product and refused by the call that
  made it. `mercury coverage --profiles tcp_tagged` fails this way; with `icmp_echo`
  in the list it does not. The same happens, the other way round, to a product of TCP
  and UDP with a payload, which is recompiled as sparse.
- `false_rotation` (`resolver.py:73`): the resolver sorts addresses as text, the recheck
  before a socket as numbers. A diagnosis of a name with 10.0.0.9 and 10.0.0.10 has
  each of its steps refused for a rotation of DNS that never happened.

- `late_send` (`paired.py:2219`): all windows of a lease begin together and last
  `timeout_s`, and the sends they are for are admitted one by one at the plan's rate. One
  that comes after its window is refused by a closed port on an open path, and its row
  becomes a direct negative of the path, while `.planning/TUNNEL-COVERAGE.md:18` calls a
  missing receiver a gap in the coverage and "not a negative reachability result"
  (`docs/EVIDENCE-SEMANTICS.md:98` has a direct negative as one of the profile). With the
  smallest `timeout_s` of 0.1 and ten attempts a second the second profile is already
  late.

Seen while modelling, and not checked by a run. Where a model has the behaviour, a
property that forbids it is refuted by TLC; it is stated here instead.

- When the timer of a rate slot and `cancel()` fall into one iteration of the event loop,
  `wait_or_timeout` (`tasks.py:354`) returns without another look at the token and a step
  is admitted after `cancel()` returned True.
- `mercury diagnose` with one name at two ports is refused, because both endpoints add
  the same lookup (`profiles.py:223`, `planner.py:1046`); a map with both UDP profiles is
  refused for its two payloads (`planner.py:1082`).
- A UDP socket that reports a reset leaves an observation of a kind that
  `_ALLOWED_EVIDENCE` does not list for its step, so that the runner fails
  (`probes.py:76`, `tasks.py:98`), which `TaskRun` has as a probe that leaves nothing.
- A connection that is closed before its answer raises `IncompleteReadError`, which no
  clause of `_send` takes (`paired.py:1735`): `gather` ends the role, and the rows of the
  other profiles are skipped although their paths are open (`Cut`, `Raises`), while
  `.planning/REQUIREMENTS.md:18` has profiles run independently.
- An `OSError` without an errno has its `winerror` taken (`paired.py:1998`), which only
  Windows has. On Linux a banner that is cut short, or a connection closed within the
  handshake, fails the role instead of being an execution error (`Cut`, with `Posix`).
- A connection is made without a timer (`paired.py:1721`). On a path that drops
  everything the role's deadline comes first, the profile leaves no evidence, and its row
  is skipped where `docs/EVIDENCE-SEMANTICS.md:99` has one for silence (`DurationOver`).
- `asyncio.start_server` listens before its last await (`paired.py:1328`). A cancellation
  there leaves a server that `start()` never received and `stop()` cannot close: the port
  stays open after the role's verdict (`Interrupted` at `startingTcp`), which is why
  `BoundPortsReleased` is about a role that has come to listen on both. A script that
  cancels the executor in that iteration of the loop shows the port listening on.
- A frame that comes again around its expiry may reach its handler twice
  (`peer.py:805`): it is current by the reading of the clock that authenticates it, and
  forgotten by the reading that purges the cache (`Admitted`). `OnceWhileCurrent` says that
  it has expired by then.
- `wait()` of `TaskService` answers its own cancellation with `cancel()`, unguarded
  (`tasks.py:1308`). While the database is locked, its event cannot be written
  (`tasks.py:1291`): `task.cancel()` and the loop that waits are skipped, the error leaves
  the facade, and the `with` statement closes the store under the task
  (`web/__init__.py:134`; `PassesOn`). `OrphanIsShown` says what is left of the promise: a
  cancellation was asked for, the token is set, and the page shows a failure.
- `PairedError` is none of the classes that the clauses of an agent's connection name
  (`peer.py:815`): a frame that was admitted and dispatched leaves no entry in the audit
  (`HandlerRaises`).
- `submit` of the broker raises after two seconds, and the closure it has queued runs the
  task afterwards (`web/__init__.py:126`; `Posted`, then `Schedule`). A loop that waits
  for SQLite's lock is busy for up to five.
- A second `start` takes the place of the first in `activeTask` (`app.js:164`). The first
  task's chain of polls then asks for the second, and its own result is never shown
  (`Start`, with `Hasty`).
- A task that was cancelled without a result has neither a result nor an error, which is
  what ends a poll (`app.js:172`): the page asks for it for ever (`Answered`, `Tick`).
- A cancellation within the cleanup of a timeout ends it before the pipes are closed
  (`platform/common.py:404`). A process the child left behind keeps them open (`Cancel`).

## 4. The proofs

All theorems hold for any sets of processes, tasks, coroutines and connections and
any values of the constants that satisfy the named assumptions of the modules.

- `TaskServiceProofs`: `TypeCorrect`, `OwnedCorrect`, `VerdictCorrect` (an action
  property), `DurableCorrect`, `CancelCorrect`. The durable result is not inductive
  alone: between `FinishRead` and `FinishWrite` another process may act, so the
  invariant relates each phase of an execution to its process, and each recorded
  phase to the row as `finish_task` left it; recovery closes only rows that are
  still what it read, and a closed row has neither owner nor lease.
- There too, `RetentionCorrect` (an action property): retention deletes a row only if it
  is too old, or if `max_tasks` rows at least as recent stay. The rows are finitely many
  (`FiniteInv`: those of a version 1 database, `MigratedAssumption`, and one more with
  each task), `(updated_at, task_id)` orders them strictly (`NewerOrders`), and fewer rows
  come before an earlier one (`BeforeShrinks`). So one of those beyond the limit is the
  first in this order (`FirstExcess`): all rows before it are kept, and they are
  `max_tasks` at least, which is what the code's `LIMIT -1 OFFSET ?` relies on.
- In the same module, `LeaseCorrect`: nobody recovers a task its owner is still
  running. It assumes `Punctual` and `2 * Slack < Grace`: a live execution then
  always has its row's lease ahead of its deadline by more than it can be late, and
  a snapshot of a recovery taken earlier no longer equals the row.
- There too, `RecordCorrect`: the service implements `TaskRecord`. Every way a row moves
  is one of the record's steps (`NextRowCourse`), and the rest is a stutter. It
  needs what the mapping makes of a row that is gone: a task nobody submitted has none,
  and a verdict that is not its owner's is the `failed` of a recovery (`RecordInv`).
- And of the log: `LogCorrect`, `LogEndCorrect` (this one also for `2 * Slack < Grace`) and
  `BudgetCorrect`. The log and the row move together (`NextLogCourse`), but
  `append_event` is two steps, so the invariants say who may be between them
  (`AppendInv`), and what an execution has appended when it takes itself for observed
  (`EvidenceInv`). The budget is a weight: what the log holds, what is on its way to it,
  and the one or two transitions its row has left. An append must be counted before it
  begins, except the cancelling one, for which the token is set once (`BudgetInv`).
- `TaskRunProofs`, of `TaskContext`: `ContextTypeCorrect`, `RateCorrect`, `ScopeCorrect`,
  `CompletionCorrect`, `QuietCorrect`. The heart is that whoever is inside `admit()`
  heads the lock's queue, so the deadlines its slot was computed from still stand
  when it wakes; they lie an interval past every attempt and never more than one
  ahead of the clock.
- In the same module, of `TaskRun`: `AnswersAreAccepted`, `RunIsContext`,
  `RunTypeCorrect`, `FitsCorrect`, `HealthyCorrect`, `WholeCorrect` (an action property). The first compares two tables of the code, of
  probes and of the context; the second says that a run is a behaviour of
  `TaskContext`, so that its invariant holds here too. What was observed was found,
  and what a coroutine has beyond its completed steps is its own step (`OwnInv`).
  `HealthyCorrect` is the hard one: the classifier does not see the task's state, and
  what would tell it of a cancellation or a failure is kept only if there is room. In a
  diagnosis there always is: the events are three and one for each thing found, and the
  bytes at most `Refusal` for each, which is what the plan has reserved
  (`DiagnosisAssumption`).
- And `RefusedCorrect`: a runner that goes on is never refused by its own budget, of
  steps or of concurrency. Each step in flight belongs to a coroutine that probes it, or
  has left it behind when it ended, and no two of them to the same one (`FlightInv`). So
  who asks for admission brings a step that is not yet admitted, which leaves fewer than
  `NSteps` that are, and the steps in flight belong to the others, who are fewer than
  the pool allows (`RoomToAdmit`, a pigeonhole). For an event the plan has reserved room
  (`PlanAssumption`). This is about all coroutines at once, whoever raises or is
  interrupted in between, until a verdict.
- `PairedListenerProofs`: `ListenerTypeCorrect`, `EvidenceCorrect`, `AnswerCorrect`,
  `ReleaseCorrect`, `QuietCorrect`, `SilenceCorrect`. The invariant says for each
  place of the runner which sockets are whose, what the ready event may be set with,
  and why nobody can claim a step after the verdict: the TCP step is claimed, or the
  token is set, or nothing listens and nobody reads. The last `stop()` can be cut
  short only by a second `CancelledError`, and one of two always sets the token.
- `CoverageProofs`, of the registry: `LeaseTypeCorrect`, `ReceiptCorrect`,
  `RegistryCorrect`, `GovernedCorrect`, `ClosedCorrect`. The registry has no lock; ports
  are what keeps two calls apart. The invariant says which sockets a call holds at each
  of its places, and that a start in time holds all receivers before the one it binds:
  when it binds the last, no other call listens anywhere, so none that is in the table
  with open receivers can lose its place.
- In the same module, of an assessment: `RowsTell` and `AckFetched`, whatever the windows
  do. A row compares what the sender saw with what the
  receiver recorded, which neither of them can do alone. The invariant says what each
  piece of evidence is worth: whatever proves something came over a path that passes it
  (`ProofTells`); while a role goes on, who has not sent yet finds the receiver open or is
  late for it, so that a refusal is one of the path or of a late send (`RefusalTells`); and an acknowledgement has its
  receipt recorded, and fetched if the coordinator has gone on (`AckIsFetched`).
  `RequestAssumption` is of the planner: only known profiles, and `tcp_connect` only
  together with the receiver whose port it uses. `HalvesBehave` takes what is proved of
  each half to the composition, where `OpenRegistered` and `EndedClosed` are corollaries.

- `EdgesProofs`, of the control channel: `ControlTypeCorrect`, `AcceptCorrect`,
  `ConfirmedCorrect`, `PendingCorrect` (an action property). Neither side sees the other's
  state, so the invariant says what a frame on its way and a handler that waits mean: a
  submit is made once and finds nothing of its correlation (`SubmitOnce`), a cancel is
  made only of what was answered `accepted` (`CancelLast`), so no submit is left when one
  is on its way; and an owned, accepted correlation is in one of the tables as long
  as the client reads (`TablesTell`).
- In the same module, of a command: `ChildTypeCorrect`, `OutcomeTrue`. A reader that is at
  the end of its stream holds all there is, as nobody is left who could write
  (`EofIsEnd`); and each place of `run_command` says what has become of the child and its
  pipes (`Place`), a second cancellation in the middle of the cleanup included.
- And of the composition: `PartsBehave` projects a behaviour of `Edges` to each part, so
  that what `PeerAgentProofs` and `WebBrokerProofs` prove of theirs becomes `RepeatExpired`,
  `FreshServed` and `OrphanShown`. The proof modules are instantiated with the variables
  of `Edges`; `AgentAssumption`, `BrokerAssumption` (finitely many tasks) and
  `ChildAssumption` give them what they assume of their constants.

- `WebBrokerProofs`: `OrphansAreShown`, `BrokerImplementsWebTask`. Both turn on the loop's
  queue, which may hold several callbacks of one task: a step, cancellations by DELETEs
  and by `close()`, and the end of an I/O. Until a task is hit by a cancellation, at most
  one of its steps is queued, and none while it waits for a task of `TaskService` that is
  running (`StepIsDue`); it is scheduled once (`ScheduledOnce`). So a task that comes out
  of `wait()` without having been hit finds the service's task done, and one that was hit
  stays in the loop of `wait()` until it is, or leaves it with the error of an event that
  could not be written: `service` is running after `_execute` only as an orphan, whose
  token is set and whose record is a failure (`OrphanIsShown`, which is part of its own
  invariant). For the refinement, the record says at each place what a poll shows
  (`RecordByPlace`), and whatever is cancelled was asked for by a DELETE or by the
  end of the broker (`CancelIsAsked`), so that each step shows what `WebTask` allows or
  nothing. `IsFiniteSet(Tasks)` is needed because the end of the loop queues one step for
  each task it cancels, as a sequence made of that set (`Drain`).

- `ProbePlanProofs`: `ValidCorrect`, `ConfirmedCorrect`, `OpensCorrect` (an action
  property). The invariant says that a plan's preview recompiles to itself, with a
  snapshot of DNS that is part of it: so neither the clock nor DNS takes that away,
  and each of its addresses was authorized by the compiler that validation chose,
  whichever it is (`RecompiledInScope`). Equal digests mean equal work (`DigestBinds`),
  which is where the abstraction of the hash matters. What waits for its slot has passed the
  check of its own admission, at the instant and with the answer it keeps (`AskedChecked`),
  and neither the clock nor DNS reaches it there.

- `PeerAgentProofs`: `CacheCorrect`, `RepeatsAreExpired`, `FreshFrameIsServed` (action
  properties both), under `AgentConstants`: the constants are numbers. The cache alone
  does not show that a frame is new, because it forgets. So the invariant says
  what its forgetting is worth: a frame that was admitted is either in the cache or has
  expired (`AdmittedIsRemembered`), and nothing else is in it (`EntryIsAdmitted`), so
  that its size counts the frames that are current.

Only model-checked: liveness under fairness (`EveryTaskAnswered`, `EveryRowSettles`,
`PoolEnds`, `RoleEnds`, `CoverageEnds`, `EdgesEnd`, `ResultIsShown`), and of
`ImplementsWebTask` the fairness half (`TaskFairness`, that what was submitted is
settled): `ENABLED` and fairness are out of the prover's reach. Every safety invariant and
action property that a passing run checks is a theorem as well.

The other way round, `OwnedWhileActive`, `VerdictIsFinal`, `CompletedIsWhole`,
`SilenceIsLate`, `AcceptedMeansBound`, `ReceiptOnce`, `ListenerIsGoverned` and the type invariants are
proved and in no run.
`VerdictEndsLog` is about a runner that has ended when its task is finalised; a pool
whose first exception ends the task may leave coroutines that still record, as
`TaskContext` shows.

## 5. Not modelled

Sockets, TLS, certificates, frame and report formats, native commands and their
parsing have no behaviour over time that these properties could be about; what starts
and ends a native command is `Command`. SQLite is taken as its transactions: a statement
happens or raises. Clocks are one clock: the wall clock and the monotonic clock of the
code do not drift apart here, except that the listener's expiry may wake up too early.
`OnceWhileCurrent` is about one agent, whose clock does not step back: the cache is not
stored, and expiries are wall-clock times. The A-to-B half of a paired run is a
sequential client with timeouts. Of coverage, `icmp_echo` and the profiles of the local
link send nothing to a receiver, and are one command each.

## 6. Plan

1. What `ProbePlan` leaves of the planner: the coalescing of networks, and the
   item reservations of each step against the plan's estimate.
2. What `TaskRun` leaves of `diagnosis.py`: several endpoints and native steps.
3. Safety of the page (`Dashboard`), which has only a liveness property so far.
