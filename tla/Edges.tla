--------------------------------- MODULE Edges ---------------------------------
(***************************************************************************)
(* The edges of the program, side by side: the control channel to a peer   *)
(* (PeerControl), the connections of an agent (PeerAgent), the broker of    *)
(* the web interface (WebBroker), its page (Dashboard) and a child process  *)
(* (Command).  They share no state.  A behaviour is one of one part, and    *)
(* the others stay as they begin.                                          *)
(***************************************************************************)
EXTENDS PeerControl, FiniteSets

CONSTANTS
    AgentNonces, AgentConns, AgentCorrs, Capacity, MaxLife, Skew, AgentMaxTime,
    WebTasks, MaxDeletes,                   \* of WebBroker
    Submissions, Hasty, Loses,              \* of Dashboard
    Maximum, Chunk, MaxWritten, MaxCancels  \* of Command

\* The numbers of _NonceCache and of the frames' times, the POSTs of a behaviour, and the
\* numbers of _read_bounded.
ASSUME AgentAssumption == {Capacity, MaxLife, Skew, AgentMaxTime} \subseteq Nat
ASSUME BrokerAssumption == IsFiniteSet(WebTasks)
ASSUME ChildAssumption == {Maximum, Chunk, MaxWritten, MaxCancels} \subseteq Nat

VARIABLES
    part,       \* the part that goes on
    agentNow, frames, conn, entries, agentOwned, audit, dispatched, admitted,
    state, stored, post, deletes, queue, loop, drained, task, hit, service, told,
    view, asked, open, posting, activeTask, chain, enabled, shown, lost,
    at, result, cancels, child, heir, writers, written, held, reader, pipes

Agent == INSTANCE PeerAgent WITH
    Nonces <- AgentNonces, Conns <- AgentConns, Corrs <- AgentCorrs,
    MaxTime <- AgentMaxTime, now <- agentNow, owned <- agentOwned

Broker == INSTANCE WebBroker WITH Tasks <- WebTasks, held <- stored, ready <- queue

Page == INSTANCE Dashboard WITH Tasks <- Submissions

Child == INSTANCE Command WITH pc <- at, outcome <- result

Parts == {"control", "agent", "broker", "page", "child"}
agentVars == <<agentNow, frames, conn, entries, agentOwned, audit, dispatched, admitted>>
brokerVars == <<state, stored, post, deletes, queue, loop, drained, task, hit, service, told>>
pageVars == <<view, asked, open, posting, activeTask, chain, enabled, shown, lost>>
childVars == <<at, result, cancels, child, heir, writers, written, held, reader, pipes>>
allVars == <<part, vars, agentVars, brokerVars, pageVars, childVars>>

\* A behaviour of PeerControl may begin with either kind of run.
EdgesInit ==
    /\ part \in Parts
    /\ Init /\ (part # "control" => leg = "p")
    /\ Agent!Init /\ Broker!Init /\ Page!Init /\ Child!Init

ControlStep ==
    /\ part = "control" /\ Next
    /\ UNCHANGED <<part, agentVars, brokerVars, pageVars, childVars>>
AgentStep ==
    /\ part = "agent" /\ Agent!Next
    /\ UNCHANGED <<part, vars, brokerVars, pageVars, childVars>>
BrokerStep ==
    /\ part = "broker" /\ Broker!Next
    /\ UNCHANGED <<part, vars, agentVars, pageVars, childVars>>
PageStep ==
    /\ part = "page" /\ Page!Next
    /\ UNCHANGED <<part, vars, agentVars, brokerVars, childVars>>
ChildStep ==
    /\ part = "child" /\ Child!Next
    /\ UNCHANGED <<part, vars, agentVars, brokerVars, pageVars>>

EdgesNext == ControlStep \/ AgentStep \/ BrokerStep \/ PageStep \/ ChildStep

\* The part that goes on is as fair as its own module says; of the agent nothing is
\* asked.
Control(A) == part = "control" /\ A
ControlFairness ==
    /\ WF_vars(Control(Tick)) /\ WF_vars(Control(Client))
    /\ WF_vars(Control(WaitReady)) /\ WF_vars(Control(GiveUp))
    /\ \A c \in Corrs : WF_vars(Control(Role(c)))
    /\ \A op \in Ops, c \in Corrs : WF_vars(Control(Handle(op, c)))

InBroker(A) == part = "broker" /\ A
BrokerFairness ==
    /\ WF_brokerVars(InBroker(Broker!Callback))
    /\ WF_brokerVars(InBroker(Broker!Drain)) /\ WF_brokerVars(InBroker(Broker!Closed))
    /\ \A t \in WebTasks :
          /\ WF_brokerVars(InBroker(Broker!Posted(t)))
          /\ WF_brokerVars(InBroker(Broker!Arrives(t)))
          /\ WF_brokerVars(InBroker(Broker!ServiceEnds(t)))

OnPage(A) == part = "page" /\ A
PageFairness ==
    \A t \in Submissions :
        /\ WF_pageVars(OnPage(Page!Started(t) \/ Page!Refused(t)))
        /\ WF_pageVars(OnPage(Page!Answered(t) \/ Page!Failed(t)))
        /\ WF_pageVars(OnPage(Page!Tick(t))) /\ WF_pageVars(OnPage(Page!Settling(t)))

InChild(A) == part = "child" /\ A
ChildFairness ==
    /\ WF_childVars(InChild(Child!Loop))
    /\ WF_childVars(InChild(Child!TimesOut)) /\ WF_childVars(InChild(Child!Reap))

EdgesFairness == ControlFairness /\ BrokerFairness /\ PageFairness /\ ChildFairness

EdgesSpec == EdgesInit /\ [][EdgesNext]_allVars /\ EdgesFairness

-----------------------------------------------------------------------------
\* PeerAgent: a frame that reaches a handler again, however often it comes, has expired.
OnceWhileCurrent == Agent!OnceWhileCurrent

\* PeerAgent: the replay cache refuses a frame that is new only while it is full of
\* frames that are current themselves.
FreshIsServed == Agent!FreshIsServed

\* WebBroker: a task of TaskService that is left running over a closed store was asked to
\* cancel, has its token set, and is shown as a failure.
OrphanIsShown == Broker!OrphanIsShown

\* WebBroker: what a poll of the broker sees is what WebTask promises.
ImplementsWebTask == Broker!ImplementsWebTask

\* Dashboard: what a task ends with is rendered, or the page was told of a failure.
ResultIsShown == Page!ResultIsShown

\* Command: a success is complete, a cleanup is done, and no child is left running.
OutcomeIsTrue == Child!OutcomeIsTrue

\* An exchange with a peer comes to its end and leaves nothing at work there, the
\* broker's thread ends when it is closed, and a command ends whatever its child does.
EdgesEnd ==
    /\ part = "control" => ExchangeEnds
    /\ Broker!CloseEnds
    /\ part = "child" => Child!CommandEnds
=============================================================================
