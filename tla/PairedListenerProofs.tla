------------------------- MODULE PairedListenerProofs -------------------------
(***************************************************************************)
(* Proofs about a listening role, for any number of connections and        *)
(* datagrams, any lease and deadline, with and without failing records,    *)
(* and for both ways a server may be closed.                               *)
(*                                                                         *)
(* The inductive invariant says what each place of the runner leaves open: *)
(* which sockets are still somebody's, what the submit handler may be      *)
(* told, and why nobody can claim a step once the role has its verdict.    *)
(***************************************************************************)
EXTENDS PairedListener, TLAPS

\* A step tells one story, of what was claimed.
FindingsInv ==
    /\ completed \subseteq claimed /\ claimed \subseteq Steps
    /\ evidence \in [Steps -> Seq({"arrived", "replied", "received"})]
    /\ \A s \in Steps : s \notin claimed => evidence[s] = << >>
    /\ EvidenceOnce

\* Before the sockets there is neither traffic nor expiry; the expiry task
\* exists once both are bound, and then the service holds what is open.
SocketInv ==
    /\ pc \in {"submitted", "pacing", "bindingTcp", "neverBegun"} =>
          listening = {} /\ Reading = {} /\ datagrams = 0
    /\ pc \in {"submitted", "pacing", "bindingTcp", "startingTcp", "bindingUdp", "neverBegun"} =>
          expiry = "none"
    /\ pc = "serving" => expiry # "none"
    /\ pc = "startingTcp" => listening = {"tcp"} /\ own = {}
    /\ pc = "bindingUdp" => listening = {"tcp"} /\ own = {"tcp"}
    /\ expiry = "none" => "udp" \notin listening /\ datagrams = 0
    /\ expiry # "none" => listening = own
    /\ expiry \in {"closing", "expired"} => own = {}
    /\ pc \in {"closing", "over", "neverBegun"} =>
          own = {} /\ datagrams = 0 /\ expiry \notin {"sleeping", "closing"}

\* A runner that leaves for good awaits its handlers only in the one stop()
\* that it has not done yet.
ExitInv ==
    pc = "closing" =>
       IF exit.inStart
       THEN expiry = "none" /\ exit.why \in {"failed", "interrupted"}
       ELSE expiry # "none" /\ exit.why # "failed"

\* The event is set with an error, or by a role whose sockets are bound.
AnswerInv ==
    /\ ready /\ waiter = "waiting" /\ expiry = "none" => readyError
    /\ waiter = "accepted" => expiry # "none"

\* Who asked for the runner to be cancelled: the canceller set the token too.
RequestInv ==
    /\ "cancel" \in requested => token
    /\ pending => requested # {}

\* A runner whose last stop() may still be cut short has its TCP step
\* claimed, or the token set, or can only be interrupted by who sets it.
LeavingInv ==
    pc = "closing" /\ ~exit.inStart =>
       \/ token
       \/ "tcp" \in claimed
       \/ exit.why = "interrupted" /\ "deadline" \in requested /\ ~pending

\* Nobody is left who could still record anything.
SettledInv ==
    /\ verdict # "none" <=> pc \in {"over", "neverBegun"}
    /\ verdict # "none" =>
          \/ token
          \/ "tcp" \in claimed
          \/ listening = {} /\ Reading = {}

RoleInv == TypeOK /\ FindingsInv /\ SocketInv /\ ExitInv /\ AnswerInv /\ RequestInv
                  /\ LeavingInv /\ SettledInv

USE LeaseAssumption, FaultAssumption

-----------------------------------------------------------------------------
(* What is recorded of a step.                                             *)

\* The stories a role can tell of one step of its plan.
LEMMA StoryTypes ==
    /\ << >> \in Seq({"arrived", "replied", "received"})
    /\ <<"arrived">> \in Seq({"arrived", "replied", "received"})
    /\ <<"received">> \in Seq({"arrived", "replied", "received"})
    /\ <<"arrived", "replied">> \in Seq({"arrived", "replied", "received"})
OBVIOUS

\* How the first evidence of a step begins its story.
LEMMA StoryBegins ==
    /\ Append(<< >>, "received") = <<"received">>
    /\ Append(<< >>, "arrived") = <<"arrived">>
    /\ << >> \o <<"arrived", "replied">> = <<"arrived", "replied">>
OBVIOUS

\* Traffic that arrives is told once, of a step nobody has claimed yet.
LEMMA ArriveKeepsFindings ==
    ASSUME FindingsInv, NEW s \in Steps, Arrive(s)
    PROVE  FindingsInv'
<1>1. s \notin claimed /\ claimed' = claimed \cup {s} /\ evidence[s] = << >>
    BY DEF Arrive, Claim, FindingsInv
<1>2. /\ \/ evidence' = [evidence EXCEPT ![s] = <<"arrived", "replied">>]
            /\ completed' = completed \cup {s}
         \/ evidence' = [evidence EXCEPT ![s] = <<"arrived">>] /\ completed' = completed
         \/ evidence' = evidence /\ completed' = completed
    <2>1. evidence \in [Steps -> Seq({"arrived", "replied", "received"})]
        BY DEF FindingsInv
    <2>2. [evidence EXCEPT ![s] = @ \o <<"arrived", "replied">>]
             = [evidence EXCEPT ![s] = <<"arrived", "replied">>]
        BY <1>1, <2>1, StoryBegins
    <2>3. [evidence EXCEPT ![s] = Append(@, "arrived")] = [evidence EXCEPT ![s] = <<"arrived">>]
        BY <1>1, <2>1, StoryBegins
    <2> QED BY <2>2, <2>3 DEF Arrive
<1> QED BY <1>1, <1>2, StoryTypes DEF FindingsInv, EvidenceOnce

\* Silence is recorded once, and TCP is claimed by then.
LEMMA SilenceKeepsFindings ==
    ASSUME FindingsInv, NEW lost, NEW tries, RecordSilence(lost, tries)
    PROVE  FindingsInv' /\ "tcp" \in claimed'
<1> DEFINE left == IF "tcp" \in lost /\ tries = 1 THEN {"udp"} ELSE {}
           done == Steps \ (claimed \cup lost \cup left)
<1>1. /\ claimed' = claimed \cup (Steps \ left) /\ completed' = completed \cup done
      /\ evidence' = [s \in Steps |-> IF s \in done THEN Append(evidence[s], "received")
                                      ELSE evidence[s]]
    BY DEF RecordSilence
<1>2. "tcp" \in claimed' /\ claimed' \subseteq Steps /\ claimed \subseteq claimed'
    BY <1>1 DEF Steps, FindingsInv
<1>3. completed' \subseteq claimed' /\ done \cap claimed = {} /\ done \subseteq claimed'
    BY <1>1 DEF FindingsInv
<1>4. \A s \in Steps : evidence'[s] = IF s \in done THEN <<"received">> ELSE evidence[s]
    BY <1>1, <1>3, StoryBegins DEF FindingsInv
<1>5. evidence' \in [Steps -> Seq({"arrived", "replied", "received"})]
    <2>1. \A s \in Steps : evidence'[s] \in Seq({"arrived", "replied", "received"})
        BY <1>4, StoryTypes DEF FindingsInv
    <2>2. evidence' = [s \in Steps |-> evidence'[s]]
        BY <1>1
    <2> QED BY <2>1, <2>2
<1> HIDE DEF done, left
<1>6. \A s \in Steps : s \notin claimed' => evidence'[s] = << >>
    BY <1>2, <1>3, <1>4 DEF FindingsInv
<1>7. EvidenceOnce'
    BY <1>1, <1>3, <1>4 DEF FindingsInv, EvidenceOnce
<1> QED BY <1>2, <1>3, <1>5, <1>6, <1>7 DEF FindingsInv

-----------------------------------------------------------------------------
\* A role that has not begun satisfies the invariant.
LEMMA RoleInit == Init => RoleInv
<1> SUFFICES ASSUME Init PROVE RoleInv
    OBVIOUS
<1>1. TypeOK
    <2>1. evidence \in [Steps -> Seq({"arrived", "replied", "received"})]
        BY StoryTypes DEF Init
    <2>2. 0 \in 0..MaxDatagrams
        OBVIOUS
    <2>3. exit \in [why: Reasons, inStart: BOOLEAN]
        BY DEF Init, Reasons
    <2> QED BY <2>1, <2>2, <2>3 DEF Init, TypeOK, Places
<1>2. FindingsInv
    BY StoryTypes DEF Init, FindingsInv, EvidenceOnce, Steps
<1>3. SocketInv /\ ExitInv /\ AnswerInv /\ RequestInv /\ LeavingInv /\ SettledInv
    BY DEF Init, SocketInv, ExitInv, AnswerInv, RequestInv, LeavingInv, SettledInv, Reading
<1> QED BY <1>1, <1>2, <1>3 DEF RoleInv

\* Whatever ends a role gives it one of the three verdicts.
LEMMA VerdictTypes ==
    ASSUME NEW why \in Reasons
    PROVE  Verdict(why) \in {"completed", "failed", "cancelled"}
BY DEF Verdict, Reasons

\* The end of the runner, its sockets closed: the silence is recorded, and
\* the submit handler has something to find.
LEMMA FinishKeeps ==
    ASSUME RoleInv, NEW why \in Reasons, NEW tries, Finish(why, tries), Leaves(why),
           verdict = "none", own' = {}, own = {} => listening' = listening,
           listening' = listening \ own, datagrams' = 0,
           expiry' \in {"none", "expired", "over"}, expiry' = "none" <=> expiry = "none",
           why = "returned" => expiry # "none",
           requested' \subseteq {"cancel", "deadline"}, requested' = requested,
           pending' \in BOOLEAN, pending' => pending,
           waits' = waits, now' = now, token' = token, conn' = conn, waiter' = waiter
    PROVE  RoleInv'
<1>1. PICK lost \in Losses : RecordSilence(lost, tries)
                           /\ End(IF lost = {} THEN why ELSE "failed")
    BY DEF Finish
<1>2. FindingsInv' /\ "tcp" \in claimed'
    BY <1>1, SilenceKeepsFindings DEF RoleInv
<1>3. pc' = "over" /\ verdict' \in {"completed", "failed", "cancelled"}
      /\ exit' = exit /\ deadline' = deadline
    BY <1>1, VerdictTypes DEF End, Reasons
<1>4. TypeOK'
    <2>1. listening' \subseteq Steps /\ own' \subseteq listening' /\ 0 \in 0..MaxDatagrams
        BY DEF RoleInv, TypeOK
    <2>2. ready' \in BOOLEAN /\ readyError' \in BOOLEAN
        BY DEF Leaves, RoleInv, TypeOK
    <2>3. completed' \subseteq Steps
        BY <1>2 DEF FindingsInv
    <2> QED BY <1>2, <1>3, <2>1, <2>2, <2>3 DEF RoleInv, TypeOK, FindingsInv, Places
<1>5. SocketInv'
    BY <1>3 DEF RoleInv, SocketInv, TypeOK
<1>6. AnswerInv'
    BY DEF RoleInv, AnswerInv, Leaves, TypeOK
<1>7. RequestInv'
    BY DEF RoleInv, RequestInv
<1> QED BY <1>2, <1>3, <1>4, <1>5, <1>6, <1>7
        DEF RoleInv, ExitInv, LeavingInv, SettledInv

\* stop(), which waits for its handlers or ends the runner.
LEMMA StopKeeps ==
    ASSUME RoleInv, NEW why \in Reasons, NEW inStart \in BOOLEAN, NEW tries,
           Stop(why, inStart, tries),
           pc \in {"pacing", "bindingTcp", "startingTcp", "bindingUdp", "serving"},
           why = "returned" => expiry # "none",
           inStart => expiry = "none" /\ why \in {"failed", "interrupted"},
           ~inStart => why # "failed" /\ (own # {} => expiry # "none"),
           pending' \in BOOLEAN, pending' => pending,
           ~inStart => \/ token \/ "tcp" \in claimed
                       \/ why = "interrupted" /\ "deadline" \in requested /\ ~pending'
    PROVE  RoleInv'
<1>1. /\ listening' = listening \ own /\ own' = {} /\ datagrams' = 0
      /\ expiry' \in {"none", "expired", "over"} /\ (expiry' = "none" <=> expiry = "none")
      /\ waits' = waits /\ now' = now /\ token' = token /\ requested' = requested
      /\ conn' = conn /\ waiter' = waiter
    BY DEF Stop, CloseSockets, RoleInv, TypeOK
<1>2. verdict = "none"
    BY DEF RoleInv, SettledInv
<1>3. CASE ~MustWait
    <2>1. Leaves(why) /\ Finish(why, tries)
        BY <1>3 DEF Stop
    <2> QED BY <1>1, <1>2, <2>1, FinishKeeps DEF RoleInv, TypeOK
<1>4. CASE MustWait
    <2>1. /\ pc' = "closing" /\ exit' = [why |-> why, inStart |-> inStart]
          /\ IF inStart THEN UNCHANGED <<ready, readyError>> ELSE Leaves(why)
          /\ deadline' = deadline /\ verdict' = verdict
          /\ claimed' = claimed /\ evidence' = evidence /\ completed' = completed
        BY <1>4 DEF Stop, findings
    <2>2. own # {}
        BY <1>4 DEF MustWait
    <2>3. TypeOK'
        <3>1. ready' \in BOOLEAN /\ readyError' \in BOOLEAN
            BY <2>1 DEF Leaves, RoleInv, TypeOK
        <3>2. 0 \in 0..MaxDatagrams
            BY DEF TypeOK
        <3> QED BY <1>1, <2>1, <3>1, <3>2 DEF RoleInv, TypeOK, Places
    <2>4. FindingsInv'
        BY <2>1 DEF RoleInv, FindingsInv, EvidenceOnce
    <2>5. SocketInv'
        BY <1>1, <2>1 DEF RoleInv, SocketInv, TypeOK
    <2>6. ExitInv' /\ LeavingInv'
        BY <1>1, <2>1, <2>2 DEF ExitInv, LeavingInv
    <2>7. AnswerInv'
        BY <1>1, <2>1 DEF RoleInv, AnswerInv, Leaves
    <2>8. RequestInv' /\ SettledInv'
        BY <1>1, <1>2, <2>1 DEF RoleInv, RequestInv, SettledInv
    <2> QED BY <2>3, <2>4, <2>5, <2>6, <2>7, <2>8 DEF RoleInv
<1> QED BY <1>3, <1>4

-----------------------------------------------------------------------------
(* The steps of the runner.                                                *)

\* From the task to the first socket.
LEMMA StartKeeps ==
    ASSUME RoleInv, NeverBegins \/ Begin \/ TcpStarted
    PROVE  RoleInv'
<1>1. CASE NeverBegins
    <2>1. TypeOK' /\ FindingsInv'
        BY <1>1 DEF NeverBegins, At, RoleInv, TypeOK, FindingsInv, EvidenceOnce, Places,
                    control, sockets, traffic, findings, answer
    <2>2. SocketInv' /\ ExitInv' /\ AnswerInv' /\ RequestInv' /\ LeavingInv' /\ SettledInv'
        BY <1>1 DEF NeverBegins, At, RoleInv, TypeOK, SocketInv, ExitInv, AnswerInv, RequestInv,
                    LeavingInv, SettledInv, Reading,
                    control, sockets, traffic, findings, answer
    <2> QED BY <2>1, <2>2 DEF RoleInv
<1>2. CASE Begin
    <2>1. /\ pc = "submitted" /\ own = {} /\ listening = {} /\ Reading = {}
          /\ datagrams = 0 /\ expiry = "none" /\ verdict = "none"
        BY <1>2 DEF Begin, At, RoleInv, TypeOK, SocketInv, SettledInv
    <2>2. UNCHANGED <<waits, now, token, requested, pending, listening, own, expiry,
                      conn, datagrams, claimed, evidence, completed, waiter>>
        BY <1>2 DEF Begin, control, sockets, traffic, findings
    <2> DEFINE Paces == /\ pc' = "pacing" /\ verdict' = "none"
                        /\ ready' = ready /\ readyError' = readyError
               Fails == pc' = "over" /\ verdict' = "failed" /\ ready' /\ readyError'
    <2>3. exit' = exit /\ deadline' \in Nat /\ ready' \in BOOLEAN /\ readyError' \in BOOLEAN
          /\ (Paces \/ Fails)
        <3>1. ASSUME pc' = "pacing", deadline' = now + Duration,
                     UNCHANGED <<exit, verdict, ready, readyError>>
              PROVE  deadline' \in Nat /\ Paces
            BY <2>1, <3>1 DEF RoleInv, TypeOK
        <3>2. ASSUME Leaves("failed"), End("failed")
              PROVE  exit' = exit /\ deadline' = deadline /\ Fails
            BY <3>2 DEF Leaves, End, Verdict
        <3> QED BY <1>2, <3>1, <3>2 DEF Begin, RoleInv, TypeOK
    <2>4. FindingsInv'
        BY <2>2 DEF RoleInv, FindingsInv, EvidenceOnce
    <2>5. TypeOK'
        BY <2>2, <2>3 DEF RoleInv, TypeOK, Places
    <2>6. SocketInv' /\ Reading' = {}
        BY <2>1, <2>2, <2>3 DEF SocketInv, Reading
    <2>7. RequestInv' /\ AnswerInv'
        BY <2>1, <2>2, <2>3 DEF RoleInv, RequestInv, AnswerInv
    <2>8. ExitInv' /\ LeavingInv' /\ SettledInv'
        BY <2>1, <2>2, <2>3, <2>6 DEF ExitInv, LeavingInv, SettledInv
    <2> QED BY <2>4, <2>5, <2>6, <2>7, <2>8 DEF RoleInv
<1>3. CASE TcpStarted
    <2>1. TypeOK' /\ FindingsInv'
        BY <1>3 DEF TcpStarted, At, RoleInv, TypeOK, SocketInv, FindingsInv, EvidenceOnce,
                    Places, control, traffic, findings, answer
    <2>2. SocketInv' /\ ExitInv' /\ AnswerInv' /\ RequestInv' /\ LeavingInv' /\ SettledInv'
        BY <1>3 DEF TcpStarted, At, RoleInv, SocketInv, ExitInv, AnswerInv, RequestInv,
                    LeavingInv, SettledInv, Reading, control, traffic, findings, answer
    <2> QED BY <2>1, <2>2 DEF RoleInv
<1> QED BY <1>1, <1>2, <1>3

\* From the pacing to the sockets.
LEMMA BindKeeps ==
    ASSUME RoleInv, Paced \/ ListenTcp \/ BindUdp
    PROVE  RoleInv'
<1>1. ASSUME Paced, ~token PROVE RoleInv'
    <2>1. /\ pc = "pacing" /\ pc' = "bindingTcp"
          /\ UNCHANGED <<waits, now, token, requested, pending, exit, deadline, verdict,
                         sockets, traffic, findings, answer>>
        BY <1>1 DEF Paced, At
    <2>2. TypeOK' /\ FindingsInv'
        BY <2>1 DEF RoleInv, TypeOK, FindingsInv, EvidenceOnce,
                    Places, sockets, traffic, findings, answer
    <2>3. SocketInv' /\ ExitInv' /\ AnswerInv' /\ RequestInv' /\ LeavingInv' /\ SettledInv'
        BY <2>1 DEF RoleInv, SocketInv, ExitInv, AnswerInv, RequestInv,
                    LeavingInv, SettledInv, Reading, sockets, traffic, findings, answer
    <2> QED BY <2>2, <2>3 DEF RoleInv
<1>2. ASSUME Paced, token PROVE RoleInv'
    <2>1. own = {} /\ pc = "pacing"
        BY <1>2 DEF Paced, At, RoleInv, TypeOK, SocketInv
    <2> QED BY <1>2, <2>1, StopKeeps DEF Paced, Reasons, RoleInv, TypeOK
<1>3. ASSUME At("bindingTcp"), UNCHANGED pending, Stop("failed", TRUE, 2) PROVE RoleInv'
    <2>1. expiry = "none"
        BY <1>3 DEF At, RoleInv, SocketInv
    <2> QED BY <1>3, <2>1, StopKeeps DEF At, Reasons, RoleInv, TypeOK
<1>4. ASSUME At("bindingUdp"), UNCHANGED pending, Stop("failed", TRUE, 2) PROVE RoleInv'
    <2>1. expiry = "none"
        BY <1>4 DEF At, RoleInv, SocketInv
    <2> QED BY <1>4, <2>1, StopKeeps DEF At, Reasons, RoleInv, TypeOK
<1>5. ASSUME ListenTcp, pc' = "startingTcp" PROVE RoleInv'
    <2>1. /\ listening' = listening \cup {"tcp"}
          /\ UNCHANGED <<waits, now, token, requested, pending, exit, deadline, verdict, own,
                         expiry, traffic, findings, answer>>
        BY <1>5 DEF ListenTcp, Stop, Finish, End
    <2>2. pc = "bindingTcp" /\ own = {} /\ listening = {}
        BY <1>5 DEF ListenTcp, At, RoleInv, SocketInv, TypeOK
    <2>3. TypeOK' /\ FindingsInv'
        BY <1>5, <2>1, <2>2 DEF RoleInv, TypeOK, FindingsInv, EvidenceOnce, Places, Steps,
                    traffic, findings, answer
    <2>4. SocketInv' /\ ExitInv' /\ AnswerInv' /\ RequestInv' /\ LeavingInv' /\ SettledInv'
        BY <1>5, <2>1, <2>2 DEF RoleInv, SocketInv, ExitInv, AnswerInv, RequestInv,
                    LeavingInv, SettledInv, Reading, traffic, findings, answer
    <2> QED BY <2>3, <2>4 DEF RoleInv
<1>6. ASSUME BindUdp, pc' = "serving" PROVE RoleInv'
    <2>1. /\ listening' = listening \cup {"udp"} /\ own' = own \cup {"udp"}
          /\ expiry' = "sleeping" /\ ready' = TRUE
          /\ UNCHANGED <<waits, now, token, requested, pending, exit, deadline, verdict,
                         traffic, findings, readyError, waiter>>
        BY <1>6 DEF BindUdp, Stop, Finish, End
    <2>2. pc = "bindingUdp" /\ own = {"tcp"} /\ listening = {"tcp"}
        BY <1>6 DEF BindUdp, At, RoleInv, SocketInv, TypeOK
    <2>3. TypeOK' /\ FindingsInv'
        BY <1>6, <2>1, <2>2 DEF RoleInv, TypeOK, FindingsInv, EvidenceOnce, Places, Steps,
                    traffic, findings
    <2>4. SocketInv' /\ ExitInv' /\ AnswerInv' /\ RequestInv' /\ LeavingInv' /\ SettledInv'
        BY <1>6, <2>1, <2>2 DEF RoleInv, SocketInv, ExitInv, AnswerInv, RequestInv,
                    LeavingInv, SettledInv, Reading, traffic, findings
    <2> QED BY <2>3, <2>4 DEF RoleInv
<1> QED BY <1>1, <1>2, <1>3, <1>4, <1>5, <1>6 DEF Paced, ListenTcp, BindUdp

\* The role leaves its loop because all is completed or the lease has ended.
LEMMA LeaveKeeps ==
    ASSUME RoleInv, Poll \/ Closed
    PROVE  RoleInv'
<1>1. ASSUME At("serving"), UNCHANGED pending, completed = Steps, Stop("returned", FALSE, 1)
      PROVE  RoleInv'
    <2>1. expiry # "none" /\ "tcp" \in claimed
        BY <1>1 DEF At, RoleInv, SocketInv, FindingsInv, Steps
    <2> QED BY <1>1, <2>1, StopKeeps DEF At, Reasons, RoleInv, TypeOK
<1>2. ASSUME At("serving"), UNCHANGED pending, token, Stop("cancelled", FALSE, 1)
      PROVE  RoleInv'
    <2>1. expiry # "none"
        BY <1>2 DEF At, RoleInv, SocketInv
    <2> QED BY <1>2, <2>1, StopKeeps DEF At, Reasons, RoleInv, TypeOK
<1>3. CASE Closed
    <2> DEFINE why == exit.why
               tries == IF exit.inStart /\ exit.why = "failed" THEN 2 ELSE 1
    <2>1. pc = "closing" /\ Leaves(why) /\ Finish(why, tries)
          /\ UNCHANGED <<waits, now, control, sockets, traffic, waiter>>
        BY <1>3 DEF Closed, At
    <2>2. own = {} /\ datagrams = 0 /\ expiry \in {"none", "expired", "over"}
        BY <2>1 DEF RoleInv, SocketInv, TypeOK
    <2>3. why \in Reasons /\ (why = "returned" => expiry # "none") /\ verdict = "none"
        BY <2>1 DEF RoleInv, TypeOK, ExitInv, SettledInv
    <2> HIDE DEF why, tries
    <2> QED BY <2>1, <2>2, <2>3, FinishKeeps
            DEF control, sockets, traffic, RoleInv, TypeOK
<1> QED BY <1>1, <1>2, <1>3 DEF Poll

\* The role is interrupted wherever it is.
LEMMA InterruptedKeeps ==
    ASSUME RoleInv, Interrupted
    PROVE  RoleInv'
<1>1. pending' = FALSE /\ (token \/ "deadline" \in requested)
    BY DEF Interrupted, RoleInv, RequestInv, TypeOK
<1>2. ASSUME pc = "pacing", Stop("interrupted", FALSE, 1) PROVE RoleInv'
    <2>1. own = {}
        BY <1>2 DEF RoleInv, SocketInv, TypeOK
    <2> QED BY <1>1, <1>2, <2>1, StopKeeps DEF Reasons
<1>3. ASSUME pc \in {"bindingTcp", "startingTcp", "bindingUdp"}, Stop("interrupted", TRUE, 1)
      PROVE  RoleInv'
    <2>1. expiry = "none"
        BY <1>3 DEF RoleInv, SocketInv
    <2> QED BY <1>1, <1>3, <2>1, StopKeeps DEF Reasons
<1>4. ASSUME pc = "serving", Stop("interrupted", FALSE, 1) PROVE RoleInv'
    <2>1. expiry # "none"
        BY <1>4 DEF RoleInv, SocketInv
    <2> QED BY <1>1, <1>4, <2>1, StopKeeps DEF Reasons
<1>5. ASSUME pc = "closing", Leaves("interrupted"), Finish("interrupted", 1),
             UNCHANGED <<waits, now, token, requested, sockets, traffic, waiter>>
      PROVE  RoleInv'
    <2>1. own = {} /\ datagrams = 0 /\ expiry \in {"none", "expired", "over"}
          /\ verdict = "none"
        BY <1>5 DEF RoleInv, SocketInv, TypeOK, SettledInv
    <2> QED BY <1>1, <1>5, <2>1, FinishKeeps DEF Reasons, sockets, traffic, RoleInv, TypeOK
<1>6. ASSUME pc = "closing", ~exit.inStart, pending, End("interrupted"),
             UNCHANGED <<waits, now, token, requested, sockets, traffic, findings, answer>>
      PROVE  RoleInv'
    <2>1. token \/ "tcp" \in claimed
        BY <1>6 DEF RoleInv, LeavingInv
    <2>2. pc' = "over" /\ verdict' \in {"completed", "failed", "cancelled"}
          /\ exit' = exit /\ deadline' = deadline
        BY <1>6, VerdictTypes DEF End, Reasons
    <2>3. TypeOK' /\ FindingsInv'
        BY <1>1, <1>6, <2>2 DEF RoleInv, TypeOK, FindingsInv, EvidenceOnce, Places,
                    sockets, traffic, findings, answer
    <2>4. SocketInv' /\ ExitInv' /\ AnswerInv' /\ RequestInv' /\ LeavingInv'
        BY <1>1, <1>6, <2>2 DEF RoleInv, SocketInv, ExitInv, AnswerInv, RequestInv,
                    LeavingInv, sockets, traffic, findings, answer
    <2>5. SettledInv'
        BY <1>6, <2>1, <2>2 DEF SettledInv, findings
    <2> QED BY <2>3, <2>4, <2>5 DEF RoleInv
<1> QED BY <1>2, <1>3, <1>4, <1>5, <1>6 DEF Interrupted

-----------------------------------------------------------------------------
(* The steps around the runner.                                            *)

\* The clock and the callers of the role.
LEMMA AroundKeeps ==
    ASSUME RoleInv, Tick \/ Cancel \/ TimesOut \/ Answer
    PROVE  RoleInv'
<1>1. CASE Tick
    BY <1>1 DEF Tick, RoleInv, TypeOK, FindingsInv, EvidenceOnce, SocketInv, ExitInv,
                AnswerInv, RequestInv, LeavingInv, SettledInv, Reading,
                control, runner, sockets, traffic, findings, answer
<1>2. CASE Cancel
    <2>1. FindingsInv' /\ RequestInv'
        BY <1>2 DEF Cancel, RoleInv, FindingsInv, EvidenceOnce, RequestInv, findings
    <2>3. TypeOK'
        <3>1. token' \in BOOLEAN /\ pending' \in BOOLEAN
              /\ requested' \subseteq {"cancel", "deadline"}
            BY <1>2 DEF Cancel, RoleInv, TypeOK
        <3> QED BY <1>2, <3>1 DEF Cancel, RoleInv, TypeOK,
                    runner, sockets, traffic, findings, answer
    <2>2. SocketInv' /\ ExitInv' /\ AnswerInv' /\ LeavingInv' /\ SettledInv'
        BY <1>2 DEF Cancel, RoleInv, SocketInv, ExitInv, AnswerInv, LeavingInv, SettledInv,
                    Reading, runner, sockets, traffic, findings, answer
    <2> QED BY <2>1, <2>2, <2>3 DEF RoleInv
<1>3. CASE TimesOut
    <2>1. TypeOK' /\ FindingsInv' /\ RequestInv'
        BY <1>3 DEF TimesOut, RoleInv, TypeOK, FindingsInv, EvidenceOnce, RequestInv,
                    runner, sockets, traffic, findings, answer
    <2>2. SocketInv' /\ ExitInv' /\ AnswerInv' /\ LeavingInv' /\ SettledInv'
        BY <1>3 DEF TimesOut, RoleInv, SocketInv, ExitInv, AnswerInv, LeavingInv, SettledInv,
                    Reading, runner, sockets, traffic, findings, answer
    <2> QED BY <2>1, <2>2 DEF RoleInv
<1>4. CASE Answer
    <2>1. TypeOK' /\ FindingsInv' /\ RequestInv'
        BY <1>4 DEF Answer, RoleInv, TypeOK, FindingsInv, EvidenceOnce, RequestInv,
                    control, runner, sockets, traffic, findings
    <2>2. SocketInv' /\ ExitInv' /\ LeavingInv' /\ SettledInv'
        BY <1>4 DEF Answer, RoleInv, SocketInv, ExitInv, LeavingInv, SettledInv,
                    Reading, control, runner, sockets, traffic, findings
    <2>3. AnswerInv'
        BY <1>4 DEF Answer, RoleInv, AnswerInv, sockets
    <2> QED BY <2>1, <2>2, <2>3 DEF RoleInv
<1> QED BY <1>1, <1>2, <1>3, <1>4

\* The expiry task, before and after it has waited for the handlers.
LEMMA ExpiryKeeps ==
    ASSUME RoleInv, Expire \/ ExpiryCloses
    PROVE  RoleInv'
<1>1. /\ pc = "serving" /\ listening = own /\ expiry \in {"sleeping", "closing"}
      /\ expiry = "closing" => own = {}
    BY DEF Expire, ExpiryCloses, RoleInv, TypeOK, SocketInv, Places
<1>2. UNCHANGED <<waits, now, control, runner, conn, answer>>
    BY DEF Expire, ExpiryCloses, traffic
<1>3. \/ /\ listening' = {} /\ own' = {} /\ datagrams' = 0
         /\ expiry' \in {"closing", "expired"}
      \/ /\ UNCHANGED <<listening, own, datagrams>>
         /\ own = {} \/ expiry' = "over"
         /\ expiry' \in {"expired", "over"}
    BY <1>1 DEF Expire, ExpiryCloses, CloseSockets, traffic
<1>4. FindingsInv' /\ claimed \subseteq claimed'
    <2>1. CASE UNCHANGED findings
        BY <2>1 DEF findings, RoleInv, FindingsInv, EvidenceOnce
    <2>2. CASE \E lost \in Losses : RecordSilence(lost, 1)
        <3>1. claimed \subseteq claimed'
            BY <2>2 DEF RecordSilence
        <3> QED BY <2>2, <3>1, SilenceKeepsFindings DEF RoleInv
    <2> QED BY <2>1, <2>2 DEF Expire, ExpiryCloses
<1>5. TypeOK'
    <2>1. 0 \in 0..MaxDatagrams
        BY DEF TypeOK
    <2>2. completed' \subseteq Steps
        BY <1>4 DEF FindingsInv
    <2> QED BY <1>1, <1>2, <1>3, <1>4, <2>1, <2>2 DEF RoleInv, TypeOK, FindingsInv,
               control, runner, answer
<1>6. SocketInv' /\ SettledInv'
    BY <1>1, <1>2, <1>3 DEF RoleInv, SocketInv, SettledInv, TypeOK, control, runner
<1>7. ExitInv' /\ LeavingInv' /\ AnswerInv' /\ RequestInv'
    BY <1>1, <1>2, <1>3 DEF RoleInv, ExitInv, LeavingInv, AnswerInv, RequestInv,
                            control, runner, answer
<1> QED BY <1>4, <1>5, <1>6, <1>7 DEF RoleInv

\* Packets and their handlers.
LEMMA TrafficKeeps ==
    ASSUME RoleInv, \/ Datagram \/ HandleDatagram
                    \/ \E c \in Conns : Connect(c) \/ HandleTcp(c)
    PROVE  RoleInv'
<1>1. UNCHANGED <<waits, now, control, runner, sockets, answer>>
    BY DEF Datagram, HandleDatagram, Connect, HandleTcp
<1>2. FindingsInv' /\ claimed \subseteq claimed'
    <2>1. CASE UNCHANGED findings
        BY <2>1 DEF findings, RoleInv, FindingsInv, EvidenceOnce
    <2>2. ASSUME NEW s \in Steps, Arrive(s)
          PROVE  FindingsInv' /\ claimed \subseteq claimed'
        BY <2>2, ArriveKeepsFindings DEF RoleInv, Arrive, Claim
    <2> QED BY <2>1, <2>2 DEF Datagram, HandleDatagram, Connect, HandleTcp, Steps
<1>3. /\ conn' \in [Conns -> {"none", "reading", "closed"}]
      /\ listening = {} => Reading' \subseteq Reading
    BY DEF Datagram, HandleDatagram, Connect, HandleTcp, RoleInv, TypeOK, Reading
<1>4. /\ datagrams' \in 0..MaxDatagrams
      /\ datagrams = 0 /\ "udp" \notin listening => datagrams' = 0
    BY DEF Datagram, HandleDatagram, Connect, HandleTcp, RoleInv, TypeOK
<1>5. TypeOK'
    <2>1. completed' \subseteq Steps
        BY <1>2 DEF FindingsInv
    <2> QED BY <1>1, <1>2, <1>3, <1>4, <2>1 DEF RoleInv, TypeOK, FindingsInv,
               control, runner, sockets, answer
<1>6. SocketInv'
    BY <1>1, <1>3, <1>4 DEF RoleInv, SocketInv, TypeOK, runner, sockets
<1>7. ExitInv' /\ LeavingInv' /\ AnswerInv' /\ RequestInv'
    BY <1>1, <1>2 DEF RoleInv, ExitInv, LeavingInv, AnswerInv, RequestInv,
                      control, runner, sockets, answer
<1>8. SettledInv'
    BY <1>1, <1>2, <1>3 DEF RoleInv, SettledInv, control, runner, sockets
<1> QED BY <1>2, <1>5, <1>6, <1>7, <1>8 DEF RoleInv

-----------------------------------------------------------------------------
\* Every step of the role keeps the invariant.
LEMMA RoleStep == RoleInv /\ [Next]_vars => RoleInv'
<1> SUFFICES ASSUME RoleInv, [Next]_vars PROVE RoleInv'
    OBVIOUS
<1>1. CASE Runner
    BY <1>1, StartKeeps, BindKeeps, LeaveKeeps, InterruptedKeeps DEF Runner
<1>2. CASE Tick \/ Cancel \/ TimesOut \/ Answer
    BY <1>2, AroundKeeps
<1>3. CASE Expire \/ ExpiryCloses
    BY <1>3, ExpiryKeeps
<1>4. CASE Datagram \/ HandleDatagram \/ \E c \in Conns : Connect(c) \/ HandleTcp(c)
    BY <1>4, TrafficKeeps
<1>5. CASE UNCHANGED vars
    BY <1>5 DEF vars, RoleInv, TypeOK, FindingsInv, EvidenceOnce, SocketInv, ExitInv,
                AnswerInv, RequestInv, LeavingInv, SettledInv, Reading,
                control, runner, sockets, traffic, findings, answer
<1> QED BY <1>1, <1>2, <1>3, <1>4, <1>5 DEF Next

\* The invariant holds in every reachable state of the role.
THEOREM RoleCorrect == Spec => []RoleInv
BY RoleInit, RoleStep, PTL DEF Spec

\* Every reachable state of a listening role is of the declared types.
THEOREM ListenerTypeCorrect == Spec => []TypeOK
<1>1. RoleInv => TypeOK
    BY DEF RoleInv
<1> QED BY RoleCorrect, <1>1, PTL

\* PairedListenerService: arrival and silence exclude each other, and each is
\* recorded once, in whatever order handlers, expiry and stop() run.
THEOREM EvidenceCorrect == Spec => []EvidenceOnce
<1>1. RoleInv => EvidenceOnce
    BY DEF RoleInv, FindingsInv
<1> QED BY RoleCorrect, <1>1, PTL

\* wait_ready: only a role whose listeners were bound is accepted.
THEOREM AnswerCorrect == Spec => []AcceptedMeansBound
<1>1. RoleInv => AcceptedMeansBound
    BY DEF RoleInv, AnswerInv, AcceptedMeansBound
<1> QED BY RoleCorrect, <1>1, PTL

\* stop(): a role that came to listen leaves no listener behind its verdict.
THEOREM ReleaseCorrect == Spec => []BoundPortsReleased
<1>1. RoleInv => BoundPortsReleased
    BY DEF RoleInv, SettledInv, SocketInv, BoundPortsReleased
<1> QED BY RoleCorrect, <1>1, PTL

\* Whoever outlives the verdict finds the step claimed or the token set.
LEMMA NothingAfterVerdict ==
    ASSUME RoleInv, [Next]_vars, verdict # "none"
    PROVE  UNCHANGED evidence
<1>1. /\ pc \in {"over", "neverBegun"} /\ datagrams = 0
      /\ expiry \notin {"sleeping", "closing"}
      /\ token \/ "tcp" \in claimed \/ Reading = {}
    BY DEF RoleInv, SettledInv, SocketInv
<1>2. CASE Runner
    BY <1>1, <1>2 DEF Runner, At, NeverBegins, Begin, Paced, ListenTcp, TcpStarted, BindUdp,
                      Poll, Closed, Interrupted
<1>3. CASE Tick \/ Cancel \/ TimesOut \/ Answer \/ Datagram
    BY <1>3 DEF Tick, Cancel, TimesOut, Answer, Datagram, findings
<1>4. CASE Expire \/ ExpiryCloses \/ HandleDatagram
    BY <1>1, <1>4 DEF Expire, ExpiryCloses, HandleDatagram
<1>5. ASSUME NEW c \in Conns, Connect(c) \/ HandleTcp(c) PROVE UNCHANGED evidence
    BY <1>1, <1>5 DEF Connect, HandleTcp, Arrive, Claim, Reading, findings
<1>6. CASE UNCHANGED vars
    BY <1>6 DEF vars, findings
<1> QED BY <1>2, <1>3, <1>4, <1>5, <1>6 DEF Next

\* A role's evidence is complete when its verdict is recorded.
THEOREM QuietCorrect == Spec => QuietAfterVerdict
<1>1. RoleInv /\ [Next]_vars => [verdict # "none" => UNCHANGED evidence]_vars
    BY NothingAfterVerdict
<1> QED BY RoleCorrect, <1>1, PTL DEF Spec, QuietAfterVerdict

-----------------------------------------------------------------------------
(* When silence is recorded.                                               *)

LateInv == SilenceIsLate /\ (expiry = "closing" => now >= Lease)

\* Silence is recorded only when the lease is over, and its timer fires no earlier.
LEMMA LateStep ==
    ASSUME RoleInv, LateInv, [Next]_vars
    PROVE  LateInv'
<1>1. now \in Nat /\ now' \in Nat /\ now' >= now
    BY DEF RoleInv, TypeOK, vars, Next, Runner, NeverBegins, Begin, Paced, ListenTcp,
           TcpStarted, BindUdp, Poll, Closed, Interrupted, Stop, Tick, Cancel, TimesOut,
           Answer, Expire, ExpiryCloses, Datagram, HandleDatagram, Connect, HandleTcp
<1>2. CASE Runner
    <2>1. \/ pc' = "over"
          \/ evidence' = evidence /\ pc # "over"
        BY <1>2 DEF Runner, At, NeverBegins, Begin, Paced, ListenTcp, TcpStarted, BindUdp,
                    Poll, Closed, Interrupted, Stop, Finish, End, findings
    <2>2. expiry' = "closing" => expiry = "closing"
        BY <1>2 DEF Runner, NeverBegins, Begin, Paced, ListenTcp, TcpStarted, BindUdp,
                    Poll, Closed, Interrupted, Stop, sockets
    <2> QED BY <1>1, <2>1, <2>2 DEF LateInv, SilenceIsLate
<1>3. CASE Tick \/ Cancel \/ TimesOut \/ Answer \/ Datagram
    BY <1>1, <1>3 DEF Tick, Cancel, TimesOut, Answer, Datagram, LateInv, SilenceIsLate,
                      runner, sockets, findings
<1>4. CASE Expire \/ ExpiryCloses
    BY <1>1, <1>4 DEF Expire, ExpiryCloses, Current, LateInv, SilenceIsLate
<1>5. ASSUME UNCHANGED <<now, runner, sockets>>,
             UNCHANGED findings \/ \E s \in Steps : Arrive(s)
      PROVE  LateInv'
    <2>1. CASE UNCHANGED findings
        BY <1>5, <2>1 DEF LateInv, SilenceIsLate, runner, sockets, findings
    <2>2. ASSUME NEW s \in Steps, Arrive(s) PROVE LateInv'
        <3>1. evidence[s] = << >> /\ evidence \in [Steps -> Seq({"arrived", "replied", "received"})]
            BY <2>2 DEF Arrive, Claim, RoleInv, FindingsInv
        <3>2. evidence'[s] # <<"received">>
            <4>1. <<"arrived", "replied">> # <<"received">> /\ <<"arrived">> # <<"received">>
                  /\ << >> # <<"received">>
                OBVIOUS
            <4> QED BY <2>2, <3>1, <4>1, StoryBegins DEF Arrive
        <3>3. \A r \in Steps \ {s} : evidence'[r] = evidence[r]
            BY <2>2, <3>1 DEF Arrive
        <3> QED BY <1>5, <3>2, <3>3 DEF LateInv, SilenceIsLate, runner, sockets
    <2> QED BY <1>5, <2>1, <2>2
<1>6. CASE HandleDatagram \/ \E c \in Conns : Connect(c) \/ HandleTcp(c)
    BY <1>5, <1>6 DEF HandleDatagram, Connect, HandleTcp, Steps
<1>7. CASE UNCHANGED vars
    BY <1>5, <1>7 DEF vars
<1> QED BY <1>2, <1>3, <1>4, <1>6, <1>7 DEF Next

\* _complete_missing: silence is recorded at the end of the lease or of the
\* role, never of a listener that was still to listen.
THEOREM SilenceCorrect == Spec => []SilenceIsLate
<1>1. Init => LateInv
    BY StoryTypes DEF Init, LateInv, SilenceIsLate
<1>2. RoleInv /\ LateInv /\ [Next]_vars => LateInv'
    BY LateStep
<1>3. LateInv => SilenceIsLate
    BY DEF LateInv
<1> QED BY RoleCorrect, <1>1, <1>2, <1>3, PTL DEF Spec
=============================================================================
