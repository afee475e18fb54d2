------------------------------ MODULE EdgesProofs ------------------------------
(***************************************************************************)
(* What the parts of Edges keep for every value of their constants.        *)
(*                                                                         *)
(* PeerControl, whose window, grace and faults are arbitrary.  Client and  *)
(* peer know of each other only by frames; the invariant says what a frame *)
(* on its way, a handler that waits and an answer that is not read yet     *)
(* mean for the other side.  The frame of a submit exists once, so a       *)
(* correlation begins once; a cancel is sent only when that submit was     *)
(* answered, so nothing can come back after it.                            *)
(*                                                                         *)
(* Command, for any limits and any child: a reader that has seen the end   *)
(* of its stream holds all there will be, and a cleanup is left only when  *)
(* nothing runs and no pipe is open.                                       *)
(*                                                                         *)
(* The agent and the broker have modules of proofs of their own            *)
(* (PeerAgentProofs, WebBrokerProofs), for arbitrary constants and         *)
(* variables.  Here a behaviour of the composition is shown to be one of   *)
(* each of its parts, so that it keeps what they keep.                     *)
(***************************************************************************)
EXTENDS Edges, TLAPS

-----------------------------------------------------------------------------
(* PeerControl.                                                            *)

After == {"closing", "cancel", "done"}

\* The answer to a submit of c is there and has not been read.
Accepted(c) == pc = "submit" /\ leg = c /\ reply = "accepted"

\* Nothing of c has reached the peer.
Fresh(c) ==
    /\ role[c] = "none" /\ c \notin tabled \cup results \cup leases \cup submitted
    /\ <<"cancel", c>> \notin wire
    /\ c = "p" => ready = "unset" /\ "p" \notin waiting

\* Correlations whose submit is to come.
ToCome == IF pc = "capabilities" THEN {leg, "r"}
          ELSE IF pc \in Body /\ leg = "f" THEN {"r"} ELSE {}

SubmitOnce ==
    /\ \A c \in Corrs :
          /\ <<"submit", c>> \in wire =>
                Fresh(c) /\ (pc \in After \/ (pc = "submit" /\ leg = c /\ reply = "none"))
          /\ c \in ToCome => Fresh(c) /\ <<"submit", c>> \notin wire
    /\ pc = "opening" => leg = "f"

\* A handler that waits is one the client has had no answer of.
WaitsUnanswered ==
    "p" \in waiting =>
       /\ "p" \notin submitted
       /\ pc \in After \/ (pc = "submit" /\ leg = "p" /\ reply \in {"none", "error"})

BoundBefore ==
    /\ ready = "bound" => role["p"] \notin {"none", "created"}
    /\ "p" \in submitted \/ Accepted("p") => ready = "bound" \/ restarts > 0

\* Only what is submitted is read or cancelled, and cancelled only in the end.
CancelLast ==
    /\ \A c \in Corrs : <<"cancel", c>> \in wire => c \in submitted /\ pc \in After
    /\ pc \in {"sending", "read-result", "polling", "opening", "cancel"} => leg \in submitted
    /\ confirmed \subseteq submitted /\ (confirmed # {} => pc \in After)
    /\ reply = "cancelled" => pc \in After
    /\ pc = "cancel" /\ reply = "cancelled" => Released(leg)

\* What the tables hold of a role.
TablesTell ==
    \A c \in Corrs :
       /\ role[c] \in Active => c \in tabled
       /\ c \in tabled /\ role[c] = "stored" => c \in results
       /\ pc \in Body /\ (c \in submitted \/ Accepted(c)) /\ c \in owners =>
             c \in tabled \cup results \cup leases
       /\ c = "p" /\ "p" \in waiting => c \in tabled \cup results

Inv ==
    /\ TypeOK /\ SubmitOnce /\ WaitsUnanswered /\ BoundBefore
    /\ CancelLast /\ ConfirmedIsReleased /\ TablesTell

\* The invariant holds when the client has asked for the capabilities.
THEOREM InitInv == Init => Inv
<1> SUFFICES ASSUME Init PROVE Inv
  OBVIOUS
<1>1. TypeOK
  BY TimeAssumption DEF Init, TypeOK, Patience, Ops, Body, Corrs
<1>2. SubmitOnce /\ WaitsUnanswered /\ BoundBefore
  BY DEF Init, SubmitOnce, WaitsUnanswered, BoundBefore, ToCome, Fresh, Accepted, Corrs, Body
<1>3. CancelLast /\ ConfirmedIsReleased /\ TablesTell
  BY DEF Init, CancelLast, ConfirmedIsReleased, TablesTell, Active, Accepted, Corrs
<1> QED BY <1>1, <1>2, <1>3 DEF Inv

USE DEF Inv, TypeOK, After, Ops, Body, Active, Corrs, client, peer, tables

\* The submit of a correlation that is to come is on its way, and it alone.
LEMMA CapableKeeps ==
    ASSUME Inv, Capable PROVE Inv'
<1> USE DEF Capable, Request, Ask, Unwind, CancelNext, Expires, Patience
<1>1. TypeOK'  BY TimeAssumption
<1>2. SubmitOnce'
  BY DEF SubmitOnce, WaitsUnanswered, CancelLast, TablesTell, ToCome, Fresh, Accepted
<1>3. WaitsUnanswered'  BY DEF SubmitOnce, WaitsUnanswered, ToCome, Fresh, Accepted
<1>4. BoundBefore'
  BY DEF SubmitOnce, WaitsUnanswered, BoundBefore, Fresh, ToCome, Accepted
<1>5. (CancelLast /\ ConfirmedIsReleased)'
  BY DEF SubmitOnce, CancelLast, ConfirmedIsReleased, TablesTell, Released, Fresh,
     Accepted
<1>6. TablesTell'
  BY DEF SubmitOnce, WaitsUnanswered, CancelLast, TablesTell, ToCome, Fresh, Accepted
<1> QED BY <1>1, <1>2, <1>3, <1>4, <1>5, <1>6

\* What was accepted was bound before, and is in the tables if the agent still knows it.
LEMMA SubmittedKeeps ==
    ASSUME Inv, Submitted PROVE Inv'
<1> USE DEF Submitted, Request, Ask, Unwind, CancelNext, Expires, Patience
<1>1. TypeOK'  BY TimeAssumption
<1>2. SubmitOnce'
  BY DEF SubmitOnce, WaitsUnanswered, CancelLast, TablesTell, ToCome, Fresh, Accepted
<1>3. WaitsUnanswered'  BY DEF SubmitOnce, WaitsUnanswered, ToCome, Fresh, Accepted
<1>4. BoundBefore'
  BY DEF SubmitOnce, WaitsUnanswered, BoundBefore, Fresh, ToCome, Accepted
<1>5. (CancelLast /\ ConfirmedIsReleased)'
  BY DEF SubmitOnce, CancelLast, ConfirmedIsReleased, TablesTell, Released, Fresh,
     Accepted
<1>6. TablesTell'
  BY DEF SubmitOnce, WaitsUnanswered, CancelLast, TablesTell, ToCome, Fresh, Accepted
<1> QED BY <1>1, <1>2, <1>3, <1>4, <1>5, <1>6

\* The client goes on to read, or unwinds with what it has submitted.
LEMMA SentKeeps ==
    ASSUME Inv, Sent PROVE Inv'
<1> USE DEF Sent, Request, Ask, Unwind, CancelNext, Expires, Patience
<1>1. TypeOK'  BY TimeAssumption
<1>2. SubmitOnce'
  BY DEF SubmitOnce, WaitsUnanswered, CancelLast, TablesTell, ToCome, Fresh, Accepted
<1>3. WaitsUnanswered'  BY DEF SubmitOnce, WaitsUnanswered, ToCome, Fresh, Accepted
<1>4. BoundBefore'
  BY DEF SubmitOnce, WaitsUnanswered, BoundBefore, Fresh, ToCome, Accepted
<1>5. (CancelLast /\ ConfirmedIsReleased)'
  BY DEF SubmitOnce, CancelLast, ConfirmedIsReleased, TablesTell, Released, Fresh,
     Accepted
<1>6. TablesTell'
  BY DEF SubmitOnce, WaitsUnanswered, CancelLast, TablesTell, ToCome, Fresh, Accepted
<1> QED BY <1>1, <1>2, <1>3, <1>4, <1>5, <1>6

\* A wait before the next read.
LEMMA PendingKeeps ==
    ASSUME Inv, Pending PROVE Inv'
<1> USE DEF Pending
<1>1. TypeOK'  BY TimeAssumption
<1>2. SubmitOnce'
  BY DEF SubmitOnce, WaitsUnanswered, CancelLast, TablesTell, ToCome, Fresh, Accepted
<1>3. WaitsUnanswered'  BY DEF SubmitOnce, WaitsUnanswered, ToCome, Fresh, Accepted
<1>4. BoundBefore'
  BY DEF SubmitOnce, WaitsUnanswered, BoundBefore, Fresh, ToCome, Accepted
<1>5. (CancelLast /\ ConfirmedIsReleased)'
  BY DEF SubmitOnce, CancelLast, ConfirmedIsReleased, TablesTell, Released, Fresh,
     Accepted
<1>6. TablesTell'
  BY DEF SubmitOnce, WaitsUnanswered, CancelLast, TablesTell, ToCome, Fresh, Accepted
<1> QED BY <1>1, <1>2, <1>3, <1>4, <1>5, <1>6

\* The next read, or the end.
LEMMA PolledKeeps ==
    ASSUME Inv, Polled PROVE Inv'
<1> USE DEF Polled, Request, Ask, Unwind, CancelNext, Expires, Patience
<1>1. TypeOK'  BY TimeAssumption
<1>2. SubmitOnce'
  BY DEF SubmitOnce, WaitsUnanswered, CancelLast, TablesTell, ToCome, Fresh, Accepted
<1>3. WaitsUnanswered'  BY DEF SubmitOnce, WaitsUnanswered, ToCome, Fresh, Accepted
<1>4. BoundBefore'
  BY DEF SubmitOnce, WaitsUnanswered, BoundBefore, Fresh, ToCome, Accepted
<1>5. (CancelLast /\ ConfirmedIsReleased)'
  BY DEF SubmitOnce, CancelLast, ConfirmedIsReleased, TablesTell, Released, Fresh,
     Accepted
<1>6. TablesTell'
  BY DEF SubmitOnce, WaitsUnanswered, CancelLast, TablesTell, ToCome, Fresh, Accepted
<1> QED BY <1>1, <1>2, <1>3, <1>4, <1>5, <1>6

\* Nothing of "r" has reached the peer when the client opens its receivers.
LEMMA ReceiptsKeeps ==
    ASSUME Inv, Receipts PROVE Inv'
<1> USE DEF Receipts
<1>1. TypeOK'  BY TimeAssumption
<1>2. SubmitOnce'
  BY DEF SubmitOnce, WaitsUnanswered, CancelLast, TablesTell, ToCome, Fresh, Accepted
<1>3. WaitsUnanswered'  BY DEF SubmitOnce, WaitsUnanswered, ToCome, Fresh, Accepted
<1>4. BoundBefore'
  BY DEF SubmitOnce, WaitsUnanswered, BoundBefore, Fresh, ToCome, Accepted
<1>5. (CancelLast /\ ConfirmedIsReleased)'
  BY DEF SubmitOnce, CancelLast, ConfirmedIsReleased, TablesTell, Released, Fresh,
     Accepted
<1>6. TablesTell'
  BY DEF SubmitOnce, WaitsUnanswered, CancelLast, TablesTell, ToCome, Fresh, Accepted
<1> QED BY <1>1, <1>2, <1>3, <1>4, <1>5, <1>6

\* The submit of "r" is the only frame of "r".
LEMMA OpenedKeeps ==
    ASSUME Inv, Opened PROVE Inv'
<1> USE DEF Opened, Ask, Unwind, CancelNext, Patience
<1>1. TypeOK'
  <2>1. until' \in Nat
    BY TimeAssumption
  <2>2. local' \subseteq Corrs
    OBVIOUS
  <2>3. wire' \subseteq Ops \X Corrs
    OBVIOUS
  <2>4. (pc \in Body \cup {"closing", "cancel", "done"})'
    OBVIOUS
  <2>5. leg' \in Corrs
    OBVIOUS
  <2>6. (outcome \in {"none", "completed", "failed", "expired", "interrupted"})'
    OBVIOUS
  <2>7. (reply \in {"none", "capable", "accepted", "pending", "receipts", "result",
               "cancelled", "error"})'
    OBVIOUS
  <2>8. UNCHANGED <<now, deadline, submitted, confirmed, owners, tabled, results, leases, role,
      ready, waiting, restarts>>
    OBVIOUS
  <2> HIDE DEF Inv, Opened, Ask, Unwind, CancelNext, Ops, Body, Active, Corrs, client,
       peer, tables
  <2> QED BY <2>1, <2>2, <2>3, <2>4, <2>5, <2>6, <2>7, <2>8 DEF Inv
<1>2. SubmitOnce'
  BY DEF SubmitOnce, WaitsUnanswered, CancelLast, TablesTell, ToCome, Fresh, Accepted
<1>3. WaitsUnanswered'  BY DEF SubmitOnce, WaitsUnanswered, ToCome, Fresh, Accepted
<1>4. BoundBefore'
  BY DEF SubmitOnce, WaitsUnanswered, BoundBefore, Fresh, ToCome, Accepted
<1>5. (CancelLast /\ ConfirmedIsReleased)'
  BY DEF SubmitOnce, CancelLast, ConfirmedIsReleased, TablesTell, Released, Fresh,
     Accepted
<1>6. TablesTell'
  BY DEF SubmitOnce, WaitsUnanswered, CancelLast, TablesTell, ToCome, Fresh, Accepted
<1> QED BY <1>1, <1>2, <1>3, <1>4, <1>5, <1>6

\* The client unwinds with what it has submitted.
LEMMA ResultKeeps ==
    ASSUME Inv, Result PROVE Inv'
<1> USE DEF Result, Ask, Unwind, CancelNext, Patience
<1>1. TypeOK'  BY TimeAssumption
<1>2. SubmitOnce'
  BY DEF SubmitOnce, WaitsUnanswered, CancelLast, TablesTell, ToCome, Fresh, Accepted
<1>3. WaitsUnanswered'  BY DEF SubmitOnce, WaitsUnanswered, ToCome, Fresh, Accepted
<1>4. BoundBefore'
  BY DEF SubmitOnce, WaitsUnanswered, BoundBefore, Fresh, ToCome, Accepted
<1>5. (CancelLast /\ ConfirmedIsReleased)'
  BY DEF SubmitOnce, CancelLast, ConfirmedIsReleased, TablesTell, Released, Fresh,
     Accepted
<1>6. TablesTell'
  BY DEF SubmitOnce, WaitsUnanswered, CancelLast, TablesTell, ToCome, Fresh, Accepted
<1> QED BY <1>1, <1>2, <1>3, <1>4, <1>5, <1>6

\* So it does when an answer fails it; a submit that was not answered is not in there.
LEMMA FailsKeeps ==
    ASSUME Inv, Fails PROVE Inv'
<1> USE DEF Fails, Ask, Unwind, CancelNext, Patience
<1>1. TypeOK'  BY TimeAssumption
<1>2. SubmitOnce'
  BY DEF SubmitOnce, WaitsUnanswered, CancelLast, TablesTell, ToCome, Fresh, Accepted
<1>3. WaitsUnanswered'  BY DEF SubmitOnce, WaitsUnanswered, ToCome, Fresh, Accepted
<1>4. BoundBefore'
  BY DEF SubmitOnce, WaitsUnanswered, BoundBefore, Fresh, ToCome, Accepted
<1>5. (CancelLast /\ ConfirmedIsReleased)'
  BY DEF SubmitOnce, CancelLast, ConfirmedIsReleased, TablesTell, Released, Fresh,
     Accepted
<1>6. TablesTell'
  BY DEF SubmitOnce, WaitsUnanswered, CancelLast, TablesTell, ToCome, Fresh, Accepted
<1> QED BY <1>1, <1>2, <1>3, <1>4, <1>5, <1>6

\* And at the deadline, whatever is on its way.
LEMMA TimesOutKeeps ==
    ASSUME Inv, TimesOut PROVE Inv'
<1> USE DEF TimesOut, Ask, Unwind, CancelNext, Patience
<1>1. TypeOK'  BY TimeAssumption
<1>2. SubmitOnce'
  BY DEF SubmitOnce, WaitsUnanswered, CancelLast, TablesTell, ToCome, Fresh, Accepted
<1>3. WaitsUnanswered'  BY DEF SubmitOnce, WaitsUnanswered, ToCome, Fresh, Accepted
<1>4. BoundBefore'
  BY DEF SubmitOnce, WaitsUnanswered, BoundBefore, Fresh, ToCome, Accepted
<1>5. (CancelLast /\ ConfirmedIsReleased)'
  BY DEF SubmitOnce, CancelLast, ConfirmedIsReleased, TablesTell, Released, Fresh,
     Accepted
<1>6. TablesTell'
  BY DEF SubmitOnce, WaitsUnanswered, CancelLast, TablesTell, ToCome, Fresh, Accepted
<1> QED BY <1>1, <1>2, <1>3, <1>4, <1>5, <1>6

\* The first cancel, of a submitted correlation.
LEMMA ClosedKeeps ==
    ASSUME Inv, Closed PROVE Inv'
<1> USE DEF Closed, Ask, CancelNext, Patience
<1>1. TypeOK'  BY TimeAssumption
<1>2. SubmitOnce'
  BY DEF SubmitOnce, WaitsUnanswered, CancelLast, TablesTell, ToCome, Fresh, Accepted
<1>3. WaitsUnanswered'  BY DEF SubmitOnce, WaitsUnanswered, ToCome, Fresh, Accepted
<1>4. BoundBefore'
  BY DEF SubmitOnce, WaitsUnanswered, BoundBefore, Fresh, ToCome, Accepted
<1>5. (CancelLast /\ ConfirmedIsReleased)'
  BY DEF SubmitOnce, CancelLast, ConfirmedIsReleased, TablesTell, Released, Fresh,
     Accepted
<1>6. TablesTell'
  BY DEF SubmitOnce, WaitsUnanswered, CancelLast, TablesTell, ToCome, Fresh, Accepted
<1> QED BY <1>1, <1>2, <1>3, <1>4, <1>5, <1>6

\* An answered cancel has released the correlation; the next one is of another.
LEMMA CancelledKeeps ==
    ASSUME Inv, Cancelled PROVE Inv'
<1> USE DEF Cancelled, Ask, CancelNext, Patience
<1>1. TypeOK'  BY TimeAssumption
<1>2. SubmitOnce'
  BY DEF SubmitOnce, WaitsUnanswered, CancelLast, TablesTell, ToCome, Fresh, Accepted
<1>3. WaitsUnanswered'  BY DEF SubmitOnce, WaitsUnanswered, ToCome, Fresh, Accepted
<1>4. BoundBefore'
  BY DEF SubmitOnce, WaitsUnanswered, BoundBefore, Fresh, ToCome, Accepted
<1>5. (CancelLast /\ ConfirmedIsReleased)'
  BY DEF SubmitOnce, CancelLast, ConfirmedIsReleased, TablesTell, Released, Fresh,
     Accepted
<1>6. TablesTell'
  BY DEF SubmitOnce, WaitsUnanswered, CancelLast, TablesTell, ToCome, Fresh, Accepted
<1> QED BY <1>1, <1>2, <1>3, <1>4, <1>5, <1>6

\* An interrupted client sends at most a cancel.
LEMMA InterruptKeeps ==
    ASSUME Inv, Interrupt PROVE Inv'
<1> USE DEF Interrupt, Ask, Unwind, CancelNext, Patience
<1>1. TypeOK'  BY TimeAssumption
<1>2. SubmitOnce'
  BY DEF SubmitOnce, WaitsUnanswered, CancelLast, TablesTell, ToCome, Fresh, Accepted
<1>3. WaitsUnanswered'  BY DEF SubmitOnce, WaitsUnanswered, ToCome, Fresh, Accepted
<1>4. BoundBefore'
  BY DEF SubmitOnce, WaitsUnanswered, BoundBefore, Fresh, ToCome, Accepted
<1>5. (CancelLast /\ ConfirmedIsReleased)'
  BY DEF SubmitOnce, CancelLast, ConfirmedIsReleased, TablesTell, Released, Fresh,
     Accepted
<1>6. TablesTell'
  BY DEF SubmitOnce, WaitsUnanswered, CancelLast, TablesTell, ToCome, Fresh, Accepted
<1> QED BY <1>1, <1>2, <1>3, <1>4, <1>5, <1>6

\* A refused frame is gone, and its client is told nothing it waits for.
LEMMA RefuseKeeps ==
    ASSUME Inv, NEW op \in Ops, NEW c \in Corrs, wire' = wire \ {<<op, c>>}, now' = now,
           Refuse(op, c)
    PROVE  Inv'
<1> USE DEF Refuse, Respond
<1>1. TypeOK'  BY TimeAssumption
<1>2. SubmitOnce'
  BY DEF SubmitOnce, WaitsUnanswered, CancelLast, TablesTell, ToCome, Fresh, Accepted
<1>3. WaitsUnanswered'  BY DEF SubmitOnce, WaitsUnanswered, ToCome, Fresh, Accepted
<1>4. BoundBefore'
  BY DEF SubmitOnce, WaitsUnanswered, BoundBefore, Fresh, ToCome, Accepted
<1>5. (CancelLast /\ ConfirmedIsReleased)'
  BY DEF SubmitOnce, CancelLast, ConfirmedIsReleased, TablesTell, Released, Fresh,
     Accepted
<1>6. TablesTell'
  BY DEF SubmitOnce, WaitsUnanswered, CancelLast, TablesTell, ToCome, Fresh, Accepted
<1> QED BY <1>1, <1>2, <1>3, <1>4, <1>5, <1>6

\* Nothing changes at the peer.
LEMMA CapabilitiesKeeps ==
    ASSUME Inv, NEW c \in Corrs, <<"capabilities", c>> \in wire,
           wire' = wire \ {<<"capabilities", c>>}, now' = now, Capabilities(c)
    PROVE  Inv'
<1> USE DEF Capabilities, Admitted, Owned, Respond
<1>1. TypeOK'  BY TimeAssumption
<1>2. SubmitOnce'
  BY DEF SubmitOnce, WaitsUnanswered, CancelLast, TablesTell, ToCome, Fresh, Accepted
<1>3. WaitsUnanswered'  BY DEF SubmitOnce, WaitsUnanswered, ToCome, Fresh, Accepted
<1>4. BoundBefore'
  BY DEF SubmitOnce, WaitsUnanswered, BoundBefore, Fresh, ToCome, Accepted
<1>5. (CancelLast /\ ConfirmedIsReleased)'
  BY DEF SubmitOnce, CancelLast, ConfirmedIsReleased, TablesTell, Released, Fresh,
     Accepted
<1>6. TablesTell'
  BY DEF SubmitOnce, WaitsUnanswered, CancelLast, TablesTell, ToCome, Fresh, Accepted
<1> QED BY <1>1, <1>2, <1>3, <1>4, <1>5, <1>6

\* The only submit of "f" finds nothing of it.
LEMMA SubmitLeaseKeeps ==
    ASSUME Inv, NEW c \in Corrs, <<"submit", c>> \in wire,
           wire' = wire \ {<<"submit", c>>}, now' = now, SubmitLease(c)
    PROVE  Inv'
<1> USE DEF SubmitLease, Admitted, Owned, Respond
<1>1. TypeOK'
  <2>1. wire' \subseteq Ops \X Corrs
    OBVIOUS
  <2>2. owners' \subseteq Corrs
    OBVIOUS
  <2>3. leases' \subseteq {"f"}
    OBVIOUS
  <2>4. (reply \in {"none", "capable", "accepted", "pending", "receipts", "result",
               "cancelled", "error"})'
    OBVIOUS
  <2>5. UNCHANGED <<now, pc, leg, deadline, until, submitted, local, outcome, confirmed, tabled,
      results, role, ready, waiting, restarts>>
    OBVIOUS
  <2> HIDE DEF Inv, SubmitLease, Respond, Ops, Body, Active, Corrs, client, peer, tables
  <2> QED BY <2>1, <2>2, <2>3, <2>4, <2>5 DEF Inv
<1>2. SubmitOnce'
  BY DEF SubmitOnce, WaitsUnanswered, CancelLast, TablesTell, ToCome, Fresh, Accepted
<1>3. WaitsUnanswered'  BY DEF SubmitOnce, WaitsUnanswered, ToCome, Fresh, Accepted
<1>4. BoundBefore'
  BY DEF SubmitOnce, WaitsUnanswered, BoundBefore, Fresh, ToCome, Accepted
<1>5. (CancelLast /\ ConfirmedIsReleased)'
  BY DEF SubmitOnce, CancelLast, ConfirmedIsReleased, TablesTell, Released, Fresh,
     Accepted
<1>6. TablesTell'
  BY DEF SubmitOnce, WaitsUnanswered, CancelLast, TablesTell, ToCome, Fresh, Accepted
<1> QED BY <1>1, <1>2, <1>3, <1>4, <1>5, <1>6

\* The only submit of a role finds nothing of it, and no confirmed cancel of it.
LEMMA SubmitRoleKeeps ==
    ASSUME Inv, NEW c \in Corrs, <<"submit", c>> \in wire,
           wire' = wire \ {<<"submit", c>>}, now' = now, SubmitRole(c)
    PROVE  Inv'
<1> USE DEF SubmitRole, Admitted, Owned, Respond
<1>1. TypeOK'
  <2>1. wire' \subseteq Ops \X Corrs
    OBVIOUS
  <2>2. (role \in [Corrs -> Active \cup {"none", "stored", "raised", "cancelling", "cancelled"}])'
    OBVIOUS
  <2>3. tabled' \subseteq Corrs
    OBVIOUS
  <2>4. owners' \subseteq Corrs
    OBVIOUS
  <2>5. waiting' \subseteq {"p"}
    OBVIOUS
  <2>6. (reply \in {"none", "capable", "accepted", "pending", "receipts", "result",
               "cancelled", "error"})'
    OBVIOUS
  <2>7. UNCHANGED <<now, pc, leg, deadline, until, submitted, local, outcome, confirmed, results,
      leases, ready, restarts>>
    OBVIOUS
  <2> HIDE DEF Inv, SubmitRole, Respond, Ops, Body, Active, Corrs, client, peer, tables
  <2> QED BY <2>1, <2>2, <2>3, <2>4, <2>5, <2>6, <2>7 DEF Inv
<1>2. SubmitOnce'
  BY DEF SubmitOnce, WaitsUnanswered, CancelLast, TablesTell, ToCome, Fresh, Accepted
<1>3. WaitsUnanswered'  BY DEF SubmitOnce, WaitsUnanswered, ToCome, Fresh, Accepted
<1>4. BoundBefore'
  BY DEF SubmitOnce, WaitsUnanswered, BoundBefore, Fresh, ToCome, Accepted
<1>5. (CancelLast /\ ConfirmedIsReleased)'
  <2>1. /\ c \notin submitted /\ c \notin confirmed
      /\ UNCHANGED <<submitted, confirmed, pc, leg>>
      /\ UNCHANGED <<results, leases>>
    BY DEF SubmitOnce, Fresh, CancelLast, SubmitRole, Respond, client
  <2>2. \A d \in Corrs \ {c} : role'[d] = role[d] /\ (d \in tabled' <=> d \in tabled)
    BY DEF TypeOK, SubmitRole
  <2>3. \A d \in Corrs \ {c} : Released(d) => Released(d)'
    BY <2>1, <2>2 DEF Released
  <2>4. ConfirmedIsReleased'
    BY <2>1, <2>3 DEF TypeOK, ConfirmedIsReleased
  <2>5. CancelLast'
    <3>1. reply' \in {reply, "accepted", "error"}
      BY DEF SubmitRole, Respond, client
    <3> QED BY <2>1, <2>3, <3>1 DEF TypeOK, CancelLast
  <2> QED BY <2>4, <2>5
<1>6. TablesTell'
  BY DEF SubmitOnce, WaitsUnanswered, CancelLast, TablesTell, ToCome, Fresh, Accepted
<1> QED BY <1>1, <1>2, <1>3, <1>4, <1>5, <1>6

\* A result that was stored is in the tables, so that its role may be forgotten.
LEMMA ReadResultKeeps ==
    ASSUME Inv, NEW c \in Corrs, <<"read-result", c>> \in wire,
           wire' = wire \ {<<"read-result", c>>}, now' = now, ReadResult(c)
    PROVE  Inv'
<1> USE DEF ReadResult, Admitted, Owned, Respond
<1>1. TypeOK'
  <2>1. wire' \subseteq Ops \X Corrs
    OBVIOUS
  <2>2. tabled' \subseteq Corrs
    OBVIOUS
  <2>3. (reply \in {"none", "capable", "accepted", "pending", "receipts", "result",
               "cancelled", "error"})'
    OBVIOUS
  <2>4. UNCHANGED <<now, pc, leg, deadline, until, submitted, local, outcome, confirmed, owners,
      results, leases, role, ready, waiting, restarts>>
    OBVIOUS
  <2> HIDE DEF Inv, ReadResult, Respond, Ops, Body, Active, Corrs, client, peer, tables
  <2> QED BY <2>1, <2>2, <2>3, <2>4 DEF Inv
<1>2. SubmitOnce'
  BY DEF SubmitOnce, WaitsUnanswered, CancelLast, TablesTell, ToCome, Fresh, Accepted
<1>3. WaitsUnanswered'  BY DEF SubmitOnce, WaitsUnanswered, ToCome, Fresh, Accepted
<1>4. BoundBefore'
  BY DEF SubmitOnce, WaitsUnanswered, BoundBefore, Fresh, ToCome, Accepted
<1>5. (CancelLast /\ ConfirmedIsReleased)'
  BY DEF SubmitOnce, CancelLast, ConfirmedIsReleased, TablesTell, Released, Fresh,
     Accepted
<1>6. TablesTell'
  BY DEF SubmitOnce, WaitsUnanswered, CancelLast, TablesTell, ToCome, Fresh, Accepted
<1> QED BY <1>1, <1>2, <1>3, <1>4, <1>5, <1>6

\* Nothing of the correlation is left, nor a submit that could bring it back.
LEMMA CancelKeeps ==
    ASSUME Inv, NEW c \in Corrs, <<"cancel", c>> \in wire,
           wire' = wire \ {<<"cancel", c>>}, now' = now, Cancel(c)
    PROVE  Inv'
<1> USE DEF Cancel, Admitted, Owned, Respond
<1>1. TypeOK'  BY TimeAssumption
<1>2. SubmitOnce'
  BY DEF SubmitOnce, WaitsUnanswered, CancelLast, TablesTell, ToCome, Fresh, Accepted
<1>3. WaitsUnanswered'  BY DEF SubmitOnce, WaitsUnanswered, ToCome, Fresh, Accepted
<1>4. BoundBefore'
  BY DEF SubmitOnce, WaitsUnanswered, BoundBefore, Fresh, ToCome, Accepted
<1>5. (CancelLast /\ ConfirmedIsReleased)'
  BY DEF SubmitOnce, CancelLast, ConfirmedIsReleased, TablesTell, Released, Fresh,
     Accepted
<1>6. TablesTell'
  BY DEF SubmitOnce, WaitsUnanswered, CancelLast, TablesTell, ToCome, Fresh, Accepted
<1> QED BY <1>1, <1>2, <1>3, <1>4, <1>5, <1>6

\* A lost frame is a refused one.
LEMMA LoseKeeps ==
    ASSUME Inv, NEW op \in Ops, NEW c \in Corrs, Lose(op, c) PROVE Inv'
<1> USE DEF Lose, Respond
<1>1. TypeOK'  BY TimeAssumption
<1>2. SubmitOnce'
  BY DEF SubmitOnce, WaitsUnanswered, CancelLast, TablesTell, ToCome, Fresh, Accepted
<1>3. WaitsUnanswered'  BY DEF SubmitOnce, WaitsUnanswered, ToCome, Fresh, Accepted
<1>4. BoundBefore'
  BY DEF SubmitOnce, WaitsUnanswered, BoundBefore, Fresh, ToCome, Accepted
<1>5. (CancelLast /\ ConfirmedIsReleased)'
  BY DEF SubmitOnce, CancelLast, ConfirmedIsReleased, TablesTell, Released, Fresh,
     Accepted
<1>6. TablesTell'
  BY DEF SubmitOnce, WaitsUnanswered, CancelLast, TablesTell, ToCome, Fresh, Accepted
<1> QED BY <1>1, <1>2, <1>3, <1>4, <1>5, <1>6

\* The answer is "accepted" only if the event says so.
LEMMA WaitReadyKeeps ==
    ASSUME Inv, WaitReady PROVE Inv'
<1> USE DEF WaitReady, Respond
<1>1. TypeOK'  BY TimeAssumption
<1>2. SubmitOnce'
  BY DEF SubmitOnce, WaitsUnanswered, CancelLast, TablesTell, ToCome, Fresh, Accepted
<1>3. WaitsUnanswered'  BY DEF SubmitOnce, WaitsUnanswered, ToCome, Fresh, Accepted
<1>4. BoundBefore'
  BY DEF SubmitOnce, WaitsUnanswered, BoundBefore, Fresh, ToCome, Accepted
<1>5. (CancelLast /\ ConfirmedIsReleased)'
  BY DEF SubmitOnce, CancelLast, ConfirmedIsReleased, TablesTell, Released, Fresh,
     Accepted
<1>6. TablesTell'
  BY DEF SubmitOnce, WaitsUnanswered, CancelLast, TablesTell, ToCome, Fresh, Accepted
<1> QED BY <1>1, <1>2, <1>3, <1>4, <1>5, <1>6

\* The client knows no more of a submit it has given up.
LEMMA GiveUpKeeps ==
    ASSUME Inv, GiveUp PROVE Inv'
<1> USE DEF GiveUp, Respond
<1>1. TypeOK'  BY TimeAssumption
<1>2. SubmitOnce'
  BY DEF SubmitOnce, WaitsUnanswered, CancelLast, TablesTell, ToCome, Fresh, Accepted
<1>3. WaitsUnanswered'  BY DEF SubmitOnce, WaitsUnanswered, ToCome, Fresh, Accepted
<1>4. BoundBefore'
  BY DEF SubmitOnce, WaitsUnanswered, BoundBefore, Fresh, ToCome, Accepted
<1>5. (CancelLast /\ ConfirmedIsReleased)'
  BY DEF SubmitOnce, CancelLast, ConfirmedIsReleased, TablesTell, Released, Fresh,
     Accepted
<1>6. TablesTell'
  BY DEF SubmitOnce, WaitsUnanswered, CancelLast, TablesTell, ToCome, Fresh, Accepted
<1> QED BY <1>1, <1>2, <1>3, <1>4, <1>5, <1>6

\* A new process knows no correlation, and no handler waits in it.
LEMMA RestartKeeps ==
    ASSUME Inv, Restart PROVE Inv'
<1> USE DEF Restart
<1>1. TypeOK'  BY TimeAssumption
<1>2. SubmitOnce'
  BY DEF SubmitOnce, WaitsUnanswered, CancelLast, TablesTell, ToCome, Fresh, Accepted
<1>3. WaitsUnanswered'  BY DEF SubmitOnce, WaitsUnanswered, ToCome, Fresh, Accepted
<1>4. BoundBefore'
  BY DEF SubmitOnce, WaitsUnanswered, BoundBefore, Fresh, ToCome, Accepted
<1>5. (CancelLast /\ ConfirmedIsReleased)'
  BY DEF SubmitOnce, CancelLast, ConfirmedIsReleased, TablesTell, Released, Fresh,
     Accepted
<1>6. TablesTell'
  BY DEF SubmitOnce, WaitsUnanswered, CancelLast, TablesTell, ToCome, Fresh, Accepted
<1> QED BY <1>1, <1>2, <1>3, <1>4, <1>5, <1>6

\* The event says "bound" of a role that is under way.
LEMMA RoleBindsKeeps ==
    ASSUME Inv, RoleBinds PROVE Inv'
<1> USE DEF RoleBinds
<1>1. TypeOK'  BY TimeAssumption
<1>2. SubmitOnce'
  BY DEF SubmitOnce, WaitsUnanswered, CancelLast, TablesTell, ToCome, Fresh, Accepted
<1>3. WaitsUnanswered'  BY DEF SubmitOnce, WaitsUnanswered, ToCome, Fresh, Accepted
<1>4. BoundBefore'
  BY DEF SubmitOnce, WaitsUnanswered, BoundBefore, Fresh, ToCome, Accepted
<1>5. (CancelLast /\ ConfirmedIsReleased)'
  BY DEF SubmitOnce, CancelLast, ConfirmedIsReleased, TablesTell, Released, Fresh,
     Accepted
<1>6. TablesTell'
  BY DEF SubmitOnce, WaitsUnanswered, CancelLast, TablesTell, ToCome, Fresh, Accepted
<1> QED BY <1>1, <1>2, <1>3, <1>4, <1>5, <1>6

\* A role that fails after it was bound leaves the event as it is, if nobody waits.
LEMMA RoleFailsKeeps ==
    ASSUME Inv, RoleFails PROVE Inv'
<1> USE DEF RoleFails
<1>1. TypeOK'  BY TimeAssumption
<1>2. SubmitOnce'
  BY DEF SubmitOnce, WaitsUnanswered, CancelLast, TablesTell, ToCome, Fresh, Accepted
<1>3. WaitsUnanswered'  BY DEF SubmitOnce, WaitsUnanswered, ToCome, Fresh, Accepted
<1>4. BoundBefore'
  BY DEF SubmitOnce, WaitsUnanswered, BoundBefore, Fresh, ToCome, Accepted
<1>5. (CancelLast /\ ConfirmedIsReleased)'
  BY DEF SubmitOnce, CancelLast, ConfirmedIsReleased, TablesTell, Released, Fresh,
     Accepted
<1>6. TablesTell'
  BY DEF SubmitOnce, WaitsUnanswered, CancelLast, TablesTell, ToCome, Fresh, Accepted
<1> QED BY <1>1, <1>2, <1>3, <1>4, <1>5, <1>6

\* A role that never began was never bound.
LEMMA RoleNeverBeginsKeeps ==
    ASSUME Inv, RoleNeverBegins PROVE Inv'
<1> USE DEF RoleNeverBegins
<1>1. TypeOK'
  <2>1. (role \in [Corrs -> Active \cup {"none", "stored", "raised", "cancelling", "cancelled"}])'
    OBVIOUS
  <2>2. results' \subseteq Corrs
    OBVIOUS
  <2> QED BY <2>1, <2>2
<1>2. SubmitOnce'
  BY DEF SubmitOnce, WaitsUnanswered, CancelLast, TablesTell, ToCome, Fresh, Accepted
<1>3. WaitsUnanswered'  BY DEF SubmitOnce, WaitsUnanswered, ToCome, Fresh, Accepted
<1>4. BoundBefore'
  BY DEF SubmitOnce, WaitsUnanswered, BoundBefore, Fresh, ToCome, Accepted
<1>5. (CancelLast /\ ConfirmedIsReleased)'
  BY DEF SubmitOnce, CancelLast, ConfirmedIsReleased, TablesTell, Released, Fresh,
     Accepted
<1>6. TablesTell'
  BY DEF SubmitOnce, WaitsUnanswered, CancelLast, TablesTell, ToCome, Fresh, Accepted
<1> QED BY <1>1, <1>2, <1>3, <1>4, <1>5, <1>6

\* Time alone changes nothing.
LEMMA TickKeeps ==
    ASSUME Inv, Tick PROVE Inv'
<1> USE DEF Tick
<1>1. TypeOK'  BY TimeAssumption
<1>2. SubmitOnce'
  BY DEF SubmitOnce, WaitsUnanswered, CancelLast, TablesTell, ToCome, Fresh, Accepted
<1>3. WaitsUnanswered'  BY DEF SubmitOnce, WaitsUnanswered, ToCome, Fresh, Accepted
<1>4. BoundBefore'
  BY DEF SubmitOnce, WaitsUnanswered, BoundBefore, Fresh, ToCome, Accepted
<1>5. (CancelLast /\ ConfirmedIsReleased)'
  BY DEF SubmitOnce, CancelLast, ConfirmedIsReleased, TablesTell, Released, Fresh,
     Accepted
<1>6. TablesTell'
  BY DEF SubmitOnce, WaitsUnanswered, CancelLast, TablesTell, ToCome, Fresh, Accepted
<1> QED BY <1>1, <1>2, <1>3, <1>4, <1>5, <1>6

\* A role that ends was in its table, and not cancelled.
LEMMA RoleEndsKeeps ==
    ASSUME Inv, NEW c \in Corrs, RoleEnds(c) PROVE Inv'
<1> USE DEF RoleEnds
<1>1. TypeOK'
  <2>1. (role \in [Corrs -> Active \cup {"none", "stored", "raised", "cancelling", "cancelled"}])'
    OBVIOUS
  <2>2. results' \subseteq Corrs
    OBVIOUS
  <2> QED BY <2>1, <2>2
<1>2. SubmitOnce'
  BY DEF SubmitOnce, WaitsUnanswered, CancelLast, TablesTell, ToCome, Fresh, Accepted
<1>3. WaitsUnanswered'  BY DEF SubmitOnce, WaitsUnanswered, ToCome, Fresh, Accepted
<1>4. BoundBefore'
  BY DEF SubmitOnce, WaitsUnanswered, BoundBefore, Fresh, ToCome, Accepted
<1>5. (CancelLast /\ ConfirmedIsReleased)'
  BY DEF SubmitOnce, CancelLast, ConfirmedIsReleased, TablesTell, Released, Fresh,
     Accepted
<1>6. TablesTell'
  BY DEF SubmitOnce, WaitsUnanswered, CancelLast, TablesTell, ToCome, Fresh, Accepted
<1> QED BY <1>1, <1>2, <1>3, <1>4, <1>5, <1>6

\* A cancelled role is in no table.
LEMMA RoleCancelledKeeps ==
    ASSUME Inv, NEW c \in Corrs, RoleCancelled(c) PROVE Inv'
<1> USE DEF RoleCancelled
<1>1. TypeOK'  BY TimeAssumption
<1>2. SubmitOnce'
  BY DEF SubmitOnce, WaitsUnanswered, CancelLast, TablesTell, ToCome, Fresh, Accepted
<1>3. WaitsUnanswered'  BY DEF SubmitOnce, WaitsUnanswered, ToCome, Fresh, Accepted
<1>4. BoundBefore'
  BY DEF SubmitOnce, WaitsUnanswered, BoundBefore, Fresh, ToCome, Accepted
<1>5. (CancelLast /\ ConfirmedIsReleased)'
  BY DEF SubmitOnce, CancelLast, ConfirmedIsReleased, TablesTell, Released, Fresh,
     Accepted
<1>6. TablesTell'
  BY DEF SubmitOnce, WaitsUnanswered, CancelLast, TablesTell, ToCome, Fresh, Accepted
<1> QED BY <1>1, <1>2, <1>3, <1>4, <1>5, <1>6

HIDE DEF Inv, TypeOK, After, Ops, Body, Active, Corrs, client, peer, tables

\* Whatever comes on a wire, and however the agent takes it.
LEMMA HandleKeeps ==
    ASSUME Inv, NEW op \in Ops, NEW c \in Corrs, Handle(op, c) PROVE Inv'
<1>1. /\ <<op, c>> \in wire /\ wire' = wire \ {<<op, c>>} /\ now' = now
      /\ \/ Refuse(op, c)
         \/ op = "capabilities" /\ Capabilities(c)
         \/ op = "submit" /\ SubmitLease(c)
         \/ op = "submit" /\ SubmitRole(c)
         \/ op = "read-result" /\ ReadResult(c)
         \/ op = "cancel" /\ Cancel(c)
  BY DEF Handle
<1>2. CASE Refuse(op, c)
  BY <1>1, <1>2, RefuseKeeps
<1>3. CASE op = "capabilities" /\ Capabilities(c)
  BY <1>1, <1>3, CapabilitiesKeeps
<1>4. CASE op = "submit" /\ SubmitLease(c)
  BY <1>1, <1>4, SubmitLeaseKeeps
<1>5. CASE op = "submit" /\ SubmitRole(c)
  BY <1>1, <1>5, SubmitRoleKeeps
<1>6. CASE op = "read-result" /\ ReadResult(c)
  BY <1>1, <1>6, ReadResultKeeps
<1>7. CASE op = "cancel" /\ Cancel(c)
  BY <1>1, <1>7, CancelKeeps
<1> QED BY <1>1, <1>2, <1>3, <1>4, <1>5, <1>6, <1>7

\* Every step of the client.
LEMMA ClientKeeps ==
    ASSUME Inv, Client PROVE Inv'
<1>1. CASE Capable
  BY <1>1, CapableKeeps
<1>2. CASE Submitted
  BY <1>2, SubmittedKeeps
<1>3. CASE Sent
  BY <1>3, SentKeeps
<1>4. CASE Pending
  BY <1>4, PendingKeeps
<1>5. CASE Polled
  BY <1>5, PolledKeeps
<1>6. CASE Receipts
  BY <1>6, ReceiptsKeeps
<1>7. CASE Opened
  BY <1>7, OpenedKeeps
<1>8. CASE Result
  BY <1>8, ResultKeeps
<1>9. CASE Fails
  BY <1>9, FailsKeeps
<1>10. CASE TimesOut
  BY <1>10, TimesOutKeeps
<1>11. CASE Closed
  BY <1>11, ClosedKeeps
<1>12. CASE Cancelled
  BY <1>12, CancelledKeeps
<1> QED BY <1>1, <1>2, <1>3, <1>4, <1>5, <1>6, <1>7, <1>8, <1>9, <1>10, <1>11, <1>12
     DEF Client

\* Every step of a role.
LEMMA RoleKeeps ==
    ASSUME Inv, NEW c \in Corrs, Role(c) PROVE Inv'
<1>1. CASE RoleEnds(c)
  BY <1>1, RoleEndsKeeps
<1>2. CASE RoleCancelled(c)
  BY <1>2, RoleCancelledKeeps
<1>3. CASE RoleBinds
  BY <1>3, RoleBindsKeeps
<1>4. CASE RoleFails
  BY <1>4, RoleFailsKeeps
<1>5. CASE RoleNeverBegins
  BY <1>5, RoleNeverBeginsKeeps
<1> QED BY <1>1, <1>2, <1>3, <1>4, <1>5 DEF Role

\* A step of something else.
LEMMA StutterKeeps ==
    ASSUME Inv, UNCHANGED vars PROVE Inv'
BY DEF vars, client, peer, tables, Inv, TypeOK, SubmitOnce, WaitsUnanswered, BoundBefore,
   CancelLast, ConfirmedIsReleased, TablesTell, Fresh, ToCome, Accepted, Released

\* Every step of the two.
LEMMA NextKeeps ==
    ASSUME Inv, [Next]_vars PROVE Inv'
<1>1. CASE Tick
  BY <1>1, TickKeeps
<1>2. CASE Client
  BY <1>2, ClientKeeps
<1>3. CASE Interrupt
  BY <1>3, InterruptKeeps
<1>4. ASSUME NEW op \in Ops, NEW c \in Corrs, Handle(op, c) PROVE Inv'
  BY <1>4, HandleKeeps
<1>5. ASSUME NEW op \in Ops, NEW c \in Corrs, Lose(op, c) PROVE Inv'
  BY <1>5, LoseKeeps
<1>6. CASE WaitReady
  BY <1>6, WaitReadyKeeps
<1>7. CASE GiveUp
  BY <1>7, GiveUpKeeps
<1>8. CASE Restart
  BY <1>8, RestartKeeps
<1>9. ASSUME NEW c \in Corrs, Role(c) PROVE Inv'
  BY <1>9, RoleKeeps
<1>10. CASE UNCHANGED vars
  BY <1>10, StutterKeeps
<1> QED BY <1>1, <1>2, <1>3, <1>4, <1>5, <1>6, <1>7, <1>8, <1>9, <1>10 DEF Next

\* The invariant holds of every behaviour.
THEOREM ControlInvariant == Spec => []Inv
<1>1. Init => Inv
  BY InitInv
<1>2. Inv /\ [Next]_vars => Inv'
  BY NextKeeps
<1> QED BY <1>1, <1>2, PTL DEF Spec

\* The variables keep their types: a lease is only ever the forward correlation's,
\* and only a paired role makes a handler wait.
THEOREM ControlTypeCorrect == Spec => []TypeOK
<1>1. Inv => TypeOK
  BY DEF Inv
<1> QED BY <1>1, ControlInvariant, PTL

\* PairedPeerService.submit answers "accepted" only when wait_ready has said that
\* the listeners are bound, however the role, the deadline and the loss of answers
\* interleave: a client that sends was preceded by a peer that listens.
THEOREM AcceptCorrect == Spec => []AcceptedIsReady
<1>1. Inv => AcceptedIsReady
  BY DEF Inv, BoundBefore, AcceptedIsReady
<1> QED BY <1>1, ControlInvariant, PTL

\* PairedPeerService.cancel, once answered, is final: no frame on its way, handler
\* or role brings anything of the correlation back.
THEOREM ConfirmedCorrect == Spec => []ConfirmedIsReleased
<1>1. Inv => ConfirmedIsReleased
  BY DEF Inv
<1> QED BY <1>1, ControlInvariant, PTL

\* PairedPeerService.read_result says "pending" to its owner only of a role that
\* goes on: its fallback for a correlation it does not know is never taken for one
\* that was accepted.
LEMMA PendingStep ==
    ASSUME Inv, [Next]_vars, reply # "pending", reply' = "pending"
    PROVE  role[leg] \in Active
<1>1. PICK op \in Ops, c \in Corrs : Handle(op, c)
  <2>1. ~Tick /\ ~Interrupt /\ ~WaitReady /\ ~GiveUp /\ ~Restart /\ ~UNCHANGED vars
    BY DEF Tick, Interrupt, Unwind, CancelNext, Ask, WaitReady, Respond, GiveUp, Restart,
       vars, client
  <2>2. ~Client
    BY DEF Client, Capable, Submitted, Sent, Pending, Polled, Receipts, Opened, Result,
       Fails, TimesOut, Closed, Cancelled, Request, Unwind, CancelNext, Ask
  <2>3. \A op \in Ops, c \in Corrs : ~Lose(op, c)
    BY DEF Lose, Respond
  <2>4. \A c \in Corrs : ~Role(c)
    BY DEF Role, RoleEnds, RoleCancelled, RoleBinds, RoleFails, RoleNeverBegins, client
  <2> QED BY <2>1, <2>2, <2>3, <2>4 DEF Next
<1>2. op = "read-result" /\ ReadResult(c)
  BY <1>1 DEF Handle, Refuse, Capabilities, SubmitLease, SubmitRole, Cancel, Respond, client
<1>3. pc = "read-result" /\ leg = c
  BY <1>2 DEF ReadResult, Respond
<1>4. c \in submitted /\ c \in owners
  BY <1>1, <1>2, <1>3 DEF ReadResult, Admitted, Owned, Inv, CancelLast
<1> QED BY <1>2, <1>3, <1>4 DEF ReadResult, Respond, Inv, TablesTell, Body

\* An owner is told to come back only for a role that is there.
THEOREM PendingCorrect == Spec => PendingIsAlive
<1>1. Inv /\ [Next]_vars => [reply # "pending" /\ reply' = "pending" => role[leg] \in Active]_vars
  BY PendingStep
<1> QED BY <1>1, ControlInvariant, PTL DEF Spec, PendingIsAlive

-----------------------------------------------------------------------------
(* Command.                                                                *)

\* A reader at the end of its stream holds all that was written, and nobody is left
\* who could still write.
EofIsEnd == \A s \in Child!Streams : reader[s] = "eof" => Child!AtEnd(s)

\* Where run_command is, and what has come of the child, the readers and the pipes.
Place ==
    /\ at = "creating" => child = "none"
    /\ at \in {"creating", "reading", "waiting"} => result = "none"
    /\ at = "waiting" \/ result = "SUCCESS" => \A s \in Child!Streams : reader[s] = "eof"
    /\ at \in {"draining", "reaping"} =>
          child # "running" /\ result \in {"TIMEOUT", "OUTPUT_OVERFLOW", "ERROR", "cancelled"}
    /\ at = "reaping" => pipes = {}
    /\ at = "over" /\ result \in {"TIMEOUT", "OUTPUT_OVERFLOW"} => pipes = {}
    /\ at = "over" => child # "running"
    /\ result = "SUCCESS" => at = "over" /\ child = "exited"

ChildInv == Child!TypeOK /\ EofIsEnd /\ Place

\* It holds before the child is created.
LEMMA ChildInvInit == Child!Init => ChildInv
<1> SUFFICES ASSUME Child!Init PROVE ChildInv
  OBVIOUS
<1>1. 0 \in 0..Maximum /\ 0 \in 0..MaxWritten /\ 0 \in 0..MaxCancels
  BY ChildAssumption
<1>2. Child!TypeOK
  BY <1>1 DEF Child!Init, Child!TypeOK
<1>3. EofIsEnd /\ Place
  BY DEF Child!Init, EofIsEnd, Place
<1> QED BY <1>2, <1>3 DEF ChildInv

\* What is read and kept stays within what was written and within the maximum.
LEMMA ChildType == Child!TypeOK /\ [Child!Next]_(Child!vars) => Child!TypeOK'
<1> SUFFICES ASSUME Child!TypeOK, [Child!Next]_(Child!vars) PROVE Child!TypeOK'
  OBVIOUS
<1>1. CASE \E s \in Child!Streams : Child!Write(s) \/ Child!CloseStream(s)
  BY <1>1, ChildAssumption DEF Child!Write, Child!CloseStream, Child!TypeOK, Child!Ended
<1>2. ASSUME NEW s \in Child!Streams, Child!Read(s) PROVE Child!TypeOK'
  <2>1. PICK n \in 1..Chunk : 
          /\ n <= written[s] - held[s]
          /\ IF n > Maximum - held[s]
             THEN /\ held' = [held EXCEPT ![s] = Maximum]
                  /\ reader' = [reader EXCEPT ![s] = "overflow"]
             ELSE /\ held' = [held EXCEPT ![s] = @ + n]
                  /\ UNCHANGED reader
    BY <1>2 DEF Child!Read
  <2>2. Maximum \in Nat /\ held[s] \in 0..Maximum /\ n \in Nat
    BY <2>1, ChildAssumption DEF Child!TypeOK
  <2>3. held' \in [Child!Streams -> 0..Maximum]
    BY <2>1, <2>2 DEF Child!TypeOK
  <2> QED BY <1>2, <2>1, <2>3 DEF Child!Read, Child!process, Child!TypeOK
<1>3. CASE \E s \in Child!Streams : Child!Reads(s)
  BY <1>3 DEF Child!Reads, Child!process, Child!TypeOK
<1>4. CASE Child!Fork \/ Child!HeirExits \/ Child!ChildEnds
  BY <1>4 DEF Child!Fork, Child!HeirExits, Child!ChildEnds, Child!TypeOK, Child!Ended
<1>5. CASE Child!Create
  BY <1>5 DEF Child!Create, Child!Returns, Child!TypeOK, Child!Outcomes, Child!Failures
<1>6. CASE Child!Gather \/ Child!Wait \/ Child!Drain \/ Child!Reap
  BY <1>6 DEF Child!Gather, Child!Wait, Child!Drain, Child!Reap, Child!Returns,
         Child!process, Child!TypeOK, Child!Outcomes
<1>7. ASSUME NEW o \in Child!Outcomes, Child!Terminate(o)
      PROVE  /\ result' \in Child!Outcomes /\ at' = "draining"
             /\ child' \in {"none", "running", "killed"} \cup Child!Ended
             /\ reader' \in [Child!Streams ->
                   {"none", "reading", "eof", "overflow", "failed", "cancelled"}]
  BY <1>7 DEF Child!Terminate, Child!TypeOK
<1>8. CASE Child!GatherFails \/ Child!TimesOut
  <2>1. \E o \in Child!Outcomes : Child!Terminate(o)
    BY <1>8 DEF Child!GatherFails, Child!TimesOut, Child!Outcomes, Child!Failures
  <2> QED BY <1>7, <1>8, <2>1 DEF Child!GatherFails, Child!TimesOut, Child!TypeOK
<1>9. CASE Child!Cancel
  <2>1. cancels' \in 0..MaxCancels
    BY <1>9, ChildAssumption DEF Child!Cancel, Child!TypeOK
  <2>2. CASE Child!Terminate("cancelled")
    BY <1>7, <1>9, <2>1, <2>2 DEF Child!Cancel, Child!TypeOK, Child!Outcomes
  <2>3. CASE Child!Returns("cancelled") /\ UNCHANGED <<child, reader>>
    BY <1>9, <2>1, <2>3 DEF Child!Cancel, Child!Returns, Child!TypeOK, Child!Outcomes
  <2> QED BY <1>9, <2>2, <2>3 DEF Child!Cancel
<1>10. CASE UNCHANGED Child!vars
  BY <1>10 DEF Child!vars, Child!process, Child!TypeOK
<1> QED BY <1>1, <1>2, <1>3, <1>4, <1>5, <1>6, <1>8, <1>9, <1>10 DEF Child!Next, Child!Loop

\* Nobody writes, forks or reads beyond the end of a stream.
LEMMA EofStep == ChildInv /\ [Child!Next]_(Child!vars) => EofIsEnd'
<1> SUFFICES ASSUME ChildInv, [Child!Next]_(Child!vars), NEW s \in Child!Streams, reader'[s] = "eof"
             PROVE  Child!AtEnd(s)'
  BY DEF EofIsEnd
<1>1. Child!TypeOK /\ EofIsEnd /\ Place
  BY DEF ChildInv
<1>2. CASE \E u \in Child!Streams : Child!Write(u) \/ Child!CloseStream(u)
  BY <1>1, <1>2 DEF Child!Write, Child!CloseStream, Child!TypeOK, EofIsEnd, Child!AtEnd,
         Child!Ended
<1>3. CASE \E u \in Child!Streams : Child!Read(u)
  BY <1>1, <1>3 DEF Child!Read, Child!process, Child!TypeOK, EofIsEnd, Child!AtEnd
<1>4. CASE \E u \in Child!Streams : Child!Reads(u)
  BY <1>1, <1>4 DEF Child!Reads, Child!process, Child!TypeOK, EofIsEnd, Child!AtEnd
<1>5. CASE Child!Fork \/ Child!HeirExits \/ Child!ChildEnds
  BY <1>1, <1>5 DEF Child!Fork, Child!HeirExits, Child!ChildEnds, Child!TypeOK, EofIsEnd,
         Child!AtEnd, Child!Ended
<1>6. CASE Child!Create
  BY <1>1, <1>6 DEF Child!Create, Child!Returns, Child!TypeOK, EofIsEnd, Child!AtEnd,
         Place, Child!Ended
<1>7. CASE Child!Gather \/ Child!Wait \/ Child!Drain \/ Child!Reap \/ UNCHANGED Child!vars
  BY <1>1, <1>7 DEF Child!Gather, Child!Wait, Child!Drain, Child!Reap, Child!vars,
         Child!process, EofIsEnd, Child!AtEnd
<1>8. ASSUME NEW o, Child!Terminate(o), UNCHANGED <<heir, writers, written, held>>
      PROVE  Child!AtEnd(s)'
  BY <1>1, <1>8 DEF Child!Terminate, Child!TypeOK, EofIsEnd, Child!AtEnd, Child!Ended
<1>9. CASE Child!GatherFails \/ Child!TimesOut
  BY <1>8, <1>9 DEF Child!GatherFails, Child!TimesOut
<1>10. CASE Child!Cancel
  <2>1. CASE Child!Returns("cancelled") /\ UNCHANGED <<child, reader>>
    BY <1>1, <1>10, <2>1 DEF Child!Cancel, EofIsEnd, Child!AtEnd
  <2> QED BY <1>8, <1>10, <2>1 DEF Child!Cancel
<1> QED BY <1>2, <1>3, <1>4, <1>5, <1>6, <1>7, <1>9, <1>10 DEF Child!Next, Child!Loop

\* A clean-up begins by ending the child, and waits for it and the pipes in that order.
LEMMA PlaceStep == ChildInv /\ [Child!Next]_(Child!vars) => Place'
<1> SUFFICES ASSUME ChildInv, [Child!Next]_(Child!vars) PROVE Place'
  OBVIOUS
<1>1. Child!TypeOK /\ EofIsEnd /\ Place
  BY DEF ChildInv
<1>2. CASE \E u \in Child!Streams : Child!Write(u) \/ Child!CloseStream(u)
  BY <1>1, <1>2 DEF Child!Write, Child!CloseStream, Place
<1>3. CASE \E u \in Child!Streams : Child!Read(u) \/ Child!Reads(u)
  BY <1>1, <1>3 DEF Child!Read, Child!Reads, Child!process, Child!TypeOK, Place
<1>4. CASE Child!Fork \/ Child!HeirExits \/ Child!ChildEnds
  BY <1>1, <1>4 DEF Child!Fork, Child!HeirExits, Child!ChildEnds, Place
<1>5. CASE Child!Create
  BY <1>1, <1>5 DEF Child!Create, Child!Returns, Place, Child!Failures
<1>6. CASE Child!Gather
  BY <1>1, <1>6 DEF Child!Gather, Child!process, Place
<1>7. CASE Child!Wait
  BY <1>1, <1>7 DEF Child!Wait, Child!Returns, Child!process, Place, Child!Ended
<1>8. CASE Child!Drain \/ Child!Reap \/ UNCHANGED Child!vars
  BY <1>1, <1>8 DEF Child!Drain, Child!Reap, Child!Returns, Child!vars, Child!process, Place
<1>9. ASSUME NEW o \in {"TIMEOUT", "OUTPUT_OVERFLOW", "ERROR", "cancelled"}, Child!Terminate(o)
      PROVE  Place'
  BY <1>9 DEF Child!Terminate, Place
<1>10. CASE Child!GatherFails \/ Child!TimesOut
  BY <1>9, <1>10 DEF Child!GatherFails, Child!TimesOut
<1>11. CASE Child!Cancel
  <2>1. CASE /\ Child!Returns("cancelled") /\ UNCHANGED <<child, reader>>
             /\ at \in {"creating", "draining", "reaping"}
    BY <1>1, <1>11, <2>1 DEF Child!Returns, Place
  <2> QED BY <1>9, <1>11, <2>1 DEF Child!Cancel
<1> QED BY <1>2, <1>3, <1>4, <1>5, <1>6, <1>7, <1>8, <1>10, <1>11 DEF Child!Next, Child!Loop

\* The variables of run_command keep their types, for any limits.
THEOREM ChildTypeCorrect == Child!Spec => []Child!TypeOK
<1> QED BY ChildInvInit, ChildType, PTL DEF Child!Spec, ChildInv

\* What run_command returns says what became of its child, its readers and its pipes.
THEOREM OutcomeCorrect == Child!Spec => []Child!OutcomeIsTrue
<1>1. ChildInv /\ [Child!Next]_(Child!vars) => ChildInv'
  BY ChildType, EofStep, PlaceStep DEF ChildInv
<1>2. ChildInv => Child!OutcomeIsTrue
  BY DEF ChildInv, EofIsEnd, Child!AtEnd, Place, Child!OutcomeIsTrue, Child!Streams
<1> QED BY <1>1, <1>2, ChildInvInit, PTL DEF Child!Spec

-----------------------------------------------------------------------------
(* The composition.                                                        *)

AgentP == INSTANCE PeerAgentProofs WITH
    Nonces <- AgentNonces, Conns <- AgentConns, Corrs <- AgentCorrs,
    MaxTime <- AgentMaxTime, now <- agentNow, owned <- agentOwned

BrokerP == INSTANCE WebBrokerProofs WITH Tasks <- WebTasks, held <- stored, ready <- queue

\* What the agent does is what its proofs are about.
LEMMA AgentInitSame == Agent!Init <=> AgentP!Init
BY DEF Agent!Init, AgentP!Init, Agent!Unmade, AgentP!Unmade, Agent!Idle, AgentP!Idle

\* Its steps are the same, too.
LEMMA AgentNextSame == Agent!Next => AgentP!Next
<1> USE DEF Agent!Unmade, AgentP!Unmade, Agent!Idle, AgentP!Idle, Agent!At, AgentP!At,
      Agent!Goes, AgentP!Goes, Agent!Rejects, AgentP!Rejects, Agent!Current, AgentP!Current,
      Agent!ReadsClock, AgentP!ReadsClock, Agent!Purged, AgentP!Purged, Agent!Owns, AgentP!Owns, Agent!Cardinality, AgentP!Cardinality
<1>1. Agent!Tick => AgentP!Tick
  BY DEF Agent!Tick, AgentP!Tick
<1>2. ASSUME NEW n \in AgentNonces PROVE Agent!Make(n) => AgentP!Make(n)
  BY DEF Agent!Make, AgentP!Make, Agent!Operations, AgentP!Operations
<1>3. ASSUME NEW n \in AgentNonces, NEW k \in AgentConns
      PROVE  Agent!Connect(k, n) => AgentP!Connect(k, n)
  BY DEF Agent!Connect, AgentP!Connect
<1>4. ASSUME NEW k \in AgentConns PROVE Agent!Unreadable(k) => AgentP!Unreadable(k)
  BY DEF Agent!Unreadable, AgentP!Unreadable
<1>5. ASSUME NEW k \in AgentConns PROVE Agent!Expired(k) => AgentP!Expired(k)
  BY DEF Agent!Expired, AgentP!Expired
<1>6. ASSUME NEW k \in AgentConns PROVE Agent!Refused(k) => AgentP!Refused(k)
  BY DEF Agent!Refused, AgentP!Refused
<1>7. ASSUME NEW k \in AgentConns PROVE Agent!Admitted(k) => AgentP!Admitted(k)
  BY DEF Agent!Admitted, AgentP!Admitted
<1>8. ASSUME NEW k \in AgentConns PROVE Agent!HandlerReturns(k) => AgentP!HandlerReturns(k)
  BY DEF Agent!HandlerReturns, AgentP!HandlerReturns
<1>9. ASSUME NEW k \in AgentConns PROVE Agent!HandlerRaises(k) => AgentP!HandlerRaises(k)
  BY DEF Agent!HandlerRaises, AgentP!HandlerRaises
<1>10. ASSUME NEW k \in AgentConns PROVE Agent!Answered(k) => AgentP!Answered(k)
  BY DEF Agent!Answered, AgentP!Answered
<1> QED BY <1>1, <1>2, <1>3, <1>4, <1>5, <1>6, <1>7, <1>8, <1>9, <1>10 DEF Agent!Next,
     AgentP!Next

\* The broker begins as its proofs say.
LEMMA BrokerInitSame == Broker!Init <=> BrokerP!Init
BY DEF Broker!Init, BrokerP!Init

\* It goes on as they say.
LEMMA BrokerNextSame == Broker!Next => BrokerP!Next
<1> USE DEF Broker!threads, BrokerP!threads, Broker!record, BrokerP!record,
      Broker!thread, BrokerP!thread, Broker!run, BrokerP!run, Broker!inner, BrokerP!inner,
      Broker!Alive, BrokerP!Alive, Broker!Orphan, BrokerP!Orphan, Broker!Takes, BrokerP!Takes, Broker!Suspends, BrokerP!Suspends,
      Broker!Ends, BrokerP!Ends, Broker!Raises, BrokerP!Raises, Broker!Returns, BrokerP!Returns,
      Broker!Interrupted, BrokerP!Interrupted
<1>1. \A S : Broker!SetToSeq(S) = BrokerP!SetToSeq(S)
  BY DEF Broker!SetToSeq, BrokerP!SetToSeq, Broker!IsInjective, BrokerP!IsInjective,
       Broker!Cardinality, BrokerP!Cardinality
<1>2. \A f : Broker!Range(f) = BrokerP!Range(f)
  BY DEF Broker!Range, BrokerP!Range
<1>3. \A q, t : Broker!Wake(q, t) = BrokerP!Wake(q, t)
  BY <1>2 DEF Broker!Wake, BrokerP!Wake
<1>4. Broker!Drain => BrokerP!Drain
  BY <1>1, <1>2 DEF Broker!Drain, BrokerP!Drain
<1>5. (Broker!Close => BrokerP!Close) /\ (Broker!Closed => BrokerP!Closed)
      /\ (Broker!Stop => BrokerP!Stop)
  BY DEF Broker!Close, BrokerP!Close, Broker!Closed, BrokerP!Closed, Broker!Stop, BrokerP!Stop
<1>6. \A t \in WebTasks : Broker!Post(t) => BrokerP!Post(t)
  BY <1>2, <1>3 DEF Broker!Post, BrokerP!Post
<1>7. \A t \in WebTasks : Broker!Posted(t) => BrokerP!Posted(t)
  BY <1>2, <1>3 DEF Broker!Posted, BrokerP!Posted
<1>8. \A t \in WebTasks : Broker!Delete(t) => BrokerP!Delete(t)
  BY <1>2, <1>3 DEF Broker!Delete, BrokerP!Delete
<1>9. \A t \in WebTasks : Broker!Arrives(t) => BrokerP!Arrives(t)
  BY <1>2, <1>3 DEF Broker!Arrives, BrokerP!Arrives
<1>10. \A t \in WebTasks : Broker!ServiceEnds(t) => BrokerP!ServiceEnds(t)
  BY <1>2, <1>3 DEF Broker!ServiceEnds, BrokerP!ServiceEnds
<1>11. \A t \in WebTasks : Broker!Schedule(t) => BrokerP!Schedule(t)
  BY <1>2, <1>3 DEF Broker!Schedule, BrokerP!Schedule
<1>12. \A t \in WebTasks : Broker!Cancel(t) => BrokerP!Cancel(t)
  BY <1>2, <1>3 DEF Broker!Cancel, BrokerP!Cancel
<1>13. \A t \in WebTasks : Broker!Begin(t) => BrokerP!Begin(t)
  BY <1>2, <1>3 DEF Broker!Begin, BrokerP!Begin
<1>14. \A t \in WebTasks : Broker!Direct(t) => BrokerP!Direct(t)
  BY <1>2, <1>3 DEF Broker!Direct, BrokerP!Direct, Broker!Submits, BrokerP!Submits
<1>15. \A t \in WebTasks : Broker!Serving(t) => BrokerP!Serving(t)
  BY <1>2, <1>3 DEF Broker!Serving, BrokerP!Serving, Broker!Leaves, BrokerP!Leaves,
     Broker!PassesOn, BrokerP!PassesOn
<1>16. \A t \in WebTasks : Broker!Absorbing(t) => BrokerP!Absorbing(t)
  BY <1>2, <1>3 DEF Broker!Absorbing, BrokerP!Absorbing, Broker!Leaves, BrokerP!Leaves
<1>17. \A t \in WebTasks : Broker!Fetch(t) => BrokerP!Fetch(t)
  BY <1>2, <1>3 DEF Broker!Fetch, BrokerP!Fetch
<1>18. \A t \in WebTasks : Broker!Fetching(t) => BrokerP!Fetching(t)
  BY <1>2, <1>3 DEF Broker!Fetching, BrokerP!Fetching
<1> QED BY <1>4, <1>5, <1>6, <1>7, <1>8, <1>9, <1>10, <1>11, <1>12, <1>13, <1>14, <1>15,
     <1>16, <1>17, <1>18
        DEF Broker!Next, BrokerP!Next, Broker!Callback, BrokerP!Callback

\* Of a behaviour of the composition, each part sees one of its own: it begins as its
\* module says, and the steps of the others leave it alone.
THEOREM PartsBehave == EdgesSpec => Spec /\ AgentP!Spec /\ BrokerP!Spec /\ Child!Spec
<1> USE DEF EdgesNext, ControlStep, AgentStep, BrokerStep, PageStep, ChildStep, allVars
<1>1. EdgesInit => Init /\ AgentP!Init /\ BrokerP!Init /\ Child!Init
  BY AgentInitSame, BrokerInitSame DEF EdgesInit
<1>2. [EdgesNext]_allVars => [Next]_vars
  BY DEF vars
<1>3. [EdgesNext]_allVars => [AgentP!Next]_(AgentP!vars)
  BY AgentNextSame DEF agentVars, AgentP!vars
<1>4. [EdgesNext]_allVars => [BrokerP!Next]_(BrokerP!vars)
  BY BrokerNextSame DEF brokerVars, BrokerP!vars, BrokerP!threads, BrokerP!record,
     BrokerP!thread, BrokerP!run, BrokerP!inner
<1>5. [EdgesNext]_allVars => [Child!Next]_(Child!vars)
  BY DEF childVars, Child!vars, Child!process
<1> QED BY <1>1, <1>2, <1>3, <1>4, <1>5, PTL
        DEF EdgesSpec, Spec, AgentP!Spec, BrokerP!Spec, Child!Spec

\* The agent dispatches no frame again that has not expired (_NonceCache.admit), whichever
\* connections bring it.
THEOREM RepeatExpired == EdgesSpec => OnceWhileCurrent
<1>1. AgentP!AgentConstants
  BY AgentAssumption DEF AgentP!AgentConstants
<1>2. [AgentP!RepeatIsExpired]_(AgentP!vars) => [Agent!RepeatIsExpired]_(Agent!vars)
  BY DEF AgentP!RepeatIsExpired, Agent!RepeatIsExpired, Agent!vars, AgentP!vars
<1> QED BY <1>1, <1>2, PartsBehave, AgentP!RepeatsAreExpired, PTL
        DEF AgentP!OnceWhileCurrent, OnceWhileCurrent, Agent!OnceWhileCurrent

\* It refuses a frame that is current, new and owned only while its cache is full of
\* frames that are current themselves.
THEOREM FreshServed == EdgesSpec => FreshIsServed
<1>1. AgentP!AgentConstants
  BY AgentAssumption DEF AgentP!AgentConstants
<1>2. [AgentP!FreshFits]_(AgentP!vars) => [Agent!FreshFits]_(Agent!vars)
  <2>1. \A S : Agent!Cardinality(S) = AgentP!Cardinality(S)
    BY DEF Agent!Cardinality, AgentP!Cardinality
  <2>2. AgentP!FreshFits <=> Agent!FreshFits
    BY <2>1 DEF AgentP!FreshFits, Agent!FreshFits, Agent!At, AgentP!At, Agent!Current,
         AgentP!Current, Agent!Owns, AgentP!Owns, Agent!Idle, AgentP!Idle
  <2> QED BY <2>2 DEF Agent!vars, AgentP!vars
<1> QED BY <1>1, <1>2, PartsBehave, AgentP!FreshFrameIsServed, PTL
        DEF AgentP!FreshIsServed, FreshIsServed, Agent!FreshIsServed

\* A task of TaskService that the broker leaves running over a closed store was asked to
\* cancel, has its token set (TaskService.cancel), and is shown as a failure.
THEOREM OrphanShown == EdgesSpec => []OrphanIsShown
<1>1. BrokerP!IsFiniteSet(WebTasks)
  BY BrokerAssumption DEF IsFiniteSet, BrokerP!IsFiniteSet
<1>2. BrokerP!OrphanIsShown => OrphanIsShown
  BY DEF BrokerP!OrphanIsShown, OrphanIsShown, Broker!OrphanIsShown, BrokerP!Orphan,
     Broker!Orphan
<1> QED BY <1>1, <1>2, PartsBehave, BrokerP!OrphansAreShown, PTL

\* A command that succeeds has the whole output of a child that has ended, one that is
\* cleaned up has closed its pipes, and none leaves its child running.
THEOREM OutcomeTrue == EdgesSpec => []OutcomeIsTrue
<1>1. Child!OutcomeIsTrue => OutcomeIsTrue
  BY DEF OutcomeIsTrue
<1> QED BY <1>1, PartsBehave, OutcomeCorrect, PTL

=============================================================================
