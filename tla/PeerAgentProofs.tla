---------------------------- MODULE PeerAgentProofs ----------------------------
(***************************************************************************)
(* That the nonce cache of PeerAgent keeps its two promises for any number *)
(* of frames and connections, any capacity and any clock: no frame is      *)
(* dispatched again before it has expired, and no frame is refused for     *)
(* want of room that is there.                                             *)
(***************************************************************************)
EXTENDS PeerAgent, FiniteSetTheorems, TLAPS

\* The constants of _NonceCache and of the frames' times.
AgentConstants == Capacity \in Nat /\ MaxLife \in Nat /\ Skew \in Nat /\ MaxTime \in Nat

-----------------------------------------------------------------------------
\* A connection that is not idle carries a frame that was made.
CarriedIsMade == \A k \in Conns : conn[k] # Idle => frames[conn[k].nonce] # Unmade

\* Only what the cache has admitted is dispatched.
DispatchFollowsAdmission == \A n \in Nonces \ admitted : dispatched[n] = 0

\* An admitted frame stays in the cache at least as long as it is current ...
AdmittedIsRemembered ==
    \A n \in admitted :
        /\ frames[n] # Unmade
        /\ frames[n].expires > now => <<n, frames[n].expires>> \in entries

\* ... and nothing else is ever in it.
EntryIsAdmitted ==
    \A e \in entries : e[1] \in admitted /\ e[2] = frames[e[1]].expires

AgentInv ==
    /\ TypeOK
    /\ IsFiniteSet(entries)
    /\ CarriedIsMade
    /\ DispatchFollowsAdmission
    /\ AdmittedIsRemembered
    /\ EntryIsAdmitted

-----------------------------------------------------------------------------
\* What is forgotten of the cache by some time leaves a finite part of it, no larger.
LEMMA PurgedIsFinite ==
    ASSUME AgentInv
    PROVE  \A clock :
              /\ Purged(clock) \subseteq entries
              /\ IsFiniteSet(Purged(clock))
              /\ Cardinality(Purged(clock)) \in Nat
              /\ Cardinality(Purged(clock)) <= Cardinality(entries)
              /\ Cardinality(entries) \in Nat
  <1> TAKE clock
  <1>1. Purged(clock) \in SUBSET entries
    BY DEF Purged
  <1>2. IsFiniteSet(entries)
    BY DEF AgentInv
  <1>3. IsFiniteSet(Purged(clock)) /\ Cardinality(Purged(clock)) <= Cardinality(entries)
    BY <1>1, <1>2, FS_Subset
  <1> QED
    BY <1>1, <1>2, <1>3, FS_CardinalityType

\* An empty cache and idle connections satisfy the invariant.
LEMMA AgentInvInit ==
    ASSUME AgentConstants, Init
    PROVE  AgentInv
  <1>1. IsFiniteSet({}) /\ Cardinality({}) = 0
    BY FS_EmptySet
  <1>2. TypeOK
    BY <1>1 DEF AgentConstants, Init, TypeOK
  <1>3. CarriedIsMade /\ DispatchFollowsAdmission /\ AdmittedIsRemembered /\ EntryIsAdmitted
    BY DEF Init, CarriedIsMade, DispatchFollowsAdmission, AdmittedIsRemembered, EntryIsAdmitted
  <1> QED
    BY <1>1, <1>2, <1>3 DEF AgentInv, Init

\* A frame that is made has the times of a frame.
LEMMA MadeIsFrame ==
    ASSUME TypeOK, NEW n \in Nonces, frames[n] # Unmade
    PROVE  /\ frames[n] \in Frame
           /\ frames[n].expires \in Nat /\ frames[n].issued \in Nat
  BY DEF TypeOK, Frame

\* A step that only moves a connection, in some time, keeps what concerns the cache.
MovesOnly(k) ==
    /\ conn[k] # Idle
    /\ \E place \in {"handling", "answering", "refused", "closed"} : Goes(k, place)
    /\ audit' \in {audit, audit \cup {k}}
    /\ now' \in Nat /\ now' >= now
    /\ UNCHANGED frames

\* A connection that only moves on keeps a nonce that was made.
LEMMA MovingKeepsTypes ==
    ASSUME TypeOK, CarriedIsMade, NEW k \in Conns, MovesOnly(k)
    PROVE  /\ conn' \in [Conns -> {Idle} \cup
                            [at : {"reading", "handling", "answering", "refused", "closed"},
                             nonce : Nonces]]
           /\ audit' \subseteq Conns /\ now' \in Nat
           /\ frames' \in [Nonces -> Frame \cup {Unmade}]
           /\ CarriedIsMade'
  <1>1. PICK place \in {"handling", "answering", "refused", "closed"} :
           conn' = [conn EXCEPT ![k].at = place]
    BY DEF MovesOnly, Goes
  <1>2. conn[k] \in [at : {"reading", "handling", "answering", "refused", "closed"},
                     nonce : Nonces]
    BY DEF TypeOK, MovesOnly
  <1>3. conn' = [conn EXCEPT ![k] = [at |-> place, nonce |-> conn[k].nonce]]
    <2>1. [conn[k] EXCEPT !.at = place] = [at |-> place, nonce |-> conn[k].nonce]
      BY <1>2
    <2> QED
      BY <1>1, <2>1
  <1>4. conn' \in [Conns -> {Idle} \cup
                      [at : {"reading", "handling", "answering", "refused", "closed"},
                       nonce : Nonces]]
    BY <1>2, <1>3 DEF TypeOK
  <1>5. frames' = frames /\ now' \in Nat /\ audit' \subseteq Conns
    BY DEF MovesOnly, TypeOK
  <1>6. ASSUME NEW j \in Conns, conn'[j] # Idle
        PROVE  frames'[conn'[j].nonce] # Unmade
    <2>1. CASE j = k
      <3>1. conn'[j].nonce = conn[k].nonce
        BY <1>3, <2>1 DEF TypeOK
      <3> QED
        BY <3>1, <1>5 DEF CarriedIsMade, MovesOnly
    <2>2. CASE j # k
      BY <1>3, <1>5, <1>6, <2>2 DEF TypeOK, CarriedIsMade
    <2> QED
      BY <2>1, <2>2
  <1> QED
    BY <1>4, <1>5, <1>6 DEF TypeOK, CarriedIsMade

\* It keeps the invariant when the cache is as it was, or is purged.
LEMMA MovingKeepsAgentInv ==
    ASSUME AgentConstants, AgentInv, NEW k \in Conns, MovesOnly(k),
           entries' = entries \/ entries' = Purged(now'),
           UNCHANGED <<owned, dispatched, admitted>>
    PROVE  AgentInv'
  <1>1. /\ conn' \in [Conns -> {Idle} \cup
                         [at : {"reading", "handling", "answering", "refused", "closed"},
                          nonce : Nonces]]
        /\ audit' \subseteq Conns /\ now' \in Nat
        /\ frames' \in [Nonces -> Frame \cup {Unmade}] /\ CarriedIsMade'
    BY MovingKeepsTypes DEF AgentInv
  <1>2. entries' \subseteq entries /\ IsFiniteSet(entries')
        /\ Cardinality(entries') <= Cardinality(entries) /\ Cardinality(entries') \in Nat
    BY PurgedIsFinite DEF AgentInv
  <1>3. Cardinality(entries') <= Capacity
    <2>1. CASE entries' = entries
      BY <2>1 DEF AgentInv, TypeOK
    <2>2. CASE entries' = Purged(now')
      BY <2>2, <1>2, PurgedIsFinite DEF AgentConstants, AgentInv, TypeOK
    <2> QED
      BY <2>1, <2>2
  <1>4. TypeOK'
    BY <1>1, <1>2, <1>3 DEF AgentInv, TypeOK
  <1>5. now' \in Nat /\ now' >= now /\ now \in Nat /\ frames' = frames
    BY DEF MovesOnly, AgentInv, TypeOK
  <1>6. DispatchFollowsAdmission'
    BY DEF AgentInv, DispatchFollowsAdmission
  <1>7. AdmittedIsRemembered'
    <2> SUFFICES ASSUME NEW m \in admitted
                 PROVE  /\ frames[m] # Unmade
                        /\ frames[m].expires > now' => <<m, frames[m].expires>> \in entries'
      BY <1>5 DEF AdmittedIsRemembered
    <2>1. frames[m] # Unmade /\ frames[m].expires \in Nat
      BY MadeIsFrame DEF AgentInv, AdmittedIsRemembered, TypeOK
    <2>2. ASSUME frames[m].expires > now'
          PROVE  <<m, frames[m].expires>> \in entries
      BY <1>5, <2>1, <2>2 DEF AgentInv, AdmittedIsRemembered
    <2> QED
      BY <2>1, <2>2 DEF Purged
  <1>8. EntryIsAdmitted'
    BY <1>2, <1>5 DEF AgentInv, EntryIsAdmitted
  <1> QED
    BY <1>1, <1>2, <1>4, <1>6, <1>7, <1>8 DEF AgentInv

-----------------------------------------------------------------------------
\* The second reading of the clock is not before the first.
LEMMA ClockGoesOn ==
    ASSUME AgentConstants, AgentInv, ReadsClock
    PROVE  now' \in Nat /\ now' >= now
  BY DEF AgentConstants, AgentInv, TypeOK, ReadsClock

\* A step of the agent that is not an admission keeps the invariant.
LEMMA RefusalsKeepAgentInv ==
    ASSUME AgentConstants, AgentInv, NEW k \in Conns,
           Unreadable(k) \/ Expired(k) \/ Refused(k)
               \/ HandlerReturns(k) \/ HandlerRaises(k) \/ Answered(k)
    PROVE  AgentInv'
  <1>1. MovesOnly(k)
    <2>1. now' \in Nat /\ now' >= now
      BY ClockGoesOn DEF Unreadable, Expired, Refused, HandlerReturns, HandlerRaises,
         Answered, AgentInv, TypeOK
    <2> QED
      BY <2>1 DEF Unreadable, Expired, Refused, HandlerReturns, HandlerRaises, Answered,
         Rejects, Goes, At, MovesOnly
  <1>2. (entries' = entries \/ entries' = Purged(now')) /\ UNCHANGED <<owned, dispatched, admitted>>
    BY DEF Unreadable, Expired, Refused, HandlerReturns, HandlerRaises, Answered
  <1> QED
    BY <1>1, <1>2, MovingKeepsAgentInv

\* What the cache admits while it is current was never admitted before: an admitted
\* frame that is still current is in it.
LEMMA AdmittedIsNew ==
    ASSUME AgentConstants, AgentInv, NEW k \in Conns, Admitted(k)
    PROVE  /\ conn[k].nonce \in Nonces
           /\ frames[conn[k].nonce] \in Frame
           /\ frames[conn[k].nonce].expires > now' =>
                 conn[k].nonce \notin admitted /\ dispatched[conn[k].nonce] = 0
  <1> DEFINE n == conn[k].nonce
  <1>1. n \in Nonces /\ frames[n] # Unmade
    BY DEF AgentInv, TypeOK, CarriedIsMade, Admitted, At
  <1>2. frames[n] \in Frame /\ frames[n].expires \in Nat
    BY <1>1, MadeIsFrame DEF AgentInv
  <1>3. \A e \in Purged(now') : e[1] # n
    BY DEF Admitted
  <1>4. ASSUME frames[n].expires > now', n \in admitted PROVE FALSE
    <2>1. now' \in Nat /\ now' >= now /\ now \in Nat
      BY ClockGoesOn DEF Admitted, AgentInv, TypeOK
    <2>2. frames[n].expires > now
      BY <1>2, <1>4, <2>1
    <2>3. <<n, frames[n].expires>> \in Purged(now')
      BY <1>4, <2>2 DEF AgentInv, AdmittedIsRemembered, Purged
    <2> QED
      BY <1>3, <2>3
  <1> QED
    BY <1>1, <1>2, <1>4 DEF AgentInv, DispatchFollowsAdmission

\* An admission keeps the invariant.
LEMMA AdmissionKeepsAgentInv ==
    ASSUME AgentConstants, AgentInv, NEW k \in Conns, Admitted(k)
    PROVE  AgentInv'
  <1> DEFINE n == conn[k].nonce
             f == frames[n]
  <1>1. n \in Nonces /\ f \in Frame
    BY AdmittedIsNew
  <1>2. /\ entries' = Purged(now') \cup {<<n, f.expires>>}
        /\ admitted' = admitted \cup {n}
        /\ owned' = IF f.op = "submit" THEN owned \cup {f.corr} ELSE owned
        /\ dispatched' = [dispatched EXCEPT ![n] = @ + 1] \/ dispatched' = dispatched
        /\ frames' = frames
        /\ Cardinality(Purged(now')) < Capacity
    BY DEF Admitted
  <1>3. MovesOnly(k) /\ now' \in Nat /\ now' >= now /\ now \in Nat
    <2>1. now' \in Nat /\ now' >= now
      BY ClockGoesOn DEF Admitted
    <2> QED
      BY <2>1 DEF Admitted, Rejects, Goes, At, MovesOnly, AgentInv, TypeOK
  <1>4. /\ conn' \in [Conns -> {Idle} \cup
                         [at : {"reading", "handling", "answering", "refused", "closed"},
                          nonce : Nonces]]
        /\ audit' \subseteq Conns /\ now' \in Nat
        /\ frames' \in [Nonces -> Frame \cup {Unmade}] /\ CarriedIsMade'
    BY <1>3, MovingKeepsTypes DEF AgentInv
  <1>5. f.expires \in Nat /\ f.corr \in Corrs
    BY <1>1 DEF Frame
  <1>6. Purged(now') \subseteq entries /\ IsFiniteSet(Purged(now'))
        /\ Cardinality(Purged(now')) \in Nat
    BY PurgedIsFinite
  <1>7. IsFiniteSet(entries') /\ Cardinality(entries') <= Cardinality(Purged(now')) + 1
    <2> DEFINE entry == <<n, f.expires>>
    <2> HIDE DEF entry
    <2>1. /\ IsFiniteSet(Purged(now') \cup {entry})
          /\ Cardinality(Purged(now') \cup {entry}) =
                IF entry \in Purged(now') THEN Cardinality(Purged(now'))
                                         ELSE Cardinality(Purged(now')) + 1
      BY <1>6, FS_AddElement
    <2> QED
      BY <1>2, <1>6, <2>1 DEF entry
  <1>8. Cardinality(entries') \in Nat
    BY <1>7, FS_CardinalityType
  <1>9. entries' \subseteq Nonces \X Nat
    BY <1>1, <1>2, <1>5, <1>6 DEF AgentInv, TypeOK
  <1>10. dispatched' \in [Nonces -> Nat]
    BY <1>1, <1>2 DEF AgentInv, TypeOK
  <1>11. TypeOK'
    <2>1. Cardinality(entries') <= Capacity
      BY <1>2, <1>6, <1>7, <1>8 DEF AgentConstants
    <2>2. owned' \subseteq Corrs /\ admitted' \subseteq Nonces
      BY <1>1, <1>2, <1>5 DEF AgentInv, TypeOK
    <2> QED
      BY <1>4, <1>9, <1>10, <2>1, <2>2 DEF TypeOK
  <1>12. DispatchFollowsAdmission'
    <2> SUFFICES ASSUME NEW m \in Nonces \ admitted' PROVE dispatched'[m] = 0
      BY DEF DispatchFollowsAdmission
    <2>1. m # n /\ m \notin admitted
      BY <1>2
    <2> QED
      BY <1>1, <1>2, <2>1 DEF AgentInv, TypeOK, DispatchFollowsAdmission
  <1>13. AdmittedIsRemembered'
    <2> SUFFICES ASSUME NEW m \in admitted'
                 PROVE  /\ frames[m] # Unmade
                        /\ frames[m].expires > now' => <<m, frames[m].expires>> \in entries'
      BY <1>2 DEF AdmittedIsRemembered
    <2>1. CASE m = n
      BY <1>1, <1>2, <2>1 DEF AgentInv, CarriedIsMade, Admitted, At
    <2>2. CASE m # n
      <3>1. m \in admitted /\ frames[m] # Unmade /\ frames[m].expires \in Nat
        BY <1>2, <2>2, MadeIsFrame DEF AgentInv, AdmittedIsRemembered, TypeOK
      <3>2. ASSUME frames[m].expires > now'
            PROVE  <<m, frames[m].expires>> \in entries
        BY <1>3, <3>1, <3>2 DEF AgentInv, AdmittedIsRemembered
      <3> QED
        BY <1>2, <3>1, <3>2 DEF Purged
    <2> QED
      BY <2>1, <2>2
  <1>14. EntryIsAdmitted'
    <2> SUFFICES ASSUME NEW e \in entries'
                 PROVE  e[1] \in admitted' /\ e[2] = frames[e[1]].expires
      BY <1>2 DEF EntryIsAdmitted
    <2>1. CASE e \in entries
      BY <1>2, <2>1 DEF AgentInv, EntryIsAdmitted
    <2>2. CASE e = <<n, f.expires>>
      BY <1>2, <2>2
    <2> QED
      BY <1>2, <1>6, <2>1, <2>2
  <1> QED
    BY <1>4, <1>7, <1>11, <1>12, <1>13, <1>14 DEF AgentInv

\* Making a frame keeps it: no connection carries one that is not made, and none of
\* those was admitted.
LEMMA MakeKeepsAgentInv ==
    ASSUME AgentConstants, AgentInv, NEW n \in Nonces, Make(n)
    PROVE  AgentInv'
  <1>1. PICK op \in Operations, c \in Corrs, ahead \in 0..(Skew + 1), life \in 1..MaxLife :
            frames' = [frames EXCEPT ![n] =
                [op |-> op, corr |-> c, issued |-> now + ahead, expires |-> now + ahead + life]]
    BY DEF Make
  <1> DEFINE f == [op |-> op, corr |-> c, issued |-> now + ahead, expires |-> now + ahead + life]
  <1>2. now \in Nat /\ now + ahead \in Nat /\ now + ahead + life \in Nat
    BY DEF AgentConstants, AgentInv, TypeOK
  <1>3. f \in Frame
    BY <1>2 DEF Frame
  <1>4. f # Unmade
    <2>1. f.op \in Operations
      OBVIOUS
    <2> QED
      BY <2>1 DEF Unmade, Operations
  <1>5. UNCHANGED <<now, conn, entries, owned, audit, dispatched, admitted>> /\ frames[n] = Unmade
    BY DEF Make
  <1> HIDE DEF f
  <1>6. frames' = [frames EXCEPT ![n] = f]
    BY <1>1 DEF f
  <1>7. TypeOK'
    BY <1>3, <1>5, <1>6 DEF AgentInv, TypeOK
  <1>8. CarriedIsMade'
    <2> SUFFICES ASSUME NEW k \in Conns, conn[k] # Idle
                 PROVE  frames'[conn[k].nonce] # Unmade
      BY <1>5 DEF CarriedIsMade
    <2>1. conn[k].nonce \in Nonces
      BY DEF AgentInv, TypeOK
    <2> QED
      BY <2>1, <1>4, <1>6 DEF AgentInv, TypeOK, CarriedIsMade
  <1>9. n \notin admitted
    BY <1>5 DEF AgentInv, AdmittedIsRemembered
  <1>10. \A m \in admitted : frames'[m] = frames[m]
    BY <1>6, <1>9 DEF AgentInv, TypeOK
  <1>11. DispatchFollowsAdmission'
    BY <1>5 DEF AgentInv, DispatchFollowsAdmission
  <1>12. AdmittedIsRemembered' /\ EntryIsAdmitted'
    BY <1>5, <1>10 DEF AgentInv, AdmittedIsRemembered, EntryIsAdmitted
  <1> QED
    BY <1>5, <1>7, <1>8, <1>11, <1>12 DEF AgentInv

\* A connection that arrives keeps it.
LEMMA ConnectKeepsAgentInv ==
    ASSUME AgentInv, NEW k \in Conns, NEW n \in Nonces, Connect(k, n)
    PROVE  AgentInv'
  <1>1. /\ conn' = [conn EXCEPT ![k] = [at |-> "reading", nonce |-> n]]
        /\ frames[n] # Unmade
        /\ UNCHANGED <<now, frames, entries, owned, audit, dispatched, admitted>>
    BY DEF Connect
  <1>2. TypeOK'
    BY <1>1 DEF AgentInv, TypeOK
  <1>3. CarriedIsMade'
    <2> SUFFICES ASSUME NEW j \in Conns, conn'[j] # Idle
                 PROVE  frames[conn'[j].nonce] # Unmade
      BY <1>1 DEF CarriedIsMade
    <2>1. CASE j = k
      BY <1>1, <2>1 DEF AgentInv, TypeOK
    <2>2. CASE j # k
      BY <1>1, <2>2 DEF AgentInv, TypeOK, CarriedIsMade
    <2> QED
      BY <2>1, <2>2
  <1>4. DispatchFollowsAdmission' /\ AdmittedIsRemembered' /\ EntryIsAdmitted'
    BY <1>1 DEF AgentInv, DispatchFollowsAdmission, AdmittedIsRemembered, EntryIsAdmitted
  <1> QED
    BY <1>1, <1>2, <1>3, <1>4 DEF AgentInv

\* So does the clock: fewer frames are current, and what is in the cache stays.
LEMMA TickKeepsAgentInv ==
    ASSUME AgentInv, Tick
    PROVE  AgentInv'
  <1>1. now' = now + 1 /\ now \in Nat
        /\ UNCHANGED <<frames, conn, entries, owned, audit, dispatched, admitted>>
    BY DEF Tick, AgentInv, TypeOK
  <1>2. TypeOK' /\ CarriedIsMade' /\ DispatchFollowsAdmission' /\ EntryIsAdmitted'
    BY <1>1 DEF AgentInv, TypeOK, CarriedIsMade, DispatchFollowsAdmission, EntryIsAdmitted
  <1>3. AdmittedIsRemembered'
    <2> SUFFICES ASSUME NEW m \in admitted
                 PROVE  /\ frames[m] # Unmade
                        /\ frames[m].expires > now + 1 => <<m, frames[m].expires>> \in entries
      BY <1>1 DEF AdmittedIsRemembered
    <2>1. frames[m] # Unmade /\ m \in Nonces
      BY DEF AgentInv, AdmittedIsRemembered, TypeOK
    <2>2. frames[m].expires \in Nat
      BY <2>1, MadeIsFrame DEF AgentInv
    <2> QED
      BY <1>1, <2>1, <2>2 DEF AgentInv, AdmittedIsRemembered
  <1> QED
    BY <1>1, <1>2, <1>3 DEF AgentInv

\* Every step keeps it.
LEMMA AgentInvStep ==
    ASSUME AgentConstants, AgentInv, [Next]_vars
    PROVE  AgentInv'
  <1>1. CASE Tick
    BY <1>1, TickKeepsAgentInv
  <1>2. ASSUME NEW n \in Nonces, Make(n) PROVE AgentInv'
    BY <1>2, MakeKeepsAgentInv
  <1>3. ASSUME NEW n \in Nonces, NEW k \in Conns, Connect(k, n) PROVE AgentInv'
    BY <1>3, ConnectKeepsAgentInv
  <1>4. ASSUME NEW k \in Conns,
               Unreadable(k) \/ Expired(k) \/ Refused(k)
                   \/ HandlerReturns(k) \/ HandlerRaises(k) \/ Answered(k)
        PROVE  AgentInv'
    BY <1>4, RefusalsKeepAgentInv
  <1>5. ASSUME NEW k \in Conns, Admitted(k) PROVE AgentInv'
    BY <1>5, AdmissionKeepsAgentInv
  <1>6. CASE UNCHANGED vars
    BY <1>6 DEF vars, AgentInv, TypeOK, CarriedIsMade, DispatchFollowsAdmission,
                AdmittedIsRemembered, EntryIsAdmitted
  <1> QED
    BY <1>1, <1>2, <1>3, <1>4, <1>5, <1>6 DEF Next

-----------------------------------------------------------------------------
\* The invariant holds throughout: the cache remembers exactly what it admitted and is
\* still current, and no more than it has room for.
THEOREM CacheCorrect ==
    ASSUME AgentConstants
    PROVE  Spec => []AgentInv
  <1>1. Init => AgentInv
    BY AgentInvInit
  <1>2. AgentInv /\ [Next]_vars => AgentInv'
    BY AgentInvStep
  <1> QED
    BY <1>1, <1>2, PTL DEF Spec

\* A frame is dispatched again only when it has expired (_NonceCache.admit forgets nothing
\* before), however many connections bring it and whenever they do.
THEOREM RepeatsAreExpired ==
    ASSUME AgentConstants
    PROVE  Spec => OnceWhileCurrent
  <1>1. ASSUME AgentInv, [Next]_vars, NEW n \in Nonces,
               dispatched'[n] # dispatched[n], dispatched[n] > 0
        PROVE  frames[n].expires <= now'
    <2>1. PICK k \in Conns : Admitted(k) /\ conn[k].nonce = n
      <3>1. CASE UNCHANGED vars
        BY <1>1, <3>1 DEF vars
      <3>2. CASE Next
        <4>1. PICK k \in Conns : Admitted(k)
          BY <1>1, <3>2 DEF Next, Tick, Make, Connect, Unreadable, Expired, Refused,
             HandlerReturns, HandlerRaises, Answered
        <4>2. dispatched' = [dispatched EXCEPT ![conn[k].nonce] = @ + 1]
          BY <1>1, <4>1 DEF Admitted
        <4> QED
          BY <1>1, <4>1, <4>2 DEF AgentInv, TypeOK
      <3> QED
        BY <1>1, <3>1, <3>2
    <2>2. ~(frames[n].expires > now')
      BY <1>1, <2>1, AdmittedIsNew DEF AgentInv, TypeOK
    <2>3. frames[n].expires \in Nat /\ now' \in Nat
      BY <1>1, <2>1, AdmittedIsNew, ClockGoesOn DEF Frame, Admitted
    <2> QED
      BY <2>2, <2>3
  <1>2. AgentInv /\ [Next]_vars => [RepeatIsExpired]_vars
    BY <1>1 DEF RepeatIsExpired
  <1> QED
    BY <1>2, CacheCorrect, PTL DEF Spec, OnceWhileCurrent

\* The current frames that were admitted are exactly those of the purged cache,
\* at admit()'s reading of the clock.
LEMMA PurgedCountsTheCurrent ==
    ASSUME AgentConstants, AgentInv, ReadsClock
    PROVE  Cardinality({m \in admitted : frames[m].expires > now'}) = Cardinality(Purged(now'))
  <1> DEFINE Live == {m \in admitted : frames[m].expires > now'}
             nonceOf == [e \in Purged(now') |-> e[1]]
  <1>1. \A e \in Purged(now') : e = <<e[1], frames[e[1]].expires>> /\ e[1] \in Live
    BY DEF AgentInv, TypeOK, EntryIsAdmitted, Purged
  <1>2. nonceOf \in [Purged(now') -> Live]
    BY <1>1
  <1>3. \A e, d \in Purged(now') : nonceOf[e] = nonceOf[d] => e = d
    BY <1>1
  <1>4. \A m \in Live : \E e \in Purged(now') : nonceOf[e] = m
    <2> SUFFICES ASSUME NEW m \in Live
                 PROVE  \E e \in Purged(now') : nonceOf[e] = m
      OBVIOUS
    <2>1. now' \in Nat /\ now' >= now /\ now \in Nat
      BY ClockGoesOn DEF AgentInv, TypeOK
    <2>2. m \in Nonces /\ frames[m].expires \in Nat
      BY MadeIsFrame DEF AgentInv, TypeOK, AdmittedIsRemembered
    <2>3. <<m, frames[m].expires>> \in Purged(now')
      BY <2>1, <2>2 DEF AgentInv, AdmittedIsRemembered, Purged
    <2> QED
      BY <2>3
  <1>5. nonceOf \in Bijection(Purged(now'), Live)
    <2> HIDE DEF Live, nonceOf
    <2> QED
      BY <1>2, <1>3, <1>4 DEF Bijection, Injection, Surjection, IsInjective
  <1>6. ExistsBijection(Purged(now'), Live)
    BY <1>5 DEF ExistsBijection
  <1>7. IsFiniteSet(Purged(now'))
    BY PurgedIsFinite
  <1> HIDE DEF Live
  <1>8. Cardinality(Live) = Cardinality(Purged(now'))
    BY <1>6, <1>7, FS_Bijection
  <1> QED
    BY <1>8 DEF Live

\* A frame that is current, new and owned is refused by nothing but admit().
LEMMA FreshIsRefusedByTheCache ==
    ASSUME AgentConstants, AgentInv, Next, NEW k \in Conns,
           At(k, "reading"), conn'[k].at = "refused",
           Current(frames[conn[k].nonce]), conn[k].nonce \notin admitted,
           Owns(frames[conn[k].nonce])
    PROVE  Refused(k)
  <1>1. conn[k] \in [at : {"reading", "handling", "answering", "refused", "closed"},
                     nonce : Nonces] /\ conn[k].at = "reading"
    BY DEF AgentInv, TypeOK, At
  <1>2. conn'[k] # conn[k]
    BY <1>1
  <1>3. ASSUME NEW j \in Conns, j # k,
               \E place \in {"handling", "answering", "refused", "closed"} : Goes(j, place)
        PROVE  FALSE
    BY <1>2, <1>3 DEF Goes, AgentInv, TypeOK
  <1>4. ASSUME Goes(k, "handling") \/ Goes(k, "answering") \/ Goes(k, "closed")
        PROVE  FALSE
    BY <1>1, <1>4 DEF Goes, AgentInv, TypeOK
  <1>5. CASE Tick
    BY <1>5, <1>2 DEF Tick
  <1>6. ASSUME NEW n \in Nonces, Make(n) PROVE FALSE
    BY <1>6, <1>2 DEF Make
  <1>7. ASSUME NEW n \in Nonces, NEW j \in Conns, Connect(j, n) PROVE FALSE
    <2>1. CASE j = k
      BY <1>7, <2>1 DEF Connect, At
    <2>2. CASE j # k
      BY <1>7, <1>2, <2>2 DEF Connect, AgentInv, TypeOK
    <2> QED
      BY <2>1, <2>2
  <1>8. ASSUME NEW j \in Conns, Unreadable(j) \/ Expired(j) \/ Admitted(j)
                   \/ HandlerReturns(j) \/ HandlerRaises(j) \/ Answered(j)
        PROVE  FALSE
    <2>1. CASE j # k
      BY <1>3, <1>8, <2>1 DEF Unreadable, Expired, Admitted, HandlerReturns, HandlerRaises,
             Answered, Rejects
    <2>2. CASE j = k
      BY <1>1, <1>4, <1>8, <2>2 DEF Unreadable, Expired, Admitted, HandlerReturns,
             HandlerRaises, Answered, At
    <2> QED
      BY <2>1, <2>2
  <1>9. ASSUME NEW j \in Conns, Refused(j) PROVE Refused(k)
    BY <1>3, <1>9 DEF Refused, Rejects
  <1> QED
    BY <1>5, <1>6, <1>7, <1>8, <1>9 DEF Next

\* A frame that is current and new, of a correlation that is owned, is refused only while
\* current frames fill the cache (_NonceCache.admit forgets what has expired first).
THEOREM FreshFrameIsServed ==
    ASSUME AgentConstants
    PROVE  Spec => FreshIsServed
  <1>1. ASSUME AgentInv, [Next]_vars, NEW k \in Conns,
               At(k, "reading"), conn'[k].at = "refused",
               Current(frames[conn[k].nonce]), conn[k].nonce \notin admitted,
               Owns(frames[conn[k].nonce])
        PROVE  Cardinality({m \in admitted : frames[m].expires > now'}) >= Capacity
    <2>1. CASE UNCHANGED vars
      BY <1>1, <2>1 DEF vars, At
    <2>2. CASE Next
      <3>1. Refused(k)
        BY <1>1, <2>2, FreshIsRefusedByTheCache
      <3>2. (\E e \in Purged(now') : e[1] = conn[k].nonce)
            \/ Cardinality(Purged(now')) >= Capacity
        BY <3>1 DEF Refused
      <3>3. \A e \in Purged(now') : e[1] # conn[k].nonce
        BY <1>1 DEF AgentInv, EntryIsAdmitted, Purged
      <3> QED
        BY <1>1, <3>1, <3>2, <3>3, PurgedCountsTheCurrent DEF Refused
    <2> QED
      BY <1>1, <2>1, <2>2
  <1>2. AgentInv /\ [Next]_vars => [FreshFits]_vars
    BY <1>1 DEF FreshFits
  <1> QED
    BY <1>2, CacheCorrect, PTL DEF Spec, FreshIsServed

=============================================================================
