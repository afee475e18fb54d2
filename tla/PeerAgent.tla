------------------------------- MODULE PeerAgent -------------------------------
(***************************************************************************)
(* PeerAgent and its _NonceCache (src/mercury/peer.py): connections, each  *)
(* with one frame, that an agent reads, authenticates, admits, dispatches, *)
(* answers and audits.  A frame may come more than once, late, or cut.     *)
(* Between reading a frame and calling its handler there is no await, so   *)
(* that connections meet in the cache and in the table of correlations;    *)
(* but the clock goes on, and is read twice.                               *)
(* What a handler does is PeerControl's.                                   *)
(***************************************************************************)
EXTENDS Naturals, FiniteSets

CONSTANTS
    Nonces,     \* of the frames that are made
    Conns,      \* connections
    Corrs,      \* correlation ids
    Capacity,   \* of the cache
    MaxLife,    \* _MAX_FRAME_LIFETIME, in ticks
    Skew,       \* _MAX_CLOCK_SKEW
    MaxTime     \* bound of the agent's clock

VARIABLES
    now,        \* the agent's wall clock, which does not step back
    frames,     \* the frames made: operation, correlation, times
    conn,       \* where a connection is, and the nonce of its frame
    entries,    \* the cache: nonces with their expiries
    owned,      \* _correlations
    audit,      \* connections with an entry in the audit
    dispatched, \* how often a handler was called with a frame
    admitted    \* every nonce that the cache has ever admitted

vars == <<now, frames, conn, entries, owned, audit, dispatched, admitted>>

-----------------------------------------------------------------------------
\* "read" stands for read-result and cancel, which the agent treats alike.
Operations == {"capabilities", "submit", "read"}
Frame == [op : Operations, corr : Corrs, issued : Nat, expires : Nat]
Unmade == [op |-> "none"]
Idle == [at |-> "idle"]

TypeOK ==
    /\ now \in Nat
    /\ frames \in [Nonces -> Frame \cup {Unmade}]
    /\ conn \in [Conns -> {Idle} \cup
                          [at : {"reading", "handling", "answering", "refused", "closed"},
                           nonce : Nonces]]
    /\ entries \subseteq Nonces \X Nat /\ Cardinality(entries) <= Capacity
    /\ owned \subseteq Corrs /\ audit \subseteq Conns
    /\ dispatched \in [Nonces -> Nat] /\ admitted \subseteq Nonces

Init ==
    /\ now = 0 /\ frames = [n \in Nonces |-> Unmade] /\ conn = [k \in Conns |-> Idle]
    /\ entries = {} /\ owned = {} /\ audit = {}
    /\ dispatched = [n \in Nonces |-> 0] /\ admitted = {}

-----------------------------------------------------------------------------
(* The peer, and the network.                                              *)

\* A frame is made: its lifetime is positive and bounded, its clock the peer's.
Make(n) ==
    /\ frames[n] = Unmade
    /\ \E op \in Operations, c \in Corrs, ahead \in 0..(Skew + 1), life \in 1..MaxLife :
          frames' = [frames EXCEPT ![n] =
              [op |-> op, corr |-> c, issued |-> now + ahead, expires |-> now + ahead + life]]
    /\ UNCHANGED <<now, conn, entries, owned, audit, dispatched, admitted>>

\* A connection brings a frame, for the first time or again.
Connect(k, n) ==
    /\ conn[k] = Idle /\ frames[n] # Unmade
    /\ conn' = [conn EXCEPT ![k] = [at |-> "reading", nonce |-> n]]
    /\ UNCHANGED <<now, frames, entries, owned, audit, dispatched, admitted>>

Tick ==
    /\ now < MaxTime /\ now' = now + 1
    /\ UNCHANGED <<frames, conn, entries, owned, audit, dispatched, admitted>>

-----------------------------------------------------------------------------
(* The agent.                                                              *)

At(k, place) == conn[k] # Idle /\ conn[k].at = place
Goes(k, place) == conn' = [conn EXCEPT ![k].at = place]

\* What the except clauses have in common: the outcome is audited.
Rejects(k) == Goes(k, "refused") /\ audit' = audit \cup {k}

\* The frame is too long, malformed, not complete in ten seconds, or its token or
\* certificate is not the configured one.
Unreadable(k) ==
    /\ At(k, "reading")
    /\ Goes(k, "closed") /\ audit' = audit \cup {k}
    /\ UNCHANGED <<now, frames, entries, owned, dispatched, admitted>>

\* _authenticate, of the times.
Current(f) == f.issued <= now + Skew /\ f.expires > now

\* admit() is given a second reading of the clock: the token file was read since
\* _authenticate took the first.
ReadsClock == now' \in now..MaxTime

\* A variant to be refuted: the skew that is allowed to a frame's beginning is taken off
\* its end.
Purged_skewed(clock) == {e \in entries : e[2] > clock + Skew}

\* What has expired is forgotten.
Purged(clock) == {e \in entries : e[2] > clock}

Owns(f) == f.op = "read" => f.corr \in owned

Expired(k) ==
    /\ At(k, "reading") /\ ~Current(frames[conn[k].nonce])
    /\ Rejects(k)
    /\ UNCHANGED <<now, frames, entries, owned, dispatched, admitted>>

\* A variant to be refuted: what has expired is not forgotten first.
Refused_unpurged(k) ==
    /\ At(k, "reading") /\ Current(frames[conn[k].nonce]) /\ ReadsClock
    /\ UNCHANGED entries
    /\ \/ \E e \in entries : e[1] = conn[k].nonce
       \/ Cardinality(entries) >= Capacity
    /\ Rejects(k)
    /\ UNCHANGED <<frames, owned, dispatched, admitted>>

\* admit() refuses a replay, or anything while its cache is full.  What has expired is
\* forgotten first.
Refused(k) ==
    /\ At(k, "reading") /\ Current(frames[conn[k].nonce]) /\ ReadsClock
    /\ entries' = Purged(now')
    /\ \/ \E e \in entries' : e[1] = conn[k].nonce
       \/ Cardinality(entries') >= Capacity
    /\ Rejects(k)
    /\ UNCHANGED <<frames, owned, dispatched, admitted>>

\* It admits the nonce.  A submit takes the correlation before its handler is asked; a
\* read-result or cancel of a correlation that was never submitted is refused, with its
\* nonce spent.
Admitted(k) ==
    LET n == conn[k].nonce
        f == frames[n]
    IN  /\ At(k, "reading") /\ Current(f) /\ ReadsClock
        /\ \A e \in Purged(now') : e[1] # n
        /\ Cardinality(Purged(now')) < Capacity
        /\ entries' = Purged(now') \cup {<<n, f.expires>>} /\ admitted' = admitted \cup {n}
        /\ owned' = IF f.op = "submit" THEN owned \cup {f.corr} ELSE owned
        /\ IF Owns(f)
           THEN /\ Goes(k, "handling") /\ UNCHANGED audit
                /\ dispatched' = [dispatched EXCEPT ![n] = @ + 1]
           ELSE Rejects(k) /\ UNCHANGED dispatched
        /\ UNCHANGED frames

\* The handler returns what makes a frame, and the answer is written; or it raises one
\* of the errors that are caught, or returns what makes none.
HandlerReturns(k) ==
    /\ At(k, "handling")
    /\ \/ Goes(k, "answering") /\ UNCHANGED audit
       \/ Goes(k, "closed") /\ audit' = audit \cup {k}
    /\ UNCHANGED <<now, frames, entries, owned, dispatched, admitted>>

\* It raises a PairedError or another error that no except clause names: the finally
\* clause closes the connection.
HandlerRaises(k) ==
    /\ At(k, "handling")
    /\ Goes(k, "closed")
    /\ UNCHANGED <<now, frames, entries, owned, audit, dispatched, admitted>>

\* drain() returns, or the connection is lost.
Answered(k) ==
    /\ At(k, "answering")
    /\ Goes(k, "closed") /\ audit' = audit \cup {k}
    /\ UNCHANGED <<now, frames, entries, owned, dispatched, admitted>>

-----------------------------------------------------------------------------
Next ==
    \/ Tick
    \/ \E n \in Nonces : Make(n) \/ \E k \in Conns : Connect(k, n)
    \/ \E k \in Conns :
          \/ Unreadable(k) \/ Expired(k) \/ Refused(k) \/ Admitted(k)
          \/ HandlerReturns(k) \/ HandlerRaises(k) \/ Answered(k)

Spec == Init /\ [][Next]_vars

-----------------------------------------------------------------------------
\* A frame reaches a handler once as long as it is current, however often it comes: the
\* cache forgets nothing too early, so that a frame that is dispatched again has expired
\* by then.  It had not when it was authenticated: the code does not exclude this, and a
\* frame may reach its handler twice.
RepeatIsExpired ==
    \A n \in Nonces :
        dispatched'[n] # dispatched[n] /\ dispatched[n] > 0 => frames[n].expires <= now'

OnceWhileCurrent == [][RepeatIsExpired]_vars

\* A current frame that is new, of a correlation that is owned, is refused only while
\* frames that are current themselves fill the cache.
FreshFits ==
    \A k \in Conns :
       LET n == conn[k].nonce
       IN  At(k, "reading") /\ conn'[k].at = "refused"
               /\ Current(frames[n]) /\ n \notin admitted /\ Owns(frames[n])
           => Cardinality({m \in admitted : frames[m].expires > now'}) >= Capacity

FreshIsServed == [][FreshFits]_vars

=============================================================================
