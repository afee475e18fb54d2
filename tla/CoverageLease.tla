----------------------------- MODULE CoverageLease -----------------------------
(***************************************************************************)
(* The receivers of a coverage assessment (src/mercury/paired.py).  A      *)
(* CoverageLeaseRegistry opens one CoverageReceiverService per configured  *)
(* profile for a correlation, one after the other, and closes them when    *)
(* the correlation is cancelled; each closes itself when its lease ends.   *)
(* start() and stop() await between receivers, so calls of several         *)
(* control frames, expiry and the handlers of connections interleave.      *)
(*                                                                         *)
(* A call of start() and the set of services it makes have one name, k.    *)
(* Traffic with a wrong source or tag changes nothing and is left out.     *)
(***************************************************************************)
EXTENDS Integers

CONSTANTS
    Calls,          \* calls of start(), and the sets of services they make
    Corrs,          \* correlations
    Assignments,    \* the correlations the calls may have
    None,           \* no call
    N,              \* number of receiver_profiles, which are taken in order
    Tcp,            \* those with a listening server; the others are UDP
    Timeout,        \* receiver -> its timeout_s, in ticks
    MaxRequest,     \* bound of the lease a frame asks for, in ticks
    MaxReading,     \* bound of the connections of a receiver
    Interruptible,  \* whether callers are cancelled: a runner's own registry
    BindFaults,     \* whether a bind may fail though no call has the port
    MaxTime         \* bound of the clock

Receivers == 1..N

ASSUME SizeAssumption == N \in Nat \ {0} /\ {MaxRequest, MaxReading, MaxTime} \subseteq Nat
ASSUME ReceiverAssumption == Tcp \subseteq Receivers /\ Timeout \in [Receivers -> Nat \ {0}]
ASSUME CorrAssumption == Assignments \subseteq [Calls -> Corrs]
ASSUME NoneAssumption == None \notin Calls
ASSUME FlagAssumption == {Interruptible, BindFaults} \subseteq BOOLEAN

VARIABLES
    waits,      \* Server.wait_closed waits for handlers: since Python 3.12
    prompt,     \* every start() is over before the first of its leases
    now,        \* the clock
    pc,         \* call -> where it is, or how it and its services ended
    at,         \* call -> the receiver it binds or waits for
    corr,       \* call -> its correlation
    lease,      \* call -> receiver -> expires_at
    port,       \* receiver -> the call that listens on its port
    own,        \* call -> receivers whose socket its services hold
    reading,    \* call -> receiver -> handlers that read
    receipts,   \* call -> receiver -> how many receipts it holds
    services    \* correlation -> _services of the registry

life    == <<pc, at, corr, lease>>
sockets == <<port, own>>
vars    == <<waits, prompt, now, life, sockets, reading, receipts, services>>

-----------------------------------------------------------------------------
Starting == {"binding", "starting", "undoing"}
Registered == {"accepted", "stopping", "stopped", "cut"}

TypeOK ==
    /\ waits \in BOOLEAN /\ prompt \in BOOLEAN /\ now \in Nat
    /\ pc \in [Calls -> {"idle", "refused", "interrupted"} \cup Starting \cup Registered]
    /\ at \in [Calls -> 0..N]
    /\ corr \in [Calls -> Corrs]
    /\ lease \in [Calls -> [Receivers -> Nat]]
    /\ port \in [Receivers -> Calls \cup {None}]
    /\ own \in [Calls -> SUBSET Receivers]
    /\ reading \in [Calls -> [Receivers -> Nat]]
    /\ receipts \in [Calls -> [Receivers -> Nat]]
    /\ services \in [Corrs -> Calls \cup {None}]

Init ==
    /\ waits \in BOOLEAN /\ prompt \in BOOLEAN /\ now = 0
    /\ pc = [k \in Calls |-> "idle"] /\ at = [k \in Calls |-> 0]
    /\ corr \in Assignments
    /\ lease = [k \in Calls |-> [r \in Receivers |-> 0]]
    /\ port = [r \in Receivers |-> None] /\ own = [k \in Calls |-> {}]
    /\ reading = [k \in Calls |-> [r \in Receivers |-> 0]]
    /\ receipts = [k \in Calls |-> [r \in Receivers |-> 0]]
    /\ services = [c \in Corrs |-> None]

-----------------------------------------------------------------------------
\* assert_current.
Current(k, r) == now < lease[k][r]

\* The lease of a receiver: the frame's, cut to the receiver's own window.
LeaseEnd(asked, r) == IF asked < now + Timeout[r] THEN asked ELSE now + Timeout[r]

\* A receiver's stop() waits for the handlers of the server it has closed.
Busy(k, held, r) == waits /\ r \in Tcp \cap held /\ reading[k][r] > 0

\* The sockets from i to j of those held are closed, and the rest kept.
Close(k, held, i, j) ==
    /\ own' = [own EXCEPT ![k] = held \ (i..j)]
    /\ port' = [r \in Receivers |-> IF r \in held \cap (i..j) THEN None ELSE port[r]]

\* `for service in services: await service.stop()' of those whose sockets are
\* held, from the i-th on, in order up to the first that has to be waited for.
Sweep(k, held, i, then, while) ==
    \/ /\ \A s \in i..N : ~Busy(k, held, s)
       /\ Close(k, held, i, N)
       /\ pc' = [pc EXCEPT ![k] = then] /\ UNCHANGED at
    \/ \E r \in i..N :
          /\ Busy(k, held, r) /\ \A s \in i..(r - 1) : ~Busy(k, held, s)
          /\ Close(k, held, i, r)
          /\ at' = [at EXCEPT ![k] = r] /\ pc' = [pc EXCEPT ![k] = while]

-----------------------------------------------------------------------------
(* CoverageLeaseRegistry.start.                                            *)

\* A variant to be refuted: what has been started is left to its expiry.
Undo_none(k, held) ==
    pc' = [pc EXCEPT ![k] = "refused"] /\ own' = [own EXCEPT ![k] = held]
    /\ UNCHANGED <<at, port>>

\* `except Exception': what has been started is stopped.
Undo(k, held) == Sweep(k, held, 1, "refused", "undoing")

\* All receivers run: the table.
Register(k) ==
    /\ services' = [services EXCEPT ![corr[k]] = k]
    /\ pc' = [pc EXCEPT ![k] = "accepted"] /\ UNCHANGED at

\* A socket is held, and the service has its expiry: on to the next receiver,
\* whose lease may be over by now.
Advance(k, held) ==
    \/ at[k] = N /\ Register(k) /\ own' = [own EXCEPT ![k] = held] /\ UNCHANGED port
    \/ /\ at[k] < N /\ Current(k, at[k] + 1)
       /\ at' = [at EXCEPT ![k] = @ + 1] /\ pc' = [pc EXCEPT ![k] = "binding"]
       /\ own' = [own EXCEPT ![k] = held]
       /\ UNCHANGED <<port, services>>
    \/ /\ at[k] < N /\ ~Current(k, at[k] + 1)
       /\ Undo(k, held)
       /\ UNCHANGED services

\* The correlation must be free, which nobody looks at again.
Start(k) ==
    /\ pc[k] = "idle"
    /\ \E asked \in (now + 1)..(now + MaxRequest) :
          /\ asked <= MaxTime
          /\ lease' = [lease EXCEPT ![k] = [r \in Receivers |-> LeaseEnd(asked, r)]]
    /\ \/ /\ services[corr[k]] = None
          /\ pc' = [pc EXCEPT ![k] = "binding"] /\ at' = [at EXCEPT ![k] = 1]
       \/ /\ services[corr[k]] # None
          /\ pc' = [pc EXCEPT ![k] = "refused"] /\ UNCHANGED at
    /\ UNCHANGED <<waits, prompt, now, corr, sockets, reading, receipts, services>>

\* The socket is bound, and listens, before the loop comes back to start().
Bind(k) ==
    /\ pc[k] = "binding" /\ port[at[k]] = None
    /\ port' = [port EXCEPT ![at[k]] = k]
    /\ pc' = [pc EXCEPT ![k] = "starting"]
    /\ UNCHANGED <<waits, prompt, now, at, corr, lease, own, reading, receipts, services>>

Bound(k) ==
    /\ pc[k] = "starting"
    /\ Advance(k, own[k] \cup {at[k]})
    /\ UNCHANGED <<waits, prompt, now, corr, lease, reading, receipts>>

\* A variant to be refuted: a failed start() clears the table.
BindFails_clears(k) ==
    /\ pc[k] = "binding"
    /\ BindFaults \/ port[at[k]] # None
    /\ Undo(k, own[k])
    /\ services' = [services EXCEPT ![corr[k]] = None]
    /\ UNCHANGED <<waits, prompt, now, corr, lease, reading, receipts>>

\* The port is taken, or the bind fails.
BindFails(k) ==
    /\ pc[k] = "binding"
    /\ BindFaults \/ port[at[k]] # None
    /\ Undo(k, own[k])
    /\ UNCHANGED <<waits, prompt, now, corr, lease, reading, receipts, services>>

Undone(k) ==
    /\ pc[k] = "undoing" /\ reading[k][at[k]] = 0
    /\ Sweep(k, own[k], at[k] + 1, "refused", "undoing")
    /\ UNCHANGED <<waits, prompt, now, corr, lease, reading, receipts, services>>

-----------------------------------------------------------------------------
(* CoverageLeaseRegistry.stop, and the end of a lease.                     *)

Stop(k) ==
    /\ services[corr[k]] = k
    /\ services' = [services EXCEPT ![corr[k]] = None]
    /\ Sweep(k, own[k], 1, "stopped", "stopping")
    /\ UNCHANGED <<waits, prompt, now, corr, lease, reading, receipts>>

Stopped(k) ==
    /\ pc[k] = "stopping" /\ reading[k][at[k]] = 0
    /\ Sweep(k, own[k], at[k] + 1, "stopped", "stopping")
    /\ UNCHANGED <<waits, prompt, now, corr, lease, reading, receipts, services>>

\* A CancelledError ends start() or stop() where it awaits, and `except
\* Exception' does not see it.  A datagram socket is closed by asyncio; a server
\* that start_server does not come to return listens on.
Interrupt(k) ==
    /\ Interruptible
    /\ \/ /\ pc[k] \in Starting /\ pc' = [pc EXCEPT ![k] = "interrupted"]
          /\ port' = IF pc[k] = "starting" /\ at[k] \notin Tcp
                     THEN [port EXCEPT ![at[k]] = None] ELSE port
       \/ pc[k] = "stopping" /\ pc' = [pc EXCEPT ![k] = "cut"] /\ UNCHANGED port
    /\ UNCHANGED <<waits, prompt, now, at, corr, lease, own, reading, receipts, services>>

\* _expire closes its receiver, and nothing depends on when its handlers end.
Expire(k, r) ==
    /\ r \in own[k] /\ ~Current(k, r)
    /\ own' = [own EXCEPT ![k] = @ \ {r}]
    /\ port' = [port EXCEPT ![r] = None]
    /\ UNCHANGED <<waits, prompt, now, life, reading, receipts, services>>

Tick ==
    /\ now < MaxTime /\ now' = now + 1
    /\ prompt => \A k \in Calls : pc[k] \in {"binding", "starting"} =>
                    \A r \in Receivers : now + 1 < lease[k][r]
    /\ UNCHANGED <<waits, prompt, life, sockets, reading, receipts, services>>

-----------------------------------------------------------------------------
(* Traffic.                                                                *)

\* _record: the first exchange leaves a receipt, later ones are answered only.
Record(k, r) ==
    receipts' = IF receipts[k][r] = 0
                THEN [receipts EXCEPT ![k][r] = @ + 1]
                ELSE receipts

\* A connection is looked at when it comes ...
Connect(k, r) ==
    /\ r \in Tcp /\ port[r] = k /\ Current(k, r)
    /\ reading[k][r] < MaxReading
    /\ reading' = [reading EXCEPT ![k][r] = @ + 1]
    /\ UNCHANGED <<waits, prompt, now, life, sockets, receipts, services>>

\* ... and then read for up to timeout_s, whatever becomes of the lease: the
\* tag is answered and recorded, or does not come.
HandleTcp(k, r) ==
    /\ reading[k][r] > 0
    /\ reading' = [reading EXCEPT ![k][r] = @ - 1]
    /\ Record(k, r) \/ UNCHANGED receipts
    /\ UNCHANGED <<waits, prompt, now, life, sockets, services>>

\* A second datagram is not even answered.
Datagram(k, r) ==
    /\ r \in own[k] \ Tcp /\ Current(k, r) /\ receipts[k][r] = 0
    /\ Record(k, r)
    /\ UNCHANGED <<waits, prompt, now, life, sockets, reading, services>>

-----------------------------------------------------------------------------
Call(k) ==
    \/ Bind(k) \/ Bound(k) \/ BindFails(k) \/ Undone(k)
    \/ Stopped(k)

Next ==
    \/ Tick
    \/ \E k \in Calls : Start(k) \/ Call(k) \/ Stop(k) \/ Interrupt(k)
    \/ \E k \in Calls, r \in Receivers :
          Expire(k, r) \/ Connect(k, r) \/ HandleTcp(k, r) \/ Datagram(k, r)

Spec == Init /\ [][Next]_vars

-----------------------------------------------------------------------------
(* Safety.                                                                 *)

\* Whatever exchanges compete for a receiver, before and after its lease, it
\* leaves one receipt, and only of a correlation it was opened for.
ReceiptOnce ==
    \A k \in Calls, r \in Receivers :
       /\ receipts[k][r] <= 1
       /\ receipts[k][r] # 0 => pc[k] # "idle"

\* The registry never loses receivers that are open: those of an accepted
\* start() are in its table, so that a cancel finds them, until they are stopped.
\* It takes that a start() is over before a lease of its own: one that is not
\* may take the place of another that found the correlation free as it did.
OpenIsRegistered ==
    \A k \in Calls :
       prompt /\ pc[k] = "accepted" /\ own[k] # {} => services[corr[k]] = k

\* A start() that was refused leaves nothing listening, although receivers it
\* had opened before have been in use; nor does a stop() that has returned,
\* although an expiry may have been closing the same receivers.
EndedIsClosed ==
    \A k \in Calls, r \in Receivers : pc[k] \in {"refused", "stopped"} => port[r] # k

\* Who listens on a port has somebody to end it: a service with its expiry, or
\* a start() that still goes on or was cancelled.
ListenerIsGoverned ==
    \A k \in Calls, r \in Receivers :
       port[r] = k => \/ r \in own[k]
                      \/ pc[k] \in {"starting", "interrupted"} /\ at[k] = r

-----------------------------------------------------------------------------
(* Liveness.                                                               *)

\* The event loop runs whoever is ready, the clock runs, and a handler's read
\* ends with its timeout.
Fairness ==
    /\ WF_vars(Tick)
    /\ \A k \in Calls :
          /\ WF_vars(Call(k))
          /\ \A r \in Receivers : WF_vars(Expire(k, r)) /\ WF_vars(HandleTcp(k, r))

FairSpec == Spec /\ Fairness

\* Every start() and stop() comes to its end, and whoever is not cancelled in
\* between, no listener outlives the leases.
ListenersEnd ==
    <>[](\A k \in Calls :
            /\ pc[k] \notin Starting \cup {"stopping"}
            /\ own[k] = {}
            /\ pc[k] # "interrupted" => \A r \in Receivers : port[r] # k)
=============================================================================
