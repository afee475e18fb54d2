---------------------------- MODULE CoverageProofs ----------------------------
(***************************************************************************)
(* What the parts of Coverage keep for every value of their constants.     *)
(*                                                                         *)
(* CoverageLease, for every number of receivers, calls and correlations.   *)
(* Nobody locks the registry: the invariant says for each place of a call  *)
(* which of its sockets are held, and that a start() which is in time      *)
(* holds all it has bound, so that it cannot complete while another call   *)
(* of its correlation is open.                                             *)
(*                                                                         *)
(* CoverageExchange, for any requests and any network.  What proves        *)
(* something of a path came over it; a send whose role goes on finds its   *)
(* receiver open, unless its window has closed before it; and the receipts *)
(* are fetched when no send of their direction can be acknowledged any     *)
(* more.                                                                   *)
(***************************************************************************)
EXTENDS Coverage, TLAPS

-----------------------------------------------------------------------------
(* CoverageLease.                                                          *)

\* What a service holds is bound to its port.
HeldListens == \A k \in Calls : \A r \in own[k] : port[r] = k

\* What is held at each place of a call.
HeldByPlace ==
    \A k \in Calls :
       /\ pc[k] \in {"idle", "refused", "stopped"} => own[k] = {}
       /\ pc[k] \in {"undoing", "stopping"} =>
             at[k] \in Receivers /\ own[k] \cap (1..at[k]) = {}
       /\ pc[k] \in {"binding", "starting"} =>
             at[k] \in Receivers /\ own[k] \subseteq 1..(at[k] - 1)
       /\ pc[k] = "starting" => port[at[k]] = k

\* Nothing has come to a call that has not begun.
Untouched ==
    \A k \in Calls, r \in Receivers :
       pc[k] = "idle" => reading[k][r] = 0 /\ receipts[k][r] = 0

\* A start() that is in time has lost nothing to expiry.
InTime ==
    prompt => \A k \in Calls : pc[k] \in {"binding", "starting"} =>
                 /\ own[k] = 1..(at[k] - 1)
                 /\ \A r \in Receivers : now < lease[k][r]

\* The table holds sets of services whose start() has succeeded.
TableIsAccepted == \A k \in Calls : services[corr[k]] = k => pc[k] = "accepted"

Inv ==
    /\ TypeOK /\ HeldListens /\ HeldByPlace /\ ListenerIsGoverned
    /\ Untouched /\ ReceiptOnce /\ InTime /\ OpenIsRegistered
    /\ TableIsAccepted

\* An empty registry satisfies the invariant.
THEOREM InitInv == Init => Inv
BY SizeAssumption, CorrAssumption, NoneAssumption
   DEF Init, Inv, TypeOK, HeldListens, HeldByPlace, ListenerIsGoverned, Untouched,
       ReceiptOnce, InTime, OpenIsRegistered, TableIsAccepted, Receivers

\* Where a call stops its services: what it holds, and from which on.
SweepOf(k, held, i) ==
    \/ pc[k] = "binding"   /\ held = own[k] /\ i = 1
    \/ pc[k] = "starting"  /\ held = own[k] \cup {at[k]} /\ i = 1
    \/ pc[k] = "undoing"   /\ held = own[k] /\ i = at[k] + 1
    \/ pc[k] = "accepted"  /\ held = own[k] /\ i = 1
    \/ pc[k] = "stopping"  /\ held = own[k] /\ i = at[k] + 1

SweepStep(k) ==
    \E held \in SUBSET Receivers, i \in 1..(N + 1) :
       /\ SweepOf(k, held, i)
       /\ \/ Sweep(k, held, i, "refused", "undoing")
          \/ Sweep(k, held, i, "stopped", "stopping")

\* Wherever it does, the invariant survives.
LEMMA SweepKeeps ==
    ASSUME Inv, NEW k \in Calls, SweepStep(k),
           \/ services' = services /\ pc[k] # "accepted"
           \/ services[corr[k]] = k /\ services' = [services EXCEPT ![corr[k]] = None],
           UNCHANGED <<waits, prompt, now, corr, lease, reading, receipts>>
    PROVE  Inv'
<1> USE DEF Inv
<1>swept. PICK held \in SUBSET Receivers, i \in 1..(N + 1) :
         /\ SweepOf(k, held, i)
         /\ \/ Sweep(k, held, i, "refused", "undoing")
            \/ Sweep(k, held, i, "stopped", "stopping")
  BY DEF SweepStep
<1>held. /\ held \cap (1..(i - 1)) = {}
      /\ \/ held = own[k] /\ pc[k] \in {"binding", "undoing", "accepted", "stopping"}
         \/ held = own[k] \cup {at[k]} /\ pc[k] = "starting"
  <2>1. CASE i = 1
    BY <2>1, <1>swept DEF SweepOf
  <2>2. CASE pc[k] \in {"undoing", "stopping"} /\ held = own[k] /\ i = at[k] + 1
    <3>1. at[k] \in Receivers /\ own[k] \cap (1..at[k]) = {}
      BY <2>2 DEF HeldByPlace
    <3>2. i - 1 = at[k]
      BY <2>2, <3>1 DEF Receivers
    <3> QED BY <2>2, <3>1, <3>2
  <2> QED BY <1>swept, <2>1, <2>2 DEF SweepOf
<1>1. PICK left \in SUBSET held :
         /\ own' = [own EXCEPT ![k] = left]
         /\ port' = [r \in Receivers |-> IF r \in held \ left THEN None ELSE port[r]]
         /\ \/ left = {} /\ at' = at
               /\ \/ pc' = [pc EXCEPT ![k] = "refused"]
                  \/ pc' = [pc EXCEPT ![k] = "stopped"]
            \/ \E r \in Receivers :
                  /\ left \cap (1..r) = {}
                  /\ at' = [at EXCEPT ![k] = r]
                  /\ \/ pc' = [pc EXCEPT ![k] = "undoing"]
                     \/ pc' = [pc EXCEPT ![k] = "stopping"]
  <2>1. CASE \A s \in i..N : ~Busy(k, held, s)
    <3>1. /\ Close(k, held, i, N) /\ at' = at
          /\ \/ pc' = [pc EXCEPT ![k] = "refused"]
             \/ pc' = [pc EXCEPT ![k] = "stopped"]
      BY <1>swept, <2>1 DEF Sweep
    <3>2. held \ (i..N) = {}
      BY <1>swept, <1>held, SizeAssumption DEF Receivers
    <3>3. held \cap (i..N) = held \ {}
      BY <3>2
    <3> QED BY <3>1, <3>2, <3>3 DEF Close
  <2>2. CASE ~(\A s \in i..N : ~Busy(k, held, s))
    <3>1. PICK r \in i..N : /\ Close(k, held, i, r)
                            /\ at' = [at EXCEPT ![k] = r]
                            /\ \/ pc' = [pc EXCEPT ![k] = "undoing"]
                               \/ pc' = [pc EXCEPT ![k] = "stopping"]
      BY <1>swept, <2>2 DEF Sweep
    <3> DEFINE left == held \ (i..r)
    <3>2. r \in Receivers
      BY <1>swept, <1>held, SizeAssumption DEF Receivers
    <3>3. left \cap (1..r) = {}
      BY <1>swept, <1>held, <3>2, SizeAssumption DEF Receivers
    <3>4. held \cap (i..r) = held \ left
      BY <1>swept
    <3> QED BY <3>1, <3>2, <3>3, <3>4 DEF Close
  <2> QED BY <2>1, <2>2
<1>2. /\ pc'[k] \in {"refused", "stopped", "undoing", "stopping"}
      /\ pc' = [pc EXCEPT ![k] = pc'[k]]
      /\ at' \in [Calls -> 0..N]
      /\ \A j \in Calls : j # k => at'[j] = at[j] /\ pc'[j] = pc[j] /\ own'[j] = own[j]
      /\ own'[k] = left
      /\ pc'[k] \in {"refused", "stopped"} => left = {}
      /\ pc'[k] \in {"undoing", "stopping"} => at'[k] \in Receivers /\ left \cap (1..at'[k]) = {}
  <2>1. pc \in [Calls -> {"idle", "refused", "interrupted"} \cup Starting \cup Registered]
        /\ at \in [Calls -> 0..N] /\ own \in [Calls -> SUBSET Receivers]
    BY DEF TypeOK
  <2>2. own'[k] = left /\ \A j \in Calls : j # k => own'[j] = own[j]
    BY <1>1, <2>1
  <2>3. CASE left = {} /\ at' = at /\ pc' = [pc EXCEPT ![k] = "refused"]
    BY <2>1, <2>2, <2>3
  <2>4. CASE left = {} /\ at' = at /\ pc' = [pc EXCEPT ![k] = "stopped"]
    BY <2>1, <2>2, <2>4
  <2>5. ASSUME NEW r \in Receivers, left \cap (1..r) = {}, at' = [at EXCEPT ![k] = r],
               pc' = [pc EXCEPT ![k] = "undoing"] \/ pc' = [pc EXCEPT ![k] = "stopping"]
        PROVE  /\ pc'[k] \in {"undoing", "stopping"} /\ pc' = [pc EXCEPT ![k] = pc'[k]]
               /\ at' \in [Calls -> 0..N]
               /\ \A j \in Calls : j # k => at'[j] = at[j] /\ pc'[j] = pc[j]
               /\ at'[k] \in Receivers /\ left \cap (1..at'[k]) = {}
    <3>1. r \in 0..N
      BY SizeAssumption DEF Receivers
    <3>2. at'[k] = r /\ at' \in [Calls -> 0..N]
      BY <2>1, <2>5, <3>1
    <3>3. CASE pc' = [pc EXCEPT ![k] = "undoing"]
      BY <2>1, <2>2, <2>5, <3>2, <3>3
    <3>4. CASE pc' = [pc EXCEPT ![k] = "stopping"]
      BY <2>1, <2>2, <2>5, <3>2, <3>4
    <3> QED BY <2>5, <3>3, <3>4
  <2> QED BY <1>1, <2>2, <2>3, <2>4, <2>5
<1>3. \A r \in held : port[r] = k
  BY <1>held DEF HeldListens, HeldByPlace
<1>4. TypeOK'
  <2>1. port' \in [Receivers -> Calls \cup {None}]
    BY <1>1 DEF TypeOK
  <2>2. own' \in [Calls -> SUBSET Receivers]
    BY <1>1 DEF TypeOK
  <2>3. services' \in [Corrs -> Calls \cup {None}]
    BY DEF TypeOK
  <2>4. pc' \in [Calls -> {"idle", "refused", "interrupted"} \cup Starting \cup Registered]
    BY <1>2 DEF TypeOK, Starting, Registered
  <2> QED BY <1>2, <2>1, <2>2, <2>3, <2>4 DEF TypeOK
<1>5. \A j \in Calls, r \in Receivers :
         /\ j # k => (port'[r] = j <=> port[r] = j)
         /\ port'[r] = k => port[r] = k /\ (r \in held => r \in left)
  BY <1>1, <1>3, NoneAssumption DEF TypeOK
<1>6. HeldListens'
  <2> SUFFICES ASSUME NEW j \in Calls, NEW r \in own'[j] PROVE port'[r] = j
    BY DEF HeldListens
  <2>1. CASE j = k
    BY <2>1, <1>1, <1>2, <1>3
  <2>2. CASE j # k
    BY <2>2, <1>2, <1>5 DEF HeldListens, TypeOK
  <2> QED BY <2>1, <2>2
<1>7. HeldByPlace'
  <2> SUFFICES ASSUME NEW j \in Calls
               PROVE  /\ pc'[j] \in {"idle", "refused", "stopped"} => own'[j] = {}
                      /\ pc'[j] \in {"undoing", "stopping"} =>
                            at'[j] \in Receivers /\ own'[j] \cap (1..at'[j]) = {}
                      /\ pc'[j] \in {"binding", "starting"} =>
                            at'[j] \in Receivers /\ own'[j] \subseteq 1..(at'[j] - 1)
                      /\ pc'[j] = "starting" => port'[at'[j]] = j
    BY DEF HeldByPlace
  <2>1. CASE j = k
    BY <2>1, <1>2
  <2>2. CASE j # k
    BY <2>2, <1>2, <1>5 DEF HeldByPlace
  <2> QED BY <2>1, <2>2
<1>8. ListenerIsGoverned'
  <2> SUFFICES ASSUME NEW j \in Calls, NEW r \in Receivers, port'[r] = j
               PROVE  \/ r \in own'[j]
                      \/ pc'[j] \in {"starting", "interrupted"} /\ at'[j] = r
    BY DEF ListenerIsGoverned
  <2>1. CASE j = k
    BY <2>1, <1>held, <1>2, <1>5 DEF ListenerIsGoverned
  <2>2. CASE j # k
    BY <2>2, <1>2, <1>5 DEF ListenerIsGoverned
  <2> QED BY <2>1, <2>2
<1>9. Untouched'
  BY <1>2 DEF Untouched
<1>10. ReceiptOnce'
  BY <1>2 DEF ReceiptOnce
<1>11. InTime'
  BY <1>2 DEF InTime
<1>12. OpenIsRegistered'
  <2> SUFFICES ASSUME NEW j \in Calls, prompt, pc'[j] = "accepted", own'[j] # {}
               PROVE  services'[corr[j]] = j
    BY DEF OpenIsRegistered
  <2>1. j # k
    BY <1>2
  <2>2. services[corr[j]] = j
    BY <2>1, <1>2 DEF OpenIsRegistered
  <2> QED BY <2>1, <2>2 DEF TypeOK
<1>13. TableIsAccepted'
  <2> SUFFICES ASSUME NEW j \in Calls, services'[corr[j]] = j PROVE pc'[j] = "accepted"
    BY DEF TableIsAccepted
  <2>1. services[corr[j]] = j
    BY NoneAssumption DEF TypeOK
  <2>2. j # k
    BY <2>1, NoneAssumption DEF TableIsAccepted, TypeOK
  <2> QED BY <2>1, <2>2, <1>2 DEF TableIsAccepted
<1> QED BY <1>13, <1>4, <1>6, <1>7, <1>8, <1>9, <1>10, <1>11, <1>12

\* A bind that fails closes what its call has started.
LEMMA BindFailsKeeps == ASSUME Inv, NEW k \in Calls, BindFails(k) PROVE Inv'
<1>1. pc[k] = "binding" /\ own[k] \in SUBSET Receivers
  BY DEF Inv, TypeOK, BindFails
<1>2. 1 \in 1..(N + 1)
  BY <1>1, SizeAssumption DEF Inv, HeldByPlace, Receivers
<1>3. SweepOf(k, own[k], 1)
  BY <1>1 DEF SweepOf
<1>4. SweepStep(k)
  BY <1>1, <1>2, <1>3 DEF SweepStep, BindFails, Undo
<1>5. /\ services' = services
      /\ UNCHANGED <<waits, prompt, now, corr, lease, reading, receipts>>
  BY DEF BindFails
<1> QED BY <1>1, <1>4, <1>5, SweepKeeps

\* A failed start() goes on closing, past a receiver it had to wait for.
LEMMA UndoneKeeps == ASSUME Inv, NEW k \in Calls, Undone(k) PROVE Inv'
<1>1. pc[k] = "undoing" /\ own[k] \in SUBSET Receivers
  BY DEF Inv, TypeOK, Undone
<1>2. at[k] + 1 \in 1..(N + 1)
  BY <1>1, SizeAssumption DEF Inv, HeldByPlace, Receivers
<1>3. SweepOf(k, own[k], at[k] + 1)
  BY <1>1 DEF SweepOf
<1>4. SweepStep(k)
  BY <1>1, <1>2, <1>3 DEF SweepStep, Undone
<1>5. /\ services' = services
      /\ UNCHANGED <<waits, prompt, now, corr, lease, reading, receipts>>
  BY DEF Undone
<1> QED BY <1>1, <1>4, <1>5, SweepKeeps

\* A stop() goes on closing, past a receiver it had to wait for.
LEMMA StoppedKeeps == ASSUME Inv, NEW k \in Calls, Stopped(k) PROVE Inv'
<1>1. pc[k] = "stopping" /\ own[k] \in SUBSET Receivers
  BY DEF Inv, TypeOK, Stopped
<1>2. at[k] + 1 \in 1..(N + 1)
  BY <1>1, SizeAssumption DEF Inv, HeldByPlace, Receivers
<1>3. SweepOf(k, own[k], at[k] + 1)
  BY <1>1 DEF SweepOf
<1>4. SweepStep(k)
  BY <1>1, <1>2, <1>3 DEF SweepStep, Stopped
<1>5. /\ services' = services
      /\ UNCHANGED <<waits, prompt, now, corr, lease, reading, receipts>>
  BY DEF Stopped
<1> QED BY <1>1, <1>4, <1>5, SweepKeeps

\* stop() takes its call out of the table and begins to close.
LEMMA StopKeeps == ASSUME Inv, NEW k \in Calls, Stop(k) PROVE Inv'
<1>1. pc[k] = "accepted" /\ own[k] \in SUBSET Receivers
  BY DEF Inv, TypeOK, Stop, TableIsAccepted
<1>2. 1 \in 1..(N + 1)
  BY SizeAssumption
<1>3. SweepOf(k, own[k], 1)
  BY <1>1 DEF SweepOf
<1>4. SweepStep(k)
  BY <1>1, <1>2, <1>3 DEF SweepStep, Stop
<1>5. /\ services[corr[k]] = k /\ services' = [services EXCEPT ![corr[k]] = None]
      /\ UNCHANGED <<waits, prompt, now, corr, lease, reading, receipts>>
  BY DEF Stop
<1> QED BY <1>1, <1>4, <1>5, SweepKeeps

\* The clock closes nothing by itself.
LEMMA TickKeeps == Inv /\ Tick => Inv'
<1> SUFFICES ASSUME Inv, Tick PROVE Inv'
  OBVIOUS
<1> USE DEF Inv, Tick, life, sockets
<1>1. TypeOK'
  BY DEF TypeOK
<1>2. HeldListens' /\ HeldByPlace' /\ ListenerIsGoverned' /\ Untouched' /\ ReceiptOnce'
  BY DEF HeldListens, HeldByPlace, ListenerIsGoverned, Untouched, ReceiptOnce
<1>3. InTime'
  BY DEF InTime
<1>4. OpenIsRegistered' /\ TableIsAccepted'
  BY DEF OpenIsRegistered, TableIsAccepted
<1> QED BY <1>1, <1>2, <1>3, <1>4

\* Connections and packets.
LEMMA TrafficKeeps ==
    ASSUME Inv, NEW k \in Calls, NEW r \in Receivers,
           Connect(k, r) \/ HandleTcp(k, r) \/ Datagram(k, r)
    PROVE  Inv'
<1> USE DEF Inv
<1>1. UNCHANGED <<waits, prompt, now, pc, at, corr, lease, port, own, services>>
  BY DEF Connect, HandleTcp, Datagram, life, sockets
<1>2. pc[k] # "idle"
  <2>1. CASE port[r] = k
    BY <2>1 DEF ListenerIsGoverned, HeldByPlace
  <2>2. CASE HandleTcp(k, r)
    BY <2>2 DEF HandleTcp, Untouched, TypeOK
  <2>3. CASE Datagram(k, r)
    BY <2>3 DEF Datagram, HeldByPlace
  <2> QED BY <2>1, <2>2, <2>3 DEF Connect
<1>3. /\ reading' \in [Calls -> [Receivers -> Nat]] /\ receipts' \in [Calls -> [Receivers -> Nat]]
      /\ \A j \in Calls, q \in Receivers :
            /\ j # k => reading'[j][q] = reading[j][q] /\ receipts'[j][q] = receipts[j][q]
            /\ receipts[j][q] <= 1 => receipts'[j][q] <= 1
  <2>1. reading \in [Calls -> [Receivers -> Nat]] /\ receipts \in [Calls -> [Receivers -> Nat]]
    BY DEF TypeOK
  <2>2. CASE Connect(k, r)
    BY <2>1, <2>2 DEF Connect
  <2>3. CASE HandleTcp(k, r)
    <3>1. reading' = [reading EXCEPT ![k][r] = @ - 1] /\ reading[k][r] > 0
      BY <2>3 DEF HandleTcp
    <3>2. reading' \in [Calls -> [Receivers -> Nat]]
          /\ \A j \in Calls, q \in Receivers : j # k => reading'[j][q] = reading[j][q]
      BY <2>1, <3>1
    <3>3. CASE receipts' = receipts
      BY <2>1, <3>2, <3>3
    <3>4. CASE Record(k, r)
      BY <2>1, <3>2, <3>4 DEF Record
    <3> QED BY <2>3, <3>3, <3>4 DEF HandleTcp
  <2>4. CASE Datagram(k, r)
    BY <2>1, <2>4 DEF Datagram, Record
  <2> QED BY <2>2, <2>3, <2>4
<1>4. TypeOK'
  BY <1>1, <1>3 DEF TypeOK
<1>5. HeldListens' /\ HeldByPlace' /\ ListenerIsGoverned'
  BY <1>1 DEF HeldListens, HeldByPlace, ListenerIsGoverned
<1>6. Untouched'
  BY <1>1, <1>2, <1>3 DEF Untouched
<1>7. ReceiptOnce'
  <2> SUFFICES ASSUME NEW j \in Calls, NEW q \in Receivers
               PROVE  receipts'[j][q] <= 1 /\ (receipts'[j][q] # 0 => pc'[j] # "idle")
    BY DEF ReceiptOnce
  <2>1. receipts'[j][q] <= 1
    BY <1>3 DEF ReceiptOnce
  <2>2. receipts'[j][q] # 0 => pc'[j] # "idle"
    BY <1>1, <1>2, <1>3 DEF ReceiptOnce
  <2> QED BY <2>1, <2>2
<1>8. InTime' /\ OpenIsRegistered' /\ TableIsAccepted'
  BY <1>1 DEF InTime, OpenIsRegistered, TableIsAccepted
<1> QED BY <1>4, <1>5, <1>6, <1>7, <1>8

\* A lease that is over closes its receiver and no other.
LEMMA ExpireKeeps == ASSUME Inv, NEW k \in Calls, NEW r \in Receivers, Expire(k, r) PROVE Inv'
<1> USE DEF Inv
<1>1. /\ r \in own[k] /\ ~(now < lease[k][r]) /\ port[r] = k
      /\ own' = [own EXCEPT ![k] = own[k] \ {r}] /\ port' = [port EXCEPT ![r] = None]
      /\ UNCHANGED <<waits, prompt, now, pc, at, corr, lease, reading, receipts, services>>
  BY DEF Expire, Current, life, HeldListens
<1>2. \A j \in Calls : own'[j] = IF j = k THEN own[k] \ {r} ELSE own[j]
  BY <1>1 DEF TypeOK
<1>3. \A q \in Receivers : port'[q] = IF q = r THEN None ELSE port[q]
  BY <1>1 DEF TypeOK
<1>4. TypeOK'
  BY <1>1 DEF TypeOK
<1>5. HeldListens'
  BY <1>1, <1>2, <1>3 DEF HeldListens, TypeOK
<1>6. pc[k] = "starting" => at[k] # r
  BY <1>1, SizeAssumption DEF HeldByPlace, Receivers
<1>7. HeldByPlace'
  <2> SUFFICES ASSUME NEW j \in Calls
               PROVE  /\ pc[j] \in {"idle", "refused", "stopped"} => own'[j] = {}
                      /\ pc[j] \in {"undoing", "stopping"} =>
                            at[j] \in Receivers /\ own'[j] \cap (1..at[j]) = {}
                      /\ pc[j] \in {"binding", "starting"} =>
                            at[j] \in Receivers /\ own'[j] \subseteq 1..(at[j] - 1)
                      /\ pc[j] = "starting" => port'[at[j]] = j
    BY <1>1 DEF HeldByPlace
  <2>1. own'[j] \subseteq own[j]
    BY <1>2
  <2>2. pc[j] = "starting" => port'[at[j]] = j
    BY <1>1, <1>3, <1>6 DEF HeldByPlace
  <2> QED BY <2>1, <2>2 DEF HeldByPlace
<1>8. ListenerIsGoverned'
  BY <1>1, <1>2, <1>3, NoneAssumption DEF ListenerIsGoverned
<1>9. Untouched' /\ ReceiptOnce' /\ TableIsAccepted'
  BY <1>1 DEF Untouched, ReceiptOnce, TableIsAccepted
<1>10. InTime'
  BY <1>1, <1>2 DEF InTime
<1>11. OpenIsRegistered'
  BY <1>1, <1>2 DEF OpenIsRegistered
<1> QED BY <1>4, <1>5, <1>7, <1>8, <1>9, <1>10, <1>11

\* A call begins with new leases, or is refused.
LEMMA StartKeeps == ASSUME Inv, NEW k \in Calls, Start(k) PROVE Inv'
<1> USE DEF Inv
<1>1. /\ pc[k] = "idle" /\ own[k] = {}
      /\ UNCHANGED <<waits, prompt, now, corr, port, own, reading, receipts, services>>
  BY DEF Start, sockets, HeldByPlace
<1>2. PICK asked \in (now + 1)..(now + MaxRequest) :
         lease' = [lease EXCEPT ![k] = [r \in Receivers |-> LeaseEnd(asked, r)]]
  BY DEF Start
<1>3. /\ lease' \in [Calls -> [Receivers -> Nat]]
      /\ \A r \in Receivers : now < lease'[k][r]
      /\ \A j \in Calls : j # k => lease'[j] = lease[j]
  <2>1. now \in Nat /\ lease \in [Calls -> [Receivers -> Nat]] /\ asked \in Nat /\ now < asked
    BY SizeAssumption DEF TypeOK
  <2>2. \A r \in Receivers : LeaseEnd(asked, r) \in Nat /\ now < LeaseEnd(asked, r)
    BY <2>1, ReceiverAssumption DEF LeaseEnd
  <2> QED BY <1>2, <2>1, <2>2
<1>4. /\ \/ pc' = [pc EXCEPT ![k] = "binding"] /\ at' = [at EXCEPT ![k] = 1]
         \/ pc' = [pc EXCEPT ![k] = "refused"] /\ at' = at
  BY DEF Start
<1>5. /\ pc' \in [Calls -> {"idle", "refused", "interrupted"} \cup Starting \cup Registered]
      /\ at' \in [Calls -> 0..N]
      /\ \A j \in Calls : j # k => pc'[j] = pc[j] /\ at'[j] = at[j]
      /\ \/ pc'[k] = "binding" /\ at'[k] = 1
         \/ pc'[k] = "refused"
  <2>1. /\ pc \in [Calls -> {"idle", "refused", "interrupted"} \cup Starting \cup Registered]
        /\ at \in [Calls -> 0..N] /\ 1 \in 0..N
    BY SizeAssumption DEF TypeOK
  <2>2. CASE pc' = [pc EXCEPT ![k] = "binding"] /\ at' = [at EXCEPT ![k] = 1]
    BY <2>1, <2>2 DEF Starting
  <2>3. CASE pc' = [pc EXCEPT ![k] = "refused"] /\ at' = at
    BY <2>1, <2>3
  <2> QED BY <1>4, <2>2, <2>3
<1>6. TypeOK'
  BY <1>1, <1>3, <1>5 DEF TypeOK
<1>7. HeldListens'
  BY <1>1 DEF HeldListens
<1>8. HeldByPlace'
  <2> SUFFICES ASSUME NEW j \in Calls
               PROVE  /\ pc'[j] \in {"idle", "refused", "stopped"} => own[j] = {}
                      /\ pc'[j] \in {"undoing", "stopping"} =>
                            at'[j] \in Receivers /\ own[j] \cap (1..at'[j]) = {}
                      /\ pc'[j] \in {"binding", "starting"} =>
                            at'[j] \in Receivers /\ own[j] \subseteq 1..(at'[j] - 1)
                      /\ pc'[j] = "starting" => port[at'[j]] = j
    BY <1>1 DEF HeldByPlace
  <2>1. CASE j = k
    BY <2>1, <1>1, <1>5, SizeAssumption DEF Receivers
  <2>2. CASE j # k
    BY <2>2, <1>5 DEF HeldByPlace
  <2> QED BY <2>1, <2>2
<1>9. ListenerIsGoverned'
  BY <1>1, <1>5 DEF ListenerIsGoverned
<1>10. Untouched' /\ ReceiptOnce'
  BY <1>1, <1>5 DEF Untouched, ReceiptOnce
<1>11. InTime'
  <2> SUFFICES ASSUME prompt, NEW j \in Calls, pc'[j] \in {"binding", "starting"}
               PROVE  own[j] = 1..(at'[j] - 1) /\ \A r \in Receivers : now < lease'[j][r]
    BY <1>1 DEF InTime
  <2>1. CASE j = k
    <3>1. 1..(at'[k] - 1) = {}
      BY <2>1, <1>5
    <3> QED BY <2>1, <1>1, <1>3, <3>1
  <2>2. CASE j # k
    BY <2>2, <1>3, <1>5 DEF InTime
  <2> QED BY <2>1, <2>2
<1>12. OpenIsRegistered' /\ TableIsAccepted'
  BY <1>1, <1>5 DEF OpenIsRegistered, TableIsAccepted
<1> QED BY <1>6, <1>7, <1>8, <1>9, <1>10, <1>11, <1>12

\* A socket is bound to a port that was free.
LEMMA BindKeeps == ASSUME Inv, NEW k \in Calls, Bind(k) PROVE Inv'
<1> USE DEF Inv
<1>1. /\ pc[k] = "binding" /\ at[k] \in Receivers /\ port[at[k]] = None
      /\ port' = [port EXCEPT ![at[k]] = k] /\ pc' = [pc EXCEPT ![k] = "starting"]
      /\ UNCHANGED <<waits, prompt, now, at, corr, lease, own, reading, receipts, services>>
  BY DEF Bind, HeldByPlace
<1>2. /\ pc' \in [Calls -> {"idle", "refused", "interrupted"} \cup Starting \cup Registered]
      /\ \A j \in Calls : pc'[j] = IF j = k THEN "starting" ELSE pc[j]
  BY <1>1 DEF TypeOK, Starting
<1>3. \A q \in Receivers : port'[q] = IF q = at[k] THEN k ELSE port[q]
  BY <1>1 DEF TypeOK
<1>4. TypeOK'
  BY <1>1, <1>2 DEF TypeOK
<1>5. HeldListens'
  <2> SUFFICES ASSUME NEW j \in Calls, NEW r \in own[j] PROVE port'[r] = j
    BY <1>1 DEF HeldListens
  <2>1. port[r] = j /\ r \in Receivers
    BY DEF HeldListens, TypeOK
  <2> QED BY <2>1, <1>1, <1>3, NoneAssumption
<1>6. HeldByPlace'
  <2> SUFFICES ASSUME NEW j \in Calls, pc'[j] = "starting" PROVE port'[at[j]] = j
    BY <1>1, <1>2 DEF HeldByPlace
  <2>1. CASE j = k
    BY <2>1, <1>1, <1>3
  <2>2. CASE j # k
    <3>1. port[at[j]] = j /\ at[j] \in Receivers
      BY <2>2, <1>2 DEF HeldByPlace
    <3> QED BY <3>1, <1>1, <1>3, NoneAssumption
  <2> QED BY <2>1, <2>2
<1>7. ListenerIsGoverned'
  <2> SUFFICES ASSUME NEW j \in Calls, NEW r \in Receivers, port'[r] = j
               PROVE  r \in own[j] \/ (pc'[j] \in {"starting", "interrupted"} /\ at[j] = r)
    BY <1>1 DEF ListenerIsGoverned
  <2>1. CASE r = at[k]
    BY <2>1, <1>2, <1>3
  <2>2. CASE r # at[k]
    <3>1. port[r] = j
      BY <2>2, <1>3
    <3>2. r \in own[j] \/ (pc[j] \in {"starting", "interrupted"} /\ at[j] = r)
      BY <3>1 DEF ListenerIsGoverned
    <3> QED BY <2>2, <3>2, <1>2
  <2> QED BY <2>1, <2>2
<1>8. Untouched' /\ ReceiptOnce'
  BY <1>1, <1>2 DEF Untouched, ReceiptOnce
<1>9. InTime'
  BY <1>1, <1>2 DEF InTime
<1>10. OpenIsRegistered' /\ TableIsAccepted'
  BY <1>1, <1>2 DEF OpenIsRegistered, TableIsAccepted
<1> QED BY <1>4, <1>5, <1>6, <1>7, <1>8, <1>9, <1>10

\* An interrupted call keeps what it holds, the socket it was starting excepted.
LEMMA InterruptKeeps == ASSUME Inv, NEW k \in Calls, Interrupt(k) PROVE Inv'
<1> USE DEF Inv
<1>1. /\ pc[k] \in {"binding", "starting", "undoing", "stopping"}
      /\ \/ pc[k] # "stopping" /\ pc' = [pc EXCEPT ![k] = "interrupted"]
         \/ pc[k] = "stopping" /\ pc' = [pc EXCEPT ![k] = "cut"]
      /\ \/ port' = port
         \/ pc[k] = "starting" /\ port' = [port EXCEPT ![at[k]] = None]
      /\ UNCHANGED <<waits, prompt, now, at, corr, lease, own, reading, receipts, services>>
  BY DEF Interrupt, Starting
<1>2. /\ pc' \in [Calls -> {"idle", "refused", "interrupted"} \cup Starting \cup Registered]
      /\ \A j \in Calls : j # k => pc'[j] = pc[j]
      /\ pc'[k] = IF pc[k] = "stopping" THEN "cut" ELSE "interrupted"
  BY <1>1 DEF TypeOK, Registered
<1>3. \A q \in Receivers : \/ port'[q] = port[q]
                           \/ pc[k] = "starting" /\ q = at[k] /\ port'[q] = None
  BY <1>1 DEF TypeOK
<1>4. port' \in [Receivers -> Calls \cup {None}]
  <2>1. port \in [Receivers -> Calls \cup {None}]
    BY DEF TypeOK
  <2>2. CASE port' = port
    BY <2>1, <2>2
  <2>3. CASE port' = [port EXCEPT ![at[k]] = None]
    BY <2>1, <2>3
  <2> QED BY <1>1, <2>2, <2>3
<1>5. TypeOK'
  BY <1>1, <1>2, <1>4 DEF TypeOK
<1>6. pc[k] = "starting" => at[k] \notin own[k] /\ port[at[k]] = k /\ at[k] \in Receivers
  BY SizeAssumption DEF HeldByPlace, Receivers
<1>7. HeldListens'
  <2> SUFFICES ASSUME NEW j \in Calls, NEW r \in own[j] PROVE port'[r] = j
    BY <1>1 DEF HeldListens
  <2>1. port[r] = j /\ r \in Receivers
    BY DEF HeldListens, TypeOK
  <2> QED BY <2>1, <1>3, <1>6
<1>8. HeldByPlace'
  <2> SUFFICES ASSUME NEW j \in Calls, j # k
               PROVE  /\ pc[j] \in {"idle", "refused", "stopped"} => own[j] = {}
                      /\ pc[j] \in {"undoing", "stopping"} =>
                            at[j] \in Receivers /\ own[j] \cap (1..at[j]) = {}
                      /\ pc[j] \in {"binding", "starting"} =>
                            at[j] \in Receivers /\ own[j] \subseteq 1..(at[j] - 1)
                      /\ pc[j] = "starting" => port'[at[j]] = j
    BY <1>1, <1>2 DEF HeldByPlace
  <2>1. pc[j] = "starting" => port'[at[j]] = j
    <3>1. pc[j] = "starting" => port[at[j]] = j /\ at[j] \in Receivers
      BY DEF HeldByPlace
    <3> QED BY <3>1, <1>3, <1>6
  <2> QED BY <2>1 DEF HeldByPlace
<1>9. ListenerIsGoverned'
  <2> SUFFICES ASSUME NEW j \in Calls, NEW r \in Receivers, port'[r] = j
               PROVE  r \in own[j] \/ (pc'[j] \in {"starting", "interrupted"} /\ at[j] = r)
    BY <1>1 DEF ListenerIsGoverned
  <2>1. port[r] = j
    BY <1>3, NoneAssumption
  <2>2. r \in own[j] \/ (pc[j] \in {"starting", "interrupted"} /\ at[j] = r)
    BY <2>1 DEF ListenerIsGoverned
  <2> QED BY <2>2, <1>1, <1>2
<1>10. Untouched' /\ ReceiptOnce'
  BY <1>1, <1>2 DEF Untouched, ReceiptOnce
<1>11. InTime'
  BY <1>1, <1>2 DEF InTime
<1>12. OpenIsRegistered' /\ TableIsAccepted'
  BY <1>1, <1>2 DEF OpenIsRegistered, TableIsAccepted
<1> QED BY <1>5, <1>7, <1>8, <1>9, <1>10, <1>11, <1>12

\* A receiver runs: the table, the next receiver, or the way back.
LEMMA BoundKeeps == ASSUME Inv, NEW k \in Calls, Bound(k) PROVE Inv'
<1> USE DEF Inv
<1>1. /\ pc[k] = "starting" /\ at[k] \in Receivers /\ port[at[k]] = k
      /\ own[k] \in SUBSET Receivers /\ own[k] \subseteq 1..(at[k] - 1)
      /\ UNCHANGED <<waits, prompt, now, corr, lease, reading, receipts>>
  BY DEF Bound, HeldByPlace, TypeOK
<1> DEFINE held == own[k] \cup {at[k]}
<1>2. CASE at[k] < N /\ ~Current(k, at[k] + 1) /\ Undo(k, held) /\ services' = services
  <2>1. 1 \in 1..(N + 1) /\ held \in SUBSET Receivers
    BY <1>1, SizeAssumption
  <2>2. SweepOf(k, held, 1)
    BY <1>1 DEF SweepOf
  <2>3. SweepStep(k)
    BY <2>1, <2>2, <1>2 DEF SweepStep, Undo
  <2> QED BY <2>3, <1>1, <1>2, SweepKeeps
<1>3. CASE /\ own' = [own EXCEPT ![k] = held] /\ port' = port
           /\ \/ /\ at[k] = N /\ at' = at /\ pc' = [pc EXCEPT ![k] = "accepted"]
                 /\ services' = [services EXCEPT ![corr[k]] = k]
              \/ /\ at[k] < N /\ at' = [at EXCEPT ![k] = at[k] + 1]
                 /\ pc' = [pc EXCEPT ![k] = "binding"]
                 /\ services' = services
  <2>1. /\ own' \in [Calls -> SUBSET Receivers]
        /\ \A j \in Calls : own'[j] = IF j = k THEN held ELSE own[j]
    BY <1>1, <1>3 DEF TypeOK
  <2>2. /\ pc' \in [Calls -> {"idle", "refused", "interrupted"} \cup Starting \cup Registered]
        /\ \A j \in Calls : j # k => pc'[j] = pc[j]
        /\ pc'[k] = IF at[k] = N THEN "accepted" ELSE "binding"
    <3>1. pc \in [Calls -> {"idle", "refused", "interrupted"} \cup Starting \cup Registered]
      BY DEF TypeOK
    <3>2. CASE at[k] = N
      <4>1. pc' = [pc EXCEPT ![k] = "accepted"]
        BY <3>2, <1>3, SizeAssumption
      <4> QED BY <3>1, <3>2, <4>1 DEF Registered
    <3>3. CASE at[k] < N
      <4>1. pc' = [pc EXCEPT ![k] = "binding"] /\ at[k] # N
        BY <3>3, <1>3, <1>1, SizeAssumption DEF Receivers
      <4> QED BY <3>1, <4>1 DEF Starting
    <3> QED BY <3>2, <3>3, <1>3
  <2>3. /\ at' \in [Calls -> 0..N]
        /\ \A j \in Calls : j # k => at'[j] = at[j]
        /\ at[k] < N => at'[k] = at[k] + 1
    <3>1. at \in [Calls -> 0..N]
      BY DEF TypeOK
    <3>2. CASE at[k] = N
      <4>1. at' = at
        BY <3>2, <1>3, SizeAssumption
      <4> QED BY <3>1, <3>2, <4>1, SizeAssumption
    <3>3. CASE at[k] < N
      <4>1. at[k] + 1 \in 0..N
        BY <1>1, <3>3, SizeAssumption DEF Receivers
      <4>2. at' = [at EXCEPT ![k] = at[k] + 1]
        BY <3>3, <1>3, <1>1, SizeAssumption DEF Receivers
      <4> QED BY <3>1, <4>1, <4>2
    <3> QED BY <3>2, <3>3, <1>3
  <2>4. /\ services' \in [Corrs -> Calls \cup {None}]
        /\ \A j \in Calls : services'[corr[j]] = IF at[k] = N /\ corr[j] = corr[k]
                                                 THEN k ELSE services[corr[j]]
    <3>1. corr \in [Calls -> Corrs] /\ services \in [Corrs -> Calls \cup {None}]
      BY DEF TypeOK
    <3>2. CASE at[k] = N
      <4>1. services' = [services EXCEPT ![corr[k]] = k]
        BY <3>2, <1>3, SizeAssumption
      <4> QED BY <3>1, <3>2, <4>1
    <3>3. CASE at[k] < N
      <4>1. services' = services /\ at[k] # N
        BY <3>3, <1>1, <1>3, SizeAssumption DEF Receivers
      <4> QED BY <3>1, <4>1
    <3> QED BY <3>2, <3>3, <1>3
  <2>5. TypeOK'
    BY <1>1, <1>3, <2>1, <2>2, <2>3, <2>4 DEF TypeOK
  <2>6. HeldListens'
    BY <1>1, <1>3, <2>1 DEF HeldListens
  <2>7. HeldByPlace'
    <3> SUFFICES ASSUME NEW j \in Calls
                 PROVE  /\ pc'[j] \in {"idle", "refused", "stopped"} => own'[j] = {}
                        /\ pc'[j] \in {"undoing", "stopping"} =>
                              at'[j] \in Receivers /\ own'[j] \cap (1..at'[j]) = {}
                        /\ pc'[j] \in {"binding", "starting"} =>
                              at'[j] \in Receivers /\ own'[j] \subseteq 1..(at'[j] - 1)
                        /\ pc'[j] = "starting" => port[at'[j]] = j
      BY <1>3 DEF HeldByPlace
    <3>1. CASE j # k
      BY <3>1, <2>1, <2>2, <2>3 DEF HeldByPlace
    <3>2. CASE j = k /\ at[k] = N
      BY <3>2, <2>2
    <3>3. CASE j = k /\ at[k] < N
      <4>1. at'[k] = at[k] + 1 /\ at[k] + 1 \in Receivers /\ at[k] + 1 - 1 = at[k]
        BY <3>3, <1>1, <2>3, SizeAssumption DEF Receivers
      <4>2. held \subseteq 1..at[k]
        BY <1>1, SizeAssumption DEF Receivers
      <4>3. own'[k] = held /\ pc'[k] = "binding"
        BY <3>3, <1>1, <2>1, <2>2, SizeAssumption DEF Receivers
      <4>4. at'[k] \in Receivers /\ at'[k] - 1 = at[k]
        BY <4>1, <1>1, SizeAssumption DEF Receivers
      <4>5. own'[k] \subseteq 1..(at'[k] - 1)
        BY <4>2, <4>3, <4>4
      <4> QED BY ONLY <3>3, <4>3, <4>4, <4>5
    <3> QED BY <3>1, <3>2, <3>3, <1>3
  <2>8. ListenerIsGoverned'
    <3> SUFFICES ASSUME NEW j \in Calls, NEW r \in Receivers, port[r] = j
                 PROVE  r \in own'[j] \/ (pc'[j] \in {"starting", "interrupted"} /\ at'[j] = r)
      BY <1>3 DEF ListenerIsGoverned
    <3>1. r \in own[j] \/ (pc[j] \in {"starting", "interrupted"} /\ at[j] = r)
      BY DEF ListenerIsGoverned
    <3>2. CASE j = k
      BY <3>1, <3>2, <1>1, <2>1
    <3>3. CASE j # k
      BY <3>1, <3>3, <2>1, <2>2, <2>3
    <3> QED BY <3>2, <3>3
  <2>9. Untouched' /\ ReceiptOnce'
    BY <1>1, <2>2 DEF Untouched, ReceiptOnce
  <2>10. InTime'
    <3> SUFFICES ASSUME prompt, NEW j \in Calls, pc'[j] \in {"binding", "starting"}
                 PROVE  own'[j] = 1..(at'[j] - 1) /\ \A r \in Receivers : now < lease[j][r]
      BY <1>1 DEF InTime
    <3>1. CASE j # k
      BY <3>1, <2>1, <2>2, <2>3 DEF InTime
    <3>2. CASE j = k
      <4>1. at[k] < N /\ at'[k] = at[k] + 1
        BY <3>2, <2>2, <2>3, <1>3
      <4>2. own[k] = 1..(at[k] - 1) /\ \A r \in Receivers : now < lease[k][r]
        BY <1>1 DEF InTime
      <4>3. at[k] \in 1..N /\ at[k] + 1 - 1 = at[k]
        BY <1>1, SizeAssumption DEF Receivers
      <4>4. 1..(at[k] - 1) \cup {at[k]} = 1..at[k]
        BY <4>3
      <4>5. own'[k] = 1..at[k]
        BY <4>2, <4>4, <2>1
      <4> QED BY <3>2, <4>1, <4>2, <4>3, <4>5
    <3> QED BY <3>1, <3>2
  <2>11. OpenIsRegistered'
    <3> SUFFICES ASSUME NEW j \in Calls, prompt, pc'[j] = "accepted", own'[j] # {}
                 PROVE  services'[corr[j]] = j
      BY <1>1 DEF OpenIsRegistered
    <3>1. CASE j = k
      BY <3>1, <2>2, <2>4
    <3>2. CASE j # k /\ at[k] = N
      <4>1. own[k] = 1..(N - 1)
        BY <3>2, <1>1 DEF InTime
      <4>2. \A r \in Receivers : port[r] = k
        BY <4>1, <3>2, <1>1, SizeAssumption DEF HeldListens, Receivers
      <4>3. own[j] = {}
        BY <4>2, <3>2 DEF HeldListens, TypeOK
      <4> QED BY <3>2, <4>3, <2>1
    <3>3. CASE j # k /\ at[k] # N
      BY <3>3, <2>1, <2>2, <2>4 DEF OpenIsRegistered
    <3> QED BY <3>1, <3>2, <3>3
  <2>12. TableIsAccepted'
    <3> SUFFICES ASSUME NEW j \in Calls, services'[corr[j]] = j PROVE pc'[j] = "accepted"
      BY <1>1 DEF TableIsAccepted
    <3>1. CASE j = k
      BY <3>1, <1>1, <2>2, <2>4 DEF TableIsAccepted
    <3>2. CASE j # k
      BY <3>2, <2>2, <2>4 DEF TableIsAccepted
    <3> QED BY <3>1, <3>2
  <2> QED BY <2>5, <2>6, <2>7, <2>8, <2>9, <2>10, <2>11, <2>12
<1> QED BY <1>2, <1>3 DEF Bound, Advance, Register

\* Every step of the registry, its calls and its receivers keeps the invariant.
THEOREM NextKeepsInv == Inv /\ [Next]_vars => Inv'
<1> SUFFICES ASSUME Inv, [Next]_vars PROVE Inv'
  OBVIOUS
<1>1. CASE Tick
  BY <1>1, TickKeeps
<1>2. ASSUME NEW k \in Calls, Start(k) \/ Call(k) \/ Stop(k) \/ Interrupt(k) PROVE Inv'
  BY <1>2, StartKeeps, BindKeeps, BoundKeeps, BindFailsKeeps, UndoneKeeps, StoppedKeeps,
     StopKeeps, InterruptKeeps DEF Call
<1>3. ASSUME NEW k \in Calls, NEW r \in Receivers,
             Expire(k, r) \/ Connect(k, r) \/ HandleTcp(k, r) \/ Datagram(k, r)
      PROVE  Inv'
  BY <1>3, ExpireKeeps, TrafficKeeps
<1>4. CASE UNCHANGED vars
  BY <1>4 DEF vars, life, sockets, Inv, TypeOK, HeldListens, HeldByPlace, ListenerIsGoverned,
              Untouched, ReceiptOnce, InTime, OpenIsRegistered, TableIsAccepted
<1> QED BY <1>1, <1>2, <1>3, <1>4 DEF Next

-----------------------------------------------------------------------------
\* The invariant holds in every reachable state.
THEOREM InvHolds == Spec => []Inv
BY InitInv, NextKeepsInv, PTL DEF Spec

\* Every reachable state of the registry and its receivers has its type.
THEOREM LeaseTypeCorrect == Spec => []TypeOK
BY InvHolds, PTL DEF Inv

\* A receiver records one receipt, however many exchanges compete for it.
THEOREM ReceiptCorrect == Spec => []ReceiptOnce
BY InvHolds, PTL DEF Inv

\* Open receivers of an accepted start() are in the table.
THEOREM RegistryCorrect == Spec => []OpenIsRegistered
BY InvHolds, PTL DEF Inv

\* Whoever listens is closed by an expiry, or belongs to a start() that is not
\* over or was cancelled.
THEOREM GovernedCorrect == Spec => []ListenerIsGoverned
BY InvHolds, PTL DEF Inv

\* Neither a refused start() nor a stop() that has returned leaves a listener.
THEOREM ClosedCorrect == Spec => []EndedIsClosed
<1>1. Inv => EndedIsClosed
  BY DEF Inv, ListenerIsGoverned, HeldByPlace, EndedIsClosed
<1> QED BY <1>1, InvHolds, PTL

-----------------------------------------------------------------------------
(* CoverageExchange.                                                       *)

\* Paths on which requests of a profile get through: its candidates.
Passing(p) == {"open", "deaf"} \cup (IF p = "tcp_connect" THEN {"cutting"} ELSE {})

\* Whatever proves something of a path came over it.
ProofTells ==
    \A d \in Pair!Directions, p \in profiles :
       /\ sender[d][p] \in Pair!Positive => path[d][p] \in Passing(p)
       /\ p \in arriving[d] \cup arrived[d] \cup taken[d] => path[d][p] \in {"open", "deaf"}

\* Sends without a connection.
Unmade == {"idle", "connecting"}

\* A send that is refused while its role goes on was refused on the way, or it is late:
\* the receiver of one that is not is open until there is a connection.
RefusalTells ==
    \A d \in Pair!Directions, p \in profiles :
       /\ role[d] = "running" /\ sender[d][p] \in Unmade => Pair!Open(d, p) \/ p \in late[d]
       /\ sender[d][p] = "TCP_REFUSED" => path[d][p] = "refusing" \/ p \in late[d]

\* A bare connection has no exchange.
Connects ==
    \A d \in Pair!Directions, p \in profiles : p = "tcp_connect" => sender[d][p] # "exchanging"

\* What the sender saw acknowledged is recorded, and fetched in time.
AckIsFetched ==
    /\ phase # "failed" => (phase # Pair!Forward => Pair!Over(Pair!Forward))
    /\ \A d \in Pair!Directions : \A p \in Pair!Acked \cap profiles :
          sender[d][p] = Pair!Proof(p) =>
             /\ p \in arrived[d]
             /\ d = Pair!Forward /\ phase \in {"polling", Pair!Reverse, "done"} => p \in taken[d]
             /\ d = Pair!Reverse /\ phase = "done" => p \in taken[d]

\* What the sends and the roles of both directions may be.
Senders ==
    [Pair!Directions -> [profiles -> Pair!Unsent \cup Pair!Evidence \cup {"raised", "abandoned"}]]
Roles == [Pair!Directions -> {"waiting", "running", "completed", "failed"}]

\* More of a direction's profiles are profiles of that direction.
LEMMA Adding ==
    ASSUME NEW D, NEW S, NEW f \in [D -> SUBSET S], NEW d \in D, NEW A \in SUBSET S
    PROVE  [f EXCEPT ![d] = @ \cup A] \in [D -> SUBSET S]
OBVIOUS

\* An assessment has its type from the start.
LEMMA TypeInit == Pair!Init => Pair!TypeOK /\ Connects
BY DEF Pair!Init, Pair!TypeOK, Connects, Pair!Unsent, Pair!Receivers, Pair!Directions,
     Pair!Forward, Pair!Reverse

\* Whatever a send, a receiver or the coordinator does keeps it.
LEMMA TypeStep == Pair!TypeOK /\ Connects /\ [Pair!Next]_(Pair!vars) => Pair!TypeOK'
<1> SUFFICES ASSUME Pair!TypeOK, Connects, [Pair!Next]_(Pair!vars) PROVE Pair!TypeOK'
  OBVIOUS
<1> USE DEF Pair!TypeOK, Pair!Receivers, Senders, Roles
<1>1. ASSUME NEW d \in Pair!Directions, NEW p \in profiles, NEW kind \in Pair!Evidence,
             Pair!Records(d, p, kind)
      PROVE  /\ sender' \in Senders
             /\ role' \in Roles
  BY <1>1 DEF Pair!Records
<1>2. ASSUME NEW d \in Pair!Directions, NEW p \in profiles, Pair!Raises(d, p)
      PROVE  /\ sender' \in Senders
             /\ role' \in Roles
  BY <1>2 DEF Pair!Raises
<1>3. ASSUME NEW d \in Pair!Directions, NEW p \in profiles, NEW to \in Pair!Unsent,
             Pair!Moves(d, p, to)
      PROVE  /\ sender' \in Senders
             /\ role' \in Roles
  BY <1>3 DEF Pair!Moves
<1>4. \A p \in profiles : Pair!Proof(p) \in Pair!Evidence
  BY RequestAssumption DEF Pair!Proof, Pair!Evidence, Pair!Known, Pair!Acked
<1>5. /\ {"TIMEOUT", "TCP_REFUSED", "EXECUTION_ERROR"} \subseteq Pair!Evidence
      /\ {"connecting", "exchanging"} \subseteq Pair!Unsent
  BY DEF Pair!Evidence, Pair!Unsent
<1>6. ASSUME NEW d \in Pair!Directions, NEW p \in profiles, Pair!Send(d, p)
      PROVE  Pair!TypeOK'
  <2>1. CASE Pair!Admit(d, p)
    BY <1>3, <1>5, <1>6, <2>1 DEF Pair!Admit, Pair!ends
  <2>2. CASE Pair!IsRefused(d, p) \/ Pair!ConnectTimesOut(d, p) \/ Pair!TimesOut(d, p)
    BY <1>1, <1>5, <1>6, <2>2 DEF Pair!IsRefused, Pair!ConnectTimesOut, Pair!TimesOut, Pair!ends
  <2>3. CASE Pair!Cut(d, p)
    BY <1>1, <1>2, <1>5, <1>6, <2>3 DEF Pair!Cut, Pair!ends
  <2>4. CASE Pair!Answered(d, p)
    <3>1. p \in profiles \ {"tcp_connect"}
      BY <1>6, <2>4 DEF Pair!Answered, Connects
    <3>2. arriving' = arriving \/ arriving' = [arriving EXCEPT ![d] = @ \cup {p}]
      BY <2>4 DEF Pair!Answered
    <3>3. arriving' \in [Pair!Directions -> SUBSET (profiles \ {"tcp_connect"})]
      <4>1. {p} \in SUBSET (profiles \ {"tcp_connect"})
        BY <3>1
      <4>2. [arriving EXCEPT ![d] = @ \cup {p}]
               \in [Pair!Directions -> SUBSET (profiles \ {"tcp_connect"})]
        BY <1>6, <4>1, Adding
      <4> QED BY <3>2, <4>2
    <3>4. /\ Pair!Records(d, p, Pair!Proof(p))
          /\ UNCHANGED <<profiles, path, phase, windows, arrived, taken, late>>
      BY <2>4 DEF Pair!Answered
    <3> QED BY <1>1, <1>4, <1>6, <3>3, <3>4
  <2>5. CASE Pair!Connected(d, p)
    <3>1. p = "tcp_connect" => Pair!Records(d, p, Pair!Proof(p)) /\ UNCHANGED Pair!ends
      BY <2>5 DEF Pair!Connected
    <3>2. p = "tls_handshake" => /\ Pair!Records(d, p, Pair!Proof(p))
                                 /\ arriving' = [arriving EXCEPT ![d] = @ \cup {p}]
                                 /\ UNCHANGED <<windows, arrived, late>>
      BY <2>5 DEF Pair!Connected
    <3>3. p \notin {"tcp_connect", "tls_handshake"} =>
             Pair!Moves(d, p, "exchanging") /\ UNCHANGED Pair!ends
      BY <2>5 DEF Pair!Connected
    <3>4. UNCHANGED <<profiles, path, phase, taken>>
      BY <2>5 DEF Pair!Connected
    <3>5. CASE p = "tcp_connect"
      BY <1>1, <1>4, <1>6, <3>1, <3>4, <3>5 DEF Pair!ends
    <3>6. CASE p = "tls_handshake"
      <4>1. arriving' \in [Pair!Directions -> SUBSET (profiles \ {"tcp_connect"})]
        <5>1. {p} \in SUBSET (profiles \ {"tcp_connect"})
          BY <1>6, <3>6
        <5>2. [arriving EXCEPT ![d] = @ \cup {p}]
                 \in [Pair!Directions -> SUBSET (profiles \ {"tcp_connect"})]
          BY <1>6, <5>1, Adding
        <5> QED BY <3>2, <3>6, <5>2
      <4> QED BY <1>1, <1>4, <1>6, <3>2, <3>4, <3>6, <4>1
    <3>7. CASE p \notin {"tcp_connect", "tls_handshake"}
      BY <1>3, <1>5, <1>6, <3>3, <3>4, <3>7 DEF Pair!ends
    <3> QED BY <3>5, <3>6, <3>7
  <2> QED BY <1>6, <2>1, <2>2, <2>3, <2>4, <2>5 DEF Pair!Send
<1>7. ASSUME NEW d \in Pair!Directions, NEW p \in profiles,
             Pair!Arrives(d, p) \/ Pair!Recorded(d, p) \/ Pair!Expire(d, p)
      PROVE  Pair!TypeOK'
  <2>1. CASE Pair!Arrives(d, p)
    <3>1. p \in profiles \ {"tcp_connect"}
      BY <1>7, <2>1 DEF Pair!Arrives, Pair!Acked
    <3>2. arrived' \in [Pair!Directions -> SUBSET (profiles \ {"tcp_connect"})]
      BY <1>7, <2>1, <3>1 DEF Pair!Arrives
    <3> QED BY <2>1, <3>2 DEF Pair!Arrives
  <2>2. CASE Pair!Recorded(d, p)
    BY <1>7, <2>2 DEF Pair!Recorded
  <2>3. CASE Pair!Expire(d, p)
    <3>1. Pair!Unconnected(d, p) \in SUBSET profiles
      BY DEF Pair!Unconnected
    <3>2. late' \in [Pair!Directions -> SUBSET profiles]
      BY <1>7, <2>3, <3>1, Adding DEF Pair!Expire
    <3>3. windows' \in [Pair!Directions -> SUBSET (profiles \ {"tcp_connect"})]
      BY <1>7, <2>3 DEF Pair!Expire
    <3> QED BY <2>3, <3>2, <3>3 DEF Pair!Expire
  <2> QED BY <1>7, <2>1, <2>2, <2>3
<1>8. ASSUME NEW d \in Pair!Directions, Pair!DurationOver(d) PROVE Pair!TypeOK'
  BY <1>8 DEF Pair!DurationOver, Pair!ends
<1>9. CASE Pair!Coordinate \/ Pair!GivesUp
  BY <1>9 DEF Pair!Coordinate, Pair!GivesUp, Pair!ReadReceipts, Pair!StopReading,
       Pair!Conclude, Pair!Turns, Pair!ends, Pair!Directions, Pair!Forward, Pair!Reverse
<1> QED BY <1>6, <1>7, <1>8, <1>9 DEF Pair!Next, Pair!vars, Pair!ends

\* A role that goes on ends.
Ends(d) == role[d] = "running" /\ role'[d] \in {"completed", "failed"}
\* The other sends, of both directions, stay as they are.
OthersSame(d, p) ==
    \A e \in Pair!Directions, q \in profiles : e # d \/ q # p => sender'[e][q] = sender[e][q]

\* What a send does to the state, whatever becomes of it.
SendTells(d, p) ==
    /\ UNCHANGED <<profiles, path, phase, windows, arrived, taken, late>>
    /\ sender[d][p] \in Pair!Unsent
    /\ OthersSame(d, p)
    /\ \A e \in Pair!Directions : role'[e] # role[e] => Ends(e)
    /\ \A e \in Pair!Directions, q \in profiles :
          q \in arriving'[e] => q \in arriving[e] \/ path[e][q] = "open"
    /\ \/ sender'[d][p] = "connecting" /\ sender[d][p] = "idle"
       \/ sender'[d][p] = "exchanging" /\ p # "tcp_connect"
       \/ sender'[d][p] \in {"TIMEOUT", "EXECUTION_ERROR", "raised", "abandoned"}
       \/ /\ sender'[d][p] = Pair!Proof(p) /\ role[d] = "running"
          /\ path[d][p] \in Passing(p)
          /\ p \in Pair!Acked => p \in arrived[d]
       \/ /\ sender'[d][p] = "TCP_REFUSED" /\ role[d] = "running"
          /\ sender[d][p] = "connecting"
          /\ path[d][p] = "refusing" \/ ~Pair!Open(d, p)

\* Each of the actions of a send does this.
LEMMA SendEffect ==
    ASSUME Pair!TypeOK, Connects, NEW d \in Pair!Directions, NEW p \in profiles, Pair!Send(d, p)
    PROVE  SendTells(d, p)
<1>1. ASSUME NEW kind, Pair!Records(d, p, kind)
      PROVE  /\ sender'[d][p] = IF role[d] = "running" THEN kind ELSE "abandoned"
             /\ OthersSame(d, p)
             /\ \A e \in Pair!Directions : role'[e] # role[e] => Ends(e)
  BY <1>1 DEF Pair!Records, Pair!TypeOK, Ends, OthersSame
<1>2. ASSUME Pair!Raises(d, p)
      PROVE  /\ sender'[d][p] = "raised"
             /\ OthersSame(d, p)
             /\ \A e \in Pair!Directions : role'[e] # role[e] => Ends(e)
  BY <1>2 DEF Pair!Raises, Pair!TypeOK, Ends, OthersSame
<1>3. ASSUME NEW to, Pair!Moves(d, p, to)
      PROVE  /\ sender'[d][p] = to /\ role' = role
             /\ OthersSame(d, p)
  BY <1>3 DEF Pair!Moves, Pair!TypeOK, OthersSame
<1>4. CASE Pair!Admit(d, p)
  BY <1>3, <1>4 DEF Pair!Admit, Pair!ends, SendTells, Pair!Udp, Pair!Unsent
<1>5. CASE Pair!IsRefused(d, p)
  BY <1>1, <1>5 DEF Pair!IsRefused, Pair!ends, SendTells, Pair!Unsent
<1>6. CASE Pair!ConnectTimesOut(d, p) \/ Pair!TimesOut(d, p)
  BY <1>1, <1>6 DEF Pair!ConnectTimesOut, Pair!TimesOut, Pair!ends, SendTells, Pair!Unsent
<1>7. CASE Pair!Cut(d, p)
  BY <1>1, <1>2, <1>7 DEF Pair!Cut, Pair!ends, SendTells, Pair!Unsent
<1>8. CASE Pair!Answered(d, p)
  <2>1. /\ Pair!Records(d, p, Pair!Proof(p))
        /\ UNCHANGED <<profiles, path, phase, windows, arrived, taken, late>>
        /\ sender[d][p] = "exchanging" /\ path[d][p] = "open"
        /\ (p \in Pair!Acked => p \in arrived[d])
        /\ (arriving' = arriving \/ arriving' = [arriving EXCEPT ![d] = @ \cup {p}])
    BY <1>8 DEF Pair!Answered
  <2> QED BY <1>1, <2>1 DEF SendTells, Pair!Unsent, Passing, Pair!TypeOK
<1>9. CASE Pair!Connected(d, p)
  <2>1. /\ UNCHANGED <<profiles, path, phase, taken>>
        /\ sender[d][p] = "connecting"
        /\ path[d][p] \in {"cutting", "open", "deaf"}
    BY <1>9 DEF Pair!Connected
  <2>2. CASE p = "tcp_connect"
    <3>1. Pair!Records(d, p, Pair!Proof(p)) /\ UNCHANGED Pair!ends
      BY <1>9, <2>2 DEF Pair!Connected
    <3> QED BY <1>1, <2>1, <2>2, <3>1 DEF Pair!ends, SendTells, Pair!Unsent, Passing, Pair!Acked
  <2>3. CASE p = "tls_handshake"
    <3>1. /\ Pair!Records(d, p, Pair!Proof(p)) /\ path[d][p] = "open"
          /\ UNCHANGED <<windows, arrived, late>>
          /\ arriving' = [arriving EXCEPT ![d] = @ \cup {p}]
      BY <1>9, <2>3 DEF Pair!Connected
    <3> QED BY <1>1, <2>1, <2>3, <3>1 DEF SendTells, Pair!Unsent, Passing, Pair!Acked,
         Pair!TypeOK
  <2>4. CASE p \notin {"tcp_connect", "tls_handshake"}
    <3>1. Pair!Moves(d, p, "exchanging") /\ UNCHANGED Pair!ends
      BY <1>9, <2>4 DEF Pair!Connected
    <3> QED BY <1>3, <2>1, <2>4, <3>1 DEF Pair!ends, SendTells, Pair!Unsent
  <2> QED BY <2>2, <2>3, <2>4
<1> QED BY <1>4, <1>5, <1>6, <1>7, <1>8, <1>9 DEF Pair!Send

\* The invariant of an assessment, whatever the windows.
AssessmentInv == Pair!TypeOK /\ Connects /\ ProofTells /\ AckIsFetched

\* A send keeps what is known of the paths and of the receipts.
LEMMA SendKeeps ==
    ASSUME AssessmentInv, NEW d \in Pair!Directions, NEW p \in profiles,
           Pair!Working(d), Pair!Send(d, p)
    PROVE  Connects' /\ ProofTells' /\ AckIsFetched'
<1>1. SendTells(d, p)
  BY SendEffect DEF AssessmentInv
<1>2. {"connecting", "exchanging", "TIMEOUT", "EXECUTION_ERROR", "raised", "abandoned",
       "TCP_REFUSED"}
         \cap {Pair!Proof(q) : q \in profiles} = {}
  BY RequestAssumption DEF AssessmentInv, Pair!TypeOK, Pair!Proof, Pair!Known, Pair!Acked
<1>3. {"connecting", "exchanging", "TIMEOUT", "EXECUTION_ERROR", "raised", "abandoned",
       "TCP_REFUSED"}
         \cap Pair!Positive = {}
  BY DEF Pair!Positive, Pair!Proof, Pair!Known, Pair!Acked
<1>4. Connects'
  BY <1>1, <1>2 DEF AssessmentInv, Connects, SendTells, Ends, OthersSame
<1>5. ProofTells'
  BY <1>1, <1>3 DEF AssessmentInv, ProofTells, SendTells, Ends, OthersSame
<1>6. AckIsFetched'
  BY <1>1, <1>2 DEF AssessmentInv, AckIsFetched, SendTells, Ends, OthersSame, Pair!Working,
       Pair!Over, Pair!Forward, Pair!Reverse, Pair!Directions
<1> QED BY <1>4, <1>5, <1>6

\* Nothing is known of any path in the beginning.
LEMMA AssessmentInit == Pair!Init => AssessmentInv
<1> SUFFICES ASSUME Pair!Init PROVE AssessmentInv
  OBVIOUS
<1>1. "idle" \notin Pair!Positive /\ \A p \in Pair!Acked : Pair!Proof(p) # "idle"
  BY DEF Pair!Positive, Pair!Proof, Pair!Known, Pair!Acked
<1> QED BY <1>1, TypeInit DEF Pair!Init, AssessmentInv, ProofTells, AckIsFetched,
     Pair!Directions, Pair!Forward, Pair!Reverse

\* So does everything else.
LEMMA OthersKeep ==
    ASSUME AssessmentInv, [Pair!Next]_(Pair!vars),
           ~ \E d \in Pair!Directions : Pair!Working(d) /\ \E p \in profiles : Pair!Send(d, p)
    PROVE  Connects' /\ ProofTells' /\ AckIsFetched'
<1> USE DEF AssessmentInv, Connects, ProofTells, AckIsFetched, Pair!TypeOK, Pair!Receivers
<1>1. ASSUME NEW d \in Pair!Directions, NEW p \in profiles,
             Pair!Arrives(d, p) \/ Pair!Recorded(d, p) \/ Pair!Expire(d, p)
      PROVE  Connects' /\ ProofTells' /\ AckIsFetched'
  <2>1. CASE Pair!Arrives(d, p)
    BY <1>1, <2>1 DEF Pair!Arrives, Pair!Over
  <2>2. CASE Pair!Recorded(d, p)
    BY <1>1, <2>2 DEF Pair!Recorded, Pair!Over
  <2>3. CASE Pair!Expire(d, p)
    BY <1>1, <2>3 DEF Pair!Expire, Pair!Over
  <2> QED BY <1>1, <2>1, <2>2, <2>3
<1>2. ASSUME NEW d \in Pair!Directions, Pair!DurationOver(d)
      PROVE  Connects' /\ ProofTells' /\ AckIsFetched'
  <2>1. "abandoned" \notin Pair!Positive /\ \A p \in Pair!Acked : Pair!Proof(p) # "abandoned"
    BY DEF Pair!Positive, Pair!Proof, Pair!Known, Pair!Acked
  <2>2. \A e \in Pair!Directions, p \in profiles : sender'[e][p] \in {sender[e][p], "abandoned"}
    BY <1>2 DEF Pair!DurationOver
  <2>3. Connects' /\ ProofTells'
    BY <1>2, <2>1, <2>2 DEF Pair!DurationOver, Pair!ends
  <2>4. AckIsFetched'
    BY <1>2, <2>1, <2>2 DEF Pair!DurationOver, Pair!ends, Pair!Over
  <2> QED BY <2>3, <2>4
<1>3. CASE Pair!ReadReceipts
  BY <1>3 DEF Pair!ReadReceipts, Pair!Turns, Pair!Over, Pair!Directions, Pair!Forward,
       Pair!Reverse
<1>4. CASE Pair!StopReading
  BY <1>4 DEF Pair!StopReading, Pair!Turns, Pair!Over, Pair!Directions, Pair!Forward,
       Pair!Reverse
<1>5. CASE Pair!Conclude
  BY <1>5 DEF Pair!Conclude, Pair!ends, Pair!Over, Pair!Directions, Pair!Forward, Pair!Reverse
<1>6. CASE Pair!GivesUp
  BY <1>6 DEF Pair!GivesUp, Pair!ends, Pair!Over, Pair!Forward, Pair!Reverse
<1>7. CASE UNCHANGED Pair!vars
  BY <1>7 DEF Pair!vars, Pair!ends, Pair!Over
<1> QED BY <1>1, <1>2, <1>3, <1>4, <1>5, <1>6, <1>7 DEF Pair!Next, Pair!Coordinate

\* So it holds of every behaviour of an assessment.
THEOREM AssessmentHolds == Pair!Spec => []AssessmentInv
<1>1. AssessmentInv /\ [Pair!Next]_(Pair!vars) => AssessmentInv'
  <2> SUFFICES ASSUME AssessmentInv, [Pair!Next]_(Pair!vars) PROVE AssessmentInv'
    OBVIOUS
  <2>1. CASE \E d \in Pair!Directions : Pair!Working(d) /\ \E p \in profiles : Pair!Send(d, p)
    BY <2>1, SendKeeps, TypeStep DEF AssessmentInv
  <2> QED BY <2>1, OthersKeep, TypeStep DEF AssessmentInv
<1> QED BY <1>1, AssessmentInit, PTL DEF Pair!Spec

\* A role that goes on sends to receivers that are open, or is late for them.
LEMMA RefusalStep ==
    ASSUME AssessmentInv, RefusalTells, [Pair!Next]_(Pair!vars)
    PROVE  RefusalTells'
<1> USE DEF AssessmentInv, RefusalTells, Pair!TypeOK, Pair!Receivers, Unmade
<1>1. "TCP_REFUSED" \notin Unmade \cup {"abandoned"}
  OBVIOUS
<1>2. ASSUME NEW d \in Pair!Directions, NEW p \in profiles, Pair!Send(d, p)
      PROVE  RefusalTells'
  <2>1. SendTells(d, p)
    BY <1>2, SendEffect
  <2>2. Pair!Proof(p) \notin Unmade \cup {"TCP_REFUSED"}
    BY RequestAssumption DEF Pair!Proof, Pair!Known, Pair!Acked
  <2> QED BY <2>1, <2>2 DEF SendTells, Ends, OthersSame, Pair!Open, Pair!ReceiverOf
<1>3. ASSUME NEW d \in Pair!Directions, NEW p \in profiles,
             Pair!Arrives(d, p) \/ Pair!Recorded(d, p)
      PROVE  RefusalTells'
  BY <1>3 DEF Pair!Arrives, Pair!Recorded, Pair!Open, Pair!ReceiverOf
<1>4. ASSUME NEW d \in Pair!Directions, NEW r \in profiles, Pair!Expire(d, r) PROVE RefusalTells'
  BY <1>4 DEF Pair!Expire, Pair!Unconnected, Pair!Open
<1>5. ASSUME NEW d \in Pair!Directions, Pair!DurationOver(d) PROVE RefusalTells'
  <2>1. \A e \in Pair!Directions, p \in profiles :
            sender'[e][p] = sender[e][p] \/ (e = d /\ sender'[e][p] = "abandoned")
    BY <1>5 DEF Pair!DurationOver
  <2> QED BY <1>1, <1>5, <2>1 DEF Pair!DurationOver, Pair!ends, Pair!Open
<1>6. ASSUME Pair!Turns, UNCHANGED <<profiles, path, sender, late>> PROVE RefusalTells'
  <2>1. \A p \in profiles : Pair!ReceiverOf(p) \in profiles \ {"tcp_connect"}
    BY RequestAssumption DEF Pair!ReceiverOf
  <2>2. \A p \in profiles : Pair!Open(Pair!Reverse, p)'
    BY <1>6, <2>1 DEF Pair!Turns, Pair!Open, Pair!Directions, Pair!Forward, Pair!Reverse
  <2>3. \A p \in profiles : Pair!Open(Pair!Forward, p)' = Pair!Open(Pair!Forward, p)
    BY <1>6 DEF Pair!Turns, Pair!Open, Pair!Directions, Pair!Forward, Pair!Reverse
  <2>4. role'[Pair!Forward] = role[Pair!Forward]
    BY <1>6 DEF Pair!Turns, Pair!Directions, Pair!Forward, Pair!Reverse
  <2> QED BY <1>6, <2>2, <2>3, <2>4 DEF Pair!Directions
<1>7. CASE Pair!ReadReceipts \/ Pair!StopReading
  BY <1>6, <1>7 DEF Pair!ReadReceipts, Pair!StopReading, Pair!Open
<1>8. CASE Pair!Conclude \/ Pair!GivesUp \/ UNCHANGED Pair!vars
  BY <1>8 DEF Pair!Conclude, Pair!GivesUp, Pair!vars, Pair!ends, Pair!Open
<1> QED BY <1>2, <1>3, <1>4, <1>5, <1>7, <1>8 DEF Pair!Next, Pair!Coordinate

\* The first direction begins with its receivers open.
LEMMA RefusalInit == Pair!Init => RefusalTells
<1> SUFFICES ASSUME Pair!Init PROVE RefusalTells
  OBVIOUS
<1>1. \A p \in profiles : Pair!ReceiverOf(p) \in Pair!Receivers
  BY RequestAssumption DEF Pair!Init, Pair!ReceiverOf, Pair!Receivers
<1> QED BY <1>1 DEF Pair!Init, RefusalTells, Pair!Open, Pair!Directions, Pair!Forward,
     Pair!Reverse

\* coverage_matrix calls a path a candidate only when it is, and negative only when it
\* refuses or a send was late.
THEOREM RowsCorrect == Pair!Spec => []Pair!RowsTellThePath
<1>1. AssessmentInv /\ RefusalTells => Pair!RowsTellThePath
  <2> SUFFICES ASSUME AssessmentInv, RefusalTells,
                      NEW d \in Pair!Directions, NEW p \in profiles
               PROVE  /\ Pair!Row(d, p) = "candidate_carrier" => path[d][p] \in Passing(p)
                      /\ Pair!Row(d, p) = "direct_negative" =>
                            path[d][p] = "refusing" \/ p \in late[d]
    BY DEF Pair!RowsTellThePath, Passing
  <2>1. Pair!Row(d, p) = "candidate_carrier" => sender[d][p] \in Pair!Positive \/ p \in taken[d]
    BY DEF Pair!Row, Pair!Seen, Pair!Positive
  <2>2. Pair!Row(d, p) = "direct_negative" => sender[d][p] = "TCP_REFUSED"
    BY DEF Pair!Row, Pair!Seen
  <2> QED BY <2>1, <2>2 DEF AssessmentInv, ProofTells, RefusalTells, Passing
<1> QED BY <1>1, AssessmentHolds, RefusalInit, RefusalStep, PTL DEF Pair!Spec

\* The receipts of all that was acknowledged are fetched.
THEOREM AckCorrect == Pair!Spec => []Pair!AckHasReceipt
<1>1. AssessmentInv => Pair!AckHasReceipt
  BY DEF AssessmentInv, AckIsFetched, Pair!AckHasReceipt, Pair!Directions
<1> QED BY <1>1, AssessmentHolds, PTL

-----------------------------------------------------------------------------
(* The composition.                                                        *)

\* A behaviour of the composition is one of each of its parts.
THEOREM HalvesBehave == CoverageSpec => Spec /\ Pair!Spec
<1> USE DEF CoverageNext, LeaseStep, AssessmentStep, allVars
<1>1. CoverageInit => Init /\ Pair!Init
  BY DEF CoverageInit
<1>2. [CoverageNext]_allVars => [Next]_vars
  BY DEF leaseVars, vars, life, sockets
<1>3. [CoverageNext]_allVars => [Pair!Next]_(Pair!vars)
  BY DEF assessmentVars, Pair!vars, Pair!ends
<1> QED BY <1>1, <1>2, <1>3, PTL DEF CoverageSpec, Spec, Pair!Spec

\* In the composition, too, open receivers of an accepted start() are in the table.
THEOREM OpenRegistered == CoverageSpec => []OpenIsRegistered
BY HalvesBehave, RegistryCorrect, PTL

\* Nor does a start() that was refused or a stop() that returned leave a listener.
THEOREM EndedClosed == CoverageSpec => []EndedIsClosed
BY HalvesBehave, ClosedCorrect, PTL

\* A row of the matrix is no false all-clear, and a false alarm only of a send whose
\* receiver's window had closed before it was connected (coverage_matrix).
THEOREM RowsTell == CoverageSpec => []RowsTellThePath
<1>1. Pair!RowsTellThePath => RowsTellThePath
  BY DEF RowsTellThePath
<1> QED BY <1>1, HalvesBehave, RowsCorrect, PTL

\* The matrix of an assessment that is done has the receipt of every acknowledgement.
THEOREM AckFetched == CoverageSpec => []AckHasReceipt
<1>1. Pair!AckHasReceipt => AckHasReceipt
  BY DEF AckHasReceipt
<1> QED BY <1>1, HalvesBehave, AckCorrect, PTL
=============================================================================
