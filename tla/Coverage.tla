------------------------------- MODULE Coverage -------------------------------
(***************************************************************************)
(* The receivers of a coverage lease (CoverageLease) and an assessment that *)
(* is made of such leases (CoverageExchange), side by side: a behaviour is  *)
(* one of one of them, and the other stays as it begins.                    *)
(***************************************************************************)
EXTENDS CoverageLease

CONSTANTS
    Requests, Mixed, Posix, \* of CoverageExchange
    Parked,         \* what an assessment that stays as it begins requests
    ParkedCorrs     \* the correlations of the calls of a lease that does

VARIABLES
    part,   \* "lease" or "assessment"
    profiles, path, phase, role, sender, windows, arriving, arrived, taken, late

Pair == INSTANCE CoverageExchange WITH receipts <- arrived

\* tcp_connect is admitted on the port of the tcp_tagged receiver only, which every
\* lease of the configuration opens.
ASSUME RequestAssumption ==
    \A S \in Requests :
       S \subseteq Pair!Known /\ ("tcp_connect" \in S => "tcp_tagged" \in S)

leaseVars == <<waits, prompt, now, pc, at, corr, lease, port, own, reading, receipts, services>>
assessmentVars ==
    <<profiles, path, phase, role, sender, windows, arriving, arrived, taken, late>>
allVars == <<part, leaseVars, assessmentVars>>

CoverageInit ==
    /\ part \in {"lease", "assessment"}
    /\ Init /\ Pair!Init
    /\ part = "lease" =>
          profiles = Parked /\ \A d \in Pair!Directions, p \in profiles : path[d][p] = "open"
    /\ part = "assessment" => waits /\ prompt /\ corr = ParkedCorrs

LeaseStep == part = "lease" /\ Next /\ UNCHANGED <<part, assessmentVars>>
AssessmentStep == part = "assessment" /\ Pair!Next /\ UNCHANGED <<part, leaseVars>>

CoverageNext == LeaseStep \/ AssessmentStep

\* Whichever goes on is as fair as its own module says.
OfLease(A) == part = "lease" /\ A
LeaseFairness ==
    /\ WF_leaseVars(OfLease(Tick))
    /\ \A k \in Calls :
          /\ WF_leaseVars(OfLease(Call(k)))
          /\ \A r \in Receivers :
                WF_leaseVars(OfLease(Expire(k, r))) /\ WF_leaseVars(OfLease(HandleTcp(k, r)))

OfAssessment(A) == part = "assessment" /\ A
AssessmentFairness ==
    /\ WF_assessmentVars(OfAssessment(Pair!Coordinate))
    /\ \A d \in Pair!Directions :
          /\ WF_assessmentVars(OfAssessment(Pair!Deadline(d)))
          /\ \A p \in Pair!Known :
                /\ WF_assessmentVars(OfAssessment(Pair!Timer(d, p)))
                /\ WF_assessmentVars(OfAssessment(Pair!Lapse(d, p)))

CoverageSpec ==
    CoverageInit /\ [][CoverageNext]_allVars /\ LeaseFairness /\ AssessmentFairness

-----------------------------------------------------------------------------
\* CoverageExchange: rows tell of the path, whatever timers, losses and failures of
\* other profiles came between, and a negative one of it or of a window that closed early.
RowsTellThePath == Pair!RowsTellThePath

\* CoverageExchange: what the sender saw acknowledged is among the fetched receipts.
AckHasReceipt == Pair!AckHasReceipt

\* No receiver outlives its lease, and an assessment ends although its connections
\* have no timer.
CoverageEnds == ListenersEnd /\ (part = "assessment" => Pair!AssessmentEnds)
=============================================================================
