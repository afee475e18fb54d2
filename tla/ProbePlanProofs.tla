---------------------------- MODULE ProbePlanProofs ----------------------------
(***************************************************************************)
(* What ProbePlan keeps for every network, scope, answer of DNS and set of *)
(* interfaces.  A plan is only ever made of a preview that recompiles to   *)
(* itself, and recompiling takes nothing from outside the preview, so that *)
(* it does so for ever; and what recompiles has each of its addresses      *)
(* authorized by one of the two compilers.  What waits for its socket has  *)
(* passed the check of its own admission.                                  *)
(***************************************************************************)
EXTENDS ProbePlan, TLAPS

\* A preview is a record, whatever it says, made at some time.
IsRecord(p) == p = [f \in DOMAIN p |-> p[f]] /\ "created" \in DOMAIN p /\ p.created \in Nat

Validated(p) ==
    {r.name : r \in p.resolutions} = Snapshots(p.steps) /\ Recompiles(p)

Seen(p) == \E q \in shown : [q EXCEPT !.created = p.created] = p

IsPlan(q) ==
    q = [preview |-> q.preview, authorized |-> q.authorized, submitted |-> q.submitted]

Recorded == preview # None => IsRecord(preview)

Inv ==
    /\ now \in Nat
    /\ Recorded
    /\ plan # None =>
          /\ IsPlan(plan)
          /\ plan.authorized \in Nat /\ plan.authorized <= now
          /\ plan.preview.created \in Nat /\ plan.preview.created <= plan.authorized
          /\ Validated(plan.preview)
          /\ plan.preview.required # {} => Seen(plan.preview)

\* Nothing is previewed or authorized at first.
THEOREM InitInv == Init => Inv
BY DEF Init, Inv, Recorded

\* A preview of targets and ports is the record of what it shows.
LEMMA CartesianIsRecord ==
    ASSUME NEW r, NEW answer, NEW t \in Nat
    PROVE  IsRecord(CartesianPreview(r, answer, t))
BY DEF CartesianPreview, IsRecord

\* A preview of a step list is the record of what it shows.
LEMMA SparseIsRecord ==
    ASSUME NEW profile, NEW steps, NEW scope, NEW t \in Nat
    PROVE  IsRecord(SparsePreview(profile, steps, scope, t))
BY DEF SparsePreview, IsRecord

\* Equal digests mean equal work.
LEMMA DigestBinds ==
    ASSUME NEW p, NEW q, IsRecord(p), Digest(p) = Digest(q)
    PROVE  [q EXCEPT !.created = p.created] = p
<1>1. Digest(p) = [f \in DOMAIN p |-> IF f = "created" THEN 0 ELSE p[f]]
  BY DEF Digest
<1>2. Digest(q) = [f \in DOMAIN q |-> IF f = "created" THEN 0 ELSE q[f]]
  BY DEF Digest
<1>3. DOMAIN p = DOMAIN q
  BY <1>1, <1>2
<1>4. \A f \in DOMAIN p : f # "created" => p[f] = q[f]
  BY <1>1, <1>2, <1>3
<1>5. [q EXCEPT !.created = p.created]
         = [f \in DOMAIN q |-> IF f = "created" THEN p.created ELSE q[f]]
  OBVIOUS
<1>6. [f \in DOMAIN q |-> IF f = "created" THEN p.created ELSE q[f]] = [f \in DOMAIN p |-> p[f]]
  BY <1>3, <1>4 DEF IsRecord
<1> QED BY <1>5, <1>6 DEF IsRecord

\* Phrases the operator has seen are phrases of the same work.
LEMMA PhrasesBind ==
    ASSUME NEW p, IsRecord(p), p.required # {},
           Phrases(p) \subseteq UNION {Phrases(q) : q \in shown}
    PROVE  Seen(p)
<1>1. PICK kind \in p.required : TRUE
  OBVIOUS
<1>2. <<kind, Digest(p)>> \in UNION {Phrases(q) : q \in shown}
  BY <1>1 DEF Phrases
<1>3. PICK q \in shown : <<kind, Digest(p)>> \in Phrases(q)
  BY <1>2
<1>4. Digest(p) = Digest(q)
  BY <1>3 DEF Phrases
<1> QED BY <1>3, <1>4, DigestBinds DEF Seen

\* What the invariant says of a plan survives all that leaves the plan alone.
LEMMA PlanKept ==
    ASSUME Inv, now' \in Nat, now <= now', shown \subseteq shown',
           Recorded',
           plan' = plan \/ (plan # None /\ plan' = [plan EXCEPT !.submitted = TRUE])
    PROVE  Inv'
<1>1. CASE plan = None /\ plan' = plan
  BY <1>1 DEF Inv
<1>2. CASE plan # None
  <2>1. plan'.preview = plan.preview /\ plan'.authorized = plan.authorized /\ IsPlan(plan')
    BY <1>2 DEF Inv, IsPlan
  <2>2. plan.preview.required # {} => Seen(plan.preview)'
    BY <1>2, <2>1 DEF Inv, Seen
  <2>3. plan'.authorized \in Nat /\ plan'.authorized <= now'
    BY <1>2, <2>1 DEF Inv
  <2>4. plan'.preview.created <= plan'.authorized /\ Validated(plan'.preview)
    BY <1>2, <2>1 DEF Inv
  <2> QED BY <2>1, <2>2, <2>3, <2>4 DEF Inv, Validated, Seen, IsPlan
<1> QED BY <1>1, <1>2

\* A step that leaves the plan alone keeps the invariant.
LEMMA PlanUntouched ==
    ASSUME Inv, UNCHANGED <<now, shown, plan>>, Recorded'
    PROVE  Inv'
<1>1. now' \in Nat /\ now <= now' /\ shown \subseteq shown' /\ plan' = plan
  BY DEF Inv
<1> QED BY <1>1, PlanKept

\* Every step of the planner keeps the invariant.
THEOREM NextInv == Inv /\ [Next]_vars => Inv'
<1> SUFFICES ASSUME Inv, [Next]_vars PROVE Inv'
  OBVIOUS
<1>now. now \in Nat
  BY DEF Inv
<1>kept. Recorded
  BY DEF Inv
<1>1. CASE Tick
  <2>1. now' = now + 1 /\ preview' = preview /\ shown' = shown /\ plan' = plan
    BY <1>1 DEF Tick
  <2>2. now' \in Nat /\ now <= now' /\ shown \subseteq shown'
    BY <2>1, <1>now
  <2>3. Recorded'
    BY <2>1, <1>kept DEF Recorded
  <2> QED BY <2>1, <2>2, <2>3, PlanKept
<1>2. CASE Rotate
  BY <1>2, <1>now, <1>kept, PlanUntouched DEF Rotate, Recorded
<1>3. CASE PreviewPlan
  <2>1. Recorded'
    BY <1>3, <1>now, CartesianIsRecord DEF PreviewPlan, Compiled, Recorded
  <2>2. UNCHANGED <<now, shown, plan>>
    BY <1>3 DEF PreviewPlan, Compiled
  <2> QED BY <1>now, <2>1, <2>2, PlanUntouched
<1>4. CASE PreviewProbePlan
  <2>1. Recorded'
    BY <1>4, <1>now, SparseIsRecord DEF PreviewProbePlan, Compiled, Recorded
  <2>2. UNCHANGED <<now, shown, plan>>
    BY <1>4 DEF PreviewProbePlan, Compiled
  <2> QED BY <1>now, <2>1, <2>2, PlanUntouched
<1>5. CASE Show
  <2>1. UNCHANGED <<now, preview, plan>> /\ shown \subseteq shown'
    BY <1>5 DEF Show
  <2>2. now <= now' /\ now' \in Nat /\ Recorded'
    BY <2>1, <1>now, <1>kept DEF Recorded
  <2> QED BY <2>1, <2>2, PlanKept
<1>6. CASE AuthorizePlan
  <2>1. plan' = [preview |-> preview, authorized |-> now, submitted |-> FALSE]
    BY <1>6 DEF AuthorizePlan
  <2>2. plan'.preview = preview /\ plan'.authorized = now /\ IsPlan(plan')
    BY <2>1 DEF IsPlan
  <2>3. Validated(preview) /\ preview.created <= now
    BY <1>6 DEF AuthorizePlan, ValidPreview, Validated
  <2>4. preview.required # {} => Seen(preview)
    BY <1>6, PhrasesBind DEF AuthorizePlan, Inv, Recorded
  <2>5. UNCHANGED <<now, preview, shown>>
    BY <1>6 DEF AuthorizePlan
  <2>6. Recorded'
    BY <1>kept, <2>5 DEF Recorded
  <2>7. preview.created \in Nat
    BY <1>6, <1>kept DEF AuthorizePlan, Recorded, IsRecord
  <2> QED BY <1>now, <2>2, <2>3, <2>4, <2>5, <2>6, <2>7 DEF Inv, Validated, Seen, IsPlan
<1>7. CASE Submit
  <2>1. UNCHANGED <<now, preview, shown>> /\ plan # None
           /\ plan' = [plan EXCEPT !.submitted = TRUE]
    BY <1>7 DEF Submit
  <2>2. now <= now' /\ now' \in Nat /\ shown \subseteq shown'
           /\ Recorded'
    BY <2>1, <1>now, <1>kept DEF Recorded
  <2> QED BY <2>1, <2>2, PlanKept
<1>8. CASE Admit \/ Resolved \/ Unadmitted \/ Open
  BY <1>8, <1>now, <1>kept, PlanUntouched DEF Admit, Resolved, Unadmitted, Open, Recorded
<1>9. CASE UNCHANGED vars
  BY <1>9, <1>now, <1>kept, PlanUntouched DEF vars, Recorded
<1> QED BY <1>1, <1>2, <1>3, <1>4, <1>5, <1>6, <1>7, <1>8, <1>9 DEF Next

\* The invariant holds in every reachable state.
THEOREM InvCorrect == Spec => []Inv
BY InitInv, NextInv, PTL DEF Spec

\* What was authorized stays valid while its scope lasts: DNS, the clock and
\* what else is compiled take nothing from it.
THEOREM ValidCorrect == Spec => []AuthorizedStaysValid
<1>1. Inv => AuthorizedStaysValid
  <2> SUFFICES ASSUME Inv, plan # None, Current(plan.preview.scope, now)
               PROVE  ValidPlan(plan, now)
    BY DEF AuthorizedStaysValid
  <2>1. plan.preview.created <= now
    BY DEF Inv
  <2> QED BY <2>1 DEF Inv, Validated, ValidPlan, ValidPreview
<1> QED BY <1>1, InvCorrect, PTL

\* A plan that needs phrases does no other work than was shown with them.
THEOREM ConfirmedCorrect == Spec => []ConfirmedIsShown
<1>1. Inv => ConfirmedIsShown
  BY DEF Inv, ConfirmedIsShown, Seen
<1> QED BY <1>1, InvCorrect, PTL

InScope(A, g) == \A a \in A : a \in Loopback \/ PermitsAddress(g, a)

\* A target without a name is authorized by what its addresses are.
LEMMA LiteralInScope ==
    ASSUME NEW targets, NEW x \in targets, NEW g, NEW t,
           Authorized(targets, g, t), x.name = NoName
    PROVE  InScope(x.addresses, g)
BY DEF Authorized, IsLoopback, InScope, PermitsAddress

\* preview_probe_plan authorizes the address of each step.
LEMMA SparseInScope ==
    ASSUME NEW profile, NEW steps, NEW g, NEW t, SparseFits(profile, steps, g, t), NEW s \in steps
    PROVE  InScope(s.place.at, g)
<1>1. CASE s.place.at = {}
  BY <1>1 DEF InScope
<1>2. CASE s.place.at # {}
  <2>1. Authorized({Literal(s.place.at)}, g, t)
    BY <1>2 DEF SparseFits
  <2>2. Literal(s.place.at).name = NoName /\ Literal(s.place.at).addresses = s.place.at
    BY DEF Literal
  <2> QED BY <2>1, <2>2, LiteralInScope
<1> QED BY <1>1, <1>2

\* preview_plan authorizes its targets, and every address a name answers with.
LEMMA CartesianInScope ==
    ASSUME NEW r, NEW answer, NEW t, CartesianFits(r, answer, t),
           NEW s \in CartesianSteps(r, answer)
    PROVE  InScope(s.place.at, r.scope)
<1>1. PICK x \in r.targets : s.place \in Concrete(x, answer)
  BY DEF CartesianSteps, Step
<1>2. CASE x.name = NoName
  <2>1. PICK a \in x.addresses : s.place = At(x, a)
    BY <1>1, <1>2 DEF Concrete
  <2>2. InScope(x.addresses, r.scope)
    BY <1>2, LiteralInScope DEF CartesianFits
  <2> QED BY <2>1, <2>2 DEF At, InScope
<1>3. CASE x.name # NoName
  <2>1. PICK a \in answer[x.name] : s.place = InSlot(x.name, a, Slot(answer[x.name], a))
    BY <1>1, <1>3 DEF Concrete
  <2>2. Resolves(x.name, answer[x.name], r.scope)
    BY <1>3 DEF CartesianFits, NamesOf
  <2> QED BY <2>1, <2>2 DEF InSlot, InScope, Resolves
<1> QED BY <1>2, <1>3

\* So each step of a plan that recompiles lies inside the scope.
LEMMA RecompiledInScope ==
    ASSUME NEW p, Recompiles(p), NEW s \in p.steps
    PROVE  InScope(s.place.at, p.scope)
<1>1. CASE IsSparse(p)
  BY <1>1, SparseInScope DEF Recompiles
<1>2. CASE ~IsSparse(p)
  <2> DEFINE r == RequestOf(p)
  <2>1. CartesianFits(r, SnapshotAnswers(p), p.created)
           /\ CartesianPreview(r, SnapshotAnswers(p), p.created) = p
    BY <1>2 DEF Recompiles
  <2>2. r.scope = p.scope
    BY DEF RequestOf
  <2>3. CartesianPreview(r, SnapshotAnswers(p), p.created).steps
           = CartesianSteps(r, SnapshotAnswers(p))
    BY DEF CartesianPreview
  <2>4. p.steps = CartesianSteps(r, SnapshotAnswers(p))
    BY <2>1, <2>3
  <2> HIDE DEF r
  <2> QED BY <2>1, <2>2, <2>4, CartesianInScope
<1> QED BY <1>1, <1>2

-----------------------------------------------------------------------------
(* The admission: what waits for its slot has been checked, with its own    *)
(* instant and its own answer.                                             *)

\* What preflight_step has found of a step: the scope at the instant, and the answer.
Checked(a) ==
    /\ Current(plan.preview.scope, a.since)
    /\ a.step.place.name # NoName =>
          /\ a.step.place.at \subseteq a.answer
          /\ Resolves(a.step.place.name, a.answer, plan.preview.scope)

IsAsked(a) == a = [step |-> a.step, since |-> a.since, at |-> a.at, answer |-> a.answer]

AskedChecked ==
    asked # None =>
       /\ plan # None /\ plan.submitted
       /\ IsAsked(asked) /\ asked.step \in plan.preview.steps
       /\ asked.since \in Nat /\ asked.since <= now
       /\ asked.at = "waiting" => Checked(asked)

\* A check that passes has found that.
LEMMA PreflightFinds ==
    ASSUME NEW a, Preflight(plan.preview, a.step, dns, a.since),
           a.step.place.name # NoName => a.answer = dns[a.step.place.name]
    PROVE  Checked(a)
BY DEF Preflight, Rechecks, Checked

\* It stays so while the clock goes on.
LEMMA AskedKept ==
    ASSUME AskedChecked, UNCHANGED <<asked, plan>>, now \in Nat, now' \in Nat, now <= now'
    PROVE  AskedChecked'
BY DEF AskedChecked, Checked, IsAsked

\* Every step keeps what is known of the admission.
LEMMA AskedStep == Inv /\ AskedChecked /\ [Next]_vars => AskedChecked'
<1> SUFFICES ASSUME Inv, AskedChecked, [Next]_vars PROVE AskedChecked'
  OBVIOUS
<1>1. now \in Nat
  BY DEF Inv
<1>2. CASE Tick \/ Rotate \/ PreviewPlan \/ PreviewProbePlan \/ Show \/ UNCHANGED vars
  <2>1. /\ UNCHANGED <<asked, plan>> /\ (now' = now \/ now' = now + 1)
    BY <1>2 DEF Tick, Rotate, PreviewPlan, PreviewProbePlan, Compiled, Show, vars
  <2> QED BY <1>1, <2>1, AskedKept
<1>3. CASE AuthorizePlan \/ Submit
  <2>1. asked = None
    BY <1>3 DEF AskedChecked, AuthorizePlan, Submit
  <2>2. UNCHANGED asked
    BY <1>3 DEF AuthorizePlan, Submit
  <2> QED BY <2>1, <2>2 DEF AskedChecked
<1>4. CASE Admit
  <2>1. PICK s \in plan.preview.steps :
           \/ asked' = [step |-> s, since |-> now, at |-> "resolving", answer |-> {}]
           \/ /\ s.place.name = NoName /\ Preflight(plan.preview, s, dns, now)
              /\ asked' = [step |-> s, since |-> now, at |-> "waiting", answer |-> {}]
    BY <1>4 DEF Admit
  <2>2. UNCHANGED <<now, dns, plan>> /\ plan # None /\ plan.submitted
    BY <1>4 DEF Admit
  <2>3. asked'.step = s /\ asked'.since = now /\ IsAsked(asked')
    BY <2>1 DEF IsAsked
  <2>4. asked'.at = "waiting" => Checked(asked')
    <3>1. asked'.at = "waiting" =>
             s.place.name = NoName /\ Preflight(plan.preview, s, dns, now)
      BY <2>1
    <3> QED BY <2>3, <3>1, PreflightFinds
  <2> QED BY <1>1, <2>2, <2>3, <2>4 DEF AskedChecked, Checked, IsAsked
<1>5. CASE Resolved
  <2>1. /\ asked # None /\ Preflight(plan.preview, asked.step, dns, asked.since)
        /\ asked' = [asked EXCEPT !.at = "waiting", !.answer = dns[asked.step.place.name]]
        /\ UNCHANGED <<now, dns, plan>>
    BY <1>5 DEF Resolved
  <2>2. IsAsked(asked)
    BY <2>1 DEF AskedChecked
  <2>3. asked' = [step |-> asked.step, since |-> asked.since, at |-> "waiting",
                  answer |-> dns[asked.step.place.name]]
    BY <2>1, <2>2 DEF IsAsked
  <2>4. /\ asked'.step = asked.step /\ asked'.since = asked.since /\ IsAsked(asked')
        /\ asked'.answer = dns[asked.step.place.name]
    BY <2>3 DEF IsAsked
  <2>5. Checked(asked')
    BY <2>1, <2>4, PreflightFinds
  <2> QED BY <1>1, <2>1, <2>4, <2>5 DEF AskedChecked, Checked, IsAsked
<1>6. CASE Unadmitted \/ Open
  BY <1>6 DEF Unadmitted, Open, AskedChecked
<1> QED BY <1>2, <1>3, <1>4, <1>5, <1>6 DEF Next

\* A socket is opened to an address inside the scope, which lasted when its admission
\* began, and for a name only when all that DNS answered during the admission lies inside
\* (TaskContext.admit, preflight_step).
THEOREM OpensCorrect == Spec => OpensInScope
<1>1. Init => AskedChecked
  BY DEF Init, AskedChecked
<1>2. Inv /\ AskedChecked /\ [Next]_vars => [OpensChecked]_vars
  <2> SUFFICES ASSUME Inv, AskedChecked, [Next]_vars, opened' \notin {opened, None}
               PROVE  OpensChecked
    BY DEF OpensChecked
  <2>1. Open
    BY DEF Next, Tick, Rotate, PreviewPlan, PreviewProbePlan, Compiled, Show, AuthorizePlan,
           Submit, Admit, Resolved, Unadmitted, vars
  <2>2. opened' = asked.step /\ asked # None /\ asked.at = "waiting"
    BY <2>1 DEF Open
  <2>3. /\ plan # None /\ asked.step \in plan.preview.steps /\ asked.since <= now
        /\ Checked(asked)
    BY <2>2 DEF AskedChecked
  <2>4. InScope(asked.step.place.at, plan.preview.scope)
    BY <2>3, RecompiledInScope DEF Inv, Validated
  <2> QED BY <2>2, <2>3, <2>4 DEF OpensChecked, Checked, InScope
<1> QED BY <1>1, <1>2, AskedStep, InvCorrect, PTL DEF Spec, OpensInScope
=============================================================================
