---------------------------- MODULE PromotionGate ----------------------------
(***************************************************************************)
(* From a reviewer's decision to a promoted figure: reviews are recorded   *)
(* (review_recording.py, mcp/tools/review_tools.py), a host gathers the    *)
(* evidence and evaluates the promotion gate (promotion_gate.py,           *)
(* human_review_receipt_verification.py), and the promotion admits the     *)
(* gate's receipt (result_promotion.py).                                   *)
(*                                                                         *)
(* Each of these sees one moment.  In between the figure is rendered       *)
(* again, its evidence and the policy change, reviews expire, are revoked  *)
(* or superseded, and reviewers lose their authority: what holds the parts *)
(* together is the subject, a digest over all that the reviewer decided    *)
(* on.  A digest is modelled by what it is taken of.                       *)
(***************************************************************************)
EXTENDS Naturals, FiniteSets

CONSTANTS
  Renders,     \* renders of one figure; a lineage receipt names exactly one
  BytesOf,     \* BytesOf[r]: the artifact that render r left
  Qualified,   \* the renders whose manifest is eligible for promotion
  Reports,     \* publication readiness reports, and the evidence in them
  Readiness,   \* Readiness[e]: the status that report e comes to
  Policies,    \* resolved policies
  Signoff,     \* those that require a human signoff
  Scopes,      \* decision scopes
  Asked,       \* the one that the host evaluates the gate for
  Opinions,    \* what a reviewer may come to: figure, scope, role, decision,
               \*   concern, waiver, and how long the review and the waiver last
  Bindings,    \* the scopes and roles that the host's policy lets sign off
  Waivers,     \* the waivers that it allows
  Shelves,     \* paths below the evidence role for the records
  LastTick,    \* bound: the last reading of the clock
  MaxReviews,  \* bound: reviews that are written
  MaxChanges,  \* bound: changes by others
  Unset

ASSUME RendersAssumption == Renders # {} /\ DOMAIN BytesOf = Renders
ASSUME ReadinessAssumption ==
  Readiness \in [Reports -> {"needs_review", "needs_revision", "blocked"}]
ASSUME UnsetAssumption ==
  Unset \notin Renders \cup {BytesOf[r] : r \in Renders} \cup Reports \cup Policies

VARIABLES
  now,       \* the present: the figure's latest render, its report, the
             \*   policy, the bindings the host trusts, and the time
  written,   \* reviews that reviewers have written
  shelf,     \* shelf[p]: the review recorded at path p
  ended,     \* the host's index: reviews revoked or superseded
  held,      \* what the host has gathered for the gate so far
  receipt,   \* the gate's receipt, and a note of what was so at that time
  promoted,  \* history: what was promoted, and on which receipt
  changes

world == <<now, changes>>
reviews == <<written, shelf, ended>>
gateVars == <<world, reviews, held, receipt, promoted>>

Recorded == {shelf[p] : p \in Shelves} \ {Unset}
NothingHeld ==
  [candidate |-> Unset, manifest |-> Unset, lineage |-> Unset,
   policy |-> Unset, report |-> Unset, review |-> Unset]

GateInit ==
  /\ now \in [render : Renders, report : Reports, policy : Policies,
              trusted : {Bindings}, time : {0}]
  /\ changes = 0
  /\ written = {} /\ ended = {}
  /\ shelf = [p \in Shelves |-> Unset]
  /\ held = NothingHeld
  /\ receipt = Unset
  /\ promoted = {}

-----------------------------------------------------------------------------
(* The world *)

Change == changes < MaxChanges /\ changes' = changes + 1

\* The figure is rendered again, evaluated again, its policy is another one,
\* or the host trusts a role no longer.
Drift ==
  /\ Change
  /\ \/ \E r \in Renders \ {now.render} : now' = [now EXCEPT !.render = r]
     \/ \E e \in Reports \ {now.report} : now' = [now EXCEPT !.report = e]
     \/ \E p \in Policies \ {now.policy} : now' = [now EXCEPT !.policy = p]
     \/ \E b \in now.trusted : now' = [now EXCEPT !.trusted = @ \ {b}]
  /\ UNCHANGED <<reviews, held, receipt, promoted>>

Pass ==
  /\ now.time < LastTick
  /\ now' = [now EXCEPT !.time = @ + 1]
  /\ UNCHANGED <<changes, reviews, held, receipt, promoted>>

\* A review is revoked, or another one takes its place.
Lapse ==
  /\ Change
  /\ \E v \in Recorded \ ended : ended' = ended \cup {v}
  /\ UNCHANGED <<now, written, shelf, held, receipt, promoted>>

-----------------------------------------------------------------------------
(* Reviews *)

Subject(figure, candidate, lineage, report, policy) ==
  [figure |-> figure, candidate |-> candidate, lineage |-> lineage,
   report |-> report, policy |-> policy]

\* The closed schema: a review ends after it begins, an approval leaves no
\* concern unresolved, and a waiver is for a concern that may be waived, and
\* has its time too.
WellFormed(v) ==
  /\ v.from < v.until
  /\ v.decision = "approve_for_promotion" => v.concern # "unresolved"
  /\ v.concern # "required_waived"
  /\ v.concern = "waived" => v.from < v.waived_until

ReviewOf(o) ==
  [subject |-> Subject(o.figure, BytesOf[now.render], now.render, now.report,
                       now.policy),
   scope |-> o.scope, role |-> o.role, decision |-> o.decision,
   concern |-> o.concern, from |-> now.time, until |-> now.time + o.lasts,
   waiver |-> o.waiver, waived_until |-> now.time + o.waived_for]

\* build_human_review_receipt, over what the reviewer has before them.
Write(o) ==
  /\ Cardinality(written) < MaxReviews
  /\ WellFormed(ReviewOf(o))
  /\ written' = written \cup {ReviewOf(o)}
  /\ UNCHANGED <<world, shelf, ended, held, receipt, promoted>>

\* figops.record_human_review: a review of this figure is put where nothing is.
Record(v, p) ==
  /\ WellFormed(v) /\ v.subject.figure = "this"
  /\ shelf[p] = Unset
  /\ shelf' = [shelf EXCEPT ![p] = v]
  /\ UNCHANGED <<world, written, ended, held, receipt, promoted>>

-----------------------------------------------------------------------------
(* The gate *)

\* The host takes one piece of evidence after the other, as it is now.
Gather ==
  /\ \/ held.candidate = Unset
        /\ held' = [held EXCEPT !.candidate = BytesOf[now.render]]
     \/ held.candidate # Unset /\ held.manifest = Unset
        /\ held' = [held EXCEPT !.manifest = now.render]
     \/ held.manifest # Unset /\ held.lineage = Unset
        /\ held' = [held EXCEPT !.lineage = now.render]
     \/ held.lineage # Unset /\ held.policy = Unset
        /\ held' = [held EXCEPT !.policy = now.policy]
     \/ held.policy # Unset /\ held.report = Unset
        /\ held' = [held EXCEPT !.report = now.report]
     \/ held.report # Unset /\ held.review = Unset
        /\ \E v \in written : held' = [held EXCEPT !.review = v]
  /\ UNCHANGED <<world, reviews, receipt, promoted>>

\* There is a subject once all that it covers is there.
Bound == Unset \notin {held.candidate, held.lineage, held.report, held.policy}
SubjectHeld ==
  Subject("this", held.candidate, held.lineage, held.report, held.policy)

Authorized(v) == <<v.scope, v.role>> \in now.trusted

\* _verify_times and _waivers_authorized
Timely(v) ==
  /\ v.from <= now.time /\ now.time < v.until
  /\ v.concern = "waived" => now.time < v.waived_until /\ v.waiver \in Waivers

\* _verify_subjects: the digest covers the scope as well.
About(v) == Bound => v.subject = SubjectHeld /\ v.scope = Asked

\* _verify_index: the host gives the records as the reviews that are current.
Current(v) == v \notin ended /\ v \in Recorded

\* verify_human_review_receipt
Verified(v) ==
  /\ WellFormed(v)
  /\ v.decision = "approve_for_promotion"
  /\ Authorized(v) /\ Timely(v) /\ About(v) /\ Current(v)

Passed(b) == IF b THEN "passed" ELSE "blocked"

ReadinessGate ==
  IF held.report = Unset THEN "blocked"
  ELSE IF Readiness[held.report] = "needs_review" THEN "passed"
  ELSE Readiness[held.report]

ReviewGate ==
  IF held.policy = Unset \/ held.policy \notin Signoff THEN "passed"
  ELSE IF held.review = Unset THEN "needs_review"
  ELSE Passed(Verified(held.review))

\* form: the candidate and the destination are well formed.
CandidateGate(form) == Passed(form /\ held.candidate # Unset)

RuntimeGate(form) ==
  Passed(form /\ held.manifest \in Qualified /\ BytesOf[held.manifest] = held.candidate)

LineageGate(form) ==
  Passed(form /\ held.lineage # Unset /\ BytesOf[held.lineage] = held.candidate)

PolicyGate == Passed(held.policy # Unset)

\* workflow: the workflow intent lets something be promoted.
Outcomes(workflow, form) ==
  {Passed(workflow), CandidateGate(form), RuntimeGate(form), LineageGate(form),
   PolicyGate, ReadinessGate, ReviewGate}

\* _status
Status(outcomes) ==
  IF "blocked" \in outcomes THEN "blocked"
  ELSE IF "needs_revision" \in outcomes THEN "needs_revision"
  ELSE IF "needs_review" \in outcomes THEN "needs_review"
  ELSE "eligible"

\* History: the reviews that approve of something at this moment.
Approving ==
  {v \in Recorded \ ended :
     /\ v.decision = "approve_for_promotion" /\ v.scope = Asked
     /\ <<Asked, v.role>> \in now.trusted
     /\ v.from <= now.time /\ now.time < v.until
     /\ v.concern \notin {"unresolved", "required_waived"}
     /\ v.concern = "waived" => v.waiver \in Waivers /\ now.time < v.waived_until}

\* evaluate_promotion_gate; the host lets go of what it held.  What else a
\* receipt says that is not eligible is left out.
Evaluate(workflow, form) ==
  /\ held.candidate # Unset
  /\ receipt' =
       LET status == Status(Outcomes(workflow, form)) IN
       IF status # "eligible" THEN [status |-> status]
       ELSE [status |-> status, subject |-> SubjectHeld,
             signoff |-> held.policy \in Signoff, approving |-> Approving]
  /\ held' = NothingHeld
  /\ UNCHANGED <<world, reviews, promoted>>

-----------------------------------------------------------------------------
(* The promotion *)

\* Mutant: the lineage of the result is not compared.
AdmittedByBytes(scope) ==
  /\ receipt # Unset /\ receipt.status = "eligible"
  /\ receipt.subject.figure = "this" /\ scope = Asked
  /\ receipt.subject.candidate = BytesOf[now.render]

\* _verify_promotion_gate_admission: the subject is this figure's, this
\* artifact's and this lineage receipt's, under the scope that is claimed.
Admitted(scope) ==
  /\ receipt # Unset /\ receipt.status = "eligible"
  /\ receipt.subject.figure = "this" /\ scope = Asked
  /\ receipt.subject.candidate = BytesOf[now.render]
  /\ receipt.subject.lineage = now.render

\* promote_eligible_project_result with a gate receipt, up to where it hands
\* over to the durable promotion, which goes through once.
Promote(scope) ==
  /\ now.render \in Qualified
  /\ Admitted(scope)
  /\ promoted = {}
  /\ promoted' = {[render |-> now.render, receipt |-> receipt]}
  /\ UNCHANGED <<world, reviews, held, receipt>>

GateNext ==
  \/ Drift \/ Pass \/ Lapse
  \/ \E o \in Opinions : Write(o)
  \/ \E v \in written, p \in Shelves : Record(v, p)
  \/ Gather
  \/ \E workflow, form \in BOOLEAN : Evaluate(workflow, form)
  \/ \E scope \in Scopes : Promote(scope)

GateSpec == GateInit /\ [][GateNext]_gateVars

-----------------------------------------------------------------------------
GateTypeOK ==
  /\ now \in [render : Renders, report : Reports, policy : Policies,
              trusted : SUBSET Bindings, time : 0..LastTick]
  /\ shelf \in [Shelves -> written \cup {Unset}]
  /\ ended \subseteq written
  /\ held.review \in written \cup {Unset}
  /\ receipt # Unset =>
       receipt.status \in {"eligible", "needs_review", "needs_revision", "blocked"}

\* What was promoted on a policy that asks for a signoff had one when the gate
\* was evaluated: a recorded approval by somebody entitled to it, in the scope
\* asked for, neither over nor revoked, of exactly this render with its bytes
\* and lineage, and of the report and the policy that the gate looked at,
\* whatever changed between the review, the gathering of the evidence, the
\* gate and the promotion (docs/specs/2026-07-20-ai-native-figure-integrity-
\* plan.md:54-66; promotion_gate.py, human_review_receipt_verification.py,
\* result_promotion.py:46-104).
PromotedAsReviewed ==
  \A x \in promoted : x.receipt.signoff =>
    \E v \in x.receipt.approving :
      v.subject = Subject("this", BytesOf[x.render], x.render,
                          x.receipt.subject.report, x.receipt.subject.policy)

=============================================================================
