------------------------- MODULE QualityGates_proofs -------------------------
(***************************************************************************)
(* Proofs about the gates that decide what may be used: promotion behind   *)
(* human review, the resolution of policies, workflow intents, golden      *)
(* tables, the validation of batches and visual baselines; for any         *)
(* renders, reports, policies, schemas, layers, calls, tables, projects,   *)
(* figures and numbers of processes.                                       *)
(*                                                                         *)
(* Promotion.  The property speaks of promotions; what carries it there is *)
(* what the receipts say: an eligible receipt that needed a signoff holds  *)
(* a review of its own subject among those that counted when it was made.  *)
(***************************************************************************)
EXTENDS PromotionGate, PolicyResolution, WorkflowIntent, GoldenData, BatchCheck,
        VisualBaselines, WellFoundedInduction, TLAPS

Sealed(r) ==
  r.status = "eligible" =>
    /\ r.subject = Subject("this", r.subject.candidate, r.subject.lineage,
                           r.subject.report, r.subject.policy)
    /\ r.signoff => \E v \in r.approving : v.subject = r.subject

\* A promotion is of the very render that its receipt is about.
Matched(x) ==
  /\ x.receipt.status = "eligible"
  /\ x.receipt.subject.candidate = BytesOf[x.render]
  /\ x.receipt.subject.lineage = x.render

GInv ==
  /\ receipt # Unset => Sealed(receipt)
  /\ \A x \in promoted : Sealed(x.receipt) /\ Matched(x)

-----------------------------------------------------------------------------
\* A review that the gate verifies for a bound subject is an approval of that
\* subject (verify_human_review_receipt).
LEMMA VerifiedApproves ==
  ASSUME NEW v, Verified(v), Bound
  PROVE  v \in Approving /\ v.subject = SubjectHeld
  BY DEF Verified, WellFormed, Authorized, Timely, About, Current, Approving

\* An eligible status leaves no gate that has not passed (_status).
LEMMA EligibleMeansPassed ==
  ASSUME NEW outcomes, Status(outcomes) = "eligible"
  PROVE  outcomes \cap {"blocked", "needs_revision", "needs_review"} = {}
  BY DEF Status

\* Nothing is eligible before there is a subject, nor without the review that
\* its policy requires (evaluate_promotion_gate).
LEMMA EligibleIsBound ==
  ASSUME NEW workflow \in BOOLEAN, NEW form \in BOOLEAN,
         Status(Outcomes(workflow, form)) = "eligible"
  PROVE  Bound /\ (held.policy \in Signoff => Verified(held.review))
<1>1. "blocked" \notin Outcomes(workflow, form)
  /\ "needs_review" \notin Outcomes(workflow, form)
  BY EligibleMeansPassed
<1>2. held.candidate # Unset
  BY <1>1 DEF Outcomes, CandidateGate, Passed
<1>3. held.lineage # Unset
  BY <1>1 DEF Outcomes, LineageGate, Passed
<1>4. held.policy # Unset
  BY <1>1 DEF Outcomes, PolicyGate, Passed
<1>5. held.report # Unset
  BY <1>1 DEF Outcomes, ReadinessGate
<1>6. ReviewGate # "blocked" /\ ReviewGate # "needs_review"
  BY <1>1 DEF Outcomes
<1>7. held.policy \in Signoff => Verified(held.review)
  BY <1>4, <1>6 DEF ReviewGate, Passed
<1> QED
  BY <1>2, <1>3, <1>4, <1>5, <1>7 DEF Bound

\* An evaluation writes a receipt that is sealed.
LEMMA EvaluationSeals ==
  ASSUME NEW workflow \in BOOLEAN, NEW form \in BOOLEAN, Evaluate(workflow, form)
  PROVE  Sealed(receipt')
<1> DEFINE status == Status(Outcomes(workflow, form))
<1>1. CASE status # "eligible"
  <2>1. receipt' = [status |-> status]
    BY <1>1 DEF Evaluate
  <2> QED
    BY <1>1, <2>1 DEF Sealed
<1>2. CASE status = "eligible"
  <2>1. receipt' = [status |-> status, subject |-> SubjectHeld,
                    signoff |-> held.policy \in Signoff, approving |-> Approving]
    BY <1>2 DEF Evaluate
  <2>2. Bound /\ (held.policy \in Signoff => Verified(held.review))
    BY <1>2, EligibleIsBound
  <2>3. held.policy \in Signoff => \E v \in Approving : v.subject = SubjectHeld
    BY <2>2, VerifiedApproves
  <2> QED
    BY <2>1, <2>3 DEF Sealed, SubjectHeld, Subject
<1> QED
  BY <1>1, <1>2

-----------------------------------------------------------------------------
\* The invariant of the promotion gate holds initially,
LEMMA GateInvInit == GateInit => GInv
  BY DEF GateInit, GInv

\* and every step keeps it.
LEMMA GateInvNext == GInv /\ [GateNext]_gateVars => GInv'
<1> SUFFICES ASSUME GInv, [GateNext]_gateVars PROVE GInv'
  OBVIOUS
<1>1. CASE UNCHANGED <<receipt, promoted>>
  BY <1>1 DEF GInv
<1>2. ASSUME NEW workflow \in BOOLEAN, NEW form \in BOOLEAN, Evaluate(workflow, form)
      PROVE  GInv'
  <2>1. Sealed(receipt') /\ promoted' = promoted
    BY <1>2, EvaluationSeals DEF Evaluate
  <2> QED
    BY <2>1 DEF GInv
<1>3. ASSUME NEW scope \in Scopes, Promote(scope) PROVE GInv'
  <2>1. promoted' = {[render |-> now.render, receipt |-> receipt]}
        /\ receipt' = receipt
    BY <1>3 DEF Promote
  <2>2. Sealed(receipt) /\ Matched([render |-> now.render, receipt |-> receipt])
    BY <1>3 DEF Promote, Admitted, GInv, Matched
  <2> QED
    BY <2>1, <2>2 DEF GInv
<1>4. CASE UNCHANGED gateVars
  BY <1>1, <1>4 DEF gateVars
<1>5. CASE GateNext
  BY <1>1, <1>2, <1>3, <1>5
     DEF GateNext, Drift, Pass, Lapse, Write, Record, Gather
<1> QED
  BY <1>4, <1>5

\* Whatever was promoted on a policy that asks for a signoff had, when the gate
\* was evaluated, a recorded and standing approval of exactly that render, its
\* lineage, and the report and policy the gate looked at (promotion_gate.py,
\* human_review_receipt_verification.py, result_promotion.py).
THEOREM PromotedReviewed == GateSpec => []PromotedAsReviewed
<1>1. GInv => PromotedAsReviewed
  BY DEF GInv, Sealed, Matched, PromotedAsReviewed
<1> QED
  BY <1>1, GateInvInit, GateInvNext, PTL DEF GateSpec

-----------------------------------------------------------------------------
(* Policies.  The merge operators look at the set of constraints, but for  *)
(* two: a selection takes the last plain value and an exact parameter its  *)
(* first constraint.  What makes both independent of the order is what is  *)
(* refused: lists that meet leave room for one plain value only, and exact *)
(* constraints that differ are a conflict.                                 *)

\* There is a least and a greatest among numbers between bounds.
LEMMA SmallestNatural1 ==
  ASSUME NEW s \in SUBSET Nat, s # {}
  PROVE  \E v \in s : \A w \in s : v <= w
<1>1. IsWellFoundedOn(OpToRel(<, Nat), Nat)
  BY NatLessThanWellFounded
<1>2. \E v \in s : \A w \in s : <<w, v>> \notin OpToRel(<, Nat)
  BY <1>1, WFMin
<1>3. PICK v \in s : \A w \in s : <<w, v>> \notin OpToRel(<, Nat)
  BY <1>2
<1>4. \A w \in s : ~(w < v)
  BY <1>3 DEF OpToRel
<1> QED  BY <1>4

\* A bounded set of whole numbers has a least member,
LEMMA LeastOfBounded ==
  ASSUME NEW b \in Nat, NEW s \in SUBSET (-b..b), s # {}
  PROVE  Min(s) \in s /\ \A w \in s : Min(s) <= w
<1> DEFINE up == {b + w : w \in s}
<1>1. up \in SUBSET Nat /\ up # {}
  OBVIOUS
<1>2. PICK u \in up : \A w \in up : u <= w
  BY <1>1, SmallestNatural1
<1>3. PICK v \in s : u = b + v
  BY <1>2
<1>4. \A w \in s : v <= w
  <2> TAKE w \in s
  <2>1. u <= b + w
    BY <1>2
  <2> QED  BY <2>1, <1>3
<1> QED  BY <1>4 DEF Min

\* and a greatest one.
LEMMA GreatestOfBounded ==
  ASSUME NEW b \in Nat, NEW s \in SUBSET (-b..b), s # {}
  PROVE  Max(s) \in s /\ \A w \in s : w <= Max(s)
<1> DEFINE down == {b - w : w \in s}
<1>1. down \in SUBSET Nat /\ down # {}
  <2>1. \A w \in s : b - w \in Nat
    OBVIOUS
  <2> QED  BY <2>1
<1>2. PICK u \in down : \A w \in down : u <= w
  BY <1>1, SmallestNatural1
<1>3. PICK v \in s : u = b - v
  BY <1>2
<1>4. \A w \in s : w <= v
  <2> TAKE w \in s
  <2>1. u <= b - w
    BY <1>2
  <2> QED  BY <2>1, <1>3
<1> QED  BY <1>4 DEF Max

-----------------------------------------------------------------------------
\* What a layer states is of its parameter's kind, an opt-out included
\* (_normalize_value), and so is a list.
LEMMA StatedIsPlain ==
  ASSUME NEW layers, NEW p \in Parameters, NEW i \in Speakers(layers, p),
         WellRead(layers[i])
  PROVE  Stated(layers[i], p) \in Plain(p)
<1>1. Stated(layers[i], p) # Silent
  BY DEF Speakers
<1>2. CASE Stated(layers[i], p) = layers[i].says[p].value
  BY <1>1, <1>2 DEF WellRead
<1>3. CASE Stated(layers[i], p) # layers[i].says[p].value
  <2>1. layers[i].says[p].opt_out /\ Stated(layers[i], p) = FALSE
    BY <1>3 DEF Stated
  <2>2. Operator[p] = "require"
    BY <2>1, SchemaAssumption DEF WellRead
  <2>3. Plain(p) = BOOLEAN
    BY <2>2 DEF Plain
  <2> QED  BY <2>1, <2>3
<1> QED  BY <1>2, <1>3

\* What a layer lists is one of the lists of the parameter.
LEMMA ListIsListed ==
  ASSUME NEW layers, NEW p \in Parameters, NEW i \in Limiters(layers, p),
         WellRead(layers[i])
  PROVE  List(layers[i], p) \in Listed(p)
  BY DEF Limiters, List, WellRead

\* Options are left to a selection that is constrained; then its plain values
\* are all the same (_merge_set_or_selection).
LEMMA OneSelection ==
  ASSUME NEW layers, NEW p \in Parameters, Operator[p] = "selection",
         \A i \in DOMAIN layers : WellRead(layers[i]),
         ~Conflict(layers, p), Constrained(layers, p)
  PROVE  \A v, w \in StatedValues(layers, p) : v = w
<1>1. PICK c : c \in Remaining(layers, p)
  BY DEF Conflict
<1>2. Plain(p) \subseteq Options
  BY SchemaAssumption, SilentAssumption DEF Plain
<1>3. \A v \in StatedValues(layers, p) : v \in Options
  BY <1>2, StatedIsPlain DEF StatedValues, Speakers
<1>4. \A v \in StatedValues(layers, p) : c \in AsSet(v)
  BY <1>1 DEF Remaining
<1> QED  BY <1>3, <1>4 DEF AsSet

\* The constraints that the two operators pick by their place are constraints.
LEMMA SelectionIsStated ==
  ASSUME NEW n \in Nat, NEW layers, DOMAIN layers = 1..n,
         NEW p \in Parameters, Speakers(layers, p) # {}
  PROVE  Selection(layers, p) \in StatedValues(layers, p)
<1>1. Speakers(layers, p) \in SUBSET (-n..n)
  BY DEF Speakers
<1>2. Max(Speakers(layers, p)) \in Speakers(layers, p)
  BY <1>1, GreatestOfBounded
<1> QED  BY <1>2 DEF Selection, StatedValues

\* An exact value was stated, or listed, by a layer.
LEMMA ExactIsConstraint ==
  ASSUME NEW n \in Nat, NEW layers, DOMAIN layers = 1..n,
         NEW p \in Parameters, Constrained(layers, p)
  PROVE  Exact(layers, p) \in StatedValues(layers, p) \cup ListedValues(layers, p)
<1> DEFINE heard == Speakers(layers, p) \cup Limiters(layers, p)
<1>1. heard \in SUBSET (-n..n) /\ heard # {}
  BY DEF Speakers, Limiters, Constrained
<1>2. Min(heard) \in heard
  BY <1>1, LeastOfBounded
<1> QED  BY <1>2 DEF Exact, StatedValues, ListedValues

-----------------------------------------------------------------------------
\* The sets of constraints do not depend on the order (resolve_policy_set).
LEMMA SameConstraints ==
  ASSUME NEW layers, NEW f \in Orders(layers), NEW p \in Parameters
  PROVE  /\ StatedValues(Reordered(layers, f), p) = StatedValues(layers, p)
         /\ ListedValues(Reordered(layers, f), p) = ListedValues(layers, p)
         /\ Constrained(Reordered(layers, f), p) <=> Constrained(layers, p)
         /\ OptedOut(Reordered(layers, f), p) <=> OptedOut(layers, p)
         /\ Speakers(Reordered(layers, f), p) = {} <=> Speakers(layers, p) = {}
<1> DEFINE other == Reordered(layers, f)
<1>1. /\ DOMAIN other = DOMAIN layers
      /\ \A i \in DOMAIN layers : f[i] \in DOMAIN layers /\ other[i] = layers[f[i]]
      /\ \A i \in DOMAIN layers : \E j \in DOMAIN layers : f[j] = i
  BY DEF Reordered, Orders, Bijection, Injection, Surjection
<1> HIDE DEF other
<1>2. \A i \in Speakers(other, p) : f[i] \in Speakers(layers, p)
  BY <1>1 DEF Speakers
<1>3. \A i \in Speakers(layers, p) : \E j \in Speakers(other, p) : f[j] = i
  BY <1>1 DEF Speakers
<1>4. \A i \in Limiters(other, p) : f[i] \in Limiters(layers, p)
  BY <1>1 DEF Limiters
<1>5. \A i \in Limiters(layers, p) : \E j \in Limiters(other, p) : f[j] = i
  BY <1>1 DEF Limiters
<1>6. StatedValues(other, p) = StatedValues(layers, p)
  BY <1>1, <1>2, <1>3 DEF StatedValues, Speakers
<1>7. ListedValues(other, p) = ListedValues(layers, p)
  BY SMTT(30), <1>1, <1>4, <1>5 DEF ListedValues, Limiters
<1>8. OptedOut(other, p) <=> OptedOut(layers, p)
  <2>1. ASSUME NEW i \in DOMAIN other, other[i].says[p].opt_out
        PROVE  OptedOut(layers, p)
    BY <1>1, <2>1 DEF OptedOut
  <2>2. ASSUME NEW i \in DOMAIN layers, layers[i].says[p].opt_out
        PROVE  OptedOut(other, p)
    <3>1. PICK j \in DOMAIN layers : f[j] = i
      BY <1>1
    <3>2. other[j].says[p].opt_out
      BY <1>1, <2>2, <3>1
    <3> QED  BY <1>1, <3>2 DEF OptedOut
  <2> QED  BY <2>1, <2>2 DEF OptedOut
<1> QED  BY <1>2, <1>3, <1>4, <1>5, <1>6, <1>7, <1>8 DEF Constrained, other

\* The domain of the same layers in another order.
LEMMA SamePlaces ==
  ASSUME NEW layers, NEW f \in Orders(layers)
  PROVE  /\ DOMAIN Reordered(layers, f) = DOMAIN layers
         /\ (\E i \in DOMAIN layers : ~WellRead(Reordered(layers, f)[i]))
              <=> \E i \in DOMAIN layers : ~WellRead(layers[i])
         /\ (\E i, j \in DOMAIN layers :
                i # j /\ Reordered(layers, f)[i].source = Reordered(layers, f)[j].source)
              <=> \E i, j \in DOMAIN layers : i # j /\ layers[i].source = layers[j].source
<1> DEFINE other == Reordered(layers, f)
<1>1. /\ DOMAIN other = DOMAIN layers
      /\ \A i \in DOMAIN layers : f[i] \in DOMAIN layers /\ other[i] = layers[f[i]]
      /\ \A i, j \in DOMAIN layers : f[i] = f[j] => i = j
      /\ \A i \in DOMAIN layers : \E j \in DOMAIN layers : f[j] = i
  BY DEF Reordered, Orders, Bijection, Injection, Surjection, IsInjective
<1> HIDE DEF other
<1>2. ASSUME NEW i \in DOMAIN layers
      PROVE  \E j \in DOMAIN layers : other[j] = layers[i]
  <2>1. PICK j \in DOMAIN layers : f[j] = i
    BY <1>1
  <2>2. other[j] = layers[i]
    BY <1>1, <2>1
  <2> QED  BY <2>2
<1>3. (\E i \in DOMAIN layers : ~WellRead(other[i]))
        <=> \E i \in DOMAIN layers : ~WellRead(layers[i])
  <2>1. ASSUME NEW i \in DOMAIN layers, ~WellRead(other[i])
        PROVE  \E j \in DOMAIN layers : ~WellRead(layers[j])
    BY <1>1, <2>1
  <2>2. ASSUME NEW i \in DOMAIN layers, ~WellRead(layers[i])
        PROVE  \E j \in DOMAIN layers : ~WellRead(other[j])
    BY <1>2, <2>2
  <2> QED  BY <2>1, <2>2
<1>4. (\E i, j \in DOMAIN layers : i # j /\ other[i].source = other[j].source)
        <=> \E i, j \in DOMAIN layers : i # j /\ layers[i].source = layers[j].source
  <2>1. ASSUME NEW i \in DOMAIN layers, NEW j \in DOMAIN layers,
               i # j, other[i].source = other[j].source
        PROVE  \E k, m \in DOMAIN layers : k # m /\ layers[k].source = layers[m].source
    <3>1. f[i] # f[j] /\ layers[f[i]].source = layers[f[j]].source
      BY <1>1, <2>1
    <3>2. f[i] \in DOMAIN layers /\ f[j] \in DOMAIN layers
      BY <1>1
    <3> QED  BY <3>1, <3>2
  <2>2. ASSUME NEW i \in DOMAIN layers, NEW j \in DOMAIN layers,
               i # j, layers[i].source = layers[j].source
        PROVE  \E k, m \in DOMAIN layers : k # m /\ other[k].source = other[m].source
    <3>1. PICK k \in DOMAIN layers : f[k] = i
      BY <1>1
    <3>2. PICK m \in DOMAIN layers : f[m] = j
      BY <1>1
    <3>3. k # m /\ other[k].source = other[m].source
      BY <1>1, <2>2, <3>1, <3>2
    <3> QED  BY <3>3
  <2> QED  BY <2>1, <2>2
<1> QED  BY <1>1, <1>3, <1>4 DEF other

\* With nothing misread, a parameter is in conflict in any order or in none,
\* and resolves to the same value if it is not.
LEMMA SameOutcome ==
  ASSUME NEW n \in Nat, NEW layers, DOMAIN layers = 1..n,
         NEW f \in Orders(layers), NEW p \in Parameters,
         \A i \in DOMAIN layers : WellRead(layers[i])
  PROVE  /\ Conflict(Reordered(layers, f), p) <=> Conflict(layers, p)
         /\ ~Conflict(layers, p) => Resolved(Reordered(layers, f), p) = Resolved(layers, p)
<1> DEFINE other == Reordered(layers, f)
<1>1. /\ StatedValues(other, p) = StatedValues(layers, p)
      /\ ListedValues(other, p) = ListedValues(layers, p)
      /\ Constrained(other, p) <=> Constrained(layers, p)
      /\ OptedOut(other, p) <=> OptedOut(layers, p)
      /\ Speakers(other, p) = {} <=> Speakers(layers, p) = {}
  BY SameConstraints
<1>2. DOMAIN other = 1..n /\ \A i \in DOMAIN other : WellRead(other[i])
  BY SamePlaces
<1> HIDE DEF other
<1>3. Remaining(other, p) = Remaining(layers, p)
  BY <1>1 DEF Remaining
<1>4. ASSUME Operator[p] = "selection", Constrained(layers, p),
             ~Conflict(layers, p) \/ ~Conflict(other, p)
      PROVE  Selection(other, p) = Selection(layers, p)
  <2>1. CASE Speakers(layers, p) = {}
    BY <1>1, <2>1 DEF Selection
  <2>2. CASE Speakers(layers, p) # {}
    <3>1. \A v, w \in StatedValues(layers, p) : v = w
      BY <1>1, <1>2, <1>4, OneSelection
    <3>2. Selection(other, p) \in StatedValues(other, p)
      BY <1>1, <1>2, <2>2, SelectionIsStated
    <3>3. Selection(layers, p) \in StatedValues(layers, p)
      BY <2>2, SelectionIsStated
    <3> QED  BY <1>1, <3>1, <3>2, <3>3
  <2> QED  BY <2>1, <2>2
<1>5. ASSUME Operator[p] = "exact", Constrained(layers, p), ~Conflict(layers, p)
      PROVE  Exact(other, p) = Exact(layers, p)
  <2>1. Exact(layers, p) \in StatedValues(layers, p) \cup ListedValues(layers, p)
    BY <1>5, ExactIsConstraint
  <2>2. Exact(other, p) \in StatedValues(layers, p) \cup ListedValues(layers, p)
    BY <1>1, <1>2, <1>5, ExactIsConstraint
  <2> QED  BY <1>5, <2>1, <2>2 DEF Conflict
<1>6. Conflict(other, p) <=> Conflict(layers, p)
  BY <1>1, <1>3, <1>4 DEF Conflict
<1>7. ASSUME ~Conflict(layers, p), Constrained(layers, p)
      PROVE  Merged(other, p) = Merged(layers, p)
  BY <1>1, <1>3, <1>4, <1>5, <1>7, SchemaAssumption DEF Merged, Operators
<1>8. ASSUME ~Conflict(layers, p)
      PROVE  Resolved(other, p) = Resolved(layers, p)
  BY <1>1, <1>7, <1>8 DEF Resolved
<1> QED  BY <1>6, <1>8 DEF other

\* No winner is chosen by the order of the layers (resolve_policy_set).
THEOREM NoWinnerByOrder ==
  ASSUME NEW n \in Nat, NEW layers, DOMAIN layers = 1..n
  PROVE  OrderIrrelevant(layers)
<1> SUFFICES ASSUME NEW f \in Orders(layers)
             PROVE  /\ Refused(Reordered(layers, f)) <=> Refused(layers)
                    /\ ~Refused(layers) =>
                         PolicySet(Reordered(layers, f)) = PolicySet(layers)
  BY DEF OrderIrrelevant
<1> DEFINE other == Reordered(layers, f)
<1>1. /\ DOMAIN other = DOMAIN layers
      /\ (\E i \in DOMAIN layers : ~WellRead(other[i]))
           <=> \E i \in DOMAIN layers : ~WellRead(layers[i])
      /\ (\E i, j \in DOMAIN layers : i # j /\ other[i].source = other[j].source)
           <=> \E i, j \in DOMAIN layers : i # j /\ layers[i].source = layers[j].source
  BY SamePlaces
<1>2. ASSUME \A i \in DOMAIN layers : WellRead(layers[i]), NEW p \in Parameters
      PROVE  /\ Conflict(other, p) <=> Conflict(layers, p)
             /\ ~Conflict(layers, p) => Resolved(other, p) = Resolved(layers, p)
  BY <1>2, SameOutcome
<1>3. \A p \in Parameters : OptedOut(other, p) <=> OptedOut(layers, p)
  BY SameConstraints
<1> HIDE DEF other
<1>4. Refused(other) <=> Refused(layers)
  BY <1>1, <1>2 DEF Refused
<1>5. ASSUME ~Refused(layers)
      PROVE  PolicySet(other) = PolicySet(layers)
  <2>1. \A p \in Parameters : Resolved(other, p) = Resolved(layers, p)
    BY <1>2, <1>5 DEF Refused
  <2>2. \A p \in Parameters : OptedOut(other, p) = OptedOut(layers, p)
    BY <1>3, Zenon DEF OptedOut
  <2> QED  BY <2>1, <2>2, Zenon DEF PolicySet
<1> QED  BY <1>4, <1>5 DEF other

-----------------------------------------------------------------------------
\* One more layer keeps the others in their places, and so their constraints.
LEMMA MoreConstraints ==
  ASSUME NEW L, NEW layers \in Seq(L), NEW layer \in L, NEW p
  PROVE  /\ StatedValues(layers, p) \subseteq StatedValues(Append(layers, layer), p)
         /\ ListedValues(layers, p) \subseteq ListedValues(Append(layers, layer), p)
         /\ Constrained(layers, p) => Constrained(Append(layers, layer), p)
         /\ Speakers(layers, p) \subseteq Speakers(Append(layers, layer), p)
         /\ OptedOut(layers, p) => OptedOut(Append(layers, layer), p)
<1> DEFINE more == Append(layers, layer)
<1>1. /\ DOMAIN layers \subseteq DOMAIN more
      /\ \A i \in DOMAIN layers : more[i] = layers[i]
  OBVIOUS
<1> HIDE DEF more
<1>2. Speakers(layers, p) \subseteq Speakers(more, p)
  BY <1>1 DEF Speakers
<1>3. Limiters(layers, p) \subseteq Limiters(more, p)
  BY <1>1 DEF Limiters
<1>4. StatedValues(layers, p) \subseteq StatedValues(more, p)
  BY <1>1, <1>2 DEF StatedValues, Speakers
<1>5. ListedValues(layers, p) \subseteq ListedValues(more, p)
  BY <1>1, <1>3 DEF ListedValues, Limiters
<1>6. OptedOut(layers, p) => OptedOut(more, p)
  BY <1>1 DEF OptedOut
<1> QED  BY <1>2, <1>3, <1>4, <1>5, <1>6 DEF Constrained, more

\* The plain values of a bound are numbers, and there is one if it is constrained.
LEMMA BoundsAreNumbers ==
  ASSUME NEW layers, NEW p \in Parameters, Operator[p] \in {"minimum", "maximum"},
         \A i \in DOMAIN layers : WellRead(layers[i]), Constrained(layers, p)
  PROVE  StatedValues(layers, p) \in SUBSET Numbers /\ StatedValues(layers, p) # {}
<1>1. Plain(p) = Numbers /\ Listed(p) = {}
  BY DEF Plain, Listed
<1>2. Limiters(layers, p) = {}
  BY <1>1, ListIsListed DEF Limiters
<1>3. Speakers(layers, p) # {}
  BY <1>2 DEF Constrained
<1>4. \A i \in Speakers(layers, p) : Stated(layers[i], p) \in Numbers
  BY <1>1, StatedIsPlain DEF Speakers
<1> QED  BY <1>3, <1>4 DEF StatedValues

\* What some layer has asked for is never loosened by one more (_merge).
THEOREM OneMoreNeverLoosens ==
  ASSUME NEW L, NEW layers \in Seq(L), NEW layer \in L
  PROVE  NeverLoosened(layers, layer)
<1> DEFINE more == Append(layers, layer)
<1> SUFFICES ASSUME ~Refused(layers), ~Refused(more), NEW p \in Parameters,
                    Constrained(layers, p),
                    Operator[p] = "selection" => Speakers(layers, p) # {}
             PROVE  AtLeastAsStrict(p, Resolved(more, p), Resolved(layers, p))
  BY DEF NeverLoosened
<1>1. PICK n \in Nat : DOMAIN layers = 1..n /\ DOMAIN more = 1..(n + 1)
  OBVIOUS
<1>2. /\ StatedValues(layers, p) \subseteq StatedValues(more, p)
      /\ ListedValues(layers, p) \subseteq ListedValues(more, p)
      /\ Constrained(more, p)
      /\ Speakers(layers, p) \subseteq Speakers(more, p)
  BY MoreConstraints
<1> HIDE DEF more
<1>3. /\ \A i \in DOMAIN layers : WellRead(layers[i])
      /\ \A i \in DOMAIN more : WellRead(more[i])
      /\ ~Conflict(layers, p) /\ ~Conflict(more, p)
  BY DEF Refused
<1>4. CASE Operator[p] = "require"
  <2>1. SUFFICES ASSUME Resolved(layers, p)
                 PROVE  Resolved(more, p)
    BY <1>4 DEF AtLeastAsStrict
  <2>2. TRUE \in StatedValues(layers, p)
    BY <1>4, <2>1 DEF Resolved, Merged
  <2>3. TRUE \in StatedValues(more, p)
    BY <1>2, <2>2
  <2> QED  BY <1>2, <1>4, <2>3 DEF Resolved, Merged
<1>5. Operator[p] # "require" =>
        Resolved(layers, p) = Merged(layers, p) /\ Resolved(more, p) = Merged(more, p)
  BY <1>2 DEF Resolved
<1>6. CASE Operator[p] \in {"minimum", "maximum"}
  <2>1. StatedValues(layers, p) \in SUBSET Numbers /\ StatedValues(layers, p) # {}
    BY <1>3, <1>6, BoundsAreNumbers
  <2>2. StatedValues(more, p) \in SUBSET Numbers /\ StatedValues(more, p) # {}
    BY <1>2, <1>3, <1>6, BoundsAreNumbers
  <2>3. CASE Operator[p] = "minimum"
    <3>1. /\ Max(StatedValues(layers, p)) \in StatedValues(layers, p)
          /\ Max(StatedValues(more, p)) \in StatedValues(more, p)
          /\ \A w \in StatedValues(more, p) : w <= Max(StatedValues(more, p))
      BY <2>1, <2>2, LargestAssumption, GreatestOfBounded DEF Numbers
    <3>2. Max(StatedValues(layers, p)) <= Max(StatedValues(more, p))
      BY <1>2, <3>1
    <3>3. Max(StatedValues(layers, p)) \in Int /\ Max(StatedValues(more, p)) \in Int
      BY <2>1, <2>2, <3>1, LargestAssumption DEF Numbers
    <3> QED  BY <1>5, <2>3, <3>2, <3>3 DEF AtLeastAsStrict, Merged
  <2>4. CASE Operator[p] = "maximum"
    <3>1. /\ Min(StatedValues(layers, p)) \in StatedValues(layers, p)
          /\ \A w \in StatedValues(more, p) : Min(StatedValues(more, p)) <= w
      BY <2>1, <2>2, LargestAssumption, LeastOfBounded DEF Numbers
    <3>2. Min(StatedValues(more, p)) <= Min(StatedValues(layers, p))
      BY <1>2, <3>1
    <3> QED  BY <1>5, <2>4, <3>2 DEF AtLeastAsStrict, Merged
  <2> QED  BY <1>6, <2>3, <2>4
<1>7. CASE Operator[p] = "allowed_set"
  <2>1. Remaining(more, p) \subseteq Remaining(layers, p)
    BY <1>2 DEF Remaining
  <2> QED  BY <1>5, <1>7, <2>1 DEF AtLeastAsStrict, Merged
<1>8. CASE Operator[p] = "selection"
  <2>1. Selection(layers, p) \in StatedValues(layers, p)
    BY <1>1, <1>8, SelectionIsStated
  <2>2. Selection(more, p) \in StatedValues(more, p)
    BY <1>1, <1>2, <1>8, SelectionIsStated
  <2>3. \A v, w \in StatedValues(more, p) : v = w
    BY <1>2, <1>3, <1>8, OneSelection
  <2>4. Selection(more, p) = Selection(layers, p)
    BY <1>2, <2>1, <2>2, <2>3
  <2> QED  BY <1>5, <1>8, <2>4 DEF AtLeastAsStrict, Merged
<1>9. CASE Operator[p] = "exact"
  <2>1. Exact(layers, p) \in StatedValues(layers, p) \cup ListedValues(layers, p)
    BY <1>1, ExactIsConstraint
  <2>2. Exact(more, p) \in StatedValues(more, p) \cup ListedValues(more, p)
    BY <1>1, <1>2, ExactIsConstraint
  <2>3. Exact(more, p) = Exact(layers, p)
    BY <1>2, <1>3, <1>9, <2>1, <2>2 DEF Conflict
  <2> QED  BY <1>5, <1>9, <2>3 DEF AtLeastAsStrict, Merged
<1> QED  BY <1>4, <1>6, <1>7, <1>8, <1>9, SchemaAssumption DEF Operators, more

\* No kernel invariant is resolved to anything but TRUE, and no selection to
\* one that the schema or a list excludes (resolve_policy_set).
THEOREM LimitsStand ==
  ASSUME NEW n \in Nat, NEW layers, DOMAIN layers = 1..n
  PROVE  StaysWithinLimits(layers)
<1> SUFFICES ASSUME ~Refused(layers), NEW p \in Parameters
             PROVE  /\ p \in Kernel => Resolved(layers, p) = TRUE
                    /\ Operator[p] = "selection" =>
                         /\ Resolved(layers, p) \in Supported[p]
                         /\ \A i \in Limiters(layers, p) :
                              Resolved(layers, p) \in List(layers[i], p)
  BY DEF StaysWithinLimits
<1>1. (\A i \in DOMAIN layers : WellRead(layers[i])) /\ ~Conflict(layers, p)
  BY DEF Refused
<1>2. ASSUME p \in Kernel
      PROVE  Resolved(layers, p) = TRUE
  <2>1. Operator[p] = "require" /\ Preset[p] = TRUE /\ p \notin Yielding
    BY <1>2, SchemaAssumption
  <2>2. ~OptedOut(layers, p)
    BY <1>1, <2>1 DEF OptedOut, WellRead
  <2>3. Limiters(layers, p) = {}
    BY <1>1, <2>1, ListIsListed DEF Limiters, Listed
  <2>4. \A i \in Speakers(layers, p) : Stated(layers[i], p) = TRUE
    <3>1. TAKE i \in Speakers(layers, p)
    <3>2. Stated(layers[i], p) \in BOOLEAN
      BY <1>1, <2>1, StatedIsPlain DEF Speakers, Plain
    <3>3. ~layers[i].says[p].opt_out
      BY <2>2 DEF OptedOut, Speakers
    <3>4. Stated(layers[i], p) # FALSE
      BY <1>1, <1>2, <3>3 DEF Stated, WellRead, Speakers
    <3> QED  BY <3>2, <3>4
  <2>5. Constrained(layers, p) => TRUE \in StatedValues(layers, p)
    BY <2>3, <2>4 DEF Constrained, StatedValues
  <2> QED  BY <2>1, <2>2, <2>5 DEF Resolved, Merged
<1>3. ASSUME Operator[p] = "selection"
      PROVE  /\ Resolved(layers, p) \in Supported[p]
             /\ \A i \in Limiters(layers, p) : Resolved(layers, p) \in List(layers[i], p)
  <2>1. CASE Constrained(layers, p)
    <3>1. Selection(layers, p) \in Remaining(layers, p)
      BY <1>1, <1>3, <2>1 DEF Conflict
    <3>2. Resolved(layers, p) = Selection(layers, p)
      BY <1>3, <2>1 DEF Resolved, Merged
    <3> QED  BY <3>1, <3>2 DEF Remaining, ListedValues
  <2>2. CASE ~Constrained(layers, p)
    BY <1>3, <2>2, SchemaAssumption DEF Resolved, Constrained
  <2> QED  BY <2>1, <2>2
<1> QED  BY <1>2, <1>3

-----------------------------------------------------------------------------
(* Intents.  The argument follows where the call comes from: a surface     *)
(* stands for one intent, none for promotion, and closes on any other      *)
(* claim.                                                                  *)

\* A surface that stays open reports the intent it stands for (_surface_intent).
LEMMA OpenSurface ==
  ASSUME NEW surface, NEW stands, NEW claimable, NEW c,
         Open(OnSurface(surface, stands, claimable, c))
  PROVE  /\ OnSurface(surface, stands, claimable, c).intent = stands
         /\ c.intent \in Compatible(surface) \cup {Absent}
  BY DEF Open, OnSurface, FailClosed, Result

\* On a step only an active one of those that execute is left open, and it
\* stands for execution; the same of the tools that execute.
LEMMA StepExecutes ==
  ASSUME NEW c, Open(OfStep(c))
  PROVE  /\ c.active /\ c.step = "execution"
         /\ OfStep(c).intent = "execution"
         /\ c.intent \in {"execution", Absent}
  BY OpenSurface DEF OfStep, Surface, Default, Compatible, Open, FailClosed, Result

\* A tool whose gate opens declared execution, or asks for less.
LEMMA ToolExecutes ==
  ASSUME NEW c, Open(OfTool(c))
  PROVE  \/ /\ c.active /\ c.tool = "execution"
            /\ OfTool(c).intent = "execution"
            /\ c.intent \in {"execution", Absent}
         \/ OfTool(c).intent \in {"exploration", "review"}
  BY OpenSurface DEF OfTool, Surface, Default, Compatible, Open, FailClosed, Result

\* An intent that stands was claimed, and never inferred to be execution.
LEMMA ClaimStands ==
  ASSUME NEW c, Open(OfClaim(c))
  PROVE  \/ /\ OfClaim(c).intent = c.intent /\ c.intent # Absent
            /\ c.source \in {Absent, "explicit"}
         \/ OfClaim(c).intent \in {"exploration", "review"}
  BY OpenSurface DEF OfClaim, Open, Result

\* What is open is neither a legacy nor an unintelligible call, and is decided
\* on the step, the tool or the claim (infer_workflow_intent).
LEMMA OpenIsDecided ==
  ASSUME NEW c \in Calls, Open(Infer(c))
  PROVE  /\ ~c.legacy_project /\ Unknown \notin {c.intent, c.source}
         /\ \/ c.step # Absent /\ Infer(c) = OfStep(c)
            \/ c.step = Absent /\ c.tool \notin NoTool /\ Infer(c) = OfTool(c)
            \/ c.step = Absent /\ c.tool \in NoTool /\ Infer(c) = OfClaim(c)
  BY DEF Infer, Open, FailClosed, Result

-----------------------------------------------------------------------------
\* Promotion is asked for, never inferred (infer_workflow_intent).
THEOREM PromotionNeverInferred ==
  ASSUME NEW c \in Calls
  PROVE  PromotionOnlyAsked(c)
<1>1. ASSUME PromotionAllowed(Infer(c))
      PROVE  /\ c.intent = "promotion" /\ c.source \in {Absent, "explicit"}
             /\ c.step = Absent /\ c.tool \in NoTool /\ ~c.legacy_project
  <2>1. Open(Infer(c)) /\ Infer(c).intent = "promotion"
    BY <1>1 DEF PromotionAllowed
  <2> QED  BY <2>1, OpenIsDecided, StepExecutes, ToolExecutes, ClaimStands
<1>2. ASSUME c.intent = "promotion", c.source \in {Absent, "explicit"},
             c.step = Absent, c.tool \in NoTool, ~c.legacy_project
      PROVE  PromotionAllowed(Infer(c))
  <2>1. Infer(c) = OfClaim(c)
    BY <1>2, MarkersAssumption DEF Infer, NoTool, Intents, WorkflowSources, Tools
  <2>2. OfClaim(c) = Result("promotion", "explicit")
    BY <1>2, MarkersAssumption DEF OfClaim, Intents, WorkflowSources
  <2> QED  BY <2>1, <2>2 DEF PromotionAllowed, Open, Result
<1> QED  BY <1>1, <1>2 DEF PromotionOnlyAsked

\* Nothing executes without grounds to (infer_workflow_intent).
THEOREM ExecutionGrounded ==
  ASSUME NEW c \in Calls
  PROVE  ExecutionHasGrounds(c)
<1> SUFFICES ASSUME Open(Infer(c)), Infer(c).intent = "execution"
             PROVE  \/ c.active /\ "execution" \in {c.step, c.tool}
                    \/ /\ c.step = Absent /\ c.tool \in NoTool
                       /\ c.intent = "execution"
  BY DEF ExecutionHasGrounds, ExecutionAllowed
<1> QED  BY OpenIsDecided, StepExecutes, ToolExecutes, ClaimStands

\* Only what a project declares to be for execution, or leaves to be, executes
\* (workflow_intent_report).
THEOREM ExecutionIsDeclared ==
  ASSUME NEW declared \in Declarations, NEW c \in Calls
  PROVE  ExecutionDeclared(declared, c)
<1> SUFFICES ASSUME ExecutionAllowed(IntentReport(declared, c))
             PROVE  declared \in {"execution", Absent} /\ ~c.legacy_project
  BY DEF ExecutionDeclared
<1> DEFINE stands == IF c.legacy_project THEN "review"
                     ELSE IF declared = Absent THEN "execution"
                     ELSE IF declared \in Intents THEN declared
                     ELSE Absent
           asked  == [c EXCEPT !.intent = stands]
<1>1. stands \in Intents \cup {Absent}
  BY DEF Intents
<1>2. asked \in Calls /\ asked.intent = stands
      /\ asked.legacy_project = c.legacy_project
  BY <1>1 DEF Calls
<1>3. CASE stands # Absent /\ IntentReport(declared, c) = Infer(asked)
  <2>1. Open(Infer(asked)) /\ Infer(asked).intent = "execution"
    BY <1>3 DEF ExecutionAllowed
  <2>2. ~asked.legacy_project /\ asked.intent \in {"execution", Absent}
    BY <1>2, <2>1, OpenIsDecided, StepExecutes, ToolExecutes, ClaimStands
  <2>3. stands = "execution" /\ ~c.legacy_project
    BY <1>2, <1>3, <2>2
  <2> QED  BY <2>3, MarkersAssumption DEF Intents
<1>4. CASE /\ IntentReport(declared, c).intent = stands
           /\ IntentReport(declared, c).fail_closed
                = (\/ declared \in {Unknown, "malformed"}
                   \/ c.legacy_project /\ declared \in {"execution", "promotion"}
                   \/ c.legacy_project)
  BY <1>4, MarkersAssumption DEF ExecutionAllowed, Open, Intents
<1>5. <1>3!1 \/ <1>4!1
  BY DEF IntentReport
<1> QED  BY <1>3, <1>4, <1>5

-----------------------------------------------------------------------------
(* Golden tables.  A freeze nobody disturbs has recorded its copies, but   *)
(* for the one it is about to hash; a check nobody disturbs has seen of    *)
(* the golden copies, and then of the tables, all but those in its queue.  *)

Records(k) ==
  at[k] \in {"copy", "hash", "write"} /\ "frozen" \notin disturbed[k] =>
    \A t \in Names : entries[k][t] \notin {NoHash, golden[t]} => at[k] = "hash" /\ t = Turn(k)

Faithful == \A k \in Keepers : Records(k)

Verifies(k) ==
  /\ at[k] \in {"verify", "compare"} => entries[k] = kept
  /\ at[k] = "verify" => \A t \in Names :
       entries[k][t] = NoHash \/ t \in queue[k] \/ golden[t] = entries[k][t]
  /\ at[k] = "compare" => \A t \in Names :
       entries[k][t] = NoHash \/ golden[t] = entries[k][t]
  /\ at[k] = "compare" /\ result[k] = "passed" => \A t \in Specs :
       t \in queue[k] \/ <<data[t], golden[t]>> \in Close

Checked == \A k \in Keepers : disturbed[k] = {} => Verifies(k)

Resting == \A k \in Keepers : at[k] = "idle" => entries[k] = Nothing

FInv == GoldenTypeOK /\ Resting /\ Faithful /\ FreezeVerifies /\ Checked

\* Every step of the golden tables keeps their types,
LEMMA GoldenTypeStep ==
  ASSUME GoldenTypeOK, [GoldenNext]_goldenVars
  PROVE  GoldenTypeOK'
<1>. USE ValuesAssumption DEF GoldenTypeOK, End, Disturbs, frozenFiles, keeper, history,
     Nothing, Beside, Specs
<1>1. ASSUME NEW k \in Keepers, StartFreeze(k)
      PROVE  GoldenTypeOK'
  BY <1>1 DEF StartFreeze
<1>2. ASSUME NEW k \in Keepers, CopyTable(k)
      PROVE  GoldenTypeOK'
  <2>1. golden' \in [Names -> Values \cup {NoTable, HalfFile}]
    BY <1>2 DEF CopyTable
  <2>2. at' \in [Keepers -> {"idle", "copy", "hash", "write", "check", "verify", "compare"}]
    BY SMTT(30), <1>2 DEF CopyTable
  <2>3. queue' \in [Keepers -> SUBSET Names]
    BY <1>2 DEF CopyTable
  <2>4. entries' \in [Keepers -> [Names -> Values \cup {HalfFile, NoHash}]]
    BY <1>2 DEF CopyTable
  <2>5. result' \in [Keepers -> {"none", "frozen", "passed", "failed", "raised"}]
    BY <1>2 DEF CopyTable
  <2>6. disturbed' \in [Keepers -> SUBSET {"data", "frozen"}]
    BY SMTT(30), <1>2 DEF CopyTable
  <2>7. intact' \in BOOLEAN /\ UNCHANGED <<listed, data, kept>>
    BY <1>2 DEF CopyTable
  <2>. QED
    BY <2>1, <2>2, <2>3, <2>4, <2>5, <2>6, <2>7
<1>3. ASSUME NEW k \in Keepers, HashCopy(k)
      PROVE  GoldenTypeOK'
  <2>1. entries' \in [Keepers -> [Names -> Values \cup {HalfFile, NoHash}]]
    <3>1. CASE golden[Turn(k)] = NoTable
      BY <1>3, <3>1 DEF HashCopy
    <3>2. CASE golden[Turn(k)] # NoTable
      <4>1. entries' = [entries EXCEPT ![k][Turn(k)] = golden[Turn(k)]]
        BY <1>3, <3>2 DEF HashCopy
      <4>2. \A t \in Names : t = Turn(k) => golden[Turn(k)] \in Values \cup {HalfFile}
        BY <3>2
      <4>. QED
        BY <4>1, <4>2
    <3>. QED
      BY <3>1, <3>2
  <2>2. at' \in [Keepers -> {"idle", "copy", "hash", "write", "check", "verify", "compare"}]
    BY SMTT(30), <1>3 DEF HashCopy
  <2>3. queue' \in [Keepers -> SUBSET Names]
    BY <1>3 DEF HashCopy
  <2>4. result' \in [Keepers -> {"none", "frozen", "passed", "failed", "raised"}]
    BY <1>3 DEF HashCopy
  <2>5. UNCHANGED <<listed, data, golden, kept, disturbed, intact>>
    BY <1>3 DEF HashCopy
  <2>. QED
    BY <2>1, <2>2, <2>3, <2>4, <2>5
<1>4. ASSUME NEW k \in Keepers, OpenKept(k)
      PROVE  GoldenTypeOK'
  BY <1>4 DEF OpenKept
<1>5. ASSUME NEW k \in Keepers, WriteKept(k)
      PROVE  GoldenTypeOK'
  BY <1>5 DEF WriteKept
<1>6. ASSUME NEW k \in Keepers, Analyse(k)
      PROVE  GoldenTypeOK'
  BY <1>6 DEF Analyse
<1>7. ASSUME NEW k \in Keepers, StartCheck(k)
      PROVE  GoldenTypeOK'
  <2>1. at' \in [Keepers -> {"idle", "copy", "hash", "write", "check", "verify", "compare"}]
    BY SMTT(30), <1>7 DEF StartCheck
  <2>2. queue' \in [Keepers -> SUBSET Names]
    BY SMTT(30), <1>7 DEF StartCheck
  <2>3. entries' \in [Keepers -> [Names -> Values \cup {HalfFile, NoHash}]]
    BY SMTT(30), <1>7 DEF StartCheck
  <2>4. result' \in [Keepers -> {"none", "frozen", "passed", "failed", "raised"}]
    BY <1>7 DEF StartCheck
  <2>5. UNCHANGED <<listed, data, golden, kept, disturbed, intact>>
    BY <1>7 DEF StartCheck
  <2>. QED
    BY <2>1, <2>2, <2>3, <2>4, <2>5
<1>8. ASSUME NEW k \in Keepers, Verify(k)
      PROVE  GoldenTypeOK'
  <2>1. at' \in [Keepers -> {"idle", "copy", "hash", "write", "check", "verify", "compare"}]
    BY <1>8 DEF Verify
  <2>2. queue' \in [Keepers -> SUBSET Names]
    BY <1>8 DEF Verify
  <2>3. entries' \in [Keepers -> [Names -> Values \cup {HalfFile, NoHash}]]
    BY <1>8 DEF Verify
  <2>4. result' \in [Keepers -> {"none", "frozen", "passed", "failed", "raised"}]
    BY <1>8 DEF Verify
  <2>5. UNCHANGED <<listed, data, golden, kept, disturbed, intact>>
    BY <1>8 DEF Verify
  <2>. QED
    BY <2>1, <2>2, <2>3, <2>4, <2>5
<1>9. ASSUME NEW k \in Keepers, CollectSpecs(k)
      PROVE  GoldenTypeOK'
  BY <1>9 DEF CollectSpecs
<1>10. ASSUME NEW k \in Keepers, CompareTable(k)
       PROVE  GoldenTypeOK'
  BY <1>10 DEF CompareTable
<1>11. ASSUME NEW k \in Keepers, EndCheck(k)
       PROVE  GoldenTypeOK'
  BY <1>11 DEF EndCheck
<1>12. ASSUME NEW k \in Keepers, Die(k)
       PROVE  GoldenTypeOK'
  BY <1>12 DEF Die
<1>13. CASE Tamper
  <2>1. PICK t \in Names, v \in Values \cup {NoTable} :
          \/ /\ data' = [data EXCEPT ![t] = v]
             /\ Disturbs(Keepers, "data") /\ UNCHANGED <<golden, intact>>
          \/ /\ golden' = [golden EXCEPT ![t] = v]
             /\ Disturbs(Keepers, "frozen") /\ intact' = FALSE /\ UNCHANGED data
    BY <1>13 DEF Tamper
  <2>2. data' \in [Names -> Values \cup {NoTable}]
    BY <2>1
  <2>3. golden' \in [Names -> Values \cup {NoTable, HalfFile}]
    BY <2>1
  <2>4. disturbed' \in [Keepers -> SUBSET {"data", "frozen"}]
    BY <2>1
  <2>5. intact' \in BOOLEAN /\ UNCHANGED <<listed, kept, at, queue, entries, result>>
    BY <1>13, <2>1 DEF Tamper
  <2>. QED
    BY <2>2, <2>3, <2>4, <2>5
<1>14. CASE UNCHANGED goldenVars
  BY <1>14 DEF goldenVars
<1>. QED
  BY <1>1, <1>2, <1>3, <1>4, <1>5, <1>6, <1>7, <1>8, <1>9, <1>10, <1>11, <1>12, <1>13, <1>14 DEF GoldenNext, KeeperNext

\* and leaves nothing behind of a freeze that is over.
LEMMA RestingStep ==
  ASSUME GoldenTypeOK, Resting, [GoldenNext]_goldenVars
  PROVE  Resting'
<1>. USE DEF GoldenTypeOK, Resting, End, Disturbs, frozenFiles, keeper, history
<1>1. ASSUME NEW k \in Keepers, StartFreeze(k)
      PROVE  Resting'
  BY <1>1 DEF StartFreeze
<1>2. ASSUME NEW k \in Keepers, CopyTable(k)
      PROVE  Resting'
  BY <1>2 DEF CopyTable
<1>3. ASSUME NEW k \in Keepers, HashCopy(k)
      PROVE  Resting'
  BY <1>3 DEF HashCopy
<1>4. ASSUME NEW k \in Keepers, OpenKept(k)
      PROVE  Resting'
  BY <1>4 DEF OpenKept
<1>5. ASSUME NEW k \in Keepers, WriteKept(k)
      PROVE  Resting'
  BY <1>5 DEF WriteKept
<1>6. ASSUME NEW k \in Keepers, Analyse(k)
      PROVE  Resting'
  BY <1>6 DEF Analyse
<1>7. ASSUME NEW k \in Keepers, StartCheck(k)
      PROVE  Resting'
  BY <1>7 DEF StartCheck
<1>8. ASSUME NEW k \in Keepers, Verify(k)
      PROVE  Resting'
  BY <1>8 DEF Verify
<1>9. ASSUME NEW k \in Keepers, CollectSpecs(k)
      PROVE  Resting'
  BY <1>9 DEF CollectSpecs
<1>10. ASSUME NEW k \in Keepers, CompareTable(k)
       PROVE  Resting'
  BY <1>10 DEF CompareTable
<1>11. ASSUME NEW k \in Keepers, EndCheck(k)
       PROVE  Resting'
  BY <1>11 DEF EndCheck
<1>12. ASSUME NEW k \in Keepers, Die(k)
       PROVE  Resting'
  BY <1>12 DEF Die
<1>13. CASE Tamper
  BY <1>13 DEF Tamper
<1>14. CASE UNCHANGED goldenVars
  BY <1>14 DEF goldenVars
<1>. QED
  BY <1>1, <1>2, <1>3, <1>4, <1>5, <1>6, <1>7, <1>8, <1>9, <1>10, <1>11, <1>12, <1>13, <1>14 DEF GoldenNext, KeeperNext

\* The turn of an orchestrator depends on its queue.
LEMMA SameTurn ==
  ASSUME NEW c \in Keepers, queue'[c] = queue[c]
  PROVE  Turn(c)' = Turn(c)
BY DEF Turn

\* What a keeper records are the hashes of its own copies, unless disturbed.
LEMMA RecordedStep ==
  ASSUME GoldenTypeOK, Resting, Faithful, [GoldenNext]_goldenVars, NEW c \in Keepers
  PROVE  Records(c)'
<1>. USE DEF GoldenTypeOK, End, Disturbs, frozenFiles, keeper, history
<1>0. Records(c) /\ (at[c] = "idle" => entries[c] = Nothing)
  BY DEF Faithful, Resting
<1>a. ASSUME at'[c] = at[c], entries'[c] = entries[c], queue'[c] = queue[c],
             disturbed[c] \subseteq disturbed'[c],
             golden' = golden \/ at[c] = "idle" \/ "frozen" \in disturbed'[c]
      PROVE  Records(c)'
  BY <1>0, <1>a, SameTurn DEF Records
<1>b. ASSUME at'[c] \notin {"copy", "hash", "write"}
      PROVE  Records(c)'
  BY <1>b DEF Records
<1>1. ASSUME NEW k \in Keepers, StartFreeze(k)
      PROVE  Records(c)'
  <2>1. CASE k = c
    BY <1>0, <1>1, <2>1 DEF StartFreeze, Records, Nothing
  <2>2. CASE k # c
    BY <1>1, <1>a, <2>2 DEF StartFreeze
  <2>. QED
    BY <2>1, <2>2
<1>2. ASSUME NEW k \in Keepers, CopyTable(k)
      PROVE  Records(c)'
  <2>1. CASE k = c /\ data[Turn(k)] # NoTable
    <3>1. at'[c] = "hash" /\ queue'[c] = queue[c] /\ entries'[c] = entries[c]
          /\ disturbed'[c] = disturbed[c] /\ at[c] = "copy"
          /\ golden' = [golden EXCEPT ![Turn(c)] = data[Turn(c)]]
      BY <1>2, <2>1 DEF CopyTable
    <3>. QED
      BY <1>0, <3>1, SameTurn DEF Records
  <2>2. CASE k = c /\ data[Turn(k)] = NoTable
    BY <1>2, <1>b, <2>2 DEF CopyTable
  <2>3. CASE k # c
    <3>1. at'[c] = at[c] /\ entries'[c] = entries[c] /\ queue'[c] = queue[c]
          /\ disturbed[c] \subseteq disturbed'[c]
          /\ (golden' = golden \/ at[c] = "idle" \/ "frozen" \in disturbed'[c])
      BY <1>2, <2>3 DEF CopyTable
    <3>. QED
      BY <1>a, <3>1
  <2>. QED
    BY <2>1, <2>2, <2>3
<1>3. ASSUME NEW k \in Keepers, HashCopy(k)
      PROVE  Records(c)'
  <2>1. CASE k = c /\ golden[Turn(k)] # NoTable
    <3>1. at'[c] = "copy" /\ disturbed'[c] = disturbed[c] /\ golden' = golden
          /\ at[c] = "hash" /\ entries' = [entries EXCEPT ![c][Turn(c)] = golden[Turn(c)]]
      BY <1>3, <2>1 DEF HashCopy
    <3>2. \A t \in Names :
            entries'[c][t] = IF t = Turn(c) THEN golden[t] ELSE entries[c][t]
      BY <3>1
    <3>. QED
      BY <1>0, <3>1, <3>2 DEF Records
  <2>2. CASE k = c /\ golden[Turn(k)] = NoTable
    BY <1>3, <1>b, <2>2 DEF HashCopy
  <2>3. CASE k # c
    <3>1. at'[c] = at[c] /\ entries'[c] = entries[c] /\ queue'[c] = queue[c]
          /\ disturbed' = disturbed /\ golden' = golden
      BY <1>3, <2>3 DEF HashCopy
    <3>. QED
      BY <1>a, <3>1
  <2>. QED
    BY <2>1, <2>2, <2>3
<1>4. ASSUME NEW k \in Keepers, OpenKept(k)
      PROVE  Records(c)'
  <2>1. CASE k = c
    <3>1. at[c] = "copy" /\ disturbed'[c] = disturbed[c] /\ UNCHANGED <<golden, entries>>
      BY <1>4, <2>1 DEF OpenKept
    <3>. QED
      BY <1>0, <3>1 DEF Records
  <2>2. CASE k # c
    BY <1>4, <1>a, <2>2 DEF OpenKept
  <2>. QED
    BY <2>1, <2>2
<1>5. ASSUME NEW k \in Keepers, WriteKept(k)
      PROVE  Records(c)'
  BY <1>5, <1>a, <1>b DEF WriteKept
<1>6. ASSUME NEW k \in Keepers, Analyse(k)
      PROVE  Records(c)'
  BY <1>6, <1>a, <1>b DEF Analyse
<1>7. ASSUME NEW k \in Keepers, StartCheck(k)
      PROVE  Records(c)'
  BY <1>7, <1>a, <1>b DEF StartCheck
<1>8. ASSUME NEW k \in Keepers, Verify(k)
      PROVE  Records(c)'
  BY <1>8, <1>a, <1>b DEF Verify
<1>9. ASSUME NEW k \in Keepers, CollectSpecs(k)
      PROVE  Records(c)'
  BY <1>9, <1>a, <1>b DEF CollectSpecs
<1>10. ASSUME NEW k \in Keepers, CompareTable(k)
       PROVE  Records(c)'
  BY <1>10, <1>a, <1>b DEF CompareTable
<1>11. ASSUME NEW k \in Keepers, EndCheck(k)
       PROVE  Records(c)'
  BY <1>11, <1>a, <1>b DEF EndCheck
<1>12. ASSUME NEW k \in Keepers, Die(k)
       PROVE  Records(c)'
  <2>1. CASE k = c
    BY <1>12, <1>b, <2>1 DEF Die
  <2>2. CASE k # c
    BY <1>12, <1>a, <2>2 DEF Die
  <2>. QED
    BY <2>1, <2>2
<1>13. CASE Tamper
  BY <1>13, <1>a DEF Tamper
<1>14. CASE UNCHANGED goldenVars
  BY <1>14, <1>a DEF goldenVars
<1>. QED
  BY <1>1, <1>2, <1>3, <1>4, <1>5, <1>6, <1>7, <1>8, <1>9, <1>10, <1>11, <1>12,
     <1>13, <1>14 DEF GoldenNext, KeeperNext

\* Only a freeze that nobody disturbed leaves its record intact.
LEMMA IntactStep ==
  ASSUME GoldenTypeOK, Faithful, FreezeVerifies, [GoldenNext]_goldenVars
  PROVE  FreezeVerifies'
<1>. USE DEF GoldenTypeOK, frozenFiles, history
<1>1. CASE intact' => intact /\ UNCHANGED <<golden, kept>>
  BY <1>1 DEF FreezeVerifies
<1>2. ASSUME NEW k \in Keepers, WriteKept(k)
      PROVE  FreezeVerifies'
  <2>1. kept' = entries[k] /\ golden' = golden /\ at[k] = "write"
        /\ (intact' => "frozen" \notin disturbed[k])
    BY <1>2 DEF WriteKept
  <2>2. Records(k)
    BY DEF Faithful
  <2>. QED
    BY <2>1, <2>2 DEF Records, FreezeVerifies
<1>3. (intact' => intact /\ UNCHANGED <<golden, kept>>) \/ \E k \in Keepers : WriteKept(k)
  <2>1. ASSUME NEW k \in Keepers, KeeperNext(k), ~WriteKept(k)
        PROVE  intact' => intact /\ UNCHANGED <<golden, kept>>
    BY <2>1 DEF KeeperNext, StartFreeze, CopyTable, HashCopy, OpenKept, Analyse,
       StartCheck, Verify, CollectSpecs, CompareTable, EndCheck, Die
  <2>2. Tamper \/ UNCHANGED goldenVars => (intact' => intact /\ UNCHANGED <<golden, kept>>)
    BY DEF Tamper, goldenVars
  <2>. QED
    BY <2>1, <2>2 DEF GoldenNext
<1>. QED
  BY <1>1, <1>2, <1>3

\* A copy that was checked and not disturbed still verifies.
LEMMA CheckedStep ==
  ASSUME GoldenTypeOK, Checked, [GoldenNext]_goldenVars, NEW c \in Keepers
  PROVE  disturbed'[c] = {} => Verifies(c)'
<1>. USE DEF GoldenTypeOK, End, Disturbs, frozenFiles, keeper, history
<1>0. disturbed[c] = {} => Verifies(c)
  BY DEF Checked
<1>a. ASSUME at'[c] = at[c], entries'[c] = entries[c], queue'[c] = queue[c],
             result'[c] = result[c], listed' = listed, disturbed[c] \subseteq disturbed'[c],
             \/ UNCHANGED <<data, golden, kept>> \/ at[c] = "idle" \/ disturbed'[c] # {}
      PROVE  disturbed'[c] = {} => Verifies(c)'
  <2>1. CASE UNCHANGED <<data, golden, kept>>
    <3>1. Specs' = Specs
      BY <1>a, <2>1 DEF Specs
    <3>. QED
      BY <1>0, <1>a, <2>1, <3>1 DEF Verifies
  <2>2. CASE at[c] = "idle"
    BY <1>a, <2>2 DEF Verifies
  <2>. QED
    BY <1>a, <2>1, <2>2
<1>b. ASSUME at'[c] \notin {"verify", "compare"}
      PROVE  Verifies(c)'
  BY <1>b DEF Verifies
<1>1. ASSUME NEW k \in Keepers, StartFreeze(k)
      PROVE  disturbed'[c] = {} => Verifies(c)'
  BY <1>1, <1>a, <1>b DEF StartFreeze
<1>2. ASSUME NEW k \in Keepers, CopyTable(k)
      PROVE  disturbed'[c] = {} => Verifies(c)'
  <2>1. CASE k = c
    BY <1>2, <1>b, <2>1 DEF CopyTable
  <2>2. CASE k # c
    <3>1. /\ at'[c] = at[c] /\ entries'[c] = entries[c] /\ queue'[c] = queue[c]
          /\ result'[c] = result[c] /\ listed' = listed /\ disturbed[c] \subseteq disturbed'[c]
      BY <1>2, <2>2 DEF CopyTable
    <3>2. \/ UNCHANGED <<data, golden, kept>>
          \/ Disturbs(Keepers \ {k}, "frozen")
      BY <1>2, <2>2 DEF CopyTable
    <3>3. Disturbs(Keepers \ {k}, "frozen") => at[c] = "idle" \/ disturbed'[c] # {}
      BY ZenonT(60), <2>2
    <3>. QED
      BY <1>a, <3>1, <3>2, <3>3
  <2>. QED
    BY <2>1, <2>2
<1>3. ASSUME NEW k \in Keepers, HashCopy(k)
      PROVE  disturbed'[c] = {} => Verifies(c)'
  BY <1>3, <1>a, <1>b DEF HashCopy
<1>4. ASSUME NEW k \in Keepers, OpenKept(k)
      PROVE  disturbed'[c] = {} => Verifies(c)'
  BY <1>4, <1>a, <1>b DEF OpenKept
<1>5. ASSUME NEW k \in Keepers, WriteKept(k)
      PROVE  disturbed'[c] = {} => Verifies(c)'
  BY <1>5, <1>a, <1>b DEF WriteKept
<1>6. ASSUME NEW k \in Keepers, Analyse(k)
      PROVE  disturbed'[c] = {} => Verifies(c)'
  BY <1>6, <1>a, <1>b DEF Analyse
<1>7. ASSUME NEW k \in Keepers, StartCheck(k)
      PROVE  disturbed'[c] = {} => Verifies(c)'
  <2>1. CASE k = c /\ kept \notin {NoTable, HalfFile}
    <3>1. at'[c] = "verify" /\ entries'[c] = kept /\ kept' = kept /\ golden' = golden
          /\ queue'[c] = {t \in Names : kept[t] # NoHash}
      BY <1>7, <2>1 DEF StartCheck
    <3>. QED
      BY <3>1 DEF Verifies
  <2>2. CASE k = c /\ kept \in {NoTable, HalfFile}
    BY <1>7, <1>b, <2>2 DEF StartCheck
  <2>3. CASE k # c
    BY <1>7, <1>a, <2>3 DEF StartCheck
  <2>. QED
    BY <2>1, <2>2, <2>3
<1>8. ASSUME NEW k \in Keepers, Verify(k)
      PROVE  disturbed'[c] = {} => Verifies(c)'
  <2>1. CASE k = c /\ golden[Turn(k)] = entries[k][Turn(k)]
    <3>1. at'[c] = "verify" /\ at[c] = "verify" /\ queue'[c] = queue[c] \ {Turn(c)}
          /\ UNCHANGED <<kept, golden, entries, disturbed>>
      BY <1>8, <2>1 DEF Verify
    <3>. QED
      BY <1>0, <2>1, <3>1 DEF Verifies
  <2>2. CASE k = c /\ golden[Turn(k)] # entries[k][Turn(k)]
    BY <1>8, <1>b, <2>2 DEF Verify
  <2>3. CASE k # c
    <3>1. /\ at'[c] = at[c] /\ entries'[c] = entries[c] /\ queue'[c] = queue[c]
          /\ result'[c] = result[c]
      BY <1>8, <2>3 DEF Verify
    <3>. QED
      BY <1>8, <1>a, <3>1 DEF Verify
  <2>. QED
    BY <2>1, <2>2, <2>3
<1>9. ASSUME NEW k \in Keepers, CollectSpecs(k)
      PROVE  disturbed'[c] = {} => Verifies(c)'
  <2>1. CASE k = c
    <3>1. at'[c] = "compare" /\ at[c] = "verify" /\ queue[c] = {} /\ queue'[c] = Specs
          /\ UNCHANGED <<kept, golden, entries, disturbed, data, listed>>
      BY <1>9, <2>1 DEF CollectSpecs
    <3>2. Specs' = Specs
      BY <3>1 DEF Specs
    <3>. QED
      BY <1>0, <3>1, <3>2 DEF Verifies
  <2>2. CASE k # c
    BY <1>9, <1>a, <2>2 DEF CollectSpecs
  <2>. QED
    BY <2>1, <2>2
<1>10. ASSUME NEW k \in Keepers, CompareTable(k)
       PROVE  disturbed'[c] = {} => Verifies(c)'
  <2>1. CASE k = c
    <3>1. at'[c] = "compare" /\ at[c] = "compare" /\ queue'[c] = queue[c] \ {Turn(c)}
          /\ UNCHANGED <<kept, golden, entries, disturbed, data, listed>>
      BY <1>10, <2>1 DEF CompareTable
    <3>2. result'[c] = "passed" =>
            result[c] = "passed" /\ <<data[Turn(c)], golden[Turn(c)]>> \in Close
      BY <1>10, <2>1 DEF CompareTable
    <3>3. Specs' = Specs
      BY <3>1 DEF Specs
    <3>. QED
      BY <1>0, <3>1, <3>2, <3>3 DEF Verifies
  <2>2. CASE k # c
    BY <1>10, <1>a, <2>2 DEF CompareTable
  <2>. QED
    BY <2>1, <2>2
<1>11. ASSUME NEW k \in Keepers, EndCheck(k)
       PROVE  disturbed'[c] = {} => Verifies(c)'
  BY <1>11, <1>a, <1>b DEF EndCheck
<1>12. ASSUME NEW k \in Keepers, Die(k)
       PROVE  disturbed'[c] = {} => Verifies(c)'
  <2>1. CASE k = c
    BY <1>12, <1>b, <2>1 DEF Die
  <2>2. CASE k # c
    BY <1>12, <1>a, <2>2 DEF Die
  <2>. QED
    BY <2>1, <2>2
<1>13. CASE Tamper
  <2>1. disturbed'[c] # {} \/ at[c] = "idle"
    <3>1. Disturbs(Keepers, "data") \/ Disturbs(Keepers, "frozen")
      BY <1>13 DEF Tamper
    <3>. QED
      BY ZenonT(60), <3>1
  <2>2. /\ at'[c] = at[c] /\ entries'[c] = entries[c] /\ queue'[c] = queue[c]
        /\ result'[c] = result[c] /\ listed' = listed
    BY <1>13 DEF Tamper
  <2>3. disturbed[c] \subseteq disturbed'[c]
    BY <1>13 DEF Tamper
  <2>. QED
    BY <1>a, <2>1, <2>2, <2>3
<1>14. CASE UNCHANGED goldenVars
  BY <1>14, <1>a DEF goldenVars
<1>. QED
  BY <1>1, <1>2, <1>3, <1>4, <1>5, <1>6, <1>7, <1>8, <1>9, <1>10, <1>11, <1>12,
     <1>13, <1>14 DEF GoldenNext, KeeperNext

\* The invariant of the golden tables holds initially,
LEMMA GoldenInitially == GoldenInit => FInv
<1>. SUFFICES ASSUME GoldenInit PROVE FInv
  OBVIOUS
<1>1. GoldenTypeOK
  BY DEF GoldenInit, GoldenTypeOK, Nothing
<1>2. Resting /\ Faithful /\ FreezeVerifies /\ Checked
  BY DEF GoldenInit, Resting, Faithful, Records, FreezeVerifies, Checked, Verifies
<1>. QED
  BY <1>1, <1>2 DEF FInv

\* and every step keeps it.
LEMMA GoldenInvariance == FInv /\ [GoldenNext]_goldenVars => FInv'
<1>. SUFFICES ASSUME FInv, [GoldenNext]_goldenVars PROVE FInv'
  OBVIOUS
<1>1. Faithful'
  BY RecordedStep DEF FInv, Faithful
<1>2. Checked'
  BY CheckedStep DEF FInv, Checked
<1>. QED
  BY <1>1, <1>2, GoldenTypeStep, RestingStep, IntactStep DEF FInv

\* However the tables change while they are frozen, and whoever dies, a freeze
\* that finishes has recorded the copies it leaves (freeze_golden_dataset
\* hashes the destination).
THEOREM FreezeRecordsItsCopies == GoldenSpec => []FreezeVerifies
<1>1. FInv => FreezeVerifies
  BY DEF FInv
<1>. QED
  BY GoldenInitially, GoldenInvariance, <1>1, PTL DEF GoldenSpec

\* A check that nobody disturbs passes only tables that are close to what the
\* last freeze to finish recorded, for any tables and tolerances and any number
\* of orchestrators (check_golden_regression).
THEOREM PassesAsFrozen == GoldenSpec => PassedAsFrozen
<1>1. ASSUME FInv, [GoldenNext]_goldenVars, NEW k \in Keepers, PassesCheck(k),
             disturbed[k] = {}, NEW t \in Specs, kept[t] # NoHash
      PROVE  <<data[t], kept[t]>> \in Close
  <2>. USE DEF FInv, GoldenTypeOK
  <2>1. EndCheck(k)
    <3>1. ASSUME NEW i \in Keepers, KeeperNext(i), ~EndCheck(k)
          PROVE  FALSE
      BY <1>1, <3>1 DEF PassesCheck, KeeperNext, StartFreeze, CopyTable, HashCopy, OpenKept,
         WriteKept, Analyse, StartCheck, Verify, CollectSpecs, CompareTable, EndCheck, Die, End
    <3>2. ~Tamper /\ ~UNCHANGED goldenVars
      BY <1>1 DEF PassesCheck, Tamper, keeper, goldenVars
    <3>. QED
      BY <1>1, <3>1, <3>2 DEF GoldenNext
  <2>2. at[k] = "compare" /\ queue[k] = {} /\ result[k] = "passed"
    BY <1>1, <2>1 DEF EndCheck, End, PassesCheck
  <2>3. Verifies(k)
    BY <1>1 DEF Checked
  <2>4. t \in Names
    BY DEF Specs
  <2>. QED
    BY <1>1, <2>2, <2>3, <2>4 DEF Verifies
<1>2. FInv /\ [GoldenNext]_goldenVars =>
        [\A k \in Keepers : PassesCheck(k) /\ disturbed[k] = {} =>
           \A t \in Specs : kept[t] # NoHash => <<data[t], kept[t]>> \in Close]_goldenVars
  BY <1>1
<1>. QED
  BY GoldenInitially, GoldenInvariance, <1>2, PTL DEF GoldenSpec, PassedAsFrozen

-----------------------------------------------------------------------------
(* Batches.  While it looks, a call that is in time has every project that *)
(* it owes in its list, or has validated it, left it over for a next call, *)
(* or passed over it because the batch it resumes has validated it.        *)

Vouched ==
  /\ before \subseteq validated /\ done \subseteq validated
  /\ \A b \in Batches : stored[b] \notin {NoBatch, Half} => stored[b].checked \subseteq validated

Accounted ==
  stage = "look" /\ ~late =>
    \A p \in Owed : <<p, kind[p]>> \in list \/ p \in done \cup over \cup before

BInv == BatchTypeOK /\ Vouched /\ Accounted

\* Between the calls there is none.
LEMMA NoCallTyped ==
  /\ NoCall \in [root : Roots \cup {NoBatch}, include : SUBSET Kinds,
                 max : 1..MostProjects, dry : BOOLEAN, id : Batches \cup {NoBatch}]
BY CapAssumption DEF NoCall

\* A step keeps the types.
LEMMA BatchTypeStep ==
  ASSUME BatchTypeOK, [BatchNext]_batchVars
  PROVE  BatchTypeOK'
<1>. USE UnderAssumption, FlagsAssumption, CapAssumption DEF BatchTypeOK, Finish, Spoil, Roots, Resumable
<1>1. CASE Call
  BY <1>1 DEF Call
<1>2. CASE Discover
  <2>1. list' = {<<p, kind[p]>> : p \in {q \in Under[call.root] : kind[q] # Gone}}
    BY <1>2 DEF Discover
  <2>2. Under[call.root] \subseteq Known
    BY <1>2, UnderAssumption DEF Discover
  <2>3. list' \subseteq Known \X Kinds
    BY <2>1, <2>2
  <2>. QED
    BY <1>2, <2>3 DEF Discover
<1>3. CASE DiscoverFails
  BY <1>3 DEF DiscoverFails
<1>4. CASE Look
  <2>1. PICK next \in list :
          /\ list' = list \ {next}
          /\ done' \in {done, done \cup {next[1]}}
          /\ validated' \in {validated, validated \cup {next[1]}}
          /\ over' \in {over, over \cup {next[1]}}
    BY <1>4 DEF Look
  <2>2. next[1] \in Known
    OBVIOUS
  <2>. QED
    BY <1>4, <2>1, <2>2 DEF Look
<1>5. CASE TimeOut
  BY <1>5 DEF TimeOut
<1>6. CASE Answer
  BY <1>6, NoCallTyped DEF Answer
<1>7. CASE OpenBatch
  BY <1>7 DEF OpenBatch
<1>8. CASE WriteBatch
  <2>1. stored' \in [Batches -> [root : Roots \cup {NoBatch}, checked : SUBSET Known]
                              \cup {NoBatch, Half}]
    BY <1>8 DEF WriteBatch
  <2>2. stage' = "idle" /\ call' = NoCall /\ before' = {} /\ list' = {} /\ done' = {}
        /\ over' = {} /\ late' = FALSE /\ steady' = {} /\ UNCHANGED <<kind, validated, mishap>>
    BY <1>8 DEF WriteBatch
  <2>3. last' \in Batches \cup {NoBatch}
    BY <1>8 DEF WriteBatch
  <2>. QED
    BY <2>1, <2>2, <2>3, NoCallTyped
<1>9. CASE ServerDies
  <2>1. stage' = "idle" /\ call' = NoCall /\ before' = {} /\ list' = {} /\ done' = {}
        /\ over' = {} /\ late' = FALSE /\ steady' = {} /\ UNCHANGED <<kind, stored, validated, last>>
    BY <1>9 DEF ServerDies
  <2>2. mishap' \in 0..MaxTrouble
    BY <1>9 DEF ServerDies
  <2>. QED
    BY <2>1, <2>2, NoCallTyped
<1>10. CASE EditProject
  BY <1>10 DEF EditProject
<1>11. CASE UNCHANGED batchVars
  BY <1>11 DEF batchVars
<1>. QED
  BY <1>1, <1>2, <1>3, <1>4, <1>5, <1>6, <1>7, <1>8, <1>9, <1>10, <1>11 DEF BatchNext

\* What a manifest lists has been validated.
LEMMA VouchedStep ==
  ASSUME BatchTypeOK, Vouched, [BatchNext]_batchVars
  PROVE  Vouched'
<1>. USE DEF BatchTypeOK, Vouched, Finish, Spoil, Resumable
<1>1. CASE Call
  BY <1>1 DEF Call
<1>2. CASE Discover
  BY <1>2 DEF Discover
<1>3. CASE DiscoverFails
  BY <1>3 DEF DiscoverFails
<1>4. CASE Look
  BY <1>4 DEF Look
<1>5. CASE TimeOut
  BY <1>5 DEF TimeOut
<1>6. CASE Answer
  BY <1>6 DEF Answer
<1>7. CASE OpenBatch
  BY <1>7 DEF OpenBatch
<1>8. CASE WriteBatch
  BY <1>8 DEF WriteBatch
<1>9. CASE ServerDies
  BY <1>9 DEF ServerDies
<1>10. CASE EditProject
  BY <1>10 DEF EditProject
<1>11. CASE UNCHANGED batchVars
  BY <1>11 DEF batchVars
<1>. QED
  BY <1>1, <1>2, <1>3, <1>4, <1>5, <1>6, <1>7, <1>8, <1>9, <1>10, <1>11 DEF BatchNext

\* No project that is owed is lost.
LEMMA AccountedStep ==
  ASSUME BatchTypeOK, Accounted, [BatchNext]_batchVars
  PROVE  Accounted'
<1>. USE UnderAssumption DEF BatchTypeOK, Accounted, Finish, Spoil, Owed, Roots, Skipped
<1>1. CASE Call
  BY <1>1 DEF Call
<1>2. CASE Discover
  BY <1>2 DEF Discover
<1>3. CASE DiscoverFails
  BY <1>3 DEF DiscoverFails
<1>4. CASE Look
  <2>1. PICK next \in list :
          LET check == ~Skipped(next[1], next[2]) /\ Cardinality(done) < call.max IN
            /\ list' = list \ {next}
            /\ done' = IF check THEN done \cup {next[1]} ELSE done
            /\ over' = IF check \/ Skipped(next[1], next[2]) THEN over ELSE over \cup {next[1]}
    BY <1>4 DEF Look
  <2>2. UNCHANGED <<kind, stage, call, before, late, steady>> /\ stage = "look"
    BY <1>4 DEF Look
  <2>3. ASSUME ~late, NEW p \in Owed
        PROVE  <<p, kind[p]>> \in list' \/ p \in done' \cup over' \cup before
    <3>1. <<p, kind[p]>> \in list \/ p \in done \cup over \cup before
      BY <2>2, <2>3 DEF Accounted
    <3>2. CASE next # <<p, kind[p]>>
      BY <2>1, <3>1, <3>2
    <3>3. CASE next = <<p, kind[p]>>
      <4>1. next[1] = p /\ (Skipped(next[1], next[2]) => p \in before)
        BY <3>3 DEF Owed, Skipped
      <4>. QED
        BY <2>1, <4>1
    <3>. QED
      BY <3>2, <3>3
  <2>4. Owed' = Owed
    BY <2>2 DEF Owed
  <2>. QED
    BY <2>2, <2>3, <2>4 DEF Accounted
<1>5. CASE TimeOut
  BY <1>5 DEF TimeOut
<1>6. CASE Answer
  BY <1>6 DEF Answer
<1>7. CASE OpenBatch
  BY <1>7 DEF OpenBatch
<1>8. CASE WriteBatch
  BY <1>8 DEF WriteBatch
<1>9. CASE ServerDies
  BY <1>9 DEF ServerDies
<1>10. CASE EditProject
  BY <1>10 DEF EditProject
<1>11. CASE UNCHANGED batchVars
  BY <1>11 DEF batchVars
<1>. QED
  BY <1>1, <1>2, <1>3, <1>4, <1>5, <1>6, <1>7, <1>8, <1>9, <1>10, <1>11 DEF BatchNext

\* However a worker, the server or the time of a call dies, whoever edits the
\* projects and however ids are used again: a call that ends well, in time and
\* with nothing left over, has validated every project it owes, or resumes a
\* batch that has (batch_check, resume_manifest_path).
THEOREM CompleteIsValidated == BatchSpec => []CompleteMeansValidated
<1>1. BatchInit => BInv
  <2>. SUFFICES ASSUME BatchInit PROVE BInv
    OBVIOUS
  <2>1. {"official", "invalid"} \subseteq Kinds
    <3>1. 1 \in DOMAIN Classes /\ 2 \in DOMAIN Classes
          /\ "official" \in Classes[1] /\ "invalid" \in Classes[2]
      BY DEF Classes
    <3>. QED
      BY <3>1 DEF Kinds
  <2>2. kind \in [Known -> Kinds \cup {Gone}]
    BY <2>1 DEF BatchInit
  <2>3. stored \in [Batches -> [root : Roots \cup {NoBatch}, checked : SUBSET Known]
                              \cup {NoBatch, Half}]
    BY DEF BatchInit
  <2>4. BatchTypeOK
    <3>1. stage = "idle" /\ call = NoCall /\ before = {} /\ list = {} /\ done = {}
          /\ over = {} /\ late = FALSE /\ steady = {} /\ validated = {} /\ last = NoBatch
      BY DEF BatchInit
    <3>2. mishap \in 0..MaxTrouble
      BY CapAssumption DEF BatchInit
    <3>. QED
      BY <2>2, <2>3, <3>1, <3>2, NoCallTyped DEF BatchTypeOK
  <2>5. Vouched /\ Accounted
    BY DEF BatchInit, Vouched, Accounted
  <2>. QED
    BY <2>4, <2>5 DEF BInv
<1>2. BInv /\ [BatchNext]_batchVars => BInv'
  BY BatchTypeStep, VouchedStep, AccountedStep DEF BInv
<1>3. BInv => CompleteMeansValidated
  BY DEF BInv, Vouched, Accounted, CompleteMeansValidated
<1>. QED
  BY <1>1, <1>2, <1>3, PTL DEF BatchSpec

-----------------------------------------------------------------------------
(* Visual baselines.  The snapshots and every manifest that a check loads  *)
(* are backed (Backed); and while check-alls do not run side by side, the  *)
(* manifest and what each has in memory are what the last update to finish *)
(* recorded, but for the figures it is renewing (Kept).                    *)

\* Where a check-all is goes with what it has in hand.
Placed ==
  \A c \in Checkers :
    /\ pc[c] \in {"figure", "copy", "compare"} => figs[c] # <<>>
    /\ pc[c] = "config" => todo[c] # {}
    /\ pc[c] = "copy" => mode[c] = "update" /\ hash[c] # Missing
    /\ mode[c] # "update" => dirty[c] = {}

Backed ==
  /\ manifest # Torn => \A f \in Figures : manifest[f] # None => manifest[f] \in backing[f]
  /\ \A f \in Figures : snap[f] \in Contents => snap[f] \in backing[f]
  /\ \A c \in Checkers : pc[c] # "idle" /\ mode[c] # "update" =>
       \A f \in Figures : mem[c][f] # None => mem[c][f] \in backing[f]

Alone == \A c, d \in Checkers : pc[c] # "idle" /\ pc[d] # "idle" => c = d

Kept ==
  /\ Alone
  /\ manifest # Torn => \A f \in Figures : manifest[f] = frozen[f]
  /\ \A c \in Checkers : pc[c] # "idle" =>
       \A f \in Figures : f \in dirty[c] \/ mem[c][f] = frozen[f]

VInv == TypeOK /\ Placed /\ Backed /\ (~overlap => Kept)

\* The current project is one of those that are left.
LEMMA CurrentIsLeft ==
  ASSUME TypeOK, NEW c \in Checkers, todo[c] # {}
  PROVE  CurrentProject(c) \in todo[c]
<1>. DEFINE places == {i \in DOMAIN Projects : Projects[i] \in todo[c]}
<1>1. DOMAIN Projects \subseteq Nat /\ todo[c] \subseteq RangeOf(Projects)
  BY ProjectsAssumption DEF TypeOK
<1>2. places # {} /\ places \in SUBSET Nat
  BY <1>1 DEF RangeOf
<1>3. PICK i \in places : \A j \in places : i <= j
  BY <1>2, SmallestNatural1
<1>4. \A j \in 1..(i - 1) : Projects[j] \notin todo[c]
  BY <1>1, <1>3, ProjectsAssumption
<1>. QED
  BY <1>3, <1>4 DEF CurrentProject

\* A check-all that proceeds, judges or stops has what its place requires.
LEMMA ProceedTyped ==
  ASSUME TypeOK, NEW c \in Checkers, NEW rest \in Seq(Figures), Proceed(c, rest)
  PROVE  /\ pc' \in [Checkers -> {"idle", "project", "config", "figure", "copy",
                                  "compare", "write"}]
         /\ figs' \in [Checkers -> Seq(Figures)]
         /\ todo' \in [Checkers -> SUBSET RangeOf(Projects)]
BY DEF TypeOK, Proceed

\* The verdict on a figure keeps the checker's state well typed,
LEMMA JudgeTyped ==
  ASSUME TypeOK, Placed, NEW c \in Checkers, NEW good \in BOOLEAN, Judge(c, good),
         pc[c] \in {"figure", "copy", "compare"}
  PROVE  /\ pc' \in [Checkers -> {"idle", "project", "config", "figure", "copy",
                                  "compare", "write"}]
         /\ figs' \in [Checkers -> Seq(Figures)]
         /\ todo' \in [Checkers -> SUBSET RangeOf(Projects)]
         /\ ok' \in [Checkers -> BOOLEAN]
<1>1. Tail(figs[c]) \in Seq(Figures)
  BY DEF TypeOK, Placed
<1>2. Proceed(c, Tail(figs[c])) /\ ok' = [ok EXCEPT ![c] = @ /\ good]
  BY DEF Judge
<1>3. ok' \in [Checkers -> BOOLEAN]
  BY <1>2 DEF TypeOK
<1>. QED
  BY <1>1, <1>2, <1>3, ProceedTyped

\* and so does giving up.
LEMMA StopTyped ==
  ASSUME TypeOK, NEW c \in Checkers, Stop(c)
  PROVE  /\ pc' \in [Checkers -> {"idle", "project", "config", "figure", "copy",
                                  "compare", "write"}]
         /\ figs' \in [Checkers -> Seq(Figures)]
         /\ todo' \in [Checkers -> SUBSET RangeOf(Projects)]
         /\ ok' \in [Checkers -> BOOLEAN] /\ ran' \in [Checkers -> BOOLEAN]
         /\ mem' \in [Checkers -> [Figures -> Contents \cup {None}]]
         /\ dirty' \in [Checkers -> SUBSET Figures]
         /\ hash' \in [Checkers -> Contents \cup {Missing}]
         /\ mode' = mode
<1>1. pc' \in [Checkers -> {"idle", "project", "config", "figure", "copy", "compare", "write"}]
      /\ figs' \in [Checkers -> Seq(Figures)]
  BY DEF TypeOK, Stop
<1>2. todo' \in [Checkers -> SUBSET RangeOf(Projects)]
      /\ ok' \in [Checkers -> BOOLEAN] /\ ran' \in [Checkers -> BOOLEAN]
  BY DEF TypeOK, Stop
<1>3. mem' \in [Checkers -> [Figures -> Contents \cup {None}]]
  BY DEF TypeOK, Stop, NoEntries
<1>4. dirty' \in [Checkers -> SUBSET Figures]
      /\ hash' \in [Checkers -> Contents \cup {Missing}] /\ mode' = mode
  BY DEF TypeOK, Stop
<1>. QED
  BY <1>1, <1>2, <1>3, <1>4

\* A step keeps the types.
LEMMA BaselineTypeStep ==
  ASSUME TypeOK, Placed, [Next]_vars
  PROVE  TypeOK'
<1>. USE ContentsAssumption, MishapsAssumption DEF TypeOK, Placed, Modes, Stop, Proceed, Judge, Visiting, Mishap, files, checker, past
<1>1. ASSUME NEW c \in Checkers, NEW m \in Modes, Start(c, m)
      PROVE  TypeOK'
  BY <1>1 DEF Start
<1>2. ASSUME NEW c \in Checkers, Unrunnable(c)
      PROVE  TypeOK'
  BY <1>2 DEF Unrunnable
<1>3. ASSUME NEW c \in Checkers, Build(c)
      PROVE  TypeOK'
  BY <1>3 DEF Build
<1>4. ASSUME NEW c \in Checkers, LoadConfig(c)
      PROVE  TypeOK'
  <2>1. CurrentProject(c) \in RangeOf(Projects)
    BY <1>4, CurrentIsLeft DEF LoadConfig
  <2>2. Proceed(c, IF config[CurrentProject(c)] THEN Declared[CurrentProject(c)] ELSE <<>>)
        /\ ok' = [ok EXCEPT ![c] = @ /\ ran[c]]
    BY <1>4 DEF LoadConfig
  <2>3. (IF config[CurrentProject(c)] THEN Declared[CurrentProject(c)] ELSE <<>>) \in Seq(Figures)
    BY <2>1, ProjectsAssumption
  <2>4. ok' \in [Checkers -> BOOLEAN]
    BY <2>2
  <2>5. UNCHANGED <<out, snap, manifest, config, mode, mem, dirty, ran, hash, mishaps,
                    frozen, backing, overlap>>
    BY <1>4 DEF LoadConfig
  <2>. QED
    BY <2>2, <2>3, <2>4, <2>5, ProceedTyped
<1>5. ASSUME NEW c \in Checkers, Visit(c)
      PROVE  TypeOK'
  <2>1. PICK f \in Figures : Visiting(c, f) /\ hash' = [hash EXCEPT ![c] = out[f]]
    BY <1>5 DEF Visit
  <2>2. hash' \in [Checkers -> Contents \cup {Missing}]
    BY <2>1
  <2>3. \/ \E good \in BOOLEAN : Judge(c, good)
        \/ /\ pc' = [pc EXCEPT ![c] = "copy"] \/ pc' = [pc EXCEPT ![c] = "compare"]
           /\ UNCHANGED <<figs, todo, ok>>
    BY <1>5 DEF Visit
  <2>4. pc[c] \in {"figure", "copy", "compare"}
    BY <2>1
  <2>5. /\ pc' \in [Checkers -> {"idle", "project", "config", "figure", "copy",
                                  "compare", "write"}]
        /\ figs' \in [Checkers -> Seq(Figures)]
        /\ todo' \in [Checkers -> SUBSET RangeOf(Projects)]
        /\ ok' \in [Checkers -> BOOLEAN]
    BY <2>3, <2>4, JudgeTyped
  <2>6. UNCHANGED <<out, snap, manifest, config, mode, mem, dirty, ran, mishaps,
                    frozen, backing, overlap>>
    BY <1>5 DEF Visit
  <2>. QED
    BY <2>2, <2>5, <2>6
<1>6. ASSUME NEW c \in Checkers, Compare(c)
      PROVE  TypeOK'
  BY <1>6 DEF Compare
<1>7. ASSUME NEW c \in Checkers, Copy(c)
      PROVE  TypeOK'
  BY <1>7 DEF Copy
<1>8. ASSUME NEW c \in Checkers, CopyRaises(c)
      PROVE  TypeOK'
  <2>1. Stop(c) /\ UNCHANGED <<out, snap, manifest, config, mishaps, frozen, backing, overlap>>
    BY <1>8 DEF CopyRaises
  <2>. QED
    BY <2>1, StopTyped
<1>9. ASSUME NEW c \in Checkers, OpenManifest(c)
      PROVE  TypeOK'
  BY <1>9 DEF OpenManifest
<1>10. ASSUME NEW c \in Checkers, WriteManifest(c)
       PROVE  TypeOK'
  <2>1. Stop(c) /\ UNCHANGED <<out, snap, config, mishaps, overlap>> /\ manifest' = mem[c]
    BY <1>10 DEF WriteManifest
  <2>2. frozen' \in [Figures -> Contents \cup {None}]
    BY <1>10 DEF WriteManifest
  <2>3. backing' \in [Figures -> SUBSET (Contents \cup {Missing, Torn, None})]
    <3>1. \A f \in Figures : {mem[c][f], snap[f]} \subseteq Contents \cup {Missing, Torn, None}
      OBVIOUS
    <3>2. backing' = [f \in Figures |->
                        IF f \in dirty[c] /\ ~overlap
                          THEN {mem[c][f], snap[f]}
                          ELSE backing[f] \cup ({mem[c][f]} \ {None})]
      BY <1>10 DEF WriteManifest
    <3>. QED
      BY <3>1, <3>2
  <2>. QED
    BY <2>1, <2>2, <2>3, StopTyped
<1>11. ASSUME NEW c \in Checkers, Report(c)
       PROVE  TypeOK'
  <2>1. Stop(c) /\ UNCHANGED <<out, snap, manifest, config, mishaps, frozen, backing, overlap>>
    BY <1>11 DEF Report
  <2>. QED
    BY <2>1, StopTyped
<1>12. ASSUME NEW c \in Checkers, Crash(c)
       PROVE  TypeOK'
  <2>1. Stop(c) /\ UNCHANGED <<out, manifest, config, frozen, backing, overlap>>
    BY <1>12 DEF Crash
  <2>2. snap' \in [Figures -> Contents \cup {Missing, Torn}]
    <3>1. snap' = snap \/ \E f \in Figures : snap' = [snap EXCEPT ![f] = Torn]
      BY <1>12 DEF Crash
    <3>. QED
      BY <3>1
  <2>3. mishaps' \in 0..MaxMishaps
    BY <1>12 DEF Crash
  <2>. QED
    BY <2>1, <2>2, <2>3, StopTyped
<1>13. CASE Others
  <2>1. mishaps' \in 0..MaxMishaps
    BY <1>13 DEF Others
  <2>2. out' \in [Figures -> Contents \cup {Missing}]
    BY <1>13 DEF Others
  <2>3. snap' \in [Figures -> Contents \cup {Missing, Torn}]
    BY <1>13 DEF Others
  <2>4. config' \in [RangeOf(Projects) -> BOOLEAN]
    BY <1>13 DEF Others
  <2>5. UNCHANGED <<manifest, pc, mode, mem, dirty, todo, figs, ran, hash, ok,
                    frozen, backing, overlap>>
    BY <1>13 DEF Others
  <2>. QED
    BY <2>1, <2>2, <2>3, <2>4, <2>5
<1>14. CASE UNCHANGED vars
  BY <1>14 DEF vars
<1>. QED
  BY SMTT(30), <1>1, <1>2, <1>3, <1>4, <1>5, <1>6, <1>7, <1>8, <1>9, <1>10, <1>11, <1>12, <1>13, <1>14 DEF Next, CheckerNext

\* And goes to a place of the call.
LEMMA PlacedStep ==
  ASSUME TypeOK, Placed, [Next]_vars
  PROVE  Placed'
<1>. USE DEF TypeOK, Placed, Stop, Proceed, Judge, Visiting, Mishap, files, checker, past
<1>1. ASSUME NEW c \in Checkers, NEW m \in Modes, Start(c, m)
      PROVE  Placed'
  BY <1>1 DEF Start
<1>2. ASSUME NEW c \in Checkers, Unrunnable(c)
      PROVE  Placed'
  BY <1>2 DEF Unrunnable
<1>3. ASSUME NEW c \in Checkers, Build(c)
      PROVE  Placed'
  BY <1>3 DEF Build
<1>4. ASSUME NEW c \in Checkers, LoadConfig(c)
      PROVE  Placed'
  BY <1>4 DEF LoadConfig
<1>5. ASSUME NEW c \in Checkers, Visit(c)
      PROVE  Placed'
  BY <1>5 DEF Visit
<1>6. ASSUME NEW c \in Checkers, Compare(c)
      PROVE  Placed'
  BY <1>6 DEF Compare
<1>7. ASSUME NEW c \in Checkers, Copy(c)
      PROVE  Placed'
  BY <1>7 DEF Copy
<1>8. ASSUME NEW c \in Checkers, CopyRaises(c)
      PROVE  Placed'
  BY <1>8 DEF CopyRaises
<1>9. ASSUME NEW c \in Checkers, OpenManifest(c)
      PROVE  Placed'
  BY <1>9 DEF OpenManifest
<1>10. ASSUME NEW c \in Checkers, WriteManifest(c)
       PROVE  Placed'
  BY <1>10 DEF WriteManifest
<1>11. ASSUME NEW c \in Checkers, Report(c)
       PROVE  Placed'
  BY <1>11 DEF Report
<1>12. ASSUME NEW c \in Checkers, Crash(c)
       PROVE  Placed'
  BY <1>12 DEF Crash
<1>13. CASE Others
  BY <1>13 DEF Others
<1>14. CASE UNCHANGED vars
  BY <1>14 DEF vars
<1>. QED
  BY <1>1, <1>2, <1>3, <1>4, <1>5, <1>6, <1>7, <1>8, <1>9, <1>10, <1>11, <1>12, <1>13, <1>14 DEF Next, CheckerNext

\* A visit neither starts nor stops anything, and records nothing.
LEMMA VisitEffect ==
  ASSUME TypeOK, NEW c \in Checkers, Visit(c)
  PROVE  /\ UNCHANGED <<mem, mode, dirty, out, manifest, snap, backing, frozen, overlap>>
         /\ \A d \in Checkers : pc'[d] = "idle" <=> pc[d] = "idle"
<1>1. pc[c] = "figure" /\ \E x \in {"figure", "project", "copy", "compare"} : pc' = [pc EXCEPT ![c] = x]
  BY DEF Visit, Visiting, Judge, Proceed
<1>2. UNCHANGED <<mem, mode, dirty, out, manifest, snap, backing, frozen, overlap>>
  BY DEF Visit, files, past
<1>. QED
  BY <1>1, <1>2 DEF TypeOK

\* What is recorded stays backed.
LEMMA BackedStep ==
  ASSUME TypeOK, Placed, Backed, ~overlap => Alone, [Next]_vars
  PROVE  Backed'
<1>. USE ContentsAssumption DEF TypeOK, Placed, Backed, Alone, Stop, Proceed, Judge, Visiting, Mishap, files, checker, past
<1>1. ASSUME NEW c \in Checkers, NEW m \in Modes, Start(c, m)
      PROVE  Backed'
  BY <1>1 DEF Start
<1>2. ASSUME NEW c \in Checkers, Unrunnable(c)
      PROVE  Backed'
  BY <1>2 DEF Unrunnable
<1>3. ASSUME NEW c \in Checkers, Build(c)
      PROVE  Backed'
  BY <1>3 DEF Build
<1>4. ASSUME NEW c \in Checkers, LoadConfig(c)
      PROVE  Backed'
  BY <1>4 DEF LoadConfig
<1>5. ASSUME NEW c \in Checkers, Visit(c)
      PROVE  Backed'
  BY <1>5, VisitEffect
<1>6. ASSUME NEW c \in Checkers, Compare(c)
      PROVE  Backed'
  BY <1>6 DEF Compare
<1>7. ASSUME NEW c \in Checkers, Copy(c)
      PROVE  Backed'
  BY <1>7 DEF Copy
<1>8. ASSUME NEW c \in Checkers, CopyRaises(c)
      PROVE  Backed'
  BY <1>8 DEF CopyRaises
<1>9. ASSUME NEW c \in Checkers, OpenManifest(c)
      PROVE  Backed'
  BY <1>9 DEF OpenManifest
<1>10. ASSUME NEW c \in Checkers, WriteManifest(c)
       PROVE  Backed'
  BY <1>10 DEF WriteManifest
<1>11. ASSUME NEW c \in Checkers, Report(c)
       PROVE  Backed'
  BY <1>11 DEF Report
<1>12. ASSUME NEW c \in Checkers, Crash(c)
       PROVE  Backed'
  <2>1. Stop(c) /\ UNCHANGED <<manifest, backing>>
    BY <1>12 DEF Crash
  <2>2. \A f \in Figures : snap'[f] \in {snap[f], Torn}
    BY <1>12 DEF Crash
  <2>3. \A d \in Checkers : d # c => mem'[d] = mem[d] /\ pc'[d] = pc[d] /\ mode'[d] = mode[d]
    BY <2>1
  <2>4. pc'[c] = "idle"
    BY <2>1
  <2>. QED
    BY <2>1, <2>2, <2>3, <2>4
<1>13. CASE Others
  BY <1>13 DEF Others
<1>14. CASE UNCHANGED vars
  BY <1>14 DEF vars
<1>. QED
  BY <1>1, <1>2, <1>3, <1>4, <1>5, <1>6, <1>7, <1>8, <1>9, <1>10, <1>11, <1>12, <1>13, <1>14 DEF Next, CheckerNext

\* Alone, a check-all knows what is recorded.
LEMMA KeptStep ==
  ASSUME TypeOK, Placed, ~overlap => Kept, [Next]_vars
  PROVE  ~overlap' => Kept'
<1>. USE DEF TypeOK, Placed, Kept, Alone, Stop, Proceed, Judge, Visiting, Mishap, files, checker, past
<1>1. ASSUME NEW c \in Checkers, NEW m \in Modes, Start(c, m)
      PROVE  ~overlap' => Kept'
  BY <1>1 DEF Start
<1>2. ASSUME NEW c \in Checkers, Unrunnable(c)
      PROVE  ~overlap' => Kept'
  BY <1>2 DEF Unrunnable
<1>3. ASSUME NEW c \in Checkers, Build(c)
      PROVE  ~overlap' => Kept'
  BY <1>3 DEF Build
<1>4. ASSUME NEW c \in Checkers, LoadConfig(c)
      PROVE  ~overlap' => Kept'
  BY <1>4 DEF LoadConfig
<1>5. ASSUME NEW c \in Checkers, Visit(c)
      PROVE  ~overlap' => Kept'
  BY <1>5, VisitEffect
<1>6. ASSUME NEW c \in Checkers, Compare(c)
      PROVE  ~overlap' => Kept'
  BY <1>6 DEF Compare
<1>7. ASSUME NEW c \in Checkers, Copy(c)
      PROVE  ~overlap' => Kept'
  BY <1>7 DEF Copy
<1>8. ASSUME NEW c \in Checkers, CopyRaises(c)
      PROVE  ~overlap' => Kept'
  BY <1>8 DEF CopyRaises
<1>9. ASSUME NEW c \in Checkers, OpenManifest(c)
      PROVE  ~overlap' => Kept'
  BY <1>9 DEF OpenManifest
<1>10. ASSUME NEW c \in Checkers, WriteManifest(c)
       PROVE  ~overlap' => Kept'
  BY <1>10 DEF WriteManifest
<1>11. ASSUME NEW c \in Checkers, Report(c)
       PROVE  ~overlap' => Kept'
  BY <1>11 DEF Report
<1>12. ASSUME NEW c \in Checkers, Crash(c)
       PROVE  ~overlap' => Kept'
  BY <1>12 DEF Crash
<1>13. CASE Others
  BY <1>13 DEF Others
<1>14. CASE UNCHANGED vars
  BY <1>14 DEF vars
<1>. QED
  BY <1>1, <1>2, <1>3, <1>4, <1>5, <1>6, <1>7, <1>8, <1>9, <1>10, <1>11, <1>12, <1>13, <1>14 DEF Next, CheckerNext

\* The invariant of the baselines holds initially,
LEMMA BaselinesInitially == Init => VInv
<1>. SUFFICES ASSUME Init PROVE VInv
  OBVIOUS
<1>1. TypeOK
  <2>1. mem \in [Checkers -> [Figures -> Contents \cup {None}]]
        /\ frozen \in [Figures -> Contents \cup {None}]
        /\ manifest \in [Figures -> Contents \cup {None}]
    BY DEF Init, NoEntries
  <2>2. figs \in [Checkers -> Seq(Figures)] /\ todo \in [Checkers -> SUBSET RangeOf(Projects)]
    BY DEF Init
  <2>3. mishaps \in 0..MaxMishaps
    BY MishapsAssumption DEF Init
  <2>. QED
    BY <2>1, <2>2, <2>3 DEF Init, TypeOK, Modes
<1>2. Placed /\ Backed /\ Kept
  BY ContentsAssumption DEF Init, Placed, Backed, Kept, Alone, NoEntries
<1>. QED
  BY <1>1, <1>2 DEF VInv

\* and every step keeps it.
LEMMA BaselinesInvariance == VInv /\ [Next]_vars => VInv'
BY BaselineTypeStep, PlacedStep, BackedStep, KeptStep DEF VInv, Kept

\* A check-all leaves the others where they are.
LEMMA OthersKept ==
  ASSUME TypeOK, NEW c \in Checkers, NEW d \in Checkers, d # c, CheckerNext(d)
  PROVE  figs'[c] = figs[c] /\ pc'[c] = pc[c]
<1>. USE DEF TypeOK, Stop, Proceed, Judge, checker
<1>1. ASSUME \E m \in Modes : Start(d, m) PROVE figs'[c] = figs[c] /\ pc'[c] = pc[c]
  BY <1>1 DEF Start
<1>2. ASSUME Unrunnable(d) \/ Build(d) \/ LoadConfig(d)
      PROVE  figs'[c] = figs[c] /\ pc'[c] = pc[c]
  BY <1>2 DEF Unrunnable, Build, LoadConfig
<1>3. ASSUME Visit(d) PROVE figs'[c] = figs[c] /\ pc'[c] = pc[c]
  BY <1>3 DEF Visit
<1>4. ASSUME Compare(d) \/ Copy(d) \/ CopyRaises(d)
      PROVE  figs'[c] = figs[c] /\ pc'[c] = pc[c]
  BY <1>4 DEF Compare, Copy, CopyRaises
<1>5. ASSUME OpenManifest(d) \/ WriteManifest(d) \/ Report(d) \/ Crash(d)
      PROVE  figs'[c] = figs[c] /\ pc'[c] = pc[c]
  BY <1>5 DEF OpenManifest, WriteManifest, Report, Crash
<1>. QED
  BY <1>1, <1>2, <1>3, <1>4, <1>5 DEF CheckerNext

\* Where a check-all acts, and what stops it.
LEMMA WhereActs ==
  ASSUME TypeOK, NEW c \in Checkers
  PROVE  /\ \A m \in Modes : Start(c, m) => pc[c] = "idle"
         /\ Unrunnable(c) \/ Build(c) \/ OpenManifest(c) \/ Report(c) => pc[c] = "project"
         /\ LoadConfig(c) => pc[c] = "config"
         /\ Copy(c) \/ CopyRaises(c) => pc[c] = "copy"
         /\ WriteManifest(c) => pc[c] = "write"
         /\ Visit(c) => pc[c] = "figure"
         /\ Compare(c) => pc[c] = "compare"
         /\ Crash(c) => pc'[c] = "idle"
BY DEF TypeOK, Start, Unrunnable, Build, OpenManifest, Report, LoadConfig, Copy, CopyRaises,
   WriteManifest, Visit, Visiting, Compare, Crash, Stop

\* A check lets only such figures pass as agree with what the last update to
\* finish recorded of them, or with a snapshot taken since, for any projects,
\* tolerances and number of check-alls (resolve_figure_baseline against
\* half-written files, torn manifests and lost entries).
THEOREM VerdictsAreBacked == Spec => VerdictBacked
<1>1. ASSUME VInv, [Next]_vars, NEW c \in Checkers, NEW f \in Figures, Passes(c, f)
      PROVE  \E b \in backing[f] : b = out[f] \/ Alike(b, out[f])
  <2>. USE <1>1 DEF VInv
  <2>1. figs'[c] # figs[c]
    <3>1. figs[c] \in Seq(Figures) /\ figs[c] # <<>>
      BY <1>1 DEF Passes, TypeOK, Placed
    <3>2. Len(Tail(figs[c])) = Len(figs[c]) - 1
      BY <3>1
    <3>3. Len(figs[c]) \in Nat
      BY <3>1
    <3>4. figs'[c] = Tail(figs[c])
      BY <1>1 DEF Passes
    <3>5. Tail(figs[c]) # figs[c]
      <4>1. \A n \in Nat : n - 1 # n
        OBVIOUS
      <4>. QED
        BY ONLY <3>2, <3>3, <4>1
    <3>. QED
      BY <3>4, <3>5
  <2>2. Visit(c) \/ Compare(c)
    <3>1. ASSUME NEW d \in Checkers, CheckerNext(d), ~Visit(c), ~Compare(c)
          PROVE  FALSE
      <4>1. d # c => figs'[c] = figs[c]
        BY <3>1, OthersKept
      <4>2. d = c
        BY <2>1, <4>1
      <4>3. pc[c] \in {"figure", "compare"} /\ pc'[c] # "idle"
        BY <1>1 DEF Passes
      <4>. QED
        BY <3>1, <4>2, <4>3, WhereActs DEF CheckerNext
    <3>2. ~Others /\ ~UNCHANGED vars
      BY <2>1 DEF Others, checker, vars
    <3>. QED
      BY <1>1, <3>1, <3>2 DEF Next
  <2>3. CASE Visit(c)
    <3>1. pc[c] = "figure" /\ mode[c] = "check" /\ out[f] # Missing /\ Matches(c, f)
      <4>1. mode[c] = "check" /\ f = Head(figs[c]) /\ ok'[c]
        BY DEF Passes
      <4>2. ~Judge(c, FALSE)
        BY <4>1 DEF Judge, TypeOK
      <4>3. PICK g \in Figures :
              /\ Visiting(c, g)
              /\ \/ Matches(c, g) /\ out[g] # Missing /\ Judge(c, TRUE)
                 \/ UNCHANGED figs
        BY <2>3, <4>1, <4>2 DEF Visit
      <4>4. g = f /\ pc[c] = "figure"
        BY <4>1, <4>3 DEF Visiting
      <4>. QED
        BY <2>1, <4>1, <4>3, <4>4
    <3>2. out[f] \in Contents /\ mem[c][f] = out[f]
      BY <3>1 DEF Matches, TypeOK
    <3>3. mem[c][f] # None
      BY <3>2, ContentsAssumption
    <3>. QED
      BY <1>1, <3>1, <3>2, <3>3 DEF Backed
  <2>4. CASE Compare(c)
    <3>1. Alike(snap[f], out[f])
      BY <1>1, <2>4 DEF Compare, Judge, Passes, TypeOK
    <3>2. snap[f] \in Contents
      BY <3>1, NearAssumption DEF Alike
    <3>. QED
      BY <1>1, <3>1, <3>2 DEF Backed
  <2>. QED
    BY <2>2, <2>3, <2>4
<1>2. VInv /\ [Next]_vars =>
        [\A c \in Checkers, f \in Figures : Passes(c, f) =>
           \E b \in backing[f] : b = out[f] \/ Alike(b, out[f])]_vars
  BY <1>1
<1>. QED
  BY BaselinesInitially, BaselinesInvariance, <1>2, PTL DEF Spec, VerdictBacked

\* As long as check-alls do not run side by side, a figure that looks as the
\* last update to finish recorded it passes, whatever updates died since
\* (write_baseline_manifest comes last and loses no other entry).
THEOREM RecordedIsAccepted == Spec => FrozenStaysAccepted
<1>. DEFINE Moves(c, f) ==
       /\ Visiting(c, f) /\ mode[c] = "check"
       /\ <<pc'[c], figs'[c]>> # <<pc[c], figs[c]>>
       /\ pc'[c] # "idle" /\ ~overlap
       /\ out[f] = frozen[f] /\ snap[f] # Missing
<1>1. ASSUME VInv, [Next]_vars, NEW c \in Checkers, NEW f \in Figures, Moves(c, f)
      PROVE  ok'[c] = ok[c] /\ pc'[c] # "compare"
  <2>. USE <1>1 DEF VInv
  <2>1. Visit(c)
    <3>1. ASSUME NEW d \in Checkers, CheckerNext(d), ~Visit(c)
          PROVE  FALSE
      <4>1. d # c => figs'[c] = figs[c] /\ pc'[c] = pc[c]
        BY <3>1, OthersKept
      <4>2. d = c
        BY <1>1, <4>1
      <4>3. pc[c] = "figure" /\ pc'[c] # "idle"
        BY <1>1 DEF Visiting
      <4>. QED
        BY <3>1, <4>2, <4>3, WhereActs DEF CheckerNext
    <3>2. ~Others /\ ~UNCHANGED vars
      BY <1>1 DEF Others, checker, vars
    <3>. QED
      BY <1>1, <3>1, <3>2 DEF Next
  <2>2. mem[c][f] = frozen[f]
    BY <1>1 DEF Kept, Placed, Visiting
  <2>3. out[f] # Missing
    BY <1>1, ContentsAssumption DEF TypeOK
  <2>4. Judge(c, TRUE)
    <3>1. mode[c] = "check" /\ f = Head(figs[c]) /\ snap[f] # Missing
          /\ Matches(c, f)
      BY <2>2 DEF Visiting, Matches
    <3>2. PICK g \in Figures :
            /\ g = Head(figs[c])
            /\ Matches(c, g) /\ out[g] # Missing /\ snap[g] # Missing => Judge(c, TRUE)
      BY <2>1, <3>1 DEF Visit, Visiting
    <3>. QED
      BY <2>3, <3>1, <3>2
  <2>5. ok'[c] = (ok[c] /\ TRUE)
    BY <2>4 DEF Judge, TypeOK
  <2>6. ok[c] \in BOOLEAN
    BY DEF TypeOK
  <2>7. ok'[c] = ok[c]
    BY <2>5, <2>6
  <2>8. pc'[c] # "compare"
    BY <2>4 DEF Judge, Proceed, TypeOK
  <2>. QED
    BY <2>7, <2>8
<1>2. VInv /\ [Next]_vars =>
        [\A c \in Checkers, f \in Figures :
           /\ Visiting(c, f) /\ mode[c] = "check"
           /\ <<pc'[c], figs'[c]>> # <<pc[c], figs[c]>>
           /\ pc'[c] # "idle" /\ ~overlap
           /\ out[f] = frozen[f] /\ snap[f] # Missing
           => ok'[c] = ok[c] /\ pc'[c] # "compare"]_vars
  BY <1>1
<1>. QED
  BY BaselinesInitially, BaselinesInvariance, <1>2, PTL DEF Spec, FrozenStaysAccepted

=============================================================================
