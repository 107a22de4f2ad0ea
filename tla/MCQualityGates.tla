---------------------------- MODULE MCQualityGates ----------------------------
(* The four gates share no state; each behaviour is one of one of them.     *)
(* Which policies require a signoff is what their layers resolve to.        *)
EXTENDS VisualBaselines, GoldenData, BatchCheck, PromotionGate,
        PolicyResolution, WorkflowIntent, TLC

CONSTANTS proj1, proj2, fig1, fig2,  \* projects, and figures or tables
          like1, like2, unlike,      \* what they look like: two of it are alike
          r1, r2, b1, b2, c1,
          d1, d2, d3, fine, poor, strict, free, s1,
          opt1, opt2

Interchangeable == Permutations({like1, like2}) \cup Permutations({b1, b2})

VARIABLE gate  \* which of them acts

MCProjects == <<proj1, proj2>>
MCDeclared == (proj1 :> <<fig1>>) @@ (proj2 :> <<fig2>>)
MCNear     == {<<x, x>> : x \in Contents} \cup {<<like1, like2>>, <<like2, like1>>}

MCTables == <<fig1, fig2>>
MCClose  == MCNear \ {<<unlike, unlike>>}

MCOrder == <<proj1, proj2>>
MCUnder == (r1 :> {proj1, proj2}) @@ (r2 :> {proj2})
MCFlags == {{}, {"invalid"}}

\* Two renders with the same bytes, and one that is not eligible.
MCBytesOf   == (d1 :> "these") @@ (d2 :> "these") @@ (d3 :> "those")
MCReadiness == (fine :> "needs_review") @@ (poor :> "needs_revision")
MCBindings  == {<<"visual", "author">>, <<"scientific", "investigator">>}
Sound ==
  [figure |-> "this", scope |-> "scientific", role |-> "investigator",
   decision |-> "approve_for_promotion", concern |-> "none", waiver |-> "none",
   lasts |-> 2, waived_for |-> 0]
\* An opinion that should count, some that count for a while or in part, and
\* one for each way not to.
MCOpinions ==
  {Sound,
   [Sound EXCEPT !.lasts = 1],
   [Sound EXCEPT !.figure = "another"],
   [Sound EXCEPT !.scope = "visual", !.role = "author"],
   [Sound EXCEPT !.role = "author"],
   [Sound EXCEPT !.decision = "request_revision", !.concern = "unresolved"],
   [Sound EXCEPT !.concern = "waived", !.waiver = "known", !.waived_for = 1],
   [Sound EXCEPT !.concern = "waived", !.waiver = "unknown", !.waived_for = 2]}

\* One parameter of each kind, as PARAMETER_SCHEMAS has them.
MCParameters ==
  {"no_replace_promotion", "human_signoff_required", "require_canonical_docs",
   "minimum_raster_dpi", "maximum_physical_width_mm", "allowed_artifact_formats",
   "project_role", "render_policy"}
MCOperator ==
  [p \in MCParameters |->
     CASE p = "minimum_raster_dpi"        -> "minimum"
       [] p = "maximum_physical_width_mm" -> "maximum"
       [] p = "allowed_artifact_formats"  -> "allowed_set"
       [] p = "project_role"              -> "exact"
       [] p = "render_policy"             -> "selection"
       [] OTHER                           -> "require"]
MCPreset ==
  [p \in MCParameters |->
     CASE p \in {"no_replace_promotion", "require_canonical_docs"} -> TRUE
       [] p = "human_signoff_required" -> FALSE
       [] p = "render_policy"          -> opt1
       [] OTHER                        -> Null]
MCSupported ==
  [p \in MCParameters |-> IF p = "render_policy" THEN {opt1, opt2} ELSE Options]

Unsaid == [allowed |-> Silent, value |-> Silent, opt_out |-> FALSE]
From(s, p, said) ==
  [source |-> s, says |-> [q \in Parameters |-> IF q = p THEN said ELSE Unsaid]]
With(v)   == [Unsaid EXCEPT !.value = v]
Within(s) == [Unsaid EXCEPT !.allowed = s]
Without   == [Unsaid EXCEPT !.opt_out = TRUE]

\* The laboratory asks for a signoff and the project would rather not; and a
\* project that nobody asks.
LayersOf ==
  (strict :> <<From("lab", "human_signoff_required", With(TRUE)),
               From("project", "human_signoff_required", With(FALSE))>>) @@
  (free   :> <<From("project", "human_signoff_required", With(FALSE))>>)
MCSignoff == {p \in DOMAIN LayersOf : Resolved(LayersOf[p], "human_signoff_required")}

\* All that a layer may say of a parameter, in two layers of any two sources.
Pairs(p) ==
  LET said == [value : {Silent} \cup Plain(p), allowed : {Silent} \cup Listed(p),
               opt_out : {FALSE} \cup (IF MCOperator[p] = "require" THEN {TRUE} ELSE {})]
      of(s) == {From(s, p, x) : x \in said}
  IN of("operator") \X (of("project") \cup {From("operator", p, Unsaid)})

ASSUME PromisesHoldHere ==
  \A p \in Parameters : \A pair \in Pairs(p) :
    OrderIrrelevant(pair) /\ StaysWithinLimits(pair) /\ NeverLoosened(<<pair[1]>>, pair[2])

\* The cases of tests/test_policy_resolution.py.
ASSUME TestsAgree ==
  LET docs == "require_canonical_docs" style == "render_policy"
      two(p, a, b) == <<From("operator", p, a), From("project", p, b)>>
      one(p, a)    == <<From("project", p, a)>>
  IN /\ PolicySet(one(docs, Without))[docs]
          = [value |-> FALSE, opt_out |-> TRUE, accepted |-> TRUE]
     /\ PolicySet(two(docs, With(TRUE), [Without EXCEPT !.value = FALSE]))[docs]
          = [value |-> TRUE, opt_out |-> TRUE, accepted |-> FALSE]
     /\ \A said \in {With(FALSE), [Without EXCEPT !.value = FALSE], Without} :
          Refused(one("no_replace_promotion", said))
     /\ Refused(two(style, Within({opt1}), Within({opt1, opt2}))
                  \o <<From("render", style, With(opt2))>>)
     /\ Refused(two("project_role", With(opt1), With(opt2)))
     /\ Refused(<<From("project", docs, Unsaid), From("project", docs, Unsaid)>>)
     /\ Resolved(two("minimum_raster_dpi", With(1), With(2)), "minimum_raster_dpi") = 2
     /\ Resolved(two("maximum_physical_width_mm", With(2), With(1)),
                 "maximum_physical_width_mm") = 1
     /\ Resolved(two("allowed_artifact_formats", Within({opt1, opt2}), Within({opt1})),
                 "allowed_artifact_formats") = {opt1}

\* Every call and every declaration.
ASSUME IntentsHoldHere ==
  \A c \in Calls :
    /\ PromotionOnlyAsked(c) /\ ExecutionHasGrounds(c)
    /\ \A declared \in Declarations : ExecutionDeclared(declared, c)

GatesInit ==
  /\ gate \in {"baselines", "golden", "batch", "promotion"}
  /\ GateInit /\ now.render = d1 /\ now.report = fine /\ now.policy = strict
  /\ Init
  /\ GoldenInit /\ (gate # "golden" => ~listed /\ data = [t \in Names |-> NoTable])
  /\ BatchInit /\ (gate # "batch" => kind = [x \in Known |-> "official"])

GatesNext ==
  /\ UNCHANGED gate
  /\ \/ gate = "baselines" /\ Next /\ UNCHANGED <<goldenVars, batchVars, gateVars>>
     \/ gate = "golden" /\ GoldenNext /\ UNCHANGED <<vars, batchVars, gateVars>>
     \/ gate = "batch" /\ BatchNext /\ UNCHANGED <<vars, goldenVars, gateVars>>
     \/ gate = "promotion" /\ GateNext /\ UNCHANGED <<vars, goldenVars, batchVars>>

GatesSpec == GatesInit /\ [][GatesNext]_<<gate, vars, goldenVars, batchVars, gateVars>>

=============================================================================
