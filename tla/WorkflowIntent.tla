--------------------------- MODULE WorkflowIntent ---------------------------
(***************************************************************************)
(* Workflow intent (workflow_intent.py, config_workflow_intent.py): what a *)
(* call is for, decided from the orchestrator step or the tool that makes  *)
(* it, the intent that the project declares or the call claims, the source *)
(* that it claims, and whether the project is active or legacy.            *)
(* Only an intent that allows promotion gets past the first gate of        *)
(* promotion_gate.py, and only a render of a project whose report allows   *)
(* execution counts as one.                                                *)
(*                                                                         *)
(* A step and a tool are modelled by the list that holds their name, a     *)
(* claim that does not parse by Unknown, one that is not made by Absent.   *)
(***************************************************************************)
CONSTANTS Absent, Unknown

Intents == {"exploration", "execution", "review", "promotion"}
WorkflowSources ==
  {"explicit", "orchestrator", "mcp", "direct_csv", "read_only", "readiness", "legacy"}

Steps == {"execution", "other"}
Tools == {"execution", "direct_csv", "readiness", "read_only", "legacy", "other"}

ASSUME MarkersAssumption ==
  /\ Absent # Unknown
  /\ {Absent, Unknown} \cap (Intents \cup WorkflowSources \cup Steps \cup Tools
                             \cup {"blank", "malformed"}) = {}

\* A call: the legacy tools are those whose names start with "graphhub.", and
\* a name may be given and blank.
Calls ==
  [active : BOOLEAN, legacy_project : BOOLEAN,
   step   : Steps \cup {Absent, Unknown},
   tool   : Tools \cup {Absent, "blank"},
   intent : Intents \cup {Absent, Unknown},
   source : WorkflowSources \cup {Absent, Unknown}]
NoTool == {Absent, "blank"}

Claimed(claim) == IF claim = Unknown THEN Absent ELSE claim

Result(intent, source) ==
  [intent |-> intent, source |-> source, fail_closed |-> FALSE, legacy |-> FALSE]
FailClosed(intent, source) == [Result(intent, source) EXCEPT !.fail_closed = TRUE]

-----------------------------------------------------------------------------
\* The surfaces that a call can come from: the intent each stands for, and the
\* intents and sources that may be claimed on it (SURFACE_RULES).
Default(surface) ==
  CASE surface \in {"orchestrator", "mcp"} -> "execution"
    [] surface = "direct_csv"             -> "exploration"
    [] OTHER                              -> "review"
Compatible(surface) ==
  {Default(surface)} \cup (IF surface = "direct_csv" THEN {"review"} ELSE {})
Claimable(surface) ==
  {"explicit", surface} \cup
  (IF surface \in {"readiness", "read_only"} THEN {"readiness", "read_only"} ELSE {})

\* A claim that does not suit the surface closes the call, and leaves the
\* intent that is safe to report (_surface_intent).
OnSurface(surface, stands, claimable, call) ==
  IF call.source \notin claimable \cup {Absent}
    THEN FailClosed(IF call.source \in {"read_only", "readiness"} THEN "review" ELSE stands,
                    surface)
  ELSE IF call.intent \notin Compatible(surface) \cup {Absent}
    THEN FailClosed(IF call.intent = "execution" THEN stands ELSE call.intent, surface)
  ELSE Result(stands, surface)

Surface(surface, call) ==
  OnSurface(surface, Default(surface), Claimable(surface), call)

OfStep(call) ==
  IF call.active /\ call.step = "execution" THEN Surface("orchestrator", call)
  ELSE FailClosed("review", "orchestrator")

OfTool(call) ==
  CASE call.active /\ call.tool = "execution"  -> Surface("mcp", call)
    [] call.active /\ call.tool = "direct_csv" -> Surface("direct_csv", call)
    [] call.tool = "readiness"                -> Surface("readiness", call)
    [] call.tool = "read_only"
       \/ (~call.active /\ call.tool # "readiness") -> Surface("read_only", call)
    [] OTHER -> FailClosed("review", call.source)

\* Neither a step nor a tool: what is claimed is all there is.
OfClaim(call) ==
  CASE call.source \in {"read_only", "readiness"} ->
         OnSurface(call.source, "review", {call.source}, call)
    [] call.source = "direct_csv" ->
         OnSurface("direct_csv", IF call.active THEN "exploration" ELSE "review",
                   {"direct_csv"}, call)
    [] call.intent # Absent /\ call.source \in {Absent, "explicit"} ->
         Result(call.intent, "explicit")
    [] OTHER -> Result("review", IF call.source = Absent THEN "read_only" ELSE call.source)

\* infer_workflow_intent
Infer(call) ==
  IF call.legacy_project \/ call.source = "legacy" \/ call.tool = "legacy"
    THEN [Result("review", "legacy") EXCEPT !.legacy = TRUE]
  ELSE IF Unknown \in {call.intent, call.source}
    THEN FailClosed(Claimed(call.intent), Claimed(call.source))
  ELSE IF call.step # Absent THEN OfStep(call)
  ELSE IF call.tool \notin NoTool THEN OfTool(call)
  ELSE OfClaim(call)

Open(result)             == ~result.fail_closed /\ ~result.legacy
PromotionAllowed(result) == result.intent = "promotion" /\ Open(result)
ExecutionAllowed(result) == result.intent = "execution" /\ Open(result)

-----------------------------------------------------------------------------
\* What a project's configuration may declare: an intent, none, one that does
\* not parse, or a section that is not one.
Declarations == Intents \cup {Absent, Unknown, "malformed"}

\* The intent that the project declares takes the place of the call's own; it
\* is looked at in the light of the call if there is anything to the call, and
\* stands for itself if not (workflow_intent_report).
IntentReport(declared, call) ==
  LET stands == IF call.legacy_project THEN "review"
                ELSE IF declared = Absent THEN "execution"
                ELSE IF declared \in Intents THEN declared
                ELSE Absent
      issues == \/ declared \in {Unknown, "malformed"}
                \/ call.legacy_project /\ declared \in {"execution", "promotion"}
  IN IF stands # Absent /\ ~issues /\ {call.step, call.tool, call.source} # {Absent}
       THEN Infer([call EXCEPT !.intent = stands])
       ELSE [intent |-> stands, source |-> Absent,
             fail_closed |-> issues \/ call.legacy_project, legacy |-> FALSE]

-----------------------------------------------------------------------------
\* What is promised.  (They are proved in WorkflowIntent_proofs.)

\* Promotion is asked for, never inferred: neither a step nor a tool nor a
\* legacy project comes to it, whatever else the call claims
\* (infer_workflow_intent).
PromotionOnlyAsked(call) ==
  PromotionAllowed(Infer(call)) <=>
    /\ call.intent = "promotion" /\ call.source \in {Absent, "explicit"}
    /\ call.step = Absent /\ call.tool \in NoTool /\ ~call.legacy_project

\* A project that is legacy, that declares another intent or that declares
\* nonsense is not executed on any step or by any tool
\* (workflow_intent_report).
ExecutionDeclared(declared, call) ==
  ExecutionAllowed(IntentReport(declared, call)) =>
    declared \in {"execution", Absent} /\ ~call.legacy_project

\* On a step or a tool nothing executes that is not active and on the list of
\* those that do; elsewhere nothing that does not ask for it by name.
ExecutionHasGrounds(call) ==
  ExecutionAllowed(Infer(call)) =>
    \/ call.active /\ "execution" \in {call.step, call.tool}
    \/ call.step = Absent /\ call.tool \in NoTool /\ call.intent = "execution"

=============================================================================
