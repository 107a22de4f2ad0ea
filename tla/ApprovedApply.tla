---------------------------- MODULE ApprovedApply ----------------------------
(***************************************************************************)
(* figops.normalize_project_structure: StructureApply, in secure mode      *)
(* behind the approvals of the host.  There the tool plans anew from the   *)
(* project as it is, verifies the receipt it was given for this plan, and  *)
(* hands apply_structure_plan a verifier that it calls once more, after    *)
(* all of the plan's own checks and before anything is changed.  The host  *)
(* goes on issuing and revoking meanwhile, the clock runs, the user works. *)
(* A host that requires no approval calls apply_structure_plan as it is.   *)
(***************************************************************************)
EXTENDS StructureApply, FiniteSets

CONSTANTS
  Plan, Other,  \* the digest of the reviewed plan, and of any other
  Hosts, Windows, MaxTime, MaxRecords,
  SecureCopies,    \* the copies of the plan in secure mode,
  SecureMeddling   \* and a bound for it: how often the user changes a file

ASSUME SecureAssumption ==
  /\ SecureCopies \in Seq(CopySet)
  /\ \A i, j \in DOMAIN SecureCopies : SecureCopies[i] = SecureCopies[j] => i = j
  /\ SecureMeddling \in Nat
ASSUME PlansAssumption == Plan # Other
ASSUME WindowsAssumption == Windows \subseteq Nat \X Nat
ASSUME AuthorityBounds == MaxTime \in Nat /\ MaxRecords \in Nat

VARIABLES
  records, host, clock,  \* of the authority
  gate,      \* where the tool is; "none" if it requires no approval
  planned,   \* the digest of the plan it has made
  receipt,   \* the receipt it was given
  parents,   \* have the destinations' directories been created?
  stood      \* history: did the receipt stand when the plan's own checks were
             \* over, and then at the last publication?

A == INSTANCE ApprovalAuthority WITH Plans <- {Plan, Other}

authority == <<records, host, clock>>
tool == <<gate, planned, receipt>>

\* plan_normalize_project: another plan results if the project has changed.
Unchanged ==
  /\ Is("config", Orig, Before)
  /\ \A i \in DOMAIN SecureCopies : name[SecureCopies[i]] = None

Call ==
  /\ gate = "call" /\ pc # "dead"
  /\ planned' = IF Unchanged THEN Plan ELSE Other
  /\ receipt' \in A!Issued \cup {None}
  /\ gate' = "first"
  /\ UNCHANGED <<vars, authority, parents, stood>>

\* verify_approval_authority, in two steps, at either gate; a rejection at the
\* second is an exception inside apply_structure_plan.
Refuse ==
  /\ gate' = "refused"
  /\ pc' = IF gate \in {"second", "second_state"} THEN "undo" ELSE pc

VerifyBinding ==
  /\ gate \in {"first", "second"} /\ pc # "dead"
  /\ IF A!Binds(receipt, planned)
       THEN gate' = (IF gate = "first" THEN "first_state" ELSE "second_state")
            /\ UNCHANGED pc
       ELSE Refuse
  /\ UNCHANGED <<planned, receipt, parents, stood, authority, fs, user, todo,
                 created, expected, replaced, back, report, error>>

VerifyStanding ==
  /\ gate \in {"first_state", "second_state"} /\ pc # "dead"
  /\ IF A!Stands(receipt)
       THEN gate' = (IF gate = "first_state" THEN "apply" ELSE "open")
            /\ UNCHANGED pc
       ELSE Refuse
  /\ UNCHANGED <<planned, receipt, parents, stood, authority, fs, user, todo,
                 created, expected, replaced, back, report, error>>

\* Mutant: the receipt was verified a moment ago.
GatedReviewTrusting ==
  /\ gate = "apply"
  /\ IF planned = Plan
       THEN Review
       ELSE /\ pc = "review" /\ pc' = "failed" /\ error' = "plain"
            /\ UNCHANGED <<fs, user, todo, created, expected, replaced, back, report>>
  /\ gate' = IF pc' = "copy" THEN "open" ELSE gate
  /\ stood' = A!Stands(receipt)
  /\ UNCHANGED <<planned, receipt, parents, authority>>

\* Mutant: the directories are prepared with the rest.
GatedReviewEager ==
  /\ gate = "apply"
  /\ IF planned = Plan
       THEN Review
       ELSE /\ pc = "review" /\ pc' = "failed" /\ error' = "plain"
            /\ UNCHANGED <<fs, user, todo, created, expected, replaced, back, report>>
  /\ gate' = IF pc' = "copy" THEN "second" ELSE gate
  /\ parents' = (pc' = "copy")
  /\ stood' = A!Stands(receipt)
  /\ UNCHANGED <<planned, receipt, authority>>

\* The confirmation token is that of the reviewed plan; then its checks.  The
\* directories of destinations are left for later.
GatedReview ==
  /\ gate = "apply"
  /\ IF planned = Plan
       THEN Review
       ELSE /\ pc = "review" /\ pc' = "failed" /\ error' = "plain"
            /\ UNCHANGED <<fs, user, todo, created, expected, replaced, back, report>>
  /\ gate' = IF pc' = "copy" THEN "second" ELSE gate
  /\ stood' = A!Stands(receipt)
  /\ UNCHANGED <<planned, receipt, parents, authority>>

\* A copy, or the new configuration, appears under its public name.
Publishes == \E n \in Public : name[n] = None /\ name'[n] \in {New} \cup CopySet

\* The rest of apply_structure_plan, or of its handler.
GatedApply ==
  /\ gate \in {"open", "refused"} /\ pc # "review"
  /\ ApplyStep
  /\ parents' = (parents \/ (pc = "copy" /\ todo # <<>>))
  /\ stood' = IF Publishes THEN A!Stands(receipt) ELSE stood
  /\ UNCHANGED <<tool, authority>>

\* require_host_approval is a property of the host.
GatedInit ==
  /\ \/ Init /\ gate = "none"
     \/ InitWith(SecureCopies) /\ gate = "call"
  /\ A!Init
  /\ planned = None /\ receipt = None
  /\ parents = FALSE /\ stood = FALSE

SecureUserStep ==
  /\ meddling < SecureMeddling
  /\ \E n \in Public : Save(n) \/ Remove(n)

\* Exceptions out of turn and the user's open handles are left to the mode
\* without approvals.
SecureNext ==
  \/ Call \/ VerifyBinding \/ VerifyStanding \/ GatedReview \/ GatedApply
  \/ /\ Crash \/ SecureUserStep
     /\ UNCHANGED <<tool, authority, parents, stood>>
  \/ A!Next /\ UNCHANGED <<vars, tool, parents, stood>>

GatedNext ==
  \/ gate # "none" /\ SecureNext
  \/ gate = "none" /\ Next /\ UNCHANGED <<tool, authority, parents, stood>>

GatedSpec == GatedInit /\ [][GatedNext]_<<vars, tool, authority, parents, stood>>

-----------------------------------------------------------------------------
(* Properties.                                                             *)

GatedTypeOK ==
  /\ A!TypeOK
  /\ gate \in {"none", "call", "first", "first_state", "apply", "second",
               "second_state", "open", "refused"}
  /\ planned \in {Plan, Other, None}
  /\ receipt \in A!Issued \cup {None}
  /\ parents \in BOOLEAN /\ stood \in BOOLEAN

\* A receipt that was revoked or superseded before the plan's own checks were
\* over never lets anything be published, whenever the tool first verified it.
FirstPublicationApproved ==
  [][gate # "none" /\ Publishes /\ created = <<>> /\ pc = "copy"
       => stood]_<<vars, tool, authority>>

\* A call that the host's approval does not cover leaves no trace: no copy, no
\* private file, no directory (_revalidate_host_approval in the place where
\* apply_structure_plan calls it).
RefusedTouchesNothing ==
  gate = "refused" =>
    /\ ~parents /\ created = <<>>
    /\ \A n \in Private : name[n] = None
    /\ \A n \in Names : name[n] \notin {New} \cup CopySet

\* The host's index keeps its promise while it is being verified against.
OneSuccessor == A!OneSuccessor

\* "Revalidate approval currentness before any subsequent mutation": nothing
\* more is published once the receipt had fallen by the publication before.
EveryPublicationApproved ==
  [][gate # "none" /\ Publishes /\ pc \in {"copy", "swap"}
       => stood]_<<vars, tool, authority>>

=============================================================================
