-------------------------- MODULE DurablePromotion --------------------------
(***************************************************************************)
(* Promotion of a rendered figure from disposable runtime storage to the   *)
(* project's durable results: promote_eligible_project_result and what it  *)
(* calls (result_promotion.py, promotion_gate_recording.py,                *)
(* review_recording.py, durable_promotion.py, atomic_no_clobber.py).       *)
(* VerifiedRead.tla adds the reader of what it leaves behind.              *)
(*                                                                         *)
(* One promotion writes up to three names, in this order: the frozen       *)
(* promotion-gate receipt, the artifact, the durable receipt that binds    *)
(* the artifact.  Several promotions of one figure share the three names.  *)
(* Nothing excludes other programs from the directory: "others" create,    *)
(* replace, rewrite, hard-link and delete the files between any two steps. *)
(***************************************************************************)
EXTENDS Naturals, FiniteSets

CONSTANTS
  Promoters,    \* promotions of one figure (processes, or tries of one)
  Payloads,     \* artifact contents
  Bytes,        \* Bytes[p]: the content the eligible manifest of p declares
  Alien,        \* any other content
  NoFile,       \* the value of a name at which there is no file
  Faults,       \* what the environment may do to a promotion
  MaxMeddling   \* bound on the number of steps taken by others

Names == {"gate", "art", "rcp"}
Data  == Payloads \cup Promoters \cup {Alien}
Ids   == Promoters \cup Nat

\* id is the inode, ver changes when the file is rewritten in place (mtime),
\* linked says that a second hard link to the inode exists.
File == [id : Ids, ver : Nat, data : Data, linked : BOOLEAN]

AllFaults == {"crash",        \* the process dies
              "interrupt",    \* KeyboardInterrupt is raised
              "lease",        \* the evidence directory changes identity, or
                              \* cannot be leased
              "unavailable",  \* no native no-replace rename, or it is denied
              "refuse",       \* Windows refuses the delete disposition
              "source",       \* the runtime artifact no longer matches
              "staging",      \* a destination check or a staging write fails
              "retain"}       \* the unlink of a private stage fails

ASSUME PromotersAssumption ==
  /\ IsFiniteSet(Promoters)
  /\ Promoters \cap Nat = {}
ASSUME BytesAssumption    == Bytes \in [Promoters -> Payloads]
ASSUME NoFileAssumption   == NoFile \notin File \cup [id : Ids, data : Data]
ASSUME FaultsAssumption   == Faults \subseteq AllFaults
ASSUME MeddlingAssumption == MaxMeddling \in Nat

VARIABLES
  windows,    \* os.name == "nt": deletion by identity is possible
  file,       \* file[n]: the file at the public name n, or NoFile
  stage,      \* stage[p]: names for which a private stage of p exists
  pc,         \* pc[p]: where promotion p is
  gated,      \* gated[p]: p was admitted with a promotion-gate receipt
  held,       \* held[p]: inode p took for its frozen gate receipt
  withheld,   \* withheld[p]: names whose rollback p withheld
  error,      \* error[p]: what the exception raised by p says
  interrupted, \* interrupted[p]: a KeyboardInterrupt was raised in p
  placed,     \* history: names p published and did not take back
  tampered,   \* history: names whose file of p others changed or removed
  meddling    \* number of steps taken by others

promotion == <<stage, pc, gated, held, withheld, error, interrupted, placed>>
vars      == <<windows, file, promotion, tampered, meddling>>

GatePhases    == {"gate_probe", "gate_stage", "gate_move", "gate_witness"}
ArtPhases     == {"art_stage", "art_move", "art_verify", "art_recheck"}
ReceiptPhases == {"rcp_stage", "rcp_move", "rcp_verify"}
FinalPhases   == {"final_rcp", "final_art"}
UndoPhases    == {"undo_rcp", "drop_rcp", "undo_art", "drop_art",
                  "undo_gate", "drop_gate"}
Running       == GatePhases \cup ArtPhases \cup ReceiptPhases
                   \cup FinalPhases \cup UndoPhases
Ended         == {"succeeded", "failed", "declined", "interrupted", "crashed"}
Errors        == {"none", "plain", "retained", "manual", "gate_withheld",
                  "lease"}

NoOne == 0     \* held[p] before the gate receipt is frozen

\* What promotion p writes at name n: a receipt is told by its promotion.
Content(p, n) == IF n = "art" THEN Bytes[p] ELSE p

Fresh(p, n) == [id |-> p, ver |-> 0, data |-> Content(p, n), linked |-> FALSE]

\* The identity and hash comparison every check of an installed file makes.
Owned(p, n) ==
  /\ file[n] # NoFile
  /\ file[n].id = p
  /\ file[n].data = Content(p, n)

-----------------------------------------------------------------------------
(* Control: what an exception does, depending on where it is raised.       *)

Goto(p, ph) == pc' = [pc EXCEPT ![p] = ph]

\* Mutant: the frozen gate receipt is never discarded.
AfterArtifactKeepsGate(p) == "failed"

\* The artifact phase raised an Exception: result_promotion.py discards the
\* frozen gate receipt, if there is one.
AfterArtifact(p) == IF gated[p] THEN "undo_gate" ELSE "failed"

Raise(p, ph, e) ==
  /\ Goto(p, ph)
  /\ error' = [error EXCEPT ![p] = e]

Stage(p, n)   == stage' = [stage EXCEPT ![p] = @ \cup {n}]
Unstage(p, n) == stage' = [stage EXCEPT ![p] = @ \ {n}]

\* Mutant: a move that replaces what stands at the name (os.replace).
PublishReplacing(p, n) ==
  /\ file' = [file EXCEPT ![n] = Fresh(p, n)]
  /\ placed' = [placed EXCEPT ![p] = @ \cup {n}]
  /\ Unstage(p, n)

\* atomic_no_clobber_move: one step that consumes the stage and fills an
\* absent name.
Publish(p, n) ==
  /\ file[n] = NoFile
  /\ file' = [file EXCEPT ![n] = Fresh(p, n)]
  /\ placed' = [placed EXCEPT ![p] = @ \cup {n}]
  /\ Unstage(p, n)

\* The move reports that no namespace change happened: the name is taken, or
\* the platform cannot or may not do it.
MoveFails(n) == file[n] # NoFile \/ "unavailable" \in Faults

\* A staging or a move of p at n fails: the private stage is unlinked.  When
\* that fails too, the artifact's and the receipt's error says so; the gate
\* receipt's "finally" is silent.
StageFails(p, n, ph) ==
  \/ Unstage(p, n) /\ Raise(p, ph, "plain")
  \/ /\ "retain" \in Faults
     /\ Stage(p, n)
     /\ Raise(p, ph, IF n = "gate" THEN "plain" ELSE "retained")

-----------------------------------------------------------------------------
(* Admission and the gate receipt (record_promotion_gate_receipt).         *)

\* A manifest that is not promotion eligible: None is returned.
Decline(p) ==
  /\ pc[p] = "idle"
  /\ Goto(p, "declined")
  /\ UNCHANGED <<windows, file, stage, gated, held, withheld, error, placed,
                 interrupted, tampered, meddling>>

\* The manifest is eligible and the caller supplied no gate receipt, or one
\* that binds this artifact, project and durable receipt.
Admit(p, withGate) ==
  /\ pc[p] = "idle"
  /\ gated' = [gated EXCEPT ![p] = withGate]
  /\ Goto(p, IF withGate THEN "gate_probe" ELSE "art_stage")
  /\ UNCHANGED <<windows, file, stage, held, withheld, error, placed,
                 interrupted, tampered, meddling>>

\* A manifest, policy, claim or gate check rejects the promotion.
Reject(p) ==
  /\ pc[p] = "idle"
  /\ Raise(p, "failed", "plain")
  /\ UNCHANGED <<windows, file, stage, gated, held, withheld, placed,
                 interrupted, tampered, meddling>>

GateProbe(p) ==
  /\ pc[p] = "gate_probe"
  /\ IF file["gate"] = NoFile
       THEN Goto(p, "gate_stage") /\ UNCHANGED error
       ELSE Raise(p, "failed", "plain")
  /\ UNCHANGED <<windows, file, stage, gated, held, withheld, placed,
                 interrupted, tampered, meddling>>

GateStage(p) ==
  /\ pc[p] = "gate_stage"
  /\ \/ Stage(p, "gate") /\ Goto(p, "gate_move") /\ UNCHANGED error
     \/ "staging" \in Faults /\ StageFails(p, "gate", "failed")
  /\ UNCHANGED <<windows, file, gated, held, withheld, placed, interrupted,
                 tampered, meddling>>

GateMove(p) ==
  /\ pc[p] = "gate_move"
  /\ Publish(p, "gate")
  /\ Goto(p, "gate_witness")
  /\ UNCHANGED <<windows, gated, held, withheld, error, interrupted,
                 tampered, meddling>>

GateMoveFails(p) ==
  /\ pc[p] = "gate_move"
  /\ MoveFails("gate")
  /\ StageFails(p, "gate", "failed")
  /\ UNCHANGED <<windows, file, gated, held, withheld, placed, interrupted,
                 tampered, meddling>>

\* The ownership witness is the inode found at the name after the move.
GateWitness(p) ==
  /\ pc[p] = "gate_witness"
  /\ IF file["gate"] = NoFile
       THEN Raise(p, "failed", "plain") /\ UNCHANGED held
       ELSE /\ held' = [held EXCEPT ![p] = file["gate"].id]
            /\ Goto(p, "art_stage")
            /\ UNCHANGED error
  /\ UNCHANGED <<windows, file, stage, gated, withheld, placed, interrupted,
                 tampered, meddling>>

\* The directory lease is lost on exit: the error is raised with the gate
\* receipt already published, and the caller has no witness to discard it by.
GateLeaseLost(p) ==
  /\ pc[p] = "gate_witness"
  /\ "lease" \in Faults
  /\ Raise(p, "failed", "lease")
  /\ UNCHANGED <<windows, file, stage, gated, held, withheld, placed,
                 interrupted, tampered, meddling>>

-----------------------------------------------------------------------------
(* The artifact (_promote_runtime_artifact_with_identity).                 *)

\* A wrong hash discards the stage; a failing check or write leaves none.
ArtStage(p) ==
  /\ pc[p] = "art_stage"
  /\ \/ Stage(p, "art") /\ Goto(p, "art_move") /\ UNCHANGED error
     \/ /\ {"source", "staging"} \cap Faults # {}
        /\ StageFails(p, "art", AfterArtifact(p))
  /\ UNCHANGED <<windows, file, gated, held, withheld, placed, interrupted,
                 tampered, meddling>>

ArtMove(p) ==
  /\ pc[p] = "art_move"
  /\ Publish(p, "art")
  /\ Goto(p, "art_verify")
  /\ UNCHANGED <<windows, gated, held, withheld, error, interrupted,
                 tampered, meddling>>

ArtMoveFails(p) ==
  /\ pc[p] = "art_move"
  /\ MoveFails("art")
  /\ StageFails(p, "art", AfterArtifact(p))
  /\ UNCHANGED <<windows, file, gated, held, withheld, placed, interrupted,
                 tampered, meddling>>

\* _atomic_install re-reads the installed file, link count included.
ArtVerify(p) ==
  /\ pc[p] = "art_verify"
  /\ IF Owned(p, "art") /\ ~file["art"].linked
       THEN Goto(p, "art_recheck") /\ UNCHANGED error
       ELSE Raise(p, "undo_art", "plain")
  /\ UNCHANGED <<windows, file, stage, gated, held, withheld, placed,
                 interrupted, tampered, meddling>>

ArtRecheck(p) ==
  /\ pc[p] = "art_recheck"
  /\ IF Owned(p, "art")
       THEN Goto(p, "rcp_stage") /\ UNCHANGED error
       ELSE Raise(p, "undo_art", "plain")
  /\ UNCHANGED <<windows, file, stage, gated, held, withheld, placed,
                 interrupted, tampered, meddling>>

-----------------------------------------------------------------------------
(* The durable receipt (promote_result_with_receipt).                      *)

RcpStage(p) ==
  /\ pc[p] = "rcp_stage"
  /\ \/ Stage(p, "rcp") /\ Goto(p, "rcp_move") /\ UNCHANGED error
     \/ "staging" \in Faults /\ StageFails(p, "rcp", "undo_art")
  /\ UNCHANGED <<windows, file, gated, held, withheld, placed, interrupted,
                 tampered, meddling>>

RcpMove(p) ==
  /\ pc[p] = "rcp_move"
  /\ Publish(p, "rcp")
  /\ Goto(p, "rcp_verify")
  /\ UNCHANGED <<windows, gated, held, withheld, error, interrupted,
                 tampered, meddling>>

RcpMoveFails(p) ==
  /\ pc[p] = "rcp_move"
  /\ MoveFails("rcp")
  /\ StageFails(p, "rcp", "undo_art")
  /\ UNCHANGED <<windows, file, gated, held, withheld, placed, interrupted,
                 tampered, meddling>>

\* Mutant: the receipt that fails its check is not rolled back.
RcpVerifyForgets(p) ==
  /\ pc[p] = "rcp_verify"
  /\ IF Owned(p, "rcp") /\ ~file["rcp"].linked
       THEN Goto(p, "final_rcp") /\ UNCHANGED error
       ELSE Raise(p, "undo_art", "plain")
  /\ UNCHANGED <<windows, file, stage, gated, held, withheld, placed,
                 interrupted, tampered, meddling>>

\* _atomic_install re-reads the installed receipt the same way.  Here it rolls
\* back itself, and promote_result_with_receipt then the artifact.
RcpVerify(p) ==
  /\ pc[p] = "rcp_verify"
  /\ IF Owned(p, "rcp") /\ ~file["rcp"].linked
       THEN Goto(p, "final_rcp") /\ UNCHANGED error
       ELSE Raise(p, "undo_rcp", "plain")
  /\ UNCHANGED <<windows, file, stage, gated, held, withheld, placed,
                 interrupted, tampered, meddling>>

\* The closing check reads the receipt, then the artifact.
FinalReceipt(p) ==
  /\ pc[p] = "final_rcp"
  /\ IF Owned(p, "rcp")
       THEN Goto(p, "final_art") /\ UNCHANGED error
       ELSE Raise(p, "undo_rcp", "plain")
  /\ UNCHANGED <<windows, file, stage, gated, held, withheld, placed,
                 interrupted, tampered, meddling>>

FinalArtifact(p) ==
  /\ pc[p] = "final_art"
  /\ IF Owned(p, "art")
       THEN Goto(p, "succeeded") /\ UNCHANGED error
       ELSE Raise(p, "undo_rcp", "plain")
  /\ UNCHANGED <<windows, file, stage, gated, held, withheld, placed,
                 interrupted, tampered, meddling>>

-----------------------------------------------------------------------------
(* Rollback: the receipt first, then the artifact, then the gate receipt.  *)
(* _remove_installed checks the path, then delete_file_by_identity checks  *)
(* again through one handle; outside Windows it always declines.           *)

UndoReceipt(p) ==
  /\ pc[p] = "undo_rcp"
  /\ \/ /\ file["rcp"] = NoFile
        /\ Goto(p, "undo_art")
        /\ UNCHANGED withheld
     \/ /\ file["rcp"] # NoFile /\ ~Owned(p, "rcp")
        /\ withheld' = [withheld EXCEPT ![p] = @ \cup {"rcp"}]
        /\ Goto(p, "undo_art")
     \/ /\ Owned(p, "rcp")
        /\ Goto(p, "drop_rcp")
        /\ UNCHANGED withheld
  /\ placed' = IF file["rcp"] = NoFile
                 THEN [placed EXCEPT ![p] = @ \ {"rcp"}] ELSE placed
  /\ UNCHANGED <<windows, file, stage, gated, held, error, interrupted,
                 tampered, meddling>>

\* Mutant: the handle's bytes are not hashed again before the deletion.
CanDeleteUnhashed(p, n, i) ==
  /\ windows
  /\ file[n] # NoFile
  /\ file[n].id = i

\* delete_file_by_identity at name n, for an object with inode i.
CanDelete(p, n, i) ==
  /\ windows
  /\ file[n] # NoFile
  /\ file[n].id = i
  /\ file[n].data = Content(p, n)

Delete(p, n) ==
  /\ file' = [file EXCEPT ![n] = NoFile]
  /\ placed' = [placed EXCEPT ![p] = @ \ {n}]

DeleteDeclined(p, n, i) == ~CanDelete(p, n, i) \/ "refuse" \in Faults

DropReceipt(p) ==
  /\ pc[p] = "drop_rcp"
  /\ \/ CanDelete(p, "rcp", p) /\ Delete(p, "rcp") /\ UNCHANGED withheld
     \/ /\ DeleteDeclined(p, "rcp", p)
        /\ withheld' = [withheld EXCEPT ![p] = @ \cup {"rcp"}]
        /\ UNCHANGED <<file, placed>>
  /\ Goto(p, "undo_art")
  /\ UNCHANGED <<windows, stage, gated, held, error, interrupted, tampered,
                 meddling>>

\* The end of the handler in promote_result_with_receipt: withheld cleanup is
\* an Exception of its own, anything else re-raises what was caught.
Reraise(p, kept) ==
  /\ withheld' = [withheld EXCEPT ![p] = kept]
  /\ IF kept # {}
       THEN Raise(p, AfterArtifact(p), "manual")
       ELSE /\ UNCHANGED error
            /\ Goto(p, IF interrupted[p] THEN "interrupted"
                       ELSE AfterArtifact(p))

UndoArtifact(p) ==
  /\ pc[p] = "undo_art"
  /\ \/ file["art"] = NoFile /\ Reraise(p, withheld[p])
     \/ /\ file["art"] # NoFile /\ ~Owned(p, "art")
        /\ Reraise(p, withheld[p] \cup {"art"})
     \/ Owned(p, "art") /\ Goto(p, "drop_art") /\ UNCHANGED <<withheld, error>>
  /\ placed' = IF file["art"] = NoFile
                 THEN [placed EXCEPT ![p] = @ \ {"art"}] ELSE placed
  /\ UNCHANGED <<windows, file, stage, gated, held, interrupted, tampered,
                 meddling>>

DropArtifact(p) ==
  /\ pc[p] = "drop_art"
  /\ \/ /\ CanDelete(p, "art", p)
        /\ Delete(p, "art")
        /\ Reraise(p, withheld[p])
     \/ /\ DeleteDeclined(p, "art", p)
        /\ Reraise(p, withheld[p] \cup {"art"})
        /\ UNCHANGED <<file, placed>>
  /\ UNCHANGED <<windows, stage, gated, held, interrupted, tampered,
                 meddling>>

\* discard_promotion_gate_receipt: an absent file is no error; otherwise the
\* inode is compared with the witness and the bytes with the canonical ones.
GateWithheld(p) ==
  /\ withheld' = [withheld EXCEPT ![p] = @ \cup {"gate"}]
  /\ Raise(p, "failed", "gate_withheld")

\* The directory is witnessed and leased anew.  A root that is no directory, or
\* a lease the system denies, withholds the rollback; a witness that no longer
\* matches raises what neither the discard nor its caller catches, in the
\* place of the error that was to be raised.
GateLeaseFails(p) ==
  /\ "lease" \in Faults
  /\ \/ GateWithheld(p)
     \/ Raise(p, "failed", "lease") /\ UNCHANGED withheld

UndoGate(p) ==
  /\ pc[p] = "undo_gate"
  /\ \/ GateLeaseFails(p)
     \/ /\ file["gate"] = NoFile
        /\ Goto(p, "failed")
        /\ UNCHANGED <<withheld, error>>
     \/ /\ file["gate"] # NoFile
        /\ file["gate"].id = held[p] /\ file["gate"].data = p
        /\ Goto(p, "drop_gate")
        /\ UNCHANGED <<withheld, error>>
     \/ /\ file["gate"] # NoFile
        /\ file["gate"].id # held[p] \/ file["gate"].data # p
        /\ GateWithheld(p)
  /\ placed' = IF file["gate"] = NoFile
                 THEN [placed EXCEPT ![p] = @ \ {"gate"}] ELSE placed
  /\ UNCHANGED <<windows, file, stage, gated, held, interrupted, tampered,
                 meddling>>

\* The lease is checked again on the way out of a deletion, not of an error.
DropGate(p) ==
  /\ pc[p] = "drop_gate"
  /\ \/ /\ CanDelete(p, "gate", held[p])
        /\ Delete(p, "gate")
        /\ \/ Goto(p, "failed") /\ UNCHANGED error
           \/ "lease" \in Faults /\ Raise(p, "failed", "lease")
        /\ UNCHANGED withheld
     \/ /\ DeleteDeclined(p, "gate", held[p])
        /\ GateWithheld(p)
        /\ UNCHANGED <<file, placed>>
  /\ UNCHANGED <<windows, stage, gated, held, interrupted, tampered,
                 meddling>>

-----------------------------------------------------------------------------
(* What can happen to a promotion at any point.                            *)

Crash(p) ==
  /\ "crash" \in Faults
  /\ pc[p] \in Running
  /\ Goto(p, "crashed")
  /\ UNCHANGED <<windows, file, stage, gated, held, withheld, error, placed,
                 interrupted, tampered, meddling>>

\* KeyboardInterrupt is no Exception: only the "except BaseException" around
\* the receipt catches it, and there receipt_identity is set only once
\* _atomic_install has returned; "finally" unlinks the gate's stage.  The
\* handler's own withheld cleanup replaces the KeyboardInterrupt.
Interrupt(p) ==
  /\ "interrupt" \in Faults
  /\ interrupted' = [interrupted EXCEPT ![p] = TRUE]
  /\ \/ /\ pc[p] \in GatePhases \cup ArtPhases \cup UndoPhases
        /\ Goto(p, "interrupted")
     \/ pc[p] \in ReceiptPhases /\ Goto(p, "undo_art")
     \/ pc[p] \in FinalPhases /\ Goto(p, "undo_rcp")
  /\ Unstage(p, "gate") \/ ("retain" \in Faults /\ UNCHANGED stage)
  /\ UNCHANGED <<windows, file, gated, held, withheld, error, placed,
                 tampered, meddling>>

-----------------------------------------------------------------------------
(* Others.                                                                 *)

\* The file at n, if a promotion put it there, is no longer what it wrote.
Tamper(n) ==
  tampered' = [p \in Promoters |->
                 IF file[n] # NoFile /\ file[n].id = p
                   THEN tampered[p] \cup {n} ELSE tampered[p]]

Meddle(n) ==
  /\ meddling < MaxMeddling
  /\ meddling' = meddling + 1
  /\ \/ \E d \in Data :                                  \* create or replace
          /\ file' = [file EXCEPT ![n] =
                        [id |-> meddling + 1, ver |-> meddling + 1,
                         data |-> d, linked |-> FALSE]]
          /\ Tamper(n)
     \/ \E d \in Data :                                  \* rewrite in place
          /\ file[n] # NoFile
          /\ file' = [file EXCEPT ![n].data = d, ![n].ver = meddling + 1]
          /\ Tamper(n)
     \/ /\ file[n] # NoFile                              \* delete
        /\ file' = [file EXCEPT ![n] = NoFile]
        /\ Tamper(n)
     \/ /\ file[n] # NoFile                              \* hard-link
        /\ file' = [file EXCEPT ![n].linked = TRUE]
        /\ UNCHANGED tampered
  /\ UNCHANGED <<windows, promotion>>

-----------------------------------------------------------------------------
Init ==
  /\ windows \in BOOLEAN
  /\ file = [n \in Names |-> NoFile]
  /\ stage = [p \in Promoters |-> {}]
  /\ pc = [p \in Promoters |-> "idle"]
  /\ gated = [p \in Promoters |-> FALSE]
  /\ held = [p \in Promoters |-> NoOne]
  /\ withheld = [p \in Promoters |-> {}]
  /\ error = [p \in Promoters |-> "none"]
  /\ interrupted = [p \in Promoters |-> FALSE]
  /\ placed = [p \in Promoters |-> {}]
  /\ tampered = [p \in Promoters |-> {}]
  /\ meddling = 0

Promote(p) ==
  \/ Decline(p) \/ Reject(p) \/ (\E g \in BOOLEAN : Admit(p, g))
  \/ GateProbe(p) \/ GateStage(p) \/ GateMove(p) \/ GateMoveFails(p)
  \/ GateWitness(p) \/ GateLeaseLost(p)
  \/ ArtStage(p) \/ ArtMove(p) \/ ArtMoveFails(p) \/ ArtVerify(p)
  \/ ArtRecheck(p)
  \/ RcpStage(p) \/ RcpMove(p) \/ RcpMoveFails(p) \/ RcpVerify(p)
  \/ FinalReceipt(p) \/ FinalArtifact(p)
  \/ UndoReceipt(p) \/ DropReceipt(p) \/ UndoArtifact(p) \/ DropArtifact(p)
  \/ UndoGate(p) \/ DropGate(p)
  \/ Crash(p) \/ Interrupt(p)

Next ==
  \/ \E p \in Promoters : Promote(p)
  \/ \E n \in Names : Meddle(n)

Spec == Init /\ [][Next]_vars

-----------------------------------------------------------------------------
(* Properties.                                                             *)

TypeOK ==
  /\ windows \in BOOLEAN
  /\ file \in [Names -> File \cup {NoFile}]
  /\ stage \in [Promoters -> SUBSET Names]
  /\ pc \in [Promoters -> {"idle"} \cup Running \cup Ended]
  /\ gated \in [Promoters -> BOOLEAN]
  /\ held \in [Promoters -> Ids]
  /\ withheld \in [Promoters -> SUBSET Names]
  /\ error \in [Promoters -> Errors]
  /\ interrupted \in [Promoters -> BOOLEAN]
  /\ placed \in [Promoters -> SUBSET Names]
  /\ tampered \in [Promoters -> SUBSET Names]
  /\ meddling \in Nat

\* Evidence never outlives what it is about, at any instant and therefore at
\* any crash: while a promotion's receipt is in place its artifact is, and
\* while its artifact is in place the gate receipt that admitted it is,
\* unless others touched the evidence or the rollback named the survivor.
\* (install and rollback order in promote_eligible_project_result and
\* promote_result_with_receipt)
ReceiptBacked(p) ==
  Owned(p, "rcp") /\ "art" \notin tampered[p] /\ "rcp" \notin withheld[p]
    => Owned(p, "art")

ArtifactBacked(p) ==
  Owned(p, "art") /\ gated[p] /\ "gate" \notin tampered[p]
                  /\ "art" \notin withheld[p]
    => Owned(p, "gate")

EvidenceOrder ==
  \A p \in Promoters :
    /\ ~interrupted[p] => ReceiptBacked(p)
    /\ ArtifactBacked(p)

\* A promotion that returned its two paths has them in place, and its gate
\* receipt, for as long as others leave them alone: no competing promotion,
\* and no rollback of one, can take them away; so two competitors never both
\* succeed.  (promote_result_with_receipt, atomic_no_clobber_move)
SuccessBacked ==
  \A p \in Promoters : pc[p] = "succeeded" =>
    \A n \in {"art", "rcp"} \cup (IF gated[p] THEN {"gate"} ELSE {}) :
      n \notin tampered[p] => Owned(p, n)

\* A promotion that raised accounts for what it leaves behind.  An artifact or
\* receipt of its own still in place has a rollback that was withheld, whatever
\* became of the directory of the evidence and whatever the error says; so has
\* the gate receipt, unless the error is that this directory changed.  Where a
\* rollback was withheld or a stage kept, the error that reaches the caller is
\* not the plain one of the first failure.  The receipt of an interrupted
\* publication is excused.
\* (handlers of promote_result_with_receipt and of
\* promote_eligible_project_result, discard_promotion_gate_receipt,
\* _discard_owned_prepublication_stage)
Left(p) == {n \in Names : Owned(p, n) /\ n \notin tampered[p]}

FailureAccounted ==
  \A p \in Promoters : pc[p] = "failed" =>
    /\ Left(p) \subseteq withheld[p]
         \cup (IF error[p] = "lease" THEN {"gate"} ELSE {})
         \cup (IF interrupted[p] THEN {"rcp"} ELSE {})
    /\ withheld[p] # {} => error[p] \in {"manual", "gate_withheld", "lease"}
    /\ stage[p] \ {"gate"} # {} => error[p] # "plain"

\* Promotion implements the append-only store: it never replaces a file and
\* never removes bytes it did not write; the artifact and its receipt are
\* removed only as the very inode installed.  (atomic_no_clobber_move,
\* _remove_installed, discard_promotion_gate_receipt)
StoreView ==
  [n \in Names |-> IF file[n] = NoFile THEN NoFile
                   ELSE [id |-> file[n].id, data |-> file[n].data]]

Store == INSTANCE NoClobberStore WITH
           Owners <- Promoters, Empty <- NoFile, store <- StoreView,
           Written <- [p \in Promoters |-> [n \in Names |-> Content(p, n)]],
           IdentityBound <- {"art", "rcp"}

ImplementsStore == Store!Spec

-----------------------------------------------------------------------------
(* What the repository says and the code does not do (see PROJECT.json).   *)

\* "A replacement inode is never removed": a gate receipt is removed only
\* while the inode the promotion itself published stands at the name.
\* (discard_promotion_gate_receipt, promotion_gate_recording.py:126)
GateRemovedOnlyAsPublished ==
  [][\A p \in Promoters :
       pc[p] = "drop_gate" /\ file["gate"] # NoFile /\ file'["gate"] = NoFile
         /\ meddling' = meddling
       => file["gate"].id = p]_vars

\* "still-owned paths remain in place and produce
\* FIGOPS_DURABLE_MANUAL_CLEANUP_REQUIRED": a failed promotion whose artifact
\* or receipt remains carries that code.  (docs/architecture.md:248)
LeftoverIsTyped ==
  \A p \in Promoters : pc[p] = "failed" =>
    \A n \in {"art", "rcp"} : Owned(p, n) => error[p] = "manual"

\* Rollback on every exception leaves no receipt without its artifact, also
\* when the exception is a KeyboardInterrupt.
\* (promote_result_with_receipt, "except BaseException")
InterruptedReceiptBacked ==
  \A p \in Promoters : pc[p] = "interrupted" => ReceiptBacked(p)

=============================================================================
