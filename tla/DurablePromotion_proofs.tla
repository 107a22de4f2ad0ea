----------------------- MODULE DurablePromotion_proofs -----------------------
(***************************************************************************)
(* Proofs about DurablePromotion, for any number of promotions, any        *)
(* contents, any set of faults and any number of steps by others.          *)
(*                                                                         *)
(* EvidenceOrder and SuccessBacked speak of the files that stand at the    *)
(* names; they are not inductive, because a file alone does not say which  *)
(* promotion still answers for it.  The strengthening has two parts:       *)
(* Custody ties what each promotion placed to what stands at the names,    *)
(* and Progress ties what it placed to where its control is.               *)
(***************************************************************************)
EXTENDS VerifiedRead, TLAPS

\* What a promotion placed and others left alone is in place, and a file
\* with the inode of a promotion is one that it placed.
Custody ==
  \A p \in Promoters, n \in Names :
    /\ n \in placed[p] /\ n \notin tampered[p] => Owned(p, n)
    /\ file[n] # NoFile /\ file[n].id = p => n \in placed[p]

BeforeArt == {"idle", "art_stage", "art_move"} \cup GatePhases
BeforeRcp == {"idle", "rcp_stage", "rcp_move"} \cup GatePhases \cup ArtPhases
AfterRcp  == {"rcp_verify", "succeeded"} \cup FinalPhases
AfterArt  == {"art_verify", "art_recheck", "succeeded"}
               \cup ReceiptPhases \cup FinalPhases
AfterGate == {"gate_witness", "undo_rcp", "drop_rcp", "undo_art", "drop_art",
              "succeeded"} \cup ArtPhases \cup ReceiptPhases \cup FinalPhases

Progress(p) ==
  /\ pc[p] \in BeforeArt => "art" \notin placed[p]
  /\ pc[p] \in BeforeRcp => "rcp" \notin placed[p]
  /\ pc[p] \in AfterRcp => "rcp" \in placed[p]
  /\ pc[p] \in AfterArt => "art" \in placed[p]
  /\ pc[p] \in AfterGate /\ gated[p] => "gate" \in placed[p]
  /\ pc[p] \in {"undo_art", "drop_art"} /\ "rcp" \in placed[p]
       => "rcp" \in withheld[p] \/ interrupted[p]
  /\ pc[p] \in {"undo_gate", "drop_gate"} /\ "art" \in placed[p]
       => "art" \in withheld[p]
  /\ "rcp" \in placed[p]
       => "art" \in placed[p] \/ "rcp" \in withheld[p] \/ interrupted[p]
  /\ "art" \in placed[p] /\ gated[p]
       => "gate" \in placed[p] \/ "art" \in withheld[p]

IInv == TypeOK /\ Custody /\ \A p \in Promoters : Progress(p)

-----------------------------------------------------------------------------
(* Type correctness. *)

\* The types hold initially,
LEMMA TypeInit == Init => TypeOK
BY DEF Init, TypeOK, NoOne, Ids, Errors

\* What a promotion writes is a file.
LEMMA FreshFile ==
  ASSUME NEW p \in Promoters, NEW n \in Names
  PROVE  Fresh(p, n) \in File
BY BytesAssumption DEF Fresh, File, Content, Data, Ids

\* What others put at a name is a file too, and it is none of a promotion's.
LEMMA ForeignFile ==
  ASSUME meddling \in Nat, NEW d \in Data
  PROVE  LET f == [id |-> meddling + 1, ver |-> meddling + 1, data |-> d,
                   linked |-> FALSE]
         IN  f \in File /\ f.id \notin Promoters
BY PromotersAssumption DEF File, Ids

\* and every step keeps them.
LEMMA TypeStep == ASSUME TypeOK, [Next]_vars PROVE TypeOK'
<1>. USE DEF TypeOK, Running, Ended, Errors, Names, GatePhases, ArtPhases,
             ReceiptPhases, FinalPhases, UndoPhases
<1>1. ASSUME NEW p \in Promoters, Promote(p) PROVE TypeOK'
  <2>1. CASE Decline(p)
    BY <2>1 DEF Decline, Goto
  <2>2. CASE Reject(p)
    BY <2>2 DEF Reject, Goto, Raise
  <2>3. CASE GateProbe(p)
    BY <2>3 DEF GateProbe, Goto, Raise
  <2>4. CASE GateStage(p)
    BY <2>4 DEF GateStage, Goto, Raise, StageFails, Unstage, Stage
  <2>5. CASE GateMove(p)
    BY <2>5, FreshFile DEF GateMove, Goto, Publish, Unstage
  <2>6. CASE GateMoveFails(p)
    BY <2>6 DEF GateMoveFails, Goto, Raise, StageFails, Unstage, Stage
  <2>7. CASE GateWitness(p)
    BY <2>7 DEF GateWitness, Goto, Raise, File, Ids, Data
  <2>8. CASE GateLeaseLost(p)
    BY <2>8 DEF GateLeaseLost, Goto, Raise
  <2>9. CASE ArtStage(p)
    BY <2>9 DEF ArtStage, Goto, Raise, StageFails, Unstage, Stage,
        AfterArtifact
  <2>10. CASE ArtMove(p)
    BY <2>10, FreshFile DEF ArtMove, Goto, Publish, Unstage
  <2>11. CASE ArtMoveFails(p)
    BY <2>11 DEF ArtMoveFails, Goto, Raise, StageFails, Unstage, Stage,
        AfterArtifact
  <2>12. CASE ArtVerify(p)
    BY <2>12 DEF ArtVerify, Goto, Raise
  <2>13. CASE ArtRecheck(p)
    BY <2>13 DEF ArtRecheck, Goto, Raise
  <2>14. CASE RcpStage(p)
    BY <2>14 DEF RcpStage, Goto, Raise, StageFails, Unstage, Stage
  <2>15. CASE RcpMove(p)
    BY <2>15, FreshFile DEF RcpMove, Goto, Publish, Unstage
  <2>16. CASE RcpMoveFails(p)
    BY <2>16 DEF RcpMoveFails, Goto, Raise, StageFails, Unstage, Stage
  <2>17. CASE RcpVerify(p)
    BY <2>17 DEF RcpVerify, Goto, Raise
  <2>18. CASE FinalReceipt(p)
    BY <2>18 DEF FinalReceipt, Goto, Raise
  <2>19. CASE FinalArtifact(p)
    BY <2>19 DEF FinalArtifact, Goto, Raise
  <2>20. CASE UndoReceipt(p)
    BY <2>20 DEF UndoReceipt, Goto
  <2>21. CASE DropReceipt(p)
    BY <2>21 DEF DropReceipt, Goto, Delete
  <2>22. CASE UndoArtifact(p)
    BY <2>22 DEF UndoArtifact, Goto, Raise, AfterArtifact, Reraise
  <2>23. CASE DropArtifact(p)
    BY <2>23 DEF DropArtifact, Goto, Raise, AfterArtifact, Reraise, Delete
  <2>24. CASE UndoGate(p)
    BY <2>24 DEF UndoGate, GateLeaseFails, Goto, Raise, GateWithheld
  <2>25. CASE DropGate(p)
    BY <2>25 DEF DropGate, Goto, Raise, Delete, GateWithheld
  <2>26. CASE Crash(p)
    BY <2>26 DEF Crash, Goto
  <2>27. CASE Interrupt(p)
    BY <2>27 DEF Interrupt, Goto, Unstage
  <2>28. CASE \E g \in BOOLEAN : Admit(p, g)
    BY <2>28 DEF Admit, Goto
  <2>. QED
    BY <1>1, <2>1, <2>2, <2>3, <2>4, <2>5, <2>6, <2>7, <2>8, <2>9, <2>10,
        <2>11, <2>12, <2>13, <2>14, <2>15, <2>16, <2>17, <2>18, <2>19, <2>20,
        <2>21, <2>22, <2>23, <2>24, <2>25, <2>26, <2>27, <2>28 DEF Promote
<1>2. ASSUME NEW n \in Names, Meddle(n) PROVE TypeOK'
  <2>1. tampered' \in [Promoters -> SUBSET Names]
    <3>1. CASE Tamper(n)
      <4>1. \A p \in Promoters : tampered[p] \cup {n} \in SUBSET Names
        OBVIOUS
      <4>. QED  BY <3>1, <4>1 DEF Tamper
    <3>2. CASE UNCHANGED tampered
      BY <3>2
    <3>. QED  BY <1>2, <3>1, <3>2 DEF Meddle
  <2>2. file' \in [Names -> File \cup {NoFile}]
    <3>1. CASE \E d \in Data : file' = [file EXCEPT ![n] =
                 [id |-> meddling + 1, ver |-> meddling + 1, data |-> d,
                  linked |-> FALSE]]
      BY <3>1, ForeignFile
    <3>2. CASE \E d \in Data :
                 /\ file[n] # NoFile
                 /\ file' = [file EXCEPT ![n].data = d, ![n].ver = meddling + 1]
      <4>1. file[n] \in File  BY <3>2
      <4>. QED  BY <3>2, <4>1 DEF File
    <3>3. CASE file' = [file EXCEPT ![n] = NoFile]
      BY <3>3
    <3>4. CASE file[n] # NoFile /\ file' = [file EXCEPT ![n].linked = TRUE]
      <4>1. file[n] \in File  BY <3>4
      <4>. QED  BY <3>4, <4>1 DEF File
    <3>. QED  BY <1>2, <3>1, <3>2, <3>3, <3>4 DEF Meddle
  <2>. QED  BY <1>2, <2>1, <2>2 DEF Meddle, promotion
<1>3. CASE UNCHANGED vars
  BY <1>3 DEF vars, promotion
<1>. QED  BY <1>1, <1>2, <1>3 DEF Next

\* Every variable of the promotion keeps its type.
THEOREM TypeCorrect == Spec => []TypeOK
<1>1. Init => TypeOK  BY TypeInit
<1>2. TypeOK /\ [Next]_vars => TypeOK'  BY TypeStep
<1>. QED  BY <1>1, <1>2, PTL DEF Spec

-----------------------------------------------------------------------------
(* Custody: what is placed, and what stands at the names. *)

\* A name at which a promotion publishes was free, so nobody's untampered file
\* stood there.
LEMMA CustodyPublish ==
  ASSUME TypeOK, Custody, NEW p \in Promoters, NEW n \in Names,
         Publish(p, n), UNCHANGED tampered
  PROVE  Custody'
<1>. SUFFICES ASSUME NEW q \in Promoters, NEW m \in Names
              PROVE  /\ m \in placed'[q] /\ m \notin tampered'[q] => Owned(q, m)'
                     /\ file'[m] # NoFile /\ file'[m].id = q => m \in placed'[q]
  BY DEF Custody
<1>1. /\ m \in placed[q] /\ m \notin tampered[q] => Owned(q, m)
      /\ file[m] # NoFile /\ file[m].id = q => m \in placed[q]
  BY DEF Custody
<1>2. Fresh(p, n) # NoFile
  BY FreshFile, NoFileAssumption
<1>3. CASE m = n
  <2>1. file'[m] = Fresh(p, n)  BY <1>3 DEF Publish, TypeOK
  <2>2. q # p => m \notin placed[q] \/ m \in tampered[q]
    BY <1>1, <1>3 DEF Publish, Owned
  <2>. QED  BY <1>2, <2>1, <2>2, <1>3 DEF Publish, TypeOK, Fresh, Owned
<1>4. CASE m # n
  BY <1>1, <1>4 DEF Publish, TypeOK, Owned
<1>. QED  BY <1>3, <1>4

\* A deletion takes the file of the promotion that deletes: the bytes it
\* compared are its own, or the inode is.
LEMMA CustodyDelete ==
  ASSUME TypeOK, Custody, NEW p \in Promoters, NEW n \in Names, NEW i \in Ids,
         CanDelete(p, n, i), n = "gate" \/ i = p,
         Delete(p, n), UNCHANGED tampered
  PROVE  Custody'
<1>. SUFFICES ASSUME NEW q \in Promoters, NEW m \in Names
              PROVE  /\ m \in placed'[q] /\ m \notin tampered'[q] => Owned(q, m)'
                     /\ file'[m] # NoFile /\ file'[m].id = q => m \in placed'[q]
  BY DEF Custody
<1>1. /\ m \in placed[q] /\ m \notin tampered[q] => Owned(q, m)
      /\ file[m] # NoFile /\ file[m].id = q => m \in placed[q]
  BY DEF Custody
<1>2. CASE m = n
  <2>1. Owned(q, m) => q = p
    BY <1>2 DEF CanDelete, Owned, Content
  <2>. QED  BY <1>1, <1>2, <2>1 DEF Delete, TypeOK
<1>3. CASE m # n
  BY <1>1, <1>3 DEF Delete, TypeOK, Owned
<1>. QED  BY <1>2, <1>3

\* A step that leaves the names alone, and forgets at most a placed name at
\* which nothing stands, keeps custody.
LEMMA CustodyKept ==
  ASSUME TypeOK, Custody, NEW p \in Promoters, NEW n \in Names,
         UNCHANGED <<file, tampered>>,
         placed' = IF file[n] = NoFile
                     THEN [placed EXCEPT ![p] = @ \ {n}] ELSE placed
  PROVE  Custody'
BY DEF Custody, TypeOK, Owned

\* Others: whatever they replace, rewrite or delete counts as tampered.
LEMMA CustodyMeddle ==
  ASSUME TypeOK, Custody, NEW n \in Names, Meddle(n)
  PROVE  Custody'
<1>. SUFFICES ASSUME NEW q \in Promoters, NEW m \in Names
              PROVE  /\ m \in placed'[q] /\ m \notin tampered'[q] => Owned(q, m)'
                     /\ file'[m] # NoFile /\ file'[m].id = q => m \in placed'[q]
  BY DEF Custody
<1>1. /\ m \in placed[q] /\ m \notin tampered[q] => Owned(q, m)
      /\ file[m] # NoFile /\ file[m].id = q => m \in placed[q]
  BY DEF Custody
<1>2. UNCHANGED placed
  BY DEF Meddle, promotion
<1>3. CASE m # n
  <2>1. file'[m] = file[m]  BY <1>3 DEF Meddle, TypeOK
  <2>2. m \in tampered'[q] <=> m \in tampered[q]
    <3>1. CASE Tamper(n)
      BY <1>3, <3>1 DEF Tamper
    <3>2. CASE UNCHANGED tampered
      BY <3>2
    <3>. QED  BY <3>1, <3>2 DEF Meddle
  <2>. QED  BY <1>1, <1>2, <2>1, <2>2 DEF Owned
<1>4. CASE m = n /\ Tamper(n)
  <2>1. m \in placed[q] => m \in tampered'[q]
    BY <1>1, <1>4 DEF Tamper, Owned
  <2>2. \/ file'[m] = NoFile
        \/ file'[m].id \notin Promoters
        \/ file[m] # NoFile /\ file'[m].id = file[m].id
    <3>1. CASE \E d \in Data : file' = [file EXCEPT ![n] =
                 [id |-> meddling + 1, ver |-> meddling + 1, data |-> d,
                  linked |-> FALSE]]
      BY <1>4, <3>1, ForeignFile DEF TypeOK
    <3>2. CASE \E d \in Data :
                 /\ file[n] # NoFile
                 /\ file' = [file EXCEPT ![n].data = d, ![n].ver = meddling + 1]
      <4>1. file[n] \in File  BY <3>2 DEF TypeOK
      <4>. QED  BY <1>4, <3>2, <4>1 DEF TypeOK, File
    <3>3. CASE file' = [file EXCEPT ![n] = NoFile]
      BY <1>4, <3>3 DEF TypeOK
    <3>4. CASE file[n] # NoFile /\ file' = [file EXCEPT ![n].linked = TRUE]
      <4>1. file[n] \in File  BY <3>4 DEF TypeOK
      <4>. QED  BY <1>4, <3>4, <4>1 DEF TypeOK, File
    <3>. QED  BY <3>1, <3>2, <3>3, <3>4 DEF Meddle
  <2>. QED  BY <1>1, <1>2, <2>1, <2>2
<1>5. CASE /\ m = n /\ file[n] # NoFile /\ UNCHANGED tampered
           /\ file' = [file EXCEPT ![n].linked = TRUE]
  <2>1. file[m] \in File  BY <1>5 DEF TypeOK
  <2>2. /\ file'[m] \in File /\ file'[m].id = file[m].id
        /\ file'[m].data = file[m].data
    BY <1>5, <2>1 DEF TypeOK, File
  <2>. QED  BY <1>1, <1>2, <1>5, <2>2, NoFileAssumption DEF Owned
<1>. QED  BY <1>3, <1>4, <1>5 DEF Meddle

\* Every step keeps what is known of who made which file.
LEMMA CustodyStep == ASSUME TypeOK, Custody, [Next]_vars PROVE Custody'
<1>1. ASSUME NEW p \in Promoters, Promote(p) PROVE Custody'
  <2>1. CASE UNCHANGED <<file, placed, tampered>>
    BY <2>1 DEF Custody, Owned
  <2>2. CASE GateMove(p)
    BY <2>2, CustodyPublish DEF GateMove, Names
  <2>3. CASE ArtMove(p)
    BY <2>3, CustodyPublish DEF ArtMove, Names
  <2>4. CASE RcpMove(p)
    BY <2>4, CustodyPublish DEF RcpMove, Names
  <2>5. CASE UndoReceipt(p)
    BY <2>5, CustodyKept DEF UndoReceipt, Names
  <2>6. CASE UndoArtifact(p)
    BY <2>6, CustodyKept DEF UndoArtifact, Names
  <2>7. CASE UndoGate(p)
    BY <2>7, CustodyKept DEF UndoGate, Names
  <2>8. CASE DropReceipt(p)
    BY <2>1, <2>8, CustodyDelete DEF DropReceipt, Names, Ids
  <2>9. CASE DropArtifact(p)
    BY <2>1, <2>9, CustodyDelete DEF DropArtifact, Names, Ids
  <2>10. CASE DropGate(p)
    <3>1. held[p] \in Ids  BY DEF TypeOK
    <3>. QED  BY <2>1, <2>10, <3>1, CustodyDelete DEF DropGate, Names
  <2>11. CASE \/ Decline(p) \/ Reject(p) \/ (\E g \in BOOLEAN : Admit(p, g))
               \/ GateProbe(p) \/ GateStage(p) \/ GateMoveFails(p)
               \/ GateWitness(p) \/ GateLeaseLost(p)
               \/ ArtStage(p) \/ ArtMoveFails(p) \/ ArtVerify(p)
               \/ ArtRecheck(p) \/ RcpStage(p) \/ RcpMoveFails(p)
               \/ RcpVerify(p) \/ FinalReceipt(p) \/ FinalArtifact(p)
               \/ Crash(p) \/ Interrupt(p)
    BY <2>1, <2>11
       DEF Admit, Decline, Reject, GateProbe, GateStage,
           GateMoveFails, GateWitness, GateLeaseLost, ArtStage,
           ArtMoveFails, ArtVerify, ArtRecheck, RcpStage, RcpMoveFails,
           RcpVerify, FinalReceipt, FinalArtifact, Crash, Interrupt
  <2>. QED
    BY <1>1, <2>2, <2>3, <2>4, <2>5, <2>6, <2>7, <2>8, <2>9, <2>10, <2>11
       DEF Promote
<1>2. ASSUME NEW n \in Names, Meddle(n) PROVE Custody'
  BY <1>2, CustodyMeddle
<1>3. CASE UNCHANGED vars
  BY <1>3 DEF vars, promotion, Custody, Owned
<1>. QED  BY <1>1, <1>2, <1>3 DEF Next

-----------------------------------------------------------------------------
(* Progress: where control is, and what is placed. *)

\* A step of one promotion changes no control state of another.
LEMMA OthersKeepProgress ==
  ASSUME TypeOK, NEW p \in Promoters, NEW q \in Promoters \ {p}, Promote(p),
         Progress(q)
  PROVE  Progress(q)'
<1>1. /\ pc'[q] = pc[q] /\ gated'[q] = gated[q] /\ withheld'[q] = withheld[q]
      /\ interrupted'[q] = interrupted[q] /\ placed'[q] = placed[q]
  <2>. USE DEF TypeOK
  <2>1. CASE Decline(p)
    BY <2>1 DEF Decline, Goto
  <2>2. CASE Reject(p)
    BY <2>2 DEF Reject, Goto, Raise
  <2>3. CASE GateProbe(p)
    BY <2>3 DEF GateProbe, Goto, Raise
  <2>4. CASE GateStage(p)
    BY <2>4 DEF GateStage, Goto, Raise, StageFails
  <2>5. CASE GateMove(p)
    BY <2>5 DEF GateMove, Goto, Publish
  <2>6. CASE GateMoveFails(p)
    BY <2>6 DEF GateMoveFails, Goto, Raise, StageFails
  <2>7. CASE GateWitness(p)
    BY <2>7 DEF GateWitness, Goto, Raise
  <2>8. CASE GateLeaseLost(p)
    BY <2>8 DEF GateLeaseLost, Goto, Raise
  <2>9. CASE ArtStage(p)
    BY <2>9 DEF ArtStage, Goto, Raise, StageFails, AfterArtifact
  <2>10. CASE ArtMove(p)
    BY <2>10 DEF ArtMove, Goto, Publish
  <2>11. CASE ArtMoveFails(p)
    BY <2>11 DEF ArtMoveFails, Goto, Raise, StageFails, AfterArtifact
  <2>12. CASE ArtVerify(p)
    BY <2>12 DEF ArtVerify, Goto, Raise
  <2>13. CASE ArtRecheck(p)
    BY <2>13 DEF ArtRecheck, Goto, Raise
  <2>14. CASE RcpStage(p)
    BY <2>14 DEF RcpStage, Goto, Raise, StageFails
  <2>15. CASE RcpMove(p)
    BY <2>15 DEF RcpMove, Goto, Publish
  <2>16. CASE RcpMoveFails(p)
    BY <2>16 DEF RcpMoveFails, Goto, Raise, StageFails
  <2>17. CASE RcpVerify(p)
    BY <2>17 DEF RcpVerify, Goto, Raise
  <2>18. CASE FinalReceipt(p)
    BY <2>18 DEF FinalReceipt, Goto, Raise
  <2>19. CASE FinalArtifact(p)
    BY <2>19 DEF FinalArtifact, Goto, Raise
  <2>20. CASE UndoReceipt(p)
    BY <2>20 DEF UndoReceipt, Goto
  <2>21. CASE DropReceipt(p)
    BY <2>21 DEF DropReceipt, Goto, Delete
  <2>22. CASE UndoArtifact(p)
    BY <2>22 DEF UndoArtifact, Goto, Raise, AfterArtifact, Reraise
  <2>23. CASE DropArtifact(p)
    BY <2>23 DEF DropArtifact, Goto, Raise, AfterArtifact, Reraise, Delete
  <2>24. CASE UndoGate(p)
    BY <2>24 DEF UndoGate, GateLeaseFails, Goto, Raise, GateWithheld
  <2>25. CASE DropGate(p)
    BY <2>25 DEF DropGate, Goto, Raise, Delete, GateWithheld
  <2>26. CASE Crash(p)
    BY <2>26 DEF Crash, Goto
  <2>27. CASE Interrupt(p)
    BY <2>27 DEF Interrupt, Goto
  <2>28. CASE \E g \in BOOLEAN : Admit(p, g)
    BY <2>28 DEF Admit, Goto
  <2>. QED
    BY <2>1, <2>2, <2>3, <2>4, <2>5, <2>6, <2>7, <2>8, <2>9, <2>10, <2>11,
       <2>12, <2>13, <2>14, <2>15, <2>16, <2>17, <2>18, <2>19, <2>20, <2>21,
       <2>22, <2>23, <2>24, <2>25, <2>26, <2>27, <2>28 DEF Promote
<1>. QED  BY <1>1 DEF Progress

\* A step of a promotion keeps its own progress.
LEMMA OwnProgress ==
  ASSUME TypeOK, NEW p \in Promoters, Promote(p), Progress(p)
  PROVE  Progress(p)'
<1>. USE DEF TypeOK, Names, Progress, BeforeArt, BeforeRcp, AfterRcp, AfterArt,
               AfterGate, GatePhases, ArtPhases, ReceiptPhases, FinalPhases,
               UndoPhases
<1>1. CASE Decline(p)
  BY <1>1 DEF Decline, Goto
<1>2. CASE Reject(p)
  BY <1>2 DEF Reject, Goto, Raise
<1>3. CASE GateProbe(p)
  BY <1>3 DEF GateProbe, Goto, Raise
<1>4. CASE GateStage(p)
  BY <1>4 DEF GateStage, Goto, Raise, StageFails
<1>5. CASE GateMove(p)
  BY <1>5 DEF GateMove, Goto, Publish
<1>6. CASE GateMoveFails(p)
  BY <1>6 DEF GateMoveFails, Goto, Raise, StageFails
<1>7. CASE GateWitness(p)
  BY <1>7 DEF GateWitness, Goto, Raise
<1>8. CASE GateLeaseLost(p)
  BY <1>8 DEF GateLeaseLost, Goto, Raise
<1>9. CASE ArtStage(p)
  BY <1>9 DEF ArtStage, Goto, Raise, StageFails, AfterArtifact
<1>10. CASE ArtMove(p)
  BY <1>10 DEF ArtMove, Goto, Publish
<1>11. CASE ArtMoveFails(p)
  BY <1>11 DEF ArtMoveFails, Goto, Raise, StageFails, AfterArtifact
<1>12. CASE ArtVerify(p)
  BY <1>12 DEF ArtVerify, Goto, Raise
<1>13. CASE ArtRecheck(p)
  BY <1>13 DEF ArtRecheck, Goto, Raise
<1>14. CASE RcpStage(p)
  BY <1>14 DEF RcpStage, Goto, Raise, StageFails
<1>15. CASE RcpMove(p)
  BY <1>15 DEF RcpMove, Goto, Publish
<1>16. CASE RcpMoveFails(p)
  BY <1>16 DEF RcpMoveFails, Goto, Raise, StageFails
<1>17. CASE RcpVerify(p)
  BY <1>17 DEF RcpVerify, Goto, Raise
<1>18. CASE FinalReceipt(p)
  BY <1>18 DEF FinalReceipt, Goto, Raise
<1>19. CASE FinalArtifact(p)
  BY <1>19 DEF FinalArtifact, Goto, Raise
<1>20. CASE UndoReceipt(p)
  BY <1>20 DEF UndoReceipt, Goto
<1>21. CASE DropReceipt(p)
  BY <1>21 DEF DropReceipt, Goto, Delete
<1>22. CASE UndoArtifact(p)
  BY <1>22 DEF UndoArtifact, Goto, Raise, AfterArtifact, Reraise
<1>23. CASE DropArtifact(p)
  BY <1>23 DEF DropArtifact, Goto, Raise, AfterArtifact, Reraise, Delete
<1>24. CASE UndoGate(p)
  BY <1>24 DEF UndoGate, GateLeaseFails, Goto, Raise, GateWithheld
<1>25. CASE DropGate(p)
  BY <1>25 DEF DropGate, Goto, Raise, Delete, GateWithheld
<1>26. CASE Crash(p)
  BY <1>26 DEF Crash, Goto
<1>27. CASE Interrupt(p)
  BY <1>27 DEF Interrupt, Goto
<1>28. CASE \E g \in BOOLEAN : Admit(p, g)
  BY <1>28 DEF Admit, Goto
<1>. QED
  BY <1>1, <1>2, <1>3, <1>4, <1>5, <1>6, <1>7, <1>8, <1>9, <1>10, <1>11,
       <1>12, <1>13, <1>14, <1>15, <1>16, <1>17, <1>18, <1>19, <1>20, <1>21,
       <1>22, <1>23, <1>24, <1>25, <1>26, <1>27, <1>28 DEF Promote

\* Every step keeps what each promoter has established so far.
LEMMA ProgressStep ==
  ASSUME TypeOK, \A p \in Promoters : Progress(p), [Next]_vars
  PROVE  \A p \in Promoters : Progress(p)'
<1>. SUFFICES ASSUME NEW q \in Promoters PROVE Progress(q)'
  OBVIOUS
<1>1. ASSUME NEW p \in Promoters, Promote(p) PROVE Progress(q)'
  BY <1>1, OwnProgress, OthersKeepProgress
<1>2. ASSUME NEW n \in Names, Meddle(n) PROVE Progress(q)'
  BY <1>2 DEF Meddle, promotion, Progress
<1>3. CASE UNCHANGED vars
  BY <1>3 DEF vars, promotion, Progress
<1>. QED  BY <1>1, <1>2, <1>3 DEF Next

-----------------------------------------------------------------------------
(* The invariant, and what follows from it. *)

\* So both hold always.
LEMMA Inductive == Spec => []IInv
<1>1. Init => IInv
  <2>. SUFFICES ASSUME Init PROVE IInv
    OBVIOUS
  <2>1. TypeOK  BY TypeInit
  <2>2. Custody
    BY DEF Init, Custody
  <2>3. \A p \in Promoters : Progress(p)
    BY DEF Init, Progress, AfterRcp, AfterArt, AfterGate, ArtPhases,
           ReceiptPhases, FinalPhases
  <2>. QED  BY <2>1, <2>2, <2>3 DEF IInv
<1>2. IInv /\ [Next]_vars => IInv'
  BY TypeStep, CustodyStep, ProgressStep DEF IInv
<1>. QED  BY <1>1, <1>2, PTL DEF Spec

\* While the receipt of a promotion stands its artifact does, and while a
\* gated artifact stands its gate receipt does, but for what others did and
\* what the rollback reported.
THEOREM EvidenceOrdered == Spec => []EvidenceOrder
<1>1. IInv => EvidenceOrder
  BY DEF IInv, Custody, Progress, EvidenceOrder, ReceiptBacked, ArtifactBacked,
         Owned, Names
<1>. QED  BY <1>1, Inductive, PTL

\* What a successful promotion returned stays in place unless others touch
\* it: no competing promotion and no rollback takes it away.
THEOREM SuccessIsDurable == Spec => []SuccessBacked
<1>1. IInv => SuccessBacked
  BY DEF IInv, Custody, Progress, SuccessBacked, AfterRcp, AfterArt, AfterGate,
         Names
<1>. QED  BY <1>1, Inductive, PTL

-----------------------------------------------------------------------------
(* What a failure accounts for. *)

Before == {"idle"} \cup GatePhases \cup ArtPhases \cup ReceiptPhases
            \cup FinalPhases
Unwound == {"undo_gate", "drop_gate", "failed"}

\* Nothing is withheld before a rollback, no error is raised before one, and
\* once the artifact is rolled back all that p placed is reported, unless
\* others touched it.
Account(p) ==
  /\ pc[p] \in {"idle", "gate_probe", "gate_stage", "gate_move"}
       => "gate" \notin placed[p]
  /\ pc[p] \in GatePhases => gated[p]
  /\ ~gated[p] => "gate" \notin placed[p]
  /\ pc[p] \in Before \cup {"undo_rcp", "drop_rcp"} => withheld[p] = {}
  /\ pc[p] \in Before => error[p] = "none"
  /\ pc[p] \in Before \ {"art_move", "rcp_move"} => stage[p] \subseteq {"gate"}
  /\ pc[p] = "art_move" => stage[p] \subseteq {"gate", "art"}
  /\ pc[p] = "rcp_move" => stage[p] \subseteq {"gate", "rcp"}
  /\ pc[p] \in UndoPhases \cup {"failed"} /\ stage[p] \ {"gate"} # {}
       => error[p] # "plain"
  /\ pc[p] \in Unwound /\ withheld[p] # {}
       => error[p] \in {"manual", "gate_withheld", "lease"}
  /\ pc[p] \in Unwound /\ "rcp" \in placed[p]
       => "rcp" \in withheld[p] \/ interrupted[p]
  /\ pc[p] \in Unwound /\ "art" \in placed[p] => "art" \in withheld[p]
  /\ pc[p] = "failed" /\ error[p] # "lease" /\ "gate" \in placed[p]
       => "gate" \in withheld[p] \/ "gate" \in tampered[p]

\* A promoter's step does not change what another has to account for,
LEMMA OthersKeepAccount ==
  ASSUME TypeOK, NEW p \in Promoters, NEW q \in Promoters \ {p}, Promote(p),
         Account(q)
  PROVE  Account(q)'
<1>1. /\ pc'[q] = pc[q] /\ gated'[q] = gated[q] /\ withheld'[q] = withheld[q]
      /\ interrupted'[q] = interrupted[q] /\ placed'[q] = placed[q]
      /\ stage'[q] = stage[q] /\ error'[q] = error[q]
      /\ tampered'[q] = tampered[q]
  <2>. USE DEF TypeOK
  <2>1. CASE Decline(p)
    BY <2>1 DEF Decline, Goto
  <2>2. CASE Reject(p)
    BY <2>2 DEF Reject, Goto, Raise
  <2>3. CASE GateProbe(p)
    BY <2>3 DEF GateProbe, Goto, Raise
  <2>4. CASE GateStage(p)
    BY <2>4 DEF GateStage, Goto, Raise, StageFails, Stage, Unstage
  <2>5. CASE GateMove(p)
    BY <2>5 DEF GateMove, Goto, Publish, Unstage
  <2>6. CASE GateMoveFails(p)
    BY <2>6 DEF GateMoveFails, Goto, Raise, StageFails, Stage, Unstage
  <2>7. CASE GateWitness(p)
    BY <2>7 DEF GateWitness, Goto, Raise
  <2>8. CASE GateLeaseLost(p)
    BY <2>8 DEF GateLeaseLost, Goto, Raise
  <2>9. CASE ArtStage(p)
    BY <2>9 DEF ArtStage, Goto, Raise, StageFails, Stage, Unstage,
        AfterArtifact
  <2>10. CASE ArtMove(p)
    BY <2>10 DEF ArtMove, Goto, Publish, Unstage
  <2>11. CASE ArtMoveFails(p)
    BY <2>11 DEF ArtMoveFails, Goto, Raise, StageFails, Stage, Unstage,
        AfterArtifact
  <2>12. CASE ArtVerify(p)
    BY <2>12 DEF ArtVerify, Goto, Raise
  <2>13. CASE ArtRecheck(p)
    BY <2>13 DEF ArtRecheck, Goto, Raise
  <2>14. CASE RcpStage(p)
    BY <2>14 DEF RcpStage, Goto, Raise, StageFails, Stage, Unstage
  <2>15. CASE RcpMove(p)
    BY <2>15 DEF RcpMove, Goto, Publish, Unstage
  <2>16. CASE RcpMoveFails(p)
    BY <2>16 DEF RcpMoveFails, Goto, Raise, StageFails, Stage, Unstage
  <2>17. CASE RcpVerify(p)
    BY <2>17 DEF RcpVerify, Goto, Raise
  <2>18. CASE FinalReceipt(p)
    BY <2>18 DEF FinalReceipt, Goto, Raise
  <2>19. CASE FinalArtifact(p)
    BY <2>19 DEF FinalArtifact, Goto, Raise
  <2>20. CASE UndoReceipt(p)
    BY <2>20 DEF UndoReceipt, Goto
  <2>21. CASE DropReceipt(p)
    BY <2>21 DEF DropReceipt, Goto, Delete
  <2>22. CASE UndoArtifact(p)
    BY <2>22 DEF UndoArtifact, Goto, Raise, AfterArtifact, Reraise
  <2>23. CASE DropArtifact(p)
    BY <2>23 DEF DropArtifact, Goto, Raise, AfterArtifact, Reraise, Delete
  <2>24. CASE UndoGate(p)
    BY <2>24 DEF UndoGate, GateLeaseFails, Goto, Raise, GateWithheld
  <2>25. CASE DropGate(p)
    BY <2>25 DEF DropGate, Goto, Raise, Delete, GateWithheld
  <2>26. CASE Crash(p)
    BY <2>26 DEF Crash, Goto
  <2>27. CASE Interrupt(p)
    BY <2>27 DEF Interrupt, Goto, Unstage
  <2>28. CASE \E g \in BOOLEAN : Admit(p, g)
    BY <2>28 DEF Admit, Goto
  <2>. QED
    BY <2>1, <2>2, <2>3, <2>4, <2>5, <2>6, <2>7, <2>8, <2>9, <2>10, <2>11,
       <2>12, <2>13, <2>14, <2>15, <2>16, <2>17, <2>18, <2>19, <2>20, <2>21,
       <2>22, <2>23, <2>24, <2>25, <2>26, <2>27, <2>28 DEF Promote
<1>. QED  BY <1>1 DEF Account

\* and it accounts for what it did itself,
LEMMA OwnAccount ==
  ASSUME TypeOK, Custody, NEW p \in Promoters, Promote(p), Progress(p),
         Account(p)
  PROVE  Account(p)'
<1>. USE DEF TypeOK, Names, Progress, BeforeArt, BeforeRcp, AfterRcp, AfterArt,
             AfterGate, Account, Before, Unwound, GatePhases, ArtPhases,
             ReceiptPhases, FinalPhases, UndoPhases
<1>1. CASE Decline(p)
  BY <1>1 DEF Decline, Goto
<1>2. CASE Reject(p)
  BY <1>2 DEF Reject, Goto, Raise
<1>3. CASE GateProbe(p)
  BY <1>3 DEF GateProbe, Goto, Raise
<1>4. CASE GateStage(p)
  BY <1>4 DEF GateStage, Goto, Raise, StageFails, Stage, Unstage
<1>5. CASE GateMove(p)
  BY <1>5 DEF GateMove, Goto, Publish, Unstage
<1>6. CASE GateMoveFails(p)
  BY <1>6 DEF GateMoveFails, Goto, Raise, StageFails, Stage, Unstage
<1>7. CASE GateWitness(p)
  <2>1. file["gate"] = NoFile /\ "gate" \in placed[p] => "gate" \in tampered[p]
    BY DEF Custody, Owned
  <2>. QED  BY <1>7, <2>1 DEF GateWitness, Goto, Raise
<1>8. CASE GateLeaseLost(p)
  BY <1>8 DEF GateLeaseLost, Goto, Raise
<1>9. CASE ArtStage(p)
  BY <1>9 DEF ArtStage, Goto, Raise, StageFails, Stage, Unstage, AfterArtifact
<1>10. CASE ArtMove(p)
  BY <1>10 DEF ArtMove, Goto, Publish, Unstage
<1>11. CASE ArtMoveFails(p)
  BY <1>11 DEF ArtMoveFails, Goto, Raise, StageFails, Stage, Unstage,
      AfterArtifact
<1>12. CASE ArtVerify(p)
  BY <1>12 DEF ArtVerify, Goto, Raise
<1>13. CASE ArtRecheck(p)
  BY <1>13 DEF ArtRecheck, Goto, Raise
<1>14. CASE RcpStage(p)
  BY <1>14 DEF RcpStage, Goto, Raise, StageFails, Stage, Unstage
<1>15. CASE RcpMove(p)
  BY <1>15 DEF RcpMove, Goto, Publish, Unstage
<1>16. CASE RcpMoveFails(p)
  BY <1>16 DEF RcpMoveFails, Goto, Raise, StageFails, Stage, Unstage
<1>17. CASE RcpVerify(p)
  BY <1>17 DEF RcpVerify, Goto, Raise
<1>18. CASE FinalReceipt(p)
  BY <1>18 DEF FinalReceipt, Goto, Raise
<1>19. CASE FinalArtifact(p)
  BY <1>19 DEF FinalArtifact, Goto, Raise
<1>20. CASE UndoReceipt(p)
  BY <1>20 DEF UndoReceipt, Goto
<1>21. CASE DropReceipt(p)
  BY <1>21 DEF DropReceipt, Goto, Delete
<1>22. CASE UndoArtifact(p)
  BY <1>22 DEF UndoArtifact, Goto, Raise, AfterArtifact, Reraise
<1>23. CASE DropArtifact(p)
  BY <1>23 DEF DropArtifact, Goto, Raise, AfterArtifact, Reraise, Delete
<1>24. CASE UndoGate(p)
  BY <1>24 DEF UndoGate, GateLeaseFails, Goto, Raise, GateWithheld
<1>25. CASE DropGate(p)
  BY <1>25 DEF DropGate, Goto, Raise, Delete, GateWithheld
<1>26. CASE Crash(p)
  BY <1>26 DEF Crash, Goto
<1>27. CASE Interrupt(p)
  BY <1>27 DEF Interrupt, Goto, Unstage
<1>28. CASE \E g \in BOOLEAN : Admit(p, g)
  BY <1>28 DEF Admit, Goto
<1>. QED
  BY <1>1, <1>2, <1>3, <1>4, <1>5, <1>6, <1>7, <1>8, <1>9, <1>10, <1>11,
     <1>12, <1>13, <1>14, <1>15, <1>16, <1>17, <1>18, <1>19, <1>20, <1>21,
     <1>22, <1>23, <1>24, <1>25, <1>26, <1>27, <1>28 DEF Promote

\* so that every promoter can account for its outcome.
LEMMA AccountStep ==
  ASSUME IInv, \A p \in Promoters : Account(p), [Next]_vars
  PROVE  \A p \in Promoters : Account(p)'
<1>. SUFFICES ASSUME NEW q \in Promoters PROVE Account(q)'
  OBVIOUS
<1>1. ASSUME NEW p \in Promoters, Promote(p) PROVE Account(q)'
  BY <1>1, OwnAccount, OthersKeepAccount DEF IInv
<1>2. ASSUME NEW n \in Names, Meddle(n) PROVE Account(q)'
  <2>1. tampered[q] \subseteq tampered'[q]
    <3>1. CASE Tamper(n)
      BY <3>1 DEF Tamper
    <3>2. CASE UNCHANGED tampered
      BY <3>2
    <3>. QED  BY <1>2, <3>1, <3>2 DEF Meddle
  <2>. QED  BY <1>2, <2>1 DEF Meddle, promotion, Account
<1>3. CASE UNCHANGED vars
  BY <1>3 DEF vars, promotion, Account
<1>. QED  BY <1>1, <1>2, <1>3 DEF Next

\* A failed promotion reports every file of its own that stays in place, and
\* a withheld rollback or a retained stage never ends in a plain error.
THEOREM FailureIsAccounted == Spec => []FailureAccounted
<1> DEFINE Accounts == \A p \in Promoters : Account(p)
<1>1. Init => Accounts
  BY DEF Init, Account, Unwound, UndoPhases, GatePhases, Before
<1>2. IInv /\ Accounts /\ [Next]_vars => Accounts'
  BY AccountStep
<1>3. IInv /\ Accounts => FailureAccounted
  BY DEF IInv, Custody, Account, FailureAccounted, Left, Unwound, Names, Owned
<1>. HIDE DEF Accounts
<1>. QED  BY <1>1, <1>2, <1>3, Inductive, PTL DEF Spec

-----------------------------------------------------------------------------
(* The refinement: promotion implements the append-only store. *)

\* A file seen as the store sees it.
Entry(f) == [id |-> f.id, data |-> f.data]

\* What the abstract store sees are files of its own.
LEMMA ViewTyped ==
  ASSUME TypeOK
  PROVE  StoreView \in [Names -> Store!File \cup {NoFile}]
<1>. SUFFICES ASSUME NEW n \in Names, file[n] # NoFile
              PROVE  Entry(file[n]) \in Store!File
  BY DEF StoreView, Entry
<1>1. file[n] \in File  BY DEF TypeOK
<1>. QED  BY <1>1 DEF Entry, Store!File, File, Ids

\* Changing one name of the directory changes one name of the store.
LEMMA ViewChange ==
  ASSUME TypeOK, NEW n \in Names, NEW f \in File \cup {NoFile},
         file' = [file EXCEPT ![n] = f]
  PROVE  StoreView' = [StoreView EXCEPT ![n] =
                         IF f = NoFile THEN NoFile ELSE Entry(f)]
BY DEF StoreView, TypeOK, Entry

\* Placing a file under a free name is a publication of the store,
LEMMA ViewPublish ==
  ASSUME TypeOK, NEW p \in Promoters, NEW n \in Names, Publish(p, n),
         UNCHANGED meddling
  PROVE  Store!Publish(p, n)
<1>1. Fresh(p, n) \in File /\ Fresh(p, n) # NoFile
  BY FreshFile, NoFileAssumption
<1>2. Entry(Fresh(p, n)) = [id |-> p, data |-> Content(p, n)]
  BY DEF Entry, Fresh
<1>3. StoreView' = [StoreView EXCEPT ![n] = Entry(Fresh(p, n))]
  BY <1>1, ViewChange DEF Publish
<1>4. StoreView[n] = NoFile
  BY DEF Publish, StoreView
<1>. QED  BY <1>2, <1>3, <1>4 DEF Store!Publish

\* taking away what one placed oneself a retraction,
LEMMA ViewRetract ==
  ASSUME TypeOK, NEW p \in Promoters, NEW n \in Names, NEW i \in Ids,
         CanDelete(p, n, i), n = "gate" \/ i = p, Delete(p, n),
         UNCHANGED meddling
  PROVE  Store!Retract(p, n)
<1>1. file[n] \in File /\ file[n] # NoFile
  BY DEF CanDelete, TypeOK
<1>2. StoreView[n] = Entry(file[n]) /\ Entry(file[n]) # NoFile
  <2>1. Entry(file[n]) \in [id : Ids, data : Data]
    BY <1>1 DEF File, Entry
  <2>. QED  BY <1>1, <2>1, NoFileAssumption DEF StoreView, Entry
<1>3. StoreView' = [StoreView EXCEPT ![n] = NoFile]
  BY ViewChange DEF Delete
<1>4. /\ StoreView[n].data = Content(p, n)
      /\ n # "gate" => StoreView[n].id = p
  BY <1>2 DEF CanDelete, Entry
<1>. QED  BY <1>2, <1>3, <1>4 DEF Store!Retract

\* and what others do, meddling;
LEMMA ViewMeddle ==
  ASSUME TypeOK, TypeOK', NEW n \in Names, Meddle(n)
  PROVE  Store!Meddle(n)
<1>1. StoreView' \in [Names -> Store!File \cup {NoFile}]
  <2>1. \A m \in Names : file'[m] # NoFile => Entry(file'[m]) \in Store!File
    <3>. SUFFICES ASSUME NEW m \in Names, file'[m] # NoFile
                  PROVE  Entry(file'[m]) \in Store!File
      OBVIOUS
    <3>1. file'[m] \in File  BY DEF TypeOK
    <3>. QED  BY <3>1 DEF Entry, Store!File, File, Ids
  <2>. QED  BY <2>1 DEF StoreView, Entry
<1>2. \A m \in Names \ {n} : StoreView'[m] = StoreView[m]
  <2>1. \A m \in Names \ {n} : file'[m] = file[m]
    BY DEF Meddle, TypeOK
  <2>. QED  BY <2>1 DEF StoreView
<1>. QED  BY <1>1, <1>2 DEF Store!Meddle, Meddle

\* so every step is one of the store, or invisible to it.
LEMMA ViewStep ==
  ASSUME TypeOK, TypeOK', [Next]_vars
  PROVE  [Store!Next]_(Store!vars)
<1>. USE DEF Names
<1>1. ASSUME NEW p \in Promoters, Promote(p)
      PROVE  [Store!Next]_(Store!vars)
  <2>1. CASE UNCHANGED <<file, meddling>>
    BY <2>1 DEF StoreView, Store!vars
  <2>2. ASSUME NEW n \in Names, Store!Publish(p, n)
        PROVE  [Store!Next]_(Store!vars)
    BY <2>2 DEF Store!Next
  <2>3. ASSUME NEW n \in Names, Store!Retract(p, n)
        PROVE  [Store!Next]_(Store!vars)
    BY <2>3 DEF Store!Next
  <2>4. CASE GateMove(p)
    BY <2>2, <2>4, ViewPublish DEF GateMove
  <2>5. CASE ArtMove(p)
    BY <2>2, <2>5, ViewPublish DEF ArtMove
  <2>6. CASE RcpMove(p)
    BY <2>2, <2>6, ViewPublish DEF RcpMove
  <2>7. CASE DropReceipt(p)
    BY <2>1, <2>3, <2>7, ViewRetract DEF DropReceipt, Ids
  <2>8. CASE DropArtifact(p)
    BY <2>1, <2>3, <2>8, ViewRetract DEF DropArtifact, Ids
  <2>9. CASE DropGate(p)
    <3>1. held[p] \in Ids  BY DEF TypeOK
    <3>. QED  BY <2>1, <2>3, <2>9, <3>1, ViewRetract DEF DropGate
  <2>10. CASE \/ Decline(p) \/ Reject(p) \/ (\E g \in BOOLEAN : Admit(p, g))
              \/ GateProbe(p) \/ GateStage(p) \/ GateMoveFails(p)
              \/ GateWitness(p) \/ GateLeaseLost(p)
              \/ ArtStage(p) \/ ArtMoveFails(p) \/ ArtVerify(p)
              \/ ArtRecheck(p) \/ RcpStage(p) \/ RcpMoveFails(p)
              \/ RcpVerify(p) \/ FinalReceipt(p) \/ FinalArtifact(p)
              \/ UndoReceipt(p) \/ UndoArtifact(p) \/ UndoGate(p)
              \/ Crash(p) \/ Interrupt(p)
    BY <2>1, <2>10
       DEF Admit, Decline, Reject, GateProbe, GateStage, GateMoveFails,
           GateWitness, GateLeaseLost, ArtStage, ArtMoveFails, ArtVerify,
           ArtRecheck, RcpStage, RcpMoveFails, RcpVerify, FinalReceipt,
           FinalArtifact, UndoReceipt, UndoArtifact, UndoGate, Crash,
           Interrupt
  <2>. QED
    BY <1>1, <2>4, <2>5, <2>6, <2>7, <2>8, <2>9, <2>10 DEF Promote
<1>2. ASSUME NEW n \in Names, Meddle(n) PROVE [Store!Next]_(Store!vars)
  BY <1>2, ViewMeddle DEF Store!Next
<1>3. CASE UNCHANGED vars
  BY <1>3 DEF vars, StoreView, Store!vars
<1>. QED  BY <1>1, <1>2, <1>3 DEF Next

\* Promotion never replaces a file and never removes bytes it did not write:
\* every step publishes at a free name, retracts what the promotion wrote, is
\* somebody else's, or leaves the store alone.
THEOREM PromotionImplementsStore == Spec => ImplementsStore
<1>1. Init => Store!Init
  BY DEF Init, Store!Init, StoreView
<1>2. TypeOK /\ TypeOK' /\ [Next]_vars => [Store!Next]_(Store!vars)
  BY ViewStep
<1>. QED  BY <1>1, <1>2, TypeCorrect, PTL DEF Spec, ImplementsStore, Store!Spec

-----------------------------------------------------------------------------
(* The reader: VerifiedRead adds verify_promoted_result to the promotions. *)
(*                                                                         *)
(* An inode and a modification stamp name one content at a name for ever:  *)
(* others stamp with a number not used before, and a promotion publishes   *)
(* at a name once.  So a file that was replaced between the first look and *)
(* the second never passes the second.                                     *)

ReadNames == {"art", "rcp"}

\* Phases of a promotion that has not yet published at name n.
Unpublished(n) == IF n = "art" THEN BeforeArt ELSE BeforeRcp

\* A file whose stamp nobody can give again.
Stamped(f, n) ==
  /\ f.ver <= meddling
  /\ f.id \in Nat => f.id <= meddling
  /\ \A p \in Promoters : f.id = p => pc[p] \notin Unpublished(n)

\* What the reader has seen is stamped, and the stamp still means its bytes.
Remembered ==
  \A n \in ReadNames :
    /\ file[n] # NoFile => Stamped(file[n], n)
    /\ seen[n] # NoFile => Stamped(seen[n], n)
    /\ SameStamp(file[n], seen[n]) => SameFile(file[n], seen[n])

\* An artifact that was gone when the receipt was looked at again is gone.
Verdicts ==
  /\ reader = "again_art" /\ ~coexisted => ~SameStamp(file["art"], seen["art"])
  /\ VerifiedPairCoexisted

ReadIInv == IInv /\ ReadTypeOK /\ Remembered /\ Verdicts

\* What a step of a promotion does to the two names that are read: it
\* publishes at one for the first time, removes, or leaves alone; and a
\* promotion that has published stays one that has.
LEMMA PromoteFile ==
  ASSUME TypeOK, NEW p \in Promoters, Promote(p), NEW n \in ReadNames
  PROVE  /\ \/ file'[n] = file[n] \/ file'[n] = NoFile
            \/ file'[n] = Fresh(p, n) /\ pc[p] \in Unpublished(n)
         /\ pc[p] \notin Unpublished(n) => pc'[p] \notin Unpublished(n)
         /\ \A q \in Promoters \ {p} : pc'[q] = pc[q]
<1>. USE DEF TypeOK, ReadNames, Names, Unpublished, BeforeArt, BeforeRcp,
             GatePhases, ArtPhases, ReceiptPhases, FinalPhases, UndoPhases
<1>1. CASE Decline(p)
  BY <1>1 DEF Decline, Goto
<1>2. CASE Reject(p)
  BY <1>2 DEF Reject, Goto, Raise
<1>3. CASE GateProbe(p)
  BY <1>3 DEF GateProbe, Goto, Raise
<1>4. CASE GateStage(p)
  BY <1>4 DEF GateStage, Goto, Raise, StageFails
<1>5. CASE GateMove(p)
  BY <1>5 DEF GateMove, Goto, Publish
<1>6. CASE GateMoveFails(p)
  BY <1>6 DEF GateMoveFails, Goto, Raise, StageFails
<1>7. CASE GateWitness(p)
  BY <1>7 DEF GateWitness, Goto, Raise
<1>8. CASE GateLeaseLost(p)
  BY <1>8 DEF GateLeaseLost, Goto, Raise
<1>9. CASE ArtStage(p)
  BY <1>9 DEF ArtStage, Goto, Raise, StageFails, AfterArtifact
<1>10. CASE ArtMove(p)
  BY <1>10 DEF ArtMove, Goto, Publish
<1>11. CASE ArtMoveFails(p)
  BY <1>11 DEF ArtMoveFails, Goto, Raise, StageFails, AfterArtifact
<1>12. CASE ArtVerify(p)
  BY <1>12 DEF ArtVerify, Goto, Raise
<1>13. CASE ArtRecheck(p)
  BY <1>13 DEF ArtRecheck, Goto, Raise
<1>14. CASE RcpStage(p)
  BY <1>14 DEF RcpStage, Goto, Raise, StageFails
<1>15. CASE RcpMove(p)
  BY <1>15 DEF RcpMove, Goto, Publish
<1>16. CASE RcpMoveFails(p)
  BY <1>16 DEF RcpMoveFails, Goto, Raise, StageFails
<1>17. CASE RcpVerify(p)
  BY <1>17 DEF RcpVerify, Goto, Raise
<1>18. CASE FinalReceipt(p)
  BY <1>18 DEF FinalReceipt, Goto, Raise
<1>19. CASE FinalArtifact(p)
  BY <1>19 DEF FinalArtifact, Goto, Raise
<1>20. CASE UndoReceipt(p)
  BY <1>20 DEF UndoReceipt, Goto
<1>21. CASE DropReceipt(p)
  BY <1>21 DEF DropReceipt, Goto, Delete
<1>22. CASE UndoArtifact(p)
  BY <1>22 DEF UndoArtifact, Goto, Raise, AfterArtifact, Reraise
<1>23. CASE DropArtifact(p)
  BY <1>23 DEF DropArtifact, Goto, Raise, AfterArtifact, Reraise, Delete
<1>24. CASE UndoGate(p)
  BY <1>24 DEF UndoGate, GateLeaseFails, Goto, Raise, GateWithheld
<1>25. CASE DropGate(p)
  BY <1>25 DEF DropGate, Goto, Raise, Delete, GateWithheld
<1>26. CASE Crash(p)
  BY <1>26 DEF Crash, Goto
<1>27. CASE Interrupt(p)
  BY <1>27 DEF Interrupt, Goto
<1>28. CASE \E g \in BOOLEAN : Admit(p, g)
  BY <1>28 DEF Admit, Goto
<1>. QED
  BY <1>1, <1>2, <1>3, <1>4, <1>5, <1>6, <1>7, <1>8, <1>9, <1>10, <1>11,
     <1>12, <1>13, <1>14, <1>15, <1>16, <1>17, <1>18, <1>19, <1>20,
     <1>21, <1>22, <1>23, <1>24, <1>25, <1>26, <1>27, <1>28 DEF Promote

\* Others stamp what they create or rewrite with a number not yet used.
LEMMA MeddleFile ==
  ASSUME TypeOK, NEW m \in Names, Meddle(m), NEW n \in Names
  PROVE  /\ \/ file'[n] = file[n] \/ file'[n] = NoFile
            \/ /\ file'[n] \in File /\ file'[n].ver = meddling + 1
               /\ \/ file'[n].id = meddling + 1
                  \/ file[n] # NoFile /\ file'[n].id = file[n].id
            \/ /\ file[n] # NoFile /\ file'[n] \in File
               /\ file'[n].id = file[n].id /\ file'[n].ver = file[n].ver
               /\ file'[n].data = file[n].data
         /\ meddling' = meddling + 1 /\ UNCHANGED pc
<1>1. meddling' = meddling + 1 /\ UNCHANGED pc
  BY DEF Meddle, promotion
<1>2. CASE m # n
  <2>1. file'[n] = file[n]
    BY <1>2 DEF Meddle, TypeOK
  <2>. QED  BY <1>1, <2>1
<1>3. CASE m = n
  <2>1. CASE \E d \in Data : file' = [file EXCEPT ![n] =
               [id |-> meddling + 1, ver |-> meddling + 1, data |-> d,
                linked |-> FALSE]]
    <3>1. PICK d \in Data : file' = [file EXCEPT ![n] =
               [id |-> meddling + 1, ver |-> meddling + 1, data |-> d,
                linked |-> FALSE]]
      BY <2>1
    <3>. QED  BY <1>1, <3>1, ForeignFile DEF TypeOK
  <2>2. CASE \E d \in Data :
               /\ file[n] # NoFile
               /\ file' = [file EXCEPT ![n].data = d, ![n].ver = meddling + 1]
    <3>1. file[n] \in File  BY <2>2 DEF TypeOK
    <3>2. PICK d \in Data :
            file' = [file EXCEPT ![n].data = d, ![n].ver = meddling + 1]
      BY <2>2
    <3>3. file'[n] = [file[n] EXCEPT !.data = d, !.ver = meddling + 1]
      BY <3>2 DEF TypeOK
    <3>4. meddling + 1 \in Nat
      BY DEF TypeOK
    <3>5. /\ file'[n] \in File /\ file'[n].ver = meddling + 1
          /\ file'[n].id = file[n].id
      BY <3>1, <3>3, <3>4 DEF File
    <3>. QED  BY <1>1, <2>2, <3>5
  <2>3. CASE file' = [file EXCEPT ![n] = NoFile]
    BY <1>1, <2>3 DEF TypeOK
  <2>4. CASE file[n] # NoFile /\ file' = [file EXCEPT ![n].linked = TRUE]
    <3>1. file[n] \in File  BY <2>4 DEF TypeOK
    <3>2. file'[n] = [file[n] EXCEPT !.linked = TRUE]
      BY <2>4 DEF TypeOK
    <3>3. /\ file'[n] \in File /\ file'[n].id = file[n].id
          /\ file'[n].ver = file[n].ver /\ file'[n].data = file[n].data
      BY <3>1, <3>2 DEF File
    <3>. QED  BY <1>1, <2>4, <3>3
  <2>. QED  BY <1>3, <2>1, <2>2, <2>3, <2>4 DEF Meddle
<1>. QED  BY <1>2, <1>3

\* Promotions do not count as others.
LEMMA PromoteMeddling ==
  ASSUME NEW p \in Promoters, Promote(p)
  PROVE  UNCHANGED meddling
BY DEF Promote, Decline, Reject, Admit, GateProbe, GateStage, GateMove,
    GateMoveFails, GateWitness, GateLeaseLost, ArtStage, ArtMove,
    ArtMoveFails, ArtVerify, ArtRecheck, RcpStage, RcpMove, RcpMoveFails,
    RcpVerify, FinalReceipt, FinalArtifact, UndoReceipt, DropReceipt,
    UndoArtifact, DropArtifact, UndoGate, DropGate, Crash, Interrupt

\* A stamp stays one that nobody can give again.
LEMMA StampedStays ==
  ASSUME TypeOK, Next, NEW n \in ReadNames, NEW f \in File, Stamped(f, n)
  PROVE  Stamped(f, n)'
<1>1. ASSUME NEW p \in Promoters, Promote(p)
      PROVE  Stamped(f, n)'
  <2>1. UNCHANGED meddling
    BY <1>1, PromoteMeddling
  <2>2. \A q \in Promoters : pc[q] \notin Unpublished(n)
                               => pc'[q] \notin Unpublished(n)
    BY <1>1, PromoteFile
  <2>. QED  BY <2>1, <2>2 DEF Stamped, Unpublished
<1>2. ASSUME NEW m \in Names, Meddle(m)
      PROVE  Stamped(f, n)'
  <2>1. meddling' = meddling + 1 /\ UNCHANGED pc /\ meddling \in Nat
    BY <1>2, MeddleFile DEF TypeOK, Names
  <2>. QED  BY <2>1 DEF Stamped, File, Unpublished
<1>. QED  BY <1>1, <1>2 DEF Next

\* A step of a promotion or of others gives a file a name had, has or the
\* reader knows to no other bytes: what stands at the name afterwards is
\* stamped, and if its stamp is a known one, so it was before.
LEMMA FileStep ==
  ASSUME TypeOK, TypeOK', Custody', \A p \in Promoters : Progress(p)', Next,
         NEW n \in ReadNames, file[n] # NoFile => Stamped(file[n], n)
  PROVE  /\ file'[n] # NoFile => Stamped(file[n], n)'
         /\ \A f \in File : Stamped(f, n) /\ SameStamp(file'[n], f)
              => file[n] # NoFile /\ SameStamp(file[n], f)
                   /\ file'[n].data = file[n].data
<1>1. ASSUME file'[n] # NoFile
      PROVE  \A p \in Promoters : file'[n].id = p => pc'[p] \notin Unpublished(n)
  BY <1>1 DEF Custody, Progress, ReadNames, Names, Unpublished
<1>2. ASSUME NEW p \in Promoters, Promote(p), file'[n] = Fresh(p, n),
             pc[p] \in Unpublished(n)
      PROVE  /\ file'[n].ver <= meddling' /\ file'[n].id \notin Nat
             /\ \A f \in File : Stamped(f, n) => file'[n].id # f.id
  BY <1>2, PromotersAssumption DEF Fresh, Stamped, TypeOK
<1>3. ASSUME file'[n] = file[n], meddling' \in {meddling, meddling + 1}
      PROVE  /\ file'[n] # NoFile => Stamped(file[n], n)'
             /\ \A f \in File : Stamped(f, n) /\ SameStamp(file'[n], f)
                  => file[n] # NoFile /\ SameStamp(file[n], f)
                       /\ file'[n].data = file[n].data
  <2>1. meddling \in Nat /\ (file[n] # NoFile => file[n] \in File)
    BY DEF TypeOK, ReadNames, Names
  <2>2. file[n] # NoFile => /\ file'[n].ver <= meddling'
                            /\ file'[n].id \in Nat => file'[n].id <= meddling'
    BY <1>3, <2>1 DEF Stamped, File
  <2>. QED  BY <1>1, <1>3, <2>2 DEF Stamped, SameStamp
<1>4. CASE \E p \in Promoters : Promote(p)
  <2>1. PICK p \in Promoters : Promote(p)
    BY <1>4
  <2>2. CASE file'[n] = file[n]
    BY <1>3, <2>1, <2>2, PromoteMeddling
  <2>3. CASE file'[n] = NoFile
    BY <2>3 DEF SameStamp
  <2>4. CASE file'[n] = Fresh(p, n) /\ pc[p] \in Unpublished(n)
    BY <1>1, <1>2, <2>1, <2>4 DEF Stamped, SameStamp
  <2>. QED  BY <2>1, <2>2, <2>3, <2>4, PromoteFile
<1>5. CASE \E m \in Names : Meddle(m)
  <2>1. PICK m \in Names : Meddle(m)
    BY <1>5
  <2>2. n \in Names /\ meddling \in Nat /\ meddling' = meddling + 1
    BY <2>1, MeddleFile DEF ReadNames, Names, TypeOK
  <2>3. CASE file'[n] = file[n]
    BY <1>3, <2>2, <2>3
  <2>4. CASE file'[n] = NoFile
    BY <2>4 DEF SameStamp
  <2>5. CASE /\ file'[n] \in File /\ file'[n].ver = meddling + 1
             /\ \/ file'[n].id = meddling + 1
                \/ file[n] # NoFile /\ file'[n].id = file[n].id
    <3>1. file'[n] # NoFile
      BY <2>5, NoFileAssumption
    <3>2. file'[n].ver <= meddling' /\ (file'[n].id \in Nat => file'[n].id <= meddling')
      BY <2>2, <2>5 DEF Stamped
    <3>3. \A f \in File : Stamped(f, n) => file'[n].ver # f.ver
      BY <2>2, <2>5 DEF Stamped, File
    <3>. QED  BY <1>1, <3>1, <3>2, <3>3 DEF Stamped, SameStamp
  <2>6. CASE /\ file[n] # NoFile /\ file'[n] \in File
             /\ file'[n].id = file[n].id /\ file'[n].ver = file[n].ver
             /\ file'[n].data = file[n].data
    <3>1. file[n] \in File
      BY <2>2, <2>6 DEF TypeOK
    <3>2. Stamped(file[n], n)'
      <4>1. Stamped(file[n], n)
        BY <2>6
      <4>2. meddling' = meddling + 1 /\ UNCHANGED pc
        BY <2>1, <2>2, MeddleFile
      <4>. QED  BY <1>1, <2>2, <2>6, <3>1, <4>1, <4>2 DEF Stamped, File, TypeOK
    <3>. QED  BY <1>1, <2>2, <2>6, <3>1, NoFileAssumption DEF Stamped, SameStamp, File
  <2>. QED  BY <2>1, <2>2, <2>3, <2>4, <2>5, <2>6, MeddleFile
<1>. QED  BY <1>4, <1>5 DEF Next

\* While promotions and others run, what the reader has seen keeps its
\* meaning, and what is gone does not come back.
LEMMA OthersKeepReading ==
  ASSUME ReadIInv, IInv', Next, UNCHANGED reading
  PROVE  ReadIInv'
<1>1. reader' = reader /\ seen' = seen /\ coexisted' = coexisted
  BY DEF reading
<1>2. ReadTypeOK'
  BY <1>1 DEF ReadIInv, ReadTypeOK
<1>3. ASSUME NEW n \in ReadNames
      PROVE  /\ file'[n] # NoFile => Stamped(file[n], n)'
             /\ seen[n] # NoFile => Stamped(seen[n], n)'
             /\ SameStamp(file'[n], seen[n]) =>
                  SameStamp(file[n], seen[n]) /\ SameFile(file'[n], seen[n])
  <2>1. /\ file[n] # NoFile => Stamped(file[n], n)
        /\ seen[n] # NoFile => Stamped(seen[n], n)
        /\ SameStamp(file[n], seen[n]) => SameFile(file[n], seen[n])
    BY DEF ReadIInv, Remembered
  <2>2. seen[n] # NoFile => seen[n] \in File
    BY DEF ReadIInv, ReadTypeOK, ReadNames
  <2>3. /\ file'[n] # NoFile => Stamped(file[n], n)'
        /\ \A f \in File : Stamped(f, n) /\ SameStamp(file'[n], f)
              => file[n] # NoFile /\ SameStamp(file[n], f)
                   /\ file'[n].data = file[n].data
    BY <2>1, FileStep DEF ReadIInv, IInv
  <2>4. \A f \in File : Stamped(f, n) => Stamped(f, n)'
    BY StampedStays DEF ReadIInv, IInv
  <2>5. ASSUME seen[n] # NoFile PROVE Stamped(seen[n], n)'
    <3>1. seen[n] \in File /\ Stamped(seen[n], n)
      BY <2>1, <2>2, <2>5
    <3>2. seen'[n] = seen[n]
      BY <1>1
    <3>. QED  BY <2>4, <3>1, <3>2 DEF Stamped
  <2>6. SameStamp(file'[n], seen[n]) =>
          SameStamp(file[n], seen[n]) /\ SameFile(file'[n], seen[n])
    BY <2>1, <2>2, <2>3 DEF SameStamp, SameFile
  <2>. QED  BY <2>3, <2>5, <2>6
<1>4. Remembered'
  BY <1>1, <1>3 DEF Remembered
<1>5. Verdicts'
  BY <1>1, <1>3 DEF ReadIInv, Verdicts, VerifiedPairCoexisted, ReadNames
<1>. QED  BY <1>2, <1>4, <1>5 DEF ReadIInv

\* What the reader does itself.
LEMMA ReadKeeps ==
  ASSUME ReadIInv, Read
  PROVE  ReadIInv'
<1>. USE DEF ReadIInv, ReadTypeOK, ReadNames, ReaderPhases
<1>1. /\ UNCHANGED vars
      /\ UNCHANGED <<file, pc, meddling>>
  BY DEF Read, vars, promotion
<1>2. IInv'
  BY <1>1 DEF IInv, TypeOK, Custody, Progress, Owned, vars, promotion
<1>3. \A n \in ReadNames : file[n] \in File \cup {NoFile}
  BY DEF IInv, TypeOK, Names
<1>4. \A n \in ReadNames : /\ file[n] # NoFile => Stamped(file[n], n)
                           /\ SameStamp(file[n], file[n]) => SameFile(file[n], file[n])
  BY DEF Remembered, SameStamp, SameFile
<1>5. ReadTypeOK'
  BY <1>3 DEF Read, ReadReceipt, ReadArtifact, RevalidateReceipt,
              RevalidateArtifact, Rejected, SameFile
<1>6. ASSUME NEW n \in ReadNames
      PROVE  seen'[n] \in {seen[n], NoFile, file[n]}
  BY <1>6 DEF Read, ReadReceipt, ReadArtifact, RevalidateReceipt,
              RevalidateArtifact, Rejected
<1>7. Remembered'
  <2>. SUFFICES ASSUME NEW n \in ReadNames
                PROVE  /\ file'[n] # NoFile => Stamped(file[n], n)'
                       /\ seen'[n] # NoFile => Stamped(seen[n], n)'
                       /\ SameStamp(file'[n], seen'[n]) =>
                            SameFile(file'[n], seen'[n])
    BY DEF Remembered
  <2>1. file'[n] = file[n] /\ meddling' = meddling /\ pc' = pc
    BY <1>1
  <2>2. /\ file[n] # NoFile => Stamped(file[n], n)
        /\ seen[n] # NoFile => Stamped(seen[n], n)
        /\ SameStamp(file[n], seen[n]) => SameFile(file[n], seen[n])
    BY DEF Remembered
  <2>. QED  BY <1>6, <2>1, <2>2 DEF Stamped, SameStamp, SameFile, Unpublished
<1>8. Verdicts'
  <2>1. CASE ReadReceipt
    BY <1>1, <2>1 DEF ReadReceipt, Verdicts, VerifiedPairCoexisted
  <2>2. CASE ReadArtifact
    BY <1>1, <2>2 DEF ReadArtifact, Rejected, Verdicts, VerifiedPairCoexisted
  <2>3. CASE RevalidateReceipt
    <3>1. /\ SameStamp(file["rcp"], seen["rcp"]) => SameFile(file["rcp"], seen["rcp"])
          /\ SameStamp(file["art"], seen["art"]) => SameFile(file["art"], seen["art"])
      BY DEF Remembered
    <3>. QED  BY <1>1, <2>3, <3>1 DEF RevalidateReceipt, Rejected, Verdicts,
                  VerifiedPairCoexisted
  <2>4. CASE RevalidateArtifact
    BY <1>1, <2>4 DEF RevalidateArtifact, Rejected, Verdicts,
        VerifiedPairCoexisted
  <2>. QED  BY <2>1, <2>2, <2>3, <2>4 DEF Read
<1>. QED  BY <1>2, <1>5, <1>7, <1>8

\* A reader takes nothing away from the promotions beside it: whatever is
\* proved of Spec holds while somebody reads.
LEMMA ReadersObserve == ReadSpec => Spec
<1>1. ReadInit => Init
  BY DEF ReadInit
<1>2. [ReadNext]_<<vars, reading>> => [Next]_vars
  BY DEF ReadNext, Read
<1>. QED  BY <1>1, <1>2, PTL DEF ReadSpec, Spec

\* A pair that verify_promoted_result accepts was a pair: at one instant the
\* very files it read stood at both names, however many promotions and others
\* publish, roll back, replace, rewrite and delete while it reads.
THEOREM VerifiedPairStoodTogether == ReadSpec => []VerifiedPairCoexisted
<1>1. ReadInit /\ IInv => ReadIInv
  <2>. SUFFICES ASSUME ReadInit, IInv PROVE ReadIInv
    OBVIOUS
  <2>1. ReadTypeOK
    BY DEF ReadInit, ReadTypeOK, ReaderPhases
  <2>2. \A n \in ReadNames : file[n] = NoFile /\ seen[n] = NoFile
    BY DEF ReadInit, Init, Names, ReadNames
  <2>3. Remembered
    BY <2>2 DEF Remembered, SameStamp
  <2>4. Verdicts
    BY DEF ReadInit, Verdicts, VerifiedPairCoexisted
  <2>. QED  BY <2>1, <2>3, <2>4 DEF ReadIInv
<1>2. ReadIInv /\ IInv' /\ [ReadNext]_<<vars, reading>> => ReadIInv'
  <2>. SUFFICES ASSUME ReadIInv, IInv', [ReadNext]_<<vars, reading>>
                PROVE  ReadIInv'
    OBVIOUS
  <2>1. CASE UNCHANGED <<vars, reading>>
    BY <2>1 DEF ReadIInv, ReadTypeOK, Remembered, Stamped, Verdicts, SameStamp,
        SameFile, VerifiedPairCoexisted, reading, vars, promotion, Unpublished
  <2>. QED  BY <2>1, ReadKeeps, OthersKeepReading DEF ReadNext
<1>3. ReadIInv => VerifiedPairCoexisted
  BY DEF ReadIInv, Verdicts
<1>. QED  BY <1>1, <1>2, <1>3, ReadersObserve, Inductive, PTL DEF ReadSpec

=============================================================================
