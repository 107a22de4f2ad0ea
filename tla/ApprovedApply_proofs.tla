------------------------- MODULE ApprovedApply_proofs -------------------------
(***************************************************************************)
(* Proofs about apply_structure_plan and the approvals it runs behind, for *)
(* any plan, any number of edits by the user and any number of approvals.  *)
(*                                                                         *)
(* The user's bytes are safe because of where files are: the only names    *)
(* apply ever clears hold files of its own (Inodes, Staged), everything    *)
(* else it does is a move to a free name.  A rollback is clean because of  *)
(* what control knows of the private names (Control) and because every     *)
(* published copy is remembered or reported (Copied).                      *)
(***************************************************************************)
EXTENDS ApprovedApply, TLAPS

Early    == {"review", "copy", "copied"}
Swapping == {"guarded", "swap", "swapped", "sealed", "verify", "finalize"}

\* Which file can be where.
Inodes ==
  /\ \A n \in Names : name[n] \in Nat => name[n] <= meddling
  /\ \A n \in Names : name[n] \in CopySet => name[n] = n
  /\ \A n \in Names : name[n] = New => n \in {"stage", "config", "tomb"}
  /\ \A i \in Files : data[i] = Before => i = Orig
  /\ data[Orig] = Before /\ (\E n \in Names : name[n] = Orig)
       => Before \notin dropped

\* The new configuration is apply's own until it is published.
Staged ==
  /\ name["stage"] # None => name["stage"] = New /\ data[New] = After /\ held # New
  /\ pc \in Early =>
       /\ \A n \in Private : name[n] = None
       /\ \A n \in Names : name[n] # New
       /\ data[New] = After /\ held # New
  /\ pc \in {"expect", "guard", "guarded", "swap"} => name["stage"] = New

\* The copies still to be published, and those that were.
Copied ==
  /\ pc = "copied" => todo # <<>>
  /\ pc \in Early =>
       /\ \A i, j \in DOMAIN todo : todo[i] = todo[j] => i = j
       /\ \A i \in DOMAIN todo :
            (pc = "copied" /\ i = 1) \/ name[todo[i]] # todo[i]
  /\ todo = <<>> \/ pc \in Early =>
       \A d \in CopySet : name[d] = d =>
         \/ \E i \in DOMAIN created : created[i] = d
         \/ d \in report
         \/ pc = "copied" /\ d = todo[1]

\* What control knows of the private names and of the restoration under way.
Control ==
  /\ pc \in {"expect", "guard"} \cup Swapping => name["tomb"] = None
  /\ pc \in {"expect", "guard"} \cup Swapping => todo = <<>>
  /\ pc \in Swapping => name["guard"] # None
  /\ pc \in {"swapped", "sealed"} => name["stage"] = None
  /\ pc \in {"verify", "finalize", "entombed", "withheld", "revert", "keep",
             "reverted"} => replaced
  /\ replaced => /\ name["stage"] = None /\ todo = <<>>
                 /\ pc \notin Early \cup {"expect", "guard", "guarded", "swap",
                                          "swapped", "sealed", "drop"}
  /\ pc \in {"restore", "return"} =>
       /\ back \in [from : {"guard", "tomb"}, content : Contents,
                    then : {"drop", "undo", "withheld", "keep"}]
       /\ back.then = "drop" => ~replaced
       /\ back.then = "withheld" => replaced
       /\ back.then = "keep" => replaced /\ back.from = "tomb"
                                         /\ name["guard"] # None
  /\ pc = "entombed" => name["tomb"] # None
  /\ pc \in {"revert", "keep"} => name["guard"] # None
  /\ pc = "revert" => name["tomb"] # None
  /\ pc \in {"revert", "reverted"} => name["tomb"] \in {New, None}
  /\ pc = "reverted" => /\ name["tomb"] # None /\ name["guard"] = None
                        /\ back \in [file : Files, content : Contents]
  /\ pc \in {"uncopy", "failed"} /\ replaced /\ report = {} =>
       /\ \A n \in Private : name[n] = None
       /\ \A n \in Names : name[n] # New
  /\ pc = "failed" /\ replaced /\ error = "plain" => report = {} /\ created = <<>>

IInv == TypeOK /\ Inodes /\ Staged /\ Copied /\ Control /\ UserBytesKept

\* Until apply has passed the second gate it has touched nothing, and after a
\* refusal it has no way to.
Untouched ==
  /\ ~parents /\ created = <<>> /\ ~replaced
  /\ \A n \in Private : name[n] = None
  /\ \A n \in Names : name[n] \notin {New} \cup CopySet

Gated ==
  /\ gate \in {"none", "call", "first", "first_state", "apply", "second",
               "second_state", "open", "refused"}
  /\ gate \notin {"none", "open"} => Untouched
  /\ gate \in {"call", "first", "first_state"} => pc \in {"review", "dead"}
  /\ gate = "apply" => pc \in {"review", "failed", "dead"}
  /\ gate \in {"second", "second_state"} => pc \in {"copy", "dead"}
  /\ gate = "open" => pc # "review"
  /\ gate = "refused" => pc \in {"review", "undo", "uncopy", "failed", "dead"}

\* The host's index, with one thread that issues: a receipt that another one
\* supersedes is no longer current, or is about to be marked.
Indexed ==
  /\ DOMAIN host = Hosts
  /\ \A r \in A!Issued :
       records[r] \in [current : BOOLEAN, revoked : BOOLEAN,
                       superseded_by : A!Issued \cup {None}]
  /\ None \notin A!Issued
  /\ \A r \in A!Issued : r.supersedes # None =>
       /\ r.supersedes \in A!Issued
       /\ \/ ~records[r.supersedes].current
          \/ \E h \in Hosts : host[h].doing = "mark" /\ host[h].receipt = r
  /\ \A r, s \in A!Issued : r.supersedes # None /\ r.supersedes = s.supersedes => r = s
  /\ \A h \in Hosts : host[h].doing = "insert" =>
       /\ host[h].receipt # None /\ host[h].receipt \notin A!Issued
       /\ A!Supersedable(host[h].receipt.supersedes)
  /\ \A h \in Hosts : host[h].doing = "mark" =>
       host[h].receipt \in A!Issued /\ host[h].receipt.supersedes # None

\* A receipt that stands after the plan's own checks stood when they ended.
Stood ==
  /\ receipt \in A!Issued \cup {None}
  /\ gate \in {"second", "second_state"} /\ A!Stands(receipt) => stood
  /\ gate = "open" /\ pc = "copy" /\ created = <<>> => stood

GInv == IInv /\ Gated

\* One thread of the host issues and revokes: the index has no lock, and with
\* two of them either of two checks made before both insertions would pass.
OneHost == \A g, h \in Hosts : g = h

\* Where there is no receipt there is none that could be issued.
NoReceipt ==
  \A p, f, u, x : None # [plan |-> p, from |-> f, until |-> u, supersedes |-> x]

-----------------------------------------------------------------------------
(* What can happen to apply_structure_plan and to the project, in either   *)
(* mode: its steps and the user's, or the rejection of a plan that is not  *)
(* the reviewed one.                                                       *)

Decline ==
  /\ pc = "review" /\ pc' = "failed" /\ error' = "plain"
  /\ UNCHANGED <<fs, user, todo, created, expected, replaced, back, report>>

Step == [Next]_vars \/ Decline

\* Files, names and the absence of either are different things.
LEMMA Distinct ==
  /\ CopySet \subseteq Names /\ Private \subseteq Names /\ "config" \in Names
  /\ "stage" \in Names /\ "guard" \in Names /\ "tomb" \in Names
  /\ "config" \notin CopySet /\ "stage" \notin CopySet
  /\ "guard" \notin CopySet /\ "tomb" \notin CopySet
  /\ None \notin Files /\ CopySet \subseteq Files /\ Orig \in Files /\ New \in Files
  /\ Orig # New /\ Orig \notin CopySet /\ New \notin CopySet
  /\ Orig \notin Nat /\ New \notin Nat /\ CopySet \cap Nat = {}
  /\ Before # After /\ Before # Source /\ After # Source
  /\ Before \notin Nat /\ After \notin Nat /\ Source \notin Nat
  /\ {Before, After, Source} \subseteq Contents
  /\ meddling \in Nat /\ meddling < MaxMeddling =>
       meddling + 1 \in Files \cap Contents
BY CopiesAssumption, DistinctAssumption, MeddlingAssumption
   DEF Names, Public, Private, Files, Contents

-----------------------------------------------------------------------------
(* Types. *)

\* Every step of the apply keeps the types.
LEMMA TypeStep ==
  ASSUME IInv, Step
  PROVE  TypeOK'
<1>. USE Distinct DEF TypeOK, IInv, Control, Phases, Private, Swapping, Goto, fs, user
<1>1. CASE Review
  BY <1>1 DEF Review, Is
<1>2. CASE PublishCopy
  <2>1. Head(todo) \in CopySet
    BY <1>2 DEF PublishCopy
  <2>2. ASSUME name' = [name EXCEPT ![Head(todo)] = Head(todo)],
               name[Head(todo)] = None
        PROVE  /\ name' \in [Names -> Files \cup {None}]
               /\ \A m, n \in Names : name'[m] = name'[n] /\ name'[m] # None => m = n
    BY <2>1, <2>2 DEF Inodes
  <2>3. CASE name[Head(todo)] = None
    BY <1>2, <2>2, <2>3 DEF PublishCopy
  <2>4. CASE name[Head(todo)] # None
    BY <1>2, <2>4 DEF PublishCopy
  <2>. QED
    BY <2>3, <2>4
<1>3. CASE RecheckCopy
  <2>1. todo # <<>>
    BY <1>3 DEF RecheckCopy, Copied
  <2>2. /\ Head(todo) \in CopySet /\ Tail(todo) \in Seq(CopySet)
        /\ Append(created, Head(todo)) \in Seq(CopySet)
    BY <2>1
  <2>3. created' \in Seq(CopySet) /\ todo' \in Seq(CopySet)
    BY <1>3, <2>2 DEF RecheckCopy
  <2>4. report' \subseteq Names
    BY <1>3, <2>2 DEF RecheckCopy
  <2>5. pc' \in {"copy", "undo"}
    BY <1>3 DEF RecheckCopy
  <2>. QED
    BY <1>3, <2>3, <2>4, <2>5 DEF RecheckCopy
<1>4. CASE StageConfig
  BY <1>4 DEF StageConfig, At
<1>5. CASE Expect
  BY <1>5 DEF Expect, At, Discarded
<1>6. CASE MoveAside
  BY <1>6 DEF MoveAside, CanMove, Moved, Discarded
<1>7. CASE CheckGuard
  BY <1>7 DEF CheckGuard, Is, At, Restoring
<1>8. CASE Swap
  BY <1>8 DEF Swap, CanMove, Moved, Without, Restoring
<1>9. CASE CheckSwap
  BY <1>9 DEF CheckSwap, Is, Restoring
<1>10. CASE CheckSwapAgain
  <2>1. back' \in {back} \cup [from : Private, content : Contents, then : Phases]
    BY <1>10 DEF CheckSwapAgain, Restoring
  <2>2. /\ replaced' \in BOOLEAN /\ pc' \in {"verify", "restore"}
        /\ UNCHANGED <<fs, user, todo, created, expected, report, error>>
    BY <1>10 DEF CheckSwapAgain, Restoring
  <2>. QED
    BY <2>1, <2>2
<1>11. CASE Verify
  BY <1>11 DEF Verify
<1>12. CASE Finalize
  BY <1>12 DEF Finalize, Is, At, CanDelete, Without, Restoring
<1>13. CASE Restore
  BY <1>13 DEF Restore, At
<1>14. CASE Return
  BY <1>14 DEF Return, CanMove, Moved
<1>15. CASE Drop
  BY <1>15 DEF Drop, Discarded, Restoring
<1>16. CASE Entomb
  BY <1>16 DEF Entomb, CanMove, Moved
<1>17. CASE CheckTomb
  BY <1>17 DEF CheckTomb, Is, At, Restoring
<1>18. CASE WithholdTomb
  BY <1>18 DEF WithholdTomb
<1>19. CASE Revert
  BY <1>19 DEF Revert, CanMove, Moved, At, Restoring
<1>20. CASE WithholdBoth
  BY <1>20 DEF WithholdBoth
<1>21. CASE DeleteTomb
  BY <1>21 DEF DeleteTomb, Is, CanDelete, Without, Withhold
<1>22. CASE SkipRollback
  BY <1>22 DEF SkipRollback
<1>23. CASE RemoveCopy
  <2>1. created # <<>> /\ created[Len(created)] \in CopySet
    BY <1>23 DEF RemoveCopy
  <2>2. created' \in Seq(CopySet)
    BY <1>23, <2>1 DEF RemoveCopy
  <2>3. report' \subseteq Names
    BY <1>23, <2>1 DEF RemoveCopy, Withhold
  <2>4. name' \in {name, Without(created[Len(created)])}
    BY <1>23 DEF RemoveCopy
  <2>. QED
    BY <1>23, <2>1, <2>2, <2>3, <2>4 DEF RemoveCopy, Without
<1>24. CASE Report
  BY <1>24 DEF Report
<1>25. CASE Raise
  BY <1>25 DEF Raise, Discarded
<1>26. CASE Crash
  BY <1>26 DEF Crash
<1>27. CASE Close
  BY <1>27 DEF Close
<1>28. CASE Write
  <2>1. meddling + 1 \in Files \cap Contents /\ meddling + 1 \in 0..MaxMeddling
    <3>1. meddling \in Nat /\ meddling < MaxMeddling
      BY <1>28 DEF Write, Meddle
    <3>. QED
      BY ONLY <3>1, Distinct, MeddlingAssumption
  <2>2. data' \in [Files -> Contents]
    BY <1>28, <2>1 DEF Write, Meddle
  <2>3. dropped' \subseteq Contents
    BY <1>28, <2>1 DEF Write, Meddle
  <2>. QED
    BY <1>28, <2>1, <2>2, <2>3 DEF Write, Meddle
<1>29. CASE Decline
  BY <1>29 DEF Decline
<1>30. ASSUME NEW n \in Public, Open(n) PROVE TypeOK'
  <2>1. n \in Names
    BY <1>30 DEF Names
  <2>2. held' \in Files \cup {None}
    BY <1>30, <2>1 DEF Open
  <2>. QED
    BY <1>30, <2>2 DEF Open
<1>31. ASSUME NEW n \in Public, Save(n) PROVE TypeOK'
  <2>1. n \in Names
    BY <1>31 DEF Names
  <2>2. /\ meddling + 1 \in Files \cap Contents /\ meddling + 1 \in 0..MaxMeddling
        /\ \A m \in Names : name[m] # meddling + 1
    BY <1>31, MeddlingAssumption DEF Save, Meddle, Inodes
  <2>3. /\ name' \in [Names -> Files \cup {None}]
        /\ \A m, k \in Names : name'[m] = name'[k] /\ name'[m] # None => m = k
    BY <1>31, <2>1, <2>2 DEF Save, Meddle
  <2>4. data' \in [Files -> Contents] /\ dropped' \subseteq Contents
    BY <1>31, <2>1, <2>2 DEF Save, Meddle, At
  <2>. QED
    BY <1>31, <2>2, <2>3, <2>4 DEF Save, Meddle
<1>32. ASSUME NEW n \in Public, Remove(n) PROVE TypeOK'
  <2>1. n \in Names
    BY <1>32 DEF Names
  <2>2. meddling + 1 \in Files \cap Contents /\ meddling + 1 \in 0..MaxMeddling
    BY <1>32, MeddlingAssumption DEF Remove, Meddle
  <2>3. /\ name' \in [Names -> Files \cup {None}]
        /\ \A m, k \in Names : name'[m] = name'[k] /\ name'[m] # None => m = k
    BY <1>32, <2>1 DEF Remove, Without
  <2>4. dropped' \subseteq Contents
    BY <1>32, <2>1, <2>2 DEF Remove, Meddle, At
  <2>. QED
    BY <1>32, <2>2, <2>3, <2>4 DEF Remove, Meddle
<1>33. CASE UNCHANGED vars
  BY <1>33 DEF vars
<1>. QED
  BY <1>1, <1>2, <1>3, <1>4, <1>5, <1>6, <1>7, <1>8, <1>9, <1>10, <1>11,
     <1>12, <1>13, <1>14, <1>15, <1>16, <1>17, <1>18, <1>19, <1>20,
     <1>21, <1>22, <1>23, <1>24, <1>25, <1>26, <1>27, <1>28, <1>29,
     <1>30, <1>31, <1>32, <1>33
  DEF Step, Next, ApplyStep, UserStep

-----------------------------------------------------------------------------
(* Where files are. *)

\* Taking names away disturbs nothing.
LEMMA InodesFewer ==
  ASSUME TypeOK, Inodes, UNCHANGED <<data, dropped, meddling>>,
         \A m \in Names : name'[m] \in {None, name[m]}
  PROVE  Inodes'
<1>1. \A m \in Names : name'[m] # None => name'[m] = name[m]
  OBVIOUS
<1>2. None \notin Files /\ None \notin Nat /\ None \notin CopySet /\ None # New /\ None # Orig
  BY DistinctAssumption, Distinct
<1>. QED
  BY <1>1, <1>2 DEF Inodes

\* Every step keeps which file can be where.
LEMMA InodesStep ==
  ASSUME IInv, Step, TypeOK'
  PROVE  Inodes'
<1>. USE Distinct DEF TypeOK, IInv, Inodes, Staged, Control, Swapping, Early, Private, Goto, fs, user
<1>1. CASE Review
  BY <1>1 DEF Review, Is
<1>2. CASE PublishCopy
  BY <1>2 DEF PublishCopy
<1>3. CASE RecheckCopy
  BY <1>3 DEF RecheckCopy, Is
<1>4. CASE StageConfig
  BY <1>4 DEF StageConfig, At
<1>5. CASE Expect
  BY <1>5 DEF Expect, At, Discarded
<1>6. CASE MoveAside
  <2>1. CASE CanMove("config", "guard")
    <3>1. name["config"] # New /\ name["config"] \notin CopySet
      BY <1>6 DEF MoveAside
    <3>. QED
      BY <1>6, <2>1, <3>1 DEF MoveAside, CanMove, Moved
  <2>2. CASE ~CanMove("config", "guard")
    BY <1>6, <2>2, InodesFewer DEF MoveAside, Discarded
  <2>. QED
    BY <2>1, <2>2
<1>7. CASE CheckGuard
  BY <1>7 DEF CheckGuard, Is, At, Restoring
<1>8. CASE Swap
  BY <1>8 DEF Swap, CanMove, Moved, Without, Restoring
<1>9. CASE CheckSwap
  BY <1>9 DEF CheckSwap, Is, Restoring
<1>10. CASE CheckSwapAgain
  BY <1>10 DEF CheckSwapAgain, At, Restoring
<1>11. CASE Verify
  BY <1>11 DEF Verify
<1>12. CASE Finalize
  BY <1>12 DEF Finalize, Is, At, CanDelete, Without, Restoring
<1>13. CASE Restore
  BY <1>13 DEF Restore, At
<1>14. CASE Return
  BY <1>14 DEF Return, CanMove, Moved
<1>15. CASE Drop
  BY <1>15, InodesFewer DEF Drop, Discarded
<1>16. CASE Entomb
  BY <1>16 DEF Entomb, CanMove, Moved
<1>17. CASE CheckTomb
  BY <1>17 DEF CheckTomb, Is, At, Restoring
<1>18. CASE WithholdTomb
  BY <1>18 DEF WithholdTomb
<1>19. CASE Revert
  BY <1>19 DEF Revert, CanMove, Moved, At, Restoring
<1>20. CASE WithholdBoth
  BY <1>20 DEF WithholdBoth
<1>21. CASE DeleteTomb
  BY <1>21 DEF DeleteTomb, Is, CanDelete, Without, Withhold
<1>22. CASE SkipRollback
  BY <1>22 DEF SkipRollback
<1>23. CASE RemoveCopy
  <2>1. name' \in {name, Without(created[Len(created)])}
    BY <1>23 DEF RemoveCopy
  <2>2. \A m \in Names : name'[m] \in {None, name[m]}
    BY <2>1 DEF Without
  <2>. QED
    BY <1>23, <2>2, InodesFewer DEF RemoveCopy
<1>24. CASE Report
  BY <1>24 DEF Report
<1>25. CASE Raise
  BY <1>25 DEF Raise, Discarded
<1>26. CASE Crash
  BY <1>26 DEF Crash
<1>27. CASE Close
  BY <1>27 DEF Close
<1>28. CASE Write
  BY <1>28 DEF Write, Meddle, At
<1>29. CASE Decline
  BY <1>29 DEF Decline
<1>30. ASSUME NEW n \in Public, Open(n) PROVE Inodes'
  BY <1>30 DEF Open
<1>31. ASSUME NEW n \in Public, Save(n) PROVE Inodes'
  BY <1>31 DEF Save, Meddle, At
<1>32. ASSUME NEW n \in Public, Remove(n) PROVE Inodes'
  <2>1. n \in Names /\ UNCHANGED data /\ meddling' = meddling + 1
    BY <1>32 DEF Remove, Meddle, Names
  <2>2. \A m \in Names : name'[m] = IF m = n THEN None ELSE name[m]
    BY <1>32 DEF Remove, Without
  <2>3. dropped' = dropped \cup {data[name[n]], meddling + 1} /\ name[n] \in Files
    BY <1>32, <2>1 DEF Remove, Meddle, At
  <2>4. None \notin Nat /\ None \notin CopySet /\ None # New /\ None # Orig
    BY DistinctAssumption
  <2>5. /\ \A m \in Names : name'[m] \in Nat => name'[m] <= meddling'
        /\ \A m \in Names : name'[m] \in CopySet => name'[m] = m
        /\ \A m \in Names : name'[m] = New => m \in {"stage", "config", "tomb"}
    BY <2>1, <2>2, <2>4
  <2>6. data'[Orig] = Before /\ (\E m \in Names : name'[m] = Orig)
          => Before \notin dropped'
    BY <2>1, <2>2, <2>3, <2>4
  <2>. QED
    BY <2>1, <2>5, <2>6
<1>33. CASE UNCHANGED vars
  BY <1>33 DEF vars
<1>. QED
  BY <1>1, <1>2, <1>3, <1>4, <1>5, <1>6, <1>7, <1>8, <1>9, <1>10, <1>11,
     <1>12, <1>13, <1>14, <1>15, <1>16, <1>17, <1>18, <1>19, <1>20,
     <1>21, <1>22, <1>23, <1>24, <1>25, <1>26, <1>27, <1>28, <1>29,
     <1>30, <1>31, <1>32, <1>33
  DEF Step, Next, ApplyStep, UserStep

\* The stage is apply's own.
LEMMA StagedStep ==
  ASSUME IInv, Step, TypeOK'
  PROVE  Staged'
<1>. USE Distinct DEF TypeOK, IInv, Inodes, Staged, Control, Swapping, Early, Private, Goto, fs, user
<1>1. CASE Review
  BY <1>1 DEF Review, Is
<1>2. CASE PublishCopy
  BY <1>2 DEF PublishCopy
<1>3. CASE RecheckCopy
  BY <1>3 DEF RecheckCopy, Is
<1>4. CASE StageConfig
  BY <1>4 DEF StageConfig, At
<1>5. CASE Expect
  BY <1>5 DEF Expect, At, Discarded
<1>6. CASE MoveAside
  BY <1>6 DEF MoveAside, CanMove, Moved, Discarded
<1>7. CASE CheckGuard
  BY <1>7 DEF CheckGuard, Is, At, Restoring
<1>8. CASE Swap
  BY <1>8 DEF Swap, CanMove, Moved, Without, Restoring
<1>9. CASE CheckSwap
  BY <1>9 DEF CheckSwap, Is, Restoring
<1>10. CASE CheckSwapAgain
  BY <1>10 DEF CheckSwapAgain, At, Restoring
<1>11. CASE Verify
  BY <1>11 DEF Verify
<1>12. CASE Finalize
  BY <1>12 DEF Finalize, Is, At, CanDelete, Without, Restoring
<1>13. CASE Restore
  BY <1>13 DEF Restore, At
<1>14. CASE Return
  BY <1>14 DEF Return, CanMove, Moved
<1>15. CASE Drop
  BY <1>15 DEF Drop, Discarded, Restoring
<1>16. CASE Entomb
  BY <1>16 DEF Entomb, CanMove, Moved
<1>17. CASE CheckTomb
  BY <1>17 DEF CheckTomb, Is, At, Restoring
<1>18. CASE WithholdTomb
  BY <1>18 DEF WithholdTomb
<1>19. CASE Revert
  BY <1>19 DEF Revert, CanMove, Moved, At, Restoring
<1>20. CASE WithholdBoth
  BY <1>20 DEF WithholdBoth
<1>21. CASE DeleteTomb
  BY <1>21 DEF DeleteTomb, Is, CanDelete, Without, Withhold
<1>22. CASE SkipRollback
  BY <1>22 DEF SkipRollback
<1>23. CASE RemoveCopy
  BY <1>23 DEF RemoveCopy, Is, CanDelete, Without, Withhold
<1>24. CASE Report
  BY <1>24 DEF Report
<1>25. CASE Raise
  BY <1>25 DEF Raise, Discarded
<1>26. CASE Crash
  BY <1>26 DEF Crash
<1>27. CASE Close
  BY <1>27 DEF Close
<1>28. CASE Write
  BY <1>28 DEF Write, Meddle, At
<1>29. CASE Decline
  BY <1>29 DEF Decline
<1>30. ASSUME NEW n \in Public, Open(n) PROVE Staged'
  <2>1. n \in Names /\ n # "stage" /\ (n = "config" \/ n \in CopySet)
    BY <1>30 DEF Names, Public
  <2>2. held' = name[n] /\ UNCHANGED <<name, data, pc>>
    BY <1>30 DEF Open
  <2>3. name["stage"] = New \/ pc \in Early => name[n] # New
    BY <2>1
  <2>. QED
    BY <2>2, <2>3
<1>31. ASSUME NEW n \in Public, Save(n) PROVE Staged'
  <2>1. n \in Names /\ n \notin Private
    BY <1>31 DEF Names, Public
  <2>2. /\ UNCHANGED <<pc, held>> /\ meddling + 1 \in Nat
        /\ \A m \in Names : name'[m] = IF m = n THEN meddling + 1 ELSE name[m]
        /\ \A i \in Files : i # meddling + 1 => data'[i] = data[i]
    BY <1>31, <2>1 DEF Save, Meddle
  <2>. QED
    BY <2>1, <2>2
<1>32. ASSUME NEW n \in Public, Remove(n) PROVE Staged'
  BY SMTT(30), <1>32 DEF Remove, Meddle, At, Without
<1>33. CASE UNCHANGED vars
  BY <1>33 DEF vars
<1>. QED
  BY <1>1, <1>2, <1>3, <1>4, <1>5, <1>6, <1>7, <1>8, <1>9, <1>10, <1>11,
     <1>12, <1>13, <1>14, <1>15, <1>16, <1>17, <1>18, <1>19, <1>20,
     <1>21, <1>22, <1>23, <1>24, <1>25, <1>26, <1>27, <1>28, <1>29,
     <1>30, <1>31, <1>32, <1>33
  DEF Step, Next, ApplyStep, UserStep

\* Every copy is remembered or reported.
LEMMA CopiedStep ==
  ASSUME IInv, Step, TypeOK'
  PROVE  Copied'
<1>. USE Distinct DEF TypeOK, IInv, Inodes, Copied, Control, Swapping, Early, Goto, fs, user
<1>1. CASE Review
  <2>1. /\ UNCHANGED <<name, todo, created, report>>
        /\ pc = "review" /\ pc' \in {"failed", "copy"}
    BY <1>1 DEF Review
  <2>. QED
    BY <2>1
<1>2. CASE PublishCopy
  <2>1. CASE name[Head(todo)] # None
    BY <1>2, <2>1 DEF PublishCopy
  <2>2. CASE name[Head(todo)] = None
    <3>1. /\ todo # <<>> /\ Head(todo) = todo[1] /\ todo[1] \in CopySet
          /\ pc = "copy" /\ pc' = "copied" /\ UNCHANGED <<todo, created, report>>
          /\ name' = [name EXCEPT ![todo[1]] = todo[1]]
      BY <1>2, <2>2 DEF PublishCopy
    <3>2. \A n \in Names : name'[n] = IF n = todo[1] THEN n ELSE name[n]
      BY <3>1
    <3>3. \A i \in DOMAIN todo : i = 1 \/ name'[todo[i]] # todo[i]
      BY <3>1, <3>2
    <3>. QED
      BY <3>1, <3>2, <3>3
  <2>. QED
    BY <2>1, <2>2
<1>3. CASE RecheckCopy
  <2>1. /\ todo # <<>> /\ Head(todo) = todo[1] /\ todo[1] \in CopySet
        /\ pc = "copied" /\ UNCHANGED name
    BY <1>3 DEF RecheckCopy
  <2>2. CASE Is(Head(todo), Head(todo), Source)
    <3>1. /\ created' = Append(created, todo[1]) /\ todo' = Tail(todo)
          /\ pc' = "copy" /\ UNCHANGED report
      BY <1>3, <2>1, <2>2 DEF RecheckCopy
    <3>2. /\ DOMAIN todo' = 1..(Len(todo) - 1)
          /\ \A i \in DOMAIN todo' : i + 1 \in DOMAIN todo /\ todo'[i] = todo[i + 1]
      BY <2>1, <3>1
    <3>3. /\ \A i \in DOMAIN created : i \in DOMAIN created' /\ created'[i] = created[i]
          /\ Len(created) + 1 \in DOMAIN created' /\ created'[Len(created) + 1] = todo[1]
      BY <2>1, <3>1
    <3>4. \A i, j \in DOMAIN todo' : todo'[i] = todo'[j] => i = j
      BY <2>1, <3>2
    <3>5. \A i \in DOMAIN todo' : name'[todo'[i]] # todo'[i]
      BY <2>1, <3>2
    <3>6. ASSUME NEW d \in CopySet, name'[d] = d
          PROVE  (\E i \in DOMAIN created' : created'[i] = d) \/ d \in report'
      <4>1. \/ \E i \in DOMAIN created : created[i] = d
            \/ d \in report \/ d = todo[1]
        BY <2>1, <3>6
      <4>. QED
        BY <3>1, <3>3, <4>1
    <3>. QED
      BY <3>1, <3>4, <3>5, <3>6
  <2>3. CASE ~Is(Head(todo), Head(todo), Source)
    BY <1>3, <2>1, <2>3 DEF RecheckCopy
  <2>. QED
    BY <2>2, <2>3
<1>4. CASE StageConfig
  BY <1>4 DEF StageConfig, At
<1>5. CASE Expect
  BY <1>5 DEF Expect, At, Discarded
<1>6. CASE MoveAside
  BY <1>6 DEF MoveAside, CanMove, Moved, Discarded
<1>7. CASE CheckGuard
  BY <1>7 DEF CheckGuard, Is, At, Restoring
<1>8. CASE Swap
  BY <1>8 DEF Swap, CanMove, Moved, Without, Restoring
<1>9. CASE CheckSwap
  BY <1>9 DEF CheckSwap, Is, Restoring
<1>10. CASE CheckSwapAgain
  BY <1>10 DEF CheckSwapAgain, At, Restoring
<1>11. CASE Verify
  BY <1>11 DEF Verify
<1>12. CASE Finalize
  BY <1>12 DEF Finalize, Is, At, CanDelete, Without, Restoring
<1>13. CASE Restore
  BY <1>13 DEF Restore, At
<1>14. CASE Return
  BY <1>14 DEF Return, CanMove, Moved
<1>15. CASE Drop
  BY <1>15 DEF Drop, Discarded, Restoring
<1>16. CASE Entomb
  BY <1>16 DEF Entomb, CanMove, Moved
<1>17. CASE CheckTomb
  BY <1>17 DEF CheckTomb, Is, At, Restoring
<1>18. CASE WithholdTomb
  BY <1>18 DEF WithholdTomb
<1>19. CASE Revert
  BY <1>19 DEF Revert, CanMove, Moved, At, Restoring
<1>20. CASE WithholdBoth
  BY <1>20 DEF WithholdBoth
<1>21. CASE DeleteTomb
  BY <1>21 DEF DeleteTomb, Is, CanDelete, Without, Withhold
<1>22. CASE SkipRollback
  BY <1>22 DEF SkipRollback
<1>23. CASE RemoveCopy
  <2>1. /\ pc = "uncopy" /\ UNCHANGED <<pc, todo>>
        /\ Len(created) \in DOMAIN created /\ created[Len(created)] \in CopySet
        /\ created' = SubSeq(created, 1, Len(created) - 1)
    BY <1>23 DEF RemoveCopy
  <2>2. \A i \in DOMAIN created : i # Len(created) =>
          i \in DOMAIN created' /\ created'[i] = created[i]
    BY <2>1
  <2>3. \/ name' = Without(created[Len(created)]) /\ UNCHANGED report
        \/ UNCHANGED name /\ Withhold({created[Len(created)]})
    BY <1>23 DEF RemoveCopy
  <2>4. ASSUME NEW d \in CopySet, name'[d] = d, todo = <<>>
        PROVE  (\E i \in DOMAIN created' : created'[i] = d) \/ d \in report'
    <3>1. name[d] = d /\ report \subseteq report'
      BY <2>1, <2>3, <2>4 DEF Without, Withhold
    <3>2. CASE d = created[Len(created)]
      BY <2>1, <2>3, <2>4, <3>2 DEF Without, Withhold
    <3>3. CASE d # created[Len(created)]
      BY <2>1, <2>2, <2>4, <3>1, <3>3
    <3>. QED
      BY <3>2, <3>3
  <2>. QED
    BY <2>1, <2>4
<1>24. CASE Report
  BY <1>24 DEF Report
<1>25. CASE Raise
  BY <1>25 DEF Raise, Discarded
<1>26. CASE Crash
  BY <1>26 DEF Crash
<1>27. CASE Close
  BY <1>27 DEF Close
<1>28. CASE Write
  BY <1>28 DEF Write, Meddle, At
<1>29. CASE Decline
  BY <1>29 DEF Decline
<1>30. ASSUME NEW n \in Public, Open(n) PROVE Copied'
  BY <1>30 DEF Open
<1>31. ASSUME NEW n \in Public, Save(n) PROVE Copied'
  BY <1>31 DEF Save, Meddle, At
<1>32. ASSUME NEW n \in Public, Remove(n) PROVE Copied'
  BY <1>32 DEF Remove, Meddle, At, Without
<1>33. CASE UNCHANGED vars
  BY <1>33 DEF vars
<1>. QED
  BY <1>1, <1>2, <1>3, <1>4, <1>5, <1>6, <1>7, <1>8, <1>9, <1>10, <1>11,
     <1>12, <1>13, <1>14, <1>15, <1>16, <1>17, <1>18, <1>19, <1>20,
     <1>21, <1>22, <1>23, <1>24, <1>25, <1>26, <1>27, <1>28, <1>29,
     <1>30, <1>31, <1>32, <1>33
  DEF Step, Next, ApplyStep, UserStep

\* Control knows the private names.
LEMMA ControlStep ==
  ASSUME IInv, Step, TypeOK'
  PROVE  Control'
<1>. USE Distinct DEF TypeOK, IInv, Inodes, Staged, Control, Swapping, Early, Private, Goto, fs, user
<1>1. CASE Review
  BY <1>1 DEF Review, Is
<1>2. CASE PublishCopy
  BY <1>2 DEF PublishCopy
<1>3. CASE RecheckCopy
  BY <1>3 DEF RecheckCopy, Is
<1>4. CASE StageConfig
  BY <1>4 DEF StageConfig, At
<1>5. CASE Expect
  BY <1>5 DEF Expect, At, Discarded
<1>6. CASE MoveAside
  BY <1>6 DEF MoveAside, CanMove, Moved, Discarded
<1>7. CASE CheckGuard
  BY <1>7 DEF CheckGuard, Is, At, Restoring
<1>8. CASE Swap
  BY <1>8 DEF Swap, CanMove, Moved, Without, Restoring
<1>9. CASE CheckSwap
  BY <1>9 DEF CheckSwap, Is, Restoring
<1>10. CASE CheckSwapAgain
  BY <1>10 DEF CheckSwapAgain, At, Restoring
<1>11. CASE Verify
  BY <1>11 DEF Verify
<1>12. CASE Finalize
  BY <1>12 DEF Finalize, Is, At, CanDelete, Without, Restoring
<1>13. CASE Restore
  BY <1>13 DEF Restore, At
<1>14. CASE Return
  BY <1>14 DEF Return, CanMove, Moved
<1>15. CASE Drop
  BY <1>15 DEF Drop, Discarded, Restoring
<1>16. CASE Entomb
  BY <1>16 DEF Entomb, CanMove, Moved
<1>17. CASE CheckTomb
  BY <1>17 DEF CheckTomb, Is, At, Restoring
<1>18. CASE WithholdTomb
  BY <1>18 DEF WithholdTomb
<1>19. CASE Revert
  BY <1>19 DEF Revert, CanMove, Moved, At, Restoring
<1>20. CASE WithholdBoth
  BY <1>20 DEF WithholdBoth
<1>21. CASE DeleteTomb
  BY <1>21 DEF DeleteTomb, Is, CanDelete, Without, Withhold
<1>22. CASE SkipRollback
  BY <1>22 DEF SkipRollback
<1>23. CASE RemoveCopy
  BY <1>23 DEF RemoveCopy, Is, CanDelete, Without, Withhold
<1>24. CASE Report
  BY <1>24 DEF Report
<1>25. CASE Raise
  BY <1>25 DEF Raise, Discarded
<1>26. CASE Crash
  BY <1>26 DEF Crash
<1>27. CASE Close
  BY <1>27 DEF Close
<1>28. CASE Write
  BY <1>28 DEF Write, Meddle, At
<1>29. CASE Decline
  BY <1>29 DEF Decline
<1>30. ASSUME NEW n \in Public, Open(n) PROVE Control'
  BY <1>30 DEF Open
<1>31. ASSUME NEW n \in Public, Save(n) PROVE Control'
  BY <1>31 DEF Save, Meddle, At
<1>32. ASSUME NEW n \in Public, Remove(n) PROVE Control'
  BY SMTT(30), <1>32 DEF Remove, Meddle, At, Without
<1>33. CASE UNCHANGED vars
  BY <1>33 DEF vars
<1>. QED
  BY <1>1, <1>2, <1>3, <1>4, <1>5, <1>6, <1>7, <1>8, <1>9, <1>10, <1>11,
     <1>12, <1>13, <1>14, <1>15, <1>16, <1>17, <1>18, <1>19, <1>20,
     <1>21, <1>22, <1>23, <1>24, <1>25, <1>26, <1>27, <1>28, <1>29,
     <1>30, <1>31, <1>32, <1>33
  DEF Step, Next, ApplyStep, UserStep

-----------------------------------------------------------------------------
(* The user's bytes. *)

\* Bytes that are the user's: the reviewed configuration, and his edits.
Users(c) == c = Before \/ c \in 1..meddling

\* A step that writes nothing keeps the user's bytes if every file that has
\* some keeps a name.
LEMMA KeptFiles ==
  ASSUME TypeOK, UserBytesKept, UNCHANGED <<data, dropped, meddling>>,
         \A m \in Names : name[m] # None /\ Users(At(m)) =>
           \E k \in Names : name'[k] = name[m]
  PROVE  UserBytesKept'
<1>. SUFFICES ASSUME NEW c \in {Before} \cup 1..meddling, c \notin dropped
              PROVE  \E k \in Names : name'[k] # None /\ data[name'[k]] = c
  BY DEF UserBytesKept, At
<1>1. PICK m \in Names : name[m] # None /\ At(m) = c
  BY DEF UserBytesKept
<1>2. PICK k \in Names : name'[k] = name[m]
  BY <1>1 DEF Users
<1>. QED
  BY <1>1, <1>2 DEF At

\* A move to a free name keeps every file.
LEMMA KeptMoved ==
  ASSUME TypeOK, UserBytesKept, UNCHANGED <<data, dropped, meddling>>,
         NEW a \in Names, NEW b \in Names, a # b,
         CanMove(a, b), name' = Moved(a, b)
  PROVE  UserBytesKept'
<1>1. \A m \in Names : name'[m] = IF m = a THEN None
                                  ELSE IF m = b THEN name[a] ELSE name[m]
  BY DEF Moved, TypeOK
<1>2. ASSUME NEW m \in Names, name[m] # None
      PROVE  \E k \in Names : name'[k] = name[m]
  <2>1. CASE m = a
    BY <1>1, <2>1
  <2>2. CASE m # a
    BY <1>1, <1>2, <2>2 DEF CanMove
  <2>. QED
    BY <2>1, <2>2
<1>. QED
  BY <1>2, KeptFiles

\* So does taking away a name whose file holds no bytes of the user's.
LEMMA KeptWithout ==
  ASSUME TypeOK, UserBytesKept, UNCHANGED <<data, dropped, meddling>>,
         NEW n \in Names, ~Users(At(n)), name' = Without(n)
  PROVE  UserBytesKept'
<1>1. \A m \in Names : name'[m] = IF m = n THEN None ELSE name[m]
  BY DEF Without, TypeOK
<1>2. ASSUME NEW m \in Names, Users(At(m))
      PROVE  \E k \in Names : name'[k] = name[m]
  BY <1>1, <1>2
<1>. QED
  BY <1>2, KeptFiles

\* Removing the staged copies removes no bytes of the user.
LEMMA KeptDiscarded ==
  ASSUME TypeOK, UserBytesKept, Staged, UNCHANGED <<data, dropped, meddling>>,
         name' = Discarded(name)
  PROVE  UserBytesKept'
<1>1. CASE name' = name
  BY <1>1, KeptFiles
<1>2. CASE name' # name
  <2>1. name' = Without("stage") /\ "stage" \in Names /\ ~Users(At("stage"))
    BY <1>2, Distinct DEF Discarded, Without, Staged, At, Users, TypeOK
  <2>. QED
    BY <2>1, KeptWithout
<1>. QED
  BY <1>1, <1>2

\* No step of the apply loses bytes that the user had.
LEMMA KeptStep ==
  ASSUME IInv, Step, TypeOK'
  PROVE  UserBytesKept'
<1>. USE Distinct DEF TypeOK, IInv, Staged, Control, Swapping, Early, Private, Goto, fs, user, Users
<1>1. CASE Review
  BY <1>1, KeptFiles DEF Review, Is
<1>2. CASE PublishCopy
  BY <1>2, KeptFiles DEF PublishCopy
<1>3. CASE RecheckCopy
  BY <1>3, KeptFiles DEF RecheckCopy, Is
<1>4. CASE StageConfig
  BY <1>4, KeptFiles DEF StageConfig, At
<1>5. CASE Expect
  BY <1>5, KeptFiles DEF Expect, At, Discarded
<1>6. CASE MoveAside
  BY <1>6, KeptMoved, KeptDiscarded DEF MoveAside
<1>7. CASE CheckGuard
  BY <1>7, KeptFiles DEF CheckGuard, Is, At, Restoring
<1>8. CASE Swap
  <2>1. CASE CanMove("stage", "config")
    BY <1>8, <2>1, KeptMoved DEF Swap
  <2>2. CASE ~CanMove("stage", "config")
    <3>1. name' = Without("stage") /\ ~Users(At("stage"))
      BY <1>8, <2>2 DEF Swap, At
    <3>. QED
      BY <1>8, <3>1, KeptWithout DEF Swap
  <2>. QED
    BY <2>1, <2>2
<1>9. CASE CheckSwap
  BY <1>9, KeptFiles DEF CheckSwap, Is, Restoring
<1>10. CASE CheckSwapAgain
  BY <1>10, KeptFiles DEF CheckSwapAgain, At, Restoring
<1>11. CASE Verify
  BY <1>11, KeptFiles DEF Verify
<1>12. CASE Finalize
  BY <1>12, KeptFiles DEF Finalize, Is, At, CanDelete, Without, Restoring
<1>13. CASE Restore
  BY <1>13, KeptFiles DEF Restore, At
<1>14. CASE Return
  BY <1>14, KeptFiles DEF Return, CanMove, Moved
<1>15. CASE Drop
  BY <1>15, KeptDiscarded DEF Drop
<1>16. CASE Entomb
  BY <1>16, KeptFiles DEF Entomb, CanMove, Moved
<1>17. CASE CheckTomb
  BY <1>17, KeptFiles DEF CheckTomb, Is, At, Restoring
<1>18. CASE WithholdTomb
  BY <1>18, KeptFiles DEF WithholdTomb
<1>19. CASE Revert
  BY <1>19, KeptFiles DEF Revert, CanMove, Moved, At, Restoring
<1>20. CASE WithholdBoth
  BY <1>20, KeptFiles DEF WithholdBoth
<1>21. CASE DeleteTomb
  <2>1. CASE UNCHANGED name
    BY <1>21, <2>1, KeptFiles DEF DeleteTomb
  <2>2. CASE ~UNCHANGED name
    <3>1. name' = Without("tomb") /\ CanDelete("tomb", New, After)
      BY <1>21, <2>2 DEF DeleteTomb, Withhold
    <3>2. ~Users(At("tomb"))
      BY <3>1 DEF CanDelete, Is, At
    <3>. QED
      BY <1>21, <3>1, <3>2, KeptWithout DEF DeleteTomb
  <2>. QED
    BY <2>1, <2>2
<1>22. CASE SkipRollback
  BY <1>22, KeptFiles DEF SkipRollback
<1>23. CASE RemoveCopy
  <2>1. /\ created[Len(created)] \in Names
        /\ UNCHANGED <<data, dropped, meddling>>
    BY <1>23 DEF RemoveCopy
  <2>2. CASE UNCHANGED name
    BY <2>1, <2>2, KeptFiles
  <2>3. CASE ~UNCHANGED name
    <3>1. /\ name' = Without(created[Len(created)])
          /\ data[name[created[Len(created)]]] = Source
      BY <1>23, <2>3 DEF RemoveCopy, CanDelete, Is
    <3>2. ~Users(At(created[Len(created)]))
      BY <3>1 DEF At
    <3>. QED
      BY <2>1, <3>1, <3>2, KeptWithout
  <2>. QED
    BY <2>2, <2>3
<1>24. CASE Report
  BY <1>24, KeptFiles DEF Report
<1>25. CASE Raise
  BY <1>25, KeptFiles, KeptDiscarded DEF Raise
<1>26. CASE Crash
  BY <1>26, KeptFiles DEF Crash
<1>27. CASE Close
  BY <1>27, KeptFiles DEF Close
<1>28. CASE Write
  <2>1. /\ held \in Files /\ UNCHANGED name
        /\ meddling' = meddling + 1 /\ meddling + 1 # Before
        /\ data' = [data EXCEPT ![held] = meddling + 1]
        /\ dropped' = dropped \cup {data[held]} \cup
             IF \E n \in Names : name[n] = held THEN {} ELSE {meddling + 1}
    BY <1>28 DEF Write, Meddle
  <2>2. ASSUME NEW c \in {Before} \cup 1..meddling, c \notin dropped'
        PROVE  \E n \in Names : name'[n] # None /\ data'[name'[n]] = c
    <3>1. PICK n \in Names : name[n] # None /\ data[name[n]] = c
      BY <2>1, <2>2 DEF UserBytesKept, At
    <3>2. name[n] # held /\ name[n] \in Files
      BY <2>1, <2>2, <3>1
    <3>. QED
      BY <2>1, <3>1, <3>2
  <2>3. ASSUME meddling + 1 \notin dropped'
        PROVE  \E n \in Names : name'[n] # None /\ data'[name'[n]] = meddling + 1
    BY <2>1, <2>3
  <2>4. \A c \in {Before} \cup 1..meddling' :
          c \in {Before} \cup 1..meddling \/ c = meddling + 1
    BY <2>1
  <2>. QED
    BY <2>2, <2>3, <2>4 DEF UserBytesKept, At
<1>29. CASE Decline
  BY <1>29, KeptFiles DEF Decline
<1>30. ASSUME NEW n \in Public, Open(n) PROVE UserBytesKept'
  BY SMTT(30), <1>30 DEF Open
<1>31. ASSUME NEW n \in Public, Save(n) PROVE UserBytesKept'
  <2>1. n \in Names /\ meddling' = meddling + 1 /\ meddling + 1 \in Files
    BY <1>31 DEF Save, Meddle, Names
  <2>2. /\ \A m \in Names : name'[m] = IF m = n THEN meddling + 1 ELSE name[m]
        /\ \A i \in Files : data'[i] = IF i = meddling + 1 THEN i ELSE data[i]
        /\ dropped' = dropped \cup IF name[n] = None THEN {} ELSE {data[name[n]]}
    BY <1>31, <2>1 DEF Save, Meddle, At
  <2>3. ASSUME NEW c \in {Before} \cup 1..meddling, c \notin dropped'
        PROVE  \E m \in Names : name'[m] # None /\ data'[name'[m]] = c
    <3>1. PICK m \in Names : name[m] # None /\ data[name[m]] = c
      BY <2>2, <2>3 DEF UserBytesKept, At
    <3>2. m # n
      BY <2>2, <2>3, <3>1
    <3>3. name[m] \in Files /\ name[m] # meddling + 1
      BY <3>1 DEF Inodes
    <3>. QED
      BY <2>2, <3>1, <3>2, <3>3
  <2>4. name'[n] # None /\ data'[name'[n]] = meddling + 1
    BY <2>1, <2>2
  <2>5. \A c \in {Before} \cup 1..meddling' :
          c \in {Before} \cup 1..meddling \/ c = meddling + 1
    BY <2>1
  <2>. QED
    BY <2>1, <2>3, <2>4, <2>5 DEF UserBytesKept, At
<1>32. ASSUME NEW n \in Public, Remove(n) PROVE UserBytesKept'
  <2>1. n \in Names /\ meddling' = meddling + 1 /\ UNCHANGED data
    BY <1>32 DEF Remove, Meddle, Names
  <2>2. /\ \A m \in Names : name'[m] = IF m = n THEN None ELSE name[m]
        /\ dropped' = dropped \cup {data[name[n]], meddling + 1}
    BY <1>32, <2>1 DEF Remove, Meddle, At, Without
  <2>3. ASSUME NEW c \in {Before} \cup 1..meddling, c \notin dropped'
        PROVE  \E m \in Names : name'[m] # None /\ data'[name'[m]] = c
    <3>1. PICK m \in Names : name[m] # None /\ data[name[m]] = c
      BY <2>2, <2>3 DEF UserBytesKept, At
    <3>. QED
      BY <2>1, <2>2, <2>3, <3>1
  <2>4. \A c \in {Before} \cup 1..meddling' :
          c \in {Before} \cup 1..meddling \/ c = meddling + 1
    BY <2>1
  <2>. QED
    BY <2>2, <2>3, <2>4 DEF UserBytesKept, At
<1>33. CASE UNCHANGED vars
  BY <1>33, KeptFiles DEF vars
<1>. QED
  BY <1>1, <1>2, <1>3, <1>4, <1>5, <1>6, <1>7, <1>8, <1>9, <1>10, <1>11,
     <1>12, <1>13, <1>14, <1>15, <1>16, <1>17, <1>18, <1>19, <1>20,
     <1>21, <1>22, <1>23, <1>24, <1>25, <1>26, <1>27, <1>28, <1>29,
     <1>30, <1>31, <1>32, <1>33
  DEF Step, Next, ApplyStep, UserStep

-----------------------------------------------------------------------------
(* The invariant of both modes.                                            *)

\* The inductive invariant of the apply is kept by every step,
LEMMA IStep ==
  ASSUME IInv, Step
  PROVE  IInv'
<1>1. TypeOK'
  BY TypeStep
<1>. QED
  BY <1>1, InodesStep, StagedStep, CopiedStep, ControlStep, KeptStep DEF IInv

\* and holds of every plan that names each of its files once.
LEMMA IInit ==
  ASSUME NEW copies \in Seq(CopySet), InitWith(copies),
         \A i, j \in DOMAIN copies : copies[i] = copies[j] => i = j
  PROVE  IInv
<1>. USE Distinct DEF InitWith
<1>1. /\ None \notin Names /\ None # Orig /\ None # New
      /\ None \notin CopySet /\ None \notin Nat
  BY DistinctAssumption
<1>2. \A n \in Names : name[n] = IF n = "config" THEN Orig ELSE None
  OBVIOUS
<1>3. /\ data[Orig] = Before /\ data[New] = After
      /\ \A i \in Files : i \in CopySet => data[i] = Source
      /\ \A i \in Files : i \notin CopySet \cup {Orig, New} =>
           i \in 1..MaxMeddling /\ data[i] = i
  BY DEF Files
<1>4. data \in [Files -> Contents]
  <2>1. \A i \in Files : data[i] \in Contents
    BY <1>3 DEF Contents
  <2>2. data = [i \in Files |-> data[i]]
    BY DEF Files
  <2>. QED
    BY <2>1, <2>2, Zenon
<1>5. TypeOK
  <2>1. name \in [Names -> Files \cup {None}]
    BY <1>2
  <2>2. \A m, n \in Names : name[m] = name[n] /\ name[m] # None => m = n
    BY <1>1, <1>2
  <2>3. meddling \in 0..MaxMeddling
    BY MeddlingAssumption
  <2>. QED
    BY <1>4, <2>1, <2>2, <2>3 DEF TypeOK, Phases
<1>6. Inodes
  <2>1. \A i \in Files : data[i] = Before => i = Orig
    BY <1>3 DEF Files
  <2>2. \A n \in Names : /\ name[n] \notin Nat /\ name[n] \notin CopySet
                         /\ name[n] # New
    BY <1>1, <1>2
  <2>3. dropped = {}
    OBVIOUS
  <2>. QED
    BY ONLY <2>1, <2>2, <2>3 DEF Inodes
<1>7. Staged
  BY <1>1, <1>2, <1>3 DEF Staged, Early, Private
<1>8. Copied
  BY <1>1, <1>2 DEF Copied, Early
<1>9. Control
  BY DEF Control, Swapping
<1>10. UserBytesKept
  <2>1. name["config"] # None /\ At("config") = Before
    BY <1>1, <1>2, <1>3 DEF At
  <2>2. \A c \in {Before} \cup 1..meddling : c = Before
    OBVIOUS
  <2>. QED
    BY <2>1, <2>2 DEF UserBytesKept
<1>. QED
  BY <1>5, <1>6, <1>7, <1>8, <1>9, <1>10 DEF IInv

\* The commit: the original is in the guard as it was reviewed, apply's own
\* configuration at the public name, and nothing in the private names else;
\* so whatever the user wrote meanwhile is at a copy's name.
LEMMA CommitSeesAll ==
  ASSUME IInv, Step, pc # "applied", pc' = "applied"
  PROVE  /\ Before \notin dropped
         /\ \A c \in 1..meddling \ dropped :
              \E d \in CopySet : name[d] # None /\ At(d) = c
<1>. USE Distinct DEF IInv
<1>1. Finalize
  <2>. USE DEF Control, Swapping, Goto, fs, user
<2>1. CASE Review
  BY <2>1 DEF Review, Is
<2>2. CASE PublishCopy
  BY <2>2 DEF PublishCopy
<2>3. CASE RecheckCopy
  BY <2>3 DEF RecheckCopy, Is
<2>4. CASE StageConfig
  BY <2>4 DEF StageConfig, At
<2>5. CASE Expect
  BY <2>5 DEF Expect, At, Discarded
<2>6. CASE MoveAside
  BY <2>6 DEF MoveAside, CanMove, Moved, Discarded
<2>7. CASE CheckGuard
  BY <2>7 DEF CheckGuard, Is, At, Restoring
<2>8. CASE Swap
  BY <2>8 DEF Swap, CanMove, Moved, Without, Restoring
<2>9. CASE CheckSwap
  BY <2>9 DEF CheckSwap, Is, Restoring
<2>10. CASE CheckSwapAgain
  BY <2>10 DEF CheckSwapAgain, At, Restoring
<2>11. CASE Verify
  BY <2>11 DEF Verify
<2>12. CASE Finalize
  BY <2>12 DEF Finalize, Is, At, CanDelete, Without, Restoring
<2>13. CASE Restore
  BY <2>13 DEF Restore, At
<2>14. CASE Return
  BY <2>14 DEF Return, CanMove, Moved
<2>15. CASE Drop
  BY <2>15 DEF Drop, Discarded, Restoring
<2>16. CASE Entomb
  BY <2>16 DEF Entomb, CanMove, Moved
<2>17. CASE CheckTomb
  BY <2>17 DEF CheckTomb, Is, At, Restoring
<2>18. CASE WithholdTomb
  BY <2>18 DEF WithholdTomb
<2>19. CASE Revert
  BY <2>19 DEF Revert, CanMove, Moved, At, Restoring
<2>20. CASE WithholdBoth
  BY <2>20 DEF WithholdBoth
<2>21. CASE DeleteTomb
  BY <2>21 DEF DeleteTomb, Is, CanDelete, Without, Withhold
<2>22. CASE SkipRollback
  BY <2>22 DEF SkipRollback
<2>23. CASE RemoveCopy
  BY <2>23 DEF RemoveCopy, Is, CanDelete, Without, Withhold
<2>24. CASE Report
  BY <2>24 DEF Report
<2>25. CASE Raise
  BY <2>25 DEF Raise, Discarded
<2>26. CASE Crash
  BY <2>26 DEF Crash
<2>27. CASE Close
  BY <2>27 DEF Close
<2>28. CASE Write
  BY <2>28 DEF Write, Meddle, At
<2>29. CASE Decline
  BY <2>29 DEF Decline
<2>30. ASSUME NEW n \in Public, Open(n) PROVE Finalize
  BY <2>30 DEF Open
<2>31. ASSUME NEW n \in Public, Save(n) PROVE Finalize
  BY <2>31 DEF Save, Meddle, At
<2>32. ASSUME NEW n \in Public, Remove(n) PROVE Finalize
  BY <2>32 DEF Remove, Meddle, At, Without
<2>33. CASE UNCHANGED vars
  BY <2>33 DEF vars
<2>. QED
  BY <2>1, <2>2, <2>3, <2>4, <2>5, <2>6, <2>7, <2>8, <2>9, <2>10, <2>11,
     <2>12, <2>13, <2>14, <2>15, <2>16, <2>17, <2>18, <2>19, <2>20,
     <2>21, <2>22, <2>23, <2>24, <2>25, <2>26, <2>27, <2>28, <2>29,
     <2>30, <2>31, <2>32, <2>33
  DEF Step, Next, ApplyStep, UserStep
<1>2. /\ pc = "finalize"
      /\ Is("guard", expected, Before) /\ Is("config", New, After)
  BY <1>1 DEF Finalize, Restoring, Goto
<1>3. name["guard"] = Orig /\ data[Orig] = Before
  BY <1>2 DEF Is, TypeOK, Inodes, Control, Swapping
<1>4. Before \notin dropped
  BY <1>3 DEF Inodes
<1>5. /\ name["tomb"] = None /\ replaced /\ name["stage"] = None
  BY <1>2 DEF Control, Swapping
<1>6. ASSUME NEW c \in 1..meddling, c \notin dropped
      PROVE  \E d \in CopySet : name[d] # None /\ At(d) = c
  <2>1. PICK n \in Names : name[n] # None /\ At(n) = c
    BY <1>6 DEF UserBytesKept
  <2>2. c \in Nat
    BY DEF TypeOK
  <2>3. n # "guard" /\ n # "config" /\ n # "tomb" /\ n # "stage"
    BY <1>2, <1>3, <1>5, <2>1, <2>2 DEF Is, At
  <2>. QED
    BY <2>1, <2>3 DEF Names, Public, Private
<1>. QED
  BY <1>4, <1>6

-----------------------------------------------------------------------------
(* The gates. *)

\* Whatever the tool, the host and the user do is a step of apply, or leaves
\* the project and apply alone.
LEMMA GatedIsStep ==
  ASSUME IInv, Gated, [GatedNext]_<<vars, tool, authority, parents, stood>>
  PROVE  Step
<1>1. CASE Call
  BY <1>1 DEF Call, Step
<1>2. CASE VerifyBinding
  BY <1>2 DEF VerifyBinding, Refuse, Gated, Step, Next, Raise, Goto, vars, fs, user
<1>3. CASE VerifyStanding
  BY <1>3 DEF VerifyStanding, Refuse, Gated, Step, Next, Raise, Goto, vars, fs, user
<1>4. CASE GatedReview
  BY <1>4 DEF GatedReview, Step, Next, ApplyStep, Decline
<1>5. CASE GatedApply
  BY <1>5 DEF GatedApply, Step, Next
<1>6. CASE Crash \/ SecureUserStep
  BY <1>6 DEF SecureUserStep, Step, Next, UserStep
<1>. QED
  BY <1>1, <1>2, <1>3, <1>4, <1>5, <1>6 DEF GatedNext, SecureNext, Step, Next

\* Before the second gate was passed nothing is changed but by the user.
LEMMA GatedStep ==
  ASSUME IInv, IInv', Gated, [GatedNext]_<<vars, tool, authority, parents, stood>>
  PROVE  Gated'
<1>. USE Distinct DEF Gated, Untouched, Private, Goto, tool, fs, user
<1>1. CASE Call
  BY <1>1 DEF Call, vars
<1>2. CASE VerifyBinding
  BY <1>2 DEF VerifyBinding, Refuse
<1>3. CASE VerifyStanding
  BY <1>3 DEF VerifyStanding, Refuse
<1>4. CASE gate = "apply" /\ GatedReview
  BY <1>4 DEF GatedReview, Review
<1>5. CASE GatedApply /\ gate = "open"
  <2>1. pc' # "review"
    <3>. USE <1>5 DEF GatedApply, IInv, Control
    <3>1. CASE Restore \/ Return
      BY <3>1 DEF Restore, Return
    <3>2. CASE ~(Restore \/ Return)
      BY <3>2 DEF ApplyStep, Review, PublishCopy, RecheckCopy, StageConfig,
          Expect, MoveAside, CheckGuard, Swap, CheckSwap, CheckSwapAgain,
          Verify, Finalize, Drop, Entomb, CheckTomb, WithholdTomb, Revert,
          WithholdBoth, DeleteTomb, SkipRollback, RemoveCopy, Report, Restoring
    <3>. QED
      BY <3>1, <3>2
  <2>. QED
    BY <1>5, <2>1 DEF GatedApply
<1>6. CASE GatedApply /\ gate = "refused"
  <2>1. pc \in {"undo", "uncopy", "failed", "dead"} /\ ~replaced /\ created = <<>>
    BY <1>6 DEF GatedApply
  <2>2. SkipRollback \/ Report
    BY ONLY <1>6, <2>1 DEF GatedApply, ApplyStep, Review, PublishCopy, RecheckCopy,
        StageConfig, Expect, MoveAside, CheckGuard, Swap, CheckSwap,
        CheckSwapAgain, Verify, Finalize, Restore, Return, Drop, Entomb,
        CheckTomb, WithholdTomb, Revert, WithholdBoth, DeleteTomb, RemoveCopy
  <2>3. /\ UNCHANGED <<fs, tool, created, replaced>>
        /\ pc' \in {"uncopy", "failed"}
    BY <1>6, <2>2 DEF GatedApply, SkipRollback, Report
  <2>4. ~parents'
    BY <1>6, <2>1 DEF GatedApply
  <2>. QED
    BY <1>6, <2>3, <2>4
<1>7. CASE Crash /\ UNCHANGED <<tool, authority, parents, stood>>
  BY <1>7 DEF Crash
<1>8. CASE SecureUserStep /\ UNCHANGED <<tool, authority, parents, stood>>
  <2>1. PICK n \in Public : Save(n) \/ Remove(n)
    BY <1>8 DEF SecureUserStep
  <2>2. n \in Names /\ n \notin Private /\ meddling + 1 \in Nat
    BY <2>1 DEF Public, Names, IInv, TypeOK
  <2>3. \A m \in Names : name'[m] \in IF m = n THEN {None, meddling + 1} ELSE {name[m]}
    BY <2>1, <2>2 DEF Save, Remove, Without, Meddle, IInv, TypeOK
  <2>4. None # New /\ None \notin CopySet
    BY DistinctAssumption
  <2>5. UNCHANGED <<pc, created, replaced, gate, parents>>
    BY <1>8, <2>1 DEF Save, Remove
  <2>. QED
    BY <2>2, <2>3, <2>4, <2>5
<1>9. CASE UNCHANGED <<vars, tool, parents>>
  BY <1>9 DEF vars
<1>10. CASE gate = "none" /\ UNCHANGED tool
  BY <1>10
<1>. QED
  BY <1>1, <1>2, <1>3, <1>4, <1>5, <1>6, <1>7, <1>8, <1>9, <1>10
  DEF GatedNext, SecureNext, GatedReview, GatedApply

\* So it holds of the apply behind its gate, approvals and hosts included.
LEMMA GatedInvariance == GatedSpec => []GInv
<1>1. GatedInit => GInv
  <2>. SUFFICES ASSUME GatedInit PROVE GInv
    OBVIOUS
  <2>1. IInv
    <3>1. CASE Init
      BY <3>1, IInit, CopiesAssumption DEF Init
    <3>2. CASE InitWith(SecureCopies)
      BY <3>2, IInit, SecureAssumption
    <3>. QED
      BY <3>1, <3>2 DEF GatedInit
  <2>2. Gated
    <3>1. None # New /\ None \notin CopySet
      BY DistinctAssumption
    <3>. QED
      BY <3>1, Distinct DEF GatedInit, Init, InitWith, Gated, Untouched, Private
  <2>. QED
    BY <2>1, <2>2 DEF GInv
<1>2. GInv /\ [GatedNext]_<<vars, tool, authority, parents, stood>> => GInv'
  BY GatedIsStep, IStep, GatedStep DEF GInv
<1>. QED
  BY <1>1, <1>2, PTL DEF GatedSpec

\* Nothing the user wrote is lost, at any moment, by any copy, swap, failure,
\* rollback or crash of apply_structure_plan, whatever he saves, rewrites
\* through an old handle or deletes meanwhile.
THEOREM UserBytesAreKept == GatedSpec => []UserBytesKept
<1>1. GInv => UserBytesKept
  BY DEF GInv, IInv
<1>. QED
  BY <1>1, GatedInvariance, PTL

\* A failure that does not ask for manual cleanup, after the configuration
\* had been replaced, has undone all that apply did.
THEOREM RollbackIsClean == GatedSpec => []CleanRollback
<1>1. GInv => CleanRollback
  <2>. SUFFICES ASSUME GInv, pc = "failed", replaced, error = "plain"
                PROVE  /\ \A n \in Private : name[n] = None
                       /\ \A n \in Names : name[n] \notin {New} \cup CopySet
    BY DEF CleanRollback
  <2>1. /\ report = {} /\ created = <<>> /\ todo = <<>>
        /\ \A n \in Private : name[n] = None
        /\ \A n \in Names : name[n] # New
    BY DEF GInv, IInv, Control
  <2>2. \A d \in CopySet : name[d] # d
    BY <2>1 DEF GInv, IInv, Copied
  <2>. QED
    BY <2>1, <2>2 DEF GInv, IInv, Inodes
<1>. QED
  BY <1>1, GatedInvariance, PTL

\* A call that the host's approval does not cover leaves nothing behind,
\* whichever of the two gates refused it and whatever the user does.
THEOREM RefusalLeavesNoTrace == GatedSpec => []RefusedTouchesNothing
<1>1. GInv => RefusedTouchesNothing
  BY DEF GInv, Gated, Untouched, RefusedTouchesNothing
<1>. QED
  BY <1>1, GatedInvariance, PTL

\* Success is never reported over an edit of the configuration that apply has
\* not seen.
THEOREM EditsAreSeen == GatedSpec => NoEditOverlooked
<1>1. GInv /\ [GatedNext]_<<vars, tool, authority, parents, stood>> =>
        [pc # "applied" /\ pc' = "applied" =>
           /\ Before \notin dropped
           /\ \A c \in 1..meddling \ dropped :
                \E d \in CopySet : name[d] # None /\ At(d) = c]_vars
  BY GatedIsStep, CommitSeesAll DEF GInv
<1>. QED
  BY <1>1, GatedInvariance, PTL DEF GatedSpec, NoEditOverlooked

-----------------------------------------------------------------------------
(* The approvals.  The hypotheses OneHost and NoReceipt are stated where   *)
(* they are needed; nothing is assumed of plans, times or their number.    *)

\* The index of receipts stays as the one host thread wrote it.
LEMMA IndexedStep ==
  ASSUME OneHost, NoReceipt, Indexed, A!Next
  PROVE  Indexed'
<1>. USE DEF Indexed, A!Issued, A!Doing, OneHost
<1>1. ASSUME NEW h \in Hosts, NEW r \in A!Receipts, A!IssueCheck(h, r)
      PROVE  Indexed'
  <2>1. r # None
    BY <1>1 DEF A!Receipts, NoReceipt
  <2>2. /\ host' = [host EXCEPT ![h] = [doing |-> "insert", receipt |-> r]]
        /\ records' = records /\ r \notin DOMAIN records
        /\ A!Supersedable(r.supersedes)
        /\ host[h].doing = "nothing"
    BY <1>1 DEF A!IssueCheck
  <2>3. \A g \in Hosts : g = h /\ host'[g] = [doing |-> "insert", receipt |-> r]
    BY <2>2
  <2>4. A!Supersedable(r.supersedes)'
    BY <2>2 DEF A!Supersedable
  <2>. QED
    BY <2>1, <2>2, <2>3, <2>4
<1>2. ASSUME NEW h \in Hosts, A!IssueInsert(h)
      PROVE  Indexed'
  <2>. DEFINE r == host[h].receipt
  <2>1. /\ host[h].doing = "insert"
        /\ r # None /\ r \notin DOMAIN records /\ A!Supersedable(r.supersedes)
        /\ \A g \in Hosts : g = h
    BY <1>2 DEF A!IssueInsert
  <2>2. /\ DOMAIN records' = DOMAIN records \cup {r}
        /\ \A s \in DOMAIN records : records'[s] = records[s]
        /\ records'[r] = A!Fresh
    BY <1>2, <2>1 DEF A!IssueInsert
  <2>3. /\ DOMAIN host' = Hosts
        /\ r.supersedes = None => host'[h].doing = "nothing"
        /\ r.supersedes # None => host'[h].doing = "mark" /\ host'[h].receipt = r
    BY <1>2 DEF A!IssueInsert
  <2>4. \A s \in DOMAIN records' :
          records'[s] \in [current : BOOLEAN, revoked : BOOLEAN,
                           superseded_by : DOMAIN records' \cup {None}]
    <3>1. A!Fresh \in [current : BOOLEAN, revoked : BOOLEAN,
                       superseded_by : DOMAIN records' \cup {None}]
      BY DEF A!Fresh
    <3>2. \A s \in DOMAIN records :
            records[s] \in [current : BOOLEAN, revoked : BOOLEAN,
                            superseded_by : DOMAIN records' \cup {None}]
      BY <2>2
    <3>. QED
      BY <2>2, <3>1, <3>2
  <2>5. \A s \in DOMAIN records : s.supersedes # None =>
          s.supersedes \in DOMAIN records /\ ~records[s.supersedes].current
    BY <2>1
  <2>6. r.supersedes # None =>
          /\ r.supersedes \in DOMAIN records
          /\ records[r.supersedes].current
    BY <2>1 DEF A!Supersedable
  <2>. HIDE DEF r
  <2>7. None \notin DOMAIN records'
    BY <2>1, <2>2
  <2>8. \A s \in DOMAIN records' : s.supersedes # None =>
          /\ s.supersedes \in DOMAIN records'
          /\ \/ ~records'[s.supersedes].current
             \/ \E g \in Hosts : host'[g].doing = "mark" /\ host'[g].receipt = s
    BY <2>2, <2>3, <2>5, <2>6
  <2>9. \A s, u \in DOMAIN records' :
          s.supersedes # None /\ s.supersedes = u.supersedes => s = u
    BY <2>2, <2>5, <2>6
  <2>10. \A g \in Hosts : host'[g].doing # "insert"
    BY <2>1, <2>3
  <2>11. \A g \in Hosts : host'[g].doing = "mark" =>
           host'[g].receipt \in DOMAIN records' /\ host'[g].receipt.supersedes # None
    BY <2>1, <2>2, <2>3
  <2>. QED
    BY <2>3, <2>4, <2>7, <2>8, <2>9, <2>10, <2>11
<1>3. ASSUME NEW h \in Hosts, A!IssueMark(h)
      PROVE  Indexed'
  <2>. DEFINE r == host[h].receipt
              x == r.supersedes
  <2>1. /\ r \in DOMAIN records /\ x # None /\ x \in DOMAIN records
        /\ \A g \in Hosts : g = h
    BY <1>3 DEF A!IssueMark
  <2>2. /\ DOMAIN records' = DOMAIN records
        /\ \A s \in DOMAIN records : s # x => records'[s] = records[s]
        /\ records'[x] = [current |-> FALSE, revoked |-> records[x].revoked,
                          superseded_by |-> r]
    <3>1. /\ records[x].revoked \in BOOLEAN
          /\ DOMAIN records[x] = {"current", "revoked", "superseded_by"}
      BY <2>1
    <3>2. records' = [records EXCEPT ![x] =
                        [[records[x] EXCEPT !.current = FALSE] EXCEPT !.superseded_by = r]]
      BY <1>3, <2>1 DEF A!IssueMark
    <3>. DEFINE new == [[records[x] EXCEPT !.current = FALSE] EXCEPT !.superseded_by = r]
    <3>3. /\ new = [f \in {"current", "revoked", "superseded_by"} |-> new[f]]
          /\ new["current"] = FALSE /\ new["revoked"] = records[x].revoked
          /\ new["superseded_by"] = r
      BY <3>1
    <3>. HIDE DEF new
    <3>4. new = [current |-> FALSE, revoked |-> records[x].revoked, superseded_by |-> r]
      BY ONLY <3>3
    <3>. QED
      BY <2>1, <3>2, <3>4 DEF new
  <2>3. DOMAIN host' = Hosts /\ host'[h].doing = "nothing"
    BY <1>3 DEF A!IssueMark
  <2>4. \A s \in DOMAIN records : s.supersedes # None =>
          s.supersedes \in DOMAIN records /\ ~records'[s.supersedes].current
    BY <2>1, <2>2
  <2>. HIDE DEF r, x
  <2>5. \A s \in DOMAIN records' :
          records'[s] \in [current : BOOLEAN, revoked : BOOLEAN,
                           superseded_by : DOMAIN records' \cup {None}]
    <3>1. records[x].revoked \in BOOLEAN /\ r \in DOMAIN records' \cup {None}
      BY <2>1, <2>2
    <3>2. records'[x] \in [current : BOOLEAN, revoked : BOOLEAN,
                           superseded_by : DOMAIN records' \cup {None}]
      BY ONLY <2>2, <3>1
    <3>. QED
      BY <2>2, <3>2
  <2>. QED
    BY <2>1, <2>2, <2>3, <2>4, <2>5
<1>4. ASSUME NEW h \in Hosts, NEW r \in A!Issued, A!Revoke(h, r)
      PROVE  Indexed'
  <2>1. host[h].doing = "nothing" /\ host' = host /\ \A g \in Hosts : g = h
    BY <1>4 DEF A!Revoke
  <2>2. /\ DOMAIN records' = DOMAIN records
        /\ \A s \in DOMAIN records : s # r => records'[s] = records[s]
        /\ records'[r] = [current |-> FALSE, revoked |-> TRUE,
                          superseded_by |-> records[r].superseded_by]
    <3>1. /\ records[r].superseded_by \in A!Issued \cup {None}
          /\ DOMAIN records[r] = {"current", "revoked", "superseded_by"}
      OBVIOUS
    <3>2. records' = [records EXCEPT ![r] =
                        [[records[r] EXCEPT !.revoked = TRUE] EXCEPT !.current = FALSE]]
      BY <1>4 DEF A!Revoke
    <3>. DEFINE new == [[records[r] EXCEPT !.revoked = TRUE] EXCEPT !.current = FALSE]
    <3>3. /\ new = [f \in {"current", "revoked", "superseded_by"} |-> new[f]]
          /\ new["current"] = FALSE /\ new["revoked"] = TRUE
          /\ new["superseded_by"] = records[r].superseded_by
      BY <3>1
    <3>. HIDE DEF new
    <3>4. new = [current |-> FALSE, revoked |-> TRUE,
                 superseded_by |-> records[r].superseded_by]
      BY ONLY <3>3
    <3>. QED
      BY <3>2, <3>4 DEF new
  <2>3. \A s \in DOMAIN records' :
          records'[s] \in [current : BOOLEAN, revoked : BOOLEAN,
                           superseded_by : DOMAIN records' \cup {None}]
    <3>1. records[r].superseded_by \in DOMAIN records' \cup {None}
      BY <2>2
    <3>2. records'[r] \in [current : BOOLEAN, revoked : BOOLEAN,
                           superseded_by : DOMAIN records' \cup {None}]
      BY ONLY <2>2, <3>1
    <3>. QED
      BY <2>2, <3>2
  <2>4. \A s \in DOMAIN records : s.supersedes # None =>
          s.supersedes \in DOMAIN records /\ ~records'[s.supersedes].current
    BY <2>1, <2>2
  <2>. QED
    BY <2>1, <2>2, <2>3, <2>4
<1>5. CASE A!Tick
  BY <1>5 DEF A!Tick, A!Supersedable
<1>. QED
  BY <1>1, <1>2, <1>3, <1>4, <1>5 DEF A!Next

\* What the host does never makes a receipt stand again.
LEMMA StandsFalls ==
  ASSUME Indexed, A!Next, receipt \in A!Issued \cup {None}, receipt' = receipt,
         receipt # None, A!Stands(receipt)'
  PROVE  A!Stands(receipt)
<1>. USE DEF Indexed, A!Issued, A!Stands
<1>1. ASSUME NEW h \in Hosts, NEW s \in A!Receipts, A!IssueCheck(h, s)
      PROVE  A!Stands(receipt)
  BY <1>1 DEF A!IssueCheck
<1>2. ASSUME NEW h \in Hosts, A!IssueInsert(h)
      PROVE  A!Stands(receipt)
  BY <1>2 DEF A!IssueInsert
<1>3. ASSUME NEW h \in Hosts, A!IssueMark(h)
      PROVE  A!Stands(receipt)
  BY <1>3 DEF A!IssueMark
<1>4. ASSUME NEW h \in Hosts, NEW s \in A!Issued, A!Revoke(h, s)
      PROVE  A!Stands(receipt)
  BY <1>4 DEF A!Revoke
<1>5. CASE A!Tick
  BY <1>5 DEF A!Tick
<1>. QED
  BY <1>1, <1>2, <1>3, <1>4, <1>5 DEF A!Next

\* Receipts are never taken out of the index.
LEMMA IssuedStay ==
  ASSUME A!Next
  PROVE  A!Issued \subseteq A!Issued'
BY DEF A!Next, A!IssueCheck, A!IssueInsert, A!IssueMark, A!Revoke, A!Tick, A!Issued

\* Copies begin only under an open gate, and only before anything is created.
LEMMA ApplyGoesOn ==
  ASSUME IInv, ApplyStep, pc # "review", pc' = "copy"
  PROVE  created' # <<>>
<1>1. CASE RecheckCopy
  <2>1. created' = Append(created, Head(todo)) /\ created \in Seq(CopySet)
    BY <1>1 DEF RecheckCopy, Goto, IInv, TypeOK
  <2>2. todo # <<>> /\ todo \in Seq(CopySet)
    BY <1>1 DEF RecheckCopy, IInv, TypeOK, Copied
  <2>3. Head(todo) \in CopySet
    BY <2>2
  <2>. QED
    BY <2>1, <2>3
<1>2. CASE Restore \/ Return
  BY <1>2 DEF Restore, Return, Goto, IInv, Control
<1>3. CASE ~(RecheckCopy \/ Restore \/ Return)
  BY <1>3 DEF ApplyStep, Review, PublishCopy, StageConfig, Expect, MoveAside,
      CheckGuard, Swap, CheckSwap, CheckSwapAgain, Verify, Finalize, Drop,
      Entomb, CheckTomb, WithholdTomb, Revert, WithholdBoth, DeleteTomb,
      SkipRollback, RemoveCopy, Report, Restoring, Goto
<1>. QED
  BY <1>1, <1>2, <1>3

\* A receipt that stands when the gate opens stood when the plan was checked.
LEMMA StoodStep ==
  ASSUME IInv, Gated, Indexed, Indexed', Stood,
         [GatedNext]_<<vars, tool, authority, parents, stood>>
  PROVE  Stood'
<1>. USE DEF Stood, tool, authority
<1>1. CASE Call
  BY <1>1 DEF Call, A!Issued
<1>2. CASE VerifyBinding
  BY <1>2 DEF VerifyBinding, Refuse, A!Issued, A!Stands, fs
<1>3. CASE VerifyStanding
  BY <1>3 DEF VerifyStanding, Refuse, A!Issued, A!Stands, fs
<1>4. CASE GatedReview
  BY <1>4 DEF GatedReview, A!Issued, A!Stands
<1>5. CASE GatedApply
  <2>1. pc' = "copy" => created' # <<>>
    BY <1>5, ApplyGoesOn DEF GatedApply
  <2>2. gate \in {"open", "refused"} /\ UNCHANGED <<gate, receipt, records>>
    BY <1>5 DEF GatedApply
  <2>. QED
    BY <2>1, <2>2 DEF A!Issued
<1>6. CASE (Crash \/ SecureUserStep) /\ UNCHANGED <<tool, authority, parents, stood>>
  <2>1. pc' = "dead" \/ UNCHANGED <<pc, created>>
    BY <1>6 DEF Crash, Goto, SecureUserStep, Save, Remove
  <2>. QED
    BY <1>6, <2>1 DEF A!Issued, A!Stands
<1>7. CASE A!Next /\ UNCHANGED <<vars, tool, parents, stood>>
  <2>1. A!Issued \subseteq A!Issued'
    BY <1>7, IssuedStay
  <2>2. receipt # None /\ A!Stands(receipt)' => A!Stands(receipt)
    BY <1>7, StandsFalls
  <2>3. receipt = None => ~A!Stands(receipt)'
    BY <1>7 DEF A!Stands, Indexed, A!Issued
  <2>. QED
    BY <1>7, <2>1, <2>2, <2>3 DEF vars
<1>8. CASE UNCHANGED <<vars, tool, authority, parents, stood>>
  BY <1>8 DEF vars, A!Issued, A!Stands
<1>9. CASE gate = "none" /\ UNCHANGED <<tool, authority>>
  BY <1>9 DEF A!Issued
<1>. QED
  BY <1>1, <1>2, <1>3, <1>4, <1>5, <1>6, <1>7, <1>8, <1>9 DEF GatedNext, SecureNext

AInv == GInv /\ Indexed /\ Stood

\* What the theorems on approvals rest on.
LEMMA ApprovalInvariance ==
  ASSUME OneHost, NoReceipt
  PROVE  GatedSpec => []AInv
<1>1. GatedInit => Indexed /\ Stood
  BY DEF GatedInit, A!Init, Indexed, Stood, A!Issued, A!Stands, A!Supersedable
<1>2. AInv /\ [GatedNext]_<<vars, tool, authority, parents, stood>> => Indexed'
  <2>. SUFFICES ASSUME AInv, [GatedNext]_<<vars, tool, authority, parents, stood>>
                PROVE  Indexed'
    OBVIOUS
  <2>1. A!Next \/ UNCHANGED <<records, host>>
    BY DEF GatedNext, SecureNext, Call, VerifyBinding, VerifyStanding, GatedReview,
        GatedApply, authority
  <2>2. CASE A!Next
    BY <2>2, IndexedStep DEF AInv
  <2>3. CASE UNCHANGED <<records, host>>
    BY <2>3 DEF AInv, Indexed, A!Issued, A!Supersedable
  <2>. QED
    BY <2>1, <2>2, <2>3
<1>3. AInv /\ [GatedNext]_<<vars, tool, authority, parents, stood>> => Stood'
  BY <1>2, StoodStep DEF AInv, GInv
<1>. QED
  BY <1>1, <1>2, <1>3, GatedInvariance, PTL DEF GatedSpec, AInv

\* Of the approvals that supersede one another the last alone can stand, once
\* the host has returned from issuing it, if one thread of the host issues.
THEOREM OneApprovalStands ==
  ASSUME OneHost, NoReceipt
  PROVE  GatedSpec => []OneSuccessor
<1>1. AInv => OneSuccessor
  BY DEF AInv, Indexed, OneSuccessor, A!OneSuccessor, A!Stands, A!Issued
<1>. QED
  BY <1>1, ApprovalInvariance, PTL

\* Nothing is published on an approval that was revoked or superseded before
\* apply_structure_plan's own checks were over.
THEOREM ApprovedWhenPublished ==
  ASSUME OneHost, NoReceipt
  PROVE  GatedSpec => FirstPublicationApproved
<1>. DEFINE Approved == gate # "none" /\ Publishes /\ created = <<>> /\ pc = "copy"
                          => stood
<1>1. AInv /\ [GatedNext]_<<vars, tool, authority, parents, stood>>
        => [Approved]_<<vars, tool, authority>>
  <2>. SUFFICES ASSUME AInv, [GatedNext]_<<vars, tool, authority, parents, stood>>,
                       gate # "none", Publishes, created = <<>>, pc = "copy"
                PROVE  gate = "open"
    BY DEF AInv, Stood
  <2>1. PICK n \in Public : name[n] = None /\ name'[n] \in {New} \cup CopySet
    BY DEF Publishes
  <2>2. n \in Names /\ None \notin {New} \cup CopySet
    BY <2>1, DistinctAssumption DEF Names
  <2>3. ~UNCHANGED name
    BY <2>1, <2>2
  <2>4. ~SecureUserStep
    <3>1. SUFFICES ASSUME NEW m \in Public, Save(m) \/ Remove(m)
                   PROVE  FALSE
      BY DEF SecureUserStep
    <3>2. name'[n] \in {name[n], None, meddling + 1}
      BY <2>2, <3>1 DEF Save, Remove, Without, Meddle, AInv, GInv, IInv, TypeOK
    <3>3. meddling + 1 \in Nat
      BY DEF AInv, GInv, IInv, TypeOK
    <3>. QED
      BY <2>1, <2>2, <3>2, <3>3, DistinctAssumption
  <2>5. GatedApply
    BY <2>3, <2>4 DEF GatedNext, SecureNext, Call, VerifyBinding, VerifyStanding,
        GatedReview, Review, Crash, vars, fs
  <2>. QED
    BY <2>5 DEF GatedApply, AInv, GInv, Gated
<1>. QED
  BY <1>1, ApprovalInvariance, PTL DEF GatedSpec, FirstPublicationApproved, Approved

=============================================================================
