------------------------ MODULE ProcessSupervisor_proofs ------------------------
(***************************************************************************)
(* What supervise_process promises, proved for every number of processes,  *)
(* every amount of output and every size of the pipe.                      *)
(*                                                                         *)
(* The argument is one about phases: what the supervisor has learnt when   *)
(* it is where it is (Phase), what the drain thread's end of file means    *)
(* (EndOfFile), why a verdict is a failure (Blame), and that a group with  *)
(* no live member cannot grow again (Contained).                           *)
(***************************************************************************)
EXTENDS ProcessSupervisor, TLAPS

\* Phases in which the deadline has already been reported.
Terminating == {"terminate", "grace", "reap"}

\* Phases between the supervisor's decision and its return.
Finishing == {"last_join", "close", "close_join", "verdict", "returned"}

\* What the supervisor knows from where it is.
Phase ==
  /\ pc \in {"popen", "raised"} => Unborn = Procs
  /\ pc \in {"popen", "raised", "assign", "wait", "join"} => ~timed_out /\ ~failure
  /\ pc \in Terminating => timed_out /\ ~failure
  /\ pc = "fallback" => failure
  /\ pc \in {"close", "close_join"} => timed_out \/ failure
  /\ drain = "none" =>
       \/ pc \in {"popen", "raised", "assign"}
       \/ pc \in {"fallback", "returned"} /\ failure
  /\ pc \in {"popen", "raised", "assign"} => drain = "none"
  /\ closed => timed_out \/ failure

\* An end of file: everything was read, and no process can write any more.
EndOfFile ==
  /\ drain = "done" => taken = written /\ holders = {}
  /\ pc \in {"last_join", "verdict"} /\ ~timed_out /\ ~failure =>
       drain \in {"done", "failed"}
  /\ pc = "returned" /\ ~timed_out /\ ~failure => drain = "done"

\* The deadline is never reported before it has passed, and every failure has
\* a cause.
Blame ==
  /\ timed_out => late
  /\ failure => fault \/ late \/ drain = "failed"

\* Once the group was sent its last signal it has no live member, and a dead
\* group starts nothing.
Contained ==
  /\ pc = "reap" => contained \cap Live = {}
  /\ pc \in Finishing /\ timed_out /\ ~failure =>
       reaped /\ contained \cap Live = {}

IInv == TypeOK /\ Phase /\ EndOfFile /\ Blame /\ Contained


USE BoundsAssumption DEF Procs, Live, Dead, Unborn, Phases, Terminating,
  Finishing, Draining, Goto, env, tree, pipe, verdict

-----------------------------------------------------------------------------
(* The processes' steps: whatever they do, the group's dead stay dead.      *)

\* A signal sets a process dying: the dead and the unborn are those they were.
LEMMA KillTypes ==
  ASSUME TypeOK, NEW S, Kill(S)
  PROVE  /\ proc' \in [Procs -> {"unborn", "live", "dying", "dead"}]
         /\ Dead' = Dead /\ Unborn' = Unborn
<1>1. proc \in [Procs -> {"unborn", "live", "dying", "dead"}]
  BY DEF TypeOK
<1>2. proc' = [p \in Procs |-> IF p \in S \cap Live THEN "dying" ELSE proc[p]]
  BY DEF Kill
<1>3. proc' \in [Procs -> {"unborn", "live", "dying", "dead"}]
  BY <1>1, <1>2
<1>4. ASSUME NEW p \in Procs
      PROVE  /\ proc'[p] = "dead" <=> proc[p] = "dead"
             /\ proc'[p] = "unborn" <=> proc[p] = "unborn"
  <2>1. CASE p \in S \cap Live
    BY <1>2, <2>1
  <2>2. CASE p \notin S \cap Live
    BY <1>2, <2>2
  <2>. QED
    BY <2>1, <2>2
<1>. QED
  BY <1>3, <1>4

\* Every step preserves the types.
LEMMA TypeStep ==
  ASSUME TypeOK, [Next]_vars
  PROVE  TypeOK'
<1> USE DEF TypeOK
<1>1. CASE Popen
  <2>1. CASE pc' = "raised"
    BY ZenonT(60), <1>1, <2>1 DEF Popen, Start
  <2>2. CASE pc' # "raised"
    <3>1. 0 \in Procs
      OBVIOUS
    <3>2. proc' = [proc EXCEPT ![0] = "live"] /\ holders' = {0}
          /\ contained' \in {{}, {0}}
      BY <1>1, <2>2 DEF Popen, Start
    <3>3. proc' \in [Procs -> {"unborn", "live", "dying", "dead"}]
          /\ proc'[0] = "live"
      BY <3>1, <3>2
    <3>4. contained' \subseteq Procs \ Unborn' /\ holders' \subseteq Procs \ Dead'
      BY <3>1, <3>2, <3>3
    <3>5. QED
      BY <1>1, <2>2, <3>3, <3>4 DEF Popen, Start
  <2>3. QED
    BY <2>1, <2>2
<1>2. CASE Assign
  BY <1>2 DEF Assign
<1>3. CASE AssignFails
  BY <1>3 DEF AssignFails
<1>4. CASE WaitExits
  BY <1>4 DEF WaitExits
<1>5. CASE WaitExpires
  BY <1>5 DEF WaitExpires
<1>6. CASE JoinEnds
  BY <1>6 DEF JoinEnds
<1>7. CASE JoinExpires
  BY <1>7 DEF JoinExpires
<1>8. CASE Terminate
  <2>1. CASE Refused
    BY <1>8, <2>1 DEF Terminate, Refused
  <2>2. ASSUME NEW S \in SUBSET contained, Kill(S), ~Refused
        PROVE  TypeOK'
    <3>1. /\ proc' \in [Procs -> {"unborn", "live", "dying", "dead"}]
          /\ Dead' = Dead /\ Unborn' = Unborn
      BY <2>2, KillTypes
    <3>. QED
      BY ZenonT(60), <1>8, <2>2, <3>1 DEF Terminate
  <2>. QED
    BY <1>8, <2>1, <2>2 DEF Terminate
<1>9. CASE GraceEnds
  BY <1>9 DEF GraceEnds, GroupExists
<1>10. CASE GraceExpires
  <2>1. CASE ~Kill(contained)
    BY <1>10, <2>1 DEF GraceExpires, Refused
  <2>2. CASE Kill(contained)
    <3>1. /\ proc' \in [Procs -> {"unborn", "live", "dying", "dead"}]
          /\ Dead' = Dead /\ Unborn' = Unborn
      BY <2>2, KillTypes
    <3>. QED
      BY ZenonT(60), <1>10, <3>1 DEF GraceExpires, Refused
  <2>. QED
    BY <2>1, <2>2
<1>11. CASE TerminateJob
  <2>1. CASE ~Kill(contained)
    BY <1>11, <2>1 DEF TerminateJob
  <2>2. CASE Kill(contained)
    <3>1. /\ proc' \in [Procs -> {"unborn", "live", "dying", "dead"}]
          /\ Dead' = Dead /\ Unborn' = Unborn
      BY <2>2, KillTypes
    <3>. QED
      BY ZenonT(60), <1>11, <3>1 DEF TerminateJob
  <2>. QED
    BY <2>1, <2>2
<1>12. CASE Reap
  BY ZenonT(60), <1>12 DEF Reap
<1>13. CASE Fallback
  <2>1. PICK S \in SUBSET Live : Kill(S)
    BY <1>13 DEF Fallback
  <2>2. /\ proc' \in [Procs -> {"unborn", "live", "dying", "dead"}]
        /\ Dead' = Dead /\ Unborn' = Unborn
    BY <2>1, KillTypes
  <2>. QED
    BY <1>13, <2>2 DEF Fallback
<1>14. CASE LastJoin
  BY <1>14 DEF LastJoin
<1>15. CASE Close
  BY <1>15 DEF Close
<1>16. CASE CloseJoin
  BY <1>16 DEF CloseJoin
<1>17. CASE Verdict
  BY ZenonT(60), <1>17 DEF Verdict
<1>18. CASE DrainReads
  BY <1>18 DEF DrainReads
<1>19. CASE DrainTakes
  BY <1>19 DEF DrainTakes
<1>20. CASE DrainEnds
  BY <1>20 DEF DrainEnds
<1>21. CASE Deadline
  BY <1>21 DEF Deadline
<1>22. ASSUME NEW p \in Procs, Leave(p) PROVE TypeOK'
  BY <1>22 DEF Leave
<1>23. ASSUME NEW p \in Procs, LetGo(p) PROVE TypeOK'
  BY <1>23 DEF LetGo
<1>24. ASSUME NEW p \in Procs, Write(p) PROVE TypeOK'
  BY <1>24 DEF Write
<1>25. ASSUME NEW p \in Procs, Exit(p) PROVE TypeOK'
  BY <1>25 DEF Exit, Ends
<1>26. ASSUME NEW p \in Procs, Die(p) PROVE TypeOK'
  BY <1>26 DEF Die, Ends
<1>27. ASSUME NEW p \in Procs, NEW q \in Procs, Fork(p, q) PROVE TypeOK'
  BY <1>27 DEF Fork, Start
<1>28. CASE UNCHANGED vars
  BY <1>28 DEF vars
<1>29. QED
  BY <1>1, <1>2, <1>3, <1>4, <1>5, <1>6, <1>7, <1>8, <1>9, <1>10, <1>11,
     <1>12, <1>13, <1>14, <1>15, <1>16, <1>17, <1>18, <1>19, <1>20,
     <1>21, <1>22, <1>23, <1>24, <1>25, <1>26, <1>27, <1>28
  DEF Next, Supervise, Drain

\* Every step preserves what the supervisor knows from where it is.
LEMMA PhaseStep ==
  ASSUME TypeOK, Phase, EndOfFile, [Next]_vars
  PROVE  Phase'
<1> USE DEF TypeOK, Phase, EndOfFile
<1>1. CASE Popen
  BY <1>1 DEF Popen, Start
<1>2. CASE Assign
  BY <1>2 DEF Assign
<1>3. CASE AssignFails
  BY <1>3 DEF AssignFails
<1>4. CASE WaitExits
  BY <1>4 DEF WaitExits
<1>5. CASE WaitExpires
  BY <1>5 DEF WaitExpires
<1>6. CASE JoinEnds
  BY <1>6 DEF JoinEnds
<1>7. CASE JoinExpires
  BY <1>7 DEF JoinExpires
<1>8. CASE Terminate
  <2>1. \/ pc = "terminate" /\ pc' = "grace" /\ UNCHANGED <<pipe, env, verdict>>
        \/ pc = "terminate" /\ Refused
    BY ONLY <1>8 DEF Terminate, Goto
  <2>2. QED
    BY <2>1 DEF Refused
<1>9. CASE GraceEnds
  BY <1>9 DEF GraceEnds
<1>10. CASE GraceExpires
  <2>1. \/ pc = "grace" /\ pc' = "reap" /\ UNCHANGED <<pipe, env, verdict>>
        \/ pc = "grace" /\ Refused
    BY ONLY <1>10 DEF GraceExpires, Goto
  <2>2. QED
    BY <2>1 DEF Refused
<1>11. CASE TerminateJob
  <2>1. \/ pc = "terminate" /\ pc' = "reap" /\ UNCHANGED <<pipe, env, verdict>>
        \/ /\ pc = "terminate" /\ pc' = "fallback" /\ failure' /\ fault'
           /\ UNCHANGED <<pipe, env, reaped, closed, timed_out>>
    BY ONLY <1>11 DEF TerminateJob, Goto
  <2>2. QED
    BY <2>1
<1>12. CASE Reap
  BY <1>12 DEF Reap
<1>13. CASE Fallback
  BY <1>13 DEF Fallback
<1>14. CASE LastJoin
  BY <1>14 DEF LastJoin
<1>15. CASE Close
  BY <1>15 DEF Close
<1>16. CASE CloseJoin
  BY <1>16 DEF CloseJoin
<1>17. CASE Verdict
  BY <1>17 DEF Verdict
<1>18. CASE DrainReads
  BY <1>18 DEF DrainReads
<1>19. CASE DrainTakes
  BY <1>19 DEF DrainTakes
<1>20. CASE DrainEnds
  BY <1>20 DEF DrainEnds
<1>21. CASE Deadline
  BY <1>21 DEF Deadline
<1>22. ASSUME NEW p \in Procs, Leave(p) PROVE Phase'
  BY <1>22 DEF Leave
<1>23. ASSUME NEW p \in Procs, LetGo(p) PROVE Phase'
  BY <1>23 DEF LetGo
<1>24. ASSUME NEW p \in Procs, Write(p) PROVE Phase'
  BY <1>24 DEF Write
<1>25. ASSUME NEW p \in Procs, Exit(p) PROVE Phase'
  BY <1>25 DEF Exit, Ends
<1>26. ASSUME NEW p \in Procs, Die(p) PROVE Phase'
  BY <1>26 DEF Die, Ends
<1>27. ASSUME NEW p \in Procs, NEW q \in Procs, Fork(p, q) PROVE Phase'
  BY <1>27 DEF Fork, Start
<1>28. CASE UNCHANGED vars
  BY <1>28 DEF vars
<1>29. QED
  BY <1>1, <1>2, <1>3, <1>4, <1>5, <1>6, <1>7, <1>8, <1>9, <1>10, <1>11,
     <1>12, <1>13, <1>14, <1>15, <1>16, <1>17, <1>18, <1>19, <1>20,
     <1>21, <1>22, <1>23, <1>24, <1>25, <1>26, <1>27, <1>28
  DEF Next, Supervise, Drain

\* Every step preserves what an end of file means: no process that holds
\* nothing can get hold of the pipe.
LEMMA EndStep ==
  ASSUME TypeOK, Phase, EndOfFile, [Next]_vars
  PROVE  EndOfFile'
<1> USE DEF TypeOK, Phase, EndOfFile
<1>1. CASE Popen
  BY <1>1 DEF Popen, Start
<1>2. CASE Assign
  BY <1>2 DEF Assign
<1>3. CASE AssignFails
  BY <1>3 DEF AssignFails
<1>4. CASE WaitExits
  BY <1>4 DEF WaitExits
<1>5. CASE WaitExpires
  BY <1>5 DEF WaitExpires
<1>6. CASE JoinEnds
  BY <1>6 DEF JoinEnds
<1>7. CASE JoinExpires
  BY <1>7 DEF JoinExpires
<1>8. CASE Terminate
  BY <1>8 DEF Terminate, Kill, Refused, GroupExists
<1>9. CASE GraceEnds
  BY <1>9 DEF GraceEnds, GroupExists
<1>10. CASE GraceExpires
  BY <1>10 DEF GraceExpires, Kill, Refused, GroupExists
<1>11. CASE TerminateJob
  BY <1>11 DEF TerminateJob, Kill
<1>12. CASE Reap
  BY <1>12 DEF Reap
<1>13. CASE Fallback
  BY <1>13 DEF Fallback, Kill
<1>14. CASE LastJoin
  BY <1>14 DEF LastJoin
<1>15. CASE Close
  BY <1>15 DEF Close
<1>16. CASE CloseJoin
  BY <1>16 DEF CloseJoin
<1>17. CASE Verdict
  BY <1>17 DEF Verdict
<1>18. CASE DrainReads
  BY <1>18 DEF DrainReads
<1>19. CASE DrainTakes
  BY <1>19 DEF DrainTakes
<1>20. CASE DrainEnds
  BY <1>20 DEF DrainEnds
<1>21. CASE Deadline
  BY <1>21 DEF Deadline
<1>22. ASSUME NEW p \in Procs, Leave(p) PROVE EndOfFile'
  BY <1>22 DEF Leave
<1>23. ASSUME NEW p \in Procs, LetGo(p) PROVE EndOfFile'
  BY <1>23 DEF LetGo
<1>24. ASSUME NEW p \in Procs, Write(p) PROVE EndOfFile'
  BY <1>24 DEF Write
<1>25. ASSUME NEW p \in Procs, Exit(p) PROVE EndOfFile'
  BY <1>25 DEF Exit, Ends
<1>26. ASSUME NEW p \in Procs, Die(p) PROVE EndOfFile'
  BY <1>26 DEF Die, Ends
<1>27. ASSUME NEW p \in Procs, NEW q \in Procs, Fork(p, q) PROVE EndOfFile'
  BY <1>27 DEF Fork, Start
<1>28. CASE UNCHANGED vars
  BY <1>28 DEF vars
<1>29. QED
  BY <1>1, <1>2, <1>3, <1>4, <1>5, <1>6, <1>7, <1>8, <1>9, <1>10, <1>11,
     <1>12, <1>13, <1>14, <1>15, <1>16, <1>17, <1>18, <1>19, <1>20,
     <1>21, <1>22, <1>23, <1>24, <1>25, <1>26, <1>27, <1>28
  DEF Next, Supervise, Drain

\* Every step that blames has a reason.
LEMMA BlameStep ==
  ASSUME TypeOK, Phase, Blame, [Next]_vars
  PROVE  Blame'
<1> USE DEF TypeOK, Phase, Blame
<1>1. CASE Popen
  BY <1>1 DEF Popen, Start
<1>2. CASE Assign
  BY <1>2 DEF Assign
<1>3. CASE AssignFails
  BY <1>3 DEF AssignFails
<1>4. CASE WaitExits
  BY <1>4 DEF WaitExits
<1>5. CASE WaitExpires
  BY <1>5 DEF WaitExpires
<1>6. CASE JoinEnds
  BY <1>6 DEF JoinEnds
<1>7. CASE JoinExpires
  BY <1>7 DEF JoinExpires
<1>8. CASE Terminate
  <2>1. \/ pc = "terminate" /\ pc' = "grace" /\ UNCHANGED <<pipe, env, verdict>>
        \/ pc = "terminate" /\ Refused
    BY ONLY <1>8 DEF Terminate, Goto
  <2>2. QED
    BY <2>1 DEF Refused
<1>9. CASE GraceEnds
  BY <1>9 DEF GraceEnds
<1>10. CASE GraceExpires
  <2>1. \/ pc = "grace" /\ pc' = "reap" /\ UNCHANGED <<pipe, env, verdict>>
        \/ pc = "grace" /\ Refused
    BY ONLY <1>10 DEF GraceExpires, Goto
  <2>2. QED
    BY <2>1 DEF Refused
<1>11. CASE TerminateJob
  <2>1. \/ pc = "terminate" /\ pc' = "reap" /\ UNCHANGED <<pipe, env, verdict>>
        \/ /\ pc = "terminate" /\ pc' = "fallback" /\ failure' /\ fault'
           /\ UNCHANGED <<pipe, env, reaped, closed, timed_out>>
    BY ONLY <1>11 DEF TerminateJob, Goto
  <2>2. QED
    BY <2>1
<1>12. CASE Reap
  BY <1>12 DEF Reap
<1>13. CASE Fallback
  BY <1>13 DEF Fallback
<1>14. CASE LastJoin
  BY <1>14 DEF LastJoin
<1>15. CASE Close
  BY <1>15 DEF Close
<1>16. CASE CloseJoin
  BY <1>16 DEF CloseJoin
<1>17. CASE Verdict
  BY <1>17 DEF Verdict
<1>18. CASE DrainReads
  BY <1>18 DEF DrainReads
<1>19. CASE DrainTakes
  BY <1>19 DEF DrainTakes
<1>20. CASE DrainEnds
  BY <1>20 DEF DrainEnds
<1>21. CASE Deadline
  BY <1>21 DEF Deadline
<1>22. ASSUME NEW p \in Procs, Leave(p) PROVE Blame'
  BY <1>22 DEF Leave
<1>23. ASSUME NEW p \in Procs, LetGo(p) PROVE Blame'
  BY <1>23 DEF LetGo
<1>24. ASSUME NEW p \in Procs, Write(p) PROVE Blame'
  BY <1>24 DEF Write
<1>25. ASSUME NEW p \in Procs, Exit(p) PROVE Blame'
  BY <1>25 DEF Exit, Ends
<1>26. ASSUME NEW p \in Procs, Die(p) PROVE Blame'
  BY <1>26 DEF Die, Ends
<1>27. ASSUME NEW p \in Procs, NEW q \in Procs, Fork(p, q) PROVE Blame'
  BY <1>27 DEF Fork, Start
<1>28. CASE UNCHANGED vars
  BY <1>28 DEF vars
<1>29. QED
  BY <1>1, <1>2, <1>3, <1>4, <1>5, <1>6, <1>7, <1>8, <1>9, <1>10, <1>11,
     <1>12, <1>13, <1>14, <1>15, <1>16, <1>17, <1>18, <1>19, <1>20,
     <1>21, <1>22, <1>23, <1>24, <1>25, <1>26, <1>27, <1>28
  DEF Next, Supervise, Drain

\* Every step preserves that a group sent its last signal stays without a
\* live member.
LEMMA ContainedStep ==
  ASSUME TypeOK, Phase, Contained, [Next]_vars
  PROVE  Contained'
<1> USE DEF TypeOK, Phase, Contained
<1>1. CASE Popen
  BY <1>1 DEF Popen, Start
<1>2. CASE Assign
  BY <1>2 DEF Assign
<1>3. CASE AssignFails
  BY <1>3 DEF AssignFails
<1>4. CASE WaitExits
  BY <1>4 DEF WaitExits
<1>5. CASE WaitExpires
  BY <1>5 DEF WaitExpires
<1>6. CASE JoinEnds
  BY <1>6 DEF JoinEnds
<1>7. CASE JoinExpires
  BY <1>7 DEF JoinExpires
<1>8. CASE Terminate
  BY <1>8 DEF Terminate, Kill, Refused, GroupExists
<1>9. CASE GraceEnds
  BY <1>9 DEF GraceEnds, GroupExists
<1>10. CASE GraceExpires
  BY <1>10 DEF GraceExpires, Kill, Refused, GroupExists
<1>11. CASE TerminateJob
  BY <1>11 DEF TerminateJob, Kill
<1>12. CASE Reap
  BY <1>12 DEF Reap
<1>13. CASE Fallback
  BY <1>13 DEF Fallback, Kill
<1>14. CASE LastJoin
  BY <1>14 DEF LastJoin
<1>15. CASE Close
  BY <1>15 DEF Close
<1>16. CASE CloseJoin
  BY <1>16 DEF CloseJoin
<1>17. CASE Verdict
  BY <1>17 DEF Verdict
<1>18. CASE DrainReads
  BY <1>18 DEF DrainReads
<1>19. CASE DrainTakes
  BY <1>19 DEF DrainTakes
<1>20. CASE DrainEnds
  BY <1>20 DEF DrainEnds
<1>21. CASE Deadline
  BY <1>21 DEF Deadline
<1>22. ASSUME NEW p \in Procs, Leave(p) PROVE Contained'
  BY <1>22 DEF Leave
<1>23. ASSUME NEW p \in Procs, LetGo(p) PROVE Contained'
  BY <1>23 DEF LetGo
<1>24. ASSUME NEW p \in Procs, Write(p) PROVE Contained'
  BY <1>24 DEF Write
<1>25. ASSUME NEW p \in Procs, Exit(p) PROVE Contained'
  BY <1>25 DEF Exit, Ends
<1>26. ASSUME NEW p \in Procs, Die(p) PROVE Contained'
  BY <1>26 DEF Die, Ends
<1>27. ASSUME NEW p \in Procs, NEW q \in Procs, Fork(p, q) PROVE Contained'
  BY <1>27 DEF Fork, Start
<1>28. CASE UNCHANGED vars
  BY <1>28 DEF vars
<1>29. QED
  BY <1>1, <1>2, <1>3, <1>4, <1>5, <1>6, <1>7, <1>8, <1>9, <1>10, <1>11,
     <1>12, <1>13, <1>14, <1>15, <1>16, <1>17, <1>18, <1>19, <1>20,
     <1>21, <1>22, <1>23, <1>24, <1>25, <1>26, <1>27, <1>28
  DEF Next, Supervise, Drain

-----------------------------------------------------------------------------
(* The theorems.                                                           *)

\* All of it holds at the start, and always.
LEMMA Invariance == Spec => []IInv
<1>1. Init => IInv
  <2> SUFFICES ASSUME Init PROVE IInv
    OBVIOUS
  <2>1. TypeOK
    <3>1. proc \in [Procs -> {"unborn", "live", "dying", "dead"}]
      BY DEF Init
    <3>2. contained \subseteq Procs \ Unborn /\ holders \subseteq Procs \ Dead
      BY DEF Init
    <3>3. written \in 0..MaxWrites /\ taken \in 0..written
      BY DEF Init
    <3>4. QED
      BY <3>1, <3>2, <3>3 DEF Init, TypeOK
  <2>2. Phase /\ EndOfFile /\ Blame /\ Contained
    BY DEF Init, Phase, EndOfFile, Blame, Contained
  <2>3. QED
    BY <2>1, <2>2 DEF IInv
<1>2. IInv /\ [Next]_vars => IInv'
  BY TypeStep, PhaseStep, EndStep, BlameStep, ContainedStep DEF IInv
<1>3. QED
  BY <1>1, <1>2, PTL DEF Spec

\* The state of supervise_process, the tree and the pipe has its types: no
\* process is in the group or the job before it was started, and no dead one
\* holds the pipe.
THEOREM SupervisorTypes == Spec => []TypeOK
<1>1. IInv => TypeOK
  BY DEF IInv
<1>2. QED
  BY <1>1, Invariance, PTL

\* A success is complete: if supervise_process returns the exit code 0 with
\* neither a timeout nor a failure, all output has been handed on, the drain
\* thread came to the end of the file and nobody can write any more.
THEOREM SuccessComplete == Spec => []SuccessIsComplete
<1>1. IInv => SuccessIsComplete
  BY DEF IInv, Phase, EndOfFile, SuccessIsComplete, succeeded
<1>2. QED
  BY <1>1, Invariance, PTL

\* A timeout without failure is a clean one: whatever stayed in the script's
\* group or job, forked at any moment of the termination, is dead or has a
\* fatal signal pending, and the script has been waited for.
THEOREM TimeoutIsContained == Spec => []TimeoutContained
<1>1. IInv => TimeoutContained
  BY DEF IInv, Contained, TimeoutContained
<1>2. QED
  BY <1>1, Invariance, PTL

\* No race with the deadline's machinery fails a script that ended well and in
\* time: without a fault of the system, every blame needs the deadline or
\* output that does not decode.
THEOREM GoodRunsSucceed == Spec => []GoodRunSucceeds
<1>1. IInv => GoodRunSucceeds
  BY DEF IInv, Blame, TypeOK, GoodRunSucceeds, succeeded
<1>2. QED
  BY <1>1, Invariance, PTL

=============================================================================
