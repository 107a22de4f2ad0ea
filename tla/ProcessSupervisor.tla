-------------------------- MODULE ProcessSupervisor --------------------------
(***************************************************************************)
(* supervise_process (hub_core/process_supervisor.py): one script is run   *)
(* under a deadline.  It may start processes of its own; they share its    *)
(* output pipe unless they let go of it, and its process group (on         *)
(* Windows: its job object) unless they leave.  A thread drains the pipe.  *)
(* At the deadline the group is terminated, politely, then by force; what  *)
(* was learnt is returned as one verdict.                                  *)
(*                                                                         *)
(* Time is abstract: the deadline passes at some moment, and a wait for a  *)
(* grace period may end whether or not what it waits for has happened.     *)
(***************************************************************************)
EXTENDS Naturals, FiniteSets

CONSTANTS
  Depth,      \* bound: processes are 0 (the script) and 1..Depth, in the order
              \* in which they are started
  MaxWrites,  \* bound: pieces of output written
  Capacity    \* pieces the pipe holds

ASSUME BoundsAssumption == Depth \in Nat /\ MaxWrites \in Nat /\ Capacity \in Nat

VARIABLES
  windows,    \* is the tree contained by a job object, or by a process group?
  pc,         \* where the supervisor is
  proc,       \* proc[p]: unborn, live, dying (a fatal signal is pending), dead
  contained,  \* processes in the group or the job
  holders,    \* processes that hold the pipe's writing end
  code,       \* the script's exit code: 0, 1 (any other) or none
  reaped,     \* has the supervisor learnt it?
  written,    \* pieces written to the pipe
  taken,      \* pieces the drain thread has read
  drain,      \* the drain thread: none, idle, reading (it holds the buffer's
              \* lock), done (end of file) or failed (an exception)
  closed,     \* has the supervisor closed its end of the pipe?
  late,       \* has the deadline passed?
  timed_out,  \* the verdict so far
  failure,
  fault       \* history: a call of the operating system failed

env     == <<windows, late>>
tree    == <<proc, contained, holders, code>>
pipe    == <<written, taken, drain>>
verdict == <<reaped, closed, timed_out, failure, fault>>
vars    == <<pc, env, tree, pipe, verdict>>

Procs == 0..Depth
Live  == {p \in Procs : proc[p] = "live"}
Dead  == {p \in Procs : proc[p] = "dead"}
Unborn == {p \in Procs : proc[p] = "unborn"}
Phases == {"popen", "assign", "wait", "join", "terminate", "grace", "reap",
           "fallback", "last_join", "close", "close_join", "verdict",
           "returned", "raised"}

\* The group exists while it has a member that is not dead, or a leader that
\* nobody has waited for.
GroupExists == (contained \cap Procs) \ (Dead \cup Unborn) # {} \/ ~reaped
Draining    == drain \in {"idle", "reading"}

Init ==
  /\ windows \in BOOLEAN
  /\ pc = "popen"
  /\ proc = [p \in Procs |-> "unborn"]
  /\ contained = {} /\ holders = {}
  /\ code = "none" /\ reaped = FALSE
  /\ written = 0 /\ taken = 0 /\ drain = "none" /\ closed = FALSE
  /\ late = FALSE /\ timed_out = FALSE /\ failure = FALSE /\ fault = FALSE

-----------------------------------------------------------------------------
(* The script and what it starts.                                          *)

Start(p, members, pipes) ==
  /\ proc' = [proc EXCEPT ![p] = "live"]
  /\ contained' = members /\ holders' = pipes
  /\ UNCHANGED code

Fork(p, q) ==
  /\ p \in Live
  /\ q \in Unborn /\ \A r \in Unborn : q <= r
  /\ Start(q, IF p \in contained THEN contained \cup {q} ELSE contained,
              IF p \in holders THEN holders \cup {q} ELSE holders)
  /\ UNCHANGED <<pc, pipe, env, verdict>>

\* setsid: the script itself is a leader already.  A Windows job is not left.
Leave(p) ==
  /\ ~windows /\ p \in Live \cap contained /\ p # 0
  /\ contained' = contained \ {p}
  /\ UNCHANGED <<pc, proc, holders, code, pipe, env, verdict>>

LetGo(p) ==
  /\ p \in Live \cap holders
  /\ holders' = holders \ {p}
  /\ UNCHANGED <<pc, proc, contained, code, pipe, env, verdict>>

Write(p) ==
  /\ p \in Live \cap holders
  /\ written < MaxWrites /\ written - taken < Capacity
  /\ written' = written + 1
  /\ UNCHANGED <<pc, tree, taken, drain, env, verdict>>

Ends(p, codes) ==
  /\ proc' = [proc EXCEPT ![p] = "dead"]
  /\ holders' = holders \ {p}
  /\ IF p = 0 THEN \E n \in codes : code' = n ELSE UNCHANGED code
  /\ UNCHANGED <<pc, contained, pipe, env, verdict>>

Exit(p) == p \in Live /\ Ends(p, {"0", "1"})

\* A pending signal takes effect; a handler of SIGTERM may still exit with 0.
Die(p) == proc[p] = "dying" /\ Ends(p, {"0", "1"})

Deadline ==
  /\ pc \notin {"popen", "assign"} /\ ~late
  /\ late' = TRUE
  /\ UNCHANGED <<pc, windows, tree, pipe, verdict>>

-----------------------------------------------------------------------------
(* The drain thread.                                                       *)

\* The next read takes the buffer's lock, or finds the file closed.
DrainReads ==
  /\ drain = "idle"
  /\ drain' = IF closed THEN "failed" ELSE "reading"
  /\ UNCHANGED <<pc, tree, written, taken, env, verdict>>

\* Bytes arrive and are handed to on_output, or do not decode.
DrainTakes ==
  /\ drain = "reading" /\ taken < written
  /\ taken' = taken + 1
  /\ drain' \in {"idle", "failed"}
  /\ UNCHANGED <<pc, tree, written, env, verdict>>

DrainEnds ==
  /\ drain = "reading" /\ taken = written /\ holders = {}
  /\ drain' = "done"
  /\ UNCHANGED <<pc, tree, written, taken, env, verdict>>

Drain == DrainReads \/ DrainTakes \/ DrainEnds

-----------------------------------------------------------------------------
(* supervise_process.                                                      *)

Goto(ph) == pc' = ph

\* A fatal signal for a set of processes.
Kill(S) ==
  proc' = [p \in Procs |-> IF p \in S \cap Live THEN "dying" ELSE proc[p]]

\* Popen: on POSIX the script leads a new session; on Windows it is put into
\* the job after it was started, so what it starts before is not in the job.
Popen ==
  /\ pc = "popen"
  /\ \/ /\ Start(0, IF windows THEN {} ELSE {0}, {0})
        /\ Goto(IF windows THEN "assign" ELSE "wait")
        /\ drain' = IF windows THEN "none" ELSE "idle"
        /\ UNCHANGED <<written, taken, env, verdict>>
     \/ /\ Goto("raised")
        /\ UNCHANGED <<tree, pipe, env, verdict>>

Assign ==
  /\ pc = "assign" /\ proc[0] = "live"
  /\ contained' = contained \cup {0}
  /\ drain' = "idle"
  /\ Goto("wait")
  /\ UNCHANGED <<proc, holders, code, written, taken, env, verdict>>

\* The assignment fails: taskkill, and the failure is the verdict; nobody has
\* read the pipe.
AssignFails ==
  /\ pc = "assign"
  /\ failure' = TRUE /\ fault' = TRUE
  /\ Goto("fallback")
  /\ UNCHANGED <<tree, pipe, env, reaped, closed, timed_out>>

\* Mutant: a script that has ended is not asked about its output's readers.
WaitExitsAlone ==
  /\ pc = "wait" /\ proc[0] = "dead"
  /\ reaped' = TRUE
  /\ Goto("verdict")
  /\ UNCHANGED <<tree, pipe, env, closed, timed_out, failure, fault>>

\* process.wait until the deadline.
WaitExits ==
  /\ pc = "wait" /\ proc[0] = "dead"
  /\ reaped' = TRUE
  /\ Goto("join")
  /\ UNCHANGED <<tree, pipe, env, closed, timed_out, failure, fault>>

WaitExpires ==
  /\ pc = "wait" /\ late
  /\ timed_out' = TRUE
  /\ Goto("terminate")
  /\ UNCHANGED <<tree, pipe, env, reaped, closed, failure, fault>>

\* Mutant: the join does not wait.
JoinExpiresAtOnce ==
  /\ pc = "join" /\ Draining
  /\ timed_out' = TRUE
  /\ Goto("terminate")
  /\ UNCHANGED <<tree, pipe, env, reaped, closed, failure, fault>>

\* Mutant: the script is gone, so nothing is terminated.
JoinExpiresIdly ==
  /\ pc = "join" /\ late /\ Draining
  /\ timed_out' = TRUE
  /\ Goto("last_join")
  /\ UNCHANGED <<tree, pipe, env, reaped, closed, failure, fault>>

\* drain_thread.join until the deadline: the script is gone, but somebody may
\* still hold its pipe.
JoinEnds ==
  /\ pc = "join" /\ ~Draining
  /\ Goto("last_join")
  /\ UNCHANGED <<tree, pipe, env, verdict>>

JoinExpires ==
  /\ pc = "join" /\ late /\ Draining
  /\ timed_out' = TRUE
  /\ Goto("terminate")
  /\ UNCHANGED <<tree, pipe, env, reaped, closed, failure, fault>>

\* The operating system refuses a signal: a failure is all that is left.
Refused ==
  /\ GroupExists
  /\ failure' = TRUE /\ fault' = TRUE
  /\ Goto("last_join")
  /\ UNCHANGED <<tree, pipe, env, reaped, closed, timed_out>>

\* _terminate_posix_tree: SIGTERM to the group, if there still is one; any of
\* its members may ignore it.
Terminate ==
  /\ pc = "terminate" /\ ~windows
  /\ \/ /\ \E S \in SUBSET contained : Kill(S)
        /\ Goto("grace")
        /\ UNCHANGED <<contained, holders, code, pipe, env, verdict>>
     \/ Refused

\* Mutant: SIGKILL goes to the script alone.
GraceExpiresAlone ==
  /\ pc = "grace" /\ GroupExists
  /\ Kill({0})
  /\ Goto("reap")
  /\ UNCHANGED <<contained, holders, code, pipe, env, verdict>>

\* The group is polled until it is gone; one that outlives the grace period is
\* sent SIGKILL.
GraceEnds ==
  /\ pc = "grace" /\ ~GroupExists
  /\ Goto("reap")
  /\ UNCHANGED <<tree, pipe, env, verdict>>

GraceExpires ==
  /\ pc = "grace" /\ GroupExists
  /\ \/ /\ Kill(contained)
        /\ Goto("reap")
        /\ UNCHANGED <<contained, holders, code, pipe, env, verdict>>
     \/ Refused

\* _terminate_windows_tree: closing the job kills what is in it.
TerminateJob ==
  /\ pc = "terminate" /\ windows
  /\ \/ /\ Kill(contained)
        /\ Goto("reap")
        /\ UNCHANGED <<contained, holders, code, pipe, env, verdict>>
     \/ /\ failure' = TRUE /\ fault' = TRUE
        /\ Goto("fallback")
        /\ UNCHANGED <<tree, pipe, env, reaped, closed, timed_out>>

\* process.wait for a grace period.
Reap ==
  /\ pc = "reap"
  /\ \/ /\ proc[0] = "dead"
        /\ reaped' = TRUE
        /\ Goto("last_join")
        /\ UNCHANGED <<tree, failure>>
     \/ /\ proc[0] # "dead"
        /\ failure' = TRUE
        /\ Goto(IF windows THEN "fallback" ELSE "last_join")
        /\ UNCHANGED <<tree, reaped>>
  /\ UNCHANGED <<pipe, env, closed, timed_out, fault>>

\* taskkill /T and process.kill: some of the processes the script started,
\* and the script unless that fails too; it is waited for.
Fallback ==
  /\ pc = "fallback"
  /\ \E S \in SUBSET Live : Kill(S)
  /\ reaped' = (proc[0] = "dead")
  /\ Goto(IF drain = "none" THEN "returned" ELSE "last_join")
  /\ UNCHANGED <<contained, holders, code, pipe, env, closed,
                 timed_out, failure, fault>>

\* drain_thread.join for a grace period.
LastJoin ==
  /\ pc = "last_join"
  /\ Goto(IF Draining THEN "close" ELSE "verdict")
  /\ UNCHANGED <<tree, pipe, env, verdict>>

\* process.stdout.close() takes the buffer's lock: it waits for a reader that
\* is blocked in the pipe.
Close ==
  /\ pc = "close" /\ drain # "reading"
  /\ closed' = TRUE
  /\ Goto("close_join")
  /\ \/ UNCHANGED <<failure, fault>>
     \/ failure' = TRUE /\ fault' = TRUE
  /\ UNCHANGED <<tree, pipe, env, reaped, timed_out>>

CloseJoin ==
  /\ pc = "close_join"
  /\ failure' = (failure \/ Draining)
  /\ Goto("verdict")
  /\ UNCHANGED <<tree, pipe, env, reaped, closed, timed_out, fault>>

\* What went wrong with the output counts unless the deadline explains it; on
\* Windows the job is closed, which kills nobody.
Verdict ==
  /\ pc = "verdict"
  /\ \/ /\ failure' = (failure \/ (drain = "failed" /\ ~timed_out))
        /\ UNCHANGED fault
     \/ windows /\ failure' = TRUE /\ fault' = TRUE
  /\ Goto("returned")
  /\ UNCHANGED <<tree, pipe, env, reaped, closed, timed_out>>

Supervise ==
  \/ Popen \/ Assign \/ AssignFails
  \/ WaitExits \/ WaitExpires \/ JoinEnds \/ JoinExpires
  \/ Terminate \/ GraceEnds \/ GraceExpires \/ TerminateJob \/ Reap
  \/ Fallback \/ LastJoin \/ Close \/ CloseJoin \/ Verdict

Next ==
  \/ Supervise \/ Drain \/ Deadline
  \/ \E p \in Procs : Leave(p) \/ LetGo(p) \/ Write(p) \/ Exit(p) \/ Die(p)
  \/ \E p, q \in Procs : Fork(p, q)

Spec == Init /\ [][Next]_vars

\* The supervisor's own steps wait for nobody but a bounded time; the thread
\* is scheduled, the clock runs, and pending fatal signals take effect.  The
\* script and what it starts need not do anything, ever.
FairSpec ==
  /\ Spec
  /\ WF_vars(Supervise) /\ WF_vars(Drain) /\ WF_vars(Deadline)
  /\ \A p \in Procs : WF_vars(Die(p))

-----------------------------------------------------------------------------
(* Properties.                                                             *)

succeeded ==
  pc = "returned" /\ reaped /\ code = "0" /\ ~timed_out /\ ~failure

TypeOK ==
  /\ windows \in BOOLEAN
  /\ pc \in Phases
  /\ proc \in [Procs -> {"unborn", "live", "dying", "dead"}]
  /\ contained \subseteq Procs \ Unborn /\ holders \subseteq Procs \ Dead
  /\ code \in {"none", "0", "1"} /\ reaped \in BOOLEAN
  /\ written \in 0..MaxWrites /\ taken \in 0..written
  /\ drain \in {"none", "idle", "reading", "done", "failed"}
  /\ closed \in BOOLEAN /\ late \in BOOLEAN
  /\ timed_out \in BOOLEAN /\ failure \in BOOLEAN /\ fault \in BOOLEAN

\* A success is never reported early: all output has been handed on and none
\* can follow, whoever else was given the script's pipe.
SuccessIsComplete ==
  succeeded => taken = written /\ holders = {} /\ ~closed

\* After a timeout without failure nothing that stayed in the script's group
\* or job lives on, however it was started meanwhile and whatever it ignores:
\* it is dead or cannot do anything more, and the script has been waited for.
TimeoutContained ==
  pc = "returned" /\ timed_out /\ ~failure =>
    reaped /\ contained \cap Live = {}

\* A script that ends well and in time, with output that decodes and system
\* calls that work, is not failed by a race with the deadline's machinery.
GoodRunSucceeds ==
  pc = "returned" /\ ~late /\ reaped /\ code = "0" /\ drain = "done" /\ ~fault
    => succeeded

\* The supervisor is held up by nothing but a process that left the group (or
\* never was in the job) and keeps the pipe open, or by a signal the system
\* refuses: not by a script that ignores SIGTERM, forks while it is being
\* terminated, fills the pipe or closes it and runs on.
Outsiders == holders \ contained
ReturnsOnceReleased ==
  <>[](Outsiders = {} /\ ~fault) => <>(pc \in {"returned", "raised"})

\* The call returns, in bounded time.
Returns == <>(pc \in {"returned", "raised"})

=============================================================================
