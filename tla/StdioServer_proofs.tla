-------------------------- MODULE StdioServer_proofs --------------------------
(***************************************************************************)
(* Proofs about the stdio server and the tool it runs that draws a figure  *)
(* from a table, for any messages, any number of calls, edits and kills.   *)
(*                                                                         *)
(* A reply can be believed because at most one living worker belongs to    *)
(* the server (Workers): what that worker has drawn is known from how far  *)
(* it got, and what the client is told from how far the handler got        *)
(* (Drawing).                                                              *)
(***************************************************************************)
EXTENDS StdioServer, SequenceTheorems, WellFoundedInduction, TLAPS

Unstarted == {"arguments", "contract", "exists", "clear", "copy", "start"}

Workers ==
  /\ \A c \in Calls : Alive(c) => c \in orphans \/ (c = calls /\ tool \in {"join", "reap"})
  /\ \A c \in Calls : c > calls \/ (c = calls /\ tool \in Unstarted) => worker[c] = NoWorker
  /\ \A c \in Calls : worker[c].at \in {"read", "half", "drawn"} => worker[c].of # Absent

\* The figure of the call that is being served.
Drawn == [by |-> calls, of |-> space.copy, whole |-> TRUE]
Done  == [by |-> calls, ok |-> TRUE]

\* What the one worker has done to the workspace that was made for it.
Worked ==
  /\ tool = "copy" => space = Absent
  /\ tool \in {"start", "join", "reap", "seal"} => space # Absent /\ space.man = Absent
  /\ tool \in {"start", "join", "seal"} => space.copy # Absent
  /\ tool = "join" =>
       /\ worker[calls].at \in {"read", "half", "drawn"} => worker[calls].of = space.copy
       /\ worker[calls].at = "drawn" => space.fig = Drawn
       /\ worker[calls].at = "tells" /\ worker[calls].of # Absent => space.fig = Drawn
       /\ worker[calls].at = "exited" /\ worker[calls].result = "ok" => space.fig = Drawn
  /\ tool = "seal" => space.fig = Drawn

\* What the handler has written of it.
Told ==
  /\ tool = "write" /\ verdict.ok =>
       /\ space # Absent /\ space.fig = Drawn
       /\ verdict = [by |-> calls, ok |-> TRUE, copy |-> space.copy, fig |-> space.fig]
       /\ stage > 1 => space.man = verdict
       /\ stage > 2 => space.sts = Done
       /\ stage > 3 => latest.man = Done
  /\ tool = "answer" /\ reply = "ok" =>
       /\ space.man = verdict /\ space.fig = verdict.fig /\ verdict.fig = Drawn
       /\ space.sts = Done /\ latest = [man |-> Done, sts |-> Done]
  /\ reply # "none" <=> tool = "answer"
  /\ space # Absent /\ space.man # Absent /\ space.man.ok =>
       space.fig \in {space.man.fig, Absent} /\ space.man.fig.whole

Drawing == orphans = {} => Worked /\ Told

CInv == CsvTypeOK /\ Workers /\ Drawing

CsvNext ==
  \/ \E o \in Orders : Begin(o)
  \/ Handle \/ Return \/ Abandon \/ EditTable
  \/ \E c \in Calls : WorkerStep(c)

\* Whatever the server and its client do is a step of the tool, or leaves it
\* alone.
LEMMA ServerIsCsv ==
  ASSUME [ServerNext]_serverVars
  PROVE  [CsvNext]_csvVars
<1>1. CASE ServerStep
  BY <1>1, ServerBounds DEF ServerStep, ReadMessage, ReadEnd, HandleEntry, CallTool,
    ToolReturns, WriteAnswer, CsvNext
<1>2. CASE \E m \in Messages : Send(m)
  BY <1>2 DEF Send
<1>3. CASE CloseInput \/ Kill \/ Restart
  BY <1>3 DEF CloseInput, Kill, Restart, CsvNext
<1>4. CASE EditTable \/ \E c \in Calls : WorkerStep(c)
  BY <1>4 DEF CsvNext
<1>5. CASE UNCHANGED serverVars
  BY <1>5 DEF serverVars
<1>. QED
  BY <1>1, <1>2, <1>3, <1>4, <1>5 DEF ServerNext

\* A workspace, and a worker, of which one thing changes.
LEMMA SpaceWith ==
  ASSUME NEW s \in Spaces
  PROVE  /\ \A x \in Contents \cup {Absent} :
              [s EXCEPT !.copy = x] = [copy |-> x, fig |-> s.fig, man |-> s.man, sts |-> s.sts]
         /\ \A x \in Figures \cup {Absent} :
              [s EXCEPT !.fig = x] = [copy |-> s.copy, fig |-> x, man |-> s.man, sts |-> s.sts]
         /\ \A x \in Manifests \cup {Absent} :
              [s EXCEPT !.man = x] = [copy |-> s.copy, fig |-> s.fig, man |-> x, sts |-> s.sts]
         /\ \A x \in Statuses \cup {Absent} :
              [s EXCEPT !.sts = x] = [copy |-> s.copy, fig |-> s.fig, man |-> s.man, sts |-> x]
BY DEF Spaces

\* One field of a worker set anew,
LEMMA ProcessAt ==
  ASSUME NEW w \in Processes, NEW a
  PROVE  [w EXCEPT !.at = a] = [at |-> a, of |-> w.of, result |-> w.result]
BY DEF Processes

\* as a whole record.
LEMMA WorkerAtWith ==
  ASSUME worker \in [Calls -> Processes], NEW c \in Calls, NEW a
  PROVE  [worker EXCEPT ![c].at = a] = [worker EXCEPT ![c] =
            [at |-> a, of |-> worker[c].of, result |-> worker[c].result]]
<1>0. worker[c] \in Processes
  OBVIOUS
<1>1. [worker EXCEPT ![c].at = a] = [worker EXCEPT ![c] = [worker[c] EXCEPT !.at = a]]
  OBVIOUS
<1>. QED
  BY <1>0, <1>1, ProcessAt

\* A worker that is written whole keeps the types, and the others.
LEMMA WorkerTyped ==
  ASSUME worker \in [Calls -> Processes], NEW c \in Calls,
         NEW a \in {"none", "started", "read", "half", "drawn", "tells", "exited", "killed"},
         NEW o \in Contents \cup {Absent}, NEW r \in {"none", "ok", "error"},
         worker' = [worker EXCEPT ![c] = [at |-> a, of |-> o, result |-> r]]
  PROVE  /\ worker' \in [Calls -> Processes]
         /\ worker'[c] = [at |-> a, of |-> o, result |-> r]
         /\ \A d \in Calls : d # c => worker'[d] = worker[d]
<1>1. [at |-> a, of |-> o, result |-> r] \in Processes
  BY DEF Processes
<1>. QED
  BY <1>1

\* What the fields of a worker may be.
LEMMA ProcessFields ==
  ASSUME worker \in [Calls -> Processes], NEW c \in Calls
  PROVE  /\ worker[c].at \in {"none", "started", "read", "half", "drawn", "tells",
                              "exited", "killed"}
         /\ worker[c].of \in Contents \cup {Absent}
         /\ worker[c].result \in {"none", "ok", "error"}
BY DEF Processes

\* What a step of a worker makes of it: it reads,
LEMMA WorkerReadsEffect ==
  ASSUME worker \in [Calls -> Processes], NEW c \in Calls, WorkerReads(c), space \in Spaces
  PROVE  /\ worker' \in [Calls -> Processes]
         /\ \A d \in Calls : d # c => worker'[d] = worker[d]
         /\ worker'[c] = [at |-> "read", of |-> space.copy, result |-> "none"]
<1>1. worker' = [worker EXCEPT ![c] =
                   [at |-> "read", of |-> space.copy, result |-> "none"]]
  BY DEF WorkerReads
<1>2. space.copy \in Contents \cup {Absent}
  BY DEF Spaces
<1>. QED
  BY <1>1, <1>2, WorkerTyped, ProcessFields

\* draws,
LEMMA WorkerDrawsEffect ==
  ASSUME worker \in [Calls -> Processes], NEW c \in Calls, WorkerDraws(c)
  PROVE  /\ worker' \in [Calls -> Processes]
         /\ \A d \in Calls : d # c => worker'[d] = worker[d]
         /\ worker'[c] = [at |-> "half", of |-> worker[c].of, result |-> worker[c].result]
<1>1. worker' = [worker EXCEPT ![c] =
                   [at |-> "half", of |-> worker[c].of, result |-> worker[c].result]]
  BY WorkerAtWith DEF WorkerDraws, WorkerAt
<1>. QED
  BY <1>1, WorkerTyped, ProcessFields

\* finishes,
LEMMA WorkerFinishesEffect ==
  ASSUME worker \in [Calls -> Processes], NEW c \in Calls, WorkerFinishes(c)
  PROVE  /\ worker' \in [Calls -> Processes]
         /\ \A d \in Calls : d # c => worker'[d] = worker[d]
         /\ worker'[c] = [at |-> "drawn", of |-> worker[c].of, result |-> worker[c].result]
<1>1. worker' = [worker EXCEPT ![c] =
                   [at |-> "drawn", of |-> worker[c].of, result |-> worker[c].result]]
  BY WorkerAtWith DEF WorkerFinishes, WorkerAt
<1>. QED
  BY <1>1, WorkerTyped, ProcessFields

\* dies,
LEMMA WorkerDiesEffect ==
  ASSUME worker \in [Calls -> Processes], NEW c \in Calls, WorkerDies(c)
  PROVE  /\ worker' \in [Calls -> Processes]
         /\ \A d \in Calls : d # c => worker'[d] = worker[d]
         /\ worker'[c] = [at |-> "killed", of |-> worker[c].of, result |-> worker[c].result]
<1>1. worker' = [worker EXCEPT ![c] =
                   [at |-> "killed", of |-> worker[c].of, result |-> worker[c].result]]
  BY WorkerAtWith DEF WorkerDies
<1>. QED
  BY <1>1, WorkerTyped, ProcessFields

\* writes its result
LEMMA WorkerTellsEffect ==
  ASSUME worker \in [Calls -> Processes], NEW c \in Calls, WorkerTells(c)
  PROVE  /\ worker' \in [Calls -> Processes]
         /\ \A d \in Calls : d # c => worker'[d] = worker[d]
         /\ worker'[c].at = "tells" /\ worker'[c].of \in {Absent, worker[c].of}
         /\ worker[c].at = "drawn" \/ worker'[c].of = Absent
<1>1. CASE WorkerAt(c, "drawn", "tells")
  <2>1. worker' = [worker EXCEPT ![c] =
                     [at |-> "tells", of |-> worker[c].of, result |-> worker[c].result]]
    BY <1>1, WorkerAtWith DEF WorkerAt
  <2>2. worker[c].at = "drawn"
    BY <1>1 DEF WorkerAt
  <2>. QED
    BY <2>1, <2>2, WorkerTyped, ProcessFields
<1>2. CASE worker' = [worker EXCEPT ![c] =
                        [at |-> "tells", of |-> Absent, result |-> "none"]]
  BY <1>2, WorkerTyped
<1>. QED
  BY <1>1, <1>2 DEF WorkerTells

\* and exits.
LEMMA WorkerExitsEffect ==
  ASSUME worker \in [Calls -> Processes], NEW c \in Calls, WorkerExits(c)
  PROVE  /\ worker' \in [Calls -> Processes]
         /\ \A d \in Calls : d # c => worker'[d] = worker[d]
         /\ worker'[c] = [at |-> "exited", of |-> worker[c].of,
                           result |-> IF worker[c].of = Absent THEN "error" ELSE "ok"]
<1>. DEFINE r == IF worker[c].of = Absent THEN "error" ELSE "ok"
<1>1. worker' = [worker EXCEPT ![c] =
                   [at |-> "exited", of |-> worker[c].of, result |-> r]]
  BY DEF WorkerExits
<1>2. r \in {"none", "ok", "error"}
  OBVIOUS
<1>. HIDE DEF r
<1>3. /\ worker' \in [Calls -> Processes]
      /\ worker'[c] = [at |-> "exited", of |-> worker[c].of, result |-> r]
      /\ \A d \in Calls : d # c => worker'[d] = worker[d]
  BY <1>1, <1>2, WorkerTyped, ProcessFields
<1>. QED
  BY <1>3 DEF r

\* Every step of the tool keeps its types,
LEMMA CsvTypeStep ==
  ASSUME CInv, [CsvNext]_csvVars
  PROVE  CsvTypeOK'
<1>w. ASSUME NEW c \in Calls, NEW w \in Processes, worker' = [worker EXCEPT ![c] = w]
      PROVE  worker' \in [Calls -> Processes]
  BY <1>w DEF CInv, CsvTypeOK
<1>s. ASSUME space \in Spaces, NEW x
      PROVE  /\ x \in Figures \cup {Absent} => [space EXCEPT !.fig = x] \in Spaces
             /\ x \in Manifests \cup {Absent} => [space EXCEPT !.man = x] \in Spaces
             /\ x \in Statuses \cup {Absent} => [space EXCEPT !.sts = x] \in Spaces
  BY <1>s DEF Spaces
<1>. USE CallBounds, FitAssumption, AbsentAssumption DEF CsvTypeOK, CInv, Workers, Calls, Orders, Spaces, Figures, Manifests, Statuses, csvVars, disk, frame, handler,
  Answer, Goto, NoCall, NoWorker, EmptySpace, StatusOf, Alive
<1>1. CASE \E o \in Orders : Begin(o)
  BY <1>1 DEF Begin
<1>2. CASE CheckArguments
  BY <1>2 DEF CheckArguments
<1>3. CASE CheckTable
  BY <1>3 DEF CheckTable
<1>4. CASE Exists
  BY <1>4 DEF Exists
<1>5. CASE Clear
  <2>1. space \in Spaces
    BY <1>5 DEF Clear
  <2>2. CASE space' = Absent /\ Goto("copy")
    BY <1>5, <2>2 DEF Clear
  <2>3. ASSUME NEW kept \in SUBSET DOMAIN space,
               space' = [x \in DOMAIN space |-> IF x \in kept THEN space[x] ELSE Absent],
               Answer("failed")
        PROVE  CsvTypeOK'
    <3>1. space' \in Spaces
      BY <2>1, <2>3
    <3>. QED
      BY <1>5, <2>3, <3>1 DEF Clear
  <2>. QED
    BY <1>5, <2>2, <2>3 DEF Clear
<1>6. CASE CopyData
  BY <1>6 DEF CopyData
<1>7. CASE StartWorker
  <2>1. calls \in Calls
    BY <1>7 DEF StartWorker
  <2>2. CASE worker' = [worker EXCEPT ![calls].at = "started"]
    <3>1. worker' = [worker EXCEPT ![calls] = [at |-> "started",
                       of |-> worker[calls].of, result |-> worker[calls].result]]
      BY <2>1, <2>2, WorkerAtWith
    <3>2. worker' \in [Calls -> Processes]
      BY <2>1, <3>1, WorkerTyped, ProcessFields
    <3>. QED
      BY <1>7, <3>2 DEF StartWorker
  <2>. QED
    BY <1>7, <2>2 DEF StartWorker
<1>8. CASE Collect
  BY <1>8 DEF Collect
<1>9. CASE GiveUp
  BY <1>9 DEF GiveUp
<1>10. CASE Reap
  <2>. DEFINE a == IF Alive(calls) THEN "killed" ELSE worker[calls].at
  <2>1. calls \in Calls
    BY <1>10 DEF Reap
  <2>2. worker' = [worker EXCEPT ![calls].at = a]
    BY <1>10 DEF Reap
  <2>3. a \in {"none", "started", "read", "half", "drawn", "tells", "exited", "killed"}
    BY <2>1, ProcessFields
  <2>. HIDE DEF a
  <2>4. worker' = [worker EXCEPT ![calls] = [at |-> a,
                     of |-> worker[calls].of, result |-> worker[calls].result]]
    BY <2>1, <2>2, WorkerAtWith
  <2>5. worker' \in [Calls -> Processes]
    BY <2>1, <2>3, <2>4, WorkerTyped, ProcessFields
  <2>. QED
    BY <1>10, <2>5 DEF Reap
<1>11. CASE Seal
  <2>1. CASE Goto("failed")
    BY <1>11, <2>1 DEF Seal
  <2>2. CASE ~Goto("failed")
    <3>1. space \in Spaces /\ space.fig # Absent /\ calls \in Calls
      BY <1>11, <2>2 DEF Seal
    <3>2. [by |-> calls, ok |-> TRUE, copy |-> space.copy, fig |-> space.fig] \in Manifests
      BY <3>1
    <3>3. verdict' \in Manifests /\ verdict' # Absent
      BY <1>11, <2>2, <3>2, AbsentAssumption DEF Seal
    <3>. QED
      BY <1>11, <2>2, <3>3 DEF Seal
  <2>. QED
    BY <2>1, <2>2
<1>12. CASE Write
  <2>1. verdict \in Manifests /\ StatusOf(verdict) \in Statuses
    BY <1>12 DEF Write
  <2>2. CASE stage = 1 /\ space # Absent /\ space' = [space EXCEPT !.man = verdict]
             /\ UNCHANGED latest
    <3>1. space' \in Spaces
      BY <1>s, <2>1, <2>2
    <3>. QED
      BY <1>12, <2>2, <3>1 DEF Write
  <2>3. CASE stage = 2 /\ space # Absent /\ space' = [space EXCEPT !.sts = StatusOf(verdict)]
             /\ UNCHANGED latest
    <3>1. space' \in Spaces
      BY <1>s, <2>1, <2>3
    <3>. QED
      BY <1>12, <2>3, <3>1 DEF Write
  <2>4. CASE stage = 3 /\ latest' = [latest EXCEPT !.man = StatusOf(verdict)]
             /\ UNCHANGED space
    BY <1>12, <2>1, <2>4 DEF Write
  <2>5. CASE stage = 4 /\ latest' = [latest EXCEPT !.sts = StatusOf(verdict)]
             /\ UNCHANGED space
    BY <1>12, <2>1, <2>5 DEF Write
  <2>. QED
    BY <1>12, <2>2, <2>3, <2>4, <2>5 DEF Write
<1>13. CASE WriteRaises
  BY <1>13 DEF WriteRaises
<1>14. CASE Failed
  <2>1. [by |-> calls, ok |-> FALSE, copy |-> Absent, fig |-> Absent] \in Manifests
    BY <1>14 DEF Failed
  <2>2. space # Absent => verdict' \in Manifests /\ verdict' # Absent
    BY <1>14, <2>1, AbsentAssumption DEF Failed
  <2>. QED
    BY <1>14, <2>2 DEF Failed
<1>15. CASE PanelsFailed
  BY <1>15 DEF PanelsFailed
<1>16. CASE Return
  <2>1. NoWorker \in Processes
    BY DEF NoWorker, Processes
  <2>2. calls \in Calls
    BY <1>16 DEF Return
  <2>. DEFINE w == IF Alive(calls) THEN worker[calls] ELSE NoWorker
  <2>3. worker' = [worker EXCEPT ![calls] = w] /\ w \in Processes
    BY <1>16, <2>1, <2>2 DEF Return
  <2>4. worker' \in [Calls -> Processes]
    BY <1>w, <2>2, <2>3
  <2>. QED
    BY <1>16, <2>2, <2>4 DEF Return
<1>17. CASE Abandon
  <2>1. order' \in Orders
    BY <1>17 DEF Abandon
  <2>2. orphans' \subseteq Calls
    BY <1>17 DEF Abandon
  <2>. QED
    BY <1>17, <2>1, <2>2 DEF Abandon
<1>18. CASE EditTable
  BY <1>18 DEF EditTable
<1>19. ASSUME NEW c \in Calls, WorkerReads(c)
      PROVE  CsvTypeOK'
  <2>0. space \in Spaces
    BY <1>19 DEF WorkerReads
  <2>1. worker' \in [Calls -> Processes]
    BY <1>19, <2>0, WorkerReadsEffect
  <2>. QED
    BY <1>19, <2>1 DEF WorkerReads
<1>20. ASSUME NEW c \in Calls, WorkerDraws(c)
      PROVE  CsvTypeOK'
  <2>1. worker' \in [Calls -> Processes]
    BY <1>20, WorkerDrawsEffect
  <2>. DEFINE f == [by |-> c, of |-> worker[c].of, whole |-> FALSE]
  <2>2. worker[c].of \in Contents
    BY <1>20, ProcessFields DEF WorkerDraws, WorkerAt
  <2>3. f \in Figures
    BY <2>2
  <2>4. IF space = Absent THEN space' = Absent ELSE space' \in Spaces
    <3>1. CASE space = Absent
      BY <1>20, <3>1 DEF WorkerDraws
    <3>2. CASE space # Absent
      <4>1. space \in Spaces
        BY <3>2 DEF CsvTypeOK
      <4>2. space' = [space EXCEPT !.fig = f]
        BY <1>20, <3>2 DEF WorkerDraws
      <4>. HIDE DEF f
      <4>. QED
        BY <1>s, <2>3, <4>1, <4>2
    <3>. QED
      BY <3>1, <3>2
  <2>5. space # Absent => space' # Absent
    BY <2>4, AbsentAssumption
  <2>. QED
    BY <1>20, <2>1, <2>4, <2>5 DEF WorkerDraws
<1>21. ASSUME NEW c \in Calls, WorkerFinishes(c)
      PROVE  CsvTypeOK'
  <2>1. worker' \in [Calls -> Processes]
    BY <1>21, WorkerFinishesEffect
  <2>. DEFINE f == [by |-> c, of |-> worker[c].of, whole |-> TRUE]
  <2>2. worker[c].of \in Contents
    BY <1>21, ProcessFields DEF WorkerFinishes, WorkerAt
  <2>3. f \in Figures
    BY <2>2
  <2>4. IF space = Absent THEN space' = Absent ELSE space' \in Spaces
    <3>1. CASE space = Absent
      BY <1>21, <3>1 DEF WorkerFinishes
    <3>2. CASE space # Absent
      <4>1. space \in Spaces
        BY <3>2 DEF CsvTypeOK
      <4>2. space' = [space EXCEPT !.fig = f]
        BY <1>21, <3>2 DEF WorkerFinishes
      <4>. HIDE DEF f
      <4>. QED
        BY <1>s, <2>3, <4>1, <4>2
    <3>. QED
      BY <3>1, <3>2
  <2>5. space # Absent => space' # Absent
    BY <2>4, AbsentAssumption
  <2>. QED
    BY <1>21, <2>1, <2>4, <2>5 DEF WorkerFinishes
<1>22. ASSUME NEW c \in Calls, WorkerTells(c)
      PROVE  CsvTypeOK'
  <2>1. worker' \in [Calls -> Processes]
    BY <1>22, WorkerTellsEffect
  <2>. QED
    BY <1>22, <2>1 DEF WorkerTells
<1>23. ASSUME NEW c \in Calls, WorkerExits(c)
      PROVE  CsvTypeOK'
  <2>1. worker' \in [Calls -> Processes]
    BY <1>23, WorkerExitsEffect
  <2>. QED
    BY <1>23, <2>1 DEF WorkerExits
<1>24. ASSUME NEW c \in Calls, WorkerDies(c)
      PROVE  CsvTypeOK'
  <2>1. worker' \in [Calls -> Processes]
    BY <1>24, WorkerDiesEffect
  <2>. QED
    BY <1>24, <2>1 DEF WorkerDies
<1>25. CASE UNCHANGED csvVars
  BY <1>25
<1>. QED
  BY <1>1, <1>2, <1>3, <1>4, <1>5, <1>6, <1>7, <1>8, <1>9, <1>10, <1>11, <1>12, <1>13, <1>14, <1>15, <1>16, <1>17, <1>18, <1>19, <1>20, <1>21, <1>22, <1>23, <1>24, <1>25
  DEF CsvNext, Handle, WorkerStep

\* has at most one living worker,
LEMMA WorkersStep ==
  ASSUME CInv, [CsvNext]_csvVars
  PROVE  Workers'
<1>. USE CallBounds DEF CsvTypeOK, CInv, Workers, Calls, csvVars, disk, frame, handler, Answer, Goto, NoWorker, Alive, Unstarted
<1>1. CASE \E o \in Orders : Begin(o)
  BY <1>1 DEF Begin
<1>2. CASE CheckArguments
  BY <1>2 DEF CheckArguments
<1>3. CASE CheckTable
  BY <1>3 DEF CheckTable
<1>4. CASE Exists
  BY <1>4 DEF Exists
<1>5. CASE Clear
  BY <1>5 DEF Clear
<1>6. CASE CopyData
  BY <1>6 DEF CopyData
<1>7. CASE StartWorker
  BY <1>7 DEF StartWorker
<1>8. CASE Collect
  BY <1>8 DEF Collect
<1>9. CASE GiveUp
  BY <1>9 DEF GiveUp
<1>10. CASE Reap
  BY <1>10 DEF Reap
<1>11. CASE Seal
  BY <1>11 DEF Seal
<1>12. CASE Write
  BY <1>12 DEF Write
<1>13. CASE WriteRaises
  BY <1>13 DEF WriteRaises
<1>14. CASE Failed
  BY <1>14 DEF Failed
<1>15. CASE PanelsFailed
  BY <1>15 DEF PanelsFailed
<1>16. CASE Return
  BY <1>16 DEF Return
<1>17. CASE Abandon
  BY <1>17 DEF Abandon
<1>18. CASE EditTable
  BY <1>18 DEF EditTable
<1>19. ASSUME NEW c \in Calls, WorkerReads(c)
      PROVE  Workers'
  BY <1>19 DEF WorkerReads, WorkerAt
<1>20. ASSUME NEW c \in Calls, WorkerDraws(c)
      PROVE  Workers'
  BY <1>20 DEF WorkerDraws, WorkerAt
<1>21. ASSUME NEW c \in Calls, WorkerFinishes(c)
      PROVE  Workers'
  BY <1>21 DEF WorkerFinishes, WorkerAt
<1>22. ASSUME NEW c \in Calls, WorkerTells(c)
      PROVE  Workers'
  BY <1>22, WorkerTellsEffect DEF WorkerTells, WorkerAt
<1>23. ASSUME NEW c \in Calls, WorkerExits(c)
      PROVE  Workers'
  BY <1>23 DEF WorkerExits, WorkerAt
<1>24. ASSUME NEW c \in Calls, WorkerDies(c)
      PROVE  Workers'
  BY <1>24 DEF WorkerDies, WorkerAt
<1>25. CASE UNCHANGED csvVars
  BY <1>25
<1>. QED
  BY <1>1, <1>2, <1>3, <1>4, <1>5, <1>6, <1>7, <1>8, <1>9, <1>10, <1>11, <1>12, <1>13, <1>14, <1>15, <1>16, <1>17, <1>18, <1>19, <1>20, <1>21, <1>22, <1>23, <1>24, <1>25
  DEF CsvNext, Handle, WorkerStep

\* and knows what that has drawn.
LEMMA DrawingStep ==
  ASSUME CInv, [CsvNext]_csvVars, CsvTypeOK', Workers', orphans' = {}
  PROVE  Worked' /\ Told'
<1>. USE AbsentAssumption DEF CInv, Drawing, Worked, Told, Drawn, Done, Calls, csvVars, disk, frame, handler,
  Answer, Goto, StatusOf
<1>0. orphans = {} /\ Worked /\ Told
  BY DEF CsvNext, Handle, WorkerStep, Begin, CheckArguments, CheckTable, Exists, Clear,
    CopyData, StartWorker, Collect, GiveUp, Reap, Seal, Write, WriteRaises, Failed,
    PanelsFailed, Return, Abandon, EditTable, WorkerReads, WorkerDraws, WorkerFinishes,
    WorkerTells, WorkerExits, WorkerDies
<1>. USE <1>0
<1>1. CASE \E o \in Orders : Begin(o)
  BY <1>1 DEF Begin
<1>2. CASE CheckArguments
  BY <1>2 DEF CheckArguments
<1>3. CASE CheckTable
  BY <1>3 DEF CheckTable
<1>4. CASE Exists
  BY <1>4 DEF Exists
<1>5. CASE Clear
  <2>1. tool = "clear" /\ space \in Spaces
    BY <1>5 DEF Clear, CsvTypeOK
  <2>2. CASE space' = Absent /\ Goto("copy")
    BY <1>5, <2>2 DEF Clear
  <2>3. ASSUME NEW kept \in SUBSET DOMAIN space,
               space' = [x \in DOMAIN space |-> IF x \in kept THEN space[x] ELSE Absent],
               Answer("failed")
        PROVE  Worked' /\ Told'
    <3>1. /\ space'.man \in {space.man, Absent} /\ space'.fig \in {space.fig, Absent}
      BY <2>1, <2>3 DEF Spaces
    <3>2. verdict' = verdict /\ stage' = stage /\ tool' = "answer" /\ reply' = "failed"
      BY <2>3
    <3>. QED
      BY <2>1, <3>1, <3>2
  <2>. QED
    BY <1>5, <2>2, <2>3 DEF Clear
<1>6. CASE CopyData
  <2>1. CASE table # Absent /\ space' = [EmptySpace EXCEPT !.copy = table] /\ Goto("start")
    <3>1. space' = [copy |-> table, fig |-> Absent, man |-> Absent, sts |-> Absent]
      BY <2>1 DEF EmptySpace
    <3>2. space' \in Spaces
      BY <3>1 DEF Spaces, CsvTypeOK
    <3>3. /\ space' # Absent
          /\ space'.copy # Absent /\ space'.man = Absent /\ space'.fig = Absent
      <4>1. space' # Absent
        BY ONLY <3>2, AbsentAssumption
      <4>2. space'.copy = table /\ space'.man = Absent /\ space'.fig = Absent
        BY ONLY <3>1
      <4>. QED
        BY ONLY <2>1, <4>1, <4>2
    <3>4. tool = "copy" /\ reply = "none"
      BY <1>6 DEF CopyData
    <3>. QED
      BY <2>1, <3>3, <3>4
  <2>2. CASE space' = EmptySpace /\ Goto("failed")
    BY <1>6, <2>2 DEF CopyData, EmptySpace
  <2>. QED
    BY <1>6, <2>1, <2>2 DEF CopyData
<1>7. CASE StartWorker
  <2>1. calls \in Calls /\ worker[calls] = NoWorker
    BY <1>7 DEF StartWorker, CsvTypeOK, Workers, Unstarted
  <2>2. CASE worker' = [worker EXCEPT ![calls].at = "started"] /\ Goto("join")
    <3>1. worker'[calls].at = "started"
      BY <2>1, <2>2 DEF CsvTypeOK, NoWorker
    <3>. QED
      BY <1>7, <2>2, <3>1 DEF StartWorker
  <2>. QED
    BY <1>7, <2>2 DEF StartWorker
<1>8. CASE Collect
  BY <1>8 DEF Collect
<1>9. CASE GiveUp
  BY <1>9 DEF GiveUp
<1>10. CASE Reap
  BY <1>10 DEF Reap
<1>11. CASE Seal
  BY <1>11 DEF Seal
<1>12. CASE Write
  <2>1. /\ tool = "write" /\ verdict \in Manifests /\ stage \in 1..4 /\ reply = "none"
        /\ UNCHANGED <<verdict, calls, orphans>>
    BY <1>12 DEF Write, CsvTypeOK
  <2>2. verdict.ok => StatusOf(verdict) = Done
    <3>1. verdict.ok => verdict.by = calls /\ verdict.ok = TRUE
      BY <2>1
    <3>. QED
      BY ONLY <3>1 DEF StatusOf, Done
  <2>3. CASE stage = 1
    <3>1. space \in Spaces /\ space' = [space EXCEPT !.man = verdict]
      BY <1>12, <2>3 DEF Write, CsvTypeOK
    <3>2. space' = [copy |-> space.copy, fig |-> space.fig, man |-> verdict,
                    sts |-> space.sts] /\ space' \in Spaces
      BY <2>1, <3>1 DEF Spaces
    <3>3. space' # Absent
      BY <3>2
    <3>4. tool' = "write" /\ stage' = 2 /\ reply' = "none"
      BY <1>12, <2>1, <2>3 DEF Write
    <3>. QED
      BY <2>1, <3>2, <3>3, <3>4
  <2>4. CASE stage = 2
    <3>1. space \in Spaces /\ space' = [space EXCEPT !.sts = StatusOf(verdict)]
      BY <1>12, <2>4 DEF Write, CsvTypeOK
    <3>2. StatusOf(verdict) \in Statuses
      BY <2>1 DEF Manifests, Statuses
    <3>3. space' = [copy |-> space.copy, fig |-> space.fig, man |-> space.man,
                    sts |-> StatusOf(verdict)] /\ space' \in Spaces
      BY <3>1, <3>2 DEF Spaces
    <3>4. space' # Absent
      BY <3>3
    <3>5. tool' = "write" /\ stage' = 3 /\ reply' = "none"
      BY <1>12, <2>1, <2>4 DEF Write
    <3>6. space'.sts = StatusOf(verdict) /\ space'.fig = space.fig
          /\ space'.man = space.man /\ space'.copy = space.copy
      BY <3>3
    <3>7. Worked'
      BY <3>5
    <3>8. Told'
      BY <2>1, <2>2, <2>4, <3>1, <3>4, <3>5, <3>6
    <3>. QED
      BY <3>7, <3>8
  <2>5. CASE stage = 3
    <3>1. UNCHANGED space /\ latest'.man = StatusOf(verdict)
      BY <1>12, <2>5 DEF Write, CsvTypeOK
    <3>2. tool' = "write" /\ stage' = 4 /\ reply' = "none"
      BY <1>12, <2>1, <2>5 DEF Write
    <3>. QED
      BY <2>1, <2>2, <2>5, <3>1, <3>2
  <2>6. CASE stage = 4
    <3>1. UNCHANGED space /\ latest' = [man |-> latest.man, sts |-> StatusOf(verdict)]
      BY <1>12, <2>6 DEF Write, CsvTypeOK
    <3>2. tool' = "answer" /\ reply' = IF verdict.ok THEN "ok" ELSE "failed"
      BY <1>12, <2>6 DEF Write
    <3>3. Worked'
      BY <3>2
    <3>4. verdict.ok => latest' = [man |-> Done, sts |-> Done]
      <4>1. verdict.ok => latest.man = Done
        BY <2>1, <2>6
      <4>. QED
        BY ONLY <2>2, <3>1, <4>1
    <3>5. Told'
      BY <2>1, <2>6, <3>1, <3>2, <3>4
    <3>. QED
      BY <3>3, <3>5
  <2>. QED
    BY <2>1, <2>3, <2>4, <2>5, <2>6
<1>13. CASE WriteRaises
  BY <1>13 DEF WriteRaises
<1>14. CASE Failed
  BY <1>14 DEF Failed
<1>15. CASE PanelsFailed
  BY <1>15 DEF PanelsFailed
<1>16. CASE Return
  BY <1>16 DEF Return
<1>17. CASE Abandon
  BY <1>17 DEF Abandon
<1>18. CASE EditTable
  BY <1>18 DEF EditTable
<1>19. ASSUME NEW c \in Calls, WorkerReads(c)
      PROVE  Worked' /\ Told'
  <2>1. c = calls /\ tool \in {"join", "reap"}
    BY <1>19 DEF WorkerReads, WorkerAt, Workers, Alive
  <2>. QED
    BY <1>19, <2>1, WorkerReadsEffect DEF WorkerReads, WorkerAt, CsvTypeOK, Spaces
<1>20. ASSUME NEW c \in Calls, WorkerDraws(c)
      PROVE  Worked' /\ Told'
  <2>1. c = calls /\ tool \in {"join", "reap"}
    BY <1>20 DEF WorkerDraws, WorkerAt, Workers, Alive
  <2>2. space \in Spaces /\ space # Absent /\ space.man = Absent
    BY <2>1 DEF CsvTypeOK
  <2>3. /\ space' = [space EXCEPT !.fig = [by |-> calls, of |-> worker[calls].of,
                                           whole |-> FALSE]]
        /\ UNCHANGED <<latest, tool, verdict, stage, reply, calls, orphans>>
    BY <1>20, <2>1, <2>2 DEF WorkerDraws
  <2>4. /\ space'.copy = space.copy /\ space'.man = space.man /\ space'.sts = space.sts
        /\ space'.fig = [by |-> calls, of |-> worker[calls].of, whole |-> FALSE]
    BY <2>2, <2>3 DEF Spaces
  <2>5. space' # Absent
    <3>1. worker[c].of \in Contents
      BY <1>20, ProcessFields DEF WorkerDraws, WorkerAt, Workers, CsvTypeOK
    <3>2. space' \in Spaces
      <4>1. [by |-> calls, of |-> worker[calls].of, whole |-> FALSE] \in Figures
        BY <2>1, <3>1 DEF Figures
      <4>. QED
        BY <2>2, <2>3, <4>1 DEF Spaces
    <3>. QED
      BY <3>2
  <2>6. /\ worker[calls].at = "read"
        /\ worker'[calls].at = "half"
        /\ worker'[calls].of = worker[calls].of
    BY <1>20, <2>1, WorkerDrawsEffect DEF WorkerDraws, WorkerAt, CsvTypeOK
  <2>. QED
    BY <2>1, <2>2, <2>3, <2>4, <2>5, <2>6
<1>21. ASSUME NEW c \in Calls, WorkerFinishes(c)
      PROVE  Worked' /\ Told'
  <2>1. c = calls /\ tool \in {"join", "reap"}
    BY <1>21 DEF WorkerFinishes, WorkerAt, Workers, Alive
  <2>2. space \in Spaces /\ space # Absent /\ space.man = Absent
    BY <2>1 DEF CsvTypeOK
  <2>3. /\ space' = [space EXCEPT !.fig = [by |-> calls, of |-> worker[calls].of,
                                           whole |-> TRUE]]
        /\ UNCHANGED <<latest, tool, verdict, stage, reply, calls, orphans>>
    BY <1>21, <2>1, <2>2 DEF WorkerFinishes
  <2>4. /\ space'.copy = space.copy /\ space'.man = space.man /\ space'.sts = space.sts
        /\ space'.fig = [by |-> calls, of |-> worker[calls].of, whole |-> TRUE]
    BY <2>2, <2>3 DEF Spaces
  <2>5. space' # Absent
    <3>1. worker[c].of \in Contents
      BY <1>21, ProcessFields DEF WorkerFinishes, WorkerAt, Workers, CsvTypeOK
    <3>2. space' \in Spaces
      <4>1. [by |-> calls, of |-> worker[calls].of, whole |-> TRUE] \in Figures
        BY <2>1, <3>1 DEF Figures
      <4>. QED
        BY <2>2, <2>3, <4>1 DEF Spaces
    <3>. QED
      BY <3>2
  <2>6. /\ worker[calls].at = "half"
        /\ worker'[calls].at = "drawn"
        /\ worker'[calls].of = worker[calls].of
    BY <1>21, <2>1, WorkerFinishesEffect DEF WorkerFinishes, WorkerAt, CsvTypeOK
  <2>. QED
    BY <2>1, <2>2, <2>3, <2>4, <2>5, <2>6
<1>22. ASSUME NEW c \in Calls, WorkerTells(c)
      PROVE  Worked' /\ Told'
  <2>1. c = calls /\ tool \in {"join", "reap"}
    BY <1>22 DEF WorkerTells, WorkerAt, Workers, Alive
  <2>. QED
    BY <1>22, <2>1, WorkerTellsEffect DEF WorkerTells, WorkerAt, CsvTypeOK, Spaces
<1>23. ASSUME NEW c \in Calls, WorkerExits(c)
      PROVE  Worked' /\ Told'
  <2>1. c = calls /\ tool \in {"join", "reap"}
    BY <1>23 DEF WorkerExits, Workers, Alive
  <2>2. /\ worker[calls].at = "tells" /\ worker'[calls].at = "exited"
        /\ worker'[calls].result = "ok" => worker[calls].of # Absent
    BY <1>23, <2>1, WorkerExitsEffect DEF WorkerExits, CsvTypeOK
  <2>3. UNCHANGED <<latest, tool, verdict, stage, reply, calls, orphans, space>>
    BY <1>23 DEF WorkerExits
  <2>4. tool = "join" /\ worker'[calls].result = "ok" => space.fig = Drawn
    BY <2>2
  <2>5. Worked'
    BY <2>1, <2>2, <2>3, <2>4
  <2>6. Told'
    BY <2>3
  <2>. QED
    BY <2>5, <2>6
<1>24. ASSUME NEW c \in Calls, WorkerDies(c)
      PROVE  Worked' /\ Told'
  <2>1. c = calls /\ tool \in {"join", "reap"}
    BY <1>24 DEF WorkerDies, WorkerAt, Workers, Alive
  <2>. QED
    BY <1>24, <2>1, WorkerDiesEffect DEF WorkerDies, WorkerAt, CsvTypeOK, Spaces
<1>25. CASE UNCHANGED csvVars
  BY <1>25
<1>. QED
  BY <1>1, <1>2, <1>3, <1>4, <1>5, <1>6, <1>7, <1>8, <1>9, <1>10, <1>11, <1>12, <1>13, <1>14, <1>15, <1>16, <1>17, <1>18, <1>19, <1>20, <1>21, <1>22, <1>23, <1>24, <1>25
  DEF CsvNext, Handle, WorkerStep

\* So all this holds always.
LEMMA CsvInvariance == ServerSpec => []CInv
<1>1. ServerInit => CInv
  BY FitAssumption, CallBounds, AbsentAssumption DEF ServerInit, CsvInit, CInv, CsvTypeOK,
    Workers, Drawing, Worked, Told, Alive, NoWorker, NoCall, Orders, Processes, Calls
<1>2. CInv /\ [ServerNext]_serverVars => CInv'
  <2>. SUFFICES ASSUME CInv, [ServerNext]_serverVars
                PROVE  CInv'
    OBVIOUS
  <2>1. [CsvNext]_csvVars
    BY ServerIsCsv
  <2>2. CsvTypeOK' /\ Workers'
    BY <2>1, CsvTypeStep, WorkersStep
  <2>3. Drawing'
    BY <2>1, <2>2, DrawingStep DEF Drawing
  <2>. QED
    BY <2>2, <2>3 DEF CInv
<1>. QED
  BY <1>1, <1>2, PTL DEF ServerSpec

\* The variables of the tool have their types.
THEOREM ToolTyped == ServerSpec => []CsvTypeOK
BY CsvInvariance, PTL DEF CInv

\* No worker outlives the call that started it, whatever it hangs in, unless
\* the server died.
THEOREM WorkersAreReaped == ServerSpec => []NoWorkerLeftBehind
<1>1. CInv => NoWorkerLeftBehind
  BY DEF CInv, Workers, NoWorkerLeftBehind
<1>. QED
  BY <1>1, CsvInvariance, PTL

\* A figure that a client is told of is the one its own call has drawn, whole
\* and from the table the manifest names.
THEOREM RepliesAreTrue == ServerSpec => []OkReplyTrue
<1>1. CInv => OkReplyTrue
  BY DEF CInv, Drawing, Told, Drawn, Done, OkReplyTrue
<1>. QED
  BY <1>1, CsvInvariance, PTL

\* Between calls, a manifest that reports success is of the figure beside it.
THEOREM ManifestsMatch == ServerSpec => []ManifestMatchesFigure
<1>1. CInv => ManifestMatchesFigure
  BY DEF CInv, Drawing, Told, ManifestMatchesFigure
<1>. QED
  BY <1>1, CsvInvariance, PTL

-----------------------------------------------------------------------------
(* The ordered service.  A message that the server has taken is refused,   *)
(* or is answered so far as its entries have been handled (Going); what is *)
(* left of a message whose size was not believed is never read (Reading).  *)

\* A set of numbers has a least one.
LEMMA LeastNatural ==
  ASSUME NEW S \in SUBSET Nat, S # {}
  PROVE  \E x \in S : \A y \in S : x <= y
<1>1. IsWellFoundedOn(OpToRel(<, Nat), Nat)
  BY NatLessThanWellFounded
<1>2. \E v \in S : \A w \in S : <<w, v>> \notin OpToRel(<, Nat)
  BY <1>1, WFMin
<1>3. PICK v \in S : \A w \in S : <<w, v>> \notin OpToRel(<, Nat)
  BY <1>2
<1>4. \A w \in S : ~(w < v)
  BY <1>3 DEF OpToRel
<1> QED  BY <1>4

\* The answers to the first entries of a message are those to all but the last
\* of them, and then the answer to that one.
LEMMA RepliesGrow ==
  ASSUME NEW body \in Seq(Entries)
  PROVE  /\ Replies(body)[0] = <<>>
         /\ \A n \in 1..Len(body) :
              Replies(body)[n] = Replies(body)[n - 1] \o Reply(n, body[n])
<1> DEFINE Grown(f, k) ==
      [n \in 0..k |-> IF n = 0 THEN <<>> ELSE f[n - 1] \o Reply(n, body[n])]
<1> DEFINE Found(k) == \E f : f = Grown(f, k)
<1>0. Len(body) \in Nat
  OBVIOUS
<1> HIDE DEF Grown
<1>1. Found(0)
  <2>1. [n \in {0} |-> <<>>] = Grown([n \in {0} |-> <<>>], 0)
    BY DEF Grown
  <2> QED  BY <2>1
<1>2. ASSUME NEW k \in Nat, Found(k)
      PROVE  Found(k + 1)
  <2>1. PICK f : f = Grown(f, k)
    BY <1>2
  <2> DEFINE g == Grown(f, k + 1)
  <2>2. \A n \in 1..(k + 1) : g[n - 1] = f[n - 1]
    <3> SUFFICES ASSUME NEW n \in 1..(k + 1) PROVE g[n - 1] = f[n - 1]
      OBVIOUS
    <3>1. n - 1 \in 0..k /\ n - 1 \in 0..(k + 1)
      OBVIOUS
    <3>2. Grown(f, k)[n - 1]
            = IF n - 1 = 0 THEN <<>> ELSE f[(n - 1) - 1] \o Reply(n - 1, body[n - 1])
      BY <3>1 DEF Grown
    <3>3. g[n - 1]
            = IF n - 1 = 0 THEN <<>> ELSE f[(n - 1) - 1] \o Reply(n - 1, body[n - 1])
      BY <3>1 DEF Grown
    <3> QED  BY <2>1, <3>2, <3>3
  <2> HIDE DEF g
  <2>3. Grown(f, k + 1) = Grown(g, k + 1)
    BY <2>2 DEF Grown
  <2>4. g = Grown(g, k + 1)
    BY <2>3 DEF g
  <2> QED  BY <2>4
<1> HIDE DEF Found
<1>3. Found(Len(body))
  <2> DEFINE Lacking == {k \in Nat : ~Found(k)}
  <2>1. SUFFICES ASSUME Lacking # {} PROVE FALSE
    BY <1>0
  <2>2. PICK k \in Lacking : \A j \in Lacking : k <= j
    BY <2>1, LeastNatural
  <2>3. k \in Nat /\ k # 0 /\ ~Found(k)
    BY <2>2, <1>1
  <2>4. k - 1 \in Nat /\ k - 1 \notin Lacking
    BY <2>2, <2>3
  <2>5. Found((k - 1) + 1)
    BY <2>4, <1>2
  <2> QED  BY <2>3, <2>5
<1>4. \E f : f = Grown(f, Len(body))
  BY <1>3 DEF Found
<1>5. Replies(body) = CHOOSE h : h = Grown(h, Len(body))
  BY DEF Replies, Grown
<1>6. Replies(body) = Grown(Replies(body), Len(body))
  BY <1>4, <1>5
<1> DEFINE r == Replies(body)
<1> HIDE DEF r
<1>7. r = Grown(r, Len(body))
  BY <1>6 DEF r
<1>8. r[0] = <<>> /\ \A n \in 1..Len(body) : r[n] = r[n - 1] \o Reply(n, body[n])
  BY <1>0, <1>7 DEF Grown
<1> QED  BY <1>8 DEF r

\* What is left of a message when k of its entries were handled.
Left(body, k) == [i \in 1..(Len(body) - k) |-> <<k + i, body[k + i]>>]

\* The first of what is left is the next entry, and the others are left then.
LEMMA LeftShrinks ==
  ASSUME NEW body \in Seq(Entries), NEW k \in 0..Len(body)
  PROVE  /\ Left(body, k) = <<>> => k = Len(body)
         /\ Left(body, k) # <<>> =>
              /\ k + 1 \in 1..Len(body)
              /\ Head(Left(body, k)) = <<k + 1, body[k + 1]>>
              /\ Tail(Left(body, k)) = Left(body, k + 1)
<1> DEFINE s == Left(body, k)
<1>1. s \in Seq(Nat \X Entries) /\ Len(s) = Len(body) - k
  <2>1. \A i \in 1..(Len(body) - k) : <<k + i, body[k + i]>> \in Nat \X Entries
    OBVIOUS
  <2> QED  BY <2>1 DEF Left
<1>2. \A i \in 1..Len(s) : s[i] = <<k + i, body[k + i]>>
  BY <1>1 DEF Left
<1> HIDE DEF s
<1>3. s = <<>> => k = Len(body)
  BY <1>1
<1>4. ASSUME s # <<>>
      PROVE  /\ k + 1 \in 1..Len(body)
             /\ Head(s) = <<k + 1, body[k + 1]>>
             /\ Tail(s) = Left(body, k + 1)
  <2>1. Len(s) > 0
    BY <1>1, <1>4
  <2>2. Head(s) = <<k + 1, body[k + 1]>>
    BY <2>1, <1>1, <1>2
  <2>3. Tail(s) = [i \in 1..(Len(s) - 1) |-> s[i + 1]]
    <3> DEFINE t == Tail(s)
    <3>1. /\ t \in Seq(Nat \X Entries) /\ Len(t) = Len(s) - 1
          /\ \A i \in 1..Len(t) : t[i] = s[i + 1]
      BY <1>1, <1>4, HeadTailProperties
    <3> HIDE DEF t
    <3>2. t = [i \in 1..Len(t) |-> t[i]]
      BY <3>1
    <3>3. t = [i \in 1..(Len(s) - 1) |-> s[i + 1]]
      BY <3>1, <3>2
    <3> QED  BY <3>3 DEF t
  <2>4. \A i \in 1..(Len(s) - 1) : s[i + 1] = <<(k + 1) + i, body[(k + 1) + i]>>
    BY <1>1, <1>2
  <2>5. Tail(s) = Left(body, k + 1)
    <3>1. Len(s) - 1 = Len(body) - (k + 1)
      BY <1>1
    <3> QED  BY <2>3, <2>4, <3>1 DEF Left
  <2> QED  BY <2>1, <2>2, <2>5, <1>1
<1> QED  BY <1>3, <1>4 DEF s

(* A message that was refused has its answer; one that is handled has been *)
(* answered so far, entry by entry.                                        *)
Refused ==
  /\ srv = "handle" /\ todo = <<>> /\ got = <<0>>
  /\ Demand(cur) = Error(framing)

HandledTo(k) ==
  /\ todo = Left(cur.body, k)
  /\ got = Replies(cur.body)[k]
  /\ \A i \in 1..k : cur.body[i] # "raise"

Going ==
  /\ cur.size = "good" /\ framing = cur.framing /\ ~fatal
  /\ cur.body \in Seq(Entries) /\ cur.body # <<>>
  /\ \E k \in 0..Len(cur.body) : HandledTo(k)
  /\ srv = "tool" => todo # <<>> /\ Head(todo)[2] = "call"

\* What is left of a message whose size was not believed is never read.
Reading ==
  /\ wire \in Seq(Messages) /\ cur \in Messages \cup {Absent}
  /\ begun \in BOOLEAN /\ got \in Seq(Nat) /\ framing \in Framings
  /\ begun => wire # <<>> /\ (srv \in {"ended", "dead"} \/ (srv = "handle" /\ fatal))
  /\ srv = "read" => cur = Absent

OInv ==
  /\ Reading
  /\ srv \in {"handle", "tool"} => cur # Absent /\ (Refused \/ Going)

\* The texts that are no messages differ.
LEMMA NotJson ==
  /\ NoJson # OddJson /\ NoJson # <<>> /\ OddJson # <<>>
  /\ NoJson \notin Seq(Entries) /\ OddJson \notin Seq(Entries)
<1>1. NoJson[1] = "no json" /\ OddJson[1] = "odd json"
  BY DEF NoJson, OddJson
<1>2. Len(NoJson) = 1 /\ Len(OddJson) = 1 /\ Len(<<>>) = 0
  BY DEF NoJson, OddJson
<1>3. "no json" # "odd json"
  OBVIOUS
<1>4. NoJson # OddJson
  BY <1>1, <1>3
<1>5. NoJson # <<>> /\ OddJson # <<>>
  BY <1>2
<1>6. "no json" \notin Entries /\ "odd json" \notin Entries
  BY DEF Entries
<1>7. \A s \in Seq(Entries) : Len(s) = 1 => s[1] \in Entries
  OBVIOUS
<1>8. NoJson \notin Seq(Entries) /\ OddJson \notin Seq(Entries)
  BY <1>1, <1>2, <1>6, <1>7
<1> QED  BY <1>4, <1>5, <1>8

\* Whatever a text is, it is refused or taken to pieces.
LEMMA Decoded ==
  ASSUME NEW m \in Messages, m.size = "good", Decode(m, m.framing)
  PROVE  /\ cur' = m /\ srv' = "handle" /\ got' \in Seq(Nat) /\ framing' \in Framings
         /\ (Refused \/ Going)'
<1> USE MessagesAssumption DEF Refused, Error, Decode, Refuse, Demand, Framings
<1>1. CASE m.body \in {NoJson, <<>>}
  <2>1. m.body # OddJson
    BY <1>1, NotJson
  <2>2. Refused'
    BY <1>1, <2>1
  <2> QED  BY <1>1, <2>1, <2>2
<1>2. CASE m.body = OddJson
  <2>1. m.body \notin {NoJson, <<>>}
    BY <1>2, NotJson
  <2>2. Refused'
    BY <1>2, <2>1
  <2> QED  BY <1>2, <2>1, <2>2
<1>3. CASE m.body \notin {NoJson, <<>>, OddJson}
  <2>1. m.body \in Seq(Entries) /\ m.body # <<>>
    BY <1>3
  <2>2. /\ cur' = m /\ got' = <<>> /\ framing' = m.framing /\ fatal' = FALSE
        /\ srv' = "handle" /\ todo' = [i \in DOMAIN m.body |-> <<i, m.body[i]>>]
    BY <1>3
  <2>3. todo' = Left(m.body, 0)
    BY <2>1, <2>2 DEF Left
  <2>4. Replies(m.body)[0] = <<>>
    BY <2>1, RepliesGrow
  <2>5. HandledTo(0)'
    <3>1. todo' = Left(cur'.body, 0) /\ got' = Replies(cur'.body)[0]
      BY <2>2, <2>3, <2>4
    <3>2. \A i \in 1..0 : cur'.body[i] # "raise"
      OBVIOUS
    <3> QED  BY ONLY <3>1, <3>2 DEF HandledTo
  <2>6. 0 \in 0..Len(m.body)
    BY <2>1
  <2>7. Going'
    BY <2>1, <2>2, <2>5, <2>6 DEF Going
  <2> QED  BY <2>2, <2>7
<1> QED  BY <1>1, <1>2, <1>3

\* The next entry of a message that is not refused.
LEMMA NextEntry ==
  ASSUME OInv, srv \in {"handle", "tool"}, todo # <<>>
  PROVE  /\ Going
         /\ \E k \in 0..Len(cur.body) :
              /\ HandledTo(k)
              /\ k + 1 \in 1..Len(cur.body)
              /\ Head(todo) = <<k + 1, cur.body[k + 1]>>
              /\ Tail(todo) = Left(cur.body, k + 1)
              /\ Replies(cur.body)[k + 1]
                   = Replies(cur.body)[k] \o Reply(k + 1, cur.body[k + 1])
<1>1. Going
  BY DEF OInv, Refused
<1>2. PICK k \in 0..Len(cur.body) : HandledTo(k)
  BY <1>1 DEF Going
<1>3. cur.body \in Seq(Entries)
  BY <1>1 DEF Going
<1>4. Left(cur.body, k) # <<>>
  BY <1>2 DEF HandledTo
<1>5. /\ k + 1 \in 1..Len(cur.body)
      /\ Head(todo) = <<k + 1, cur.body[k + 1]>>
      /\ Tail(todo) = Left(cur.body, k + 1)
  BY <1>2, <1>3, <1>4, LeftShrinks DEF HandledTo
<1>6. Replies(cur.body)[k + 1]
       = Replies(cur.body)[(k + 1) - 1] \o Reply(k + 1, cur.body[k + 1])
  BY <1>3, <1>5, RepliesGrow
<1>7. (k + 1) - 1 = k
  OBVIOUS
<1> QED  BY <1>1, <1>2, <1>5, <1>6, <1>7

\* An entry that is answered as it demands leaves the next ones to be handled.
LEMMA Proceeded ==
  ASSUME OInv, srv \in {"handle", "tool"}, todo # <<>>,
         Head(todo)[2] # "raise", srv' = "handle",
         UNCHANGED <<cur, framing, fatal>>,
         Proceed(Reply(Head(todo)[1], Head(todo)[2]))
  PROVE  Going' /\ got' \in Seq(Nat)
<1>1. PICK k \in 0..Len(cur.body) :
        /\ HandledTo(k)
        /\ k + 1 \in 1..Len(cur.body)
        /\ Head(todo) = <<k + 1, cur.body[k + 1]>>
        /\ Tail(todo) = Left(cur.body, k + 1)
        /\ Replies(cur.body)[k + 1]
             = Replies(cur.body)[k] \o Reply(k + 1, cur.body[k + 1])
  BY NextEntry
<1>2. todo' = Left(cur.body, k + 1) /\ got' = Replies(cur.body)[k + 1]
  <2>1. Head(todo)[1] = k + 1 /\ Head(todo)[2] = cur.body[k + 1]
    BY <1>1
  <2>2. todo' = Tail(todo) /\ got' = got \o Reply(k + 1, cur.body[k + 1])
    BY <2>1 DEF Proceed
  <2>3. got = Replies(cur.body)[k]
    BY <1>1 DEF HandledTo
  <2> QED  BY <1>1, <2>2, <2>3
<1>3. \A i \in 1..(k + 1) : cur.body[i] # "raise"
  BY <1>1 DEF HandledTo
<1>4. HandledTo(k + 1)'
  BY <1>2, <1>3 DEF HandledTo
<1>5. k + 1 \in 0..Len(cur.body)
  BY <1>1
<1>6. Going'
  BY <1>4, <1>5, NextEntry DEF Going
<1>7. Reply(k + 1, cur.body[k + 1]) \in Seq(Nat)
  BY DEF Reply
<1>8. got' \in Seq(Nat)
  BY <1>1, <1>7 DEF Proceed, OInv, Reading
<1> QED  BY <1>6, <1>8

\* Every step keeps this; reading does,
LEMMA ReadKeeps ==
  ASSUME OInv, ReadMessage
  PROVE  OInv' /\ cur' = Head(wire) /\ Unread' = Tail(wire) /\ ~begun /\ cur = Absent
<1> DEFINE m == Head(wire)
<1>1. /\ srv = "read" /\ wire # <<>> /\ wire \in Seq(Messages) /\ m \in Messages
      /\ cur = Absent /\ ~begun
  BY DEF OInv, Reading, ReadMessage
<1>2. m # Absent /\ Tail(wire) \in Seq(Messages)
  BY <1>1, NothingAssumption
<1>3. CASE /\ m.size = "bad" /\ begun' = TRUE /\ UNCHANGED wire
           /\ Refuse(m, m.framing, SizeErrorIsFatal)
  <2>1. /\ cur' = m /\ todo' = <<>> /\ got' = <<0>> /\ framing' = m.framing
        /\ fatal' = TRUE /\ srv' = "handle"
    BY <1>3 DEF Refuse, SizeErrorIsFatal
  <2>2. Refused'
    BY <1>3, <2>1 DEF Refused, Demand, Error
  <2>3. Reading'
    BY <1>1, <1>3, <2>1, MessagesAssumption DEF Reading
  <2> QED  BY <1>1, <1>2, <1>3, <2>1, <2>2, <2>3 DEF OInv, Unread
<1>4. CASE m.size = "good" /\ Consume /\ Decode(m, m.framing)
  <2>1. /\ cur' = m /\ srv' = "handle" /\ got' \in Seq(Nat) /\ framing' \in Framings
        /\ (Refused \/ Going)'
    BY <1>1, <1>4, Decoded
  <2>2. wire' = Tail(wire) /\ begun' = FALSE
    BY <1>4 DEF Consume
  <2>3. Reading'
    BY <1>1, <1>2, <2>1, <2>2 DEF Reading
  <2> QED  BY <1>1, <1>2, <2>1, <2>2, <2>3 DEF OInv, Unread
<1>5. CASE m.size = "cut" /\ Consume /\ Refuse(m, "framed", FALSE)
  <2>1. /\ cur' = m /\ todo' = <<>> /\ got' = <<0>> /\ framing' = "framed"
        /\ srv' = "handle"
    BY <1>5 DEF Refuse
  <2>2. m.framing = "framed"
    BY <1>1, <1>5, MessagesAssumption
  <2>3. Refused'
    BY <1>5, <2>1, <2>2 DEF Refused, Demand, Error
  <2>4. wire' = Tail(wire) /\ begun' = FALSE
    BY <1>5 DEF Consume
  <2>5. <<0>> \in Seq(Nat)
    OBVIOUS
  <2>6. Reading'
    <3>1. cur' \in Messages \cup {Absent} /\ got' \in Seq(Nat) /\ wire' \in Seq(Messages)
      BY <1>1, <1>2, <2>1, <2>4, <2>5
    <3> QED  BY <2>1, <2>4, <3>1 DEF Reading, Framings
  <2> QED  BY <1>1, <1>2, <2>1, <2>3, <2>4, <2>6 DEF OInv, Unread
<1> QED  BY <1>1, <1>3, <1>4, <1>5 DEF ReadMessage

\* handling an entry,
LEMMA EntryKeeps ==
  ASSUME OInv, HandleEntry
  PROVE  OInv'
<1>1. srv = "handle" /\ todo # <<>> /\ Going
  BY NextEntry DEF HandleEntry, Entry
<1>2. UNCHANGED <<wire, begun, srv, cur, framing, fatal>>
  BY DEF HandleEntry, client
<1>3. CASE Entry("raise") /\ todo' = <<>> /\ got' = <<0>>
  <2>1. PICK k \in 0..Len(cur.body) :
          k + 1 \in 1..Len(cur.body) /\ Head(todo) = <<k + 1, cur.body[k + 1]>>
    BY <1>1, NextEntry
  <2>2. cur.body[k + 1] = "raise"
    BY <1>3, <2>1 DEF Entry
  <2>3. k + 1 \in DOMAIN cur.body
    BY <1>1, <2>1 DEF Going
  <2>4. Has(cur, "raise")
    BY <2>2, <2>3 DEF Has
  <2>5. cur.body # OddJson
    BY <1>1, NotJson DEF Going
  <2>6. Refused'
    BY <1>1, <1>2, <1>3, <2>4, <2>5 DEF Refused, Demand, Error, Going, Has
  <2>7. Reading'
    BY <1>1, <1>2, <1>3 DEF OInv, Reading
  <2> QED  BY <1>1, <1>2, <2>6, <2>7 DEF OInv
<1>4. CASE /\ Head(todo)[2] # "raise"
           /\ Proceed(Reply(Head(todo)[1], Head(todo)[2]))
  <2>1. Going' /\ got' \in Seq(Nat)
    BY <1>1, <1>2, <1>4, Proceeded
  <2>2. Reading'
    BY <1>1, <1>2, <2>1 DEF OInv, Reading
  <2> QED  BY <1>1, <1>2, <2>1, <2>2 DEF OInv
<1> QED  BY <1>3, <1>4 DEF HandleEntry, Entry, Reply

\* calling the tool, and its return,
LEMMA CallKeeps ==
  ASSUME OInv, CallTool
  PROVE  OInv'
<1>1. srv = "handle" /\ todo # <<>> /\ Head(todo)[2] = "call" /\ Going
  BY NextEntry DEF CallTool, Entry
<1>2. UNCHANGED <<wire, begun, cur, todo, got, framing, fatal>> /\ srv' = "tool"
  BY DEF CallTool, client, message
<1>3. ~begun
  BY <1>1 DEF OInv, Reading, Going
<1>4. Reading'
  BY <1>1, <1>2, <1>3 DEF OInv, Reading
<1>5. \A k : HandledTo(k) => HandledTo(k)'
  BY <1>2 DEF HandledTo
<1>6. Going'
  BY <1>1, <1>2, <1>5 DEF Going
<1> QED  BY <1>1, <1>2, <1>4, <1>6 DEF OInv

LEMMA ReturnKeeps ==
  ASSUME OInv, ToolReturns
  PROVE  OInv'
<1>1. srv = "tool" /\ Going /\ cur # Absent
  BY DEF OInv, ToolReturns, Refused
<1>2. todo # <<>> /\ Head(todo)[2] = "call"
  BY <1>1 DEF Going
<1>3. UNCHANGED <<wire, begun, cur, framing, fatal>> /\ srv' = "handle"
  BY DEF ToolReturns, client
<1>4. Proceed(Reply(Head(todo)[1], Head(todo)[2]))
  BY <1>2 DEF ToolReturns, Reply
<1>5. Going' /\ got' \in Seq(Nat)
  BY <1>1, <1>2, <1>3, <1>4, Proceeded
<1>6. ~begun
  BY <1>1 DEF OInv, Reading
<1>7. Reading'
  BY <1>3, <1>5, <1>6 DEF OInv, Reading
<1> QED  BY <1>1, <1>3, <1>5, <1>7 DEF OInv

\* answering, which is serving the message,
LEMMA AnswerKeeps ==
  ASSUME OInv, WriteAnswer
  PROVE  /\ OInv'
         /\ \/ UNCHANGED <<Asked, answers>>
            \/ /\ Asked = <<cur>> \o Unread /\ Asked' = Unread
               /\ answers' = IF Demand(cur) = Absent THEN answers
                             ELSE Append(answers, Demand(cur))
<1>1. /\ srv = "handle" /\ todo = <<>> /\ cur # Absent /\ (Refused \/ Going)
      /\ UNCHANGED <<wire, begun>>
  BY DEF WriteAnswer, OInv, client
<1>2. ASSUME Going
      PROVE  /\ got = Positions(cur)
             /\ Demand(cur) = IF got = <<>> THEN Absent
                              ELSE [framing |-> framing, ids |-> got]
  <2>1. PICK k \in 0..Len(cur.body) : HandledTo(k)
    BY <1>2 DEF Going
  <2>2. cur.body \in Seq(Entries) /\ cur.body # <<>> /\ cur.size = "good"
    BY <1>2 DEF Going
  <2>3. k = Len(cur.body)
    BY <1>1, <2>1, <2>2, LeftShrinks DEF HandledTo
  <2>4. got = Positions(cur)
    BY <2>1, <2>3 DEF HandledTo, Positions
  <2>5. DOMAIN cur.body = 1..k
    BY <2>2, <2>3
  <2>6. ~Has(cur, "raise")
    BY <2>1, <2>5 DEF HandledTo, Has
  <2>7. cur.body # OddJson /\ cur.body # NoJson
    BY <2>2, NotJson
  <2> QED  BY <1>2, <2>2, <2>4, <2>6, <2>7 DEF Demand, Going
<1>3. Refused => got = <<0>> /\ Demand(cur) = [framing |-> framing, ids |-> <<0>>]
  BY DEF Refused, Error
<1>4. [framing |-> framing, ids |-> got] # Absent
  <2>1. [framing |-> framing, ids |-> got] \in [framing : Framings, ids : Seq(Nat)]
    BY DEF OInv, Reading
  <2> QED  BY <2>1, NothingAssumption
<1>5. Demand(cur) = IF got = <<>> THEN Absent ELSE [framing |-> framing, ids |-> got]
  <2>1. <<0>> # <<>>
    OBVIOUS
  <2> QED  BY <1>1, <1>2, <1>3, <2>1
<1>6. Unread' = Unread
  BY <1>1 DEF Unread
<1>7. Unread \in Seq(Messages)
  BY DEF OInv, Reading, Unread
<1>8. Asked = <<cur>> \o Unread
  BY <1>1 DEF Asked
<1>9. ASSUME NoMessage PROVE Asked' = Unread
  BY <1>6, <1>7, <1>9 DEF Asked, NoMessage
<1>10. CASE got = <<>> /\ srv' = "read" /\ NoMessage /\ UNCHANGED answers
  <2>1. ~fatal /\ ~begun
    BY <1>1, <1>10 DEF Refused, Going, OInv, Reading
  <2>2. OInv'
    BY <1>1, <1>10, <2>1 DEF OInv, Reading, NoMessage, Framings
  <2> QED  BY <1>5, <1>8, <1>9, <1>10, <2>2
<1>11. CASE /\ got # <<>>
            /\ answers' = Append(answers, [framing |-> framing, ids |-> got])
            /\ srv' = (IF fatal THEN "ended" ELSE "read") /\ NoMessage
  <2>1. OInv'
    BY <1>1, <1>11 DEF OInv, Reading, NoMessage, Framings
  <2> QED  BY <1>4, <1>5, <1>8, <1>9, <1>11, <2>1
<1>12. CASE srv' = "dead" /\ UNCHANGED <<message, answers>>
  <2>1. OInv'
    BY <1>1, <1>12 DEF OInv, Reading, message
  <2>2. UNCHANGED Asked
    BY <1>6, <1>12 DEF Asked, message
  <2> QED  BY <1>12, <2>1, <2>2
<1> QED  BY <1>10, <1>11, <1>12 DEF WriteAnswer

\* The answer of an ordered service to the first message that was asked.
LEMMA ServesFirst ==
  ASSUME NEW m, NEW rest \in Seq(Messages), m \in Messages
  PROVE  /\ <<m>> \o rest # <<>> /\ Head(<<m>> \o rest) = m
         /\ Tail(<<m>> \o rest) = rest
<1> DEFINE s == <<m>> \o rest
<1>1. s \in Seq(Messages) /\ Len(s) = Len(rest) + 1 /\ s[1] = m
  OBVIOUS
<1>2. \A i \in 1..Len(rest) : s[i + 1] = rest[i]
  OBVIOUS
<1>3. s # <<>>
  BY <1>1
<1>4. Tail(s) \in Seq(Messages) /\ Len(Tail(s)) = Len(rest)
      /\ \A i \in 1..Len(rest) : Tail(s)[i] = rest[i]
  BY <1>1, <1>2, <1>3, HeadTailProperties
<1>5. Tail(s) = rest
  BY <1>4
<1> QED  BY <1>1, <1>3, <1>5

\* and so does whatever leaves the loop where it is.
LEMMA LoopKeeps ==
  ASSUME OInv, UNCHANGED <<wire, begun, srv, message>>
  PROVE  OInv' /\ UNCHANGED Asked
<1>1. Reading'
  BY DEF OInv, Reading, message
<1>2. Refused => Refused'
  BY DEF Refused, message
<1>3. \A k : HandledTo(k) => HandledTo(k)'
  BY DEF HandledTo, message
<1>4. Going => Going'
  BY <1>3 DEF Going, message
<1>5. UNCHANGED Asked
  BY DEF Asked, Unread, message
<1> QED  BY <1>1, <1>2, <1>4, <1>5 DEF OInv, message

\* A step of the server or of its client is one of the service, or none.
LEMMA ServiceStep ==
  ASSUME OInv, [ServerNext]_serverVars
  PROVE  OInv' /\ [Service!Next]_<<Asked, answers>>
<1>1. CASE ReadMessage
  <2>1. OInv' /\ cur' = Head(wire) /\ Unread' = Tail(wire) /\ ~begun /\ cur = Absent
    BY <1>1, ReadKeeps
  <2>2. wire \in Seq(Messages) /\ wire # <<>> /\ Head(wire) # Absent
    BY <1>1, NothingAssumption DEF OInv, Reading, ReadMessage
  <2>3. <<Head(wire)>> \o Tail(wire) = wire
    BY <2>2
  <2>4. Asked = wire
    BY <2>1, <2>2 DEF Asked, Unread
  <2>5. Asked' = wire
    BY <2>1, <2>2, <2>3 DEF Asked
  <2> QED  BY <1>1, <2>1, <2>4, <2>5 DEF ReadMessage
<1>2. CASE ReadEnd
  <2>1. UNCHANGED <<wire, begun, cur, todo, got, framing, fatal, answers>>
        /\ srv = "read" /\ srv' = "ended"
    BY <1>2 DEF ReadEnd, client, message
  <2>2. OInv'
    BY <2>1 DEF OInv, Reading
  <2> QED  BY <2>1, <2>2 DEF Asked, Unread
<1>3. CASE HandleEntry
  <2>1. OInv'
    BY <1>3, EntryKeeps
  <2> QED  BY <1>3, <2>1 DEF HandleEntry, client, Asked, Unread
<1>4. CASE CallTool
  <2>1. OInv'
    BY <1>4, CallKeeps
  <2> QED  BY <1>4, <2>1 DEF CallTool, client, message, Asked, Unread
<1>5. CASE ToolReturns
  <2>1. OInv'
    BY <1>5, ReturnKeeps
  <2> QED  BY <1>5, <2>1 DEF ToolReturns, client, Asked, Unread
<1>6. CASE WriteAnswer
  <2>1. OInv'
    BY <1>6, AnswerKeeps
  <2>2. CASE UNCHANGED <<Asked, answers>>
    BY <2>1, <2>2
  <2>3. CASE /\ Asked = <<cur>> \o Unread /\ Asked' = Unread
             /\ answers' = IF Demand(cur) = Absent THEN answers
                           ELSE Append(answers, Demand(cur))
    <3>1. Unread \in Seq(Messages) /\ cur \in Messages
      BY <1>6 DEF OInv, Reading, Unread, WriteAnswer
    <3>2. Asked # <<>> /\ Head(Asked) = cur /\ Tail(Asked) = Unread
      BY <2>3, <3>1, ServesFirst
    <3>3. Service!Serve
      BY <2>3, <3>2 DEF Service!Serve
    <3> QED  BY <2>1, <3>3 DEF Service!Next
  <2> QED  BY <1>6, <2>2, <2>3, AnswerKeeps
<1>7. CASE UNCHANGED stdioVars
  <2>1. UNCHANGED <<wire, begun, srv, message, answers>>
    BY <1>7 DEF stdioVars, message
  <2> QED  BY <2>1, LoopKeeps
<1>8. ASSUME NEW m \in Messages, Send(m)
      PROVE  OInv' /\ [Service!Next]_<<Asked, answers>>
  <2>1. /\ wire' = Append(wire, m) /\ srv # "dead"
        /\ UNCHANGED <<begun, srv, message, answers>>
    BY <1>8 DEF Send
  <2>2. wire \in Seq(Messages) /\ wire' \in Seq(Messages) /\ wire' # <<>>
    BY <2>1 DEF OInv, Reading
  <2>3. begun => Tail(wire') = Append(Tail(wire), m)
    BY <2>1, <2>2 DEF OInv, Reading
  <2>4. Unread' = Append(Unread, m) /\ Unread \in Seq(Messages)
    BY <2>1, <2>2, <2>3 DEF Unread, OInv, Reading
  <2>5. cur' = cur /\ (cur # Absent => cur \in Messages)
    BY <2>1 DEF message, OInv, Reading
  <2>6. Asked' = Append(Asked, m)
    BY <2>4, <2>5 DEF Asked
  <2>7. Service!Ask
    BY <2>1, <2>6 DEF Service!Ask
  <2>8. Reading'
    BY <2>1, <2>2 DEF OInv, Reading, message
  <2>9. Refused => Refused'
    BY <2>1 DEF Refused, message
  <2>10. \A k : HandledTo(k) => HandledTo(k)'
    BY <2>1 DEF HandledTo, message
  <2>11. Going => Going'
    BY <2>1, <2>10 DEF Going, message
  <2>12. OInv'
    BY <2>1, <2>8, <2>9, <2>11 DEF OInv, message
  <2> QED  BY <2>7, <2>12 DEF Service!Next
<1>9. CASE CloseInput
  <2>1. UNCHANGED <<wire, begun, srv, message, answers>>
    BY <1>9 DEF CloseInput
  <2> QED  BY <2>1, LoopKeeps
<1>10. CASE Kill
  <2>1. UNCHANGED <<wire, begun, message, answers>> /\ srv' = "dead"
    BY <1>10 DEF Kill
  <2>2. OInv'
    BY <2>1 DEF OInv, Reading, message
  <2> QED  BY <2>1, <2>2 DEF Asked, Unread, message
<1>11. CASE Restart
  <2>1. /\ wire' = <<>> /\ begun' = FALSE /\ answers' = <<>> /\ srv' = "read"
        /\ cur' = Absent /\ got' = <<>> /\ framing' = "framed"
    BY <1>11 DEF Restart, NoMessage
  <2>2. OInv' /\ Asked' = <<>>
    <3>1. wire' \in Seq(Messages)
      BY <2>1
    <3>2. got' \in Seq(Nat)
      BY <2>1
    <3>3. Asked' = <<>>
      BY <2>1 DEF Asked, Unread
    <3> QED  BY <2>1, <3>1, <3>2, <3>3 DEF OInv, Reading, Framings
  <2>3. Service!Renew
    BY <2>1, <2>2 DEF Service!Renew
  <2> QED  BY <2>2, <2>3 DEF Service!Next
<1>12. CASE UNCHANGED serverVars
  BY <1>7, <1>12 DEF serverVars
<1> QED  BY <1>1, <1>2, <1>3, <1>4, <1>5, <1>6, <1>7, <1>8, <1>9, <1>10, <1>11, <1>12
         DEF ServerNext, ServerStep

\* The server is an ordered service: every message that demands an answer gets
\* it once, in the order sent and in its framing, and no text is taken for a
\* message that was sent as part of another.
THEOREM ServerImplementsService == ServerSpec => ImplementsService
<1>1. ServerInit => OInv /\ Service!Init
  <2> SUFFICES ASSUME ServerInit PROVE OInv /\ Service!Init
    OBVIOUS
  <2>1. wire \in Seq(Messages)
    BY DEF ServerInit
  <2>2. got \in Seq(Nat)
    BY DEF ServerInit
  <2>3. OInv
    BY <2>1, <2>2 DEF ServerInit, OInv, Reading, Framings
  <2> QED  BY <2>3 DEF ServerInit, Service!Init, Asked, Unread
<1>2. OInv /\ [ServerNext]_serverVars => OInv' /\ [Service!Next]_<<Asked, answers>>
  BY ServiceStep
<1> QED  BY <1>1, <1>2, PTL DEF ServerSpec, ImplementsService, Service!Spec

=============================================================================
