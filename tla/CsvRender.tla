------------------------------ MODULE CsvRender ------------------------------
(***************************************************************************)
(* figops.render_csv_graph and figops.render_csv_multipanel                *)
(* (hub_core/mcp/tools/render_csv.py, render_csv_multipanel_handler.py,    *)
(* hub_core/mcp/render_orchestration.py): a figure is drawn from a table   *)
(* in the workspace of a job, by a worker process that the server waits    *)
(* for until a deadline and then kills.                                    *)
(*                                                                         *)
(* The tool is started and its reply taken by StdioServer.tla.  Others     *)
(* change the table meanwhile; a worker hangs, fails or dies at any point, *)
(* also while it writes its result; the server may die and leave it alone. *)
(***************************************************************************)
EXTENDS Naturals, Sequences, FiniteSets

CONSTANTS
  Contents,  \* what the table may hold
  Fit,       \* the contents that meet the data contract
  MaxCalls,  \* bound: number of calls
  MaxEdits,  \* bound: number of changes of the table by others
  Absent     \* no file, no workspace, no call

ASSUME FitAssumption == Fit \subseteq Contents /\ Absent \notin Contents
ASSUME CallBounds == MaxCalls \in Nat /\ MaxEdits \in Nat

Calls == 1..MaxCalls

\* What is in a workspace: the copy of the table, the figure, the manifest and
\* the status, each of which may be missing.
Figures   == [by : Calls, of : Contents, whole : BOOLEAN]
Manifests == [by : Calls, ok : BOOLEAN, copy : Contents \cup {Absent},
              fig : Figures \cup {Absent}]
Statuses  == [by : Calls, ok : BOOLEAN]
Spaces    == [copy : Contents \cup {Absent}, fig : Figures \cup {Absent},
              man : Manifests \cup {Absent}, sts : Statuses \cup {Absent}]

ASSUME AbsentAssumption == Absent \notin Spaces \cup Manifests

VARIABLES
  table,    \* the table of the request
  edits,
  space,    \* the workspace of the job, or Absent
  latest,   \* the two files under _latest/mcp_render: whose, and how it went
  calls,    \* number of calls so far
  tool,     \* where the handler is
  order,    \* the call it serves
  verdict,  \* the manifest it has built
  stage,    \* which of the four files it writes next
  reply,    \* its answer
  worker,   \* worker[c]: the worker process of call c
  orphans   \* history: workers whose server died before them

csvVars == <<table, edits, space, latest, calls, tool, order, verdict, stage,
             reply, worker, orphans>>

Orders    == [multi : BOOLEAN, overwrite : BOOLEAN, dry : BOOLEAN]
NoCall    == [multi |-> FALSE, overwrite |-> FALSE, dry |-> FALSE]
NoWorker  == [at |-> "none", of |-> Absent, result |-> "none"]
EmptySpace == [copy |-> Absent, fig |-> Absent, man |-> Absent, sts |-> Absent]

\* A worker that runs: it has to read the copy, to draw, to finish drawing, to
\* write its result and to exit.
Alive(c) == worker[c].at \in {"started", "read", "half", "drawn", "tells"}

CsvInit ==
  /\ table \in Fit /\ edits = 0
  /\ space = Absent /\ latest = [man |-> Absent, sts |-> Absent]
  /\ calls = 0 /\ tool = "idle" /\ order = NoCall
  /\ verdict = Absent /\ stage = 1 /\ reply = "none"
  /\ worker = [c \in Calls |-> NoWorker] /\ orphans = {}

disk  == <<table, edits, space, latest>>
frame == <<calls, order, orphans>>

Answer(r) == tool' = "answer" /\ reply' = r /\ UNCHANGED <<verdict, stage>>
Goto(t)   == tool' = t /\ UNCHANGED <<verdict, stage, reply>>

-----------------------------------------------------------------------------
(* The handler. *)

Begin(o) ==
  /\ tool = "idle" /\ calls < MaxCalls
  /\ calls' = calls + 1 /\ order' = o
  /\ Goto("arguments")
  /\ UNCHANGED <<disk, worker, orphans>>

\* Arguments, style and settings are checked.  A refusal is not persisted.
CheckArguments ==
  /\ tool = "arguments"
  /\ Answer("refused") \/ Goto("contract")
  /\ UNCHANGED <<disk, frame, worker>>

\* The table is checked against its contract, calculations and claims against
\* the table; a dry run ends here.
CheckTable ==
  /\ tool = "contract"
  /\ \/ Answer("refused")
     \/ table \in Fit /\ order.dry /\ Answer("validated")
     \/ table \in Fit /\ ~order.dry /\ Goto("exists")
  /\ UNCHANGED <<disk, frame, worker>>

Exists ==
  /\ tool = "exists"
  /\ IF space = Absent THEN Goto("copy")
     ELSE IF order.overwrite THEN Goto("clear") ELSE Answer("refused")
  /\ UNCHANGED <<disk, frame, worker>>

\* shutil.rmtree, outside the handler's try: an exception is the answer, and
\* what was not yet removed stays.
Clear ==
  /\ tool = "clear"
  /\ \/ space' = Absent /\ Goto("copy")
     \/ /\ \E kept \in SUBSET DOMAIN space :
             space' = [x \in DOMAIN space |-> IF x \in kept THEN space[x] ELSE Absent]
        /\ Answer("failed")
  /\ UNCHANGED <<table, edits, latest, frame, worker>>

\* The workspace is made and the table copied into it, as it now is.
CopyData ==
  /\ tool = "copy"
  /\ \/ /\ table # Absent
        /\ space' = [EmptySpace EXCEPT !.copy = table]
        /\ Goto("start")
     \/ space' = EmptySpace /\ Goto("failed")
  /\ UNCHANGED <<table, edits, latest, frame, worker>>

StartWorker ==
  /\ tool = "start"
  /\ \/ worker' = [worker EXCEPT ![calls].at = "started"] /\ Goto("join")
     \/ UNCHANGED worker /\ Goto("failed")
  /\ UNCHANGED <<disk, frame>>

\* Mutant: any worker that has gone has done its work.
CollectAny ==
  /\ tool = "join" /\ ~Alive(calls)
  /\ Goto("seal")
  /\ UNCHANGED <<disk, frame, worker>>

\* The worker has gone in time: its exit code and its result decide.
Collect ==
  /\ tool = "join" /\ ~Alive(calls)
  /\ Goto(IF worker[calls].at = "exited" /\ worker[calls].result = "ok"
            THEN "seal" ELSE "failed")
  /\ UNCHANGED <<disk, frame, worker>>

\* Mutant: the test of is_alive is the wrong way round.
GiveUpOnDead ==
  /\ tool = "join" /\ ~Alive(calls)
  /\ Goto("reap")
  /\ UNCHANGED <<disk, frame, worker>>

\* The deadline: the worker is asked to end and, after a while, killed.
GiveUp ==
  /\ tool = "join" /\ Alive(calls)
  /\ Goto("reap")
  /\ UNCHANGED <<disk, frame, worker>>

\* Mutant: the worker is asked to end, and left.
ReapNot ==
  /\ tool = "reap"
  /\ Goto("failed")
  /\ UNCHANGED <<disk, frame, worker>>

Reap ==
  /\ tool = "reap"
  /\ worker' = [worker EXCEPT ![calls].at = IF Alive(calls) THEN "killed" ELSE @]
  /\ Goto("failed")
  /\ UNCHANGED <<disk, frame>>

\* The figure is hashed for preview, provenance and evidence; the manifest is
\* built.  A figure that is not there, or cannot be inspected, raises.
Seal ==
  /\ tool = "seal"
  /\ \/ /\ space # Absent /\ space.fig # Absent
        /\ verdict' = [by |-> calls, ok |-> TRUE, copy |-> space.copy, fig |-> space.fig]
        /\ tool' = "write" /\ stage' = 1 /\ UNCHANGED reply
     \/ Goto("failed")
  /\ UNCHANGED <<disk, frame, worker>>

StatusOf(m) == [by |-> m.by, ok |-> m.ok]

\* write_manifest_and_status: manifest, status, and both once more for _latest.
Write ==
  /\ tool = "write"
  /\ \/ /\ stage = 1 /\ space # Absent
        /\ space' = [space EXCEPT !.man = verdict] /\ UNCHANGED latest
     \/ /\ stage = 2 /\ space # Absent
        /\ space' = [space EXCEPT !.sts = StatusOf(verdict)] /\ UNCHANGED latest
     \/ /\ stage = 3
        /\ latest' = [latest EXCEPT !.man = StatusOf(verdict)] /\ UNCHANGED space
     \/ /\ stage = 4
        /\ latest' = [latest EXCEPT !.sts = StatusOf(verdict)] /\ UNCHANGED space
  /\ IF stage < 4
       THEN stage' = stage + 1 /\ UNCHANGED <<tool, reply, verdict>>
       ELSE /\ tool' = "answer" /\ reply' = IF verdict.ok THEN "ok" ELSE "failed"
            /\ UNCHANGED <<stage, verdict>>
  /\ UNCHANGED <<table, edits, frame, worker>>

\* A write raises: a success becomes a failure, a failure the answer.
WriteRaises ==
  /\ tool = "write"
  /\ IF verdict.ok THEN Goto("failed") ELSE Answer("failed")
  /\ UNCHANGED <<disk, frame, worker>>

\* The except branch: render_csv_graph writes the failure into a workspace that
\* exists,
Failed ==
  /\ tool = "failed" /\ ~order.multi
  /\ IF space # Absent
       THEN /\ verdict' = [by |-> calls, ok |-> FALSE, copy |-> Absent, fig |-> Absent]
            /\ tool' = "write" /\ stage' = 1 /\ UNCHANGED reply
       ELSE Answer("failed")
  /\ UNCHANGED <<disk, frame, worker>>

\* render_csv_multipanel writes nothing.
PanelsFailed ==
  /\ tool = "failed" /\ order.multi
  /\ Answer("failed")
  /\ UNCHANGED <<disk, frame, worker>>

-----------------------------------------------------------------------------
(* The worker of call c, which knows nothing but paths. *)

WorkerAt(c, from, to) == worker[c].at = from /\ worker' = [worker EXCEPT ![c].at = to]

handler == <<latest, tool, verdict, stage, reply, frame, table, edits>>

WorkerReads(c) ==
  /\ worker[c].at = "started" /\ space # Absent /\ space.copy # Absent
  /\ worker' = [worker EXCEPT ![c] =
                  [at |-> "read", of |-> space.copy, result |-> "none"]]
  /\ UNCHANGED <<handler, space>>

\* It opens the output, and has half of it on disk,
WorkerDraws(c) ==
  /\ space # Absent /\ WorkerAt(c, "read", "half")
  /\ space' = [space EXCEPT !.fig = [by |-> c, of |-> worker[c].of, whole |-> FALSE]]
  /\ UNCHANGED handler

\* then all of it, if the workspace is still there,
WorkerFinishes(c) ==
  /\ WorkerAt(c, "half", "drawn")
  /\ space' = IF space = Absent THEN space
              ELSE [space EXCEPT !.fig = [by |-> c, of |-> worker[c].of, whole |-> TRUE]]
  /\ UNCHANGED handler

\* and writes its result: the figure's path, or the exception that any step
\* may raise.
WorkerTells(c) ==
  /\ \/ WorkerAt(c, "drawn", "tells")
     \/ \E from \in {"started", "read", "half", "drawn"} :
          /\ worker[c].at = from
          /\ worker' = [worker EXCEPT ![c] =
                          [at |-> "tells", of |-> Absent, result |-> "none"]]
  /\ UNCHANGED <<handler, space>>

WorkerExits(c) ==
  /\ worker[c].at = "tells"
  /\ worker' = [worker EXCEPT ![c] =
                  [at |-> "exited", of |-> worker[c].of,
                   result |-> IF worker[c].of = Absent THEN "error" ELSE "ok"]]
  /\ UNCHANGED <<handler, space>>

\* It dies of a signal, or raises while it writes the result.
WorkerDies(c) ==
  /\ Alive(c)
  /\ worker' = [worker EXCEPT ![c].at = "killed"]
  /\ UNCHANGED <<handler, space>>

WorkerStep(c) ==
  \/ WorkerReads(c) \/ WorkerDraws(c) \/ WorkerFinishes(c) \/ WorkerTells(c)
  \/ WorkerExits(c) \/ WorkerDies(c)

-----------------------------------------------------------------------------
\* Others change or remove the table.
EditTable ==
  /\ edits < MaxEdits
  /\ edits' = edits + 1
  /\ table' \in (Contents \cup {Absent}) \ {table}
  /\ UNCHANGED <<space, latest, calls, tool, order, verdict, stage, reply, worker,
                 orphans>>

\* The server of the tool dies: its worker, if it has one, goes on alone.
Abandon ==
  /\ tool' = "idle" /\ order' = NoCall /\ verdict' = Absent /\ stage' = 1
  /\ reply' = "none"
  /\ orphans' = orphans \cup {c \in Calls : Alive(c)}
  /\ UNCHANGED <<disk, calls, worker>>

\* Everything the handler does by itself; it waits for nothing but the worker,
\* and for that no longer than its deadline.
Handle ==
  \/ CheckArguments \/ CheckTable \/ Exists \/ Clear \/ CopyData \/ StartWorker \/ Collect \/ GiveUp
  \/ Reap \/ Seal \/ Write \/ WriteRaises \/ Failed \/ PanelsFailed

\* The reply is taken; the result file went with its temporary directory.
Return ==
  /\ tool = "answer"
  /\ tool' = "idle" /\ order' = NoCall /\ verdict' = Absent /\ stage' = 1
  /\ reply' = "none"
  /\ worker' = [worker EXCEPT ![calls] = IF Alive(calls) THEN @ ELSE NoWorker]
  /\ UNCHANGED <<disk, calls, orphans>>

-----------------------------------------------------------------------------
Processes ==
  [at : {"none", "started", "read", "half", "drawn", "tells", "exited", "killed"},
   of : Contents \cup {Absent}, result : {"none", "ok", "error"}]

CsvTypeOK ==
  /\ table \in Contents \cup {Absent} /\ edits \in 0..MaxEdits
  /\ space \in Spaces \cup {Absent}
  /\ latest \in [man : Statuses \cup {Absent}, sts : Statuses \cup {Absent}]
  /\ calls \in 0..MaxCalls /\ order \in Orders
  /\ tool \in {"idle", "arguments", "contract", "exists", "clear", "copy", "start", "join",
               "reap", "seal", "write", "failed", "answer"}
  /\ tool # "idle" => calls \in Calls
  /\ tool = "clear" => space # Absent
  /\ verdict \in Manifests \cup {Absent} /\ stage \in 1..4
  /\ tool = "write" => verdict # Absent
  /\ reply \in {"none", "ok", "failed", "refused", "validated"}
  /\ worker \in [Calls -> Processes]
  /\ orphans \subseteq Calls

\* No worker outlives the call that started it, whatever it hangs in, unless
\* the server died: the tool answers only after it has gone.
NoWorkerLeftBehind ==
  tool \in {"idle", "answer"} => \A c \in Calls : Alive(c) => c \in orphans

\* A figure that a client is told of is there, whole, drawn by the worker of
\* this very call from the very copy the manifest seals, and all four files
\* say so: a worker that failed, hung, was killed, or died while it wrote its
\* result, of this call or of one before, never passes for a success
\* (_run_render_bridge_figure, render_csv_graph).
OkReplyTrue ==
  tool = "answer" /\ reply = "ok" /\ orphans = {} =>
    LET ours == [by |-> calls, ok |-> TRUE] IN
      /\ space.man = verdict /\ space.fig = verdict.fig
      /\ verdict.fig = [by |-> calls, of |-> space.copy, whole |-> TRUE]
      /\ space.sts = ours /\ latest = [man |-> ours, sts |-> ours]

\* Between calls, a manifest that reports success is of the figure beside it,
\* however later calls on the same job were refused, failed or half-removed it.
ManifestMatchesFigure ==
  tool = "idle" /\ orphans = {} /\ space # Absent /\ space.man # Absent /\ space.man.ok =>
    space.fig \in {space.man.fig, Absent} /\ space.man.fig.whole

=============================================================================
