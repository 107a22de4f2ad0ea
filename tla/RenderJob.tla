------------------------------ MODULE RenderJob ------------------------------
(***************************************************************************)
(* figops.render_project_figure (hub_core/mcp/tools/render_project.py and  *)
(* what it calls): a figure of a project is rendered in the workspace of a *)
(* job, below a runtime root that several servers may share.  A request    *)
(* validates the project, copies it into the workspace, runs the figure's  *)
(* script there, seals what the script left, writes manifest and status    *)
(* one after the other, and promotes an eligible result to the project's   *)
(* durable results (in detail: DurablePromotion.tla).  Every failure after *)
(* the workspace exists is written over manifest and status.               *)
(*                                                                         *)
(* The user edits the project meanwhile; servers die; a script that left   *)
(* its process group outlives its run, may still write, and holds up the   *)
(* server for as long as it keeps the pipe of its output.                  *)
(***************************************************************************)
EXTENDS Naturals, FiniteSets

CONSTANTS
  Servers,    \* server processes on one runtime root, each single-threaded
              \* (numbers: they are interchangeable, the first idle one serves)
  Jobs,       \* job ids
  MaxRuns,    \* bound: number of requests
  MaxEdits,   \* bound: number of edits of the project
  Lingering,  \* bound: after which outcomes of a script (success, "seal", or
              \* "failed") something of it may run on
  None        \* no request, no file, no directory

ASSUME BoundsAssumption ==
  /\ Servers \subseteq Nat /\ MaxRuns \in Nat /\ MaxEdits \in Nat
  /\ Lingering \subseteq {"seal", "failed"}

VARIABLES
  exclusive,  \* is a job requested by one server at a time?
  source,     \* version of the files the figure's claims bind: script,
              \* configuration, inputs, evidence
  runs,       \* number of requests so far; a request is known by its number
  pc,         \* pc[s]: where server s is
  req,        \* req[s]: the request it serves
  seen,       \* seen[s]: the version whose claims it verified
  ins,        \* ins[s]: the version its pre-execution hashes describe
  rd,         \* rd[s]: the version its script works on
  verdict,    \* verdict[s]: the manifest it is writing and promoting
  dir,        \* dir[j]: the workspace of job j, or None
  latest,     \* _latest/mcp_project_render
  store,      \* durable results: artifact and receipt
  strays,     \* what scripts left running outside their process group
  disturbed,  \* history: jobs in whose workspace a stray wrote
  answered    \* requests that were answered, or lost with their server

frame == <<req, seen, ins, rd, verdict>>
world == <<exclusive, source, runs, strays, disturbed>>
vars  == <<world, pc, frame, dir, latest, store, answered>>

Runs     == 1..MaxRuns
Versions == 0..MaxEdits
Bytes    == [by : Runs, of : Versions]      \* what a script writes
Requests == [job : Jobs, run : Runs, overwrite : BOOLEAN]
Manifest == [run : Runs, ok : BOOLEAN, claims : Versions, inputs : Versions,
             out : Bytes \cup {None}]
Status   == [run : Runs, ok : BOOLEAN]
Dir      == [snap : Versions \cup {None}, out : Bytes \cup {None},
             man : Manifest \cup {None}, sts : Status \cup {None}]
\* Durable files: the artifact holds bytes, the receipt names the manifest.
Artifact == [id : Runs, data : Bytes]
Receipt  == [id : Runs, data : Manifest]
ASSUME NoneAssumption ==
  /\ None \notin Jobs \cup Nat
  /\ None \notin Requests \cup Bytes \cup Manifest \cup Status \cup Dir
                  \cup Artifact \cup Receipt

Writes   == {"manifest", "status", "latest_manifest", "latest_status"}
Phases   == {"idle", "validate", "exists", "clear", "snapshot", "hash",
             "script", "held", "seal", "promote", "install", "receipt", "failed"}
              \cup Writes

Job(s) == req[s].job
Run(s) == req[s].run
At(s)  == dir[Job(s)]
EmptyDir   == [snap |-> None, out |-> None, man |-> None, sts |-> None]
There(s)   == IF At(s) = None THEN EmptyDir ELSE At(s)   \* made if need be
Serving(s) == pc[s] # "idle"
Busy(j)    == \E s \in Servers : Serving(s) /\ Job(s) = j
StatusOf(m) == [run |-> m.run, ok |-> m.ok]

Init ==
  /\ exclusive \in BOOLEAN
  /\ source = 0 /\ runs = 0
  /\ pc = [s \in Servers |-> "idle"]
  /\ req = [s \in Servers |-> None] /\ verdict = req
  /\ seen = [s \in Servers |-> 0] /\ ins = seen /\ rd = seen
  /\ dir = [j \in Jobs |-> None]
  /\ latest = [man |-> None, sts |-> None]
  /\ store = [art |-> None, rcp |-> None]
  /\ strays = {} /\ disturbed = {}
  /\ answered = {}

-----------------------------------------------------------------------------
(* Control.                                                                *)

Goto(s, ph) == pc' = [pc EXCEPT ![s] = ph]

\* The envelope is returned (or call_tool makes one of an exception); what
\* the handler knew is gone with its frame.
Answer(s) ==
  /\ answered' = answered \cup {Run(s)}
  /\ Goto(s, "idle")
  /\ req' = [req EXCEPT ![s] = None] /\ verdict' = [verdict EXCEPT ![s] = None]
  /\ seen' = [seen EXCEPT ![s] = 0]
  /\ ins' = [ins EXCEPT ![s] = 0] /\ rd' = [rd EXCEPT ![s] = 0]

\* An exception of a step of the rendering.
Raises(s) == Goto(s, "failed") /\ UNCHANGED <<frame, dir, store, answered>>

\* A request arrives.  Job ids are chosen by clients.
Request(s, j, overwrite) ==
  /\ ~Serving(s) /\ runs < MaxRuns
  /\ \A t \in Servers : t < s => Serving(t)
  /\ exclusive => ~Busy(j)
  /\ runs' = runs + 1
  /\ req' = [req EXCEPT ![s] =
               [job |-> j, run |-> runs + 1, overwrite |-> overwrite]]
  /\ Goto(s, "validate")
  /\ UNCHANGED <<exclusive, source, strays, disturbed, seen, ins, rd, verdict,
                 dir, latest, store, answered>>

\* What a failing run writes: _write_project_render_failure_artifacts.
FailedManifest(s) ==
  [run |-> Run(s), ok |-> FALSE, claims |-> 0, inputs |-> 0, out |-> None]

\* Path, configuration, contracts, figure and style are checked and the
\* claims verified.  The request goes on, or is refused or only checked
\* (dry_run).  Some refusals are written to the job's manifest and status
\* (persist_failure), before anything asks whether the job exists.
Validate(s) ==
  /\ pc[s] = "validate"
  /\ \/ /\ Goto(s, "exists")
        /\ seen' = [seen EXCEPT ![s] = source]
        /\ UNCHANGED <<req, ins, rd, verdict, dir, answered>>
     \/ /\ Answer(s)
        /\ UNCHANGED dir
     \/ /\ verdict' = [verdict EXCEPT ![s] = FailedManifest(s)]
        /\ dir' = [dir EXCEPT ![Job(s)] = There(s)]
        /\ Goto(s, "manifest")
        /\ UNCHANGED <<req, seen, ins, rd, answered>>
  /\ UNCHANGED <<world, latest, store>>

\* An existing job is replaced only when the request says so.
Exists(s) ==
  /\ pc[s] = "exists"
  /\ \/ /\ At(s) # None /\ ~req[s].overwrite
        /\ Answer(s)
     \/ /\ At(s) # None /\ req[s].overwrite
        /\ Goto(s, "clear")
        /\ UNCHANGED <<frame, answered>>
     \/ /\ At(s) = None
        /\ Goto(s, "snapshot")
        /\ UNCHANGED <<frame, answered>>
  /\ UNCHANGED <<world, dir, latest, store>>

\* What a removal that did not finish leaves of a workspace.
Remains(d) ==
  {[snap |-> None, out |-> o, man |-> m, sts |-> t] :
     o \in {d.out, None}, m \in {d.man, None}, t \in {d.sts, None}}

\* Mutant: the workspace is rendered into as it is.
ClearNothing(s) ==
  /\ pc[s] = "clear"
  /\ Goto(s, "snapshot")
  /\ UNCHANGED <<world, frame, dir, latest, store, answered>>

\* shutil.rmtree stands outside the handler's try: its exception answers the
\* request and leaves what is left of the workspace.
Clear(s) ==
  /\ pc[s] = "clear"
  /\ \/ /\ dir' = [dir EXCEPT ![Job(s)] = None]
        /\ Goto(s, "snapshot")
        /\ UNCHANGED <<frame, answered>>
     \/ /\ At(s) # None
        /\ \E d \in Remains(At(s)) : dir' = [dir EXCEPT ![Job(s)] = d]
        /\ Answer(s)
  /\ UNCHANGED <<world, latest, store>>

-----------------------------------------------------------------------------
(* Rendering.                                                              *)

\* _copy_project_snapshot makes the copy in the workspace anew; a file of the
\* project may be refused or missing.
Snapshot(s) ==
  /\ pc[s] = "snapshot"
  /\ \E copied \in BOOLEAN :
       /\ dir' = [dir EXCEPT ![Job(s)] =
            [snap |-> IF copied THEN source ELSE None, out |-> None,
             man |-> There(s).man, sts |-> There(s).sts]]
       /\ Goto(s, IF copied THEN "hash" ELSE "failed")
  /\ UNCHANGED <<world, frame, latest, store, answered>>

HasSnapshot(s) == At(s) # None /\ At(s).snap # None

\* _mcp_project_pre_execution_hashes; the script is then started on the copy.
Hash(s) ==
  /\ pc[s] = "hash"
  /\ \/ /\ HasSnapshot(s)
        /\ ins' = [ins EXCEPT ![s] = At(s).snap]
        /\ rd' = [rd EXCEPT ![s] = At(s).snap]
        /\ Goto(s, "script")
        /\ UNCHANGED <<req, seen, verdict, dir, store, answered>>
     \/ Raises(s)
  /\ UNCHANGED <<world, latest>>

\* The script writes its output, if its directory is still there.
ScriptWrites(s) ==
  /\ pc[s] = "script" /\ HasSnapshot(s)
  /\ dir' = [dir EXCEPT ![Job(s)].out = [by |-> Run(s), of |-> rd[s]]]
  /\ UNCHANGED <<world, pc, frame, latest, store, answered>>

\* Mutant: no deadline is set, a script that hangs is waited for.
ScriptMayHang(s) ==
  /\ pc[s] = "script" /\ HasSnapshot(s) /\ At(s).out # None
  /\ \E ph \in {"seal", "failed"} : Goto(s, ph)
  /\ rd' = [rd EXCEPT ![s] = 0]
  /\ UNCHANGED <<world, req, seen, ins, verdict, dir, latest, store, answered>>

Stray(s, pipe) == [job |-> Job(s), run |-> Run(s), of |-> rd[s], pipe |-> pipe]

\* Something that run r left behind keeps the write end of its output.
PipeKept(r) == \E x \in strays : x.run = r /\ x.pipe

\* The script's own process ends: success, failure, or the deadline and with it
\* the process group.  Whatever left the group lives on.  If that keeps the
\* pipe, supervise_process has joined its reader in vain and is now closing the
\* stream, which waits for the reader.
ScriptEnds(s) ==
  /\ pc[s] = "script"
  /\ \/ \E ph \in {"seal", "failed"} : Goto(s, ph) /\ UNCHANGED strays
     \/ \E ph \in Lingering : Goto(s, ph) /\ strays' = strays \cup {Stray(s, FALSE)}
     \/ Goto(s, "held") /\ strays' = strays \cup {Stray(s, TRUE)}
  /\ rd' = [rd EXCEPT ![s] = 0]
  /\ UNCHANGED <<exclusive, source, runs, disturbed, req, seen, ins, verdict,
                 dir, latest, store, answered>>

\* The reader has seen the end of the output; the run has timed out.
PipeCloses(s) ==
  /\ pc[s] = "held" /\ ~PipeKept(Run(s))
  /\ Raises(s)
  /\ UNCHANGED <<world, latest>>

\* What outlived its run writes into whatever stands at its path (bound: once
\* when it has let go of the pipe),
StrayWrites(x) ==
  /\ x \in strays
  /\ dir[x.job] # None /\ dir[x.job].snap # None
  /\ dir' = [dir EXCEPT ![x.job].out = [by |-> x.run, of |-> x.of]]
  /\ strays' = IF x.pipe THEN strays ELSE strays \ {x}
  /\ disturbed' = disturbed \cup {x.job}
  /\ UNCHANGED <<exclusive, source, runs, pc, frame, latest, store, answered>>

\* and may close the pipe, or die, at any time or never.
StrayLetsGo(x) ==
  /\ x \in strays /\ x.pipe
  /\ strays' = (strays \ {x}) \cup {[x EXCEPT !.pipe = FALSE]}
  /\ UNCHANGED <<exclusive, source, runs, disturbed, pc, frame, dir, latest,
                 store, answered>>

\* The output is hashed for preview artifacts, provenance and evidence, and
\* the manifest is built.
Seal(s) ==
  /\ pc[s] = "seal"
  /\ \/ /\ At(s) # None /\ At(s).out # None
        /\ verdict' = [verdict EXCEPT ![s] =
             [run |-> Run(s), ok |-> TRUE, claims |-> seen[s],
              inputs |-> ins[s], out |-> At(s).out]]
        /\ ins' = [ins EXCEPT ![s] = 0]
        /\ Goto(s, "manifest")
        /\ UNCHANGED <<req, seen, rd, dir, store, answered>>
     \/ Raises(s)
  /\ UNCHANGED <<world, latest>>

-----------------------------------------------------------------------------
(* write_manifest_and_status: four files, each replaced atomically.        *)

\* Mutant: the status is written first.
WriteManifestLate(s) ==
  /\ pc[s] = "manifest" /\ At(s) # None
  /\ \/ /\ dir' = [dir EXCEPT ![Job(s)].sts = StatusOf(verdict[s])]
        /\ UNCHANGED pc
     \/ /\ dir' = [dir EXCEPT ![Job(s)].man = verdict[s]]
        /\ Goto(s, "status")
  /\ UNCHANGED <<world, frame, latest, store, answered>>

WriteManifest(s) ==
  /\ pc[s] = "manifest" /\ At(s) # None
  /\ dir' = [dir EXCEPT ![Job(s)].man = verdict[s]]
  /\ Goto(s, "status")
  /\ UNCHANGED <<world, frame, latest, store, answered>>

WriteStatus(s) ==
  /\ pc[s] = "status" /\ At(s) # None
  /\ dir' = [dir EXCEPT ![Job(s)].sts = StatusOf(verdict[s])]
  /\ Goto(s, "latest_manifest")
  /\ UNCHANGED <<world, frame, latest, store, answered>>

WriteLatestManifest(s) ==
  /\ pc[s] = "latest_manifest"
  /\ latest' = [latest EXCEPT !.man = StatusOf(verdict[s])]
  /\ Goto(s, "latest_status")
  /\ UNCHANGED <<world, frame, dir, store, answered>>

\* The last write of a failed run answers the request; a rendered figure goes
\* on to promotion.
WriteLatestStatus(s) ==
  /\ pc[s] = "latest_status"
  /\ latest' = [latest EXCEPT !.sts = StatusOf(verdict[s])]
  /\ \/ verdict[s].ok /\ Goto(s, "promote") /\ UNCHANGED <<frame, answered>>
     \/ ~verdict[s].ok /\ Answer(s)
  /\ UNCHANGED <<world, dir, store>>

\* A write raises (a full disk, a workspace that was removed): the failure of
\* a rendered figure is written in turn, that of a failure is the answer.
WriteRaises(s) ==
  /\ pc[s] \in Writes
  /\ \/ verdict[s].ok /\ Goto(s, "failed") /\ UNCHANGED <<frame, answered>>
     \/ ~verdict[s].ok /\ Answer(s)
  /\ UNCHANGED <<world, dir, latest, store>>

\* The handler's except branch: a workspace that exists gets the failure.
Failed(s) ==
  /\ pc[s] = "failed"
  /\ \/ /\ At(s) # None
        /\ verdict' = [verdict EXCEPT ![s] = FailedManifest(s)]
        /\ ins' = [ins EXCEPT ![s] = 0]
        /\ Goto(s, "manifest")
        /\ UNCHANGED <<req, seen, rd, answered>>
     \/ /\ At(s) = None
        /\ Answer(s)
  /\ UNCHANGED <<world, dir, latest, store>>

-----------------------------------------------------------------------------
(* promote_eligible_project_result, after the manifest has been written.   *)

\* Mutant: the claims are taken from the manifest, not recomputed.
PromoteUnverified(s) ==
  /\ pc[s] = "promote"
  /\ \/ Answer(s) /\ UNCHANGED <<dir, store>>
     \/ /\ At(s) # None /\ At(s).man = verdict[s] /\ At(s).out = verdict[s].out
        /\ Goto(s, "install")
        /\ UNCHANGED <<frame, dir, store, answered>>
     \/ Raises(s)
  /\ UNCHANGED <<world, latest>>

\* Not eligible, or: the persisted manifest must be the inspected one, and
\* policy and claims must recompute from the workspace.
Promote(s) ==
  /\ pc[s] = "promote"
  /\ \/ Answer(s) /\ UNCHANGED <<dir, store>>
     \/ /\ At(s) # None /\ At(s).man = verdict[s]
        /\ At(s).out = verdict[s].out /\ At(s).snap = seen[s]
        /\ Goto(s, "install")
        /\ UNCHANGED <<frame, dir, store, answered>>
     \/ Raises(s)
  /\ UNCHANGED <<world, latest>>

\* Mutant: what the workspace holds is installed, whatever was sealed.
InstallUnchecked(s) ==
  /\ pc[s] = "install"
  /\ \/ /\ At(s) # None /\ At(s).out # None /\ store.art = None
        /\ store' = [store EXCEPT !.art = [id |-> Run(s), data |-> At(s).out]]
        /\ Goto(s, "receipt")
        /\ UNCHANGED <<frame, dir, answered>>
     \/ Raises(s)
  /\ UNCHANGED <<world, latest>>

\* promote_result_with_receipt: the workspace's output, if it still has the
\* digest of the manifest, is moved to a durable name that is free.
Install(s) ==
  /\ pc[s] = "install"
  /\ \/ /\ At(s) # None /\ At(s).out = verdict[s].out /\ store.art = None
        /\ store' = [store EXCEPT !.art = [id |-> Run(s), data |-> At(s).out]]
        /\ Goto(s, "receipt")
        /\ UNCHANGED <<frame, dir, answered>>
     \/ Raises(s)
  /\ UNCHANGED <<world, latest>>

\* The receipt, which names the manifest by its digest, is installed, or the
\* artifact is taken back.
InstallReceipt(s) ==
  /\ pc[s] = "receipt"
  /\ \/ /\ store.rcp = None
        /\ store' = [store EXCEPT !.rcp = [id |-> Run(s), data |-> verdict[s]]]
        /\ Answer(s)
        /\ UNCHANGED dir
     \/ /\ store' = [store EXCEPT !.art = None]
        /\ Goto(s, "failed")
        /\ UNCHANGED <<frame, dir, answered>>
  /\ UNCHANGED <<world, latest>>

-----------------------------------------------------------------------------
(* The environment.                                                        *)

Edit ==
  /\ source < MaxEdits
  /\ source' = source + 1
  /\ UNCHANGED <<exclusive, runs, strays, disturbed, pc, frame, dir, latest,
                 store, answered>>

\* A server dies and its client starts another: what it was serving is lost.
Crash(s) ==
  /\ Serving(s)
  /\ Answer(s)
  /\ UNCHANGED <<world, dir, latest, store>>

\* Everything the handler does by itself.  It waits for the script, which its
\* deadline ends, and for those that keep the pipe, which nothing ends.
Handle(s) ==
  \/ Validate(s) \/ Exists(s) \/ Clear(s) \/ Snapshot(s) \/ Hash(s)
  \/ ScriptEnds(s) \/ PipeCloses(s) \/ Seal(s)
  \/ WriteManifest(s) \/ WriteStatus(s) \/ WriteLatestManifest(s)
  \/ WriteLatestStatus(s) \/ WriteRaises(s) \/ Failed(s)
  \/ Promote(s) \/ Install(s) \/ InstallReceipt(s)

Next ==
  \/ \E s \in Servers, j \in Jobs, o \in BOOLEAN : Request(s, j, o)
  \/ \E s \in Servers : Handle(s) \/ ScriptWrites(s) \/ Crash(s)
  \/ \E x \in strays : StrayWrites(x) \/ StrayLetsGo(x)
  \/ Edit

Spec     == Init /\ [][Next]_vars
FairSpec == Spec /\ \A s \in Servers : WF_vars(Handle(s))

-----------------------------------------------------------------------------
(* Properties.                                                             *)

TypeOK ==
  /\ exclusive \in BOOLEAN /\ source \in Versions /\ runs \in 0..MaxRuns
  /\ pc \in [Servers -> Phases]
  /\ req \in [Servers -> Requests \cup {None}]
  /\ seen \in [Servers -> Versions] /\ ins \in [Servers -> Versions]
  /\ rd \in [Servers -> Versions]
  /\ verdict \in [Servers -> Manifest \cup {None}]
  /\ dir \in [Jobs -> Dir \cup {None}]
  /\ latest \in [man : Status \cup {None}, sts : Status \cup {None}]
  /\ store \in [art : Artifact \cup {None}, rcp : Receipt \cup {None}]
  /\ strays \subseteq [job : Jobs, run : Runs, of : Versions, pipe : BOOLEAN]
  /\ disturbed \subseteq Jobs
  /\ answered \subseteq Runs

\* A manifest that reports success in a workspace nobody works on tells the
\* truth about it: the output is the one it sealed, written by the script of
\* that very request, from the inputs whose hashes it records.  It needs one
\* server per job and no script that outlives its timeout; the request may
\* have come after others that failed, died half-way or were replaced.
ManifestTrue ==
  \A j \in Jobs :
    exclusive /\ ~Busy(j) /\ j \notin disturbed /\ dir[j] # None =>
      LET m == dir[j].man IN
        m # None /\ m.ok =>
          \/ m.out = [by |-> m.run, of |-> m.inputs] /\ dir[j].out = m.out
          \/ dir[j].snap = None      \* what an interrupted rmtree left

\* Manifest and status are two files.  However their writer is interrupted,
\* the status is never of a later request than the manifest, and within one
\* request only the manifest can be the worse of the two.
StatusNeverAhead ==
  \A j \in Jobs :
    exclusive /\ dir[j] # None /\ dir[j].man # None /\ dir[j].sts # None =>
      LET m == dir[j].man  t == dir[j].sts IN
        /\ t.run <= m.run
        /\ t.run = m.run /\ m.ok => t.ok

\* What is durable is what was sealed, whoever else uses the workspace: the
\* receipt's manifest reports success and seals the bytes installed beside it.
DurableSealed ==
  store.rcp # None =>
    /\ store.rcp.data.ok
    /\ store.art # None /\ store.art.data = store.rcp.data.out

\* What is durable was rendered from the very files whose claims were
\* verified, although the user edits them between verification and copy.
DurableVerified ==
  exclusive /\ disturbed = {} /\ store.rcp # None =>
    /\ store.rcp.data.claims = store.rcp.data.inputs
    /\ store.art.data.of = store.rcp.data.claims

\* A job that reports success is replaced only when a request asks for it.
CompletedKept ==
  [][\A s \in Servers :
       exclusive /\ Serving(s) /\ pc'[s] # pc[s] /\ ~req[s].overwrite =>
         LET d == At(s) IN
           d # None /\ d.man # None /\ d.man.ok /\ d.man.run # Run(s)
             => dir'[Job(s)] = d]_vars

\* Every request is answered, or lost with its server, whatever else happens
\* to its workspace: nothing holds it up but a process that its script left
\* outside the group and that keeps the output's pipe for ever.  The script
\* itself may hang.  (supervise_process, process_supervisor.py:327-346)
AnsweredOnceReleased ==
  \A r \in Runs :
    []<>~PipeKept(r)
      => ((\E s \in Servers : Serving(s) /\ Run(s) = r) ~> r \in answered)

=============================================================================
