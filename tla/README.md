# figops in TLA+

figops (Research Hub / FigOps) runs a research project's analysis and plotting
scripts, decides what has to be rebuilt, renders figures for AI clients over
MCP, and moves finished figures with their evidence into the project's durable
results. It is Python, single-threaded in almost every part, and works on
directories that its user, editors, sync clients, scripts it has started and
other figops processes change at the same time. What is hard to get right is
therefore seldom an algorithm. It is the order of file operations: what is on
disk when a step fails, when a process dies, or when somebody acts between a
check and the use of what was checked.

This directory models the protocols in which that matters, checks them with
TLC on small instances, and proves what the safety properties say with TLAPS
for every size.
`PROJECT.json` lists components, runs, mutants, the map from definitions to
source lines, findings, hazards and theorems.

1. [Inventory](#1-inventory): the parts of the system and what makes them correct
2. [Modules](#2-modules): how each model corresponds to the code
3. [Runs](#3-runs): instances, bounds, fairness, findings
4. [Proofs](#4-proofs)
5. [Not modelled, and what is next](#5-not-modelled-and-what-is-next)

## 1. Inventory

| Component | State | Operations | Hard because | Modelled |
|---|---|---|---|---|
| Durable promotion (`result_promotion.py`, `durable_promotion.py`, `promotion_gate_recording.py`, `atomic_no_clobber.py`, `structure_path_security.py`) | three public names per figure (gate receipt, artifact, receipt), private stages | admit, freeze gate, install artifact, install receipt, verify, roll back, discard gate | no lock; others in the directory; rollback where deletion cannot be bound to a file; interrupts | yes |
| Verified durable read (`durable_promotion.py`) | none | verify a promoted pair | two files, taken one after the other | yes |
| Human review records (`review_recording.py`, `human_review_receipt*.py`, `mcp/tools/review_tools.py`) | recorded reviews; the host's index | write, record, verify | reviews expire, are revoked, and are of something that changes | yes |
| Promotion gate (`promotion_gate*.py`) | the gate's receipt | gather, evaluate, admit | evidence, gate and promotion each see another moment | yes |
| Smart Build (`orchestrator.py`, `cache_manager.py`, `process_runner*.py`, `provenance.py`) | `build_state` on disk and in each run's memory, outputs with embedded fingerprints | load, stale?, sign, run, record, save, stamp, embed, refresh | several runs, edits during a run, failure between any two steps, outputs rewritten after they were recorded | partly |
| Sweep, comparison, `expand: each` (`process_runner_variants.py`, `process_runner_visual_expansion.py`) | the same, and a figure per variant | repeat the pipeline | variants share analysis outputs and their records | partly, yes |
| External raw inputs (`external_raw.py`, `external_raw_execution.py`) | shared files named by digest | approve, copy, verify, use | the file, its descriptor and other builds change in between | partly |
| Raw integrity seal (`raw_integrity.py`) | sealed manifest of hashes | derive, seal, verify | hashing files that change; a manifest written in place | yes |
| Process supervisor (`process_supervisor.py`) | child, process group or job, drain thread, deadline | start, wait, terminate the tree, join, close | threads, timeouts, pipes held by descendants | partly |
| Structure apply (`structure_apply.py`, `structure_stage_cleanup.py`) | public files, `project_config.yaml`, private stage, guard and tomb | publish copies, compare-and-swap, verify, finalize, roll back | the user edits the same files, through old handles too; two platforms | partly |
| Approval authority (`approval_authority_*.py`, `mcp/tools/project_tools.py`) | approvals: current, superseded, revoked | issue, supersede, revoke, verify | check-then-act; an approval that falls while a plan is applied | yes |
| MCP render jobs (`mcp/tools/render_project.py`, `mcp/render_manifest.py`, ...) | job workspace, manifest, status, `_latest` | validate, replace, snapshot, run, seal, write, promote | shared runtime root; files written one after the other; scripts that outlive their timeout | partly |
| CSV render tools (`mcp/tools/render_csv*.py`, `mcp/render_orchestration.py`) | job workspace, worker process | start, wait, kill, seal, write | workers killed at any moment | partly |
| Preview artifacts (`mcp/preview_artifacts.py`, `mcp/preview_worker.py`) | a private directory per request | select, check, copy, convert | every step opens the files anew | partly |
| MCP transport (`mcp/transport.py`, `mcp/server.py`) | position in the input | read, dispatch, answer | broken messages, two framings | partly |
| Batch check and discovery (`mcp/tools/batch_tools.py`, `project_discovery.py`) | batch manifests | discover, validate, resume | workers die; ids are used again; manifests in place | partly |
| Regression baselines (`visual_regression*.py`, `data_regression.py`) | snapshots and golden tables, manifests | check, update, freeze | files replaced one by one, manifest last and in place | yes |
| Policy resolution and workflow intent | none: pure functions | layers of policy resolved to one value per parameter; a call's intent inferred | the order of the layers, a layer that loosens another, promotion by inference | partly: `PolicyResolution`, `WorkflowIntent` |
| Structure discovery and planning; configuration loading; data contracts and inspection; claims, scripts and evidence inspection; geometry diagnostics; plotting and themes; prefetch and Athena; logs; scaffolding and release scripts | none that lasts | pure functions and one-shot I/O | not by protocol; see section 5 | no |

How they interact. `orchestrator.main` loads the configuration and the build
state, verifies the raw seal, calls `run_analysis`, `run_plots`,
`run_diagrams` and `run_assemblies`; each script runs under the process
supervisor, and an external input is materialised before it. The MCP server
reads one message after the other and calls one tool at a time: the CSV tools
drive a worker process, `render_project_figure` works in a disposable job
workspace and asks `promote_eligible_project_result` for the durable copy,
previews read what other calls have left in job workspaces, `batch_check`
validates projects. A host outside the repository gathers reviews and evidence,
evaluates the promotion gate and hands its receipt to the promotion. Structure
plans are reviewed, approved through the approval authority and applied by
`apply_structure_plan`. Promotion and apply share `atomic_no_clobber_move` and
`delete_file_by_identity`; all of them meet only through the file system.

What makes each correct:

- promotion: a success is durable, a failure leaves nothing but what its error
  accounts for, a
  receipt never outlives its artifact, nobody's file is replaced or removed;
  verified read: an accepted pair really stood together;
- review and gate: what is promoted was approved, by somebody entitled to it,
  as exactly that figure, lineage, evidence and policy;
- Smart Build: nothing out of date is skipped, a success is current, what is
  current is not rebuilt, and no variant shows another's data;
- external inputs: a script reads the bytes its descriptor names; raw seal: an
  accepted project is as it was sealed, and no input escapes the seal;
- supervisor: the child's real outcome, nothing left alive in its group after a
  timeout, and an end as soon as outsiders let go of the pipe;
- structure apply: no byte of the user's is lost, no edit is overlooked, a
  rollback is complete or says what it left, nothing is applied on a dead
  approval;
- render jobs and CSV tools: what a manifest or a reply says is true of the
  files beside it, no worker is left behind; previews: what is shown is sealed;
- transport: every message that demands an answer gets its one answer, in
  order, and no text is taken for a message that was not sent as one;
- batch check: a complete batch has validated all it owes; baselines: a verdict
  is backed by what was recorded, and what was recorded is accepted.

## 2. Modules

| Module | Models | Checked by |
|---|---|---|
| `NoClobberStore` | abstract: durable names that figops only extends | `promotion` |
| `DurablePromotion` | one promotion per element of `Promoters`, the three names of a figure, others | `promotion` |
| `VerifiedRead` | extends it with `verify_promoted_result` | `promotion` |
| `PromotionGate` | reviews, their records, evidence, gate, admission | `quality_gates` |
| `SmartBuild` | `Runs` orchestrators over one `Pipeline`, sweeps, comparisons | `smart_build`, `smart_build_shared`, two findings |
| `ExternalRaw` | builds that share materialised external files | `raw_integrity` |
| `RawIntegrity` | sealing and verification of raw files | `raw_integrity` |
| `JobPreview` | a preview of a job that is rendered again | `raw_integrity` |
| `ProcessSupervisor` | one supervised script and its descendants | `process_supervisor` |
| `StructureApply` | one `apply_structure_plan` and its user | `structure_apply` |
| `ApprovalAuthority` | the host's index of approvals | `structure_apply` |
| `ApprovedApply` | composes the two through `normalize_project_structure` | `structure_apply` |
| `RenderJob` | requests for project figures, on several servers | `render_job` |
| `CsvRender` | one call of a CSV tool and its worker | `mcp_server` |
| `OrderedService` | abstract: messages answered one after the other | `mcp_server` |
| `StdioServer` | the server's loop, extends `CsvRender` | `mcp_server` |
| `VisualBaselines`, `GoldenData`, `BatchCheck` | regression baselines, golden tables, batch validation | `quality_gates` |
| `PolicyResolution`, `WorkflowIntent` | pure functions of layers and calls; no VARIABLES | assumptions of `quality_gates` |
| `*_proofs` | the theorems of section 4 | |
| `MC*` | instances for TLC | |

Every module with a state has a type invariant. They hold in the same
instances, and those of the modules with proofs are part of an inductive
invariant; they are not among the properties of the runs, which are kept for
what could really be wrong. Definitions that follow a comment "Mutant" (in `StructureApply` also
"Slip") are plausible mistakes that no specification uses: each property is
known to fail when the code is wrong in that way.

### DurablePromotion

`file[n]` is the public name n: an inode, a version that in-place rewrites
change (mtime), a content and whether a second hard link exists. `pc[p]` names
the next system call of promotion p; each action is one call that others can
see, with the checks that follow it up to the next. `gate_*`, `art_*` and
`rcp_*` are the three publications, `final_*` the closing check, `undo_*` and
`drop_*` the rollback: the first compares by path (`_remove_installed`), the
second is `delete_file_by_identity`, which compares through its handle and
exists on Windows only, so that others may act in between. `held[p]` is the
inode that `record_promotion_gate_receipt` took down. `placed` and `tampered`
are history: what p published and has not taken back, and what of it others
changed. `Faults` says what the environment may do: crash, interrupt, lost
lease, no native rename, refused deletion, changed source, failed staging,
failed unlink. Both platforms are explored (`windows`).

Only the gate receipt is handled under a directory lease, which can be lost when
it has been published (`GateLeaseLost`), before it is rolled back
(`GateLeaseFails`) and after its deletion (`DropGate`). A directory that is no
longer the witnessed one raises an untyped error that neither
`discard_promotion_gate_receipt` nor its caller catches (error "lease"); a lease
the system denies in the rollback withholds it.

The abstract `NoClobberStore` has `Publish` (only at a free name), `Retract`
(only one's own bytes; at the artifact and the receipt only one's own inode)
and `Meddle` (anything, by others). The refinement forgets versions, links and
all control. The gate receipt is not in `IdentityBound`: its owner is read
after the move (see the divergences in section 3).

Abstractions: the admission checks on manifest, policy and claims are one
choice (`Admit`, `Decline`, `Reject`); contents are the payload or "the receipt
of p"; a receipt is one promotion's because it contains its run and manifest
ids; directories are not modelled except for the lost lease, and what was moved
away with its directory counts as removed.

### VerifiedRead

`ReadReceipt`, `ReadArtifact`, `RevalidateReceipt` and `RevalidateArtifact` are
the four looks that `verify_promoted_result` takes. A read ends with a look at
the path, so its result is the file in place at that moment; it may be called
again after a rejection. Assumed: an inode number, size and mtime do not come
back once gone (the code compares nothing else).

### PromotionGate

`now` is the present (the latest render, its readiness report, the policy, the
role bindings that the host trusts, the time), `written` and `shelf` the
reviews that were written and recorded, `ended` the host's index of revoked and
superseded ones. `Gather` takes one piece of evidence at a time into `held`,
`Evaluate` is `evaluate_promotion_gate` with its seven gates and their
precedence, at any stage of gathering, and `Promote` is the admission and the
promotion, as one step: what happens call by call is in `DurablePromotion`,
and so are promotions without a gate receipt. A digest is modelled by what it
is taken of, so that two renders with equal bytes differ in lineage alone.

External: the host. `evaluate_promotion_gate` is called by tests only; the
route from CLI and MCP is pending
(`docs/specs/2026-07-20-ai-native-figure-integrity-plan.md:490-500`). Assumed:
the index lists a record as current unless it was revoked or superseded, and the
bindings of waivers are fixed; a malformed input and a missing workflow are two
free choices of `Evaluate`.

### SmartBuild

`file` maps a source to its version and an output to what a step made: the
configuration, environment and inputs it was made from, and the fingerprint
embedded later. So "current" can be said of the bytes alone. `mem[r]` is the
build state in the memory of run r, `disk` the saved one. A visit is one step
under one environment: plain runs visit each step once, a sweep and a
comparison visit the selected steps under every variant, and an artifact with
`expand: each` is a step per input file. Figures have a slot per environment,
analysis outputs and their records are shared by all. `Enter` takes the
signature before the script runs, `Execute` is the script, `Record` is
`record_step_state` and `save_build_state`; `Stamp`, `Embed` and `Refresh` are
the end of `orchestrator.main`. Nothing excludes runs from one another. Around
them sources and the configuration are edited, outputs overwritten or removed,
the state lost, steps fail after writing something or nothing, saves fail, runs
are killed; each of these, and each launch of variants or beside another run,
is one of `MaxEvents`.

A record has a history bit `doubt`: others touched the step's files while it
ran, or a refresh recorded bytes other than the recorded ones. It marks exactly
the two windows that the code leaves open, both listed as hazards; the
properties make no claim there and full claims elsewhere.

Assumed: a script's output is a function of configuration, environment and
inputs, and it reads its inputs in one moment; a step reads only the outputs of
earlier analysis steps; signatures are content hashes (the default strategy),
not mtime and size; `Configs` differ only in what step signatures do not
contain. Several declared outputs of a step are one file. Left out: the
reformatting of a batch artifact without running it, steps without declared
outputs, assemblies (never cached), a comparison's `data_override`, an output
directory of a sweep outside `results/figures`, two inputs of one stem under
`expand: each` (they share output and record).

What the code does and the model keeps, because it surprises: `--step plot` of
a sweep draws every variant from the analysis output of whichever ran last (the
properties claim nothing of partial selections); expanded artifacts and the
figures of variants are always made again, since embedding rewrites what the
refresh passes over; `run_sweep` and `run_comparison` pass on no
`external_raw_allowed_roots`.

### ExternalRaw

A build loads the descriptor's digest (`Load`; a recorded signature of it skips
the step without a look at the file), opens and copies the file, hashing, to a
private stage (`Open`, `Copy`, `Compare`), moves the stage to a name made of id
and digest that all builds of the runtime root share (`Publish`), verifies what
stands there (`Verify`) and hands the name to its script (`Execute`). A content
is two halves, so that a copy can be torn. Meanwhile the file is replaced,
removed or half overwritten, the descriptor edited, the runtime root cleaned.
Each build has results of its own, in the project or in a job's copy of it. A
change within the resolution of the clock, which `stat` does not see, is
allowed: the digest must catch it. URI locators are refused by the code (no
adapter exists); symbolic links, Windows' refusal to replace an open file and a
script that overwrites its own materialised input are left out.

### RawIntegrity

A configuration is a sequence of producers with inputs and outputs, the mode,
the no-raw declaration and the state of the raw path. `LookedFor` and its
neighbours derive what has to be sealed (`derive_raw_dependency_graph`:
producers' outputs are not raw, patterns stand for what matches now).
`sealer` and `verifier` hash member by member; the manifest is truncated before
it is written. `since` remembers what stood at each name during a verification.
Left out: off mode, symbolic links and malformed entries (refused), manifests
written by hand, a raw path with a leading underscore (it seals, but its seal
never verifies, raw_integrity.py:645).

### JobPreview

A request selects the one kind of job with a manifest of that id, reads the
manifest, hashes the artifact (a description ends there), opens it again and
copies it, hashing, to a private directory, and has a worker convert the copy.
Meanwhile the job is discarded, drawn and sealed again under either kind, or
half overwritten by a script that outlived its run. The comparison of `stat`
before and after reading may miss a change; the digest may not. `Heavy`
pictures have no PNG within the limit of a preview. Left out: the rules for
selectors, media types and sizes, and the containment of the worker.

### ProcessSupervisor

Processes are 0, the script, and those it starts; each may leave the group or
job, close the pipe, write, ignore SIGTERM, fork while being terminated, end.
`pc` follows `supervise_process` to its verdict, on POSIX and on Windows;
`drain` is the thread that reads the pipe, holding the lock of its buffer.
Time is abstract: the deadline passes at some moment, and a wait for a grace
period may end in either way. A `fault` is a system call that fails. Left out:
stand-in `Popen` objects, the reuse of a process group number at `killpg`
(:172), and the window before the assignment to the Windows job (:277).

### StructureApply, ApprovalAuthority, ApprovedApply

`name` maps public and private names to inodes, `data` inodes to contents, so a
file that is moved keeps what an open handle writes to it. On Windows an open
handle pins the name and `delete_file_by_identity` works; elsewhere neither.
The guard, the tomb and the stage are private names nobody else touches, as
they are random. `back` describes the file that `_restore_guard_no_clobber` is
about to move back; its hash check and its move are two steps (`Restore`,
`Return`). The user may open one file at a time, write through the handle
wherever the file has gone, save a new file over any public name, or delete
one. Every content the user writes is new, so a lost byte cannot hide.

`ApprovalAuthority` is the index of the host: `IssueCheck`, `IssueInsert` and
`IssueMark` are the steps of issuing, which another thread of the tool may see
in between. `ApprovedApply` is the MCP tool in secure mode: it plans anew,
verifies the receipt for that plan, and lets apply verify once more behind its
own checks; each verification reads the record twice. Hosts that require no
approval run apply as it is: one run has both.

Abstractions: private stages of copies and hard-link aliases are not modelled;
swapped directories, fsync failures and interrupts are `Raise`, possible at
every step before the rollback, not inside it; the post-apply verifier accepts
or rejects. The host has one thread that issues: with two the class, which has
no lock, breaks `OneSuccessor`, and a duplicate issue can undo a revocation.

### RenderJob

`pc[s]` follows `render_project_figure` on server s: validation with its
persisted refusals, removal of the old workspace (which may stop half-way),
snapshot, hashes before the run, script, seal, then manifest, status and the
two `_latest` files one after the other, and promotion as one step. `source`
is the version of the files that claims bind. A server may die at any step. What
a script started outside its process group may live on (`strays`) and write to
the workspace (`disturbed`). If it keeps the write end of the output's pipe
(`PipeKept`), the script's end leads to "held": `supervise_process` is closing
the stream, which waits for the reader, and the server does nothing else until
`PipeCloses`. `StrayLetsGo` may happen at any time or never. `ProcessSupervisor`
has the calls one by one. `exclusive` says whether callers keep one request per
job: the properties that need it say so.

### CsvRender, StdioServer, OrderedService

`CsvRender` is a call of `render_csv_graph` or `render_csv_multipanel` from its
arguments to its reply: contract check (before the copy), workspace, copy,
worker with deadline, seal, four files; the worker reads, draws, writes its
result and exits, hangs, fails or dies between any two of these. The multipanel
tool keeps nothing when it fails, but a manifest it has already written stays.
`StdioServer` calls it while it reads messages in both framings. `wire` is the
input and `begun` says that of its first message only the text is left: after a
size that cannot be believed that text can be mistaken for another message, if
the code let it. Tools that only read are an entry that is answered at once. `OrderedService` is the promise: messages are handled in
order and each is answered once, in its own framing. Left out: a worker that
survives SIGKILL.

### VisualBaselines, GoldenData, BatchCheck

`VisualBaselines` is check-all in its modes ignore, check and update: the
manifest is loaded at the start, each figure is hashed, compared or copied in
separate steps, and the manifest is written in place at the end. `backing` and
`frozen` remember what updates have recorded. `GoldenData` is the freezing of
tables file by file, with the manifest last, and the check that verifies golden
files before it compares. The pixel metrics and the table tolerances are
relations (`Near`, `Close`). `BatchCheck` is discovery by a worker, projects
looked at one by one, the manifest in place, and resumption; `folder_role` and
the worktree flag are merged into the kinds of projects. All three meet
crashes, failing calls and edits by others. Left out: the writing of reports,
duplicate figure ids, a project that lies below a directory named `golden`
(everything in it is then excluded), the walk of the directory tree.

### PolicyResolution, WorkflowIntent

Both are pure functions. A layer of policy is a source and, for each parameter,
a list, a plain value and a request to opt out, each of which may be `Silent`;
`Resolved(layers, p)` follows `_resolve` and `_merge`, by the place in the list
where the code folds over it in its order (`Selection`, `Exact`), and `Refused`
is every way in which `resolve_policy_set` raises. Which layer a value is
attributed to and the recorded exceptions are left out. `Infer(call)` follows
`infer_workflow_intent` from the step or the tool to the surface, and
`IntentReport` puts the project's declaration before it.

They have no states to explore. `MCQualityGates` states their promises as
assumptions over all layers of a small schema with one parameter of each kind
and over all calls, next to the cases of `tests/test_policy_resolution.py`; and
the policies of `PromotionGate` are resolved in it from layers: the one that
asks for a signoff does so because the laboratory requires what the project
declines.

## 3. Runs

| Run | Instance | Shows |
|---|---|---|
| `promotion` | 2 promotions with equal bytes, a reader, 1 outsider step, all 8 faults, both platforms | `EvidenceOrder`, `SuccessBacked`, `FailureAccounted`, `VerifiedPairCoexisted`, refinement of `NoClobberStore` |
| `smart_build` | analysis, figure, expanded diagram; 1 run at a time, every `--step`, forced, plain or sweep of 2; 2 configurations, 2 versions, 2 events | `SuccessIsCurrent`, `NothingRebuilt`, `VariantsSeparate` |
| `smart_build_shared` | analysis and figure; 2 concurrent runs, 2 events | `SkipSound` |
| `structure_apply` | 2 copies and the configuration, 3 user changes, both platforms; in secure mode 1 copy, 1 user change, 3 approvals, a clock that passes their end | `UserBytesKept`, `NoEditOverlooked`, `CleanRollback`, `RefusedTouchesNothing`, `FirstPublicationApproved`, `OneSuccessor` |
| `render_job` | 2 servers, 1 job, 2 requests, 1 edit; strays after failures and timeouts, with the pipe or without | `ManifestTrue`, `StatusNeverAhead`, `DurableSealed`, `DurableVerified`, `AnsweredOnceReleased` |
| `process_supervisor` | script and 2 descendants, 2 pieces of output, a pipe of 1 | `SuccessIsComplete`, `TimeoutContained`, `GoodRunSucceeds`, `ReturnsOnceReleased` |
| `raw_integrity` | 2 raw files, 24 configurations, 2 edits; or 2 builds, 2 digests, 2 changes; or 2 kinds of jobs, 4 pictures, 4 turns | `AcceptedWasAsSealed`, `NamedInputsSealed`, `FreshSealVerifies`, `BytesAsDescribed`, `PreviewAsSealed` |
| `quality_gates` | 1 check-all, 2 projects; or 1 keeper, 2 tables; or 2 projects, 2 roots, 2 batches; or 3 renders, 2 reports, 2 policies, 8 opinions; and the assumptions on policies and intents | `VerdictBacked`, `FrozenStaysAccepted`, `PassedAsFrozen`, `FreezeVerifies`, `CompleteMeansValidated`, `PromotedAsReviewed` |
| `mcp_server` | 2 messages of every form, 2 calls, 1 edit, 1 kill | `OkReplyTrue`, `ManifestMatchesFigure`, `NoWorkerLeftBehind`, `EveryMessageHandled`, refinement of `OrderedService` |
| `config_change_rebuilds`, `comparison_repeats`, `resume_covers` | one property each | violated: the findings below |

`raw_integrity` and `quality_gates` explore parts that share no state side by
side: each behaviour is one of one part, chosen at the start.

**Bounds.** Promotions only interact through three names: two give every race,
equal contents are the harder case for ownership (hashes agree, only inodes
differ), and a single outsider step already reaches replaced, rewritten, linked
and deleted files at every point, on top of every fault in any number. In
`smart_build` two events let one mistake be followed by another (an edit during
a run that then dies), and two variants let one be given the other's data; two
concurrent runs are needed for lost updates. Three user changes allow an edit
through an old handle, a competing file at the public name, and a change of the
reaction to it. Two servers and two requests for one job are what races for a
workspace; a third would only repeat it. There, `Lingering` is `{"failed"}`: a
stray of a script that succeeded is left to the theorems, which hold for every
`Lingering`, and one without the pipe writes once. Two descendants allow one that leaves
the group and one that stays, one piece of pipe lets the script block. Two raw
files are the least that can be hashed in an order; two producers the least
that can feed each other, collide or make a cycle. Two halves of a content are
the least that can be torn. Two messages are the least of which one can be
taken for a part of the other. Three renders give one with the same bytes as
another and one that may not be promoted. The proofs of section 4 remove the bounds
from the safety properties.

**Fairness and liveness.** `AnsweredOnceReleased` assumes `WF(Handle(s))`: a
request handler waits for the supervised script's own process, which a deadline
ends, and for whatever keeps the pipe outside the script's group, which nothing
ends. The second is a guard (`PipeCloses`), on which no fairness is assumed of
anybody; that the pipe is free again and again (`[]<>~PipeKept(r)`) is the
hypothesis of the property. Without it the property is false, as the code is.
`ReturnsOnceReleased` assumes that the supervisor and its thread go on whenever
they can, that the deadline passes, and that a process that was killed dies;
it assumes nothing of the script's own steps: it may run for ever.
`EveryMessageHandled` assumes `WF(ServerStep)`, which waits for nothing but a
worker with a deadline; workers are not assumed to move. `ChainCovers` assumes
that the client goes on. Everywhere else only safety is claimed: those protocols
are straight lines whose steps wait for nobody. `CHECK_DEADLOCK FALSE` is set
where the system really ends (promotions and apply are one-shot, bounded
numbers of requests, messages and edits run out, and a torn baseline manifest
stops every later check-all).

**Where properties make no claim.** `SkipSound` and `SuccessIsCurrent` excuse
records in `doubt`; `ManifestTrue` and `DurableVerified` workspaces that two
servers were asked to use at once or a stray script wrote to (`DurableSealed`
does not); `OkReplyTrue` and `ManifestMatchesFigure` workers of a server that
was killed; `FrozenStaysAccepted` check-alls that overlapped; `PassedAsFrozen`
a check during which others changed files; `ReturnsOnceReleased` and
`AnsweredOnceReleased` a process outside the group that keeps the pipe for ever;
`FailureAccounted` the gate receipt of a promotion that ended because a
directory lease was lost, and the receipt of one that was interrupted. In each of these the code really does
what the excuse names.

### Findings

1. `config_change_rebuilds`: the global configuration hash is stamped by the
   first step that runs after a change; later steps keep outputs of the old
   configuration (`cache_manager.py:211`).
2. `comparison_repeats`: `run_comparison` does not put the condition's
   environment into the signature of analysis steps, as `run_sweep` does; the
   second condition skips the analysis and its figures show the first
   condition's data (`process_runner_variants.py:242`). Running
   `run_comparison` on a project of two conditions shows the same.
3. `resume_covers`: a batch manifest lists the projects of its own call only,
   so a client that resumes from manifest to manifest validates p, then q, then
   p again (`batch_tools.py:333`).

### Divergences without a run

Met while modelling; the definition named, where there is one, states what one
would expect and is left unchecked because the code does not promise it, or
because a finding of the kind would say no more than this list.

Promotion and gate:
- the gate receipt's owner is read from the path after the move, so a file put
  there in between is taken for the promotion's own
  (`promotion_gate_recording.py:101`; `GateRemovedOnlyAsPublished`);
- the gate's rollback error hides the typed code of the inner one
  (`result_promotion.py:451`; `LeftoverIsTyped`);
- a lease that is lost when the gate receipt has been published, or while it is
  rolled back, leaves the receipt behind, and no error names it; in the rollback
  the untyped `RuntimeError` or `ValueError` of the witness also takes the place
  of the promotion's own error (`promotion_gate_recording.py:98`, `:139-180`;
  `result_promotion.py:451` catches `PromotionGateRecordingError` only;
  `LeftoverIsTyped`);
- an interrupt between the receipt's move and the assignment of its identity
  orphans it (`durable_promotion.py:508`; `InterruptedReceiptBacked`);
- expiry, revocation and policy are not looked at again between the evaluation
  of the gate and the admission (`result_promotion.py:46-104`); with
  `receipt_index=None` neither revocation nor supersession is; no code consumes
  the `supersedes` field of a review; a readiness report is tied to the
  candidate only where a signoff is required.

Structure apply:
- a configuration saved during the compare-and-swap leaves the original at an
  unreported private name (`structure_apply.py:315`; `LeftoverIsReported`), and
  so does an exception between the publication of a copy and its record
  (`:637`);
- the approval is verified before the first publication; later ones go on after
  it was revoked (`:594`; `EveryPublicationApproved`);
- copy receipts lack the approval's receipt id that the specification asks for
  (`docs/specs/2026-07-20-ai-native-figure-integrity-plan.md:481-482`).

Build:
- fingerprints name the inputs at embedding time (`provenance.py:686`), not
  those the figure was made from when its step did not run;
- embedding writes in place (`provenance.py:387`, `:610`): a run that dies there
  leaves a torn figure, the refresh records it (`orchestrator.py:77-99`), and
  every later run refuses it ("Cached output verification failed",
  `process_runner_visual_batch.py:86-92`) until it is forced or deleted.

Raw integrity: a `raw/` declaration that matches nothing but the manifest kept
inside `raw/` is not reported as unresolved;
`docs/specs/research_ops_philosophy.md:22` says that missing manifests have no
effect, while strict mode refuses; a raw file removed while it is hashed raises
`FileNotFoundError`.

Supervisor: a descendant outside the group that keeps the pipe holds the call
(`process_supervisor.py:343`; `Returns`; measured: 8 seconds for a timeout of
one), and with it the render request and the single-threaded server behind it
(`RenderJob`, phase "held").

Render jobs and previews:
- a request for a completed job without `overwrite` whose project no longer
  validates is persisted over its manifest (`render_project.py:118`;
  `CompletedKept`);
- the preview worker's file size limit equals the limit for previews
  (`preview_artifacts.py:637-641`, `preview_worker.py:57-73`): a PNG that is too
  large fails with EFBIG before its size can be looked at, so that the JPEG
  fallback is not reached on POSIX; a worker killed at its CPU limit leaves its
  `pdftoppm` running; an `OSError` of the temporary directory escapes untyped.

Transport: a number of more than 4300 digits or too deep a nesting on a newline
message is answered in the other framing (the docstring at `transport.py:454`
says otherwise); an answer with a lone surrogate raises outside of the `try` and
ends the server (`:65`); a blank line between newline messages is fatal; an
exception that escapes the dispatch of one entry discards the other answers of
its batch (`:57-62`).

Baselines and batches:
- update mode freezes outputs of a build that failed
  (`visual_regression.py:247`); a configuration that cannot be read after a
  successful build counts as success without a comparison (`:245`, `:256`); a
  copy that raises ends the call with snapshots replaced and the manifest
  unwritten; a torn manifest stops all modes (`:44`); check-alls that overlap
  lose entries; a check trusts the manifest's hash without a look at the
  snapshot;
- without `golden_metrics`, a table that was deleted goes unnoticed, though
  `data_regression.py:136` has a message for it; a golden file that the
  manifest does not name is compared unverified; a torn `golden_hash.json`
  raises; listed tables absent at the freeze are passed over in silence;
  `--check-regression` is ignored with `--step plot`;
- a batch that timed out does not mention the projects it did not come to.

Policy: a plain `False` for a requirement that may be waived disables it without
the typed opt-out that the plan asks for
(`docs/specs/2026-07-20-ai-native-figure-integrity-plan.md:320`), and the digest
of a policy set depends on the order of the layers, as constraints are listed in
the order of their arrival; the values do not.

## 4. Proofs

Every safety property of the passing runs, action properties included, is
stated by a theorem about the specification, for every value of the constants
(`PROJECT.json`, "theorems"). So are both refinements. The pattern is everywhere
the same: an inductive invariant is found and checked by TLC on the instance of
the run, `Init => Inv` and `Inv /\ [Next]_vars => Inv'` are proved with one step
per action, and the property follows from it, or an action property from one
step under it. What follows says why each property is not inductive and what
the invariant adds.

### Promotion

`DurablePromotion_proofs`: for any finite set of promotions, any contents, any
set of faults and any number of outsider steps, `Spec` implies `[]TypeOK`,
`[]EvidenceOrder`, `[]SuccessBacked`, `[]FailureAccounted` and `Store!Spec`;
`ReadSpec` implies `[]VerifiedPairCoexisted`.

The properties speak of files; a file does not say which promotion answers for
it. `IInv` adds

- `Custody`: what a promotion placed and nobody tampered with stands at the
  name as its own inode, and a file with a promotion's inode was placed by it;
- `Progress(p)`: what p has placed at each point of its control, and that while
  it rolls back, something taken back earlier or withheld explains every gap.

Every action preserves `Custody` because it publishes at a free name
(`CustodyPublish`), deletes what it owns (`CustodyDelete`), or leaves the names
alone; outsiders mark what they touch (`CustodyMeddle`). A step of p leaves
`Progress(q)` of another promotion alone (`OthersKeepProgress`). A second layer,
`Account(p)`, does the same for withheld names and error codes and gives
`FailureAccounted`: a failed promotion leaves, of what it published and nobody
touched, at most the names it withheld, the gate receipt if its directory could
not be leased, and the receipt if it was interrupted; and nothing is withheld
but under an error that says so. Refinement is shown step by step: every action changes the
view at no name or at one, as `Publish`, `Retract` or `Meddle`.

A reader takes four looks one after the other. `Remembered` says that an inode
and version it has seen still mean the bytes it has seen, since stamps only
grow; `Verdicts`, that an artifact which was no longer there at the second look
does not come back. So a match of the last two looks is a moment of both files.

### Smart Build

`SmartBuild_proofs`: for any pipeline, variants and number of runs,

- `SkipSound`, from `RInv`: what a record says is true of the bytes it says it
  of unless it is in doubt (`Remembers`), and a run at work knows what it has
  signed unless somebody touched its files (`Signed`). Neither memory nor disk
  can forge a record, because each is a copy of the other at some moment; that
  is all that lost updates between runs can do.
- `SuccessIsCurrent`, from `RInv /\ Quiet /\ Done`: nobody disturbs a quiet run,
  so what it works on is as it was signed and made (`Exact`), and every step it
  has done with is current (`Done`), since a step reads earlier ones only and
  later ones do not write there.
- `NothingRebuilt`, from `Quiet /\ Fresh /\ Calm`: a full run keeps, of all it has
  done with, records that match what is there (`Fresh`); when it ends that is
  everything, and from then on nobody's memory, nor the disk, says anything else
  (`Calm`). Embedding rewrites every figure, and the refresh that follows makes
  the records match again.
- `VariantsSeparate`, from `RInv /\ Quiet /\ Swept`: shared analysis outputs are,
  when the figures of a variant are drawn, of that variant (`InTurn`), since all
  steps of a variant come before those of the next.

What a run still has to visit is a set with an order; that the order has a first
element in each set needs induction over naturals, which is available for sets
(`LeastNatural`).

Hypotheses. `Markers`: bytes and records are not the values that stand for "no
file", "a stranger's file" and "no record"; it quantifies over everything, so it
is said in the theorems and not with the constants. `NoComparison`: no run is a
comparison, because for comparisons `SkipSound` is false; that is the finding
`comparison_repeats`. `NothingRebuilt` does without it.

### Structure apply and approvals

`ApprovedApply_proofs`: for any plan, edits, approvals and both platforms,

- `UserBytesKept`, `CleanRollback` and `NoEditOverlooked`. `Inodes` says which
  file can be at which name, `Staged` that the new configuration is apply's own
  until it is published, `Copied` which copies are out, `Control` what apply
  knows at each point of guard, tomb and stage. Apply clears a name only where
  `Inodes` says that the file is its own; all else are moves to free names, and
  those lose nothing.
- `RefusedTouchesNothing`, from `Gated`: until the second gate nothing was
  touched.
- `FirstPublicationApproved` and `OneSuccessor`, from `Indexed` (a receipt that
  another supersedes is not current, or is about to be marked) and `Stood` (a
  receipt that stands stood when the checks ended: the index never revives one).

Hypotheses of the last two. `OneHost`: one thread issues. The index has no lock
(`approval_authority_*.py`), and with two threads `OneSuccessor` is false.
`NoReceipt`: the value that stands for no receipt is not a receipt.

The attempt found a mistake of the model: a call could still verify its approval
after its process had died. `Call`, `VerifyBinding` and `VerifyStanding` now
demand that it lives.

### Render jobs

`RenderJob_proofs`: `ManifestTrue`, `StatusNeverAhead`, `DurableSealed` and
`DurableVerified`, for any number of servers, jobs and requests. A workspace is
written file by file by a server that may die anywhere, so the invariant speaks
of workspaces at work too: what the one server in a workspace has put there
goes with where it is (`Latest`, `Own`), and everything else there is of an
earlier request (`Dated`). `Alone` carries `exclusive`. For the durable pair it
is enough that between artifact and receipt one server has the store to itself
(`Storing`), which needs no such hypothesis: the names are free only once.

### Process supervisor

`ProcessSupervisor_proofs`: `SuccessIsComplete`, `TimeoutContained` and
`GoodRunSucceeds`, for any processes, output and pipe. `Phase` is what the
supervisor has learnt when it is where it is; `EndOfFile`, that an end of file
means that all was read and nobody can write; `Blame`, that every failure has a
cause; `Contained`, that a group that was sent its last signal has no live
member, and that a dead group starts nothing.

### Raw files, external inputs, previews

`RawIntegrity_proofs`:

- raw seal: `AcceptedWasAsSealed` and `NamedInputsSealed`, because a verification
  that is still on its way has every file it answers for either hashed, or to
  hash, or was gone (`Comparing`); `FreshSealVerifies`, because after a seal in
  peace a verifier's hashes and the manifest are both of the files as they are
  (`Peace`). The last one assumes `NoUnderscore`: no raw path begins with an
  underscore. Such a path seals, but its entry is refused as an unknown control
  field when the manifest is read (`raw_integrity.py:645`).
- external inputs: a name is made of a digest and nothing but that digest's
  content is ever moved there (`SharedTrue`), so another build can replace it by
  the same only. `EInv` adds what a build knows of its stage before it publishes
  (`StageTrue`) and of its recorded results (`ResultsTrue`).
- previews: `VInv` carries two facts from one opening of a file to the next:
  what is quoted was promised since the request came (`Witnessed`, `Quoting`),
  and what is converted is what is quoted (`Copied`).

### Gates and baselines

`QualityGates_proofs`:

- promotion: `[]PromotedAsReviewed`. `GInv` says of the receipt that it is
  `Sealed` (if it is eligible and asked for a signoff, it holds an approving
  review of its own subject) and of every promotion that it is also `Matched`.
  The lemmas follow the code: a verified review approves the subject held
  (`VerifiedApproves`), an eligible status leaves no gate open
  (`EligibleMeansPassed`), nothing is eligible without a subject and the review
  its policy requires (`EligibleIsBound`), hence an evaluation seals
  (`EvaluationSeals`).
- golden tables: `FreezeVerifies`, because the entries of a freeze on its way
  match the golden copies but for the table it has copied and not hashed
  (`Faithful`); `PassedAsFrozen`, because a check that nobody disturbed has seen
  all golden copies match and every table but those in its queue close
  (`Checked`).
- batches: `CompleteMeansValidated`. What a manifest calls validated was
  (`Vouched`), and every project a call owes is still listed, done, left over or
  passed over (`Accounted`).
- visual baselines: `VerdictBacked`, because snapshots and every manifest that a
  check has loaded are of the history (`Backed`); `FrozenStaysAccepted`, because
  while check-alls do not overlap, the manifest is what the last update to
  finish recorded, and so is what each has in memory but for the figures it is
  renewing (`Kept`).
- policies: for any schema and any number of layers, `OrderIrrelevant`,
  `NeverLoosened` and `StaysWithinLimits`. The schema's assumptions are those of
  `PARAMETER_SCHEMAS` (kernel invariants are requirements preset to TRUE without
  an opt-out, a preset selection is one that is supported), and numbers are
  bounded, as floats are. Most merge operators look at the set of constraints,
  which an order does not change (`SameConstraints`). A selection takes the last
  plain value and an exact parameter the first constraint: there the argument is
  what is refused, since lists that meet leave room for one plain value
  (`OneSelection`), and exact constraints that differ are a conflict.
  `NeverLoosened` speaks of what some layer has asked for: a list alone leaves
  the choice to others, and a preset TRUE that may be waived gives way to the
  first plain FALSE.
- workflow intents: `PromotionOnlyAsked`, `ExecutionHasGrounds` and
  `ExecutionDeclared` for every call and declaration, by where the call comes
  from: a surface that stays open stands for one intent (`OpenSurface`), and
  none stands for promotion.

### Server and CSV tools

`StdioServer_proofs`: `NoWorkerLeftBehind`, `OkReplyTrue` and
`ManifestMatchesFigure`, under any messages. `Workers` says that at most one
living worker belongs to the server, the one of the call that is being served;
so what is drawn follows from how far that worker has got (`Worked`), and what
is written and told from how far the handler has (`Told`).

`ImplementsService`, the refinement of `OrderedService`: every step of the loop
serves the first message, or changes neither what is asked nor what is answered
(`ServiceStep`). The invariant `OInv` is needed because an answer is gathered
entry by entry and written in one go. It says that what was gathered so far is
what `Replies` says of the entries handled so far, or the single error of a
message that is refused (`Going`, `Refused`), and that a text is left alone in
the input only while the server is about to end (`Reading`), which is why it is
never taken for a message. `Replies` is a recursive function, and that its
recursion defines it is proved with a least counterexample (`LeastNatural`),
not with the library's induction. The proof showed that the cases of `Demand`
overlapped when it was first written (a size out of range before a text that is
odd JSON), which no message of the run is; it now says which comes first.

### Assumptions, and what stays with TLC

The constants' assumptions are that a value standing for "nothing" is none of
the values it stands beside (`NoneAssumption`, `AbsentAssumption`,
`DistinctAssumption`, `ContentsAssumption` and their like), that lists name what
is declared (`PipelineAssumption`, `ProjectsAssumption`), that nothing is neither
a message nor an answer (`NothingAssumption`), and those of the
policy schema. TLC evaluates each, since every module that declares one is
extended by the module of a run.

Work that a program takes from a list in order is a set with that order
(`Turn`, `Precedes`, `CurrentProject`, `Due`): equal to a sequence without
repetition, and open to set reasoning, where filtering a sequence is not.

Left to TLC is liveness (`AnsweredOnceReleased`, `ReturnsOnceReleased`,
`EveryMessageHandled`, `ChainCovers`), since the prover has no `ENABLED`. What a
recursive operator computes for every input would be out of its reach too; no
property of a run needs that.

## 5. Not modelled, and what is next

The map covers about an eighth of the implementation's lines, and nearly all of
those that act on state which somebody else may change. What is left is
large and of another kind:

- plotting, themes, geometry diagnostics, preflight: numeric work on a figure in
  memory;
- configuration, schemas, data contracts, data inspection, claims and evidence
  inspection, structure discovery and planning: predicates over one document,
  computed in one go from what was read; the models take their verdicts as
  choices (a project validates or not, a plan is what it is, a table is `Fit`);
- prefetch, the Athena bridge, logs, failure dumps, scaffolding, doctor and
  release scripts: one-shot.

A model of these would restate their conditions one by one, and the runs would
show that they are what they are.

Next:

1. the reformatting of batch artifacts in `SmartBuild`;
2. promotion call by call in `RenderJob`.
