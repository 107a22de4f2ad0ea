----------------------------- MODULE SmartBuild -----------------------------
(***************************************************************************)
(* The incremental pipeline ("Smart Build") of orchestrator.py: which      *)
(* steps of a project a run of figops executes and which it skips, and     *)
(* what it remembers of them in the build state (cache_manager.py,         *)
(* process_runner.py, process_runner_visual_batch.py), and the modes that  *)
(* repeat the pipeline under several environments, a parameter sweep and a *)
(* comparison of conditions (process_runner_variants.py).                  *)
(*                                                                         *)
(* Several runs of figops may work on one project, each with the build     *)
(* state it loaded; nothing excludes them from one another.  Meanwhile     *)
(* sources and the configuration are edited, outputs are overwritten or    *)
(* removed, and the build state may be lost.                               *)
(***************************************************************************)
EXTENDS Naturals, Sequences

CONSTANTS
  Runs,       \* runs of figops that may be active together
  Requests,   \* the <<--step, --force, mode>> that runs are launched with
  Pipeline,   \* the steps of the project, in the order they are executed
  Kind,       \* Kind[s]: "analysis", "figures" or "diagrams"
  Reads,      \* Reads[s]: the sources and the outputs that step s reads
  Expanded,   \* the visual steps made by an artifact with "expand: each",
              \* one for each input file
  Sources,    \* files that only people write: raw data and scripts
  Versions,   \* contents of a source
  Variants,   \* the environments of the sweep or the comparison, in order
  Base,       \* the environment of a plain run
  Configs,    \* versions of project_config.yaml that signatures do not tell
              \* apart: colormap, output format, general environment, ...
  MaxEvents,  \* bound: how often something goes wrong in a run, somebody
              \* else touches the project, a run asks for variants, or is
              \* launched beside another
  Uncached,   \* steps configured with "cache: false"
  Missing,    \* the content of a file that is not there
  Foreign,    \* bytes no run of a step completed: others', or half-written
  None        \* no record, no config hash, no fingerprint

Steps   == {Pipeline[i] : i \in DOMAIN Pipeline}
Visuals == {s \in Steps : Kind[s] # "analysis"}
Envs    == {Base} \cup {Variants[i] : i \in DOMAIN Variants}

\* A visit is one step under one environment.  Every variant of a visual step
\* has an output, and a record, of its own; of an analysis step and of a
\* source there is one.
Visit(s, e) == [step |-> s, env |-> e]
Slot(f, e)  == <<f, IF f \in Visuals THEN e ELSE Base>>
Out(v)      == Slot(v.step, v.env)

Slots   == {Slot(s, e) : s \in Steps, e \in Envs}
Files   == Slots \cup {Slot(f, Base) : f \in Sources}
Figures == {o \in Slots : o[1] \in Visuals}

\* --step: everything, one kind of step, or the assembly (never cached).
Selections == {"all", "analysis", "plot", "diagrams", "assembly"}
Modes      == {"plain", "sweep", "comparison"}

Selects(sel, s) ==
  \/ sel = "all"
  \/ sel = "analysis" /\ Kind[s] = "analysis"
  \/ sel = "plot" /\ Kind[s] = "figures"
  \/ sel = "diagrams" /\ Kind[s] = "diagrams"

\* run_sweep and run_comparison: the selected steps under every environment.
Visits(sel, mode) ==
  [step : {s \in Steps : Selects(sel, s)},
   env  : IF mode = "plain" THEN {Base} ELSE Envs \ {Base}]

\* All steps under one environment before the next one, in their order.
Earlier(x, y, list) ==
  \E i, j \in DOMAIN list : list[i] = x /\ list[j] = y /\ i < j
Before(v, w) ==
  \/ Earlier(v.env, w.env, Variants)
  \/ v.env = w.env /\ Earlier(v.step, w.step, Pipeline)

\* A step is listed once, reads what comes before it, and a visual step reads
\* no other's output: embedding rewrites that after it was signed.
ASSUME PipelineAssumption ==
  /\ Pipeline \in Seq(Steps)
  /\ \A i, j \in DOMAIN Pipeline : Pipeline[i] = Pipeline[j] => i = j
ASSUME RequestsAssumption == Requests \subseteq Selections \X BOOLEAN \X Modes
ASSUME EventsAssumption == MaxEvents \in Nat
ASSUME KindAssumption ==
  Kind \in [Steps -> {"analysis", "figures", "diagrams"}]
ASSUME ReadsAssumption ==
  /\ Reads \in [Steps -> SUBSET (Sources \cup Steps)]
  /\ \A i, j \in DOMAIN Pipeline :
       Pipeline[j] \in Reads[Pipeline[i]] =>
         j < i /\ Kind[Pipeline[j]] = "analysis"
ASSUME VariantsAssumption ==
  /\ Variants \in Seq(Envs)
  /\ \A i, j \in DOMAIN Variants : Variants[i] = Variants[j] => i = j
  /\ \A i \in DOMAIN Variants : Variants[i] # Base
ASSUME FilesAssumption ==
  /\ Sources \cap Steps = {}
  /\ Uncached \subseteq Steps /\ Expanded \subseteq Visuals
  /\ {Missing, Foreign, None} \cap Versions = {}
  /\ Missing # Foreign /\ None \notin Configs

VARIABLES
  config,    \* the configuration file
  file,      \* file[f]: the content of f
  disk,      \* the saved build state
  pc,        \* pc[r]: where run r is
  asked,     \* asked[r]: its --step, --force and mode
  cfg,       \* cfg[r]: the configuration it loaded
  mem,       \* mem[r]: its build state, in memory
  todo,      \* todo[r]: the visits it has yet to make, a set
  sig,       \* sig[r]: the signature of the step it is executing
  broken,    \* broken[r]: a variant failed, the sweep went on with the next
  dirty,     \* history: somebody else touched that step's files meanwhile
  quiet,     \* history: nobody else did anything since r was launched
  clean,     \* history: no record that r loaded is doubtful
  events,    \* how often something of that kind happened
  settled    \* history: a full run succeeded and nobody touched anything since

run  == <<pc, asked, cfg, mem, todo, sig, broken>>
past == <<dirty, quiet, clean, settled>>
vars == <<config, file, disk, run, past, events>>

\* What a step writes: the configuration, the environment and the inputs it
\* was made from are in the bytes; mark is the fingerprint embedded later.
Made(c, e, ins) == [cfg |-> c, env |-> e, ins |-> ins, mark |-> None]

IsMade(x) == x \notin {Missing, Foreign}
Bare(x)   == IF IsMade(x) THEN [x EXCEPT !.mark = None] ELSE x

\* Content signatures of a step's script and inputs, by file.
Inputs(s) == [f \in Reads[s] |-> file[Slot(f, Base)]]

\* Slip: a sweep leaves them out, as a comparison does.
SignatureNoEnv(r, v) == [ins |-> Inputs(v.step), env |-> Base]

\* A sweep adds the parameters to the signatures of analysis steps; a
\* comparison does not, and a visual step's output tells its variant.
Signature(r, v) ==
  [ins |-> Inputs(v.step),
   env |-> IF asked[r].mode = "sweep" /\ v.step \notin Visuals
             THEN v.env ELSE Base]

\* The visit that run r makes next, or is making.
First(S) == CHOOSE v \in S : \A w \in S \ {v} : Before(v, w)
Due(r)   == First(todo[r])

Needs(v) == {Slot(f, Base) : f \in Reads[v.step]}

\* Somebody other than r changes a file of set W.
Touched(r, W) ==
  /\ pc[r] \in {"execute", "record"}
  /\ W \cap (Needs(Due(r)) \cup {Out(Due(r))}) # {}

NoRequest  == [sel |-> "all", force |-> FALSE, mode |-> "plain"]
EmptyState == [hash |-> None, rec |-> [o \in Slots |-> None]]

-----------------------------------------------------------------------------
(* cache_manager.py *)

\* Slip: the recorded outputs are only looked for, not compared.
IsStepStaleNoOutputs(r, v) ==
  LET old == mem[r].rec[Out(v)] IN
    \/ asked[r].force
    \/ mem[r].hash # None /\ mem[r].hash # cfg[r]
    \/ old = None
    \/ old # None /\ (old.sig # Signature(r, v) \/ file[Out(v)] = Missing)

\* is_step_stale, for a visit of run r (the schema version never differs).
IsStepStale(r, v) ==
  LET old == mem[r].rec[Out(v)] IN
    \/ asked[r].force
    \/ mem[r].hash # None /\ mem[r].hash # cfg[r]
    \/ old = None
    \/ /\ old # None
       /\ \/ old.sig # Signature(r, v)
          \/ file[Out(v)] = Missing
          \/ old.outs # file[Out(v)]

\* record_step_state.  "doubt" is history: the output may not be what the
\* signature says.
RecordStepState(r, v) ==
  [hash |-> cfg[r],
   rec  |-> [mem[r].rec EXCEPT ![Out(v)] =
               [sig |-> sig[r], outs |-> file[Out(v)], doubt |-> dirty[r]]]]

Event == events < MaxEvents /\ events' = events + 1

\* save_build_state replaces the file atomically; a failure is only logged.
Save(state) ==
  \/ disk' = state /\ UNCHANGED events
  \/ UNCHANGED disk /\ Event

-----------------------------------------------------------------------------
(* A run of figops. *)

\* Somebody outside of the runs, or run r, changes the files of W.
Noticed(W) ==
  /\ dirty' = [q \in Runs |-> dirty[q] \/ Touched(q, W)]
  /\ quiet' = [q \in Runs |-> FALSE]

NoticedFrom(r, W, doubt) ==
  /\ dirty' = [q \in Runs |-> IF q = r THEN doubt ELSE dirty[q] \/ Touched(q, W)]
  /\ quiet' = [q \in Runs |-> quiet[q] /\ q = r]

Doubtful(state) == \E o \in Slots : state.rec[o] # None /\ state.rec[o].doubt

Launch(r, q) ==
  /\ pc[r] = "idle"
  /\ pc' = [pc EXCEPT ![r] = "visit"]
  /\ asked' = [asked EXCEPT ![r] = [sel |-> q[1], force |-> q[2], mode |-> q[3]]]
  /\ cfg' = [cfg EXCEPT ![r] = config]
  /\ mem' = [mem EXCEPT ![r] = disk]
  /\ todo' = [todo EXCEPT ![r] = Visits(q[1], q[3])]
  /\ quiet' = [o \in Runs |-> o = r /\ \A i \in Runs \ {r} : pc[i] = "idle"]
  /\ clean' = [clean EXCEPT ![r] = ~Doubtful(disk)]
  /\ settled' = (settled /\ ~q[2] /\ q[3] = "plain")
  /\ IF q[3] = "plain" /\ \A i \in Runs : pc[i] = "idle"
       THEN UNCHANGED events ELSE Event
  /\ UNCHANGED <<config, file, disk, sig, broken, dirty>>

Stop(r) ==
  /\ pc' = [pc EXCEPT ![r] = "idle"]
  /\ mem' = [mem EXCEPT ![r] = EmptyState]
  /\ sig' = [sig EXCEPT ![r] = None]
  /\ todo' = [todo EXCEPT ![r] = {}]
  /\ asked' = [asked EXCEPT ![r] = NoRequest]
  /\ broken' = [broken EXCEPT ![r] = FALSE]
  /\ UNCHANGED cfg

\* The variant at hand has failed: the next one is begun, if there is one.  A
\* plain run has only one.
Abandon(r) ==
  LET rest == {v \in todo[r] : v.env # Due(r).env} IN
    \/ /\ rest = {}
       /\ Stop(r)
    \/ /\ rest # {}
       /\ pc' = [pc EXCEPT ![r] = "visit"]
       /\ todo' = [todo EXCEPT ![r] = rest]
       /\ sig' = [sig EXCEPT ![r] = None]
       /\ broken' = [broken EXCEPT ![r] = TRUE]
       /\ UNCHANGED <<asked, cfg, mem>>

\* The next step is skipped: a visual step's cached output is verified, and
\* the run fails when it is not valid (see Fail).
Skip(r) ==
  /\ pc[r] = "visit" /\ todo[r] # {}
  /\ LET v == Due(r) IN
       /\ v.step \notin Uncached /\ ~IsStepStale(r, v)
       /\ \A f \in Needs(v) : file[f] # Missing
  /\ todo' = [todo EXCEPT ![r] = @ \ {Due(r)}]
  /\ UNCHANGED <<events, config, file, disk, pc, asked, cfg, mem, sig, broken,
                 past>>

\* The next step is stale: its signature is taken before it runs.
Enter(r) ==
  /\ pc[r] = "visit" /\ todo[r] # {}
  /\ LET v == Due(r) IN
       /\ v.step \in Uncached \/ IsStepStale(r, v)
       /\ \A f \in Needs(v) : file[f] # Missing
       /\ sig' = [sig EXCEPT ![r] = Signature(r, v)]
  /\ pc' = [pc EXCEPT ![r] = "execute"]
  /\ UNCHANGED <<events, config, file, disk, asked, cfg, mem, todo, broken, past>>

\* The script reads its inputs and its environment and writes its output.
Execute(r) ==
  /\ pc[r] = "execute"
  /\ LET v == Due(r) IN
       /\ file' = [file EXCEPT ![Out(v)] = Made(cfg[r], v.env, Inputs(v.step))]
       /\ NoticedFrom(r, {Out(v)}, dirty[r])
  /\ pc' = [pc EXCEPT ![r] = "record"]
  /\ UNCHANGED <<events, config, disk, asked, cfg, mem, todo, sig, broken,
                 clean, settled>>

\* The script fails, or times out and is killed, with or without having
\* touched its output.
ExecuteFails(r) ==
  /\ pc[r] = "execute"
  /\ LET o == Out(Due(r)) IN
       /\ \E x \in {file[o], Foreign, Missing} : file' = [file EXCEPT ![o] = x]
       /\ NoticedFrom(r, {o}, FALSE)
  /\ Event
  /\ Abandon(r)
  /\ settled' = FALSE
  /\ UNCHANGED <<config, disk, clean>>

\* The step succeeded and its declared output is there.
Record(r) ==
  /\ pc[r] = "record"
  /\ file[Out(Due(r))] # Missing
  /\ LET state == RecordStepState(r, Due(r)) IN
       /\ mem' = [mem EXCEPT ![r] = state]
       /\ Save(state)
  /\ pc' = [pc EXCEPT ![r] = "visit"]
  /\ todo' = [todo EXCEPT ![r] = @ \ {Due(r)}]
  /\ sig' = [sig EXCEPT ![r] = None]
  /\ dirty' = [dirty EXCEPT ![r] = FALSE]
  /\ quiet' = [q \in Runs |-> quiet[q] /\ q = r]
  /\ UNCHANGED <<config, file, asked, cfg, broken, clean, settled>>

\* Every selected step succeeded: the whole build state is stamped.
Stamp(r) ==
  /\ pc[r] = "visit" /\ todo[r] = {} /\ ~broken[r]
  /\ LET state == [mem[r] EXCEPT !.hash = cfg[r]] IN
       /\ mem' = [mem EXCEPT ![r] = state]
       /\ Save(state)
  /\ pc' = [pc EXCEPT ![r] = "embed"]
  /\ quiet' = [q \in Runs |-> quiet[q] /\ q = r]
  /\ UNCHANGED <<config, file, asked, cfg, todo, sig, broken, dirty, clean, settled>>

\* embed_figures_fingerprint writes the hashes of the configuration and of
\* the inputs as they are now into every output it can.  It knows the inputs
\* of the declared outputs only, but it finds whatever is in results/figures,
\* the outputs of all variants too.  It may raise midway, which is only logged.
Tagged(r, o) ==
  IF IsMade(file[o])
    THEN [file[o] EXCEPT !.mark =
            [cfg |-> cfg[r],
             ins |-> IF o[2] = Base /\ o[1] \notin Expanded
                       THEN Inputs(o[1]) ELSE None]]
    ELSE file[o]

Embed(r) ==
  /\ pc[r] = "embed"
  /\ file' = [f \in Files |-> IF f \in Figures THEN Tagged(r, f) ELSE file[f]]
  /\ NoticedFrom(r, Figures, FALSE)
  /\ pc' = [pc EXCEPT ![r] = "refresh"]
  /\ UNCHANGED <<events, config, disk, asked, cfg, mem, todo, sig, broken,
                 clean, settled>>

EmbedFails(r) ==
  /\ pc[r] = "embed"
  /\ \E W \in SUBSET Figures :
       /\ file' = [f \in Files |-> IF f \in W THEN Tagged(r, f) ELSE file[f]]
       /\ NoticedFrom(r, W, FALSE)
  /\ Event
  /\ Stop(r)
  /\ settled' = FALSE
  /\ UNCHANGED <<config, disk, clean>>

\* Slip: the refresh takes the present inputs for the recorded ones too.
RefreshedWithInputs(r, o) ==
  LET old == mem[r].rec[o] IN
    IF o \in Figures /\ old # None
      THEN [old EXCEPT !.outs = file[o], !.sig.ins = Inputs(o[1])]
      ELSE old

\* Slip: what embedding did to the outputs is not recorded.
NotRefreshed(r, o) == mem[r].rec[o]

\* _refresh_visual_output_signatures: every recorded output of the declared
\* figures and diagrams is recorded again as it is now, whether or not this
\* run visited its step.  The outputs of variants and of "expand: each" have
\* other keys and are passed over.
RefreshedRecord(r, o) ==
  LET old == mem[r].rec[o] IN
    IF o \in Figures /\ o[2] = Base /\ o[1] \notin Expanded /\ old # None
      THEN [sig |-> old.sig, outs |-> file[o],
            doubt |-> old.doubt \/ Bare(old.outs) # Bare(file[o])]
      ELSE old

Refresh(r) ==
  /\ pc[r] = "refresh"
  /\ LET state == [mem[r] EXCEPT !.rec = [o \in Slots |-> RefreshedRecord(r, o)]]
         full  == asked[r].sel = "all" /\ asked[r].mode = "plain"
     IN /\ Save(state)
        /\ settled' = (disk' = state /\ (settled \/ (quiet[r] /\ full)))
  /\ Stop(r)
  /\ quiet' = [q \in Runs |-> quiet[q] /\ q = r]
  /\ UNCHANGED <<config, file, dirty, clean>>

\* An input is missing, a skipped step's output is not valid, or an executed
\* step's output is missing or not valid.
Fail(r) ==
  /\ todo[r] # {}
  /\ LET v == Due(r)
         invalid == v.step \in Visuals /\ file[Out(v)] = Foreign
     IN \/ pc[r] = "visit" /\ \E f \in Needs(v) : file[f] = Missing
        \/ /\ pc[r] = "visit" /\ v.step \notin Uncached /\ ~IsStepStale(r, v)
           /\ invalid
        \/ pc[r] = "record" /\ (file[Out(v)] = Missing \/ invalid)
  /\ Abandon(r)
  /\ settled' = FALSE
  /\ dirty' = [dirty EXCEPT ![r] = FALSE]
  /\ quiet' = [q \in Runs |-> FALSE]
  /\ UNCHANGED <<config, file, disk, clean, events>>

\* A contract is violated, which fails the variant at hand.
Refuse(r) ==
  /\ pc[r] = "visit" /\ todo[r] # {}
  /\ Abandon(r)
  /\ Event
  /\ settled' = FALSE
  /\ quiet' = [q \in Runs |-> FALSE]
  /\ UNCHANGED <<config, file, disk, dirty, clean>>

\* The run ends where it stands: its memory and its signature are lost.
Halt(r) ==
  /\ Stop(r)
  /\ settled' = FALSE
  /\ dirty' = [dirty EXCEPT ![r] = FALSE]
  /\ quiet' = [q \in Runs |-> FALSE]
  /\ UNCHANGED <<config, file, disk, clean>>

\* The sweep has come to its end, but not every variant succeeded.
FinishBroken(r) ==
  /\ pc[r] = "visit" /\ todo[r] = {} /\ broken[r]
  /\ Halt(r)
  /\ UNCHANGED events

\* The run is interrupted, or its process dies.
Crash(r) ==
  /\ pc[r] # "idle"
  /\ Halt(r)
  /\ Event

-----------------------------------------------------------------------------
(* People and other programs. *)

Edit(f, v) ==
  /\ file[Slot(f, Base)] # v
  /\ file' = [file EXCEPT ![Slot(f, Base)] = v]
  /\ Noticed({Slot(f, Base)})
  /\ Event
  /\ settled' = FALSE
  /\ UNCHANGED <<config, disk, clean, run>>

EditConfig(c) ==
  /\ config # c
  /\ config' = c
  /\ quiet' = [q \in Runs |-> FALSE]
  /\ Event
  /\ settled' = FALSE
  /\ UNCHANGED <<file, disk, run, dirty, clean>>

Overwrite(o, x) ==
  /\ file[o] # x
  /\ file' = [file EXCEPT ![o] = x]
  /\ Noticed({o})
  /\ Event
  /\ settled' = FALSE
  /\ UNCHANGED <<config, disk, clean, run>>

\* The runtime root is cleared, or the file cannot be parsed any more.
LoseState ==
  /\ disk # EmptyState
  /\ disk' = EmptyState
  /\ quiet' = [q \in Runs |-> FALSE]
  /\ Event
  /\ settled' = FALSE
  /\ UNCHANGED <<config, file, run, dirty, clean>>

-----------------------------------------------------------------------------
Init ==
  /\ config \in Configs
  /\ \E v \in [Sources -> Versions] :
       file = [f \in Files |-> IF f[1] \in Sources THEN v[f[1]] ELSE Missing]
  /\ disk = EmptyState
  /\ pc = [r \in Runs |-> "idle"]
  /\ asked = [r \in Runs |-> NoRequest]
  /\ cfg = [r \in Runs |-> config]
  /\ mem = [r \in Runs |-> EmptyState]
  /\ todo = [r \in Runs |-> {}]
  /\ sig = [r \in Runs |-> None]
  /\ broken = [r \in Runs |-> FALSE]
  /\ events = 0
  /\ dirty = [r \in Runs |-> FALSE]
  /\ quiet = [r \in Runs |-> FALSE]
  /\ clean = [r \in Runs |-> TRUE]
  /\ settled = FALSE

RunStep(r) ==
  \/ \E q \in Requests : Launch(r, q)
  \/ Skip(r) \/ Enter(r) \/ Execute(r) \/ ExecuteFails(r) \/ Record(r)
  \/ Stamp(r) \/ Embed(r) \/ EmbedFails(r) \/ Refresh(r)
  \/ Fail(r) \/ Refuse(r) \/ FinishBroken(r) \/ Crash(r)

Next ==
  \/ \E r \in Runs : RunStep(r)
  \/ \E f \in Sources, v \in Versions : Edit(f, v)
  \/ \E c \in Configs : EditConfig(c)
  \/ \E o \in Slots, x \in {Foreign, Missing} : Overwrite(o, x)
  \/ LoseState

Spec == Init /\ [][Next]_vars

-----------------------------------------------------------------------------
(* Properties. *)

IsState(state) ==
  /\ DOMAIN state = {"hash", "rec"}
  /\ state.hash \in Configs \cup {None}
  /\ DOMAIN state.rec = Slots
  /\ \A o \in Slots : state.rec[o] # None =>
       /\ DOMAIN state.rec[o] = {"sig", "outs", "doubt"}
       /\ DOMAIN state.rec[o].sig.ins = Reads[o[1]]
       /\ state.rec[o].doubt \in BOOLEAN

\* The variables have their types: a run is working on a step exactly between
\* taking its signature and recording it.
TypeOK ==
  /\ config \in Configs
  /\ DOMAIN file = Files
  /\ \A f \in Sources : file[Slot(f, Base)] \in Versions
  /\ \A o \in Slots : IsMade(file[o]) =>
       /\ file[o].cfg \in Configs /\ file[o].env \in Envs
       /\ DOMAIN file[o].ins = Reads[o[1]]
  /\ IsState(disk)
  /\ pc \in [Runs -> {"idle", "visit", "execute", "record", "embed", "refresh"}]
  /\ asked \in [Runs -> [sel : Selections, force : BOOLEAN, mode : Modes]]
  /\ cfg \in [Runs -> Configs]
  /\ \A r \in Runs : IsState(mem[r])
  /\ todo \in [Runs -> SUBSET [step : Steps, env : Envs]]
  /\ \A r \in Runs : IF pc[r] \in {"execute", "record"}
       THEN /\ todo[r] # {} /\ sig[r] # None
            /\ DOMAIN sig[r].ins = Reads[Due(r).step]
       ELSE sig[r] = None
  /\ broken \in [Runs -> BOOLEAN] /\ clean \in [Runs -> BOOLEAN]
  /\ dirty \in [Runs -> BOOLEAN] /\ quiet \in [Runs -> BOOLEAN]
  /\ events \in 0..MaxEvents /\ settled \in BOOLEAN

\* An output that a step made from its script and inputs as they are now,
\* under the environment it is for.
Current(v) ==
  LET x == file[Out(v)] IN
    IsMade(x) /\ x.ins = Inputs(v.step) /\ x.env = v.env

\* A step is skipped only if its output was made from the inputs it has now
\* and in the environment of the variant, whatever other runs recorded, lost
\* or overwrote meanwhile (is_step_stale and the order of signing, running and
\* recording in run_analysis), unless its record is doubtful: its files were
\* touched by others while it ran, or a refresh recorded bytes that were not
\* the ones recorded before.
SkipSound ==
  [][\A r \in Runs : Skip(r) =>
       LET v == Due(r) IN Current(v) \/ mem[r].rec[Out(v)].doubt]_vars

\* When a full plain run that nobody disturbed comes to its end, every output
\* is current, all the way from the sources, but where a record is doubtful.
SuccessIsCurrent ==
  \A r \in Runs :
    /\ pc[r] = "embed" /\ quiet[r]
    /\ asked[r].sel = "all" /\ asked[r].mode = "plain"
    => \A s \in Steps :
         Current(Visit(s, Base)) \/ mem[r].rec[Slot(s, Base)].doubt

\* When a full sweep, or comparison, that nobody disturbed comes to its end,
\* the figures of every variant were made in its environment from analysis
\* outputs made in the same environment from what the sources are now,
\* although the variants share those outputs and their records
\* (run_sweep, run_comparison).
VariantsSeparate ==
  \A r \in Runs :
    /\ pc[r] = "embed" /\ quiet[r] /\ clean[r]
    /\ asked[r].sel = "all" /\ asked[r].mode # "plain"
    => \A i \in DOMAIN Variants, s \in Visuals :
         LET x == file[Slot(s, Variants[i])] IN
           /\ IsMade(x) /\ x.env = Variants[i]
           /\ \A f \in Reads[s] \ Steps : x.ins[f] = file[Slot(f, Base)]
           /\ \A f \in Reads[s] \cap Steps :
                /\ IsMade(x.ins[f]) /\ x.ins[f].env = Variants[i]
                /\ \A g \in Reads[f] \ Steps :
                     x.ins[f].ins[g] = file[Slot(g, Base)]

\* After a full plain run succeeded and saved its state, and as long as nobody
\* touches anything or asks for variants, no later run, of whatever selection
\* and alongside whatever others, executes a cached step again, although every
\* one of them rewrites the visual outputs to embed the fingerprint
\* (_refresh_visual_output_signatures).  Steps of "expand: each" are excepted:
\* they are always executed again.
NothingRebuilt ==
  settled => \A r \in Runs :
    pc[r] \in {"execute", "record"} =>
      Due(r).step \in Uncached \cup Expanded

\* "project_config.yaml modified" makes a step stale (cache_manager.py:186-188):
\* what a run skips was made under the configuration it runs with.
ConfigChangeRebuilds ==
  [][\A r \in Runs : Skip(r) /\ IsMade(file[Out(Due(r))]) =>
       file[Out(Due(r))].cfg = cfg[r]]_vars

=============================================================================
