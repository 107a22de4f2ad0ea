--------------------------- MODULE VisualBaselines ---------------------------
(***************************************************************************)
(* orchestrator.py --check-all --regression-baseline (hub_core/            *)
(* visual_regression.py, visual_regression_baselines.py): every project is *)
(* built again, and each figure it declares is compared with a baseline,   *)
(* or becomes one.                                                         *)
(*                                                                         *)
(* A baseline is a snapshot of the figure and an entry with its hash in a  *)
(* manifest.  Snapshots are replaced as the figures are visited, the       *)
(* manifest is loaded at the start and written, in place, at the end; a    *)
(* check trusts the entry first and looks into the snapshot only when the  *)
(* hash differs.  Nothing excludes two check-alls from one another.        *)
(***************************************************************************)
EXTENDS Naturals, Sequences

CONSTANTS
  Checkers,    \* check-alls that may run together
  Projects,    \* the projects, in the order of discovery
  Declared,    \* Declared[p]: the figures project p declares, in order
  Contents,    \* what a figure may look like
  Near,        \* pairs that the pixel metrics find within the tolerances
  MaxMishaps,  \* bound: crashes, failing calls, edits and touched snapshots
  Missing,     \* the content of a file that is not there
  Torn,        \* a file that was not written to its end
  None         \* no entry

RangeOf(s) == {s[i] : i \in DOMAIN s}
Figures    == UNION {RangeOf(Declared[p]) : p \in RangeOf(Projects)}
Modes      == {"ignore", "check", "update"}

ASSUME ProjectsAssumption ==
  Projects \in Seq(RangeOf(Projects)) /\ \A p \in RangeOf(Projects) : Declared[p] \in Seq(Figures)
ASSUME NearAssumption == Near \subseteq Contents \X Contents
ASSUME ContentsAssumption == {Missing, Torn, None} \cap Contents = {} /\ Missing # None
ASSUME MishapsAssumption == MaxMishaps \in Nat

VARIABLES
  out,       \* out[f]: the figure in its project
  snap,      \* snap[f]: its snapshot
  manifest,  \* the manifest file: the hash of each figure, or Torn
  config,    \* config[p]: can the configuration of p be loaded?
  pc, mode,  \* of each check-all: where it is, its --regression-baseline,
  mem,       \*   the manifest in its memory,
  dirty,     \*   the figures whose entries it has renewed,
  todo,      \*   the projects it has yet to finish,
  figs,      \*   the figures of the current one it has yet to visit,
  ran,       \*   did that project's build succeed?
  hash,      \*   the hash of the figure it is visiting,
  ok,        \*   has everything been well so far?
  mishaps,
  frozen,    \* history: what the last update to finish recorded of a figure
  backing,   \* history: and what snapshots have been taken of it since
  overlap    \* history: two check-alls have run at the same time

files == <<out, snap, manifest, config>>
checker == <<pc, mode, mem, dirty, todo, figs, ran, hash, ok>>
past  == <<frozen, backing, overlap>>
vars  == <<files, checker, mishaps, past>>

NoEntries == [f \in Figures |-> None]

Init ==
  /\ out = [f \in Figures |-> Missing] /\ snap = [f \in Figures |-> Missing]
  /\ manifest = NoEntries
  /\ config = [p \in RangeOf(Projects) |-> TRUE]
  /\ pc = [c \in Checkers |-> "idle"]
  /\ mode = [c \in Checkers |-> "ignore"]
  /\ mem = [c \in Checkers |-> NoEntries]
  /\ dirty = [c \in Checkers |-> {}]
  /\ todo = [c \in Checkers |-> {}] /\ figs = [c \in Checkers |-> <<>>]
  /\ ran = [c \in Checkers |-> TRUE] /\ ok = [c \in Checkers |-> TRUE]
  /\ hash = [c \in Checkers |-> Missing]
  /\ mishaps = 0
  /\ frozen = NoEntries /\ backing = [f \in Figures |-> {}]
  /\ overlap = FALSE

Mishap == mishaps < MaxMishaps /\ mishaps' = mishaps + 1

-----------------------------------------------------------------------------
(* A check-all. *)

\* Discovery, and the manifest is loaded; a torn one ends the call at once.
\* Projects whose configuration is invalid are left out, and spoil the result.
Start(c, m) ==
  /\ pc[c] = "idle" /\ manifest # Torn
  /\ pc' = [pc EXCEPT ![c] = "project"]
  /\ mode' = [mode EXCEPT ![c] = m]
  /\ mem' = [mem EXCEPT ![c] = manifest]
  /\ dirty' = [dirty EXCEPT ![c] = {}]
  /\ todo' = [todo EXCEPT ![c] = {p \in DOMAIN config : config[p]}]
  /\ ok' = [ok EXCEPT ![c] = \A p \in DOMAIN config : config[p]]
  /\ overlap' = (overlap \/ \E d \in Checkers \ {c} : pc[d] # "idle")
  /\ UNCHANGED <<files, figs, ran, hash, mishaps, frozen, backing>>

\* The first of the projects that it has yet to finish.
CurrentProject(c) == CHOOSE p \in todo[c] :
                \E i \in DOMAIN Projects :
                  p = Projects[i] /\ \A j \in 1..(i - 1) : Projects[j] \notin todo[c]

\* The project's path is refused, or its build cannot be started.
Unrunnable(c) ==
  /\ pc[c] = "project" /\ todo[c] # {}
  /\ Mishap
  /\ ok' = [ok EXCEPT ![c] = FALSE]
  /\ todo' = [todo EXCEPT ![c] = @ \ {CurrentProject(c)}]
  /\ UNCHANGED <<files, pc, mode, mem, dirty, figs, ran, hash, past>>

\* orchestrator.py builds the project, and succeeds or not.
Build(c) ==
  /\ pc[c] = "project" /\ todo[c] # {}
  /\ LET own == RangeOf(Declared[CurrentProject(c)]) IN
       \E new \in [own -> Contents \cup {Missing}], success \in BOOLEAN :
         /\ out' = [f \in Figures |-> IF f \in own THEN new[f] ELSE out[f]]
         /\ ran' = [ran EXCEPT ![c] = success]
  /\ pc' = [pc EXCEPT ![c] = "config"]
  /\ UNCHANGED <<snap, manifest, config, mode, mem, dirty, todo, figs, hash,
                 ok, mishaps, past>>

\* The next figure of the project, or the next project.
Proceed(c, rest) ==
  /\ figs' = [figs EXCEPT ![c] = rest]
  /\ todo' = [todo EXCEPT ![c] = IF rest = <<>> THEN @ \ {CurrentProject(c)} ELSE @]
  /\ pc' = [pc EXCEPT ![c] = IF rest = <<>> THEN "project" ELSE "figure"]

\* The configuration is loaded once more; without it there are no figures, and
\* nothing fails.  Figures are visited whether or not the build succeeded.
LoadConfig(c) ==
  /\ pc[c] = "config"
  /\ LET p == CurrentProject(c) IN
       Proceed(c, IF config[p] THEN Declared[p] ELSE <<>>)
  /\ ok' = [ok EXCEPT ![c] = @ /\ ran[c]]
  /\ UNCHANGED <<files, mode, mem, dirty, ran, hash, mishaps, past>>

Visiting(c, f) == pc[c] = "figure" /\ figs[c] # <<>> /\ f = Head(figs[c])

Judge(c, good) ==
  /\ ok' = [ok EXCEPT ![c] = @ /\ good]
  /\ Proceed(c, Tail(figs[c]))

\* Mutant: a figure without a baseline is not a failure.
MatchesOrUnknown(c, f) == mem[c][f] \in {None, out[f]}

\* The entry names the very bytes.
Matches(c, f) == mem[c][f] = out[f]

\* resolve_figure_baseline, up to the point where it needs the files again.
Visit(c) == \E f \in Figures :
  /\ Visiting(c, f)
  /\ hash' = [hash EXCEPT ![c] = out[f]]
  /\ \/ /\ mode[c] = "ignore" /\ Judge(c, TRUE)
     \/ /\ mode[c] = "update" /\ out[f] = Missing /\ Judge(c, FALSE)
     \/ /\ mode[c] = "update" /\ out[f] # Missing
        /\ pc' = [pc EXCEPT ![c] = "copy"]
        /\ UNCHANGED <<figs, todo, ok>>
     \/ /\ mode[c] = "check"
        /\ IF Matches(c, f) /\ out[f] # Missing /\ snap[f] # Missing
             THEN Judge(c, TRUE)
             ELSE IF mem[c][f] = None \/ out[f] = Missing \/ snap[f] = Missing
               THEN Judge(c, FALSE)
               ELSE /\ pc' = [pc EXCEPT ![c] = "compare"]
                    /\ UNCHANGED <<figs, todo, ok>>
  /\ UNCHANGED <<files, mode, mem, dirty, ran, mishaps, past>>

\* build_visual_diff_metrics of two images, or two previews of a PDF: what is
\* torn, or of another size, or has no renderer cannot be measured.
Alike(x, y) == <<x, y>> \in Near

\* The verdict: what cannot be measured fails.
Compare(c) ==
  /\ pc[c] = "compare"
  /\ LET f == Head(figs[c]) IN Judge(c, Alike(snap[f], out[f]))
  /\ UNCHANGED <<files, mode, mem, dirty, ran, hash, mishaps, past>>

\* upsert_baseline_entry: the figure as it is now, under the hash it had.
Copy(c) ==
  /\ pc[c] = "copy"
  /\ LET f == Head(figs[c]) IN
       /\ out[f] # Missing
       /\ snap' = [snap EXCEPT ![f] = out[f]]
       /\ mem' = [mem EXCEPT ![c][f] = hash[c]]
       /\ dirty' = [dirty EXCEPT ![c] = @ \cup {f}]
       /\ backing' = [backing EXCEPT ![f] = @ \cup {out[f]}]
  /\ Judge(c, TRUE)
  /\ UNCHANGED <<out, manifest, config, mode, ran, hash, mishaps, frozen, overlap>>

Stop(c) ==
  /\ pc' = [pc EXCEPT ![c] = "idle"]
  /\ mem' = [mem EXCEPT ![c] = NoEntries]
  /\ dirty' = [dirty EXCEPT ![c] = {}]
  /\ todo' = [todo EXCEPT ![c] = {}] /\ figs' = [figs EXCEPT ![c] = <<>>]
  /\ ran' = [ran EXCEPT ![c] = TRUE] /\ ok' = [ok EXCEPT ![c] = TRUE]
  /\ hash' = [hash EXCEPT ![c] = Missing]
  /\ UNCHANGED mode

\* The figure has gone: the exception ends the whole call, and no manifest is
\* written for the snapshots replaced so far.
CopyRaises(c) ==
  /\ pc[c] = "copy" /\ out[Head(figs[c])] = Missing
  /\ Stop(c)
  /\ UNCHANGED <<files, mishaps, past>>

\* write_baseline_manifest opens the file, which empties it,
OpenManifest(c) ==
  /\ pc[c] = "project" /\ todo[c] = {} /\ dirty[c] # {}
  /\ manifest' = Torn
  /\ pc' = [pc EXCEPT ![c] = "write"]
  /\ UNCHANGED <<out, snap, config, mode, mem, dirty, todo, figs, ran, hash, ok,
                 mishaps, past>>

\* Mutant: it writes what this call has recorded, and nothing else.
WriteManifestOwn(c) ==
  /\ pc[c] = "write"
  /\ manifest' = [f \in Figures |-> IF f \in dirty[c] THEN mem[c][f] ELSE None]
  /\ frozen' = [f \in Figures |-> IF f \in dirty[c] THEN mem[c][f] ELSE frozen[f]]
  /\ backing' = [f \in Figures |->
                   IF f \in dirty[c] /\ ~overlap
                     THEN {mem[c][f], snap[f]}
                     ELSE backing[f] \cup ({mem[c][f]} \ {None})]
  /\ Stop(c)
  /\ UNCHANGED <<out, snap, config, mishaps, overlap>>

\* and writes what is in memory.
WriteManifest(c) ==
  /\ pc[c] = "write"
  /\ manifest' = mem[c]
  /\ frozen' = [f \in Figures |-> IF f \in dirty[c] THEN mem[c][f] ELSE frozen[f]]
  /\ backing' = [f \in Figures |->
                   IF f \in dirty[c] /\ ~overlap
                     THEN {mem[c][f], snap[f]}
                     ELSE backing[f] \cup ({mem[c][f]} \ {None})]
  /\ Stop(c)
  /\ UNCHANGED <<out, snap, config, mishaps, overlap>>

\* Nothing to write: the report alone.
Report(c) ==
  /\ pc[c] = "project" /\ todo[c] = {} /\ dirty[c] = {}
  /\ Stop(c)
  /\ UNCHANGED <<files, mishaps, past>>

\* The process dies, or a call fails, a copy perhaps in the middle.
Crash(c) ==
  /\ pc[c] # "idle"
  /\ snap' \in {snap} \cup
       {[snap EXCEPT ![f] = Torn] : f \in {g \in Figures : pc[c] = "copy" /\ g = Head(figs[c])}}
  /\ Stop(c)
  /\ Mishap
  /\ UNCHANGED <<out, manifest, config, past>>

-----------------------------------------------------------------------------
(* Others: a figure is edited or removed, a configuration is broken or mended, *)
(* the runtime directory is cleaned.                                           *)
Others ==
  /\ Mishap
  /\ \/ /\ \E f \in Figures, x \in Contents \cup {Missing} : out' = [out EXCEPT ![f] = x]
        /\ UNCHANGED <<snap, manifest, config>>
     \/ /\ \E p \in DOMAIN config : config' = [config EXCEPT ![p] = ~@]
        /\ UNCHANGED <<out, snap, manifest>>
     \/ /\ \E f \in Figures : snap' = [snap EXCEPT ![f] = Missing]
        /\ UNCHANGED <<out, manifest, config>>
  /\ UNCHANGED <<checker, past>>

CheckerNext(c) ==
  \/ \E m \in Modes : Start(c, m)
  \/ Unrunnable(c) \/ Build(c) \/ LoadConfig(c) \/ Visit(c) \/ Compare(c)
  \/ Copy(c) \/ CopyRaises(c) \/ OpenManifest(c) \/ WriteManifest(c)
  \/ Report(c) \/ Crash(c)

Next == (\E c \in Checkers : CheckerNext(c)) \/ Others

Spec == Init /\ [][Next]_vars

-----------------------------------------------------------------------------
TypeOK ==
  /\ out \in [Figures -> Contents \cup {Missing}]
  /\ snap \in [Figures -> Contents \cup {Missing, Torn}]
  /\ manifest \in [Figures -> Contents \cup {None}] \cup {Torn}
  /\ config \in [RangeOf(Projects) -> BOOLEAN]
  /\ mem \in [Checkers -> [Figures -> Contents \cup {None}]]
  /\ pc \in [Checkers -> {"idle", "project", "config", "figure", "copy",
                          "compare", "write"}]
  /\ mode \in [Checkers -> Modes] /\ dirty \in [Checkers -> SUBSET Figures]
  /\ todo \in [Checkers -> SUBSET RangeOf(Projects)]
  /\ figs \in [Checkers -> Seq(Figures)]
  /\ hash \in [Checkers -> Contents \cup {Missing}]
  /\ ran \in [Checkers -> BOOLEAN] /\ ok \in [Checkers -> BOOLEAN]
  /\ overlap \in BOOLEAN /\ mishaps \in 0..MaxMishaps
  /\ frozen \in [Figures -> Contents \cup {None}]
  /\ backing \in [Figures -> SUBSET (Contents \cup {Missing, Torn, None})]

\* This step lets figure f pass, in a check that has been well so far.
Passes(c, f) ==
  /\ mode[c] = "check" /\ pc[c] \in {"figure", "compare"} /\ f = Head(figs[c])
  /\ figs'[c] = Tail(figs[c]) /\ ok'[c] /\ pc'[c] # "idle"

\* A check lets only such figures pass as agree with what the last update to
\* finish recorded of them, or with a snapshot that one took since which did
\* not finish; and if check-alls ran side by side, with something that some
\* update once recorded (resolve_figure_baseline against half-written files,
\* torn manifests and lost entries).
VerdictBacked ==
  [][\A c \in Checkers, f \in Figures :
       Passes(c, f) =>
         \E b \in backing[f] : b = out[f] \/ Alike(b, out[f])]_vars

\* As long as check-alls do not run side by side, a figure that looks as the
\* last update to finish recorded it passes, whatever updates died since
\* (write_baseline_manifest comes last and loses no other entry).
FrozenStaysAccepted ==
  [][\A c \in Checkers, f \in Figures :
       /\ Visiting(c, f) /\ mode[c] = "check"
       /\ <<pc'[c], figs'[c]>> # <<pc[c], figs[c]>>
       /\ pc'[c] # "idle" /\ ~overlap
       /\ out[f] = frozen[f] /\ snap[f] # Missing
       => ok'[c] = ok[c] /\ pc'[c] # "compare"]_vars

=============================================================================
