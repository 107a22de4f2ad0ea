----------------------------- MODULE JobPreview -----------------------------
(***************************************************************************)
(* Previews of job artifacts (hub_core/mcp/preview_artifacts.py).  A       *)
(* client names a job; the server finds its manifest, reads there which    *)
(* bytes were sealed, hashes the artifact, copies it, hashing again, to a  *)
(* private directory, and has a limited worker process convert the copy.   *)
(* Meanwhile the job is rendered again by another server, or a script that *)
(* outlived its run writes to the artifact (RenderJob.tla).                *)
(*                                                                         *)
(* A picture is two halves; its digest is the picture.                     *)
(***************************************************************************)
EXTENDS Naturals, FiniteSets

CONSTANTS
  Kinds,     \* the kinds of jobs, each with its directory: the job id may
             \* occur under several
  Shades,    \* what a half of a picture may be
  Heavy,     \* pictures that do not fit as PNG into the limit of the preview
  MaxTurns,  \* bound: how often somebody touches a job
  NoFile

ASSUME TurnsAssumption == MaxTurns \in Nat
ASSUME NoFileAssumption == NoFile \notin Shades \X Shades

VARIABLES
  artifact,  \* artifact[k]: the picture of the job of kind k
  promise,   \* promise[k]: what its manifest seals
  stage,     \* where the request is
  selected,  \* the kind of the job it has found
  quoted,    \* what the manifest it has read seals
  head,      \* the file it has opened and read one half of
  private,   \* the picture in its temporary directory
  turns,
  promised   \* history: every <<kind, picture>> some manifest has sealed since
             \* the request came

jobFiles    == <<artifact, promise, promised>>
request     == <<stage, selected, quoted, head, private>>
previewVars == <<jobFiles, request, turns>>

Pictures == Shades \X Shades
Answers  == {"described", "delivered", "unavailable"}

Proceed(st) == stage' = st
Refuse      == Proceed("unavailable")

-----------------------------------------------------------------------------
(* read_job_preview_blob, and describe_job_preview, which stops half-way.  *)

Promises == {<<k, promise[k]>> : k \in {j \in Kinds : promise[j] # NoFile}}

\* _resolve_selection: exactly one kind of job has a manifest.
Select ==
  /\ stage \in Answers \cup {"idle"}
  /\ promised' = Promises
  /\ LET present == {k \in Kinds : promise[k] # NoFile} IN
       IF Cardinality(present) = 1
         THEN selected' \in present /\ Proceed("manifest")
         ELSE Refuse /\ UNCHANGED selected
  /\ UNCHANGED <<artifact, promise, quoted, head, private, turns>>

\* _read_manifest; manifests are replaced as a whole.
ReadManifest ==
  /\ stage = "manifest"
  /\ IF promise[selected] = NoFile
       THEN Refuse /\ UNCHANGED quoted
       ELSE quoted' = promise[selected] /\ Proceed("check")
  /\ UNCHANGED <<jobFiles, selected, head, private, turns>>

\* The artifact is opened, to be checked and again to be copied.
OpenArtifact ==
  /\ stage \in {"check", "copy"}
  /\ IF artifact[selected] = NoFile
       THEN Refuse /\ UNCHANGED head
       ELSE /\ head' = artifact[selected]
            /\ Proceed(IF stage = "check" THEN "check_rest" ELSE "copy_rest")
  /\ UNCHANGED <<jobFiles, selected, quoted, private, turns>>

\* What the rest of the file may turn out to be: it may have been replaced or
\* written to, which the comparison of its times sees or does not.
Readings ==
  {<<head[1], f[2]>> : f \in {head, artifact[selected]} \ {NoFile}}

CheckRest ==
  /\ stage = "check_rest"
  /\ \E found \in Readings :
       IF found = quoted THEN Proceed("described") \/ Proceed("copy") ELSE Refuse
  /\ UNCHANGED <<jobFiles, selected, quoted, head, private, turns>>

\* Mutant: what has been checked is copied as it is.
CopyUnchecked ==
  /\ stage = "copy_rest"
  /\ private' \in Readings
  /\ Proceed("convert")
  /\ UNCHANGED <<jobFiles, selected, quoted, head, turns>>

\* _copy_verified_source
CopyRest ==
  /\ stage = "copy_rest"
  /\ private' \in Readings
  /\ IF private' = quoted THEN Proceed("convert") ELSE Refuse
  /\ UNCHANGED <<jobFiles, selected, quoted, head, turns>>

\* _run_worker and _read_validated_preview.  The worker's files are limited to
\* the size of a preview, so that it cannot write a PNG that is too large and
\* turn to JPEG; it may also fail, or be killed at its deadline.
Convert ==
  /\ stage = "convert"
  /\ \/ private \notin Heavy /\ Proceed("delivered")
     \/ Refuse
  /\ UNCHANGED <<jobFiles, selected, quoted, head, private, turns>>

-----------------------------------------------------------------------------
(* The job, meanwhile.                                                     *)

Turn == turns < MaxTurns /\ turns' = turns + 1 /\ UNCHANGED request

\* The workspace is removed,
Discard(k) ==
  /\ <<artifact[k], promise[k]>> # <<NoFile, NoFile>>
  /\ artifact' = [artifact EXCEPT ![k] = NoFile]
  /\ promise' = [promise EXCEPT ![k] = NoFile]
  /\ Turn /\ UNCHANGED promised

\* a script draws the picture,
Draw(k) ==
  /\ artifact[k] = NoFile
  /\ \E s \in Shades : artifact' = [artifact EXCEPT ![k] = <<s, s>>]
  /\ Turn /\ UNCHANGED <<promise, promised>>

\* and build_preview_artifacts seals it in the manifest.
SealPicture(k) ==
  /\ artifact[k] # NoFile /\ promise[k] = NoFile
  /\ promise' = [promise EXCEPT ![k] = artifact[k]]
  /\ promised' = promised \cup {<<k, artifact[k]>>}
  /\ Turn /\ UNCHANGED artifact

\* Another script writes one half of it.
Scribble(k) ==
  /\ artifact[k] # NoFile
  /\ \E i \in 1..2 : \E s \in Shades \ {artifact[k][i]} :
       artifact' = [artifact EXCEPT ![k][i] = s]
  /\ Turn /\ UNCHANGED <<promise, promised>>

PreviewInit ==
  /\ artifact \in [Kinds -> {<<s, s>> : s \in Shades} \cup {NoFile}]
  /\ promise = artifact
  /\ promised = {}
  /\ stage = "idle" /\ selected \in Kinds
  /\ quoted = NoFile /\ head = NoFile /\ private = NoFile
  /\ turns = 0

PreviewNext ==
  \/ Select \/ ReadManifest \/ OpenArtifact \/ CheckRest \/ CopyRest \/ Convert
  \/ \E k \in Kinds : Discard(k) \/ Draw(k) \/ SealPicture(k) \/ Scribble(k)

PreviewSpec == PreviewInit /\ [][PreviewNext]_previewVars

-----------------------------------------------------------------------------
(* Properties.                                                             *)

PreviewTypeOK ==
  /\ artifact \in [Kinds -> Pictures \cup {NoFile}]
  /\ promise \in [Kinds -> Pictures \cup {NoFile}]
  /\ stage \in Answers \cup {"idle", "manifest", "check", "check_rest", "copy",
                             "copy_rest", "convert"}
  /\ selected \in Kinds
  /\ {quoted, head, private} \subseteq Pictures \cup {NoFile}
  /\ turns \in 0..MaxTurns
  /\ promised \subseteq Kinds \X Pictures

\* A preview that is delivered shows the picture whose digest it quotes, and
\* the manifest of the very job it names sealed that picture at some moment
\* since the request: it is neither torn nor out of date, although selection,
\* manifest, check and copy each open the files anew while the job is rendered
\* again, under another kind too, or scribbled on.
PreviewAsSealed ==
  stage = "delivered" => private = quoted /\ <<selected, private>> \in promised

=============================================================================
