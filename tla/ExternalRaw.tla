----------------------------- MODULE ExternalRaw -----------------------------
(***************************************************************************)
(* Inputs from outside the project (hub_core/external_raw_execution.py).   *)
(* The configuration describes such a file by the digest of its content.   *)
(* A build whose recorded signature has that digest does not look at the   *)
(* file at all.  Any other copies it, hashing, to a private stage, moves   *)
(* the stage to a name that every build of the project shares, verifies    *)
(* what stands there and hands the name to its script.  Meanwhile other    *)
(* builds do the same, the file is replaced, removed or overwritten in     *)
(* place, the descriptor is edited and the runtime root is cleaned.        *)
(*                                                                         *)
(* A content is two halves; that of digest d is <<d, d>>.                  *)
(***************************************************************************)
EXTENDS Naturals

CONSTANTS
  Builds,    \* builds that share a runtime root, each with results of its
             \* own: in the project, or in a job's copy of it
  Digests,   \* of the contents a descriptor may name
  MaxStirs,  \* bound: how often the surroundings change
  NoContent  \* there is no file

ASSUME StirsAssumption == MaxStirs \in Nat
ASSUME NoContentAssumption == NoContent \notin Digests \cup (Digests \X Digests)

VARIABLES
  described,  \* the digest in the configuration file
  source,     \* the content of the external file
  shared,     \* shared[d]: the content at the name made of the id and d
  phase,      \* phase[b]: where build b is
  wanted,     \* wanted[b]: the digest of the configuration it loaded
  opened,     \* opened[b]: the file as it was when b opened it
  copied,     \* copied[b]: the content of its stage
  results,    \* results[b]: its recorded signature and what its script read
  stirs

build        == <<phase, wanted, opened, copied, results>>
externalVars == <<described, source, shared, build, stirs>>

Contents   == Digests \X Digests
Content(d) == <<d, d>>
Resting    == {"idle", "ok", "refused"}
NoResult   == [signature |-> NoContent, read |-> NoContent]

To(b, ph) == phase' = [phase EXCEPT ![b] = ph]
Quietly   == UNCHANGED <<described, source, stirs>>

-----------------------------------------------------------------------------
(* A build.                                                                *)

\* The signature is the descriptor's; if it is the recorded one, the step is
\* skipped.
Load(b) ==
  /\ phase[b] \in Resting
  /\ wanted' = [wanted EXCEPT ![b] = described]
  /\ To(b, IF results[b].signature = described THEN "ok" ELSE "approve")
  /\ Quietly /\ UNCHANGED <<shared, opened, copied, results>>

\* _approved_source, again after the prefetch; the first half is read.
Open(b) ==
  /\ phase[b] = "approve"
  /\ IF source = NoContent
       THEN To(b, "refused") /\ UNCHANGED opened
       ELSE To(b, "copy") /\ opened' = [opened EXCEPT ![b] = source]
  /\ Quietly /\ UNCHANGED <<shared, wanted, copied, results>>

\* The other half is that of the file that was opened, which may have been
\* replaced or overwritten since.
Copy(b) ==
  /\ phase[b] = "copy"
  /\ \E last \in {opened[b], source} \ {NoContent} :
       copied' = [copied EXCEPT ![b] = <<opened[b][1], last[2]>>]
  /\ To(b, "compare")
  /\ Quietly /\ UNCHANGED <<shared, wanted, opened, results>>

\* Identity, size and time of the file are compared, then the digest.  A
\* change within the clock's resolution is not seen in the former.
Compare(b) ==
  /\ phase[b] = "compare"
  /\ \/ /\ copied[b] = Content(wanted[b]) /\ source # NoContent
        /\ To(b, "publish")
     \/ /\ copied[b] # Content(wanted[b]) \/ source # opened[b]
        /\ To(b, "refused")
  /\ Quietly /\ UNCHANGED <<shared, wanted, opened, copied, results>>

\* Mutant: the shared name is made of the id alone.
PublishById(b) ==
  /\ phase[b] = "publish"
  /\ shared' = [d \in Digests |-> copied[b]]
  /\ To(b, "verify")
  /\ Quietly /\ UNCHANGED <<wanted, opened, copied, results>>

Publish(b) ==
  /\ phase[b] = "publish"
  /\ shared' = [shared EXCEPT ![wanted[b]] = copied[b]]
  /\ To(b, "verify")
  /\ Quietly /\ UNCHANGED <<wanted, opened, copied, results>>

\* verify_external_raw_materialization
Verify(b) ==
  /\ phase[b] = "verify"
  /\ To(b, IF shared[wanted[b]] = Content(wanted[b]) THEN "run" ELSE "refused")
  /\ Quietly /\ UNCHANGED <<shared, wanted, opened, copied, results>>

\* The script reads what stands at the name, and the signature is recorded.
Execute(b) ==
  /\ phase[b] = "run"
  /\ LET found == shared[wanted[b]] IN
       IF found = NoContent
         THEN To(b, "refused") /\ UNCHANGED results
         ELSE /\ To(b, "ok")
              /\ results' = [results EXCEPT ![b] =
                               [signature |-> wanted[b], read |-> found]]
  /\ Quietly /\ UNCHANGED <<shared, wanted, opened, copied>>

\* An operation of the file system or the script fails, or the build dies.
GiveUp(b) ==
  /\ phase[b] \notin Resting
  /\ To(b, "refused")
  /\ Quietly /\ UNCHANGED <<shared, wanted, opened, copied, results>>

-----------------------------------------------------------------------------
(* The surroundings.                                                       *)

Stir ==
  /\ stirs < MaxStirs /\ stirs' = stirs + 1
  /\ UNCHANGED build

\* The file is replaced, removed, or one half of it is overwritten.
Rewrite ==
  /\ \/ source' \in {Content(d) : d \in Digests} \cup {NoContent}
     \/ /\ source # NoContent
        /\ \E i \in 1..2, d \in Digests : source' = [source EXCEPT ![i] = d]
  /\ source' # source
  /\ Stir /\ UNCHANGED <<described, shared>>

\* Builds that have loaded the configuration are not affected.
Redescribe ==
  /\ described' \in Digests \ {described}
  /\ Stir /\ UNCHANGED <<source, shared>>

CleanRuntime ==
  /\ shared' = [d \in Digests |-> NoContent] /\ shared' # shared
  /\ Stir /\ UNCHANGED <<described, source>>

ExternalInit ==
  /\ described \in Digests
  /\ source \in {Content(d) : d \in Digests}
  /\ shared = [d \in Digests |-> NoContent]
  /\ phase = [b \in Builds |-> "idle"]
  /\ wanted = [b \in Builds |-> described]
  /\ opened = [b \in Builds |-> NoContent]
  /\ copied = [b \in Builds |-> NoContent]
  /\ results = [b \in Builds |-> NoResult]
  /\ stirs = 0

ExternalNext ==
  \/ \E b \in Builds :
       \/ Load(b) \/ Open(b) \/ Copy(b) \/ Compare(b) \/ Publish(b)
       \/ Verify(b) \/ Execute(b) \/ GiveUp(b)
  \/ Rewrite \/ Redescribe \/ CleanRuntime

ExternalSpec == ExternalInit /\ [][ExternalNext]_externalVars

-----------------------------------------------------------------------------
(* Properties.                                                             *)

ExternalTypeOK ==
  /\ described \in Digests /\ source \in Contents \cup {NoContent}
  /\ shared \in [Digests -> Contents \cup {NoContent}]
  /\ phase \in [Builds -> Resting \cup {"approve", "copy", "compare", "publish",
                                        "verify", "run"}]
  /\ wanted \in [Builds -> Digests]
  /\ opened \in [Builds -> Contents \cup {NoContent}]
  /\ copied \in [Builds -> Contents \cup {NoContent}]
  /\ results \in [Builds -> [signature : Digests \cup {NoContent},
                             read : Contents \cup {NoContent}]]
  /\ stirs \in 0..MaxStirs

\* A build that succeeds, by running its script or by skipping it, has results
\* made from the very bytes its descriptor names: whatever happens to the file
\* between approval, copy and use, and whichever other build writes to the
\* same runtime root for another descriptor of the same id.
BytesAsDescribed ==
  \A b \in Builds : phase[b] = "ok" =>
    results[b] = [signature |-> wanted[b], read |-> Content(wanted[b])]

=============================================================================
