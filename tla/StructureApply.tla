--------------------------- MODULE StructureApply ---------------------------
(***************************************************************************)
(* apply_structure_plan (hub_core/structure_apply.py): a reviewed plan is  *)
(* applied to a project while its user goes on working in it.  Files are   *)
(* copied to names that must be free; project_config.yaml is replaced by   *)
(* compare-and-swap: it is moved aside to a private guard, and the new     *)
(* configuration is published at the name this leaves free.  On failure    *)
(* the configuration is rolled back and the copies are removed, as far as  *)
(* the platform can bind a removal to the very file apply made.            *)
(*                                                                         *)
(* The user may open, rewrite, replace and delete public files at any      *)
(* moment; private names are random and nobody else's.                     *)
(***************************************************************************)
EXTENDS Naturals, Sequences

CONSTANTS
  Copies,       \* the destinations of the plan's entries, in order
  MaxMeddling,  \* bound: how often the user changes a file
  Orig, New,    \* the reviewed configuration file and its replacement
  Before,       \* the content of the first,
  After,        \* of the second,
  Source,       \* of the plan's sources
  None          \* no file, no identity, no handle

CopySet == {Copies[i] : i \in DOMAIN Copies}
Public  == {"config"} \cup CopySet
Private == {"stage", "guard", "tomb"}
Names   == Public \cup Private
\* Inodes: the two configurations, each copy (named as its destination), and
\* one for every file the user creates.
Files   == {Orig, New} \cup CopySet \cup 1..MaxMeddling
\* What the user writes differs from everything written before.
Contents == {Before, After, Source} \cup 1..MaxMeddling

ASSUME CopiesAssumption ==
  /\ Copies \in Seq(CopySet)
  /\ CopySet \cap ({"config"} \cup Private) = {}
  /\ \A i, j \in DOMAIN Copies : Copies[i] = Copies[j] => i = j
ASSUME MeddlingAssumption ==
  MaxMeddling \in Nat
ASSUME DistinctAssumption ==
  /\ Orig # New /\ Before # After /\ Before # Source /\ After # Source
  /\ {Orig, New} \cap (CopySet \cup Nat) = {} /\ CopySet \cap Nat = {}
  /\ {Before, After, Source} \cap Nat = {}
  /\ None \notin {Orig, New} \cup CopySet \cup Names \cup Nat

VARIABLES
  windows,   \* does the platform delete by identity, and do handles pin names?
  name,      \* name[n]: the inode at n, or None
  data,      \* data[i]: the content of inode i
  held,      \* an inode the user has open for writing, or None
  pc,        \* where apply is
  todo,      \* the copies it has yet to publish
  created,   \* the copies it published and remembers
  expected,  \* the identity of the configuration it is replacing
  replaced,  \* config_replaced
  back,      \* what it is moving back: from where, which content, what then;
             \* or the file it has restored
  report,    \* the names it reports as withheld
  error,     \* what it ended with: None, "plain" or "typed" (manual cleanup)
  dropped,   \* history: contents that the user himself overwrote or deleted
  meddling   \* how often the user has changed a file

fs   == <<windows, name, data>>
user == <<held, dropped, meddling>>
vars == <<fs, user, pc, todo, created, expected, replaced, back, report, error>>

At(n)    == data[name[n]]
Is(n, i, c) == name[n] = i /\ data[i] = c

Moved(a, b) == [name EXCEPT ![b] = name[a], ![a] = None]
Without(n)  == [name EXCEPT ![n] = None]

\* atomic_no_clobber_move refuses to replace a file; an open handle that does
\* not share deletion pins the name on Windows.
CanMove(a, b) ==
  /\ name[a] # None /\ name[b] = None
  /\ ~(windows /\ held = name[a])

\* delete_file_by_identity: one unshared handle checks and deletes, on
\* Windows only.
CanDelete(n, i, c) == windows /\ Is(n, i, c) /\ held # i

\* discard_private_stage, in the "finally" of every publication.
Discarded(ns) ==
  IF windows /\ ns["stage"] # None THEN [ns EXCEPT !["stage"] = None] ELSE ns

Goto(p) == pc' = p

-----------------------------------------------------------------------------
(* Copies. *)

\* The plan's last checks against the project, before anything is changed.
Review ==
  /\ pc = "review"
  /\ IF Is("config", Orig, Before) /\ \A i \in DOMAIN todo : name[todo[i]] = None
       THEN Goto("copy") /\ UNCHANGED error
       ELSE Goto("failed") /\ error' = "plain"
  /\ UNCHANGED <<fs, user, todo, created, expected, replaced, back, report>>

\* The source is bound, hashed and staged, and the stage is moved to the
\* destination; a stage that cannot be moved there is unlinked.
PublishCopy ==
  /\ pc = "copy" /\ todo # <<>>
  /\ LET d == Head(todo) IN
       IF name[d] = None
         THEN /\ name' = [name EXCEPT ![d] = d]
              /\ Goto("copied")
         ELSE UNCHANGED name /\ Goto("undo")
  /\ UNCHANGED <<windows, data, user, todo, created, expected, replaced, back,
                 report, error>>

\* The published copy is looked at again.  One that changed is removed if it
\* can be, and is otherwise reported; it is not among those rolled back.
RecheckCopy ==
  /\ pc = "copied"
  /\ LET d == Head(todo) IN
       IF Is(d, d, Source)
         THEN /\ created' = Append(created, d)
              /\ todo' = Tail(todo)
              /\ Goto("copy")
              /\ UNCHANGED report
         ELSE /\ report' = IF name[d] = None THEN report ELSE report \cup {d}
              /\ Goto("undo")
              /\ UNCHANGED <<created, todo>>
  /\ UNCHANGED <<fs, user, expected, replaced, back, error>>

-----------------------------------------------------------------------------
(* The configuration: compare and swap. *)

StageConfig ==
  /\ pc = "copy" /\ todo = <<>>
  /\ IF name["config"] # None /\ At("config") = Before
       THEN name' = [name EXCEPT !["stage"] = New] /\ Goto("expect")
       ELSE UNCHANGED name /\ Goto("undo")
  /\ UNCHANGED <<windows, data, user, todo, created, expected, replaced, back,
                 report, error>>

\* The identity of the configuration is taken down and its hash compared.
Expect ==
  /\ pc = "expect"
  /\ IF name["config"] # None /\ At("config") = Before
       THEN /\ expected' = name["config"]
            /\ Goto("guard")
            /\ UNCHANGED name
       ELSE /\ name' = Discarded(name)
            /\ Goto("undo")
            /\ UNCHANGED expected
  /\ UNCHANGED <<windows, data, user, todo, created, replaced, back, report, error>>

MoveAside ==
  /\ pc = "guard"
  /\ IF CanMove("config", "guard")
       THEN name' = Moved("config", "guard") /\ Goto("guarded")
       ELSE name' = Discarded(name) /\ Goto("undo")
  /\ UNCHANGED <<windows, data, user, todo, created, expected, replaced, back,
                 report, error>>

\* _restore_guard_no_clobber is about to move what is at n back, if it has
\* content c; apply then goes on at p.
Restoring(n, c, p) ==
  /\ back' = [from |-> n, content |-> c, then |-> p]
  /\ Goto("restore")

CheckGuard ==
  /\ pc = "guarded"
  /\ IF Is("guard", expected, Before)
       THEN Goto("swap") /\ UNCHANGED back
       ELSE Restoring("guard", At("guard"), "drop")
  /\ UNCHANGED <<fs, user, todo, created, expected, replaced, report, error>>

\* Slip: the new configuration is hard-linked, and its stage stays.
SwapLinking ==
  /\ pc = "swap" /\ CanMove("stage", "config")
  /\ name' = [name EXCEPT !["config"] = name["stage"]]
  /\ Goto("swapped")
  /\ UNCHANGED <<windows, data, user, todo, created, expected, replaced, back,
                 report, error>>

Swap ==
  /\ pc = "swap"
  /\ IF CanMove("stage", "config")
       THEN /\ name' = Moved("stage", "config")
            /\ Goto("swapped")
            /\ UNCHANGED back
       ELSE /\ name' = Without("stage")
            /\ Restoring("guard", Before, "drop")
  /\ UNCHANGED <<windows, data, user, todo, created, expected, replaced, report, error>>

CheckSwap ==
  /\ pc = "swapped"
  /\ IF Is("config", New, After)
       THEN Goto("sealed") /\ UNCHANGED <<report, back>>
       ELSE /\ report' = IF name["config"] = None THEN report ELSE report \cup {"config"}
            /\ Restoring("guard", Before, "drop")
  /\ UNCHANGED <<fs, user, todo, created, expected, replaced, error>>

\* Its hash is compared once more; what is not ours is left and not reported.
CheckSwapAgain ==
  /\ pc = "sealed"
  /\ IF name["config"] # None /\ At("config") = After
       THEN replaced' = TRUE /\ Goto("verify") /\ UNCHANGED back
       ELSE Restoring("guard", Before, "drop") /\ UNCHANGED replaced
  /\ UNCHANGED <<fs, user, todo, created, expected, report, error>>

\* The host's verifier accepts or rejects the applied plan.
Verify ==
  /\ pc = "verify"
  /\ Goto("finalize") \/ Goto("undo")
  /\ UNCHANGED <<fs, user, todo, created, expected, replaced, back, report, error>>

\* Slip: only the published configuration is looked at.
FinalizeUnguarded ==
  /\ pc = "finalize"
  /\ IF Is("config", New, After) THEN Goto("applied") ELSE Goto("undo")
  /\ UNCHANGED <<fs, user, todo, created, expected, replaced, back, report, error>>

\* _finalize_config_guard: the guard must hold the reviewed original, and
\* stays as its backup.
Finalize ==
  /\ pc = "finalize"
  /\ \/ /\ ~Is("guard", expected, Before)
        /\ name' = IF CanDelete("config", New, After) THEN Without("config") ELSE name
        /\ Restoring("guard", At("guard"), "undo")
     \/ /\ Is("guard", expected, Before)
        /\ IF Is("config", New, After) THEN Goto("applied") ELSE Goto("undo")
        /\ UNCHANGED <<name, back>>
  /\ UNCHANGED <<windows, data, user, todo, created, expected, replaced, report, error>>

-----------------------------------------------------------------------------
(* _restore_guard_no_clobber: what was moved aside goes back to the public *)
(* name, if that is free and the content is the expected one.              *)

Restore ==
  /\ pc = "restore"
  /\ IF name[back.from] # None /\ At(back.from) = back.content
       THEN Goto("return") ELSE Goto(back.then)
  /\ UNCHANGED <<fs, user, todo, created, expected, replaced, back, report, error>>

\* Slip: os.replace, which takes the public name from whoever has it.
ReturnReplacing ==
  /\ pc = "return"
  /\ name' = Moved(back.from, "config")
  /\ Goto(back.then)
  /\ UNCHANGED <<windows, data, user, todo, created, expected, replaced, back,
                 report, error>>

Return ==
  /\ pc = "return"
  /\ name' = IF CanMove(back.from, "config") THEN Moved(back.from, "config") ELSE name
  /\ Goto(back.then)
  /\ UNCHANGED <<windows, data, user, todo, created, expected, replaced, back,
                 report, error>>

\* The compare-and-swap has failed: its handler tries the restoration once
\* more while the public name is free, and the stage is discarded.
Drop ==
  /\ pc = "drop"
  /\ name' = Discarded(name)
  /\ IF name["guard"] # None /\ name["config"] = None
       THEN Restoring("guard", Before, "undo")
       ELSE Goto("undo") /\ UNCHANGED back
  /\ UNCHANGED <<windows, data, user, todo, created, expected, replaced, report, error>>

-----------------------------------------------------------------------------
(* Rollback. *)

Withhold(ns) == report' = report \cup {n \in ns : name[n] # None}

\* _rollback_config_no_clobber: the configuration is moved to a tomb.
Entomb ==
  /\ pc = "undo" /\ replaced
  /\ IF CanMove("config", "tomb")
       THEN name' = Moved("config", "tomb") /\ Goto("entombed") /\ UNCHANGED report
       ELSE /\ report' = report \cup {"config"} \cup
                           {n \in {"guard"} : name[n] # None}
            /\ Goto("uncopy")
            /\ UNCHANGED name
  /\ UNCHANGED <<windows, data, user, todo, created, expected, replaced, back, error>>

\* What is in the tomb is either not the replacement and goes back, or is, and
\* the original is to take its place.
CheckTomb ==
  /\ pc = "entombed"
  /\ IF ~Is("tomb", New, After)
       THEN Restoring("tomb", At("tomb"), "withheld")
       ELSE IF name["guard"] = None
         THEN Restoring("tomb", After, "withheld")
         ELSE Goto("revert") /\ UNCHANGED back
  /\ UNCHANGED <<fs, user, todo, created, expected, replaced, report, error>>

\* The tomb that could not be put back, or else the configuration, is
\* reported; a guard only where the code lists it.
WithholdTomb ==
  /\ pc = "withheld"
  /\ report' = report \cup IF name["tomb"] # None THEN {"tomb"} ELSE {"config"}
  /\ Goto("uncopy")
  /\ UNCHANGED <<fs, user, todo, created, expected, replaced, back, error>>

Revert ==
  /\ pc = "revert"
  /\ \/ /\ CanMove("guard", "config")
        /\ name' = Moved("guard", "config")
        /\ back' = [file |-> name["guard"], content |-> At("guard")]
        /\ Goto("reverted")
     \/ /\ ~CanMove("guard", "config") /\ name["config"] = None
        /\ Restoring("tomb", After, "keep")
        /\ UNCHANGED name
     \/ /\ name["config"] # None
        /\ Goto("keep")
        /\ UNCHANGED <<name, back>>
  /\ UNCHANGED <<windows, data, user, todo, created, expected, replaced, report, error>>

WithholdBoth ==
  /\ pc = "keep"
  /\ report' = report \cup {n \in {"tomb", "guard"} : name[n] # None} \cup
               {n \in {"config"} : name["tomb"] = None /\ name[n] # None}
  /\ Goto("uncopy")
  /\ UNCHANGED <<fs, user, todo, created, expected, replaced, back, error>>

\* Slip: the tomb is thought to be gone.
DeleteTombNot ==
  /\ pc = "reverted"
  /\ report' = report \cup
       IF Is("config", back.file, back.content) THEN {} ELSE {"tomb", "config"}
  /\ Goto("uncopy")
  /\ UNCHANGED <<fs, user, todo, created, expected, replaced, back, error>>

\* The restored configuration is verified and the replacement deleted.
DeleteTomb ==
  /\ pc = "reverted"
  /\ IF Is("config", back.file, back.content)
       THEN IF CanDelete("tomb", New, After)
              THEN name' = Without("tomb") /\ UNCHANGED report
              ELSE UNCHANGED name /\ report' = report \cup {"tomb"}
       ELSE UNCHANGED name /\ Withhold({"tomb", "config"})
  /\ Goto("uncopy")
  /\ UNCHANGED <<windows, data, user, todo, created, expected, replaced, back, error>>

SkipRollback ==
  /\ pc = "undo" /\ ~replaced
  /\ Goto("uncopy")
  /\ UNCHANGED <<fs, user, todo, created, expected, replaced, back, report, error>>

\* _remove_if_owned, in reverse order.
RemoveCopy ==
  /\ pc = "uncopy" /\ created # <<>>
  /\ LET d == created[Len(created)] IN
       IF CanDelete(d, d, Source)
         THEN name' = Without(d) /\ UNCHANGED report
         ELSE UNCHANGED name /\ Withhold({d})
  /\ created' = SubSeq(created, 1, Len(created) - 1)
  /\ UNCHANGED <<windows, data, user, pc, todo, expected, replaced, back, error>>

\* Withheld paths make the error the typed one that asks for manual cleanup.
Report ==
  /\ pc = "uncopy" /\ created = <<>>
  /\ error' = IF report = {} THEN "plain" ELSE "typed"
  /\ Goto("failed")
  /\ UNCHANGED <<fs, user, todo, created, expected, replaced, back, report>>

\* An exception out of turn: an interrupt, a directory that is not the bound
\* one any more, a failing fsync.  The compare-and-swap has its own handler.
Raise ==
  /\ \/ pc \in {"copy", "copied", "verify", "finalize"} /\ Goto("undo") /\ UNCHANGED name
     \/ pc \in {"expect", "guard"} /\ Goto("undo") /\ name' = Discarded(name)
     \/ pc \in {"guarded", "swap", "swapped", "sealed"} /\ Goto("drop") /\ UNCHANGED name
  /\ UNCHANGED <<windows, data, user, todo, created, expected, replaced, back,
                 report, error>>

\* The process dies; what is on disk stays.
Crash ==
  /\ pc \notin {"applied", "failed", "dead"}
  /\ Goto("dead")
  /\ UNCHANGED <<fs, user, todo, created, expected, replaced, back, report, error>>

-----------------------------------------------------------------------------
(* The user. *)

Open(n) ==
  /\ held = None /\ name[n] # None
  /\ held' = name[n]
  /\ UNCHANGED <<fs, dropped, meddling, pc, todo, created, expected, replaced,
                 back, report, error>>

Close ==
  /\ held # None
  /\ held' = None
  /\ UNCHANGED <<fs, dropped, meddling, pc, todo, created, expected, replaced,
                 back, report, error>>

Meddle == meddling < MaxMeddling /\ meddling' = meddling + 1

\* Through the open handle, wherever the file is by now.
Write ==
  /\ held # None
  /\ Meddle
  /\ data' = [data EXCEPT ![held] = meddling']
  /\ dropped' = dropped \cup {data[held]} \cup
       IF \E n \in Names : name[n] = held THEN {} ELSE {meddling'}
  /\ UNCHANGED <<windows, name, held, pc, todo, created, expected, replaced,
                 back, report, error>>

\* A new file is saved at n, over the one that is there if any.
Save(n) ==
  /\ Meddle
  /\ name' = [name EXCEPT ![n] = meddling']
  /\ data' = [data EXCEPT ![meddling'] = meddling']
  /\ dropped' = dropped \cup IF name[n] = None THEN {} ELSE {At(n)}
  /\ UNCHANGED <<windows, held, pc, todo, created, expected, replaced, back,
                 report, error>>

Remove(n) ==
  /\ name[n] # None
  /\ Meddle
  /\ name' = Without(n)
  /\ dropped' = dropped \cup {At(n), meddling'}
  /\ UNCHANGED <<windows, data, held, pc, todo, created, expected, replaced,
                 back, report, error>>

-----------------------------------------------------------------------------
InitWith(copies) ==
  /\ windows \in BOOLEAN
  /\ name = [n \in Names |-> IF n = "config" THEN Orig ELSE None]
  /\ data = [i \in Files |-> CASE i = Orig -> Before [] i = New -> After
                               [] i \in CopySet -> Source [] OTHER -> i]
  /\ held = None /\ dropped = {} /\ meddling = 0
  /\ pc = "review" /\ todo = copies /\ created = <<>>
  /\ expected = None /\ replaced = FALSE /\ back = None
  /\ report = {} /\ error = None

Init == InitWith(Copies)

ApplyStep ==
  \/ Review \/ PublishCopy \/ RecheckCopy
  \/ StageConfig \/ Expect \/ MoveAside \/ CheckGuard \/ Swap \/ CheckSwap
  \/ CheckSwapAgain
  \/ Verify \/ Finalize \/ Restore \/ Return \/ Drop
  \/ Entomb \/ CheckTomb \/ WithholdTomb \/ Revert \/ WithholdBoth \/ DeleteTomb
  \/ SkipRollback \/ RemoveCopy \/ Report

UserStep ==
  \/ \E n \in Public : Open(n) \/ Save(n) \/ Remove(n)
  \/ Close \/ Write

Next == ApplyStep \/ Raise \/ Crash \/ UserStep

Spec == Init /\ [][Next]_vars

-----------------------------------------------------------------------------
(* Properties. *)

Phases == {"review", "copy", "copied", "expect", "guard", "guarded", "swap",
           "swapped", "sealed", "verify", "finalize", "restore", "return",
           "drop", "undo", "entombed", "withheld", "revert", "keep",
           "reverted", "uncopy", "applied", "failed", "dead"}

\* The variables have their types, and no file ever has two names: publication
\* consumes the private stage and guard names (atomic_no_clobber_move).
TypeOK ==
  /\ windows \in BOOLEAN
  /\ name \in [Names -> Files \cup {None}]
  /\ \A m, n \in Names : name[m] = name[n] /\ name[m] # None => m = n
  /\ data \in [Files -> Contents]
  /\ held \in Files \cup {None}
  /\ pc \in Phases
  /\ todo \in Seq(CopySet) /\ created \in Seq(CopySet)
  /\ expected \in Files \cup {None}
  /\ replaced \in BOOLEAN
  /\ back \in {None} \cup [from : Private, content : Contents, then : Phases]
                     \cup [file : Files, content : Contents]
  /\ report \subseteq Names
  /\ error \in {None, "plain", "typed"}
  /\ dropped \subseteq Contents
  /\ meddling \in 0..MaxMeddling

\* Nothing the user wrote is ever lost: not the reviewed configuration, not
\* what was saved into or over it while apply was replacing it or rolling it
\* back, not a file that won the race for a destination.  At every moment, so
\* also when apply dies there, it is under some name, unless the user
\* overwrote or deleted it.
UserBytesKept ==
  \A c \in {Before} \cup 1..meddling :
    c \in dropped \/ \E n \in Names : name[n] # None /\ At(n) = c

\* Compare-and-swap: apply does not report success over an edit of the
\* configuration, through an old handle or by a new file, that it has not
\* seen: at its commit the original has not been rewritten, and what the user
\* wrote and still has is at copies' names.
NoEditOverlooked ==
  [][pc # "applied" /\ pc' = "applied" =>
       /\ Before \notin dropped
       /\ \A c \in 1..meddling \ dropped :
            \E d \in CopySet : name[d] # None /\ At(d) = c]_vars

\* When apply fails after it had replaced the configuration and does not ask
\* for manual cleanup, it has left nothing of its own behind.
CleanRollback ==
  pc = "failed" /\ replaced /\ error = "plain" =>
    /\ \A n \in Private : name[n] = None
    /\ \A n \in Names : name[n] \notin {New} \cup CopySet

\* "when ownership cannot be proven atomically, the path is preserved and a
\* typed manual-cleanup error is emitted": an untyped failure leaves no
\* private file and no copy.
LeftoverIsReported ==
  pc = "failed" /\ error = "plain" =>
    /\ \A n \in Private : name[n] = None
    /\ \A n \in Names : name[n] \notin CopySet

=============================================================================
