----------------------------- MODULE BatchCheck -----------------------------
(***************************************************************************)
(* figops.batch_check (hub_core/mcp/tools/batch_tools.py): validates the   *)
(* projects under a root, at most so many in one call and within a time    *)
(* limit, and leaves a manifest from which a later call may go on.         *)
(*                                                                         *)
(* The projects are discovered by a worker process that may be too slow or *)
(* die; they are validated one after the other while people add, break,    *)
(* mend and remove projects; the manifest is written in place at the end.  *)
(***************************************************************************)
EXTENDS Naturals, Sequences, FiniteSets

CONSTANTS
  Order,        \* the projects, by name
  Under,        \* Under[r]: the projects that a scan of root r can meet
  Batches,      \* batch ids
  Flags,        \* bound: the sets of kinds that the include_* flags let in
  MostProjects, \* bound: the cap of max_projects
  MaxTrouble,   \* bound: late or dead workers, timeouts, crashes and edits
  Gone, NoBatch, Half

Roots    == DOMAIN Under
Known == {Order[i] : i \in DOMAIN Order}

\* The classes of a project in the order in which discovery sorts them.
Classes == <<{"official", "legacy"}, {"invalid"}, {"quarantine"}, {"ephemeral"}>>
Kinds   == UNION {Classes[i] : i \in DOMAIN Classes}

ASSUME UnderAssumption == \A r \in Roots : Under[r] \subseteq Known
ASSUME FlagsAssumption == Flags \subseteq SUBSET (Kinds \ {"official"})
ASSUME CapAssumption == MostProjects \in Nat \ {0} /\ MaxTrouble \in Nat

VARIABLES
  kind,       \* kind[p]: the class of project p, or Gone
  stored,     \* stored[b]: the manifest of batch b, NoBatch, or Half of one
  stage,      \* where the call is
  call,       \* its arguments
  before,     \* the projects that the manifest it resumes lists as checked
  list,       \* the discovered projects it has yet to look at, with their kind;
              \*   it looks at them class by class, and then by name
  done,       \* those it has checked,
  over,       \*   and those it passed over because of max_projects
  late,       \* timed_out
  validated,  \* history: every project that some call has validated
  steady,     \* history: the projects nobody has touched since the call began
  last,       \* history: the batch whose manifest was written last
  mishap

batchVars == <<kind, stored, stage, call, before, list, done, over, late,
               validated, steady, last, mishap>>

NoCall == [root |-> NoBatch, include |-> {}, max |-> 1, dry |-> TRUE, id |-> NoBatch]

BatchInit ==
  /\ kind \in [Known -> {"official", "invalid"}]
  /\ stored = [b \in Batches |-> NoBatch]
  /\ stage = "idle" /\ call = NoCall
  /\ before = {} /\ list = {} /\ done = {} /\ over = {} /\ late = FALSE
  /\ validated = {} /\ steady = {} /\ last = NoBatch /\ mishap = 0

Spoil == mishap < MaxTrouble /\ mishap' = mishap + 1

Finish ==
  /\ stage' = "idle" /\ call' = NoCall
  /\ before' = {} /\ list' = {} /\ done' = {} /\ over' = {} /\ late' = FALSE
  /\ steady' = {}

\* The manifest can be read, and is of the requested root.
Resumable(b, r) ==
  stored[b] \notin {NoBatch, Half} /\ stored[b].root = r

\* The call with its arguments; one that cannot be resumed is refused at once.
Call ==
  /\ stage = "idle"
  /\ \E r \in Roots, include \in Flags,
        max \in 1..MostProjects, dry \in BOOLEAN, id \in Batches,
        resumed \in Batches \cup {NoBatch} :
       /\ resumed # NoBatch => Resumable(resumed, r)
       /\ call' = [root |-> r, include |-> include, max |-> max, dry |-> dry, id |-> id]
       /\ before' = IF resumed = NoBatch THEN {} ELSE stored[resumed].checked
  /\ stage' = "discover"
  /\ steady' = Known
  /\ UNCHANGED <<kind, stored, list, done, over, late, validated, mishap, last>>

\* ProjectDiscoveryService in a worker process.
Discover ==
  /\ stage = "discover"
  /\ list' = {<<p, kind[p]>> : p \in {q \in Under[call.root] : kind[q] # Gone}}
  /\ stage' = "look"
  /\ UNCHANGED <<kind, stored, call, before, done, over, late, validated, steady, mishap, last>>

\* Mutant: a worker that brings nothing has found nothing.
DiscoverNothing ==
  /\ stage = "discover" /\ Spoil
  /\ stage' = "look"
  /\ UNCHANGED <<kind, stored, call, before, list, done, over, late, validated, steady, last>>

\* The worker is too late and killed, or dies, or its result cannot be read.
DiscoverFails ==
  /\ stage = "discover" /\ Spoil
  /\ stage' = "look" /\ late' = TRUE
  /\ UNCHANGED <<kind, stored, call, before, list, done, over, validated, steady, last>>

Skipped(p, k) == p \in before \/ (k # "official" /\ k \notin call.include)

\* x comes before y.
Precedes(x, y) ==
  \E i, j \in DOMAIN Classes :
    /\ x[2] \in Classes[i] /\ y[2] \in Classes[j]
    /\ i < j \/ (i = j /\ \E m, n \in DOMAIN Order : Order[m] = x[1] /\ Order[n] = y[1] /\ m <= n)

\* The next project: passed over, beyond the limit, or validated as it now is.
Look ==
  /\ stage = "look"
  /\ \E next \in list :
       /\ \A y \in list : Precedes(next, y)
       /\ list' = list \ {next}
       /\ LET p == next[1]
              check == ~Skipped(p, next[2]) /\ Cardinality(done) < call.max
          IN /\ done' = IF check THEN done \cup {p} ELSE done
             /\ validated' = IF check THEN validated \cup {p} ELSE validated
             /\ over' = IF check \/ Skipped(p, next[2]) THEN over ELSE over \cup {p}
  /\ UNCHANGED <<kind, stored, stage, call, before, late, steady, mishap, last>>

\* The time is over: the projects that are left are not even mentioned.
TimeOut ==
  /\ stage = "look" /\ list # {} /\ Spoil
  /\ list' = {} /\ late' = TRUE
  /\ UNCHANGED <<kind, stored, stage, call, before, done, over, validated, steady, last>>

\* A dry run only answers.
Answer ==
  /\ stage = "look" /\ list = {} /\ call.dry
  /\ Finish
  /\ UNCHANGED <<kind, stored, validated, mishap, last>>

\* batch_manifest.json is opened, which empties it, and written.
OpenBatch ==
  /\ stage = "look" /\ list = {} /\ ~call.dry
  /\ stored' = [stored EXCEPT ![call.id] = Half]
  /\ stage' = "write"
  /\ UNCHANGED <<kind, call, before, list, done, over, late, validated, steady, mishap, last>>

WriteBatch ==
  /\ stage = "write"
  /\ stored' = [stored EXCEPT ![call.id] = [root |-> call.root, checked |-> done]]
  /\ last' = call.id
  /\ Finish
  /\ UNCHANGED <<kind, validated, mishap>>

\* The server dies.
ServerDies ==
  /\ stage # "idle" /\ Spoil
  /\ Finish
  /\ UNCHANGED <<kind, stored, validated, last>>

\* Somebody adds, breaks, mends, retires or removes a project.
EditProject ==
  /\ Spoil
  /\ \E p \in Known, k \in Kinds \cup {Gone} :
       kind' = [kind EXCEPT ![p] = k] /\ steady' = steady \ {p}
  /\ UNCHANGED <<stored, stage, call, before, list, done, over, late, validated, last>>

BatchNext ==
  \/ Call \/ Discover \/ DiscoverFails \/ Look \/ TimeOut \/ Answer
  \/ OpenBatch \/ WriteBatch \/ ServerDies \/ EditProject

BatchSpec == BatchInit /\ [][BatchNext]_batchVars

-----------------------------------------------------------------------------
BatchTypeOK ==
  /\ kind \in [Known -> Kinds \cup {Gone}]
  /\ stored \in [Batches -> [root : Roots \cup {NoBatch}, checked : SUBSET Known]
                              \cup {NoBatch, Half}]
  /\ stage \in {"idle", "discover", "look", "write"}
  /\ call \in [root : Roots \cup {NoBatch}, include : SUBSET Kinds,
               max : 1..MostProjects, dry : BOOLEAN, id : Batches \cup {NoBatch}]
  /\ list \subseteq Known \X Kinds
  /\ before \subseteq Known /\ done \subseteq Known /\ over \subseteq Known
  /\ validated \subseteq Known /\ steady \subseteq Known
  /\ stage # "idle" => call.root \in Roots
  /\ late \in BOOLEAN /\ last \in Batches \cup {NoBatch}
  /\ mishap \in 0..MaxTrouble

\* The projects that this call promises to account for: those of the root that
\* stood there all the time and were not left out by their kind.
Owed == {p \in steady \cap Under[call.root] :
           kind[p] # Gone /\ (kind[p] = "official" \/ kind[p] \in call.include)}

\* A call that ends well, within its time and with nothing left over for a next
\* one, leaves no project it owes unvalidated: each has been validated by it or
\* by the batch it resumes, whatever workers died, batches timed out or were
\* cut off, and ids were used again before (batch_check, resume_manifest_path).
CompleteMeansValidated ==
  stage = "look" /\ list = {} /\ ~late /\ over = {} =>
    Owed \subseteq done \cup (before \cap validated)

-----------------------------------------------------------------------------
(* A client that goes on: each call resumes the manifest of the one before *)
(* and writes one of its own, and nothing ever goes wrong.                 *)
GoOn ==
  \/ /\ Call
     /\ call'.include = {} /\ ~call'.dry /\ call'.max = 1 /\ call'.id # last
     /\ before' = IF last = NoBatch THEN {} ELSE stored[last].checked
  \/ Discover \/ Look \/ OpenBatch \/ WriteBatch

ChainSpec ==
  /\ BatchInit /\ kind = [p \in Known |-> "official"]
  /\ [][GoOn]_batchVars /\ WF_batchVars(GoOn)

\* "Batch operations must be resumable": a client that resumes again and again
\* gets to the end of the projects.
ChainCovers == <>(validated = Known)

=============================================================================
