----------------------------- MODULE GoldenData -----------------------------
(***************************************************************************)
(* orchestrator.py --freeze-golden and --check-regression (hub_core/       *)
(* data_regression.py): the result tables of a project are copied aside    *)
(* with a manifest of their hashes, and compared with the copies later.    *)
(*                                                                         *)
(* A freeze copies file by file over the golden files of the freeze before *)
(* and writes the manifest last and in place, so it may die in between; a  *)
(* check first verifies every golden file that the manifest names, then    *)
(* compares the tables of the configuration, or all that it finds.  The    *)
(* tables are rewritten by the analysis, and by whoever likes, meanwhile.  *)
(***************************************************************************)
EXTENDS Naturals, Sequences

CONSTANTS
  Keepers,     \* orchestrators that may freeze or check together
  Tables,      \* the tables under results/data, in the order of their names
  Values,      \* what a table may hold
  Close,       \* pairs that assert_frame_equal finds within the tolerances
  MaxSpoiled,  \* bound: crashes, failing calls and changes by others
  NoTable, HalfFile, NoHash

ASSUME CloseAssumption == Close \subseteq Values \X Values
ASSUME ValuesAssumption == {NoTable, HalfFile, NoHash} \cap Values = {}
ASSUME KeptAssumption == MaxSpoiled \in Nat

Names == {Tables[i] : i \in DOMAIN Tables}

VARIABLES
  listed,    \* does the configuration list the tables (golden_metrics)?
  data,      \* data[t]: the table in results/data
  golden,    \* golden[t]: its frozen copy
  kept,      \* golden_hash.json: hashes by table; HalfFile; NoTable
  at,        \* of each orchestrator: where it is,
  queue,     \*   the tables it has yet to copy, to verify or to compare,
             \*   in the order of their names,
  entries,   \*   the hashes it has collected, or read,
  result,    \*   how its call has ended
  disturbed, \* history: what others have changed since its call began
  intact,    \* history: nobody has touched the golden files but the last
             \*   freeze to finish
  trouble

frozenFiles == <<golden, kept>>
keeper == <<at, queue, entries, result>>
history == <<disturbed, intact>>
goldenVars == <<listed, data, frozenFiles, keeper, history, trouble>>

Nothing == [t \in Names |-> NoHash]

GoldenInit ==
  /\ listed \in BOOLEAN
  /\ data \in [Names -> Values \cup {NoTable}]
  /\ golden = [t \in Names |-> NoTable] /\ kept = NoTable
  /\ at = [k \in Keepers |-> "idle"] /\ queue = [k \in Keepers |-> {}]
  /\ entries = [k \in Keepers |-> Nothing]
  /\ result = [k \in Keepers |-> "none"]
  /\ disturbed = [k \in Keepers |-> {}] /\ intact = FALSE
  /\ trouble = 0

Trouble == trouble < MaxSpoiled /\ trouble' = trouble + 1

\* Whoever changes a file disturbs the other calls that are under way, and a
\* call that begins beside another is disturbed from the start.
Disturbs(others, what) ==
  disturbed' = [k \in Keepers |-> IF k \in others /\ at[k] # "idle"
                                    THEN disturbed[k] \cup {what} ELSE disturbed[k]]

Beside(k) == IF \E i \in Keepers \ {k} : at[i] # "idle" THEN {"data", "frozen"} ELSE {}

\* _collect_golden_specs: the tables of the configuration, there or not;
\* without a list, those that are there.
Specs == {t \in Names : listed \/ data[t] # NoTable}

\* The table that orchestrator k comes to next.
Turn(k) == CHOOSE t \in queue[k] :
             \E i \in DOMAIN Tables : t = Tables[i] /\ \A j \in 1..(i - 1) : Tables[j] \notin queue[k]

End(k, how) ==
  /\ at' = [at EXCEPT ![k] = "idle"]
  /\ queue' = [queue EXCEPT ![k] = {}]
  /\ entries' = [entries EXCEPT ![k] = Nothing]
  /\ result' = [result EXCEPT ![k] = how]

-----------------------------------------------------------------------------
(* freeze_golden_dataset *)

\* _collect_golden_targets: what is not there is passed over.
StartFreeze(k) ==
  /\ at[k] = "idle"
  /\ at' = [at EXCEPT ![k] = "copy"]
  /\ queue' = [queue EXCEPT ![k] = {t \in Specs : data[t] # NoTable}]
  /\ result' = [result EXCEPT ![k] = "none"]
  /\ disturbed' = [disturbed EXCEPT ![k] = Beside(k)]
  /\ UNCHANGED <<listed, data, frozenFiles, entries, intact, trouble>>

\* A table is copied; one that has gone raises.
CopyTable(k) ==
  /\ at[k] = "copy" /\ queue[k] # {}
  /\ LET t == Turn(k) IN
       IF data[t] = NoTable
         THEN End(k, "raised") /\ UNCHANGED <<golden, history>>
         ELSE /\ golden' = [golden EXCEPT ![t] = data[t]]
              /\ at' = [at EXCEPT ![k] = "hash"]
              /\ Disturbs(Keepers \ {k}, "frozen") /\ intact' = FALSE
              /\ UNCHANGED <<queue, entries, result>>
  /\ UNCHANGED <<listed, data, kept, trouble>>

\* Mutant: the hash is taken from the table, not from its copy.
HashTable(k) ==
  /\ at[k] = "hash"
  /\ LET t == Turn(k) IN
       IF data[t] = NoTable
         THEN End(k, "raised")
         ELSE /\ entries' = [entries EXCEPT ![k][t] = data[t]]
              /\ queue' = [queue EXCEPT ![k] = @ \ {Turn(k)}]
              /\ at' = [at EXCEPT ![k] = "copy"]
              /\ UNCHANGED result
  /\ UNCHANGED <<listed, data, frozenFiles, history, trouble>>

\* The entry is the hash of the copy as it now is.
HashCopy(k) ==
  /\ at[k] = "hash"
  /\ LET t == Turn(k) IN
       IF golden[t] = NoTable
         THEN End(k, "raised")
         ELSE /\ entries' = [entries EXCEPT ![k][t] = golden[t]]
              /\ queue' = [queue EXCEPT ![k] = @ \ {Turn(k)}]
              /\ at' = [at EXCEPT ![k] = "copy"]
              /\ UNCHANGED result
  /\ UNCHANGED <<listed, data, frozenFiles, history, trouble>>

\* golden_hash.json is opened, which empties it,
OpenKept(k) ==
  /\ at[k] = "copy" /\ queue[k] = {}
  /\ kept' = HalfFile
  /\ at' = [at EXCEPT ![k] = "write"]
  /\ Disturbs(Keepers \ {k}, "frozen") /\ intact' = FALSE
  /\ UNCHANGED <<listed, data, golden, queue, entries, result, trouble>>

\* and written.
WriteKept(k) ==
  /\ at[k] = "write"
  /\ kept' = entries[k]
  /\ End(k, "frozen")
  /\ Disturbs(Keepers \ {k}, "frozen")
  /\ intact' = ("frozen" \notin disturbed[k])
  /\ UNCHANGED <<listed, data, golden, trouble>>

-----------------------------------------------------------------------------
(* check_golden_regression, after the analysis has been run *)

Analyse(k) ==
  /\ at[k] = "idle"
  /\ at' = [at EXCEPT ![k] = "check"]
  /\ result' = [result EXCEPT ![k] = "none"]
  /\ disturbed' = [i \in Keepers |->
                     IF i = k THEN Beside(k)
                     ELSE disturbed[i] \cup (IF at[i] # "idle" THEN {"data"} ELSE {})]
  /\ data' \in [Names -> Values \cup {NoTable}]
  /\ UNCHANGED <<listed, frozenFiles, queue, entries, intact, trouble>>

\* No manifest is a failure, half of one an exception.
StartCheck(k) ==
  /\ at[k] = "check"
  /\ IF kept = NoTable THEN End(k, "failed")
     ELSE IF kept = HalfFile THEN End(k, "raised")
     ELSE /\ entries' = [entries EXCEPT ![k] = kept]
          /\ queue' = [queue EXCEPT ![k] = {t \in Names : kept[t] # NoHash}]
          /\ at' = [at EXCEPT ![k] = "verify"]
          /\ UNCHANGED result
  /\ UNCHANGED <<listed, data, frozenFiles, history, trouble>>

\* Mutant: it is enough that the golden file is there.
VerifyExists(k) ==
  /\ at[k] = "verify" /\ queue[k] # {}
  /\ IF golden[Turn(k)] # NoTable
       THEN queue' = [queue EXCEPT ![k] = @ \ {Turn(k)}] /\ UNCHANGED <<at, entries, result>>
       ELSE End(k, "failed")
  /\ UNCHANGED <<listed, data, frozenFiles, history, trouble>>

\* Each golden file that the manifest names is still what it was.
Verify(k) ==
  /\ at[k] = "verify" /\ queue[k] # {}
  /\ IF golden[Turn(k)] = entries[k][Turn(k)]
       THEN queue' = [queue EXCEPT ![k] = @ \ {Turn(k)}] /\ UNCHANGED <<at, entries, result>>
       ELSE End(k, "failed")
  /\ UNCHANGED <<listed, data, frozenFiles, history, trouble>>

CollectSpecs(k) ==
  /\ at[k] = "verify" /\ queue[k] = {}
  /\ at' = [at EXCEPT ![k] = "compare"]
  /\ queue' = [queue EXCEPT ![k] = Specs]
  /\ result' = [result EXCEPT ![k] = "passed"]
  /\ UNCHANGED <<listed, data, frozenFiles, entries, history, trouble>>

\* One table with its golden copy; a failure is kept and the rest compared.
CompareTable(k) ==
  /\ at[k] = "compare" /\ queue[k] # {}
  /\ LET t == Turn(k) IN
       result' = IF <<data[t], golden[t]>> \in Close
                   THEN result ELSE [result EXCEPT ![k] = "failed"]
  /\ queue' = [queue EXCEPT ![k] = @ \ {Turn(k)}]
  /\ UNCHANGED <<listed, data, frozenFiles, at, entries, history, trouble>>

EndCheck(k) ==
  /\ at[k] = "compare" /\ queue[k] = {}
  /\ End(k, result[k])
  /\ UNCHANGED <<listed, data, frozenFiles, history, trouble>>

\* The process dies, or a call fails, a copy perhaps in the middle.
Die(k) ==
  /\ at[k] # "idle"
  /\ golden' \in {golden} \cup
       {[golden EXCEPT ![t] = HalfFile] :
          t \in {u \in Names : at[k] = "copy" /\ queue[k] # {} /\ u = Turn(k)}}
  /\ End(k, "raised")
  /\ Disturbs(Keepers \ {k}, "frozen")
  /\ intact' = (intact /\ golden' = golden)
  /\ Trouble
  /\ UNCHANGED <<listed, data, kept>>

-----------------------------------------------------------------------------
\* Others rewrite or remove a table or a golden copy.
Tamper ==
  /\ Trouble
  /\ \E t \in Names, v \in Values \cup {NoTable} :
       \/ /\ data' = [data EXCEPT ![t] = v]
          /\ Disturbs(Keepers, "data") /\ UNCHANGED <<golden, intact>>
       \/ /\ golden' = [golden EXCEPT ![t] = v]
          /\ Disturbs(Keepers, "frozen") /\ intact' = FALSE /\ UNCHANGED data
  /\ UNCHANGED <<listed, kept, keeper>>

KeeperNext(k) ==
  \/ StartFreeze(k) \/ CopyTable(k) \/ HashCopy(k) \/ OpenKept(k) \/ WriteKept(k)
  \/ Analyse(k) \/ StartCheck(k) \/ Verify(k) \/ CollectSpecs(k) \/ CompareTable(k)
  \/ EndCheck(k) \/ Die(k)

GoldenNext == (\E k \in Keepers : KeeperNext(k)) \/ Tamper

GoldenSpec == GoldenInit /\ [][GoldenNext]_goldenVars

-----------------------------------------------------------------------------
GoldenTypeOK ==
  /\ listed \in BOOLEAN /\ intact \in BOOLEAN
  /\ data \in [Names -> Values \cup {NoTable}]
  /\ golden \in [Names -> Values \cup {NoTable, HalfFile}]
  /\ kept \in [Names -> Values \cup {HalfFile, NoHash}] \cup {HalfFile, NoTable}
  /\ at \in [Keepers -> {"idle", "copy", "hash", "write", "check", "verify", "compare"}]
  /\ queue \in [Keepers -> SUBSET Names]
  /\ entries \in [Keepers -> [Names -> Values \cup {HalfFile, NoHash}]]
  /\ result \in [Keepers -> {"none", "frozen", "passed", "failed", "raised"}]
  /\ disturbed \in [Keepers -> SUBSET {"data", "frozen"}]

PassesCheck(k) == at[k] = "compare" /\ at'[k] = "idle" /\ result'[k] = "passed"

\* A check that nobody disturbs passes only if every table that it looks at and
\* the manifest names is close to what the last freeze to finish recorded: a
\* freeze that died halfway, a golden copy that somebody changed, or a torn
\* manifest never makes one pass (freeze_golden_dataset writes the manifest
\* last, check_golden_regression verifies before it compares).
PassedAsFrozen ==
  [][\A k \in Keepers : PassesCheck(k) /\ disturbed[k] = {} =>
       \A t \in Specs : kept[t] # NoHash => <<data[t], kept[t]>> \in Close]_goldenVars

\* However the tables change while they are frozen, a freeze that finishes has
\* recorded the copies it leaves: a check cannot find fault with them as long
\* as nobody touches them (freeze_golden_dataset hashes the destination).
FreezeVerifies ==
  intact => \A t \in Names : kept[t] \in {NoHash, golden[t]}

=============================================================================
