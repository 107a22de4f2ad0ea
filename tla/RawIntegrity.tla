---------------------------- MODULE RawIntegrity ----------------------------
(***************************************************************************)
(* The raw integrity seal (hub_core/raw_integrity.py).  seal_raw_integrity *)
(* derives from the declared producers which raw files matter, hashes them *)
(* one after the other and writes a manifest; verify_raw_integrity derives *)
(* again, reads the manifest, hashes again and compares.  The command line *)
(* seals, a build verifies, and the user works on the raw files meanwhile. *)
(*                                                                         *)
(* A file's digest is its version.  A declared input is the name of a raw  *)
(* file, AllRaw (the directory of raw files or a pattern over it), Outside *)
(* (a file of the project outside the configured raw paths), the output of *)
(* a producer, or an external descriptor.                                  *)
(***************************************************************************)
EXTENDS Naturals, FiniteSets

CONSTANTS
  Raw,            \* the names of raw files
  AllRaw, Outside,
  Known, Unknown, \* an external input that is described, one that is not
  Configs,        \* configurations: the pipeline, a sequence of producers with
                  \* their inputs and outputs; the mode, strict or warn; the
                  \* declaration that there are no raw inputs: absent, valid or
                  \* malformed; the raw path: plain, underscored or missing
  MaxEdits,       \* bound: how often the user changes something
  Gone,           \* no file
  Torn, None      \* a manifest truncated for writing; no manifest

\* What a manifest can say: the versions of some raw files.
Hashes == UNION {[S -> {1, 2}] : S \in SUBSET Raw}

ASSUME EditsAssumption == MaxEdits \in Nat
ASSUME DistinctAssumption ==
  /\ {AllRaw, Outside, Known, Unknown, "manifest"} \cap Raw = {}
  /\ Gone \notin Nat /\ Torn # None /\ {Torn, None} \cap Hashes = {}

VARIABLES
  config,    \* the configuration
  raw,       \* raw[f]: the version at f, or Gone
  manifest,  \* None, Torn, or the sealed versions, a function on raw files
  sealer,    \* where seal_raw_integrity is
  verifier,  \* where verify_raw_integrity is, or its verdict
  work,      \* work[a]: members yet to be hashed and hashes of actor a
  sealed,    \* the manifest verify_raw_integrity has read
  edits,
  since,     \* history: what was at each name since verification began
  calm,      \* history: nothing was edited since the last seal began
  settled    \* history: the last seal is complete, with no edit since it
             \* began, and has been since verification began

sealing   == <<sealer, manifest>>
verifying == <<verifier, sealed>>
history   == <<since, calm, settled>>
vars      == <<config, raw, sealing, verifying, work, edits, history>>

-----------------------------------------------------------------------------
(* derive_raw_dependency_graph.                                            *)

Producers == DOMAIN config.pipeline
Inputs(p)  == config.pipeline[p].inputs
Outputs(p) == config.pipeline[p].outputs
Present    == {f \in Raw : raw[f] # Gone}

\* Whoever declares an output last owns it.
Owned(d)  == \E p \in Producers : d \in Outputs(p)
Owner(d)  == CHOOSE p \in Producers :
               d \in Outputs(p) /\ \A q \in Producers : d \in Outputs(q) => q <= p

LookedFor(p) == {d \in Inputs(p) \ {Known, Unknown} : ~Owned(d)}

\* _expand_dependency_input; the manifest, which is kept among the raw files,
\* is a match as well, and no member.
Matches(d) ==
  CASE d = AllRaw -> Present \cup IF manifest = None THEN {} ELSE {"manifest"}
    [] d \in Raw  -> Present \cap {d}
    [] OTHER      -> {d}

\* Inputs that are neither external nor made by a producer are looked for.
Terminals == UNION {LookedFor(p) : p \in Producers}

\* Mutant: a declaration that matches nothing is passed over.
UnresolvedOutside ==
  {d \in Terminals : Matches(d) # {} /\ (d = Outside \/ config.root = "missing")}

\* What matches nothing, or something outside the raw paths.
Unresolved ==
  {d \in Terminals : Matches(d) = {} \/ d = Outside \/ config.root = "missing"}

\* Producers that name no inputs at all are given every raw file.
Legacy == Producers # {} /\ \A p \in Producers : Inputs(p) = {}

Members ==
  IF Legacy THEN Present
  ELSE Raw \cap UNION {Matches(d) : d \in Terminals \ Unresolved}

Externals == {d \in UNION {Inputs(p) : p \in Producers} : d = Known}

\* _append_cycle_errors: some producers each wait for another of them.
Cyclic ==
  \E S \in SUBSET Producers : S # {} /\
    \A p \in S : \E d \in Inputs(p) : Owned(d) /\ Owner(d) \in S

GraphErrors ==
  \/ config.root = "missing"
  \/ \E p \in Producers : Unknown \in Inputs(p)
  \/ \E p, q \in Producers : p # q /\ Outputs(p) \cap Outputs(q) # {}
  \/ Cyclic

\* _validated_no_raw_exception.
NoRawOk ==
  /\ config.declared = "valid"
  /\ Producers # {} /\ ~GraphErrors /\ Unresolved = {}
  /\ Members = {} /\ Externals = {} /\ Present = {}
NoRawError == config.declared # "absent" /\ ~NoRawOk

\* _strict_graph_errors.
StrictErrors ==
  \/ GraphErrors \/ Unresolved # {} \/ Producers = {} \/ NoRawError
  \/ Members = {} /\ Externals = {} /\ ~NoRawOk

Strict == config.mode = "strict"

\* What _collect_hashes is asked to hash; without members it looks for itself.
ToHash == IF Strict THEN Members ELSE Present

Nothing == [todo |-> {}, hashes |-> <<>>]
Begin(a, todo) == work' = [work EXCEPT ![a] = [todo |-> todo, hashes |-> <<>>]]

\* _collect_hashes, one member: its content is hashed, unless it has gone.
Hash(a, f) ==
  /\ raw[f] # Gone
  /\ work' = [work EXCEPT ![a] =
       [todo   |-> @.todo \ {f},
        hashes |-> [g \in DOMAIN @.hashes \cup {f} |-> IF g = f THEN raw[f] ELSE @.hashes[g]]]]
Lost(a) == \E f \in work[a].todo : raw[f] = Gone

-----------------------------------------------------------------------------
(* seal_raw_integrity.                                                     *)

\* Mutant: only verification looks at the graph.
SealDeriveAnything ==
  /\ sealer = "idle"
  /\ IF config.root = "missing"
       THEN sealer' = "refused" /\ UNCHANGED work
       ELSE sealer' = "hash" /\ Begin("seal", ToHash)
  /\ calm' = TRUE
  /\ UNCHANGED <<config, raw, manifest, verifying, edits, since, settled>>

SealDerive ==
  /\ sealer = "idle"
  /\ IF (Strict /\ StrictErrors) \/ config.root = "missing"
       THEN sealer' = "refused" /\ UNCHANGED work
       ELSE sealer' = "hash" /\ Begin("seal", ToHash)
  /\ calm' = TRUE
  /\ UNCHANGED <<config, raw, manifest, verifying, edits, since, settled>>

SealHash ==
  /\ sealer = "hash"
  /\ \E f \in work["seal"].todo : Hash("seal", f)
  /\ UNCHANGED <<config, raw, sealing, verifying, edits, history>>

SealLost ==
  /\ sealer = "hash" /\ Lost("seal")
  /\ sealer' = "refused"
  /\ UNCHANGED <<config, raw, manifest, verifying, work, edits, history>>

\* write_text truncates the manifest,
SealOpen ==
  /\ sealer = "hash" /\ work["seal"].todo = {}
  /\ sealer' = "write" /\ manifest' = Torn /\ settled' = FALSE
  /\ UNCHANGED <<config, raw, verifying, work, edits, since, calm>>

\* and writes it.
SealWrite ==
  /\ sealer = "write"
  /\ sealer' = "sealed" /\ manifest' = work["seal"].hashes
  /\ UNCHANGED <<config, raw, verifying, work, edits, history>>

\* The user asks for a seal again; what the last one died of is over.
SealAgain ==
  /\ sealer \in {"refused", "sealed"}
  /\ sealer' = "idle"
  /\ UNCHANGED <<config, raw, manifest, verifying, work, edits, history>>

SealCrash ==
  /\ sealer \in {"hash", "write"}
  /\ sealer' = "refused"
  /\ UNCHANGED <<config, raw, manifest, verifying, work, edits, history>>

Seal == SealDerive \/ SealHash \/ SealLost \/ SealOpen \/ SealWrite
          \/ SealAgain \/ SealCrash

-----------------------------------------------------------------------------
(* verify_raw_integrity.                                                   *)

Say(v) == verifier' = v
Verdicts == {"ok", "drift", "unsealed", "raised"}

\* The graph, the no-raw declaration, and whether there is a manifest.
VerifyDerive ==
  /\ verifier = "idle"
  /\ since' = [f \in Raw |-> {raw[f]}]
  /\ settled' = (calm /\ sealer = "sealed")
  /\ LET errors == IF Strict THEN StrictErrors ELSE NoRawError IN
       IF manifest = None
         THEN /\ Say(IF Strict /\ NoRawOk /\ ~errors THEN "ok" ELSE "unsealed")
              /\ sealed' = <<>>
              /\ UNCHANGED work
         ELSE /\ Say(IF errors THEN "read_bad" ELSE "read")
              /\ Begin("verify", ToHash)
              /\ UNCHANGED sealed
  /\ UNCHANGED <<config, raw, sealing, edits, calm>>

\* A torn manifest does not parse.
VerifyRead ==
  /\ verifier \in {"read", "read_bad"}
  /\ IF manifest \in {Torn, None}
       THEN Say("unsealed") /\ UNCHANGED <<sealed, work>>
       ELSE /\ sealed' = manifest
            /\ Say(IF verifier = "read" /\ (config.root # "underscored" \/ manifest = <<>>)
                     THEN "hash" ELSE "hash_bad")
            \* Without members the files are looked for now.
            /\ IF Strict THEN UNCHANGED work ELSE Begin("verify", Present)
  /\ UNCHANGED <<config, raw, sealing, edits, history>>

VerifyHash ==
  /\ verifier \in {"hash", "hash_bad"}
  /\ \E f \in work["verify"].todo : Hash("verify", f)
  /\ UNCHANGED <<config, raw, sealing, verifying, edits, history>>

\* A member that is gone is an error; one that goes between the test of its
\* existence and the snapshot of its identity raises what nobody catches.
VerifyLost ==
  /\ verifier \in {"hash", "hash_bad"} /\ Lost("verify")
  /\ Say("drift") \/ Say("raised")
  /\ UNCHANGED <<config, raw, sealing, sealed, work, edits, history>>

\* Mutant: only the sealed files are compared.
VerifyDecideSealed ==
  /\ verifier \in {"hash", "hash_bad"} /\ work["verify"].todo = {}
  /\ Say(IF verifier = "hash" /\ \A f \in DOMAIN sealed :
              f \in DOMAIN work["verify"].hashes /\ sealed[f] = work["verify"].hashes[f]
           THEN "ok" ELSE "drift")
  /\ UNCHANGED <<config, raw, sealing, sealed, work, edits, history>>

\* Nothing modified, added or removed.
VerifyDecide ==
  /\ verifier \in {"hash", "hash_bad"} /\ work["verify"].todo = {}
  /\ Say(IF verifier = "hash" /\ sealed = work["verify"].hashes THEN "ok" ELSE "drift")
  /\ UNCHANGED <<config, raw, sealing, sealed, work, edits, history>>

VerifyAgain ==
  /\ verifier \in Verdicts
  /\ Say("idle")
  /\ UNCHANGED <<config, raw, sealing, sealed, work, edits, history>>

Verification == VerifyDerive \/ VerifyRead \/ VerifyHash \/ VerifyLost
                  \/ VerifyDecide \/ VerifyAgain

-----------------------------------------------------------------------------
(* The user changes, adds or removes a raw file, or restores a version.    *)
Edit(f, v) ==
  /\ edits < MaxEdits /\ raw[f] # v /\ config.root # "missing"
  /\ edits' = edits + 1
  /\ raw' = [raw EXCEPT ![f] = v]
  /\ since' = [since EXCEPT ![f] = @ \cup {v}]
  /\ calm' = FALSE /\ settled' = FALSE
  /\ UNCHANGED <<config, sealing, verifying, work>>

Versions == {1, 2, Gone}

\* The configuration; a command works with the one it has loaded, so that it
\* changes between commands.
Reconfigure(c) ==
  /\ edits < MaxEdits /\ c # config /\ c.root = config.root
  /\ verifier = "idle" /\ sealer \in {"idle", "refused", "sealed"}
  /\ edits' = edits + 1
  /\ config' = c
  /\ calm' = FALSE /\ settled' = FALSE
  /\ UNCHANGED <<raw, sealing, verifying, work, since>>

Init ==
  /\ config \in Configs
  /\ raw \in [Raw -> IF config.root = "missing" THEN {Gone} ELSE {1, Gone}]
  /\ manifest = None /\ sealer = "idle" /\ verifier = "idle" /\ sealed = <<>>
  /\ work = [a \in {"seal", "verify"} |-> Nothing]
  /\ edits = 0
  /\ since = [f \in Raw |-> {raw[f]}] /\ calm = FALSE /\ settled = FALSE

Next ==
  \/ Seal \/ Verification
  \/ \E f \in Raw, v \in Versions : Edit(f, v)
  \/ \E c \in Configs : Reconfigure(c)

Spec == Init /\ [][Next]_vars

-----------------------------------------------------------------------------
(* Properties.                                                             *)

TypeOK ==
  /\ config \in Configs
  /\ raw \in [Raw -> Versions]
  /\ manifest \in Hashes \cup {Torn, None}
  /\ sealer \in {"idle", "hash", "write", "sealed", "refused"}
  /\ verifier \in {"idle", "read", "read_bad", "hash", "hash_bad"} \cup Verdicts
  /\ work \in [{"seal", "verify"} -> [todo : SUBSET Raw, hashes : Hashes]]
  /\ sealed \in Hashes
  /\ edits \in 0..MaxEdits
  /\ since \in [Raw -> SUBSET Versions]
  /\ calm \in BOOLEAN /\ settled \in BOOLEAN

\* The raw files that a verification answers for: those some producer reads,
\* by name or by pattern, and not as another's output; in warn mode all.
Answerable ==
  IF ~Strict \/ Legacy THEN Raw
  ELSE {f \in Raw : \E p \in Producers : LookedFor(p) \cap {f, AllRaw} # {}}

\* An accepted project is as it was sealed: every raw file its producers read
\* had its sealed version, or if it is not sealed was not there, at some
\* moment of the verification.  A change made before and not undone is never
\* missed, whatever else is edited, resealed or torn meanwhile.
AcceptedWasAsSealed ==
  verifier = "ok" => \A f \in Answerable :
    IF f \in DOMAIN sealed THEN sealed[f] \in since[f] ELSE Gone \in since[f]

\* In strict mode no declared input escapes the seal: every file that a
\* producer names is sealed, unless a producer makes it.
NamedInputsSealed ==
  verifier = "ok" /\ Strict =>
    \A p \in Producers : LookedFor(p) \cap (Raw \cup {Outside}) \subseteq DOMAIN sealed

\* What was sealed in peace and not touched since verifies.
FreshSealVerifies ==
  settled /\ verifier \in Verdicts /\ (Strict \/ config.declared = "absent")
    => verifier = "ok"

=============================================================================
