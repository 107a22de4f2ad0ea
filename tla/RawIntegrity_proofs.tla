------------------------- MODULE RawIntegrity_proofs -------------------------
(***************************************************************************)
(* Proofs about files that are hashed before they are used, for any files, *)
(* configurations and number of changes: the raw files of a project, the   *)
(* inputs from outside it, and the pictures that are previewed.            *)
(*                                                                         *)
(* Raw files.  A verification that says ok has looked at everything it     *)
(* answers for (Covered, Named) since it began (Comparing), and one that   *)
(* nothing disturbed since the seal compares a manifest with the very      *)
(* files it was made from (Peace).                                         *)
(***************************************************************************)
EXTENDS RawIntegrity, ExternalRaw, JobPreview, TLAPS

\* No raw path begins with an underscore; such a path seals, and its seal is
\* not read back.
NoUnderscore == \A c \in Configs : c.root # "underscored"

Looked == work["verify"].todo \cup DOMAIN work["verify"].hashes

Covered == \A f \in Answerable : f \in Looked \/ Gone \in since[f]
Named   == \A p \in Producers : LookedFor(p) \cap (Raw \cup {Outside}) \subseteq Looked

Comparing ==
  /\ \A f \in Raw : raw[f] \in since[f]
  /\ verifier \in {"read", "read_bad", "hash", "hash_bad"} =>
       \A f \in DOMAIN work["verify"].hashes : work["verify"].hashes[f] \in since[f]
  /\ verifier = "hash" \/ (verifier = "read" /\ Strict) => Covered
  /\ verifier \in {"read", "hash"} /\ Strict => Named

\* The checks of a seal.
Accepts == config.root # "missing" /\ (Strict => ~StrictErrors)

\* An actor's hashes are of the files as they are, and complete but for those
\* it has yet to hash.
Hashing(a) ==
  /\ work[a].todo \cup DOMAIN work[a].hashes = ToHash
  /\ \A f \in DOMAIN work[a].hashes : work[a].hashes[f] = raw[f]

Exact == Accepts /\ manifest = [f \in ToHash |-> raw[f]]

Peace ==
  /\ calm /\ sealer \in {"hash", "write"} => Accepts /\ Hashing("seal")
  /\ sealer = "write" => work["seal"].todo = {} /\ ~settled
  /\ calm /\ sealer = "sealed" => Exact
  /\ settled =>
       /\ Exact
       /\ Strict \/ config.declared = "absent" =>
            verifier \in {"idle", "read", "hash", "ok"}
       /\ verifier = "hash" \/ (verifier = "read" /\ Strict) => Hashing("verify")
       /\ verifier = "hash" => sealed = manifest

IInv == TypeOK /\ Comparing /\ AcceptedWasAsSealed /\ NamedInputsSealed

-----------------------------------------------------------------------------
(* What the operators of the model depend on.                              *)

\* Hashes are functions from some raw paths to contents.
LEMMA HashesAre ==
  ASSUME NEW h
  PROVE  h \in Hashes <=> DOMAIN h \in SUBSET Raw /\ h \in [DOMAIN h -> {1, 2}]
BY DEF Hashes

\* The configuration alone decides what a verification answers for.
LEMMA OfConfig ==
  ASSUME UNCHANGED config
  PROVE  /\ Strict' = Strict /\ Producers' = Producers /\ Answerable' = Answerable
         /\ \A p : LookedFor(p)' = LookedFor(p)
         /\ GraphErrors' = GraphErrors /\ Legacy' = Legacy /\ Externals' = Externals
         /\ Terminals' = Terminals
<1>1. Strict' = Strict /\ Producers' = Producers
  BY DEF Strict, Producers
<1>2. \A p : Inputs(p)' = Inputs(p) /\ Outputs(p)' = Outputs(p)
  BY DEF Inputs, Outputs
<1>3. \A d : Owned(d)' = Owned(d)
  BY <1>1, <1>2 DEF Owned
<1>4. \A d : Owner(d)' = Owner(d)
  BY DEF Owner, Producers, Outputs
<1>5. \A p : LookedFor(p)' = LookedFor(p)
  BY <1>2, <1>3 DEF LookedFor
<1>6. Legacy' = Legacy /\ Externals' = Externals /\ Terminals' = Terminals
  BY <1>1, <1>2, <1>5 DEF Legacy, Externals, Terminals
<1>7. Answerable' = Answerable
  BY <1>1, <1>5, <1>6 DEF Answerable
<1>8. Cyclic' = Cyclic
  BY <1>1, <1>2, <1>3, <1>4 DEF Cyclic
<1>9. GraphErrors' = GraphErrors
  BY <1>1, <1>2, <1>8 DEF GraphErrors
<1>. QED
  BY <1>1, <1>5, <1>6, <1>7, <1>9

\* A seal that is there takes nothing from what it was made of.
LEMMA OfFiles ==
  ASSUME UNCHANGED <<config, raw>>, manifest # None => manifest' # None
  PROVE  /\ Unresolved' \subseteq Unresolved
         /\ Present' = Present
         /\ Accepts => Accepts' /\ ToHash' = ToHash
<1>1. Present' = Present
  BY DEF Present
<1>2. \A d : Matches(d) \subseteq Matches(d)' /\ Raw \cap Matches(d)' = Raw \cap Matches(d)
  BY <1>1, DistinctAssumption DEF Matches
<1>3. Terminals' = Terminals /\ Legacy' = Legacy /\ Strict' = Strict
      /\ Producers' = Producers /\ GraphErrors' = GraphErrors /\ Externals' = Externals
  BY OfConfig
<1>4. Unresolved' \subseteq Unresolved
  BY <1>2, <1>3 DEF Unresolved
<1>5. Unresolved = {} => Members' = Members
  <2>. SUFFICES ASSUME Unresolved = {} PROVE Members' = Members
    OBVIOUS
  <2>1. Unresolved' = {}
    BY <1>4
  <2>2. Raw \cap UNION {Matches(d)' : d \in Terminals} = Raw \cap UNION {Matches(d) : d \in Terminals}
    BY <1>2
  <2>. QED
    BY <1>1, <1>3, <2>1, <2>2 DEF Members
<1>6. Unresolved = {} /\ NoRawOk => NoRawOk'
  BY <1>1, <1>3, <1>4, <1>5 DEF NoRawOk
<1>7. Strict /\ ~StrictErrors => Unresolved = {} /\ ~StrictErrors'
  BY <1>3, <1>4, <1>5, <1>6 DEF StrictErrors, NoRawError
<1>8. Accepts => Accepts' /\ ToHash' = ToHash
  BY <1>1, <1>3, <1>5, <1>7 DEF Accepts, ToHash
<1>. QED
  BY <1>1, <1>4, <1>8

\* Hashing one member.
LEMMA HashEffect ==
  ASSUME TypeOK, NEW a \in {"seal", "verify"}, NEW f \in work[a].todo, Hash(a, f)
  PROVE  /\ work' \in [{"seal", "verify"} -> [todo : SUBSET Raw, hashes : Hashes]]
         /\ \A b \in {"seal", "verify"} : b # a => work'[b] = work[b]
         /\ work'[a].todo = work[a].todo \ {f}
         /\ DOMAIN work'[a].hashes = DOMAIN work[a].hashes \cup {f}
         /\ \A g \in DOMAIN work'[a].hashes :
              work'[a].hashes[g] = IF g = f THEN raw[f] ELSE work[a].hashes[g]
<1>. DEFINE hs == work[a].hashes
            nhs == [g \in DOMAIN hs \cup {f} |-> IF g = f THEN raw[f] ELSE hs[g]]
            new == [todo |-> work[a].todo \ {f}, hashes |-> nhs]
<1>1. work' = [work EXCEPT ![a] = new]
  BY DEF Hash
<1>2. f \in Raw /\ raw[f] \in {1, 2}
  BY DEF TypeOK, Versions, Hash
<1>3. DOMAIN hs \in SUBSET Raw /\ hs \in [DOMAIN hs -> {1, 2}]
  BY HashesAre DEF TypeOK
<1>4. nhs \in Hashes
  <2>1. DOMAIN nhs = DOMAIN hs \cup {f} /\ nhs \in [DOMAIN nhs -> {1, 2}]
    BY <1>2, <1>3
  <2>. QED
    BY <1>2, <1>3, <2>1, HashesAre
<1>5. new \in [todo : SUBSET Raw, hashes : Hashes]
  BY <1>4 DEF TypeOK
<1>. QED
  BY <1>1, <1>5 DEF TypeOK

\* Beginning to hash.
LEMMA BeginEffect ==
  ASSUME TypeOK, NEW a \in {"seal", "verify"}, NEW todo \in SUBSET Raw, Begin(a, todo)
  PROVE  /\ work' \in [{"seal", "verify"} -> [todo : SUBSET Raw, hashes : Hashes]]
         /\ \A b \in {"seal", "verify"} : b # a => work'[b] = work[b]
         /\ work'[a].todo = todo /\ DOMAIN work'[a].hashes = {}
<1>1. DOMAIN <<>> = {} /\ <<>> \in Hashes
  <2>1. DOMAIN <<>> = {} /\ <<>> \in [{} -> {1, 2}]
    OBVIOUS
  <2>. QED
    BY <2>1, HashesAre
<1>. QED
  BY <1>1 DEF TypeOK, Begin

\* Only raw files are hashed.
LEMMA ToHashIsRaw == ToHash \subseteq Raw /\ Present \subseteq Raw
BY DEF ToHash, Members, Present

-----------------------------------------------------------------------------
(* The invariant.                                                          *)

\* Every step keeps the types,
LEMMA RawTypeStep ==
  ASSUME TypeOK, [Next]_vars
  PROVE  TypeOK'
<1>. USE DistinctAssumption, EditsAssumption
     DEF TypeOK, sealing, verifying, history, Versions, Verdicts, Say
<1>1. CASE SealDerive
  <2>1. CASE UNCHANGED work
    BY <1>1, <2>1 DEF SealDerive
  <2>2. CASE Begin("seal", ToHash)
    BY <1>1, <2>2, BeginEffect, ToHashIsRaw DEF SealDerive
  <2>. QED
    BY <1>1, <2>1, <2>2 DEF SealDerive
<1>2. CASE SealHash
  BY <1>2, HashEffect DEF SealHash
<1>3. CASE SealLost
  BY <1>3 DEF SealLost
<1>4. CASE SealOpen
  BY <1>4 DEF SealOpen
<1>5. CASE SealWrite
  BY <1>5 DEF SealWrite
<1>6. CASE SealAgain
  BY <1>6 DEF SealAgain
<1>7. CASE SealCrash
  BY <1>7 DEF SealCrash
<1>8. CASE VerifyDerive
  <2>1. since' \in [Raw -> SUBSET {1, 2, Gone}] /\ settled' \in BOOLEAN
    BY <1>8 DEF VerifyDerive
  <2>2. <<>> \in Hashes
    <3>1. DOMAIN <<>> = {} /\ <<>> \in [{} -> {1, 2}]
      OBVIOUS
    <3>. QED
      BY <3>1, HashesAre
  <2>3. work' \in [{"seal", "verify"} -> [todo : SUBSET Raw, hashes : Hashes]]
    BY <1>8, BeginEffect, ToHashIsRaw DEF VerifyDerive
  <2>4. verifier' \in {"ok", "unsealed", "read", "read_bad"} /\ sealed' \in Hashes
    BY <1>8, <2>2 DEF VerifyDerive
  <2>. QED
    BY <1>8, <2>1, <2>3, <2>4 DEF VerifyDerive
<1>9. CASE VerifyRead
  <2>1. work' \in [{"seal", "verify"} -> [todo : SUBSET Raw, hashes : Hashes]]
    BY <1>9, BeginEffect, ToHashIsRaw DEF VerifyRead
  <2>2. verifier' \in {"unsealed", "hash", "hash_bad"} /\ sealed' \in Hashes
    BY <1>9 DEF VerifyRead
  <2>. QED
    BY <1>9, <2>1, <2>2 DEF VerifyRead
<1>10. CASE VerifyHash
  BY <1>10, HashEffect DEF VerifyHash
<1>11. CASE VerifyLost
  BY <1>11 DEF VerifyLost
<1>12. CASE VerifyDecide
  BY <1>12 DEF VerifyDecide
<1>13. CASE VerifyAgain
  BY <1>13 DEF VerifyAgain
<1>14. ASSUME NEW f \in Raw, NEW v \in Versions, Edit(f, v)
       PROVE  TypeOK'
  <2>1. edits' \in 0..MaxEdits
    BY <1>14 DEF Edit
  <2>2. raw' \in [Raw -> {1, 2, Gone}]
    BY <1>14 DEF Edit
  <2>3. since' \in [Raw -> SUBSET {1, 2, Gone}]
    BY <1>14 DEF Edit
  <2>4. UNCHANGED <<config, manifest, sealer, verifier, work, sealed>>
        /\ calm' \in BOOLEAN /\ settled' \in BOOLEAN
    BY <1>14 DEF Edit
  <2>. QED
    BY <2>1, <2>2, <2>3, <2>4
<1>15. ASSUME NEW c \in Configs, Reconfigure(c)
       PROVE  TypeOK'
  <2>1. edits' \in 0..MaxEdits
    BY <1>15 DEF Reconfigure
  <2>2. UNCHANGED <<raw, manifest, sealer, verifier, work, sealed, since>>
        /\ config' \in Configs /\ calm' \in BOOLEAN /\ settled' \in BOOLEAN
    BY <1>15 DEF Reconfigure
  <2>. QED
    BY <2>1, <2>2
<1>16. CASE UNCHANGED vars
  BY <1>16 DEF vars
<1>. QED
  BY <1>1, <1>2, <1>3, <1>4, <1>5, <1>6, <1>7, <1>8, <1>9, <1>10, <1>11, <1>12,
     <1>13, <1>14, <1>15, <1>16 DEF Next, Seal, Verification

\* What is to be hashed is there.
LEMMA ToHashIsThere == ToHash \subseteq Present
BY DistinctAssumption DEF ToHash, Members, Matches, Present

\* Without errors nothing that is declared escapes: what a producer names is
\* to be hashed, and so is what it answers for, unless it is not there.
LEMMA NothingEscapes ==
  ASSUME Strict => ~StrictErrors
  PROVE  /\ Strict => \A p \in Producers :
              LookedFor(p) \cap (Raw \cup {Outside}) \subseteq ToHash
         /\ \A f \in Answerable : f \in Raw /\ (f \in ToHash \/ raw[f] = Gone)
<1>1. Answerable \subseteq Raw
  BY DEF Answerable
<1>2. CASE ~Strict
  BY <1>1, <1>2 DEF ToHash, Present
<1>3. CASE Strict /\ Legacy
  <2>1. \A p \in Producers : LookedFor(p) = {}
    BY <1>3 DEF Legacy, LookedFor
  <2>2. ToHash = Present
    BY <1>3 DEF ToHash, Members
  <2>. QED
    BY <1>1, <2>1, <2>2 DEF Present
<1>4. CASE Strict /\ ~Legacy
  <2>1. Unresolved = {} /\ ToHash = Raw \cap UNION {Matches(d) : d \in Terminals}
    BY <1>4 DEF StrictErrors, ToHash, Members
  <2>2. \A p \in Producers : \A d \in LookedFor(p) :
          d \in Terminals /\ d # Outside /\ Matches(d) # {}
    BY <2>1 DEF Terminals, Unresolved
  <2>3. \A d \in Raw : Matches(d) = Present \cap {d}
    BY DistinctAssumption DEF Matches
  <2>4. \A p \in Producers : LookedFor(p) \cap (Raw \cup {Outside}) \subseteq ToHash
    BY <2>1, <2>2, <2>3
  <2>5. ASSUME NEW f \in Answerable, raw[f] # Gone
        PROVE  f \in ToHash
    <3>1. PICK p \in Producers : LookedFor(p) \cap {f, AllRaw} # {}
      BY <1>4 DEF Answerable
    <3>2. PICK d \in LookedFor(p) : d \in {f, AllRaw}
      BY <3>1
    <3>3. f \in Present /\ f \in Raw
      BY <1>1, <2>5 DEF Present
    <3>4. Present \subseteq Matches(AllRaw)
      BY DistinctAssumption DEF Matches
    <3>5. f \in Matches(d)
      BY <2>3, <3>2, <3>3, <3>4
    <3>. QED
      BY <2>1, <2>2, <3>3, <3>5
  <2>. QED
    BY <1>1, <2>4, <2>5
<1>. QED
  BY <1>2, <1>3, <1>4

\* What leaves a verification alone.
LEMMA ComparingKept ==
  ASSUME Comparing, UNCHANGED <<config, raw, since, verifier>>,
         work'["verify"] = work["verify"]
  PROVE  Comparing'
<1>1. Strict' = Strict /\ Producers' = Producers /\ Answerable' = Answerable
      /\ \A p : LookedFor(p)' = LookedFor(p)
  BY OfConfig
<1>2. Looked' = Looked
  BY DEF Looked
<1>3. Covered => Covered'
  BY <1>1, <1>2 DEF Covered
<1>4. Named => Named'
  BY <1>1, <1>2 DEF Named
<1>. QED
  BY <1>1, <1>3, <1>4 DEF Comparing

\* and what a verifier that compares knows of the seal.
LEMMA ComparingStep ==
  ASSUME TypeOK, Comparing, [Next]_vars
  PROVE  Comparing'
<1>. USE DEF sealing, verifying, history, Verdicts, Say
<1>1. CASE SealDerive
  <2>1. work'["verify"] = work["verify"]
    BY <1>1, BeginEffect, ToHashIsRaw DEF SealDerive
  <2>. QED
    BY <1>1, <2>1, ComparingKept DEF SealDerive
<1>2. CASE SealHash
  <2>1. work'["verify"] = work["verify"]
    BY <1>2, HashEffect DEF SealHash
  <2>. QED
    BY <1>2, <2>1, ComparingKept DEF SealHash
<1>3. CASE SealLost
  BY <1>3, ComparingKept DEF SealLost
<1>4. CASE SealOpen
  BY <1>4, ComparingKept DEF SealOpen
<1>5. CASE SealWrite
  BY <1>5, ComparingKept DEF SealWrite
<1>6. CASE SealAgain
  BY <1>6, ComparingKept DEF SealAgain
<1>7. CASE SealCrash
  BY <1>7, ComparingKept DEF SealCrash
<1>8. CASE VerifyDerive
  <2>1. Strict' = Strict /\ Producers' = Producers /\ Answerable' = Answerable
        /\ \A p : LookedFor(p)' = LookedFor(p)
    BY <1>8, OfConfig DEF VerifyDerive
  <2>2. \A f \in Raw : since'[f] = {raw[f]} /\ raw'[f] \in since'[f]
    BY <1>8 DEF VerifyDerive
  <2>3. verifier' \in {"ok", "unsealed"} \/ (verifier' \in {"read", "read_bad"} /\ Begin("verify", ToHash)
          /\ (verifier' = "read" /\ Strict => ~StrictErrors))
    BY <1>8 DEF VerifyDerive
  <2>4. CASE verifier' \in {"ok", "unsealed"}
    BY <2>2, <2>4 DEF Comparing
  <2>5. CASE verifier' \in {"read", "read_bad"} /\ Begin("verify", ToHash)
             /\ (verifier' = "read" /\ Strict => ~StrictErrors)
    <3>1. DOMAIN work'["verify"].hashes = {} /\ Looked' = ToHash
      BY <2>5, BeginEffect, ToHashIsRaw DEF Looked
    <3>2. ASSUME verifier' = "read", Strict
          PROVE  Covered' /\ Named'
      <4>1. \A f \in Answerable : f \in Raw /\ (f \in ToHash \/ raw[f] = Gone)
        BY <2>5, <3>2, NothingEscapes
      <4>2. \A p \in Producers : LookedFor(p) \cap (Raw \cup {Outside}) \subseteq ToHash
        BY <2>5, <3>2, NothingEscapes
      <4>3. Covered'
        BY <2>1, <2>2, <3>1, <4>1 DEF Covered
      <4>4. Named'
        BY <2>1, <3>1, <4>2 DEF Named
      <4>. QED
        BY <4>3, <4>4
    <3>. QED
      BY <2>1, <2>2, <2>5, <3>1, <3>2 DEF Comparing
  <2>. QED
    BY <2>3, <2>4, <2>5
<1>9. CASE VerifyRead
  <2>1. Strict' = Strict /\ Producers' = Producers /\ Answerable' = Answerable
        /\ \A p : LookedFor(p)' = LookedFor(p)
    BY <1>9, OfConfig DEF VerifyRead
  <2>2. UNCHANGED <<raw, since>> /\ verifier' \in {"unsealed", "hash", "hash_bad"}
        /\ (verifier' = "hash" => verifier = "read")
    BY <1>9 DEF VerifyRead
  <2>3. CASE verifier' = "unsealed"
    BY <2>2, <2>3 DEF Comparing
  <2>4. CASE verifier' # "unsealed" /\ Strict
    <3>1. UNCHANGED work
      BY <1>9, <2>4 DEF VerifyRead
    <3>2. Looked' = Looked
      BY <3>1 DEF Looked
    <3>3. verifier' = "hash" => Covered' /\ Named'
      BY <2>1, <2>2, <2>4, <3>2 DEF Comparing, Covered, Named
    <3>. QED
      BY <1>9, <2>1, <2>2, <2>4, <3>1, <3>3 DEF Comparing, VerifyRead
  <2>5. CASE verifier' # "unsealed" /\ ~Strict
    <3>1. Begin("verify", Present)
      BY <1>9, <2>5 DEF VerifyRead
    <3>2. DOMAIN work'["verify"].hashes = {} /\ Looked' = Present
      BY <3>1, BeginEffect, ToHashIsRaw DEF Looked
    <3>3. Covered'
      BY <2>1, <2>2, <3>2 DEF Comparing, Covered, Answerable, Present
    <3>. QED
      BY <2>1, <2>2, <2>5, <3>2, <3>3 DEF Comparing
  <2>. QED
    BY <2>3, <2>4, <2>5
<1>10. CASE VerifyHash
  <2>1. Strict' = Strict /\ Producers' = Producers /\ Answerable' = Answerable
        /\ \A p : LookedFor(p)' = LookedFor(p)
    BY <1>10, OfConfig DEF VerifyHash
  <2>2. PICK f \in work["verify"].todo : Hash("verify", f)
    BY <1>10 DEF VerifyHash
  <2>3. Looked' = Looked
    BY <2>2, HashEffect DEF Looked
  <2>4. f \in Raw
    BY DEF TypeOK
  <2>5. \A g \in DOMAIN work'["verify"].hashes : work'["verify"].hashes[g] \in since[g]
    BY <1>10, <2>2, <2>4, HashEffect DEF Comparing, VerifyHash
  <2>6. Covered => Covered'
    BY <1>10, <2>1, <2>3 DEF Covered, VerifyHash
  <2>7. Named => Named'
    BY <2>1, <2>3 DEF Named
  <2>. QED
    BY <1>10, <2>1, <2>5, <2>6, <2>7 DEF Comparing, VerifyHash
<1>11. CASE VerifyLost
  BY <1>11 DEF VerifyLost, Comparing
<1>12. CASE VerifyDecide
  BY <1>12 DEF VerifyDecide, Comparing
<1>13. CASE VerifyAgain
  BY <1>13 DEF VerifyAgain, Comparing
<1>14. ASSUME NEW f \in Raw, NEW v \in Versions, Edit(f, v)
       PROVE  Comparing'
  <2>1. Strict' = Strict /\ Producers' = Producers /\ Answerable' = Answerable
        /\ \A p : LookedFor(p)' = LookedFor(p)
    BY <1>14, OfConfig DEF Edit
  <2>2. \A g \in Raw : since[g] \subseteq since'[g] /\ raw'[g] \in since'[g]
    BY <1>14 DEF Edit, TypeOK, Comparing
  <2>3. UNCHANGED <<verifier, work>> /\ Looked' = Looked
    BY <1>14 DEF Edit, Looked
  <2>4. Covered => Covered'
    BY <2>1, <2>2, <2>3 DEF Covered, Answerable
  <2>5. Named => Named'
    BY <2>1, <2>3 DEF Named
  <2>6. DOMAIN work["verify"].hashes \subseteq Raw
    BY HashesAre DEF TypeOK
  <2>. QED
    BY <2>1, <2>2, <2>3, <2>4, <2>5, <2>6 DEF Comparing
<1>15. ASSUME NEW c \in Configs, Reconfigure(c)
       PROVE  Comparing'
  BY <1>15 DEF Reconfigure, Comparing
<1>16. CASE UNCHANGED vars
  BY <1>16, ComparingKept DEF vars
<1>. QED
  BY <1>1, <1>2, <1>3, <1>4, <1>5, <1>6, <1>7, <1>8, <1>9, <1>10, <1>11, <1>12,
     <1>13, <1>14, <1>15, <1>16 DEF Next, Seal, Verification

\* A verification that says ok has compared the seal with all it looked at.
LEMMA AcceptanceStep ==
  ASSUME TypeOK, Comparing, AcceptedWasAsSealed, NamedInputsSealed, [Next]_vars
  PROVE  AcceptedWasAsSealed' /\ NamedInputsSealed'
<1>. USE DEF sealing, verifying, history, Verdicts, Say
<1>1. CASE UNCHANGED <<config, since, verifier, sealed>>
  <2>1. Strict' = Strict /\ Producers' = Producers /\ Answerable' = Answerable
        /\ \A p : LookedFor(p)' = LookedFor(p)
    BY <1>1, OfConfig
  <2>2. AcceptedWasAsSealed'
    BY <1>1, <2>1 DEF AcceptedWasAsSealed
  <2>3. NamedInputsSealed'
    BY <1>1, <2>1 DEF NamedInputsSealed
  <2>. QED
    BY <2>2, <2>3
<1>2. CASE verifier' # "ok"
  BY <1>2 DEF AcceptedWasAsSealed, NamedInputsSealed
<1>3. CASE VerifyDerive /\ verifier' = "ok"
  <2>1. Strict' = Strict /\ Producers' = Producers /\ Answerable' = Answerable
        /\ \A p : LookedFor(p)' = LookedFor(p)
    BY <1>3, OfConfig DEF VerifyDerive
  <2>2. Strict /\ NoRawOk /\ ~StrictErrors /\ sealed' = <<>>
    BY <1>3 DEF VerifyDerive
  <2>3. \A f \in Raw : Gone \in since'[f]
    BY <1>3, <2>2 DEF VerifyDerive, NoRawOk, Present
  <2>4. ToHash = {}
    BY <2>2 DEF ToHash, NoRawOk
  <2>5. \A p \in Producers : LookedFor(p) \cap (Raw \cup {Outside}) \subseteq {}
    BY <2>2, <2>4, NothingEscapes
  <2>6. \A f \in Answerable : f \in Raw
    BY DEF Answerable
  <2>7. DOMAIN sealed' = {}
    BY <2>2
  <2>8. AcceptedWasAsSealed'
    BY <2>1, <2>3, <2>6, <2>7 DEF AcceptedWasAsSealed
  <2>9. NamedInputsSealed'
    BY <2>1, <2>5, <2>7 DEF NamedInputsSealed
  <2>. QED
    BY <2>8, <2>9
<1>4. CASE VerifyDecide /\ verifier' = "ok"
  <2>1. Strict' = Strict /\ Producers' = Producers /\ Answerable' = Answerable
        /\ \A p : LookedFor(p)' = LookedFor(p)
    BY <1>4, OfConfig DEF VerifyDecide
  <2>2. verifier = "hash" /\ sealed = work["verify"].hashes /\ work["verify"].todo = {}
        /\ UNCHANGED <<since, sealed>>
    BY <1>4 DEF VerifyDecide
  <2>3. Looked = DOMAIN sealed
    BY <2>2 DEF Looked
  <2>4. AcceptedWasAsSealed'
    BY <2>1, <2>2, <2>3 DEF AcceptedWasAsSealed, Comparing, Covered
  <2>5. NamedInputsSealed'
    BY <2>1, <2>2, <2>3 DEF NamedInputsSealed, Comparing, Named
  <2>. QED
    BY <2>4, <2>5
<1>5. ASSUME NEW f \in Raw, NEW v \in Versions, Edit(f, v)
      PROVE  AcceptedWasAsSealed' /\ NamedInputsSealed'
  <2>1. Strict' = Strict /\ Producers' = Producers /\ Answerable' = Answerable
        /\ \A p : LookedFor(p)' = LookedFor(p)
    BY <1>5, OfConfig DEF Edit
  <2>2. \A g \in Raw : since[g] \subseteq since'[g]
    BY <1>5 DEF Edit, TypeOK
  <2>3. UNCHANGED <<verifier, sealed>> /\ Answerable \subseteq Raw
    BY <1>5 DEF Edit, Answerable
  <2>4. AcceptedWasAsSealed'
    BY <2>1, <2>2, <2>3 DEF AcceptedWasAsSealed
  <2>5. NamedInputsSealed'
    BY <2>1, <2>3 DEF NamedInputsSealed
  <2>. QED
    BY <2>4, <2>5
<1>6. \/ UNCHANGED <<config, since, verifier, sealed>>
      \/ verifier' # "ok"
      \/ VerifyDerive /\ verifier' = "ok"
      \/ VerifyDecide /\ verifier' = "ok"
      \/ \E f \in Raw, v \in Versions : Edit(f, v)
  <2>1. Seal => UNCHANGED <<config, since, verifier, sealed>>
    BY DEF Seal, SealDerive, SealHash, SealLost, SealOpen, SealWrite, SealAgain, SealCrash
  <2>2. VerifyRead \/ VerifyLost \/ VerifyAgain => verifier' # "ok"
    BY DEF VerifyRead, VerifyLost, VerifyAgain
  <2>3. VerifyHash \/ UNCHANGED vars => UNCHANGED <<config, since, verifier, sealed>>
    BY DEF VerifyHash, vars
  <2>4. (\E c \in Configs : Reconfigure(c)) => verifier' # "ok"
    BY DEF Reconfigure
  <2>. QED
    BY <2>1, <2>2, <2>3, <2>4 DEF Next, Verification
<1>. QED
  BY <1>1, <1>2, <1>3, <1>4, <1>5, <1>6

\* The inductive invariant holds initially,
LEMMA RawInit == Init => IInv
<1>. SUFFICES ASSUME Init PROVE IInv
  OBVIOUS
<1>1. <<>> \in Hashes
  <2>1. DOMAIN <<>> = {} /\ <<>> \in [{} -> {1, 2}]
    OBVIOUS
  <2>. QED
    BY <2>1, HashesAre
<1>2. work \in [{"seal", "verify"} -> [todo : SUBSET Raw, hashes : Hashes]]
  BY <1>1 DEF Init, Nothing
<1>3. raw \in [Raw -> Versions] /\ since \in [Raw -> SUBSET Versions]
  BY DEF Init, Versions
<1>4. edits \in 0..MaxEdits
  BY EditsAssumption DEF Init
<1>5. TypeOK
  <2>1. /\ config \in Configs /\ manifest = None /\ sealer = "idle"
        /\ verifier = "idle" /\ sealed = <<>> /\ calm = FALSE /\ settled = FALSE
    BY DEF Init
  <2>. QED
    BY <1>1, <1>2, <1>3, <1>4, <2>1 DEF TypeOK
<1>. QED
  BY <1>5 DEF Init, IInv, Comparing, AcceptedWasAsSealed, NamedInputsSealed

\* and every step keeps it.
LEMMA RawStep == IInv /\ [Next]_vars => IInv'
BY RawTypeStep, ComparingStep, AcceptanceStep DEF IInv

\* Whatever the user edits and whenever a command is interrupted, manifest,
\* hashes and history are of the declared kinds.
THEOREM RawTypeCorrect == Spec => []TypeOK
<1>1. IInv => TypeOK
  BY DEF IInv
<1>. QED
  BY RawInit, RawStep, <1>1, PTL DEF Spec

\* For any raw files, configurations and number of edits, at any time: every
\* raw file an accepted project answers for had its sealed version, or was
\* absent and is not sealed, at some moment of the verification
\* (verify_raw_integrity).
THEOREM AcceptedIsAsSealed == Spec => []AcceptedWasAsSealed
<1>1. IInv => AcceptedWasAsSealed
  BY DEF IInv
<1>. QED
  BY RawInit, RawStep, <1>1, PTL DEF Spec

\* In strict mode every file a producer names, and none of them makes, is in
\* the seal of an accepted project (derive_raw_dependency_graph with
\* _strict_graph_errors).
THEOREM NamedAreSealed == Spec => []NamedInputsSealed
<1>1. IInv => NamedInputsSealed
  BY DEF IInv
<1>. QED
  BY RawInit, RawStep, <1>1, PTL DEF Spec

-----------------------------------------------------------------------------
(* A seal that nothing disturbs.                                           *)

\* An exact seal can be read.
LEMMA ExactReads ==
  ASSUME TypeOK, Exact
  PROVE  manifest \notin {Torn, None}
<1>1. ToHash \subseteq Raw /\ \A f \in ToHash : raw[f] \in {1, 2}
  BY ToHashIsRaw, ToHashIsThere DEF Present, TypeOK, Versions
<1>2. DOMAIN manifest = ToHash /\ manifest \in [ToHash -> {1, 2}]
  BY <1>1 DEF Exact
<1>3. manifest \in Hashes
  BY <1>1, <1>2, HashesAre
<1>. QED
  BY <1>3, DistinctAssumption

\* Complete hashes are the files as they are.
LEMMA HashedAll ==
  ASSUME TypeOK, NEW a \in {"seal", "verify"}, Hashing(a), work[a].todo = {}
  PROVE  work[a].hashes = [f \in ToHash |-> raw[f]]
<1>1. DOMAIN work[a].hashes = ToHash
  BY DEF Hashing
<1>2. work[a].hashes = [f \in DOMAIN work[a].hashes |-> work[a].hashes[f]]
  BY HashesAre DEF TypeOK
<1>. QED
  BY <1>1, <1>2 DEF Hashing

\* What changes neither the files nor the seal.
LEMMA Unmoved ==
  ASSUME UNCHANGED <<config, raw, manifest>>
  PROVE  /\ Accepts => Accepts' /\ ToHash' = ToHash
         /\ Exact => Exact'
         /\ \A a \in {"seal", "verify"} :
              Accepts /\ Hashing(a) /\ work'[a] = work[a] => Hashing(a)'
         /\ Strict' = Strict
<1>1. Accepts => Accepts' /\ ToHash' = ToHash
  BY OfFiles
<1>2. Exact => Exact'
  BY <1>1 DEF Exact
<1>3. \A a \in {"seal", "verify"} :
        Accepts /\ Hashing(a) /\ work'[a] = work[a] => Hashing(a)'
  BY <1>1 DEF Hashing
<1>. QED
  BY <1>1, <1>2, <1>3, OfConfig

\* A seal that is settled goes on to verify.
Settled ==
  settled =>
    /\ Exact
    /\ Strict \/ config.declared = "absent" => verifier \in {"idle", "read", "hash", "ok"}
    /\ verifier = "hash" \/ (verifier = "read" /\ Strict) => Hashing("verify")
    /\ verifier = "hash" => sealed = manifest

\* What leaves configuration, raw files and seal alone leaves the seal settled.
LEMMA SettledKept ==
  ASSUME Settled, UNCHANGED <<config, raw, manifest, verifier, sealed, settled>>,
         work'["verify"] = work["verify"]
  PROVE  Settled'
<1>. SUFFICES ASSUME settled PROVE Settled'
  BY DEF Settled
<1>1. Exact /\ Accepts
  BY DEF Settled, Exact
<1>2. Exact' /\ Strict' = Strict /\ (Hashing("verify") => Hashing("verify")')
  BY <1>1, Unmoved
<1>. QED
  BY <1>2 DEF Settled

\* A seal that nobody disturbs goes on to verify.
LEMMA PeaceStep ==
  ASSUME NoUnderscore, TypeOK, Peace, [Next]_vars
  PROVE  Peace'
<1>. USE DEF sealing, verifying, history, Verdicts, Say
<1>0. Settled
  BY DEF Peace, Settled
<1>1. CASE SealDerive
  <2>1. UNCHANGED <<config, raw, manifest, verifier, sealed, settled>>
    BY <1>1 DEF SealDerive
  <2>2. CASE sealer' = "refused" /\ UNCHANGED work
    BY <1>0, <2>1, <2>2, SettledKept DEF Peace, Settled
  <2>3. CASE sealer' = "hash" /\ Begin("seal", ToHash) /\ Accepts
    <3>1. work'["verify"] = work["verify"] /\ work'["seal"].todo = ToHash
          /\ DOMAIN work'["seal"].hashes = {}
      BY <2>3, BeginEffect, ToHashIsRaw
    <3>2. Accepts' /\ ToHash' = ToHash
      BY <2>1, <2>3, Unmoved
    <3>3. Hashing("seal")'
      BY <3>1, <3>2 DEF Hashing
    <3>4. Settled'
      BY <1>0, <2>1, <3>1, SettledKept
    <3>. QED
      BY <2>3, <3>2, <3>3, <3>4 DEF Peace, Settled
  <2>. QED
    BY <1>1, <2>2, <2>3 DEF SealDerive, Accepts
<1>2. CASE SealHash
  <2>1. PICK f \in work["seal"].todo : Hash("seal", f)
    BY <1>2 DEF SealHash
  <2>2. UNCHANGED <<config, raw, manifest, sealer, verifier, sealed, calm, settled>> /\ sealer = "hash"
    BY <1>2 DEF SealHash
  <2>3. work'["verify"] = work["verify"]
    BY <2>1, HashEffect
  <2>4. Settled'
    BY <1>0, <2>2, <2>3, SettledKept
  <2>5. ASSUME calm
        PROVE  Accepts' /\ Hashing("seal")'
    <3>1. Accepts /\ Hashing("seal")
      BY <2>2, <2>5 DEF Peace
    <3>2. Accepts' /\ ToHash' = ToHash
      BY <2>2, <3>1, Unmoved
    <3>3. work'["seal"].todo \cup DOMAIN work'["seal"].hashes
            = work["seal"].todo \cup DOMAIN work["seal"].hashes
      BY <2>1, HashEffect
    <3>4. \A g \in DOMAIN work'["seal"].hashes : work'["seal"].hashes[g] = raw[g]
      BY <2>1, <3>1, HashEffect DEF Hashing
    <3>. QED
      BY <2>2, <3>1, <3>2, <3>3, <3>4 DEF Hashing
  <2>. QED
    BY <2>2, <2>4, <2>5 DEF Peace, Settled
<1>3. CASE SealLost
  BY <1>0, <1>3, SettledKept DEF SealLost, Peace, Settled
<1>4. CASE SealOpen
  <2>1. ASSUME calm
        PROVE  Accepts' /\ Hashing("seal")'
    <3>1. Accepts /\ Hashing("seal")
      BY <1>4, <2>1 DEF Peace, SealOpen
    <3>2. Accepts' /\ ToHash' = ToHash
      BY <1>4, <3>1, OfFiles, DistinctAssumption DEF SealOpen
    <3>. QED
      BY <1>4, <3>1, <3>2 DEF Hashing, SealOpen
  <2>. QED
    BY <1>4, <2>1 DEF Peace, SealOpen
<1>5. CASE SealWrite
  <2>1. ~settled' /\ sealer' = "sealed" /\ UNCHANGED <<config, raw, calm>>
        /\ manifest' = work["seal"].hashes /\ work["seal"].todo = {}
    BY <1>5 DEF Peace, SealWrite
  <2>2. ASSUME calm
        PROVE  Exact'
    <3>1. Accepts /\ Hashing("seal")
      BY <1>5, <2>2 DEF Peace, SealWrite
    <3>2. manifest' = [f \in ToHash |-> raw[f]]
      BY <2>1, <3>1, HashedAll
    <3>3. manifest' # None
      BY <2>1, DistinctAssumption DEF TypeOK
    <3>4. Accepts' /\ ToHash' = ToHash
      BY <2>1, <3>1, <3>3, OfFiles
    <3>. QED
      BY <2>1, <3>2, <3>4 DEF Exact
  <2>. QED
    BY <2>1, <2>2 DEF Peace
<1>6. CASE SealAgain
  BY <1>0, <1>6, SettledKept DEF SealAgain, Peace, Settled
<1>7. CASE SealCrash
  BY <1>0, <1>7, SettledKept DEF SealCrash, Peace, Settled
<1>8. CASE VerifyDerive
  <2>1. UNCHANGED <<config, raw, manifest, sealer, calm>>
        /\ settled' = (calm /\ sealer = "sealed") /\ Strict' = Strict
    BY <1>8, OfConfig DEF VerifyDerive
  <2>2. work'["seal"] = work["seal"]
    BY <1>8, BeginEffect, ToHashIsRaw DEF VerifyDerive
  <2>3. calm /\ sealer \in {"hash", "write"} => Accepts' /\ Hashing("seal")'
    BY <2>1, <2>2, Unmoved DEF Peace
  <2>4. calm /\ sealer = "sealed" => Exact'
    BY <2>1, Unmoved DEF Peace
  <2>5. ASSUME settled'
        PROVE  /\ Strict \/ config.declared = "absent" => verifier' = "read"
               /\ verifier' \in {"read", "read_bad"}
               /\ Hashing("verify")'
    <3>1. Exact /\ Accepts
      BY <2>1, <2>5 DEF Peace, Exact
    <3>2. manifest # None
      BY <3>1, ExactReads
    <3>3. Begin("verify", ToHash)
      BY <1>8, <3>2 DEF VerifyDerive
    <3>4. ToHash' = ToHash
      BY <2>1, <3>1, Unmoved
    <3>5. Hashing("verify")'
      BY <3>3, <3>4, BeginEffect, ToHashIsRaw DEF Hashing
    <3>6. Strict \/ config.declared = "absent" =>
            ~IF Strict THEN StrictErrors ELSE NoRawError
      BY <3>1 DEF Accepts, NoRawError
    <3>. QED
      BY <1>8, <3>2, <3>5, <3>6 DEF VerifyDerive
  <2>6. sealer' = "write" => work'["seal"].todo = {} /\ ~settled'
    BY <2>1, <2>2 DEF Peace
  <2>. QED
    BY <2>1, <2>3, <2>4, <2>5, <2>6 DEF Peace
<1>9. CASE VerifyRead
  <2>1. UNCHANGED <<config, raw, manifest, sealer, calm, settled>> /\ Strict' = Strict
    BY <1>9, OfConfig DEF VerifyRead
  <2>2. work'["seal"] = work["seal"]
    BY <1>9, BeginEffect, ToHashIsRaw DEF VerifyRead
  <2>3. calm /\ sealer \in {"hash", "write"} => Accepts' /\ Hashing("seal")'
    BY <2>1, <2>2, Unmoved DEF Peace
  <2>4. calm /\ sealer = "sealed" => Exact'
    BY <2>1, Unmoved DEF Peace
  <2>5. sealer' = "write" => work'["seal"].todo = {} /\ ~settled'
    BY <2>1, <2>2 DEF Peace
  <2>6. ASSUME settled
        PROVE  Settled'
    <3>1. Exact /\ Accepts /\ Exact' /\ ToHash' = ToHash
      BY <2>1, <2>6, Unmoved DEF Peace, Exact
    <3>2. manifest \notin {Torn, None}
      BY <3>1, ExactReads
    <3>3. sealed' = manifest /\ verifier' \in {"hash", "hash_bad"}
          /\ (verifier' = "hash" <=> verifier = "read")
      BY <1>9, <3>2 DEF VerifyRead, NoUnderscore, TypeOK
    <3>4. Strict \/ config.declared = "absent" => verifier' = "hash"
      BY <1>9, <2>6, <3>3 DEF Peace, VerifyRead
    <3>5. CASE Strict
      <4>1. UNCHANGED work
        BY <1>9, <3>2, <3>5 DEF VerifyRead
      <4>2. verifier' = "hash" => Hashing("verify")'
        BY <2>1, <2>6, <3>1, <3>3, <3>5, <4>1, Unmoved DEF Peace
      <4>. QED
        BY <2>1, <3>1, <3>3, <3>4, <4>2 DEF Settled
    <3>6. CASE ~Strict
      <4>1. Begin("verify", Present) /\ ToHash = Present
        BY <1>9, <3>2, <3>6 DEF VerifyRead, ToHash
      <4>2. Hashing("verify")'
        BY <3>1, <4>1, BeginEffect, ToHashIsRaw DEF Hashing
      <4>. QED
        BY <2>1, <3>1, <3>3, <3>4, <4>2 DEF Settled
    <3>. QED
      BY <3>5, <3>6
  <2>. QED
    BY <2>1, <2>3, <2>4, <2>5, <2>6 DEF Peace, Settled
<1>10. CASE VerifyHash
  <2>1. UNCHANGED <<config, raw, manifest, sealer, verifier, sealed, calm, settled>>
        /\ Strict' = Strict /\ verifier \in {"hash", "hash_bad"}
    BY <1>10, OfConfig DEF VerifyHash
  <2>2. PICK f \in work["verify"].todo : Hash("verify", f)
    BY <1>10 DEF VerifyHash
  <2>3. work'["seal"] = work["seal"]
    BY <2>2, HashEffect
  <2>4. calm /\ sealer \in {"hash", "write"} => Accepts' /\ Hashing("seal")'
    BY <2>1, <2>3, Unmoved DEF Peace
  <2>5. calm /\ sealer = "sealed" => Exact'
    BY <2>1, Unmoved DEF Peace
  <2>6. settled => Exact' /\ Accepts /\ ToHash' = ToHash
    BY <2>1, Unmoved DEF Peace, Exact
  <2>7. ASSUME settled, verifier = "hash"
        PROVE  Hashing("verify")'
    <3>1. Hashing("verify")
      BY <2>7 DEF Peace
    <3>2. work'["verify"].todo \cup DOMAIN work'["verify"].hashes
            = work["verify"].todo \cup DOMAIN work["verify"].hashes
      BY <2>2, HashEffect
    <3>3. \A g \in DOMAIN work'["verify"].hashes : work'["verify"].hashes[g] = raw[g]
      BY <2>2, <3>1, HashEffect DEF Hashing
    <3>. QED
      BY <2>1, <2>6, <2>7, <3>1, <3>2, <3>3 DEF Hashing
  <2>. QED
    BY <2>1, <2>3, <2>4, <2>5, <2>6, <2>7 DEF Peace
<1>11. CASE VerifyLost
  <2>1. UNCHANGED <<config, raw, manifest, sealer, sealed, work, calm, settled>>
        /\ Strict' = Strict /\ verifier' \in {"drift", "raised"}
    BY <1>11, OfConfig DEF VerifyLost
  <2>2. ~(settled /\ verifier = "hash")
    <3>1. SUFFICES ASSUME settled, verifier = "hash" PROVE FALSE
      OBVIOUS
    <3>2. work["verify"].todo \subseteq Present
      BY <3>1, ToHashIsThere DEF Peace, Hashing
    <3>. QED
      BY <1>11, <3>2 DEF VerifyLost, Lost, Present
  <2>3. calm /\ sealer \in {"hash", "write"} => Accepts' /\ Hashing("seal")'
    BY <2>1, Unmoved DEF Peace
  <2>4. Exact => Exact'
    BY <2>1, Unmoved
  <2>. QED
    BY <1>11, <2>1, <2>2, <2>3, <2>4 DEF Peace, VerifyLost
<1>12. CASE VerifyDecide
  <2>1. UNCHANGED <<config, raw, manifest, sealer, sealed, work, calm, settled>>
        /\ Strict' = Strict /\ verifier' \in {"ok", "drift"}
    BY <1>12, OfConfig DEF VerifyDecide
  <2>2. ASSUME settled, verifier = "hash"
        PROVE  verifier' = "ok"
    <3>1. work["verify"].hashes = [f \in ToHash |-> raw[f]]
      BY <1>12, <2>2, HashedAll DEF Peace, VerifyDecide
    <3>2. sealed = [f \in ToHash |-> raw[f]]
      BY <2>2 DEF Peace, Exact
    <3>. QED
      BY <1>12, <2>2, <3>1, <3>2 DEF VerifyDecide
  <2>3. calm /\ sealer \in {"hash", "write"} => Accepts' /\ Hashing("seal")'
    BY <2>1, Unmoved DEF Peace
  <2>4. Exact => Exact'
    BY <2>1, Unmoved
  <2>. QED
    BY <1>12, <2>1, <2>2, <2>3, <2>4 DEF Peace, VerifyDecide
<1>13. CASE VerifyAgain
  <2>1. UNCHANGED <<config, raw, manifest, sealer, sealed, work, calm, settled>>
        /\ Strict' = Strict /\ verifier' = "idle"
    BY <1>13, OfConfig DEF VerifyAgain
  <2>2. calm /\ sealer \in {"hash", "write"} => Accepts' /\ Hashing("seal")'
    BY <2>1, Unmoved DEF Peace
  <2>3. Exact => Exact'
    BY <2>1, Unmoved
  <2>. QED
    BY <2>1, <2>2, <2>3 DEF Peace
<1>14. ASSUME NEW f \in Raw, NEW v \in Versions, Edit(f, v)
       PROVE  Peace'
  BY <1>14 DEF Edit, Peace
<1>15. ASSUME NEW c \in Configs, Reconfigure(c)
       PROVE  Peace'
  BY <1>15 DEF Reconfigure, Peace
<1>16. CASE UNCHANGED vars
  <2>1. UNCHANGED <<config, raw, manifest, sealer, verifier, sealed, work, calm, settled>>
    BY <1>16 DEF vars
  <2>2. calm /\ sealer \in {"hash", "write"} => Accepts' /\ Hashing("seal")'
    BY <2>1, Unmoved DEF Peace
  <2>3. Exact => Exact'
    BY <2>1, Unmoved
  <2>4. Settled'
    BY <1>0, <2>1, SettledKept
  <2>. QED
    BY <2>1, <2>2, <2>3, <2>4 DEF Peace, Settled
<1>. QED
  BY <1>1, <1>2, <1>3, <1>4, <1>5, <1>6, <1>7, <1>8, <1>9, <1>10, <1>11, <1>12,
     <1>13, <1>14, <1>15, <1>16 DEF Next, Seal, Verification

\* What was sealed while nobody edited, and not touched since, is never
\* refused, in strict mode or where no raw inputs are ruled out, whatever the
\* configuration, however often seals were torn before; but for raw paths that
\* begin with an underscore, which seal_raw_integrity hashes and
\* verify_raw_integrity does not read back.
THEOREM SealedInPeace ==
  ASSUME NoUnderscore
  PROVE  Spec => []FreshSealVerifies
<1>1. Init => Peace
  BY DEF Init, Peace
<1>2. TypeOK /\ Peace /\ [Next]_vars => Peace'
  BY PeaceStep
<1>3. Peace => FreshSealVerifies
  BY DEF Peace, FreshSealVerifies, Verdicts
<1>. QED
  BY RawTypeCorrect, <1>1, <1>2, <1>3, PTL DEF Spec

-----------------------------------------------------------------------------
(* Inputs from outside the project.  The names of the runtime root carry   *)
(* the argument: a name is made of a digest, and nothing but that digest's *)
(* content is ever moved to it, so that another build can replace it only  *)
(* by the same.                                                            *)

\* A build reads on in a file that it has opened.
HasOpened == \A b \in Builds : phase[b] = "copy" => opened[b] \in Contents

SharedTrue == \A d \in Digests : shared[d] \in {Content(d), NoContent}

StageTrue == \A b \in Builds : phase[b] = "publish" => copied[b] = Content(wanted[b])

ResultsTrue ==
  \A b \in Builds :
    /\ results[b].signature # NoContent =>
         results[b].read = Content(results[b].signature)
    /\ phase[b] = "ok" => results[b].signature = wanted[b]

EInv == ExternalTypeOK /\ HasOpened /\ SharedTrue /\ StageTrue /\ ResultsTrue

-----------------------------------------------------------------------------
\* Initially nothing is materialized and nothing recorded.
LEMMA EInit == ExternalInit => EInv
<1> SUFFICES ASSUME ExternalInit PROVE EInv
  OBVIOUS
<1> USE StirsAssumption DEF ExternalInit, Content, Contents, NoResult, Resting
<1>1. ExternalTypeOK
  BY DEF ExternalTypeOK
<1>2. HasOpened /\ SharedTrue /\ StageTrue /\ ResultsTrue
  BY DEF HasOpened, SharedTrue, StageTrue, ResultsTrue
<1> QED  BY <1>1, <1>2 DEF EInv

\* Every step keeps the types.
LEMMA ETypes ==
  ExternalTypeOK /\ HasOpened /\ [ExternalNext]_externalVars => ExternalTypeOK'
<1> SUFFICES ASSUME ExternalTypeOK, HasOpened, [ExternalNext]_externalVars
             PROVE  ExternalTypeOK'
  OBVIOUS
<1> USE StirsAssumption DEF ExternalTypeOK, Contents, Resting, To, Quietly
<1>1. ASSUME NEW b \in Builds, Load(b) PROVE ExternalTypeOK'
  BY <1>1 DEF Load
<1>2. ASSUME NEW b \in Builds, Open(b) PROVE ExternalTypeOK'
  BY <1>2 DEF Open
<1>3. ASSUME NEW b \in Builds, Copy(b) PROVE ExternalTypeOK'
  <2>1. PICK last \in {opened[b], source} \ {NoContent} :
          copied' = [copied EXCEPT ![b] = <<opened[b][1], last[2]>>]
    BY <1>3 DEF Copy
  <2>2. opened[b] \in Digests \X Digests /\ last \in Digests \X Digests
    BY <1>3, <2>1 DEF HasOpened, Copy
  <2> DEFINE half == <<opened[b][1], last[2]>>
  <2>3. half \in Digests \X Digests
    BY <2>2
  <2>4. copied' = [copied EXCEPT ![b] = half]
    BY <2>1
  <2> HIDE DEF half
  <2>5. copied' \in [Builds -> (Digests \X Digests) \cup {NoContent}]
    BY <2>3, <2>4
  <2>6. phase' = [phase EXCEPT ![b] = "compare"]
        /\ UNCHANGED <<described, source, stirs, shared, wanted, opened, results>>
    BY <1>3 DEF Copy
  <2> QED  BY <2>5, <2>6
<1>4. ASSUME NEW b \in Builds, Compare(b) PROVE ExternalTypeOK'
  BY <1>4 DEF Compare
<1>5. ASSUME NEW b \in Builds, Publish(b) PROVE ExternalTypeOK'
  BY <1>5 DEF Publish
<1>6. ASSUME NEW b \in Builds, Verify(b) PROVE ExternalTypeOK'
  BY <1>6 DEF Verify
<1>7. ASSUME NEW b \in Builds, Execute(b) PROVE ExternalTypeOK'
  <2>1. CASE shared[wanted[b]] = NoContent
    BY <1>7, <2>1 DEF Execute
  <2>2. CASE shared[wanted[b]] # NoContent
    <3> DEFINE result == [signature |-> wanted[b], read |-> shared[wanted[b]]]
    <3>1. result \in [signature : Digests \cup {NoContent},
                     read : (Digests \X Digests) \cup {NoContent}]
      <4>1. wanted[b] \in Digests
        OBVIOUS
      <4>2. shared[wanted[b]] \in (Digests \X Digests) \cup {NoContent}
        BY <4>1
      <4> QED  BY <4>1, <4>2
    <3>2. /\ results' = [results EXCEPT ![b] = result]
          /\ phase' = [phase EXCEPT ![b] = "ok"]
          /\ UNCHANGED <<described, source, stirs, shared, wanted, opened, copied>>
      BY <1>7, <2>2 DEF Execute
    <3> HIDE DEF result
    <3> QED  BY <3>1, <3>2
  <2> QED  BY <2>1, <2>2
<1>8. ASSUME NEW b \in Builds, GiveUp(b) PROVE ExternalTypeOK'
  BY <1>8 DEF GiveUp
<1>9. ASSUME Rewrite PROVE ExternalTypeOK'
  BY <1>9 DEF Rewrite, Stir, build, Content
<1>10. ASSUME Redescribe PROVE ExternalTypeOK'
  BY <1>10 DEF Redescribe, Stir, build
<1>11. ASSUME CleanRuntime PROVE ExternalTypeOK'
  BY <1>11 DEF CleanRuntime, Stir, build
<1>12. ASSUME UNCHANGED externalVars PROVE ExternalTypeOK'
  BY <1>12 DEF externalVars, build
<1> QED
  BY <1>1, <1>2, <1>3, <1>4, <1>5, <1>6, <1>7, <1>8, <1>9, <1>10, <1>11, <1>12
     DEF ExternalNext

\* A file is open while it is read.
LEMMA EOpened ==
  ExternalTypeOK /\ HasOpened /\ [ExternalNext]_externalVars => HasOpened'
<1> SUFFICES ASSUME ExternalTypeOK, HasOpened, [ExternalNext]_externalVars,
                    NEW c \in Builds, phase'[c] = "copy"
             PROVE  opened'[c] \in Contents
  BY DEF HasOpened
<1> USE DEF ExternalTypeOK, HasOpened, To, Quietly
<1>1. ASSUME NEW b \in Builds, Open(b) PROVE opened'[c] \in Contents
  BY <1>1 DEF Open, Contents
<1>2. ASSUME phase'[c] = phase[c], opened'[c] = opened[c]
      PROVE  opened'[c] \in Contents
  BY <1>2
<1>3. ASSUME NEW b \in Builds,
             \/ Load(b) \/ Copy(b) \/ Compare(b) \/ Publish(b)
             \/ Verify(b) \/ Execute(b) \/ GiveUp(b)
      PROVE  phase'[c] = phase[c] /\ opened'[c] = opened[c]
  BY <1>3 DEF Load, Copy, Compare, Publish, Verify, Execute, GiveUp
<1>4. ASSUME Rewrite \/ Redescribe \/ CleanRuntime \/ UNCHANGED externalVars
      PROVE  phase'[c] = phase[c] /\ opened'[c] = opened[c]
  BY <1>4 DEF Rewrite, Redescribe, CleanRuntime, Stir, build, externalVars
<1> QED  BY <1>1, <1>2, <1>3, <1>4 DEF ExternalNext

-----------------------------------------------------------------------------
\* What stands at the name of a digest is the content of that digest
\* (_copy_verified_source_bytes compares before it moves).
LEMMA EShared ==
  EInv /\ [ExternalNext]_externalVars => SharedTrue'
<1> SUFFICES ASSUME EInv, [ExternalNext]_externalVars, NEW d \in Digests
             PROVE  shared'[d] \in {Content(d), NoContent}
  BY DEF SharedTrue, Content
<1> USE DEF EInv, ExternalTypeOK, SharedTrue
<1>1. ASSUME NEW b \in Builds, Publish(b)
      PROVE  shared'[d] \in {Content(d), NoContent}
  BY <1>1 DEF Publish, StageTrue
<1>2. ASSUME CleanRuntime PROVE shared'[d] \in {Content(d), NoContent}
  BY <1>2 DEF CleanRuntime
<1>3. ASSUME NEW b \in Builds,
             \/ Load(b) \/ Open(b) \/ Copy(b) \/ Compare(b)
             \/ Verify(b) \/ Execute(b) \/ GiveUp(b)
      PROVE  UNCHANGED shared
  BY <1>3 DEF Load, Open, Copy, Compare, Verify, Execute, GiveUp
<1>4. ASSUME Rewrite \/ Redescribe \/ UNCHANGED externalVars
      PROVE  UNCHANGED shared
  BY <1>4 DEF Rewrite, Redescribe, externalVars
<1> QED  BY <1>1, <1>2, <1>3, <1>4 DEF ExternalNext

\* A stage is moved only when it has been compared.
LEMMA EStage ==
  EInv /\ [ExternalNext]_externalVars => StageTrue'
<1> SUFFICES ASSUME EInv, [ExternalNext]_externalVars,
                    NEW c \in Builds, phase'[c] = "publish"
             PROVE  copied'[c] = Content(wanted'[c])
  BY DEF StageTrue, Content
<1> USE DEF EInv, ExternalTypeOK, StageTrue, To, Quietly
<1>1. ASSUME NEW b \in Builds, Compare(b) PROVE copied'[c] = Content(wanted'[c])
  BY <1>1 DEF Compare, Content
<1>2. ASSUME NEW b \in Builds,
             \/ Load(b) \/ Open(b) \/ Copy(b) \/ Publish(b)
             \/ Verify(b) \/ Execute(b) \/ GiveUp(b)
      PROVE  phase[c] = "publish" /\ copied'[c] = copied[c] /\ wanted'[c] = wanted[c]
  BY <1>2 DEF Load, Open, Copy, Publish, Verify, Execute, GiveUp
<1>3. ASSUME Rewrite \/ Redescribe \/ CleanRuntime \/ UNCHANGED externalVars
      PROVE  phase[c] = "publish" /\ copied'[c] = copied[c] /\ wanted'[c] = wanted[c]
  BY <1>3 DEF Rewrite, Redescribe, CleanRuntime, Stir, build, externalVars
<1> QED  BY <1>1, <1>2, <1>3 DEF ExternalNext, Content

\* What is recorded was read under the recorded digest, and a build that
\* succeeds has recorded the digest it wanted.
LEMMA EResults ==
  EInv /\ [ExternalNext]_externalVars => ResultsTrue'
<1> SUFFICES ASSUME EInv, [ExternalNext]_externalVars
             PROVE  ResultsTrue'
  OBVIOUS
<1> USE DEF EInv, ExternalTypeOK, ResultsTrue, To, Quietly, Content
<1>1. ASSUME NEW b \in Builds, Load(b) PROVE ResultsTrue'
  BY <1>1 DEF Load
<1>2. ASSUME NEW b \in Builds, Execute(b) PROVE ResultsTrue'
  BY <1>2, NoContentAssumption DEF Execute, SharedTrue
<1>3. ASSUME NEW b \in Builds,
             \/ Open(b) \/ Copy(b) \/ Compare(b) \/ Publish(b)
             \/ Verify(b) \/ GiveUp(b)
      PROVE  ResultsTrue'
  BY <1>3 DEF Open, Copy, Compare, Publish, Verify, GiveUp
<1>4. ASSUME Rewrite \/ Redescribe \/ CleanRuntime \/ UNCHANGED externalVars
      PROVE  ResultsTrue'
  BY <1>4 DEF Rewrite, Redescribe, CleanRuntime, Stir, build, externalVars
<1> QED  BY <1>1, <1>2, <1>3, <1>4 DEF ExternalNext

-----------------------------------------------------------------------------
\* The types, for every build.
THEOREM ExternalTypeCorrect == ExternalSpec => []ExternalTypeOK
<1>1. ExternalInit => ExternalTypeOK /\ HasOpened
  BY EInit DEF EInv
<1>2. ExternalTypeOK /\ HasOpened /\ [ExternalNext]_externalVars
        => (ExternalTypeOK /\ HasOpened)'
  BY ETypes, EOpened
<1> QED  BY <1>1, <1>2, PTL DEF ExternalSpec

\* A build that succeeds, by running its script or by skipping it, has results
\* made from the bytes that its descriptor names (process_runner.py,
\* external_raw_execution.py).
THEOREM ReadsAsDescribed == ExternalSpec => []BytesAsDescribed
<1>1. EInv /\ [ExternalNext]_externalVars => EInv'
  BY ETypes, EOpened, EShared, EStage, EResults DEF EInv
<1>2. EInv => BytesAsDescribed
  <2> SUFFICES ASSUME EInv, NEW b \in Builds, phase[b] = "ok"
               PROVE  results[b] = [signature |-> wanted[b],
                                    read |-> Content(wanted[b])]
    BY DEF BytesAsDescribed
  <2>1. results[b].signature = wanted[b] /\ wanted[b] # NoContent
    BY NoContentAssumption DEF EInv, ResultsTrue, ExternalTypeOK
  <2>2. results[b].read = Content(wanted[b])
    BY <2>1 DEF EInv, ResultsTrue
  <2>3. results[b] = [signature |-> results[b].signature, read |-> results[b].read]
    BY DEF EInv, ExternalTypeOK
  <2> QED  BY <2>1, <2>2, <2>3
<1> QED  BY EInit, <1>1, <1>2, PTL DEF ExternalSpec

-----------------------------------------------------------------------------
(* Previews.  The request carries two facts from one opening to the next:  *)
(* what it quotes was promised since it came, and what it converts is what *)
(* it quotes.                                                              *)

\* What the argument needs of the types.
Typed == promise = [k \in Kinds |-> promise[k]] /\ selected \in Kinds

\* Every present promise has been seen by the request.
Witnessed ==
  stage # "idle" => \A k \in Kinds : promise[k] # NoFile => <<k, promise[k]>> \in promised

Quoting ==
  stage \in {"check", "check_rest", "copy", "copy_rest", "convert", "delivered"}
    => <<selected, quoted>> \in promised

Copied == stage \in {"convert", "delivered"} => private = quoted

VInv == Typed /\ Witnessed /\ Quoting /\ Copied

-----------------------------------------------------------------------------
\* Initially there is no request.
LEMMA VInitial == PreviewInit => VInv
  BY DEF PreviewInit, VInv, Typed, Witnessed, Quoting, Copied, Pictures

\* The steps of the request, one per opening of a file.
LEMMA VRequest ==
  ASSUME VInv,
         Select \/ ReadManifest \/ OpenArtifact \/ CheckRest \/ CopyRest \/ Convert
  PROVE  VInv'
<1> USE DEF VInv, Typed, Witnessed, Quoting, Copied, Proceed, Refuse, jobFiles
<1>1. CASE Select
  <2> DEFINE present == {k \in Kinds : promise[k] # NoFile}
  <2>1. /\ promised' = {<<k, promise[k]>> : k \in present}
        /\ UNCHANGED <<artifact, promise, quoted, head, private, turns>>
        /\ \/ selected' \in present /\ stage' = "manifest"
           \/ selected' = selected /\ stage' = "unavailable"
    BY <1>1 DEF Select, Promises
  <2> QED  BY <2>1
<1>2. CASE ReadManifest
  BY <1>2 DEF ReadManifest
<1>3. CASE OpenArtifact
  BY <1>3 DEF OpenArtifact
<1>4. CASE CheckRest
  BY <1>4 DEF CheckRest
<1>5. CASE CopyRest
  <2>1. stage' = "unavailable" \/ (stage' = "convert" /\ private' = quoted)
    BY <1>5 DEF CopyRest
  <2>2. stage = "copy_rest"
        /\ UNCHANGED <<artifact, promise, promised, selected, quoted>>
    BY <1>5 DEF CopyRest
  <2> QED  BY <2>1, <2>2
<1>6. CASE Convert
  BY <1>6 DEF Convert
<1> QED  BY <1>1, <1>2, <1>3, <1>4, <1>5, <1>6

\* Whoever touches the job touches neither the request nor what it has seen.
LEMMA VJob ==
  ASSUME VInv, NEW k \in Kinds,
         Discard(k) \/ Draw(k) \/ SealPicture(k) \/ Scribble(k)
  PROVE  VInv'
<1> USE DEF VInv, Typed, Witnessed, Quoting, Copied, Turn, request
<1>1. CASE Discard(k)
  BY <1>1 DEF Discard
<1>2. CASE Draw(k)
  BY <1>2 DEF Draw
<1>3. CASE SealPicture(k)
  BY <1>3 DEF SealPicture
<1>4. CASE Scribble(k)
  BY <1>4 DEF Scribble
<1> QED  BY <1>1, <1>2, <1>3, <1>4

-----------------------------------------------------------------------------
\* A delivered preview shows the picture it quotes, and a manifest of the job
\* it names sealed that picture since the request (preview_artifacts.py).
THEOREM PreviewsAreSealed == PreviewSpec => []PreviewAsSealed
<1>1. ASSUME VInv, UNCHANGED previewVars PROVE VInv'
  BY <1>1 DEF VInv, Typed, Witnessed, Quoting, Copied, previewVars, jobFiles, request
<1>2. VInv /\ [PreviewNext]_previewVars => VInv'
  BY <1>1, VRequest, VJob DEF PreviewNext
<1>3. VInv => PreviewAsSealed
  BY DEF VInv, Quoting, Copied, PreviewAsSealed
<1> QED  BY VInitial, <1>2, <1>3, PTL DEF PreviewSpec

=============================================================================
