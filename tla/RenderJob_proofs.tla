--------------------------- MODULE RenderJob_proofs ---------------------------
(***************************************************************************)
(* Proofs about RenderJob: what a workspace and the durable results hold   *)
(* at every moment, for any number of servers, jobs, requests and edits.   *)
(***************************************************************************)
EXTENDS RenderJob, TLAPS

Writing == Writes \cup {"promote", "install", "receipt"}

(* What a server knows: its request, and the manifest it writes.           *)
Knows(s) ==
  /\ Serving(s) => req[s] \in Requests /\ Run(s) \in 1..runs
  /\ pc[s] \in Writing =>
       verdict[s] \in Manifest /\ verdict[s].run = Run(s)
  /\ pc[s] \in {"promote", "install", "receipt"} => verdict[s].ok
  /\ pc[s] \in Writing /\ verdict[s].ok => verdict[s].out \in Bytes

Framed == \A s \in Servers : Knows(s)

(* Nothing in a workspace is of a request that has not come yet.           *)
Past(d, n) ==
  d # None =>
    /\ d.man # None => d.man.run <= n
    /\ d.sts # None => d.sts.run <= n

Dated == \A j \in Jobs : Past(dir[j], runs)

(* When jobs are used by one server at a time, that server is alone.       *)
Alone ==
  exclusive => \A s, t \in Servers :
    Serving(s) /\ Serving(t) /\ Job(s) = Job(t) => s = t

(* It is the last that wrote there, and it has written nothing until its   *)
(* manifest is complete.                                                   *)
Latest(s) ==
  /\ Past(At(s), Run(s))
  /\ pc[s] = "snapshot" => At(s) = None
  /\ pc[s] \in {"hash", "script", "seal"} =>
       At(s) \in Dir /\ At(s).man = None /\ At(s).sts = None
  /\ pc[s] = "manifest" /\ verdict[s].ok =>
       At(s) \in Dir /\ At(s).man = None /\ At(s).sts = None
  /\ pc[s] = "status" => At(s) \in Dir /\ At(s).man = verdict[s]

(* Its output, when no stray wrote there.                                  *)
Own(s) ==
  /\ pc[s] = "hash" => At(s).out = None
  /\ pc[s] = "script" => rd[s] = ins[s]
  /\ pc[s] \in {"script", "seal"} =>
       /\ At(s).snap = ins[s]
       /\ At(s).out \in {None, [by |-> Run(s), of |-> ins[s]]}
  /\ pc[s] \in Writes \cup {"promote"} /\ verdict[s].ok =>
       /\ verdict[s].claims = seen[s]
       /\ verdict[s].out = [by |-> Run(s), of |-> verdict[s].inputs]
       /\ At(s) \in Dir
       /\ At(s).snap = verdict[s].inputs /\ At(s).out = verdict[s].out
  /\ pc[s] \in {"install", "receipt"} =>
       /\ verdict[s].claims = verdict[s].inputs
       /\ verdict[s].out.of = verdict[s].inputs

Held ==
  exclusive => \A s \in Servers : Serving(s) =>
    Latest(s) /\ (Job(s) \notin disturbed => Own(s))

(* ManifestTrue, also while a server works in the workspace.               *)
Tells(d) ==
  d # None /\ d.man # None /\ d.man.ok =>
    \/ d.man.out = [by |-> d.man.run, of |-> d.man.inputs] /\ d.out = d.man.out
    \/ d.snap = None

Truthful ==
  exclusive => \A j \in Jobs : j \notin disturbed => Tells(dir[j])

(* StatusNeverAhead, of one workspace.                                     *)
Follows(d) ==
  d # None /\ d.man # None /\ d.sts # None =>
    /\ d.sts.run <= d.man.run
    /\ d.sts.run = d.man.run /\ d.man.ok => d.sts.ok

(* Between artifact and receipt one server has the store to itself.        *)
Storing ==
  \A s \in Servers : pc[s] = "receipt" =>
    /\ store.rcp = None
    /\ store.art # None /\ store.art.data = verdict[s].out
    /\ \A t \in Servers : pc[t] = "receipt" => t = s

IInv ==
  /\ TypeOK /\ Framed /\ Dated /\ Alone /\ Held
  /\ Truthful /\ StatusNeverAhead
  /\ Storing /\ DurableSealed /\ DurableVerified

-------------------------------------------------------------------------------
(* What every step of a server leaves alone.                               *)

\* The steps of one server that serves a request.
Acts(k) == Handle(k) \/ ScriptWrites(k) \/ Crash(k)

\* Only a request adds to what the server's own steps see of the rest.
LEMMA ActsLocally ==
  ASSUME TypeOK, NEW k \in Servers, Acts(k)
  PROVE  /\ exclusive' = exclusive /\ source' = source /\ runs' = runs
         /\ disturbed' = disturbed
         /\ Serving(k)
         /\ \A s \in Servers : s # k =>
              /\ pc'[s] = pc[s] /\ req'[s] = req[s] /\ seen'[s] = seen[s]
              /\ ins'[s] = ins[s] /\ rd'[s] = rd[s]
              /\ verdict'[s] = verdict[s]
         /\ \A j \in Jobs : j # Job(k) => dir'[j] = dir[j]
<1> USE DEF TypeOK, Serving, frame, world, Answer, Goto, Raises, Writes
<1>1. CASE Validate(k)  BY <1>1 DEF Validate
<1>2. CASE Exists(k)  BY <1>2 DEF Exists
<1>3. CASE Clear(k)  BY <1>3 DEF Clear
<1>4. CASE Snapshot(k)  BY <1>4 DEF Snapshot
<1>5. CASE Hash(k)  BY <1>5 DEF Hash
<1>6. CASE ScriptEnds(k)  BY <1>6, BoundsAssumption DEF ScriptEnds
<1>7. CASE Seal(k)  BY <1>7 DEF Seal
<1>8. CASE WriteManifest(k)  BY <1>8 DEF WriteManifest
<1>9. CASE WriteStatus(k)  BY <1>9 DEF WriteStatus
<1>10. CASE WriteLatestManifest(k)  BY <1>10 DEF WriteLatestManifest
<1>11. CASE WriteLatestStatus(k)  BY <1>11 DEF WriteLatestStatus
<1>12. CASE WriteRaises(k)  BY <1>12 DEF WriteRaises
<1>13. CASE Failed(k)  BY <1>13 DEF Failed
<1>14. CASE Promote(k)  BY <1>14 DEF Promote
<1>15. CASE Install(k)  BY <1>15 DEF Install
<1>16. CASE InstallReceipt(k)  BY <1>16 DEF InstallReceipt
<1>17. CASE ScriptWrites(k)  BY <1>17 DEF ScriptWrites
<1>18. CASE Crash(k)  BY <1>18 DEF Crash
<1>19. CASE PipeCloses(k)  BY <1>19 DEF PipeCloses, Raises
<1> QED  BY <1>1, <1>2, <1>3, <1>4, <1>5, <1>6, <1>7, <1>8, <1>9, <1>10, <1>11, <1>12, <1>13, <1>14, <1>15, <1>16, <1>17, <1>18, <1>19 DEF Acts, Handle

-------------------------------------------------------------------------------
(* Types.                                                                  *)

\* What a server that serves a request knows of it.
LEMMA FrameTyped ==
  ASSUME TypeOK, Framed, NEW k \in Servers, Serving(k)
  PROVE  /\ req[k] \in Requests /\ Run(k) \in Runs /\ Job(k) \in Jobs
         /\ At(k) \in Dir \cup {None}
         /\ pc[k] \in Writing =>
              verdict[k] \in Manifest /\ StatusOf(verdict[k]) \in Status
         /\ FailedManifest(k) \in Manifest
<1>1. req[k] \in Requests
  BY DEF Framed, Knows
<1>2. Run(k) \in Runs /\ Job(k) \in Jobs
  BY <1>1 DEF Requests, Run, Job
<1>3. At(k) \in Dir \cup {None}
  BY <1>2 DEF At, TypeOK
<1>4. FailedManifest(k) \in Manifest
  BY <1>2, BoundsAssumption DEF FailedManifest, Manifest, Versions
<1>5. pc[k] \in Writing => verdict[k] \in Manifest
  BY DEF Framed, Knows
<1>6. pc[k] \in Writing => StatusOf(verdict[k]) \in Status
  BY <1>5 DEF StatusOf, Status, Manifest
<1> QED  BY <1>1, <1>2, <1>3, <1>4, <1>5, <1>6

\* A workspace stays one when a file in it is written.
LEMMA WorkspaceTyped ==
  ASSUME NEW d \in Dir
  PROVE  /\ \A o \in Bytes : [d EXCEPT !.out = o] \in Dir
         /\ \A m \in Manifest : [d EXCEPT !.man = m] \in Dir
         /\ \A t \in Status : [d EXCEPT !.sts = t] \in Dir
         /\ \A v \in Versions \cup {None} :
              [snap |-> v, out |-> None, man |-> d.man, sts |-> d.sts] \in Dir
         /\ Remains(d) \subseteq Dir
  BY DEF Dir, Remains

\* The end of a request keeps the types.
LEMMA AnswerTyped ==
  ASSUME TypeOK, Framed, NEW k \in Servers, Serving(k), Answer(k)
  PROVE  /\ pc' \in [Servers -> Phases]
         /\ req' \in [Servers -> Requests \cup {None}]
         /\ seen' \in [Servers -> Versions] /\ ins' \in [Servers -> Versions]
         /\ rd' \in [Servers -> Versions]
         /\ verdict' \in [Servers -> Manifest \cup {None}]
         /\ answered' \subseteq Runs
  BY FrameTyped, BoundsAssumption DEF TypeOK, Answer, Goto, Phases, Versions

\* Every step keeps the types,
LEMMA TypeStep ==
  ASSUME TypeOK, Framed, [Next]_vars
  PROVE  TypeOK'
<1>r. ASSUME NEW k \in Servers, NEW j \in Jobs, NEW o \in BOOLEAN, Request(k, j, o)
      PROVE  TypeOK'
  <2>1. [job |-> j, run |-> runs + 1, overwrite |-> o] \in Requests
    BY <1>r, BoundsAssumption DEF Request, Requests, Runs, TypeOK
  <2> QED  BY <1>r, <2>1, BoundsAssumption DEF Request, TypeOK, Goto, Phases
<1>a. ASSUME NEW k \in Servers, Acts(k)
      PROVE  TypeOK'
  <2>f. /\ Serving(k) /\ req[k] \in Requests /\ Run(k) \in Runs /\ Job(k) \in Jobs
        /\ At(k) \in Dir \cup {None} /\ At(k) = dir[Job(k)]
        /\ FailedManifest(k) \in Manifest
    BY <1>a, ActsLocally, FrameTyped DEF At
  <2>v. pc[k] \in Writing =>
          verdict[k] \in Manifest /\ StatusOf(verdict[k]) \in Status
    BY <2>f, FrameTyped
  <2>t. There(k) \in Dir
    BY <2>f DEF There, EmptyDir, Dir
  <2>1. CASE Validate(k)
    <3>1. dir' \in [Jobs -> Dir \cup {None}]
      BY <2>1, <2>f, <2>v, <2>t, WorkspaceTyped DEF Validate, TypeOK, Writing, Writes
    <3> QED
      BY <2>1, <2>f, <2>v, <3>1, AnswerTyped DEF Validate, TypeOK, world, frame, Goto, Raises, Phases, Writing, Writes
  <2>2. CASE Exists(k)
    <3>1. dir' \in [Jobs -> Dir \cup {None}]
      BY <2>2, <2>f, <2>v, <2>t, WorkspaceTyped DEF Exists, TypeOK, Writing, Writes
    <3> QED
      BY <2>2, <2>f, <2>v, <3>1, AnswerTyped DEF Exists, TypeOK, world, frame, Goto, Raises, Phases, Writing, Writes
  <2>3. CASE Clear(k)
    <3>1. dir' \in [Jobs -> Dir \cup {None}]
      BY <2>3, <2>f, <2>v, <2>t, WorkspaceTyped DEF Clear, TypeOK, Writing, Writes
    <3> QED
      BY <2>3, <2>f, <2>v, <3>1, AnswerTyped DEF Clear, TypeOK, world, frame, Goto, Raises, Phases, Writing, Writes
  <2>4. CASE Snapshot(k)
    <3>1. dir' \in [Jobs -> Dir \cup {None}]
      BY <2>4, <2>f, <2>v, <2>t, WorkspaceTyped DEF Snapshot, TypeOK, Writing, Writes
    <3> QED
      BY <2>4, <2>f, <2>v, <3>1, AnswerTyped DEF Snapshot, TypeOK, world, frame, Goto, Raises, Phases, Writing, Writes
  <2>5. CASE Hash(k)
    <3>1. dir' \in [Jobs -> Dir \cup {None}]
      BY <2>5, <2>f, <2>v, <2>t, WorkspaceTyped DEF Hash, TypeOK, Writing, Writes, Raises
    <3>2. HasSnapshot(k) => At(k).snap \in Versions
      BY <2>f DEF HasSnapshot, Dir
    <3> QED
      BY <2>5, <2>f, <2>v, <3>1, AnswerTyped, <3>2 DEF Hash, TypeOK, world, frame, Goto, Raises, Phases, Writing, Writes
  <2>6. CASE ScriptEnds(k)
    <3>1. dir' \in [Jobs -> Dir \cup {None}]
      BY <2>6, <2>f, <2>v, <2>t, WorkspaceTyped, BoundsAssumption DEF ScriptEnds, TypeOK, Writing, Writes
    <3>2. \A b \in BOOLEAN : Stray(k, b)
            \in [job : Jobs, run : Runs, of : Versions, pipe : BOOLEAN]
      BY <2>f DEF TypeOK, Stray
    <3>3. rd' \in [Servers -> Versions]
      BY <2>6, BoundsAssumption DEF ScriptEnds, TypeOK, Versions
    <3>4. \E ph \in Phases : pc' = [pc EXCEPT ![k] = ph]
      BY <2>6, BoundsAssumption DEF ScriptEnds, Goto, Phases
    <3>5. strays' \subseteq strays \cup {Stray(k, FALSE), Stray(k, TRUE)}
      BY <2>6 DEF ScriptEnds
    <3>6. pc' \in [Servers -> Phases]
      BY <3>4 DEF TypeOK
    <3>7. strays' \subseteq [job : Jobs, run : Runs, of : Versions, pipe : BOOLEAN]
      BY <3>2, <3>5 DEF TypeOK
    <3> QED  BY <2>6, <3>3, <3>6, <3>7 DEF ScriptEnds, TypeOK
  <2>7. CASE Seal(k)
    <3>1. dir' \in [Jobs -> Dir \cup {None}]
      BY <2>7, <2>f, <2>v, <2>t, WorkspaceTyped DEF Seal, TypeOK, Writing, Writes, Raises
    <3>4. At(k) # None =>
            [run |-> Run(k), ok |-> TRUE, claims |-> seen[k],
             inputs |-> ins[k], out |-> At(k).out] \in Manifest
      BY <2>f DEF TypeOK, Dir, Manifest
    <3>2. verdict' \in [Servers -> Manifest \cup {None}]
      BY <2>7, <3>4 DEF Seal, TypeOK, Raises, frame
    <3>3. ins' \in [Servers -> Versions]
      BY <2>7, BoundsAssumption DEF Seal, TypeOK, Versions, Raises, frame
    <3> QED
      BY <2>7, <2>f, <2>v, <3>1, AnswerTyped, <3>2, <3>3 DEF Seal, TypeOK, world, frame, Goto, Raises, Phases, Writing, Writes
  <2>8. CASE WriteManifest(k)
    <3>1. dir' \in [Jobs -> Dir \cup {None}]
      BY <2>8, <2>f, <2>v, <2>t, WorkspaceTyped DEF WriteManifest, TypeOK, Writing, Writes
    <3> QED
      BY <2>8, <2>f, <2>v, <3>1, AnswerTyped DEF WriteManifest, TypeOK, world, frame, Goto, Raises, Phases, Writing, Writes
  <2>9. CASE WriteStatus(k)
    <3>1. dir' \in [Jobs -> Dir \cup {None}]
      BY <2>9, <2>f, <2>v, <2>t, WorkspaceTyped DEF WriteStatus, TypeOK, Writing, Writes
    <3> QED
      BY <2>9, <2>f, <2>v, <3>1, AnswerTyped DEF WriteStatus, TypeOK, world, frame, Goto, Raises, Phases, Writing, Writes
  <2>10. CASE WriteLatestManifest(k)
    <3>1. dir' \in [Jobs -> Dir \cup {None}]
      BY <2>10, <2>f, <2>v, <2>t, WorkspaceTyped DEF WriteLatestManifest, TypeOK, Writing, Writes
    <3> QED
      BY <2>10, <2>f, <2>v, <3>1, AnswerTyped DEF WriteLatestManifest, TypeOK, world, frame, Goto, Raises, Phases, Writing, Writes
  <2>11. CASE WriteLatestStatus(k)
    <3>1. dir' \in [Jobs -> Dir \cup {None}]
      BY <2>11, <2>f, <2>v, <2>t, WorkspaceTyped DEF WriteLatestStatus, TypeOK, Writing, Writes
    <3> QED
      BY <2>11, <2>f, <2>v, <3>1, AnswerTyped DEF WriteLatestStatus, TypeOK, world, frame, Goto, Raises, Phases, Writing, Writes
  <2>12. CASE WriteRaises(k)
    <3>1. dir' \in [Jobs -> Dir \cup {None}]
      BY <2>12, <2>f, <2>v, <2>t, WorkspaceTyped DEF WriteRaises, TypeOK, Writing, Writes
    <3> QED
      BY <2>12, <2>f, <2>v, <3>1, AnswerTyped DEF WriteRaises, TypeOK, world, frame, Goto, Raises, Phases, Writing, Writes
  <2>13. CASE Failed(k)
    <3>1. dir' \in [Jobs -> Dir \cup {None}]
      BY <2>13, <2>f, <2>v, <2>t, WorkspaceTyped DEF Failed, TypeOK, Writing, Writes
    <3>3. ins' \in [Servers -> Versions]
      BY <2>13, BoundsAssumption, AnswerTyped, <2>f DEF Failed, TypeOK, Versions
    <3> QED
      BY <2>13, <2>f, <2>v, <3>1, AnswerTyped, <3>3 DEF Failed, TypeOK, world, frame, Goto, Raises, Phases, Writing, Writes
  <2>14. CASE Promote(k)
    <3>1. dir' \in [Jobs -> Dir \cup {None}]
      BY <2>14, <2>f, <2>v, <2>t, WorkspaceTyped DEF Promote, TypeOK, Writing, Writes, Raises
    <3> QED
      BY <2>14, <2>f, <2>v, <3>1, AnswerTyped DEF Promote, TypeOK, world, frame, Goto, Raises, Phases, Writing, Writes
  <2>15. CASE Install(k)
    <3>1. dir' \in [Jobs -> Dir \cup {None}]
      BY <2>15, <2>f, <2>v, <2>t, WorkspaceTyped DEF Install, TypeOK, Writing, Writes, Raises
    <3>2. store' \in [art : Artifact \cup {None}, rcp : Receipt \cup {None}]
      <4>1. CASE /\ At(k) # None /\ At(k).out = verdict[k].out
                 /\ store' = [store EXCEPT !.art = [id |-> Run(k), data |-> At(k).out]]
        <5>1. At(k).out \in Bytes
          BY <4>1, <2>15 DEF Install, Framed, Knows, Writing
        <5>2. [id |-> Run(k), data |-> At(k).out] \in Artifact
          BY <5>1, <2>f DEF Artifact
        <5> QED  BY <4>1, <5>2 DEF TypeOK
      <4> QED  BY <4>1, <2>15 DEF Install, Raises, TypeOK
    <3> QED
      BY <2>15, <2>f, <2>v, <3>1, AnswerTyped, <3>2 DEF Install, TypeOK, world, frame, Goto, Raises, Phases, Writing, Writes
  <2>16. CASE InstallReceipt(k)
    <3>1. dir' \in [Jobs -> Dir \cup {None}]
      BY <2>16, <2>f, <2>v, <2>t, WorkspaceTyped DEF InstallReceipt, TypeOK, Writing, Writes, Raises
    <3>2. store' \in [art : Artifact \cup {None}, rcp : Receipt \cup {None}]
      <4>1. [id |-> Run(k), data |-> verdict[k]] \in Receipt
        BY <2>16, <2>f, <2>v DEF InstallReceipt, Receipt, Writing
      <4> QED  BY <4>1, <2>16 DEF InstallReceipt, TypeOK
    <3> QED
      BY <2>16, <2>f, <2>v, <3>1, AnswerTyped, <3>2 DEF InstallReceipt, TypeOK, world, frame, Goto, Raises, Phases, Writing, Writes
  <2>17. CASE ScriptWrites(k)
    <3>2. [by |-> Run(k), of |-> rd[k]] \in Bytes
      BY <2>f DEF TypeOK, Bytes
    <3>1. dir' \in [Jobs -> Dir \cup {None}]
      BY <2>17, <2>f, <2>v, <2>t, WorkspaceTyped, <3>2 DEF ScriptWrites, TypeOK, Writing, Writes, HasSnapshot
    <3> QED
      BY <2>17, <2>f, <2>v, <3>1, AnswerTyped DEF ScriptWrites, TypeOK, world, frame, Goto, Raises, Phases, Writing, Writes
  <2>18. CASE Crash(k)
    <3>1. dir' \in [Jobs -> Dir \cup {None}]
      BY <2>18, <2>f, <2>v, <2>t, WorkspaceTyped DEF Crash, TypeOK, Writing, Writes
    <3> QED
      BY <2>18, <2>f, <2>v, <3>1, AnswerTyped DEF Crash, TypeOK, world, frame, Goto, Raises, Phases, Writing, Writes
  <2>19. CASE PipeCloses(k)
    <3>1. dir' \in [Jobs -> Dir \cup {None}]
      BY <2>19, <2>f, <2>v, <2>t, WorkspaceTyped DEF PipeCloses, Raises, TypeOK, Writing, Writes
    <3> QED
      BY <2>19, <2>f, <2>v, <3>1, AnswerTyped DEF PipeCloses, TypeOK, world, frame, Goto, Raises, Phases, Writing, Writes
  <2> QED  BY <1>a, <2>1, <2>2, <2>3, <2>4, <2>5, <2>6, <2>7, <2>8, <2>9, <2>10, <2>11, <2>12, <2>13, <2>14, <2>15, <2>16, <2>17, <2>18, <2>19 DEF Acts, Handle
<1>x. ASSUME NEW x \in strays, StrayWrites(x)
      PROVE  TypeOK'
  BY <1>x DEF StrayWrites, TypeOK, frame, Dir, Bytes
<1>l. ASSUME NEW x \in strays, StrayLetsGo(x)
      PROVE  TypeOK'
  <2> DEFINE Left == [job : Jobs, run : Runs, of : Versions, pipe : BOOLEAN]
  <2>0. x \in Left
    BY <1>l DEF TypeOK
  <2>1. [x EXCEPT !.pipe = FALSE] \in Left
    BY <2>0
  <2> QED  BY <1>l, <2>1 DEF StrayLetsGo, TypeOK, frame
<1>e. CASE Edit
  BY <1>e, BoundsAssumption DEF Edit, TypeOK, frame, Versions
<1>u. CASE UNCHANGED vars
  BY <1>u DEF vars, world, frame, TypeOK
<1> QED  BY <1>r, <1>a, <1>x, <1>l, <1>e, <1>u DEF Next, Acts

-------------------------------------------------------------------------------
(* What a server knows.                                                    *)

\* The end of a request leaves nothing to be known.
LEMMA AnswerKnows ==
  ASSUME TypeOK, NEW k \in Servers, Answer(k)
  PROVE  pc'[k] = "idle" /\ Knows(k)'
  BY DEF TypeOK, Answer, Goto, Knows, Serving, Writing, Writes

\* what a request knows by how far it is,
LEMMA FramedStep ==
  ASSUME TypeOK, Framed, TypeOK', [Next]_vars
  PROVE  Framed'
<1>r. ASSUME NEW k \in Servers, NEW j \in Jobs, NEW o \in BOOLEAN, Request(k, j, o)
      PROVE  Framed'
  <2>1. pc' = [pc EXCEPT ![k] = "validate"] /\ runs' = runs + 1 /\ verdict' = verdict
        /\ req' = [req EXCEPT ![k] = [job |-> j, run |-> runs + 1, overwrite |-> o]]
    BY <1>r DEF Request, Goto
  <2> SUFFICES ASSUME NEW s \in Servers  PROVE Knows(s)'
    BY DEF Framed
  <2>2. CASE s = k
    <3>1. req'[k].run = runs + 1 /\ req'[k] \in Requests
      BY <1>r, <2>1, BoundsAssumption DEF TypeOK, Request, Requests, Runs
    <3> QED
      BY <2>1, <2>2, <3>1 DEF Knows, Serving, Run, Writing, Writes, TypeOK
  <2>3. CASE s # k
    <3>1. Knows(s)
      BY DEF Framed
    <3> QED  BY <2>1, <2>3, <3>1, BoundsAssumption DEF Knows, Serving, Run, TypeOK, Runs
  <2> QED  BY <2>2, <2>3
<1>a. ASSUME NEW k \in Servers, Acts(k)
      PROVE  Framed'
  <2> SUFFICES ASSUME NEW s \in Servers  PROVE Knows(s)'
    BY DEF Framed
  <2>o. CASE s # k
    BY <1>a, <2>o, ActsLocally DEF Framed, Knows, Serving, Run
  <2>k. CASE s = k
    <3>f. /\ Knows(k) /\ Serving(k) /\ runs' = runs
      BY <1>a, ActsLocally DEF Framed
    <3>g. FailedManifest(k) \in Manifest /\ FailedManifest(k).run = Run(k) /\ ~FailedManifest(k).ok
      BY <3>f, FrameTyped DEF FailedManifest
    <3> SUFFICES Knows(k)'
      BY <2>k
    <3>1. CASE Validate(k)
      BY <3>1, <3>f, <3>g, AnswerKnows DEF Validate, Goto, Raises, frame, world, Knows, Serving, Run, Writing, Writes, TypeOK
    <3>2. CASE Exists(k)
      BY <3>2, <3>f, <3>g, AnswerKnows DEF Exists, Goto, Raises, frame, world, Knows, Serving, Run, Writing, Writes, TypeOK
    <3>3. CASE Clear(k)
      BY <3>3, <3>f, <3>g, AnswerKnows DEF Clear, Goto, Raises, frame, world, Knows, Serving, Run, Writing, Writes, TypeOK
    <3>4. CASE Snapshot(k)
      BY <3>4, <3>f, <3>g, AnswerKnows DEF Snapshot, Goto, Raises, frame, world, Knows, Serving, Run, Writing, Writes, TypeOK
    <3>5. CASE Hash(k)
      BY <3>5, <3>f, <3>g, AnswerKnows DEF Hash, Goto, Raises, frame, world, Knows, Serving, Run, Writing, Writes, TypeOK
    <3>6. CASE ScriptEnds(k)
      <4>1. pc'[k] \in {"seal", "failed", "held"} /\ req' = req
        BY <3>6, BoundsAssumption DEF ScriptEnds, Goto, TypeOK
      <4> QED  BY <4>1, <3>f DEF Knows, Serving, Run, Writing, Writes
    <3>7. CASE Seal(k)
      <4>1. At(k) # None => At(k) \in Dir
        BY <3>f, FrameTyped
      <4>2. At(k) # None /\ At(k).out # None => At(k).out \in Bytes
        BY <4>1 DEF Dir
      <4> DEFINE m == [run |-> Run(k), ok |-> TRUE, claims |-> seen[k],
                       inputs |-> ins[k], out |-> At(k).out]
      <4>3. At(k) # None /\ At(k).out # None => m \in Manifest
        BY <4>2, <3>f, FrameTyped DEF TypeOK, Manifest
      <4>4. CASE Raises(k)
        BY <4>4, <3>7, <3>f DEF Seal, Goto, Raises, frame, Knows, Serving, Run, Writing, Writes, TypeOK
      <4>5. CASE ~Raises(k)
        <5>1. /\ At(k) # None /\ At(k).out # None /\ verdict'[k] = m
              /\ pc'[k] = "manifest" /\ req' = req
          BY <4>5, <3>7 DEF Seal, Goto, TypeOK
        <5> QED  BY <5>1, <4>2, <4>3, <3>f DEF Knows, Serving, Run, Writing, Writes
      <4> QED  BY <4>4, <4>5
    <3>8. CASE WriteManifest(k)
      BY <3>8, <3>f, <3>g, AnswerKnows DEF WriteManifest, Goto, Raises, frame, world, Knows, Serving, Run, Writing, Writes, TypeOK
    <3>9. CASE WriteStatus(k)
      BY <3>9, <3>f, <3>g, AnswerKnows DEF WriteStatus, Goto, Raises, frame, world, Knows, Serving, Run, Writing, Writes, TypeOK
    <3>10. CASE WriteLatestManifest(k)
      BY <3>10, <3>f, <3>g, AnswerKnows DEF WriteLatestManifest, Goto, Raises, frame, world, Knows, Serving, Run, Writing, Writes, TypeOK
    <3>11. CASE WriteLatestStatus(k)
      BY <3>11, <3>f, <3>g, AnswerKnows DEF WriteLatestStatus, Goto, Raises, frame, world, Knows, Serving, Run, Writing, Writes, TypeOK
    <3>12. CASE WriteRaises(k)
      BY <3>12, <3>f, <3>g, AnswerKnows DEF WriteRaises, Goto, Raises, frame, world, Knows, Serving, Run, Writing, Writes, TypeOK
    <3>13. CASE Failed(k)
      BY <3>13, <3>f, <3>g, AnswerKnows DEF Failed, Goto, Raises, frame, world, Knows, Serving, Run, Writing, Writes, TypeOK
    <3>14. CASE Promote(k)
      BY <3>14, <3>f, <3>g, AnswerKnows DEF Promote, Goto, Raises, frame, world, Knows, Serving, Run, Writing, Writes, TypeOK
    <3>15. CASE Install(k)
      BY <3>15, <3>f, <3>g, AnswerKnows DEF Install, Goto, Raises, frame, world, Knows, Serving, Run, Writing, Writes, TypeOK
    <3>16. CASE InstallReceipt(k)
      BY <3>16, <3>f, <3>g, AnswerKnows DEF InstallReceipt, Goto, Raises, frame, world, Knows, Serving, Run, Writing, Writes, TypeOK
    <3>17. CASE ScriptWrites(k)
      BY <3>17, <3>f, <3>g, AnswerKnows DEF ScriptWrites, Goto, Raises, frame, world, Knows, Serving, Run, Writing, Writes, TypeOK
    <3>18. CASE Crash(k)
      BY <3>18, <3>f, <3>g, AnswerKnows DEF Crash, Goto, Raises, frame, world, Knows, Serving, Run, Writing, Writes, TypeOK
    <3>19. CASE PipeCloses(k)
      BY <3>19, <3>f, <3>g, AnswerKnows DEF PipeCloses, Goto, Raises, frame, world, Knows, Serving, Run, Writing, Writes, TypeOK
    <3> QED  BY <1>a, <3>1, <3>2, <3>3, <3>4, <3>5, <3>6, <3>7, <3>8, <3>9, <3>10, <3>11, <3>12, <3>13, <3>14, <3>15, <3>16, <3>17, <3>18, <3>19 DEF Acts, Handle
  <2> QED  BY <2>o, <2>k
<1>n. CASE (\E x \in strays : StrayWrites(x) \/ StrayLetsGo(x)) \/ Edit \/ UNCHANGED vars
  <2>1. UNCHANGED <<runs, pc, req, verdict>>
    BY <1>n DEF StrayWrites, StrayLetsGo, Edit, vars, world, frame
  <2> QED  BY <2>1 DEF Framed, Knows, Serving, Run
<1> QED  BY <1>r, <1>a, <1>n DEF Next, Acts

-------------------------------------------------------------------------------
(* Requests and what they leave in a workspace.                            *)

\* that nothing comes from a request that has not been made,
LEMMA DatedStep ==
  ASSUME TypeOK, Framed, Dated, [Next]_vars
  PROVE  Dated'
<1>r. ASSUME NEW k \in Servers, NEW j \in Jobs, NEW o \in BOOLEAN, Request(k, j, o)
      PROVE  Dated'
  <2>1. dir' = dir /\ runs' = runs + 1 /\ runs \in Nat
    BY <1>r, BoundsAssumption DEF Request, TypeOK
  <2> SUFFICES ASSUME NEW i \in Jobs  PROVE Past(dir'[i], runs')
    BY DEF Dated
  <2>2. dir[i] \in Dir \cup {None} /\ Past(dir[i], runs)
    BY DEF TypeOK, Dated
  <2> QED  BY <2>1, <2>2, BoundsAssumption DEF Past, Dir, Manifest, Status, Runs
<1>a. ASSUME NEW k \in Servers, Acts(k)
      PROVE  Dated'
  <2>f. /\ Knows(k) /\ Serving(k) /\ Job(k) \in Jobs /\ Run(k) \in 1..runs
        /\ runs' = runs /\ Past(At(k), runs) /\ At(k) = dir[Job(k)] /\ Past(EmptyDir, runs)
        /\ At(k) \in Dir \cup {None}
        /\ \A j \in Jobs : j # Job(k) => dir'[j] = dir[j]
    BY <1>a, ActsLocally, FrameTyped DEF Framed, Knows, Dated, At, Past, EmptyDir
  <2>t. There(k) \in Dir /\ Past(There(k), runs)
    BY <2>f DEF There, EmptyDir, Dir
  <2> SUFFICES Past(dir'[Job(k)], runs)
    BY <2>f DEF Dated
  <2>u. CASE dir'[Job(k)] = dir[Job(k)]
    BY <2>u, <2>f
  <2>1. CASE Validate(k)
    BY <2>1, <2>f, <2>t, <2>u DEF Validate, Raises, frame, Past, TypeOK, Knows, Writing, Writes, StatusOf, Dir
  <2>2. CASE Exists(k)
    BY <2>2, <2>f, <2>t, <2>u DEF Exists, Raises, frame, Past, TypeOK, Knows, Writing, Writes, StatusOf, Dir
  <2>3. CASE Clear(k)
    <3>1. \A d \in Remains(At(k)) : At(k) # None => Past(d, runs)
      BY <2>f DEF Remains, Past, Dir
    <3> QED  BY <3>1, <2>3, <2>f, <2>t, <2>u DEF Clear, Raises, frame, Past, TypeOK, Knows, Writing, Writes, StatusOf, Dir
  <2>4. CASE Snapshot(k)
    <3>1. \E v \in {source, None} : dir'[Job(k)] =
            [snap |-> v, out |-> None, man |-> There(k).man, sts |-> There(k).sts]
      BY <2>4, <2>f DEF Snapshot, TypeOK
    <3>2. dir'[Job(k)].man = There(k).man /\ dir'[Job(k)].sts = There(k).sts
      BY <3>1
    <3> QED  BY <3>2, <2>t, NoneAssumption DEF Past, Dir
  <2>5. CASE Hash(k)
    BY <2>5, <2>f, <2>t, <2>u DEF Hash, Raises, frame, Past, TypeOK, Knows, Writing, Writes, StatusOf, Dir
  <2>6. CASE ScriptEnds(k)
    BY <2>6, <2>f, <2>t, <2>u, BoundsAssumption DEF ScriptEnds, Raises, frame, Past, TypeOK, Knows, Writing, Writes, StatusOf, Dir
  <2>7. CASE Seal(k)
    BY <2>7, <2>f, <2>t, <2>u DEF Seal, Raises, frame, Past, TypeOK, Knows, Writing, Writes, StatusOf, Dir
  <2>8. CASE WriteManifest(k)
    BY <2>8, <2>f, <2>t, <2>u DEF WriteManifest, Raises, frame, Past, TypeOK, Knows, Writing, Writes, StatusOf, Dir
  <2>9. CASE WriteStatus(k)
    BY <2>9, <2>f, <2>t, <2>u DEF WriteStatus, Raises, frame, Past, TypeOK, Knows, Writing, Writes, StatusOf, Dir
  <2>10. CASE WriteLatestManifest(k)
    BY <2>10, <2>f, <2>t, <2>u DEF WriteLatestManifest, Raises, frame, Past, TypeOK, Knows, Writing, Writes, StatusOf, Dir
  <2>11. CASE WriteLatestStatus(k)
    BY <2>11, <2>f, <2>t, <2>u DEF WriteLatestStatus, Raises, frame, Past, TypeOK, Knows, Writing, Writes, StatusOf, Dir
  <2>12. CASE WriteRaises(k)
    BY <2>12, <2>f, <2>t, <2>u DEF WriteRaises, Raises, frame, Past, TypeOK, Knows, Writing, Writes, StatusOf, Dir
  <2>13. CASE Failed(k)
    BY <2>13, <2>f, <2>t, <2>u DEF Failed, Raises, frame, Past, TypeOK, Knows, Writing, Writes, StatusOf, Dir
  <2>14. CASE Promote(k)
    BY <2>14, <2>f, <2>t, <2>u DEF Promote, Raises, frame, Past, TypeOK, Knows, Writing, Writes, StatusOf, Dir
  <2>15. CASE Install(k)
    BY <2>15, <2>f, <2>t, <2>u DEF Install, Raises, frame, Past, TypeOK, Knows, Writing, Writes, StatusOf, Dir
  <2>16. CASE InstallReceipt(k)
    BY <2>16, <2>f, <2>t, <2>u DEF InstallReceipt, Raises, frame, Past, TypeOK, Knows, Writing, Writes, StatusOf, Dir
  <2>17. CASE ScriptWrites(k)
    <3>1. At(k) \in Dir /\ At(k) # None
      BY <2>17, <2>f DEF ScriptWrites, HasSnapshot
    <3>2. dir'[Job(k)].man = At(k).man /\ dir'[Job(k)].sts = At(k).sts
      BY <2>17, <2>f, <3>1 DEF ScriptWrites, Dir, TypeOK
    <3> QED  BY <3>1, <3>2, <2>f DEF Past
  <2>18. CASE Crash(k)
    BY <2>18, <2>f, <2>t, <2>u DEF Crash, Raises, frame, Past, TypeOK, Knows, Writing, Writes, StatusOf, Dir
  <2>19. CASE PipeCloses(k)
    BY <2>19, <2>f, <2>t, <2>u DEF PipeCloses, Raises, frame, Past, TypeOK, Knows, Writing, Writes, StatusOf, Dir
  <2> QED  BY <1>a, <2>1, <2>2, <2>3, <2>4, <2>5, <2>6, <2>7, <2>8, <2>9, <2>10, <2>11, <2>12, <2>13, <2>14, <2>15, <2>16, <2>17, <2>18, <2>19 DEF Acts, Handle
<1>x. ASSUME NEW x \in strays, StrayWrites(x)
      PROVE  Dated'
  BY <1>x DEF StrayWrites, TypeOK, Dated, Past, Dir
<1>n. CASE (\E x \in strays : StrayLetsGo(x)) \/ Edit \/ UNCHANGED vars
  BY <1>n DEF StrayLetsGo, Edit, vars, world, frame, Dated, Past
<1> QED  BY <1>r, <1>a, <1>x, <1>n DEF Next, Acts

\* A server keeps its request as long as it serves it.
LEMMA RequestKept ==
  ASSUME TypeOK, NEW k \in Servers, Acts(k), Serving(k)'
  PROVE  req'[k] = req[k]
<1>1. CASE Validate(k)  BY <1>1 DEF Validate, Answer, Goto, Raises, frame, Serving, TypeOK
<1>2. CASE Exists(k)  BY <1>2 DEF Exists, Answer, Goto, Raises, frame, Serving, TypeOK
<1>3. CASE Clear(k)  BY <1>3 DEF Clear, Answer, Goto, Raises, frame, Serving, TypeOK
<1>4. CASE Snapshot(k)  BY <1>4 DEF Snapshot, Answer, Goto, Raises, frame, Serving, TypeOK
<1>5. CASE Hash(k)  BY <1>5 DEF Hash, Answer, Goto, Raises, frame, Serving, TypeOK
<1>6. CASE ScriptEnds(k)  BY <1>6, BoundsAssumption DEF ScriptEnds, Answer, Goto, Raises, frame, Serving, TypeOK
<1>7. CASE Seal(k)  BY <1>7 DEF Seal, Answer, Goto, Raises, frame, Serving, TypeOK
<1>8. CASE WriteManifest(k)  BY <1>8 DEF WriteManifest, Answer, Goto, Raises, frame, Serving, TypeOK
<1>9. CASE WriteStatus(k)  BY <1>9 DEF WriteStatus, Answer, Goto, Raises, frame, Serving, TypeOK
<1>10. CASE WriteLatestManifest(k)  BY <1>10 DEF WriteLatestManifest, Answer, Goto, Raises, frame, Serving, TypeOK
<1>11. CASE WriteLatestStatus(k)  BY <1>11 DEF WriteLatestStatus, Answer, Goto, Raises, frame, Serving, TypeOK
<1>12. CASE WriteRaises(k)  BY <1>12 DEF WriteRaises, Answer, Goto, Raises, frame, Serving, TypeOK
<1>13. CASE Failed(k)  BY <1>13 DEF Failed, Answer, Goto, Raises, frame, Serving, TypeOK
<1>14. CASE Promote(k)  BY <1>14 DEF Promote, Answer, Goto, Raises, frame, Serving, TypeOK
<1>15. CASE Install(k)  BY <1>15 DEF Install, Answer, Goto, Raises, frame, Serving, TypeOK
<1>16. CASE InstallReceipt(k)  BY <1>16 DEF InstallReceipt, Answer, Goto, Raises, frame, Serving, TypeOK
<1>17. CASE ScriptWrites(k)  BY <1>17 DEF ScriptWrites, Answer, Goto, Raises, frame, Serving, TypeOK
<1>18. CASE Crash(k)  BY <1>18 DEF Crash, Answer, Goto, Raises, frame, Serving, TypeOK
<1>19. CASE PipeCloses(k)  BY <1>19 DEF PipeCloses, Answer, Goto, Raises, frame, Serving, TypeOK
<1> QED  BY <1>1, <1>2, <1>3, <1>4, <1>5, <1>6, <1>7, <1>8, <1>9, <1>10, <1>11, <1>12, <1>13, <1>14, <1>15, <1>16, <1>17, <1>18, <1>19 DEF Acts, Handle

\* that no two requests work on one job,
LEMMA AloneStep ==
  ASSUME TypeOK, Framed, Alone, [Next]_vars
  PROVE  Alone'
<1>r. ASSUME NEW k \in Servers, NEW j \in Jobs, NEW o \in BOOLEAN, Request(k, j, o)
      PROVE  Alone'
  BY <1>r DEF Request, Goto, Alone, Busy, Serving, Job, TypeOK
<1>a. ASSUME NEW k \in Servers, Acts(k)
      PROVE  Alone'
  <2>1. Serving(k)' => req'[k] = req[k]
    BY <1>a, RequestKept
  <2>2. \A s \in Servers : Serving(s)' => Serving(s) /\ Job(s)' = Job(s)
    BY <1>a, <2>1, ActsLocally DEF Serving, Job
  <2>3. exclusive' = exclusive
    BY <1>a, ActsLocally
  <2> QED  BY <2>2, <2>3 DEF Alone
<1>n. CASE (\E x \in strays : StrayWrites(x) \/ StrayLetsGo(x)) \/ Edit \/ UNCHANGED vars
  <2>1. UNCHANGED <<exclusive, pc, req>>
    BY <1>n DEF StrayWrites, StrayLetsGo, Edit, vars, world, frame
  <2> QED  BY <2>1 DEF Alone, Serving, Job
<1> QED  BY <1>r, <1>a, <1>n DEF Next, Acts

-------------------------------------------------------------------------------
(* A server alone in its workspace.                                        *)

\* What the step of a server makes of what it holds.
LEMMA OwnStep ==
  ASSUME TypeOK, Framed, exclusive, NEW k \in Servers, Acts(k), Serving(k)',
         Latest(k), Job(k) \notin disturbed => Own(k)
  PROVE  Latest(k)' /\ (Job(k) \notin disturbed => Own(k)')
<1>f. /\ Knows(k) /\ Serving(k) /\ Job(k) \in Jobs /\ Run(k) \in Runs
      /\ At(k) \in Dir \cup {None} /\ At(k) = dir[Job(k)]
      /\ FailedManifest(k).ok = FALSE
  BY ActsLocally, FrameTyped DEF Framed, At, FailedManifest
<1>p. Job(k)' = Job(k) /\ Run(k)' = Run(k) /\ At(k)' = dir'[Job(k)]
  BY RequestKept DEF Job, Run, At
<1>t. There(k) \in Dir /\ (At(k) # None => There(k) = At(k))
      /\ (At(k) = None => There(k) = EmptyDir)
  BY <1>f DEF There, EmptyDir, Dir
<1> USE <1>f, <1>p DEF Writing, Writes
<1>1. CASE Validate(k)
  <2>1. Latest(k)'
    <3>1. Past(There(k), Run(k))
      BY <1>t DEF Latest, Past, EmptyDir
    <3>2. dir'[Job(k)] \in {At(k), There(k)} /\ Past(dir'[Job(k)], Run(k))
      BY <1>1, <3>1 DEF Validate, Answer, Latest, TypeOK
    <3>3. pc'[k] = "exists" \/ (pc'[k] = "manifest" /\ verdict'[k].ok = FALSE)
      BY <1>1 DEF Validate, Answer, Goto, Serving, TypeOK
    <3> QED  BY <3>2, <3>3 DEF Latest
  <2>2. Job(k) \notin disturbed => Own(k)'
    BY <1>1, <1>t DEF Validate, Goto, Raises, Answer, frame, world, Latest, Own, Knows, TypeOK, Serving
  <2> QED  BY <2>1, <2>2
<1>2. CASE Exists(k)
  <2>1. Latest(k)'
    BY <1>2, <1>t DEF Exists, Goto, Raises, Answer, frame, world, Latest, Past, Knows, TypeOK, Serving
  <2>2. Job(k) \notin disturbed => Own(k)'
    BY <1>2, <1>t DEF Exists, Goto, Raises, Answer, frame, world, Latest, Own, Knows, TypeOK, Serving
  <2> QED  BY <2>1, <2>2
<1>3. CASE Clear(k)
  <2>1. Latest(k)'
    BY <1>3, <1>t DEF Clear, Goto, Raises, Answer, frame, world, Latest, Past, Knows, TypeOK, Serving
  <2>2. Job(k) \notin disturbed => Own(k)'
    BY <1>3, <1>t DEF Clear, Goto, Raises, Answer, frame, world, Latest, Own, Knows, TypeOK, Serving
  <2> QED  BY <2>1, <2>2
<1>4. CASE Snapshot(k)
  <2>1. Latest(k)'
    <3>1. There(k) = EmptyDir
      BY <1>4, <1>t DEF Snapshot, Latest, Serving
    <3>2. \E v \in {source, None} : dir'[Job(k)] =
            [snap |-> v, out |-> None, man |-> None, sts |-> None]
      BY <1>4, <3>1 DEF Snapshot, TypeOK, EmptyDir
    <3>3. dir'[Job(k)] \in Dir /\ dir'[Job(k)].man = None /\ dir'[Job(k)].sts = None
      BY <3>2 DEF Dir, TypeOK
    <3>4. pc'[k] \in {"hash", "failed"}
      BY <1>4 DEF Snapshot, Goto, TypeOK
    <3> QED  BY <3>3, <3>4 DEF Latest, Past
  <2>2. Job(k) \notin disturbed => Own(k)'
    BY <1>4, <1>t DEF Snapshot, Goto, Raises, Answer, frame, world, Latest, Own, Knows, TypeOK, Serving
  <2> QED  BY <2>1, <2>2
<1>5. CASE Hash(k)
  <2>1. Latest(k)'
    BY <1>5, <1>t DEF Hash, Goto, Raises, Answer, frame, world, Latest, Past, Knows, TypeOK, Serving
  <2>2. Job(k) \notin disturbed => Own(k)'
    BY <1>5, <1>t DEF Hash, Goto, Raises, Answer, frame, world, Latest, Own, Knows, TypeOK, Serving
  <2> QED  BY <2>1, <2>2
<1>6. CASE ScriptEnds(k)
  <2>0. /\ pc'[k] \in {"seal", "failed", "held"} /\ pc[k] = "script"
        /\ UNCHANGED <<ins, dir, verdict>>
    BY <1>6, BoundsAssumption DEF ScriptEnds, Goto, TypeOK
  <2>1. Latest(k)'
    BY <2>0 DEF Latest, Past
  <2>2. Job(k) \notin disturbed => Own(k)'
    BY <2>0 DEF Own
  <2> QED  BY <2>1, <2>2
<1>7. CASE Seal(k)
  <2>1. Latest(k)'
    BY <1>7, <1>t DEF Seal, Goto, Raises, Answer, frame, world, Latest, Past, Knows, TypeOK, Serving
  <2>2. Job(k) \notin disturbed => Own(k)'
    BY <1>7, <1>t DEF Seal, Goto, Raises, Answer, frame, world, Latest, Own, Knows, TypeOK, Serving
  <2> QED  BY <2>1, <2>2
<1>8. CASE WriteManifest(k)
  <2>1. /\ dir'[Job(k)] = [At(k) EXCEPT !.man = verdict[k]]
        /\ pc'[k] = "status" /\ verdict' = verdict /\ seen' = seen
    BY <1>8 DEF WriteManifest, Goto, frame, TypeOK
  <2>2. At(k) \in Dir
    BY <1>8 DEF WriteManifest
  <2>3. /\ dir'[Job(k)] \in Dir
        /\ dir'[Job(k)].man = verdict[k]
        /\ dir'[Job(k)].sts = At(k).sts
        /\ dir'[Job(k)].snap = At(k).snap /\ dir'[Job(k)].out = At(k).out
    BY <2>1, <2>2, WorkspaceTyped, <1>8, FrameTyped DEF Dir, WriteManifest, Knows
  <2>4. Latest(k)'
    BY <2>1, <2>2, <2>3, <1>8 DEF Latest, Past, Knows, StatusOf, WriteManifest
  <2>5. Job(k) \notin disturbed => Own(k)'
    BY <2>1, <2>2, <2>3, <1>8 DEF Own, WriteManifest
  <2> QED  BY <2>4, <2>5
<1>9. CASE WriteStatus(k)
  <2>1. /\ dir'[Job(k)] = [At(k) EXCEPT !.sts = StatusOf(verdict[k])]
        /\ pc'[k] = "latest_manifest" /\ verdict' = verdict /\ seen' = seen
    BY <1>9 DEF WriteStatus, Goto, frame, TypeOK
  <2>2. At(k) \in Dir
    BY <1>9 DEF WriteStatus
  <2>3. /\ dir'[Job(k)] \in Dir
        /\ dir'[Job(k)].sts = StatusOf(verdict[k])
        /\ dir'[Job(k)].man = At(k).man
        /\ dir'[Job(k)].snap = At(k).snap /\ dir'[Job(k)].out = At(k).out
    BY <2>1, <2>2, WorkspaceTyped, <1>9, FrameTyped DEF Dir, WriteStatus, Knows
  <2>4. Latest(k)'
    BY <2>1, <2>2, <2>3, <1>9 DEF Latest, Past, Knows, StatusOf, WriteStatus
  <2>5. Job(k) \notin disturbed => Own(k)'
    BY <2>1, <2>2, <2>3, <1>9 DEF Own, WriteStatus
  <2> QED  BY <2>4, <2>5
<1>10. CASE WriteLatestManifest(k)
  <2>1. Latest(k)'
    BY <1>10, <1>t DEF WriteLatestManifest, Goto, Raises, Answer, frame, world, Latest, Past, Knows, TypeOK, Serving
  <2>2. Job(k) \notin disturbed => Own(k)'
    BY <1>10, <1>t DEF WriteLatestManifest, Goto, Raises, Answer, frame, world, Latest, Own, Knows, TypeOK, Serving
  <2> QED  BY <2>1, <2>2
<1>11. CASE WriteLatestStatus(k)
  <2>1. Latest(k)'
    BY <1>11, <1>t DEF WriteLatestStatus, Goto, Raises, Answer, frame, world, Latest, Past, Knows, TypeOK, Serving
  <2>2. Job(k) \notin disturbed => Own(k)'
    BY <1>11, <1>t DEF WriteLatestStatus, Goto, Raises, Answer, frame, world, Latest, Own, Knows, TypeOK, Serving
  <2> QED  BY <2>1, <2>2
<1>12. CASE WriteRaises(k)
  <2>1. Latest(k)'
    BY <1>12, <1>t DEF WriteRaises, Goto, Raises, Answer, frame, world, Latest, Past, Knows, TypeOK, Serving
  <2>2. Job(k) \notin disturbed => Own(k)'
    BY <1>12, <1>t DEF WriteRaises, Goto, Raises, Answer, frame, world, Latest, Own, Knows, TypeOK, Serving
  <2> QED  BY <2>1, <2>2
<1>13. CASE Failed(k)
  <2>1. Latest(k)'
    BY <1>13, <1>t DEF Failed, Goto, Raises, Answer, frame, world, Latest, Past, Knows, TypeOK, Serving
  <2>2. Job(k) \notin disturbed => Own(k)'
    BY <1>13, <1>t DEF Failed, Goto, Raises, Answer, frame, world, Latest, Own, Knows, TypeOK, Serving
  <2> QED  BY <2>1, <2>2
<1>14. CASE Promote(k)
  <2>1. Latest(k)'
    BY <1>14, <1>t DEF Promote, Goto, Raises, Answer, frame, world, Latest, Past, Knows, TypeOK, Serving
  <2>2. Job(k) \notin disturbed => Own(k)'
    BY <1>14, <1>t DEF Promote, Goto, Raises, Answer, frame, world, Latest, Own, Knows, TypeOK, Serving
  <2> QED  BY <2>1, <2>2
<1>15. CASE Install(k)
  <2>1. Latest(k)'
    BY <1>15, <1>t DEF Install, Goto, Raises, Answer, frame, world, Latest, Past, Knows, TypeOK, Serving
  <2>2. Job(k) \notin disturbed => Own(k)'
    BY <1>15, <1>t DEF Install, Goto, Raises, Answer, frame, world, Latest, Own, Knows, TypeOK, Serving
  <2> QED  BY <2>1, <2>2
<1>16. CASE InstallReceipt(k)
  <2>1. Latest(k)'
    BY <1>16, <1>t DEF InstallReceipt, Goto, Raises, Answer, frame, world, Latest, Past, Knows, TypeOK, Serving
  <2>2. Job(k) \notin disturbed => Own(k)'
    BY <1>16, <1>t DEF InstallReceipt, Goto, Raises, Answer, frame, world, Latest, Own, Knows, TypeOK, Serving
  <2> QED  BY <2>1, <2>2
<1>17. CASE ScriptWrites(k)
  <2>1. Latest(k)'
    <3>1. /\ dir'[Job(k)] = [At(k) EXCEPT !.out = [by |-> Run(k), of |-> rd[k]]]
          /\ At(k) \in Dir /\ pc'[k] = "script"
      BY <1>17 DEF ScriptWrites, HasSnapshot, TypeOK
    <3>2. [by |-> Run(k), of |-> rd[k]] \in Bytes
      BY DEF TypeOK, Bytes
    <3>3. /\ dir'[Job(k)] \in Dir
          /\ dir'[Job(k)].man = At(k).man /\ dir'[Job(k)].sts = At(k).sts
      BY <3>1, <3>2, WorkspaceTyped DEF Dir
    <3> QED  BY <3>1, <3>3, <1>17 DEF Latest, Past, ScriptWrites
  <2>2. Job(k) \notin disturbed => Own(k)'
    BY <1>17, <1>t DEF ScriptWrites, Goto, Raises, Answer, frame, world, Latest, Own, Knows, TypeOK, Serving
  <2> QED  BY <2>1, <2>2
<1>18. CASE Crash(k)
  <2>1. Latest(k)'
    BY <1>18, <1>t DEF Crash, Goto, Raises, Answer, frame, world, Latest, Past, Knows, TypeOK, Serving
  <2>2. Job(k) \notin disturbed => Own(k)'
    BY <1>18, <1>t DEF Crash, Goto, Raises, Answer, frame, world, Latest, Own, Knows, TypeOK, Serving
  <2> QED  BY <2>1, <2>2
<1>19. CASE PipeCloses(k)
  <2>1. Latest(k)'
    BY <1>19, <1>t DEF PipeCloses, Goto, Raises, Answer, frame, world, Latest, Past, Knows, TypeOK, Serving
  <2>2. Job(k) \notin disturbed => Own(k)'
    BY <1>19, <1>t DEF PipeCloses, Goto, Raises, Answer, frame, world, Latest, Own, Knows, TypeOK, Serving
  <2> QED  BY <2>1, <2>2
<1> QED  BY <1>1, <1>2, <1>3, <1>4, <1>5, <1>6, <1>7, <1>8, <1>9, <1>10, <1>11, <1>12, <1>13, <1>14, <1>15, <1>16, <1>17, <1>18, <1>19 DEF Acts, Handle

\* What a server holds depends on its own variables and its workspace.
LEMMA HoldsOn ==
  ASSUME NEW s \in Servers, Serving(s)',
         pc'[s] = pc[s], req'[s] = req[s], seen'[s] = seen[s], ins'[s] = ins[s],
         rd'[s] = rd[s], verdict'[s] = verdict[s],
         dir'[Job(s)] = dir[Job(s)], disturbed \subseteq disturbed',
         Latest(s), Job(s) \notin disturbed => Own(s)
  PROVE  Latest(s)' /\ (Job(s)' \notin disturbed' => Own(s)')
<1>1. Job(s)' = Job(s) /\ Run(s)' = Run(s) /\ At(s)' = At(s)
  BY DEF Job, Run, At
<1>2. Latest(s)'
  BY <1>1 DEF Latest
<1>3. Own(s) => Own(s)'
  BY <1>1 DEF Own
<1> QED  BY <1>1, <1>2, <1>3

\* and what the request that holds a job has made of it.
LEMMA HeldStep ==
  ASSUME TypeOK, Framed, Dated, Alone, Held, [Next]_vars
  PROVE  Held'
<1> SUFFICES ASSUME exclusive', NEW s \in Servers, Serving(s)'
             PROVE  Latest(s)' /\ (Job(s)' \notin disturbed' => Own(s)')
  BY DEF Held
<1>r. ASSUME NEW k \in Servers, NEW j \in Jobs, NEW o \in BOOLEAN, Request(k, j, o)
      PROVE  Latest(s)' /\ (Job(s)' \notin disturbed' => Own(s)')
  <2>1. CASE s = k
    <3>1. /\ pc'[s] = "validate" /\ Job(s)' = j /\ Run(s)' = runs + 1
          /\ dir' = dir
      BY <1>r, <2>1 DEF Request, Goto, TypeOK, Job, Run
    <3>2. At(s)' = dir[j] /\ Past(dir[j], runs) /\ dir[j] \in Dir \cup {None}
      BY <3>1 DEF At, Dated, TypeOK
    <3>3. Past(dir[j], runs + 1)
      BY <3>2, BoundsAssumption DEF Past, Dir, Manifest, Status, Runs, TypeOK
    <3> QED  BY <3>1, <3>2, <3>3 DEF Latest, Own, Writes
  <2>2. CASE s # k
    <3>1. exclusive /\ Serving(s) /\ disturbed' = disturbed
      BY <1>r, <2>2 DEF Request, Goto, Serving, TypeOK
    <3>2. Latest(s) /\ (Job(s) \notin disturbed => Own(s))
      BY <3>1 DEF Held
    <3> QED  BY <1>r, <2>2, <3>1, <3>2, HoldsOn DEF Request, Goto, TypeOK
  <2> QED  BY <2>1, <2>2
<1>a. ASSUME NEW k \in Servers, Acts(k)
      PROVE  Latest(s)' /\ (Job(s)' \notin disturbed' => Own(s)')
  <2>0. exclusive /\ Serving(k) /\ disturbed' = disturbed
    BY <1>a, ActsLocally
  <2>1. CASE s = k
    <3>1. Latest(k) /\ (Job(k) \notin disturbed => Own(k))
      BY <2>0 DEF Held
    <3>2. Job(k)' = Job(k)
      BY <1>a, <2>1, RequestKept DEF Job
    <3> QED  BY <1>a, <2>0, <2>1, <3>1, <3>2, OwnStep
  <2>2. CASE s # k
    <3>1. Serving(s)
      BY <1>a, <2>2, ActsLocally DEF Serving
    <3>2. Latest(s) /\ (Job(s) \notin disturbed => Own(s))
      BY <2>0, <3>1 DEF Held
    <3>3. Job(s) # Job(k) /\ Job(s) \in Jobs
      BY <2>0, <2>2, <3>1, FrameTyped DEF Alone
    <3> QED  BY <1>a, <2>0, <2>2, <3>2, <3>3, ActsLocally, HoldsOn
  <2> QED  BY <2>1, <2>2
<1>x. ASSUME NEW x \in strays, StrayWrites(x)
      PROVE  Latest(s)' /\ (Job(s)' \notin disturbed' => Own(s)')
  <2>1. /\ exclusive /\ Serving(s) /\ UNCHANGED <<pc, frame>>
        /\ disturbed' = disturbed \cup {x.job}
        /\ dir' = [dir EXCEPT ![x.job].out = [by |-> x.run, of |-> x.of]]
        /\ dir[x.job] # None
    BY <1>x DEF StrayWrites, Serving
  <2>2. Latest(s) /\ (Job(s) \notin disturbed => Own(s)) /\ Job(s) \in Jobs
    BY <2>1, FrameTyped DEF Held
  <2>3. CASE Job(s) # x.job
    <3>1. dir'[Job(s)] = dir[Job(s)]
      BY <2>1, <2>2, <2>3 DEF TypeOK
    <3> QED  BY <2>1, <2>2, <3>1, HoldsOn DEF frame
  <2>4. CASE Job(s) = x.job
    <3>1. Job(s)' = Job(s) /\ Run(s)' = Run(s) /\ At(s)' = dir'[x.job]
      BY <2>1, <2>4 DEF Job, Run, At, frame
    <3>2. At(s) \in Dir /\ At(s) # None /\ At(s) = dir[x.job] /\ x.job \in Jobs
      BY <2>1, <2>2, <2>4 DEF TypeOK, At
    <3>3. [by |-> x.run, of |-> x.of] \in Bytes
      BY <1>x DEF TypeOK, Bytes
    <3>4. At(s)' = [At(s) EXCEPT !.out = [by |-> x.run, of |-> x.of]]
      BY <2>1, <3>1, <3>2 DEF TypeOK
    <3>5. /\ At(s)' \in Dir /\ At(s)'.man = At(s).man /\ At(s)'.sts = At(s).sts
      BY <3>2, <3>3, <3>4, WorkspaceTyped DEF Dir
    <3>6. Latest(s)'
      BY <2>1, <2>2, <3>1, <3>2, <3>5 DEF Latest, Past, frame
    <3> QED  BY <2>1, <2>4, <3>1, <3>6
  <2> QED  BY <2>3, <2>4
<1>n. CASE (\E x \in strays : StrayLetsGo(x)) \/ Edit \/ UNCHANGED vars
  <2>1. UNCHANGED <<exclusive, pc, frame, dir, disturbed>>
    BY <1>n DEF StrayLetsGo, Edit, vars, world, frame
  <2>2. Latest(s) /\ (Job(s) \notin disturbed => Own(s))
    BY <2>1 DEF Held, Serving
  <2> QED  BY <2>1, <2>2, HoldsOn DEF frame
<1> QED  BY <1>r, <1>a, <1>x, <1>n DEF Next, Acts

-------------------------------------------------------------------------------
(* Manifest and status.                                                    *)

\* What the step of a server makes of its workspace.
LEMMA WorkspaceStep ==
  ASSUME TypeOK, Framed, exclusive, NEW k \in Servers, Acts(k),
         Latest(k), Job(k) \notin disturbed => Own(k), Follows(At(k))
  PROVE  /\ Follows(dir'[Job(k)])
         /\ Job(k) \notin disturbed /\ Tells(At(k)) => Tells(dir'[Job(k)])
<1>f. /\ Knows(k) /\ Serving(k) /\ Job(k) \in Jobs /\ Run(k) \in Runs
      /\ At(k) \in Dir \cup {None} /\ At(k) = dir[Job(k)]
  BY ActsLocally, FrameTyped DEF Framed, At
<1>t. /\ Follows(EmptyDir) /\ Tells(EmptyDir)
      /\ There(k) \in {At(k), EmptyDir}
  BY DEF There, EmptyDir, Follows, Tells
<1>u. CASE dir'[Job(k)] \in {At(k), EmptyDir, None}
  BY <1>u, <1>t, Zenon DEF Follows, Tells
<1> USE <1>f
<1>1. CASE Validate(k)
  BY <1>1, <1>t, <1>u DEF Validate, Raises, frame, TypeOK
<1>2. CASE Exists(k)
  BY <1>2, <1>t, <1>u DEF Exists, Raises, frame, TypeOK
<1>5. CASE Hash(k)
  BY <1>5, <1>t, <1>u DEF Hash, Raises, frame, TypeOK
<1>6. CASE ScriptEnds(k)
  BY <1>6, <1>t, <1>u, BoundsAssumption DEF ScriptEnds, Raises, frame, TypeOK
<1>7. CASE Seal(k)
  BY <1>7, <1>t, <1>u DEF Seal, Raises, frame, TypeOK
<1>10. CASE WriteLatestManifest(k)
  BY <1>10, <1>t, <1>u DEF WriteLatestManifest, Raises, frame, TypeOK
<1>11. CASE WriteLatestStatus(k)
  BY <1>11, <1>t, <1>u DEF WriteLatestStatus, Raises, frame, TypeOK
<1>12. CASE WriteRaises(k)
  BY <1>12, <1>t, <1>u DEF WriteRaises, Raises, frame, TypeOK
<1>13. CASE Failed(k)
  BY <1>13, <1>t, <1>u DEF Failed, Raises, frame, TypeOK
<1>14. CASE Promote(k)
  BY <1>14, <1>t, <1>u DEF Promote, Raises, frame, TypeOK
<1>15. CASE Install(k)
  BY <1>15, <1>t, <1>u DEF Install, Raises, frame, TypeOK
<1>16. CASE InstallReceipt(k)
  BY <1>16, <1>t, <1>u DEF InstallReceipt, Raises, frame, TypeOK
<1>18. CASE Crash(k)
  BY <1>18, <1>t, <1>u DEF Crash, Raises, frame, TypeOK
<1>3. CASE Clear(k)
  <2>1. CASE At(k) # None /\ dir'[Job(k)] \in Remains(At(k))
    BY <2>1 DEF Remains, Follows, Tells, Dir
  <2> QED  BY <2>1, <1>u, <1>3 DEF Clear, TypeOK
<1>4. CASE Snapshot(k)
  <2>1. There(k) = EmptyDir
    BY <1>4, <1>t DEF Snapshot, Latest, There
  <2>2. \E v \in {source, None} : dir'[Job(k)] =
          [snap |-> v, out |-> None, man |-> None, sts |-> None]
    BY <1>4, <2>1 DEF Snapshot, TypeOK, EmptyDir
  <2> QED  BY <2>2 DEF Follows, Tells
<1>8. CASE WriteManifest(k)
  <2>1. dir'[Job(k)] = [At(k) EXCEPT !.man = verdict[k]] /\ At(k) \in Dir
    BY <1>8 DEF WriteManifest, TypeOK
  <2>2. /\ dir'[Job(k)].man = verdict[k] /\ dir'[Job(k)].sts = At(k).sts
        /\ dir'[Job(k)].out = At(k).out
    BY <2>1 DEF Dir
  <2>3. verdict[k].run = Run(k) /\ pc[k] = "manifest"
    BY <1>8 DEF Knows, WriteManifest, Writing, Writes
  <2>4. Follows(dir'[Job(k)])
    BY <2>1, <2>2, <2>3, NoneAssumption DEF Latest, Past, Follows
  <2>5. Job(k) \notin disturbed => Tells(dir'[Job(k)])
    BY <2>1, <2>2, <2>3 DEF Own, Writes, Tells
  <2> QED  BY <2>4, <2>5
<1>9. CASE WriteStatus(k)
  <2>1. dir'[Job(k)] = [At(k) EXCEPT !.sts = StatusOf(verdict[k])] /\ At(k) \in Dir
    BY <1>9 DEF WriteStatus, TypeOK
  <2>2. /\ dir'[Job(k)].sts = StatusOf(verdict[k]) /\ dir'[Job(k)].man = At(k).man
        /\ dir'[Job(k)].out = At(k).out /\ dir'[Job(k)].snap = At(k).snap
    BY <2>1 DEF Dir
  <2>3. At(k).man = verdict[k] /\ Run(k) \in Nat /\ verdict[k].run = Run(k)
    BY <1>9 DEF Latest, WriteStatus, Runs, Knows, Writing, Writes
  <2>4. Follows(dir'[Job(k)])
    BY <2>2, <2>3 DEF Follows, StatusOf
  <2>5. Tells(At(k)) => Tells(dir'[Job(k)])
    BY <2>1, <2>2, NoneAssumption DEF Tells
  <2> QED  BY <2>4, <2>5
<1>17. CASE ScriptWrites(k)
  <2>1. /\ dir'[Job(k)] = [At(k) EXCEPT !.out = [by |-> Run(k), of |-> rd[k]]]
        /\ At(k) \in Dir
    BY <1>17 DEF ScriptWrites, HasSnapshot, TypeOK
  <2>2. dir'[Job(k)].man = At(k).man /\ At(k).man = None
    BY <2>1, <1>17 DEF Dir, Latest, ScriptWrites
  <2> QED  BY <2>2 DEF Follows, Tells
<1>19. CASE PipeCloses(k)
  BY <1>19, <1>t, <1>u DEF PipeCloses, Raises, frame, TypeOK
<1> QED  BY <1>1, <1>2, <1>3, <1>4, <1>5, <1>6, <1>7, <1>8, <1>9, <1>10, <1>11, <1>12, <1>13, <1>14, <1>15, <1>16, <1>17, <1>18, <1>19 DEF Acts, Handle

\* No step makes a manifest untrue, or a status run ahead of it,
LEMMA WorkspacesStep ==
  ASSUME TypeOK, Framed, Alone, Held, Truthful, StatusNeverAhead, [Next]_vars
  PROVE  Truthful' /\ StatusNeverAhead'
<1>d. exclusive => \A j \in Jobs : Follows(dir[j])
  BY DEF StatusNeverAhead, Follows
<1> SUFFICES ASSUME exclusive', NEW j \in Jobs
             PROVE  /\ Follows(dir'[j])
                    /\ j \notin disturbed' => Tells(dir'[j])
  BY DEF StatusNeverAhead, Truthful, Follows
<1>u. CASE exclusive' = exclusive /\ disturbed' = disturbed /\ dir'[j] = dir[j]
  BY <1>u, <1>d DEF Truthful
<1>r. ASSUME NEW k \in Servers, NEW i \in Jobs, NEW o \in BOOLEAN, Request(k, i, o)
      PROVE  Follows(dir'[j]) /\ (j \notin disturbed' => Tells(dir'[j]))
  BY <1>u, <1>r DEF Request
<1>a. ASSUME NEW k \in Servers, Acts(k)
      PROVE  Follows(dir'[j]) /\ (j \notin disturbed' => Tells(dir'[j]))
  <2>1. CASE j # Job(k)
    BY <1>a, <2>1, <1>u, ActsLocally
  <2>2. CASE j = Job(k)
    <3>1. exclusive /\ Serving(k) /\ disturbed' = disturbed /\ At(k) = dir[j]
      BY <1>a, <2>2, ActsLocally DEF At
    <3>2. Latest(k) /\ (Job(k) \notin disturbed => Own(k))
      BY <3>1 DEF Held
    <3>3. Follows(At(k)) /\ (j \notin disturbed => Tells(At(k)))
      BY <3>1, <1>d DEF Truthful
    <3> QED  BY <1>a, <2>2, <3>1, <3>2, <3>3, WorkspaceStep
  <2> QED  BY <2>1, <2>2
<1>x. ASSUME NEW x \in strays, StrayWrites(x)
      PROVE  Follows(dir'[j]) /\ (j \notin disturbed' => Tells(dir'[j]))
  <2>1. CASE j # x.job
    BY <1>x, <1>d, <2>1 DEF StrayWrites, TypeOK, Truthful
  <2>2. CASE j = x.job
    <3>1. /\ dir'[j] = [dir[j] EXCEPT !.out = [by |-> x.run, of |-> x.of]]
          /\ dir[j] \in Dir /\ j \in disturbed' /\ dir[j] # None
          /\ exclusive
      BY <1>x, <2>2 DEF StrayWrites, TypeOK
    <3>2. dir'[j].man = dir[j].man /\ dir'[j].sts = dir[j].sts
      BY <3>1 DEF Dir
    <3> QED  BY <3>1, <3>2, <1>d DEF Follows
  <2> QED  BY <2>1, <2>2
<1>n. CASE (\E x \in strays : StrayLetsGo(x)) \/ Edit \/ UNCHANGED vars
  BY <1>n, <1>u DEF StrayLetsGo, Edit, vars, world, frame
<1> QED  BY <1>r, <1>a, <1>x, <1>n DEF Next, Acts

-------------------------------------------------------------------------------
(* Durable results.                                                        *)

\* Only two steps change the store, and only they lead to the receipt.
LEMMA StoreKept ==
  ASSUME TypeOK, NEW k \in Servers, Acts(k), ~Install(k), ~InstallReceipt(k)
  PROVE  store' = store /\ pc'[k] # "receipt"
<1>1. CASE Validate(k)
  BY <1>1 DEF Validate, Goto, Raises, Answer, frame, TypeOK
<1>2. CASE Exists(k)
  BY <1>2 DEF Exists, Goto, Raises, Answer, frame, TypeOK
<1>3. CASE Clear(k)
  BY <1>3 DEF Clear, Goto, Raises, Answer, frame, TypeOK
<1>4. CASE Snapshot(k)
  BY <1>4 DEF Snapshot, Goto, Raises, Answer, frame, TypeOK
<1>5. CASE Hash(k)
  BY <1>5 DEF Hash, Goto, Raises, Answer, frame, TypeOK
<1>6. CASE ScriptEnds(k)
  BY <1>6, BoundsAssumption DEF ScriptEnds, Goto, Raises, Answer, frame, TypeOK
<1>7. CASE Seal(k)
  BY <1>7 DEF Seal, Goto, Raises, Answer, frame, TypeOK
<1>8. CASE WriteManifest(k)
  BY <1>8 DEF WriteManifest, Goto, Raises, Answer, frame, TypeOK
<1>9. CASE WriteStatus(k)
  BY <1>9 DEF WriteStatus, Goto, Raises, Answer, frame, TypeOK
<1>10. CASE WriteLatestManifest(k)
  BY <1>10 DEF WriteLatestManifest, Goto, Raises, Answer, frame, TypeOK
<1>11. CASE WriteLatestStatus(k)
  BY <1>11 DEF WriteLatestStatus, Goto, Raises, Answer, frame, TypeOK
<1>12. CASE WriteRaises(k)
  BY <1>12 DEF WriteRaises, Goto, Raises, Answer, frame, TypeOK
<1>13. CASE Failed(k)
  BY <1>13 DEF Failed, Goto, Raises, Answer, frame, TypeOK
<1>14. CASE Promote(k)
  BY <1>14 DEF Promote, Goto, Raises, Answer, frame, TypeOK
<1>17. CASE ScriptWrites(k)
  BY <1>17 DEF ScriptWrites, Goto, Raises, Answer, frame, TypeOK
<1>18. CASE Crash(k)
  BY <1>18 DEF Crash, Goto, Raises, Answer, frame, TypeOK
<1>19. CASE PipeCloses(k)
  BY <1>19 DEF PipeCloses, Goto, Raises, Answer, frame, TypeOK
<1> QED  BY <1>1, <1>2, <1>3, <1>4, <1>5, <1>6, <1>7, <1>8, <1>9, <1>10, <1>11, <1>12, <1>13, <1>14, <1>17, <1>18, <1>19 DEF Acts, Handle

\* or what is stored durably differ from what was sealed and verified.
LEMMA StoreStep ==
  ASSUME TypeOK, Framed, Held, Storing, DurableSealed, DurableVerified, [Next]_vars
  PROVE  Storing' /\ DurableSealed' /\ DurableVerified'
<1>u. ASSUME store' = store, exclusive' = exclusive, disturbed \subseteq disturbed',
             \A s \in Servers : pc'[s] = "receipt" =>
                                  pc[s] = "receipt" /\ verdict'[s] = verdict[s]
      PROVE  Storing' /\ DurableSealed' /\ DurableVerified'
  <2>1. Storing'
    BY <1>u DEF Storing
  <2>2. DurableSealed' /\ DurableVerified'
    BY <1>u DEF DurableSealed, DurableVerified
  <2> QED  BY <2>1, <2>2
<1>r. ASSUME NEW k \in Servers, NEW j \in Jobs, NEW o \in BOOLEAN, Request(k, j, o)
      PROVE  Storing' /\ DurableSealed' /\ DurableVerified'
  <2>1. /\ store' = store /\ exclusive' = exclusive /\ disturbed' = disturbed
        /\ verdict' = verdict
        /\ \A s \in Servers : pc'[s] = "receipt" => pc[s] = "receipt"
    BY <1>r DEF Request, Goto, TypeOK
  <2> QED  BY <2>1, <1>u
<1>a. ASSUME NEW k \in Servers, Acts(k)
      PROVE  Storing' /\ DurableSealed' /\ DurableVerified'
  <2>f. /\ exclusive' = exclusive /\ disturbed' = disturbed
        /\ Knows(k) /\ Serving(k) /\ Run(k) \in Runs /\ At(k) \in Dir \cup {None}
        /\ \A s \in Servers : s # k => pc'[s] = pc[s] /\ verdict'[s] = verdict[s]
    BY <1>a, ActsLocally, FrameTyped DEF Framed
  <2>h. exclusive /\ disturbed = {} => Own(k)
    BY <2>f DEF Held
  <2>1. CASE ~Install(k) /\ ~InstallReceipt(k)
    BY <1>a, <2>1, <2>f, <1>u, StoreKept
  <2>2. CASE Install(k)
    <3>1. CASE Raises(k)
      <4>1. store' = store /\ verdict' = verdict /\ pc'[k] # "receipt"
        BY <3>1 DEF Raises, Goto, frame, TypeOK
      <4> QED  BY <4>1, <2>f, <1>u
    <3>2. CASE ~Raises(k)
      <4> DEFINE a == [id |-> Run(k), data |-> verdict[k].out]
      <4>1. /\ store.art = None /\ At(k).out = verdict[k].out
            /\ store' = [store EXCEPT !.art = a]
            /\ verdict' = verdict /\ pc'[k] = "receipt" /\ pc[k] = "install"
        BY <2>2, <3>2 DEF Install, Goto, frame, TypeOK
      <4>2. a \in Artifact /\ a # None
        BY <4>1, <2>f, NoneAssumption DEF Knows, Writing, Artifact
      <4>3. store'.art = a /\ store'.rcp = store.rcp
        BY <4>1 DEF TypeOK
      <4>4. store.rcp = None
        BY <4>1 DEF DurableSealed
      <4>5. \A s \in Servers : pc[s] # "receipt"
        BY <4>1 DEF Storing
      <4>6. Storing'
        BY <4>1, <4>2, <4>3, <4>4, <4>5, <2>f DEF Storing
      <4>7. DurableSealed' /\ DurableVerified'
        BY <4>3, <4>4 DEF DurableSealed, DurableVerified
      <4> QED  BY <4>6, <4>7
    <3> QED  BY <3>1, <3>2
  <2>3. CASE InstallReceipt(k)
    <3>0. pc[k] = "receipt" /\ pc'[k] # "receipt"
      BY <2>3 DEF InstallReceipt, Answer, Goto, TypeOK
    <3>1. Storing'
      BY <3>0, <2>f DEF Storing
    <3>2. /\ store.rcp = None /\ store.art # None /\ store.art.data = verdict[k].out
      BY <3>0 DEF Storing
    <3>3. CASE store' = [store EXCEPT !.art = None]
      <4>1. store'.rcp = None
        BY <3>2, <3>3 DEF TypeOK
      <4> QED  BY <3>1, <4>1 DEF DurableSealed, DurableVerified
    <3>4. CASE store' = [store EXCEPT !.rcp = [id |-> Run(k), data |-> verdict[k]]]
      <4>1. store'.rcp.data = verdict[k] /\ store'.art = store.art
        BY <3>4 DEF TypeOK
      <4>2. verdict[k].ok
        BY <3>0, <2>f DEF Knows
      <4>3. DurableSealed'
        BY <4>1, <4>2, <3>2 DEF DurableSealed
      <4>4. DurableVerified'
        BY <4>1, <3>0, <3>2, <2>f, <2>h DEF DurableVerified, Own
      <4> QED  BY <3>1, <4>3, <4>4
    <3> QED  BY <2>3, <3>3, <3>4 DEF InstallReceipt
  <2> QED  BY <2>1, <2>2, <2>3
<1>n. CASE (\E x \in strays : StrayWrites(x) \/ StrayLetsGo(x)) \/ Edit \/ UNCHANGED vars
  <2>1. UNCHANGED <<exclusive, pc, frame, store>> /\ disturbed \subseteq disturbed'
    BY <1>n DEF StrayWrites, StrayLetsGo, Edit, vars, world, frame
  <2> QED  BY <2>1, <1>u DEF frame
<1> QED  BY <1>r, <1>a, <1>n DEF Next, Acts

-------------------------------------------------------------------------------
(* Theorems.                                                               *)

\* The inductive invariant holds initially,
LEMMA IInit == Init => IInv
<1> SUFFICES ASSUME Init  PROVE IInv
  OBVIOUS
<1>1. \A s \in Servers : pc[s] = "idle"
  BY DEF Init
<1>2. TypeOK
  BY BoundsAssumption DEF Init, TypeOK, Versions, Phases
<1>3. Framed /\ Alone /\ Held /\ Storing
  BY <1>1 DEF Framed, Knows, Alone, Held, Storing, Serving, Writing, Writes
<1>4. Dated /\ Truthful /\ StatusNeverAhead
  BY DEF Init, Dated, Past, Truthful, Tells, StatusNeverAhead
<1>5. DurableSealed /\ DurableVerified
  BY DEF Init, DurableSealed, DurableVerified
<1> QED  BY <1>2, <1>3, <1>4, <1>5 DEF IInv

\* and every step keeps it.
LEMMA IStep == IInv /\ [Next]_vars => IInv'
  BY TypeStep, FramedStep, DatedStep, AloneStep, HeldStep, WorkspacesStep, StoreStep
     DEF IInv

\* The inductive invariant holds of every behaviour.
LEMMA IInvariance == Spec => []IInv
  BY IInit, IStep, PTL DEF Spec

\* Servers, workspaces and the durable results have the types the module
\* gives them, whatever clients ask for and however servers die.
THEOREM JobTypes == Spec => []TypeOK
<1>1. IInv => TypeOK
  BY DEF IInv
<1> QED  BY <1>1, IInvariance, PTL

\* A manifest that reports success tells the truth about the workspace it
\* lies in: the output beside it was written by the script of that request,
\* from the inputs it records.
THEOREM ManifestsAreTrue == Spec => []ManifestTrue
<1>1. IInv => ManifestTrue
  BY DEF IInv, Truthful, Tells, ManifestTrue
<1> QED  BY <1>1, IInvariance, PTL

\* Of the two files a request writes one after the other, the status never
\* reports more than the manifest does.
THEOREM StatusFollows == Spec => []StatusNeverAhead
<1>1. IInv => StatusNeverAhead
  BY DEF IInv
<1> QED  BY <1>1, IInvariance, PTL

\* What is durable is what its manifest sealed, however many servers use the
\* same workspace and the same store.
THEOREM DurableIsSealed == Spec => []DurableSealed
<1>1. IInv => DurableSealed
  BY DEF IInv
<1> QED  BY <1>1, IInvariance, PTL

\* What is durable was made from the version whose claims were verified.
THEOREM DurableIsVerified == Spec => []DurableVerified
<1>1. IInv => DurableVerified
  BY DEF IInv
<1> QED  BY <1>1, IInvariance, PTL

===============================================================================
