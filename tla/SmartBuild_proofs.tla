-------------------------- MODULE SmartBuild_proofs --------------------------
(***************************************************************************)
(* Proofs about SmartBuild: what a step that is skipped left behind, and   *)
(* what runs that nobody disturbs come to, for any pipeline, any variants  *)
(* and any number of runs.                                                 *)
(***************************************************************************)
EXTENDS SmartBuild, WellFoundedInduction, TLAPS

(* Bytes that a step made, and records, are not what stands for none.      *)
Markers ==
  /\ \A c, e, i, m :
       [cfg |-> c, env |-> e, ins |-> i, mark |-> m] \notin {Missing, Foreign}
  /\ \A s, o, d : [sig |-> s, outs |-> o, doubt |-> d] # None

(* No run is a comparison, whose records do not tell the variants apart.   *)
NoComparison == \A q \in Requests : q[3] # "comparison"

IsFcn(f, D)  == f = [x \in D |-> f[x]]
IsContent(x) ==
  x = [cfg |-> x.cfg, env |-> x.env, ins |-> x.ins, mark |-> x.mark]
IsRecord(e)  ==
  e = [sig |-> e.sig, outs |-> e.outs, doubt |-> e.doubt] /\ e.doubt \in BOOLEAN
IsBuild(st)  ==
  /\ st = [hash |-> st.hash, rec |-> st.rec] /\ st.hash \in Configs \cup {None}
  /\ IsFcn(st.rec, Slots)
  /\ \A o \in Slots : st.rec[o] # None => IsRecord(st.rec[o])

Visiting(r) == pc[r] \in {"visit", "execute", "record"}
Working(r)  == pc[r] \in {"execute", "record"}

FilesShaped ==
  /\ IsFcn(file, Files)
  /\ \A o \in Slots : IsMade(file[o]) => IsContent(file[o])

BuildsShaped ==
  IsBuild(disk) /\ IsFcn(mem, Runs) /\ \A r \in Runs : IsBuild(mem[r])

RunsShaped ==
  /\ config \in Configs
  /\ pc \in [Runs -> {"idle", "visit", "execute", "record", "embed", "refresh"}]
  /\ asked \in [Runs -> [sel : Selections, force : BOOLEAN, mode : Modes]]
  /\ cfg \in [Runs -> Configs]
  /\ todo \in [Runs -> SUBSET [step : Steps, env : Envs]]
  /\ IsFcn(sig, Runs)
  /\ broken \in [Runs -> BOOLEAN]
  /\ \A r \in Runs :
       /\ todo[r] \subseteq Visits(asked[r].sel, asked[r].mode)
       /\ Working(r) => todo[r] # {}
       /\ ~Visiting(r) => todo[r] = {}

HistoryShaped ==
  /\ clean \in [Runs -> BOOLEAN] /\ settled \in BOOLEAN
  /\ dirty \in [Runs -> BOOLEAN] /\ quiet \in [Runs -> BOOLEAN]

Shaped == FilesShaped /\ BuildsShaped /\ RunsShaped /\ HistoryShaped

(* What is done comes before what is to be done.                           *)
InOrder(r) ==
  Visiting(r) =>
    \A v \in Visits(asked[r].sel, asked[r].mode) \ todo[r], w \in todo[r] :
      Before(v, w)

Ordered == \A r \in Runs : InOrder(r)

(* What the record of an output says, unless it is doubtful.               *)
Sound(o, e) ==
  ~e.doubt =>
    /\ IsMade(e.outs) /\ IsContent(e.outs) /\ e.outs.ins = e.sig.ins
    /\ e.outs.env = IF o[1] \in Visuals THEN o[2] ELSE e.sig.env

Remembers(st) == \A o \in Slots : st.rec[o] # None => Sound(o, st.rec[o])

(* What a run at work on a step knows, unless somebody touched its files.  *)
Signed(r) ==
  /\ pc[r] = "execute" /\ ~dirty[r] => sig[r] = Signature(r, Due(r))
  /\ pc[r] = "record" /\ ~dirty[r] =>
       LET v == Due(r)  x == file[Out(v)] IN
         /\ IsMade(x) /\ IsContent(x) /\ x.ins = sig[r].ins
         /\ x.env = v.env
         /\ v.step \notin Visuals => sig[r].env = v.env

Plainly  == \A r \in Runs : asked[r].mode # "comparison"

RInv ==
  /\ Shaped /\ Ordered /\ Plainly
  /\ Remembers(disk) /\ \A r \in Runs : Remembers(mem[r]) /\ Signed(r)

(* Nobody disturbs a quiet run: what it is at work on is as it was signed, *)
(* and as it made it.                                                      *)
Rested(r) == ~Working(r) => ~dirty[r]
Whole(r)  == pc[r] \in {"embed", "refresh"} => ~broken[r]
Left(r)   ==
  quiet[r] /\ pc[r] # "idle" =>
    /\ ~dirty[r] /\ cfg[r] = config
    /\ \A q \in Runs \ {r} : pc[q] = "idle"
Exact(r)  ==
  quiet[r] /\ Working(r) =>
    /\ sig[r] = Signature(r, Due(r))
    /\ pc[r] = "record" =>
         file[Out(Due(r))] = Made(cfg[r], Due(r).env, Inputs(Due(r).step))

Quiet == \A r \in Runs : Rested(r) /\ Whole(r) /\ Left(r) /\ Exact(r)

FullPlain(r) ==
  quiet[r] /\ ~broken[r] /\ asked[r].sel = "all" /\ asked[r].mode = "plain"
FullSweep(r) ==
  /\ quiet[r] /\ ~broken[r] /\ clean[r]
  /\ asked[r].sel = "all" /\ asked[r].mode = "sweep"

(* Every step that a full plain run has done with is current.              *)
Done ==
  \A r \in Runs : FullPlain(r) /\ (Visiting(r) \/ pc[r] = "embed") =>
    \A s \in Steps : Visit(s, Base) \notin todo[r] =>
      Current(Visit(s, Base)) \/ mem[r].rec[Slot(s, Base)].doubt

(* A full plain run that is not disturbed leaves nothing stale.            *)
Known(st, s) ==
  LET e == st.rec[Slot(s, Base)] IN
    /\ e # None /\ e.sig = [ins |-> Inputs(s), env |-> Base]
    /\ file[Slot(s, Base)] # Missing
Kept(st, s) ==
  Known(st, s) /\ st.rec[Slot(s, Base)].outs = file[Slot(s, Base)]

Marked(s, c) ==
  LET x == file[Slot(s, Base)] IN
    IsMade(x) => x.mark = [cfg |-> c, ins |-> Inputs(s)]

FreshAt(r, s) ==
  /\ s \notin Uncached \cup Expanded =>
       IF pc[r] = "refresh" /\ s \in Visuals
         THEN Known(mem[r], s) /\ Marked(s, cfg[r])
         ELSE Kept(mem[r], s)
  /\ s \in Uncached \ Visuals =>
       file[Slot(s, Base)] = Made(cfg[r], Base, Inputs(s))

Fresh ==
  \A r \in Runs : FullPlain(r) /\ pc[r] # "idle" =>
    /\ \A s \in Steps : Visit(s, Base) \notin todo[r] => FreshAt(r, s)
    /\ pc[r] \in {"embed", "refresh"} => mem[r].hash = cfg[r]

(* Once it is settled, runs find nothing to do and leave it so.            *)
Good(st) ==
  /\ st.hash \in {None, config}
  /\ \A s \in Steps \ (Uncached \cup Expanded) : Kept(st, s)

GoodFiles ==
  /\ \A s \in Visuals \ (Uncached \cup Expanded) : Marked(s, config)
  /\ \A s \in Uncached \ Visuals :
       file[Slot(s, Base)] = Made(config, Base, Inputs(s))

Idles(r) ==
  pc[r] # "idle" =>
    /\ Good(mem[r]) /\ cfg[r] = config
    /\ asked[r].force = FALSE /\ asked[r].mode = "plain"
    /\ Working(r) => Due(r).step \in Uncached \cup Expanded

Calm == settled => Good(disk) /\ GoodFiles /\ \A r \in Runs : Idles(r)

(* What a full sweep has made, and what it has to make it from.            *)
MadeIn(x, e, s) ==
  /\ IsMade(x) /\ x.env = e
  /\ \A g \in Reads[s] \ Steps : x.ins[g] = file[Slot(g, Base)]

Apart(v) ==
  LET x == file[Out(v)] IN
    /\ MadeIn(x, v.env, v.step)
    /\ v.step \in Visuals =>
         \A f \in Reads[v.step] \cap Steps : MadeIn(x.ins[f], v.env, f)

Undoubted(st) == \A o \in Slots : st.rec[o] # None => st.rec[o].doubt = FALSE

InTurn(r, v) ==
  v.step \in Visuals \/ (todo[r] # {} /\ v.env = Due(r).env)

Swept ==
  \A r \in Runs : FullSweep(r) /\ (Visiting(r) \/ pc[r] = "embed") =>
    /\ Undoubted(mem[r])
    /\ \A v \in Visits("all", "sweep") \ todo[r] : InTurn(r, v) => Apart(v)
    /\ pc[r] = "record" => Apart(Due(r))

-------------------------------------------------------------------------------
(* Slots, visits and their order.                                          *)

\* A nonempty set of natural numbers has a least element.
LEMMA LeastNatural ==
  ASSUME NEW S \in SUBSET Nat, S # {}
  PROVE  \E x \in S : \A y \in S : x <= y
<1> DEFINE R == OpToRel(<, Nat)
<1>1. \A x, y \in Nat : y < x => <<y, x>> \in R
  BY DEF OpToRel
<1>2. IsWellFoundedOn(R, Nat)
  BY NatLessThanWellFounded
<1> HIDE DEF R
<1>3. \E x \in S : \A y \in S : <<y, x>> \notin R
  BY <1>2, WFMin
<1>4. PICK x \in S : \A y \in S : <<y, x>> \notin R
  BY <1>3
<1>5. ASSUME NEW y \in S  PROVE x <= y
  <2>1. ~(y < x)
    BY <1>1, <1>4
  <2> QED  BY <2>1
<1> QED  BY <1>5

\* The slots of files and steps are told apart by what they are of.
LEMMA SlotFacts ==
  /\ \A f : Slot(f, Base) = <<f, Base>>
  /\ \A s \in Steps : Slot(s, Base) \in Slots
  /\ \A f \in Sources \cup Steps : Slot(f, Base) \in Files
  /\ \A f \in Sources : Slot(f, Base) \notin Slots
  /\ Slots \subseteq Files /\ Figures \subseteq Slots
  /\ \A o \in Figures : o[1] \in Visuals
  /\ \A o \in Slots : o = <<o[1], o[2]>> /\ o[1] \in Steps
                      /\ (o[1] \notin Visuals => o[2] = Base)
  BY FilesAssumption DEF Slot, Slots, Files, Figures, Visuals, Envs

\* Where the output of a visit goes.
LEMMA VisitFacts ==
  ASSUME NEW v \in [step : Steps, env : Envs]
  PROVE  /\ Out(v) \in Slots /\ Out(v)[1] = v.step
         /\ v.step \in Visuals => Out(v)[2] = v.env
         /\ v.step \notin Visuals => Out(v) = Slot(v.step, Base)
         /\ v.env = Base => Out(v) = Slot(v.step, Base)
         /\ Needs(v) \subseteq Files
         /\ v = Visit(v.step, v.env)
<1>1. Reads[v.step] \subseteq Sources \cup Steps
  BY ReadsAssumption
<1> QED  BY <1>1, SlotFacts DEF Out, Slot, Slots, Needs, Visit

\* Positions in a list without repetitions order what is in it.
LEMMA EarlierOrders ==
  ASSUME NEW list, DOMAIN list \subseteq Nat,
         \A i, j \in DOMAIN list : list[i] = list[j] => i = j
  PROVE  /\ \A x : ~Earlier(x, x, list)
         /\ \A x, y : Earlier(x, y, list) => ~Earlier(y, x, list)
  BY DEF Earlier

\* The pipeline and the variants are ordered.
LEMMA ListFacts ==
  /\ DOMAIN Pipeline \subseteq Nat /\ DOMAIN Variants \subseteq Nat
  /\ \A x : ~Earlier(x, x, Pipeline) /\ ~Earlier(x, x, Variants)
  /\ \A x, y : Earlier(x, y, Pipeline) => ~Earlier(y, x, Pipeline)
  /\ \A x, y : Earlier(x, y, Variants) => ~Earlier(y, x, Variants)
<1>1. DOMAIN Pipeline \subseteq Nat /\ DOMAIN Variants \subseteq Nat
  BY PipelineAssumption, VariantsAssumption
<1> QED  BY <1>1, PipelineAssumption, VariantsAssumption, EarlierOrders

\* What a step reads of other steps is analysis, and comes before it.
LEMMA ReadsEarlier ==
  ASSUME NEW s \in Steps, NEW f \in Reads[s] \cap Steps
  PROVE  f \notin Visuals /\ Earlier(f, s, Pipeline) /\ f # s
<1>1. PICK i \in DOMAIN Pipeline : s = Pipeline[i]
  BY DEF Steps
<1>2. PICK j \in DOMAIN Pipeline : f = Pipeline[j]
  BY DEF Steps
<1>3. j < i /\ Kind[f] = "analysis"
  BY <1>1, <1>2, ReadsAssumption
<1>4. Earlier(f, s, Pipeline)
  BY <1>1, <1>2, <1>3 DEF Earlier
<1> QED  BY <1>3, <1>4, ListFacts DEF Visuals

\* There is always a visit to make next, and all others come after it.
LEMMA FirstOf ==
  ASSUME NEW sel, NEW mode, NEW S \in SUBSET Visits(sel, mode), S # {}
  PROVE  /\ First(S) \in S
         /\ \A w \in S \ {First(S)} : Before(First(S), w)
<1>1. \E v \in S : \A w \in S \ {v} : Before(v, w)
  <2>1. ASSUME NEW T \in SUBSET S, T # {}, \A v, w \in T : v.env = w.env
        PROVE  \E v \in T : \A w \in T \ {v} : Before(v, w)
    <3> DEFINE I == {i \in DOMAIN Pipeline : \E v \in T : v.step = Pipeline[i]}
    <3>1. \A v \in T : v.step \in Steps /\ v = Visit(v.step, v.env)
      BY DEF Visits, Visit
    <3>2. \A v \in T : \E i \in I : v.step = Pipeline[i]
      BY <3>1 DEF Steps
    <3>3. I \subseteq Nat /\ I # {}
      BY <2>1, <3>2, ListFacts
    <3>4. PICK i \in I : \A j \in I : i <= j
      BY <3>3, LeastNatural
    <3>5. PICK v \in T : v.step = Pipeline[i]
      BY <3>4
    <3>6. ASSUME NEW w \in T \ {v}  PROVE Before(v, w)
      <4>1. w.env = v.env /\ w.step # v.step
        BY <2>1, <3>1, <3>6
      <4>2. PICK j \in I : w.step = Pipeline[j]
        BY <3>2
      <4>3. i < j
        BY <3>3, <3>4, <3>5, <4>1, <4>2
      <4> QED  BY <3>5, <4>1, <4>2, <4>3 DEF Before, Earlier
    <3> QED  BY <3>6
  <2>2. CASE \A v, w \in S : v.env = w.env
    BY <2>1, <2>2
  <2>3. CASE \E v, w \in S : v.env # w.env
    <3> DEFINE E == {i \in DOMAIN Variants : \E v \in S : v.env = Variants[i]}
    <3>1. mode # "plain"
      BY <2>3 DEF Visits
    <3>2. \A v \in S : v.env \in Envs \ {Base}
      BY <3>1 DEF Visits
    <3>3. \A v \in S : \E i \in E : v.env = Variants[i]
      BY <3>2 DEF Envs
    <3>4. E \subseteq Nat /\ E # {}
      BY <3>3, ListFacts
    <3>5. PICK i \in E : \A j \in E : i <= j
      BY <3>4, LeastNatural
    <3> DEFINE T == {v \in S : v.env = Variants[i]}
    <3>6. PICK v \in T : \A w \in T \ {v} : Before(v, w)
      <4>1. T # {} /\ \A x, y \in T : x.env = y.env
        BY <3>5
      <4> HIDE DEF T
      <4>2. T \in SUBSET S
        BY DEF T
      <4> QED  BY <2>1, <4>1, <4>2
    <3>7. ASSUME NEW w \in S \ T  PROVE Before(v, w)
      <4>1. PICK j \in E : w.env = Variants[j]
        BY <3>3
      <4>2. i < j
        BY <3>4, <3>5, <4>1
      <4> QED  BY <4>1, <4>2 DEF Before, Earlier
    <3> QED  BY <3>6, <3>7
  <2> QED  BY <2>2, <2>3
<1> QED  BY <1>1, Zenon DEF First

-------------------------------------------------------------------------------
(* The shape of the state.                                                 *)

\* The visit at hand is one of those to make, and comes before the others.
LEMMA DueFacts ==
  ASSUME RunsShaped, NEW r \in Runs, todo[r] # {}
  PROVE  /\ Due(r) \in todo[r] /\ Due(r) \in [step : Steps, env : Envs]
         /\ Due(r) \in Visits(asked[r].sel, asked[r].mode)
         /\ Due(r).step \in Steps /\ Due(r).env \in Envs
         /\ \A w \in todo[r] \ {Due(r)} : Before(Due(r), w)
<1>1. todo[r] \in SUBSET Visits(asked[r].sel, asked[r].mode)
      /\ todo[r] \subseteq [step : Steps, env : Envs]
  BY DEF RunsShaped
<1>2. First(todo[r]) \in todo[r]
      /\ \A w \in todo[r] \ {First(todo[r])} : Before(First(todo[r]), w)
  BY <1>1, FirstOf
<1> QED  BY <1>1, <1>2 DEF Due

\* The steps of a run that has been launched.
Acts(k) ==
  \/ Skip(k) \/ Enter(k) \/ Execute(k) \/ ExecuteFails(k) \/ Record(k)
  \/ Stamp(k) \/ Embed(k) \/ EmbedFails(k) \/ Refresh(k)
  \/ Fail(k) \/ Refuse(k) \/ FinishBroken(k) \/ Crash(k)

\* What somebody else does.
World ==
  \/ \E f \in Sources, v \in Versions : Edit(f, v)
  \/ \E c \in Configs : EditConfig(c)
  \/ \E o \in Slots, x \in {Foreign, Missing} : Overwrite(o, x)
  \/ LoseState

\* Who may act.
LEMMA Cases ==
  [Next]_vars =>
    \/ \E k \in Runs, q \in Requests : Launch(k, q)
    \/ \E k \in Runs : Acts(k)
    \/ World
    \/ UNCHANGED vars
  BY DEF Next, RunStep, Acts, World

\* A step of one run leaves what the others are doing alone.
LEMMA ActsLocally ==
  ASSUME Shaped, NEW k \in Runs, Acts(k)
  PROVE  /\ config' = config /\ cfg' = cfg /\ clean' = clean
         /\ pc[k] # "idle"
         /\ \A r \in Runs : r # k =>
              /\ pc'[r] = pc[r] /\ asked'[r] = asked[r] /\ mem'[r] = mem[r]
              /\ todo'[r] = todo[r] /\ sig'[r] = sig[r] /\ broken'[r] = broken[r]
<1> USE DEF Shaped, RunsShaped, BuildsShaped, IsFcn, Stop, Visiting, Working
<1>0. Abandon(k) => \A r \in Runs : r # k =>
        /\ pc'[r] = pc[r] /\ asked'[r] = asked[r] /\ mem'[r] = mem[r]
        /\ todo'[r] = todo[r] /\ sig'[r] = sig[r] /\ broken'[r] = broken[r]
  BY DEF Abandon
<1>00. Abandon(k) => cfg' = cfg
  BY DEF Abandon
<1>1. CASE Skip(k)
  BY <1>1, <1>0, <1>00 DEF Skip, past, run, Halt
<1>2. CASE Enter(k)
  BY <1>2, <1>0, <1>00 DEF Enter, past, run, Halt
<1>3. CASE Execute(k)
  BY <1>3, <1>0, <1>00 DEF Execute, past, run, Halt
<1>4. CASE ExecuteFails(k)
  BY <1>4, <1>0, <1>00 DEF ExecuteFails, past, run, Halt
<1>5. CASE Record(k)
  BY <1>5, <1>0, <1>00 DEF Record, past, run, Halt
<1>6. CASE Stamp(k)
  BY <1>6, <1>0, <1>00 DEF Stamp, past, run, Halt
<1>7. CASE Embed(k)
  BY <1>7, <1>0, <1>00 DEF Embed, past, run, Halt
<1>8. CASE EmbedFails(k)
  BY <1>8, <1>0, <1>00 DEF EmbedFails, past, run, Halt
<1>9. CASE Refresh(k)
  BY <1>9, <1>0, <1>00 DEF Refresh, past, run, Halt
<1>10. CASE Fail(k)
  BY <1>10, <1>0, <1>00 DEF Fail, past, run, Halt
<1>11. CASE Refuse(k)
  BY <1>11, <1>0, <1>00 DEF Refuse, past, run, Halt
<1>12. CASE FinishBroken(k)
  BY <1>12, <1>0, <1>00 DEF FinishBroken, past, run, Halt
<1>13. CASE Crash(k)
  BY <1>13, <1>0, <1>00 DEF Crash, past, run, Halt
<1> QED  BY <1>1, <1>2, <1>3, <1>4, <1>5, <1>6, <1>7, <1>8, <1>9, <1>10, <1>11, <1>12, <1>13 DEF Acts

\* What one step writes is a content, and writing it keeps the others.
LEMMA MadeContent ==
  ASSUME Markers, NEW c, NEW e, NEW i
  PROVE  IsMade(Made(c, e, i)) /\ IsContent(Made(c, e, i))
         /\ Made(c, e, i).cfg = c /\ Made(c, e, i).env = e /\ Made(c, e, i).ins = i
  BY DEF Markers, IsMade, IsContent, Made

\* Embedding changes the mark of a content and nothing else of it.
LEMMA TaggedContent ==
  ASSUME Markers, FilesShaped, NEW r, NEW o \in Slots
  PROVE  /\ IsMade(file[o]) =>
              /\ IsMade(Tagged(r, o)) /\ IsContent(Tagged(r, o))
              /\ Tagged(r, o).cfg = file[o].cfg /\ Tagged(r, o).env = file[o].env
              /\ Tagged(r, o).ins = file[o].ins
              /\ Tagged(r, o).mark =
                   [cfg |-> cfg[r],
                    ins |-> IF o[2] = Base /\ o[1] \notin Expanded
                              THEN Inputs(o[1]) ELSE None]
         /\ ~IsMade(file[o]) => Tagged(r, o) = file[o]
<1> DEFINE x == file[o]
           m == [cfg |-> cfg[r], ins |-> IF o[2] = Base /\ o[1] \notin Expanded
                                           THEN Inputs(o[1]) ELSE None]
<1>1. CASE IsMade(x)
  <2>1. x = [cfg |-> x.cfg, env |-> x.env, ins |-> x.ins, mark |-> x.mark]
    BY <1>1 DEF FilesShaped, IsContent
  <2>2. Tagged(r, o) = [x EXCEPT !.mark = m]
    BY <1>1 DEF Tagged
  <2> HIDE DEF x, m
  <2>3. Tagged(r, o) = [cfg |-> x.cfg, env |-> x.env, ins |-> x.ins, mark |-> m]
    BY <2>1, <2>2
  <2>4. IsMade(Tagged(r, o)) /\ IsContent(Tagged(r, o))
    BY <2>3 DEF Markers, IsMade, IsContent
  <2> QED  BY <1>1, <2>3, <2>4 DEF x, m
<1>2. CASE ~IsMade(x)
  BY <1>2 DEF Tagged
<1> QED  BY <1>1, <1>2

\* Every step keeps the shape of the files,
LEMMA FilesStep ==
  ASSUME Markers, Shaped, [Next]_vars
  PROVE  FilesShaped'
<1>u. CASE file' = file
  BY <1>u DEF Shaped, FilesShaped, IsFcn, IsMade, IsContent
<1>p. ASSUME NEW o \in Files, NEW x, file' = [file EXCEPT ![o] = x],
             o \in Slots => ~IsMade(x) \/ IsContent(x)
      PROVE  FilesShaped'
  <2>1. \A f \in Files : file'[f] = IF f = o THEN x ELSE file[f]
    BY <1>p DEF Shaped, FilesShaped, IsFcn
  <2>2. IsFcn(file', Files)
    BY <1>p DEF Shaped, FilesShaped, IsFcn
  <2> QED  BY <1>p, <2>1, <2>2, SlotFacts DEF Shaped, FilesShaped, IsMade, IsContent
<1>t. ASSUME NEW k \in Runs, NEW W \in SUBSET Figures,
             file' = [f \in Files |-> IF f \in W THEN Tagged(k, f) ELSE file[f]]
      PROVE  FilesShaped'
  <2>1. IsFcn(file', Files)
    BY <1>t DEF IsFcn
  <2>2. ASSUME NEW o \in Slots, IsMade(file'[o])  PROVE IsContent(file'[o])
    <3>1. file'[o] = IF o \in W THEN Tagged(k, o) ELSE file[o]
      BY <1>t, SlotFacts
    <3> QED  BY <2>2, <3>1, TaggedContent DEF Shaped, FilesShaped, IsMade
  <2> QED  BY <2>1, <2>2 DEF FilesShaped, IsMade, IsContent
<1>l. ASSUME NEW k \in Runs, NEW q \in Requests, Launch(k, q)
      PROVE  FilesShaped'
  BY <1>l, <1>u DEF Launch
<1>a. ASSUME NEW k \in Runs, Acts(k)
      PROVE  FilesShaped'
  <2>1. CASE Execute(k)
    <3>1. Out(Due(k)) \in Slots
      BY <2>1, DueFacts, VisitFacts DEF Shaped, RunsShaped, Execute, Working
    <3>2. file' = [file EXCEPT ![Out(Due(k))] =
                     Made(cfg[k], Due(k).env, Inputs(Due(k).step))]
      BY <2>1 DEF Execute
    <3>3. Out(Due(k)) \in Files
      BY <3>1, SlotFacts
    <3> DEFINE x == Made(cfg[k], Due(k).env, Inputs(Due(k).step))
    <3>4. IsContent(x) /\ file' = [file EXCEPT ![Out(Due(k))] = x]
      BY <3>2, MadeContent
    <3> HIDE DEF x
    <3> QED  BY <3>3, <3>4, <1>p
  <2>2. CASE ExecuteFails(k)
    <3>1. Out(Due(k)) \in Slots
      BY <2>2, DueFacts, VisitFacts DEF Shaped, RunsShaped, ExecuteFails, Working
    <3>2. PICK x \in {file[Out(Due(k))], Foreign, Missing} :
            file' = [file EXCEPT ![Out(Due(k))] = x]
      BY <2>2 DEF ExecuteFails
    <3>3. ~IsMade(x) \/ IsContent(x)
      BY <3>1, <3>2 DEF Shaped, FilesShaped, IsMade
    <3> QED  BY <3>1, <3>2, <3>3, <1>p, SlotFacts
  <2>3. CASE Embed(k)
    BY <2>3, <1>t DEF Embed
  <2>4. CASE EmbedFails(k)
    BY <2>4, <1>t DEF EmbedFails
  <2> QED  BY <1>a, <1>u, <2>1, <2>2, <2>3, <2>4
           DEF Acts, Skip, Enter, Record, Stamp, Refresh, Fail, Refuse, FinishBroken,
               Crash, Halt
<1>w. CASE World
  <2>1. ASSUME NEW f \in Sources, NEW v \in Versions, Edit(f, v)
        PROVE  FilesShaped'
    BY <2>1, <1>p, SlotFacts DEF Edit
  <2>2. ASSUME NEW o \in Slots, NEW x \in {Foreign, Missing}, Overwrite(o, x)
        PROVE  FilesShaped'
    BY <2>2, <1>p, SlotFacts DEF Overwrite, IsMade
  <2> QED  BY <1>w, <1>u, <2>1, <2>2 DEF World, EditConfig, LoseState
<1>n. CASE UNCHANGED vars
  BY <1>n, <1>u DEF vars
<1> QED  BY <1>l, <1>a, <1>w, <1>n, Cases

\* The build states that runs make.
Stamped(r)   == [mem[r] EXCEPT !.hash = cfg[r]]
Refreshed(r) == [mem[r] EXCEPT !.rec = [o \in Slots |-> RefreshedRecord(r, o)]]

\* The build state that remembers nothing,
LEMMA EmptyBuild ==
  /\ IsBuild(EmptyState) /\ EmptyState.hash = None
  /\ \A o \in Slots : EmptyState.rec[o] = None
  BY DEF IsBuild, EmptyState, IsFcn

\* the one with a new record,
LEMMA RecordBuild ==
  ASSUME Shaped, NEW r \in Runs, NEW v \in [step : Steps, env : Envs]
  PROVE  LET st == RecordStepState(r, v) IN
           /\ IsBuild(st) /\ st.hash = cfg[r]
           /\ st.rec[Out(v)] =
                [sig |-> sig[r], outs |-> file[Out(v)], doubt |-> dirty[r]]
           /\ \A o \in Slots : o # Out(v) => st.rec[o] = mem[r].rec[o]
<1> DEFINE st == RecordStepState(r, v)
           e  == [sig |-> sig[r], outs |-> file[Out(v)], doubt |-> dirty[r]]
<1>1. Out(v) \in Slots
  BY VisitFacts
<1>2. IsRecord(e)
  BY DEF IsRecord, Shaped, HistoryShaped
<1>3. IsFcn(mem[r].rec, Slots) /\ \A o \in Slots : mem[r].rec[o] # None => IsRecord(mem[r].rec[o])
  BY DEF Shaped, BuildsShaped, IsBuild
<1>4. st = [hash |-> cfg[r], rec |-> [mem[r].rec EXCEPT ![Out(v)] = e]]
  BY DEF RecordStepState
<1> HIDE DEF e, st
<1>5. st.hash = cfg[r] /\ st.rec = [mem[r].rec EXCEPT ![Out(v)] = e]
      /\ st = [hash |-> st.hash, rec |-> st.rec]
  BY <1>4
<1>6. \A o \in Slots : st.rec[o] = IF o = Out(v) THEN e ELSE mem[r].rec[o]
  BY <1>3, <1>5 DEF IsFcn
<1>7. IsFcn(st.rec, Slots)
  BY <1>3, <1>5 DEF IsFcn
<1>8. IsBuild(st)
  BY <1>2, <1>3, <1>5, <1>6, <1>7 DEF IsBuild, Shaped, RunsShaped
<1> QED  BY <1>1, <1>5, <1>6, <1>8 DEF e, st

\* the one that is stamped,
LEMMA StampBuild ==
  ASSUME Shaped, NEW r \in Runs
  PROVE  /\ IsBuild(Stamped(r)) /\ Stamped(r).hash = cfg[r]
         /\ Stamped(r).rec = mem[r].rec
<1>1. IsBuild(mem[r]) /\ cfg[r] \in Configs
  BY DEF Shaped, BuildsShaped, RunsShaped
<1>2. Stamped(r) = [hash |-> cfg[r], rec |-> mem[r].rec]
  BY <1>1 DEF IsBuild, Stamped
<1> QED  BY <1>1, <1>2 DEF IsBuild

\* and the one that is refreshed.
LEMMA RefreshBuild ==
  ASSUME Shaped, NEW r \in Runs
  PROVE  /\ IsBuild(Refreshed(r)) /\ Refreshed(r).hash = mem[r].hash
         /\ \A o \in Slots : Refreshed(r).rec[o] = RefreshedRecord(r, o)
<1>1. IsBuild(mem[r])
  BY DEF Shaped, BuildsShaped
<1>2. Refreshed(r) = [hash |-> mem[r].hash, rec |-> [o \in Slots |-> RefreshedRecord(r, o)]]
  BY <1>1 DEF IsBuild, Refreshed
<1>3. ASSUME NEW o \in Slots, RefreshedRecord(r, o) # None
      PROVE  IsRecord(RefreshedRecord(r, o))
  <2>1. IsRecord(mem[r].rec[o]) \/ mem[r].rec[o] = None
    BY <1>1 DEF IsBuild
  <2> DEFINE d == mem[r].rec[o].doubt \/ Bare(mem[r].rec[o].outs) # Bare(file[o])
  <2>2. d \in BOOLEAN
    OBVIOUS
  <2>3. RefreshedRecord(r, o) \in
          {mem[r].rec[o], [sig |-> mem[r].rec[o].sig, outs |-> file[o], doubt |-> d]}
    BY DEF RefreshedRecord
  <2> HIDE DEF d
  <2> QED  BY <1>3, <2>1, <2>2, <2>3 DEF IsRecord
<1>4. IsFcn([o \in Slots |-> RefreshedRecord(r, o)], Slots)
  BY DEF IsFcn
<1> QED  BY <1>1, <1>2, <1>3, <1>4 DEF IsBuild

\* Every step keeps the shape of the build states,
LEMMA BuildsStep ==
  ASSUME Shaped, [Next]_vars
  PROVE  BuildsShaped'
<1> USE DEF Shaped
<1>u. CASE mem' = mem /\ (disk' = disk \/ IsBuild(disk'))
  BY <1>u DEF BuildsShaped, IsBuild, IsFcn, IsRecord
<1>m. ASSUME NEW k \in Runs, NEW st, IsBuild(st), mem' = [mem EXCEPT ![k] = st],
             disk' \in {st, disk}
      PROVE  BuildsShaped'
  <2>1. IsFcn(mem', Runs)
    BY <1>m DEF BuildsShaped, IsFcn
  <2>2. \A r \in Runs : mem'[r] \in {st, mem[r]}
    BY <1>m DEF BuildsShaped, IsFcn
  <2>3. IsBuild(disk')
    BY <1>m DEF BuildsShaped
  <2>4. \A r \in Runs : IsBuild(mem'[r])
    BY <1>m, <2>2 DEF BuildsShaped
  <2> QED  BY <2>1, <2>3, <2>4 DEF BuildsShaped, IsBuild, IsFcn, IsRecord
<1>l. ASSUME NEW k \in Runs, NEW q \in Requests, Launch(k, q)
      PROVE  BuildsShaped'
  <2>1. IsBuild(disk) /\ mem' = [mem EXCEPT ![k] = disk] /\ disk' = disk
    BY <1>l DEF Launch, BuildsShaped
  <2> QED  BY <2>1, <1>m
<1>a. ASSUME NEW k \in Runs, Acts(k)
      PROVE  BuildsShaped'
  <2>s. ASSUME Stop(k), disk' = disk \/ IsBuild(disk')
        PROVE  BuildsShaped'
    <3>1. mem' = [mem EXCEPT ![k] = EmptyState]
      BY <2>s DEF Stop
    <3>2. IsFcn(mem', Runs)
      BY <3>1 DEF BuildsShaped, IsFcn
    <3>3. \A r \in Runs : mem'[r] \in {EmptyState, mem[r]}
      BY <3>1 DEF BuildsShaped, IsFcn
    <3>4. IsBuild(disk') /\ \A r \in Runs : IsBuild(mem'[r])
      BY <2>s, <3>3, EmptyBuild DEF BuildsShaped
    <3> QED  BY <3>2, <3>4 DEF BuildsShaped, IsBuild, IsFcn, IsRecord
  <2>b. ASSUME Abandon(k), disk' = disk
        PROVE  BuildsShaped'
    BY <2>b, <2>s, <1>u DEF Abandon
  <2>1. CASE Record(k)
    <3> DEFINE st == RecordStepState(k, Due(k))
    <3>1. IsBuild(st)
      BY <2>1, DueFacts, RecordBuild DEF Record, RunsShaped, Working
    <3>2. mem' = [mem EXCEPT ![k] = st] /\ disk' \in {st, disk}
      BY <2>1 DEF Record, Save
    <3> HIDE DEF st
    <3> QED  BY <3>1, <3>2, <1>m
  <2>2. CASE Stamp(k)
    <3>1. mem' = [mem EXCEPT ![k] = Stamped(k)] /\ disk' \in {Stamped(k), disk}
      BY <2>2 DEF Stamp, Save, Stamped
    <3> QED  BY <3>1, <1>m, StampBuild
  <2>3. CASE Refresh(k)
    <3>1. Stop(k) /\ disk' \in {Refreshed(k), disk}
      BY <2>3 DEF Refresh, Save, Refreshed
    <3> QED  BY <3>1, <2>s, RefreshBuild
  <2> QED  BY <1>a, <1>u, <2>s, <2>b, <2>1, <2>2, <2>3
           DEF Acts, Skip, Enter, Execute, ExecuteFails, Embed, EmbedFails, Fail,
               Refuse, FinishBroken, Crash, Halt
<1>w. CASE World
  BY <1>w, <1>u, EmptyBuild DEF World, Edit, EditConfig, Overwrite, LoseState, run
<1>n. CASE UNCHANGED vars
  BY <1>n, <1>u DEF vars, run
<1> QED  BY <1>l, <1>a, <1>w, <1>n, Cases

\* Where a step of a run leads it.
LEMMA Moves ==
  ASSUME Shaped, NEW k \in Runs, Acts(k)
  PROVE  \/ Stop(k)
         \/ /\ pc' = [pc EXCEPT ![k] = "visit"] /\ UNCHANGED asked
            /\ sig' = [sig EXCEPT ![k] = None]
            /\ broken' = [broken EXCEPT ![k] = TRUE]
            /\ todo' = [todo EXCEPT ![k] = {v \in todo[k] : v.env # Due(k).env}]
            /\ todo[k] # {}
         \/ /\ pc[k] \in {"visit", "record"} /\ todo[k] # {}
            /\ pc' = [pc EXCEPT ![k] = "visit"] /\ UNCHANGED <<asked, broken>>
            /\ sig' \in {sig, [sig EXCEPT ![k] = None]}
            /\ todo' = [todo EXCEPT ![k] = todo[k] \ {Due(k)}]
         \/ /\ UNCHANGED <<asked, todo, broken>> /\ Working(k)'
            /\ \E x : sig' = [sig EXCEPT ![k] = x]
            /\ \E ph \in {"execute", "record"} : pc' = [pc EXCEPT ![k] = ph]
            /\ todo[k] # {}
         \/ /\ UNCHANGED <<asked, todo, sig, broken>> /\ todo[k] = {}
            /\ \E ph \in {"embed", "refresh"} : pc' = [pc EXCEPT ![k] = ph]
<1> USE DEF Shaped, RunsShaped, Visiting, Working
<1>s. sig = [sig EXCEPT ![k] = sig[k]]
  BY DEF IsFcn
<1>0. Abandon(k) /\ todo[k] # {} =>
        \/ Stop(k)
        \/ /\ pc' = [pc EXCEPT ![k] = "visit"] /\ UNCHANGED asked
           /\ sig' = [sig EXCEPT ![k] = None]
           /\ broken' = [broken EXCEPT ![k] = TRUE]
           /\ todo' = [todo EXCEPT ![k] = {v \in todo[k] : v.env # Due(k).env}]
  BY DEF Abandon
<1>1. CASE Skip(k)
  BY <1>1, <1>0, <1>s DEF Skip, past, run, Halt
<1>2. CASE Enter(k)
  BY <1>2, <1>0, <1>s DEF Enter, past, run, Halt
<1>3. CASE Execute(k)
  BY <1>3, <1>0, <1>s DEF Execute, past, run, Halt
<1>4. CASE ExecuteFails(k)
  BY <1>4, <1>0, <1>s DEF ExecuteFails, past, run, Halt
<1>5. CASE Record(k)
  BY <1>5, <1>0, <1>s DEF Record, past, run, Halt
<1>6. CASE Stamp(k)
  BY <1>6, <1>0, <1>s DEF Stamp, past, run, Halt
<1>7. CASE Embed(k)
  BY <1>7, <1>0, <1>s DEF Embed, past, run, Halt
<1>8. CASE EmbedFails(k)
  BY <1>8, <1>0, <1>s DEF EmbedFails, past, run, Halt
<1>9. CASE Refresh(k)
  BY <1>9, <1>0, <1>s DEF Refresh, past, run, Halt
<1>10. CASE Fail(k)
  BY <1>10, <1>0, <1>s DEF Fail, past, run, Halt
<1>11. CASE Refuse(k)
  BY <1>11, <1>0, <1>s DEF Refuse, past, run, Halt
<1>12. CASE FinishBroken(k)
  BY <1>12, <1>0, <1>s DEF FinishBroken, past, run, Halt
<1>13. CASE Crash(k)
  BY <1>13, <1>0, <1>s DEF Crash, past, run, Halt
<1> QED  BY <1>1, <1>2, <1>3, <1>4, <1>5, <1>6, <1>7, <1>8, <1>9, <1>10, <1>11, <1>12, <1>13 DEF Acts

\* Visits are of steps under environments.
LEMMA VisitsTyped ==
  ASSUME NEW sel, NEW mode
  PROVE  Visits(sel, mode) \subseteq [step : Steps, env : Envs]
  BY DEF Visits, Envs

\* that of the runs,
LEMMA RunsStep ==
  ASSUME Shaped, [Next]_vars
  PROVE  RunsShaped'
<1> USE DEF Shaped
<1>u. CASE UNCHANGED run /\ config' \in Configs
  BY <1>u DEF RunsShaped, run, Working, Visiting, IsFcn
<1>l. ASSUME NEW k \in Runs, NEW q \in Requests, Launch(k, q)
      PROVE  RunsShaped'
  <2>1. q \in Selections \X BOOLEAN \X Modes
    BY RequestsAssumption
  <2>2. /\ pc' = [pc EXCEPT ![k] = "visit"] /\ config' = config /\ sig' = sig
        /\ asked' = [asked EXCEPT ![k] = [sel |-> q[1], force |-> q[2], mode |-> q[3]]]
        /\ cfg' = [cfg EXCEPT ![k] = config] /\ broken' = broken
        /\ todo' = [todo EXCEPT ![k] = Visits(q[1], q[3])]
    BY <1>l DEF Launch
  <2>3. [sel |-> q[1], force |-> q[2], mode |-> q[3]] \in
          [sel : Selections, force : BOOLEAN, mode : Modes]
    BY <2>1
  <2>4. Visits(q[1], q[3]) \subseteq [step : Steps, env : Envs]
    BY VisitsTyped
  <2> QED  BY <2>2, <2>3, <2>4 DEF RunsShaped, Working, Visiting, IsFcn
<1>a. ASSUME NEW k \in Runs, Acts(k)
      PROVE  RunsShaped'
  <2>f. config' = config /\ cfg' = cfg
    BY <1>a, ActsLocally
  <2> USE <2>f DEF RunsShaped, Working, Visiting, IsFcn
  <2>1. CASE Stop(k)
    BY <2>1 DEF Stop, NoRequest, Selections, Modes
  <2>2. CASE /\ pc' = [pc EXCEPT ![k] = "visit"] /\ UNCHANGED asked
             /\ sig' = [sig EXCEPT ![k] = None]
             /\ broken' = [broken EXCEPT ![k] = TRUE]
             /\ todo' = [todo EXCEPT ![k] = {v \in todo[k] : v.env # Due(k).env}]
    <3> DEFINE T == {v \in todo[k] : v.env # Due(k).env}
    <3>1. T \subseteq todo[k]
      OBVIOUS
    <3> HIDE DEF T
    <3>2. todo' = [todo EXCEPT ![k] = T]
      BY <2>2 DEF T
    <3> QED  BY <2>2, <3>1, <3>2
  <2>3. CASE /\ pc' = [pc EXCEPT ![k] = "visit"] /\ UNCHANGED <<asked, broken>>
             /\ sig' \in {sig, [sig EXCEPT ![k] = None]}
             /\ todo' = [todo EXCEPT ![k] = todo[k] \ {Due(k)}]
    <3> DEFINE T == todo[k] \ {Due(k)}
    <3>1. T \subseteq todo[k]
      OBVIOUS
    <3> HIDE DEF T
    <3>2. todo' = [todo EXCEPT ![k] = T]
      BY <2>3 DEF T
    <3> QED  BY <2>3, <3>1, <3>2
  <2>4. CASE /\ UNCHANGED <<asked, todo, broken>> /\ todo[k] # {}
             /\ \E x : sig' = [sig EXCEPT ![k] = x]
             /\ \E ph \in {"execute", "record"} : pc' = [pc EXCEPT ![k] = ph]
    BY <2>4
  <2>5. CASE /\ UNCHANGED <<asked, todo, sig, broken>> /\ todo[k] = {}
             /\ \E ph \in {"embed", "refresh"} : pc' = [pc EXCEPT ![k] = ph]
    BY <2>5
  <2> QED  BY <1>a, <2>1, <2>2, <2>3, <2>4, <2>5, Moves
<1>w. CASE World
  BY <1>w, <1>u DEF World, Edit, EditConfig, Overwrite, LoseState, RunsShaped
<1>n. CASE UNCHANGED vars
  BY <1>n, <1>u DEF vars, RunsShaped
<1> QED  BY <1>l, <1>a, <1>w, <1>n, Cases

\* that of their history,
LEMMA HistoryStep ==
  ASSUME Shaped, [Next]_vars
  PROVE  HistoryShaped'
<1> USE DEF Shaped, HistoryShaped, Noticed, NoticedFrom, Touched
<1>l. ASSUME NEW k \in Runs, NEW q \in Requests, Launch(k, q)
      PROVE  HistoryShaped'
  BY <1>l DEF Launch
<1>a. ASSUME NEW k \in Runs, Acts(k)
      PROVE  HistoryShaped'
  <2>1. CASE Skip(k)
    BY <2>1 DEF Skip, past, Halt
  <2>2. CASE Enter(k)
    BY <2>2 DEF Enter, past, Halt
  <2>3. CASE Execute(k)
    BY <2>3 DEF Execute, past, Halt
  <2>4. CASE ExecuteFails(k)
    BY <2>4 DEF ExecuteFails, past, Halt
  <2>5. CASE Record(k)
    BY <2>5 DEF Record, past, Halt
  <2>6. CASE Stamp(k)
    BY <2>6 DEF Stamp, past, Halt
  <2>7. CASE Embed(k)
    BY <2>7 DEF Embed, past, Halt
  <2>8. CASE EmbedFails(k)
    BY <2>8 DEF EmbedFails, past, Halt
  <2>9. CASE Refresh(k)
    BY <2>9 DEF Refresh, past, Halt
  <2>10. CASE Fail(k)
    BY <2>10 DEF Fail, past, Halt
  <2>11. CASE Refuse(k)
    BY <2>11 DEF Refuse, past, Halt
  <2>12. CASE FinishBroken(k)
    BY <2>12 DEF FinishBroken, past, Halt
  <2>13. CASE Crash(k)
    BY <2>13 DEF Crash, past, Halt
  <2> QED  BY <1>a, <2>1, <2>2, <2>3, <2>4, <2>5, <2>6, <2>7, <2>8, <2>9, <2>10, <2>11, <2>12, <2>13 DEF Acts
<1>w. CASE World
  BY <1>w DEF World, Edit, EditConfig, Overwrite, LoseState
<1>n. CASE UNCHANGED vars
  BY <1>n DEF vars, past
<1> QED  BY <1>l, <1>a, <1>w, <1>n, Cases

\* and so the shape of everything.
LEMMA ShapedStep ==
  ASSUME Markers, Shaped, [Next]_vars
  PROVE  Shaped'
  BY FilesStep, BuildsStep, RunsStep, HistoryStep DEF Shaped

-------------------------------------------------------------------------------
(* The order of the visits.                                                *)

\* Runs make their visits in order.
LEMMA OrderedStep ==
  ASSUME Shaped, Ordered, [Next]_vars
  PROVE  Ordered'
<1> USE DEF Shaped, RunsShaped
<1> SUFFICES ASSUME NEW r \in Runs  PROVE InOrder(r)'
  BY DEF Ordered
<1>o. InOrder(r)
  BY DEF Ordered
<1>u. CASE pc'[r] = pc[r] /\ asked'[r] = asked[r] /\ todo'[r] = todo[r]
  BY <1>u, <1>o DEF InOrder, Visiting
<1>l. ASSUME NEW k \in Runs, NEW q \in Requests, Launch(k, q)
      PROVE  InOrder(r)'
  <2>1. CASE r = k
    <3>1. asked'[r] = [sel |-> q[1], force |-> q[2], mode |-> q[3]]
          /\ todo'[r] = Visits(q[1], q[3])
      BY <1>l, <2>1 DEF Launch
    <3>2. Visits(asked'[r].sel, asked'[r].mode) = todo'[r]
      BY <3>1
    <3> QED  BY <3>2 DEF InOrder
  <2>2. CASE r # k
    BY <1>l, <1>u, <2>2 DEF Launch
  <2> QED  BY <2>1, <2>2
<1>a. ASSUME NEW k \in Runs, Acts(k)
      PROVE  InOrder(r)'
  <2>o. CASE r # k
    BY <1>a, <1>u, <2>o, ActsLocally
  <2>k. CASE r = k
    <3>1. CASE Stop(k)
      BY <2>k, <3>1 DEF Stop, InOrder, Visiting
    <3>2. CASE /\ UNCHANGED asked /\ todo[k] # {}
               /\ todo' = [todo EXCEPT ![k] = {v \in todo[k] : v.env # Due(k).env}]
      <4>1. /\ Visiting(k)
            /\ \A w \in todo[k] \ {Due(k)} : Before(Due(k), w)
        BY <3>2, DueFacts DEF Visiting
      <4>2. todo'[r] = {v \in todo[k] : v.env # Due(k).env} /\ asked'[r] = asked[k]
        BY <2>k, <3>2
      <4>3. ASSUME NEW v \in Visits(asked[k].sel, asked[k].mode) \ todo'[r],
                   NEW w \in todo'[r]
            PROVE  Before(v, w)
        <5>1. w \in todo[k] /\ w.env # Due(k).env /\ w # Due(k)
          BY <4>2, <4>3
        <5>2. CASE v \notin todo[k]
          BY <1>o, <2>k, <4>1, <5>1, <5>2 DEF InOrder
        <5>3. CASE v \in todo[k]
          <6>1. v.env = Due(k).env
            BY <4>2, <4>3, <5>3
          <6>2. Earlier(Due(k).env, w.env, Variants)
            BY <4>1, <5>1 DEF Before
          <6> QED  BY <6>1, <6>2 DEF Before
        <5> QED  BY <5>2, <5>3
      <4> QED  BY <4>2, <4>3 DEF InOrder
    <3>3. CASE /\ UNCHANGED asked /\ todo[k] # {}
               /\ todo' = [todo EXCEPT ![k] = todo[k] \ {Due(k)}]
      <4>1. /\ Visiting(k)
            /\ \A w \in todo[k] \ {Due(k)} : Before(Due(k), w)
        BY <3>3, DueFacts DEF Visiting
      <4>2. todo'[r] = todo[k] \ {Due(k)} /\ asked'[r] = asked[k]
        BY <2>k, <3>3
      <4> QED  BY <1>o, <2>k, <4>1, <4>2 DEF InOrder
    <3>4. CASE UNCHANGED <<asked, todo>>
      <4>1. CASE todo[k] = {}
        BY <2>k, <3>4, <4>1 DEF InOrder
      <4>2. CASE todo[k] # {}
        <5>1. Visiting(k)
          BY <4>2 DEF Visiting
        <5> QED  BY <1>o, <2>k, <3>4, <5>1 DEF InOrder
      <4> QED  BY <4>1, <4>2
    <3> QED  BY <1>a, <3>1, <3>2, <3>3, <3>4, Moves
  <2> QED  BY <2>o, <2>k
<1>w. CASE World
  BY <1>w, <1>u DEF World, Edit, EditConfig, Overwrite, LoseState, run
<1>n. CASE UNCHANGED vars
  BY <1>n, <1>u DEF vars, run
<1> QED  BY <1>l, <1>a, <1>w, <1>n, Cases

\* No run becomes a comparison.
LEMMA PlainlyStep ==
  ASSUME NoComparison, Shaped, Plainly, [Next]_vars
  PROVE  Plainly'
<1>l. ASSUME NEW k \in Runs, NEW q \in Requests, Launch(k, q)
      PROVE  Plainly'
  BY <1>l DEF Launch, NoComparison, Plainly, Shaped, RunsShaped
<1>a. ASSUME NEW k \in Runs, Acts(k)
      PROVE  Plainly'
  <2>1. asked' = asked \/ asked' = [asked EXCEPT ![k] = NoRequest]
    BY <1>a, Moves DEF Stop
  <2> QED  BY <2>1 DEF NoRequest, Plainly, Shaped, RunsShaped
<1>w. CASE World \/ UNCHANGED vars
  BY <1>w DEF World, Edit, EditConfig, Overwrite, LoseState, run, vars, Plainly
<1> QED  BY <1>l, <1>a, <1>w, Cases

-------------------------------------------------------------------------------
(* Records and signatures.                                                 *)

\* Embedding apart, equal contents were made alike.
LEMMA BareSame ==
  ASSUME Markers, NEW x, NEW y, IsMade(x), IsContent(x), IsMade(y) => IsContent(y),
         Bare(x) = Bare(y)
  PROVE  IsMade(y) /\ IsContent(y) /\ y.ins = x.ins /\ y.env = x.env
<1>1. Bare(x) = [cfg |-> x.cfg, env |-> x.env, ins |-> x.ins, mark |-> None]
  <2>1. Bare(x) = [x EXCEPT !.mark = None]
    BY DEF Bare
  <2> QED  BY <2>1 DEF IsContent
<1>2. IsMade(y)
  <2>1. CASE ~IsMade(y)
    BY <2>1, <1>1 DEF Bare, IsMade, Markers
  <2> QED  BY <2>1
<1>3. Bare(y) = [cfg |-> y.cfg, env |-> y.env, ins |-> y.ins, mark |-> None]
  <2>1. Bare(y) = [y EXCEPT !.mark = None]
    BY <1>2 DEF Bare
  <2> QED  BY <2>1, <1>2 DEF IsContent
<1>4. [cfg |-> x.cfg, env |-> x.env, ins |-> x.ins, mark |-> None]
        = [cfg |-> y.cfg, env |-> y.env, ins |-> y.ins, mark |-> None]
  BY <1>1, <1>3
<1> QED  BY <1>2, <1>4

\* The files that a visit reads and writes decide its signature.
LEMMA UntouchedKept ==
  ASSUME NEW r \in Runs, NEW v \in [step : Steps, env : Envs],
         asked'[r] = asked[r],
         \A f \in Needs(v) \cup {Out(v)} : file'[f] = file[f]
  PROVE  /\ Inputs(v.step)' = Inputs(v.step)
         /\ Signature(r, v)' = Signature(r, v)
         /\ file'[Out(v)] = file[Out(v)]
<1>1. \A f \in Reads[v.step] : file'[Slot(f, Base)] = file[Slot(f, Base)]
  BY DEF Needs
<1>2. Inputs(v.step)' = Inputs(v.step)
  BY <1>1 DEF Inputs
<1> QED  BY <1>2 DEF Signature

\* What is due depends on nothing but what is left to do.
LEMMA DueKept ==
  ASSUME NEW r \in Runs, todo'[r] = todo[r]
  PROVE  Due(r)' = Due(r)
  BY DEF Due

\* A run that goes on with its step knows what it knew.
LEMMA SignedKept ==
  ASSUME Shaped, NEW r \in Runs, Signed(r),
         pc'[r] = pc[r], asked'[r] = asked[r], todo'[r] = todo[r], sig'[r] = sig[r],
         Working(r) /\ ~dirty'[r] =>
           /\ ~dirty[r]
           /\ \A f \in Needs(Due(r)) \cup {Out(Due(r))} : file'[f] = file[f]
  PROVE  Signed(r)'
<1>1. CASE ~Working(r) \/ dirty'[r]
  BY <1>1 DEF Signed, Working
<1>2. CASE Working(r) /\ ~dirty'[r]
  <2>1. Due(r) \in [step : Steps, env : Envs] /\ Due(r)' = Due(r)
    BY <1>2, DueFacts, DueKept DEF Shaped, RunsShaped
  <2>2. /\ Signature(r, Due(r))' = Signature(r, Due(r))
        /\ file'[Out(Due(r))] = file[Out(Due(r))]
    BY <1>2, <2>1, UntouchedKept
  <2>3. Out(Due(r))' = Out(Due(r))
    BY <2>1 DEF Out, Slot
  <2>4. (pc[r] = "execute" => sig[r] = Signature(r, Due(r)))'
    BY <1>2, <2>2 DEF Signed
  <2>5. pc[r] = "record" =>
          LET v == Due(r)  x == file[Out(v)] IN
            /\ IsMade(x) /\ IsContent(x) /\ x.ins = sig[r].ins
            /\ x.env = v.env
            /\ v.step \notin Visuals => sig[r].env = v.env
    BY <1>2 DEF Signed
  <2> QED  BY <2>1, <2>2, <2>3, <2>4, <2>5 DEF Signed
<1> QED  BY <1>1, <1>2

\* Who touches the files of a run at work makes it dirty.
Spared(r) ==
  Working(r) /\ ~dirty'[r] =>
    /\ ~dirty[r]
    /\ \A f \in Needs(Due(r)) \cup {Out(Due(r))} : file'[f] = file[f]

\* A run that is not made dirty has its files spared,
LEMMA TouchSpares ==
  ASSUME Shaped, NEW r \in Runs, NEW W, \A f \in Files \ W : file'[f] = file[f],
         dirty'[r] = (dirty[r] \/ Touched(r, W))
  PROVE  Spared(r)
<1> SUFFICES ASSUME Working(r), ~dirty'[r]
             PROVE  /\ ~dirty[r]
                    /\ \A f \in Needs(Due(r)) \cup {Out(Due(r))} : file'[f] = file[f]
  BY DEF Spared
<1>1. ~dirty[r] /\ ~Touched(r, W)
  OBVIOUS
<1>2. Due(r) \in [step : Steps, env : Envs]
  BY DueFacts DEF Shaped, RunsShaped
<1>3. Needs(Due(r)) \cup {Out(Due(r))} \subseteq Files
  BY <1>2, VisitFacts, SlotFacts
<1>4. W \cap (Needs(Due(r)) \cup {Out(Due(r))}) = {}
  BY <1>1 DEF Touched, Working
<1> QED  BY <1>1, <1>3, <1>4

\* whatever other runs do,
LEMMA SparedByRuns ==
  ASSUME Shaped, NEW k \in Runs, Acts(k), NEW r \in Runs, r # k
  PROVE  Spared(r)
<1> USE DEF Shaped, FilesShaped, HistoryShaped
<1>u. CASE file' = file /\ dirty'[r] = dirty[r]
  BY <1>u DEF Spared
<1>1. CASE Execute(k)
  <2> DEFINE o == Out(Due(k))
  <2>1. /\ file' = [file EXCEPT ![o] = Made(cfg[k], Due(k).env, Inputs(Due(k).step))]
        /\ dirty'[r] = (dirty[r] \/ Touched(r, {o}))
    BY <1>1 DEF Execute, NoticedFrom
  <2> HIDE DEF o
  <2>2. \A f \in Files \ {o} : file'[f] = file[f]
    BY <2>1 DEF IsFcn
  <2> QED  BY <2>1, <2>2, TouchSpares
<1>2. CASE ExecuteFails(k)
  <2> DEFINE o == Out(Due(k))
  <2>1. /\ \E x : file' = [file EXCEPT ![o] = x]
        /\ dirty'[r] = (dirty[r] \/ Touched(r, {o}))
    BY <1>2 DEF ExecuteFails, NoticedFrom
  <2> HIDE DEF o
  <2>2. \A f \in Files \ {o} : file'[f] = file[f]
    BY <2>1 DEF IsFcn
  <2> QED  BY <2>1, <2>2, TouchSpares
<1>3. CASE Embed(k)
  <2>1. /\ \A f \in Files \ Figures : file'[f] = file[f]
        /\ dirty'[r] = (dirty[r] \/ Touched(r, Figures))
    BY <1>3 DEF Embed, NoticedFrom
  <2> QED  BY <2>1, TouchSpares
<1>4. CASE EmbedFails(k)
  <2>1. PICK W \in SUBSET Figures :
          /\ \A f \in Files \ W : file'[f] = file[f]
          /\ dirty'[r] = (dirty[r] \/ Touched(r, W))
    BY <1>4 DEF EmbedFails, NoticedFrom
  <2> QED  BY <2>1, TouchSpares
<1> QED
  BY <1>u, <1>1, <1>2, <1>3, <1>4
     DEF Acts, Skip, Enter, Record, Stamp, Refresh, Fail, Refuse, FinishBroken,
         Crash, Halt, past

\* and whatever others do.
LEMMA SparedByOthers ==
  ASSUME Shaped, NEW r \in Runs,
         World \/ UNCHANGED vars \/ \E k \in Runs, q \in Requests : Launch(k, q)
  PROVE  Spared(r)
<1> USE DEF Shaped, FilesShaped, HistoryShaped
<1>u. CASE file' = file /\ dirty'[r] = dirty[r]
  BY <1>u DEF Spared
<1>1. ASSUME NEW f \in Sources, NEW v \in Versions, Edit(f, v)
      PROVE  Spared(r)
  <2> DEFINE o == Slot(f, Base)
  <2>1. file' = [file EXCEPT ![o] = v] /\ dirty'[r] = (dirty[r] \/ Touched(r, {o}))
    BY <1>1 DEF Edit, Noticed
  <2> HIDE DEF o
  <2>2. \A g \in Files \ {o} : file'[g] = file[g]
    BY <2>1 DEF IsFcn
  <2> QED  BY <2>1, <2>2, TouchSpares
<1>2. ASSUME NEW o \in Slots, NEW x \in {Foreign, Missing}, Overwrite(o, x)
      PROVE  Spared(r)
  <2>1. file' = [file EXCEPT ![o] = x] /\ dirty'[r] = (dirty[r] \/ Touched(r, {o}))
    BY <1>2 DEF Overwrite, Noticed
  <2>2. \A g \in Files \ {o} : file'[g] = file[g]
    BY <2>1 DEF IsFcn
  <2> QED  BY <2>1, <2>2, TouchSpares
<1> QED
  BY <1>u, <1>1, <1>2 DEF World, EditConfig, LoseState, Launch, vars, past

\* The signature that a run takes is that of the inputs its step reads.
LEMMA SignedStep ==
  ASSUME Markers, Shaped, Plainly, \A r \in Runs : Signed(r), [Next]_vars
  PROVE  \A r \in Runs : Signed(r)'
<1> USE DEF Shaped, RunsShaped
<1> SUFFICES ASSUME NEW r \in Runs  PROVE Signed(r)'
  OBVIOUS
<1>l. ASSUME NEW k \in Runs, NEW q \in Requests, Launch(k, q)
      PROVE  Signed(r)'
  <2>1. CASE r = k
    BY <1>l, <2>1 DEF Launch, Signed
  <2>2. CASE r # k
    <3>1. /\ pc'[r] = pc[r] /\ asked'[r] = asked[r] /\ todo'[r] = todo[r]
          /\ sig'[r] = sig[r]
      BY <1>l, <2>2 DEF Launch
    <3> QED  BY <1>l, <3>1, SignedKept, SparedByOthers DEF Spared
  <2> QED  BY <2>1, <2>2
<1>a. ASSUME NEW k \in Runs, Acts(k)
      PROVE  Signed(r)'
  <2>o. CASE r # k
    BY <1>a, <2>o, ActsLocally, SparedByRuns, SignedKept DEF Spared
  <2>k. CASE r = k
    <3>1. CASE Enter(k)
      <4>1. /\ pc'[k] = "execute" /\ sig'[k] = Signature(k, Due(k))
            /\ UNCHANGED <<file, asked, todo>>
        BY <3>1 DEF Enter, BuildsShaped, IsFcn
      <4>2. Due(k)' = Due(k)
        BY <4>1, DueKept
      <4>3. Signature(k, Due(k))' = Signature(k, Due(k))
        BY <4>1, <4>2 DEF Signature, Inputs
      <4> QED  BY <2>k, <4>1, <4>3 DEF Signed
    <3>2. CASE Execute(k)
      <4> DEFINE v == Due(k)
                 x == Made(cfg[k], v.env, Inputs(v.step))
      <4>1. /\ v \in [step : Steps, env : Envs]
            /\ v \in Visits(asked[k].sel, asked[k].mode)
            /\ Out(v) \in Slots /\ Out(v) \in Files
        BY <3>2, DueFacts, VisitFacts, SlotFacts DEF Execute, Working
      <4>2. /\ pc'[k] = "record" /\ pc[k] = "execute" /\ dirty'[k] = dirty[k]
            /\ UNCHANGED <<asked, todo, sig>>
            /\ file' = [file EXCEPT ![Out(v)] = x]
        BY <3>2 DEF Execute, NoticedFrom
      <4>3. Due(k)' = v
        BY <4>2, DueKept
      <4>4. Out(v)' = Out(v)
        BY <4>3 DEF Out, Slot
      <4>5. file'[Out(v)] = x
        BY <4>1, <4>2 DEF FilesShaped, IsFcn
      <4>6. ~dirty[k] => /\ sig[k].ins = Inputs(v.step)
                         /\ v.step \notin Visuals => sig[k].env = v.env
        <5>1. asked[k].mode = "sweep" \/ v.env = Base
          BY <4>1 DEF Visits, Plainly, Modes
        <5>2. ~dirty[k] => sig[k] = Signature(k, v)
          BY <4>2 DEF Signed
        <5>3. Signature(k, v).ins = Inputs(v.step)
              /\ (v.step \notin Visuals => Signature(k, v).env = v.env)
          BY <5>1 DEF Signature
        <5> QED  BY <5>2, <5>3
      <4>7. IsMade(x) /\ IsContent(x) /\ x.ins = Inputs(v.step) /\ x.env = v.env
        BY MadeContent
      <4>8. (IsMade(file[Out(Due(k))]))' /\ (IsContent(file[Out(Due(k))]))'
        BY <4>3, <4>4, <4>5, <4>7 DEF IsMade, IsContent
      <4> HIDE DEF v, x
      <4> QED  BY <2>k, <4>2, <4>3, <4>4, <4>5, <4>6, <4>7, <4>8 DEF Signed
    <3>3. CASE ~Enter(k) /\ ~Execute(k)
      <4>1. pc'[k] \notin {"execute", "record"}
        BY <1>a, <3>3 DEF Acts, Skip, ExecuteFails, Record, Stamp, Embed,
           EmbedFails, Refresh, Fail, Refuse, FinishBroken, Crash, Halt, Stop, Abandon
      <4> QED  BY <2>k, <4>1 DEF Signed
    <3> QED  BY <3>1, <3>2, <3>3
  <2> QED  BY <2>o, <2>k
<1>w. CASE World \/ UNCHANGED vars
  <2>1. /\ pc'[r] = pc[r] /\ asked'[r] = asked[r] /\ todo'[r] = todo[r]
        /\ sig'[r] = sig[r]
    BY <1>w DEF World, Edit, EditConfig, Overwrite, LoseState, run, vars
  <2> QED  BY <1>w, <2>1, SignedKept, SparedByOthers DEF Spared
<1> QED  BY <1>l, <1>a, <1>w, Cases

\* What is recorded of an output is what a step made, unless it is doubtful.
LEMMA RemembersStep ==
  ASSUME Markers, Shaped, Plainly, \A r \in Runs : Signed(r),
         Remembers(disk), \A r \in Runs : Remembers(mem[r]), [Next]_vars
  PROVE  Remembers(disk') /\ \A r \in Runs : Remembers(mem'[r])
<1> USE DEF Shaped, BuildsShaped
<1>e. Remembers(EmptyState)
  BY EmptyBuild DEF Remembers
<1>m. ASSUME NEW k \in Runs, NEW st, Remembers(st), mem' = [mem EXCEPT ![k] = st],
             disk' \in {st, disk}
      PROVE  Remembers(disk') /\ \A r \in Runs : Remembers(mem'[r])
  <2>1. \A r \in Runs : mem'[r] \in {st, mem[r]}
    BY <1>m DEF IsFcn
  <2> QED  BY <1>m, <2>1
<1>s. ASSUME NEW k \in Runs, Stop(k), Remembers(disk')
      PROVE  Remembers(disk') /\ \A r \in Runs : Remembers(mem'[r])
  <2>1. \A r \in Runs : mem'[r] \in {EmptyState, mem[r]}
    BY <1>s DEF Stop, IsFcn
  <2> QED  BY <1>s, <1>e, <2>1
<1>l. ASSUME NEW k \in Runs, NEW q \in Requests, Launch(k, q)
      PROVE  Remembers(disk') /\ \A r \in Runs : Remembers(mem'[r])
  BY <1>l, <1>m DEF Launch
<1>a. ASSUME NEW k \in Runs, Acts(k)
      PROVE  Remembers(disk') /\ \A r \in Runs : Remembers(mem'[r])
  <2>1. CASE Record(k)
    <3> DEFINE v == Due(k)
               st == RecordStepState(k, v)
               e == [sig |-> sig[k], outs |-> file[Out(v)], doubt |-> dirty[k]]
    <3>1. v \in [step : Steps, env : Envs] /\ pc[k] = "record"
      BY <2>1, DueFacts DEF Record, RunsShaped, Working
    <3>2. mem' = [mem EXCEPT ![k] = st] /\ disk' \in {st, disk}
      BY <2>1 DEF Record, Save
    <3>3. st.rec[Out(v)] = e
          /\ \A o \in Slots : o # Out(v) => st.rec[o] = mem[k].rec[o]
      BY <3>1, RecordBuild
    <3>4. Sound(Out(v), e)
      BY <3>1, VisitFacts DEF Signed, Sound
    <3> HIDE DEF st, e
    <3>5. Remembers(st)
      BY <3>3, <3>4 DEF Remembers
    <3> QED  BY <3>2, <3>5, <1>m
  <2>2. CASE Stamp(k)
    <3>1. mem' = [mem EXCEPT ![k] = Stamped(k)] /\ disk' \in {Stamped(k), disk}
      BY <2>2 DEF Stamp, Save, Stamped
    <3>2. Remembers(Stamped(k))
      BY StampBuild DEF Remembers
    <3> QED  BY <3>1, <3>2, <1>m
  <2>3. CASE Refresh(k)
    <3>1. Stop(k) /\ disk' \in {Refreshed(k), disk}
      BY <2>3 DEF Refresh, Save, Refreshed
    <3>2. ASSUME NEW o \in Slots, RefreshedRecord(k, o) # None
          PROVE  Sound(o, RefreshedRecord(k, o))
      <4> DEFINE old == mem[k].rec[o]
                 d == old.doubt \/ Bare(old.outs) # Bare(file[o])
                 new == [sig |-> old.sig, outs |-> file[o], doubt |-> d]
      <4>1. CASE RefreshedRecord(k, o) = old
        BY <3>2, <4>1 DEF Remembers
      <4>2. CASE RefreshedRecord(k, o) # old
        <5>1. RefreshedRecord(k, o) = new /\ old # None
          BY <4>2 DEF RefreshedRecord
        <5>2. Sound(o, old) /\ IsRecord(old)
          BY <5>1 DEF Remembers, IsBuild
        <5>3. ~d => IsMade(file[o]) /\ IsContent(file[o])
                    /\ file[o].ins = old.outs.ins /\ file[o].env = old.outs.env
          BY <5>2, BareSame DEF Sound, FilesShaped
        <5>4. new.doubt = d /\ new.outs = file[o] /\ new.sig = old.sig
          OBVIOUS
        <5>5. ~d => ~old.doubt
          OBVIOUS
        <5> HIDE DEF old, d, new
        <5> QED  BY <5>1, <5>2, <5>3, <5>4, <5>5 DEF Sound
      <4> QED  BY <4>1, <4>2
    <3>3. Remembers(Refreshed(k))
      BY <3>2, RefreshBuild DEF Remembers
    <3> QED  BY <3>1, <3>3, <1>s
  <2>4. CASE Abandon(k) /\ disk' = disk
    BY <2>4, <1>s DEF Abandon
  <2> QED  BY <1>a, <1>s, <2>1, <2>2, <2>3, <2>4
           DEF Acts, Skip, Enter, Execute, ExecuteFails, Embed, EmbedFails, Fail,
               Refuse, FinishBroken, Crash, Halt
<1>w. CASE World
  BY <1>w, <1>e DEF World, Edit, EditConfig, Overwrite, LoseState, run
<1>n. CASE UNCHANGED vars
  BY <1>n DEF vars, run
<1> QED  BY <1>l, <1>a, <1>w, <1>n, Cases

\* What is known of records holds initially,
LEMMA RInvInit ==
  ASSUME Markers, Init
  PROVE  RInv
<1>1. FilesShaped
  <2>1. PICK v \in [Sources -> Versions] :
          file = [f \in Files |-> IF f[1] \in Sources THEN v[f[1]] ELSE Missing]
    BY DEF Init
  <2>2. \A o \in Slots : file[o] = Missing
    BY <2>1, SlotFacts, FilesAssumption
  <2> QED  BY <2>1, <2>2 DEF FilesShaped, IsFcn, IsMade
<1>2. BuildsShaped
  BY EmptyBuild DEF Init, BuildsShaped, IsFcn
<1>3. RunsShaped /\ HistoryShaped /\ Ordered /\ Plainly /\ \A r \in Runs : Signed(r)
  BY DEF Init, RunsShaped, HistoryShaped, Ordered, InOrder, Visiting, Working, Plainly,
         NoRequest, Selections, Modes, Signed, IsFcn
<1>4. Remembers(disk) /\ \A r \in Runs : Remembers(mem[r])
  BY EmptyBuild DEF Init, Remembers
<1> QED  BY <1>1, <1>2, <1>3, <1>4 DEF RInv, Shaped

\* and every step keeps it.
LEMMA RInvStep ==
  ASSUME Markers, NoComparison, RInv, [Next]_vars
  PROVE  RInv'
<1>1. Shaped' /\ Ordered' /\ Plainly'
  BY ShapedStep, OrderedStep, PlainlyStep DEF RInv
<1>2. Remembers(disk') /\ \A r \in Runs : Remembers(mem'[r]) /\ Signed(r)'
  BY RemembersStep, SignedStep DEF RInv
<1> QED  BY <1>1, <1>2 DEF RInv, Remembers, Sound, IsMade, IsContent

\* The output of a step that is not stale is what its record says it is.
LEMMA NotStale ==
  ASSUME RInv, NEW r \in Runs, todo[r] # {}, ~IsStepStale(r, Due(r))
  PROVE  LET v == Due(r)  old == mem[r].rec[Out(v)] IN
           /\ old # None /\ old.sig = Signature(r, v)
           /\ old.outs = file[Out(v)] /\ file[Out(v)] # Missing
           /\ Current(v) \/ old.doubt
<1> DEFINE v == Due(r)
           old == mem[r].rec[Out(v)]
<1>1. /\ v \in [step : Steps, env : Envs] /\ Out(v) \in Slots
      /\ v \in Visits(asked[r].sel, asked[r].mode)
  BY DueFacts, VisitFacts DEF RInv, Shaped
<1>2. /\ old # None /\ old.sig = Signature(r, v)
      /\ old.outs = file[Out(v)] /\ file[Out(v)] # Missing
  BY DEF IsStepStale
<1>3. Sound(Out(v), old)
  BY <1>1, <1>2 DEF RInv, Remembers
<1>4. /\ Signature(r, v).ins = Inputs(v.step)
      /\ v.step \notin Visuals => Signature(r, v).env = v.env
  <2>1. asked[r].mode = "sweep" \/ v.env = Base
    BY <1>1 DEF Visits, RInv, Plainly, Shaped, RunsShaped, Modes
  <2> QED  BY <2>1 DEF Signature
<1>5. CASE ~old.doubt
  BY <1>1, <1>2, <1>3, <1>4, <1>5, VisitFacts DEF Sound, Current
<1> QED  BY <1>2, <1>5

\* A step is skipped only if its output was made from the inputs it has now
\* and in the environment of the visit, unless its record is doubtful.
THEOREM SkippedIsCurrent ==
  ASSUME Markers, NoComparison
  PROVE  Spec => SkipSound
<1> USE Markers, NoComparison
<1>1. Init => RInv
  BY RInvInit
<1>2. RInv /\ [Next]_vars => RInv'
  BY RInvStep
<1>3. RInv => [\A r \in Runs : Skip(r) =>
        LET v == Due(r) IN Current(v) \/ mem[r].rec[Out(v)].doubt]_vars
  <2> SUFFICES ASSUME RInv, NEW r \in Runs, Skip(r)
               PROVE  LET v == Due(r) IN Current(v) \/ mem[r].rec[Out(v)].doubt
    OBVIOUS
  <2> QED  BY NotStale DEF Skip
<1> QED  BY <1>1, <1>2, <1>3, PTL DEF Spec, SkipSound

-------------------------------------------------------------------------------
(* A run that nobody disturbs.                                             *)

\* No step reads what it writes.
LEMMA OutNotNeeded ==
  ASSUME NEW v \in [step : Steps, env : Envs]
  PROVE  Out(v) \notin Needs(v)
<1> SUFFICES ASSUME NEW f \in Reads[v.step], Out(v) = Slot(f, Base)  PROVE FALSE
  BY DEF Needs
<1>1. f \in Sources \cup Steps /\ Out(v) \in Slots /\ Out(v)[1] = v.step
  BY ReadsAssumption, VisitFacts
<1>2. f \in Steps
  BY <1>1, SlotFacts
<1>3. f = v.step
  BY <1>1, SlotFacts
<1> QED  BY <1>2, <1>3, ReadsEarlier

\* A run's own step does not make it dirty, nor any run quiet.
LEMMA QuietMoves ==
  ASSUME Shaped, NEW k \in Runs, Acts(k), ~Working(k) => ~dirty[k]
  PROVE  /\ \A r \in Runs : quiet'[r] => quiet[r]
         /\ dirty'[k] => dirty[k] /\ Working(k)'
<1> USE DEF Shaped, RunsShaped, HistoryShaped, Working, NoticedFrom, Halt, past
<1>0. Abandon(k) => pc'[k] \in {"idle", "visit"}
  BY DEF Abandon, Stop
<1>1. CASE Skip(k)
  BY <1>1, <1>0 DEF Skip, Stop
<1>2. CASE Enter(k)
  BY <1>2, <1>0 DEF Enter, Stop
<1>3. CASE Execute(k)
  BY <1>3, <1>0 DEF Execute, Stop
<1>4. CASE ExecuteFails(k)
  BY <1>4, <1>0 DEF ExecuteFails, Stop
<1>5. CASE Record(k)
  BY <1>5, <1>0 DEF Record, Stop
<1>6. CASE Stamp(k)
  BY <1>6, <1>0 DEF Stamp, Stop
<1>7. CASE Embed(k)
  BY <1>7, <1>0 DEF Embed, Stop
<1>8. CASE EmbedFails(k)
  BY <1>8, <1>0 DEF EmbedFails, Stop
<1>9. CASE Refresh(k)
  BY <1>9, <1>0 DEF Refresh, Stop
<1>10. CASE Fail(k)
  BY <1>10, <1>0 DEF Fail, Stop
<1>11. CASE Refuse(k)
  BY <1>11, <1>0 DEF Refuse, Stop
<1>12. CASE FinishBroken(k)
  BY <1>12, <1>0 DEF FinishBroken, Stop
<1>13. CASE Crash(k)
  BY <1>13, <1>0 DEF Crash, Stop
<1> QED  BY <1>1, <1>2, <1>3, <1>4, <1>5, <1>6, <1>7, <1>8, <1>9, <1>10, <1>11, <1>12, <1>13 DEF Acts

\* Its own steps keep what a quiet run is at work on.
LEMMA ExactStep ==
  ASSUME Shaped, NEW k \in Runs, Acts(k), Exact(k), ~Working(k) => ~dirty[k]
  PROVE  Exact(k)'
<1> USE DEF Shaped, RunsShaped
<1>1. CASE Enter(k)
  <2>1. /\ pc'[k] = "execute" /\ sig'[k] = Signature(k, Due(k))
        /\ UNCHANGED <<file, asked, todo>>
    BY <1>1 DEF Enter, IsFcn
  <2>2. Due(k)' = Due(k)
    BY <2>1, DueKept
  <2>3. Signature(k, Due(k))' = Signature(k, Due(k))
    BY <2>1, <2>2 DEF Signature, Inputs
  <2> QED  BY <2>1, <2>3 DEF Exact
<1>2. CASE Execute(k)
  <2> DEFINE v == Due(k)
             x == Made(cfg[k], v.env, Inputs(v.step))
  <2>1. /\ v \in [step : Steps, env : Envs]
        /\ Out(v) \in Slots /\ Out(v) \in Files
    BY <1>2, DueFacts, VisitFacts, SlotFacts DEF Execute, Working
  <2>2. /\ pc'[k] = "record" /\ pc[k] = "execute"
        /\ UNCHANGED <<asked, todo, sig, cfg>>
        /\ file' = [file EXCEPT ![Out(v)] = x]
    BY <1>2 DEF Execute
  <2>3. Due(k)' = v
    BY <2>2, DueKept
  <2>4. Out(Due(k))' = Out(v)
    BY <2>3 DEF Out, Slot
  <2>5. file'[Out(v)] = x
    BY <2>1, <2>2 DEF FilesShaped, IsFcn
  <2>6. \A f \in Needs(v) : file'[f] = file[f]
    <3>1. Needs(v) \subseteq Files /\ Out(v) \notin Needs(v)
      BY <2>1, VisitFacts, OutNotNeeded
    <3> QED  BY <2>2, <3>1 DEF FilesShaped, IsFcn
  <2>7. Inputs(v.step)' = Inputs(v.step)
    BY <2>3, <2>6 DEF Inputs, Needs
  <2>8. Signature(k, Due(k))' = Signature(k, v)
    BY <2>2, <2>3, <2>7 DEF Signature
  <2>9. quiet'[k] => quiet[k]
    BY <1>2, QuietMoves DEF Acts
  <2>10. quiet[k] => sig[k] = Signature(k, v)
    BY <2>2 DEF Exact, Working
  <2>11. Made(cfg[k], Due(k).env, Inputs(Due(k).step))' = x
    BY <2>2, <2>3, <2>7 DEF Made
  <2> HIDE DEF v, x
  <2> QED  BY <2>2, <2>4, <2>5, <2>8, <2>9, <2>10, <2>11 DEF Exact
<1>3. CASE ~Enter(k) /\ ~Execute(k)
  <2>1. pc'[k] \notin {"execute", "record"}
    BY <1>3 DEF Acts, Skip, ExecuteFails, Record, Stamp, Embed,
       EmbedFails, Refresh, Fail, Refuse, FinishBroken, Crash, Halt, Stop, Abandon
  <2> QED  BY <2>1 DEF Exact, Working
<1> QED  BY <1>1, <1>2, <1>3

\* What the others do makes no run dirty that is not at work on a step.
LEMMA RestingStep ==
  ASSUME Shaped, NEW r \in Runs, ~Working(r) => ~dirty[r], [Next]_vars
  PROVE  (~Working(r) => ~dirty[r])'
<1> USE DEF Shaped, RunsShaped, HistoryShaped, Working
<1>l. ASSUME NEW k \in Runs, NEW q \in Requests, Launch(k, q)
      PROVE  (~Working(r) => ~dirty[r])'
  BY <1>l DEF Launch
<1>a. ASSUME NEW k \in Runs, Acts(k)
      PROVE  (~Working(r) => ~dirty[r])'
  <2>1. CASE r = k
    BY <1>a, <2>1, QuietMoves
  <2>2. CASE r # k
    <3>1. pc'[r] = pc[r]
      BY <1>a, <2>2, ActsLocally
    <3>2. ~Working(r) => dirty'[r] = dirty[r]
      BY ZenonT(60), <1>a, <2>2 DEF Acts, Skip, Enter, Execute, ExecuteFails, Record, Stamp, Embed,
         EmbedFails, Refresh, Fail, Refuse, FinishBroken, Crash, Halt, past,
         NoticedFrom, Touched
    <3> QED  BY <3>1, <3>2
  <2> QED  BY <2>1, <2>2
<1>w. CASE World \/ UNCHANGED vars
  BY <1>w DEF World, Edit, EditConfig, Overwrite, LoseState, run, vars, past,
     Noticed, Touched
<1> QED  BY <1>l, <1>a, <1>w, Cases

\* Every step keeps what is known of a quiet run.
LEMMA QuietStep ==
  ASSUME Shaped, Quiet, [Next]_vars
  PROVE  Quiet'
<1> USE DEF Shaped, RunsShaped, HistoryShaped
<1>0. \A r \in Runs : Rested(r) /\ Whole(r) /\ Left(r) /\ Exact(r)
  BY DEF Quiet
<1> SUFFICES ASSUME NEW r \in Runs
             PROVE  (Rested(r) /\ Whole(r) /\ Left(r) /\ Exact(r))'
  BY DEF Quiet
<1>1. Rested(r)'
  BY <1>0, RestingStep DEF Rested
<1>l. ASSUME NEW k \in Runs, NEW q \in Requests, Launch(k, q)
      PROVE  (Whole(r) /\ Left(r) /\ Exact(r))'
  <2>1. /\ pc' = [pc EXCEPT ![k] = "visit"] /\ config' = config
        /\ cfg' = [cfg EXCEPT ![k] = config] /\ dirty' = dirty /\ broken' = broken
        /\ \A o \in Runs : quiet'[o] =>
             o = k /\ \A i \in Runs \ {k} : pc[i] = "idle"
        /\ pc[k] = "idle"
    BY <1>l DEF Launch
  <2>2. Whole(r)'
    BY <1>0, <2>1 DEF Whole
  <2>3. Left(r)'
    BY <1>0, <2>1 DEF Left, Rested, Working
  <2>4. Exact(r)'
    BY <2>1 DEF Exact, Working
  <2> QED  BY <2>2, <2>3, <2>4
<1>a. ASSUME NEW k \in Runs, Acts(k)
      PROVE  (Whole(r) /\ Left(r) /\ Exact(r))'
  <2>0. /\ config' = config /\ cfg' = cfg /\ pc[k] # "idle"
        /\ \A i \in Runs : i # k => pc'[i] = pc[i] /\ broken'[i] = broken[i]
        /\ quiet'[r] => quiet[r]
        /\ dirty'[k] => dirty[k]
    BY <1>0, <1>a, ActsLocally, QuietMoves DEF Rested
  <2>1. CASE r = k
    <3>1. Left(r)'
      BY <1>0, <2>0, <2>1 DEF Left
    <3>2. Whole(r)'
      <4>1. pc'[k] \in {"embed", "refresh"} =>
              pc[k] \in {"visit", "embed"} /\ broken'[k] = broken[k]
              /\ (pc[k] = "visit" => ~broken[k])
        BY <1>a DEF Acts, Skip, Enter, Execute, ExecuteFails, Record, Stamp, Embed,
           EmbedFails, Refresh, Fail, Refuse, FinishBroken, Crash, Halt, Stop, Abandon,
           past
      <4> QED  BY <1>0, <2>1, <4>1 DEF Whole
    <3> QED  BY <1>0, <1>a, <2>1, <3>1, <3>2, ExactStep DEF Rested
  <2>2. CASE r # k
    <3>1. Whole(r)'
      BY <1>0, <2>0, <2>2 DEF Whole
    <3>2. quiet'[r] => pc'[r] = "idle"
      BY <1>0, <2>0, <2>2 DEF Left
    <3> QED  BY <3>1, <3>2 DEF Left, Exact, Working
  <2> QED  BY <2>1, <2>2
<1>w. CASE World
  <2>1. UNCHANGED <<pc, broken>> /\ ~quiet'[r]
    BY <1>w DEF World, Edit, EditConfig, Overwrite, LoseState, run, Noticed
  <2>2. Whole(r)' /\ Left(r)'
    BY <1>0, <2>1 DEF Whole, Left
  <2>3. Exact(r)'
    BY <2>1 DEF Exact
  <2> QED  BY <1>1, <2>2, <2>3
<1>n. CASE UNCHANGED vars
  <2>1. Whole(r)' /\ Left(r)'
    BY <1>0, <1>n DEF vars, run, past, Whole, Left
  <2>2. Exact(r)'
    BY <1>0, <1>n DEF vars, run, past, Exact, Working, Signature, Inputs, Due, Out,
       Slot, Made
  <2> QED  BY <1>1, <2>1, <2>2
<1> QED  BY <1>1, <1>l, <1>a, <1>w, <1>n, Cases

\* Only its own steps change what a quiet run sees.
LEMMA QuietSelf ==
  ASSUME Shaped, Quiet, [Next]_vars, NEW r \in Runs, quiet'[r], pc'[r] # "idle"
  PROVE  \/ \E q \in Requests : Launch(r, q)
         \/ Acts(r) /\ quiet[r]
         \/ UNCHANGED vars
<1>1. ASSUME NEW k \in Runs, NEW q \in Requests, Launch(k, q)
      PROVE  k = r
  BY <1>1 DEF Launch
<1>2. ASSUME NEW k \in Runs, Acts(k)
      PROVE  k = r /\ quiet[r]
  <2>1. quiet[r] /\ pc[k] # "idle" /\ (k # r => pc'[r] = pc[r])
    BY <1>2, ActsLocally, QuietMoves DEF Quiet, Rested
  <2> QED  BY <2>1 DEF Quiet, Left
<1>3. ~World
  BY DEF World, Edit, EditConfig, Overwrite, LoseState, Noticed
<1> QED  BY <1>1, <1>2, <1>3, Cases

-------------------------------------------------------------------------------
(* A full plain run.                                                       *)

\* What has been done with under an environment does not read what is next.
LEMMA DoneUnread ==
  ASSUME Shaped, Ordered, NEW r \in Runs, todo[r] # {},
         NEW w \in Visits(asked[r].sel, asked[r].mode) \ todo[r],
         w.env = Due(r).env
  PROVE  Out(Due(r)) \notin Needs(w) /\ Out(Due(r)) # Out(w)
<1> DEFINE v == Due(r)
<1>1. /\ v \in todo[r] /\ v \in [step : Steps, env : Envs] /\ Visiting(r)
      /\ w \in [step : Steps, env : Envs]
  BY DueFacts, VisitsTyped DEF Shaped, RunsShaped
<1>2. Earlier(w.step, v.step, Pipeline)
  <2>1. Before(w, v)
    BY <1>1 DEF Ordered, InOrder
  <2> QED  BY <2>1, ListFacts DEF Before
<1>3. w.step # v.step /\ v.step \notin Reads[w.step]
  BY <1>1, <1>2, ListFacts, ReadsEarlier
<1>4. Out(v) # Out(w)
  BY <1>1, <1>3, VisitFacts
<1>5. ASSUME NEW f \in Reads[w.step], Out(v) = Slot(f, Base)  PROVE FALSE
  <2>1. f = v.step
    BY <1>1, <1>5, VisitFacts, SlotFacts
  <2> QED  BY <1>3, <2>1
<1> QED  BY <1>4, <1>5 DEF Needs

\* The files that a visit reads and writes decide whether it is current.
LEMMA CurrentKept ==
  ASSUME NEW v \in [step : Steps, env : Envs],
         \A f \in Needs(v) \cup {Out(v)} : file'[f] = file[f]
  PROVE  Current(v)' = Current(v)
<1>1. \A f \in Reads[v.step] : file'[Slot(f, Base)] = file[Slot(f, Base)]
  BY DEF Needs
<1>2. Inputs(v.step)' = Inputs(v.step)
  BY <1>1 DEF Inputs
<1> QED  BY <1>2 DEF Current, IsMade

\* What a run does with a visit, when it does not give up.
LEMMA Proceeds ==
  ASSUME Shaped, Quiet, NEW r \in Runs, Acts(r),
         Visiting(r)' \/ pc'[r] \in {"embed", "refresh"}, broken'[r] = FALSE
  PROVE  /\ \/ Skip(r) \/ Enter(r) \/ Execute(r) \/ Record(r) \/ Stamp(r) \/ Embed(r)
         /\ asked' = asked /\ cfg' = cfg /\ config' = config /\ ~broken[r]
<1> USE DEF Shaped, RunsShaped, Visiting
<1>1. ~Stop(r)
  BY DEF Stop
<1>2. ~Abandon(r)
  BY <1>1 DEF Abandon
<1>3. Skip(r) \/ Enter(r) \/ Execute(r) \/ Record(r) \/ Stamp(r) \/ Embed(r)
  BY <1>1, <1>2 DEF Acts, ExecuteFails, EmbedFails, Refresh, Fail, Refuse,
     FinishBroken, Crash, Halt
<1> QED  BY <1>3 DEF Skip, Enter, Execute, Record, Stamp, Embed

\* What a full plain run has done with stays current.
LEMMA DoneStep ==
  ASSUME Markers, RInv, Quiet, Done, [Next]_vars
  PROVE  Done'
<1> USE DEF RInv, Shaped
<1> DEFINE Settles(r, s) == Current(Visit(s, Base)) \/ mem[r].rec[Slot(s, Base)].doubt
<1> SUFFICES ASSUME NEW r \in Runs, FullPlain(r)', Visiting(r)' \/ pc'[r] = "embed",
                    NEW s \in Steps, Visit(s, Base) \notin todo'[r]
             PROVE  Settles(r, s)'
  BY DEF Done
<1> DEFINE w == Visit(s, Base)
<1>0. /\ w \in [step : Steps, env : Envs] /\ w.step = s /\ w.env = Base
      /\ Out(w) = Slot(s, Base)
  BY DEF Visit, Envs, Out
<1>l. ASSUME NEW q \in Requests, Launch(r, q)
      PROVE  FALSE
  <2>1. asked'[r] = [sel |-> q[1], force |-> q[2], mode |-> q[3]]
        /\ todo'[r] = Visits(q[1], q[3])
    BY <1>l DEF Launch, RunsShaped
  <2>2. q[1] = "all" /\ q[3] = "plain"
    BY <2>1 DEF FullPlain
  <2>3. w \in todo'[r]
    BY <2>1, <2>2 DEF Visits, Selects, Visit
  <2> QED  BY <2>3
<1>a. ASSUME Acts(r), quiet[r]
      PROVE  Settles(r, s)'
  <2>0. /\ Skip(r) \/ Enter(r) \/ Execute(r) \/ Record(r) \/ Stamp(r)
        /\ asked' = asked /\ ~broken[r]
    <3>1. broken'[r] = FALSE
      BY DEF FullPlain, RunsShaped
    <3>2. ~Embed(r)
      BY DEF Embed, RunsShaped, Visiting
    <3> QED  BY <1>a, <3>1, <3>2, Proceeds
  <2>1. FullPlain(r) /\ Visiting(r)
    BY <1>a, <2>0 DEF FullPlain, Visiting, Skip, Enter, Execute, Record, Stamp
  <2>2. w \notin todo[r] => Settles(r, s)
    BY <2>1 DEF Done
  <2>3. w \in Visits(asked[r].sel, asked[r].mode)
    BY <2>1 DEF FullPlain, Visits, Selects, Visit
  <2>4. todo[r] # {} => Due(r).env = Base
    BY <2>1, DueFacts DEF FullPlain, Visits
  <2>k. file' = file => Current(w)' = Current(w)
    BY <1>0, CurrentKept
  <2>5. CASE Skip(r)
    <3>1. file' = file /\ mem' = mem /\ todo'[r] = todo[r] \ {Due(r)} /\ todo[r] # {}
      BY <2>5 DEF Skip, RunsShaped
    <3>2. w = Due(r) => Settles(r, s)
      BY <1>0, <2>5, NotStale DEF Skip, IsStepStale
    <3> QED  BY <2>2, <2>k, <3>1, <3>2
  <2>6. CASE Enter(r)
    BY <2>2, <2>6, <2>k DEF Enter
  <2>7. CASE Execute(r)
    <3> DEFINE v == Due(r)
    <3>1. /\ todo[r] # {} /\ todo'[r] = todo[r] /\ mem' = mem
          /\ \E x : file' = [file EXCEPT ![Out(v)] = x]
      BY <2>7 DEF Execute, RunsShaped, Working
    <3>2. Out(v) \notin Needs(w) /\ Out(v) # Out(w)
      BY <1>0, <2>3, <2>4, <3>1, DoneUnread
    <3>3. Needs(w) \cup {Out(w)} \subseteq Files
      BY <1>0, VisitFacts, SlotFacts
    <3> HIDE DEF v
    <3>4. \A f \in Needs(w) \cup {Out(w)} : file'[f] = file[f]
      BY <3>1, <3>2, <3>3 DEF FilesShaped, IsFcn
    <3>5. Current(w)' = Current(w)
      BY <1>0, <3>4, CurrentKept
    <3> QED  BY <2>2, <3>1, <3>5
  <2>8. CASE Record(r)
    <3> DEFINE v == Due(r)
               st == RecordStepState(r, v)
    <3>1. /\ todo[r] # {} /\ v \in [step : Steps, env : Envs] /\ v.env = Base
          /\ v = Visit(v.step, Base)
      BY <2>4, <2>8, DueFacts, VisitFacts DEF Record, RunsShaped, Working
    <3>2. /\ mem'[r] = st /\ todo'[r] = todo[r] \ {v} /\ file' = file
          /\ pc[r] = "record"
      BY <2>8 DEF Record, BuildsShaped, IsFcn, RunsShaped
    <3>3. CASE w = v
      <4>1. file[Out(v)] = Made(cfg[r], v.env, Inputs(v.step))
        BY <1>a, <3>2 DEF Quiet, Exact, Working
      <4>2. Current(v)
        BY <4>1, MadeContent DEF Current
      <4> QED  BY <2>k, <3>2, <3>3, <4>2
    <3>4. CASE w # v
      <4>1. Out(w) # Out(v) /\ Out(w) \in Slots
        BY <1>0, <3>1, <3>4, VisitFacts
      <4>2. st.rec[Out(w)] = mem[r].rec[Out(w)]
        BY <3>1, <4>1, RecordBuild
      <4> HIDE DEF st
      <4> QED  BY <1>0, <2>2, <2>k, <3>2, <3>4, <4>2
    <3> QED  BY <3>3, <3>4
  <2>9. CASE Stamp(r)
    <3>1. mem'[r] = Stamped(r) /\ file' = file /\ todo' = todo
      BY <2>9 DEF Stamp, Stamped, BuildsShaped, IsFcn
    <3>2. mem'[r].rec = mem[r].rec
      BY <3>1, StampBuild
    <3> QED  BY <2>2, <2>k, <3>1, <3>2
  <2> QED  BY <2>0, <2>5, <2>6, <2>7, <2>8, <2>9
<1>n. CASE UNCHANGED vars
  <2>1. FullPlain(r) /\ (Visiting(r) \/ pc[r] = "embed") /\ w \notin todo[r]
    BY <1>n DEF FullPlain, Visiting, vars, run, past
  <2>2. Settles(r, s)
    BY <2>1 DEF Done
  <2>3. Current(w)' = Current(w)
    BY <1>n, <1>0, CurrentKept DEF vars
  <2> QED  BY <1>n, <2>2, <2>3 DEF vars, run
<1>q. quiet'[r] /\ pc'[r] # "idle"
  BY DEF FullPlain, Visiting
<1> QED  BY <1>l, <1>a, <1>n, <1>q, QuietSelf

\* When a full plain run that nobody disturbed comes to its end, every output
\* is current, all the way from the sources, but where a record is doubtful.
THEOREM SuccessIsAllCurrent ==
  ASSUME Markers, NoComparison
  PROVE  Spec => []SuccessIsCurrent
<1> USE Markers, NoComparison
<1>1. Init => RInv /\ Quiet /\ Done
  <2> SUFFICES ASSUME Init  PROVE Quiet /\ Done
    BY RInvInit
  <2>1. \A r \in Runs : pc[r] = "idle" /\ ~dirty[r] /\ ~quiet[r]
    BY DEF Init
  <2> QED  BY <2>1 DEF Quiet, Rested, Whole, Left, Exact, Working, Done, FullPlain
<1>2. RInv /\ Quiet /\ Done /\ [Next]_vars => (RInv /\ Quiet /\ Done)'
  BY RInvStep, QuietStep, DoneStep DEF RInv
<1>3. RInv /\ Quiet /\ Done => SuccessIsCurrent
  <2> SUFFICES ASSUME RInv, Quiet, Done, NEW r \in Runs,
                      pc[r] = "embed", quiet[r],
                      asked[r].sel = "all", asked[r].mode = "plain",
                      NEW s \in Steps
               PROVE  Current(Visit(s, Base)) \/ mem[r].rec[Slot(s, Base)].doubt
    BY DEF SuccessIsCurrent
  <2>1. FullPlain(r) /\ todo[r] = {}
    BY DEF FullPlain, Quiet, Whole, RInv, Shaped, RunsShaped, Visiting
  <2> QED  BY <2>1 DEF Done
<1> QED  BY <1>1, <1>2, <1>3, PTL DEF Spec

-------------------------------------------------------------------------------
(* Nothing is left to do after a full plain run.                           *)

\* Inputs are files that embedding leaves alone.
LEMMA InputsPlain ==
  ASSUME NEW s \in Steps, NEW f \in Reads[s]
  PROVE  Slot(f, Base) \in Files \ Figures
<1>1. f \in Sources \cup Steps
  BY ReadsAssumption
<1>2. f \in Steps => f \notin Visuals
  BY ReadsEarlier
<1> QED  BY <1>1, <1>2, SlotFacts

\* Writing a visual output, or none, changes no step's inputs.
LEMMA InputsKept ==
  ASSUME \A f \in Files \ Figures : file'[f] = file[f]
  PROVE  \A s \in Steps : Inputs(s)' = Inputs(s)
<1> SUFFICES ASSUME NEW s \in Steps  PROVE Inputs(s)' = Inputs(s)
  OBVIOUS
<1>1. \A f \in Reads[s] : file'[Slot(f, Base)] = file[Slot(f, Base)]
  BY InputsPlain
<1> QED  BY <1>1 DEF Inputs

\* What leaves a step, its record and its inputs alone leaves it fresh.
LEMMA FreshKept ==
  ASSUME NEW r \in Runs, NEW s \in Steps, FreshAt(r, s),
         mem'[r].rec[Slot(s, Base)] = mem[r].rec[Slot(s, Base)],
         file'[Slot(s, Base)] = file[Slot(s, Base)], Inputs(s)' = Inputs(s),
         cfg'[r] = cfg[r], pc'[r] # "refresh" \/ pc'[r] = pc[r], pc[r] # "refresh" \/ pc'[r] = pc[r]
  PROVE  FreshAt(r, s)'
<1>1. (pc[r] = "refresh")' <=> pc[r] = "refresh"
  OBVIOUS
<1>2. /\ Kept(mem[r], s) => Kept(mem[r], s)'
      /\ Known(mem[r], s) => Known(mem[r], s)'
  BY DEF Kept, Known
<1>3. Marked(s, cfg[r]) => Marked(s, cfg[r])'
  BY <1>1 DEF FreshAt, Marked, IsMade
<1>4. s \in Uncached \ Visuals =>
        file'[Slot(s, Base)] = Made(cfg[r], Base, Inputs(s))'
  BY DEF FreshAt, Made
<1> QED  BY <1>1, <1>2, <1>3, <1>4 DEF FreshAt

\* Embedding leaves inputs alone and marks the figures that are made.
LEMMA EmbedFacts ==
  ASSUME Markers, Shaped, NEW r \in Runs, Embed(r)
  PROVE  /\ \A s \in Steps : Inputs(s)' = Inputs(s)
         /\ \A s \in Steps \ Visuals : file'[Slot(s, Base)] = file[Slot(s, Base)]
         /\ \A s \in Visuals : file'[Slot(s, Base)] = Tagged(r, Slot(s, Base))
         /\ \A s \in Visuals :
              file[Slot(s, Base)] # Missing => file'[Slot(s, Base)] # Missing
         /\ \A s \in Visuals \ Expanded :
              /\ IsMade(file'[Slot(s, Base)]) =>
                   file'[Slot(s, Base)].mark = [cfg |-> cfg[r], ins |-> Inputs(s)]
              /\ Marked(s, cfg[r]) => file'[Slot(s, Base)] = file[Slot(s, Base)]
<1>1. \A f \in Files : file'[f] = IF f \in Figures THEN Tagged(r, f) ELSE file[f]
  BY DEF Embed
<1>2. \A s \in Steps : Inputs(s)' = Inputs(s)
  BY <1>1, InputsKept
<1>3. \A s \in Steps : /\ Slot(s, Base) \in Slots /\ Slot(s, Base) \in Files
                       /\ Slot(s, Base)[1] = s /\ Slot(s, Base)[2] = Base
                       /\ Slot(s, Base) \in Figures <=> s \in Visuals
  BY SlotFacts DEF Figures
<1>4. ASSUME NEW s \in Visuals
      PROVE  /\ file'[Slot(s, Base)] = Tagged(r, Slot(s, Base))
             /\ file[Slot(s, Base)] # Missing => file'[Slot(s, Base)] # Missing
             /\ s \notin Expanded =>
                  /\ IsMade(file'[Slot(s, Base)]) =>
                       file'[Slot(s, Base)].mark = [cfg |-> cfg[r], ins |-> Inputs(s)]
                  /\ Marked(s, cfg[r]) => file'[Slot(s, Base)] = file[Slot(s, Base)]
  <2> DEFINE o == Slot(s, Base)
             x == file[o]
             y == Tagged(r, o)
  <2>1. o \in Slots /\ o[1] = s /\ o[2] = Base /\ file'[o] = y
    BY <1>1, <1>3 DEF Visuals
  <2>2. CASE ~IsMade(x)
    <3>1. y = x
      BY <2>1, <2>2, TaggedContent DEF Shaped
    <3> QED  BY <2>1, <2>2, <3>1
  <2>3. CASE IsMade(x)
    <3>1. /\ IsMade(y) /\ IsContent(y) /\ IsContent(x)
          /\ y.cfg = x.cfg /\ y.env = x.env /\ y.ins = x.ins
          /\ s \notin Expanded => y.mark = [cfg |-> cfg[r], ins |-> Inputs(s)]
      <4>1. FilesShaped /\ IsContent(file[o])
        BY <2>1, <2>3 DEF Shaped, FilesShaped
      <4>2. /\ IsMade(Tagged(r, o)) /\ IsContent(Tagged(r, o))
            /\ Tagged(r, o).cfg = file[o].cfg /\ Tagged(r, o).env = file[o].env
            /\ Tagged(r, o).ins = file[o].ins
            /\ Tagged(r, o).mark =
                 [cfg |-> cfg[r],
                  ins |-> IF o[2] = Base /\ o[1] \notin Expanded
                            THEN Inputs(o[1]) ELSE None]
        BY <2>1, <2>3, <4>1, TaggedContent
      <4> QED  BY <2>1, <4>1, <4>2
    <3>2. s \notin Expanded /\ Marked(s, cfg[r]) => y.mark = x.mark
      BY <2>3, <3>1 DEF Marked
    <3> HIDE DEF x, y
    <3>3. s \notin Expanded /\ Marked(s, cfg[r]) => y = x
      BY <3>1, <3>2 DEF IsContent
    <3>4. y # Missing
      BY <3>1 DEF IsMade
    <3> QED  BY <2>1, <3>1, <3>3, <3>4 DEF x, y
  <2> QED  BY <2>2, <2>3
<1> QED  BY <1>1, <1>2, <1>3, <1>4

\* What a full plain run has done with stays as recorded.
LEMMA FreshStep ==
  ASSUME Markers, Shaped, Ordered, Quiet, Fresh, [Next]_vars
  PROVE  Fresh'
<1> USE DEF Shaped
<1> SUFFICES ASSUME NEW r \in Runs, FullPlain(r)', pc'[r] # "idle"
             PROVE  /\ \A s \in Steps : Visit(s, Base) \notin todo'[r] => FreshAt(r, s)'
                    /\ pc'[r] \in {"embed", "refresh"} => mem'[r].hash = cfg'[r]
  BY DEF Fresh
<1> DEFINE Goal == /\ \A s \in Steps : Visit(s, Base) \notin todo'[r] => FreshAt(r, s)'
                   /\ pc'[r] \in {"embed", "refresh"} => mem'[r].hash = cfg'[r]
<1>0. \A s \in Steps :
        LET w == Visit(s, Base) IN
          /\ w \in [step : Steps, env : Envs] /\ w.step = s /\ w.env = Base
          /\ Out(w) = Slot(s, Base) /\ Slot(s, Base) \in Slots
          /\ Slot(s, Base) \in Files
  BY SlotFacts DEF Visit, Envs, Out
<1>l. ASSUME NEW q \in Requests, Launch(r, q)
      PROVE  Goal
  <2>1. /\ asked'[r] = [sel |-> q[1], force |-> q[2], mode |-> q[3]]
        /\ todo'[r] = Visits(q[1], q[3]) /\ pc'[r] = "visit"
    BY <1>l DEF Launch, RunsShaped
  <2>2. q[1] = "all" /\ q[3] = "plain"
    BY <2>1 DEF FullPlain
  <2>3. \A s \in Steps : Visit(s, Base) \in todo'[r]
    BY <2>1, <2>2 DEF Visits, Selects, Visit
  <2> QED  BY <2>1, <2>3
<1>a. ASSUME Acts(r), quiet[r]
      PROVE  Goal
  <2>0. /\ Skip(r) \/ Enter(r) \/ Execute(r) \/ Record(r) \/ Stamp(r) \/ Embed(r)
        /\ asked' = asked /\ cfg' = cfg /\ ~broken[r]
    <3>1. broken'[r] = FALSE
      BY DEF FullPlain, RunsShaped
    <3>2. pc' \in [Runs -> {"idle", "visit", "execute", "record", "embed", "refresh"}]
      BY RunsStep DEF RunsShaped
    <3>3. Visiting(r)' \/ pc'[r] \in {"embed", "refresh"}
      BY <3>2 DEF Visiting
    <3> QED  BY <1>a, <3>1, <3>3, Proceeds
  <2>1. FullPlain(r) /\ pc[r] # "idle"
    BY <1>a, <2>0, ActsLocally DEF FullPlain
  <2>2. /\ \A s \in Steps : Visit(s, Base) \notin todo[r] => FreshAt(r, s)
        /\ pc[r] \in {"embed", "refresh"} => mem[r].hash = cfg[r]
    BY <2>1 DEF Fresh
  <2>3. \A s \in Steps : Visit(s, Base) \in Visits(asked[r].sel, asked[r].mode)
    BY <2>1 DEF FullPlain, Visits, Selects, Visit
  <2>4. todo[r] # {} => /\ Due(r).env = Base /\ Due(r).step \in Steps
                        /\ Due(r) = Visit(Due(r).step, Base)
                        /\ Due(r) \in [step : Steps, env : Envs]
                        /\ Out(Due(r)) = Slot(Due(r).step, Base)
                        /\ Signature(r, Due(r)) =
                             [ins |-> Inputs(Due(r).step), env |-> Base]
    <3>1. todo[r] # {} => /\ Due(r) \in [step : Steps, env : Envs]
                          /\ Due(r).env = Base
      BY <2>1, DueFacts DEF FullPlain, Visits
    <3> QED  BY <2>1, <3>1, VisitFacts DEF Signature, FullPlain
  <2>k. file' = file => \A s \in Steps : Inputs(s)' = Inputs(s)
    BY DEF Inputs
  <2>5. CASE Skip(r)
    <3>1. /\ UNCHANGED <<file, mem, pc>> /\ todo'[r] = todo[r] \ {Due(r)}
          /\ pc[r] = "visit" /\ todo[r] # {}
      BY <2>5 DEF Skip, RunsShaped
    <3>2. FreshAt(r, Due(r).step)
      <4> DEFINE old == mem[r].rec[Out(Due(r))]
      <4>1. /\ old # None /\ old.sig = Signature(r, Due(r))
            /\ old.outs = file[Out(Due(r))] /\ file[Out(Due(r))] # Missing
            /\ Due(r).step \notin Uncached
        BY <2>5 DEF Skip, IsStepStale
      <4> QED  BY <2>4, <3>1, <4>1 DEF FreshAt, Kept, Known
    <3>3. \A s \in Steps : Visit(s, Base) \notin todo'[r] => FreshAt(r, s)
      BY <2>2, <2>4, <3>1, <3>2, <1>0
    <3> QED  BY <2>0, <2>k, <3>1, <3>3, FreshKept
  <2>6. CASE Enter(r)
    <3>1. /\ UNCHANGED <<file, mem, todo>> /\ pc[r] = "visit" /\ pc'[r] = "execute"
      BY <2>6 DEF Enter, RunsShaped
    <3> QED  BY <2>0, <2>2, <2>k, <3>1, FreshKept
  <2>7. CASE Execute(r)
    <3> DEFINE v == Due(r)
    <3>1. /\ todo[r] # {} /\ todo' = todo /\ mem' = mem
          /\ pc[r] = "execute" /\ pc'[r] = "record"
          /\ \E x : file' = [file EXCEPT ![Out(v)] = x]
      BY <2>7 DEF Execute, RunsShaped, Working
    <3>2. ASSUME NEW s \in Steps, Visit(s, Base) \notin todo'[r]
          PROVE  FreshAt(r, s)'
      <4> DEFINE w == Visit(s, Base)
      <4>1. Out(v) \notin Needs(w) /\ Out(v) # Out(w)
        BY <1>0, <2>3, <2>4, <3>1, <3>2, DoneUnread
      <4>2. Needs(w) \cup {Out(w)} \subseteq Files
        BY <1>0, VisitFacts, SlotFacts
      <4> HIDE DEF v
      <4>3. \A f \in Needs(w) \cup {Out(w)} : file'[f] = file[f]
        BY <3>1, <4>1, <4>2 DEF FilesShaped, IsFcn
      <4>4. Inputs(s)' = Inputs(s) /\ file'[Slot(s, Base)] = file[Slot(s, Base)]
        BY <1>0, <2>0, <4>3, UntouchedKept
      <4> QED  BY <2>0, <2>2, <3>1, <3>2, <4>4, FreshKept
    <3> QED  BY <3>1, <3>2
  <2>8. CASE Record(r)
    <3> DEFINE v == Due(r)
               st == RecordStepState(r, v)
    <3>1. /\ todo[r] # {} /\ pc[r] = "record" /\ pc'[r] = "visit"
          /\ mem'[r] = st /\ todo'[r] = todo[r] \ {v} /\ file' = file
          /\ file[Out(v)] # Missing
      BY <2>8 DEF Record, BuildsShaped, IsFcn, RunsShaped, Working
    <3>2. /\ st.rec[Out(v)] =
               [sig |-> sig[r], outs |-> file[Out(v)], doubt |-> dirty[r]]
          /\ \A o \in Slots : o # Out(v) => st.rec[o] = mem[r].rec[o]
      BY <2>4, <3>1, RecordBuild
    <3>3. /\ sig[r] = [ins |-> Inputs(v.step), env |-> Base]
          /\ file[Out(v)] = Made(cfg[r], Base, Inputs(v.step))
      BY <1>a, <2>4, <3>1 DEF Quiet, Exact, Working
    <3>n. [sig |-> sig[r], outs |-> file[Out(v)], doubt |-> dirty[r]] # None
      BY DEF Markers
    <3> HIDE DEF st
    <3>4. ASSUME NEW x, x = v.step  PROVE FreshAt(r, x)'
      <4> DEFINE s == v.step
                 e == [sig |-> sig[r], outs |-> file[Out(v)], doubt |-> dirty[r]]
      <4>0. Out(v) = Slot(s, Base) /\ s \in Steps
        BY <2>4, <3>1
      <4>1. mem'[r].rec[Slot(s, Base)] = e /\ e # None
        BY <3>1, <3>2, <3>n, <4>0
      <4>2. e.sig = [ins |-> Inputs(s), env |-> Base] /\ e.outs = file[Slot(s, Base)]
        BY <3>3, <4>0
      <4>3. file[Slot(s, Base)] = Made(cfg[r], Base, Inputs(s))
            /\ file[Slot(s, Base)] # Missing
        BY <3>1, <3>3, <4>0
      <4>4. \A u \in Steps : Inputs(u)' = Inputs(u)
        BY <2>k, <3>1
      <4> HIDE DEF e, v
      <4>5. x = s /\ x \in Steps /\ Inputs(x)' = Inputs(x)
        BY <3>4, <4>0, <4>4
      <4>6. Kept(mem[r], x)'
        BY <3>1, <4>1, <4>2, <4>3, <4>5 DEF Kept, Known
      <4>7. file'[Slot(x, Base)] = Made(cfg[r], Base, Inputs(x))'
        BY <2>0, <3>1, <4>3, <4>5 DEF Made
      <4> QED  BY <3>1, <4>6, <4>7 DEF FreshAt
    <3>5. ASSUME NEW s \in Steps, Visit(s, Base) \notin todo'[r]
          PROVE  FreshAt(r, s)'
      <4>1. CASE Visit(s, Base) = v
        <5>1. s = v.step
          BY <1>0, <4>1
        <5> QED  BY <3>4, <5>1
      <4>2. CASE Visit(s, Base) # v
        <5>1. s # v.step
          BY <2>4, <3>1, <4>2
        <5>2. Slot(s, Base) # Out(v)
          BY <2>4, <3>1, <5>1, SlotFacts
        <5>3. mem'[r].rec[Slot(s, Base)] = mem[r].rec[Slot(s, Base)]
          BY <1>0, <3>1, <3>2, <5>2
        <5> QED  BY <2>0, <2>2, <2>k, <3>1, <3>5, <4>2, <5>3, FreshKept
      <4> QED  BY <4>1, <4>2
    <3> QED  BY <3>1, <3>5
  <2>9. CASE Stamp(r)
    <3>1. /\ mem'[r] = Stamped(r) /\ file' = file /\ todo' = todo
          /\ pc[r] = "visit" /\ pc'[r] = "embed"
      BY <2>9 DEF Stamp, Stamped, BuildsShaped, IsFcn, RunsShaped
    <3>2. mem'[r].rec = mem[r].rec /\ mem'[r].hash = cfg[r]
      BY <3>1, StampBuild
    <3> QED  BY <2>0, <2>2, <2>k, <3>1, <3>2, FreshKept
  <2>10. CASE Embed(r)
    <3>1. /\ mem' = mem /\ todo' = todo /\ pc[r] = "embed" /\ pc'[r] = "refresh"
      BY <2>10 DEF Embed, RunsShaped
    <3>2. ASSUME NEW s \in Steps, FreshAt(r, s)
          PROVE  FreshAt(r, s)'
      <4>0. Inputs(s)' = Inputs(s)
        BY <2>10, EmbedFacts
      <4>1. CASE s \notin Visuals
        <5>1. file'[Slot(s, Base)] = file[Slot(s, Base)]
          BY <2>10, <4>1, EmbedFacts
        <5> QED  BY <2>0, <3>1, <3>2, <4>0, <4>1, <5>1 DEF FreshAt, Kept, Known, Made
      <4>2. CASE s \in Visuals
        <5>1. s \notin Expanded =>
                /\ file[Slot(s, Base)] # Missing => file'[Slot(s, Base)] # Missing
                /\ IsMade(file'[Slot(s, Base)]) =>
                     file'[Slot(s, Base)].mark = [cfg |-> cfg[r], ins |-> Inputs(s)]
          BY <2>10, <4>2, EmbedFacts
        <5>2. s \notin Uncached \cup Expanded => Marked(s, cfg[r])'
          BY <2>0, <4>0, <5>1 DEF Marked, IsMade
        <5>3. s \notin Uncached \cup Expanded =>
                Known(mem[r], s)'
          BY <3>1, <3>2, <4>0, <4>2, <5>1 DEF FreshAt, Kept, Known
        <5> QED  BY <3>1, <4>2, <5>2, <5>3 DEF FreshAt
      <4> QED  BY <4>1, <4>2
    <3> QED  BY <2>0, <2>2, <3>1, <3>2
  <2> QED  BY <2>0, <2>5, <2>6, <2>7, <2>8, <2>9, <2>10
<1>n. CASE UNCHANGED vars
  <2>1. FullPlain(r) /\ pc[r] # "idle" /\ UNCHANGED <<file, mem, cfg, pc, todo>>
    BY <1>n DEF FullPlain, vars, run, past
  <2>2. \A s \in Steps : Inputs(s)' = Inputs(s)
    BY <2>1 DEF Inputs
  <2> QED  BY <2>1, <2>2, FreshKept DEF Fresh
<1>q. quiet'[r]
  BY DEF FullPlain
<1> QED  BY <1>l, <1>a, <1>n, <1>q, QuietSelf

\* The outputs that nothing has to be done for, once it is settled.
Firm == (Steps \ (Uncached \cup Expanded)) \cup (Uncached \ Visuals)

\* What leaves those, and the inputs, alone leaves everything settled.
LEMMA GoodKept ==
  ASSUME config' = config, \A s \in Steps : Inputs(s)' = Inputs(s),
         \A s \in Firm : file'[Slot(s, Base)] = file[Slot(s, Base)]
  PROVE  /\ \A st : Good(st) =>
              /\ st.hash \in {None, config'}
              /\ \A s \in Steps \ (Uncached \cup Expanded) : Kept(st, s)'
         /\ GoodFiles => GoodFiles'
<1>1. Steps \ (Uncached \cup Expanded) \subseteq Firm /\ Uncached \ Visuals \subseteq Firm
      /\ Uncached \subseteq Steps
      /\ Visuals \ (Uncached \cup Expanded) \subseteq Steps \ (Uncached \cup Expanded)
  BY FilesAssumption DEF Firm, Visuals
<1>2. ASSUME NEW st, Good(st), NEW s \in Steps \ (Uncached \cup Expanded)
      PROVE  Kept(st, s)'
  BY <1>1, <1>2 DEF Good, Kept, Known
<1>3. ASSUME GoodFiles, NEW s \in Visuals \ (Uncached \cup Expanded)
      PROVE  Marked(s, config)'
  <2>1. s \in Firm /\ s \in Steps /\ Marked(s, config)
    BY <1>1, <1>3 DEF GoodFiles
  <2> QED  BY <2>1 DEF Marked, IsMade
<1>4. ASSUME GoodFiles, NEW s \in Uncached \ Visuals
      PROVE  file'[Slot(s, Base)] = Made(config, Base, Inputs(s))'
  <2>1. s \in Firm /\ s \in Steps
    BY <1>1
  <2> QED  BY <1>4, <2>1 DEF GoodFiles, Made
<1>5. GoodFiles => GoodFiles'
  BY <1>3, <1>4 DEF GoodFiles
<1> QED  BY <1>2, <1>5 DEF Good

\* A build state is good by what it says of the files as they are.
LEMMA GoodBuild ==
  ASSUME NEW st, st.hash \in {None, config},
         \A s \in Steps \ (Uncached \cup Expanded) : Kept(st, s)
  PROVE  Good(st)
  BY DEF Good

\* A build state that is not written stays good.
LEMMA GoodSame ==
  ASSUME config' = config, \A s \in Steps : Inputs(s)' = Inputs(s),
         \A s \in Firm : file'[Slot(s, Base)] = file[Slot(s, Base)]
  PROVE  /\ Good(disk) /\ disk' = disk => Good(disk)'
         /\ \A r \in Runs : Good(mem[r]) /\ mem'[r] = mem[r] => Good(mem[r])'
<1>1. Good(disk) /\ disk' = disk => Good(disk)'
  BY GoodKept DEF Good, Kept, Known
<1>2. \A r \in Runs : Good(mem[r]) /\ mem'[r] = mem[r] => Good(mem[r])'
  BY GoodKept DEF Good, Kept, Known
<1> QED  BY <1>1, <1>2

\* The steps of a run change nothing that is settled.
LEMMA FilesSettled ==
  ASSUME Markers, Shaped, settled, Calm, NEW k \in Runs, Acts(k),
         ~ExecuteFails(k), ~EmbedFails(k)
  PROVE  /\ \A s \in Steps : Inputs(s)' = Inputs(s)
         /\ \A s \in Firm : file'[Slot(s, Base)] = file[Slot(s, Base)]
<1> USE DEF Shaped
<1>f. \A s \in Firm : s \in Steps /\ Slot(s, Base) \in Files
  BY SlotFacts, FilesAssumption DEF Firm
<1>k. Idles(k) /\ GoodFiles /\ pc[k] # "idle"
  BY ActsLocally DEF Calm
<1>1. CASE Execute(k)
  <2> DEFINE v == Due(k)
             x == Made(cfg[k], v.env, Inputs(v.step))
  <2>1. /\ v \in [step : Steps, env : Envs] /\ v.env = Base
        /\ v.step \in Uncached \cup Expanded /\ v.step \in Steps
        /\ Out(v) = Slot(v.step, Base) /\ Out(v) \in Files /\ cfg[k] = config
    <3>1. /\ Working(k) /\ todo[k] # {} /\ asked[k].mode = "plain" /\ cfg[k] = config
          /\ v.step \in Uncached \cup Expanded
      BY <1>1, <1>k DEF Execute, RunsShaped, Working, Idles
    <3>2. v \in [step : Steps, env : Envs] /\ v.env = Base /\ v.step \in Steps
      BY <3>1, DueFacts DEF Visits
    <3> QED  BY <3>1, <3>2, VisitFacts, SlotFacts
  <2>2. file' = [file EXCEPT ![Out(v)] = x]
    BY <1>1 DEF Execute
  <2>3. CASE v.step \in Uncached \ Visuals
    <3>1. file[Out(v)] = x
      BY <1>k, <2>1, <2>3 DEF GoodFiles
    <3>2. file' = file
      BY <2>2, <3>1 DEF FilesShaped, IsFcn
    <3> QED  BY <3>2 DEF Inputs
  <2>4. CASE v.step \in Visuals
    <3>1. Out(v) \in Figures
      BY <2>1, <2>4, SlotFacts DEF Figures
    <3> HIDE DEF x
    <3>2. \A f \in Files \ {Out(v)} : file'[f] = file[f]
      BY <2>2 DEF FilesShaped, IsFcn
    <3>3. \A s \in Steps : Inputs(s)' = Inputs(s)
      BY <3>1, <3>2, InputsKept
    <3>4. \A s \in Firm : Slot(s, Base) # Out(v)
      <4>1. v.step \notin Firm
        BY <2>1, <2>4 DEF Firm
      <4> QED  BY <2>1, <4>1, SlotFacts
    <3> QED  BY <1>f, <3>2, <3>3, <3>4
  <2>5. Expanded \subseteq Visuals
    BY FilesAssumption
  <2> QED  BY <2>1, <2>3, <2>4, <2>5
<1>2. CASE Embed(k)
  <2>1. \A s \in Steps : Inputs(s)' = Inputs(s)
    BY <1>2, EmbedFacts
  <2>2. ASSUME NEW s \in Firm  PROVE file'[Slot(s, Base)] = file[Slot(s, Base)]
    <3>1. CASE s \notin Visuals
      BY <1>2, <1>f, <3>1, EmbedFacts
    <3>2. CASE s \in Visuals
      <4>1. s \in Visuals \ (Uncached \cup Expanded)
        BY <3>2 DEF Firm
      <4>2. Marked(s, cfg[k])
        BY <1>k, <4>1 DEF GoodFiles, Idles
      <4> QED  BY <1>2, <4>1, <4>2, EmbedFacts
    <3> QED  BY <3>1, <3>2
  <2> QED  BY <2>1, <2>2
<1>3. CASE ~Execute(k) /\ ~Embed(k)
  <2>1. file' = file
    BY <1>3 DEF Acts, Skip, Enter, Record, Stamp, Refresh, Fail, Refuse, FinishBroken,
       Crash, Halt
  <2> QED  BY <2>1 DEF Inputs
<1> QED  BY <1>1, <1>2, <1>3

\* A run that does nothing goes on having nothing to do.
LEMMA IdlesKept ==
  ASSUME NEW r \in Runs, Idles(r), config' = config,
         \A s \in Steps : Inputs(s)' = Inputs(s),
         \A s \in Firm : file'[Slot(s, Base)] = file[Slot(s, Base)],
         pc'[r] = pc[r], mem'[r] = mem[r], cfg'[r] = cfg[r], asked'[r] = asked[r],
         todo'[r] = todo[r]
  PROVE  Idles(r)'
<1>1. pc[r] # "idle" => Good(mem[r])'
  BY GoodSame DEF Idles
<1>2. Due(r)' = Due(r)
  BY DueKept
<1> QED  BY <1>1, <1>2 DEF Idles, Working

\* A settled run never finds a step to be stale that matters.
LEMMA SettledNotStale ==
  ASSUME Shaped, NEW r \in Runs, Idles(r), pc[r] = "visit", todo[r] # {},
         Due(r).step \notin Uncached \cup Expanded
  PROVE  ~IsStepStale(r, Due(r))
<1> DEFINE v == Due(r)
<1>1. /\ v \in [step : Steps, env : Envs] /\ v.env = Base /\ v.step \in Steps
      /\ asked[r].force = FALSE /\ asked[r].mode = "plain" /\ Good(mem[r])
      /\ cfg[r] = config
  <2>1. asked[r].mode = "plain"
    BY DEF Idles
  <2> QED  BY <2>1, DueFacts DEF Idles, Shaped, Visits
<1>2. Out(v) = Slot(v.step, Base) /\ Signature(r, v) = [ins |-> Inputs(v.step), env |-> Base]
  BY <1>1, VisitFacts DEF Signature
<1>3. Kept(mem[r], v.step) /\ mem[r].hash \in {None, config}
  BY <1>1 DEF Good
<1> QED  BY <1>1, <1>2, <1>3 DEF IsStepStale, Kept, Known

\* A full plain run settles things, and other runs leave them so.
LEMMA CalmStep ==
  ASSUME Markers, Shaped, Quiet, Fresh, Calm, [Next]_vars
  PROVE  Calm'
<1> USE DEF Shaped
<1> SUFFICES ASSUME settled'
             PROVE  Good(disk)' /\ GoodFiles' /\ \A r \in Runs : Idles(r)'
  BY DEF Calm
<1> DEFINE Goal == Good(disk)' /\ GoodFiles' /\ \A r \in Runs : Idles(r)'
<1>s. ASSUME UNCHANGED <<file, config>>
      PROVE  /\ \A s \in Steps : Inputs(s)' = Inputs(s)
             /\ \A s \in Firm : file'[Slot(s, Base)] = file[Slot(s, Base)]
  BY <1>s DEF Inputs
<1>l. ASSUME NEW k \in Runs, NEW q \in Requests, Launch(k, q)
      PROVE  Goal
  <2>1. /\ UNCHANGED <<file, config, disk>> /\ settled /\ q[2] = FALSE /\ q[3] = "plain"
        /\ pc'[k] = "visit" /\ mem'[k] = disk /\ cfg'[k] = config
        /\ asked'[k] = [sel |-> q[1], force |-> q[2], mode |-> q[3]]
    <3>1. q[2] \in BOOLEAN
      BY RequestsAssumption
    <3> QED  BY <1>l, <3>1 DEF Launch, RunsShaped, BuildsShaped, IsFcn
  <2>2. Good(disk) /\ GoodFiles /\ \A r \in Runs : Idles(r)
    BY <2>1 DEF Calm
  <2>3. Good(disk)' /\ GoodFiles'
    BY <1>s, <2>1, <2>2, GoodSame, GoodKept
  <2>4. Good(mem[k])'
    BY <2>1, <2>3 DEF Good, Kept, Known
  <2>5. Idles(k)'
    BY <2>1, <2>4 DEF Idles, Working
  <2>6. ASSUME NEW r \in Runs, r # k  PROVE Idles(r)'
    <3>1. /\ pc'[r] = pc[r] /\ mem'[r] = mem[r] /\ cfg'[r] = cfg[r]
          /\ asked'[r] = asked[r] /\ todo'[r] = todo[r]
      BY <1>l, <2>6 DEF Launch
    <3> QED  BY <1>s, <2>1, <2>2, <3>1, IdlesKept
  <2> QED  BY <2>3, <2>5, <2>6
<1>a. ASSUME NEW k \in Runs, Acts(k), settled
      PROVE  Goal
  <2>0. Good(disk) /\ GoodFiles /\ \A r \in Runs : Idles(r)
    BY <1>a DEF Calm
  <2>1. \/ Skip(k) \/ Enter(k) \/ Execute(k) \/ Record(k) \/ Stamp(k) \/ Embed(k)
        \/ Refresh(k)
    BY <1>a DEF Acts, ExecuteFails, EmbedFails, Fail, Refuse, FinishBroken, Crash, Halt
  <2>2. ~ExecuteFails(k) /\ ~EmbedFails(k)
    BY DEF ExecuteFails, EmbedFails
  <2>3. /\ config' = config /\ cfg' = cfg /\ pc[k] # "idle"
        /\ \A s \in Steps : Inputs(s)' = Inputs(s)
        /\ \A s \in Firm : file'[Slot(s, Base)] = file[Slot(s, Base)]
    BY <1>a, <2>2, ActsLocally, FilesSettled
  <2>4. GoodFiles'
    BY <2>0, <2>3, GoodKept
  <2>5. ASSUME NEW r \in Runs, r # k  PROVE Idles(r)'
    BY <1>a, <2>0, <2>3, <2>5, ActsLocally, IdlesKept
  <2>6. /\ Good(mem[k]) /\ cfg[k] = config
        /\ asked[k].force = FALSE /\ asked[k].mode = "plain"
        /\ Working(k) => Due(k).step \in Uncached \cup Expanded
        /\ mem[k].hash \in {None, config}
        /\ \A s \in Steps \ (Uncached \cup Expanded) : Kept(mem[k], s)
    BY <2>0, <2>3 DEF Idles, Good
  <2>7. \A s \in Steps : Slot(s, Base) \in Slots
    BY SlotFacts
  <2>b. ASSUME NEW st, st.hash \in {None, config},
               \A s \in Steps \ (Uncached \cup Expanded) : Kept(st, s)
        PROVE  /\ disk' = st => Good(disk)'
               /\ mem'[k] = st => Good(mem[k])'
    <3>1. \A s \in Steps \ (Uncached \cup Expanded) :
            LET e == st.rec[Slot(s, Base)] IN
              /\ e # None /\ e.sig = [ins |-> Inputs(s)', env |-> Base]
              /\ file'[Slot(s, Base)] # Missing
              /\ e.outs = file'[Slot(s, Base)]
      BY <2>b, <2>3 DEF Kept, Known, Firm
    <3> QED  BY <2>b, <2>3, <3>1 DEF Good, Kept, Known
  <2>d. disk' = disk => Good(disk)'
    BY <2>0, <2>3, GoodSame
  <2>m. mem'[k] = mem[k] => Good(mem[k])'
    BY <2>3, <2>6, GoodSame
  <2>8. CASE Skip(k)
    <3>1. UNCHANGED <<disk, mem, asked, pc>> /\ pc[k] = "visit"
      BY <2>8 DEF Skip
    <3> QED  BY <2>3, <2>4, <2>5, <2>6, <2>d, <2>m, <3>1 DEF Idles, Working
  <2>9. CASE Enter(k)
    <3>1. /\ UNCHANGED <<disk, mem, asked, todo>> /\ pc[k] = "visit" /\ todo[k] # {}
          /\ Due(k).step \in Uncached \/ IsStepStale(k, Due(k))
      BY <2>9 DEF Enter
    <3>2. Due(k).step \in Uncached \cup Expanded
      BY <2>0, <3>1, SettledNotStale
    <3>3. Due(k)' = Due(k)
      BY <3>1, DueKept
    <3> QED  BY <2>3, <2>4, <2>5, <2>6, <2>d, <2>m, <3>1, <3>2, <3>3 DEF Idles
  <2>10. CASE Execute(k)
    <3>1. /\ UNCHANGED <<disk, mem, asked, todo>> /\ pc[k] = "execute"
      BY <2>10 DEF Execute
    <3>2. Due(k)' = Due(k)
      BY <3>1, DueKept
    <3> QED  BY <2>3, <2>4, <2>5, <2>6, <2>d, <2>m, <3>1, <3>2 DEF Idles, Working
  <2>11. CASE Record(k)
    <3> DEFINE v == Due(k)
               st == RecordStepState(k, v)
    <3>1. /\ v \in [step : Steps, env : Envs] /\ v.step \in Uncached \cup Expanded
          /\ Out(v)[1] = v.step
      BY <2>6, <2>11, DueFacts, VisitFacts DEF Record, RunsShaped, Working
    <3>2. /\ mem'[k] = st /\ disk' \in {disk, st} /\ asked' = asked /\ pc'[k] = "visit"
      BY <2>11 DEF Record, Save, BuildsShaped, RunsShaped, IsFcn
    <3>3. /\ st.hash = cfg[k]
          /\ \A o \in Slots : o # Out(v) => st.rec[o] = mem[k].rec[o]
      BY <3>1, RecordBuild
    <3>4. \A s \in Steps \ (Uncached \cup Expanded) :
            st.rec[Slot(s, Base)] = mem[k].rec[Slot(s, Base)]
      BY <2>7, <3>1, <3>3, SlotFacts
    <3> HIDE DEF st
    <3>5. st.hash \in {None, config} /\
          \A s \in Steps \ (Uncached \cup Expanded) : Kept(st, s)
      BY <2>6, <3>3, <3>4 DEF Kept, Known
    <3>6. Good(mem[k])' /\ Good(disk)'
      BY <2>b, <2>d, <3>2, <3>5
    <3> QED  BY <2>3, <2>4, <2>5, <2>6, <3>2, <3>6 DEF Idles, Working
  <2>12. CASE Stamp(k)
    <3>1. /\ mem'[k] = Stamped(k) /\ disk' \in {disk, Stamped(k)} /\ asked' = asked
          /\ pc'[k] = "embed"
      BY <2>12 DEF Stamp, Save, Stamped, BuildsShaped, RunsShaped, IsFcn
    <3>2. Stamped(k).hash = cfg[k] /\ Stamped(k).rec = mem[k].rec
      BY StampBuild
    <3>3. Stamped(k).hash \in {None, config} /\
          \A s \in Steps \ (Uncached \cup Expanded) : Kept(Stamped(k), s)
      BY <2>6, <3>2 DEF Kept, Known
    <3>4. Good(mem[k])' /\ Good(disk)'
      BY <2>b, <2>d, <3>1, <3>3
    <3> QED  BY <2>3, <2>4, <2>5, <2>6, <3>1, <3>4 DEF Idles, Working
  <2>13. CASE Embed(k)
    <3>1. UNCHANGED <<disk, mem, asked>> /\ pc'[k] = "refresh"
      BY <2>13 DEF Embed, RunsShaped
    <3> QED  BY <2>3, <2>4, <2>5, <2>6, <2>d, <2>m, <3>1 DEF Idles, Working
  <2>14. CASE Refresh(k)
    <3>1. pc'[k] = "idle" /\ disk' = Refreshed(k)
      BY <2>14 DEF Refresh, Stop, Refreshed, RunsShaped
    <3>2. /\ Refreshed(k).hash = mem[k].hash
          /\ \A o \in Slots : Refreshed(k).rec[o] = RefreshedRecord(k, o)
      BY RefreshBuild
    <3>3. ASSUME NEW s \in Steps \ (Uncached \cup Expanded)
          PROVE  Kept(Refreshed(k), s)
      <4> DEFINE old == mem[k].rec[Slot(s, Base)]
                 d == old.doubt \/ Bare(old.outs) # Bare(file[Slot(s, Base)])
                 new == [sig |-> old.sig, outs |-> file[Slot(s, Base)], doubt |-> d]
      <4>1. /\ old # None /\ old.sig = [ins |-> Inputs(s), env |-> Base]
            /\ file[Slot(s, Base)] # Missing /\ old.outs = file[Slot(s, Base)]
        BY <2>6 DEF Kept, Known
      <4>2. RefreshedRecord(k, Slot(s, Base)) \in {old, new}
        BY DEF RefreshedRecord
      <4>3. new # None /\ new.sig = old.sig /\ new.outs = file[Slot(s, Base)]
        BY DEF Markers
      <4>4. Refreshed(k).rec[Slot(s, Base)] \in {old, new}
        BY <2>7, <3>2, <4>2
      <4> HIDE DEF old, new
      <4> QED  BY <4>1, <4>3, <4>4 DEF Kept, Known
    <3>4. Good(disk)'
      BY <2>6, <2>b, <3>1, <3>2, <3>3
    <3> QED  BY <2>4, <2>5, <3>1, <3>4 DEF Idles
  <2> QED  BY <2>1, <2>8, <2>9, <2>10, <2>11, <2>12, <2>13, <2>14
<1>f. ASSUME NEW k \in Runs, Acts(k), ~settled
      PROVE  Goal
  <2>1. Refresh(k)
    BY <1>f DEF Acts, Skip, Enter, Execute, ExecuteFails, Record, Stamp, Embed,
       EmbedFails, Fail, Refuse, FinishBroken, Crash, Halt, past
  <2>2. /\ disk' = Refreshed(k) /\ quiet[k] /\ pc[k] = "refresh" /\ pc'[k] = "idle"
        /\ asked[k].sel = "all" /\ asked[k].mode = "plain"
        /\ UNCHANGED <<config, file, cfg>>
    BY <1>f, <2>1 DEF Refresh, Stop, Refreshed, RunsShaped
  <2>3. /\ FullPlain(k) /\ todo[k] = {} /\ cfg[k] = config
        /\ \A r \in Runs \ {k} : pc[r] = "idle"
    BY <2>2 DEF FullPlain, Quiet, Whole, Left, RunsShaped, Visiting
  <2>4. mem[k].hash = config /\ \A s \in Steps : FreshAt(k, s)
    BY <2>2, <2>3 DEF Fresh
  <2>5. /\ Refreshed(k).hash = mem[k].hash
        /\ \A o \in Slots : Refreshed(k).rec[o] = RefreshedRecord(k, o)
    BY RefreshBuild
  <2>6. ASSUME NEW s \in Steps \ (Uncached \cup Expanded)
        PROVE  Kept(Refreshed(k), s)
    <3> DEFINE o == Slot(s, Base)
               old == mem[k].rec[o]
               d == old.doubt \/ Bare(old.outs) # Bare(file[o])
               new == [sig |-> old.sig, outs |-> file[o], doubt |-> d]
    <3>1. /\ old # None /\ old.sig = [ins |-> Inputs(s), env |-> Base]
          /\ file[o] # Missing /\ (s \notin Visuals => old.outs = file[o])
      BY <2>2, <2>4 DEF FreshAt, Kept, Known
    <3>2. o \in Slots /\ o[1] = s /\ o[2] = Base /\ (s \in Visuals => o \in Figures)
      BY SlotFacts DEF Figures
    <3>3. RefreshedRecord(k, o) = IF s \in Visuals THEN new ELSE old
      BY <3>1, <3>2, SlotFacts DEF RefreshedRecord
    <3>4. new # None /\ new.sig = old.sig /\ new.outs = file[o]
      BY DEF Markers
    <3>5. Refreshed(k).rec[o] = IF s \in Visuals THEN new ELSE old
      BY <2>5, <3>2, <3>3
    <3> HIDE DEF old, new
    <3> QED  BY <3>1, <3>4, <3>5 DEF Kept, Known
  <2>7. \A s \in Steps : Inputs(s)' = Inputs(s)
    BY <2>2 DEF Inputs
  <2>8. Good(disk)'
    <3>1. \A s \in Steps \ (Uncached \cup Expanded) : Kept(disk, s)'
      BY <2>2, <2>6, <2>7 DEF Kept, Known
    <3> QED  BY <2>2, <2>4, <2>5, <3>1 DEF Good
  <2>9. GoodFiles
    <3>1. Visuals \subseteq Steps /\ Uncached \subseteq Steps
      BY FilesAssumption DEF Visuals
    <3> QED  BY <2>2, <2>3, <2>4, <3>1 DEF GoodFiles, FreshAt
  <2>10. GoodFiles'
    BY <1>s, <2>2, <2>9, GoodKept
  <2>11. \A r \in Runs : pc'[r] = "idle"
    BY <1>f, <2>2, <2>3, ActsLocally
  <2> QED  BY <2>8, <2>10, <2>11 DEF Idles
<1>w. ~World
  BY DEF World, Edit, EditConfig, Overwrite, LoseState
<1>n. CASE UNCHANGED vars
  <2>1. /\ Good(disk) /\ GoodFiles /\ \A r \in Runs : Idles(r)
        /\ UNCHANGED <<file, config, disk, pc, mem, cfg, asked, todo>>
    BY <1>n DEF Calm, vars, run, past
  <2>2. Good(disk)' /\ GoodFiles'
    BY <1>s, <2>1, GoodSame, GoodKept
  <2>3. \A r \in Runs : Idles(r)'
    BY <1>s, <2>1, IdlesKept
  <2> QED  BY <2>2, <2>3
<1> QED  BY <1>l, <1>a, <1>f, <1>w, <1>n, Cases

\* After a full plain run succeeded and saved its state, and as long as nobody
\* touches anything or asks for variants, no later run executes a cached step
\* again, of whatever selection and alongside whatever others.
THEOREM SettledStaysBuilt ==
  ASSUME Markers
  PROVE  Spec => []NothingRebuilt
<1> USE Markers
<1> DEFINE NInv == Shaped /\ Ordered /\ Quiet /\ Fresh /\ Calm
<1>1. Init => NInv
  <2> SUFFICES ASSUME Init  PROVE NInv
    OBVIOUS
  <2>1. \A r \in Runs : pc[r] = "idle" /\ ~dirty[r] /\ ~quiet[r]
    BY DEF Init
  <2>2. ~settled
    BY DEF Init
  <2> QED  BY <2>1, <2>2, RInvInit DEF RInv, Quiet, Rested, Whole, Left, Exact, Working,
           Fresh, FullPlain, Calm
<1>2. NInv /\ [Next]_vars => NInv'
  BY ShapedStep, OrderedStep, QuietStep, FreshStep, CalmStep
<1>3. NInv => NothingRebuilt
  BY DEF Calm, Idles, Working, NothingRebuilt
<1> QED  BY <1>1, <1>2, <1>3, PTL DEF Spec

-------------------------------------------------------------------------------
(* A full sweep.                                                           *)

\* Sources are only written by people.
LEMMA SourcesApart ==
  /\ \A s \in Steps : Reads[s] \ Steps \subseteq Sources
  /\ \A g \in Sources : Slot(g, Base) \in Files \ Slots
  BY SlotFacts, ReadsAssumption

\* What leaves a figure and the sources alone leaves it apart.
LEMMA ApartKept ==
  ASSUME NEW v \in [step : Steps, env : Envs], Apart(v),
         file'[Out(v)] = file[Out(v)],
         \A g \in Sources : file'[Slot(g, Base)] = file[Slot(g, Base)]
  PROVE  Apart(v)'
<1>1. \A s \in Steps : \A g \in Reads[s] \ Steps :
        file'[Slot(g, Base)] = file[Slot(g, Base)]
  BY SourcesApart
<1>2. MadeIn(file[Out(v)], v.env, v.step)'
  BY <1>1 DEF Apart, MadeIn, IsMade
<1>3. ASSUME v.step \in Visuals, NEW f \in Reads[v.step] \cap Steps
      PROVE  MadeIn(file[Out(v)].ins[f], v.env, f)'
  <2>1. MadeIn(file[Out(v)].ins[f], v.env, f)
    BY <1>3 DEF Apart
  <2> QED  BY <1>1, <2>1 DEF MadeIn, IsMade
<1> QED  BY <1>2, <1>3 DEF Apart

\* What is made from the inputs as they are, in its turn, is made apart.
LEMMA DueApart ==
  ASSUME Shaped, NEW r \in Runs, todo[r] # {},
         asked[r].sel = "all", asked[r].mode = "sweep",
         \A v \in Visits("all", "sweep") \ todo[r] : InTurn(r, v) => Apart(v)
  PROVE  /\ \A g \in Reads[Due(r).step] \ Steps :
              Inputs(Due(r).step)[g] = file[Slot(g, Base)]
         /\ Due(r).step \in Visuals =>
              \A f \in Reads[Due(r).step] \cap Steps :
                MadeIn(Inputs(Due(r).step)[f], Due(r).env, f)
<1> DEFINE v == Due(r)
<1>1. /\ v \in Visits("all", "sweep") /\ v.step \in Steps
      /\ \A w \in todo[r] \ {v} : Before(v, w)
  BY DueFacts DEF Shaped
<1>2. ASSUME NEW f \in Reads[v.step] \cap Steps
      PROVE  MadeIn(file[Slot(f, Base)], v.env, f)
  <2> DEFINE u == Visit(f, v.env)
  <2>1. f \notin Visuals /\ Earlier(f, v.step, Pipeline) /\ f # v.step
    BY <1>1, ReadsEarlier
  <2>2. u \in Visits("all", "sweep") /\ u.step = f /\ u.env = v.env
    BY <1>1 DEF Visits, Visit, Selects
  <2>3. ~Before(v, u)
    BY <2>1, <2>2, ListFacts DEF Before
  <2>4. u \notin todo[r]
    BY <1>1, <2>1, <2>2, <2>3
  <2>5. Apart(u)
    BY <2>2, <2>4 DEF InTurn
  <2>6. Out(u) = Slot(f, Base)
    BY <2>1, <2>2 DEF Out, Slot
  <2> QED  BY <2>2, <2>5, <2>6 DEF Apart
<1> QED  BY <1>2 DEF Inputs

\* A current output is made apart, in its turn.
LEMMA CurrentApart ==
  ASSUME Shaped, NEW r \in Runs, todo[r] # {},
         asked[r].sel = "all", asked[r].mode = "sweep",
         \A v \in Visits("all", "sweep") \ todo[r] : InTurn(r, v) => Apart(v),
         Current(Due(r))
  PROVE  Apart(Due(r))
  BY DueApart DEF Current, Apart, MadeIn

\* Once a visit is done with, its environment is the one at hand, or past.
LEMMA TurnKept ==
  ASSUME Shaped, Ordered, NEW r \in Runs, todo[r] # {},
         asked[r].sel = "all", asked[r].mode = "sweep",
         \A v \in Visits("all", "sweep") \ todo[r] : InTurn(r, v) => Apart(v),
         Apart(Due(r)), RunsShaped', asked' = asked,
         todo'[r] = todo[r] \ {Due(r)},
         NEW w \in Visits("all", "sweep"), w \notin todo'[r], InTurn(r, w)'
  PROVE  Apart(w)
<1> DEFINE v == Due(r)
<1>1. /\ v \in todo[r] /\ v \in Visits("all", "sweep") /\ Visiting(r)
      /\ \A u \in todo[r] \ {v} : Before(v, u)
  BY DueFacts DEF Shaped, RunsShaped
<1>2. CASE w = v
  BY <1>2
<1>3. CASE w # v
  <2>1. w \notin todo[r]
    BY <1>3
  <2>2. CASE w.step \in Visuals
    BY <2>1, <2>2 DEF InTurn
  <2>3. CASE w.step \notin Visuals
    <3>1. todo'[r] # {} /\ w.env = First(todo'[r]).env
      BY <2>3 DEF InTurn, Due
    <3>2. todo'[r] \in SUBSET Visits("all", "sweep")
      BY <1>1 DEF Shaped, RunsShaped
    <3>3. First(todo'[r]) \in todo'[r]
      BY <3>1, <3>2, FirstOf
    <3>4. Before(w, v) /\ Before(v, First(todo'[r]))
      BY <1>1, <2>1, <3>3 DEF Ordered, InOrder
    <3>5. w.env = v.env
      BY <3>1, <3>4, ListFacts DEF Before
    <3> QED  BY <2>1, <3>5 DEF InTurn
  <2> QED  BY <2>2, <2>3
<1> QED  BY <1>2, <1>3

\* What a full sweep has made stays apart.
LEMMA SweptStep ==
  ASSUME Markers, RInv, Quiet, Swept, [Next]_vars
  PROVE  Swept'
<1> USE DEF RInv, Shaped
<1> SUFFICES ASSUME NEW r \in Runs, FullSweep(r)', Visiting(r)' \/ pc'[r] = "embed"
             PROVE  /\ Undoubted(mem'[r])
                    /\ \A w \in Visits("all", "sweep") :
                         w \notin todo'[r] /\ InTurn(r, w)' => Apart(w)'
                    /\ pc'[r] = "record" => Apart(Due(r))'
  BY DEF Swept, Undoubted
<1> DEFINE Goal == /\ Undoubted(mem'[r])
                   /\ \A w \in Visits("all", "sweep") :
                        w \notin todo'[r] /\ InTurn(r, w)' => Apart(w)'
                   /\ pc'[r] = "record" => Apart(Due(r))'
<1>0. Visits("all", "sweep") \subseteq [step : Steps, env : Envs]
  BY VisitsTyped
<1>k. file' = file =>
        \A w \in Visits("all", "sweep") : Apart(w) => Apart(w)'
  BY <1>0, ApartKept
<1>l. ASSUME NEW q \in Requests, Launch(r, q)
      PROVE  Goal
  <2>1. /\ asked'[r] = [sel |-> q[1], force |-> q[2], mode |-> q[3]]
        /\ todo'[r] = Visits(q[1], q[3]) /\ pc'[r] = "visit" /\ mem'[r] = disk
        /\ clean'[r] = ~Doubtful(disk)
    BY <1>l DEF Launch, RunsShaped, BuildsShaped, IsFcn, HistoryShaped
  <2>2. q[1] = "all" /\ q[3] = "sweep"
    BY <2>1 DEF FullSweep
  <2>c. clean'[r] /\ (clean'[r] => ~Doubtful(disk))
    BY <2>1, Zenon DEF FullSweep
  <2>3. Undoubted(disk)
    BY <2>c DEF Doubtful, Undoubted, BuildsShaped, IsBuild, IsRecord
  <2> QED  BY <2>1, <2>2, <2>3
<1>a. ASSUME Acts(r), quiet[r]
      PROVE  Goal
  <2>0. /\ Skip(r) \/ Enter(r) \/ Execute(r) \/ Record(r) \/ Stamp(r)
        /\ asked' = asked /\ ~broken[r] /\ clean' = clean
    <3>1. broken'[r] = FALSE
      BY DEF FullSweep, RunsShaped
    <3>2. ~Embed(r)
      BY DEF Embed, RunsShaped, Visiting
    <3> QED  BY <1>a, <3>1, <3>2, Proceeds, ActsLocally
  <2>1. FullSweep(r) /\ Visiting(r)
    BY <1>a, <2>0 DEF FullSweep, Visiting, Skip, Enter, Execute, Record, Stamp
  <2>2. /\ Undoubted(mem[r])
        /\ \A w \in Visits("all", "sweep") \ todo[r] : InTurn(r, w) => Apart(w)
        /\ pc[r] = "record" => Apart(Due(r))
    BY <2>1 DEF Swept
  <2>3. asked[r].sel = "all" /\ asked[r].mode = "sweep"
    BY <2>1 DEF FullSweep
  <2>4. RunsShaped'
    BY RunsStep
  <2>t. ASSUME todo[r] # {}, Apart(Due(r)), todo'[r] = todo[r] \ {Due(r)},
               file' = file
        PROVE  \A w \in Visits("all", "sweep") :
                 w \notin todo'[r] /\ InTurn(r, w)' => Apart(w)'
    BY <1>k, <2>0, <2>2, <2>3, <2>4, <2>t, TurnKept
  <2>u. ASSUME todo' = todo, NEW w \in Visits("all", "sweep"), w \notin todo'[r],
               InTurn(r, w)'
        PROVE  w \notin todo[r] /\ InTurn(r, w) /\ Apart(w)
    <3>1. InTurn(r, w)
      BY <2>u, DueKept DEF InTurn
    <3> QED  BY <2>2, <2>u, <3>1
  <2>5. CASE Skip(r)
    <3>1. /\ UNCHANGED <<file, mem>> /\ todo'[r] = todo[r] \ {Due(r)} /\ todo[r] # {}
          /\ pc'[r] = "visit"
      BY <2>5 DEF Skip, RunsShaped
    <3>2. Apart(Due(r))
      <4>1. Due(r) \in [step : Steps, env : Envs] /\ Out(Due(r)) \in Slots
        BY <3>1, DueFacts, VisitFacts
      <4>2. Current(Due(r))
        BY <2>2, <2>5, <3>1, <4>1, NotStale DEF Skip, Undoubted
      <4> QED  BY <2>2, <2>3, <3>1, <4>2, CurrentApart
    <3> QED  BY <2>2, <2>t, <3>1, <3>2
  <2>6. CASE Enter(r)
    <3>1. UNCHANGED <<file, mem, todo>> /\ pc'[r] = "execute"
      BY <2>6 DEF Enter, RunsShaped
    <3> QED  BY <1>k, <2>2, <2>u, <3>1
  <2>7. CASE Execute(r)
    <3> DEFINE v == Due(r)
               x == Made(cfg[r], v.env, Inputs(v.step))
    <3>1. /\ todo[r] # {} /\ todo' = todo /\ mem' = mem
          /\ file' = [file EXCEPT ![Out(v)] = x]
      BY <2>7 DEF Execute, RunsShaped, Working
    <3>2. /\ v \in [step : Steps, env : Envs] /\ v \in todo[r] /\ v.step \in Steps
          /\ Out(v) \in Slots /\ Out(v) \in Files
      BY <3>1, DueFacts, VisitFacts, SlotFacts
    <3>3. file'[Out(v)] = x /\ \A f \in Files \ {Out(v)} : file'[f] = file[f]
      BY <3>1, <3>2 DEF FilesShaped, IsFcn
    <3>4. \A g \in Sources : file'[Slot(g, Base)] = file[Slot(g, Base)]
      BY <3>2, <3>3, SourcesApart
    <3>5. IsMade(x) /\ x.env = v.env /\ x.ins = Inputs(v.step)
      BY MadeContent
    <3>6. /\ \A g \in Reads[v.step] \ Steps : x.ins[g] = file[Slot(g, Base)]
          /\ v.step \in Visuals =>
               \A f \in Reads[v.step] \cap Steps : MadeIn(x.ins[f], v.env, f)
      BY <2>2, <2>3, <3>1, <3>5, DueApart
    <3>7. ASSUME NEW w \in Visits("all", "sweep"), w \notin todo'[r], InTurn(r, w)'
          PROVE  Apart(w)'
      <4>1. w \notin todo[r] /\ InTurn(r, w) /\ Apart(w)
        BY <2>u, <3>1, <3>7
      <4>2. w # v /\ w \in [step : Steps, env : Envs]
            /\ (w.step \in Visuals \/ w.env = v.env)
        BY <1>0, <3>2, <4>1 DEF InTurn
      <4>3. Out(w) # Out(v)
        BY <3>2, <4>2, VisitFacts
      <4>4. Out(w) \in Files
        BY <4>2, VisitFacts, SlotFacts
      <4> QED  BY <3>3, <3>4, <4>1, <4>2, <4>3, <4>4, ApartKept
    <3>8. ASSUME NEW w, w = v  PROVE Apart(w)'
      <4>1. w \in [step : Steps, env : Envs] /\ file'[Out(w)] = x /\ w.step \in Steps
        BY <3>2, <3>3, <3>8
      <4>2. \A s \in Steps : \A g \in Reads[s] \ Steps :
              file'[Slot(g, Base)] = file[Slot(g, Base)]
        BY <3>4, SourcesApart
      <4>3. MadeIn(file[Out(w)], w.env, w.step)'
        BY <3>5, <3>6, <3>8, <4>1, <4>2 DEF MadeIn, IsMade
      <4>4. ASSUME w.step \in Visuals, NEW f \in Reads[w.step] \cap Steps
            PROVE  MadeIn(file[Out(w)].ins[f], w.env, f)'
        <5>1. MadeIn(x.ins[f], w.env, f)
          BY <3>6, <3>8, <4>4
        <5> HIDE DEF x
        <5> QED  BY <4>1, <4>2, <5>1 DEF MadeIn, IsMade
      <4> QED  BY <4>3, <4>4 DEF Apart
    <3>9. Due(r)' = v
      BY <3>1, DueKept
    <3>10. Apart(Due(r))'
      BY <3>8, <3>9 DEF Apart, MadeIn, Out, Slot, IsMade
    <3> QED  BY <2>2, <3>1, <3>7, <3>10
  <2>8. CASE Record(r)
    <3> DEFINE v == Due(r)
               st == RecordStepState(r, v)
    <3>1. /\ todo[r] # {} /\ mem'[r] = st /\ todo'[r] = todo[r] \ {v} /\ file' = file
          /\ pc[r] = "record" /\ pc'[r] = "visit"
      BY <2>8 DEF Record, BuildsShaped, IsFcn, RunsShaped, Working
    <3>2. v \in [step : Steps, env : Envs]
      BY <3>1, DueFacts
    <3>3. /\ st.rec[Out(v)] =
               [sig |-> sig[r], outs |-> file[Out(v)], doubt |-> dirty[r]]
          /\ \A o \in Slots : o # Out(v) => st.rec[o] = mem[r].rec[o]
      BY <3>2, RecordBuild
    <3>4. dirty[r] = FALSE
      BY <1>a, <3>1 DEF Quiet, Left, HistoryShaped
    <3> HIDE DEF st
    <3>5. Undoubted(st)
      BY <2>2, <3>3, <3>4 DEF Undoubted
    <3> QED  BY <2>2, <2>t, <3>1, <3>5
  <2>9. CASE Stamp(r)
    <3>1. /\ mem'[r] = Stamped(r) /\ UNCHANGED <<file, todo>> /\ pc'[r] = "embed"
      BY <2>9 DEF Stamp, Stamped, BuildsShaped, IsFcn, RunsShaped
    <3>2. Undoubted(Stamped(r))
      BY <2>2, StampBuild DEF Undoubted
    <3> QED  BY <1>k, <2>u, <3>1, <3>2
  <2> QED  BY <2>0, <2>5, <2>6, <2>7, <2>8, <2>9
<1>n. CASE UNCHANGED vars
  <2>1. /\ FullSweep(r) /\ (Visiting(r) \/ pc[r] = "embed")
        /\ UNCHANGED <<file, mem, todo, pc>>
    BY <1>n DEF FullSweep, Visiting, vars, run, past
  <2>2. /\ Undoubted(mem[r])
        /\ \A w \in Visits("all", "sweep") \ todo[r] : InTurn(r, w) => Apart(w)
        /\ pc[r] = "record" => Apart(Due(r))
    BY <2>1 DEF Swept
  <2>3. Due(r)' = Due(r)
    BY <2>1, DueKept
  <2>4. \A w : InTurn(r, w)' => InTurn(r, w)
    BY <2>1, <2>3 DEF InTurn
  <2>5. Apart(Due(r)) => Apart(Due(r))'
    <3>1. \A o : file'[o] = file[o]
      BY <2>1
    <3>. QED
      BY <2>3, <3>1 DEF Apart, MadeIn
  <2> QED  BY <1>k, <2>1, <2>2, <2>4, <2>5
<1>q. quiet'[r] /\ pc'[r] # "idle"
  BY DEF FullSweep, Visiting
<1> QED  BY <1>l, <1>a, <1>n, <1>q, QuietSelf

\* When a full sweep that nobody disturbed comes to its end, the figures of
\* every variant were made in its environment from analysis outputs made in the
\* same environment, although the variants share those outputs.
THEOREM VariantsAreSeparate ==
  ASSUME Markers, NoComparison
  PROVE  Spec => []VariantsSeparate
<1> USE Markers, NoComparison
<1>1. Init => RInv /\ Quiet /\ Swept
  <2> SUFFICES ASSUME Init  PROVE Quiet /\ Swept
    BY RInvInit
  <2>1. \A r \in Runs : pc[r] = "idle" /\ ~dirty[r] /\ ~quiet[r]
    BY DEF Init
  <2> QED  BY <2>1 DEF Quiet, Rested, Whole, Left, Exact, Working, Swept, FullSweep
<1>2. RInv /\ Quiet /\ Swept /\ [Next]_vars => (RInv /\ Quiet /\ Swept)'
  BY RInvStep, QuietStep, SweptStep DEF RInv
<1>3. RInv /\ Quiet /\ Swept => VariantsSeparate
  <2> SUFFICES ASSUME RInv, Quiet, Swept, NEW r \in Runs,
                      pc[r] = "embed", quiet[r], clean[r],
                      asked[r].sel = "all", asked[r].mode # "plain",
                      NEW i \in DOMAIN Variants, NEW s \in Visuals
               PROVE  LET x == file[Slot(s, Variants[i])] IN
                        /\ IsMade(x) /\ x.env = Variants[i]
                        /\ \A f \in Reads[s] \ Steps : x.ins[f] = file[Slot(f, Base)]
                        /\ \A f \in Reads[s] \cap Steps :
                             /\ IsMade(x.ins[f]) /\ x.ins[f].env = Variants[i]
                             /\ \A g \in Reads[f] \ Steps :
                                  x.ins[f].ins[g] = file[Slot(g, Base)]
    BY DEF VariantsSeparate
  <2>1. FullSweep(r) /\ todo[r] = {}
    BY DEF FullSweep, Quiet, Whole, RInv, Shaped, RunsShaped, Visiting, Plainly, Modes
  <2>2. Visit(s, Variants[i]) \in Visits("all", "sweep")
    BY VariantsAssumption DEF Visits, Visit, Selects, Envs, Visuals
  <2>3. Apart(Visit(s, Variants[i]))
    BY <2>1, <2>2 DEF Swept, InTurn, Visit
  <2> QED  BY <2>3 DEF Apart, MadeIn, Visit, Out
<1> QED  BY <1>1, <1>2, <1>3, PTL DEF Spec

===============================================================================
