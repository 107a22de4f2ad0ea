--------------------------- MODULE MCRawIntegrity ---------------------------
(***************************************************************************)
(* Files that are hashed before they are used: the raw files of a project, *)
(* inputs from outside it, and the pictures that are previewed.  The three *)
(* share no state; each behaviour is one of one of them.                   *)
(*                                                                         *)
(* Two raw files and pipelines of up to two producers, whose outputs feed  *)
(* each other, collide or make a cycle.                                    *)
(***************************************************************************)
EXTENDS RawIntegrity, ExternalRaw, JobPreview

CONSTANTS file1, file2, out1, out2, build1, build2

VARIABLE part  \* which of them acts

One(i) == <<[inputs |-> i, outputs |-> {out1}]>>
Two(i, j, o) == <<[inputs |-> i, outputs |-> {out1}], [inputs |-> j, outputs |-> {o}]>>

Pipelines ==
  {One({file1}), One({AllRaw}), One({AllRaw, file1}), One({file1, Outside}), One({Known}),
   One({AllRaw, Known}), One({out1, file2}),
   Two({file1}, {out1}, out2), Two({file1}, {AllRaw}, out1), Two({out2, file1}, {out1}, out2)}
NoInputs == {<<>>, One({}), One({out2}), One({Unknown})}

Config(p, m, d, r) == [pipeline |-> p, mode |-> m, declared |-> d, root |-> r]
MCConfigs ==
  {Config(p, "strict", "absent", "plain") : p \in Pipelines}
  \cup {Config(p, "strict", d, "plain") : p \in NoInputs, d \in {"absent", "valid"}}
  \cup {Config(One({file1}), m, d, r) : m \in {"strict", "warn"},
          d \in {"absent", "valid", "malformed"}, r \in {"plain", "missing"}}

\* One picture has a PNG that is too large.
MCHeavy == {<<2, 2>>}

FilesInit ==
  /\ part \in {"seal", "external", "preview"}
  /\ Init /\ ExternalInit /\ PreviewInit
  /\ part # "seal" =>
       /\ config = Config(One({file1}), "strict", "absent", "plain")
       /\ raw = [f \in Raw |-> 1]
  /\ part # "external" => described = 1 /\ source = Content(1)
  /\ part # "preview" => selected = "csv" /\ artifact = [k \in Kinds |-> NoFile]

FilesNext ==
  /\ UNCHANGED part
  /\ \/ part = "seal" /\ Next /\ UNCHANGED <<externalVars, previewVars>>
     \/ part = "external" /\ ExternalNext /\ UNCHANGED <<vars, previewVars>>
     \/ part = "preview" /\ PreviewNext /\ UNCHANGED <<vars, externalVars>>

FilesSpec == FilesInit /\ [][FilesNext]_<<part, vars, externalVars, previewVars>>

=============================================================================
