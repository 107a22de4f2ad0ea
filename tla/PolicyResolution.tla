-------------------------- MODULE PolicyResolution --------------------------
(***************************************************************************)
(* Policy resolution (policy_resolution.py): the layers of policy that     *)
(* apply to a render or a promotion (the operator's, the laboratory's, the *)
(* project's, the render's own) are merged into one value per parameter,   *)
(* by the operator that the parameter's schema names, or refused.          *)
(*                                                                         *)
(* The layers arrive as a list, and the code folds over it in its order:   *)
(* the last plain value is the selection, the first is the exact value.    *)
(* The plan promises that no winner is chosen by that order.               *)
(*                                                                         *)
(* A layer says at most two things of a parameter, `allowed` and `value`;  *)
(* texts, lists and null are members of Options, and which layer a value   *)
(* is attributed to is left out, as are the exceptions, which are only     *)
(* recorded.                                                               *)
(***************************************************************************)
EXTENDS Integers, Sequences, FiniteSetsExt

CONSTANTS
  Sources,     \* where a layer may come from, at most one from each
  Parameters,
  Operator,    \* Operator[p]: how the constraints on p are merged
  Preset,      \* Preset[p]: the value of p when no layer says anything
  Supported,   \* Supported[p]: the options that p's schema lists, or all
  Yielding,    \* the parameters that allow an opt-out
  Kernel,      \* those that no layer may disable
  Options,     \* what lists and selections are made of
  Lists,       \* lists as the values of an exact parameter, compared whole
  Largest,     \* no number that is a float has a greater magnitude
  Null, Silent

Operators == {"require", "minimum", "maximum", "allowed_set", "exact", "selection"}
Numbers   == -Largest..Largest

ASSUME SchemaAssumption ==
  /\ Operator \in [Parameters -> Operators]
  /\ Yielding \subseteq Parameters
  /\ Kernel \subseteq Parameters \ Yielding
  /\ \A p \in Parameters :
       /\ Supported[p] \subseteq Options
       /\ Operator[p] = "require" => Preset[p] \in BOOLEAN
       /\ Operator[p] = "selection" => Preset[p] \in Supported[p]
       /\ p \in Kernel => Operator[p] = "require" /\ Preset[p] = TRUE
       /\ p \in Yielding => Operator[p] = "require"
ASSUME LargestAssumption == Largest \in Nat
ASSUME SilentAssumption ==
  /\ Null \in Options
  /\ \A s \in SUBSET Options : s # Silent
  /\ \A given \in {Options, Lists, Numbers, BOOLEAN} : Silent \notin given

-----------------------------------------------------------------------------
\* What a layer may give for a parameter: its plain value (_normalize_value,
\* and what _merge requires of the constraints), and its list (set_value).
Plain(p) ==
  CASE Operator[p] = "require"               -> BOOLEAN
    [] Operator[p] \in {"minimum", "maximum"} -> Numbers
    [] Operator[p] = "allowed_set"           -> {Null} \cup (SUBSET Options \ {{}})
    [] OTHER                                 -> Supported[p] \cup {Null}

Listed(p) ==
  CASE Operator[p] \in {"allowed_set", "selection"} -> SUBSET Options \ {{}}
    [] Operator[p] = "exact"                       -> Lists
    [] OTHER                                       -> {}

\* A layer that is read without an error: a known source, values of their
\* parameters' kinds, no kernel invariant disabled, and an opt-out only where
\* the schema allows one.
WellRead(layer) ==
  /\ layer.source \in Sources
  /\ \A p \in Parameters :
       LET said == layer.says[p] IN
       /\ said.value \in {Silent} \cup Plain(p)
       /\ said.allowed \in {Silent} \cup Listed(p)
       /\ said.opt_out => p \in Yielding
       /\ p \in Kernel => said.value # FALSE

\* The plain value of a layer; an opt-out that comes alone stands for FALSE.
Stated(layer, p) ==
  IF layer.says[p].opt_out /\ layer.says[p].value = Silent /\ layer.says[p].allowed = Silent
    THEN FALSE
    ELSE layer.says[p].value
List(layer, p) == layer.says[p].allowed

Speakers(layers, p) == {i \in DOMAIN layers : Stated(layers[i], p) # Silent}
Limiters(layers, p) == {i \in DOMAIN layers : List(layers[i], p) # Silent}
Constrained(layers, p) == Speakers(layers, p) \cup Limiters(layers, p) # {}
OptedOut(layers, p) == \E i \in DOMAIN layers : layers[i].says[p].opt_out

StatedValues(layers, p) == {Stated(layers[i], p) : i \in Speakers(layers, p)}
ListedValues(layers, p) == {List(layers[i], p) : i \in Limiters(layers, p)}

-----------------------------------------------------------------------------
\* The options that every list, and every plain value as a list of one, leaves.
AsSet(v) == IF v \in Options THEN {v} ELSE v
Remaining(layers, p) ==
  {c \in Supported[p] : /\ \A s \in ListedValues(layers, p) : c \in s
                        /\ \A v \in StatedValues(layers, p) : c \in AsSet(v)}

\* The plain value that comes last in the list of layers.
Selection(layers, p) ==
  IF Speakers(layers, p) = {} THEN Preset[p]
  ELSE Stated(layers[Max(Speakers(layers, p))], p)

\* The constraint that comes first; within a layer a list does.
Exact(layers, p) ==
  LET first == Min(Speakers(layers, p) \cup Limiters(layers, p)) IN
  IF first \in Limiters(layers, p) THEN List(layers[first], p)
  ELSE Stated(layers[first], p)

Merged(layers, p) ==
  CASE Operator[p] = "require"     -> TRUE \in StatedValues(layers, p)
    [] Operator[p] = "minimum"     -> Max(StatedValues(layers, p))
    [] Operator[p] = "maximum"     -> Min(StatedValues(layers, p))
    [] Operator[p] = "allowed_set" -> Remaining(layers, p)
    [] Operator[p] = "selection"   -> Selection(layers, p)
    [] Operator[p] = "exact"       -> Exact(layers, p)

\* The constraints on a parameter cannot be met together.
Conflict(layers, p) ==
  /\ Constrained(layers, p)
  /\ \/ Operator[p] \in {"allowed_set", "selection"} /\ Remaining(layers, p) = {}
     \/ Operator[p] = "selection" /\ Selection(layers, p) \notin Remaining(layers, p)
     \/ Operator[p] = "exact"
        /\ \E v, w \in StatedValues(layers, p) \cup ListedValues(layers, p) : v # w

\* An opt-out is granted unless some layer requires the parameter.
Resolved(layers, p) ==
  IF Operator[p] = "require" /\ OptedOut(layers, p) /\ TRUE \notin StatedValues(layers, p)
    THEN FALSE
    ELSE IF Constrained(layers, p) THEN Merged(layers, p) ELSE Preset[p]

Refused(layers) ==
  \/ \E i \in DOMAIN layers : ~WellRead(layers[i])
  \/ \E i, j \in DOMAIN layers : i # j /\ layers[i].source = layers[j].source
  \/ \E p \in Parameters : Conflict(layers, p)

\* The resolved policy set: a value for every parameter, and what became of a
\* request to opt out of it.
PolicySet(layers) ==
  [p \in Parameters |->
     [value    |-> Resolved(layers, p),
      opt_out  |-> OptedOut(layers, p),
      accepted |-> OptedOut(layers, p) /\ Resolved(layers, p) = FALSE]]

-----------------------------------------------------------------------------
\* What is promised.  (They are proved in PolicyResolution_proofs.)

\* The same layers in another order: layer i comes in f[i]'s place.
Reordered(layers, f) == [i \in DOMAIN layers |-> layers[f[i]]]
Orders(layers) == Bijection(DOMAIN layers, DOMAIN layers)

\* No winner is chosen by the order of the layers: in any other order they
\* are refused as well, or resolve to the same values (resolve_policy_set).
OrderIrrelevant(layers) ==
  \A f \in Orders(layers) :
    /\ Refused(Reordered(layers, f)) <=> Refused(layers)
    /\ ~Refused(layers) => PolicySet(Reordered(layers, f)) = PolicySet(layers)

AtLeastAsStrict(p, new, old) ==
  CASE Operator[p] = "require"     -> old => new
    [] Operator[p] = "minimum"     -> new >= old
    [] Operator[p] = "maximum"     -> new <= old
    [] Operator[p] = "allowed_set" -> new \subseteq old
    [] OTHER                       -> new = old

\* What some layer has asked for is never loosened by one more layer: a
\* requirement stays, a bound only tightens, a list only shrinks, a choice
\* stands (_merge).  A list without a choice leaves the choice to others.
NeverLoosened(layers, layer) ==
  LET more == Append(layers, layer) IN
  ~Refused(layers) /\ ~Refused(more) =>
    \A p \in Parameters :
      /\ Constrained(layers, p)
      /\ Operator[p] = "selection" => Speakers(layers, p) # {}
      => AtLeastAsStrict(p, Resolved(more, p), Resolved(layers, p))

\* Whatever the layers say, no kernel invariant is resolved to anything but
\* TRUE, and a selection is one that the schema and every list allow.
StaysWithinLimits(layers) ==
  ~Refused(layers) =>
    \A p \in Parameters :
      /\ p \in Kernel => Resolved(layers, p) = TRUE
      /\ Operator[p] = "selection" =>
           /\ Resolved(layers, p) \in Supported[p]
           /\ \A i \in Limiters(layers, p) : Resolved(layers, p) \in List(layers[i], p)

=============================================================================
