---------------------------- MODULE MCSmartBuild ----------------------------
(***************************************************************************)
(* Small projects for the model checker, and the requests that runs of     *)
(* figops are launched with.                                               *)
(***************************************************************************)
EXTENDS SmartBuild, TLC

CONSTANTS raw, spec, low, high

MCVariants  == <<low, high>>
MCVariants1 == <<low>>

MCRequests == (Selections \X {FALSE} \X {"plain"})
                \cup {<<"all", TRUE, "plain">>}
                \cup {"all", "plot"} \X {FALSE} \X {"sweep"}
MCRequestsFull       == {<<"all", FALSE, "plain">>}
MCRequestsShared     == {<<"all", FALSE, "plain">>, <<"plot", FALSE, "plain">>,
                          <<"all", FALSE, "sweep">>}
MCRequestsComparison == {"all"} \X {FALSE} \X {"plain", "comparison"}

\* The analysis A reads the raw data, the figure F what A wrote, the diagram D
\* a source of its own.
MCPipeline == <<"A", "F", "D">>
MCKind     == [A |-> "analysis", F |-> "figures", D |-> "diagrams"]
MCReads    == [A |-> {raw}, F |-> {"A"}, D |-> {spec}]
MCSources  == {raw, spec}

\* Without the diagram.
MCPipeline2 == <<"A", "F">>
MCKind2     == [A |-> "analysis", F |-> "figures"]
MCReads2    == [A |-> {raw}, F |-> {"A"}]
MCSources2  == {raw}

MCSymmetry ==
  Permutations(Runs) \cup Permutations(Versions) \cup Permutations(Configs)

=============================================================================
