-------------------------- MODULE MCToolGovernance --------------------------
(* A small instance of ToolGovernance: no message is processed meanwhile,  *)
(* and lease owners are the workers of the calls and of the resumes.       *)
EXTENDS ToolGovernance, TLC

MCSessionOf == [m \in Messages |-> CHOOSE s \in Sessions : TRUE]
MCWorkers == Calls \cup Resumers

\* Calls, resumers, operators and releases are interchangeable in every property.
Symmetry ==
    Permutations(Calls) \cup Permutations(Resumers) \cup Permutations(Operators)
        \cup Permutations(Releases)

=============================================================================
