------------------------ MODULE MCExecutionPipeline ------------------------
(* Small instances of ExecutionPipeline for model checking: one Session,   *)
(* whose messages all go through one lease and one partition.              *)
EXTENDS ExecutionPipeline, TLC

CONSTANTS s1

MCSessionOf == [m \in Messages |-> s1]

\* Workers and messages are interchangeable in every safety property.
Symmetry == Permutations(Workers) \cup Permutations(Messages)

=============================================================================
