------------------------- MODULE MCContentLifecycle -------------------------
(* Instance of ContentLifecycle for TLC. *)
EXTENDS ContentLifecycle

BackendOrder == <<"SQL", "OBJECT">>
DeploymentChoices == {{}, {"deletion"}, {"artifacts"}}
=============================================================================
