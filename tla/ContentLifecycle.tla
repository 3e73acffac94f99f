-------------------------- MODULE ContentLifecycle --------------------------
(***************************************************************************)
(* The content lifecycle of one tenant as the job worker runs it           *)
(* (trpc_service/job_worker.py, create_app): retention sweep always,       *)
(* artifact purge if an artifact access key is configured, erasure of      *)
(* requested content if a deletion executor is.  All of them look up the   *)
(* same legal holds.                                                       *)
(***************************************************************************)
EXTENDS ContentDeletion, Artifacts

CONSTANT Deployments   \* the lifecycle tasks configured, a set of sets

VARIABLE settings      \* the tasks of this deployment, besides the retention sweep

vars == <<holdVars, deletionVars, artifactVars, settings>>

TypeOK == HoldTypeOK /\ DeletionTypeOK /\ ArtifactTypeOK /\ settings \in Deployments

Init == HoldInit /\ DeletionInit /\ ArtifactInit /\ settings \in Deployments

Others(tasks) == tasks \subseteq settings /\ UNCHANGED <<holdVars, artifactVars, settings>>
Purges == "artifacts" \in settings /\ UNCHANGED <<holdVars, deletionVars, settings>>

\* Bound: items age, and the policy changes, in the deployment that only sweeps.
SweepOnly == settings = {}

Next ==
    \/ /\ HoldNext /\ (SweepOnly \/ UNCHANGED retention_change)
       /\ UNCHANGED <<deletionVars, artifactVars, settings>>
    \/ WriteContent /\ "artifacts" \notin settings /\ Others({})
    \/ \E x \in Items : Grow(x) /\ SweepOnly /\ Others({})
    \/ \E r \in Requests : CreateDeletionRequest(r) /\ Others({"deletion"})
    \/ \E r \in Requests : LeaseExpires(r) /\ Others({"deletion"})
    \/ \E w \in Workers : WorkerStep(w) /\ Others({"deletion"})
    \/ \E w \in Workers : BackendFails(w) /\ Others({"deletion"})
    \/ \E w \in Workers : WorkerDies(w) /\ Others({"deletion"})
    \/ SweepRead /\ Others({})
    \/ SweepApply /\ Others({})
    \/ ArtifactNext /\ Purges

Spec == Init /\ [][Next]_vars

\* The job worker's loops go on after every exception (job_worker.py:587-631), and a
\* restarted replica runs them again; backends answer, and time passes.
FairSpec ==
    /\ Spec
    /\ \A w \in Workers : WF_vars(WorkerStep(w) /\ Others({"deletion"}))
    /\ \A r \in Requests : WF_vars(LeaseExpires(r) /\ Others({"deletion"}))
    /\ WF_vars(SweepApply /\ Others({}))
    /\ WF_vars(PurgeStep /\ Purges)

\* Nobody is past the lookup of the holds.
Quiet == /\ \A w \in Workers : worker[w].at \in {"idle", "selected"}
         /\ sweep = Nobody /\ purge.at = "idle"

\* Once the tasks that had looked up the holds before are done, an active hold keeps all
\* content: no task begins to erase, sweep or purge until the hold is released.
HoldKeepsContent ==
    [][HoldActive /\ Quiet /\ HoldActive' =>
         /\ Quiet'
         /\ \A b \in Planes : content[b] \subseteq content'[b]
         /\ \A a \in Artifact : stored[a] = "STORED" => stored'[a] = "STORED"]_vars
=============================================================================
