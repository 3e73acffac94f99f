-------------------------- MODULE AgentDeployments --------------------------
(***************************************************************************)
(* Promotion of agent releases in one environment                          *)
(* (trpc_service/admin_api/agents.py, admin_api/evals.py, evals.py and     *)
(* DatabaseDeploymentRouteResolver of agent_worker.py).                    *)
(*                                                                         *)
(* Deployments are never retired: the pointer is the ACTIVE one that was   *)
(* activated last.  activated_at and created_at are now(), the START of    *)
(* the transaction, so the order of the rows is the order in which         *)
(* transactions began and not the one in which they committed.  timeline   *)
(* and runs hold that order.                                               *)
(*                                                                         *)
(* An approval is three steps: it begins; it locks the application row and *)
(* asks the evaluation gate; it locks the pointer, compares it and commits.*)
(* A canary observation locks the deployment row only and may commit at    *)
(* any time in between.  The insert of an evaluation run waits for the     *)
(* application lock, because its foreign key reads the row                 *)
(* (migrations/versions/0029_eval_suites.sql).                             *)
(***************************************************************************)
EXTENDS AgentDrafts

CONSTANTS
    SuiteBodies,      \* [assertions, quality_min, latency_ms_max, cost_micros_max]
    Evidences,        \* [assertions, quality, latency_ms, cost_micros]
    MaxDeployments,   \* bound: deployments
    MaxRuns           \* bound: evaluation runs

VARIABLES
    environment,   \* the environment whose pointer is modelled
    deployments,   \* sequence of agent_deployment rows
    timeline,      \* begun requests and activated deployments, by start of transaction
    request,       \* admin -> the deployment request it has sent
    suites,        \* sequence of eval_suite rows
    runs           \* eval_run rows by start of transaction; status OPEN is not committed

deploymentVars ==
    <<environment, releases, deployments, timeline, request, suites, runs, lock>>

ASSUME DeploymentAssumption ==
    /\ None \notin Int /\ Nobody \notin Admins /\ MaxDeployments \in Nat
    /\ \A b \in SuiteBodies :
          {b.quality_min, b.latency_ms_max, b.cost_micros_max} \subseteq Int \cup {None}
    /\ \A e \in Evidences :
          {e["quality"], e["latency_ms"], e["cost_micros"]} \subseteq Int \cup {None}

Deployment ==
    [release : Nat, previous_release : Nat, previous : Nat, previous_version : Nat,
     full : BOOLEAN, status : {"PENDING_APPROVAL", "ACTIVE", "HALTED"}, initiator : Admins,
     approver : Admins \cup {Nobody}, version : Nat \ {0}]

Run == [release : Nat, environment : {"STAGING", "PRODUCTION"}, suite : Nat,
        evidence : Evidences \cup {None}, status : {"OPEN", "PASSED", "FAILED"}]

\* at: what the transaction has done so far; expect: the If-Match of the client, 0 is none.
Request == [at : {"idle", "begun", "gated"}, kind : {"none", "create", "rollback", "approve"},
            target : Nat, expect : Nat]

Idle == [at |-> "idle", kind |-> "none", target |-> 0, expect |-> 0]
Production == environment = "PRODUCTION"

----------------------------------------------------------------------------
(* Evaluation of evidence: evaluate_evidence of evals.py.  None stands for a *)
(* value that is missing or is not a number.                                 *)

\* _threshold: a missing or negative threshold counts as zero.
Threshold(v) == IF v = None THEN 0 ELSE IF v >= 0 THEN v ELSE 0

FailedAssertions(suite, evidence) == suite.assertions \ evidence.assertions

FailedThresholds(suite, evidence) ==
    {m \in {"quality", "latency_ms", "cost_micros"} :
        \/ evidence[m] = None
        \/ m = "quality" /\ evidence[m] < Threshold(suite.quality_min)
        \/ m = "latency_ms" /\ evidence[m] > Threshold(suite.latency_ms_max)
        \/ m = "cost_micros" /\ evidence[m] > Threshold(suite.cost_micros_max)}

EvaluateEvidence(suite, evidence) ==
    IF FailedAssertions(suite, evidence) = {} /\ FailedThresholds(suite, evidence) = {}
    THEN "PASSED" ELSE "FAILED"

\* create_eval_suite: suites are append-only.
CreateEvalSuite(body) ==
    /\ Production /\ Unlocked /\ suites = <<>>
    /\ suites' = Append(suites, body)
    /\ UNCHANGED <<environment, releases, deployments, timeline, request, runs, lock>>

\* create_eval_run, first statement: now() is fixed, nothing is visible yet.
BeginEvalRun(release, env) ==
    /\ suites # <<>> /\ Len(runs) < MaxRuns
    /\ env = "STAGING" => runs = <<>>   \* bound: a run of another environment comes first
    /\ runs' = Append(runs, [release |-> release, environment |-> env, suite |-> Len(suites),
                             evidence |-> None, status |-> "OPEN"])
    /\ UNCHANGED <<environment, releases, deployments, timeline, request, suites, lock>>

\* Mutant: no foreign key to the application.
RunMayInsert_Unordered == TRUE

\* The foreign key of eval_run reads the application row and waits for its lock.
RunMayInsert == Unlocked

\* create_eval_run, the insert and the commit.
CommitEvalRun(n, evidence) ==
    /\ runs[n].status = "OPEN" /\ RunMayInsert
    /\ runs' = [runs EXCEPT ![n].evidence = evidence,
                            ![n].status = EvaluateEvidence(suites[runs[n].suite], evidence)]
    /\ UNCHANGED <<environment, releases, deployments, timeline, request, suites, lock>>

\* The committed production runs of a release.
ProductionRuns(release) ==
    {n \in DOMAIN runs : /\ runs[n].release = release /\ runs[n].environment = "PRODUCTION"
                         /\ runs[n].status # "OPEN"}

\* production_eval_gate_error is None: the run that was created last has passed.
GateOpen(release) ==
    \E n \in ProductionRuns(release) :
       /\ runs[n].status = "PASSED"
       /\ \A m \in ProductionRuns(release) : m <= n

----------------------------------------------------------------------------
(* The pointer *)

Entry(a) == <<"request", a>>
Activated(d) == <<"deployment", d>>
At(x) == CHOOSE i \in DOMAIN timeline : timeline[i] = x
IsActivated(d) == \E i \in DOMAIN timeline : timeline[i] = Activated(d)
Without(x) == SubSeq(timeline, 1, At(x) - 1) \o SubSeq(timeline, At(x) + 1, Len(timeline))

Active == {d \in DOMAIN deployments : deployments[d].status = "ACTIVE"}

\* SELECT ... WHERE status='ACTIVE' ORDER BY activated_at DESC LIMIT 1; 0 is no row.
Pointer ==
    IF Active = {} THEN 0
    ELSE CHOOSE d \in Active : \A e \in Active : At(Activated(e)) <= At(Activated(d))

Version(d) == IF d = 0 THEN 0 ELSE deployments[d].version
ReleaseOf(d) == IF d = 0 THEN 0 ELSE deployments[d].release

\* The releases that sessions are routed to under deployment d (_session_rollout_bucket).
Targets(d) == {deployments[d].release} \cup
              (IF deployments[d].full THEN {} ELSE {deployments[d].previous_release})

----------------------------------------------------------------------------
(* Requests.  A client sends the If-Match of what it has seen, or none (0).   *)
(* In production a create or a rollback sets no activated_at, and its         *)
(* conditions are on the pointer at its commit: it is a single step.          *)

Begin(a, kind, target, expect) ==
    /\ request[a] = Idle
    /\ request' = [request EXCEPT ![a] = [at |-> "begun", kind |-> kind, target |-> target,
                                          expect |-> expect]]
    /\ timeline' = Append(timeline, Entry(a))
    /\ UNCHANGED <<environment, releases, deployments, suites, runs, lock>>

BeginCreate(a) ==
    /\ ~Production
    /\ Len(deployments) < MaxDeployments
    /\ \E expect \in {0, Version(Pointer)} : Begin(a, "create", 0, expect)

BeginRollback(a) ==
    /\ ~Production
    /\ Len(deployments) < MaxDeployments /\ Pointer # 0
    /\ Begin(a, "rollback", Pointer, Version(Pointer))

BeginApprove(a, d) ==
    /\ deployments[d].status = "PENDING_APPROVAL"
    /\ Begin(a, "approve", d, Version(d))

\* The handler raises, or the connection is lost: the transaction is rolled back.
Abandon(a) ==
    /\ request[a] # Idle
    /\ request' = [request EXCEPT ![a] = Idle]
    /\ timeline' = Without(Entry(a))
    /\ lock' = IF lock = a THEN Nobody ELSE lock
    /\ UNCHANGED <<environment, releases, deployments, suites, runs>>

----------------------------------------------------------------------------
(* Handlers *)

InsertedStatus == IF Production THEN "PENDING_APPROVAL" ELSE "ACTIVE"

\* The INSERT of create_deployment and rollback_deployment.
Insert(a, release, full) ==
    LET d == Len(deployments) + 1 IN
    /\ d <= MaxDeployments
    /\ deployments' = Append(deployments,
          [release |-> release, previous_release |-> ReleaseOf(Pointer),
           previous |-> Pointer, previous_version |-> Version(Pointer), full |-> full,
           status |-> InsertedStatus,
           initiator |-> a, approver |-> Nobody, version |-> Version(Pointer) + 1])
    /\ timeline' = IF Production THEN timeline
                   ELSE [timeline EXCEPT ![At(Entry(a))] = Activated(d)]
    /\ request' = [request EXCEPT ![a] = Idle]
    /\ UNCHANGED <<environment, releases, suites, runs, lock>>

Sent(a, kind) == IF Production THEN request[a] = Idle
                 ELSE request[a].at = "begun" /\ request[a].kind = kind

\* The If-Match of create_deployment: required to replace an ACTIVE one outside production.
Replaces(a) == Pointer = 0 \/ Production \/ request[a].expect = Version(Pointer)

\* create_deployment.
CreateDeployment(a, release, full) ==
    /\ Sent(a, "create") /\ Unlocked
    /\ Replaces(a)
    /\ Pointer # 0 => ReleaseOf(Pointer) # release
    /\ Pointer = 0 => full
    /\ deployments = <<>> => release = 1   \* bound: releases are interchangeable so far
    /\ Insert(a, release, full)

\* rollback_deployment: any release of the application, at 100 percent.
RollbackDeployment(a, release) ==
    /\ Sent(a, "rollback") /\ Unlocked
    /\ Pointer # 0
    /\ \/ Production
       \/ request[a].target = Pointer /\ request[a].expect = Version(Pointer)
    /\ Insert(a, release, TRUE)

\* The conditions approve_deployment sets on the row.
Approvable(a, d) ==
    /\ request[a].expect = Version(d)
    /\ deployments[d].status = "PENDING_APPROVAL"
    /\ deployments[d].initiator # a

\* approve_deployment up to the evaluation gate; only PENDING rows of PRODUCTION exist.
ApproveGate(a) ==
    LET d == request[a].target IN
    /\ request[a].at = "begun" /\ request[a].kind = "approve" /\ Unlocked
    /\ Approvable(a, d)
    /\ GateOpen(deployments[d].release)
    /\ lock' = a
    /\ request' = [request EXCEPT ![a].at = "gated"]
    /\ UNCHANGED <<environment, releases, deployments, timeline, suites, runs>>

\* Mutant: only the existence of a pointer is compared.
PointerUnmoved_Exists(d) == (Pointer = 0) <=> (deployments[d].previous = 0)

\* The pointer is still the deployment, at the version, that this one was meant to replace.
PointerUnmoved(d) ==
    <<Pointer, Version(Pointer)>> = <<deployments[d].previous, deployments[d].previous_version>>

\* approve_deployment from the pointer to the commit.
ApproveActivate(a) ==
    LET d == request[a].target IN
    /\ request[a].at = "gated"
    /\ PointerUnmoved(d)
    /\ deployments' = [deployments EXCEPT ![d].status = "ACTIVE", ![d].approver = a,
                                          ![d].version = @ + 1]
    /\ timeline' = [timeline EXCEPT ![At(Entry(a))] = Activated(d)]
    /\ request' = [request EXCEPT ![a] = Idle]
    /\ lock' = Nobody
    /\ UNCHANGED <<environment, releases, suites, runs>>

\* record_eval_canary_observation with a failing metric: any ACTIVE production deployment
\* whose release has a passed run, be it the pointer or not.  A good one changes nothing.
Halt(d) ==
    /\ Production /\ deployments[d].status = "ACTIVE"
    /\ \E n \in ProductionRuns(deployments[d].release) : runs[n].status = "PASSED"
    /\ deployments' = [deployments EXCEPT ![d].status = "HALTED", ![d].version = @ + 1]
    /\ UNCHANGED <<environment, releases, timeline, request, suites, runs, lock>>

PromotionNext ==
    \/ \E body \in SuiteBodies : CreateEvalSuite(body)
    \/ \E release \in DOMAIN releases, env \in {"STAGING", "PRODUCTION"} :
          BeginEvalRun(release, env)
    \/ \E n \in DOMAIN runs, evidence \in Evidences : CommitEvalRun(n, evidence)
    \/ \E a \in Admins :
          \/ BeginCreate(a) \/ BeginRollback(a) \/ Abandon(a)
          \/ ApproveGate(a) \/ ApproveActivate(a)
          \/ \E d \in DOMAIN deployments : BeginApprove(a, d)
          \/ \E release \in DOMAIN releases : \/ RollbackDeployment(a, release)
                                              \/ \E full \in BOOLEAN :
                                                    CreateDeployment(a, release, full)
    \/ \E d \in DOMAIN deployments : Halt(d)

----------------------------------------------------------------------------
(* Properties *)

DeploymentTypeOK ==
    /\ environment \in {"STAGING", "PRODUCTION"}
    /\ deployments \in Seq(Deployment) /\ Len(deployments) <= MaxDeployments
    /\ timeline \in Seq(({"request"} \X Admins) \cup ({"deployment"} \X Nat))
    /\ request \in [Admins -> Request]
    /\ suites \in Seq(SuiteBodies) /\ runs \in Seq(Run)
    /\ \A d \in DOMAIN deployments :
          /\ deployments[d].release \in DOMAIN releases
          /\ deployments[d].previous \in 0..(d - 1)
          /\ IsActivated(d) <=> deployments[d].status # "PENDING_APPROVAL"
    /\ \A a \in Admins : request[a] # Idle <=> Entry(a) \in {timeline[i] : i \in DOMAIN timeline}

\* A run whose stored evidence really meets its suite: every deterministic assertion holds and
\* every metric was measured and is within its limit.
Sound(run) ==
    LET suite == suites[run.suite] IN
    /\ \A x \in suite.assertions : x \in run.evidence.assertions
    /\ \A m \in {"quality", "latency_ms", "cost_micros"} : run.evidence[m] # None
    /\ suite.quality_min \in Nat => run.evidence.quality >= suite.quality_min
    /\ \A p \in {<<"latency_ms", "latency_ms_max">>, <<"cost_micros", "cost_micros_max">>} :
          run.evidence[p[1]] <= Threshold(suite[p[2]])

\* Sessions in production are only ever routed by a deployment that a second person approved
\* and whose release has a sound production run (docs/adr/0029, docs/adr/0044; approve_deployment
\* and evals.py).
PromotedOnEvidence ==
    Production => \A d \in DOMAIN deployments :
       deployments[d].status # "PENDING_APPROVAL" =>
          /\ deployments[d].approver \notin {deployments[d].initiator, Nobody}
          /\ \E n \in DOMAIN runs : /\ runs[n].release = deployments[d].release
                                    /\ runs[n].environment = "PRODUCTION"
                                    /\ runs[n].status = "PASSED" /\ Sound(runs[n])

\* At the moment a production deployment becomes ACTIVE the newest committed run of its release
\* is a pass, although the gate was asked one step earlier (evals.py:13-15 A later failed run
\* must supersede an older pass; otherwise a release could be promoted after its safety or
\* regression evidence has been invalidated).
EvidenceStands ==
    [][\A d \in DOMAIN deployments :
          deployments[d].status = "PENDING_APPROVAL" /\ deployments'[d].status = "ACTIVE"
             => LET R == {n \in DOMAIN runs : /\ runs[n].release = deployments[d].release
                                              /\ runs[n].environment = "PRODUCTION"
                                              /\ runs[n].status # "OPEN"} IN
                \E n \in R : runs[n].status = "PASSED" /\ \A m \in R : m <= n]_deploymentVars

\* No update of the pointer is lost: nothing that is still ACTIVE was activated between a
\* deployment and the one it was meant to replace, so that halting it falls back to that one or
\* to something older (approve_deployment compares the pointer, create_deployment If-Match).
NothingActiveBetween ==
    \A d, e \in DOMAIN deployments :
       {d, e} \subseteq Active /\ At(Activated(e)) < At(Activated(d)) =>
          /\ deployments[d].previous # 0
          /\ At(Activated(e)) <= At(Activated(deployments[d].previous))

Activates(d) == /\ d \in DOMAIN deployments => deployments[d].status # "ACTIVE"
                /\ deployments'[d].status = "ACTIVE"

\* A deployment that is activated is the pointer from then on, although activated_at is the
\* start of its transaction and others may have started later and committed earlier.
ActivationMovesPointer ==
    [][\A d \in DOMAIN deployments' : Activates(d) => Pointer' = d]_deploymentVars

\* docs/adr/0044: 触发安全阈值时停止推广或回滚.  A release whose deployment was halted gets no
\* more sessions unless it is deployed again.  It does not hold: a canary above the halted
\* deployment still sends it the sessions outside its bucket.
HaltedGetsNothing ==
    \A d \in DOMAIN deployments :
       deployments[d].status = "HALTED" /\ Pointer # 0 =>
          \/ deployments[d].release \notin Targets(Pointer)
          \/ \E e \in Active : deployments[e].release = deployments[d].release
=============================================================================
