--------------------------- MODULE AgentReleases ---------------------------
(***************************************************************************)
(* The life of an agent application: authoring (AgentDrafts) publishes the *)
(* releases that promotion (AgentDeployments) routes sessions to.          *)
(*                                                                         *)
(* Promotion reads nothing of the draft and authoring nothing of the       *)
(* deployments, and releases are immutable; what they share is the list of *)
(* releases and the lock on the application row.  A behaviour starts       *)
(* either with no application, or with Published releases and no           *)
(* deployment; promotion starts once Published releases exist and nobody   *)
(* is publishing, and the draft is left alone from then on.                *)
(*                                                                         *)
(* What a release may do is governed by the tenant's policy bundles        *)
(* (PolicyBundles), which share no row with either.  A behaviour is about  *)
(* one of the three.                                                       *)
(***************************************************************************)
EXTENDS AgentDeployments

CONSTANTS
    Published,    \* the releases that promotion starts from
    MaxBundles

\* What authoring guarantees of its releases (SnapshotsAreDrafts).
ASSUME PublishedAssumption ==
    /\ Published \in Seq(ReleaseRow) /\ MaxBundles \in Nat
    /\ \A n \in DOMAIN Published : /\ Published[n].row.version = Published[n].version
                                  /\ Valid(Published[n].row.content)

VARIABLES
    about,        \* "authoring", "promotion" or "governance"; constant
    bundles, drafting, activation, rowLock

INSTANCE PolicyBundles

vars == <<about, bundles, drafting, activation, rowLock, application, draft, releases, editor,
          publisher, lock, environment, deployments, timeline, request, suites, runs>>

authored == <<application, draft, editor, publisher>>
governed == <<bundles, drafting, activation, rowLock>>
promoted == <<environment, deployments, timeline, request, suites, runs>>

Init ==
    /\ about \in {"authoring", "promotion", "governance"}
    /\ environment \in IF about = "promotion" THEN {"STAGING", "PRODUCTION"} ELSE {"STAGING"}
    /\ application = [status |-> IF about = "authoring" THEN "absent" ELSE "live", version |-> 1]
    /\ draft = None
    /\ releases = IF about = "authoring" THEN <<>> ELSE Published
    /\ editor = [a \in Admins |-> None] /\ publisher = [a \in Admins |-> None]
    /\ lock = Nobody
    /\ deployments = <<>> /\ timeline = <<>>
    /\ request = [a \in Admins |-> Idle]
    /\ suites = <<>> /\ runs = <<>>
    /\ BundleInit

Author == about = "authoring" /\ AuthoringNext /\ UNCHANGED <<about, promoted, governed>>
Promote == about = "promotion" /\ PromotionNext /\ UNCHANGED <<about, authored, governed>>
Govern ==
    /\ about = "governance" /\ GovernanceNext
    /\ UNCHANGED <<about, authored, promoted, releases, lock>>

Next == Author \/ Promote \/ Govern

Spec == Init /\ [][Next]_vars

TypeOK == DraftTypeOK /\ DeploymentTypeOK /\ BundleTypeOK
=============================================================================
