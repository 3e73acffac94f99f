--------------------------- MODULE PolicyBundles ---------------------------
(***************************************************************************)
(* The versions of a tenant's governance rules (trpc_service/              *)
(* policy_bundles.py and admin_api/policies.py): which version governs the *)
(* decisions of a session while administrators create and activate others. *)
(*                                                                         *)
(* create_version reads the next version in a transaction of its own and   *)
(* inserts in another.  activate is one READ COMMITTED transaction: it     *)
(* locks the row of its version, retires others by an UPDATE that finds    *)
(* rows by a snapshot, waits for the locked ones and looks at them again,  *)
(* and marks its own row.  Rules and signatures never change, so a version *)
(* that verified at its creation verifies later.                           *)
(***************************************************************************)
EXTENDS Integers, Sequences, FiniteSets

CONSTANTS
    Admins, Nobody, None,
    MaxBundles     \* bound: versions

VARIABLES
    bundles,       \* sequence of statuses; its index is the version
    drafting,      \* admin -> the version its create_version has read, or None
    activation,    \* admin -> its transaction of activate, or None
    rowLock        \* version -> holder of the row's lock, or Nobody

bundleVars == <<bundles, drafting, activation, rowLock>>

Versions == 1..MaxBundles

\* found: the rows the UPDATE still goes through; retired: the ones it has changed.
Activation == [version : Versions, status : {"ACTIVE", "CANARY"},
               at : {"locked", "retiring"}, found : SUBSET Versions, retired : SUBSET Versions]

BundleTypeOK ==
    /\ bundles \in Seq({"DRAFT", "ACTIVE", "CANARY", "RETIRED"})
    /\ Len(bundles) <= MaxBundles
    /\ drafting \in [Admins -> Versions \cup {None}]
    /\ activation \in [Admins -> Activation \cup {None}]
    /\ rowLock \in [Versions -> Admins \cup {Nobody}]

BundleInit ==
    /\ bundles = <<>>
    /\ drafting = [a \in Admins |-> None]
    /\ activation = [a \in Admins |-> None]
    /\ rowLock = [v \in Versions |-> Nobody]

----------------------------------------------------------------------------
(* create_version *)

NextVersion(a) ==
    /\ drafting[a] = None /\ activation[a] = None
    /\ Len(bundles) < MaxBundles
    /\ drafting' = [drafting EXCEPT ![a] = Len(bundles) + 1]
    /\ UNCHANGED <<bundles, activation, rowLock>>

\* The primary key refuses a version that another administrator has taken.
CreateVersion(a) ==
    /\ drafting[a] # None
    /\ bundles' = IF drafting[a] = Len(bundles) + 1 THEN Append(bundles, "DRAFT") ELSE bundles
    /\ drafting' = [drafting EXCEPT ![a] = None]
    /\ UNCHANGED <<activation, rowLock>>

----------------------------------------------------------------------------
(* activate *)

\* SELECT ... FOR UPDATE; a canary when a percentage is given.
Activate(a, v, status) ==
    /\ activation[a] = None /\ drafting[a] = None
    /\ v \in DOMAIN bundles /\ rowLock[v] = Nobody
    /\ activation' = [activation EXCEPT ![a] = [version |-> v, status |-> status,
                            at |-> "locked", found |-> {}, retired |-> {}]]
    /\ rowLock' = [rowLock EXCEPT ![v] = a]
    /\ UNCHANGED <<bundles, drafting>>

\* A canary coexists with the stable version; only the previous canary retires.
Retirable(status) == IF status = "CANARY" THEN {"CANARY"} ELSE {"ACTIVE", "CANARY"}

FindRows(a) ==
    LET t == activation[a]
    IN  /\ t # None /\ t.at = "locked"
        /\ activation' = [activation EXCEPT ![a].at = "retiring", ![a].found =
                {w \in DOMAIN bundles \ {t.version} : bundles[w] \in Retirable(t.status)}]
        /\ UNCHANGED <<bundles, drafting, rowLock>>

\* The UPDATE gets a row's lock and looks at its status again.
RetireRow(a, w) ==
    LET t == activation[a]
        matches == bundles[w] \in Retirable(t.status)
    IN  /\ t # None /\ w \in t.found /\ rowLock[w] = Nobody
        /\ activation' = [activation EXCEPT ![a].found = @ \ {w},
                            ![a].retired = IF matches THEN @ \cup {w} ELSE @]
        /\ rowLock' = IF matches THEN [rowLock EXCEPT ![w] = a] ELSE rowLock
        /\ UNCHANGED <<bundles, drafting>>

Released(a) == [v \in Versions |-> IF rowLock[v] = a THEN Nobody ELSE rowLock[v]]

\* Mutant: the version is marked first, and the UPDATE that follows does not spare it.
MarkRow_First(a) ==
    LET t == activation[a]
    IN  /\ t # None /\ t.at = "retiring" /\ t.found = {}
        /\ bundles' = [v \in DOMAIN bundles |->
                IF v = t.version \/ v \in t.retired THEN "RETIRED" ELSE bundles[v]]
        /\ rowLock' = Released(a)
        /\ activation' = [activation EXCEPT ![a] = None]
        /\ UNCHANGED drafting

\* The version is marked and the transaction commits.
MarkRow(a) ==
    LET t == activation[a]
    IN  /\ t # None /\ t.at = "retiring" /\ t.found = {}
        /\ bundles' = [v \in DOMAIN bundles |->
                IF v = t.version THEN t.status
                ELSE IF v \in t.retired THEN "RETIRED" ELSE bundles[v]]
        /\ rowLock' = Released(a)
        /\ activation' = [activation EXCEPT ![a] = None]
        /\ UNCHANGED drafting

\* The transaction is the victim of a deadlock, fails or is cancelled.
RollBackActivation(a) ==
    /\ activation[a] # None
    /\ rowLock' = Released(a)
    /\ activation' = [activation EXCEPT ![a] = None]
    /\ UNCHANGED <<bundles, drafting>>

GovernanceNext ==
    \E a \in Admins :
        \/ NextVersion(a) \/ CreateVersion(a) \/ FindRows(a) \/ MarkRow(a)
        \/ RollBackActivation(a)
        \/ \E v \in Versions : RetireRow(a, v)
        \/ \E v \in Versions, status \in {"ACTIVE", "CANARY"} : Activate(a, v, status)

----------------------------------------------------------------------------
(* resolve *)

NoPolicy == 0          \* None: the platform's defaults
Unavailable == -1      \* POLICY_BUNDLE_UNAVAILABLE

WithStatus(status) == {v \in DOMAIN bundles : bundles[v] = status}
LowestOf(S) == CHOOSE v \in S : \A w \in S : v <= w

\* The version that governs a decision, by whether its key is in the canary's share.
Resolved(inShare) ==
    LET stable == WithStatus("ACTIVE")
        canary == WithStatus("CANARY")
    IN  IF stable \cup canary = {} THEN NoPolicy
        ELSE IF stable = {} THEN Unavailable
        ELSE IF inShare /\ canary # {} THEN LowestOf(canary) ELSE LowestOf(stable)

----------------------------------------------------------------------------
(* Properties *)

\* "absent bundles fail closed": once a version was activated, no decision is taken
\* without a policy again, however activations of several versions overlap or fail.
StaysGoverned ==
    (\E v \in DOMAIN bundles : bundles[v] # "DRAFT") =>
        \A inShare \in BOOLEAN : Resolved(inShare) # NoPolicy

\* "A canary coexists with the stable ACTIVE version": starting a canary changes
\* nothing for the decisions outside its share, also when the version it found as
\* the previous canary is made stable before it gets to it.
CanaryKeepsStable ==
    [][\A a \in Admins :
        MarkRow(a) /\ activation[a].status = "CANARY" /\ Resolved(FALSE) \in Versions
            /\ activation[a].version # Resolved(FALSE)
                => Resolved(FALSE)' = Resolved(FALSE)]_bundleVars

(* Statements of the documentation that the code does not keep *)

\* "Activation moves the stable pointer (retiring the previous active version)": the
\* version a stable activation has just committed governs.
ActivationMovesStable ==
    [][\A a \in Admins :
        MarkRow(a) /\ activation[a].status = "ACTIVE"
            => Resolved(FALSE)' = activation[a].version]_bundleVars

============================================================================
