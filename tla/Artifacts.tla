------------------------------ MODULE Artifacts ------------------------------
(***************************************************************************)
(* Artifacts of one tenant (trpc_service/artifacts.py): creation with its  *)
(* audit precondition, subject-bound access tokens, downloads, and the     *)
(* purge of expired artifacts by the job worker.                           *)
(*                                                                         *)
(* Time is a choice: an artifact or a token may expire at any moment.  A   *)
(* token ends with its artifact at the latest.                             *)
(***************************************************************************)
EXTENDS RetentionHolds

CONSTANTS
    Artifact,      \* artifact ids
    Subjects,      \* IM subjects
    MaxAborts      \* bound: refused audit writes and process deaths

ASSUME ArtifactAssumption == MaxAborts \in Nat

VARIABLES
    stored,    \* artifact -> "NONE", "CREATING", "STORED", "ORPHAN" or "DELETED"
    owner,     \* artifact -> the subject it was created for
    expired,   \* artifacts past expires_at
    tokens,    \* live access tokens: <<artifact, subject>>
    download,  \* subject -> artifact whose bytes a download has read, or Nobody
    served,    \* <<artifact, subject>> whose bytes were returned
    trail,     \* audit events: <<action, artifact, subject>>
    purge,     \* the lifecycle worker: where it is and what it still has to delete
    aborts

artifactVars == <<stored, owner, expired, tokens, download, served, trail, purge, aborts>>

Resting == [at |-> "idle", left |-> {}, deleted |-> Nobody]
ArtifactActions == {"artifact.created", "artifact.access_issued", "artifact.accessed",
                    "artifact.access_denied", "artifact.expired"}

ArtifactTypeOK ==
    /\ stored \in [Artifact -> {"NONE", "CREATING", "STORED", "ORPHAN", "DELETED"}]
    /\ owner \in [Artifact -> Subjects \cup {Nobody}]
    /\ expired \subseteq Artifact
    /\ tokens \subseteq Artifact \X Subjects /\ served \subseteq Artifact \X Subjects
    /\ download \in [Subjects -> Artifact \cup {Nobody}]
    /\ trail \subseteq ArtifactActions \X Artifact \X Subjects
    /\ purge.at \in {"idle", "unheld", "delete", "audit"} /\ purge.left \subseteq Artifact
    /\ aborts \in 0..MaxAborts

ArtifactInit ==
    /\ stored = [a \in Artifact |-> "NONE"] /\ owner = [a \in Artifact |-> Nobody]
    /\ expired = {} /\ tokens = {} /\ served = {} /\ trail = {}
    /\ download = [s \in Subjects |-> Nobody]
    /\ purge = Resting /\ aborts = 0

Audit(action, a, s) == trail' = trail \cup {<<action, a, s>>}

-----------------------------------------------------------------------------
\* create: the screened object is stored first ...
CreateArtifact(a, s) ==
    /\ stored[a] = "NONE"
    /\ stored' = [stored EXCEPT ![a] = "CREATING"]
    /\ owner' = [owner EXCEPT ![a] = s]
    /\ UNCHANGED <<expired, tokens, download, served, trail, purge, aborts>>

\* ... then audited, and only then returned to the caller.
AuditCreated(a) ==
    /\ stored[a] = "CREATING"
    /\ stored' = [stored EXCEPT ![a] = "STORED"]
    /\ Audit("artifact.created", a, owner[a])
    /\ UNCHANGED <<owner, expired, tokens, download, served, purge, aborts>>

\* The audit write is refused: the object is deleted again.
AuditCreatedRefused(a) ==
    /\ stored[a] = "CREATING" /\ aborts < MaxAborts
    /\ stored' = [stored EXCEPT ![a] = "DELETED"]
    /\ aborts' = aborts + 1
    /\ UNCHANGED <<owner, expired, tokens, download, served, trail, purge>>

\* The process dies between the two writes.
CreatorDies(a) ==
    /\ stored[a] = "CREATING" /\ aborts < MaxAborts
    /\ stored' = [stored EXCEPT ![a] = "ORPHAN"]
    /\ aborts' = aborts + 1
    /\ UNCHANGED <<owner, expired, tokens, download, served, trail, purge>>

\* A row is readable while its creation is still waiting for the audit write.
Readable(a) == stored[a] \in {"CREATING", "STORED", "ORPHAN"}

ArtifactExpires(a) ==
    /\ Readable(a) /\ a \notin expired
    /\ expired' = expired \cup {a}
    /\ tokens' = {t \in tokens : t[1] # a}
    /\ UNCHANGED <<stored, owner, download, served, trail, purge, aborts>>

TokenExpires(a, s) ==
    /\ <<a, s>> \in tokens
    /\ tokens' = tokens \ {<<a, s>>}
    /\ UNCHANGED <<stored, owner, expired, download, served, trail, purge, aborts>>

\* Mutant: the subject is not compared.
Owned_AnySubject(a, s) == Readable(a) /\ a \notin expired

Owned(a, s) == Readable(a) /\ a \notin expired /\ owner[a] = s

\* The id is not known to anyone before create returns it.
IssueAccessToken(a, s) ==
    /\ stored[a] = "STORED" /\ Owned(a, s)
    /\ tokens' = tokens \cup {<<a, s>>}
    /\ Audit("artifact.access_issued", a, s)
    /\ UNCHANGED <<stored, owner, expired, download, served, purge, aborts>>

\* The signed payload names artifact, subject and tenant; t is the token's subject.
VerifyToken(a, s, t) == t = s /\ <<a, t>> \in tokens

\* download reads the bytes and checks ownership and token ...
DownloadRead(a, s, t) ==
    /\ download[s] = Nobody /\ Owned(a, s) /\ VerifyToken(a, s, t)
    /\ download' = [download EXCEPT ![s] = a]
    /\ UNCHANGED <<stored, owner, expired, tokens, served, trail, purge, aborts>>

\* ... or refuses, and audits the refusal of an object that exists.
DownloadDenied(a, s, t) ==
    /\ download[s] = Nobody /\ stored[a] \in {"STORED", "DELETED"}
    /\ ~(Owned(a, s) /\ VerifyToken(a, s, t))
    /\ trail' = IF Readable(a) THEN trail \cup {<<"artifact.access_denied", a, s>>} ELSE trail
    /\ UNCHANGED <<stored, owner, expired, tokens, download, served, purge, aborts>>

\* The access is audited before the bytes are returned.
DownloadServe(s) ==
    /\ download[s] # Nobody
    /\ Audit("artifact.accessed", download[s], s)
    /\ served' = served \cup {<<download[s], s>>}
    /\ download' = [download EXCEPT ![s] = Nobody]
    /\ UNCHANGED <<stored, owner, expired, tokens, purge, aborts>>

-----------------------------------------------------------------------------
(* ArtifactLifecycleWorker.run_once and purge.                             *)

\* The hold is looked up in a transaction of its own.
PurgeCheck ==
    /\ purge.at = "idle" /\ ~HoldActive
    /\ purge' = [purge EXCEPT !.at = "unheld"]
    /\ UNCHANGED <<stored, owner, expired, tokens, download, served, trail, aborts>>

ListExpired == {a \in expired : Readable(a)}

PurgeList ==
    /\ purge.at = "unheld"
    /\ purge' = IF ListExpired = {} THEN Resting
                ELSE [at |-> "delete", left |-> ListExpired, deleted |-> Nobody]
    /\ UNCHANGED <<stored, owner, expired, tokens, download, served, trail, aborts>>

PurgeDelete(a) ==
    /\ purge.at = "delete" /\ a \in purge.left
    /\ stored' = [stored EXCEPT ![a] = "DELETED"]
    /\ purge' = [at |-> "audit", left |-> purge.left \ {a}, deleted |-> a]
    /\ UNCHANGED <<owner, expired, tokens, download, served, trail, aborts>>

PurgeAudit ==
    /\ purge.at = "audit"
    /\ Audit("artifact.expired", purge.deleted, owner[purge.deleted])
    /\ purge' = IF purge.left = {} THEN Resting
                ELSE [purge EXCEPT !.at = "delete", !.deleted = Nobody]
    /\ UNCHANGED <<stored, owner, expired, tokens, download, served, aborts>>

\* An exception ends the pass; the job worker's loop starts the next one.
PurgeAborts ==
    /\ purge.at \in {"delete", "audit"} /\ aborts < MaxAborts
    /\ purge' = Resting
    /\ aborts' = aborts + 1
    /\ UNCHANGED <<stored, owner, expired, tokens, download, served, trail>>

PurgeStep == PurgeCheck \/ PurgeList \/ (\E a \in Artifact : PurgeDelete(a)) \/ PurgeAudit

ArtifactNext ==
    \/ \E a \in Artifact, s \in Subjects : CreateArtifact(a, s)
    \/ \E a \in Artifact : AuditCreated(a)
    \/ \E a \in Artifact : AuditCreatedRefused(a)
    \/ \E a \in Artifact : CreatorDies(a)
    \/ \E a \in Artifact : ArtifactExpires(a)
    \/ \E a \in Artifact, s \in Subjects : TokenExpires(a, s)
    \/ \E a \in Artifact, s \in Subjects : IssueAccessToken(a, s)
    \/ \E a \in Artifact, s, t \in Subjects : DownloadRead(a, s, t)
    \/ \E a \in Artifact, s, t \in Subjects : DownloadDenied(a, s, t)
    \/ \E s \in Subjects : DownloadServe(s)
    \/ PurgeStep
    \/ PurgeAborts

-----------------------------------------------------------------------------
\* Bytes are returned only to the subject the artifact belongs to, and never without the
\* audit event, even if the artifact expires or is purged during the download.
ServedToOwnerAndAudited ==
    \A a \in Artifact, s \in Subjects : <<a, s>> \in served =>
        s = owner[a] /\ <<"artifact.accessed", a, s>> \in trail

\* An artifact that create returned has its creation in the audit chain: a refused audit
\* write removes the object again, so that nothing unaudited is ever handed out.
ReturnedIsAudited ==
    \A a \in Artifact : stored[a] = "STORED" => <<"artifact.created", a, owner[a]>> \in trail

\* An expired artifact is purged unless a hold is placed, also after failed passes, and
\* also the object whose creator died before it could audit it.
ExpiredIsPurged ==
    \A a \in Artifact : a \in expired /\ Readable(a) ~> stored[a] = "DELETED" \/ HoldActive

\* Not kept: "A failure must not leave a readable object that is absent from the
\* tamper-evident chain" (artifacts.py:305).  A creator that dies leaves one.
ReadableIsAudited ==
    \A a \in Artifact : stored[a] \in {"STORED", "ORPHAN"} =>
        <<"artifact.created", a, owner[a]>> \in trail

\* Not kept: every purge is in the trail.  The row is deleted before the audit write, and a
\* failure between the two is not made up for (artifacts.py:353-354).
PurgeIsAudited ==
    \A a \in Artifact : purge.at = "idle" /\ a \in expired /\ stored[a] = "DELETED" =>
        <<"artifact.expired", a, owner[a]>> \in trail
=============================================================================
