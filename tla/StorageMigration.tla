-------------------------- MODULE StorageMigration --------------------------
(***************************************************************************)
(* Storage Profiles of one tenant and the online migration between them:   *)
(* the state machine (trpc_service/storage_migration.py), the worker that  *)
(* executes its phases (storage_migration_worker.py), the administrators'  *)
(* operations (admin_api/storage_migrations.py, storage_profiles.py), and  *)
(* the workers that resolve the active profile before they write           *)
(* (storage.py, agent_worker.py).                                          *)
(*                                                                         *)
(* The migration row is locked for a whole phase, the backends are not:    *)
(* business writes go on between reading one backend and writing the       *)
(* other.  Each write stores the next number, so a larger value is newer.  *)
(***************************************************************************)
EXTENDS Integers, Sequences

CONSTANTS
    Profiles, Primary,  \* Storage Profiles; the one active at the beginning
    Migrations,         \* migration ids, used once each
    Keys,               \* objects of the tenant
    Admins, Requesters, \* tenant administrators; those who request migrations
    Nothing,            \* no row, no value
    MaxWrites,          \* bound: business writes
    MaxFailures         \* bound: failed or interrupted phases

VARIABLES
    storage_profile,    \* profile -> "NONE", "INACTIVE" or "ACTIVE"
    storage_migration,  \* id -> row with its checkpoint, or Nothing
    objects, changes,   \* each profile's backend: contents and change feed
    phase,              \* the phase the migration worker is executing
    writer,             \* an Agent Worker with the router it resolved
    strayed,            \* a write went to a profile that is no longer resolved
    writes, failures

vars == <<storage_profile, storage_migration, objects, changes, phase, writer, strayed,
          writes, failures>>

ForwardPhases == {"BACKFILLING", "CATCHING_UP", "VALIDATING"}
RollbackPhases == {"ROLLING_BACK", "ROLLBACK_CATCHING_UP", "ROLLBACK_VALIDATING"}
Closed == {"COMPLETED", "ROLLED_BACK", "FAILED"}
States == ForwardPhases \cup RollbackPhases \cup Closed
              \cup {"PREPARED", "READY_TO_SWITCH", "OBSERVING"}
Approvals == {"NONE", "PENDING", "APPROVED", "DENIED"}

Migration == [state : States, source : Profiles, target : Profiles,
              requested_by : Admins, approval : Approvals, approved_by : Admins \cup {Nothing},
              rollback : Approvals, rollback_by : Admins \cup {Nothing},
              rollback_approved_by : Admins \cup {Nothing},
              forward : Nat \cup {Nothing}, backward : Nat \cup {Nothing}]
Contents == [Keys -> 0..MaxWrites]

ASSUME StorageAssumption ==
    /\ Primary \in Profiles /\ Requesters \subseteq Admins
    /\ Nothing \notin Profiles \cup Migrations \cup Admins \cup Migration
    /\ MaxWrites \in Nat /\ MaxFailures \in Nat

\* read, apply, commit; for a validation read, compare, commit.
NoPhase == [id |-> Nothing, at |-> "idle", data |-> Nothing, watermark |-> 0]

TypeOK ==
    /\ storage_profile \in [Profiles -> {"NONE", "INACTIVE", "ACTIVE"}]
    /\ storage_migration \in [Migrations -> Migration \cup {Nothing}]
    /\ objects \in [Profiles -> Contents]
    /\ changes \in [Profiles -> Seq(Keys \X (1..MaxWrites))]
    /\ phase \in [id : Migrations \cup {Nothing},
                  at : {"idle", "read", "apply", "compare", "commit"},
                  data : Contents \cup {Nothing}, watermark : Nat]
    /\ writer \in [router : Profiles \cup {Nothing}, late : BOOLEAN]
    /\ strayed \in BOOLEAN
    /\ writes \in 0..MaxWrites /\ failures \in 0..MaxFailures

Init ==
    /\ storage_profile = [p \in Profiles |-> IF p = Primary THEN "ACTIVE" ELSE "NONE"]
    /\ storage_migration = [m \in Migrations |-> Nothing]
    /\ objects = [p \in Profiles |-> [k \in Keys |-> 0]]
    /\ changes = [p \in Profiles |-> <<>>]
    /\ phase = NoPhase
    /\ writer = [router |-> Nothing, late |-> FALSE]
    /\ strayed = FALSE /\ writes = 0 /\ failures = 0

Rows == {m \in Migrations : storage_migration[m] # Nothing}
Row(m) == storage_migration[m]
Unlocked(m) == phase.id # m

\* ------------------------------------------------------- the state machine

Operations == {"START_BACKFILL", "BACKFILL_COMPLETE", "CATCH_UP_COMPLETE", "VALIDATE", "SWITCH",
               "COMPLETE", "START_ROLLBACK", "ROLLBACK_BACKFILL_COMPLETE",
               "ROLLBACK_CATCH_UP_COMPLETE", "ROLLBACK_VALIDATE"}

Transitions ==
    {<<"PREPARED", "START_BACKFILL", "BACKFILLING">>,
     <<"BACKFILLING", "BACKFILL_COMPLETE", "CATCHING_UP">>,
     <<"CATCHING_UP", "CATCH_UP_COMPLETE", "VALIDATING">>,
     <<"VALIDATING", "VALIDATE", "READY_TO_SWITCH">>,
     <<"READY_TO_SWITCH", "SWITCH", "OBSERVING">>,
     <<"OBSERVING", "COMPLETE", "COMPLETED">>,
     <<"OBSERVING", "START_ROLLBACK", "ROLLING_BACK">>,
     <<"ROLLING_BACK", "ROLLBACK_BACKFILL_COMPLETE", "ROLLBACK_CATCHING_UP">>,
     <<"ROLLBACK_CATCHING_UP", "ROLLBACK_CATCH_UP_COMPLETE", "ROLLBACK_VALIDATING">>,
     <<"ROLLBACK_VALIDATING", "ROLLBACK_VALIDATE", "ROLLED_BACK">>}

CanAdvance(state, op) == \E t \in Transitions : t[1] = state /\ t[2] = op
Advance(state, op) == (CHOOSE t \in Transitions : t[1] = state /\ t[2] = op)[3]

\* business_write_profile_id: the sole profile application code may write.
BusinessWriteProfile(m) ==
    CASE Row(m).state \in RollbackPhases -> Nothing
      [] Row(m).state \in {"OBSERVING", "COMPLETED"} -> Row(m).target
      [] OTHER -> Row(m).source

\* ---------------------------------------------------------- administrators

\* create_profile: another profile may be active at once only if none is yet.
CreateProfile(p, activate) ==
    /\ storage_profile[p] = "NONE"
    /\ activate => \A q \in Profiles : storage_profile[q] # "ACTIVE"
    /\ storage_profile' = [storage_profile EXCEPT ![p] = IF activate THEN "ACTIVE" ELSE "INACTIVE"]
    /\ UNCHANGED <<storage_migration, objects, changes, phase, writer, strayed, writes, failures>>

\* create_migration, under the index that allows one open migration.
CreateMigration(m, a, target) ==
    /\ Row(m) = Nothing /\ \A n \in Rows : Row(n).state \in Closed
    /\ storage_profile[target] = "INACTIVE"
    /\ \E source \in Profiles :
        /\ storage_profile[source] = "ACTIVE"
        /\ storage_migration' = [storage_migration EXCEPT ![m] =
              [state |-> "PREPARED", source |-> source, target |-> target,
               requested_by |-> a, approval |-> "PENDING", approved_by |-> Nothing,
               rollback |-> "NONE", rollback_by |-> Nothing, rollback_approved_by |-> Nothing,
               forward |-> Nothing, backward |-> Nothing]]
    /\ UNCHANGED <<storage_profile, objects, changes, phase, writer, strayed, writes, failures>>

DecideMigrationApproval(m, a, approve) ==
    /\ m \in Rows /\ Unlocked(m)
    /\ Row(m).approval = "PENDING" /\ a # Row(m).requested_by
    /\ storage_migration' = [storage_migration EXCEPT
            ![m].approval = IF approve THEN "APPROVED" ELSE "DENIED",
            ![m].state = IF approve THEN "PREPARED" ELSE "FAILED",
            ![m].approved_by = a]
    /\ UNCHANGED <<storage_profile, objects, changes, phase, writer, strayed, writes, failures>>

StartMigration(m) ==
    /\ m \in Rows /\ Unlocked(m)
    /\ Row(m).approval = "APPROVED" /\ CanAdvance(Row(m).state, "START_BACKFILL")
    /\ storage_migration' = [storage_migration EXCEPT ![m].state = Advance(@, "START_BACKFILL")]
    /\ UNCHANGED <<storage_profile, objects, changes, phase, writer, strayed, writes, failures>>

SwitchActive(row) == [storage_profile EXCEPT ![row.source] = "INACTIVE", ![row.target] = "ACTIVE"]

\* advance_migration: SWITCH moves the active profile in the same transaction;
\* COMPLETE waits for the end of the observation, which may come at any time.
AdvanceMigration(m, op) ==
    /\ m \in Rows /\ Unlocked(m)
    /\ Row(m).approval = "APPROVED" /\ CanAdvance(Row(m).state, op)
    /\ storage_migration' = [storage_migration EXCEPT ![m].state = Advance(@, op)]
    /\ IF op = "SWITCH"
       THEN storage_profile' = SwitchActive(Row(m))
       ELSE UNCHANGED storage_profile
    /\ UNCHANGED <<objects, changes, phase, writer, strayed, writes, failures>>

MayDecideRollback(row, a) == row.rollback = "PENDING" /\ a # row.rollback_by

DecideRollbackApproval(m, a, decision) ==
    /\ m \in Rows /\ Unlocked(m) /\ Row(m).state = "OBSERVING"
    /\ IF decision = "REQUEST"
       THEN /\ Row(m).rollback = "NONE"
            /\ storage_migration' = [storage_migration EXCEPT
                    ![m].rollback = "PENDING", ![m].rollback_by = a]
       ELSE /\ MayDecideRollback(Row(m), a)
            /\ storage_migration' = [storage_migration EXCEPT
                    ![m].rollback = decision, ![m].rollback_approved_by = a]
    /\ UNCHANGED <<storage_profile, objects, changes, phase, writer, strayed, writes, failures>>

RollbackMigration(m) ==
    /\ m \in Rows /\ Unlocked(m)
    /\ Row(m).rollback = "APPROVED" /\ CanAdvance(Row(m).state, "START_ROLLBACK")
    /\ storage_migration' = [storage_migration EXCEPT ![m].state = Advance(@, "START_ROLLBACK")]
    /\ UNCHANGED <<storage_profile, objects, changes, phase, writer, strayed, writes, failures>>

\* ------------------------------------------------------ the business writes

\* Mutant: the resolver does not look at migrations.
Fenced_Never(p) == FALSE

\* A migration into the profile that is neither observed nor completed.
Fenced(p) ==
    \E m \in Rows : Row(m).target = p /\ Row(m).state \notin {"OBSERVING", "COMPLETED"}

\* DatabaseStorageProfileResolver.resolve
Resolvable == {p \in Profiles : storage_profile[p] = "ACTIVE" /\ ~ Fenced(p)}

RollingBack == \E m \in Rows : Row(m).state \in RollbackPhases

\* An Agent Worker resolves the profile before it accepts work (late: while a
\* rollback is going on).
ResolveStorage(p) ==
    /\ p \in Resolvable
    /\ writer.router = Nothing
    /\ writer' = [router |-> p, late |-> RollingBack]
    /\ UNCHANGED <<storage_profile, storage_migration, objects, changes, phase, strayed,
                   writes, failures>>

\* It writes, perhaps much later, to the profile it resolved.
Put(k) ==
    LET p == writer.router IN
    /\ p # Nothing /\ writes < MaxWrites
    /\ writes' = writes + 1
    /\ objects' = [objects EXCEPT ![p][k] = writes + 1]
    /\ changes' = [changes EXCEPT ![p] = Append(@, <<k, writes + 1>>)]
    /\ writer' = [router |-> Nothing, late |-> FALSE]
    /\ strayed' = (strayed \/ p \notin Resolvable)
    /\ UNCHANGED <<storage_profile, storage_migration, phase, failures>>

\* -------------------------------------------------- the migration worker

From(row) == IF row.state \in RollbackPhases THEN row.target ELSE row.source
To(row) == IF row.state \in RollbackPhases THEN row.source ELSE row.target
Backfilling == {"BACKFILLING", "ROLLING_BACK"}
CatchingUp == {"CATCHING_UP", "ROLLBACK_CATCHING_UP"}
Checkpoint(row) == IF row.state \in RollbackPhases THEN row.backward ELSE row.forward

\* run_once: lock the open migration that is in one of the worker's phases.
RunOnce(m) ==
    /\ phase = NoPhase
    /\ m \in Rows /\ Row(m).state \in ForwardPhases \cup RollbackPhases
    /\ phase' = [NoPhase EXCEPT !.id = m, !.at = "read"]
    /\ UNCHANGED <<storage_profile, storage_migration, objects, changes, writer, strayed,
                   writes, failures>>

Busy(m, place) == phase.id = m /\ phase.at = place

\* snapshot_tenant: contents and watermark together.
SnapshotTenant(m) ==
    LET from == From(Row(m)) IN
    /\ Busy(m, "read") /\ Row(m).state \in Backfilling
    /\ phase' = [phase EXCEPT !.at = "apply", !.data = objects[from],
                             !.watermark = Len(changes[from])]
    /\ UNCHANGED <<storage_profile, storage_migration, objects, changes, writer, strayed,
                   writes, failures>>

\* The newest value of k among the changes after a watermark, 0 if there is none.
Latest(feed, watermark, k) ==
    LET found == {feed[i][2] : i \in {j \in (watermark + 1)..Len(feed) : feed[j][1] = k}}
    IN  IF found = {} THEN 0 ELSE CHOOSE v \in found : \A w \in found : w <= v

ChangesSince(m) ==
    LET feed == changes[From(Row(m))] IN
    /\ Busy(m, "read") /\ Row(m).state \in CatchingUp
    /\ phase' = [phase EXCEPT !.at = "apply",
            !.data = [k \in Keys |-> Latest(feed, Checkpoint(Row(m)), k)],
            !.watermark = Len(feed)]
    /\ UNCHANGED <<storage_profile, storage_migration, objects, changes, writer, strayed,
                   writes, failures>>

\* apply_changes overwrites what it was given and deletes nothing.
ApplyChanges(m) ==
    LET to == To(Row(m)) IN
    /\ Busy(m, "apply")
    /\ objects' = [objects EXCEPT ![to] =
            [k \in Keys |-> IF phase.data[k] # 0 THEN phase.data[k] ELSE objects[to][k]]]
    /\ phase' = [phase EXCEPT !.at = "commit", !.data = Nothing]
    /\ UNCHANGED <<storage_profile, storage_migration, changes, writer, strayed, writes, failures>>

\* Mutant: the checkpoint takes the watermark of the time of the commit.
StoredWatermark_Late(m) == Len(changes[From(Row(m))])

StoredWatermark(m) == phase.watermark

CompleteOp(state) ==
    CASE state = "BACKFILLING" -> "BACKFILL_COMPLETE"
      [] state = "CATCHING_UP" -> "CATCH_UP_COMPLETE"
      [] state = "ROLLING_BACK" -> "ROLLBACK_BACKFILL_COMPLETE"
      [] state = "ROLLBACK_CATCHING_UP" -> "ROLLBACK_CATCH_UP_COMPLETE"

\* _upsert_checkpoint and _advance, committed with the row lock.
CommitCopy(m) ==
    LET row == Row(m) IN
    /\ Busy(m, "commit") /\ row.state \in Backfilling \cup CatchingUp
    /\ storage_migration' = [storage_migration EXCEPT ![m] =
            [row EXCEPT !.state = Advance(@, CompleteOp(row.state)),
                        !.forward = IF row.state \in RollbackPhases THEN @ ELSE StoredWatermark(m),
                        !.backward = IF row.state \in RollbackPhases THEN StoredWatermark(m) ELSE @]]
    /\ phase' = NoPhase
    /\ UNCHANGED <<storage_profile, objects, changes, writer, strayed, writes, failures>>

\* validate: the fingerprint of one side ...
Fingerprint(m) ==
    /\ Busy(m, "read") /\ Row(m).state \in {"VALIDATING", "ROLLBACK_VALIDATING"}
    /\ phase' = [phase EXCEPT !.at = "compare", !.data = objects[From(Row(m))]]
    /\ UNCHANGED <<storage_profile, storage_migration, objects, changes, writer, strayed,
                   writes, failures>>

\* Mutant: every failed phase is tried again.
RecordFailure_Retries(m) == phase' = NoPhase /\ UNCHANGED <<storage_migration, storage_profile>>

\* _record_failure: a forward migration fails, a rollback stays where it is.
RecordFailure(m) ==
    /\ storage_migration' = [storage_migration EXCEPT ![m].state =
            IF @ \in RollbackPhases THEN @ ELSE "FAILED"]
    /\ phase' = NoPhase
    /\ UNCHANGED storage_profile

\* ... and then of the other.  Only a validated rollback moves the active profile.
Validate(m) ==
    LET row == Row(m) IN
    /\ Busy(m, "compare")
    /\ \/ /\ phase.data = objects[To(row)]
          /\ IF row.state = "VALIDATING"
             THEN /\ storage_migration' = [storage_migration EXCEPT ![m].state =
                                              Advance(@, "VALIDATE")]
                  /\ UNCHANGED storage_profile
             ELSE /\ storage_migration' = [storage_migration EXCEPT ![m].state =
                                              Advance(@, "ROLLBACK_VALIDATE")]
                  /\ storage_profile' = [storage_profile EXCEPT ![row.target] = "INACTIVE",
                                                                ![row.source] = "ACTIVE"]
          /\ phase' = NoPhase
       \/ phase.data # objects[To(row)] /\ RecordFailure(m)
    /\ UNCHANGED <<objects, changes, writer, strayed, writes, failures>>

\* A backend reports an error the worker records, or the process or its
\* connection is gone and the transaction with it.
PhaseFails(m) ==
    /\ phase.id = m
    /\ failures < MaxFailures /\ failures' = failures + 1
    /\ \/ RecordFailure(m)
       \/ phase' = NoPhase /\ UNCHANGED <<storage_migration, storage_profile>>
    /\ UNCHANGED <<objects, changes, writer, strayed, writes>>

WorkerStep(m) ==
    \/ RunOnce(m) \/ SnapshotTenant(m) \/ ChangesSince(m) \/ ApplyChanges(m)
    \/ CommitCopy(m) \/ Fingerprint(m) \/ Validate(m)

AdminStep(m) ==
    \/ \E a \in Requesters, p \in Profiles : CreateMigration(m, a, p)
    \/ \E a \in Admins, approve \in BOOLEAN : DecideMigrationApproval(m, a, approve)
    \/ StartMigration(m)
    \/ \E op \in {"SWITCH", "COMPLETE"} : AdvanceMigration(m, op)
    \/ \E a \in Requesters : DecideRollbackApproval(m, a, "REQUEST")
    \/ \E a \in Admins, d \in {"APPROVED", "DENIED"} : DecideRollbackApproval(m, a, d)
    \/ RollbackMigration(m)

Next ==
    \/ \E p \in Profiles, activate \in BOOLEAN : CreateProfile(p, activate)
    \/ \E m \in Migrations : AdminStep(m) \/ WorkerStep(m) \/ PhaseFails(m)
    \/ \E p \in Profiles : ResolveStorage(p)
    \/ \E k \in Keys : Put(k)

\* The worker is called again and again; administrators and business requests
\* owe nothing.
Fairness == \A m \in Migrations : WF_vars(WorkerStep(m))

Spec == Init /\ [][Next]_vars
FairSpec == Spec /\ Fairness

-----------------------------------------------------------------------------

\* Exactly one profile is active, and it is the one the open migration's state
\* says: the target from the switch on, the source before it and after a
\* rollback (storage_migrations.py:317-329, storage_migration_worker.py:130-141).
ActiveFollowsState ==
    /\ \E p \in Profiles : \A q \in Profiles : storage_profile[q] = "ACTIVE" <=> q = p
    /\ \A m \in Rows : Row(m).state \notin Closed =>
          storage_profile[IF Row(m).state \in {"OBSERVING"} \cup RollbackPhases
                          THEN Row(m).target ELSE Row(m).source] = "ACTIVE"

\* What the copied side has and the other side does not have yet was written after the stored
\* watermark, so that the next catch-up finds it, although writes went on while
\* the snapshot was copied and phases were interrupted and repeated.  (Unless a
\* worker wrote to a profile it had resolved before a switch or a rollback.)
DifferencesAfterCheckpoint ==
    ~ strayed => \A m \in Rows :
        LET row == Row(m)
            Newer(p, watermark, k) == \E i \in (watermark + 1)..Len(changes[p]) : changes[p][i][1] = k
        IN  /\ row.state \in {"CATCHING_UP", "VALIDATING", "READY_TO_SWITCH"} =>
                  \A k \in Keys : objects[row.source][k] \in {0, objects[row.target][k]}
                                     \/ Newer(row.source, row.forward, k)
            /\ row.state \in {"ROLLBACK_CATCHING_UP", "ROLLBACK_VALIDATING"} =>
                  \A k \in Keys : objects[row.target][k] \in {0, objects[row.source][k]}
                                     \/ Newer(row.target, row.backward, k)

\* While a rollback copies and compares, no worker gets a router to a profile:
\* writes can come only from a worker that resolved before it began
\* (storage.py:294-305).
RollbackAdmitsNoWriter == ~ writer.late

\* The authority never moves without evidence: the active profile changes only
\* from a migration that was validated, forward or backward, and a failed one
\* leaves the source active.
AuthorityMovesOnEvidence ==
    [][\A m \in Rows :
          /\ Row(m).state \in ForwardPhases \cup {"PREPARED"} =>
                storage_profile'[Row(m).source] = "ACTIVE"
          /\ Row(m).state \in {"ROLLING_BACK", "ROLLBACK_CATCHING_UP"} =>
                storage_profile'[Row(m).target] = "ACTIVE"]_vars

\* A started migration is validated or fails: interrupted phases are repeated and
\* concurrent writes end in a failed validation, not in waiting.
ForwardPhasesEnd ==
    \A m \in Migrations :
        (m \in Rows /\ Row(m).state \in ForwardPhases) ~>
        (m \in Rows /\ Row(m).state \notin ForwardPhases)

-----------------------------------------------------------------------------
(* Statements of the documents that the code does not keep.                *)

\* ADR-0015: active Sessions are drained at a safe boundary before the switch.
\* NOT kept: what was written to the source after the last catch-up is absent
\* from the target once the profile is switched.
SwitchLosesNothing ==
    [][\A m \in Rows : Row(m).state = "READY_TO_SWITCH" /\ Row(m)'.state = "OBSERVING" =>
          \A k \in Keys : objects[Row(m).target][k] = objects[Row(m).source][k]]_vars

\* storage_migration.py:129 "The sole profile application code may write at the
\* current phase".  NOT kept: an earlier migration that failed or was rolled
\* back fences its target for good, so that after a later switch to it nothing
\* is resolved.
ResolverAgrees ==
    \A m \in Rows : Row(m).state \notin Closed =>
        Resolvable = {BusinessWriteProfile(m)} \ {Nothing}

\* storage_migration_worker.py:226 "an operator can retry".  NOT kept: an object
\* written to the source between validation and switch exists on the source
\* alone, copying back does not remove it, and every validation of the rollback
\* fails; the retry validates again and copies nothing.
RollbackEnds ==
    \A m \in Migrations :
        (m \in Rows /\ Row(m).state \in RollbackPhases) ~>
        (m \in Rows /\ Row(m).state = "ROLLED_BACK")

=============================================================================
