----------------------- MODULE StorageMigrationProofs -----------------------
(***************************************************************************)
(* The online migration between Storage Profiles, for any number of        *)
(* profiles, migrations, objects, writes and interrupted phases: one       *)
(* profile is active, the one the state of the open migration says; a      *)
(* rollback admits no writer; and what a copy has missed was written after *)
(* the watermark it stored.                                                *)
(*                                                                         *)
(* The row is locked while a phase runs, the backends are not.  So the     *)
(* invariant follows the data through a phase: what was read, where the    *)
(* feed stood then, and what has been written since.                       *)
(***************************************************************************)
EXTENDS StorageMigration, WellFoundedInduction, TLAPS

-----------------------------------------------------------------------------
(* The invariant *)

\* The profile that is to be active while the migration is open.
Expected(row) == IF row.state \in {"OBSERVING"} \cup RollbackPhases THEN row.target ELSE row.source

\* States after a copy: the checkpoint of its direction is stored.
Copied == {"CATCHING_UP", "VALIDATING", "READY_TO_SWITCH",
           "ROLLBACK_CATCHING_UP", "ROLLBACK_VALIDATING"}

OneActive ==
    \E p \in Profiles : \A q \in Profiles : storage_profile[q] = "ACTIVE" <=> q = p

OneOpen ==
    \A m, n \in Rows : Row(m).state \notin Closed /\ Row(n).state \notin Closed => m = n

RowOK(row) ==
    /\ row.source # row.target
    /\ row.state \notin Closed => storage_profile[Expected(row)] = "ACTIVE"
    /\ row.approval = "PENDING" => row.state = "PREPARED"
    /\ row.state \in Copied => Checkpoint(row) \in 0..Len(changes[From(row)])

\* What the worker has in hand belongs to the state of the row it has locked.
LockedOK(row) ==
    /\ row.state \in ForwardPhases \cup RollbackPhases
    /\ phase.at \in {"read", "apply", "compare", "commit"}
    /\ phase.at \in {"apply", "commit"} =>
        /\ row.state \in Backfilling \cup CatchingUp
        /\ phase.watermark \in 0..Len(changes[From(row)])
        /\ row.state \in CatchingUp => Checkpoint(row) <= phase.watermark
    /\ phase.at = "apply" => phase.data \in Contents
    /\ phase.at = "compare" => row.state \in {"VALIDATING", "ROLLBACK_VALIDATING"}

PhaseOK == phase = NoPhase \/ (phase.id \in Rows /\ LockedOK(Row(phase.id)))

StateInv ==
    /\ TypeOK /\ OneActive /\ OneOpen /\ PhaseOK
    /\ \A m \in Rows : RowOK(Row(m))

\* k was written to p after the watermark.
Newer(p, watermark, k) ==
    \E i \in (watermark + 1)..Len(changes[p]) : changes[p][i][1] = k

\* Values are numbered in the order in which they were written.
FeedOK ==
    \A p \in Profiles : \A i \in 1..Len(changes[p]) : changes[p][i][2] \in 1..writes

\* What one side has and the other has not was written after the watermark ...
Behind(from, to, watermark) ==
    \A k \in Keys : objects[from][k] \in {0, objects[to][k]} \/ Newer(from, watermark, k)

\* ... and what was written after it is what the feed says.
FeedCurrent(from, watermark) ==
    \A k \in Keys : Newer(from, watermark, k) =>
        objects[from][k] = Latest(changes[from], watermark, k)

\* What was read is missing nothing but what was written since.
Carried(from, to) ==
    \A k \in Keys :
        \/ objects[from][k] = phase.data[k]
        \/ phase.data[k] = 0 /\ objects[from][k] \in {0, objects[to][k]}
        \/ Newer(from, phase.watermark, k)

RowData(row) ==
    /\ row.state \in Copied => Behind(From(row), To(row), Checkpoint(row))
    /\ row.state \in CatchingUp => FeedCurrent(From(row), Checkpoint(row))

PhaseData(row) ==
    /\ phase.at = "apply" => Carried(From(row), To(row))
    /\ phase.at = "commit" => Behind(From(row), To(row), phase.watermark)
    /\ phase.at \in {"apply", "commit"} /\ row.state \in Backfilling =>
            FeedCurrent(From(row), phase.watermark)

DataInv ==
    /\ FeedOK
    /\ ~ strayed =>
        /\ \A m \in Rows : RowData(Row(m))
        /\ phase # NoPhase => PhaseData(Row(phase.id))

Inv == StateInv /\ DataInv /\ RollbackAdmitsNoWriter

-----------------------------------------------------------------------------
(* The feed *)

\* A bounded set of numbers has a largest one.
LEMMA LargestExists ==
    ASSUME NEW T, T # {}, NEW bound \in Nat, T \subseteq 0..bound
    PROVE  \E v \in T : \A w \in T : w <= v
<1> DEFINE less == OpToRel(<, Nat)
           D == {bound - v : v \in T}
<1>1. IsWellFoundedOn(less, Nat)
    BY Zenon, NatLessThanWellFounded
<1>2. \A x, y \in Nat : x < y => <<x, y>> \in less
    BY Zenon DEF OpToRel
<1> HIDE DEF less
<1>3. D \subseteq Nat /\ D # {}
    <2>1. \A v \in T : v \in 0..bound /\ bound - v \in Nat
        OBVIOUS
    <2>2. PICK v : v \in T
        BY Zenon
    <2> QED
        BY Zenon, <2>1, <2>2
<1>4. PICK x \in D : \A y \in D : ~ (<<y, x>> \in less)
    BY Zenon, <1>1, <1>3, WFMin
<1>5. \A y \in D : ~ (y < x)
    BY Zenon, <1>2, <1>3, <1>4
<1>6. PICK v \in T : x = bound - v
    BY Zenon, <1>4
<1>7. \A w \in T : ~ (bound - w < bound - v)
    BY Zenon, <1>5, <1>6
<1>8. T \subseteq Int /\ v \in Int
    BY <1>6
<1> QED
    BY <1>6, <1>7, <1>8

\* The newest value after a watermark is one of those written after it ...
LEMMA LatestIs ==
    ASSUME NEW feed \in Seq(Keys \X (1..MaxWrites)), NEW watermark \in 0..Len(feed),
           NEW k \in Keys,
           \E i \in (watermark + 1)..Len(feed) : feed[i][1] = k
    PROVE  /\ \E i \in (watermark + 1)..Len(feed) :
                feed[i][1] = k /\ feed[i][2] = Latest(feed, watermark, k)
           /\ \A i \in (watermark + 1)..Len(feed) :
                feed[i][1] = k => feed[i][2] <= Latest(feed, watermark, k)
<1> DEFINE later == {j \in (watermark + 1)..Len(feed) : feed[j][1] = k}
           found == {feed[i][2] : i \in later}
<1>1. Len(feed) \in Nat /\ \A i \in 1..Len(feed) : feed[i] \in Keys \X (1..MaxWrites)
    OBVIOUS
<1>2. \A i \in later : i \in 1..Len(feed)
    BY <1>1
<1>3. \A i \in later : feed[i][2] \in 1..MaxWrites
    BY Zenon, <1>1, <1>2
<1>4. found # {} /\ found \subseteq 0..MaxWrites /\ MaxWrites \in Nat
    <2>1. MaxWrites \in Nat
        BY Zenon, StorageAssumption
    <2>2. PICK i : i \in later
        BY Zenon
    <2>3. feed[i][2] \in found
        BY Zenon, <2>2
    <2>4. \A v \in found : v \in 1..MaxWrites
        BY Zenon, <1>3
    <2> HIDE DEF found
    <2> QED
        BY SMTT(40), <2>1, <2>3, <2>4
<1>5. \E v \in found : \A w \in found : w <= v
    BY Zenon, <1>4, LargestExists
<1>6. Latest(feed, watermark, k) = CHOOSE v \in found : \A w \in found : w <= v
    BY Zenon, <1>4 DEF Latest
<1>7. /\ Latest(feed, watermark, k) \in found
      /\ \A w \in found : w <= Latest(feed, watermark, k)
    BY Zenon, <1>5, <1>6
<1> QED
    BY Zenon, <1>7

\* ... and 0 where nothing was.
LEMMA LatestIsNone ==
    ASSUME NEW feed, NEW watermark, NEW k,
           ~ \E i \in (watermark + 1)..Len(feed) : feed[i][1] = k
    PROVE  Latest(feed, watermark, k) = 0
BY Zenon DEF Latest

\* So it is a value.
LEMMA LatestType ==
    ASSUME NEW feed \in Seq(Keys \X (1..MaxWrites)), NEW watermark \in 0..Len(feed), NEW k \in Keys
    PROVE  Latest(feed, watermark, k) \in 0..MaxWrites
<1>1. Len(feed) \in Nat /\ \A i \in 1..Len(feed) : feed[i] \in Keys \X (1..MaxWrites)
    OBVIOUS
<1>2. CASE \E i \in (watermark + 1)..Len(feed) : feed[i][1] = k
    <2>1. PICK i \in (watermark + 1)..Len(feed) : feed[i][2] = Latest(feed, watermark, k)
        BY ZenonT(60), <1>2, LatestIs
    <2>2. i \in 1..Len(feed)
        BY <1>1
    <2> QED
        BY <1>1, <2>1, <2>2
<1>3. CASE ~ \E i \in (watermark + 1)..Len(feed) : feed[i][1] = k
    BY <1>3, LatestIsNone, StorageAssumption
<1> QED
    BY Zenon, <1>2, <1>3

-----------------------------------------------------------------------------
(* The state machine *)

\* An operation is allowed in one state only ...
LEMMA OperationState ==
    ASSUME NEW state, NEW op, CanAdvance(state, op)
    PROVE  /\ op = "START_BACKFILL" => state = "PREPARED"
           /\ op = "SWITCH" => state = "READY_TO_SWITCH"
           /\ op = "COMPLETE" => state = "OBSERVING"
           /\ op = "START_ROLLBACK" => state = "OBSERVING"
BY DEF CanAdvance, Transitions

\* ... and leads to one state.
LEMMA AdvanceIs ==
    ASSUME NEW t \in Transitions
    PROVE  Advance(t[1], t[2]) = t[3]
<1>1. \A u \in Transitions : u[1] = t[1] /\ u[2] = t[2] => u = t
    BY DEF Transitions
<1> QED
    BY Zenon, <1>1 DEF Advance

\* The states the operations lead to.
LEMMA AdvanceStates ==
    /\ Advance("PREPARED", "START_BACKFILL") = "BACKFILLING"
    /\ Advance("BACKFILLING", "BACKFILL_COMPLETE") = "CATCHING_UP"
    /\ Advance("CATCHING_UP", "CATCH_UP_COMPLETE") = "VALIDATING"
    /\ Advance("VALIDATING", "VALIDATE") = "READY_TO_SWITCH"
    /\ Advance("READY_TO_SWITCH", "SWITCH") = "OBSERVING"
    /\ Advance("OBSERVING", "COMPLETE") = "COMPLETED"
    /\ Advance("OBSERVING", "START_ROLLBACK") = "ROLLING_BACK"
    /\ Advance("ROLLING_BACK", "ROLLBACK_BACKFILL_COMPLETE") = "ROLLBACK_CATCHING_UP"
    /\ Advance("ROLLBACK_CATCHING_UP", "ROLLBACK_CATCH_UP_COMPLETE") = "ROLLBACK_VALIDATING"
    /\ Advance("ROLLBACK_VALIDATING", "ROLLBACK_VALIDATE") = "ROLLED_BACK"
<1>1. /\ <<"PREPARED", "START_BACKFILL", "BACKFILLING">> \in Transitions
      /\ <<"BACKFILLING", "BACKFILL_COMPLETE", "CATCHING_UP">> \in Transitions
      /\ <<"CATCHING_UP", "CATCH_UP_COMPLETE", "VALIDATING">> \in Transitions
      /\ <<"VALIDATING", "VALIDATE", "READY_TO_SWITCH">> \in Transitions
      /\ <<"READY_TO_SWITCH", "SWITCH", "OBSERVING">> \in Transitions
      /\ <<"OBSERVING", "COMPLETE", "COMPLETED">> \in Transitions
      /\ <<"OBSERVING", "START_ROLLBACK", "ROLLING_BACK">> \in Transitions
      /\ <<"ROLLING_BACK", "ROLLBACK_BACKFILL_COMPLETE", "ROLLBACK_CATCHING_UP">> \in Transitions
      /\ <<"ROLLBACK_CATCHING_UP", "ROLLBACK_CATCH_UP_COMPLETE", "ROLLBACK_VALIDATING">>
            \in Transitions
      /\ <<"ROLLBACK_VALIDATING", "ROLLBACK_VALIDATE", "ROLLED_BACK">> \in Transitions
    BY Zenon DEF Transitions
<1> QED
    BY Zenon, <1>1, AdvanceIs

\* A row is a migration's, and the locked one has an id.
LEMMA RowType ==
    ASSUME TypeOK
    PROVE  /\ \A m \in Rows : Row(m) \in Migration
           /\ \A m \in Migrations : m # Nothing /\ (Row(m) # Nothing => m \in Rows)
           /\ \A row \in Migration : row # Nothing
           /\ \A m \in Migrations : phase.id = m => phase # NoPhase
BY StorageAssumption DEF TypeOK, Rows, Row, NoPhase

-----------------------------------------------------------------------------
(* StateInv: what a step does to one row *)

\* A step that writes the row of m: the row it writes is in order, and it opens a row only
\* where none is open.
LEMMA RowStep ==
    ASSUME StateInv, NEW m \in Migrations, NEW new \in Migration,
           storage_migration' = [storage_migration EXCEPT ![m] = new],
           RowOK(new)',
           \/ new.state \in Closed
           \/ m \in Rows /\ Row(m).state \notin Closed
           \/ \A n \in Rows : Row(n).state \in Closed,
           OneActive', storage_profile' \in [Profiles -> {"NONE", "INACTIVE", "ACTIVE"}],
           UNCHANGED storage_profile \/ (m \in Rows /\ Row(m).state \notin Closed),
           (phase.id # m /\ UNCHANGED phase) \/ phase' = NoPhase,
           failures' \in 0..MaxFailures,
           UNCHANGED <<objects, changes, writer, strayed, writes>>
    PROVE  StateInv'
<1>1. TypeOK /\ OneOpen /\ PhaseOK /\ \A n \in Rows : RowOK(Row(n))
    BY Zenon DEF StateInv
<1>2. /\ storage_migration \in [Migrations -> Migration \cup {Nothing}]
      /\ \A n \in Migrations : storage_migration'[n] = IF n = m THEN new ELSE storage_migration[n]
    BY Zenon, <1>1 DEF TypeOK
<1>3. /\ Rows' = Rows \cup {m} /\ m \in Rows'
      /\ \A n \in Rows' : IF n = m THEN Row(n)' = new ELSE n \in Rows /\ Row(n)' = Row(n)
    BY Zenon, <1>1, <1>2, RowType DEF Rows, Row
<1>4. TypeOK'
    <2>1. phase' \in [id : Migrations \cup {Nothing},
                      at : {"idle", "read", "apply", "compare", "commit"},
                      data : Contents \cup {Nothing}, watermark : Nat]
        BY <1>1 DEF TypeOK, NoPhase
    <2>2. storage_migration' \in [Migrations -> Migration \cup {Nothing}]
        BY Zenon, <1>2
    <2> QED
        BY Zenon, <1>1, <2>1, <2>2 DEF TypeOK
<1>5. OneOpen'
    BY Zenon, <1>1, <1>3 DEF OneOpen
<1>6. ASSUME NEW n \in Rows' PROVE RowOK(Row(n))'
    <2>1. CASE n = m
        BY Zenon, <1>3, <1>6, <2>1
    <2>2. CASE n # m
        <3>1. n \in Rows /\ Row(n)' = Row(n) /\ RowOK(Row(n))
            BY Zenon, <1>1, <1>3, <1>6, <2>2
        <3>2. Row(n).state \notin Closed => UNCHANGED storage_profile
            BY Zenon, <1>1, <2>2, <3>1 DEF OneOpen
        <3>3. PICK row : row = Row(n) /\ row = Row(n)'
            BY Zenon, <3>1
        <3>4. RowOK(row)'
            BY Zenon, <3>1, <3>2, <3>3 DEF RowOK, Checkpoint, From, Expected
        <3> QED
            BY Zenon, <3>3, <3>4
    <2> QED
        BY Zenon, <2>1, <2>2
<1>7. PhaseOK'
    <2>1. CASE phase.id # m /\ UNCHANGED phase
        <3>1. CASE phase = NoPhase
            BY Zenon, <2>1, <3>1 DEF PhaseOK, NoPhase
        <3>2. CASE phase # NoPhase
            <4>1. phase.id \in Rows /\ LockedOK(Row(phase.id))
                BY Zenon, <1>1, <3>2 DEF PhaseOK
            <4>2. phase.id \in Rows' /\ storage_migration'[phase.id] = Row(phase.id)
                BY Zenon, <1>3, <2>1, <4>1 DEF Row
            <4>3. PICK row : row = Row(phase.id) /\ row = Row(phase.id)'
                BY Zenon, <2>1, <4>2 DEF Row
            <4>4. LockedOK(row)'
                BY Zenon, <2>1, <4>1, <4>3 DEF LockedOK, Checkpoint, From
            <4> QED
                BY Zenon, <2>1, <4>2, <4>3, <4>4 DEF PhaseOK
        <3> QED
            BY Zenon, <3>1, <3>2
    <2>2. CASE phase' = NoPhase
        BY Zenon, <2>2 DEF PhaseOK, NoPhase
    <2> QED
        BY Zenon, <2>1, <2>2
<1> QED
    BY Zenon, <1>4, <1>5, <1>6, <1>7 DEF StateInv

\* A step that moves the state of an open, approved migration.
LEMMA StateStep ==
    ASSUME StateInv, NEW m \in Rows, NEW state \in States,
           storage_migration' = [storage_migration EXCEPT ![m].state = state],
           Row(m).state \notin Closed, Row(m).approval # "PENDING",
           state \in {"OBSERVING"} \cup RollbackPhases => storage_profile'[Row(m).target] = "ACTIVE",
           state \notin Closed \cup {"OBSERVING"} \cup RollbackPhases =>
                storage_profile'[Row(m).source] = "ACTIVE",
           state \in Copied => Row(m).state \in Copied
                               /\ (state \in RollbackPhases <=> Row(m).state \in RollbackPhases),
           OneActive', storage_profile' \in [Profiles -> {"NONE", "INACTIVE", "ACTIVE"}],
           (phase.id # m /\ UNCHANGED phase) \/ phase' = NoPhase,
           failures' \in 0..MaxFailures,
           UNCHANGED <<objects, changes, writer, strayed, writes>>
    PROVE  StateInv'
<1>1. /\ TypeOK /\ RowOK(Row(m)) /\ m \in Migrations /\ Row(m) \in Migration
      /\ storage_migration \in [Migrations -> Migration \cup {Nothing}]
    BY Zenon, RowType DEF StateInv, Rows, TypeOK
<1>2. PICK new : new = [Row(m) EXCEPT !.state = state]
    BY Zenon
<1>3. /\ new \in Migration /\ new.state = state
      /\ new.source = Row(m).source /\ new.target = Row(m).target /\ new.approval = Row(m).approval
      /\ new.forward = Row(m).forward /\ new.backward = Row(m).backward
    BY Zenon, <1>1, <1>2 DEF Migration
<1>4. storage_migration' = [storage_migration EXCEPT ![m] = new]
    BY Zenon, <1>1, <1>2 DEF Row
<1>5. RowOK(new)'
    <2>1. new.state \notin Closed => storage_profile'[Expected(new)] = "ACTIVE"
        BY Zenon, <1>3 DEF Expected
    <2>2. new.state \in Copied =>
            Checkpoint(new) = Checkpoint(Row(m)) /\ From(new) = From(Row(m))
        BY Zenon, <1>3 DEF Checkpoint, From
    <2> QED
        BY Zenon, <1>1, <1>3, <2>1, <2>2 DEF RowOK, Expected, Checkpoint, From
<1> QED
    BY Zenon, <1>1, <1>3, <1>4, <1>5, RowStep

\* The active profile is where the state of an open migration says it is.
LEMMA ActiveProfile ==
    ASSUME StateInv, NEW m \in Rows, Row(m).state \notin Closed, NEW q \in Profiles
    PROVE  storage_profile[q] = "ACTIVE" <=> q = Expected(Row(m))
<1>1. storage_profile[Expected(Row(m))] = "ACTIVE" /\ Row(m) \in Migration
    BY Zenon, RowType DEF StateInv, RowOK
<1>2. Expected(Row(m)) \in Profiles
    BY Zenon, <1>1 DEF Expected, Migration
<1> QED
    BY Zenon, <1>1, <1>2 DEF StateInv, OneActive

\* The active profile moves from one profile to another.
LEMMA ActiveMoves ==
    ASSUME StateInv, NEW p \in Profiles, NEW q \in Profiles, p # q, storage_profile[p] = "ACTIVE",
           \/ storage_profile' = [storage_profile EXCEPT ![p] = "INACTIVE", ![q] = "ACTIVE"]
    PROVE  /\ OneActive' /\ storage_profile'[q] = "ACTIVE"
           /\ storage_profile' \in [Profiles -> {"NONE", "INACTIVE", "ACTIVE"}]
<1>1. storage_profile \in [Profiles -> {"NONE", "INACTIVE", "ACTIVE"}]
    BY Zenon DEF StateInv, TypeOK
<1>2. \A r \in Profiles : storage_profile[r] = "ACTIVE" <=> r = p
    BY Zenon DEF StateInv, OneActive
<1>3. \A r \in Profiles : storage_profile'[r] = "ACTIVE" <=> r = q
    BY Zenon, <1>1, <1>2
<1> QED
    BY Zenon, <1>1, <1>3 DEF OneActive

\* The administrators request and decide.
LEMMA CreateMigrationState ==
    ASSUME StateInv, NEW m \in Migrations, NEW a \in Requesters, NEW target \in Profiles,
           CreateMigration(m, a, target)
    PROVE  StateInv'
<1>1. PICK source \in Profiles :
        /\ storage_profile[source] = "ACTIVE"
        /\ storage_migration' = [storage_migration EXCEPT ![m] =
              [state |-> "PREPARED", source |-> source, target |-> target,
               requested_by |-> a, approval |-> "PENDING", approved_by |-> Nothing,
               rollback |-> "NONE", rollback_by |-> Nothing, rollback_approved_by |-> Nothing,
               forward |-> Nothing, backward |-> Nothing]]
    BY Zenon DEF CreateMigration
<1> DEFINE new == [state |-> "PREPARED", source |-> source, target |-> target,
               requested_by |-> a, approval |-> "PENDING", approved_by |-> Nothing,
               rollback |-> "NONE", rollback_by |-> Nothing, rollback_approved_by |-> Nothing,
               forward |-> Nothing, backward |-> Nothing]
<1>2. /\ new \in Migration /\ new.state = "PREPARED"
      /\ new.source = source /\ new.target = target
    BY Zenon, StorageAssumption DEF Migration, States, Approvals
<1>3. storage_migration' = [storage_migration EXCEPT ![m] = new]
    BY Zenon, <1>1
<1> HIDE DEF new
<1>4. /\ TypeOK /\ PhaseOK /\ OneActive /\ Row(m) = Nothing /\ storage_profile[target] = "INACTIVE"
      /\ \A n \in Rows : Row(n).state \in Closed
      /\ UNCHANGED <<storage_profile, objects, changes, phase, writer, strayed, writes, failures>>
    BY Zenon DEF StateInv, CreateMigration
<1>5. phase.id # m
    BY Zenon, <1>4, RowType DEF PhaseOK, Rows
<1>6. RowOK(new)'
    BY Zenon, <1>1, <1>2, <1>4 DEF RowOK, Expected, Copied, Closed, RollbackPhases
<1>7. /\ OneActive' /\ failures' \in 0..MaxFailures
      /\ storage_profile' \in [Profiles -> {"NONE", "INACTIVE", "ACTIVE"}]
    BY ZenonT(60), <1>4 DEF OneActive, TypeOK
<1> QED
    BY Zenon, <1>2, <1>3, <1>4, <1>5, <1>6, <1>7, RowStep

\* A decision on a migration, which is made while it is prepared.
LEMMA DecideMigrationState ==
    ASSUME StateInv, NEW m \in Migrations, NEW a \in Admins, NEW approve \in BOOLEAN,
           DecideMigrationApproval(m, a, approve)
    PROVE  StateInv'
<1>1. /\ TypeOK /\ OneActive /\ m \in Rows /\ RowOK(Row(m)) /\ Row(m) \in Migration
      /\ Row(m).approval = "PENDING" /\ phase.id # m
      /\ storage_migration \in [Migrations -> Migration \cup {Nothing}]
      /\ UNCHANGED <<storage_profile, objects, changes, phase, writer, strayed, writes, failures>>
    BY Zenon, RowType DEF StateInv, DecideMigrationApproval, Unlocked, TypeOK
<1>2. PICK new : new = [Row(m) EXCEPT !.approval = IF approve THEN "APPROVED" ELSE "DENIED",
                                      !.state = IF approve THEN "PREPARED" ELSE "FAILED",
                                      !.approved_by = a]
    BY Zenon
<1>3. /\ new \in Migration /\ new.state \in {"PREPARED", "FAILED"} /\ new.approval # "PENDING"
      /\ new.source = Row(m).source /\ new.target = Row(m).target
    <2>1. PICK approval, state : /\ approval = IF approve THEN "APPROVED" ELSE "DENIED"
                                 /\ state = IF approve THEN "PREPARED" ELSE "FAILED"
        BY Zenon
    <2>2. /\ approval \in Approvals /\ approval # "PENDING"
          /\ state \in States /\ state \in {"PREPARED", "FAILED"}
        BY Zenon, <2>1 DEF Approvals, States, Closed
    <2>3. new = [Row(m) EXCEPT !.approval = approval, !.state = state, !.approved_by = a]
        BY Zenon, <1>2, <2>1
    <2>4. Row(m) \in Migration
        BY Zenon, <1>1
    <2> QED
        BY Zenon, <2>2, <2>3, <2>4 DEF Migration
<1>4. storage_migration' = [storage_migration EXCEPT ![m] = new]
    BY Zenon, <1>1, <1>2 DEF DecideMigrationApproval, Row
<1>5. Row(m).state = "PREPARED"
    BY Zenon, <1>1 DEF RowOK
<1>6. RowOK(new)'
    BY Zenon, <1>1, <1>3, <1>5 DEF RowOK, Expected, Copied, Closed, RollbackPhases
<1>7. /\ OneActive' /\ failures' \in 0..MaxFailures
      /\ storage_profile' \in [Profiles -> {"NONE", "INACTIVE", "ACTIVE"}]
    BY ZenonT(60), <1>1 DEF OneActive, TypeOK
<1>8. Row(m).state \notin Closed
    BY Zenon, <1>5 DEF Closed
<1> QED
    BY Zenon, <1>1, <1>3, <1>4, <1>6, <1>7, <1>8, RowStep

\* A decision on a rollback, which changes no state.
LEMMA DecideRollbackState ==
    ASSUME StateInv, NEW m \in Migrations, NEW a \in Admins,
           NEW decision \in {"REQUEST", "APPROVED", "DENIED"},
           DecideRollbackApproval(m, a, decision)
    PROVE  StateInv'
<1>1. /\ TypeOK /\ OneActive /\ m \in Rows /\ RowOK(Row(m)) /\ Row(m) \in Migration
      /\ Row(m).state = "OBSERVING" /\ phase.id # m
      /\ storage_migration \in [Migrations -> Migration \cup {Nothing}]
      /\ UNCHANGED <<storage_profile, objects, changes, phase, writer, strayed, writes, failures>>
    BY Zenon, RowType DEF StateInv, DecideRollbackApproval, Unlocked, TypeOK
<1>2. PICK new : new = IF decision = "REQUEST"
                       THEN [Row(m) EXCEPT !.rollback = "PENDING", !.rollback_by = a]
                       ELSE [Row(m) EXCEPT !.rollback = decision, !.rollback_approved_by = a]
    BY Zenon
<1>3. /\ new \in Migration /\ new.state = "OBSERVING" /\ new.approval = Row(m).approval
      /\ new.source = Row(m).source /\ new.target = Row(m).target
    BY ZenonT(40), <1>1, <1>2 DEF Migration, Approvals
<1>4. storage_migration' = [storage_migration EXCEPT ![m] = new]
    BY Zenon, <1>1, <1>2 DEF DecideRollbackApproval, Row
<1>5. RowOK(new)'
    BY Zenon, <1>1, <1>3 DEF RowOK, Expected, Copied, Closed
<1>6. /\ OneActive' /\ failures' \in 0..MaxFailures /\ Row(m).state \notin Closed
      /\ storage_profile' \in [Profiles -> {"NONE", "INACTIVE", "ACTIVE"}]
    BY ZenonT(60), <1>1 DEF OneActive, TypeOK, Closed
<1> QED
    BY Zenon, <1>1, <1>3, <1>4, <1>5, <1>6, RowStep

\* An administrator starts, switches, completes or rolls back: the switch moves the active
\* profile with the state.
LEMMA AdvanceState ==
    ASSUME StateInv, NEW m \in Migrations,
           \/ StartMigration(m) \/ RollbackMigration(m)
           \/ \E op \in {"SWITCH", "COMPLETE"} : AdvanceMigration(m, op)
    PROVE  StateInv'
<1>1. /\ TypeOK /\ OneActive /\ m \in Rows /\ RowOK(Row(m)) /\ Row(m) \in Migration
      /\ phase.id # m /\ UNCHANGED phase
      /\ storage_profile \in [Profiles -> {"NONE", "INACTIVE", "ACTIVE"}]
      /\ UNCHANGED <<objects, changes, writer, strayed, writes, failures>>
      /\ failures' \in 0..MaxFailures
    BY Zenon, RowType
       DEF StateInv, StartMigration, RollbackMigration, AdvanceMigration, Unlocked, TypeOK
<1>2. CASE StartMigration(m)
    <2>1. Row(m).state = "PREPARED"
        BY Zenon, <1>2, OperationState DEF StartMigration
    <2>2. /\ storage_migration' = [storage_migration EXCEPT ![m].state = "BACKFILLING"]
          /\ UNCHANGED storage_profile /\ Row(m).approval = "APPROVED"
        BY Zenon, <1>2, <2>1, AdvanceStates DEF StartMigration, Row
    <2>3. storage_profile[Row(m).source] = "ACTIVE"
        BY Zenon, <1>1, <2>1 DEF RowOK, Closed, Expected, RollbackPhases
    <2> QED
        BY Zenon, <1>1, <2>1, <2>2, <2>3, StateStep
           DEF States, ForwardPhases, RollbackPhases, Closed, Copied, OneActive
<1>3. CASE RollbackMigration(m)
    <2>1. Row(m).state = "OBSERVING"
        BY Zenon, <1>3, OperationState DEF RollbackMigration
    <2>2. /\ storage_migration' = [storage_migration EXCEPT ![m].state = "ROLLING_BACK"]
          /\ UNCHANGED storage_profile
        BY Zenon, <1>3, <2>1, AdvanceStates DEF RollbackMigration, Row
    <2>3. storage_profile[Row(m).target] = "ACTIVE" /\ Row(m).approval # "PENDING"
        BY Zenon, <1>1, <2>1 DEF RowOK, Closed, Expected
    <2> QED
        BY Zenon, <1>1, <2>1, <2>2, <2>3, StateStep
           DEF States, ForwardPhases, RollbackPhases, Closed, Copied, OneActive
<1>4. CASE AdvanceMigration(m, "COMPLETE")
    <2>1. Row(m).state = "OBSERVING"
        BY Zenon, <1>4, OperationState DEF AdvanceMigration
    <2>2. /\ storage_migration' = [storage_migration EXCEPT ![m].state = "COMPLETED"]
          /\ UNCHANGED storage_profile /\ Row(m).approval = "APPROVED"
        BY ZenonT(60), <1>4, <2>1, AdvanceStates DEF AdvanceMigration, Row
    <2> QED
        BY Zenon, <1>1, <2>1, <2>2, StateStep
           DEF States, ForwardPhases, RollbackPhases, Closed, Copied, OneActive
<1>5. CASE AdvanceMigration(m, "SWITCH")
    <2>1. Row(m).state = "READY_TO_SWITCH"
        BY Zenon, <1>5, OperationState DEF AdvanceMigration
    <2>2. /\ storage_migration' = [storage_migration EXCEPT ![m].state = "OBSERVING"]
          /\ storage_profile' = SwitchActive(Row(m)) /\ Row(m).approval = "APPROVED"
        BY ZenonT(40), <1>5, <2>1, AdvanceStates DEF AdvanceMigration, Row
    <2>3. /\ storage_profile[Row(m).source] = "ACTIVE" /\ Row(m).source # Row(m).target
          /\ Row(m).source \in Profiles /\ Row(m).target \in Profiles
        BY Zenon, <1>1, <2>1 DEF RowOK, Closed, Expected, RollbackPhases, Migration
    <2>4. /\ OneActive' /\ storage_profile'[Row(m).target] = "ACTIVE"
          /\ storage_profile' \in [Profiles -> {"NONE", "INACTIVE", "ACTIVE"}]
        BY Zenon, <2>2, <2>3, ActiveMoves DEF SwitchActive
    <2> QED
        BY Zenon, <1>1, <2>1, <2>2, <2>4, StateStep
           DEF States, ForwardPhases, RollbackPhases, Closed, Copied
<1> QED
    BY Zenon, <1>2, <1>3, <1>4, <1>5

\* A step that touches neither the rows nor the profiles nor the feeds.
LEMMA PhaseStep ==
    ASSUME StateInv, UNCHANGED <<storage_profile, storage_migration, changes>>,
           phase' \in [id : Migrations \cup {Nothing},
                       at : {"idle", "read", "apply", "compare", "commit"},
                       data : Contents \cup {Nothing}, watermark : Nat],
           PhaseOK',
           objects' \in [Profiles -> Contents],
           writer' \in [router : Profiles \cup {Nothing}, late : BOOLEAN],
           strayed' \in BOOLEAN, writes' \in 0..MaxWrites, failures' \in 0..MaxFailures
    PROVE  StateInv'
<1>1. TypeOK /\ OneActive /\ OneOpen /\ \A n \in Rows : RowOK(Row(n))
    BY Zenon DEF StateInv
<1>2. Rows' = Rows /\ \A m \in Rows : Row(m)' = Row(m)
    BY Zenon DEF Rows, Row
<1>3. ASSUME NEW m \in Rows PROVE RowOK(Row(m))'
    BY Zenon, <1>1, <1>2 DEF RowOK, Row, Expected, Checkpoint, From
<1>4. TypeOK'
    BY Zenon, <1>1 DEF TypeOK
<1>5. OneActive' /\ OneOpen'
    BY ZenonT(60), <1>1, <1>2 DEF OneActive, OneOpen
<1> QED
    BY Zenon, <1>2, <1>3, <1>4, <1>5 DEF StateInv

\* The worker's next place, with the lock it has.
LEMMA WorkerGoes ==
    ASSUME StateInv, UNCHANGED <<storage_profile, storage_migration, changes>>,
           objects' \in [Profiles -> Contents],
           UNCHANGED <<writer, strayed, writes, failures>>,
           NEW m \in Rows, phase'.id = m, LockedOK(Row(m))',
           phase' \in [id : Migrations \cup {Nothing},
                       at : {"idle", "read", "apply", "compare", "commit"},
                       data : Contents \cup {Nothing}, watermark : Nat]
    PROVE  StateInv'
<1>1. m \in Rows' /\ Row(m)' = Row(phase.id)'
    BY Zenon DEF Rows, Row
<1>2. PhaseOK'
    BY Zenon, <1>1 DEF PhaseOK, LockedOK, Row, Checkpoint, From
<1>3. /\ writer' \in [router : Profiles \cup {Nothing}, late : BOOLEAN]
      /\ strayed' \in BOOLEAN /\ writes' \in 0..MaxWrites /\ failures' \in 0..MaxFailures
    BY Zenon DEF StateInv, TypeOK
<1> QED
    BY Zenon, <1>2, <1>3, PhaseStep

\* What is known of the row the worker has locked.
LEMMA Locked ==
    ASSUME StateInv, NEW m \in Migrations, phase.id = m
    PROVE  /\ m \in Rows /\ Row(m) \in Migration /\ RowOK(Row(m)) /\ LockedOK(Row(m))
           /\ Row(m).state \notin Closed /\ Row(m).approval # "PENDING"
           /\ From(Row(m)) \in Profiles /\ To(Row(m)) \in Profiles /\ From(Row(m)) # To(Row(m))
           /\ changes[From(Row(m))] \in Seq(Keys \X (1..MaxWrites))
           /\ Len(changes[From(Row(m))]) \in Nat
           /\ objects[From(Row(m))] \in Contents /\ objects[To(Row(m))] \in Contents
<1>1. m \in Rows /\ LockedOK(Row(m)) /\ TypeOK
    BY Zenon, RowType DEF StateInv, PhaseOK
<1>2. Row(m) \in Migration /\ RowOK(Row(m))
    BY Zenon, <1>1, RowType DEF StateInv
<1>3. Row(m).state \notin Closed /\ Row(m).approval # "PENDING"
    BY Zenon, <1>1, <1>2 DEF LockedOK, RowOK, Closed, ForwardPhases, RollbackPhases
<1>4. From(Row(m)) \in Profiles /\ To(Row(m)) \in Profiles /\ From(Row(m)) # To(Row(m))
    BY Zenon, <1>2 DEF From, To, RowOK, Migration
<1> QED
    BY <1>1, <1>2, <1>3, <1>4 DEF TypeOK

\* The worker locks a row, reads, and fingerprints.
LEMMA ReadState ==
    ASSUME StateInv, NEW m \in Migrations,
           RunOnce(m) \/ SnapshotTenant(m) \/ ChangesSince(m) \/ Fingerprint(m)
    PROVE  StateInv'
<1>1. UNCHANGED <<storage_profile, storage_migration, objects, changes, writer, strayed,
                  writes, failures>>
    BY Zenon DEF RunOnce, SnapshotTenant, ChangesSince, Fingerprint
<1>2. /\ objects' \in [Profiles -> Contents]
      /\ phase \in [id : Migrations \cup {Nothing},
                    at : {"idle", "read", "apply", "compare", "commit"},
                    data : Contents \cup {Nothing}, watermark : Nat]
    BY Zenon, <1>1 DEF StateInv, TypeOK
<1>3. Row(m)' = Row(m)
    BY Zenon, <1>1 DEF Row
<1>4. CASE RunOnce(m)
    <2>1. /\ m \in Rows /\ Row(m).state \in ForwardPhases \cup RollbackPhases
          /\ phase' = [NoPhase EXCEPT !.id = m, !.at = "read"]
        BY Zenon, <1>4 DEF RunOnce
    <2>2. /\ phase'.id = m /\ phase'.at = "read"
          /\ phase' \in [id : Migrations \cup {Nothing},
                         at : {"idle", "read", "apply", "compare", "commit"},
                         data : Contents \cup {Nothing}, watermark : Nat]
        BY Zenon, <2>1 DEF NoPhase
    <2> QED
        BY Zenon, <1>1, <1>2, <1>3, <2>1, <2>2, WorkerGoes DEF LockedOK
<1>5. CASE SnapshotTenant(m)
    <2>1. /\ phase.id = m /\ Row(m).state \in Backfilling
          /\ phase' = [phase EXCEPT !.at = "apply", !.data = objects[From(Row(m))],
                                   !.watermark = Len(changes[From(Row(m))])]
        BY Zenon, <1>5 DEF SnapshotTenant, Busy
    <2>2. /\ phase'.id = m /\ phase'.at = "apply" /\ phase'.data = objects[From(Row(m))]
          /\ phase'.watermark = Len(changes[From(Row(m))])
          /\ phase' \in [id : Migrations \cup {Nothing},
                         at : {"idle", "read", "apply", "compare", "commit"},
                         data : Contents \cup {Nothing}, watermark : Nat]
        BY ZenonT(40), <1>2, <2>1, Locked
    <2>3. LockedOK(Row(m))'
        BY <1>1, <1>3, <2>1, <2>2, Locked
           DEF LockedOK, From, Checkpoint, Backfilling, CatchingUp, ForwardPhases, RollbackPhases
    <2> QED
        BY Zenon, <1>1, <1>2, <2>1, <2>2, <2>3, Locked, WorkerGoes
<1>6. CASE ChangesSince(m)
    <2> DEFINE data == [k \in Keys |-> Latest(changes[From(Row(m))], Checkpoint(Row(m)), k)]
    <2>1. /\ phase.id = m /\ Row(m).state \in CatchingUp
          /\ phase' = [phase EXCEPT !.at = "apply", !.data = data,
                                   !.watermark = Len(changes[From(Row(m))])]
        BY Zenon, <1>6 DEF ChangesSince, Busy
    <2>2. Checkpoint(Row(m)) \in 0..Len(changes[From(Row(m))])
        BY Zenon, <2>1, Locked DEF RowOK, CatchingUp, Copied
    <2>3. data \in Contents
        BY Zenon, <2>1, <2>2, Locked, LatestType DEF Contents
    <2> HIDE DEF data
    <2>4. /\ phase'.id = m /\ phase'.at = "apply" /\ phase'.data = data
          /\ phase'.watermark = Len(changes[From(Row(m))])
          /\ phase' \in [id : Migrations \cup {Nothing},
                         at : {"idle", "read", "apply", "compare", "commit"},
                         data : Contents \cup {Nothing}, watermark : Nat]
        BY ZenonT(60), <1>2, <2>1, <2>3, Locked
    <2>5. LockedOK(Row(m))'
        BY <1>1, <1>3, <2>1, <2>2, <2>3, <2>4, Locked
           DEF LockedOK, From, Checkpoint, Backfilling, CatchingUp, ForwardPhases, RollbackPhases
    <2> QED
        BY Zenon, <1>1, <1>2, <2>1, <2>4, <2>5, Locked, WorkerGoes
<1>7. CASE Fingerprint(m)
    <2>1. /\ phase.id = m /\ Row(m).state \in {"VALIDATING", "ROLLBACK_VALIDATING"}
          /\ phase' = [phase EXCEPT !.at = "compare", !.data = objects[From(Row(m))]]
        BY Zenon, <1>7 DEF Fingerprint, Busy
    <2>2. /\ phase'.id = m /\ phase'.at = "compare"
          /\ phase' \in [id : Migrations \cup {Nothing},
                         at : {"idle", "read", "apply", "compare", "commit"},
                         data : Contents \cup {Nothing}, watermark : Nat]
        BY Zenon, <1>2, <2>1, Locked
    <2>3. LockedOK(Row(m))'
        BY Zenon, <1>3, <2>1, <2>2 DEF LockedOK, ForwardPhases, RollbackPhases
    <2> QED
        BY Zenon, <1>1, <1>2, <2>1, <2>2, <2>3, Locked, WorkerGoes
<1> QED
    BY Zenon, <1>4, <1>5, <1>6, <1>7

\* The worker writes to the other backend.
LEMMA ApplyState ==
    ASSUME StateInv, NEW m \in Migrations, ApplyChanges(m)
    PROVE  StateInv'
<1>1. /\ phase.id = m /\ phase.at = "apply"
      /\ objects' = [objects EXCEPT ![To(Row(m))] =
            [k \in Keys |-> IF phase.data[k] # 0 THEN phase.data[k] ELSE objects[To(Row(m))][k]]]
      /\ phase' = [phase EXCEPT !.at = "commit", !.data = Nothing]
      /\ UNCHANGED <<storage_profile, storage_migration, changes, writer, strayed, writes, failures>>
    BY Zenon DEF ApplyChanges, Busy
<1>2. /\ objects \in [Profiles -> Contents]
      /\ phase \in [id : Migrations \cup {Nothing},
                    at : {"idle", "read", "apply", "compare", "commit"},
                    data : Contents \cup {Nothing}, watermark : Nat]
      /\ phase.data \in Contents
    BY Zenon, <1>1, Locked DEF StateInv, TypeOK, LockedOK
<1>3. [k \in Keys |-> IF phase.data[k] # 0 THEN phase.data[k] ELSE objects[To(Row(m))][k]]
            \in Contents
    BY Zenon, <1>1, <1>2, Locked DEF Contents
<1>4. objects' \in [Profiles -> Contents]
    BY Zenon, <1>1, <1>2, <1>3
<1>5. /\ phase'.id = m /\ phase'.at = "commit" /\ phase'.watermark = phase.watermark
      /\ phase' \in [id : Migrations \cup {Nothing},
                     at : {"idle", "read", "apply", "compare", "commit"},
                     data : Contents \cup {Nothing}, watermark : Nat]
    BY Zenon, <1>1, <1>2
<1>6. Row(m)' = Row(m)
    BY Zenon, <1>1 DEF Row
<1>7. LockedOK(Row(m))'
    BY Zenon, <1>1, <1>5, <1>6, Locked DEF LockedOK, From, Checkpoint
<1> QED
    BY Zenon, <1>1, <1>4, <1>5, <1>7, Locked, WorkerGoes

\* A copy is committed, with the watermark of its reading.
LEMMA CommitState ==
    ASSUME StateInv, NEW m \in Migrations, CommitCopy(m)
    PROVE  StateInv'
<1> DEFINE row == Row(m)
           state == Advance(row.state, CompleteOp(row.state))
<1>1. /\ phase.id = m /\ phase.at = "commit" /\ row.state \in Backfilling \cup CatchingUp
      /\ storage_migration' = [storage_migration EXCEPT ![m] =
            [row EXCEPT !.state = Advance(@, CompleteOp(row.state)),
                        !.forward = IF row.state \in RollbackPhases THEN @ ELSE phase.watermark,
                        !.backward = IF row.state \in RollbackPhases THEN phase.watermark ELSE @]]
      /\ phase' = NoPhase
      /\ UNCHANGED <<storage_profile, objects, changes, writer, strayed, writes, failures>>
    BY Zenon DEF CommitCopy, Busy, StoredWatermark
<1>2. /\ row \in Migration /\ RowOK(row) /\ m \in Rows /\ row.state \notin Closed
      /\ phase.watermark \in 0..Len(changes[From(row)]) /\ Len(changes[From(row)]) \in Nat
      /\ row.approval # "PENDING"
    BY Zenon, <1>1, Locked DEF LockedOK
<1>3. /\ row.state = "BACKFILLING" => state = "CATCHING_UP"
      /\ row.state = "CATCHING_UP" => state = "VALIDATING"
      /\ row.state = "ROLLING_BACK" => state = "ROLLBACK_CATCHING_UP"
      /\ row.state = "ROLLBACK_CATCHING_UP" => state = "ROLLBACK_VALIDATING"
    BY Zenon, AdvanceStates DEF CompleteOp
<1> HIDE DEF state
<1>4. /\ state \in Copied /\ state \in States /\ state \notin Closed
      /\ state \in RollbackPhases <=> row.state \in RollbackPhases
      /\ state # "OBSERVING" /\ row.state # "OBSERVING"
    BY Zenon, <1>1, <1>3
       DEF Backfilling, CatchingUp, Copied, States, ForwardPhases, RollbackPhases, Closed
<1>5. PICK new : new = [row EXCEPT !.state = state,
                            !.forward = IF row.state \in RollbackPhases THEN @ ELSE phase.watermark,
                            !.backward = IF row.state \in RollbackPhases THEN phase.watermark ELSE @]
    BY Zenon
<1>6. storage_migration' = [storage_migration EXCEPT ![m] = new]
    BY Zenon, <1>1, <1>5 DEF state
<1>7. /\ new \in Migration /\ new.state = state /\ new.approval = row.approval
      /\ new.source = row.source /\ new.target = row.target
      /\ Checkpoint(new) = phase.watermark
    <2>1. phase.watermark \in Nat /\ row \in Migration
        BY <1>2
    <2> HIDE DEF row
    <2> QED
        BY ZenonT(40), <1>4, <1>5, <2>1 DEF Migration, Checkpoint
<1>8. From(new) = From(row) /\ Expected(new) = Expected(row)
    BY Zenon, <1>4, <1>7 DEF From, Expected
<1>9. RowOK(new)
    BY Zenon, <1>2, <1>7, <1>8 DEF RowOK
<1>10. RowOK(new)'
    BY Zenon, <1>1, <1>9 DEF RowOK, Expected, Checkpoint, From
<1>11. /\ OneActive' /\ failures' \in 0..MaxFailures
       /\ storage_profile' \in [Profiles -> {"NONE", "INACTIVE", "ACTIVE"}]
    BY Zenon, <1>1 DEF StateInv, OneActive, TypeOK
<1> QED
    BY Zenon, <1>1, <1>2, <1>6, <1>7, <1>10, <1>11, RowStep

\* A failure ends a forward migration, whose source is still active, and no rollback.
LEMMA FailureState ==
    ASSUME StateInv, NEW m \in Migrations, phase.id = m, RecordFailure(m),
           UNCHANGED <<objects, changes, writer, strayed, writes>>, failures' \in 0..MaxFailures
    PROVE  StateInv'
<1>1. /\ m \in Rows /\ RowOK(Row(m)) /\ Row(m) \in Migration
      /\ Row(m).state \notin Closed /\ Row(m).approval # "PENDING"
    BY Zenon, Locked
<1>2. PICK state : state = IF Row(m).state \in RollbackPhases THEN Row(m).state ELSE "FAILED"
    BY Zenon
<1>3. /\ storage_migration' = [storage_migration EXCEPT ![m].state = state]
      /\ phase' = NoPhase /\ UNCHANGED storage_profile
    BY Zenon, <1>2 DEF RecordFailure, Row
<1>4. state \in States
    BY Zenon, <1>1, <1>2 DEF Migration, States, Closed
<1>5. /\ state \in {"OBSERVING"} \cup RollbackPhases => storage_profile[Row(m).target] = "ACTIVE"
      /\ state \in Closed \cup {"OBSERVING"} \cup RollbackPhases
      /\ state \in Copied => Row(m).state \in Copied
                             /\ (state \in RollbackPhases <=> Row(m).state \in RollbackPhases)
    <2>1. CASE Row(m).state \in RollbackPhases
        BY Zenon, <1>1, <1>2, <2>1 DEF RowOK, Expected
    <2>2. CASE Row(m).state \notin RollbackPhases
        BY Zenon, <1>2, <2>2 DEF RollbackPhases, Closed, Copied
    <2> QED
        BY Zenon, <2>1, <2>2
<1>6. OneActive' /\ storage_profile' \in [Profiles -> {"NONE", "INACTIVE", "ACTIVE"}]
    BY Zenon, <1>3 DEF StateInv, OneActive, TypeOK
<1> QED
    BY Zenon, <1>1, <1>3, <1>4, <1>5, <1>6, StateStep

\* A phase fails, with or without a record.
LEMMA PhaseFailsState ==
    ASSUME StateInv, NEW m \in Migrations, PhaseFails(m)
    PROVE  StateInv'
<1>1. /\ phase.id = m /\ UNCHANGED <<objects, changes, writer, strayed, writes>>
      /\ failures' \in 0..MaxFailures
    BY StorageAssumption DEF PhaseFails, StateInv, TypeOK
<1>2. CASE RecordFailure(m)
    BY Zenon, <1>1, <1>2, FailureState
<1>3. CASE phase' = NoPhase /\ UNCHANGED <<storage_migration, storage_profile>>
    <2>1. PhaseOK' /\ phase' \in [id : Migrations \cup {Nothing},
                                  at : {"idle", "read", "apply", "compare", "commit"},
                                  data : Contents \cup {Nothing}, watermark : Nat]
        BY Zenon, <1>3 DEF PhaseOK, NoPhase
    <2>2. /\ objects' \in [Profiles -> Contents] /\ strayed' \in BOOLEAN
          /\ writer' \in [router : Profiles \cup {Nothing}, late : BOOLEAN]
          /\ writes' \in 0..MaxWrites
        BY Zenon, <1>1 DEF StateInv, TypeOK
    <2> QED
        BY Zenon, <1>1, <1>3, <2>1, <2>2, PhaseStep
<1> QED
    BY Zenon, <1>2, <1>3 DEF PhaseFails

\* A validation: only a validated rollback moves the active profile.
LEMMA ValidateState ==
    ASSUME StateInv, NEW m \in Migrations, Validate(m)
    PROVE  StateInv'
<1>1. /\ phase.id = m /\ phase.at = "compare"
      /\ UNCHANGED <<objects, changes, writer, strayed, writes, failures>>
      /\ failures' \in 0..MaxFailures
    BY Zenon DEF Validate, Busy, StateInv, TypeOK
<1>2. /\ m \in Rows /\ RowOK(Row(m)) /\ Row(m) \in Migration
      /\ Row(m).state \in {"VALIDATING", "ROLLBACK_VALIDATING"}
      /\ Row(m).state \notin Closed /\ Row(m).approval # "PENDING"
    BY Zenon, <1>1, Locked DEF LockedOK
<1>3. CASE RecordFailure(m)
    BY Zenon, <1>1, <1>3, FailureState
<1>4. CASE Row(m).state = "VALIDATING" /\ ~ RecordFailure(m)
    <2>1. /\ storage_migration' = [storage_migration EXCEPT ![m].state = "READY_TO_SWITCH"]
          /\ phase' = NoPhase /\ UNCHANGED storage_profile
        BY <1>4, AdvanceStates DEF Validate, Row
    <2>2. /\ storage_profile[Row(m).source] = "ACTIVE"
          /\ OneActive' /\ storage_profile' \in [Profiles -> {"NONE", "INACTIVE", "ACTIVE"}]
        BY ZenonT(40), <1>2, <1>4, <2>1
           DEF RowOK, Closed, Expected, RollbackPhases, StateInv, OneActive, TypeOK
    <2> QED
        BY Zenon, <1>1, <1>2, <1>4, <2>1, <2>2, StateStep
           DEF States, ForwardPhases, RollbackPhases, Closed, Copied
<1>5. CASE Row(m).state = "ROLLBACK_VALIDATING" /\ ~ RecordFailure(m)
    <2>1. /\ storage_migration' = [storage_migration EXCEPT ![m].state = "ROLLED_BACK"]
          /\ phase' = NoPhase
          /\ storage_profile' = [storage_profile EXCEPT ![Row(m).target] = "INACTIVE",
                                                        ![Row(m).source] = "ACTIVE"]
        BY <1>5, AdvanceStates DEF Validate, Row
    <2>2. /\ storage_profile[Row(m).target] = "ACTIVE" /\ Row(m).source # Row(m).target
          /\ Row(m).source \in Profiles /\ Row(m).target \in Profiles
        BY Zenon, <1>2, <1>5 DEF RowOK, Closed, Expected, RollbackPhases, Migration
    <2>3. OneActive' /\ storage_profile' \in [Profiles -> {"NONE", "INACTIVE", "ACTIVE"}]
        BY Zenon, <2>1, <2>2, ActiveMoves
    <2> QED
        BY Zenon, <1>1, <1>2, <2>1, <2>3, StateStep
           DEF States, ForwardPhases, RollbackPhases, Closed, Copied
<1> QED
    BY Zenon, <1>2, <1>3, <1>4, <1>5

\* A profile is created; there is an active one, so it is not activated.
LEMMA CreateProfileState ==
    ASSUME StateInv, NEW p \in Profiles, NEW activate \in BOOLEAN, CreateProfile(p, activate)
    PROVE  StateInv' /\ storage_profile' = [storage_profile EXCEPT ![p] = "INACTIVE"]
                     /\ storage_profile[p] # "ACTIVE"
<1>1. TypeOK /\ OneActive /\ OneOpen /\ PhaseOK /\ \A m \in Rows : RowOK(Row(m))
    BY Zenon DEF StateInv
<1>2. /\ storage_profile' = [storage_profile EXCEPT ![p] = "INACTIVE"] /\ storage_profile[p] = "NONE"
      /\ UNCHANGED <<storage_migration, objects, changes, phase, writer, strayed, writes, failures>>
    BY Zenon, <1>1 DEF OneActive, CreateProfile
<1>3. storage_profile \in [Profiles -> {"NONE", "INACTIVE", "ACTIVE"}]
    BY Zenon, <1>1 DEF TypeOK
<1>4. /\ storage_profile' \in [Profiles -> {"NONE", "INACTIVE", "ACTIVE"}]
      /\ \A q \in Profiles : storage_profile'[q] = "ACTIVE" <=> storage_profile[q] = "ACTIVE"
    BY Zenon, <1>2, <1>3
<1>5. Rows' = Rows /\ \A m \in Rows : Row(m)' = Row(m)
    BY Zenon, <1>2 DEF Rows, Row
<1>6. ASSUME NEW m \in Rows PROVE RowOK(Row(m))'
    <2>1. RowOK(Row(m)) /\ Row(m) \in Migration
        BY Zenon, <1>1, RowType
    <2>2. Expected(Row(m)) \in Profiles
        BY Zenon, <2>1 DEF Expected, Migration
    <2> QED
        BY Zenon, <1>2, <1>4, <2>1, <2>2 DEF RowOK, Row, Expected, Checkpoint, From
<1>7. TypeOK'
    BY Zenon, <1>1, <1>2, <1>4 DEF TypeOK
<1>8. OneActive' /\ OneOpen'
    BY ZenonT(40), <1>1, <1>4, <1>5 DEF OneActive, OneOpen
<1>9. PhaseOK'
    BY Zenon, <1>1, <1>2 DEF PhaseOK, LockedOK, Rows, Row, Checkpoint, From, NoPhase
<1> QED
    BY Zenon, <1>2, <1>5, <1>6, <1>7, <1>8, <1>9 DEF StateInv

-----------------------------------------------------------------------------
(* A business write *)

\* Whoever resolves a profile while a migration copies, validates or is ready gets the
\* side that is copied; and nobody gets one during a rollback.
LEMMA ResolvedIsSource ==
    ASSUME StateInv, NEW m \in Rows,
           Row(m).state \in ForwardPhases \cup RollbackPhases \cup {"READY_TO_SWITCH"},
           NEW p \in Resolvable
    PROVE  /\ Row(m).state \notin RollbackPhases
           /\ p = From(Row(m)) /\ p # To(Row(m))
<1>1. /\ p \in Profiles /\ storage_profile[p] = "ACTIVE"
      /\ ~ (Row(m).target = p /\ Row(m).state \notin {"OBSERVING", "COMPLETED"})
    BY Zenon DEF Resolvable, Fenced
<1>2. Row(m).state \notin Closed /\ Row(m).state \notin {"OBSERVING", "COMPLETED"}
    BY Zenon DEF Closed, ForwardPhases, RollbackPhases
<1>3. p = Expected(Row(m))
    BY Zenon, <1>1, <1>2, ActiveProfile
<1>4. Row(m).source # Row(m).target
    BY Zenon DEF StateInv, RowOK
<1> QED
    BY Zenon, <1>1, <1>2, <1>3, <1>4 DEF Expected, From, To

\* What Put does to the backend and its feed.
Written(p, k) ==
    /\ objects' = [objects EXCEPT ![p][k] = writes + 1]
    /\ changes' = [changes EXCEPT ![p] = Append(@, <<k, writes + 1>>)]
    /\ writes < MaxWrites /\ writes' = writes + 1

\* The feed grows by one, and the rest stays.
LEMMA FeedGrows ==
    ASSUME TypeOK, NEW p \in Profiles, NEW k \in Keys, Written(p, k)
    PROVE  /\ changes' \in [Profiles -> Seq(Keys \X (1..MaxWrites))]
           /\ objects' \in [Profiles -> Contents]
           /\ \A q \in Profiles : q # p => changes'[q] = changes[q] /\ objects'[q] = objects[q]
           /\ Len(changes'[p]) = Len(changes[p]) + 1
           /\ changes'[p][Len(changes[p]) + 1] = <<k, writes + 1>>
           /\ \A i \in 1..Len(changes[p]) : changes'[p][i] = changes[p][i]
           /\ objects'[p][k] = writes + 1
           /\ \A j \in Keys : j # k => objects'[p][j] = objects[p][j]
<1>1. /\ changes \in [Profiles -> Seq(Keys \X (1..MaxWrites))] /\ objects \in [Profiles -> Contents]
      /\ changes[p] \in Seq(Keys \X (1..MaxWrites)) /\ objects[p] \in [Keys -> 0..MaxWrites]
      /\ writes \in 0..MaxWrites /\ MaxWrites \in Nat
    BY Zenon, StorageAssumption DEF TypeOK, Contents
<1>2. <<k, writes + 1>> \in Keys \X (1..MaxWrites)
    BY <1>1 DEF Written
<1>3. Append(changes[p], <<k, writes + 1>>) \in Seq(Keys \X (1..MaxWrites))
    BY <1>1, <1>2
<1>4. changes' = [changes EXCEPT ![p] = Append(changes[p], <<k, writes + 1>>)]
    BY Zenon DEF Written
<1>5. objects' = [objects EXCEPT ![p] = [objects[p] EXCEPT ![k] = writes + 1]]
    BY Zenon, <1>1 DEF Written
<1>6. [objects[p] EXCEPT ![k] = writes + 1] \in Contents
    BY <1>1 DEF Written, Contents
<1>7. changes'[p] = Append(changes[p], <<k, writes + 1>>)
    BY Zenon, <1>1, <1>4
<1>8. /\ Len(changes'[p]) = Len(changes[p]) + 1
      /\ changes'[p][Len(changes[p]) + 1] = <<k, writes + 1>>
      /\ \A i \in 1..Len(changes[p]) : changes'[p][i] = changes[p][i]
    BY <1>1, <1>7
<1>9. /\ objects'[p][k] = writes + 1
      /\ \A j \in Keys : j # k => objects'[p][j] = objects[p][j]
    BY Zenon, <1>1, <1>5
<1> QED
    BY Zenon, <1>1, <1>3, <1>4, <1>5, <1>6, <1>8, <1>9

\* What is newer than a watermark stays so, the key that is written becomes so, and no
\* other key does.
LEMMA NewerGrows ==
    ASSUME TypeOK, NEW p \in Profiles, NEW k \in Keys, Written(p, k),
           NEW watermark \in 0..Len(changes[p])
    PROVE  /\ Newer(p, watermark, k)'
           /\ \A j \in Keys : Newer(p, watermark, j) => Newer(p, watermark, j)'
           /\ \A j \in Keys : j # k /\ Newer(p, watermark, j)' => Newer(p, watermark, j)
<1>1. Len(changes[p]) \in Nat
    BY  DEF TypeOK
<1>2. /\ Len(changes'[p]) = Len(changes[p]) + 1
      /\ changes'[p][Len(changes[p]) + 1] = <<k, writes + 1>>
      /\ \A i \in 1..Len(changes[p]) : changes'[p][i] = changes[p][i]
    BY Zenon, FeedGrows
<1>3. \A i \in (watermark + 1)..Len(changes[p]) :
        i \in 1..Len(changes[p]) /\ i \in (watermark + 1)..Len(changes'[p])
    BY <1>1, <1>2
<1>4. \A i \in (watermark + 1)..Len(changes'[p]) :
        i = Len(changes[p]) + 1 \/ i \in (watermark + 1)..Len(changes[p])
    BY <1>1, <1>2
<1>5. Len(changes[p]) + 1 \in (watermark + 1)..Len(changes'[p])
    BY <1>1, <1>2
<1>6. Newer(p, watermark, k)'
    BY <1>2, <1>5 DEF Newer
<1>7. ASSUME NEW j \in Keys, Newer(p, watermark, j)
      PROVE  Newer(p, watermark, j)'
    <2>1. PICK i \in (watermark + 1)..Len(changes[p]) : changes[p][i][1] = j
        BY Zenon, <1>7 DEF Newer
    <2>2. changes'[p][i][1] = j /\ i \in (watermark + 1)..Len(changes'[p])
        BY Zenon, <1>2, <1>3, <2>1
    <2> QED
        BY Zenon, <2>2 DEF Newer
<1>8. ASSUME NEW j \in Keys, j # k, Newer(p, watermark, j)'
      PROVE  Newer(p, watermark, j)
    <2>1. PICK i \in (watermark + 1)..Len(changes'[p]) : changes'[p][i][1] = j
        BY Zenon, <1>8 DEF Newer
    <2>2. i \in (watermark + 1)..Len(changes[p])
        BY <1>2, <1>4, <1>8, <2>1
    <2>3. changes[p][i][1] = j
        BY Zenon, <1>2, <1>3, <2>1, <2>2
    <2> QED
        BY Zenon, <2>2, <2>3 DEF Newer
<1> QED
    BY Zenon, <1>6, <1>7, <1>8

\* The copy stays behind by newer writes only ...
LEMMA PutBehind ==
    ASSUME TypeOK, NEW p \in Profiles, NEW k \in Keys, Written(p, k),
           NEW watermark \in 0..Len(changes[p]), NEW to \in Profiles, to # p,
           Behind(p, to, watermark)
    PROVE  Behind(p, to, watermark)'
<1>1. ASSUME NEW j \in Keys
      PROVE  objects'[p][j] \in {0, objects'[to][j]} \/ Newer(p, watermark, j)'
    <2>1. CASE j = k
        BY Zenon, <2>1, NewerGrows
    <2>2. CASE j # k
        BY ZenonT(60), <2>2, NewerGrows, FeedGrows DEF Behind
    <2> QED
        BY Zenon, <2>1, <2>2
<1> QED
    BY Zenon, <1>1 DEF Behind

\* ... the feed stays current, since values are numbered in the order of the writes ...
LEMMA PutCurrent ==
    ASSUME TypeOK, FeedOK, NEW p \in Profiles, NEW k \in Keys, Written(p, k),
           NEW watermark \in 0..Len(changes[p]), FeedCurrent(p, watermark)
    PROVE  FeedCurrent(p, watermark)'
<1> DEFINE old == changes[p]
           new == changes'[p]
<1>1. /\ old \in Seq(Keys \X (1..MaxWrites)) /\ new \in Seq(Keys \X (1..MaxWrites))
      /\ Len(old) \in Nat /\ writes \in Nat
    BY SMTT(40), FeedGrows, StorageAssumption DEF TypeOK
<1>2. /\ Len(new) = Len(old) + 1 /\ new[Len(old) + 1] = <<k, writes + 1>>
      /\ \A i \in 1..Len(old) : new[i] = old[i]
    BY Zenon, FeedGrows
<1>3. /\ watermark \in 0..Len(new)
      /\ \A i \in (watermark + 1)..Len(old) :
            i \in 1..Len(old) /\ i \in (watermark + 1)..Len(new)
      /\ \A i \in (watermark + 1)..Len(new) :
            i = Len(old) + 1 \/ i \in (watermark + 1)..Len(old)
      /\ Len(old) + 1 \in (watermark + 1)..Len(new)
    <2>1. PICK n \in Nat : n = Len(old) /\ watermark \in 0..n /\ Len(new) = n + 1
        BY Zenon, <1>1, <1>2
    <2> HIDE DEF old, new
    <2> QED
        BY <2>1
<1>4. \A i \in 1..Len(old) : old[i][2] \in 1..writes
    BY Zenon DEF FeedOK
<1> HIDE DEF old, new
<1>5. ASSUME NEW j \in Keys, Newer(p, watermark, j)'
      PROVE  objects'[p][j] = Latest(new, watermark, j)
    <2>1. \E i \in (watermark + 1)..Len(new) : new[i][1] = j
        BY Zenon, <1>5 DEF Newer, new
    <2>2. PICK i \in (watermark + 1)..Len(new) :
            new[i][1] = j /\ new[i][2] = Latest(new, watermark, j)
        BY ZenonT(40), <1>1, <1>3, <2>1, LatestIs
    <2>3. \A h \in (watermark + 1)..Len(new) : new[h][1] = j => new[h][2] <= Latest(new, watermark, j)
        BY Zenon, <1>1, <1>3, <2>1, LatestIs
    <2>4. CASE j = k
        <3>1. writes + 1 <= Latest(new, watermark, j)
            BY <1>2, <1>3, <2>3, <2>4
        <3>2. Latest(new, watermark, j) \in 1..(writes + 1)
            <4>1. CASE i = Len(old) + 1
                BY <1>1, <1>2, <2>2, <4>1
            <4>2. CASE i \in (watermark + 1)..Len(old)
                <5>1. new[i][2] \in 1..writes
                    BY Zenon, <1>2, <1>3, <1>4, <4>2
                <5> QED
                    BY <1>1, <2>2, <5>1
            <4> QED
                BY Zenon, <1>3, <2>2, <4>1, <4>2
        <3>3. objects'[p][j] = writes + 1
            BY Zenon, <2>4, FeedGrows
        <3> QED
            BY <1>1, <3>1, <3>2, <3>3
    <2>5. CASE j # k
        <3>1. Newer(p, watermark, j) /\ objects'[p][j] = objects[p][j]
            BY Zenon, <1>5, <2>5, NewerGrows, FeedGrows
        <3>2. objects[p][j] = Latest(old, watermark, j)
            BY Zenon, <3>1 DEF FeedCurrent, old
        <3>3. \E g \in (watermark + 1)..Len(old) : old[g][1] = j
            BY Zenon, <3>1 DEF Newer, old
        <3>4. PICK g \in (watermark + 1)..Len(old) :
                old[g][1] = j /\ old[g][2] = Latest(old, watermark, j)
            BY ZenonT(40), <1>1, <3>3, LatestIs DEF old
        <3>5. \A h \in (watermark + 1)..Len(old) :
                old[h][1] = j => old[h][2] <= Latest(old, watermark, j)
            BY Zenon, <1>1, <3>3, LatestIs DEF old
        <3>6. i \in (watermark + 1)..Len(old)
            BY <1>2, <1>3, <2>2, <2>5
        <3>7. Latest(new, watermark, j) <= Latest(old, watermark, j)
            BY Zenon, <1>2, <1>3, <2>2, <3>5, <3>6
        <3>8. Latest(old, watermark, j) <= Latest(new, watermark, j)
            BY Zenon, <1>2, <1>3, <2>3, <3>4
        <3>9. Latest(old, watermark, j) \in 1..writes /\ Latest(new, watermark, j) \in 1..writes
            BY ZenonT(40), <1>2, <1>3, <1>4, <2>2, <3>4, <3>6
        <3> QED
            BY <1>1, <3>1, <3>2, <3>7, <3>8, <3>9
    <2> QED
        BY Zenon, <2>4, <2>5
<1> QED
    BY Zenon, <1>5 DEF FeedCurrent, new

\* ... and so does what the worker has in hand.
LEMMA PutCarried ==
    ASSUME TypeOK, NEW p \in Profiles, NEW k \in Keys, Written(p, k), UNCHANGED phase,
           phase.watermark \in 0..Len(changes[p]), NEW to \in Profiles, to # p,
           Carried(p, to)
    PROVE  Carried(p, to)'
<1> DEFINE watermark == phase.watermark
<1>1. ASSUME NEW j \in Keys
      PROVE  \/ objects'[p][j] = phase.data[j]
             \/ phase.data[j] = 0 /\ objects'[p][j] \in {0, objects'[to][j]}
             \/ Newer(p, watermark, j)'
    <2>1. CASE j = k
        BY ZenonT(40), <2>1, NewerGrows
    <2>2. CASE j # k
        <3>1. objects'[p][j] = objects[p][j] /\ objects'[to] = objects[to]
            BY ZenonT(60), <2>2, FeedGrows
        <3>2. Newer(p, watermark, j) => Newer(p, watermark, j)'
            BY Zenon, NewerGrows
        <3>3. \/ objects[p][j] = phase.data[j]
              \/ phase.data[j] = 0 /\ objects[p][j] \in {0, objects[to][j]}
              \/ Newer(p, watermark, j)
            BY Zenon DEF Carried
        <3> QED
            BY Zenon, <3>1, <3>2, <3>3
    <2> QED
        BY Zenon, <2>1, <2>2
<1> QED
    BY Zenon, <1>1 DEF Carried, Newer

\* An Agent Worker resolves a profile, never during a rollback.
LEMMA ResolveInv ==
    ASSUME Inv, NEW p \in Profiles, ResolveStorage(p)
    PROVE  Inv'
<1>1. /\ StateInv /\ TypeOK /\ PhaseOK /\ DataInv /\ p \in Resolvable
      /\ writer' = [router |-> p, late |-> RollingBack]
      /\ UNCHANGED <<storage_profile, storage_migration, objects, changes, phase, strayed,
                     writes, failures>>
    BY Zenon DEF Inv, StateInv, ResolveStorage
<1>2. ~ RollingBack
    <2>1. SUFFICES ASSUME NEW m \in Rows, Row(m).state \in RollbackPhases PROVE FALSE
        BY Zenon DEF RollingBack
    <2> QED
        BY Zenon, <1>1, <2>1, ResolvedIsSource
<1>3. writer' \in [router : Profiles \cup {Nothing}, late : BOOLEAN] /\ ~ writer'.late
    <2>1. RollingBack = FALSE
        BY Zenon, <1>2 DEF RollingBack
    <2>2. writer' = [router |-> p, late |-> FALSE]
        BY ZenonT(40), <1>1, <2>1
    <2> QED
        BY Zenon, <2>2
<1>4. PhaseOK'
    BY Zenon, <1>1 DEF PhaseOK, LockedOK, Rows, Row, Checkpoint, From
<1>5. /\ phase' \in [id : Migrations \cup {Nothing},
                     at : {"idle", "read", "apply", "compare", "commit"},
                     data : Contents \cup {Nothing}, watermark : Nat]
      /\ objects' \in [Profiles -> Contents]
      /\ strayed' \in BOOLEAN /\ writes' \in 0..MaxWrites /\ failures' \in 0..MaxFailures
    BY Zenon, <1>1 DEF TypeOK
<1>6. StateInv'
    BY Zenon, <1>1, <1>3, <1>4, <1>5, PhaseStep
<1>7. DataInv'
    <2>1. Rows' = Rows /\ FeedOK'
        BY Zenon, <1>1 DEF DataInv, FeedOK, Rows
    <2>2. ASSUME NEW m \in Rows, RowData(Row(m)) PROVE RowData(Row(m))'
        BY ZenonT(40), <1>1, <2>2 DEF RowData, Behind, FeedCurrent, Newer, Row, From, To, Checkpoint
    <2>3. ASSUME PhaseData(Row(phase.id)) PROVE PhaseData(Row(phase.id))'
        BY ZenonT(40), <1>1, <2>3 DEF PhaseData, Behind, FeedCurrent, Carried, Newer, Row, From, To
    <2> QED
        BY Zenon, <1>1, <2>1, <2>2, <2>3 DEF DataInv
<1> QED
    BY Zenon, <1>3, <1>6, <1>7 DEF Inv, RollbackAdmitsNoWriter

\* A write: who is migrated and what the worker holds stays what it is.
LEMMA PutState ==
    ASSUME StateInv, NEW p \in Profiles, NEW k \in Keys, Written(p, k),
           UNCHANGED <<storage_profile, storage_migration, phase, failures>>,
           writer' \in [router : Profiles \cup {Nothing}, late : BOOLEAN], strayed' \in BOOLEAN
    PROVE  StateInv'
<1>1. TypeOK /\ OneActive /\ OneOpen /\ PhaseOK /\ \A m \in Rows : RowOK(Row(m))
    BY Zenon DEF StateInv
<1>2. Rows' = Rows /\ \A m \in Migrations : Row(m)' = Row(m)
    BY Zenon DEF Rows, Row
<1>3. \A q \in Profiles : Len(changes[q]) \in Nat /\ Len(changes'[q]) \in Nat
                          /\ Len(changes[q]) <= Len(changes'[q])
    <2>1. \A q \in Profiles : Len(changes[q]) \in Nat
        BY <1>1 DEF TypeOK
    <2>2. \A q \in Profiles : Len(changes'[q]) = Len(changes[q]) \/ Len(changes'[q]) = Len(changes[q]) + 1
        BY Zenon, <1>1, FeedGrows
    <2> QED
        BY <2>1, <2>2
<1>4. TypeOK'
    <2>1. writes' \in 0..MaxWrites
        BY SMTT(40), <1>1, StorageAssumption DEF Written, TypeOK
    <2> QED
        BY Zenon, <1>1, <2>1, FeedGrows DEF TypeOK
<1>5. OneActive' /\ OneOpen'
    <2>1. \A m \in Rows : Row(m)' = Row(m)
        BY ZenonT(40), <1>2 DEF Rows
    <2> QED
        BY Zenon, <1>1, <1>2, <2>1 DEF OneActive, OneOpen
<1>6. ASSUME NEW m \in Rows PROVE RowOK(Row(m))'
    <2>1. RowOK(Row(m)) /\ Row(m) \in Migration
        BY Zenon, <1>1, RowType
    <2>2. From(Row(m)) \in Profiles
        BY Zenon, <2>1 DEF From, Migration
    <2>3. Row(m).state \in Copied => Checkpoint(Row(m)) \in 0..Len(changes'[From(Row(m))])
        BY <1>3, <2>1, <2>2 DEF RowOK
    <2> QED
        BY Zenon, <2>1, <2>3 DEF RowOK, Row, Expected, Checkpoint, From
<1>7. PhaseOK'
    <2>1. CASE phase = NoPhase
        BY Zenon, <2>1 DEF PhaseOK
    <2>2. CASE phase.id \in Rows /\ LockedOK(Row(phase.id))
        <3>1. From(Row(phase.id)) \in Profiles
            BY Zenon, <1>1, <2>2, RowType DEF From, Migration
        <3>2. phase.at \in {"apply", "commit"} =>
                phase.watermark \in 0..Len(changes'[From(Row(phase.id))])
            BY <1>3, <2>2, <3>1 DEF LockedOK
        <3> QED
            BY ZenonT(40), <1>2, <2>2, <3>2 DEF PhaseOK, LockedOK, Row, Checkpoint, From
    <2> QED
        BY Zenon, <1>1, <2>1, <2>2 DEF PhaseOK
<1> QED
    BY Zenon, <1>2, <1>4, <1>5, <1>6, <1>7 DEF StateInv

\* The value written is numbered after all that the feeds hold.
LEMMA PutFeed ==
    ASSUME TypeOK, FeedOK, NEW p \in Profiles, NEW k \in Keys, Written(p, k)
    PROVE  FeedOK'
<1>1. SUFFICES ASSUME NEW q \in Profiles, NEW i \in 1..Len(changes'[q])
               PROVE  changes'[q][i][2] \in 1..writes'
    BY Zenon DEF FeedOK
<1>2. writes \in Nat /\ writes' = writes + 1 /\ Len(changes[q]) \in Nat
    BY StorageAssumption DEF TypeOK, Written
<1>3. \A j \in 1..Len(changes[q]) : changes[q][j][2] \in 1..writes
    BY Zenon DEF FeedOK
<1>4. CASE q # p
    <2>1. changes'[q] = changes[q]
        BY Zenon, <1>4, FeedGrows
    <2>2. changes'[q][i][2] \in 1..writes
        BY Zenon, <1>3, <2>1
    <2> QED
        BY <1>2, <2>2
<1>5. CASE q = p
    <2>1. /\ Len(changes'[p]) = Len(changes[p]) + 1
          /\ changes'[p][Len(changes[p]) + 1] = <<k, writes + 1>>
          /\ \A j \in 1..Len(changes[p]) : changes'[p][j] = changes[p][j]
        BY Zenon, FeedGrows
    <2>2. i = Len(changes[p]) + 1 \/ i \in 1..Len(changes[p])
        <3>1. Len(changes[p]) \in Nat /\ i \in 1..(Len(changes[p]) + 1)
            BY Zenon, <1>2, <1>5, <2>1
        <3> QED
            BY <3>1
    <2>3. CASE i = Len(changes[p]) + 1
        BY <1>2, <1>5, <2>1, <2>3
    <2>4. CASE i \in 1..Len(changes[p])
        <3>1. changes'[q][i][2] \in 1..writes
            BY Zenon, <1>3, <1>5, <2>1, <2>4
        <3> QED
            BY <1>2, <3>1
    <2> QED
        BY Zenon, <2>2, <2>3, <2>4
<1> QED
    BY Zenon, <1>4, <1>5

\* A write through the profile that is resolved now goes to the side that is copied.
LEMMA PutData ==
    ASSUME StateInv, DataInv, NEW p \in Profiles, NEW k \in Keys, Written(p, k),
           UNCHANGED <<storage_profile, storage_migration, phase, failures>>,
           strayed' = (strayed \/ p \notin Resolvable)
    PROVE  DataInv'
<1>1. TypeOK /\ FeedOK
    BY Zenon DEF StateInv, DataInv
<1>2. Rows' = Rows /\ \A m \in Migrations : Row(m)' = Row(m)
    BY Zenon DEF Rows, Row
<1>3. FeedOK'
    BY Zenon, <1>1, PutFeed
<1>4. ASSUME ~ strayed', NEW m \in Rows PROVE RowData(Row(m))'
    <2>1. CASE Row(m).state \in Copied
        <3>1. /\ ~ strayed /\ p \in Resolvable /\ RowData(Row(m)) /\ RowOK(Row(m))
              /\ Row(m) \in Migration
            BY Zenon, <1>1, <1>4, RowType DEF DataInv, StateInv
        <3>2. Row(m).state \in ForwardPhases \cup RollbackPhases \cup {"READY_TO_SWITCH"}
            BY Zenon, <2>1 DEF Copied, ForwardPhases, RollbackPhases
        <3>3. From(Row(m)) = p /\ To(Row(m)) # p /\ To(Row(m)) \in Profiles
            BY Zenon, <3>1, <3>2, ResolvedIsSource DEF To, Migration
        <3>4. Checkpoint(Row(m)) \in 0..Len(changes[p])
            BY Zenon, <2>1, <3>1, <3>3 DEF RowOK
        <3>5. PICK watermark \in 0..Len(changes[p]), to \in Profiles :
                watermark = Checkpoint(Row(m)) /\ to = To(Row(m)) /\ to # p
            BY Zenon, <3>3, <3>4
        <3>6. Behind(p, to, watermark) /\ (Row(m).state \in CatchingUp => FeedCurrent(p, watermark))
            BY Zenon, <2>1, <3>1, <3>3, <3>5 DEF RowData
        <3>7. Behind(p, to, watermark)'
            BY Zenon, <1>1, <3>5, <3>6, PutBehind
        <3>8. Row(m).state \in CatchingUp => FeedCurrent(p, watermark)'
            BY Zenon, <1>1, <3>6, PutCurrent
        <3>9. /\ Row(m)' = Row(m) /\ From(Row(m))' = p /\ To(Row(m))' = to
              /\ Checkpoint(Row(m))' = watermark
            BY Zenon, <3>3, <3>5 DEF Row, From, To, Checkpoint
        <3> QED
            BY Zenon, <3>7, <3>8, <3>9 DEF RowData, Behind, FeedCurrent, Newer
    <2>2. CASE Row(m).state \notin Copied
        BY Zenon, <2>2 DEF RowData, Row, Copied, CatchingUp
    <2> QED
        BY Zenon, <2>1, <2>2
<1>5. ASSUME ~ strayed', phase # NoPhase PROVE PhaseData(Row(phase.id))'
    <2> DEFINE m == phase.id
    <2>1. phase.id \in Rows /\ LockedOK(Row(m))
        BY Zenon, <1>5 DEF StateInv, PhaseOK
    <2>2. CASE phase.at \in {"apply", "commit"}
        <3>1. /\ ~ strayed /\ p \in Resolvable /\ PhaseData(Row(m)) /\ RowOK(Row(m))
              /\ Row(m) \in Migration
            BY Zenon, <1>1, <1>5, <2>1, RowType DEF DataInv, StateInv
        <3>2. Row(m).state \in ForwardPhases \cup RollbackPhases \cup {"READY_TO_SWITCH"}
            BY Zenon, <2>1 DEF LockedOK
        <3>3. From(Row(m)) = p /\ To(Row(m)) # p /\ To(Row(m)) \in Profiles
            BY Zenon, <2>1, <3>1, <3>2, ResolvedIsSource DEF To, Migration
        <3>4. phase.watermark \in 0..Len(changes[p])
            BY Zenon, <2>1, <2>2, <3>3 DEF LockedOK
        <3>5. PICK watermark \in 0..Len(changes[p]), to \in Profiles :
                watermark = phase.watermark /\ to = To(Row(m)) /\ to # p
            BY Zenon, <3>3, <3>4
        <3>6. /\ phase.at = "apply" => Carried(p, to)
              /\ phase.at = "commit" => Behind(p, to, watermark)
              /\ Row(m).state \in Backfilling => FeedCurrent(p, watermark)
            BY Zenon, <2>2, <3>1, <3>3, <3>5 DEF PhaseData
        <3>7. phase.at = "apply" => Carried(p, to)'
            BY Zenon, <1>1, <3>4, <3>5, <3>6, PutCarried
        <3>8. phase.at = "commit" => Behind(p, to, watermark)'
            BY Zenon, <1>1, <3>5, <3>6, PutBehind
        <3>9. Row(m).state \in Backfilling => FeedCurrent(p, watermark)'
            BY Zenon, <1>1, <3>6, PutCurrent
        <3>10. /\ Row(phase.id)' = Row(m) /\ From(Row(phase.id))' = p /\ To(Row(phase.id))' = to
               /\ phase'.watermark = watermark /\ phase'.at = phase.at
            BY Zenon, <3>3, <3>5 DEF Row, From, To
        <3>11. phase'.at = "apply" => Carried(From(Row(phase.id)), To(Row(phase.id)))'
            BY ZenonT(40), <3>7, <3>10 DEF Carried, Newer
        <3>12. phase'.at = "commit" => Behind(From(Row(phase.id)), To(Row(phase.id)), phase.watermark)'
            BY <3>8, <3>10 DEF Behind, Newer
        <3>13. Row(phase.id)'.state \in Backfilling => FeedCurrent(From(Row(phase.id)), phase.watermark)'
            BY Zenon, <3>9, <3>10 DEF FeedCurrent, Newer
        <3> QED
            BY Zenon, <3>11, <3>12, <3>13 DEF PhaseData
    <2>3. CASE phase.at \notin {"apply", "commit"}
        BY Zenon, <2>3 DEF PhaseData
    <2> QED
        BY Zenon, <2>2, <2>3
<1> QED
    BY Zenon, <1>2, <1>3, <1>4, <1>5 DEF DataInv

\* So a write keeps the invariant, and the worker has no router any more.
LEMMA PutInv ==
    ASSUME Inv, NEW k \in Keys, Put(k)
    PROVE  Inv'
<1>1. StateInv /\ DataInv /\ TypeOK
    BY Zenon DEF Inv, StateInv
<1>2. PICK p \in Profiles : p = writer.router
    BY Zenon, <1>1 DEF Put, TypeOK
<1>3. /\ Written(p, k) /\ writer' = [router |-> Nothing, late |-> FALSE]
      /\ strayed' = (strayed \/ p \notin Resolvable)
      /\ UNCHANGED <<storage_profile, storage_migration, phase, failures>>
    BY Zenon, <1>2 DEF Put, Written
<1>4. writer' \in [router : Profiles \cup {Nothing}, late : BOOLEAN] /\ ~ writer'.late
    BY Zenon, <1>3
<1>5. strayed' \in BOOLEAN
    BY Zenon, <1>3
<1>6. StateInv'
    BY Zenon, <1>1, <1>3, <1>4, <1>5, PutState
<1>7. DataInv'
    BY Zenon, <1>1, <1>3, PutData
<1> QED
    BY Zenon, <1>4, <1>6, <1>7 DEF Inv, RollbackAdmitsNoWriter

-----------------------------------------------------------------------------
(* DataInv: the steps that touch no backend *)

\* One row changes, and not the one a phase goes on with.
LEMMA RowDataStep ==
    ASSUME StateInv, DataInv, NEW m \in Migrations, NEW new \in Migration,
           storage_migration' = [storage_migration EXCEPT ![m] = new],
           ~ strayed => RowData(new),
           (phase.id # m /\ UNCHANGED phase) \/ phase' = NoPhase,
           UNCHANGED <<objects, changes, strayed, writes>>
    PROVE  DataInv'
<1>1. TypeOK /\ storage_migration \in [Migrations -> Migration \cup {Nothing}]
    BY Zenon DEF StateInv, TypeOK
<1>2. FeedOK'
    BY Zenon DEF DataInv, FeedOK
<1>3. \A n \in Migrations : Row(n)' = IF n = m THEN new ELSE Row(n)
    BY Zenon, <1>1 DEF Row
<1>4. \A n \in Rows' : n \in Migrations /\ (n # m => n \in Rows)
    BY Zenon, <1>3 DEF Rows, Row
<1>5. ASSUME ~ strayed', NEW n \in Rows' PROVE RowData(Row(n))'
    <2>1. PICK row : row = Row(n)'
        BY Zenon
    <2>2. RowData(row)
        BY Zenon, <1>3, <1>4, <1>5, <2>1 DEF DataInv
    <2>3. RowData(row)'
        BY ZenonT(40), <2>2 DEF RowData, Behind, FeedCurrent, Newer, From, To, Checkpoint
    <2> QED
        BY Zenon, <2>1, <2>3 DEF RowData, From, To, Checkpoint
<1>6. ASSUME ~ strayed', phase' # NoPhase PROVE PhaseData(Row(phase.id))'
    <2>1. phase.id # m /\ phase' = phase /\ phase # NoPhase
        BY Zenon, <1>6
    <2>2. phase.id \in Rows /\ PhaseData(Row(phase.id))
        BY Zenon, <1>6, <2>1 DEF StateInv, PhaseOK, DataInv
    <2>3. PICK row : row = Row(phase.id)
        BY Zenon
    <2>4. row = Row(phase.id)'
        BY Zenon, <1>3, <2>1, <2>2, <2>3 DEF Rows, Row
    <2>5. PhaseData(row)'
        BY ZenonT(40), <2>1, <2>2, <2>3 DEF PhaseData, Behind, FeedCurrent, Newer, Carried, From, To
    <2> QED
        BY Zenon, <2>4, <2>5 DEF PhaseData, From, To
<1> QED
    BY Zenon, <1>2, <1>5, <1>6 DEF DataInv

\* The usual case: the state of the row is none that claims anything, or the row was
\* validated.
LEMMA StateDataStep ==
    ASSUME StateInv, DataInv, NEW m \in Rows, NEW state \in States,
           storage_migration' = [storage_migration EXCEPT ![m].state = state],
           \/ state \notin Copied
           \/ state = Row(m).state
           \/ state = "READY_TO_SWITCH" /\ Row(m).state = "VALIDATING",
           (phase.id # m /\ UNCHANGED phase) \/ phase' = NoPhase,
           UNCHANGED <<objects, changes, strayed, writes>>
    PROVE  DataInv'
<1>1. /\ TypeOK /\ m \in Migrations /\ Row(m) \in Migration /\ (~ strayed => RowData(Row(m)))
      /\ storage_migration \in [Migrations -> Migration \cup {Nothing}]
    BY Zenon, RowType DEF StateInv, Rows, TypeOK, DataInv
<1>2. PICK new : new = [Row(m) EXCEPT !.state = state]
    BY Zenon
<1>3. /\ new \in Migration /\ new.state = state
      /\ new.source = Row(m).source /\ new.target = Row(m).target
      /\ new.forward = Row(m).forward /\ new.backward = Row(m).backward
    BY Zenon, <1>1, <1>2 DEF Migration
<1>4. storage_migration' = [storage_migration EXCEPT ![m] = new]
    BY Zenon, <1>1, <1>2 DEF Row
<1>5. ~ strayed => RowData(new)
    <2>1. CASE state \notin Copied
        BY Zenon, <1>3, <2>1 DEF RowData, Copied, CatchingUp
    <2>2. CASE state = Row(m).state
        <3>1. new = Row(m)
            BY Zenon, <1>1, <1>2, <2>2 DEF Migration
        <3> QED
            BY Zenon, <1>1, <3>1
    <2>3. CASE state = "READY_TO_SWITCH" /\ Row(m).state = "VALIDATING"
        <3>1. From(new) = From(Row(m)) /\ To(new) = To(Row(m)) /\ Checkpoint(new) = Checkpoint(Row(m))
            BY Zenon, <1>3, <2>3 DEF From, To, Checkpoint, RollbackPhases
        <3>2. new.state \notin CatchingUp /\ Row(m).state \in Copied
            BY Zenon, <1>3, <2>3 DEF CatchingUp, Copied
        <3> QED
            BY Zenon, <1>1, <3>1, <3>2 DEF RowData
    <2> QED
        BY Zenon, <2>1, <2>2, <2>3
<1> QED
    BY Zenon, <1>1, <1>3, <1>4, <1>5, RowDataStep

\* Administrators move no data.
LEMMA AdminData ==
    ASSUME StateInv, DataInv, NEW m \in Migrations, AdminStep(m)
    PROVE  DataInv'
<1>1. CASE \E a \in Requesters, p \in Profiles : CreateMigration(m, a, p)
    <2>1. PICK a \in Requesters, target \in Profiles : CreateMigration(m, a, target)
        BY Zenon, <1>1
    <2>2. PICK source \in Profiles : storage_migration' = [storage_migration EXCEPT ![m] =
              [state |-> "PREPARED", source |-> source, target |-> target,
               requested_by |-> a, approval |-> "PENDING", approved_by |-> Nothing,
               rollback |-> "NONE", rollback_by |-> Nothing, rollback_approved_by |-> Nothing,
               forward |-> Nothing, backward |-> Nothing]]
        BY ZenonT(40), <2>1 DEF CreateMigration
    <2>3. PICK new : new = [state |-> "PREPARED", source |-> source, target |-> target,
               requested_by |-> a, approval |-> "PENDING", approved_by |-> Nothing,
               rollback |-> "NONE", rollback_by |-> Nothing, rollback_approved_by |-> Nothing,
               forward |-> Nothing, backward |-> Nothing]
        BY Zenon
    <2>4. new \in Migration /\ new.state = "PREPARED"
        BY Zenon, <2>3, StorageAssumption DEF Migration, States, Approvals
    <2>5. RowData(new)
        BY Zenon, <2>4 DEF RowData, Copied, CatchingUp
    <2>6. phase.id # m
        <3>1. m \notin Rows
            BY ZenonT(40), <2>1 DEF CreateMigration, Rows, Row
        <3> QED
            BY Zenon, <3>1, Locked
    <2>7. UNCHANGED <<objects, changes, phase, strayed, writes>>
        BY Zenon, <2>1 DEF CreateMigration
    <2> QED
        BY Zenon, <2>2, <2>3, <2>4, <2>5, <2>6, <2>7, RowDataStep
<1>2. CASE \E a \in Admins, approve \in BOOLEAN : DecideMigrationApproval(m, a, approve)
    <2>1. PICK a \in Admins, approve \in BOOLEAN : DecideMigrationApproval(m, a, approve)
        BY Zenon, <1>2
    <2>2. /\ m \in Rows /\ phase.id # m /\ Row(m) \in Migration
          /\ storage_migration \in [Migrations -> Migration \cup {Nothing}]
          /\ UNCHANGED <<objects, changes, phase, strayed, writes>>
        BY Zenon, <2>1, RowType DEF DecideMigrationApproval, Unlocked, StateInv, TypeOK
    <2>3. PICK new : new = [Row(m) EXCEPT !.approval = IF approve THEN "APPROVED" ELSE "DENIED",
                                          !.state = IF approve THEN "PREPARED" ELSE "FAILED",
                                          !.approved_by = a]
        BY Zenon
    <2>4. new \in Migration /\ new.state \in {"PREPARED", "FAILED"}
        <3>1. PICK approval \in Approvals, state \in {"PREPARED", "FAILED"} :
                new = [Row(m) EXCEPT !.approval = approval, !.state = state, !.approved_by = a]
            BY Zenon, <2>3 DEF Approvals
        <3>2. state \in States
            BY Zenon DEF States, Closed
        <3> QED
            BY Zenon, <2>2, <3>1, <3>2 DEF Migration
    <2>5. storage_migration' = [storage_migration EXCEPT ![m] = new]
        BY Zenon, <2>1, <2>2, <2>3 DEF DecideMigrationApproval, Row
    <2>6. RowData(new)
        BY Zenon, <2>4 DEF RowData, Copied, CatchingUp
    <2> QED
        BY Zenon, <2>2, <2>4, <2>5, <2>6, RowDataStep
<1>3. CASE \/ StartMigration(m) \/ RollbackMigration(m)
           \/ \E op \in {"SWITCH", "COMPLETE"} : AdvanceMigration(m, op)
    <2>1. /\ m \in Rows /\ phase.id # m
          /\ UNCHANGED <<objects, changes, phase, strayed, writes>>
        BY Zenon, <1>3 DEF StartMigration, RollbackMigration, AdvanceMigration, Unlocked
    <2>2. PICK op \in {"START_BACKFILL", "START_ROLLBACK", "SWITCH", "COMPLETE"} :
            /\ CanAdvance(Row(m).state, op)
            /\ storage_migration' = [storage_migration EXCEPT ![m].state = Advance(@, op)]
        BY Zenon, <1>3 DEF StartMigration, RollbackMigration, AdvanceMigration
    <2>3. PICK state : state = Advance(Row(m).state, op)
        BY Zenon
    <2>4. state \in {"BACKFILLING", "ROLLING_BACK", "OBSERVING", "COMPLETED"}
        BY ZenonT(60), <2>2, <2>3, OperationState, AdvanceStates
    <2>5. state \in States /\ state \notin Copied
        BY Zenon, <2>4 DEF States, ForwardPhases, RollbackPhases, Closed, Copied
    <2>6. storage_migration' = [storage_migration EXCEPT ![m].state = state]
        BY Zenon, <2>1, <2>2, <2>3 DEF Row
    <2> QED
        BY Zenon, <2>1, <2>5, <2>6, StateDataStep
<1>4. CASE \/ \E a \in Requesters : DecideRollbackApproval(m, a, "REQUEST")
           \/ \E a \in Admins, d \in {"APPROVED", "DENIED"} : DecideRollbackApproval(m, a, d)
    <2>1. PICK a \in Admins, d \in {"REQUEST", "APPROVED", "DENIED"} : DecideRollbackApproval(m, a, d)
        BY Zenon, <1>4, StorageAssumption
    <2>2. /\ m \in Rows /\ phase.id # m /\ Row(m) \in Migration /\ Row(m).state = "OBSERVING"
          /\ storage_migration \in [Migrations -> Migration \cup {Nothing}]
          /\ UNCHANGED <<objects, changes, phase, strayed, writes>>
        BY Zenon, <2>1, RowType DEF DecideRollbackApproval, Unlocked, StateInv, TypeOK
    <2>3. PICK new : new = IF d = "REQUEST"
                           THEN [Row(m) EXCEPT !.rollback = "PENDING", !.rollback_by = a]
                           ELSE [Row(m) EXCEPT !.rollback = d, !.rollback_approved_by = a]
        BY Zenon
    <2>4. new \in Migration /\ new.state = "OBSERVING"
        BY ZenonT(40), <2>2, <2>3 DEF Migration, Approvals
    <2>5. storage_migration' = [storage_migration EXCEPT ![m] = new]
        BY Zenon, <2>1, <2>2, <2>3 DEF DecideRollbackApproval, Row
    <2>6. RowData(new)
        BY Zenon, <2>4 DEF RowData, Copied, CatchingUp
    <2> QED
        BY ZenonT(40), <2>2, <2>4, <2>5, <2>6, RowDataStep
<1> QED
    BY Zenon, <1>1, <1>2, <1>3, <1>4 DEF AdminStep

-----------------------------------------------------------------------------
(* DataInv: the worker *)

\* Only what the worker has in hand changes.
LEMMA PhaseDataStep ==
    ASSUME StateInv, DataInv, UNCHANGED <<storage_migration, objects, changes, strayed, writes>>,
           ~ strayed /\ phase' # NoPhase => PhaseData(Row(phase.id))'
    PROVE  DataInv'
<1>1. Rows' = Rows /\ FeedOK'
    BY Zenon DEF DataInv, FeedOK, Rows
<1>2. ASSUME NEW m \in Rows, RowData(Row(m)) PROVE RowData(Row(m))'
    BY ZenonT(40), <1>2 DEF RowData, Behind, FeedCurrent, Newer, Row, From, To, Checkpoint
<1> QED
    BY Zenon, <1>1, <1>2 DEF DataInv

\* A snapshot is what the side to be copied holds.
LEMMA SnapshotData ==
    ASSUME StateInv, DataInv, NEW m \in Migrations, SnapshotTenant(m)
    PROVE  DataInv'
<1>1. /\ phase.id = m
      /\ phase' = [phase EXCEPT !.at = "apply", !.data = objects[From(Row(m))],
                                !.watermark = Len(changes[From(Row(m))])]
      /\ UNCHANGED <<storage_migration, objects, changes, strayed, writes>>
      /\ phase \in [id : Migrations \cup {Nothing},
                    at : {"idle", "read", "apply", "compare", "commit"},
                    data : Contents \cup {Nothing}, watermark : Nat]
    BY Zenon DEF SnapshotTenant, Busy, StateInv, TypeOK
<1>2. PICK from \in Profiles, to \in Profiles : from = From(Row(m)) /\ to = To(Row(m))
    BY Zenon, <1>1, Locked
<1>3. /\ phase'.id = m /\ phase'.at = "apply" /\ phase'.data = objects[from]
      /\ phase'.watermark = Len(changes[from])
    BY Zenon, <1>1, <1>2
<1>4. Len(changes[from]) \in Nat
    BY DEF StateInv, TypeOK
<1>5. \A k \in Keys : ~ Newer(from, Len(changes[from]), k)
    <2>1. (Len(changes[from]) + 1)..Len(changes[from]) = {}
        BY <1>4
    <2> QED
        BY Zenon, <2>1 DEF Newer
<1>6. Row(phase.id)' = Row(m) /\ From(Row(phase.id))' = from /\ To(Row(phase.id))' = to
    BY Zenon, <1>1, <1>2, <1>3 DEF Row, From, To
<1>7. Carried(from, to)'
    BY Zenon, <1>1, <1>3 DEF Carried
<1>8. FeedCurrent(from, phase.watermark)'
    BY Zenon, <1>1, <1>3, <1>5 DEF FeedCurrent, Newer
<1>9. PhaseData(Row(phase.id))'
    BY Zenon, <1>3, <1>6, <1>7, <1>8 DEF PhaseData, Carried, FeedCurrent, Newer
<1> QED
    BY Zenon, <1>1, <1>9, PhaseDataStep

\* The changes since the checkpoint are all that the copy is missing.
LEMMA ChangesSinceData ==
    ASSUME StateInv, DataInv, NEW m \in Migrations, ChangesSince(m)
    PROVE  DataInv'
<1>1. /\ phase.id = m /\ Row(m).state \in CatchingUp
      /\ phase' = [phase EXCEPT !.at = "apply",
            !.data = [k \in Keys |-> Latest(changes[From(Row(m))], Checkpoint(Row(m)), k)],
            !.watermark = Len(changes[From(Row(m))])]
      /\ UNCHANGED <<storage_migration, objects, changes, strayed, writes>>
      /\ phase \in [id : Migrations \cup {Nothing},
                    at : {"idle", "read", "apply", "compare", "commit"},
                    data : Contents \cup {Nothing}, watermark : Nat]
    BY Zenon DEF ChangesSince, Busy, StateInv, TypeOK
<1>2. /\ m \in Rows /\ RowOK(Row(m)) /\ Row(m).state \in Copied
      /\ Row(m).state \notin Backfilling
    BY Zenon, <1>1, Locked DEF CatchingUp, Copied, Backfilling
<1>3. PICK from \in Profiles, to \in Profiles : from = From(Row(m)) /\ to = To(Row(m))
    BY Zenon, <1>1, Locked
<1>4. PICK watermark \in 0..Len(changes[from]) : watermark = Checkpoint(Row(m))
    BY Zenon, <1>2, <1>3 DEF RowOK
<1>5. /\ phase'.id = m /\ phase'.at = "apply"
      /\ \A k \in Keys : phase'.data[k] = Latest(changes[from], watermark, k)
    BY Zenon, <1>1, <1>3, <1>4
<1>6. Row(phase.id)' = Row(m) /\ From(Row(phase.id))' = from /\ To(Row(phase.id))' = to
    BY ZenonT(40), <1>1, <1>3, <1>5 DEF Row, From, To
<1>7. ~ strayed => Carried(from, to)'
    <2>1. SUFFICES ASSUME ~ strayed, NEW k \in Keys
                   PROVE  \/ objects[from][k] = phase'.data[k]
                          \/ phase'.data[k] = 0 /\ objects[from][k] \in {0, objects[to][k]}
        BY Zenon, <1>1 DEF Carried
    <2>2. Behind(from, to, watermark) /\ FeedCurrent(from, watermark)
        BY Zenon, <1>1, <1>2, <1>3, <1>4, <2>1 DEF DataInv, RowData
    <2>3. CASE Newer(from, watermark, k)
        BY Zenon, <1>5, <2>2, <2>3 DEF FeedCurrent
    <2>4. CASE ~ Newer(from, watermark, k)
        <3>1. phase'.data[k] = 0
            BY Zenon, <1>5, <2>4, LatestIsNone DEF Newer
        <3> QED
            BY Zenon, <2>2, <2>4, <3>1 DEF Behind
    <2> QED
        BY Zenon, <2>3, <2>4
<1>8. ~ strayed => PhaseData(Row(phase.id))'
    BY Zenon, <1>2, <1>5, <1>6, <1>7 DEF PhaseData, Carried, Newer
<1> QED
    BY Zenon, <1>1, <1>8, PhaseDataStep

\* Locking a row and taking a fingerprint claim nothing.
LEMMA OtherReadData ==
    ASSUME StateInv, DataInv, NEW m \in Migrations, RunOnce(m) \/ Fingerprint(m)
    PROVE  DataInv'
<1>1. UNCHANGED <<storage_migration, objects, changes, strayed, writes>>
    BY Zenon DEF RunOnce, Fingerprint
<1>2. phase'.at \in {"read", "compare"}
    BY Zenon DEF RunOnce, Fingerprint, NoPhase, StateInv, TypeOK
<1>3. PhaseData(Row(phase.id))'
    BY Zenon, <1>2 DEF PhaseData
<1> QED
    BY Zenon, <1>1, <1>3, PhaseDataStep

\* Once the changes are applied, the copy is behind by what was written since they
\* were read; and so it is from the checkpoint that is still stored.
LEMMA ApplyData ==
    ASSUME StateInv, DataInv, NEW m \in Migrations, ApplyChanges(m)
    PROVE  DataInv'
<1>1. /\ phase.id = m /\ phase.at = "apply"
      /\ objects' = [objects EXCEPT ![To(Row(m))] =
            [k \in Keys |-> IF phase.data[k] # 0 THEN phase.data[k] ELSE objects[To(Row(m))][k]]]
      /\ phase' = [phase EXCEPT !.at = "commit", !.data = Nothing]
      /\ UNCHANGED <<storage_migration, changes, strayed, writes>>
    BY Zenon DEF ApplyChanges, Busy
<1>2. /\ objects \in [Profiles -> Contents] /\ OneOpen
      /\ phase \in [id : Migrations \cup {Nothing},
                    at : {"idle", "read", "apply", "compare", "commit"},
                    data : Contents \cup {Nothing}, watermark : Nat]
    BY Zenon DEF StateInv, TypeOK
<1>3. /\ m \in Rows /\ RowOK(Row(m)) /\ LockedOK(Row(m)) /\ Row(m).state \notin Closed
      /\ phase # NoPhase
    BY <1>1, Locked DEF NoPhase
<1>4. PICK from \in Profiles, to \in Profiles :
        from = From(Row(m)) /\ to = To(Row(m)) /\ from # to /\ Len(changes[from]) \in Nat
    BY Zenon, <1>1, Locked
<1>5. /\ phase'.id = m /\ phase'.at = "commit" /\ phase'.watermark = phase.watermark
    BY Zenon, <1>1, <1>2
<1>6. /\ objects'[from] = objects[from]
      /\ \A k \in Keys : objects'[to][k] = IF phase.data[k] # 0 THEN phase.data[k] ELSE objects[to][k]
    BY Zenon, <1>1, <1>2, <1>4
<1>7. Rows' = Rows /\ FeedOK' /\ \A n \in Rows : Row(n)' = Row(n)
    BY Zenon, <1>1 DEF Rows, Row, DataInv, FeedOK
<1>8. \A w : \A k \in Keys : Newer(from, w, k)' <=> Newer(from, w, k)
    BY Zenon, <1>1 DEF Newer
<1>9. ~ strayed => Carried(from, to)
    BY Zenon, <1>1, <1>3, <1>4 DEF DataInv, PhaseData
<1>10. ~ strayed => \A k \in Keys : \/ objects'[from][k] \in {0, objects'[to][k]}
                                    \/ Newer(from, phase.watermark, k)
    BY Zenon, <1>6, <1>9 DEF Carried
<1>11. ~ strayed => PhaseData(Row(phase.id))'
    <2>1. Row(phase.id)' = Row(m) /\ From(Row(phase.id))' = from /\ To(Row(phase.id))' = to
        BY <1>1, <1>4, <1>5 DEF Row, From, To
    <2>2. ~ strayed => Behind(from, to, phase.watermark)'
        BY Zenon, <1>5, <1>8, <1>10 DEF Behind
    <2>3. ~ strayed /\ Row(m).state \in Backfilling => FeedCurrent(from, phase.watermark)'
        <3>1. ~ strayed /\ Row(m).state \in Backfilling => FeedCurrent(from, phase.watermark)
            BY Zenon, <1>1, <1>3, <1>4 DEF DataInv, PhaseData
        <3> QED
            BY Zenon, <1>1, <1>5, <1>6, <1>8, <3>1 DEF FeedCurrent
    <2> QED
        BY ZenonT(40), <1>5, <2>1, <2>2, <2>3 DEF PhaseData, Behind, FeedCurrent, Newer
<1>12. ASSUME ~ strayed, NEW n \in Rows PROVE RowData(Row(n))'
    <2>1. CASE n # m
        <3>1. Row(n).state \in Closed
            BY Zenon, <1>2, <1>3, <2>1 DEF OneOpen
        <3>2. Row(n)' = Row(n) /\ Row(n).state \notin Copied /\ Row(n).state \notin CatchingUp
            BY Zenon, <1>7, <3>1 DEF Closed, Copied, CatchingUp
        <3> QED
            BY Zenon, <3>2 DEF RowData
    <2>2. CASE n = m /\ Row(m).state \in CatchingUp
        <3>1. Row(m).state \in Copied
            BY Zenon, <2>2 DEF CatchingUp, Copied
        <3>2. PICK watermark \in 0..Len(changes[from]) : watermark = Checkpoint(Row(m))
            BY Zenon, <1>3, <1>4, <3>1 DEF RowOK
        <3>3. watermark <= phase.watermark /\ phase.watermark \in 0..Len(changes[from])
            BY Zenon, <1>1, <1>3, <1>4, <2>2, <3>2 DEF LockedOK
        <3>4. Behind(from, to, watermark) /\ FeedCurrent(from, watermark)
            BY ZenonT(60), <1>3, <1>4, <1>12, <2>2, <3>1, <3>2 DEF DataInv, RowData
        <3>5. \A k \in Keys : Newer(from, phase.watermark, k) => Newer(from, watermark, k)
            <4>1. \A i \in (phase.watermark + 1)..Len(changes[from]) :
                    i \in (watermark + 1)..Len(changes[from])
                BY <1>4, <3>3
            <4> QED
                BY Zenon, <4>1 DEF Newer
        <3>6. Behind(from, to, watermark)'
            BY Zenon, <1>8, <1>10, <1>12, <3>5 DEF Behind
        <3>7. FeedCurrent(from, watermark)'
            BY Zenon, <1>1, <1>6, <1>8, <3>4 DEF FeedCurrent
        <3>8. /\ Row(n)' = Row(m) /\ From(Row(n))' = from /\ To(Row(n))' = to
              /\ Checkpoint(Row(n))' = watermark
            BY Zenon, <1>1, <1>4, <2>2, <3>2 DEF Row, From, To, Checkpoint
        <3> QED
            BY Zenon, <3>6, <3>7, <3>8 DEF RowData, Behind, FeedCurrent, Newer
    <2>3. CASE n = m /\ Row(m).state \notin CatchingUp
        <3>1. Row(m).state \in Backfilling
            BY Zenon, <1>1, <1>3, <2>3 DEF LockedOK
        <3>2. Row(n)' = Row(m) /\ Row(m).state \notin Copied /\ Row(m).state \notin CatchingUp
            BY Zenon, <1>7, <2>3, <3>1 DEF Backfilling, Copied, CatchingUp
        <3> QED
            BY Zenon, <3>2 DEF RowData
    <2> QED
        BY Zenon, <2>1, <2>2, <2>3
<1> QED
    BY Zenon, <1>1, <1>7, <1>11, <1>12 DEF DataInv

\* The checkpoint that is stored is the watermark of what was read.
LEMMA CommitData ==
    ASSUME StateInv, DataInv, NEW m \in Migrations, CommitCopy(m)
    PROVE  DataInv'
<1> DEFINE row == Row(m)
           state == Advance(row.state, CompleteOp(row.state))
<1>1. /\ phase.id = m /\ phase.at = "commit" /\ row.state \in Backfilling \cup CatchingUp
      /\ storage_migration' = [storage_migration EXCEPT ![m] =
            [row EXCEPT !.state = Advance(@, CompleteOp(row.state)),
                        !.forward = IF row.state \in RollbackPhases THEN @ ELSE phase.watermark,
                        !.backward = IF row.state \in RollbackPhases THEN phase.watermark ELSE @]]
      /\ phase' = NoPhase
      /\ UNCHANGED <<objects, changes, strayed, writes>>
    BY Zenon DEF CommitCopy, Busy, StoredWatermark
<1>2. /\ row \in Migration /\ phase.watermark \in Nat /\ phase # NoPhase
    BY <1>1, Locked DEF LockedOK, NoPhase
<1>3. /\ row.state = "BACKFILLING" => state = "CATCHING_UP"
      /\ row.state = "CATCHING_UP" => state = "VALIDATING"
      /\ row.state = "ROLLING_BACK" => state = "ROLLBACK_CATCHING_UP"
      /\ row.state = "ROLLBACK_CATCHING_UP" => state = "ROLLBACK_VALIDATING"
    BY Zenon, AdvanceStates DEF CompleteOp
<1> HIDE DEF state
<1>4. /\ state \in States
      /\ state \in RollbackPhases <=> row.state \in RollbackPhases
      /\ state \in CatchingUp => row.state \in Backfilling
    BY Zenon, <1>1, <1>3
       DEF Backfilling, CatchingUp, States, ForwardPhases, RollbackPhases
<1>5. PICK new : new = [row EXCEPT !.state = state,
                            !.forward = IF row.state \in RollbackPhases THEN @ ELSE phase.watermark,
                            !.backward = IF row.state \in RollbackPhases THEN phase.watermark ELSE @]
    BY Zenon
<1>6. storage_migration' = [storage_migration EXCEPT ![m] = new]
    BY Zenon, <1>1, <1>5 DEF state
<1>7. /\ new \in Migration /\ new.state = state
      /\ new.source = row.source /\ new.target = row.target
      /\ Checkpoint(new) = phase.watermark
    <2>1. phase.watermark \in Nat /\ row \in Migration
        BY Zenon, <1>2
    <2> HIDE DEF row
    <2> QED
        BY ZenonT(40), <1>4, <1>5, <2>1 DEF Migration, Checkpoint
<1>8. From(new) = From(row) /\ To(new) = To(row)
    BY Zenon, <1>4, <1>7 DEF From, To
<1>9. ~ strayed => /\ Behind(From(row), To(row), phase.watermark)
                   /\ row.state \in Backfilling => FeedCurrent(From(row), phase.watermark)
    BY Zenon, <1>1, <1>2 DEF DataInv, PhaseData
<1>10. ~ strayed => RowData(new)
    BY Zenon, <1>4, <1>7, <1>8, <1>9 DEF RowData
<1> QED
    BY Zenon, <1>1, <1>6, <1>7, <1>10, RowDataStep

\* A failure stores nothing.
LEMMA FailureData ==
    ASSUME StateInv, DataInv, NEW m \in Migrations, phase.id = m, RecordFailure(m),
           UNCHANGED <<objects, changes, strayed, writes>>
    PROVE  DataInv'
<1>1. m \in Rows /\ Row(m) \in Migration
    BY Zenon, Locked
<1>2. PICK state : state = IF Row(m).state \in RollbackPhases THEN Row(m).state ELSE "FAILED"
    BY Zenon
<1>3. storage_migration' = [storage_migration EXCEPT ![m].state = state] /\ phase' = NoPhase
    BY ZenonT(40), <1>1, <1>2 DEF RecordFailure, Row
<1>4. state \in States /\ (state \notin Copied \/ state = Row(m).state)
    BY Zenon, <1>1, <1>2 DEF States, Closed, Copied, Migration
<1> QED
    BY ZenonT(40), <1>1, <1>3, <1>4, StateDataStep

\* Neither does a phase that is interrupted, nor a validation.
LEMMA ValidateData ==
    ASSUME StateInv, DataInv, NEW m \in Migrations, Validate(m) \/ PhaseFails(m)
    PROVE  DataInv'
<1>1. phase.id = m /\ UNCHANGED <<objects, changes, strayed, writes>>
    BY ZenonT(40) DEF Validate, PhaseFails, Busy
<1>2. m \in Rows /\ LockedOK(Row(m))
    BY Zenon, <1>1, Locked
<1>3. CASE RecordFailure(m)
    BY Zenon, <1>1, <1>3, FailureData
<1>4. CASE phase' = NoPhase /\ UNCHANGED storage_migration
    BY Zenon, <1>1, <1>4, PhaseDataStep
<1>5. CASE Validate(m) /\ ~ RecordFailure(m)
    <2>1. PICK state \in {"READY_TO_SWITCH", "ROLLED_BACK"} :
            /\ storage_migration' = [storage_migration EXCEPT ![m].state = state]
            /\ state = "READY_TO_SWITCH" => Row(m).state = "VALIDATING"
            /\ phase' = NoPhase
        <3>1. Row(m).state \in {"VALIDATING", "ROLLBACK_VALIDATING"}
            BY Zenon, <1>2, <1>5 DEF Validate, Busy, LockedOK
        <3>2. CASE Row(m).state = "VALIDATING"
            BY <1>5, <3>2, AdvanceStates DEF Validate, Row
        <3>3. CASE Row(m).state = "ROLLBACK_VALIDATING"
            BY <1>5, <3>3, AdvanceStates DEF Validate, Row
        <3> QED
            BY Zenon, <3>1, <3>2, <3>3
    <2>2. state \in States /\ (state = "ROLLED_BACK" => state \notin Copied)
        BY Zenon DEF States, Closed, Copied
    <2> QED
        BY Zenon, <1>1, <1>2, <2>1, <2>2, StateDataStep
<1> QED
    BY Zenon, <1>3, <1>4, <1>5 DEF PhaseFails

-----------------------------------------------------------------------------
(* The results *)

\* One profile is active, no migration exists, and nothing is stored.
LEMMA InitInv ==
    Init => Inv
<1> SUFFICES ASSUME Init PROVE Inv
    BY Zenon
<1>1. Rows = {}
    BY Zenon DEF Init, Rows
<1>2. TypeOK
    <2>1. /\ storage_profile \in [Profiles -> {"NONE", "INACTIVE", "ACTIVE"}]
          /\ storage_migration \in [Migrations -> Migration \cup {Nothing}]
          /\ objects \in [Profiles -> Contents]
          /\ changes \in [Profiles -> Seq(Keys \X (1..MaxWrites))]
        BY StorageAssumption DEF Init, Contents
    <2>2. phase \in [id : Migrations \cup {Nothing},
                     at : {"idle", "read", "apply", "compare", "commit"},
                     data : Contents \cup {Nothing}, watermark : Nat]
        BY Zenon DEF Init, NoPhase
    <2>3. writes \in 0..MaxWrites /\ failures \in 0..MaxFailures
        BY StorageAssumption DEF Init
    <2>4. writer \in [router : Profiles \cup {Nothing}, late : BOOLEAN]
        BY Zenon DEF Init
    <2>5. strayed \in BOOLEAN
        BY Zenon DEF Init
    <2> QED
        BY Zenon, <2>1, <2>2, <2>3, <2>4, <2>5 DEF TypeOK
<1>3. OneActive
    BY Zenon, StorageAssumption DEF Init, OneActive
<1>4. StateInv
    BY Zenon, <1>1, <1>2, <1>3 DEF StateInv, OneOpen, PhaseOK, Init
<1>5. FeedOK
    BY DEF FeedOK, Init
<1>6. DataInv
    BY Zenon, <1>1, <1>5 DEF DataInv, Init
<1> QED
    BY Zenon, <1>4, <1>6 DEF Inv, RollbackAdmitsNoWriter, Init

\* Every step keeps the invariant.
LEMMA NextInv ==
    Inv /\ [Next]_vars => Inv'
<1> SUFFICES ASSUME Inv, [Next]_vars PROVE Inv'
    BY Zenon
<1>1. StateInv /\ DataInv /\ ~ writer.late
    BY Zenon DEF Inv, RollbackAdmitsNoWriter
<1>2. ASSUME NEW p \in Profiles, NEW activate \in BOOLEAN, CreateProfile(p, activate) PROVE Inv'
    <2>1. UNCHANGED <<storage_migration, objects, changes, phase, writer, strayed, writes>>
        BY Zenon, <1>2 DEF CreateProfile
    <2>2. DataInv'
        <3>1. ~ strayed /\ phase' # NoPhase => PhaseData(Row(phase.id))'
            BY ZenonT(40), <1>1, <2>1 DEF DataInv, PhaseData, Behind, FeedCurrent, Carried, Newer, Row, From, To
        <3> QED
            BY Zenon, <1>1, <2>1, <3>1, PhaseDataStep
    <2> QED
        BY Zenon, <1>1, <1>2, <2>1, <2>2, CreateProfileState DEF Inv, RollbackAdmitsNoWriter
<1>3. ASSUME NEW m \in Migrations, AdminStep(m) PROVE Inv'
    <2>1. UNCHANGED writer
        BY Zenon, <1>3 DEF AdminStep, CreateMigration, DecideMigrationApproval, StartMigration,
                    AdvanceMigration, DecideRollbackApproval, RollbackMigration
    <2>2. StateInv'
        BY Zenon, <1>1, <1>3, StorageAssumption, CreateMigrationState, DecideMigrationState,
           DecideRollbackState, AdvanceState DEF AdminStep
    <2> QED
        BY Zenon, <1>1, <1>3, <2>1, <2>2, AdminData DEF Inv, RollbackAdmitsNoWriter
<1>4. ASSUME NEW m \in Migrations, WorkerStep(m) \/ PhaseFails(m) PROVE Inv'
    <2>1. UNCHANGED writer
        BY Zenon, <1>4 DEF WorkerStep, RunOnce, SnapshotTenant, ChangesSince, ApplyChanges, CommitCopy,
                    Fingerprint, Validate, PhaseFails
    <2>2. StateInv'
        BY Zenon, <1>1, <1>4, ReadState, ApplyState, CommitState, ValidateState, PhaseFailsState
           DEF WorkerStep
    <2>3. DataInv'
        BY Zenon, <1>1, <1>4, SnapshotData, ChangesSinceData, OtherReadData, ApplyData, CommitData,
           ValidateData DEF WorkerStep
    <2> QED
        BY Zenon, <1>1, <2>1, <2>2, <2>3 DEF Inv, RollbackAdmitsNoWriter
<1>5. CASE UNCHANGED vars
    <2>1. TypeOK' /\ OneActive' /\ OneOpen' /\ PhaseOK'
        BY ZenonT(40), <1>1, <1>5 DEF StateInv, TypeOK, OneActive, OneOpen, PhaseOK, LockedOK, Rows, Row,
                          Checkpoint, From, vars
    <2>2. Rows' = Rows /\ \A m \in Rows : RowOK(Row(m))'
        BY Zenon, <1>1, <1>5 DEF StateInv, RowOK, Rows, Row, Expected, Checkpoint, From, vars
    <2>3. StateInv'
        BY Zenon, <2>1, <2>2 DEF StateInv
    <2>4. DataInv'
        <3>1. ~ strayed /\ phase' # NoPhase => PhaseData(Row(phase.id))'
            BY ZenonT(40), <1>1, <1>5 DEF DataInv, PhaseData, Behind, FeedCurrent, Carried, Newer, Row, From, To, vars
        <3> QED
            BY Zenon, <1>1, <1>5, <3>1, PhaseDataStep DEF vars
    <2> QED
        BY Zenon, <1>1, <1>5, <2>3, <2>4 DEF Inv, RollbackAdmitsNoWriter, vars
<1> QED
    BY Zenon, <1>2, <1>3, <1>4, <1>5, ResolveInv, PutInv DEF Next

\* The inductive invariant holds in every behaviour: administrators, the worker with its
\* interrupted phases, and business writes at any time.
THEOREM Invariance ==
    Spec => []Inv
BY InitInv, NextInv, PTL DEF Spec

\* Exactly one profile is active, the one the state of the open migration says
\* (storage_migrations.py:317-329, storage_migration_worker.py:130-141).
THEOREM ActiveProfileIsExpected ==
    Spec => []ActiveFollowsState
<1>1. Inv => ActiveFollowsState
    <2> SUFFICES ASSUME Inv PROVE ActiveFollowsState
        BY Zenon
    <2>1. StateInv
        BY Zenon DEF Inv
    <2>2. OneActive
        BY Zenon, <2>1 DEF StateInv
    <2>3. \A m \in Rows : Row(m).state \notin Closed => storage_profile[Expected(Row(m))] = "ACTIVE"
        BY Zenon, <2>1 DEF StateInv, RowOK
    <2> QED
        BY Zenon, <2>2, <2>3 DEF ActiveFollowsState, OneActive, Expected
<1> QED
    BY <1>1, Invariance, PTL

\* Whatever a copy has missed was written after the watermark that is stored, although
\* writes go on while it runs and phases are interrupted and repeated
\* (storage_migration_worker.py, _backfill and _catch_up).
THEOREM CopyMissesOnlyNewer ==
    Spec => []DifferencesAfterCheckpoint
<1>1. Inv => DifferencesAfterCheckpoint
    <2> SUFFICES ASSUME Inv, ~ strayed, NEW m \in Rows
                 PROVE  /\ Row(m).state \in {"CATCHING_UP", "VALIDATING", "READY_TO_SWITCH"} =>
                            \A k \in Keys : objects[Row(m).source][k] \in {0, objects[Row(m).target][k]}
                                               \/ Newer(Row(m).source, Row(m).forward, k)
                        /\ Row(m).state \in {"ROLLBACK_CATCHING_UP", "ROLLBACK_VALIDATING"} =>
                            \A k \in Keys : objects[Row(m).target][k] \in {0, objects[Row(m).source][k]}
                                               \/ Newer(Row(m).target, Row(m).backward, k)
        BY Zenon DEF DifferencesAfterCheckpoint, Newer
    <2>1. Row(m).state \in Copied => Behind(From(Row(m)), To(Row(m)), Checkpoint(Row(m)))
        BY Zenon DEF Inv, DataInv, RowData
    <2> QED
        BY Zenon, <2>1 DEF Behind, Copied, From, To, Checkpoint, RollbackPhases
<1> QED
    BY <1>1, Invariance, PTL

\* No Agent Worker is given a profile while a rollback copies and compares
\* (storage.py:294-305).
THEOREM RollbackFencesWriters ==
    Spec => []RollbackAdmitsNoWriter
<1>1. Inv => RollbackAdmitsNoWriter
    BY Zenon DEF Inv
<1> QED
    BY <1>1, Invariance, PTL

\* The authority moves by a switch or by a validated rollback of the open migration, and
\* otherwise not.
LEMMA WhoMoves ==
    ASSUME StateInv, [Next]_vars
    PROVE  \/ UNCHANGED storage_profile
           \/ \E p \in Profiles : /\ storage_profile' = [storage_profile EXCEPT ![p] = "INACTIVE"]
                                  /\ storage_profile[p] # "ACTIVE"
           \/ \E n \in Rows : Row(n).state \in {"READY_TO_SWITCH", "ROLLBACK_VALIDATING"}
<1>1. ASSUME NEW p \in Profiles, NEW activate \in BOOLEAN, CreateProfile(p, activate)
      PROVE  /\ storage_profile' = [storage_profile EXCEPT ![p] = "INACTIVE"]
             /\ storage_profile[p] # "ACTIVE"
    BY Zenon, <1>1, CreateProfileState
<1>2. ASSUME NEW m \in Migrations, NEW op \in {"SWITCH", "COMPLETE"}, AdvanceMigration(m, op)
      PROVE  UNCHANGED storage_profile \/ (m \in Rows /\ Row(m).state = "READY_TO_SWITCH")
    BY Zenon, <1>2, OperationState DEF AdvanceMigration
<1>3. ASSUME NEW m \in Migrations, Validate(m)
      PROVE  UNCHANGED storage_profile \/ (m \in Rows /\ Row(m).state = "ROLLBACK_VALIDATING")
    BY Zenon, <1>3, Locked DEF Validate, RecordFailure, Busy, LockedOK
<1>4. ASSUME NEW m \in Migrations,
             \/ PhaseFails(m) \/ RunOnce(m) \/ SnapshotTenant(m) \/ ChangesSince(m)
             \/ ApplyChanges(m) \/ CommitCopy(m) \/ Fingerprint(m)
      PROVE  UNCHANGED storage_profile
    BY Zenon, <1>4 DEF PhaseFails, RecordFailure, RunOnce, SnapshotTenant, ChangesSince, ApplyChanges,
                CommitCopy, Fingerprint
<1>5. ASSUME NEW m \in Migrations, AdminStep(m)
      PROVE  UNCHANGED storage_profile \/ (m \in Rows /\ Row(m).state = "READY_TO_SWITCH")
    BY Zenon, <1>2, <1>5 DEF AdminStep, CreateMigration, DecideMigrationApproval, StartMigration,
                      DecideRollbackApproval, RollbackMigration
<1>6. ASSUME \/ \E p \in Profiles : ResolveStorage(p)
             \/ \E k \in Keys : Put(k)
             \/ UNCHANGED vars
      PROVE  UNCHANGED storage_profile
    BY Zenon, <1>6 DEF ResolveStorage, Put, vars
<1> QED
    BY Zenon, <1>1, <1>3, <1>4, <1>5, <1>6 DEF Next, WorkerStep

\* The active profile never moves away from a migration that is not validated, forward or
\* backward (storage_migrations.py:317-329, storage_migration_worker.py:130-141).
THEOREM MovesOnEvidence ==
    Spec => AuthorityMovesOnEvidence
<1> DEFINE Kept == \A m \in Rows :
              /\ Row(m).state \in ForwardPhases \cup {"PREPARED"} =>
                    storage_profile'[Row(m).source] = "ACTIVE"
              /\ Row(m).state \in {"ROLLING_BACK", "ROLLBACK_CATCHING_UP"} =>
                    storage_profile'[Row(m).target] = "ACTIVE"
<1>1. Inv /\ [Next]_vars => Kept
    <2> SUFFICES ASSUME Inv, [Next]_vars, NEW m \in Rows,
                        Row(m).state \in ForwardPhases \cup {"PREPARED", "ROLLING_BACK",
                                                             "ROLLBACK_CATCHING_UP"}
                 PROVE  storage_profile'[Expected(Row(m))] = "ACTIVE"
        BY Zenon DEF Expected, ForwardPhases, RollbackPhases
    <2>1. StateInv /\ TypeOK /\ OneOpen /\ RowOK(Row(m)) /\ Row(m) \in Migration
        BY Zenon, RowType DEF Inv, StateInv
    <2>2. Row(m).state \notin Closed \cup {"READY_TO_SWITCH", "ROLLBACK_VALIDATING"}
        BY Zenon DEF Closed, ForwardPhases
    <2>3. storage_profile[Expected(Row(m))] = "ACTIVE" /\ Expected(Row(m)) \in Profiles
        BY Zenon, <2>1, <2>2 DEF RowOK, Expected, Migration
    <2>4. ~ \E n \in Rows : Row(n).state \in {"READY_TO_SWITCH", "ROLLBACK_VALIDATING"}
        BY Zenon, <2>1, <2>2 DEF OneOpen, Closed
    <2>5. storage_profile \in [Profiles -> {"NONE", "INACTIVE", "ACTIVE"}]
        BY Zenon, <2>1 DEF TypeOK
    <2> QED
        BY Zenon, <2>1, <2>3, <2>4, <2>5, WhoMoves
<1>2. Inv /\ [Next]_vars => [Kept]_vars
    BY Zenon, <1>1
<1> HIDE DEF Kept
<1>3. Spec => [][Kept]_vars
    BY <1>2, Invariance, PTL DEF Spec
<1> QED
    BY Zenon, <1>3 DEF AuthorityMovesOnEvidence, Kept

=============================================================================
