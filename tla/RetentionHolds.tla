--------------------------- MODULE RetentionHolds ---------------------------
(***************************************************************************)
(* Legal holds and the retention policy of one tenant, as administrators   *)
(* propose, approve and release them                                       *)
(* (trpc_service/admin_api/content_lifecycle.py).                          *)
(***************************************************************************)
EXTENDS Integers, FiniteSets

CONSTANTS
    Admins, Initiators,  \* tenant administrators; those who propose
    Holds, Changes,      \* legal holds and policy changes, used once each
    Days, DefaultDays,   \* retention periods, and the one without a policy row
    Nobody

ASSUME RetentionAssumption ==
    /\ Initiators \subseteq Admins /\ Nobody \notin Admins
    /\ Days \subseteq Nat /\ DefaultDays \in Days

VARIABLES
    legal_hold,        \* hold -> its row; released_by is only in the audit trail
    retention_change,  \* change -> its row
    retention_days     \* the approved policy

holdVars == <<legal_hold, retention_change, retention_days>>

Hold == [status : {"NONE", "PENDING_APPROVAL", "ACTIVE", "RELEASED"},
         initiator : Admins \cup {Nobody}, approver : Admins \cup {Nobody},
         released_by : Admins \cup {Nobody}]
Change == [status : {"NONE", "PENDING_APPROVAL", "APPROVED"}, days : Days,
           initiator : Admins \cup {Nobody}, approver : Admins \cup {Nobody}]

HoldTypeOK ==
    /\ legal_hold \in [Holds -> Hold]
    /\ retention_change \in [Changes -> Change]
    /\ retention_days \in Days

HoldInit ==
    /\ legal_hold = [h \in Holds |-> [status |-> "NONE", initiator |-> Nobody,
                                      approver |-> Nobody, released_by |-> Nobody]]
    /\ retention_change = [c \in Changes |-> [status |-> "NONE", days |-> DefaultDays,
                                              initiator |-> Nobody, approver |-> Nobody]]
    /\ retention_days = DefaultDays

\* SELECT EXISTS(... status='ACTIVE')
HoldActive == \E h \in Holds : legal_hold[h].status = "ACTIVE"

CreateLegalHold(h, admin) ==
    /\ legal_hold[h].status = "NONE"
    /\ legal_hold' = [legal_hold EXCEPT ![h].status = "PENDING_APPROVAL",
                                        ![h].initiator = admin]
    /\ UNCHANGED <<retention_change, retention_days>>

ApproveLegalHold(h, admin) ==
    /\ legal_hold[h].status = "PENDING_APPROVAL"
    /\ legal_hold[h].initiator # admin
    /\ legal_hold' = [legal_hold EXCEPT ![h].status = "ACTIVE", ![h].approver = admin]
    /\ UNCHANGED <<retention_change, retention_days>>

MayRelease(h, admin) == admin \notin {legal_hold[h].initiator, legal_hold[h].approver}

ReleaseLegalHold(h, admin) ==
    /\ legal_hold[h].status = "ACTIVE"
    /\ MayRelease(h, admin)
    /\ legal_hold' = [legal_hold EXCEPT ![h].status = "RELEASED", ![h].released_by = admin]
    /\ UNCHANGED <<retention_change, retention_days>>

\* A unique index admits one pending change.
ProposeRetention(c, admin, days) ==
    /\ retention_change[c].status = "NONE"
    /\ \A d \in Changes : retention_change[d].status # "PENDING_APPROVAL"
    /\ retention_change' = [retention_change EXCEPT ![c] =
                              [status |-> "PENDING_APPROVAL", days |-> days,
                               initiator |-> admin, approver |-> Nobody]]
    /\ UNCHANGED <<legal_hold, retention_days>>

ApproveRetention(c, admin) ==
    /\ retention_change[c].status = "PENDING_APPROVAL"
    /\ retention_change[c].initiator # admin
    /\ retention_change' = [retention_change EXCEPT ![c].status = "APPROVED",
                                                    ![c].approver = admin]
    /\ retention_days' = retention_change[c].days
    /\ UNCHANGED legal_hold

HoldNext ==
    \/ \E h \in Holds, u \in Initiators : CreateLegalHold(h, u)
    \/ \E h \in Holds, u \in Admins : ApproveLegalHold(h, u)
    \/ \E h \in Holds, u \in Admins : ReleaseLegalHold(h, u)
    \/ \E c \in Changes, u \in Initiators, d \in Days : ProposeRetention(c, u, d)
    \/ \E c \in Changes, u \in Admins : ApproveRetention(c, u)

=============================================================================
