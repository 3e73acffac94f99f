---------------------------- MODULE SessionStore ----------------------------
(***************************************************************************)
(* The PostgreSQL authority of a Session (trpc_service/sessions.py and     *)
(* migration 0010): the Session version, the append-only Session Events,   *)
(* the Session lease with its fencing token, and the Agent Execution rows. *)
(*                                                                         *)
(* Each operator below is one database transaction, or the part of one     *)
(* that touches these tables.  Row locks make a transaction atomic with    *)
(* respect to the others on the same Session, so one transaction is one    *)
(* step.  The module has no next-state relation of its own: it is extended *)
(* by the specifications of the services that run these transactions.      *)
(***************************************************************************)
EXTENDS Integers, FiniteSets

CONSTANTS
    Sessions,       \* (tenant_id, session_id) pairs
    Messages,       \* message ids, the idempotency keys of Agent Executions
    SessionOf,      \* the Session a message's submission names
    Workers,        \* owner ids of lease holders
    NoWorker,       \* no owner: the Session has no lease row yet
    LeaseTtl        \* SessionLeaseManager's lease_ttl_seconds, in clock ticks

ASSUME SessionAssumption == SessionOf \in [Messages -> Sessions]
ASSUME WorkerAssumption == NoWorker \notin Workers
ASSUME TtlAssumption == LeaseTtl \in Nat \ {0}

VARIABLES
    agent_execution,    \* status of the execution row of each message
    agent_session,      \* version of each Session, or NoVersion
    session_event,      \* the set of Session Event rows
    session_lease       \* lease row of each Session

storeVars == <<agent_execution, agent_session, session_event, session_lease>>

NoRow == "NO_ROW"
NoVersion == -1      \* the Session row does not exist yet
Statuses == {NoRow, "PENDING", "SUCCEEDED", "FAILED"}
Kinds == {"USER_MESSAGE", "AGENT_REPLY"}

\* expires_at is kept as the time left until it: 0 stands for expires_at <= now().
Lease == [owner : Workers \cup {NoWorker}, token : Nat, left : Nat]
EventRow == [session : Sessions, sequence : Nat \ {0}, message : Messages, kind : Kinds]

StoreTypeOK ==
    /\ agent_execution \in [Messages -> Statuses]
    /\ agent_session \in [Sessions -> Nat \cup {NoVersion}]
    /\ session_event \subseteq EventRow
    /\ session_lease \in [Sessions -> Lease]

StoreInit ==
    /\ agent_execution = [m \in Messages |-> NoRow]
    /\ agent_session = [s \in Sessions |-> NoVersion]
    /\ session_event = {}
    /\ session_lease = [s \in Sessions |-> [owner |-> NoWorker, token |-> 0, left |-> 0]]

-----------------------------------------------------------------------------

\* INSERT ... ON CONFLICT DO NOTHING of the Session row.
CreateSessionIfMissing(s) ==
    agent_session' =
        [agent_session EXCEPT ![s] = IF @ = NoVersion THEN 0 ELSE @]

\* The upsert of acquire applies: no row, an expired one, or the caller's own.
LeaseFree(s, w) ==
    session_lease[s].left = 0 \/ session_lease[s].owner = w

\* What acquire hands to the worker: LeaseGrant(fencing_token, session_version).
LeaseGrant(s) ==
    [token |-> session_lease[s].token + 1, version |-> agent_session[s]]

AcquireLease(s, w) ==
    /\ LeaseFree(s, w)
    /\ agent_session[s] # NoVersion
    /\ session_lease' = [session_lease EXCEPT
            ![s] = [owner |-> w, token |-> LeaseGrant(s).token, left |-> LeaseTtl]]

\* renew and commit both demand the current owner, its token and an unexpired row.
LeaseValid(s, w, token) ==
    /\ session_lease[s].owner = w
    /\ session_lease[s].token = token
    /\ session_lease[s].left > 0

\* The statement binds $4, the fencing token, both in the WHERE clause and as
\* the interval added to now(); the configured TTL is $5 and is not used.
RenewedLeft(token) == token

RenewLease(s, w, token) ==
    /\ LeaseValid(s, w, token)
    /\ session_lease' = [session_lease EXCEPT ![s].left = RenewedLeft(token)]

\* UPDATE ... SET expires_at=now() WHERE owner_id=w, whatever the token.
ReleaseLease(s, w) ==
    session_lease' = [session_lease EXCEPT ![s].left =
        IF session_lease[s].owner = w THEN 0 ELSE @]

\* Session Event rows of one commit: the user's message, then the reply.
TurnRows(s, m, version) ==
    { [session |-> s, sequence |-> version + 1, message |-> m, kind |-> "USER_MESSAGE"],
      [session |-> s, sequence |-> version + 2, message |-> m, kind |-> "AGENT_REPLY"] }

\* Mutant: the commit does not check the lease.
CommitAllowed_Unfenced(s, w, token, version) ==
    agent_session[s] # NoVersion /\ agent_session[s] = version

\* The checks of commit_session_events that come after the idempotency key.
CommitAllowed(s, w, token, version) ==
    /\ LeaseValid(s, w, token)
    /\ agent_session[s] # NoVersion
    /\ agent_session[s] = version

\* Mutant: the idempotency key is not checked.
CommitSessionEvents_NotIdempotent(s, w, m, token, version) ==
    /\ CommitAllowed(s, w, token, version)
    /\ session_event' = session_event \cup TurnRows(s, m, version)
    /\ agent_session' = [agent_session EXCEPT ![s] = version + 2]

\* Append the rows and advance the version; the caller's transaction goes on to
\* set the execution SUCCEEDED.
CommitSessionEvents(s, w, m, token, version) ==
    /\ agent_execution[m] \notin {NoRow, "SUCCEEDED"}
    /\ CommitAllowed(s, w, token, version)
    /\ session_event' = session_event \cup TurnRows(s, m, version)
    /\ agent_session' = [agent_session EXCEPT ![s] = version + 2]

\* UPDATE ... SET status='FAILED' ... WHERE status='PENDING'.
MarkFailed(m) ==
    agent_execution' =
        [agent_execution EXCEPT ![m] = IF @ = "PENDING" THEN "FAILED" ELSE @]

\* One second passes: every unexpired lease is a tick closer to expires_at.
AgeLeases ==
    session_lease' = [s \in Sessions |->
        [session_lease[s] EXCEPT !.left = IF @ > 0 THEN @ - 1 ELSE 0]]

=============================================================================
