--------------------------- MODULE ToolGovernance ---------------------------
(***************************************************************************)
(* Governed tool calls (trpc_service/tool/): the registry of immutable     *)
(* definitions, the invocation contract of the executor, the approvals it  *)
(* gates writes with, the checkpoint an execution waits at for a decision, *)
(* and the reconciliation of calls whose outcome is unknown.               *)
(*                                                                         *)
(* All calls are of one tool version, with one params hash, by one         *)
(* requester: they are the calls that compete for the same approvals.  The *)
(* calls, the people deciding and the workers resuming a checkpoint are    *)
(* actors, each of which acts once; a step is what it does up to an await. *)
(* An actor's copy is the approval row it read last.                       *)
(***************************************************************************)
EXTENDS SessionStore, Sequences

CONSTANTS
    Calls,          \* invocations of the tool
    Resumers,       \* workers that try to resume the parked execution
    Admins,         \* deciding subjects with role TENANT_ADMIN
    Developers,     \* ... with role AGENT_DEVELOPER
    Auditors,       \* ... with neither
    Requester,      \* requested_by of every call
    Operators,      \* people resolving calls of unknown outcome
    DirectKeyed,    \* whether direct invocations carry an idempotency key
    Releases,       \* release ids of the executions that make the calls
    Effects,        \* side effects of the definitions that may be registered
    ApprovalTtl,    \* default_ttl_seconds, in clock ticks
    MaxAttempts,    \* max_read_attempts
    MaxActive,      \* bound: actors and operators that take part
    MaxApprovals,   \* bound: approval requests created
    MaxFailures      \* bound: transactions of consume that fail

VARIABLES
    tool_definition,    \* the registered definition, or NoDefinition
    tool_approval,      \* approval rows, in order of requested_at
    tool_call,          \* status of the record of each call
    tool_checkpoint,    \* the checkpoint row of the parked execution
    tool_reconciliation,\* decision stored for each call
    actor,              \* what each actor is doing
    operator,           \* what each operator is doing
    gated,              \* the executor has an approval service
    sends,              \* backend.execute calls made for each call
    spent,              \* grants: who consumed which approval
    failures

\* What approval steps, and what checkpoint steps, leave alone.
callVars == <<tool_definition, tool_call, tool_reconciliation, operator, gated, sends>>
toolVars == <<callVars, tool_approval, tool_checkpoint, actor, spent, failures>>
vars == <<storeVars, toolVars>>

Deciders == Admins \cup Developers \cup Auditors
Actors == Calls \cup Resumers \cup Deciders
Approvals == 1..MaxApprovals

SideEffects == {"READ_ONLY", "IDEMPOTENT_WRITE", "NON_IDEMPOTENT_WRITE", "HIGH_RISK"}
AutoExecutable == {"READ_ONLY", "IDEMPOTENT_WRITE"}
\* supports_idempotency matters to idempotent writes only.
Definitions == [effect : Effects, supports_idempotency : {FALSE}]
               \cup [effect : Effects \cap {"IDEMPOTENT_WRITE"}, supports_idempotency : {TRUE}]
NoDefinition == [effect |-> "NONE", supports_idempotency |-> FALSE]
ApprovalStatuses == {"PENDING", "APPROVED", "DENIED", "EXPIRED", "CONSUMED"}
CallStatuses == {"SUCCEEDED", "FAILED", "OUTCOME_UNKNOWN", "BLOCKED"}
Resolutions == {"CONFIRMED_EXECUTED", "CONFIRMED_NOT_EXECUTED"}
NoSubject == "NOBODY"
NoRelease == "NO_RELEASE"
NoCall == "NO_CALL"

ASSUME ToolAssumption ==
    /\ Effects \subseteq SideEffects /\ DirectKeyed \subseteq BOOLEAN
    /\ Workers = Calls \cup Resumers
    /\ \E s \in Sessions : Sessions = {s}
    /\ Calls \cap Resumers = {} /\ Deciders \cap Workers = {}
    /\ ApprovalTtl \in Nat \ {0} /\ MaxAttempts \in Nat \ {0}
    /\ MaxActive \in Nat /\ MaxApprovals \in Nat /\ MaxFailures \in Nat
    /\ NoSubject \notin Deciders /\ NoRelease \notin Releases /\ NoCall \notin Calls

\* expires_at as the time left; the intent (tool, version, params hash,
\* requester) is the same in all rows.
ApprovalRow == [status : ApprovalStatuses, release : Releases \cup {NoRelease},
                decided_by : Deciders \cup {NoSubject}, left : Nat]
CheckpointRow == [status : {NoRow, "WAITING_APPROVAL", "RESUMED"},
                  approval : {0} \cup Approvals, release : Releases \cup {NoRelease}]

\* The await an actor is at.  find_*: about to look for an open row; expire_*:
\* about to overwrite the expired row it found; get, expire: in ApprovalService.get.
Places == {"idle", "find_approved", "expire_approved", "find_pending", "expire_pending", "create",
           "get", "expire", "consume", "decide", "replay", "execute", "record",
           "release", "parked", "acquire", "save", "give_back", "done", "error", "absent"}

\* want: the decision of a decider, or the status a call is about to record;
\* keyed: the call carries an idempotency key; turn: it is made by the turn of a
\* Session (release and turn are kept for gated calls only); attempts: made.
Actor == [at : Places, approval : {0} \cup Approvals, copy : ApprovalRow,
          release : Releases \cup {NoRelease},
          want : {"APPROVED", "DENIED", NoRow} \cup CallStatuses,
          keyed : BOOLEAN, turn : BOOLEAN, attempts : 0..MaxAttempts]

TypeOK ==
    /\ StoreTypeOK
    /\ tool_definition \in Definitions \cup {NoDefinition}
    /\ tool_approval \in Seq(ApprovalRow) /\ Len(tool_approval) <= MaxApprovals
    /\ tool_call \in [Calls -> CallStatuses \cup {NoRow}]
    /\ tool_checkpoint \in CheckpointRow
    /\ tool_reconciliation \in [Calls -> Resolutions \cup {NoRow}]
    /\ actor \in [Actors -> Actor]
    /\ operator \in [Operators -> [at : {"idle", "insert", "answered", "absent"},
                                   call : Calls \cup {NoCall}, want : Resolutions \cup {NoRow}]]
    /\ gated \in BOOLEAN
    /\ sends \in [Calls -> 0..MaxAttempts]
    /\ spent \subseteq [approval : Approvals, by : Calls \cup Resumers, decided_by : Deciders]
    /\ failures \in 0..MaxFailures

BlankRow == [status |-> "PENDING", release |-> NoRelease, decided_by |-> NoSubject, left |-> 0]
IdleActor == [at |-> "idle", approval |-> 0, copy |-> BlankRow, release |-> NoRelease,
              want |-> NoRow, keyed |-> FALSE, turn |-> FALSE, attempts |-> 0]

\* Of the people who could act, MaxActive do.  Without another administrator the
\* requester could decide what that administrator could, or less.
Init ==
    /\ agent_execution = [m \in Messages |-> "PENDING"]
    /\ agent_session = [s \in Sessions |-> 0]
    /\ session_event = {}
    /\ session_lease = [s \in Sessions |-> [owner |-> NoWorker, token |-> 0, left |-> 0]]
    /\ tool_definition = NoDefinition
    /\ tool_approval = << >>
    /\ tool_call = [c \in Calls |-> NoRow]
    /\ tool_checkpoint = [status |-> NoRow, approval |-> 0, release |-> NoRelease]
    /\ tool_reconciliation = [c \in Calls |-> NoRow]
    /\ \E active \in SUBSET (Actors \cup Operators) :
          /\ Cardinality(active) = MaxActive
          /\ Requester \in active => Admins \subseteq active
          /\ actor = [a \in Actors |->
                [IdleActor EXCEPT !.at = IF a \in active THEN "idle" ELSE "absent"]]
          /\ operator = [o \in Operators |->
                [at |-> IF o \in active THEN "idle" ELSE "absent",
                 call |-> NoCall, want |-> NoRow]]
    /\ gated \in BOOLEAN
    /\ sends = [c \in Calls |-> 0]
    /\ spent = {}
    /\ failures = 0

\* a goes on to place and forgets the row it read; a decider that is through
\* forgets everything.
Go(a, place) ==
    actor' = [actor EXCEPT ![a] =
        IF a \in Deciders /\ place \in {"done", "error"}
        THEN [IdleActor EXCEPT !.at = place]
        ELSE [@ EXCEPT !.at = place, !.copy = BlankRow]]
At(a, place) == actor[a].at = place

-----------------------------------------------------------------------------
(* The registry *)

\* INSERT ... ON CONFLICT DO NOTHING: a registered version never changes, and to
\* register it again is no step.
InsertDefinition(d) ==
    /\ tool_definition = NoDefinition
    /\ tool_definition' = d

\* register: a different definition of a registered version is a conflict.
RegisterDefinition(d) ==
    /\ InsertDefinition(d)
    /\ UNCHANGED <<storeVars, tool_approval, tool_call, tool_checkpoint, tool_reconciliation,
                   actor, operator, gated, sends, spent, failures>>

\* PUT .../tools, and PUT .../mcp-servers, which inserts without comparing.
RegisterTool(d) == RegisterDefinition(d)
RegisterMcpServer(d) == RegisterDefinition(d)

\* What the pinned version of the call resolves to.
SideEffect == tool_definition.effect
Gated == SideEffect \notin AutoExecutable

-----------------------------------------------------------------------------
(* The approval store and service *)

\* Mutant: the update lacks its condition on the status.
Moves_Always(id, from) == TRUE

\* WHERE ... status=ANY(from): the compare of the compare-and-swap.
Moves(id, from) == tool_approval[id].status \in from

\* The swap; decided_by is kept where none is given.
Transition(id, from, to, subject) ==
    tool_approval' =
        IF Moves(id, from)
        THEN [tool_approval EXCEPT ![id].status = to,
                  ![id].decided_by = IF subject = NoSubject THEN @ ELSE subject]
        ELSE tool_approval

\* INSERT ... ON CONFLICT DO UPDATE SET status, decided_by: whatever the row is now.
UpsertApproval(id, row) ==
    tool_approval' = [tool_approval EXCEPT ![id].status = row.status,
                                           ![id].decided_by = row.decided_by]

\* Ids of the newest row of the intent with that status, if there is one.
FindOpen(status) ==
    LET open == {id \in DOMAIN tool_approval : tool_approval[id].status = status}
    IN  {id \in open : \A other \in open : other <= id}

Open == {"PENDING", "APPROVED"}

\* Where consume goes on to after get, given the request it returned.
AfterConsumeGet(a, row) ==
    IF row.status = "APPROVED" /\ row.release = actor[a].release THEN "consume"
    ELSE IF a \in Calls THEN "error" ELSE "give_back"

\* The separation of duties: who may decide a request.
MayDecide(d) ==
    IF SideEffect = "HIGH_RISK"
    THEN d # Requester /\ d \in Admins
    ELSE d \in Admins \cup Developers

\* Where decide goes on to after get.
AfterDecideGet(d, row) ==
    IF row.status = "PENDING" /\ MayDecide(d) THEN "decide" ELSE "error"

AfterGet(a, row) ==
    IF a \in Deciders THEN AfterDecideGet(a, row) ELSE AfterConsumeGet(a, row)

\* get reads the row; an open one that has expired is to be marked first.
Get(a) ==
    /\ At(a, "get")
    /\ LET row == tool_approval[actor[a].approval]
       IN  IF row.status \in Open /\ row.left = 0
           THEN actor' = [actor EXCEPT ![a].at = "expire", ![a].copy = row]
           ELSE Go(a, AfterGet(a, row))
    /\ UNCHANGED <<storeVars, callVars, tool_approval, tool_checkpoint, spent, failures>>

\* ... and where another step moved it meanwhile, get returns the stale copy.
ExpireByGet(a) ==
    /\ At(a, "expire")
    /\ LET id == actor[a].approval
           row == IF Moves(id, Open) THEN [actor[a].copy EXCEPT !.status = "EXPIRED"]
                                     ELSE actor[a].copy
       IN  /\ Transition(id, Open, "EXPIRED", NoSubject)
           /\ Go(a, AfterGet(a, row))
    /\ UNCHANGED <<storeVars, callVars, tool_checkpoint, spent, failures>>

\* A decision is posted for a request; posting one takes write access.
DecideApproval(d, id, want) ==
    /\ At(d, "idle")
    /\ id \in DOMAIN tool_approval
    /\ d \notin Auditors
    /\ actor' = [actor EXCEPT ![d].at = "get", ![d].approval = id, ![d].want = want]
    /\ UNCHANGED <<storeVars, callVars, tool_approval, tool_checkpoint, spent, failures>>

Decide(d) ==
    /\ At(d, "decide")
    /\ Transition(actor[d].approval, {"PENDING"}, actor[d].want, d)
    /\ Go(d, IF Moves(actor[d].approval, {"PENDING"}) THEN "done" ELSE "error")
    /\ UNCHANGED <<storeVars, callVars, tool_checkpoint, spent, failures>>

\* consume: a call goes on to run, a resumer to mark the checkpoint.
Consume(a) ==
    /\ At(a, "consume")
    /\ LET id == actor[a].approval
       IN  /\ Transition(id, {"APPROVED"}, "CONSUMED", NoSubject)
           /\ IF Moves(id, {"APPROVED"})
              THEN /\ spent' = spent \cup {[approval |-> id, by |-> a,
                                            decided_by |-> tool_approval[id].decided_by]}
                   /\ Go(a, IF a \in Calls THEN "replay" ELSE "save")
              ELSE /\ UNCHANGED spent
                   /\ Go(a, IF a \in Calls THEN "error" ELSE "give_back")
    /\ UNCHANGED <<storeVars, callVars, tool_checkpoint, failures>>

-----------------------------------------------------------------------------
(* The invocation *)

\* What every step of a call that is not about approvals leaves alone.
invokeKeeps == <<tool_definition, tool_checkpoint, tool_reconciliation, operator, gated, spent>>

\* A call ends with a BLOCKED record: the intent names no definition, asks for
\* scopes or parameters the definition refuses, or must wait for an approval.
RecordBlocked(c) ==
    /\ tool_call' = [tool_call EXCEPT ![c] = "BLOCKED"]
    /\ UNCHANGED <<session_event, agent_session, agent_execution>>

\* The gate: READ_ONLY and IDEMPOTENT_WRITE run at once; without an approval
\* service a direct call of a plain write runs too and all others are blocked.
GatePlace(mode) ==
    IF ~ Gated THEN "replay"
    ELSE IF gated THEN "find_approved"
    ELSE IF mode = "direct" /\ SideEffect # "HIGH_RISK" THEN "replay"
    ELSE "blocked"

\* invoke up to its first await on the approvals: resolve, scopes, parameters.
Invoke(c, mode, release, keyed, valid) ==
    /\ At(c, "idle")
    /\ LET place == IF tool_definition # NoDefinition /\ valid THEN GatePlace(mode) ELSE "blocked"
       IN  IF place = "blocked"
           THEN RecordBlocked(c) /\ Go(c, "done")
           ELSE /\ actor' = [actor EXCEPT ![c] = IF place = "replay"
                    THEN [@ EXCEPT !.at = place, !.keyed = keyed]
                    ELSE [@ EXCEPT !.at = place, !.keyed = keyed, !.release = release,
                                   !.turn = mode = "conversation"]]
                /\ UNCHANGED <<tool_call, session_event, agent_session, agent_execution>>
    /\ UNCHANGED <<invokeKeeps, tool_approval, sends, failures>>

\* A tool call of a conversation: the worker running the turn holds the lease.
GovernedInvoke(c) ==
    \E s \in Sessions, release \in Releases, valid \in BOOLEAN :
        /\ AcquireLease(s, c)
        /\ Invoke(c, "conversation", release, FALSE, valid)

\* A direct invocation by an operator, outside of any Session.
DirectInvoke(c) ==
    \E release \in Releases, keyed \in DirectKeyed, valid \in BOOLEAN :
        /\ Invoke(c, "direct", release, keyed, valid)
        /\ UNCHANGED session_lease

\* find_approved: an unexpired grant is consumed, an expired one overwritten.
FindApproved(c) ==
    /\ At(c, "find_approved")
    /\ \/ /\ FindOpen("APPROVED") = {}
          /\ Go(c, "find_pending")
       \/ \E id \in FindOpen("APPROVED") :
            actor' = [actor EXCEPT ![c].approval = id,
                ![c].copy = IF tool_approval[id].left = 0 THEN tool_approval[id] ELSE @,
                ![c].at = IF tool_approval[id].left = 0 THEN "expire_approved" ELSE "get"]
    /\ UNCHANGED <<storeVars, callVars, tool_approval, tool_checkpoint, spent, failures>>

\* find_pending: the intent waits on an unexpired request.
FindPending(c) ==
    /\ At(c, "find_pending")
    /\ \/ /\ FindOpen("PENDING") = {}
          /\ Go(c, "create")
       \/ \E id \in FindOpen("PENDING") :
            actor' = [actor EXCEPT ![c].approval = id, ![c].want = "BLOCKED",
                ![c].copy = IF tool_approval[id].left = 0 THEN tool_approval[id] ELSE @,
                ![c].at = IF tool_approval[id].left = 0 THEN "expire_pending" ELSE "record"]
    /\ UNCHANGED <<storeVars, callVars, tool_approval, tool_checkpoint, spent, failures>>

\* The expired row is written back from the copy, with status EXPIRED.
ExpireFound(c) ==
    /\ actor[c].at \in {"expire_approved", "expire_pending"}
    /\ UpsertApproval(actor[c].approval, [actor[c].copy EXCEPT !.status = "EXPIRED"])
    /\ Go(c, IF At(c, "expire_approved") THEN "find_pending" ELSE "create")
    /\ UNCHANGED <<storeVars, callVars, tool_checkpoint, spent, failures>>

CreateApproval(c) ==
    /\ At(c, "create")
    /\ Len(tool_approval) < MaxApprovals
    /\ LET id == Len(tool_approval) + 1
       IN  /\ tool_approval' = Append(tool_approval,
                [status |-> "PENDING", release |-> actor[c].release, decided_by |-> NoSubject,
                 left |-> ApprovalTtl])
           /\ actor' = [actor EXCEPT ![c].approval = id, ![c].want = "BLOCKED", ![c].at = "record"]
    /\ UNCHANGED <<storeVars, callVars, tool_checkpoint, spent, failures>>

\* find_replay: a keyed call returns the record of a call that succeeded.
FindReplay(c) ==
    /\ At(c, "replay")
    /\ Go(c, IF actor[c].keyed /\ \E d \in Calls : tool_call[d] = "SUCCEEDED" /\ actor[d].keyed
             THEN "done" ELSE "execute")
    /\ UNCHANGED <<storeVars, callVars, tool_approval, tool_checkpoint, spent, failures>>

\* Mutant: every write is retried.
CanRetry_Always(c) == TRUE

\* Only reads, and writes the downstream deduplicates by key, are retried.
CanRetry(c) ==
    \/ SideEffect = "READ_ONLY"
    \/ SideEffect = "IDEMPOTENT_WRITE" /\ tool_definition.supports_idempotency /\ actor[c].keyed

\* What the last attempt's outcome is recorded as.
WriteOutcome(outcome, retryable) ==
    CASE outcome = "ok" -> "SUCCEEDED"
      [] outcome = "timeout" \/ outcome = "connection" ->
            IF SideEffect = "READ_ONLY" THEN "FAILED" ELSE "OUTCOME_UNKNOWN"
      [] outcome = "transient" -> IF retryable THEN "FAILED" ELSE "OUTCOME_UNKNOWN"
      [] outcome = "raised" \/ outcome = "refused" -> "FAILED"

\* One attempt of _execute_with_contract.
Attempt(c, outcome) ==
    /\ At(c, "execute")
    /\ sends' = [sends EXCEPT ![c] = @ + 1]
    /\ LET attempts == actor[c].attempts + 1
           again == /\ outcome \notin {"ok", "refused"}
                    /\ CanRetry(c) /\ attempts < MaxAttempts
       IN  actor' = [actor EXCEPT ![c].attempts = attempts,
                ![c].want = IF again THEN @ ELSE WriteOutcome(outcome, CanRetry(c)),
                ![c].at = IF again THEN "execute" ELSE "record"]
    /\ UNCHANGED <<storeVars, invokeKeeps, tool_approval, tool_call, failures>>

\* The record; a second SUCCEEDED record of one key violates the unique index,
\* and the call ends in an exception without a record.
Record(c) ==
    /\ At(c, "record")
    /\ LET taken == /\ actor[c].want = "SUCCEEDED" /\ actor[c].keyed
                    /\ \E d \in Calls : tool_call[d] = "SUCCEEDED" /\ actor[d].keyed
       IN  /\ tool_call' = [tool_call EXCEPT ![c] = IF taken THEN @ ELSE actor[c].want]
           /\ Go(c, IF taken THEN "error" ELSE "done")
    /\ UNCHANGED <<storeVars, invokeKeeps, tool_approval, sends, failures>>

-----------------------------------------------------------------------------
(* The checkpoint *)

\* What the steps of a checkpoint leave alone, the lease apart.
parkKeeps == <<agent_execution, agent_session, session_event, callVars, tool_approval, spent>>

\* park: the wait is durable before the lease is given up.
Park(c) ==
    /\ At(c, "done") /\ actor[c].turn /\ actor[c].want = "BLOCKED" /\ actor[c].approval # 0
    /\ tool_checkpoint.status = NoRow
    /\ tool_checkpoint' = [status |-> "WAITING_APPROVAL", approval |-> actor[c].approval,
                           release |-> actor[c].release]
    /\ Go(c, "release")
    /\ UNCHANGED <<parkKeeps, session_lease, failures>>

ParkRelease(c) ==
    /\ At(c, "release")
    /\ \E s \in Sessions : ReleaseLease(s, c)
    /\ Go(c, "parked")
    /\ UNCHANGED <<parkKeeps, tool_checkpoint, failures>>

\* resume reads the checkpoint, which must still be waiting ...
Resume(r) ==
    /\ At(r, "idle")
    /\ tool_checkpoint.status = "WAITING_APPROVAL"
    /\ actor' = [actor EXCEPT ![r].at = "acquire", ![r].approval = tool_checkpoint.approval,
                              ![r].release = tool_checkpoint.release]
    /\ UNCHANGED <<parkKeeps, session_lease, tool_checkpoint, failures>>

\* ... and takes the lease, or fails because another worker has it.
ResumeAcquire(r) ==
    /\ At(r, "acquire")
    /\ \E s \in Sessions :
          \/ AcquireLease(s, r) /\ Go(r, "get")
          \/ ~ LeaseFree(s, r) /\ Go(r, "error") /\ UNCHANGED session_lease
    /\ UNCHANGED <<parkKeeps, tool_checkpoint, failures>>

\* Mutant: a failed resume keeps the lease.
GiveBack_Keeps(r) ==
    /\ At(r, "give_back")
    /\ Go(r, "error")
    /\ UNCHANGED <<parkKeeps, session_lease, tool_checkpoint, failures>>

\* The approval was not granted: the lease is given back.
GiveBack(r) ==
    /\ At(r, "give_back")
    /\ \E s \in Sessions : ReleaseLease(s, r)
    /\ Go(r, "error")
    /\ UNCHANGED <<parkKeeps, tool_checkpoint, failures>>

SaveResumed(r) ==
    /\ At(r, "save")
    /\ tool_checkpoint' = [tool_checkpoint EXCEPT !.status = "RESUMED"]
    /\ Go(r, "done")
    /\ UNCHANGED <<parkKeeps, session_lease, failures>>

-----------------------------------------------------------------------------
(* Reconciliation *)

\* resolve checks that the call is unknown and unresolved ...
ResolveCall(o, c, decision) ==
    /\ operator[o].at = "idle"
    /\ tool_call[c] = "OUTCOME_UNKNOWN" /\ tool_reconciliation[c] = NoRow
    /\ operator' = [operator EXCEPT ![o] = [at |-> "insert", call |-> c, want |-> decision]]
    /\ UNCHANGED <<storeVars, tool_definition, tool_call, tool_reconciliation, gated, sends,
                   tool_approval, tool_checkpoint, actor, spent, failures>>

\* INSERT ... ON CONFLICT (call_id) DO NOTHING.
InsertReconciliation(c, decision) ==
    tool_reconciliation' =
        [tool_reconciliation EXCEPT ![c] = IF @ = NoRow THEN decision ELSE @]

\* ... and answers with its own decision, whichever row is stored.
ResolveInsert(o) ==
    /\ operator[o].at = "insert"
    /\ InsertReconciliation(operator[o].call, operator[o].want)
    /\ operator' = [operator EXCEPT ![o].at = "answered"]
    /\ UNCHANGED <<storeVars, tool_definition, tool_call, gated, sends,
                   tool_approval, tool_checkpoint, actor, spent, failures>>

-----------------------------------------------------------------------------
(* Faults and time.  A crash needs no action: the actor takes no further   *)
(* step, and whatever it was about to do is not done.                      *)

\* A transaction of consume fails: resume handles every exception alike.
ConsumeFails(r) ==
    /\ failures < MaxFailures /\ failures' = failures + 1
    /\ actor[r].at \in {"get", "expire", "consume"}
    /\ Go(r, "give_back")
    /\ UNCHANGED <<storeVars, callVars, tool_approval, tool_checkpoint, spent>>

Tick ==
    /\ AgeLeases
    /\ tool_approval' = [id \in DOMAIN tool_approval |->
            [tool_approval[id] EXCEPT !.left = IF @ > 0 THEN @ - 1 ELSE 0]]
    /\ UNCHANGED <<agent_execution, agent_session, session_event, callVars, tool_checkpoint,
                   actor, spent, failures>>

CallStep(c) ==
    \/ GovernedInvoke(c) \/ DirectInvoke(c)
    \/ FindApproved(c) \/ FindPending(c) \/ ExpireFound(c) \/ CreateApproval(c)
    \/ FindReplay(c) \/ Record(c)
    \/ \E outcome \in {"ok", "timeout", "connection", "transient", "raised", "refused"} :
            Attempt(c, outcome)
    \/ Park(c) \/ ParkRelease(c)

ResumerStep(r) ==
    Resume(r) \/ ResumeAcquire(r) \/ GiveBack(r) \/ SaveResumed(r) \/ ConsumeFails(r)

Next ==
    \/ \E d \in Definitions : RegisterTool(d) \/ RegisterMcpServer(d)
    \/ \E c \in Calls : CallStep(c)
    \/ \E r \in Resumers : ResumerStep(r)
    \/ \E a \in Actors : Get(a) \/ ExpireByGet(a)
    \/ \E a \in Calls \cup Resumers : Consume(a)
    \/ \E d \in Deciders : Decide(d)
    \/ \E d \in Deciders, id \in Approvals, want \in {"APPROVED", "DENIED"} :
            DecideApproval(d, id, want)
    \/ \E o \in Operators, c \in Calls, decision \in Resolutions : ResolveCall(o, c, decision)
    \/ \E o \in Operators : ResolveInsert(o)
    \/ Tick

Spec == Init /\ [][Next]_vars

-----------------------------------------------------------------------------
(* Properties *)

\* An approval is single use (approvals.py:1, the CAS of consume): over all
\* calls and resumes that race for it, one at most goes ahead on it, although
\* find_approved overwrites rows from stale copies.
ApprovalSpentOnce ==
    \A g, h \in spent : g.approval = h.approval => g = h

\* Every backend.execute of a gated call is paid for by a grant of its own
\* (executor.py:274-347): a call never sends twice on one approval, and a
\* record of an unknown outcome never leads to a blind retry.
SendsArePaidFor ==
    Gated /\ gated => \A c \in Calls : sends[c] <= Cardinality({g \in spent : g.by = c})

\* A grant is spent by an execution of the release it was asked for (consume's
\* binding check, approvals.py:280-287).
GrantBoundToRelease ==
    \A g \in spent : actor[g.by].release = tool_approval[g.approval].release

\* A failed resume leaves no held state behind (checkpoints.py:159): a resumer
\* whose attempt failed does not hold the Session's lease.
FailedResumeHoldsNothing ==
    \A r \in Resumers, s \in Sessions :
        At(r, "error") => ~ (session_lease[s].owner = r /\ session_lease[s].left > 0)

\* A checkpoint is resumed by one worker at most, and on a grant that no call
\* has used (checkpoints.py:131-170): both read WAITING_APPROVAL, one consumes.
ResumedOnce ==
    /\ Cardinality({r \in Resumers : At(r, "done")}) <= 1
    /\ tool_checkpoint.status = "RESUMED" =>
            \E g \in spent : g.approval = tool_checkpoint.approval /\ g.by \in Resumers

\* The stored resolution of a call is final, although two operators may both
\* find it unresolved (reconciliation.py:113-123, store.py:470-483).
ResolutionFinal ==
    [][\A c \in Calls : tool_reconciliation[c] # NoRow
            => tool_reconciliation'[c] = tool_reconciliation[c]]_vars

\* Not kept by the code.  executor.py:6 promises "one persistent, auditable
\* record per invocation"; a call that loses the race for a grant, or whose
\* SUCCEEDED record meets the unique index, ends in an exception without one.
EveryCallRecorded ==
    \A c \in Calls : At(c, "error") => tool_call[c] # NoRow

\* Not kept by the code: resolve answers the loser of a race with its own
\* decision although "closes each exactly once" (reconciliation.py:77).
ResolvedAsAnswered ==
    \A o \in Operators : operator[o].at = "answered"
        => tool_reconciliation[operator[o].call] = operator[o].want

\* Not kept by the code: find_approved writes EXPIRED over a grant that was
\* consumed after it read it, so the row no longer says that the call ran.
ConsumedStaysConsumed ==
    \A g \in spent : tool_approval[g.approval].status = "CONSUMED"

\* Not kept by the code: a crash between consume and the update of the
\* checkpoint leaves it waiting for an approval nobody can consume any more.
WaitingCanResume ==
    \A g \in spent : g.approval = tool_checkpoint.approval =>
        tool_checkpoint.status = "RESUMED" \/ \E r \in Resumers : At(r, "save")

=============================================================================
