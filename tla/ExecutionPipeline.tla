-------------------------- MODULE ExecutionPipeline --------------------------
(***************************************************************************)
(* The execution of user messages, from acceptance to the committed        *)
(* Session Events: Agent Gateway submissions (trpc_service/agent_gateway), *)
(* the Outbox and Kafka (ExecutionBus), Kafka consumers with manual offset *)
(* commits and dead letters (trpc_service/execution_bus), and the Agent    *)
(* Worker that runs a message under a Session lease and commits its result *)
(* (trpc_service/agent_worker, over SessionStore).                         *)
(*                                                                         *)
(* All messages travel through one partition of the request topic: records *)
(* of one Session share a partition key, and only those contend.           *)
(*                                                                         *)
(* A worker's handler awaits between its database transactions, so each    *)
(* transaction, the model call and each Kafka call is a step of its own.   *)
(***************************************************************************)
EXTENDS SessionStore, Sequences

CONSTANTS
    Dispatchers,    \* Agent Gateway replicas, each with a dispatch loop
    BatchSize,      \* rows one dispatch transaction locks at most
    MaxInFlight,    \* CapacityPolicy.max_in_flight
    MaxAttempts,    \* execution_max_delivery_attempts
    MaxOffset,      \* bound: records a partition may hold
    MaxFaults,      \* bound: faults of the environment in one behaviour
    FaultKinds      \* the kinds of fault that may happen

ASSUME BoundAssumption ==
    /\ MaxAttempts \in Nat \ {0}
    /\ MaxInFlight \in Nat \ {0}
    /\ MaxOffset \in Nat
    /\ MaxFaults \in Nat

VARIABLES
    outbox_record, topic, dispatcher,   \* see ExecutionBus
    assigned,       \* the consumer that owns the partition, or NoWorker
    position,       \* records that consumer has fetched
    committed,      \* the consumer group's committed offset
    dead_letter,    \* messages published to the dead-letter topic
    worker,         \* what each Agent Worker is doing
    failure_attempts, \* KafkaExecutionConsumer._failure_attempts, per worker
    faults          \* faults so far

INSTANCE ExecutionBus

busVars == <<outbox_record, topic, dispatcher>>
kafkaVars == <<assigned, position, committed, dead_letter>>
workerVars == <<worker, failure_attempts>>
vars == <<storeVars, busVars, kafkaVars, workerVars, faults>>

Log == topic["EXECUTION_REQUESTED"]
Offsets == 1..MaxOffset

\* received: the record is decoded; leasing: the status read was PENDING;
\* running: the lease is granted and the model is called; renewing, committing:
\* the two transactions after it; model_error: a ModelGatewayError is on its way
\* to _mark_failed; failed: an exception reached process_once; poison: attempts
\* are exhausted; handled: the offset is about to be committed; waiting: the
\* retry delay of run_forever.
Phases == {"idle", "received", "leasing", "running", "renewing", "committing",
           "model_error", "failed", "poison", "handled", "waiting"}

WorkerState == [phase : Phases, offset : Nat, token : Nat, version : Nat]
IdleWorker == [phase |-> "idle", offset |-> 0, token |-> 0, version |-> 0]

TypeOK ==
    /\ StoreTypeOK
    /\ BusTypeOK
    /\ assigned \in Workers \cup {NoWorker}
    /\ position \in Nat
    /\ committed \in Nat
    /\ dead_letter \subseteq Messages
    /\ worker \in [Workers -> WorkerState]
    /\ failure_attempts \in [Workers -> [Offsets -> Nat]]
    /\ faults \in Nat

Init ==
    /\ StoreInit
    /\ BusInit
    /\ assigned = NoWorker
    /\ position = 0
    /\ committed = 0
    /\ dead_letter = {}
    /\ worker = [w \in Workers |-> IdleWorker]
    /\ failure_attempts = [w \in Workers |-> [o \in Offsets |-> 0]]
    /\ faults = 0

Message(w) == Log[worker[w].offset]
Session(w) == SessionOf[Message(w)]
Goto(w, phase) == worker' = [worker EXCEPT ![w].phase = phase]

\* One more fault of this kind happens.
Fault(kind) ==
    /\ kind \in FaultKinds
    /\ faults < MaxFaults
    /\ faults' = faults + 1

-----------------------------------------------------------------------------
(* Agent Gateway *)

Pending == {m \in Messages : agent_execution[m] = "PENDING"}

\* AgentExecutionSubmitter.submit of a new message id: Session, execution and
\* Outbox row in one transaction.  A known message id, a payload conflict and a
\* denied admission change nothing and are not steps.
Submit(m) ==
    /\ agent_execution[m] = NoRow
    /\ Cardinality(Pending) < MaxInFlight
    /\ CreateSessionIfMissing(SessionOf[m])
    /\ agent_execution' = [agent_execution EXCEPT ![m] = "PENDING"]
    /\ InsertOutboxRecords(m, <<"EXECUTION_REQUESTED">>)
    /\ UNCHANGED <<session_event, session_lease, topic, dispatcher,
                   kafkaVars, workerVars, faults>>

Dispatch(d) ==
    /\ SelectPending(d) \/ PublishRow(d) \/ CommitBatch(d)
    /\ UNCHANGED <<storeVars, kafkaVars, workerVars, faults>>

GatewayFault(d) ==
    /\ \/ Fault("dispatch") /\ DispatchFailed(d)
       \/ Fault("gateway_restart") /\ RestartGateway(d)
    /\ UNCHANGED <<storeVars, kafkaVars, workerVars>>

-----------------------------------------------------------------------------
(* Kafka consumer group *)

\* The group gives the partition to w, which resumes from the committed offset.
Assign(w) ==
    /\ assigned' = w
    /\ position' = committed

\* A partition without a live owner is reassigned.
Recover(w) ==
    /\ assigned = NoWorker
    /\ Assign(w)
    /\ UNCHANGED <<storeVars, busVars, committed, dead_letter, workerVars, faults>>

\* A rebalance takes the partition from a live consumer, which may be handling
\* a record and carries on.
Rebalance(w) ==
    /\ Fault("rebalance")
    /\ assigned \notin {NoWorker, w}
    /\ Assign(w)
    /\ UNCHANGED <<storeVars, busVars, committed, dead_letter, workerVars>>

\* A worker process dies (or its consumer task is cancelled) and restarts.
Crash(w) ==
    /\ Fault("crash")
    /\ worker[w].phase # "idle"
    /\ worker' = [worker EXCEPT ![w] = IdleWorker]
    /\ failure_attempts' = [failure_attempts EXCEPT ![w] = [o \in Offsets |-> 0]]
    /\ assigned' = IF assigned = w THEN NoWorker ELSE assigned
    /\ UNCHANGED <<storeVars, busVars, position, committed, dead_letter>>

\* getmany(max_records=1) returns the next record.
Fetch(w) ==
    /\ worker[w].phase = "idle"
    /\ assigned = w
    /\ position < Len(Log)
    /\ position + 1 \in Offsets
    /\ position' = position + 1
    /\ worker' = [worker EXCEPT ![w] = [IdleWorker EXCEPT
            !.phase = "received", !.offset = position + 1]]
    /\ UNCHANGED <<storeVars, busVars, assigned, committed, dead_letter,
                   failure_attempts, faults>>

\* Mutant: a failed record is not fetched again.
SeekBack_Skips(w) == UNCHANGED position

\* seek(record.offset), effective while the partition is assigned to w, and the
\* exception that leaves process_once: run_forever sleeps before the next record.
SeekBack(w) ==
    position' = IF assigned = w THEN worker[w].offset - 1 ELSE position

Sleep(w) == worker' = [worker EXCEPT ![w] = [IdleWorker EXCEPT !.phase = "waiting"]]

\* The except branch of process_once: count the failure, then retry or give up.
RecordFailure(w) ==
    /\ worker[w].phase = "failed"
    /\ LET o == worker[w].offset
           attempts == failure_attempts[w][o] + 1
       IN  /\ failure_attempts' = [failure_attempts EXCEPT ![w][o] = attempts]
           /\ \/ attempts >= MaxAttempts /\ Goto(w, "poison") /\ UNCHANGED position
              \/ attempts < MaxAttempts /\ Sleep(w) /\ SeekBack(w)
    /\ UNCHANGED <<storeVars, busVars, assigned, committed, dead_letter, faults>>

\* _publish_dead_letter; a failure to publish seeks back and retries the record.
PublishDeadLetter(w) ==
    /\ worker[w].phase = "poison"
    /\ \/ /\ dead_letter' = dead_letter \cup {Message(w)}
          /\ Goto(w, "handled")
          /\ UNCHANGED <<position, faults>>
       \/ /\ Fault("dlq")
          /\ Sleep(w)
          /\ SeekBack(w)
          /\ UNCHANGED dead_letter
    /\ UNCHANGED <<storeVars, busVars, assigned, committed, failure_attempts>>

\* Commit offset + 1 and forget the failures.  A consumer to which the partition
\* is not assigned cannot commit; a failed commit leaves the position alone.
CommitOffset(w) ==
    /\ worker[w].phase = "handled"
    /\ \/ /\ assigned = w
          /\ committed' = worker[w].offset
          /\ failure_attempts' = [failure_attempts EXCEPT ![w][worker[w].offset] = 0]
          /\ worker' = [worker EXCEPT ![w] = IdleWorker]
          /\ UNCHANGED faults
       \/ /\ \/ assigned # w /\ UNCHANGED faults
             \/ assigned = w /\ Fault("offset")
          /\ Sleep(w)
          /\ UNCHANGED <<committed, failure_attempts>>
    /\ UNCHANGED <<storeVars, busVars, assigned, position, dead_letter>>

-----------------------------------------------------------------------------
(* Agent Worker: AgentExecutionProcessor.handle *)

\* The storage profile of the tenant may name another worker pool, else the
\* status decides whether there is anything left to do.
CheckStatus(w) ==
    /\ worker[w].phase = "received"
    /\ \/ Fault("pool") /\ Goto(w, "model_error")
       \/ /\ agent_execution[Message(w)] \in {"SUCCEEDED", "FAILED"}
          /\ Goto(w, "handled") /\ UNCHANGED faults
       \/ /\ agent_execution[Message(w)] \notin {"SUCCEEDED", "FAILED"}
          /\ Goto(w, "leasing") /\ UNCHANGED faults
    /\ UNCHANGED <<storeVars, busVars, kafkaVars, failure_attempts>>

Acquire(w) ==
    /\ worker[w].phase = "leasing"
    /\ \/ /\ AcquireLease(Session(w), w)
          /\ worker' = [worker EXCEPT ![w].phase = "running",
                ![w].token = LeaseGrant(Session(w)).token,
                ![w].version = LeaseGrant(Session(w)).version]
       \/ /\ ~LeaseFree(Session(w), w)
          /\ Goto(w, "failed")
          /\ UNCHANGED session_lease
    /\ UNCHANGED <<agent_execution, agent_session, session_event, busVars, kafkaVars,
                   failure_attempts, faults>>

\* Resolve the release and the knowledge revisions, then call the model.  Each
\* of them may end in a ModelGatewayError.
CallModel(w) ==
    /\ worker[w].phase = "running"
    /\ \/ Goto(w, "renewing") /\ UNCHANGED faults
       \/ Fault("model") /\ Goto(w, "model_error")
    /\ UNCHANGED <<storeVars, busVars, kafkaVars, failure_attempts>>

Renew(w) ==
    /\ worker[w].phase = "renewing"
    /\ \/ RenewLease(Session(w), w, worker[w].token) /\ Goto(w, "committing")
       \/ /\ ~LeaseValid(Session(w), w, worker[w].token)
          /\ Goto(w, "failed")
          /\ UNCHANGED session_lease
    /\ UNCHANGED <<agent_execution, agent_session, session_event, busVars, kafkaVars,
                   failure_attempts, faults>>

\* The final transaction: Session Events, SUCCEEDED and two Outbox rows, or
\* nothing when the execution has succeeded already, or an error.
Commit(w) ==
    /\ worker[w].phase = "committing"
    /\ LET m == Message(w)
           s == Session(w)
           token == worker[w].token
           version == worker[w].version
       IN  \/ /\ CommitSessionEvents(s, w, m, token, version)
              /\ agent_execution' = [agent_execution EXCEPT ![m] = "SUCCEEDED"]
              /\ InsertOutboxRecords(m, <<"SESSION_EVENTS_COMMITTED", "EXECUTION_COMPLETED">>)
              /\ Goto(w, "handled")
           \/ /\ agent_execution[m] = "SUCCEEDED"
              /\ Goto(w, "handled")
              /\ UNCHANGED <<agent_execution, agent_session, session_event, outbox_record>>
           \/ /\ agent_execution[m] # "SUCCEEDED"
              /\ ~CommitAllowed(s, w, token, version)
              /\ Goto(w, "failed")
              /\ UNCHANGED <<agent_execution, agent_session, session_event, outbox_record>>
    /\ UNCHANGED <<session_lease, topic, dispatcher, kafkaVars, failure_attempts, faults>>

\* except ModelGatewayError: mark the execution FAILED and re-raise.
ModelFailed(w) ==
    /\ worker[w].phase = "model_error"
    /\ MarkFailed(Message(w))
    /\ Goto(w, "failed")
    /\ UNCHANGED <<agent_session, session_event, session_lease, busVars, kafkaVars,
                   failure_attempts, faults>>

\* A database transaction of the handler raises; it has no effect.
DatabaseError(w) ==
    /\ Fault("database")
    /\ worker[w].phase \in {"received", "leasing", "renewing", "committing", "model_error"}
    /\ Goto(w, "failed")
    /\ UNCHANGED <<storeVars, busVars, kafkaVars, failure_attempts>>

WorkerStep(w) ==
    \/ Fetch(w) \/ CheckStatus(w) \/ Acquire(w) \/ CallModel(w) \/ Renew(w)
    \/ Commit(w) \/ ModelFailed(w)
    \/ RecordFailure(w) \/ PublishDeadLetter(w) \/ CommitOffset(w)

-----------------------------------------------------------------------------

\* One second passes: leases age, and a retry delay (one second) is over.
Tick ==
    /\ \/ \E s \in Sessions : session_lease[s].left > 0
       \/ \E w \in Workers : worker[w].phase = "waiting"
    /\ AgeLeases
    /\ worker' = [w \in Workers |->
            IF worker[w].phase = "waiting" THEN IdleWorker ELSE worker[w]]
    /\ UNCHANGED <<agent_execution, agent_session, session_event, busVars, kafkaVars,
                   failure_attempts, faults>>

Next ==
    \/ \E m \in Messages : Submit(m)
    \/ \E d \in Dispatchers : Dispatch(d) \/ GatewayFault(d)
    \/ \E w \in Workers :
        WorkerStep(w) \/ DatabaseError(w) \/ Recover(w) \/ Rebalance(w) \/ Crash(w)
    \/ Tick

Spec == Init /\ [][Next]_vars

\* Every process that is alive keeps going: dispatch loops and consumer loops
\* are endless loops, the group coordinator reassigns an orphaned partition,
\* and time passes.  Nothing restarts a dispatch loop that ended.
Fairness ==
    /\ \A d \in Dispatchers : WF_vars(Dispatch(d))
    /\ \A w \in Workers : WF_vars(WorkerStep(w))
    /\ WF_vars(\E w \in Workers : Recover(w))
    /\ WF_vars(Tick)

FairSpec == Spec /\ Fairness

-----------------------------------------------------------------------------
(* Safety *)

RowsOf(m) == {r \in session_event : r.message = m}

\* Every message that SUCCEEDED has exactly one turn in its Session: its user
\* message and, right after it, the reply.  A message in any other state has left
\* no event, whatever redeliveries, zombies and crashes came before
\* (commit_session_events and the status update share one transaction).
TurnsExactlyOnce ==
    \A m \in Messages :
        \/ /\ agent_execution[m] = "SUCCEEDED"
           /\ \E r \in session_event :
                RowsOf(m) = TurnRows(SessionOf[m], m, r.sequence - 1)
        \/ agent_execution[m] # "SUCCEEDED" /\ RowsOf(m) = {}

\* The sequence numbers of a Session are 1..version, one row each: the insert
\* of commit_session_events never meets the primary key and leaves no gap.
HistoryContiguous ==
    \A s \in Sessions :
        LET rows == {r \in session_event : r.session = s}
        IN  /\ {r.sequence : r \in rows} =
                    IF agent_session[s] = NoVersion THEN {} ELSE 1..agent_session[s]
            /\ \A q, r \in rows : q.sequence = r.sequence => q = r

\* The worker is between acquire and the end of its final transaction.
HoldsGrant(w) == worker[w].phase \in {"running", "renewing", "committing"}

\* Fencing tokens are never shared: a grant is at most as new as the lease row,
\* the newest grant belongs to the row's owner, and two workers never hold the
\* same token of one Session, however leases expire and partitions move.
GrantsFenced ==
    \A w \in Workers : HoldsGrant(w) =>
        LET lease == session_lease[Session(w)]
        IN  /\ worker[w].token \in 1..lease.token
            /\ worker[w].token = lease.token => lease.owner = w
            /\ \A v \in Workers \ {w} :
                HoldsGrant(v) /\ Session(v) = Session(w) => worker[v].token # worker[w].token

\* The holder of the newest token works on the Session's current version, so a
\* commit that passes the fencing check cannot raise SESSION_VERSION_CONFLICT;
\* an older grant never runs ahead of the Session.
GrantVersionCurrent ==
    \A w \in Workers : HoldsGrant(w) =>
        LET s == Session(w)
        IN  /\ worker[w].version <= agent_session[s]
            /\ worker[w].token = session_lease[s].token =>
                    worker[w].version = agent_session[s]

\* A Session's history is intact under redeliveries, zombies and crashes: numbered
\* without gaps, each answered message in it once and no other message at all
\* (commit_session_events).
HistoryInv == HistoryContiguous /\ TurnsExactlyOnce

\* A worker whose lease was taken over is isolated: tokens are never shared, and only
\* the newest goes with the current version (acquire, and the fence of the commit).
FenceInv == GrantsFenced /\ GrantVersionCurrent

\* The message needs no further delivery.
Settled(m) == agent_execution[m] \in {"SUCCEEDED", "FAILED"} \/ m \in dead_letter

\* At-least-once delivery end to end: an accepted message that is not settled is
\* still in the Outbox, or in the topic beyond the committed offset.
AcceptedNotLost ==
    \A m \in Pending \ dead_letter :
        \/ \E i \in PendingRows : /\ outbox_record[i].message = m
                                  /\ outbox_record[i].type = "EXECUTION_REQUESTED"
        \/ \E o \in committed + 1 .. Len(Log) : Log[o] = m

\* An offset is committed only after its record was handled or dead-lettered,
\* and a consumer is never past a record that still needs a delivery.
OffsetsSettled ==
    /\ \A o \in 1..committed : Settled(Log[o])
    /\ \A w \in Workers : \A o \in 1..worker[w].offset - 1 : Settled(Log[o])

\* Nothing accepted is lost between the submission and the last offset commit: an
\* unsettled message is still to be delivered, and no consumer is past it.
NothingLost == AcceptedNotLost /\ OffsetsSettled

\* The Outbox announces an execution's result exactly once, and never one that
\* was not committed: one row for projections and one for the channel gateway.
ResultsAnnouncedOnce ==
    \A m \in Messages : \A t \in {"SESSION_EVENTS_COMMITTED", "EXECUTION_COMPLETED"} :
        Cardinality({i \in RowNumbers : outbox_record[i].message = m
                                        /\ outbox_record[i].type = t})
            = IF agent_execution[m] = "SUCCEEDED" THEN 1 ELSE 0

(* Action properties *)

\* Session Events are append-only facts and fencing tokens only grow; a
\* succeeded execution stays succeeded (a late _mark_failed does not touch it).
HistoryAppendOnly ==
    [][/\ session_event \subseteq session_event'
       /\ \A s \in Sessions : session_lease[s].token <= session_lease'[s].token
       /\ \A m \in Messages :
            agent_execution[m] = "SUCCEEDED" => agent_execution'[m] = "SUCCEEDED"]_vars

(* Liveness *)

\* While some dispatch loop keeps running, an accepted message is eventually
\* executed, failed or dead-lettered.
AcceptedEventuallySettled ==
    []<>(\E d \in Dispatchers : dispatcher[d].loop = "alive") =>
        \A m \in Messages : agent_execution[m] = "PENDING" ~> Settled(m)

(* Refinement *)

\* The turn at place i of a Session: the message both of whose rows are there.
TurnAt(s, i) == CHOOSE m \in Messages : TurnRows(s, m, 2 * (i - 1)) \subseteq session_event

\* Each Session's history as the sequence of messages that were answered in it.
History == [s \in Sessions |->
    IF agent_session[s] = NoVersion THEN <<>>
    ELSE [i \in 1..(agent_session[s] \div 2) |-> TurnAt(s, i)]]

Promise == INSTANCE SessionLog WITH outcome <- agent_execution, history <- History

\* The pipeline implements the promise of SessionLog: every step of every actor
\* is an acceptance, an answer appended once at the end, a failure, or invisible.
ImplementsSessionLog == Promise!LogSpec

(* Statements of the documentation that the code does not keep *)

\* "Extend the caller's lease epoch" (renew): a renewal never shortens a lease.
RenewalExtendsLease ==
    [][\A w \in Workers : Renew(w) =>
        session_lease'[Session(w)].left >= session_lease[Session(w)].left]_vars

\* SUCCEEDED and FAILED are both terminal: a failed execution stays failed.
FailedIsTerminal ==
    [][\A m \in Messages : agent_execution[m] = "FAILED" => agent_execution'[m] = "FAILED"]_vars

\* The SUCCEEDED status keeps a redelivery from running the model again.
ModelNotRecalled ==
    [][\A w \in Workers : CallModel(w) => agent_execution[Message(w)] # "SUCCEEDED"]_vars

\* A message whose worker crashed is recovered by lease expiry and redelivery,
\* so crashes and rebalances alone never send it to the dead-letter topic.
CrashRecoveredByRedelivery == dead_letter = {}

=============================================================================
