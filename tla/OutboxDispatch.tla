--------------------------- MODULE OutboxDispatch ---------------------------
(***************************************************************************)
(* The Outbox dispatchers of several Agent Gateway replicas on their own:  *)
(* business transactions (any of them) insert one row per message, and the *)
(* replicas compete for the rows.  All rows here belong to one Session,    *)
(* whose records share a Kafka partition.                                  *)
(***************************************************************************)
EXTENDS ExecutionBus

CONSTANT MaxFailures    \* bound: dispatch failures and restarts in one behaviour

ASSUME FailureAssumption == MaxFailures \in Nat

VARIABLE failures       \* rolled back dispatch transactions so far

outboxVars == <<outbox_record, topic, dispatcher, failures>>

OutboxTypeOK == BusTypeOK /\ failures \in 0..MaxFailures

OutboxInit == BusInit /\ failures = 0

\* A business transaction commits with its Outbox row.
BusinessCommit(m) ==
    /\ \A i \in RowNumbers : outbox_record[i].message # m
    /\ InsertOutboxRecords(m, <<"EXECUTION_REQUESTED">>)
    /\ UNCHANGED <<topic, dispatcher, failures>>

Dispatch(d) ==
    /\ SelectPending(d) \/ PublishRow(d) \/ CommitBatch(d)
    /\ UNCHANGED failures

Failure(d) ==
    /\ failures < MaxFailures
    /\ DispatchFailed(d) \/ RestartGateway(d)
    /\ failures' = failures + 1

OutboxNext ==
    \/ \E m \in Messages : BusinessCommit(m)
    \/ \E d \in Dispatchers : Dispatch(d) \/ Failure(d)

OutboxSpec == OutboxInit /\ [][OutboxNext]_outboxVars

\* Each replica's dispatch loop runs for as long as it has not been ended.
OutboxFairSpec == OutboxSpec /\ \A d \in Dispatchers : WF_outboxVars(Dispatch(d))

-----------------------------------------------------------------------------

Sent(m) == {o \in 1..Len(topic["EXECUTION_REQUESTED"]) : topic["EXECUTION_REQUESTED"][o] = m}

\* "concurrent dispatchers never double-publish one record" (OutboxDispatcher):
\* only a rolled back transaction makes a record appear once more in the topic.
DuplicatesOnlyAfterFailure ==
    \A m \in Messages : Cardinality(Sent(m)) <= 1 + failures

\* A row is locked by one open dispatch transaction at most, and a locked row is
\* PENDING: no replica publishes a row that another one has marked.
LocksExclusive ==
    /\ \A d, e \in Dispatchers : d # e => dispatcher[d].rows \cap dispatcher[e].rows = {}
    /\ LockedRows \subseteq PendingRows

\* While some replica's loop keeps running, every committed row gets PUBLISHED.
EventuallyPublished ==
    []<>(\E d \in Dispatchers : dispatcher[d].loop = "alive") =>
        \A m \in Messages : []((\E i \in PendingRows : outbox_record[i].message = m)
            => <>(\E i \in RowNumbers \ PendingRows : outbox_record[i].message = m))

(* Statements of the documentation that the code does not keep *)

\* "preserving per-Session ordering" (KafkaExecutionBus): records of a Session
\* first reach the topic in the order of their Outbox rows.
SessionOrderPreserved ==
    \A i, j \in RowNumbers :
        i < j /\ Sent(outbox_record[j].message) # {} =>
            \E o \in Sent(outbox_record[i].message) :
                \A p \in Sent(outbox_record[j].message) : o < p

\* A failed dispatch is retried until it succeeds.
RetriedUntilPublished ==
    \A m \in Messages : []((\E i \in PendingRows : outbox_record[i].message = m)
        => <>(\E i \in RowNumbers \ PendingRows : outbox_record[i].message = m))

=============================================================================
