---------------------------- MODULE ExecutionBus ----------------------------
(***************************************************************************)
(* The transactional Outbox and the Kafka topics it feeds                  *)
(* (trpc_service/execution_bus.py, and the dispatch loop of                *)
(* trpc_service/agent_gateway.py).                                         *)
(*                                                                         *)
(* Business transactions insert Outbox rows.  Every Agent Gateway replica  *)
(* runs one dispatcher: it locks a batch of PENDING rows with FOR UPDATE   *)
(* SKIP LOCKED, publishes them one by one while its transaction is open,   *)
(* and marks them PUBLISHED when that transaction commits.  A failure      *)
(* rolls all marks back, whatever was already sent to Kafka.               *)
(***************************************************************************)
EXTENDS Naturals, Sequences, FiniteSets

CONSTANTS
    Messages,       \* message ids of Agent Executions
    Dispatchers,    \* Agent Gateway replicas
    BatchSize       \* rows one dispatch_pending locks at most

ASSUME BatchAssumption == BatchSize \in Nat \ {0}

VARIABLES
    outbox_record,  \* Outbox rows in the order of (created_at, id)
    topic,          \* the Kafka log of each event type
    dispatcher      \* open dispatch transaction of each replica

EventTypes == {"EXECUTION_REQUESTED", "SESSION_EVENTS_COMMITTED", "EXECUTION_COMPLETED"}
OutboxRow == [type : EventTypes, message : Messages, status : {"PENDING", "PUBLISHED"}]

\* rows: the row numbers the transaction locked; sent: those published so far;
\* loop: "ended" once an exception has ended the replica's dispatch loop.
DispatcherState == [rows : SUBSET (Nat \ {0}), sent : SUBSET (Nat \ {0}), loop : {"alive", "ended"}]
IdleDispatcher == [rows |-> {}, sent |-> {}, loop |-> "alive"]

BusTypeOK ==
    /\ outbox_record \in Seq(OutboxRow)
    /\ topic \in [EventTypes -> Seq(Messages)]
    /\ dispatcher \in [Dispatchers -> DispatcherState]

BusInit ==
    /\ outbox_record = <<>>
    /\ topic = [t \in EventTypes |-> <<>>]
    /\ dispatcher = [d \in Dispatchers |-> IdleDispatcher]

-----------------------------------------------------------------------------

\* insert_outbox_record for each type, in the caller's transaction.
InsertOutboxRecords(m, types) ==
    outbox_record' = outbox_record \o
        [i \in 1..Len(types) |-> [type |-> types[i], message |-> m, status |-> "PENDING"]]

RowNumbers == 1..Len(outbox_record)
PendingRows == {i \in RowNumbers : outbox_record[i].status = "PENDING"}

\* Mutant: the SELECT takes no row locks.
LockedRows_None == {}

\* The rows that open dispatch transactions hold FOR UPDATE.
LockedRows == UNION {dispatcher[d].rows : d \in Dispatchers}

\* The rows a SELECT ... ORDER BY created_at,id LIMIT n FOR UPDATE SKIP LOCKED returns.
Batch ==
    LET free == PendingRows \ LockedRows
    IN  {i \in free : Cardinality({j \in free : j <= i}) <= BatchSize}

SelectPending(d) ==
    /\ dispatcher[d] = IdleDispatcher
    /\ Batch # {}
    /\ dispatcher' = [dispatcher EXCEPT ![d].rows = Batch]
    /\ UNCHANGED <<outbox_record, topic>>

\* send_and_wait of the next locked row; the UPDATE to PUBLISHED that follows
\* takes effect only when the transaction commits.
PublishRow(d) ==
    LET unsent == dispatcher[d].rows \ dispatcher[d].sent
    IN  \E i \in unsent :
        /\ \A j \in unsent : i <= j
        /\ topic' = [topic EXCEPT
                ![outbox_record[i].type] = Append(@, outbox_record[i].message)]
        /\ dispatcher' = [dispatcher EXCEPT ![d].sent = @ \cup {i}]
        /\ UNCHANGED outbox_record

\* The UPDATE ... SET status='PUBLISHED' of all rows in the transaction.
MarkPublished(rows) ==
    outbox_record' = [i \in RowNumbers |->
        IF i \in rows THEN [outbox_record[i] EXCEPT !.status = "PUBLISHED"]
        ELSE outbox_record[i]]

\* Mutant: the transaction commits before every row was sent.
CommitBatch_Early(d) ==
    /\ dispatcher[d].rows # {}
    /\ MarkPublished(dispatcher[d].rows)
    /\ dispatcher' = [dispatcher EXCEPT ![d] = IdleDispatcher]
    /\ UNCHANGED topic

CommitBatch(d) ==
    /\ dispatcher[d].rows # {}
    /\ dispatcher[d].sent = dispatcher[d].rows
    /\ MarkPublished(dispatcher[d].rows)
    /\ dispatcher' = [dispatcher EXCEPT ![d] = IdleDispatcher]
    /\ UNCHANGED topic

\* A publish (or the transaction) raises: the transaction rolls back, and the
\* exception leaves dispatch_loop, which has no handler around dispatch_pending.
DispatchFailed(d) ==
    /\ dispatcher[d].rows # {}
    /\ dispatcher' = [dispatcher EXCEPT ![d] = [IdleDispatcher EXCEPT !.loop = "ended"]]
    /\ UNCHANGED <<outbox_record, topic>>

\* The replica's process ends and starts again; an open transaction rolls back.
RestartGateway(d) ==
    /\ dispatcher[d] # IdleDispatcher
    /\ dispatcher' = [dispatcher EXCEPT ![d] = IdleDispatcher]
    /\ UNCHANGED <<outbox_record, topic>>

=============================================================================
