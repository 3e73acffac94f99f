---------------------- MODULE ExecutionPipelineProofs ----------------------
(***************************************************************************)
(* Proofs about the execution pipeline, for every number of workers,       *)
(* messages, sessions and faults: types, that an accepted message is never *)
(* lost, that fencing tokens isolate the holder of the newest lease, that  *)
(* a Session's events are numbered without gaps and every message has at   *)
(* most one turn, and that the pipeline implements the log of turns of     *)
(* SessionLog.                                                             *)
(*                                                                         *)
(* TypeOK alone is not inductive: the message a worker handles is a        *)
(* message only because the worker points into the topic, and the row a    *)
(* dispatcher sends is a row only because it locked one that exists.       *)
(***************************************************************************)
EXTENDS ExecutionPipeline, TLAPS

-----------------------------------------------------------------------------
(* Type correctness *)

\* A worker that is handling a record points into the request topic.
AtRecord ==
    \A w \in Workers : worker[w].phase \notin {"idle", "waiting"} =>
        worker[w].offset \in 1..Len(Log)

\* A dispatch transaction locks rows that exist and sends rows that it locked.
RowsLocked ==
    \A d \in Dispatchers :
        /\ dispatcher[d].rows \subseteq RowNumbers
        /\ dispatcher[d].sent \subseteq dispatcher[d].rows

TypeInv == TypeOK /\ AtRecord /\ RowsLocked

\* The initial state satisfies it.
LEMMA InitTypeInv == Init => TypeInv
BY SessionAssumption, TtlAssumption, BoundAssumption
DEF Init, TypeInv, TypeOK, AtRecord, RowsLocked, StoreInit, StoreTypeOK, BusInit,
    BusTypeOK, EventRow, Lease, Statuses, NoRow, NoVersion, DispatcherState,
    IdleDispatcher, WorkerState, IdleWorker, Phases, Offsets

\* The message a busy worker handles.
LEMMA MessageType ==
    ASSUME TypeInv, NEW w \in Workers, worker[w].phase \notin {"idle", "waiting"}
    PROVE  /\ Message(w) \in Messages
           /\ Session(w) \in Sessions
           /\ worker[w].offset \in 1..Len(Log)
BY SessionAssumption
DEF TypeInv, TypeOK, AtRecord, BusTypeOK, Message, Session, Log, EventTypes

\* Appending Outbox rows keeps the rows that are there.
LEMMA InsertType ==
    ASSUME outbox_record \in Seq(OutboxRow), NEW m \in Messages,
           NEW types \in Seq(EventTypes), InsertOutboxRecords(m, types)
    PROVE  /\ outbox_record' \in Seq(OutboxRow)
           /\ Len(outbox_record') = Len(outbox_record) + Len(types)
           /\ \A i \in 1..Len(outbox_record) : outbox_record'[i] = outbox_record[i]
           /\ \A i \in 1..Len(types) :
                outbox_record'[Len(outbox_record) + i] =
                    [type |-> types[i], message |-> m, status |-> "PENDING"]
<1> DEFINE new == [i \in 1..Len(types) |->
                    [type |-> types[i], message |-> m, status |-> "PENDING"]]
<1>1. new \in Seq(OutboxRow)
    BY DEF OutboxRow
<1>2. Len(new) = Len(types)
    OBVIOUS
<1>3. outbox_record' = outbox_record \o new
    BY Zenon DEF InsertOutboxRecords
<1> QED
    BY <1>1, <1>2, <1>3

\* A dispatcher's step: the topics only grow at their ends.
LEMMA DispatchType ==
    ASSUME BusTypeOK, RowsLocked, NEW d \in Dispatchers,
           \/ SelectPending(d) \/ PublishRow(d) \/ CommitBatch(d)
           \/ DispatchFailed(d) \/ RestartGateway(d)
    PROVE  /\ BusTypeOK'
           /\ RowsLocked'
           /\ Len(Log') >= Len(Log)
           /\ \A o \in 1..Len(Log) : Log'[o] = Log[o]
<1> USE DEF Log, EventTypes
<1>0. dispatcher[d] \in DispatcherState /\ dispatcher[d].rows \subseteq RowNumbers
    BY Zenon DEF BusTypeOK, RowsLocked
<1>1. CASE SelectPending(d)
    <2>1. Batch \subseteq RowNumbers /\ RowNumbers \subseteq Nat \ {0}
        BY DEF Batch, PendingRows, RowNumbers, BusTypeOK
    <2>2. UNCHANGED <<outbox_record, topic>>
        BY Zenon, <1>1 DEF SelectPending
    <2> DEFINE new == [dispatcher[d] EXCEPT !.rows = Batch]
    <2>3. dispatcher' = [dispatcher EXCEPT ![d] = new]
        BY Zenon, <1>1 DEF SelectPending
    <2>4. new \in DispatcherState /\ new.rows = Batch /\ new.sent = {}
        BY <1>0, <1>1, <2>1 DEF SelectPending, DispatcherState, IdleDispatcher
    <2> HIDE DEF new
    <2>5. dispatcher' \in [Dispatchers -> DispatcherState]
        BY Zenon, <2>3, <2>4 DEF BusTypeOK
    <2>6. RowsLocked'
        BY Zenon, <2>1, <2>2, <2>3, <2>4 DEF RowsLocked, RowNumbers, BusTypeOK
    <2> QED
        BY <2>2, <2>5, <2>6 DEF BusTypeOK
<1>2. CASE PublishRow(d)
    <2>1. PICK i \in dispatcher[d].rows \ dispatcher[d].sent :
            /\ topic' = [topic EXCEPT
                    ![outbox_record[i].type] = Append(@, outbox_record[i].message)]
            /\ dispatcher' = [dispatcher EXCEPT ![d].sent = @ \cup {i}]
            /\ UNCHANGED outbox_record
        BY Zenon, <1>2 DEF PublishRow
    <2>2. outbox_record[i] \in OutboxRow /\ i \in Nat \ {0}
        BY <1>0 DEF BusTypeOK, RowNumbers
    <2>3. outbox_record[i].type \in EventTypes /\ outbox_record[i].message \in Messages
        BY Zenon, <2>2 DEF OutboxRow
    <2>4. topic' \in [EventTypes -> Seq(Messages)]
        BY <2>1, <2>3 DEF BusTypeOK
    <2> DEFINE new == [dispatcher[d] EXCEPT !.sent = @ \cup {i}]
    <2>5. dispatcher' = [dispatcher EXCEPT ![d] = new]
        BY Zenon, <2>1
    <2>6. /\ new \in DispatcherState
          /\ new.rows = dispatcher[d].rows
          /\ new.sent = dispatcher[d].sent \cup {i}
        BY Zenon, <1>0, <2>2 DEF DispatcherState
    <2> HIDE DEF new
    <2>7. dispatcher' \in [Dispatchers -> DispatcherState]
        BY Zenon, <2>5, <2>6 DEF BusTypeOK
    <2>8. RowsLocked'
        BY Zenon, <2>1, <2>5, <2>6 DEF RowsLocked, RowNumbers, BusTypeOK
    <2>9. Len(Log') >= Len(Log) /\ \A o \in 1..Len(Log) : Log'[o] = Log[o]
        BY <2>1, <2>3 DEF BusTypeOK
    <2> QED
        BY Zenon, <2>1, <2>4, <2>7, <2>8, <2>9 DEF BusTypeOK
<1>3. CASE CommitBatch(d)
    <2>1. \A i \in RowNumbers : outbox_record[i] \in OutboxRow
        BY DEF BusTypeOK, RowNumbers
    <2>2. \A i \in RowNumbers : [outbox_record[i] EXCEPT !.status = "PUBLISHED"] \in OutboxRow
        BY Zenon, <2>1 DEF OutboxRow
    <2>3. Len(outbox_record) \in Nat
        BY DEF BusTypeOK
    <2>4. outbox_record' \in Seq(OutboxRow) /\ Len(outbox_record') = Len(outbox_record)
        BY <1>3, <2>1, <2>2, <2>3 DEF CommitBatch, MarkPublished, RowNumbers
    <2>5. dispatcher' = [dispatcher EXCEPT ![d] = IdleDispatcher] /\ UNCHANGED topic
        BY Zenon, <1>3 DEF CommitBatch
    <2>6. IdleDispatcher \in DispatcherState /\ IdleDispatcher.rows = {} /\ IdleDispatcher.sent = {}
        BY Zenon DEF IdleDispatcher, DispatcherState
    <2>7. /\ dispatcher' \in [Dispatchers -> DispatcherState] /\ dispatcher'[d] = IdleDispatcher
          /\ \A e \in Dispatchers \ {d} : dispatcher'[e] = dispatcher[e]
        BY Zenon, <2>5, <2>6 DEF BusTypeOK
    <2>8. RowNumbers' = RowNumbers
        BY Zenon, <2>4 DEF RowNumbers
    <2>9. RowsLocked'
        BY Zenon, <2>6, <2>7, <2>8 DEF RowsLocked
    <2>10. Len(Log') >= Len(Log) /\ \A o \in 1..Len(Log) : Log'[o] = Log[o]
        BY <2>5 DEF BusTypeOK
    <2> QED
        BY Zenon, <2>4, <2>5, <2>7, <2>9, <2>10 DEF BusTypeOK
<1>4. CASE DispatchFailed(d) \/ RestartGateway(d)
    <2>1. PICK new \in {IdleDispatcher, [IdleDispatcher EXCEPT !.loop = "ended"]} :
            dispatcher' = [dispatcher EXCEPT ![d] = new]
        BY Zenon, <1>4 DEF DispatchFailed, RestartGateway
    <2>2. new \in DispatcherState /\ new.rows = {} /\ new.sent = {}
        BY DEF IdleDispatcher, DispatcherState
    <2>3. /\ dispatcher' \in [Dispatchers -> DispatcherState] /\ dispatcher'[d] = new
          /\ \A e \in Dispatchers \ {d} : dispatcher'[e] = dispatcher[e]
        BY Zenon, <2>1, <2>2 DEF BusTypeOK
    <2>4. UNCHANGED <<outbox_record, topic>>
        BY Zenon, <1>4 DEF DispatchFailed, RestartGateway
    <2>5. RowsLocked'
        BY Zenon, <2>2, <2>3, <2>4 DEF RowsLocked, RowNumbers
    <2>6. Len(Log') >= Len(Log) /\ \A o \in 1..Len(Log) : Log'[o] = Log[o]
        BY <2>4 DEF BusTypeOK
    <2> QED
        BY Zenon, <2>3, <2>4, <2>5, <2>6 DEF BusTypeOK
<1> QED
    BY Zenon, <1>1, <1>2, <1>3, <1>4

\* A worker's state changes; it stops handling its record, or points to one in
\* the topic.
LEMMA WorkerType ==
    ASSUME TypeInv, NEW w \in Workers, NEW new \in WorkerState, UNCHANGED topic,
           worker' = [worker EXCEPT ![w] = new],
           new.phase \in {"idle", "waiting"} \/ new.offset \in 1..Len(Log)
    PROVE  /\ worker' \in [Workers -> WorkerState]
           /\ AtRecord'
           /\ worker'[w] = new
           /\ \A v \in Workers \ {w} : worker'[v] = worker[v]
<1>1. worker \in [Workers -> WorkerState]
    BY Zenon DEF TypeInv, TypeOK
<1>2. worker' \in [Workers -> WorkerState] /\ worker'[w] = new
    BY Zenon, <1>1
<1>3. \A v \in Workers \ {w} : worker'[v] = worker[v]
    BY Zenon, <1>1
<1>4. AtRecord'
    BY Zenon, <1>2, <1>3 DEF AtRecord, TypeInv, Log
<1> QED
    BY Zenon, <1>2, <1>3, <1>4

\* A busy worker moves to another phase of the same record.
LEMMA GotoType ==
    ASSUME TypeInv, NEW w \in Workers, NEW p \in Phases, Goto(w, p), UNCHANGED topic,
           worker[w].phase \notin {"idle", "waiting"}
    PROVE  /\ worker' \in [Workers -> WorkerState]
           /\ AtRecord'
           /\ worker'[w].phase = p
           /\ worker'[w].offset = worker[w].offset
           /\ worker'[w].token = worker[w].token
           /\ worker'[w].version = worker[w].version
           /\ \A v \in Workers \ {w} : worker'[v] = worker[v]
<1> DEFINE new == [worker[w] EXCEPT !.phase = p]
<1>1. worker[w] \in WorkerState
    BY Zenon DEF TypeInv, TypeOK
<1>2. worker' = [worker EXCEPT ![w] = new]
    BY Zenon DEF Goto
<1>3. /\ new \in WorkerState
      /\ new.phase = p
      /\ new.offset = worker[w].offset
      /\ new.token = worker[w].token
      /\ new.version = worker[w].version
    BY Zenon, <1>1 DEF WorkerState
<1>4. worker[w].offset \in 1..Len(Log)
    BY Zenon, MessageType
<1> HIDE DEF new
<1> QED
    BY Zenon, <1>2, <1>3, <1>4, WorkerType

\* Sleep and the end of an iteration leave the worker without a record.
LEMMA RestType ==
    ASSUME TypeInv, NEW w \in Workers, UNCHANGED topic,
           Sleep(w) \/ worker' = [worker EXCEPT ![w] = IdleWorker]
    PROVE  /\ worker' \in [Workers -> WorkerState]
           /\ AtRecord'
           /\ worker'[w].phase \in {"idle", "waiting"}
           /\ worker'[w].offset = 0
           /\ \A v \in Workers \ {w} : worker'[v] = worker[v]
<1> DEFINE sleeping == [IdleWorker EXCEPT !.phase = "waiting"]
<1>1. IdleWorker \in WorkerState /\ IdleWorker.phase = "idle" /\ IdleWorker.offset = 0
    BY Zenon DEF IdleWorker, WorkerState, Phases
<1>2. sleeping \in WorkerState /\ sleeping.phase = "waiting" /\ sleeping.offset = 0
    BY Zenon DEF IdleWorker, WorkerState, Phases
<1>3. Sleep(w) => worker' = [worker EXCEPT ![w] = sleeping]
    BY Zenon DEF Sleep
<1> HIDE DEF sleeping
<1>4. CASE Sleep(w)
    BY Zenon, <1>2, <1>3, <1>4, WorkerType
<1>5. CASE worker' = [worker EXCEPT ![w] = IdleWorker]
    BY Zenon, <1>1, <1>5, WorkerType
<1> QED
    BY Zenon, <1>4, <1>5

\* Database time passes.
LEMMA AgeType ==
    ASSUME session_lease \in [Sessions -> Lease], AgeLeases
    PROVE  /\ session_lease' \in [Sessions -> Lease]
           /\ \A s \in Sessions : /\ session_lease'[s].token = session_lease[s].token
                                 /\ session_lease'[s].owner = session_lease[s].owner
<1>1. ASSUME NEW s \in Sessions
      PROVE  LET new == [session_lease[s] EXCEPT !.left = IF @ > 0 THEN @ - 1 ELSE 0]
             IN  /\ new \in Lease
                 /\ new.token = session_lease[s].token
                 /\ new.owner = session_lease[s].owner
    BY DEF Lease
<1> QED
    BY Zenon, <1>1 DEF AgeLeases

\* Every step keeps the type invariant: one case per action.
LEMMA NextTypeInv == TypeInv /\ [Next]_vars => TypeInv'
<1> SUFFICES ASSUME TypeInv, [Next]_vars PROVE TypeInv'
    BY Zenon
<1>0. /\ StoreTypeOK /\ BusTypeOK /\ AtRecord /\ RowsLocked
      /\ assigned \in Workers \cup {NoWorker}
      /\ position \in Nat /\ committed \in Nat /\ faults \in Nat
      /\ dead_letter \subseteq Messages
      /\ worker \in [Workers -> WorkerState]
      /\ failure_attempts \in [Workers -> [Offsets -> Nat]]
    BY Zenon DEF TypeInv, TypeOK
<1> DEFINE KafkaOK == /\ assigned \in Workers \cup {NoWorker}
                      /\ position \in Nat /\ committed \in Nat
                      /\ dead_letter \subseteq Messages
           AttemptsOK == failure_attempts \in [Workers -> [Offsets -> Nat]]
           WorkerOK == worker \in [Workers -> WorkerState] /\ AtRecord
           StoreOK == StoreTypeOK
           BusOK == BusTypeOK /\ RowsLocked
           FaultsOK == faults \in Nat
<1>a. TypeInv' <=> /\ KafkaOK' /\ AttemptsOK' /\ WorkerOK'
                   /\ StoreOK' /\ BusOK' /\ FaultsOK'
    BY Zenon DEF TypeInv, TypeOK
<1>b. UNCHANGED kafkaVars => KafkaOK'
    BY Zenon, <1>0 DEF kafkaVars
<1>c. UNCHANGED failure_attempts => AttemptsOK'
    BY Zenon, <1>0
<1>d. UNCHANGED <<worker, topic>> => WorkerOK'
    BY Zenon, <1>0 DEF AtRecord, Log
<1>e. UNCHANGED storeVars => StoreOK'
    BY Zenon, <1>0 DEF storeVars, StoreTypeOK
<1>f. UNCHANGED busVars => BusOK'
    BY Zenon, <1>0 DEF busVars, BusTypeOK, RowsLocked, RowNumbers
<1>g. UNCHANGED faults \/ faults' = faults + 1 => FaultsOK'
    BY <1>0
<1>h. \A w \in Workers : worker[w].phase \in Phases /\ worker[w].offset \in Nat
    BY Zenon, <1>0 DEF WorkerState
<1>1. ASSUME NEW m \in Messages, Submit(m) PROVE TypeInv'
    <2>1. StoreOK'
        BY Zenon, <1>0, <1>1, SessionAssumption
        DEF Submit, StoreTypeOK, CreateSessionIfMissing, NoVersion, Statuses, NoRow
    <2>2. <<"EXECUTION_REQUESTED">> \in Seq(EventTypes) /\ Len(<<"EXECUTION_REQUESTED">>) = 1
        BY DEF EventTypes
    <2>3. outbox_record' \in Seq(OutboxRow) /\ Len(outbox_record') >= Len(outbox_record)
        <3> DEFINE types == <<"EXECUTION_REQUESTED">>
        <3>1. InsertOutboxRecords(m, types) /\ outbox_record \in Seq(OutboxRow)
            BY Zenon, <1>0, <1>1 DEF Submit, BusTypeOK
        <3>2. types \in Seq(EventTypes) /\ Len(types) = 1
            BY Zenon, <2>2
        <3>3. Len(outbox_record) \in Nat
            BY <3>1
        <3> HIDE DEF types
        <3> QED
            BY <3>1, <3>2, <3>3, InsertType
    <2>4. BusOK'
        BY <1>0, <1>1, <2>3 DEF Submit, BusTypeOK, RowsLocked, RowNumbers
    <2> QED
        BY Zenon, <1>1, <1>a, <1>b, <1>c, <1>d, <1>g, <2>1, <2>4 DEF Submit, workerVars
<1>2. ASSUME NEW d \in Dispatchers, Dispatch(d) \/ GatewayFault(d) PROVE TypeInv'
    <2>1. BusOK' /\ Len(Log') >= Len(Log)
        BY Zenon, <1>0, <1>2, DispatchType DEF Dispatch, GatewayFault
    <2>2. UNCHANGED <<storeVars, kafkaVars, workerVars>>
        BY Zenon, <1>2 DEF Dispatch, GatewayFault
    <2>3. WorkerOK'
        BY <1>0, <2>1, <2>2, <1>h DEF AtRecord, Log, BusTypeOK, EventTypes, workerVars
    <2>4. FaultsOK'
        BY Zenon, <1>2, <1>g DEF Dispatch, GatewayFault, Fault
    <2> QED
        BY Zenon, <1>a, <1>b, <1>c, <1>e, <2>1, <2>2, <2>3, <2>4 DEF workerVars
<1>3. ASSUME NEW w \in Workers, Recover(w) \/ Rebalance(w) PROVE TypeInv'
    <2>1. KafkaOK'
        BY Zenon, <1>0, <1>3 DEF Recover, Rebalance, Assign
    <2> QED
        BY Zenon, <1>3, <2>1, <1>a, <1>c, <1>d, <1>e, <1>f, <1>g
        DEF Recover, Rebalance, Fault, workerVars, busVars
<1>4. ASSUME NEW w \in Workers, Crash(w) PROVE TypeInv'
    <2>1. KafkaOK' /\ AttemptsOK'
        BY Zenon, <1>0, <1>4 DEF Crash
    <2>2. WorkerOK'
        BY Zenon, <1>4, RestType DEF Crash, busVars
    <2> QED
        BY Zenon, <1>4, <2>1, <2>2, <1>a, <1>e, <1>f, <1>g DEF Crash, Fault
<1>5. ASSUME NEW w \in Workers, Fetch(w) PROVE TypeInv'
    <2> DEFINE new == [IdleWorker EXCEPT !.phase = "received", !.offset = position + 1]
    <2>1. new \in WorkerState /\ new.offset = position + 1
        <3>1. position + 1 \in Nat
            BY <1>0
        <3> QED
            BY Zenon, <3>1 DEF IdleWorker, WorkerState, Phases
    <2>2. position + 1 \in 1..Len(Log)
        BY <1>0, <1>5 DEF Fetch, BusTypeOK, Log, EventTypes
    <2>3. worker' = [worker EXCEPT ![w] = new] /\ UNCHANGED topic
        BY Zenon, <1>5 DEF Fetch, busVars
    <2> HIDE DEF new
    <2>4. WorkerOK'
        BY Zenon, <2>1, <2>2, <2>3, WorkerType
    <2>5. KafkaOK'
        BY <1>0, <1>5 DEF Fetch
    <2> QED
        BY Zenon, <1>5, <2>4, <2>5, <1>a, <1>c, <1>e, <1>f, <1>g DEF Fetch
<1>6. ASSUME NEW w \in Workers,
             CheckStatus(w) \/ CallModel(w) \/ DatabaseError(w)
      PROVE  TypeInv'
    <2>1. /\ UNCHANGED <<storeVars, busVars, kafkaVars, failure_attempts>>
          /\ UNCHANGED faults \/ faults' = faults + 1
          /\ worker[w].phase \notin {"idle", "waiting"}
          /\ \E p \in {"model_error", "handled", "leasing", "renewing", "failed"} : Goto(w, p)
        BY Zenon, <1>6 DEF CheckStatus, CallModel, DatabaseError, Fault
    <2>2. WorkerOK'
        BY Zenon, <2>1, GotoType DEF Phases, busVars
    <2> QED
        BY Zenon, <2>1, <2>2, <1>a, <1>b, <1>c, <1>e, <1>f, <1>g
<1>7. ASSUME NEW w \in Workers, Acquire(w) PROVE TypeInv'
    <2>1. /\ UNCHANGED <<agent_execution, agent_session, session_event, busVars, kafkaVars,
                         failure_attempts, faults>>
          /\ worker[w].phase = "leasing" /\ Session(w) \in Sessions
          /\ worker[w].offset \in 1..Len(Log)
        BY Zenon, <1>7, MessageType DEF Acquire
    <2>2. CASE AcquireLease(Session(w), w)
        <3> DEFINE s == Session(w)
                   new == [worker[w] EXCEPT !.phase = "running",
                            !.token = LeaseGrant(s).token, !.version = LeaseGrant(s).version]
                   lease == [owner |-> w, token |-> LeaseGrant(s).token, left |-> LeaseTtl]
        <3>1. LeaseGrant(s).token \in Nat /\ LeaseGrant(s).version \in Nat
            BY <1>0, <2>1, <2>2 DEF LeaseGrant, StoreTypeOK, Lease, AcquireLease
        <3>2. lease \in Lease
            BY Zenon, <3>1, TtlAssumption DEF Lease
        <3>3. StoreOK'
            BY Zenon, <1>0, <2>1, <2>2, <3>2 DEF AcquireLease, StoreTypeOK
        <3>4. new \in WorkerState /\ new.offset = worker[w].offset
            BY ZenonT(60), <1>0, <3>1 DEF WorkerState, Phases
        <3>5. worker' = [worker EXCEPT ![w] = new]
            BY Zenon, <1>7, <2>1, <2>2 DEF Acquire, AcquireLease
        <3> HIDE DEF new
        <3>6. WorkerOK'
            BY ZenonT(40), <2>1, <3>4, <3>5, WorkerType DEF busVars
        <3> QED
            BY ZenonT(60), <2>1, <3>3, <3>6, <1>a, <1>b, <1>c, <1>f, <1>g
    <2>3. CASE ~LeaseFree(Session(w), w)
        <3>1. Goto(w, "failed") /\ UNCHANGED storeVars
            BY Zenon, <1>7, <2>1, <2>3 DEF Acquire, AcquireLease, storeVars
        <3>2. WorkerOK'
            BY Zenon, <2>1, <3>1, GotoType DEF Phases, busVars
        <3> QED
            BY Zenon, <2>1, <3>1, <3>2, <1>a, <1>b, <1>c, <1>e, <1>f, <1>g
    <2> QED
        BY Zenon, <1>7, <2>2, <2>3 DEF Acquire
<1>8. ASSUME NEW w \in Workers, Renew(w) PROVE TypeInv'
    <2>1. /\ UNCHANGED <<agent_execution, agent_session, session_event, busVars, kafkaVars,
                         failure_attempts, faults>>
          /\ worker[w].phase = "renewing" /\ Session(w) \in Sessions
        BY Zenon, <1>8, MessageType DEF Renew
    <2>2. WorkerOK'
        <3>1. \E p \in Phases : Goto(w, p)
            BY Zenon, <1>8 DEF Renew, Phases
        <3> QED
            BY Zenon, <2>1, <3>1, GotoType DEF busVars
    <2>3. session_lease' \in [Sessions -> Lease]
        <3>1. [session_lease[Session(w)] EXCEPT !.left = worker[w].token] \in Lease
            BY ZenonT(60), <1>0, <2>1 DEF StoreTypeOK, Lease, WorkerState
        <3> QED
            BY Zenon, <1>0, <1>8, <3>1 DEF Renew, RenewLease, RenewedLeft, StoreTypeOK
    <2> QED
        BY Zenon, <1>0, <2>1, <2>2, <2>3, <1>a, <1>b, <1>c, <1>f, <1>g DEF StoreTypeOK
<1>9. ASSUME NEW w \in Workers, Commit(w) PROVE TypeInv'
    <2> DEFINE m == Message(w)
               s == Session(w)
    <2>1. /\ UNCHANGED <<session_lease, topic, dispatcher, kafkaVars, failure_attempts, faults>>
          /\ worker[w].phase = "committing" /\ m \in Messages /\ s \in Sessions
        BY Zenon, <1>9, MessageType DEF Commit
    <2>2. WorkerOK'
        <3>1. \E p \in Phases : Goto(w, p)
            BY Zenon, <1>9 DEF Commit, Phases
        <3> QED
            BY Zenon, <2>1, <3>1, GotoType
    <2>3. CASE UNCHANGED <<agent_execution, agent_session, session_event, outbox_record>>
        <3>1. UNCHANGED storeVars /\ UNCHANGED busVars
            BY Zenon, <2>1, <2>3 DEF storeVars, busVars
        <3> QED
            BY Zenon, <2>1, <2>2, <3>1, <1>a, <1>b, <1>c, <1>e, <1>f, <1>g
    <2>4. CASE /\ CommitSessionEvents(s, w, m, worker[w].token, worker[w].version)
               /\ agent_execution' = [agent_execution EXCEPT ![m] = "SUCCEEDED"]
               /\ InsertOutboxRecords(m, <<"SESSION_EVENTS_COMMITTED", "EXECUTION_COMPLETED">>)
        <3> DEFINE types == <<"SESSION_EVENTS_COMMITTED", "EXECUTION_COMPLETED">>
        <3>1. types \in Seq(EventTypes) /\ Len(types) = 2
            BY DEF EventTypes
        <3>2. InsertOutboxRecords(m, types) /\ outbox_record \in Seq(OutboxRow)
            BY Zenon, <1>0, <2>4 DEF BusTypeOK
        <3> HIDE DEF types
        <3>3. outbox_record' \in Seq(OutboxRow) /\ Len(outbox_record') = Len(outbox_record) + 2
            BY Zenon, <2>1, <3>1, <3>2, InsertType
        <3>4. BusOK'
            BY <1>0, <2>1, <3>3 DEF BusTypeOK, RowsLocked, RowNumbers
        <3>5. worker[w].version \in Nat
            BY Zenon, <1>0 DEF WorkerState
        <3>6. TurnRows(s, m, worker[w].version) \subseteq EventRow
            BY <2>1, <3>5 DEF TurnRows, EventRow, Kinds
        <3>7. StoreOK'
            BY <1>0, <2>1, <2>4, <3>5, <3>6 DEF StoreTypeOK, CommitSessionEvents, Statuses
        <3> QED
            BY Zenon, <2>1, <2>2, <3>4, <3>7, <1>a, <1>b, <1>c, <1>g
    <2> QED
        BY Zenon, <1>9, <2>3, <2>4 DEF Commit
<1>10. ASSUME NEW w \in Workers, ModelFailed(w) PROVE TypeInv'
    <2>1. worker[w].phase = "model_error" /\ Message(w) \in Messages /\ UNCHANGED topic
        BY Zenon, <1>10, MessageType DEF ModelFailed, busVars
    <2>2. WorkerOK'
        BY Zenon, <1>10, <2>1, GotoType DEF ModelFailed, Phases
    <2>3. StoreOK'
        BY Zenon, <1>0, <1>10 DEF ModelFailed, MarkFailed, StoreTypeOK, Statuses
    <2> QED
        BY Zenon, <1>10, <2>2, <2>3, <1>a, <1>b, <1>c, <1>f, <1>g DEF ModelFailed
<1>11. ASSUME NEW w \in Workers, RecordFailure(w) PROVE TypeInv'
    <2>1. /\ UNCHANGED <<storeVars, busVars, assigned, committed, dead_letter, faults>>
          /\ UNCHANGED topic
          /\ worker[w].phase = "failed" /\ worker[w].offset \in Nat \ {0}
          /\ Goto(w, "poison") \/ Sleep(w)
        BY <1>11, MessageType DEF RecordFailure, busVars
    <2>2. WorkerOK'
        BY Zenon, <2>1, GotoType, RestType DEF Phases
    <2>3. KafkaOK'
        BY <1>0, <1>11, <2>1 DEF RecordFailure, SeekBack
    <2>4. AttemptsOK'
        <3> DEFINE o == worker[w].offset
                   counts == [failure_attempts[w] EXCEPT ![o] = failure_attempts[w][o] + 1]
        <3>1. failure_attempts' = [failure_attempts EXCEPT ![w] = counts]
            BY Zenon, <1>11 DEF RecordFailure
        <3>2. counts \in [Offsets -> Nat]
            <4>1. failure_attempts[w] \in [Offsets -> Nat]
                BY Zenon, <1>0
            <4>2. o \in Offsets => failure_attempts[w][o] + 1 \in Nat
                BY <4>1
            <4> QED
                BY ZenonT(40), <4>1, <4>2
        <3> HIDE DEF counts
        <3> QED
            BY Zenon, <1>0, <3>1, <3>2
    <2> QED
        BY Zenon, <2>1, <2>2, <2>3, <2>4, <1>a, <1>e, <1>f, <1>g
<1>12. ASSUME NEW w \in Workers, PublishDeadLetter(w) PROVE TypeInv'
    <2>1. /\ UNCHANGED <<storeVars, busVars, assigned, committed, failure_attempts>>
          /\ UNCHANGED topic
          /\ worker[w].phase = "poison" /\ worker[w].offset \in Nat \ {0}
          /\ Message(w) \in Messages
          /\ Goto(w, "handled") \/ Sleep(w)
        <3>1. /\ UNCHANGED <<storeVars, busVars, assigned, committed, failure_attempts>>
              /\ worker[w].phase = "poison"
              /\ Goto(w, "handled") \/ Sleep(w)
            BY Zenon, <1>12 DEF PublishDeadLetter
        <3>2. worker[w].offset \in Nat \ {0} /\ Message(w) \in Messages
            BY <3>1, MessageType
        <3> QED
            BY Zenon, <3>1, <3>2 DEF busVars
    <2>2. WorkerOK'
        BY Zenon, <2>1, GotoType, RestType DEF Phases
    <2>3. position' \in Nat /\ FaultsOK'
        <3>1. UNCHANGED position \/ position' = worker[w].offset - 1
            BY Zenon, <1>12 DEF PublishDeadLetter, SeekBack
        <3>2. UNCHANGED faults \/ faults' = faults + 1
            BY Zenon, <1>12 DEF PublishDeadLetter, Fault
        <3> QED
            BY <1>0, <1>g, <2>1, <3>1, <3>2
    <2>4. dead_letter' \subseteq Messages
        BY Zenon, <1>0, <1>12, <2>1 DEF PublishDeadLetter
    <2>5. KafkaOK'
        BY Zenon, <1>0, <2>1, <2>3, <2>4
    <2> QED
        BY Zenon, <2>1, <2>2, <2>3, <2>5, <1>a, <1>c, <1>e, <1>f
<1>13. ASSUME NEW w \in Workers, CommitOffset(w) PROVE TypeInv'
    <2>1. /\ UNCHANGED <<storeVars, busVars, assigned, position, dead_letter>>
          /\ UNCHANGED topic
          /\ worker' = [worker EXCEPT ![w] = IdleWorker] \/ Sleep(w)
        BY Zenon, <1>13 DEF CommitOffset, busVars
    <2>2. WorkerOK'
        BY Zenon, <2>1, RestType
    <2>3. KafkaOK' /\ FaultsOK'
        BY <1>0, <1>h, <1>13, <2>1 DEF CommitOffset, Fault
    <2>4. AttemptsOK'
        <3> DEFINE counts == [failure_attempts[w] EXCEPT ![worker[w].offset] = 0]
        <3>1. \/ failure_attempts' = [failure_attempts EXCEPT ![w] = counts]
              \/ UNCHANGED failure_attempts
            BY Zenon, <1>13 DEF CommitOffset
        <3>2. counts \in [Offsets -> Nat]
            BY Zenon, <1>0
        <3> HIDE DEF counts
        <3> QED
            BY Zenon, <1>0, <3>1, <3>2
    <2> QED
        BY Zenon, <2>1, <2>2, <2>3, <2>4, <1>a, <1>e, <1>f
<1>14. CASE Tick
    <2>1. /\ UNCHANGED <<agent_execution, agent_session, session_event, busVars, kafkaVars,
                         failure_attempts, faults>>
          /\ UNCHANGED topic
        BY Zenon, <1>14 DEF Tick, busVars
    <2>2. IdleWorker \in WorkerState /\ IdleWorker.phase = "idle"
        BY Zenon DEF IdleWorker, WorkerState, Phases
    <2>3. WorkerOK'
        BY Zenon, <1>0, <1>14, <2>1, <2>2 DEF Tick, AtRecord, Log
    <2>4. StoreOK'
        BY Zenon, <1>0, <1>14, <2>1, AgeType DEF Tick, StoreTypeOK
    <2> QED
        BY Zenon, <2>1, <2>3, <2>4, <1>a, <1>b, <1>c, <1>f, <1>g
<1>15. CASE UNCHANGED vars
    BY Zenon, <1>15, <1>a, <1>b, <1>c, <1>d, <1>e, <1>f, <1>g DEF vars, busVars, workerVars
<1> QED
    BY Zenon, <1>1, <1>2, <1>3, <1>4, <1>5, <1>6, <1>7, <1>8, <1>9, <1>10, <1>11, <1>12, <1>13,
       <1>14, <1>15
    DEF Next, WorkerStep

\* Type correctness, with the facts about workers and dispatchers it rests on.
LEMMA TypeInvariant == Spec => []TypeInv
BY InitTypeInv, NextTypeInv, PTL DEF Spec

\* Every variable of the pipeline keeps its type, for any number of sessions,
\* messages, workers, gateway replicas, records and faults.
THEOREM TypeCorrect == Spec => []TypeOK
<1>1. TypeInv => TypeOK
    BY Zenon DEF TypeInv
<1> QED
    BY <1>1, TypeInvariant, PTL

-----------------------------------------------------------------------------
(* Delivery *)

\* No step changes or removes a record of the request topic.
LogGrows ==
    /\ Len(Log') >= Len(Log)
    /\ \A o \in 1..Len(Log) : Log'[o] = Log[o]

\* Only dispatchers write to the topic, and they append.
LEMMA NextLogGrows == TypeInv /\ [Next]_vars => LogGrows
<1> SUFFICES ASSUME TypeInv, [Next]_vars PROVE LogGrows
    BY Zenon
<1>1. Len(Log) \in Nat
    BY  DEF TypeInv, TypeOK, BusTypeOK, Log, EventTypes
<1>2. CASE UNCHANGED topic
    BY <1>1, <1>2 DEF LogGrows, Log
<1>3. ASSUME NEW d \in Dispatchers, Dispatch(d) \/ GatewayFault(d)
      PROVE  LogGrows
    BY Zenon, <1>3, DispatchType DEF TypeInv, TypeOK, Dispatch, GatewayFault, LogGrows
<1>4. ASSUME NEW w \in Workers,
             WorkerStep(w) \/ DatabaseError(w) \/ Recover(w) \/ Rebalance(w) \/ Crash(w)
      PROVE  UNCHANGED topic
    BY Zenon, <1>4
    DEF WorkerStep, DatabaseError, Recover, Rebalance, Crash, Fetch, CheckStatus, Acquire,
        CallModel, Renew, Commit, ModelFailed, RecordFailure, PublishDeadLetter,
        CommitOffset, busVars
<1>5. (\E m \in Messages : Submit(m)) \/ Tick \/ UNCHANGED vars => UNCHANGED topic
    BY Zenon DEF Submit, Tick, vars, busVars
<1> QED
    BY Zenon, <1>2, <1>3, <1>4, <1>5 DEF Next

\* A worker is handling a record.
Busy(w) == worker[w].phase \notin {"idle", "waiting"}

\* The Outbox side of delivery: an accepted message has an Outbox row, and a row
\* that was sent has its message in the topic, also when its mark is rolled back.
RowsDelivered ==
    /\ \A m \in Pending : \E i \in RowNumbers :
            outbox_record[i].type = "EXECUTION_REQUESTED" /\ outbox_record[i].message = m
    /\ \A i \in RowNumbers :
            /\ outbox_record[i].type = "EXECUTION_REQUESTED"
            /\ \/ outbox_record[i].status = "PUBLISHED"
               \/ \E d \in Dispatchers : i \in dispatcher[d].sent
            => \E o \in 1..Len(Log) : Log[o] = outbox_record[i].message

\* The offsets of the consumer group and of its members lie in the topic.
OffsetsInLog ==
    /\ committed <= Len(Log)
    /\ position <= Len(Log)
    /\ \A w \in Workers : worker[w].offset <= Len(Log)

\* The owner of the partition has fetched only what is settled, but for the record
\* it is handling.
PositionSettled ==
    assigned # NoWorker => \A o \in 1..position :
        Settled(Log[o]) \/ (Busy(assigned) /\ worker[assigned].offset = o)

\* A worker about to commit an offset has settled its record.
HandledSettled == \A w \in Workers : worker[w].phase = "handled" => Settled(Message(w))

DeliveryInv ==
    RowsDelivered /\ OffsetsInLog /\ OffsetsSettled /\ PositionSettled /\ HandledSettled

\* What is settled stays settled: FAILED can only become SUCCEEDED, and dead letters
\* are never taken back.
LEMMA SettledStays ==
    TypeInv /\ [Next]_vars => \A m \in Messages : Settled(m) => Settled(m)'
<1> SUFFICES ASSUME TypeInv, [Next]_vars, NEW m \in Messages, Settled(m) PROVE Settled(m)'
    BY Zenon
<1>1. agent_execution \in [Messages -> Statuses]
    BY Zenon DEF TypeInv, TypeOK, StoreTypeOK
<1>2. dead_letter \subseteq dead_letter'
    BY ZenonT(40) DEF Next, Submit, Dispatch, GatewayFault, WorkerStep, DatabaseError, Recover, Rebalance,
           Crash, Fetch, CheckStatus, Acquire, CallModel, Renew, Commit, ModelFailed,
           RecordFailure, PublishDeadLetter, CommitOffset, Tick, vars, kafkaVars
<1>3. CASE UNCHANGED agent_execution
    BY Zenon, <1>2, <1>3 DEF Settled
<1>4. ASSUME NEW k \in Messages, Submit(k) PROVE Settled(m)'
    BY Zenon, <1>1, <1>2, <1>4 DEF Submit, Settled, NoRow
<1>5. ASSUME NEW w \in Workers, Commit(w) PROVE Settled(m)'
    BY Zenon, <1>1, <1>2, <1>3, <1>5 DEF Commit, Settled
<1>6. ASSUME NEW w \in Workers, ModelFailed(w) PROVE Settled(m)'
    BY Zenon, <1>1, <1>2, <1>6 DEF ModelFailed, MarkFailed, Settled
<1>7. \/ \E k \in Messages : Submit(k)
      \/ \E w \in Workers : Commit(w) \/ ModelFailed(w)
      \/ UNCHANGED agent_execution
    BY ZenonT(40) DEF Next, Dispatch, GatewayFault, WorkerStep, DatabaseError, Recover, Rebalance,
           Crash, Fetch, CheckStatus, Acquire, CallModel, Renew, RecordFailure,
           PublishDeadLetter, CommitOffset, Tick, vars, storeVars
<1> QED
    BY Zenon, <1>3, <1>4, <1>5, <1>6, <1>7

\* A worker goes on with its record, and leaves it for the offset commit only
\* when it is settled.
Progresses(w) ==
    /\ Busy(w) /\ Busy(w)'
    /\ worker'[w].offset = worker[w].offset
    /\ worker'[w].phase = "handled" =>
        agent_execution'[Message(w)] \in {"SUCCEEDED", "FAILED"} \/ Message(w) \in dead_letter'

\* A worker lets go of its record: the record is settled, or the owner of the
\* partition seeks back to it, or the partition has lost its owner.
Rests(w) ==
    /\ ~Busy(w)' /\ worker'[w].offset = 0
    /\ Busy(w) /\ assigned = w =>
        \/ worker[w].phase = "handled" /\ UNCHANGED <<assigned, position>>
        \/ position' = worker[w].offset - 1 /\ UNCHANGED assigned
        \/ assigned' = NoWorker

\* What any step does to a worker's hold on its record.
LEMMA WorkerProgress ==
    ASSUME TypeInv, [Next]_vars, NEW w \in Workers
    PROVE  worker'[w] = worker[w] \/ Fetch(w) \/ Progresses(w) \/ Rests(w)
<1>1. worker \in [Workers -> WorkerState] /\ IdleWorker.phase = "idle" /\ IdleWorker.offset = 0
    BY Zenon DEF TypeInv, TypeOK, IdleWorker
<1>2. CASE UNCHANGED worker
    BY Zenon, <1>2
<1>3. ASSUME NEW v \in Workers \ {w}, WorkerStep(v) \/ DatabaseError(v) \/ Crash(v)
      PROVE  worker'[w] = worker[w]
    BY Zenon, <1>1, <1>3
    DEF WorkerStep, DatabaseError, Crash, Fetch, CheckStatus, Acquire, CallModel, Renew,
        Commit, ModelFailed, RecordFailure, PublishDeadLetter, CommitOffset, Goto, Sleep
<1>4. ASSUME CheckStatus(w) \/ CallModel(w) \/ Renew(w) \/ ModelFailed(w) \/ DatabaseError(w)
      PROVE  Progresses(w)
    <2>1. Busy(w) /\ UNCHANGED topic
        BY Zenon, <1>4
        DEF CheckStatus, CallModel, Renew, ModelFailed, DatabaseError, Busy, busVars
    <2>2. CASE \E p \in Phases \ {"idle", "waiting", "handled"} : Goto(w, p)
        BY Zenon, <2>1, <2>2, GotoType DEF Busy, Progresses
    <2>3. CASE /\ Goto(w, "handled") /\ UNCHANGED agent_execution
               /\ agent_execution[Message(w)] \in {"SUCCEEDED", "FAILED"}
        BY Zenon, <2>1, <2>3, GotoType DEF Busy, Progresses, Phases
    <2> QED
        BY Zenon, <1>4, <2>2, <2>3
        DEF CheckStatus, CallModel, Renew, ModelFailed, DatabaseError, Phases, storeVars
<1>5. CASE Acquire(w)
    <2>1. Busy(w) /\ UNCHANGED topic
        BY Zenon, <1>5 DEF Acquire, Busy, busVars
    <2>2. CASE Goto(w, "failed")
        BY Zenon, <2>1, <2>2, GotoType DEF Busy, Progresses, Phases
    <2>3. CASE AcquireLease(Session(w), w)
        BY <1>1, <1>5, <2>1, <2>2, <2>3 DEF Acquire, Busy, Progresses, WorkerState
    <2> QED
        BY Zenon, <1>5, <2>2, <2>3 DEF Acquire
<1>6. CASE Commit(w)
    <2>1. Busy(w) /\ UNCHANGED topic /\ Message(w) \in Messages
        BY Zenon, <1>6, MessageType DEF Commit, Busy
    <2>2. agent_execution \in [Messages -> Statuses]
        BY Zenon DEF TypeInv, TypeOK, StoreTypeOK
    <2>3. CASE Goto(w, "failed")
        BY Zenon, <2>1, <2>3, GotoType DEF Busy, Progresses, Phases
    <2>4. CASE Goto(w, "handled") /\ agent_execution'[Message(w)] = "SUCCEEDED"
        BY Zenon, <2>1, <2>4, GotoType DEF Busy, Progresses, Phases
    <2> QED
        BY ZenonT(40), <1>6, <2>1, <2>2, <2>3, <2>4 DEF Commit
<1>7. CASE RecordFailure(w)
    <2>1. Busy(w) /\ UNCHANGED topic /\ UNCHANGED assigned
        BY Zenon, <1>7 DEF RecordFailure, Busy, busVars
    <2>2. CASE Goto(w, "poison")
        BY Zenon, <2>1, <2>2, GotoType DEF Busy, Progresses, Phases
    <2>3. CASE Sleep(w) /\ SeekBack(w)
        BY Zenon, <2>1, <2>3, RestType DEF Busy, Rests, SeekBack
    <2> QED
        BY Zenon, <1>7, <2>2, <2>3 DEF RecordFailure
<1>8. CASE PublishDeadLetter(w)
    <2>1. Busy(w) /\ UNCHANGED topic /\ UNCHANGED assigned
        BY Zenon, <1>8 DEF PublishDeadLetter, Busy, busVars
    <2>2. CASE Goto(w, "handled") /\ Message(w) \in dead_letter'
        BY Zenon, <2>1, <2>2, GotoType DEF Busy, Progresses, Phases
    <2>3. CASE Sleep(w) /\ SeekBack(w)
        BY Zenon, <2>1, <2>3, RestType DEF Busy, Rests, SeekBack
    <2> QED
        BY Zenon, <1>8, <2>2, <2>3 DEF PublishDeadLetter
<1>9. CASE CommitOffset(w)
    <2>1. /\ UNCHANGED topic /\ UNCHANGED <<assigned, position>> /\ worker[w].phase = "handled"
          /\ Sleep(w) \/ worker' = [worker EXCEPT ![w] = IdleWorker]
        BY Zenon, <1>9 DEF CommitOffset, busVars
    <2> QED
        BY Zenon, <2>1, RestType DEF Busy, Rests
<1>10. CASE Crash(w)
    <2>1. UNCHANGED topic /\ (assigned = w => assigned' = NoWorker)
        BY Zenon, <1>10 DEF Crash, busVars
    <2>2. ~Busy(w)' /\ worker'[w].offset = 0
        BY ZenonT(40), <1>10, <2>1, RestType DEF Crash, Busy
    <2> QED
        BY Zenon, <2>1, <2>2 DEF Rests
<1>11. CASE Tick
    BY Zenon, <1>1, <1>11 DEF Tick, Busy, Rests
<1>12. \/ UNCHANGED worker \/ Tick
       \/ \E v \in Workers : WorkerStep(v) \/ DatabaseError(v) \/ Crash(v)
    BY Zenon DEF Next, Submit, Dispatch, GatewayFault, Recover, Rebalance, vars, workerVars
<1> QED
    BY Zenon, <1>2, <1>3, <1>4, <1>5, <1>6, <1>7, <1>8, <1>9, <1>10, <1>11, <1>12 DEF WorkerStep

\* What any step does to the committed offset and to the owner's position.
LEMMA GroupProgress ==
    ASSUME TypeInv, [Next]_vars
    PROVE  /\ \/ UNCHANGED committed
              \/ \E w \in Workers : worker[w].phase = "handled" /\ committed' = worker[w].offset
           /\ \/ UNCHANGED <<assigned, position>>
              \/ position' = committed /\ UNCHANGED committed
              \/ \E w \in Workers : Fetch(w)
              \/ assigned' = NoWorker /\ UNCHANGED position
              \/ \E w \in Workers : /\ Busy(w) /\ ~Busy(w)' /\ assigned = w /\ UNCHANGED assigned
                                    /\ position' = worker[w].offset - 1
<1>1. \/ UNCHANGED committed
      \/ \E w \in Workers : worker[w].phase = "handled" /\ committed' = worker[w].offset
    BY ZenonT(40) DEF Next, Submit, Dispatch, GatewayFault, WorkerStep, DatabaseError, Recover, Rebalance,
           Crash, Fetch, CheckStatus, Acquire, CallModel, Renew, Commit, ModelFailed,
           RecordFailure, PublishDeadLetter, CommitOffset, Tick, vars, kafkaVars
<1>2. ASSUME NEW w \in Workers, RecordFailure(w) \/ PublishDeadLetter(w)
      PROVE  \/ UNCHANGED <<assigned, position>>
             \/ /\ Busy(w) /\ ~Busy(w)' /\ assigned = w /\ UNCHANGED assigned
                /\ position' = worker[w].offset - 1
    <2>1. Busy(w) /\ UNCHANGED topic /\ UNCHANGED assigned
        BY Zenon, <1>2 DEF RecordFailure, PublishDeadLetter, Busy, busVars
    <2>2. CASE UNCHANGED position
        BY Zenon, <2>1, <2>2
    <2>3. CASE Sleep(w) /\ SeekBack(w)
        BY Zenon, <2>1, <2>3, RestType DEF SeekBack, Busy
    <2> QED
        BY Zenon, <1>2, <2>2, <2>3 DEF RecordFailure, PublishDeadLetter
<1>3. ASSUME NEW w \in Workers, Crash(w)
      PROVE  UNCHANGED <<assigned, position>> \/ (assigned' = NoWorker /\ UNCHANGED position)
    BY Zenon, <1>3 DEF Crash
<1>4. \/ UNCHANGED <<assigned, position>>
      \/ position' = committed /\ UNCHANGED committed
      \/ \E w \in Workers : Fetch(w) \/ RecordFailure(w) \/ PublishDeadLetter(w) \/ Crash(w)
    <2>1. ASSUME NEW w \in Workers, Recover(w) \/ Rebalance(w)
          PROVE  position' = committed /\ UNCHANGED committed
        BY Zenon, <2>1 DEF Recover, Rebalance, Assign
    <2>2. ASSUME NEW w \in Workers,
                 \/ CheckStatus(w) \/ Acquire(w) \/ CallModel(w) \/ Renew(w) \/ Commit(w)
                 \/ ModelFailed(w) \/ CommitOffset(w) \/ DatabaseError(w)
          PROVE  UNCHANGED <<assigned, position>>
        BY Zenon, <2>2 DEF CheckStatus, Acquire, CallModel, Renew, Commit, ModelFailed, CommitOffset,
                    DatabaseError, kafkaVars
    <2>3. ASSUME \/ \E m \in Messages : Submit(m)
                 \/ \E d \in Dispatchers : Dispatch(d) \/ GatewayFault(d)
                 \/ Tick \/ UNCHANGED vars
          PROVE  UNCHANGED <<assigned, position>>
        BY Zenon, <2>3 DEF Submit, Dispatch, GatewayFault, Tick, vars, kafkaVars
    <2> QED
        BY Zenon, <2>1, <2>2, <2>3 DEF Next, WorkerStep
<1> QED
    BY ZenonT(40), <1>1, <1>2, <1>3, <1>4

\* The consumer side of delivery is kept by every step.
LEMMA NextConsumer ==
    ASSUME TypeInv, DeliveryInv, [Next]_vars
    PROVE  (OffsetsInLog /\ OffsetsSettled /\ PositionSettled /\ HandledSettled)'
<1>1. /\ Len(Log) \in Nat /\ Len(Log') \in Nat
      /\ committed \in Nat /\ position \in Nat /\ committed' \in Nat /\ position' \in Nat
      /\ \A w \in Workers : worker[w].offset \in Nat /\ worker'[w].offset \in Nat
      /\ \A o \in 1..Len(Log) : Log[o] \in Messages
    <2>1. TypeInv'
        BY Zenon, NextTypeInv
    <2>2. topic["EXECUTION_REQUESTED"] \in Seq(Messages) /\ topic'["EXECUTION_REQUESTED"] \in Seq(Messages)
        BY Zenon, <2>1 DEF TypeInv, TypeOK, BusTypeOK, EventTypes
    <2>3. \A w \in Workers : worker[w] \in WorkerState /\ worker'[w] \in WorkerState
        BY Zenon, <2>1 DEF TypeInv, TypeOK
    <2>4. committed \in Nat /\ position \in Nat /\ committed' \in Nat /\ position' \in Nat
        BY Zenon, <2>1 DEF TypeInv, TypeOK
    <2> QED
        BY <2>2, <2>3, <2>4 DEF Log, WorkerState
<1>2. LogGrows
    BY Zenon, NextLogGrows
<1>3. \A o \in 1..Len(Log) : Settled(Log[o]) => Settled(Log[o])'
    <2>1. \A o \in 1..Len(Log) : Log[o] \in Messages /\ Log'[o] = Log[o]
        BY Zenon, <1>1, <1>2 DEF LogGrows
    <2>2. ASSUME NEW m \in Messages, Settled(m)
          PROVE  agent_execution'[m] \in {"SUCCEEDED", "FAILED"} \/ m \in dead_letter'
        BY Zenon, <2>2, SettledStays DEF Settled
    <2> QED
        BY Zenon, <2>1, <2>2 DEF Settled
<1>4. OffsetsInLog /\ OffsetsSettled /\ PositionSettled /\ HandledSettled
    BY Zenon DEF DeliveryInv
<1>5. ASSUME NEW w \in Workers, Fetch(w)
      PROVE  /\ assigned = w /\ UNCHANGED <<assigned, committed>> /\ ~Busy(w) /\ Busy(w)'
             /\ position' = position + 1 /\ position < Len(Log)
             /\ worker'[w].offset = position + 1 /\ worker'[w].phase = "received"
    BY Zenon, <1>5 DEF Fetch, Busy, IdleWorker, TypeInv, TypeOK, WorkerState
<1>6. \A w \in Workers : worker'[w].offset <= Len(Log)
    BY <1>1, <1>4, <1>5, WorkerProgress DEF OffsetsInLog, Progresses, Rests
<1>7. committed' <= Len(Log) /\ \A o \in 1..committed' : Settled(Log[o])
    <2>1. ASSUME NEW w \in Workers, worker[w].phase = "handled" PROVE Settled(Log[worker[w].offset])
        BY Zenon, <1>4, <2>1 DEF HandledSettled, Message
    <2> QED
        BY <1>1, <1>4, <2>1, GroupProgress DEF OffsetsInLog, OffsetsSettled
<1>8. \A w \in Workers : \A o \in 1..worker'[w].offset - 1 : Settled(Log[o])
    <2> SUFFICES ASSUME NEW w \in Workers, NEW o \in 1..worker'[w].offset - 1
                 PROVE  Settled(Log[o])
        BY Zenon
    <2>1. CASE Fetch(w)
        <3>1. o \in 1..position
            BY <1>1, <1>5, <2>1
        <3>2. assigned # NoWorker /\ ~Busy(assigned)
            BY Zenon, <1>5, <2>1, WorkerAssumption
        <3> QED
            BY Zenon, <1>4, <3>1, <3>2 DEF PositionSettled
    <2>2. CASE worker'[w].offset = worker[w].offset
        BY Zenon, <1>4, <2>2 DEF OffsetsSettled
    <2>3. CASE worker'[w].offset = 0
        BY <2>3
    <2> QED
        BY Zenon, <2>1, <2>2, <2>3, WorkerProgress DEF Progresses, Rests
<1>9. OffsetsSettled'
    <2>1. \A o \in 1..committed' : Settled(Log[o])'
        BY <1>1, <1>3, <1>7
    <2>2. \A w \in Workers : \A o \in 1..worker'[w].offset - 1 : Settled(Log[o])'
        BY <1>1, <1>3, <1>6, <1>8
    <2> QED
        BY Zenon, <2>1, <2>2 DEF OffsetsSettled
<1>10. HandledSettled'
    <2> SUFFICES ASSUME NEW w \in Workers, worker'[w].phase = "handled"
                 PROVE  Settled(Message(w))'
        BY Zenon DEF HandledSettled
    <2>1. Busy(w)' /\ ~Fetch(w)
        BY Zenon, <1>5 DEF Busy
    <2>2. /\ worker'[w].offset = worker[w].offset /\ Busy(w)
          /\ Settled(Message(w)) \/ agent_execution'[Message(w)] \in {"SUCCEEDED", "FAILED"}
                \/ Message(w) \in dead_letter'
        BY Zenon, <1>4, <2>1, WorkerProgress DEF Progresses, Rests, HandledSettled, Busy
    <2>3. worker[w].offset \in 1..Len(Log) /\ Message(w) = Log[worker[w].offset]
        BY Zenon, <2>2, MessageType DEF Busy, Message
    <2>4. Message(w)' = Message(w)
        BY <1>2, <2>2, <2>3 DEF Message, LogGrows
    <2> QED
        BY Zenon, <1>3, <2>2, <2>3, <2>4 DEF Settled, Message
<1>11. position' <= Len(Log)
    BY <1>1, <1>4, <1>5, <1>7, GroupProgress DEF OffsetsInLog
<1>12. PositionSettled'
    <2> SUFFICES ASSUME assigned' # NoWorker, NEW o \in 1..position'
                 PROVE  Settled(Log[o])' \/ (Busy(assigned)' /\ worker'[assigned'].offset = o)
        BY Zenon DEF PositionSettled
    <2>0. o \in 1..Len(Log) /\ assigned' \in Workers
        BY <1>1, <1>11, NextTypeInv DEF TypeInv, TypeOK
    <2>1. CASE UNCHANGED <<assigned, position>>
        <3> DEFINE w == assigned
        <3>1. Settled(Log[o]) \/ (Busy(w) /\ worker[w].offset = o)
            BY Zenon, <1>4, <2>1 DEF PositionSettled
        <3>2. CASE Settled(Log[o])
            BY Zenon, <1>3, <2>0, <3>2
        <3>3. CASE Busy(w) /\ worker[w].offset = o
            <4>1. CASE worker'[w] = worker[w] \/ Progresses(w)
                BY Zenon, <2>1, <3>3, <4>1 DEF Progresses, Busy
            <4>2. CASE Rests(w)
                <5>1. worker[w].phase = "handled"
                    BY <1>1, <2>0, <2>1, <3>3, <4>2, <1>5 DEF Rests
                <5> QED
                    BY ZenonT(40), <1>3, <1>4, <2>0, <2>1, <3>3, <5>1 DEF HandledSettled, Message
            <4> QED
                BY Zenon, <1>5, <2>0, <2>1, <3>3, <4>1, <4>2, WorkerProgress
        <3> QED
            BY Zenon, <3>1, <3>2, <3>3
    <2>2. CASE position' = committed /\ UNCHANGED committed
        BY Zenon, <1>3, <1>4, <2>0, <2>2 DEF OffsetsSettled
    <2>3. ASSUME NEW w \in Workers, Fetch(w)
          PROVE  Settled(Log[o])' \/ (Busy(assigned)' /\ worker'[assigned'].offset = o)
        <3>1. assigned = w /\ assigned' = w /\ ~Busy(w) /\ Busy(w)' /\ assigned # NoWorker
            BY Zenon, <1>5, <2>3, WorkerAssumption
        <3>2. o \in 1..position \/ o = worker'[w].offset
            BY <1>1, <1>5, <2>3
        <3>3. CASE o \in 1..position
            BY Zenon, <1>3, <1>4, <2>0, <3>1, <3>3 DEF PositionSettled
        <3>4. CASE o = worker'[w].offset
            BY Zenon, <3>1, <3>4 DEF Busy
        <3> QED
            BY Zenon, <3>2, <3>3, <3>4
    <2>4. ASSUME NEW w \in Workers, position' = worker[w].offset - 1
          PROVE  Settled(Log[o])'
        BY Zenon, <1>3, <1>4, <2>0, <2>4 DEF OffsetsSettled
    <2> QED
        BY Zenon, <2>1, <2>2, <2>3, <2>4, GroupProgress
<1>13. OffsetsInLog'
    BY <1>1, <1>2, <1>6, <1>7, <1>11 DEF OffsetsInLog, LogGrows
<1> QED
    BY Zenon, <1>9, <1>10, <1>12, <1>13

\* A step of the bus: rows keep their type and message, and a row that becomes
\* PUBLISHED or sent has its message in the topic.
RowsStay ==
    /\ Len(outbox_record') >= Len(outbox_record)
    /\ \A i \in RowNumbers : /\ outbox_record'[i].type = outbox_record[i].type
                             /\ outbox_record'[i].message = outbox_record[i].message
    /\ \A i \in RowNumbers' :
        /\ outbox_record'[i].type = "EXECUTION_REQUESTED"
        /\ \/ outbox_record'[i].status = "PUBLISHED"
           \/ \E d \in Dispatchers : i \in dispatcher'[d].sent
        => \/ /\ i \in RowNumbers
              /\ \/ outbox_record[i].status = "PUBLISHED"
                 \/ \E d \in Dispatchers : i \in dispatcher[d].sent
           \/ \E o \in 1..Len(Log') : Log'[o] = outbox_record'[i].message

\* New rows are appended PENDING and unsent.
LEMMA InsertRowsStay ==
    ASSUME TypeInv, NEW m \in Messages, NEW types \in Seq(EventTypes),
           InsertOutboxRecords(m, types), UNCHANGED <<topic, dispatcher>>
    PROVE  RowsStay
<1>1. outbox_record \in Seq(OutboxRow) /\ Len(outbox_record) \in Nat /\ Len(types) \in Nat
    BY  DEF TypeInv, TypeOK, BusTypeOK
<1>2. /\ Len(outbox_record') = Len(outbox_record) + Len(types)
      /\ \A i \in 1..Len(outbox_record) : outbox_record'[i] = outbox_record[i]
      /\ \A i \in 1..Len(types) : outbox_record'[Len(outbox_record) + i] =
            [type |-> types[i], message |-> m, status |-> "PENDING"]
    BY Zenon, <1>1, InsertType
<1>3. ASSUME NEW i \in RowNumbers', i \notin RowNumbers
      PROVE  outbox_record'[i].status = "PENDING"
    <2>1. \E k \in 1..Len(types) : i = Len(outbox_record) + k
        <3>1. i - Len(outbox_record) \in 1..Len(types)
            BY <1>1, <1>2, <1>3 DEF RowNumbers
        <3>2. i = Len(outbox_record) + (i - Len(outbox_record))
            BY <1>1, <1>2, <1>3 DEF RowNumbers
        <3> QED
            BY Zenon, <3>1, <3>2
    <2>2. PICK k \in 1..Len(types) : i = Len(outbox_record) + k
        BY Zenon, <2>1
    <2>3. outbox_record'[i] = [type |-> types[k], message |-> m, status |-> "PENDING"]
        BY Zenon, <1>2, <2>2
    <2> QED
        BY <2>3
<1>4. \A d \in Dispatchers : dispatcher'[d].sent \subseteq RowNumbers
    BY Zenon DEF TypeInv, RowsLocked
<1> QED
    BY <1>1, <1>2, <1>3, <1>4 DEF RowsStay, RowNumbers

\* A dispatcher's steps: publishing appends the message, committing marks sent rows.
LEMMA DispatchRowsStay ==
    ASSUME TypeInv, NEW d \in Dispatchers,
           \/ SelectPending(d) \/ PublishRow(d) \/ CommitBatch(d)
           \/ DispatchFailed(d) \/ RestartGateway(d)
    PROVE  RowsStay
<1>1. /\ outbox_record \in Seq(OutboxRow) /\ Len(outbox_record) \in Nat
      /\ dispatcher \in [Dispatchers -> DispatcherState]
      /\ dispatcher[d].rows \subseteq RowNumbers /\ dispatcher[d].sent \subseteq dispatcher[d].rows
      /\ topic \in [EventTypes -> Seq(Messages)]
    BY  DEF TypeInv, TypeOK, BusTypeOK, RowsLocked
<1>2. ASSUME SelectPending(d) \/ DispatchFailed(d) \/ RestartGateway(d)
      PROVE  RowsStay
    <2>1. UNCHANGED <<outbox_record, topic>>
        BY Zenon, <1>2 DEF SelectPending, DispatchFailed, RestartGateway
    <2>2. IdleDispatcher.sent = {} /\ [IdleDispatcher EXCEPT !.loop = "ended"].sent = {}
        BY Zenon DEF IdleDispatcher
    <2>3. \A e \in Dispatchers : dispatcher'[e].sent \subseteq dispatcher[e].sent
        <3>1. CASE SelectPending(d)
            BY Zenon, <1>1, <3>1 DEF SelectPending, DispatcherState
        <3>2. CASE DispatchFailed(d)
            BY Zenon, <1>1, <2>2, <3>2 DEF DispatchFailed
        <3>3. CASE RestartGateway(d)
            BY Zenon, <1>1, <2>2, <3>3 DEF RestartGateway
        <3> QED
            BY Zenon, <1>2, <3>1, <3>2, <3>3
    <2> QED
        BY <1>1, <2>1, <2>3 DEF RowsStay, RowNumbers
<1>3. CASE PublishRow(d)
    <2>1. PICK i \in dispatcher[d].rows \ dispatcher[d].sent :
            /\ topic' = [topic EXCEPT
                    ![outbox_record[i].type] = Append(@, outbox_record[i].message)]
            /\ dispatcher' = [dispatcher EXCEPT ![d].sent = @ \cup {i}]
            /\ UNCHANGED outbox_record
        BY Zenon, <1>3 DEF PublishRow
    <2>2. outbox_record[i] \in OutboxRow /\ i \in RowNumbers
        BY <1>1, <2>1 DEF RowNumbers
    <2>3. outbox_record[i].type \in EventTypes /\ outbox_record[i].message \in Messages
        BY Zenon, <2>2 DEF OutboxRow
    <2>4. outbox_record[i].type = "EXECUTION_REQUESTED" =>
            \E o \in 1..Len(Log') : Log'[o] = outbox_record[i].message
        <3> SUFFICES ASSUME outbox_record[i].type = "EXECUTION_REQUESTED"
                     PROVE  \E o \in 1..Len(Log') : Log'[o] = outbox_record[i].message
            BY Zenon
        <3>1. Log' = Append(Log, outbox_record[i].message) /\ Log \in Seq(Messages)
            BY Zenon, <1>1, <2>1, <2>3 DEF Log, EventTypes
        <3>2. Len(Log') = Len(Log) + 1 /\ Log'[Len(Log) + 1] = outbox_record[i].message
            BY <2>3, <3>1
        <3>3. Len(Log) + 1 \in 1..Len(Log')
            BY <3>1, <3>2
        <3> QED
            BY Zenon, <3>2, <3>3
    <2>5. \A e \in Dispatchers : dispatcher'[e].sent \subseteq dispatcher[e].sent \cup {i}
        BY Zenon, <1>1, <2>1 DEF DispatcherState
    <2> QED
        BY <1>1, <2>1, <2>4, <2>5 DEF RowsStay, RowNumbers
<1>4. CASE CommitBatch(d)
    <2>1. UNCHANGED topic /\ dispatcher[d].sent = dispatcher[d].rows
        BY Zenon, <1>4 DEF CommitBatch
    <2>2. \A e \in Dispatchers : dispatcher'[e].sent \subseteq dispatcher[e].sent
        BY Zenon, <1>1, <1>4 DEF CommitBatch, IdleDispatcher
    <2>3. /\ Len(outbox_record') = Len(outbox_record)
          /\ \A i \in RowNumbers : outbox_record'[i] =
                IF i \in dispatcher[d].rows
                THEN [outbox_record[i] EXCEPT !.status = "PUBLISHED"] ELSE outbox_record[i]
        BY <1>1, <1>4 DEF CommitBatch, MarkPublished, RowNumbers
    <2>4. ASSUME NEW i \in RowNumbers
          PROVE  /\ outbox_record'[i].type = outbox_record[i].type
                 /\ outbox_record'[i].message = outbox_record[i].message
                 /\ i \notin dispatcher[d].rows => outbox_record'[i] = outbox_record[i]
        <3>1. outbox_record[i] \in OutboxRow
            BY <1>1 DEF RowNumbers
        <3> QED
            BY Zenon, <2>3, <3>1 DEF OutboxRow
    <2> QED
        BY <1>1, <2>1, <2>2, <2>3, <2>4 DEF RowsStay, RowNumbers
<1> QED
    BY Zenon, <1>2, <1>3, <1>4

\* Every step keeps the rows, and a message becomes PENDING with its row.
LEMMA NextRows ==
    ASSUME TypeInv, [Next]_vars
    PROVE  /\ RowsStay
           /\ \A m \in Pending' \ Pending : \E i \in RowNumbers' :
                /\ outbox_record'[i].type = "EXECUTION_REQUESTED"
                /\ outbox_record'[i].message = m
<1>1. /\ outbox_record \in Seq(OutboxRow) /\ Len(outbox_record) \in Nat
      /\ agent_execution \in [Messages -> Statuses]
    BY DEF TypeInv, TypeOK, BusTypeOK, StoreTypeOK
<1>2. UNCHANGED busVars => RowsStay
    BY <1>1 DEF RowsStay, RowNumbers, busVars
<1>3. ASSUME NEW m \in Messages, Submit(m)
      PROVE  /\ RowsStay
             /\ Pending' \subseteq Pending \cup {m}
             /\ \E i \in RowNumbers' : /\ outbox_record'[i].type = "EXECUTION_REQUESTED"
                                       /\ outbox_record'[i].message = m
    <2> DEFINE types == <<"EXECUTION_REQUESTED">>
    <2>1. InsertOutboxRecords(m, types) /\ UNCHANGED <<topic, dispatcher>>
        BY Zenon, <1>3 DEF Submit
    <2>2. types \in Seq(EventTypes) /\ Len(types) = 1 /\ types[1] = "EXECUTION_REQUESTED"
        BY  DEF EventTypes
    <2> HIDE DEF types
    <2>3. /\ Len(outbox_record') = Len(outbox_record) + 1
          /\ outbox_record'[Len(outbox_record) + 1] =
                [type |-> "EXECUTION_REQUESTED", message |-> m, status |-> "PENDING"]
        <3>1. 1 \in 1..Len(types)
            BY <2>2
        <3> QED
            BY ZenonT(40), <1>1, <2>1, <2>2, <3>1, InsertType
    <2>4. Len(outbox_record) + 1 \in RowNumbers'
        BY <1>1, <2>3 DEF RowNumbers
    <2>5. RowsStay
        BY Zenon, <2>1, <2>2, InsertRowsStay
    <2>6. Pending' \subseteq Pending \cup {m}
        BY Zenon, <1>1, <1>3 DEF Submit, Pending
    <2> QED
        BY <2>3, <2>4, <2>5, <2>6
<1>4. ASSUME NEW d \in Dispatchers, Dispatch(d) \/ GatewayFault(d)
      PROVE  RowsStay
    BY Zenon, <1>4, DispatchRowsStay DEF Dispatch, GatewayFault
<1>5. ASSUME NEW w \in Workers, Commit(w) PROVE RowsStay /\ Pending' \subseteq Pending
    <2>1. Message(w) \in Messages /\ UNCHANGED <<topic, dispatcher>>
        BY Zenon, <1>5, MessageType DEF Commit
    <2>2. CASE InsertOutboxRecords(Message(w), <<"SESSION_EVENTS_COMMITTED", "EXECUTION_COMPLETED">>)
        <3> DEFINE types == <<"SESSION_EVENTS_COMMITTED", "EXECUTION_COMPLETED">>
        <3>1. types \in Seq(EventTypes) /\ InsertOutboxRecords(Message(w), types)
            BY <2>2 DEF EventTypes
        <3> HIDE DEF types
        <3> QED
            BY Zenon, <1>1, <1>5, <2>1, <3>1, InsertRowsStay DEF Commit, Pending
    <2>3. CASE UNCHANGED <<outbox_record, agent_execution>>
        BY Zenon, <1>2, <2>1, <2>3 DEF busVars, Pending
    <2> QED
        BY Zenon, <1>5, <2>2, <2>3 DEF Commit
<1>6. ASSUME NEW w \in Workers, ModelFailed(w) PROVE RowsStay /\ Pending' \subseteq Pending
    BY Zenon, <1>1, <1>2, <1>6 DEF ModelFailed, MarkFailed, Pending
<1>7. \/ \E m \in Messages : Submit(m)
      \/ \E d \in Dispatchers : Dispatch(d) \/ GatewayFault(d)
      \/ \E w \in Workers : Commit(w) \/ ModelFailed(w)
      \/ UNCHANGED busVars
    BY ZenonT(40) DEF Next, WorkerStep, DatabaseError, Recover, Rebalance, Crash, Fetch, CheckStatus,
           Acquire, CallModel, Renew, RecordFailure, PublishDeadLetter, CommitOffset, Tick, vars
<1>8. (\E m \in Messages : Submit(m)) \/ (\E w \in Workers : Commit(w)) \/ Pending' \subseteq Pending
    <2>1. \/ \E m \in Messages : Submit(m)
          \/ \E w \in Workers : Commit(w) \/ ModelFailed(w)
          \/ UNCHANGED agent_execution
        BY ZenonT(40) DEF Next, Dispatch, GatewayFault, WorkerStep, DatabaseError, Recover, Rebalance,
               Crash, Fetch, CheckStatus, Acquire, CallModel, Renew, RecordFailure,
               PublishDeadLetter, CommitOffset, Tick, vars, storeVars
    <2> QED
        BY Zenon, <1>6, <2>1 DEF Pending
<1> QED
    BY Zenon, <1>2, <1>3, <1>4, <1>5, <1>6, <1>7, <1>8

\* Every step keeps the Outbox side of delivery.
LEMMA NextRowsDelivered ==
    ASSUME TypeInv, RowsDelivered, [Next]_vars
    PROVE  RowsDelivered'
<1>1. RowsStay /\ LogGrows
    BY Zenon, NextRows, NextLogGrows
<1>2. Len(outbox_record) \in Nat /\ Len(outbox_record') \in Nat /\ Len(Log) \in Nat /\ Len(Log') \in Nat
    <2>1. TypeInv'
        BY Zenon, NextTypeInv
    <2> QED
        BY <2>1 DEF TypeInv, TypeOK, BusTypeOK, Log, EventTypes
<1>3. ASSUME NEW m \in Pending'
      PROVE  \E i \in RowNumbers' : /\ outbox_record'[i].type = "EXECUTION_REQUESTED"
                                    /\ outbox_record'[i].message = m
    <2>1. CASE m \in Pending
        <3>1. PICK i \in RowNumbers : /\ outbox_record[i].type = "EXECUTION_REQUESTED"
                                      /\ outbox_record[i].message = m
            BY Zenon, <2>1 DEF RowsDelivered
        <3>2. i \in RowNumbers'
            BY <1>1, <1>2 DEF RowsStay, RowNumbers
        <3> QED
            BY Zenon, <1>1, <3>1, <3>2 DEF RowsStay
    <2> QED
        BY Zenon, <2>1, <1>3, NextRows
<1>4. ASSUME NEW i \in RowNumbers',
             outbox_record'[i].type = "EXECUTION_REQUESTED",
             \/ outbox_record'[i].status = "PUBLISHED"
             \/ \E d \in Dispatchers : i \in dispatcher'[d].sent
      PROVE  \E o \in 1..Len(Log') : Log'[o] = outbox_record'[i].message
    <2> SUFFICES ASSUME i \in RowNumbers,
                        \/ outbox_record[i].status = "PUBLISHED"
                        \/ \E d \in Dispatchers : i \in dispatcher[d].sent
                 PROVE  \E o \in 1..Len(Log') : Log'[o] = outbox_record'[i].message
        BY Zenon, <1>1, <1>4 DEF RowsStay
    <2>1. /\ outbox_record'[i].type = outbox_record[i].type
          /\ outbox_record'[i].message = outbox_record[i].message
        BY Zenon, <1>1 DEF RowsStay
    <2>2. PICK o \in 1..Len(Log) : Log[o] = outbox_record[i].message
        BY Zenon, <1>4, <2>1 DEF RowsDelivered
    <2>3. o \in 1..Len(Log') /\ Log'[o] = Log[o]
        BY <1>1, <1>2 DEF LogGrows
    <2> QED
        BY Zenon, <2>1, <2>2, <2>3
<1> QED
    BY Zenon, <1>3, <1>4 DEF RowsDelivered

\* Nothing is in the Outbox, the topic or a worker's hands initially.
LEMMA InitDeliveryInv == Init => DeliveryInv
<1> SUFFICES ASSUME Init PROVE DeliveryInv
    BY Zenon
<1>1. Log = <<>> /\ Len(Log) = 0 /\ RowNumbers = {} /\ Pending = {}
    BY DEF Init, BusInit, StoreInit, Log, EventTypes, RowNumbers, Pending, NoRow
<1>2. /\ committed = 0 /\ position = 0 /\ assigned = NoWorker
      /\ \A w \in Workers : worker[w].phase = "idle" /\ worker[w].offset = 0
    BY Zenon DEF Init, IdleWorker
<1> QED
    BY <1>1, <1>2
    DEF DeliveryInv, RowsDelivered, OffsetsInLog, OffsetsSettled, PositionSettled, HandledSettled

\* Delivery is tracked from the Outbox row to the committed offset.
LEMMA DeliveryInvariant == Spec => []DeliveryInv
<1>1. TypeInv /\ DeliveryInv /\ [Next]_vars => DeliveryInv'
    BY Zenon, NextConsumer, NextRowsDelivered DEF DeliveryInv
<1> QED
    BY <1>1, InitDeliveryInv, TypeInvariant, PTL DEF Spec

\* At-least-once delivery, for any number of workers, replicas, rebalances, crashes
\* and lost commits: an accepted message that is neither answered, failed nor dead-
\* lettered is still in the Outbox or beyond the committed offset, and no consumer
\* has passed it (OutboxDispatcher, KafkaExecutionConsumer.process_once).
THEOREM NothingIsLost == Spec => []NothingLost
<1>1. TypeInv /\ DeliveryInv => NothingLost
    <2> SUFFICES ASSUME TypeInv, DeliveryInv PROVE NothingLost
        BY Zenon
    <2>1. /\ OffsetsSettled /\ RowsDelivered
          /\ committed \in Nat /\ outbox_record \in Seq(OutboxRow) /\ Len(Log) \in Nat
        BY  DEF DeliveryInv, TypeInv, TypeOK, BusTypeOK, Log, EventTypes
    <2>2. ASSUME NEW m \in Pending \ dead_letter
          PROVE  \/ \E i \in PendingRows : /\ outbox_record[i].message = m
                                           /\ outbox_record[i].type = "EXECUTION_REQUESTED"
                 \/ \E o \in committed + 1 .. Len(Log) : Log[o] = m
        <3>1. PICK i \in RowNumbers : /\ outbox_record[i].type = "EXECUTION_REQUESTED"
                                      /\ outbox_record[i].message = m
            BY Zenon, <2>1 DEF RowsDelivered
        <3>2. outbox_record[i] \in OutboxRow
            BY <2>1 DEF RowNumbers
        <3>3. CASE outbox_record[i].status = "PENDING"
            BY Zenon, <3>1, <3>3 DEF PendingRows
        <3>4. CASE outbox_record[i].status = "PUBLISHED"
            <4>1. PICK o \in 1..Len(Log) : Log[o] = m
                BY Zenon, <2>1, <3>1, <3>4 DEF RowsDelivered
            <4>2. ~Settled(m)
                BY Zenon DEF Settled, Pending
            <4>3. o \notin 1..committed
                BY Zenon, <2>1, <4>1, <4>2 DEF OffsetsSettled
            <4> QED
                BY <2>1, <4>1, <4>3
        <3> QED
            BY Zenon, <3>2, <3>3, <3>4 DEF OutboxRow
    <2> QED
        BY Zenon, <2>1, <2>2 DEF NothingLost, AcceptedNotLost
<1> QED
    BY <1>1, TypeInvariant, DeliveryInvariant, PTL

-----------------------------------------------------------------------------
(* Fencing *)

\* What every step but a granted acquire and a commit does to grants and leases.
KeepsGrants ==
    /\ \A w \in Workers : HoldsGrant(w)' =>
        /\ HoldsGrant(w)
        /\ worker'[w].offset = worker[w].offset
        /\ worker'[w].token = worker[w].token
        /\ worker'[w].version = worker[w].version
    /\ \A s \in Sessions :
        /\ session_lease'[s].token = session_lease[s].token
        /\ session_lease'[s].owner = session_lease[s].owner
        /\ agent_session[s] # NoVersion => agent_session'[s] = agent_session[s]

\* A worker keeps working on the same message while the topic grows.
LEMMA SameMessage ==
    ASSUME TypeInv, LogGrows, NEW w \in Workers, HoldsGrant(w),
           worker'[w].offset = worker[w].offset
    PROVE  Message(w)' = Message(w) /\ Session(w)' = Session(w) /\ Session(w) \in Sessions
<1>1. worker[w].offset \in 1..Len(Log) /\ Session(w) \in Sessions
    BY Zenon, MessageType DEF HoldsGrant
<1> QED
    BY <1>1 DEF Message, Session, LogGrows

\* A step that keeps grants and leases keeps the fencing invariant.
LEMMA KeepsGrantsFenced ==
    ASSUME TypeInv, FenceInv, LogGrows, KeepsGrants
    PROVE  FenceInv'
<1>1. ASSUME NEW w \in Workers, HoldsGrant(w)'
      PROVE  /\ HoldsGrant(w)
             /\ worker'[w].token = worker[w].token
             /\ worker'[w].version = worker[w].version
             /\ Session(w)' = Session(w)
             /\ Session(w) \in Sessions
    BY ZenonT(60), <1>1, SameMessage DEF KeepsGrants
<1>2. GrantsFenced'
    BY <1>1 DEF FenceInv, GrantsFenced, KeepsGrants
<1>3. \A w \in Workers : HoldsGrant(w) => agent_session[Session(w)] # NoVersion
    BY DEF FenceInv, GrantVersionCurrent, NoVersion, TypeInv, TypeOK, WorkerState
<1>4. GrantVersionCurrent'
    BY <1>1, <1>3 DEF FenceInv, GrantVersionCurrent, KeepsGrants
<1> QED
    BY Zenon, <1>2, <1>4 DEF FenceInv

\* A grant takes the next token of the Session and its current version.
LEMMA AcquireFenced ==
    ASSUME TypeInv, FenceInv, LogGrows, NEW w \in Workers, Acquire(w),
           AcquireLease(Session(w), w)
    PROVE  FenceInv'
<1> DEFINE s == Session(w)
           new == [worker[w] EXCEPT !.phase = "running",
                    !.token = LeaseGrant(s).token, !.version = LeaseGrant(s).version]
<1>1. /\ worker \in [Workers -> WorkerState]
      /\ session_lease \in [Sessions -> Lease]
      /\ agent_session \in [Sessions -> Nat \cup {NoVersion}]
    BY Zenon DEF TypeInv, TypeOK, StoreTypeOK
<1>2. /\ worker[w].phase = "leasing" /\ s \in Sessions /\ agent_session[s] # NoVersion
      /\ worker[w].offset \in 1..Len(Log)
      /\ UNCHANGED agent_session
    BY Zenon, MessageType DEF Acquire, AcquireLease
<1>3. LeaseGrant(s).token = session_lease[s].token + 1 /\ LeaseGrant(s).version = agent_session[s]
    BY Zenon DEF LeaseGrant
<1>4. session_lease[s].token \in Nat
    BY Zenon, <1>1, <1>2 DEF Lease
<1>5. worker' = [worker EXCEPT ![w] = new]
    BY Zenon DEF Acquire, AcquireLease
<1>6. /\ new.phase = "running" /\ new.offset = worker[w].offset
      /\ new.token = session_lease[s].token + 1 /\ new.version = agent_session[s]
    BY Zenon, <1>1, <1>3 DEF WorkerState
<1> HIDE DEF new
<1>7. worker'[w] = new /\ \A v \in Workers \ {w} : worker'[v] = worker[v]
    BY Zenon, <1>1, <1>5
<1>8. /\ session_lease'[s].token = session_lease[s].token + 1 /\ session_lease'[s].owner = w
      /\ \A r \in Sessions \ {s} : session_lease'[r] = session_lease[r]
    BY Zenon, <1>1, <1>2, <1>3 DEF AcquireLease
<1>9. Session(w)' = s
    BY Zenon, <1>2, <1>6, <1>7 DEF Session, Message, LogGrows
<1>10. \A v \in Workers \ {w} : HoldsGrant(v)' =>
        HoldsGrant(v) /\ Session(v)' = Session(v) /\ Session(v) \in Sessions
    BY Zenon, <1>7, SameMessage DEF HoldsGrant
<1>11. \A v \in Workers \ {w} : HoldsGrant(v)' /\ Session(v)' = s =>
        worker'[v].token \in 1..session_lease[s].token
    BY ZenonT(60), <1>7, <1>10 DEF FenceInv, GrantsFenced
<1>12. GrantsFenced'
    <2> SUFFICES ASSUME NEW v \in Workers, HoldsGrant(v)'
                 PROVE  LET lease == session_lease'[Session(v)']
                        IN  /\ worker'[v].token \in 1..lease.token
                            /\ worker'[v].token = lease.token => lease.owner = v
                            /\ \A u \in Workers \ {v} :
                                HoldsGrant(u)' /\ Session(u)' = Session(v)' =>
                                    worker'[u].token # worker'[v].token
        BY Zenon DEF GrantsFenced
    <2>1. CASE v = w
        BY SMTT(40), <2>1, <1>4, <1>6, <1>7, <1>8, <1>9, <1>11
    <2>2. CASE v # w /\ Session(v)' = s
        <3>1. worker'[v].token \in 1..session_lease[s].token
            BY ZenonT(60), <2>2, <1>11
        <3>2. \A u \in Workers \ {v, w} : HoldsGrant(u)' /\ Session(u)' = s =>
                worker'[u].token # worker'[v].token
            BY SMTT(30), <2>2, <1>7, <1>10 DEF FenceInv, GrantsFenced
        <3> QED
            BY <2>2, <3>1, <3>2, <1>4, <1>6, <1>7, <1>8
    <2>3. CASE v # w /\ Session(v)' # s
        BY <2>3, <1>7, <1>8, <1>9, <1>10 DEF FenceInv, GrantsFenced
    <2> QED
        BY Zenon, <2>1, <2>2, <2>3
<1>13. GrantVersionCurrent'
    <2> SUFFICES ASSUME NEW v \in Workers, HoldsGrant(v)'
                 PROVE  LET r == Session(v)'
                        IN  /\ worker'[v].version <= agent_session[r]
                            /\ worker'[v].token = session_lease'[r].token =>
                                    worker'[v].version = agent_session[r]
        BY ZenonT(60), <1>2 DEF GrantVersionCurrent
    <2>1. CASE v = w
        BY SMTT(30), <2>1, <1>1, <1>2, <1>6, <1>7, <1>9
    <2>2. CASE v # w /\ Session(v)' = s
        BY SMTT(40), <2>2, <1>4, <1>7, <1>8, <1>10, <1>11 DEF FenceInv, GrantVersionCurrent
    <2>3. CASE v # w /\ Session(v)' # s
        BY <2>3, <1>7, <1>8, <1>10 DEF FenceInv, GrantVersionCurrent
    <2> QED
        BY Zenon, <2>1, <2>2, <2>3
<1> QED
    BY Zenon, <1>12, <1>13 DEF FenceInv

\* A commit that passes the fence gives up its grant and leaves only older ones.
LEMMA CommitFenced ==
    ASSUME TypeInv, FenceInv, LogGrows, NEW w \in Workers, Commit(w),
           CommitSessionEvents(Session(w), w, Message(w), worker[w].token, worker[w].version)
    PROVE  FenceInv'
<1> DEFINE s == Session(w)
<1>1. /\ worker \in [Workers -> WorkerState]
      /\ agent_session \in [Sessions -> Nat \cup {NoVersion}]
    BY Zenon DEF TypeInv, TypeOK, StoreTypeOK
<1>2. /\ worker[w].phase = "committing" /\ s \in Sessions
      /\ UNCHANGED session_lease
      /\ \E p \in {"handled", "failed"} : Goto(w, p)
      /\ UNCHANGED topic
    BY Zenon, MessageType DEF Commit
<1>3. ~HoldsGrant(w)' /\ \A v \in Workers \ {w} : worker'[v] = worker[v]
    BY Zenon, <1>2, GotoType DEF Phases, HoldsGrant
<1>4. /\ agent_session[s] = worker[w].version /\ agent_session[s] \in Nat
      /\ session_lease[s].token = worker[w].token
      /\ agent_session'[s] = agent_session[s] + 2
      /\ \A r \in Sessions \ {s} : agent_session'[r] = agent_session[r]
    BY Zenon, <1>1, <1>2 DEF CommitSessionEvents, CommitAllowed, LeaseValid
<1>5. \A v \in Workers : HoldsGrant(v)' =>
        /\ v # w /\ HoldsGrant(v) /\ Session(v)' = Session(v) /\ Session(v) \in Sessions
        /\ worker'[v] = worker[v]
    BY ZenonT(40), <1>3, SameMessage DEF HoldsGrant
<1>6. GrantsFenced'
    BY <1>2, <1>5 DEF FenceInv, GrantsFenced
<1>7. GrantVersionCurrent'
    <2> SUFFICES ASSUME NEW v \in Workers, HoldsGrant(v)'
                 PROVE  LET r == Session(v)'
                        IN  /\ worker'[v].version <= agent_session'[r]
                            /\ worker'[v].token = session_lease'[r].token =>
                                    worker'[v].version = agent_session'[r]
        BY ZenonT(60) DEF GrantVersionCurrent
    <2>1. CASE Session(v) = s
        <3>1. HoldsGrant(w)
            BY Zenon, <1>2 DEF HoldsGrant
        <3>2. worker[v].token # worker[w].token
            BY Zenon, <2>1, <3>1, <1>5 DEF FenceInv, GrantsFenced
        <3>3. worker[v].version <= agent_session[s] /\ worker[v].version \in Nat
            BY ZenonT(60), <2>1, <1>1, <1>5 DEF FenceInv, GrantVersionCurrent, WorkerState
        <3> QED
            BY <2>1, <3>2, <3>3, <1>2, <1>4, <1>5
    <2>2. CASE Session(v) # s
        BY <2>2, <1>2, <1>4, <1>5 DEF FenceInv, GrantVersionCurrent
    <2> QED
        BY Zenon, <2>1, <2>2
<1> QED
    BY Zenon, <1>6, <1>7 DEF FenceInv

\* Every step keeps the fencing invariant: one case per action.
LEMMA NextFenceInv == TypeInv /\ FenceInv /\ [Next]_vars => FenceInv'
<1> SUFFICES ASSUME TypeInv, FenceInv, [Next]_vars PROVE FenceInv'
    BY Zenon
<1>1. LogGrows
    BY Zenon, NextLogGrows
<1>2. KeepsGrants => FenceInv'
    BY Zenon, <1>1, KeepsGrantsFenced
<1>3. /\ worker \in [Workers -> WorkerState]
      /\ session_lease \in [Sessions -> Lease]
      /\ agent_session \in [Sessions -> Nat \cup {NoVersion}]
    BY Zenon DEF TypeInv, TypeOK, StoreTypeOK
<1>4. UNCHANGED <<worker, session_lease, agent_session>> => KeepsGrants
    BY Zenon DEF KeepsGrants, HoldsGrant
\* A worker drops its grant or goes on with it; the store keeps its leases.
<1>5. ASSUME NEW w \in Workers,
             UNCHANGED <<session_lease, agent_session>>,
             \A v \in Workers \ {w} : worker'[v] = worker[v],
             \/ ~HoldsGrant(w)'
             \/ /\ HoldsGrant(w)
                /\ worker'[w].offset = worker[w].offset
                /\ worker'[w].token = worker[w].token
                /\ worker'[w].version = worker[w].version
      PROVE  KeepsGrants
    BY Zenon, <1>5 DEF KeepsGrants, HoldsGrant
<1>6. ASSUME NEW m \in Messages, Submit(m) PROVE FenceInv'
    <2>1. KeepsGrants
        BY Zenon, <1>3, <1>6, SessionAssumption
        DEF Submit, CreateSessionIfMissing, KeepsGrants, HoldsGrant, workerVars
    <2> QED
        BY Zenon, <1>2, <2>1
<1>7. ASSUME NEW d \in Dispatchers, Dispatch(d) \/ GatewayFault(d) PROVE FenceInv'
    BY Zenon, <1>2, <1>4, <1>7 DEF Dispatch, GatewayFault, storeVars, workerVars
<1>8. ASSUME NEW w \in Workers, Recover(w) \/ Rebalance(w) PROVE FenceInv'
    BY Zenon, <1>2, <1>4, <1>8 DEF Recover, Rebalance, storeVars, workerVars
<1>9. ASSUME NEW w \in Workers,
             Crash(w) \/ RecordFailure(w) \/ PublishDeadLetter(w) \/ CommitOffset(w)
      PROVE  FenceInv'
    <2>1. /\ UNCHANGED <<session_lease, agent_session>> /\ UNCHANGED topic
          /\ \/ Sleep(w) \/ worker' = [worker EXCEPT ![w] = IdleWorker]
             \/ /\ worker[w].phase \notin {"idle", "waiting"}
                /\ \E p \in {"poison", "handled"} : Goto(w, p)
        BY Zenon, <1>9
        DEF Crash, RecordFailure, PublishDeadLetter, CommitOffset, storeVars, busVars
    <2>2. ~HoldsGrant(w)' /\ \A v \in Workers \ {w} : worker'[v] = worker[v]
        BY ZenonT(60), <2>1, GotoType, RestType DEF Phases, HoldsGrant
    <2> QED
        BY Zenon, <1>2, <1>5, <2>1, <2>2
<1>10. ASSUME NEW w \in Workers, Fetch(w) PROVE FenceInv'
    <2>1. worker'[w].phase = "received" /\ \A v \in Workers \ {w} : worker'[v] = worker[v]
        BY Zenon, <1>3, <1>10 DEF Fetch, IdleWorker, WorkerState
    <2>2. UNCHANGED <<session_lease, agent_session>>
        BY Zenon, <1>10 DEF Fetch, storeVars
    <2> QED
        BY Zenon, <1>2, <1>5, <2>1, <2>2 DEF HoldsGrant
<1>11. ASSUME NEW w \in Workers,
              CheckStatus(w) \/ CallModel(w) \/ ModelFailed(w) \/ DatabaseError(w)
       PROVE  FenceInv'
    <2>1. /\ UNCHANGED <<session_lease, agent_session>> /\ UNCHANGED topic
          /\ worker[w].phase \notin {"idle", "waiting"}
          /\ \/ \E p \in {"model_error", "handled", "leasing", "failed"} : Goto(w, p)
             \/ worker[w].phase = "running" /\ Goto(w, "renewing")
        BY ZenonT(60), <1>11 DEF CheckStatus, CallModel, ModelFailed, DatabaseError, storeVars, busVars
    <2>2. CASE \E p \in {"model_error", "handled", "leasing", "failed"} : Goto(w, p)
        BY <1>2, <1>5, <2>1, <2>2, GotoType DEF Phases, HoldsGrant
    <2>3. CASE worker[w].phase = "running" /\ Goto(w, "renewing")
        BY Zenon, <1>2, <1>5, <2>1, <2>3, GotoType DEF Phases, HoldsGrant
    <2> QED
        BY Zenon, <2>1, <2>2, <2>3
<1>12. ASSUME NEW w \in Workers, Acquire(w) PROVE FenceInv'
    <2>1. CASE AcquireLease(Session(w), w)
        BY Zenon, <1>1, <1>12, <2>1, AcquireFenced
    <2>2. CASE ~LeaseFree(Session(w), w)
        <3>1. /\ worker[w].phase = "leasing" /\ Goto(w, "failed") /\ UNCHANGED topic
              /\ UNCHANGED <<session_lease, agent_session>>
            BY Zenon, <1>12, <2>2 DEF Acquire, AcquireLease, busVars
        <3> QED
            BY Zenon, <1>2, <1>5, <3>1, GotoType DEF Phases, HoldsGrant
    <2> QED
        BY Zenon, <1>12, <2>1, <2>2 DEF Acquire
<1>13. ASSUME NEW w \in Workers, Renew(w) PROVE FenceInv'
    <2>1. /\ worker[w].phase = "renewing" /\ UNCHANGED topic /\ UNCHANGED agent_session
          /\ \E p \in {"committing", "failed"} : Goto(w, p)
        BY Zenon, <1>13 DEF Renew, busVars
    <2>2. /\ worker'[w].offset = worker[w].offset
          /\ worker'[w].token = worker[w].token
          /\ worker'[w].version = worker[w].version
          /\ \A v \in Workers \ {w} : worker'[v] = worker[v]
        BY Zenon, <2>1, GotoType DEF Phases
    <2>3. \A s \in Sessions : /\ session_lease'[s].token = session_lease[s].token
                              /\ session_lease'[s].owner = session_lease[s].owner
        BY <1>3, <1>13 DEF Renew, RenewLease, Lease
    <2>4. KeepsGrants
        BY Zenon, <2>1, <2>2, <2>3 DEF KeepsGrants, HoldsGrant
    <2> QED
        BY Zenon, <1>2, <2>4
<1>14. ASSUME NEW w \in Workers, Commit(w) PROVE FenceInv'
    <2>1. CASE CommitSessionEvents(Session(w), w, Message(w), worker[w].token, worker[w].version)
        BY Zenon, <1>1, <1>14, <2>1, CommitFenced
    <2>2. CASE UNCHANGED agent_session
        <3>1. /\ worker[w].phase = "committing" /\ UNCHANGED topic /\ UNCHANGED session_lease
              /\ \E p \in {"handled", "failed"} : Goto(w, p)
            BY Zenon, <1>14 DEF Commit
        <3> QED
            BY ZenonT(60), <1>2, <1>5, <2>2, <3>1, GotoType DEF Phases, HoldsGrant
    <2> QED
        BY Zenon, <1>14, <2>1, <2>2 DEF Commit
<1>15. CASE Tick
    <2>1. UNCHANGED agent_session /\ AgeLeases
        BY Zenon, <1>15 DEF Tick
    <2>2. IdleWorker.phase = "idle"
        BY Zenon DEF IdleWorker
    <2>3. \A w \in Workers : HoldsGrant(w)' => worker'[w] = worker[w]
        BY Zenon, <1>15, <2>2 DEF Tick, HoldsGrant
    <2>4. KeepsGrants
        BY Zenon, <1>3, <2>1, <2>3, AgeType DEF KeepsGrants, HoldsGrant
    <2> QED
        BY Zenon, <1>2, <2>4
<1>16. CASE UNCHANGED vars
    BY ZenonT(60), <1>2, <1>4, <1>16 DEF vars, storeVars, workerVars
<1> QED
    BY <1>6, <1>7, <1>8, <1>9, <1>10, <1>11, <1>12, <1>13, <1>14, <1>15, <1>16
    DEF Next, WorkerStep

\* No worker holds a grant in the initial state.
LEMMA InitFenceInv == Init => FenceInv
BY DEF Init, FenceInv, GrantsFenced, GrantVersionCurrent, HoldsGrant, IdleWorker

\* Zombies are isolated: grants are fenced and the newest one is current, for
\* SessionLeaseManager.acquire and every later step of a worker.
THEOREM GrantsIsolated == Spec => []FenceInv
BY InitFenceInv, NextFenceInv, TypeInvariant, PTL DEF Spec

\* Fencing tokens of a Session are never shared and the newest one belongs to
\* the owner of the lease row (SessionLeaseManager.acquire).
THEOREM Fencing == Spec => []GrantsFenced
<1>1. FenceInv => GrantsFenced
    BY Zenon DEF FenceInv
<1> QED
    BY <1>1, GrantsIsolated, PTL

\* The holder of the newest token has read the current version of its Session,
\* so commit_session_events never raises SESSION_VERSION_CONFLICT after the
\* lease check has passed.
THEOREM NewestGrantCurrent == Spec => []GrantVersionCurrent
<1>1. FenceInv => GrantVersionCurrent
    BY Zenon DEF FenceInv
<1> QED
    BY <1>1, GrantsIsolated, PTL

-----------------------------------------------------------------------------
(* History *)

\* What every step but a committed turn does to the Session Events.
KeepsHistory ==
    /\ UNCHANGED session_event
    /\ \A s \in Sessions : \/ agent_session'[s] = agent_session[s]
                           \/ agent_session[s] = NoVersion /\ agent_session'[s] = 0
    /\ \A m \in Messages : agent_execution'[m] = "SUCCEEDED" <=> agent_execution[m] = "SUCCEEDED"

\* A turn of message m is committed on top of the Session's current version.
CommitsTurn(m) ==
    LET s == SessionOf[m]
    IN  /\ agent_execution[m] \in {"PENDING", "FAILED"}
        /\ agent_session[s] \in Nat
        /\ session_event' = session_event \cup TurnRows(s, m, agent_session[s])
        /\ agent_session' = [agent_session EXCEPT ![s] = agent_session[s] + 2]
        /\ agent_execution' = [agent_execution EXCEPT ![m] = "SUCCEEDED"]

\* Every step keeps the history or commits one turn: one case per action.
LEMMA NextHistory ==
    TypeInv /\ [Next]_vars => KeepsHistory \/ \E m \in Messages : CommitsTurn(m)
<1> SUFFICES ASSUME TypeInv, [Next]_vars
             PROVE  KeepsHistory \/ \E m \in Messages : CommitsTurn(m)
    BY Zenon
<1>1. /\ agent_session \in [Sessions -> Nat \cup {NoVersion}]
      /\ agent_execution \in [Messages -> Statuses]
    BY Zenon DEF TypeInv, TypeOK, StoreTypeOK
<1>2. UNCHANGED <<session_event, agent_session, agent_execution>> => KeepsHistory
    BY Zenon DEF KeepsHistory
<1>3. ASSUME NEW m \in Messages, Submit(m) PROVE KeepsHistory
    BY Zenon, <1>1, <1>3, SessionAssumption
    DEF Submit, KeepsHistory, CreateSessionIfMissing, NoRow
<1>4. ASSUME NEW d \in Dispatchers, Dispatch(d) \/ GatewayFault(d) PROVE KeepsHistory
    BY Zenon, <1>2, <1>4 DEF Dispatch, GatewayFault, storeVars
<1>5. ASSUME NEW w \in Workers,
             \/ Recover(w) \/ Rebalance(w) \/ Crash(w) \/ Fetch(w) \/ CheckStatus(w)
             \/ Acquire(w) \/ CallModel(w) \/ Renew(w) \/ DatabaseError(w)
             \/ RecordFailure(w) \/ PublishDeadLetter(w) \/ CommitOffset(w)
      PROVE  KeepsHistory
    <2>1. UNCHANGED <<session_event, agent_session, agent_execution>>
        BY Zenon, <1>5
        DEF Recover, Rebalance, Crash, Fetch, CheckStatus, Acquire, CallModel, Renew,
            DatabaseError, RecordFailure, PublishDeadLetter, CommitOffset, storeVars
    <2> QED
        BY Zenon, <1>2, <2>1
<1>6. ASSUME NEW w \in Workers, ModelFailed(w) PROVE KeepsHistory
    <2>1. Message(w) \in Messages
        BY Zenon, <1>6, MessageType DEF ModelFailed
    <2> QED
        BY Zenon, <1>1, <1>6, <2>1 DEF ModelFailed, MarkFailed, KeepsHistory
<1>7. ASSUME NEW w \in Workers, Commit(w)
      PROVE  KeepsHistory \/ \E m \in Messages : CommitsTurn(m)
    <2>1. Message(w) \in Messages /\ Session(w) = SessionOf[Message(w)] /\ Session(w) \in Sessions
        BY Zenon, <1>7, MessageType DEF Commit, Session
    <2>2. CASE /\ CommitSessionEvents(Session(w), w, Message(w), worker[w].token, worker[w].version)
               /\ agent_execution' = [agent_execution EXCEPT ![Message(w)] = "SUCCEEDED"]
        <3>1. CommitsTurn(Message(w))
            BY Zenon, <1>1, <2>1, <2>2
            DEF CommitsTurn, CommitSessionEvents, CommitAllowed, Statuses
        <3> QED
            BY Zenon, <2>1, <3>1
    <2>3. CASE UNCHANGED <<agent_execution, agent_session, session_event>>
        BY Zenon, <1>2, <2>3
    <2> QED
        BY Zenon, <1>7, <2>2, <2>3 DEF Commit
<1>8. Tick \/ UNCHANGED vars => KeepsHistory
    BY Zenon, <1>2 DEF Tick, vars, storeVars
<1> QED
    BY Zenon, <1>3, <1>4, <1>5, <1>6, <1>7, <1>8 DEF Next, WorkerStep

\* A new Session starts with version 0 and no events.
LEMMA KeepsHistoryInv ==
    ASSUME TypeInv, HistoryInv, KeepsHistory
    PROVE  HistoryInv'
<1>1. HistoryContiguous'
    <2>1. 1..0 = {}
        BY SMTT(40)
    <2> QED
        BY Zenon, <2>1 DEF HistoryInv, HistoryContiguous, KeepsHistory, NoVersion
<1>2. TurnsExactlyOnce'
    BY Zenon DEF HistoryInv, TurnsExactlyOnce, RowsOf, TurnRows, KeepsHistory
<1> QED
    BY Zenon, <1>1, <1>2 DEF HistoryInv

\* A committed turn takes the two numbers after the current version.
LEMMA CommitsTurnInv ==
    ASSUME TypeInv, HistoryInv, NEW m \in Messages, CommitsTurn(m)
    PROVE  HistoryInv'
<1> DEFINE s == SessionOf[m]
           n == agent_session[s]
           q == [session |-> s, sequence |-> n + 1, message |-> m, kind |-> "USER_MESSAGE"]
           a == [session |-> s, sequence |-> n + 2, message |-> m, kind |-> "AGENT_REPLY"]
<1>1. /\ s \in Sessions /\ n \in Nat
      /\ agent_session \in [Sessions -> Nat \cup {NoVersion}]
      /\ agent_execution \in [Messages -> Statuses]
      /\ session_event \subseteq EventRow
    BY Zenon, SessionAssumption DEF CommitsTurn, TypeInv, TypeOK, StoreTypeOK
<1>2. /\ session_event' = session_event \cup {q, a}
      /\ agent_session'[s] = n + 2
      /\ \A r \in Sessions \ {s} : agent_session'[r] = agent_session[r]
      /\ agent_execution'[m] = "SUCCEEDED"
      /\ \A k \in Messages \ {m} : agent_execution'[k] = agent_execution[k]
    BY Zenon, <1>1 DEF CommitsTurn, TurnRows
<1>q. /\ q.session = s /\ q.message = m /\ q.sequence = n + 1
      /\ a.session = s /\ a.message = m /\ a.sequence = n + 2
      /\ {q, a} = TurnRows(s, m, n)
    BY Zenon DEF TurnRows
<1> HIDE DEF q, a
<1>3. HistoryContiguous'
    <2> SUFFICES ASSUME NEW r \in Sessions
                 PROVE  LET rows == {e \in session_event' : e.session = r}
                        IN  /\ {e.sequence : e \in rows} =
                                IF agent_session'[r] = NoVersion THEN {}
                                ELSE 1..agent_session'[r]
                            /\ \A e, f \in rows : e.sequence = f.sequence => e = f
        BY Zenon DEF HistoryContiguous
    <2>1. CASE r # s
        <3>1. {e \in session_event' : e.session = r} = {e \in session_event : e.session = r}
            BY Zenon, <1>2, <1>q, <2>1
        <3> QED
            BY Zenon, <1>2, <2>1, <3>1 DEF HistoryInv, HistoryContiguous
    <2>2. CASE r = s
        <3> DEFINE old == {e \in session_event : e.session = s}
        <3>1. /\ {e.sequence : e \in old} = 1..n
              /\ \A e, f \in old : e.sequence = f.sequence => e = f
            BY <1>1 DEF HistoryInv, HistoryContiguous, NoVersion
        <3>2. {e \in session_event' : e.session = s} = old \cup {q, a}
            BY Zenon, <1>2, <1>q
        <3>4. \A e \in old : e.sequence \in 1..n
            BY ZenonT(60), <3>1
        <3> HIDE DEF old, n
        <3>5. {e.sequence : e \in old \cup {q, a}} = 1..(n + 2)
            <4>1. \A i : i \in {e.sequence : e \in old \cup {q, a}} <=>
                            i \in {e.sequence : e \in old} \/ i = n + 1 \/ i = n + 2
                BY Zenon, <1>q
            <4> QED
                BY <4>1, <3>1, <1>1
        <3>6. \A e, f \in old \cup {q, a} : e.sequence = f.sequence => e = f
            BY <1>1, <1>q, <3>1, <3>4
        <3>7. n + 2 # NoVersion
            BY <1>1 DEF NoVersion
        <3> QED
            BY ZenonT(60), <1>2, <2>2, <3>2, <3>5, <3>6, <3>7
    <2> QED
        BY Zenon, <2>1, <2>2
<1>4. TurnsExactlyOnce'
    <2>1. ASSUME NEW k \in Messages, k # m
          PROVE  \/ /\ agent_execution'[k] = "SUCCEEDED"
                    /\ \E r \in session_event' :
                        RowsOf(k)' = TurnRows(SessionOf[k], k, r.sequence - 1)
                 \/ agent_execution'[k] # "SUCCEEDED" /\ RowsOf(k)' = {}
        <3>1. RowsOf(k)' = RowsOf(k)
            BY Zenon, <1>2, <1>q, <2>1 DEF RowsOf
        <3> QED
            BY Zenon, <1>2, <2>1, <3>1 DEF HistoryInv, TurnsExactlyOnce
    <2>2. RowsOf(m) = {}
        BY Zenon DEF HistoryInv, TurnsExactlyOnce, CommitsTurn
    <2>3. RowsOf(m)' = {q, a}
        BY ZenonT(60), <1>2, <1>q, <2>2 DEF RowsOf
    <2>4. {q, a} = TurnRows(s, m, q.sequence - 1) /\ q \in session_event'
        <3>1. q.sequence - 1 = n
            BY <1>1, <1>q
        <3> QED
            BY Zenon, <1>2, <1>q, <3>1
    <2> QED
        BY Zenon, <1>2, <2>1, <2>3, <2>4 DEF TurnsExactlyOnce
<1> QED
    BY Zenon, <1>3, <1>4 DEF HistoryInv

\* There are no events in the initial state.
LEMMA InitHistoryInv == Init => HistoryInv
BY Zenon DEF Init, StoreInit, HistoryInv, HistoryContiguous, TurnsExactlyOnce, RowsOf, NoRow

\* Every step keeps the history invariant.
LEMMA NextHistoryInv == TypeInv /\ HistoryInv /\ [Next]_vars => HistoryInv'
BY Zenon, NextHistory, KeepsHistoryInv, CommitsTurnInv

\* The history of a Session is intact: commit_session_events leaves no gap and
\* repeats no turn.
THEOREM HistoryIntact == Spec => []HistoryInv
BY InitHistoryInv, NextHistoryInv, TypeInvariant, PTL DEF Spec

\* The events of a Session are numbered 1..version without gaps or duplicates.
THEOREM ContiguousHistory == Spec => []HistoryContiguous
<1>1. HistoryInv => HistoryContiguous
    BY Zenon DEF HistoryInv
<1> QED
    BY <1>1, HistoryIntact, PTL

\* A succeeded message has exactly one turn, and any other message none: Kafka
\* redelivery, zombie workers and Outbox duplicates never add a second one.
THEOREM ExactlyOnce == Spec => []TurnsExactlyOnce
<1>1. HistoryInv => TurnsExactlyOnce
    BY Zenon DEF HistoryInv
<1> QED
    BY <1>1, HistoryIntact, PTL

-----------------------------------------------------------------------------
(* Action properties *)

\* No step lowers a fencing token.
LEMMA TokensGrow ==
    TypeInv /\ [Next]_vars =>
        \A s \in Sessions : session_lease[s].token <= session_lease'[s].token
<1> SUFFICES ASSUME TypeInv, [Next]_vars, NEW s \in Sessions
             PROVE  session_lease[s].token <= session_lease'[s].token
    BY Zenon
<1>1. session_lease \in [Sessions -> Lease] /\ session_lease[s].token \in Nat
    BY Zenon DEF TypeInv, TypeOK, StoreTypeOK, Lease
<1>2. CASE UNCHANGED session_lease
    BY <1>1, <1>2
<1>3. ASSUME NEW w \in Workers, Acquire(w)
      PROVE  session_lease[s].token <= session_lease'[s].token
    <2>1. Session(w) \in Sessions
        BY Zenon, <1>3, MessageType DEF Acquire
    <2> QED
        BY <1>1, <1>2, <1>3, <2>1 DEF Acquire, AcquireLease, LeaseGrant
<1>4. ASSUME NEW w \in Workers, Renew(w)
      PROVE  session_lease[s].token <= session_lease'[s].token
    BY <1>1, <1>2, <1>4 DEF Renew, RenewLease, Lease
<1>5. CASE Tick
    BY <1>1, <1>5, AgeType DEF Tick
<1>6. \/ \E w \in Workers : Acquire(w) \/ Renew(w)
      \/ Tick
      \/ UNCHANGED session_lease
    BY ZenonT(40) DEF Next, Submit, Dispatch, GatewayFault, WorkerStep, DatabaseError, Recover, Rebalance,
           Crash, Fetch, CheckStatus, CallModel, Commit, ModelFailed, RecordFailure,
           PublishDeadLetter, CommitOffset, vars, storeVars
<1> QED
    BY Zenon, <1>2, <1>3, <1>4, <1>5, <1>6

\* Session Events are never changed or removed, fencing tokens never fall, and
\* a succeeded execution stays succeeded.
THEOREM AppendOnly == Spec => HistoryAppendOnly
<1>1. TypeInv /\ [Next]_vars =>
        [/\ session_event \subseteq session_event'
         /\ \A s \in Sessions : session_lease[s].token <= session_lease'[s].token
         /\ \A m \in Messages :
                agent_execution[m] = "SUCCEEDED" => agent_execution'[m] = "SUCCEEDED"]_vars
    <2> SUFFICES ASSUME TypeInv, [Next]_vars
                 PROVE  /\ session_event \subseteq session_event'
                        /\ \A s \in Sessions : session_lease[s].token <= session_lease'[s].token
                        /\ \A m \in Messages : agent_execution[m] = "SUCCEEDED" =>
                                agent_execution'[m] = "SUCCEEDED"
        BY Zenon
    <2>1. \A s \in Sessions : session_lease[s].token <= session_lease'[s].token
        BY Zenon, TokensGrow
    <2>2. CASE KeepsHistory
        BY Zenon, <2>1, <2>2 DEF KeepsHistory
    <2>3. ASSUME NEW m \in Messages, CommitsTurn(m)
          PROVE  /\ session_event \subseteq session_event'
                 /\ \A k \in Messages : agent_execution[k] = "SUCCEEDED" =>
                        agent_execution'[k] = "SUCCEEDED"
        BY Zenon, <2>3 DEF CommitsTurn, TypeInv, TypeOK, StoreTypeOK
    <2> QED
        BY Zenon, <2>1, <2>2, <2>3, NextHistory
<1> QED
    BY <1>1, TypeInvariant, PTL DEF Spec, HistoryAppendOnly

-----------------------------------------------------------------------------
(* Refinement of SessionLog *)

\* A Session's events come in turns: its version is even, and each pair of numbers
\* belongs to one message.  History is read off these pairs.
TurnsPaired ==
    \A s \in Sessions : agent_session[s] # NoVersion =>
        \E n \in Nat :
            /\ agent_session[s] = 2 * n
            /\ \A i \in 1..n : \E m \in Messages :
                TurnRows(s, m, 2 * (i - 1)) \subseteq session_event

\* Halving an even version.
LEMMA HalfOfEven ==
    ASSUME NEW n \in Nat
    PROVE  (2 * n) \div 2 = n
OBVIOUS

\* In a set of events numbered without duplicates, the message of a turn is the only
\* one at its place.
LEMMA TurnAtUnique ==
    ASSUME NEW E, NEW s \in Sessions, NEW i \in Nat, NEW m \in Messages,
           \A q, r \in {e \in E : e.session = s} : q.sequence = r.sequence => q = r,
           TurnRows(s, m, 2 * (i - 1)) \subseteq E
    PROVE  (CHOOSE k \in Messages : TurnRows(s, k, 2 * (i - 1)) \subseteq E) = m
<1> DEFINE row(k) == [session |-> s, sequence |-> 2 * (i - 1) + 1, message |-> k,
                      kind |-> "USER_MESSAGE"]
<1>1. ASSUME NEW k \in Messages, TurnRows(s, k, 2 * (i - 1)) \subseteq E
      PROVE  k = m
    <2>1. row(k) \in E /\ row(m) \in E
        BY Zenon, <1>1 DEF TurnRows
    <2>2. row(k).session = s /\ row(m).session = s /\ row(k).sequence = row(m).sequence
        BY Zenon
    <2>3. row(k) = row(m)
        <3> HIDE DEF row
        <3> QED
            BY Zenon, <2>1, <2>2
    <2> QED
        BY Zenon, <2>3
<1> QED
    BY Zenon, <1>1

\* A Session row that is created does not change its history, which stays empty.
LEMMA KeepsHistoryMapped ==
    ASSUME TypeInv, HistoryInv, TurnsPaired, KeepsHistory
    PROVE  TurnsPaired' /\ UNCHANGED History
<1>1. TurnsPaired'
    <2> SUFFICES ASSUME NEW s \in Sessions, agent_session'[s] # NoVersion
                 PROVE  \E n \in Nat : /\ agent_session'[s] = 2 * n
                                       /\ \A i \in 1..n : \E m \in Messages :
                                            TurnRows(s, m, 2 * (i - 1)) \subseteq session_event'
        BY Zenon DEF TurnsPaired, TurnRows
    <2>1. CASE agent_session'[s] = agent_session[s]
        BY Zenon, <2>1 DEF TurnsPaired, KeepsHistory
    <2>2. CASE agent_session'[s] = 0
        <3>1. 0 = 2 * 0 /\ 1..0 = {} /\ 0 \in Nat
            BY SMTT(40)
        <3> QED
            BY Zenon, <2>2, <3>1
    <2> QED
        BY Zenon, <2>1, <2>2 DEF KeepsHistory
<1>2. \A s \in Sessions, i \in Nat : TurnAt(s, i)' = TurnAt(s, i)
    BY Zenon DEF TurnAt, KeepsHistory, TurnRows
<1>3. ASSUME NEW s \in Sessions
      PROVE  (IF agent_session'[s] = NoVersion THEN <<>>
              ELSE [i \in 1..(agent_session'[s] \div 2) |-> TurnAt(s, i)'])
           = (IF agent_session[s] = NoVersion THEN <<>>
              ELSE [i \in 1..(agent_session[s] \div 2) |-> TurnAt(s, i)])
    <2>1. CASE agent_session'[s] = agent_session[s]
        <3>1. CASE agent_session[s] = NoVersion
            BY ZenonT(60), <2>1, <3>1
        <3>2. CASE agent_session[s] # NoVersion
            <4>1. PICK n \in Nat : agent_session[s] = 2 * n
                BY Zenon, <3>2 DEF TurnsPaired
            <4>2. agent_session[s] \div 2 = n
                BY Zenon, <4>1, HalfOfEven
            <4> QED
                BY <1>2, <2>1, <3>2, <4>2
        <3> QED
            BY Zenon, <3>1, <3>2
    <2>2. CASE agent_session[s] = NoVersion /\ agent_session'[s] = 0
        <3>1. 0 # NoVersion /\ 0 \div 2 = 0
            BY DEF NoVersion
        <3>2. [i \in 1..0 |-> TurnAt(s, i)'] = <<>>
            OBVIOUS
        <3> QED
            BY Zenon, <2>2, <3>1, <3>2
    <2> QED
        BY Zenon, <2>1, <2>2 DEF KeepsHistory
<1>4. History' = History
    BY Zenon, <1>3 DEF History
<1> QED
    BY Zenon, <1>1, <1>4

\* A committed turn is appended to its Session's history and to no other.
LEMMA CommitsTurnMapped ==
    ASSUME TypeInv, HistoryInv, TurnsPaired, NEW m \in Messages, CommitsTurn(m), HistoryInv', TypeInv'
    PROVE  /\ TurnsPaired'
           /\ History' = [History EXCEPT ![SessionOf[m]] = Append(@, m)]
<1> DEFINE s == SessionOf[m]
<1>1. /\ s \in Sessions
      /\ agent_session \in [Sessions -> Nat \cup {NoVersion}]
    BY Zenon, SessionAssumption DEF TypeInv, TypeOK, StoreTypeOK
<1>2. PICK n \in Nat : /\ agent_session[s] = 2 * n
                       /\ \A i \in 1..n : \E k \in Messages :
                            TurnRows(s, k, 2 * (i - 1)) \subseteq session_event
    BY <1>1 DEF CommitsTurn, TurnsPaired, NoVersion
<1>3. /\ session_event' = session_event \cup TurnRows(s, m, 2 * n)
      /\ agent_session'[s] = 2 * (n + 1)
      /\ \A r \in Sessions \ {s} : agent_session'[r] = agent_session[r]
    BY <1>1, <1>2 DEF CommitsTurn
<1>4. \A r \in Sessions, k \in Messages, i \in Nat :
        TurnRows(r, k, 2 * (i - 1)) \subseteq session_event =>
            TurnRows(r, k, 2 * (i - 1)) \subseteq session_event'
    BY Zenon, <1>3
<1>5. TurnRows(s, m, 2 * ((n + 1) - 1)) \subseteq session_event'
    <2>1. 2 * ((n + 1) - 1) = 2 * n
        OBVIOUS
    <2> QED
        BY Zenon, <1>3, <2>1
<1>6. \A i \in 1..(n + 1) : \E k \in Messages :
        TurnRows(s, k, 2 * (i - 1)) \subseteq session_event'
    <2> SUFFICES ASSUME NEW i \in 1..(n + 1)
                 PROVE  \E k \in Messages : TurnRows(s, k, 2 * (i - 1)) \subseteq session_event'
        BY Zenon
    <2>1. CASE i \in 1..n
        BY <1>1, <1>2, <1>4, <2>1
    <2>2. CASE i = n + 1
        BY Zenon, <1>5, <2>2
    <2> QED
        BY <2>1, <2>2
<1>7. TurnsPaired'
    <2> SUFFICES ASSUME NEW r \in Sessions, agent_session'[r] # NoVersion
                 PROVE  \E j \in Nat : /\ agent_session'[r] = 2 * j
                                       /\ \A i \in 1..j : \E k \in Messages :
                                            TurnRows(r, k, 2 * (i - 1)) \subseteq session_event'
        BY Zenon DEF TurnsPaired, TurnRows
    <2>1. CASE r = s
        <3>1. n + 1 \in Nat
            OBVIOUS
        <3> QED
            BY Zenon, <1>3, <1>6, <2>1, <3>1
    <2>2. CASE r # s
        <3>1. PICK j \in Nat : /\ agent_session[r] = 2 * j
                               /\ \A i \in 1..j : \E k \in Messages :
                                    TurnRows(r, k, 2 * (i - 1)) \subseteq session_event
            BY ZenonT(60), <1>3, <2>2 DEF TurnsPaired
        <3>2. \A i \in 1..j : \E k \in Messages : TurnRows(r, k, 2 * (i - 1)) \subseteq session_event'
            BY <1>4, <3>1
        <3> QED
            BY Zenon, <1>3, <2>2, <3>1, <3>2
    <2> QED
        BY Zenon, <2>1, <2>2
<1>8. ASSUME NEW r \in Sessions, NEW i \in Nat, NEW k \in Messages,
             TurnRows(r, k, 2 * (i - 1)) \subseteq session_event
      PROVE  TurnAt(r, i) = k /\ TurnAt(r, i)' = k
    <2>1. TurnAt(r, i) = k
        BY <1>8, TurnAtUnique DEF TurnAt, HistoryInv, HistoryContiguous
    <2>2. TurnRows(r, k, 2 * (i - 1)) \subseteq session_event'
        BY ZenonT(60), <1>4, <1>8
    <2>3. TurnAt(r, i)' = k
        <3>1. \A q, e \in {f \in session_event' : f.session = r} : q.sequence = e.sequence => q = e
            BY Zenon DEF HistoryInv, HistoryContiguous
        <3> QED
            BY <2>2, <3>1, TurnAtUnique DEF TurnAt, TurnRows
    <2> QED
        BY ZenonT(60), <2>1, <2>3
<1>9. ASSUME NEW r \in Sessions, r # s
      PROVE  History'[r] = History[r]
    <2>1. CASE agent_session[r] = NoVersion
        BY Zenon, <1>3, <1>9, <2>1 DEF History
    <2>2. CASE agent_session[r] # NoVersion
        <3>1. PICK j \in Nat : /\ agent_session[r] = 2 * j
                               /\ \A i \in 1..j : \E k \in Messages :
                                    TurnRows(r, k, 2 * (i - 1)) \subseteq session_event
            BY Zenon, <2>2 DEF TurnsPaired
        <3>2. agent_session[r] \div 2 = j
            BY Zenon, <3>1, HalfOfEven
        <3>3. \A i \in 1..j : TurnAt(r, i)' = TurnAt(r, i)
            BY <1>8, <3>1
        <3>4. History[r] = [i \in 1..j |-> TurnAt(r, i)]
            BY Zenon, <2>2, <3>2 DEF History
        <3>5. History'[r] = [i \in 1..j |-> TurnAt(r, i)']
            BY Zenon, <1>3, <1>9, <2>2, <3>2 DEF History
        <3> QED
            BY Zenon, <3>3, <3>4, <3>5
    <2> QED
        BY Zenon, <2>1, <2>2
<1>10. History'[s] = Append(History[s], m)
    <2>1. agent_session[s] \div 2 = n /\ agent_session'[s] \div 2 = n + 1
        BY <1>2, <1>3, HalfOfEven
    <2>2. agent_session[s] # NoVersion /\ agent_session'[s] # NoVersion
        BY <1>2, <1>3 DEF NoVersion
    <2>3. History[s] = [i \in 1..n |-> TurnAt(s, i)]
        BY Zenon, <1>1, <2>1, <2>2 DEF History
    <2>4. History'[s] = [i \in 1..(n + 1) |-> TurnAt(s, i)']
        BY Zenon, <1>1, <2>1, <2>2 DEF History
    <2>5. \A i \in 1..n : TurnAt(s, i) \in Messages /\ TurnAt(s, i)' = TurnAt(s, i)
        BY <1>1, <1>2, <1>8
    <2>6. TurnAt(s, n + 1)' = m
        <3>1. \A q, e \in {f \in session_event' : f.session = s} : q.sequence = e.sequence => q = e
            BY Zenon, <1>1 DEF HistoryInv, HistoryContiguous
        <3> QED
            BY <1>1, <1>5, <3>1, TurnAtUnique DEF TurnAt, TurnRows
    <2> DEFINE before == [i \in 1..n |-> TurnAt(s, i)]
               after == [i \in 1..(n + 1) |-> TurnAt(s, i)']
    <2>7. before \in Seq(Messages) /\ Len(before) = n
        BY <2>5
    <2>8. \A i \in 1..n : after[i] = before[i]
        BY <2>5
    <2>9. after[n + 1] = m
        BY <2>6
    <2>10. after = Append(before, m)
        <3>0. after = [i \in 1..(n + 1) |-> after[i]]
            BY Zenon
        <3> HIDE DEF before, after
        <3> DEFINE appended == Append(before, m)
        <3>1. /\ appended \in Seq(Messages) /\ Len(appended) = n + 1
              /\ \A i \in 1..n : appended[i] = before[i]
              /\ appended[n + 1] = m
            BY <2>7
        <3>2. \A i \in 1..(n + 1) : i \in 1..n \/ i = n + 1
            OBVIOUS
        <3> HIDE DEF appended
        <3>3. appended = [i \in 1..(n + 1) |-> appended[i]]
            BY <3>1
        <3>4. \A i \in 1..(n + 1) : appended[i] = after[i]
            BY Zenon, <2>8, <2>9, <3>1, <3>2
        <3> QED
            BY Zenon, <3>0, <3>3, <3>4 DEF appended
    <2> QED
        BY ZenonT(60), <2>3, <2>4, <2>10
<1>11. History' = [History EXCEPT ![s] = Append(@, m)]
    <2>1. DOMAIN History = Sessions /\ DOMAIN History' = Sessions
        BY Zenon DEF History
    <2>2. History = [r \in Sessions |-> History[r]] /\ History' = [r \in Sessions |-> History'[r]]
        BY Zenon DEF History
    <2> HIDE DEF s
    <2> QED
        BY Zenon, <1>1, <1>9, <1>10, <2>1, <2>2
<1> QED
    BY Zenon, <1>7, <1>11

\* What a step does to the outcomes when it commits no turn.
LEMMA NextOutcome ==
    TypeInv /\ [Next]_vars =>
        \/ \E m \in Messages : CommitsTurn(m)
        \/ /\ KeepsHistory
           /\ \/ UNCHANGED agent_execution
              \/ \E m \in Messages :
                    /\ agent_execution[m] = NoRow
                    /\ agent_execution' = [agent_execution EXCEPT ![m] = "PENDING"]
              \/ \E m \in Messages :
                    /\ agent_execution[m] = "PENDING"
                    /\ agent_execution' = [agent_execution EXCEPT ![m] = "FAILED"]
<1> SUFFICES ASSUME TypeInv, [Next]_vars, KeepsHistory
             PROVE  \/ UNCHANGED agent_execution
                    \/ \E m \in Messages :
                        /\ agent_execution[m] = NoRow
                        /\ agent_execution' = [agent_execution EXCEPT ![m] = "PENDING"]
                    \/ \E m \in Messages :
                        /\ agent_execution[m] = "PENDING"
                        /\ agent_execution' = [agent_execution EXCEPT ![m] = "FAILED"]
    BY Zenon, NextHistory
<1>1. agent_execution \in [Messages -> Statuses]
    BY Zenon DEF TypeInv, TypeOK, StoreTypeOK
<1>2. ASSUME NEW m \in Messages, Submit(m)
      PROVE  /\ agent_execution[m] = NoRow
             /\ agent_execution' = [agent_execution EXCEPT ![m] = "PENDING"]
    BY Zenon, <1>2 DEF Submit
<1>3. ASSUME NEW w \in Workers, ModelFailed(w)
      PROVE  \/ UNCHANGED agent_execution
             \/ /\ agent_execution[Message(w)] = "PENDING"
                /\ agent_execution' = [agent_execution EXCEPT ![Message(w)] = "FAILED"]
    BY ZenonT(40), <1>1, <1>3 DEF ModelFailed, MarkFailed
<1>4. ASSUME NEW w \in Workers, ModelFailed(w) PROVE Message(w) \in Messages
    BY Zenon, <1>4, MessageType DEF ModelFailed
<1>5. ASSUME NEW w \in Workers, Commit(w) PROVE UNCHANGED agent_execution
    <2>1. Message(w) \in Messages
        BY ZenonT(40), <1>5, MessageType DEF Commit
    <2> QED
        BY Zenon, <1>1, <1>5, <2>1 DEF Commit, CommitSessionEvents, KeepsHistory
<1>6. \/ \E m \in Messages : Submit(m)
      \/ \E w \in Workers : Commit(w) \/ ModelFailed(w)
      \/ UNCHANGED agent_execution
    BY ZenonT(40) DEF Next, Dispatch, GatewayFault, WorkerStep, DatabaseError, Recover, Rebalance,
           Crash, Fetch, CheckStatus, Acquire, CallModel, Renew, RecordFailure,
           PublishDeadLetter, CommitOffset, Tick, vars, storeVars
<1> QED
    BY Zenon, <1>2, <1>3, <1>4, <1>5, <1>6

\* The pipeline with its leases, brokers, retries and crashes implements SessionLog:
\* each step is an acceptance, one answer appended at the end of its Session's
\* history, a failure, or invisible (submit, commit_session_events, _mark_failed).
THEOREM Refinement == Spec => ImplementsSessionLog
<1>1. Init => Promise!LogInit /\ TurnsPaired
    BY Zenon DEF Init, StoreInit, Promise!LogInit, History, TurnsPaired, NoRow
<1>2. ASSUME TypeInv, HistoryInv, TurnsPaired, [Next]_vars, TypeInv', HistoryInv'
      PROVE  TurnsPaired' /\ [Promise!LogNext]_(Promise!logVars)
    <2>1. ASSUME NEW m \in Messages, CommitsTurn(m)
          PROVE  TurnsPaired' /\ Promise!Answer(m)
        BY Zenon, <1>2, <2>1, CommitsTurnMapped DEF CommitsTurn, Promise!Answer
    <2>2. CASE KeepsHistory
        <3>1. TurnsPaired' /\ UNCHANGED History
            BY Zenon, <1>2, <2>2, KeepsHistoryMapped
        <3>2. CASE UNCHANGED agent_execution
            BY Zenon, <3>1, <3>2 DEF Promise!logVars
        <3>3. ASSUME NEW m \in Messages, agent_execution[m] = NoRow,
                     agent_execution' = [agent_execution EXCEPT ![m] = "PENDING"]
              PROVE  Promise!Accept(m)
            BY Zenon, <3>1, <3>3 DEF Promise!Accept, NoRow
        <3>4. ASSUME NEW m \in Messages, agent_execution[m] = "PENDING",
                     agent_execution' = [agent_execution EXCEPT ![m] = "FAILED"]
              PROVE  Promise!Fail(m)
            BY Zenon, <3>1, <3>4 DEF Promise!Fail
        <3>5. CASE \E m \in Messages : CommitsTurn(m)
            BY Zenon, <2>1, <3>5 DEF Promise!LogNext
        <3> QED
            BY Zenon, <1>2, <3>1, <3>2, <3>3, <3>4, <3>5, NextOutcome DEF Promise!LogNext
    <2> QED
        BY Zenon, <1>2, <2>1, <2>2, NextHistory DEF Promise!LogNext
<1> QED
    BY <1>1, <1>2, TypeInvariant, HistoryIntact, PTL
    DEF Spec, ImplementsSessionLog, Promise!LogSpec

=============================================================================
