--------------------------- MODULE JobProjections ---------------------------
(***************************************************************************)
(* Summary and memory projections of committed session events              *)
(* (trpc_service/job_worker.py): job worker replicas claim published       *)
(* outbox records, project them in a transaction of their own and then     *)
(* acknowledge them; an operator corrects memories; the retention sweep    *)
(* blanks what is too old (trpc_service/content_lifecycle.py).             *)
(*                                                                         *)
(* Record <<s, v>> announces event v of session s: the range (v-1, v].     *)
(* Content is the set of events whose text it holds.                       *)
(***************************************************************************)
EXTENDS Integers, Sequences, FiniteSets

CONSTANTS
    Sessions,      \* conversations
    Subjects,      \* IM subjects
    Scopes,        \* kinds of conversation; "thread" is treated as "group" is
    Owners,        \* subjects of executions, or Nothing
    Replicas,      \* job worker replicas
    MaxVersion,    \* bound: events committed in a session
    Room,          \* texts that fit in a summary
    MaxAttempts,   \* deliveries of a record before it is a dead letter
    Bounds,        \* bounds to choose from: replicas, versions, faults and sweeps
    Nothing

ASSUME ProjectionAssumption ==
    /\ MaxVersion \in Nat /\ MaxAttempts \in Nat \ {0}
    /\ Nothing \notin Subjects /\ Owners \subseteq Subjects \cup {Nothing}
    /\ Scopes \subseteq {"direct", "group", "thread"}
    /\ \A b \in Bounds : b.replicas \subseteq Replicas /\ b.versions \in 0..MaxVersion

VARIABLES
    scope,      \* session -> "direct", "group" or "thread", from its session key
    owner,      \* session -> the IM subject of its executions, or Nothing
    event,      \* session -> sequence of payloads, TRUE where there still is text
    delivery,   \* record -> [status, attempts] of session_projection_delivery
    summary,    \* session -> [version, text]; version 0 is no row
    memory,     \* record -> [state, text]; the range is the unique key
    published,  \* <<record, reason>> -> memory invalidation events in the outbox
    replica,    \* replica -> the delivery it works on
    faults,
    swept,      \* session -> events blanked by a sweep (history); stale marks a replica
                \* that had read them before
    bound       \* the bounds of this behaviour

projectionVars == <<scope, owner, event, delivery, summary, memory, published, replica,
                    faults, swept, bound>>

setup == <<scope, owner, bound>>
Records == Sessions \X (1..MaxVersion)
Committed(s) == DOMAIN event[s]
Idle == [at |-> "idle", record |-> Nothing, attempts |-> 0, text |-> {}, stale |-> FALSE]
Undelivered == [status |-> "NONE", attempts |-> 0]

Delivery == [status : {"NONE", "PENDING", "SUCCEEDED", "DEAD_LETTER"}, attempts : 0..MaxAttempts]
Summary == [version : Nat, text : SUBSET Nat]
Memory == [state : {"NONE", "VALID", "CORRECTED", "EXPIRED"}, text : BOOLEAN]
Reasons == {"CREATED", "CORRECTED"}
Replica == [at : {"idle", "chosen", "locked", "read", "ack", "failed"},
            record : Records \cup {Nothing}, attempts : 0..MaxAttempts,
            text : SUBSET Nat, stale : BOOLEAN]

ProjectionTypeOK ==
    /\ scope \in [Sessions -> Scopes] /\ owner \in [Sessions -> Owners]
    /\ event \in [Sessions -> Seq(BOOLEAN)]
    /\ delivery \in [Records -> Delivery]
    /\ summary \in [Sessions -> Summary]
    /\ \A s \in Sessions : /\ Len(event[s]) <= MaxVersion
                           /\ summary[s].version <= Len(event[s])
                           /\ summary[s].text \subseteq 1..summary[s].version
    /\ memory \in [Records -> Memory]
    /\ published \in [Records \X Reasons -> Nat]
    /\ replica \in [Replicas -> Replica]
    /\ faults \in Nat /\ swept \in [Sessions -> SUBSET Nat] /\ bound \in Bounds

ProjectionInit ==
    /\ scope \in [Sessions -> Scopes] /\ owner \in [Sessions -> Owners]
    /\ event = [s \in Sessions |-> <<>>]
    /\ delivery = [r \in Records |-> Undelivered]
    /\ summary = [s \in Sessions |-> [version |-> 0, text |-> {}]]
    /\ memory = [r \in Records |-> [state |-> "NONE", text |-> FALSE]]
    /\ published = [p \in Records \X Reasons |-> 0]
    /\ replica = [w \in Replicas |-> Idle]
    /\ faults = 0 /\ swept = [s \in Sessions |-> {}] /\ bound \in Bounds

-----------------------------------------------------------------------------
\* A turn of the session commits its events and their outbox record together; the record
\* is published by the dispatcher.
CommitEvents(s) ==
    /\ Len(event[s]) < bound.versions
    /\ event' = [event EXCEPT ![s] = Append(@, TRUE)]
    /\ UNCHANGED <<setup, delivery, summary, memory, published, replica, faults, swept>>

\* Outbox rows locked by the transaction of a consumer.
Locked == {replica[w].record : w \in {v \in Replicas : replica[v].at \notin {"idle", "chosen"}}}

\* The statement of run_once: a snapshot finds the record not yet delivered ...
ChooseRecord(w, r) ==
    /\ replica[w].at = "idle" /\ w \in bound.replicas
    /\ r[2] \in Committed(r[1]) /\ r \notin Locked
    /\ delivery[r].status \in {"NONE", "PENDING"} /\ delivery[r].attempts < MaxAttempts
    /\ replica' = [replica EXCEPT ![w] = [Idle EXCEPT !.at = "chosen", !.record = r,
                                                     !.attempts = delivery[r].attempts]]
    /\ UNCHANGED <<setup, event, delivery, summary, memory, published, faults, swept>>

\* ... and locks the outbox row, or skips it.  The delivery row is not looked at again:
\* only the outbox row is locked.
LockRecord(w) ==
    /\ replica[w].at = "chosen"
    /\ replica' = [replica EXCEPT ![w] = IF @.record \in Locked THEN Idle
                                         ELSE [@ EXCEPT !.at = "locked"]]
    /\ UNCHANGED <<setup, event, delivery, summary, memory, published, faults, swept>>

\* handle reads the events up to the end of the range; they are complete, or it raises.
SourceEvents(s, v) == {k \in 1..v : event[s][k]}

HandleRead(w) ==
    LET r == replica[w].record IN
    /\ replica[w].at = "locked"
    /\ replica' = [replica EXCEPT ![w].at = "read", ![w].text = SourceEvents(r[1], r[2])]
    /\ UNCHANGED <<setup, event, delivery, summary, memory, published, faults, swept>>

\* The newest texts that fit in a summary.
SummaryProjection(text) == {k \in text : Cardinality({j \in text : j > k}) < Room}

\* Only a newer version replaces a summary.
UpsertSummary(s, v, text) ==
    summary' = [summary EXCEPT ![s] =
                  IF @.version < v THEN [version |-> v, text |-> SummaryProjection(text)]
                  ELSE @]

MemoryPolicy(s) ==
    IF scope[s] = "direct" THEN "im-subject-direct-v1" ELSE "im-group-isolated-v1"

\* Mutant: group conversations yield memory.
Projects_All(s) == owner[s] # Nothing

Projects(s) == owner[s] # Nothing /\ MemoryPolicy(s) # "im-group-isolated-v1"

\* The invalidation event goes to the outbox in the transaction that changes the memory.
Publish(r, reason) == published' = [published EXCEPT ![<<r, reason>>] = @ + 1]

\* Mutant: DO UPDATE instead of DO NOTHING.
InsertMemory_Refresh(r, text) ==
    IF Projects(r[1])
    THEN /\ memory' = [memory EXCEPT ![r] = [state |-> "VALID", text |-> r[2] \in text]]
         /\ UNCHANGED published
    ELSE UNCHANGED <<memory, published>>

\* ON CONFLICT DO NOTHING: a memory that exists, valid or not, is left alone.
InsertMemory(r, text) ==
    IF Projects(r[1]) /\ memory[r].state = "NONE"
    THEN /\ memory' = [memory EXCEPT ![r] = [state |-> "VALID", text |-> r[2] \in text]]
         /\ Publish(r, "CREATED")
    ELSE UNCHANGED <<memory, published>>

\* The projection is committed on its own, before it is acknowledged.
HandleCommit(w) ==
    LET r == replica[w].record IN
    /\ replica[w].at = "read"
    /\ UpsertSummary(r[1], r[2], replica[w].text)
    /\ InsertMemory(r, replica[w].text)
    /\ replica' = [replica EXCEPT ![w].at = "ack", ![w].text = {}, ![w].stale = FALSE]
    /\ UNCHANGED <<setup, event, delivery, faults, swept>>

\* handle raises, and its transaction is rolled back.
HandleFails(w) ==
    /\ replica[w].at \in {"locked", "read"} /\ faults < bound.faults
    /\ replica' = [replica EXCEPT ![w].at = "failed", ![w].text = {}, ![w].stale = FALSE]
    /\ faults' = faults + 1
    /\ UNCHANGED <<setup, event, delivery, summary, memory, published, swept>>

Release(w) == replica' = [replica EXCEPT ![w] = Idle]

Acknowledge(w) ==
    /\ replica[w].at = "ack"
    /\ delivery' = [delivery EXCEPT ![replica[w].record] =
                      [status |-> "SUCCEEDED", attempts |-> replica[w].attempts + 1]]
    /\ Release(w)
    /\ UNCHANGED <<setup, event, summary, memory, published, faults, swept>>

\* Mutant: one attempt more than MaxAttempts.
FailureStatus_Later(attempts) == IF attempts > MaxAttempts THEN "DEAD_LETTER" ELSE "PENDING"

FailureStatus(attempts) == IF attempts >= MaxAttempts THEN "DEAD_LETTER" ELSE "PENDING"

\* The upsert leaves completed_at as it is: on a SUCCEEDED row the table's CHECK refuses
\* it, and the consumer's transaction is rolled back.
Checked(row) == row.status # "SUCCEEDED"

RecordFailure(w) ==
    LET r == replica[w].record  attempts == replica[w].attempts + 1 IN
    /\ replica[w].at = "failed"
    /\ delivery' = [delivery EXCEPT ![r] =
         IF Checked(@) THEN [status |-> FailureStatus(attempts), attempts |-> attempts] ELSE @]
    /\ Release(w)
    /\ UNCHANGED <<setup, event, summary, memory, published, faults, swept>>

\* The replica dies; the locks of its transaction go with it.
ReplicaDies(w) ==
    /\ replica[w].at # "idle" /\ faults < bound.faults
    /\ Release(w)
    /\ faults' = faults + 1
    /\ UNCHANGED <<setup, event, delivery, summary, memory, published, swept>>

CorrectMemory(r) ==
    /\ memory[r].state = "VALID"
    /\ memory' = [memory EXCEPT ![r].state = "CORRECTED"]
    /\ Publish(r, "CORRECTED")
    /\ UNCHANGED <<setup, event, delivery, summary, replica, faults, swept>>

\* The retention sweep finds session s idle, and the memories old unused, for too long.
SweepSession(s, old) ==
    /\ swept[s] = {} /\ bound.sweeps
    /\ swept' = [swept EXCEPT ![s] = Committed(s)]
    /\ replica' = [w \in Replicas |-> [replica[w] EXCEPT
         !.stale = @ \/ (replica[w].at = "read" /\ replica[w].record[1] = s)]]
    /\ event' = [event EXCEPT ![s] = [k \in DOMAIN @ |-> FALSE]]
    /\ summary' = [summary EXCEPT ![s].text = {}]
    /\ memory' = [r \in Records |-> IF r \in old /\ memory[r].state = "VALID"
                                    THEN [state |-> "EXPIRED", text |-> FALSE] ELSE memory[r]]
    /\ UNCHANGED <<setup, delivery, published, faults>>

Existing == {r \in Records : memory[r].state # "NONE"}

ConsumerStep(w) ==
    \/ \E r \in Records : ChooseRecord(w, r)
    \/ LockRecord(w)
    \/ HandleRead(w)
    \/ HandleCommit(w)
    \/ Acknowledge(w)
    \/ RecordFailure(w)

ProjectionNext ==
    \/ \E s \in Sessions : CommitEvents(s)
    \/ \E w \in Replicas : ConsumerStep(w)
    \/ \E w \in Replicas : HandleFails(w)
    \/ \E w \in Replicas : ReplicaDies(w)
    \/ \E r \in Records : CorrectMemory(r)
    \/ \E s \in Sessions : \E old \in SUBSET Existing : SweepSession(s, old)

-----------------------------------------------------------------------------
\* A record projected late, out of order or again takes nothing back: a summary keeps to
\* the newest version, a corrected or expired memory stays so, and an acknowledgement is
\* final, although another replica may find the record undelivered in an older snapshot.
ProjectionsStand ==
    [][/\ \A s \in Sessions : summary'[s].version >= summary[s].version
       /\ \A r \in Records : memory[r].state \in {"CORRECTED", "EXPIRED"} =>
             memory'[r].state = memory[r].state
       /\ \A r \in Records : delivery[r].status = "SUCCEEDED" =>
             delivery'[r].status = "SUCCEEDED"]_projectionVars

\* The summary covers the range of the record, and its memory exists if its conversation may
\* have one.
Projected(r) ==
    /\ summary[r[1]].version >= r[2]
    /\ Projects(r[1]) => memory[r].state # "NONE"

\* A record acknowledged as delivered has its projection.
DeliveredIsProjected ==
    \A r \in Records : delivery[r].status = "SUCCEEDED" => Projected(r)

\* Caches hear exactly once of every memory that was created and of every correction.
InvalidationsMatch ==
    \A r \in Records :
        /\ published[<<r, "CREATED">>] = IF memory[r].state = "NONE" THEN 0 ELSE 1
        /\ memory[r].state = "CORRECTED" => published[<<r, "CORRECTED">>] = 1
        /\ memory[r].state = "VALID" => published[<<r, "CORRECTED">>] = 0

\* Text swept from a session returns to its summary only with a projection that had read it
\* before: later ones find the events blanked.
SweptStaysOut ==
    [][\A s \in Sessions : \A k \in swept[s] :
         k \notin summary[s].text /\ (\A w \in Replicas : ~replica[w].stale)
         => k \notin summary'[s].text]_projectionVars

\* Every committed record is delivered or ends as a dead letter: none is left pending.
RecordSettles ==
    \A r \in Records : r[2] \in Committed(r[1]) ~>
        delivery[r].status \in {"SUCCEEDED", "DEAD_LETTER"}

\* Not kept: memory content ends 365 days after its last use (ADR-0026).  The sweep looks at
\* valid memories only, and the text of a corrected one stays (content_lifecycle.py:340).
OverdueIsBlank ==
    [][\A s \in Sessions : \A old \in SUBSET Existing :
         SweepSession(s, old) => \A r \in old : ~memory'[r].text]_projectionVars

\* Not kept: the sweep's erasure is final.  A projection that has read the events commits
\* their text afterwards.
SweptIsErased ==
    \A s \in Sessions : \A k \in summary[s].text : event[s][k]
=============================================================================
