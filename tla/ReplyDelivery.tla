---------------------------- MODULE ReplyDelivery ----------------------------
(***************************************************************************)
(* The delivery of one reply to an IM channel: ReplyDeliveryService        *)
(* (trpc_service/channels/delivery.py) over tenant.reply_delivery          *)
(* (trpc_service/channels/store.py), driven by the consumers of completed  *)
(* executions (trpc_service/channel_gateway.py) and the operator's retry   *)
(* of dead letters (trpc_service/admin_api/ops.py).                        *)
(*                                                                         *)
(* The delivery id is derived from the Kafka message, so every delivery of *)
(* that message, by whatever consumer, works on the same row.  A consumer  *)
(* enqueues the row, runs it, and on an updatable channel (Feishu) updates *)
(* it and runs it again for each further piece of content.  Every await is *)
(* a step of its own.                                                      *)
(***************************************************************************)
EXTENDS Integers, FiniteSets

CONSTANTS
    Runners,        \* consumers of the completion topic
    Scenes,         \* the deliveries considered, each with its bounds
    Updates,        \* how often the script updates a Feishu card
    MaxAttempts,    \* DEFAULT_MAX_ATTEMPTS
    Outcomes        \* what a send may end in

\* channel: channel_type of the delivery's binding; consumers: those that receive
\* the record, two of them at once after a rebalance; maxFaults bounds unsuccessful
\* sends, crashes and redeliveries, maxRequeues an operator's retries of a dead letter.
Scene == [channel : {"WECOM", "FEISHU"}, consumers : SUBSET Runners,
          maxFaults : Nat, maxRequeues : Nat]

SendResults == {"delivered", "rate_limited", "failed", "timeout", "raised"}

ASSUME DeliveryAssumption ==
    /\ Scenes \subseteq Scene
    /\ Updates \in Nat /\ MaxAttempts \in Nat \ {0}
    /\ Outcomes \subseteq SendResults

VARIABLES
    reply_delivery, \* the row
    attempt_rows,   \* reply_delivery_attempt rows
    runner,         \* what each consumer is doing
    shown,          \* contents the channel has received
    confirmed,      \* contents whose delivery has been recorded DELIVERED
    scene,          \* the delivery considered; constant
    faults, requeues

vars == <<reply_delivery, attempt_rows, runner, shown, confirmed, scene, faults, requeues>>

channel == scene.channel

Contents == 0..Updates     \* 0: the first content, k: that of the k-th update
States == {"QUEUED", "IN_FLIGHT", "DELIVERED", "RATE_LIMITED", "FAILED",
           "OUTCOME_UNKNOWN", "DEAD_LETTER"}
TerminalStates == {"DELIVERED", "DEAD_LETTER"}
AttemptOutcomes == {"DELIVERED", "RATE_LIMITED", "FAILED", "OUTCOME_UNKNOWN",
                    "RECONCILED_DELIVERED", "RECONCILED_NOT_DELIVERED"}
Row == [status : States \cup {"NO_ROW"}, attempts : Nat, content : Contents]
NoDelivery == [status |-> "NO_ROW", attempts |-> 0, content |-> 0]

\* The await a consumer is at: idle and done are before and after its script,
\* error when an exception left it.
Places == {"idle", "insert", "load", "claim", "send", "record", "save",
           "update_load", "update_save", "done", "error"}

\* copy: the delivery object in hand; script: updates made; known: the Feishu
\* client of this script knows the card's message id; result: what the send or
\* reconciliation in progress ended in; next: the status about to be saved.
Runner == [at : Places, copy : Row, script : Contents, known : BOOLEAN,
           result : SendResults \cup {"none"}, next : States]
IdleRunner == [at |-> "idle", copy |-> NoDelivery, script |-> 0, known |-> FALSE,
               result |-> "none", next |-> "QUEUED"]

TypeOK ==
    /\ reply_delivery \in Row
    /\ attempt_rows \subseteq [no : Nat, outcome : AttemptOutcomes]
    /\ runner \in [Runners -> Runner]
    /\ shown \subseteq Contents /\ confirmed \subseteq Contents
    /\ scene \in Scenes
    /\ faults \in 0..scene.maxFaults /\ requeues \in 0..scene.maxRequeues

Init ==
    /\ reply_delivery = NoDelivery
    /\ attempt_rows = {}
    /\ runner = [r \in Runners |-> IdleRunner]
    /\ shown = {} /\ confirmed = {}
    /\ scene \in Scenes
    /\ faults = 0 /\ requeues = 0

Fault == faults < scene.maxFaults /\ faults' = faults + 1

\* save_delivery: an upsert that writes status, attempts and content as they are.
SaveDelivery(row) ==
    /\ reply_delivery' = row
    /\ confirmed' = IF row.status = "DELIVERED" THEN confirmed \cup {row.content} ELSE confirmed

-----------------------------------------------------------------------------
(* enqueue *)

Lookup(r) ==
    /\ runner[r].at = "idle"
    /\ runner' = [runner EXCEPT ![r].at =
            IF reply_delivery.status = "NO_ROW" THEN "insert" ELSE "load"]
    /\ UNCHANGED <<reply_delivery, attempt_rows, shown, confirmed, scene, faults, requeues>>

Insert(r) ==
    /\ runner[r].at = "insert"
    /\ SaveDelivery([NoDelivery EXCEPT !.status = "QUEUED"])
    /\ runner' = [runner EXCEPT ![r].at = "load"]
    /\ UNCHANGED <<attempt_rows, shown, scene, faults, requeues>>

-----------------------------------------------------------------------------
(* run *)

\* run returns: the script goes on to the next update, or ends.
Return(r) ==
    IF channel = "FEISHU" /\ runner[r].script < Updates THEN "update_load" ELSE "done"

\* The top of the loop: an exhausted delivery is dead-lettered, any other one
\* is claimed (after the backoff).
Loop(row, next) ==
    IF row.attempts >= MaxAttempts /\ row.status # "RATE_LIMITED"
    THEN [at |-> "save", next |-> "DEAD_LETTER"]
    ELSE [at |-> "claim", next |-> next]

\* The verdict of the transport's reconcile.
Reconcile(r) ==
    IF channel = "WECOM" \/ runner[r].known THEN "delivered" ELSE "not_delivered"

Continue(r, row, step) ==
    runner' = [runner EXCEPT ![r].copy = row, ![r].at = step.at, ![r].next = step.next]

\* Mutant: an attempt left in flight is taken for another consumer's.
Load_InFlightIsOwned(r) ==
    /\ runner[r].at = "load"
    /\ LET row == reply_delivery
       IN  \/ /\ row.status \in TerminalStates \cup {"IN_FLIGHT"}
              /\ Continue(r, row, [at |-> Return(r), next |-> "QUEUED"])
           \/ /\ row.status = "OUTCOME_UNKNOWN"
              /\ Continue(r, row, [at |-> "save", next |->
                    IF Reconcile(r) = "delivered" THEN "DELIVERED" ELSE "FAILED"])
           \/ /\ row.status \notin TerminalStates \cup {"OUTCOME_UNKNOWN", "IN_FLIGHT"}
              /\ Continue(r, row, Loop(row, row.status))
    /\ UNCHANGED <<reply_delivery, attempt_rows, shown, confirmed, scene, faults, requeues>>

\* Mutant: a parked attempt is resent without reconciling it.
Load_BlindResend(r) ==
    /\ runner[r].at = "load"
    /\ LET row == reply_delivery
       IN  \/ /\ row.status \in TerminalStates
              /\ Continue(r, row, [at |-> Return(r), next |-> row.status])
           \/ /\ row.status \notin TerminalStates
              /\ Continue(r, row, Loop(row, row.status))
    /\ UNCHANGED <<reply_delivery, attempt_rows, shown, confirmed, scene, faults, requeues>>

\* run's first part: load, return on a terminal state, reconcile a parked attempt.
Load(r) ==
    /\ runner[r].at = "load"
    /\ LET row == reply_delivery
       IN  \/ /\ row.status \in TerminalStates
              /\ Continue(r, row, [at |-> Return(r), next |-> row.status])
           \/ /\ row.status = "OUTCOME_UNKNOWN"
              /\ Continue(r, row, [at |-> "save", next |->
                    IF Reconcile(r) = "delivered" THEN "DELIVERED" ELSE "FAILED"])
           \/ /\ row.status \notin TerminalStates \cup {"OUTCOME_UNKNOWN"}
              /\ Continue(r, row, Loop(row, row.status))
    /\ UNCHANGED <<reply_delivery, attempt_rows, shown, confirmed, scene, faults, requeues>>

\* Mutant: the attempt keeps its number.
Claim_SameNumber(r) ==
    /\ runner[r].at = "claim"
    /\ IF reply_delivery.status = runner[r].copy.status
       THEN LET row == [reply_delivery EXCEPT !.status = "IN_FLIGHT",
                            !.attempts = IF @ = 0 THEN 1 ELSE @]
            IN  /\ reply_delivery' = row
                /\ Continue(r, row, [at |-> "send", next |-> "IN_FLIGHT"])
       ELSE /\ runner' = [runner EXCEPT ![r].at = Return(r)]
            /\ UNCHANGED reply_delivery
    /\ UNCHANGED <<attempt_rows, shown, confirmed, scene, faults, requeues>>

\* claim_attempt: compare-and-swap on the status alone.
Claim(r) ==
    /\ runner[r].at = "claim"
    /\ IF reply_delivery.status = runner[r].copy.status
       THEN LET row == [reply_delivery EXCEPT !.status = "IN_FLIGHT",
                            !.attempts = runner[r].copy.attempts + 1]
            IN  /\ reply_delivery' = row
                /\ Continue(r, row, [at |-> "send", next |-> "IN_FLIGHT"])
       ELSE /\ runner' = [runner EXCEPT ![r].at = Return(r)]
            /\ UNCHANGED reply_delivery
    /\ UNCHANGED <<attempt_rows, shown, confirmed, scene, faults, requeues>>

\* Feishu deduplicates a second creation of the card by its uuid, and then need
\* not take the new content.
Deduplicated(r) == channel = "FEISHU" /\ ~runner[r].known /\ shown # {}

\* transport.send.  A timeout, an error and an exception may each come after the
\* channel has received the content.
Send(r) ==
    /\ runner[r].at = "send"
    /\ \E outcome \in Outcomes :
        /\ IF outcome = "delivered" THEN UNCHANGED faults ELSE Fault
        /\ \/ shown' = shown \cup {runner[r].copy.content} /\ outcome # "rate_limited"
           \/ shown' = shown /\ (outcome = "delivered" => Deduplicated(r))
        /\ runner' = [runner EXCEPT ![r].at = "record", ![r].result = outcome,
                ![r].known = @ \/ (outcome = "delivered" /\ channel = "FEISHU")]
    /\ UNCHANGED <<reply_delivery, attempt_rows, confirmed, scene, requeues>>

\* The attempt's outcome and the delivery's next status.
Verdict(r) ==
    CASE runner[r].result = "delivered"    -> [outcome |-> "DELIVERED", next |-> "DELIVERED"]
      [] runner[r].result = "rate_limited" -> [outcome |-> "RATE_LIMITED", next |-> "RATE_LIMITED"]
      [] runner[r].result = "failed"       -> [outcome |-> "FAILED", next |-> "FAILED"]
      [] runner[r].result = "raised"       ->
            [outcome |-> "OUTCOME_UNKNOWN", next |-> "OUTCOME_UNKNOWN"]
      [] runner[r].result = "timeout"      ->
            IF Reconcile(r) = "delivered"
            THEN [outcome |-> "RECONCILED_DELIVERED", next |-> "DELIVERED"]
            ELSE [outcome |-> "RECONCILED_NOT_DELIVERED", next |-> "FAILED"]

\* save_attempt: attempt_no is unique, a second row of that number raises.
Record(r) ==
    /\ runner[r].at = "record"
    /\ LET no == runner[r].copy.attempts
       IN  IF \E a \in attempt_rows : a.no = no
           THEN /\ runner' = [runner EXCEPT ![r].at = "error"]
                /\ UNCHANGED attempt_rows
           ELSE /\ attempt_rows' = attempt_rows \cup {[no |-> no, outcome |-> Verdict(r).outcome]}
                /\ runner' = [runner EXCEPT ![r].at = "save", ![r].next = Verdict(r).next]
    /\ UNCHANGED <<reply_delivery, shown, confirmed, scene, faults, requeues>>

\* _transition: write the status over whatever the row holds now, then return or
\* go round the loop.
Save(r) ==
    /\ runner[r].at = "save"
    /\ LET row == [runner[r].copy EXCEPT !.status = runner[r].next]
       IN  /\ SaveDelivery(row)
           /\ \/ /\ row.status \in TerminalStates \cup {"OUTCOME_UNKNOWN"}
                 /\ Continue(r, row, [at |-> Return(r), next |-> row.status])
              \/ /\ row.status \notin TerminalStates \cup {"OUTCOME_UNKNOWN"}
                 /\ Continue(r, row, Loop(row, row.status))
    /\ UNCHANGED <<attempt_rows, shown, scene, faults, requeues>>

-----------------------------------------------------------------------------
(* update *)

UpdateLoad(r) ==
    /\ runner[r].at = "update_load"
    /\ runner' = [runner EXCEPT ![r].copy = reply_delivery,
            ![r].at = IF reply_delivery.status = "DELIVERED" THEN "update_save" ELSE "error"]
    /\ UNCHANGED <<reply_delivery, attempt_rows, shown, confirmed, scene, faults, requeues>>

UpdateSave(r) ==
    /\ runner[r].at = "update_save"
    /\ SaveDelivery([runner[r].copy EXCEPT !.status = "QUEUED", !.content = runner[r].script + 1])
    /\ runner' = [runner EXCEPT ![r].at = "load", ![r].script = @ + 1]
    /\ UNCHANGED <<attempt_rows, shown, scene, faults, requeues>>

-----------------------------------------------------------------------------
(* The consumer, the operator, and the next-state relation *)

\* The handler raised: the consumer handles the record again.  (Its own limit of
\* attempts is in ExecutionBus.)
Retry(r) ==
    /\ runner[r].at = "error"
    /\ runner' = [runner EXCEPT ![r] = IdleRunner]
    /\ UNCHANGED <<reply_delivery, attempt_rows, shown, confirmed, scene, faults, requeues>>

\* The process dies, or the offset of a finished record was not committed: Kafka
\* delivers the record again and the script starts over.
Redeliver(r) ==
    /\ runner[r].at # "idle"
    /\ Fault
    /\ runner' = [runner EXCEPT ![r] = IdleRunner]
    /\ UNCHANGED <<reply_delivery, attempt_rows, shown, confirmed, scene, requeues>>

\* POST /ops/dead-letters/{delivery_id}/retries.
RequeueDeadLetter ==
    /\ requeues < scene.maxRequeues
    /\ reply_delivery.status = "DEAD_LETTER"
    /\ reply_delivery' = [reply_delivery EXCEPT !.status = "QUEUED"]
    /\ requeues' = requeues + 1
    /\ UNCHANGED <<attempt_rows, runner, shown, confirmed, scene, faults>>

Step(r) ==
    \/ Lookup(r) \/ Insert(r) \/ Load(r) \/ Claim(r) \/ Send(r) \/ Record(r) \/ Save(r)
    \/ UpdateLoad(r) \/ UpdateSave(r) \/ Retry(r)

Next == (\E r \in scene.consumers : Step(r) \/ Redeliver(r)) \/ RequeueDeadLetter

Spec == Init /\ [][Next]_vars

\* A consumer that is alive goes on with its script, and a send comes back.
FairSpec == Spec /\ \A r \in Runners : WF_vars(r \in scene.consumers /\ Step(r))

-----------------------------------------------------------------------------
(* Properties *)

\* One consumer at a time has the record; crashes and redeliveries included.
OneConsumer == \E r \in Runners : scene.consumers = {r}

\* No reply is sent blindly, while one consumer at a time has the record: "a confirmed
\* delivery is never resent" (nothing is sent to a WeCom conversation once the row has
\* recorded it as DELIVERED; a Feishu script that starts over patches its card again),
\* and an unknown outcome is reconciled before the row is claimed again.
NotBlindlyResent ==
    [][\A r \in scene.consumers : OneConsumer =>
        /\ channel = "WECOM" /\ Send(r) => runner[r].copy.content \notin confirmed
        /\ Claim(r) => reply_delivery.status # "OUTCOME_UNKNOWN"]_vars

\* DELIVERED is backed by evidence: the conversation has received the content,
\* or a reconciliation said so.  (Stated for WeCom: a Feishu client that lost
\* the card's id creates it again, and Feishu may keep the earlier content.)
DeliveredHasEvidence ==
    channel = "WECOM" /\ reply_delivery.status = "DELIVERED" =>
        \/ reply_delivery.content \in shown
        \/ \E a \in attempt_rows :
            /\ a.no = reply_delivery.attempts
            /\ a.outcome \in {"RECONCILED_DELIVERED", "OUTCOME_UNKNOWN"}

\* Attempt numbers are used once: while one consumer at a time handles the
\* record, saving an attempt never meets the unique key, whatever crashes and
\* redeliveries came before.
AttemptsNumberedOnce ==
    OneConsumer => \A r \in scene.consumers : runner[r].at = "record" =>
        \A a \in attempt_rows : a.no < runner[r].copy.attempts

\* The failure budget bounds the traffic: the attempts made beyond it were all
\* preceded by a rate limit.
AttemptsWithinBudget ==
    reply_delivery.attempts <=
        MaxAttempts + Cardinality({a \in attempt_rows : a.outcome = "RATE_LIMITED"})

\* The row's one counter serves two purposes, the numbers of the attempts and the
\* failure budget, over crashes, rate limits and updates of the same delivery.
AttemptsCounted == AttemptsNumberedOnce /\ AttemptsWithinBudget

\* "terminal failures remain immutable and must use the dead-letter recovery
\* path": a dead letter of a single consumer leaves that status only by the
\* operator's requeue.
DeadLetterImmutable ==
    [][OneConsumer /\ reply_delivery.status = "DEAD_LETTER" =>
        \/ reply_delivery' = reply_delivery
        \/ RequeueDeadLetter]_vars

\* Every interrupted delivery is taken up again, also when two consumers have it
\* at once: in the end the reply stays delivered, dead-lettered or parked, unless
\* an operator requeued it (see RequeuedIsRetried).
EventuallySettled ==
    <>[](requeues = 0 =>
            reply_delivery.status \in TerminalStates \cup {"OUTCOME_UNKNOWN"})

(* Statements of the documentation that the code does not keep *)

\* "a confirmed delivery is never resent", also when two consumers have the record.
ConfirmedNeverResent ==
    [][\A r \in scene.consumers : channel = "WECOM" /\ Send(r) =>
        runner[r].copy.content \notin confirmed]_vars

\* "Compare-and-swap into IN_FLIGHT; None when another worker holds it."
ClaimExclusive ==
    \A q, r \in Runners : runner[q].at = "send" /\ runner[r].at = "send" => q = r

\* A delivery that is recorded DELIVERED has reached the channel: an unknown
\* outcome that was a miss is retried.
DeliveredWasShown ==
    reply_delivery.status = "DELIVERED" => reply_delivery.content \in shown

\* A dead letter that is queued again is sent again.
RequeuedIsRetried == [](reply_delivery.status = "QUEUED" => <>(reply_delivery.status # "QUEUED"))

=============================================================================
