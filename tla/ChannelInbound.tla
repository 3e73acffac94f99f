--------------------------- MODULE ChannelInbound ---------------------------
(***************************************************************************)
(* An inbound channel event on its way to an execution: the Channel        *)
(* Gateway's callbacks and long connections (trpc_service/                 *)
(* channel_gateway.py, channels/feishu.py), the inbound ledger             *)
(* (channels/inbound.py, channels/store.py), the channel binding it is     *)
(* routed by (channels/bindings.py, admin_api/channel_bindings.py) and the *)
(* submission of the execution (agent_gateway.py).                         *)
(*                                                                         *)
(* One message key of one bot.  The provider delivers it again and again,  *)
(* through any gateway, until a delivery is acknowledged; a second event   *)
(* may reuse the key with another payload.  A delivery is handled in three *)
(* transactions (ledger row, submission, attachment) with readings of the  *)
(* binding and of the deployed release before them, and its process may    *)
(* stop between any two of them.                                           *)
(***************************************************************************)
EXTENDS FeishuConnection

CONSTANTS
    Payloads,           \* contents sent under the message key
    Releases,           \* releases deployed for the binding's application
    Nothing,            \* no row, no value
    MaxChanges          \* bound: redeployments, disablings of the binding, and
                        \* submissions refused by admission (callbacks only)

VARIABLES
    channel_type,               \* "WECOM": callbacks, "FEISHU": long connection
    channel_binding,            \* status of the binding row
    deployed,                   \* release the deployment resolver answers
    channel_inbound_message,    \* ledger row of the key
    channel_inbound_conflict,   \* payloads recorded as conflicts
    agent_execution,            \* execution row of the key's message id
    handler,                    \* the delivery each gateway is handling
    acknowledged,               \* payloads the provider saw accepted
    changes

inboundVars == <<channel_type, channel_binding, deployed, channel_inbound_message,
                 channel_inbound_conflict, agent_execution, handler, acknowledged,
                 changes>>
ingressVars == <<inboundVars, connVars>>

InboundMessage == [payload : Payloads, executed : BOOLEAN, release : Releases \cup {Nothing}]
Execution == [payload : Payloads, release : Releases]

\* Nothing is no value and no row, and the application has a deployed release.
ASSUME InboundAssumption ==
    /\ Nothing \notin Payloads \cup Releases
    /\ Nothing \notin InboundMessage \cup Execution
    /\ Releases # {}
    /\ MaxChanges \in Nat

\* sign, verify: earlier readings of the binding, resolve: the last one, in
\* ingest_verified; insert: the ledger; conflict: its evidence; route: the
\* deployed release; submit: the execution; attach: the ledger again.
HandlerState == [at : {"idle", "sign", "verify", "resolve", "insert", "conflict", "route",
                       "submit", "attach"},
                 payload : Payloads \cup {Nothing}, release : Releases \cup {Nothing}]
IdleHandler == [at |-> "idle", payload |-> Nothing, release |-> Nothing]

IngressTypeOK ==
    /\ ConnTypeOK
    /\ channel_type \in {"WECOM", "FEISHU"}
    /\ channel_binding \in {"NONE", "ACTIVE", "DISABLED"}
    /\ deployed \in Releases
    /\ channel_inbound_message \in InboundMessage \cup {Nothing}
    /\ channel_inbound_conflict \subseteq Payloads
    /\ agent_execution \in Execution \cup {Nothing}
    /\ handler \in [Gateways -> HandlerState]
    /\ acknowledged \subseteq Payloads
    /\ changes \in 0..MaxChanges

IngressInit ==
    /\ ConnInit
    /\ channel_type \in {"WECOM", "FEISHU"}
    /\ channel_binding = "NONE"
    /\ deployed = CHOOSE r \in Releases : TRUE
    /\ channel_inbound_message = Nothing
    /\ channel_inbound_conflict = {}
    /\ agent_execution = Nothing
    /\ handler = [g \in Gateways |-> IdleHandler]
    /\ acknowledged = {}
    /\ changes = IF channel_type = "FEISHU" THEN MaxChanges ELSE 0

Goto(g, place) == handler' = [handler EXCEPT ![g].at = place]
Stop(g) == handler' = [handler EXCEPT ![g] = IdleHandler]

\* ------------------------------------------------------ administrators

\* register_binding: inserted once; the same registration again changes nothing.
RegisterBinding ==
    /\ channel_binding = "NONE"
    /\ channel_binding' = "ACTIVE"
    /\ UNCHANGED <<channel_type, deployed, channel_inbound_message, channel_inbound_conflict,
                   agent_execution, handler, acknowledged, changes, connVars>>

\* change_status: a binding is disabled, and activated again.
SetBindingStatus(status) ==
    /\ channel_binding # "NONE" /\ channel_binding # status
    /\ channel_binding' = status
    /\ IF status = "DISABLED" THEN changes < MaxChanges /\ changes' = changes + 1
                              ELSE UNCHANGED changes
    /\ UNCHANGED <<channel_type, deployed, channel_inbound_message, channel_inbound_conflict,
                   agent_execution, handler, acknowledged, connVars>>

\* The control plane deploys another release for the application.
Deploy(r) ==
    /\ r # deployed
    /\ changes < MaxChanges /\ changes' = changes + 1
    /\ deployed' = r
    /\ UNCHANGED <<channel_type, channel_binding, channel_inbound_message, channel_inbound_conflict,
                   agent_execution, handler, acknowledged, connVars>>

\* -------------------------------------------------------- the deliveries

\* A text message in a callback whose signature verified; other messages and a
\* standby region are answered without any effect.
ReceiveCallback(g, p) ==
    /\ channel_type = "WECOM" /\ gateway[g].at # "down"
    /\ handler[g].at = "idle" /\ p \notin acknowledged
    /\ handler' = [handler EXCEPT ![g] = [IdleHandler EXCEPT !.at = "sign", !.payload = p]]
    /\ UNCHANGED <<channel_type, channel_binding, deployed, channel_inbound_message,
                   channel_inbound_conflict, agent_execution, acknowledged, changes,
                   connVars>>

\* An event of the long connection: refused by a gateway without a lease.  (Bound:
\* one payload; payload conflicts are explored with callbacks.)
ReceiveLongConnectionEvent(g, p) ==
    /\ channel_type = "FEISHU" /\ p = CHOOSE q \in Payloads : TRUE
    /\ handler[g].at = "idle" /\ p \notin acknowledged
    /\ gateway[g].at \in Consuming
    /\ Holds(g)
    /\ handler' = [handler EXCEPT ![g] =
            [IdleHandler EXCEPT !.at = "verify", !.payload = p]]
    /\ UNCHANGED <<channel_type, channel_binding, deployed, channel_inbound_message,
                   channel_inbound_conflict, agent_execution, acknowledged, changes,
                   connVars>>

\* signed_event and ingest each resolve the binding, to sign the normalised event
\* with its secret and to verify that signature.
SignedEvent(g) ==
    /\ handler[g].at = "sign"
    /\ IF channel_binding = "ACTIVE" THEN Goto(g, "verify") ELSE Stop(g)
    /\ UNCHANGED <<channel_type, channel_binding, deployed, channel_inbound_message,
                   channel_inbound_conflict, agent_execution, acknowledged, changes,
                   connVars>>

Ingest(g) ==
    /\ channel_type = "WECOM" /\ handler[g].at = "verify"
    /\ IF channel_binding = "ACTIVE" THEN Goto(g, "resolve") ELSE Stop(g)
    /\ UNCHANGED <<channel_type, channel_binding, deployed, channel_inbound_message,
                   channel_inbound_conflict, agent_execution, acknowledged, changes,
                   connVars>>

\* The long connection awaits the binding of the event's application and then
\* reads self._lease again, which is None once the lease is lost.
BindingFor(g) ==
    /\ channel_type = "FEISHU" /\ handler[g].at = "verify"
    /\ IF channel_binding = "ACTIVE" /\ gateway[g].token > 0
       THEN Goto(g, "resolve") ELSE Stop(g)
    /\ UNCHANGED <<channel_type, channel_binding, deployed, channel_inbound_message,
                   channel_inbound_conflict, agent_execution, acknowledged, changes,
                   connVars>>

\* ingest_verified resolves the binding again.
ResolveBinding(g) ==
    /\ handler[g].at = "resolve"
    /\ IF channel_binding = "ACTIVE" THEN Goto(g, "insert") ELSE Stop(g)
    /\ UNCHANGED <<channel_type, channel_binding, deployed, channel_inbound_message,
                   channel_inbound_conflict, agent_execution, acknowledged, changes,
                   connVars>>

\* Mutant: a row without an execution is taken for a hit as well.
LedgerHit_AnyRow(stored, p) == stored # Nothing /\ stored.payload = p

\* The stored row already has its execution and its release.
LedgerHit(stored, p) == stored # Nothing /\ stored.payload = p /\ stored.executed

\* Mutant: the payload of the stored row is not compared.
Conflicting_Never(stored, p) == FALSE

Conflicting(stored, p) == stored # Nothing /\ stored.payload # p

\* INSERT ... ON CONFLICT DO NOTHING, then what the stored row decides.
InsertMessage(g) ==
    LET stored == channel_inbound_message
        p == handler[g].payload
    IN  /\ handler[g].at = "insert"
        /\ \/ /\ stored = Nothing
              /\ channel_inbound_message' = [payload |-> p, executed |-> FALSE, release |-> Nothing]
              /\ Goto(g, "route") /\ UNCHANGED acknowledged
           \/ /\ LedgerHit(stored, p)
              /\ acknowledged' = acknowledged \cup {p}
              /\ Stop(g) /\ UNCHANGED channel_inbound_message
           \/ /\ Conflicting(stored, p)
              /\ Goto(g, "conflict")
              /\ UNCHANGED <<channel_inbound_message, acknowledged>>
           \/ /\ stored # Nothing /\ ~ LedgerHit(stored, p) /\ ~ Conflicting(stored, p)
              /\ Goto(g, "route")
              /\ UNCHANGED <<channel_inbound_message, acknowledged>>
        /\ UNCHANGED <<channel_type, channel_binding, deployed, channel_inbound_conflict,
                       agent_execution, changes, connVars>>

\* The newcomer is isolated and answered with 409.
RecordConflict(g) ==
    /\ handler[g].at = "conflict"
    /\ channel_inbound_conflict' = channel_inbound_conflict \cup {handler[g].payload}
    /\ Stop(g)
    /\ UNCHANGED <<channel_type, channel_binding, deployed, channel_inbound_message,
                   agent_execution, acknowledged, changes, connVars>>

\* submit resolves the deployment before its transaction begins.
ResolveDeployment(g) ==
    /\ handler[g].at = "route"
    /\ handler' = [handler EXCEPT ![g].at = "submit", ![g].release = deployed]
    /\ UNCHANGED <<channel_type, channel_binding, deployed, channel_inbound_message,
                   channel_inbound_conflict, agent_execution, acknowledged, changes,
                   connVars>>

\* _deduplicated_submission: the execution of the message id, the same payload.
Resubmitted(p) == agent_execution # Nothing /\ agent_execution.payload = p

\* The submission's transaction: the existing execution, a payload conflict, a
\* refusal by admission, or the new execution with its outbox record.
Submit(g) ==
    LET p == handler[g].payload IN
    /\ handler[g].at = "submit"
    /\ \/ /\ Resubmitted(p)
          /\ Goto(g, "attach") /\ UNCHANGED <<agent_execution, changes>>
       \/ /\ agent_execution # Nothing /\ ~ Resubmitted(p)
          /\ Stop(g) /\ UNCHANGED <<agent_execution, changes>>
       \/ /\ agent_execution = Nothing
          /\ changes < MaxChanges /\ changes' = changes + 1
          /\ Stop(g) /\ UNCHANGED agent_execution
       \/ /\ agent_execution = Nothing
          /\ agent_execution' = [payload |-> p, release |-> handler[g].release]
          /\ Goto(g, "attach") /\ UNCHANGED changes
    /\ UNCHANGED <<channel_type, channel_binding, deployed, channel_inbound_message,
                   channel_inbound_conflict, acknowledged, connVars>>

\* attach_execution, unconditionally, with the release submit answered.
AttachExecution(g) ==
    /\ handler[g].at = "attach"
    /\ channel_inbound_message' =
            [channel_inbound_message EXCEPT !.executed = TRUE, !.release = handler[g].release]
    /\ acknowledged' = acknowledged \cup {handler[g].payload}
    /\ Stop(g)
    /\ UNCHANGED <<channel_type, channel_binding, deployed, channel_inbound_conflict,
                   agent_execution, changes, connVars>>

\* A gateway process stops, with the delivery it was handling.
Crash(g) ==
    /\ CrashGateway(g)
    /\ Stop(g)
    /\ UNCHANGED <<channel_type, channel_binding, deployed, channel_inbound_message,
                   channel_inbound_conflict, agent_execution, acknowledged, changes>>

HandlerStep(g) ==
    \/ SignedEvent(g) \/ Ingest(g) \/ BindingFor(g) \/ ResolveBinding(g) \/ InsertMessage(g)
    \/ RecordConflict(g)
    \/ ResolveDeployment(g) \/ Submit(g) \/ AttachExecution(g)

ConnectionStep ==
    /\ \/ \E g \in Gateways : RestartConnection(g)
       \/ /\ channel_type = "FEISHU"
          /\ ConnTick \/ \E g \in Gateways : ConnStep(g)
    /\ UNCHANGED inboundVars

IngressNext ==
    \/ RegisterBinding
    \/ \E status \in {"ACTIVE", "DISABLED"} : SetBindingStatus(status)
    \/ \E r \in Releases : Deploy(r)
    \/ \E g \in Gateways : HandlerStep(g) \/ Crash(g)
    \/ \E g \in Gateways, p \in Payloads :
          ReceiveCallback(g, p) \/ ReceiveLongConnectionEvent(g, p)
    \/ ConnectionStep

\* A handler that has started runs on, the provider delivers an unacknowledged
\* callback again, and the binding is registered some day.
Fairness ==
    /\ WF_ingressVars(RegisterBinding)
    /\ \A g \in Gateways : WF_ingressVars(HandlerStep(g))
    /\ \A g \in Gateways, p \in Payloads : SF_ingressVars(ReceiveCallback(g, p))

IngressSpec == IngressInit /\ [][IngressNext]_ingressVars
IngressFairSpec == IngressSpec /\ Fairness

-----------------------------------------------------------------------------

\* Whatever the order of deliveries, crashes and refusals, the execution carries
\* the payload the ledger stored first: a second payload under the key never
\* reaches the agent, not even when the first delivery stopped before its
\* submission (inbound.py:331-365, agent_gateway.py:182-280).
ExecutionIsLedgerPayload ==
    agent_execution # Nothing =>
        /\ channel_inbound_message # Nothing
        /\ agent_execution.payload = channel_inbound_message.payload

\* What the provider saw accepted is durable: the execution exists and the
\* ledger answers the next delivery with it.
AcknowledgedIsExecuted ==
    acknowledged # {} =>
        /\ agent_execution # Nothing
        /\ acknowledged = {agent_execution.payload}
        /\ channel_inbound_message.executed

\* "heals the crash window between the gateway commit and the ledger write"
\* (inbound.py:367): with the binding active in the end, a delivered callback is
\* executed and the ledger row gets its execution.
EventuallyAttached ==
    (channel_type = "WECOM" /\ <>[](channel_binding = "ACTIVE")) =>
        <>(channel_inbound_message # Nothing /\ channel_inbound_message.executed)

\* The ledger names the release that runs the execution.  NOT kept: after a
\* redeployment a second delivery attaches the release deployed by then to the
\* execution of the first one.
LedgerNamesRelease ==
    channel_inbound_message # Nothing /\ channel_inbound_message.executed =>
        channel_inbound_message.release = agent_execution.release

=============================================================================
