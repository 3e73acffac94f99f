---------------------------- MODULE ChannelProofs ----------------------------
(***************************************************************************)
(* The way in and the two ends of a delivery, for every number of          *)
(* gateways, replicas, consumers, payloads, messages, updates and faults.  *)
(*                                                                         *)
(* The inbound channel: a gateway that believes in its connection lease    *)
(* owns the row, an execution carries the payload that the ledger stored   *)
(* first, and what a provider saw accepted has been executed.              *)
(*                                                                         *)
(* The Outbox: row locks keep concurrent dispatchers apart, so that only a *)
(* rolled back transaction sends a record again.                           *)
(*                                                                         *)
(* The reply: a consumer works on a copy of the row and writes the copy    *)
(* back.  While it is the only one, the copy is the row wherever it        *)
(* matters (SoleOK), because the operator's requeue touches dead letters   *)
(* only.  With several consumers that is lost; what a copy claims about    *)
(* the budget and about the evidence stays true, because attempts and what *)
(* the channel has shown only grow.                                        *)
(***************************************************************************)
EXTENDS ChannelInbound, OutboxDispatch, ReplyDelivery, FiniteSetTheorems, TLAPS

-----------------------------------------------------------------------------
(* The inbound channel: the lease of the long connection *)

\* The row is g's, with its token, for n more ticks.
RowBacks(g, n) ==
    /\ channel_connection_lease.owner = g
    /\ channel_connection_lease.token = gateway[g].token
    /\ n <= channel_connection_lease.left

\* What makes HolderOwnsRow inductive: an answer that is still on its way is backed
\* by the row as well, and nobody counts on more than one lease time.
ConnInv ==
    \A g \in Gateways :
        /\ gateway[g].left <= ConnectionTtl
        /\ gateway[g].asked <= ConnectionTtl
        /\ gateway[g].at \in {"idle", "acquire", "granted", "down"} => gateway[g].left = 0
        /\ gateway[g].left > 0 => RowBacks(g, gateway[g].left)
        /\ gateway[g].at \in {"granted", "renewed"} /\ gateway[g].asked > 0 =>
                RowBacks(g, gateway[g].asked)

\* The gateways and the row keep their types.
LEMMA ConnType ==
    ASSUME ConnTypeOK,
           ConnTick \/ \E g \in Gateways : ConnStep(g) \/ CrashGateway(g)
    PROVE  ConnTypeOK'
<1>1. /\ channel_connection_lease \in ConnectionLease
      /\ gateway \in [Gateways -> GatewayState]
      /\ crashes \in 0..MaxCrashes
    BY Zenon DEF ConnTypeOK
<1>2. IdleGateway \in GatewayState
    BY Zenon DEF IdleGateway, GatewayState
<1>3. CASE ConnTick
    <2>1. ASSUME NEW n \in Nat PROVE Less(n) \in Nat
        BY  DEF Less
    <2>2. channel_connection_lease' \in ConnectionLease
        BY Zenon, <1>1, <1>3, <2>1 DEF ConnTick, ConnectionLease
    <2>3. \A g \in Gateways : [gateway[g] EXCEPT !.left = Less(@), !.asked = Less(@)] \in GatewayState
        BY Zenon, <1>1, <2>1 DEF GatewayState
    <2> QED
        BY Zenon, <1>1, <1>3, <2>2, <2>3 DEF ConnTick, ConnTypeOK
<1>4. ASSUME NEW g \in Gateways, StartAcquire(g) \/ StartRenew(g) PROVE ConnTypeOK'
    BY <1>1, <1>4, ConnectionAssumption DEF StartAcquire, StartRenew, ConnTypeOK, GatewayState
<1>5. ASSUME NEW g \in Gateways, Acquire(g) PROVE ConnTypeOK'
    <2>1. ConnectionToken(g) \in Nat
        BY <1>1 DEF ConnectionToken, ConnectionLease
    <2>2. [owner |-> g, token |-> ConnectionToken(g), left |-> ConnectionTtl] \in ConnectionLease
        BY Zenon, <2>1, ConnectionAssumption DEF ConnectionLease
    <2>3. gateway' \in [Gateways -> GatewayState]
        BY <1>1, <1>2, <1>5, <2>1 DEF Acquire, GatewayState
    <2> QED
        BY Zenon, <1>1, <1>5, <2>2, <2>3 DEF Acquire, ConnTypeOK
<1>6. ASSUME NEW g \in Gateways, Renew(g) PROVE ConnTypeOK'
    <2>1. [channel_connection_lease EXCEPT !.left = ConnectionTtl] \in ConnectionLease
        BY Zenon, <1>1, ConnectionAssumption DEF ConnectionLease
    <2>2. [IdleGateway EXCEPT !.at = "release"] \in GatewayState
        BY Zenon DEF IdleGateway, GatewayState
    <2>3. [gateway[g] EXCEPT !.at = "renewed"] \in GatewayState
        BY Zenon, <1>1 DEF GatewayState
    <2> QED
        BY Zenon, <1>1, <1>6, <2>1, <2>2, <2>3 DEF Renew, ConnTypeOK
<1>7. ASSUME NEW g \in Gateways, RenewDies(g) \/ Disconnect(g) PROVE ConnTypeOK'
    BY <1>1, <1>7 DEF RenewDies, Disconnect, ConnTypeOK, GatewayState
<1>8. ASSUME NEW g \in Gateways, Answer(g) PROVE ConnTypeOK'
    <2>1. gateway[g] \in GatewayState
        BY <1>1
    <2>2. PICK new : new = [gateway[g] EXCEPT !.at = "connected", !.left = gateway[g].asked,
                                              !.asked = 0]
        BY Zenon
    <2>3. new \in GatewayState
        BY Zenon, <2>1, <2>2 DEF GatewayState
    <2>4. gateway' = [gateway EXCEPT ![g] = new]
        BY Zenon, <1>8, <2>2 DEF Answer
    <2>5. gateway' \in [Gateways -> GatewayState]
        BY Zenon, <1>1, <2>3, <2>4
    <2> QED
        BY Zenon, <1>1, <1>8, <2>5 DEF Answer, ConnTypeOK
<1>9. ASSUME NEW g \in Gateways, Release(g) PROVE ConnTypeOK'
    <2>1. channel_connection_lease' \in ConnectionLease
        BY Zenon, <1>1, <1>9 DEF Release, ConnectionLease
    <2> QED
        BY Zenon, <1>1, <1>2, <1>9, <2>1 DEF Release, ConnTypeOK
<1>10. ASSUME NEW g \in Gateways, RestartConnection(g) PROVE ConnTypeOK'
    BY Zenon, <1>1, <1>2, <1>10 DEF RestartConnection, ConnTypeOK
<1>11. ASSUME NEW g \in Gateways, CrashGateway(g) PROVE ConnTypeOK'
    <2>1. [IdleGateway EXCEPT !.at = "down"] \in GatewayState
        BY Zenon DEF IdleGateway, GatewayState
    <2>2. crashes' \in 0..MaxCrashes
        BY <1>1, <1>11, ConnectionAssumption DEF CrashGateway
    <2> QED
        BY Zenon, <1>1, <1>11, <2>1, <2>2 DEF CrashGateway, ConnTypeOK
<1> QED
    BY Zenon, <1>3, <1>4, <1>5, <1>6, <1>7, <1>8, <1>9, <1>10, <1>11 DEF ConnStep

\* A lease that somebody else takes over or releases was nobody's to count on.
LEMMA ConnStepInv ==
    ASSUME ConnTypeOK, ConnInv,
           ConnTick \/ \E g \in Gateways : ConnStep(g) \/ CrashGateway(g)
    PROVE  ConnInv'
<1> USE ConnectionAssumption
<1>1. /\ channel_connection_lease \in ConnectionLease
      /\ gateway \in [Gateways -> GatewayState]
    BY Zenon DEF ConnTypeOK
<1>2. CASE ConnTick
    <2> SUFFICES ASSUME NEW h \in Gateways
                 PROVE  ConnInv!(h)'
        BY Zenon DEF ConnInv
    <2>1. /\ gateway'[h] = [gateway[h] EXCEPT !.left = Less(@), !.asked = Less(@)]
          /\ channel_connection_lease' = [channel_connection_lease EXCEPT !.left = Less(@)]
        BY Zenon, <1>2 DEF ConnTick
    <2>2. /\ gateway[h] \in GatewayState
          /\ channel_connection_lease \in ConnectionLease
          /\ ConnInv!(h)
        BY Zenon, <1>1 DEF ConnInv
    <2> QED
        BY <2>1, <2>2 DEF GatewayState, ConnectionLease, RowBacks, Less
<1>3. ASSUME NEW g \in Gateways, ConnStep(g) \/ CrashGateway(g)
      PROVE  ConnInv'
    <2> SUFFICES ASSUME NEW h \in Gateways
                 PROVE  ConnInv!(h)'
        BY Zenon DEF ConnInv
    <2>1. /\ gateway[h] \in GatewayState /\ gateway[g] \in GatewayState
          /\ channel_connection_lease \in ConnectionLease
          /\ ConnInv!(h) /\ ConnInv!(g)
        BY Zenon, <1>1 DEF ConnInv
    <2>2. CASE StartAcquire(g) \/ StartRenew(g)
        BY <1>1, <2>1, <2>2 DEF StartAcquire, StartRenew, GatewayState, ConnectionLease, RowBacks
    <2>3. CASE Acquire(g)
        BY <1>1, <2>1, <2>3 DEF Acquire, ConnectionFree, ConnectionToken, IdleGateway,
                                GatewayState, ConnectionLease, RowBacks
    <2>4. CASE Renew(g)
        BY <1>1, <2>1, <2>4 DEF Renew, Renewable, IdleGateway,
                                GatewayState, ConnectionLease, RowBacks
    <2>5. CASE Answer(g)
        BY <1>1, <2>1, <2>5 DEF Answer, GatewayState, ConnectionLease, RowBacks
    <2>6. CASE RenewDies(g) \/ Disconnect(g)
        BY <1>1, <2>1, <2>6 DEF RenewDies, Disconnect, Consuming,
                                GatewayState, ConnectionLease, RowBacks
    <2>7. CASE Release(g)
        BY <1>1, <2>1, <2>7 DEF Release, IdleGateway, GatewayState, ConnectionLease, RowBacks
    <2>8. CASE RestartConnection(g) \/ CrashGateway(g)
        BY <1>1, <2>1, <2>8 DEF RestartConnection, CrashGateway, IdleGateway,
                                GatewayState, ConnectionLease, RowBacks
    <2> QED
        BY Zenon, <1>3, <2>2, <2>3, <2>4, <2>5, <2>6, <2>7, <2>8 DEF ConnStep
<1> QED
    BY Zenon, <1>2, <1>3

\* What ConnInv says of the gateways that believe in their lease.
LEMMA ConnInvHolds ==
    ASSUME ConnTypeOK, ConnInv
    PROVE  HolderOwnsRow /\ OneHolder
<1>1. HolderOwnsRow
    BY Zenon DEF ConnInv, RowBacks, HolderOwnsRow, Holds
<1> QED
    BY Zenon, <1>1 DEF HolderOwnsRow, OneHolder

-----------------------------------------------------------------------------
(* The ledger and the execution *)

\* A delivery that has got past the ledger carries the stored payload; one that is
\* to be attached has its execution; and so has a row that says so.
InboundInv ==
    /\ ExecutionIsLedgerPayload
    /\ AcknowledgedIsExecuted
    /\ channel_inbound_message # Nothing /\ channel_inbound_message.executed =>
            agent_execution # Nothing
    /\ \A g \in Gateways :
        /\ handler[g].at # "idle" => handler[g].payload \in Payloads
        /\ handler[g].at \in {"submit", "attach"} => handler[g].release \in Releases
        /\ handler[g].at \in {"route", "submit", "attach"} =>
                /\ channel_inbound_message # Nothing
                /\ handler[g].payload = channel_inbound_message.payload
        /\ handler[g].at = "attach" => agent_execution # Nothing

IngressInv == IngressTypeOK /\ ConnInv /\ InboundInv

\* The tables, the deliveries and the gateways start out empty.
LEMMA IngressInitInv == IngressInit => IngressInv
<1> SUFFICES ASSUME IngressInit PROVE IngressInv
    BY Zenon
<1> USE ConnectionAssumption, InboundAssumption
<1>1. ConnTypeOK
    BY DEF IngressInit, ConnInit, ConnTypeOK, ConnectionLease, IdleGateway, GatewayState
<1>2. ConnInv
    BY DEF IngressInit, ConnInit, ConnInv, RowBacks, IdleGateway
<1>3. IngressTypeOK
    BY <1>1 DEF IngressInit, IngressTypeOK, IdleHandler, HandlerState
<1>4. InboundInv
    BY Zenon DEF IngressInit, InboundInv, ExecutionIsLedgerPayload, AcknowledgedIsExecuted, IdleHandler
<1> QED
    BY Zenon, <1>2, <1>3, <1>4 DEF IngressInv

\* Who leaves the tables alone and starts, moves or ends one delivery on the way to
\* the ledger or to its submission.
Delivers(g) ==
    /\ \E new \in HandlerState :
        /\ handler' = [handler EXCEPT ![g] = new]
        /\ new.at # "idle" => new.payload \in Payloads
        /\ new.at \in {"submit", "attach"} => new.release \in Releases
        /\ new.at \in {"route", "submit", "attach"} =>
                /\ channel_inbound_message # Nothing
                /\ new.payload = channel_inbound_message.payload
        /\ new.at = "attach" => agent_execution # Nothing
    /\ UNCHANGED <<channel_inbound_message, agent_execution>>

\* Such a step keeps what is said of the deliveries.
LEMMA DeliversInv ==
    ASSUME IngressTypeOK, InboundInv, NEW g \in Gateways, Delivers(g), UNCHANGED acknowledged
    PROVE  handler' \in [Gateways -> HandlerState] /\ InboundInv'
<1> PICK new \in HandlerState :
        /\ handler' = [handler EXCEPT ![g] = new]
        /\ new.at # "idle" => new.payload \in Payloads
        /\ new.at \in {"submit", "attach"} => new.release \in Releases
        /\ new.at \in {"route", "submit", "attach"} =>
                /\ channel_inbound_message # Nothing
                /\ new.payload = channel_inbound_message.payload
        /\ new.at = "attach" => agent_execution # Nothing
    BY Zenon DEF Delivers
<1>1. /\ handler \in [Gateways -> HandlerState]
      /\ UNCHANGED <<channel_inbound_message, agent_execution>>
    BY Zenon DEF IngressTypeOK, Delivers
<1>2. handler' \in [Gateways -> HandlerState]
    BY Zenon, <1>1
<1>3. \A h \in Gateways : handler'[h] = IF h = g THEN new ELSE handler[h]
    BY Zenon, <1>1
<1> QED
    BY Zenon, <1>1, <1>2, <1>3 DEF InboundInv, ExecutionIsLedgerPayload, AcknowledgedIsExecuted

\* Every step of a delivery but the three that write the ledger or the execution is of
\* that kind.
LEMMA StepDelivers ==
    ASSUME IngressTypeOK, InboundInv, NEW g \in Gateways, NEW p \in Payloads,
           \/ ReceiveCallback(g, p) \/ ReceiveLongConnectionEvent(g, p)
           \/ SignedEvent(g) \/ Ingest(g) \/ BindingFor(g) \/ ResolveBinding(g)
           \/ RecordConflict(g) \/ ResolveDeployment(g)
    PROVE  Delivers(g)
<1> DEFINE goto(place) == [handler[g] EXCEPT !.at = place]
<1>1. handler[g] \in HandlerState /\ handler \in [Gateways -> HandlerState] /\ deployed \in Releases
    BY Zenon DEF IngressTypeOK
<1>2. InboundInv!4!(g)
    BY Zenon DEF InboundInv
<1>3. IdleHandler \in HandlerState /\ IdleHandler.at = "idle"
    BY Zenon DEF IdleHandler, HandlerState
<1>4. CASE ReceiveCallback(g, p) \/ ReceiveLongConnectionEvent(g, p)
    <2> DEFINE verify == [IdleHandler EXCEPT !.at = "verify", !.payload = p]
               sign == [IdleHandler EXCEPT !.at = "sign", !.payload = p]
    <2>1. /\ verify \in HandlerState /\ verify.at = "verify" /\ verify.payload = p
          /\ sign \in HandlerState /\ sign.at = "sign" /\ sign.payload = p
        BY Zenon DEF IdleHandler, HandlerState
    <2>2. handler' = [handler EXCEPT ![g] = verify] \/ handler' = [handler EXCEPT ![g] = sign]
        BY Zenon, <1>4 DEF ReceiveCallback, ReceiveLongConnectionEvent
    <2>3. UNCHANGED <<channel_inbound_message, agent_execution>>
        BY Zenon, <1>4 DEF ReceiveCallback, ReceiveLongConnectionEvent
    <2> HIDE DEF verify, sign
    <2> QED
        BY Zenon, <2>1, <2>2, <2>3 DEF Delivers
<1>5. CASE SignedEvent(g) \/ Ingest(g) \/ BindingFor(g) \/ ResolveBinding(g)
    <2>1. PICK place \in {"verify", "resolve", "insert"} :
            handler' = [handler EXCEPT ![g].at = place] \/ handler' = [handler EXCEPT ![g] = IdleHandler]
        BY Zenon, <1>5 DEF SignedEvent, Ingest, BindingFor, ResolveBinding, Goto, Stop
    <2>2. handler' = [handler EXCEPT ![g] = goto(place)] \/ handler' = [handler EXCEPT ![g] = IdleHandler]
        BY Zenon, <2>1
    <2>3. goto(place) \in HandlerState /\ goto(place).at = place
          /\ goto(place).payload = handler[g].payload
        BY Zenon, <1>1 DEF HandlerState
    <2>4. handler[g].payload \in Payloads
        BY Zenon, <1>2, <1>5 DEF SignedEvent, Ingest, BindingFor, ResolveBinding
    <2>5. UNCHANGED <<channel_inbound_message, agent_execution>>
        BY Zenon, <1>5 DEF SignedEvent, Ingest, BindingFor, ResolveBinding
    <2> HIDE DEF goto
    <2> QED
        BY Zenon, <1>3, <2>2, <2>3, <2>4, <2>5 DEF Delivers
<1>6. CASE RecordConflict(g)
    BY Zenon, <1>3, <1>6 DEF RecordConflict, Stop, Delivers
<1>7. CASE ResolveDeployment(g)
    <2> DEFINE new == [handler[g] EXCEPT !.at = "submit", !.release = deployed]
    <2>1. /\ new \in HandlerState /\ new.at = "submit" /\ new.release = deployed
          /\ new.payload = handler[g].payload
        BY Zenon, <1>1 DEF HandlerState
    <2>2. handler' = [handler EXCEPT ![g] = new]
        BY Zenon, <1>7 DEF ResolveDeployment
    <2>3. handler[g].at = "route" /\ UNCHANGED <<channel_inbound_message, agent_execution>>
        BY Zenon, <1>7 DEF ResolveDeployment
    <2> HIDE DEF new
    <2> QED
        BY Zenon, <1>1, <1>2, <2>1, <2>2, <2>3 DEF Delivers
<1> QED
    BY Zenon, <1>4, <1>5, <1>6, <1>7

\* The ledger's insert: the first payload stays, and only a row with its execution
\* is acknowledged.
LEMMA InsertMessageInv ==
    ASSUME IngressTypeOK, InboundInv, NEW g \in Gateways, InsertMessage(g)
    PROVE  /\ channel_inbound_message' \in InboundMessage \cup {Nothing}
           /\ handler' \in [Gateways -> HandlerState]
           /\ acknowledged' \subseteq Payloads
           /\ InboundInv'
<1> DEFINE p == handler[g].payload
           goto(place) == [handler[g] EXCEPT !.at = place]
<1>1. /\ handler[g] \in HandlerState /\ handler \in [Gateways -> HandlerState]
      /\ channel_inbound_message \in InboundMessage \cup {Nothing}
      /\ acknowledged \subseteq Payloads
    BY Zenon DEF IngressTypeOK
<1>2. handler[g].at = "insert" /\ p \in Payloads /\ UNCHANGED agent_execution
    BY Zenon DEF InsertMessage, InboundInv
<1>3. IdleHandler \in HandlerState /\ IdleHandler.at = "idle"
    BY Zenon DEF IdleHandler, HandlerState
<1>4. \A place \in {"route", "conflict"} :
        /\ goto(place) \in HandlerState /\ goto(place).at = place /\ goto(place).payload = p
        /\ (handler' = [handler EXCEPT ![g].at = place]) =>
                (handler' = [handler EXCEPT ![g] = goto(place)])
    BY Zenon, <1>1 DEF HandlerState
<1> HIDE DEF goto
<1>5. CASE channel_inbound_message = Nothing
    <2> DEFINE row == [payload |-> p, executed |-> FALSE, release |-> Nothing]
    <2>6. row \in InboundMessage
        BY Zenon, <1>2 DEF InboundMessage
    <2>1. row \in InboundMessage /\ row # Nothing /\ row.payload = p /\ ~ row.executed
        BY Zenon, <2>6, InboundAssumption
    <2>2. /\ channel_inbound_message' = row /\ UNCHANGED acknowledged
          /\ handler' = [handler EXCEPT ![g] = goto("route")]
        BY Zenon, <1>4, <1>5 DEF InsertMessage, LedgerHit, Conflicting, Goto
    <2>3. agent_execution = Nothing /\ acknowledged = {}
        BY Zenon, <1>5 DEF InboundInv, ExecutionIsLedgerPayload, AcknowledgedIsExecuted
    <2>4. \A h \in Gateways : handler'[h] = IF h = g THEN goto("route") ELSE handler[h]
        BY Zenon, <1>1, <2>2
    <2>5. handler' \in [Gateways -> HandlerState]
        BY Zenon, <1>1, <1>4, <2>2
    <2> HIDE DEF row
    <2> QED
        BY Zenon, <1>1, <1>2, <1>4, <1>5, <2>1, <2>2, <2>3, <2>4, <2>5
            DEF InboundInv, ExecutionIsLedgerPayload, AcknowledgedIsExecuted
<1>6. CASE LedgerHit(channel_inbound_message, p)
    <2>1. /\ UNCHANGED channel_inbound_message /\ acknowledged' = acknowledged \cup {p}
          /\ handler' = [handler EXCEPT ![g] = IdleHandler]
        BY Zenon, <1>6 DEF InsertMessage, LedgerHit, Conflicting, Stop
    <2>2. agent_execution # Nothing /\ agent_execution.payload = p /\ channel_inbound_message.executed
        BY Zenon, <1>6 DEF LedgerHit, InboundInv, ExecutionIsLedgerPayload
    <2>3. acknowledged' = {agent_execution.payload}
        BY Zenon, <2>1, <2>2 DEF InboundInv, AcknowledgedIsExecuted
    <2>4. \A h \in Gateways : handler'[h] = IF h = g THEN IdleHandler ELSE handler[h]
        BY Zenon, <1>1, <2>1
    <2>5. handler' \in [Gateways -> HandlerState]
        BY Zenon, <1>1, <1>3, <2>1
    <2> QED
        BY Zenon, <1>1, <1>2, <1>3, <2>1, <2>2, <2>3, <2>4, <2>5
            DEF InboundInv, ExecutionIsLedgerPayload, AcknowledgedIsExecuted
<1>7. CASE channel_inbound_message # Nothing /\ ~ LedgerHit(channel_inbound_message, p)
    <2>1. PICK place \in {"route", "conflict"} :
            /\ handler' = [handler EXCEPT ![g].at = place]
            /\ place = "route" => channel_inbound_message.payload = p
        BY Zenon, <1>7 DEF InsertMessage, Conflicting, Goto
    <2>2. UNCHANGED <<channel_inbound_message, acknowledged>>
        BY Zenon, <1>7 DEF InsertMessage
    <2>3. Delivers(g)
        BY Zenon, <1>2, <1>4, <1>7, <2>1, <2>2 DEF Delivers
    <2> QED
        BY Zenon, <1>1, <2>2, <2>3, DeliversInv
<1> QED
    BY Zenon, <1>5, <1>6, <1>7 DEF LedgerHit

\* The submission: the execution takes the payload of the delivery, which is the
\* ledger's, and is never replaced.
LEMMA SubmitInv ==
    ASSUME IngressTypeOK, InboundInv, NEW g \in Gateways, Submit(g)
    PROVE  /\ agent_execution' \in Execution \cup {Nothing}
           /\ handler' \in [Gateways -> HandlerState]
           /\ changes' \in 0..MaxChanges
           /\ InboundInv'
<1> DEFINE p == handler[g].payload
           attach == [handler[g] EXCEPT !.at = "attach"]
<1>1. /\ handler[g] \in HandlerState /\ handler \in [Gateways -> HandlerState]
      /\ agent_execution \in Execution \cup {Nothing}
      /\ changes \in 0..MaxChanges
    BY Zenon DEF IngressTypeOK
<1>2. /\ handler[g].at = "submit" /\ p \in Payloads /\ handler[g].release \in Releases
      /\ channel_inbound_message # Nothing /\ p = channel_inbound_message.payload
      /\ UNCHANGED <<channel_inbound_message, acknowledged>>
    BY Zenon DEF Submit, InboundInv
<1>3. changes' \in 0..MaxChanges
    BY <1>1, InboundAssumption DEF Submit
<1>4. IdleHandler \in HandlerState /\ IdleHandler.at = "idle"
    BY Zenon DEF IdleHandler, HandlerState
<1>5. /\ attach \in HandlerState /\ attach.at = "attach" /\ attach.payload = p
      /\ attach.release = handler[g].release
      /\ (handler' = [handler EXCEPT ![g].at = "attach"]) =>
                (handler' = [handler EXCEPT ![g] = attach])
    BY Zenon, <1>1 DEF HandlerState
<1> HIDE DEF attach
<1>6. CASE UNCHANGED agent_execution
    <2>1. \/ handler' = [handler EXCEPT ![g] = attach] /\ agent_execution # Nothing
          \/ handler' = [handler EXCEPT ![g] = IdleHandler]
          \/ handler' = [handler EXCEPT ![g] = attach] /\ agent_execution' = [payload |-> p, release |-> handler[g].release]
        BY Zenon, <1>5 DEF Submit, Resubmitted, Goto, Stop
    <2>2. [payload |-> p, release |-> handler[g].release] # Nothing
        <3>1. [payload |-> p, release |-> handler[g].release] \in Execution
            BY Zenon, <1>2 DEF Execution
        <3> QED
            BY Zenon, <3>1, InboundAssumption
    <2>3. Delivers(g)
        BY Zenon, <1>2, <1>4, <1>5, <1>6, <2>1, <2>2 DEF Delivers
    <2> QED
        BY Zenon, <1>1, <1>2, <1>3, <1>6, <2>3, DeliversInv
<1>7. CASE ~ UNCHANGED agent_execution
    <2> DEFINE row == [payload |-> p, release |-> handler[g].release]
    <2>1. row \in Execution /\ row.payload = p
        BY Zenon, <1>2 DEF Execution
    <2>2. row # Nothing
        BY Zenon, <2>1, InboundAssumption
    <2>3. /\ agent_execution' = row
          /\ handler' = [handler EXCEPT ![g] = attach]
          /\ agent_execution = Nothing
        BY Zenon, <1>5, <1>7 DEF Submit, Goto
    <2>4. acknowledged = {}
        BY Zenon, <2>3 DEF InboundInv, AcknowledgedIsExecuted
    <2>5. \A h \in Gateways : handler'[h] = IF h = g THEN attach ELSE handler[h]
        BY Zenon, <1>1, <2>3
    <2>6. handler' \in [Gateways -> HandlerState]
        BY Zenon, <1>1, <1>5, <2>3
    <2> HIDE DEF row
    <2> QED
        BY ZenonT(60), <1>1, <1>2, <1>3, <1>5, <2>1, <2>2, <2>3, <2>4, <2>5, <2>6
            DEF InboundInv, ExecutionIsLedgerPayload, AcknowledgedIsExecuted
<1> QED
    BY Zenon, <1>6, <1>7

\* The attachment: what is acknowledged then is the payload of the execution.
LEMMA AttachInv ==
    ASSUME IngressTypeOK, InboundInv, NEW g \in Gateways, AttachExecution(g)
    PROVE  /\ channel_inbound_message' \in InboundMessage \cup {Nothing}
           /\ handler' \in [Gateways -> HandlerState]
           /\ acknowledged' \subseteq Payloads
           /\ InboundInv'
<1> DEFINE p == handler[g].payload
           row == [channel_inbound_message EXCEPT !.executed = TRUE, !.release = handler[g].release]
<1>1. /\ handler[g] \in HandlerState /\ handler \in [Gateways -> HandlerState]
      /\ channel_inbound_message \in InboundMessage \cup {Nothing}
      /\ acknowledged \subseteq Payloads
    BY Zenon DEF IngressTypeOK
<1>2. /\ handler[g].at = "attach" /\ p \in Payloads /\ handler[g].release \in Releases
      /\ channel_inbound_message # Nothing /\ p = channel_inbound_message.payload
      /\ agent_execution # Nothing /\ agent_execution.payload = p
      /\ UNCHANGED agent_execution
    BY Zenon DEF AttachExecution, InboundInv, ExecutionIsLedgerPayload
<1>3. row \in InboundMessage /\ row.payload = p /\ row.executed
    BY Zenon, <1>1, <1>2 DEF InboundMessage
<1>4. row # Nothing
    BY Zenon, <1>3, InboundAssumption
<1>5. /\ channel_inbound_message' = row
      /\ acknowledged' = acknowledged \cup {p}
      /\ handler' = [handler EXCEPT ![g] = IdleHandler]
    BY Zenon DEF AttachExecution, Stop
<1>6. acknowledged' = {agent_execution.payload}
    BY Zenon, <1>2, <1>5 DEF InboundInv, AcknowledgedIsExecuted
<1>7. IdleHandler \in HandlerState /\ IdleHandler.at = "idle"
    BY Zenon DEF IdleHandler, HandlerState
<1>8. \A h \in Gateways : handler'[h] = IF h = g THEN IdleHandler ELSE handler[h]
    BY Zenon, <1>1, <1>5
<1>9. handler' \in [Gateways -> HandlerState]
    BY Zenon, <1>1, <1>5, <1>7
<1> HIDE DEF row
<1> QED
    BY ZenonT(60), <1>1, <1>2, <1>3, <1>4, <1>5, <1>6, <1>7, <1>8, <1>9
        DEF InboundInv, ExecutionIsLedgerPayload, AcknowledgedIsExecuted

\* Every step keeps the invariant.
LEMMA IngressNextInv == IngressInv /\ [IngressNext]_ingressVars => IngressInv'
<1> SUFFICES ASSUME IngressInv, [IngressNext]_ingressVars PROVE IngressInv'
    BY Zenon
<1>1. IngressTypeOK /\ ConnInv /\ InboundInv /\ ConnTypeOK
    BY Zenon DEF IngressInv, IngressTypeOK
<1>2. ASSUME UNCHANGED connVars PROVE ConnTypeOK' /\ ConnInv'
    BY Zenon, <1>1, <1>2 DEF connVars, ConnTypeOK, ConnInv, RowBacks
<1>3. ASSUME UNCHANGED <<channel_inbound_message, agent_execution, handler, acknowledged>>
      PROVE  InboundInv'
    BY Zenon, <1>1, <1>3 DEF InboundInv, ExecutionIsLedgerPayload, AcknowledgedIsExecuted
<1>4. CASE \/ RegisterBinding
           \/ \E status \in {"ACTIVE", "DISABLED"} : SetBindingStatus(status)
           \/ \E r \in Releases : Deploy(r)
    <2>1. /\ UNCHANGED connVars
          /\ UNCHANGED <<channel_inbound_message, agent_execution, handler, acknowledged>>
        BY Zenon, <1>4 DEF RegisterBinding, SetBindingStatus, Deploy
    <2>2. IngressTypeOK'
        BY <1>1, <1>2, <1>4, <2>1, InboundAssumption
            DEF IngressTypeOK, RegisterBinding, SetBindingStatus, Deploy
    <2> QED
        BY Zenon, <1>2, <1>3, <2>1, <2>2 DEF IngressInv
<1>5. ASSUME NEW g \in Gateways, NEW p \in Payloads,
             \/ ReceiveCallback(g, p) \/ ReceiveLongConnectionEvent(g, p)
             \/ SignedEvent(g) \/ Ingest(g) \/ BindingFor(g) \/ ResolveBinding(g)
             \/ RecordConflict(g) \/ ResolveDeployment(g)
      PROVE  IngressInv'
    <2>1. /\ UNCHANGED <<connVars, channel_type, channel_binding, deployed, changes,
                         channel_inbound_message, agent_execution, acknowledged>>
          /\ channel_inbound_conflict' \subseteq Payloads
        <3>1. CASE RecordConflict(g)
            BY Zenon, <1>1, <3>1 DEF RecordConflict, IngressTypeOK, InboundInv
        <3> QED
            BY Zenon, <1>1, <1>5, <3>1 DEF IngressTypeOK, ReceiveCallback, ReceiveLongConnectionEvent,
                SignedEvent, Ingest, BindingFor, ResolveBinding, ResolveDeployment
    <2>2. handler' \in [Gateways -> HandlerState] /\ InboundInv'
        BY Zenon, <1>1, <1>5, <2>1, StepDelivers, DeliversInv
    <2> QED
        BY Zenon, <1>1, <1>2, <2>1, <2>2 DEF IngressInv, IngressTypeOK
<1>6. ASSUME NEW g \in Gateways, InsertMessage(g) PROVE IngressInv'
    BY Zenon, <1>1, <1>2, <1>6, InsertMessageInv DEF IngressInv, IngressTypeOK, InsertMessage
<1>7. ASSUME NEW g \in Gateways, Submit(g) PROVE IngressInv'
    BY Zenon, <1>1, <1>2, <1>7, SubmitInv DEF IngressInv, IngressTypeOK, Submit
<1>8. ASSUME NEW g \in Gateways, AttachExecution(g) PROVE IngressInv'
    BY Zenon, <1>1, <1>2, <1>8, AttachInv DEF IngressInv, IngressTypeOK, AttachExecution
<1>9. ASSUME NEW g \in Gateways, Crash(g) PROVE IngressInv'
    <2>1. ConnTypeOK' /\ ConnInv'
        BY Zenon, <1>1, <1>9, ConnType, ConnStepInv DEF Crash
    <2>2. Delivers(g)
        <3>1. IdleHandler \in HandlerState /\ IdleHandler.at = "idle"
            BY Zenon DEF IdleHandler, HandlerState
        <3> QED
            BY Zenon, <1>9, <3>1 DEF Crash, Stop, Delivers
    <2>3. handler' \in [Gateways -> HandlerState] /\ InboundInv'
        BY Zenon, <1>1, <1>9, <2>2, DeliversInv DEF Crash
    <2> QED
        BY Zenon, <1>1, <1>9, <2>1, <2>3 DEF IngressInv, IngressTypeOK, Crash
<1>10. CASE ConnectionStep
    <2>1. ConnTypeOK' /\ ConnInv'
        BY Zenon, <1>1, <1>10, ConnType, ConnStepInv DEF ConnectionStep, ConnStep
    <2> QED
        BY Zenon, <1>1, <1>3, <1>10, <2>1 DEF IngressInv, IngressTypeOK, ConnectionStep, inboundVars
<1>11. CASE UNCHANGED ingressVars
    BY Zenon, <1>1, <1>2, <1>3, <1>11 DEF IngressInv, IngressTypeOK, ingressVars, inboundVars
<1>12. ASSUME NEW g \in Gateways, HandlerStep(g) PROVE IngressInv'
    <2>1. \E p \in Payloads : TRUE
        BY Zenon, <1>1, <1>12 DEF InboundInv, HandlerStep, SignedEvent, Ingest, BindingFor, ResolveBinding,
            InsertMessage, RecordConflict, ResolveDeployment, Submit, AttachExecution
    <2> QED
        BY Zenon, <1>5, <1>6, <1>7, <1>8, <1>12, <2>1 DEF HandlerStep
<1> QED
    BY Zenon, <1>4, <1>5, <1>9, <1>10, <1>11, <1>12 DEF IngressNext

\* The invariant of the inbound channel.
LEMMA InboundInvariant == IngressSpec => []IngressInv
BY IngressInitInv, IngressNextInv, PTL DEF IngressSpec

\* A gateway accepts events of the long connection only while the row is its own:
\* it counts the lease from before it sends the statement (feishu.py:288-339), so
\* no crash, delay or takeover by another gateway leaves it with a stale belief.
THEOREM ConnectionOwned == IngressSpec => []HolderOwnsRow
<1>1. IngressInv => HolderOwnsRow
    BY Zenon, ConnInvHolds DEF IngressInv, IngressTypeOK
<1> QED
    BY <1>1, InboundInvariant, PTL

\* At most one gateway at a time accepts events of the long connection.
THEOREM SingleConsumer == IngressSpec => []OneHolder
<1>1. IngressInv => OneHolder
    BY Zenon, ConnInvHolds DEF IngressInv, IngressTypeOK
<1> QED
    BY <1>1, InboundInvariant, PTL

\* The execution carries the payload the ledger stored first (inbound.py:331-365),
\* over all deliveries, crashes, refusals and redeployments.
THEOREM LedgerDecidesPayload == IngressSpec => []ExecutionIsLedgerPayload
<1>1. IngressInv => ExecutionIsLedgerPayload
    BY Zenon DEF IngressInv, InboundInv
<1> QED
    BY <1>1, InboundInvariant, PTL

\* What the provider saw accepted has its execution, and the ledger says so
\* (inbound.py:357-380).
THEOREM AcknowledgementDurable == IngressSpec => []AcknowledgedIsExecuted
<1>1. IngressInv => AcknowledgedIsExecuted
    BY Zenon DEF IngressInv, InboundInv
<1> QED
    BY <1>1, InboundInvariant, PTL

-----------------------------------------------------------------------------
(* The Outbox *)

\* The record of m is PUBLISHED, or an open transaction has sent it.
Counted(m) ==
    \E i \in RowNumbers :
        /\ outbox_record[i].message = m
        /\ \/ outbox_record[i].status = "PUBLISHED"
           \/ \E d \in Dispatchers : i \in dispatcher[d].sent

\* A message has one row, which asks for its execution.
OneRow ==
    /\ \A i \in RowNumbers : outbox_record[i].type = "EXECUTION_REQUESTED"
    /\ \A i, j \in RowNumbers : outbox_record[i].message = outbox_record[j].message => i = j

\* What makes DuplicatesOnlyAfterFailure inductive: a failure pays for every record
\* that its transaction had sent, and what nobody has sent since is still to be paid.
Paid ==
    \A m \in Messages : Cardinality(Sent(m)) <= failures + (IF Counted(m) THEN 1 ELSE 0)

OutboxInv ==
    /\ OutboxTypeOK
    /\ \A d \in Dispatchers : dispatcher[d].sent \subseteq dispatcher[d].rows
    /\ LocksExclusive
    /\ OneRow
    /\ Paid

\* A locked row is a row: its number, its type and who holds it.
LEMMA LockedRow ==
    ASSUME OutboxInv, NEW d \in Dispatchers, NEW i \in dispatcher[d].rows
    PROVE  /\ i \in RowNumbers
           /\ outbox_record[i].status = "PENDING"
           /\ \A e \in Dispatchers : e # d => i \notin dispatcher[e].rows
BY ZenonT(40) DEF OutboxInv, LocksExclusive, LockedRows, PendingRows

\* The offsets of a message are finitely many.
LEMMA SentFinite ==
    ASSUME OutboxInv, NEW m \in Messages
    PROVE  IsFiniteSet(Sent(m)) /\ Cardinality(Sent(m)) \in Nat
<1>1. Len(topic["EXECUTION_REQUESTED"]) \in Nat
    BY DEF OutboxInv, OutboxTypeOK, BusTypeOK, EventTypes
<1>2. IsFiniteSet(1..Len(topic["EXECUTION_REQUESTED"]))
    BY <1>1, FS_Interval
<1>3. IsFiniteSet(Sent(m))
    BY Zenon, <1>2, FS_Subset DEF Sent
<1> QED
    BY Zenon, <1>3, FS_CardinalityType

\* Nothing is there in the beginning.
LEMMA OutboxInitInv == OutboxInit => OutboxInv
<1> SUFFICES ASSUME OutboxInit PROVE OutboxInv
    BY Zenon
<1> USE DEF OutboxInit, BusInit
<1>1. OutboxTypeOK
    BY FailureAssumption DEF OutboxTypeOK, BusTypeOK, IdleDispatcher, DispatcherState
<1>2. \A d \in Dispatchers : dispatcher[d].sent \subseteq dispatcher[d].rows
    BY Zenon DEF IdleDispatcher
<1>3. LocksExclusive
    BY Zenon DEF LocksExclusive, LockedRows, IdleDispatcher
<1>4. OneRow
    BY DEF OneRow, RowNumbers
<1>5. ASSUME NEW m \in Messages PROVE Cardinality(Sent(m)) = 0
    <2>1. Sent(m) = {}
        BY DEF Sent, EventTypes
    <2> QED
        BY Zenon, <2>1, FS_EmptySet
<1>6. Paid
    BY <1>5 DEF Paid
<1> QED
    BY Zenon, <1>1, <1>2, <1>3, <1>4, <1>6 DEF OutboxInv

\* A committed business transaction appends one row that nobody has sent.
LEMMA CommitInv ==
    ASSUME OutboxInv, NEW m \in Messages, BusinessCommit(m)
    PROVE  OutboxInv'
<1> DEFINE row == [type |-> "EXECUTION_REQUESTED", message |-> m, status |-> "PENDING"]
           n == Len(outbox_record)
<1>1. /\ outbox_record \in Seq(OutboxRow) /\ n \in Nat /\ row \in OutboxRow
      /\ row.type = "EXECUTION_REQUESTED" /\ row.message = m /\ row.status = "PENDING"
    BY DEF OutboxInv, OutboxTypeOK, BusTypeOK, OutboxRow, EventTypes
<1>2. outbox_record' = outbox_record \o <<row>>
    <2>1. [i \in 1..Len(<<"EXECUTION_REQUESTED">>) |->
                [type |-> <<"EXECUTION_REQUESTED">>[i], message |-> m, status |-> "PENDING"]] = <<row>>
        OBVIOUS
    <2> QED
        BY Zenon, <2>1 DEF BusinessCommit, InsertOutboxRecords
<1>3. UNCHANGED <<topic, dispatcher, failures>>
    BY Zenon DEF BusinessCommit
<1> HIDE DEF row
<1>4. /\ outbox_record' \in Seq(OutboxRow) /\ Len(outbox_record') = n + 1
      /\ outbox_record'[n + 1] = row
      /\ \A i \in 1..n : outbox_record'[i] = outbox_record[i]
    BY <1>1, <1>2
<1>5. RowNumbers = 1..n /\ RowNumbers' = 1..(n + 1)
    BY Zenon, <1>4 DEF RowNumbers
<1>6. OutboxTypeOK'
    BY Zenon, <1>3, <1>4 DEF OutboxInv, OutboxTypeOK, BusTypeOK
<1>7. LocksExclusive'
    <2>1. PendingRows \subseteq PendingRows'
        BY <1>1, <1>4, <1>5 DEF PendingRows
    <2> QED
        BY <1>3, <2>1 DEF OutboxInv, LocksExclusive, LockedRows
<1>8. OneRow'
    <2>1. \A i \in RowNumbers : outbox_record[i].message # m
        BY Zenon DEF BusinessCommit
    <2> QED
        BY <1>1, <1>4, <1>5, <2>1 DEF OutboxInv, OneRow
<1>9. ASSUME NEW k \in Messages, Counted(k) PROVE Counted(k)'
    BY <1>1, <1>3, <1>4, <1>5, <1>9 DEF Counted
<1>10. Paid'
    <2> SUFFICES ASSUME NEW k \in Messages
                 PROVE  Cardinality(Sent(k)) <= failures + (IF Counted(k)' THEN 1 ELSE 0)
        BY Zenon, <1>3 DEF Paid, Sent
    <2>1. Cardinality(Sent(k)) \in Nat /\ failures \in Nat
        BY SentFinite, FailureAssumption DEF OutboxInv, OutboxTypeOK
    <2>2. Cardinality(Sent(k)) <= failures + (IF Counted(k) THEN 1 ELSE 0)
        BY Zenon DEF OutboxInv, Paid
    <2> QED
        BY <1>9, <2>1, <2>2
<1> QED
    BY Zenon, <1>3, <1>6, <1>7, <1>8, <1>10 DEF OutboxInv

\* Who locks a batch takes free PENDING rows only.
LEMMA SelectInv ==
    ASSUME OutboxInv, NEW d \in Dispatchers, SelectPending(d), UNCHANGED failures
    PROVE  OutboxInv'
<1> DEFINE new == [dispatcher[d] EXCEPT !.rows = Batch]
<1>1. /\ dispatcher \in [Dispatchers -> DispatcherState]
      /\ outbox_record \in Seq(OutboxRow) /\ Len(outbox_record) \in Nat
    BY DEF OutboxInv, OutboxTypeOK, BusTypeOK
<1>2. Batch \subseteq PendingRows \ LockedRows
    BY Zenon DEF Batch
<1>3. /\ dispatcher[d].rows = {} /\ dispatcher[d].sent = {}
      /\ dispatcher' = [dispatcher EXCEPT ![d].rows = Batch]
      /\ UNCHANGED <<outbox_record, topic, failures>>
    BY DEF SelectPending, IdleDispatcher
<1>4. Batch \in SUBSET (Nat \ {0})
    BY <1>1, <1>2 DEF PendingRows, RowNumbers
<1>5. new \in DispatcherState /\ new.rows = Batch /\ new.sent = {}
    BY Zenon, <1>1, <1>3, <1>4 DEF DispatcherState
<1>6. \A e \in Dispatchers : dispatcher'[e] = IF e = d THEN new ELSE dispatcher[e]
    BY Zenon, <1>1, <1>3
<1>7. dispatcher' = [dispatcher EXCEPT ![d] = new]
    BY Zenon, <1>3
<1> HIDE DEF new
<1>8. OutboxTypeOK'
    BY ZenonT(40), <1>1, <1>3, <1>5, <1>7 DEF OutboxInv, OutboxTypeOK, BusTypeOK
<1>9. \A e \in Dispatchers : dispatcher'[e].sent = dispatcher[e].sent
    BY Zenon, <1>3, <1>5, <1>6
<1>10. \A e \in Dispatchers : dispatcher'[e].sent \subseteq dispatcher'[e].rows
    BY Zenon, <1>5, <1>6 DEF OutboxInv
<1>11. LocksExclusive'
    <2>1. \A e \in Dispatchers : dispatcher[e].rows \cap Batch = {}
        BY Zenon, <1>2 DEF LockedRows
    <2>2. LockedRows' \subseteq LockedRows \cup Batch
        BY Zenon, <1>5, <1>6 DEF LockedRows
    <2>3. PendingRows' = PendingRows
        BY Zenon, <1>3 DEF PendingRows, RowNumbers
    <2>4. LockedRows' \subseteq PendingRows'
        BY Zenon, <1>2, <2>2, <2>3 DEF OutboxInv, LocksExclusive
    <2>5. \A e, f \in Dispatchers : e # f => dispatcher'[e].rows \cap dispatcher'[f].rows = {}
        BY ZenonT(60), <1>5, <1>6, <2>1 DEF OutboxInv, LocksExclusive
    <2> QED
        BY Zenon, <2>4, <2>5 DEF LocksExclusive
<1>12. \A k \in Messages : Counted(k)' = Counted(k)
    BY Zenon, <1>3, <1>9 DEF Counted, RowNumbers
<1>13. Paid' /\ OneRow'
    BY Zenon, <1>3, <1>12 DEF OutboxInv, Paid, OneRow, Sent, RowNumbers
<1> QED
    BY Zenon, <1>8, <1>10, <1>11, <1>13 DEF OutboxInv

\* A record that is sent had not been sent since the last failure: its row is
\* PENDING, and nobody else holds it.
LEMMA PublishInv ==
    ASSUME OutboxInv, NEW d \in Dispatchers, PublishRow(d), UNCHANGED failures
    PROVE  OutboxInv'
<1>1. PICK i \in dispatcher[d].rows \ dispatcher[d].sent :
        /\ topic' = [topic EXCEPT
                ![outbox_record[i].type] = Append(@, outbox_record[i].message)]
        /\ dispatcher' = [dispatcher EXCEPT ![d].sent = @ \cup {i}]
        /\ UNCHANGED outbox_record
    BY Zenon DEF PublishRow
<1> DEFINE m == outbox_record[i].message
           t == "EXECUTION_REQUESTED"
           new == [dispatcher[d] EXCEPT !.sent = @ \cup {i}]
           n == Len(topic[t])
<1>2. /\ dispatcher \in [Dispatchers -> DispatcherState]
      /\ topic \in [EventTypes -> Seq(Messages)]
      /\ outbox_record \in Seq(OutboxRow)
    BY Zenon DEF OutboxInv, OutboxTypeOK, BusTypeOK
<1>3. /\ i \in RowNumbers /\ outbox_record[i].status = "PENDING"
      /\ \A e \in Dispatchers : i \notin dispatcher[e].sent
    BY Zenon, LockedRow DEF OutboxInv
<1>4. m \in Messages /\ outbox_record[i].type = t /\ i \in Nat \ {0}
    <2>1. Len(outbox_record) \in Nat /\ outbox_record[i] \in OutboxRow
        BY <1>2, <1>3 DEF RowNumbers
    <2>2. i \in Nat \ {0}
        BY <1>3, <2>1 DEF RowNumbers
    <2>3. outbox_record[i].type = t
        BY Zenon, <1>3 DEF OutboxInv, OneRow
    <2> QED
        BY Zenon, <2>1, <2>2, <2>3 DEF OutboxRow
<1>5. /\ new \in DispatcherState /\ new.rows = dispatcher[d].rows
      /\ new.sent = dispatcher[d].sent \cup {i}
    BY Zenon, <1>2, <1>4 DEF DispatcherState
<1>6. dispatcher' = [dispatcher EXCEPT ![d] = new]
    BY Zenon, <1>1
<1>7. \A e \in Dispatchers : dispatcher'[e] = IF e = d THEN new ELSE dispatcher[e]
    BY Zenon, <1>2, <1>6
<1> HIDE DEF new
<1>8. /\ topic' \in [EventTypes -> Seq(Messages)]
      /\ topic'[t] = Append(topic[t], m)
    BY <1>1, <1>2, <1>4 DEF EventTypes
<1>9. OutboxTypeOK'
    BY Zenon, <1>1, <1>2, <1>5, <1>6, <1>8 DEF OutboxInv, OutboxTypeOK, BusTypeOK
<1>10. \A e \in Dispatchers : dispatcher'[e].sent \subseteq dispatcher'[e].rows
    BY ZenonT(60), <1>1, <1>5, <1>7 DEF OutboxInv
<1>11. \A e \in Dispatchers : dispatcher'[e].rows = dispatcher[e].rows
    BY Zenon, <1>5, <1>7
<1>12. LocksExclusive' /\ OneRow'
    BY <1>1, <1>11 DEF OutboxInv, LocksExclusive, LockedRows, PendingRows, RowNumbers, OneRow
<1>13. ASSUME NEW k \in Messages
       PROVE  Cardinality(Sent(k))' <= failures' + (IF Counted(k)' THEN 1 ELSE 0)
    <2>1. Cardinality(Sent(k)) \in Nat /\ failures \in Nat /\ IsFiniteSet(Sent(k))
        BY SentFinite, FailureAssumption DEF OutboxInv, OutboxTypeOK
    <2>2. Cardinality(Sent(k)) <= failures + (IF Counted(k) THEN 1 ELSE 0)
        BY Zenon DEF OutboxInv, Paid
    <2>3. topic[t] \in Seq(Messages) /\ n \in Nat
        BY <1>2 DEF EventTypes
    <2>4. CASE k = m
        <3>1. ~ Counted(k)
            BY Zenon, <1>3, <2>4 DEF Counted, OutboxInv, OneRow
        <3>2. Counted(k)'
            BY ZenonT(60), <1>1, <1>3, <1>5, <1>7, <2>4 DEF Counted, RowNumbers
        <3>3. Sent(k)' = Sent(k) \cup {n + 1}
            BY <1>4, <1>8, <2>3, <2>4 DEF Sent
        <3>4. n + 1 \notin Sent(k)
            BY <2>3 DEF Sent
        <3>5. Cardinality(Sent(k))' = Cardinality(Sent(k)) + 1
            BY Zenon, <2>1, <3>3, <3>4, FS_AddElement
        <3> QED
            BY <2>1, <2>2, <3>1, <3>2, <3>5
    <2>5. CASE k # m
        <3>1. Sent(k)' = Sent(k)
            BY <1>4, <1>8, <2>3, <2>5 DEF Sent
        <3>2. Counted(k) => Counted(k)'
            BY ZenonT(60), <1>1, <1>5, <1>7 DEF Counted, RowNumbers
        <3> QED
            BY <2>1, <2>2, <3>1, <3>2
    <2> QED
        BY Zenon, <2>4, <2>5
<1> QED
    BY Zenon, <1>9, <1>10, <1>12, <1>13 DEF OutboxInv, Paid

\* The commit marks all that the transaction has sent.
LEMMA MarkInv ==
    ASSUME OutboxInv, NEW d \in Dispatchers, CommitBatch(d), UNCHANGED failures
    PROVE  OutboxInv'
<1> DEFINE marked(i) == [outbox_record[i] EXCEPT !.status = "PUBLISHED"]
<1>1. /\ dispatcher \in [Dispatchers -> DispatcherState]
      /\ outbox_record \in Seq(OutboxRow) /\ Len(outbox_record) \in Nat
    BY DEF OutboxInv, OutboxTypeOK, BusTypeOK
<1>2. /\ dispatcher[d].sent = dispatcher[d].rows
      /\ outbox_record' = [i \in RowNumbers |->
            IF i \in dispatcher[d].rows THEN marked(i) ELSE outbox_record[i]]
      /\ dispatcher' = [dispatcher EXCEPT ![d] = IdleDispatcher]
      /\ UNCHANGED <<topic, failures>>
    BY Zenon DEF CommitBatch, MarkPublished
<1>3. \A i \in RowNumbers : outbox_record[i] \in OutboxRow
    BY <1>1 DEF RowNumbers
<1>4. \A i \in RowNumbers :
        /\ marked(i) \in OutboxRow /\ marked(i).type = outbox_record[i].type
        /\ marked(i).message = outbox_record[i].message /\ marked(i).status = "PUBLISHED"
    BY Zenon, <1>3 DEF OutboxRow
<1> HIDE DEF marked
<1>5. /\ outbox_record' \in Seq(OutboxRow) /\ Len(outbox_record') = Len(outbox_record)
      /\ \A i \in RowNumbers : outbox_record'[i] =
            IF i \in dispatcher[d].rows THEN marked(i) ELSE outbox_record[i]
    <2>1. outbox_record' \in [1..Len(outbox_record) -> OutboxRow]
        BY Zenon, <1>2, <1>3, <1>4 DEF RowNumbers
    <2> QED
        BY <1>1, <1>2, <2>1 DEF RowNumbers
<1>6. RowNumbers' = RowNumbers
    BY Zenon, <1>5 DEF RowNumbers
<1>7. IdleDispatcher \in DispatcherState /\ IdleDispatcher.rows = {} /\ IdleDispatcher.sent = {}
    BY Zenon DEF IdleDispatcher, DispatcherState
<1>8. \A e \in Dispatchers : dispatcher'[e] = IF e = d THEN IdleDispatcher ELSE dispatcher[e]
    BY Zenon, <1>1, <1>2
<1>9. OutboxTypeOK'
    BY Zenon, <1>1, <1>2, <1>5, <1>7 DEF OutboxInv, OutboxTypeOK, BusTypeOK
<1>10. \A e \in Dispatchers : dispatcher'[e].sent \subseteq dispatcher'[e].rows
    BY Zenon, <1>7, <1>8 DEF OutboxInv
<1>11. LocksExclusive'
    <2>1. \A e, f \in Dispatchers : e # f => dispatcher'[e].rows \cap dispatcher'[f].rows = {}
        BY ZenonT(60), <1>7, <1>8 DEF OutboxInv, LocksExclusive
    <2>2. ASSUME NEW e \in Dispatchers, NEW i \in dispatcher'[e].rows PROVE i \in PendingRows'
        <3>1. e # d /\ i \in dispatcher[e].rows
            BY Zenon, <1>7, <1>8, <2>2
        <3>2. i \in RowNumbers /\ outbox_record[i].status = "PENDING" /\ i \notin dispatcher[d].rows
            BY Zenon, <3>1, LockedRow
        <3> QED
            BY Zenon, <1>5, <1>6, <3>2 DEF PendingRows
    <2> QED
        BY Zenon, <2>1, <2>2 DEF LocksExclusive, LockedRows
<1>12. OneRow'
    BY <1>4, <1>5, <1>6 DEF OutboxInv, OneRow
<1>13. ASSUME NEW k \in Messages, Counted(k) PROVE Counted(k)'
    <2>1. PICK i \in RowNumbers :
            /\ outbox_record[i].message = k
            /\ \/ outbox_record[i].status = "PUBLISHED"
               \/ \E e \in Dispatchers : i \in dispatcher[e].sent
        BY Zenon, <1>13 DEF Counted
    <2>2. CASE i \in dispatcher[d].rows
        BY ZenonT(60), <1>4, <1>5, <1>6, <2>1, <2>2 DEF Counted
    <2>3. CASE i \notin dispatcher[d].rows
        <3>1. outbox_record'[i] = outbox_record[i]
            BY Zenon, <1>5, <2>3
        <3>2. \A e \in Dispatchers : i \in dispatcher[e].sent => i \in dispatcher'[e].sent
            BY Zenon, <1>2, <1>8, <2>3
        <3> QED
            BY Zenon, <1>6, <2>1, <3>1, <3>2 DEF Counted
    <2> QED
        BY Zenon, <2>2, <2>3
<1>14. Paid'
    <2> SUFFICES ASSUME NEW k \in Messages
                 PROVE  Cardinality(Sent(k)) <= failures + (IF Counted(k)' THEN 1 ELSE 0)
        BY Zenon, <1>2 DEF Paid, Sent
    <2>1. Cardinality(Sent(k)) \in Nat /\ failures \in Nat
        BY SentFinite, FailureAssumption DEF OutboxInv, OutboxTypeOK
    <2>2. Cardinality(Sent(k)) <= failures + (IF Counted(k) THEN 1 ELSE 0)
        BY Zenon DEF OutboxInv, Paid
    <2> QED
        BY <1>13, <2>1, <2>2
<1> QED
    BY Zenon, <1>9, <1>10, <1>11, <1>12, <1>14 DEF OutboxInv

\* A failure forgets what its transaction has sent, and counts for all of it.
LEMMA FailureInv ==
    ASSUME OutboxInv, NEW d \in Dispatchers, Failure(d)
    PROVE  OutboxInv'
<1>1. dispatcher \in [Dispatchers -> DispatcherState] /\ failures \in 0..MaxFailures
    BY Zenon DEF OutboxInv, OutboxTypeOK, BusTypeOK
<1>2. PICK new \in {IdleDispatcher, [IdleDispatcher EXCEPT !.loop = "ended"]} :
        dispatcher' = [dispatcher EXCEPT ![d] = new]
    BY Zenon DEF Failure, DispatchFailed, RestartGateway
<1>3. /\ UNCHANGED <<outbox_record, topic>>
      /\ failures' = failures + 1 /\ failures' \in 0..MaxFailures
    BY <1>1, FailureAssumption DEF Failure, DispatchFailed, RestartGateway
<1>4. new \in DispatcherState /\ new.rows = {} /\ new.sent = {}
    BY DEF IdleDispatcher, DispatcherState
<1>5. \A e \in Dispatchers : dispatcher'[e] = IF e = d THEN new ELSE dispatcher[e]
    BY Zenon, <1>1, <1>2
<1>6. OutboxTypeOK'
    BY Zenon, <1>1, <1>2, <1>3, <1>4 DEF OutboxInv, OutboxTypeOK, BusTypeOK
<1>7. \A e \in Dispatchers : dispatcher'[e].sent \subseteq dispatcher'[e].rows
    BY Zenon, <1>4, <1>5 DEF OutboxInv
<1>8. LocksExclusive' /\ OneRow'
    BY <1>3, <1>4, <1>5 DEF OutboxInv, LocksExclusive, LockedRows, PendingRows, RowNumbers, OneRow
<1>9. Paid'
    <2> SUFFICES ASSUME NEW k \in Messages
                 PROVE  Cardinality(Sent(k)) <= failures + 1 + (IF Counted(k)' THEN 1 ELSE 0)
        BY Zenon, <1>3 DEF Paid, Sent
    <2>1. Cardinality(Sent(k)) \in Nat /\ failures \in Nat
        BY SentFinite, FailureAssumption DEF OutboxInv, OutboxTypeOK
    <2>2. Cardinality(Sent(k)) <= failures + (IF Counted(k) THEN 1 ELSE 0)
        BY Zenon DEF OutboxInv, Paid
    <2> QED
        BY <2>1, <2>2
<1> QED
    BY Zenon, <1>6, <1>7, <1>8, <1>9 DEF OutboxInv

\* Every step keeps the invariant.
LEMMA OutboxNextInv == OutboxInv /\ [OutboxNext]_outboxVars => OutboxInv'
<1> SUFFICES ASSUME OutboxInv, [OutboxNext]_outboxVars PROVE OutboxInv'
    BY Zenon
<1>1. CASE UNCHANGED outboxVars
    <2>1. UNCHANGED <<outbox_record, topic, dispatcher, failures>>
        BY Zenon, <1>1 DEF outboxVars
    <2>2. OutboxTypeOK' /\ OneRow'
        BY <2>1 DEF OutboxInv, OutboxTypeOK, BusTypeOK, OneRow, RowNumbers
    <2>3. RowNumbers' = RowNumbers /\ PendingRows' = PendingRows /\ LockedRows' = LockedRows
        BY <2>1 DEF RowNumbers, PendingRows, LockedRows
    <2>4. LocksExclusive' /\ (\A d \in Dispatchers : dispatcher[d].sent \subseteq dispatcher[d].rows)'
        BY <2>1, <2>3 DEF OutboxInv, LocksExclusive
    <2>5. ASSUME NEW m \in Messages PROVE Sent(m)' = Sent(m) /\ Counted(m)' = Counted(m)
        BY <2>1, <2>3 DEF Sent, Counted
    <2>6. Paid'
        BY <2>1, <2>5 DEF OutboxInv, Paid
    <2> QED
        BY Zenon, <2>2, <2>4, <2>6 DEF OutboxInv
<1> QED
    BY ZenonT(60), <1>1, CommitInv, SelectInv, PublishInv, MarkInv, FailureInv DEF OutboxNext, Dispatch

\* The invariant of the Outbox.
LEMMA OutboxInvariant == OutboxSpec => []OutboxInv
BY OutboxInitInv, OutboxNextInv, PTL DEF OutboxSpec

\* "concurrent dispatchers never double-publish one record" (execution_bus.py): over
\* all interleavings of the replicas a record is in the topic at most once more than
\* there were rolled back transactions.
THEOREM NoDoublePublish == OutboxSpec => []DuplicatesOnlyAfterFailure
<1>1. OutboxInv => DuplicatesOnlyAfterFailure
    <2> SUFFICES ASSUME OutboxInv, NEW m \in Messages PROVE Cardinality(Sent(m)) <= 1 + failures
        BY Zenon DEF DuplicatesOnlyAfterFailure
    <2>1. Cardinality(Sent(m)) \in Nat /\ failures \in Nat
        BY SentFinite, FailureAssumption DEF OutboxInv, OutboxTypeOK
    <2> QED
        BY <2>1 DEF OutboxInv, Paid
<1> QED
    BY <1>1, OutboxInvariant, PTL

\* FOR UPDATE SKIP LOCKED: a row is locked by one open transaction at most, and as
\* long as it is, it is PENDING.
THEOREM RowLocksExclusive == OutboxSpec => []LocksExclusive
<1>1. OutboxInv => LocksExclusive
    BY Zenon DEF OutboxInv
<1> QED
    BY <1>1, OutboxInvariant, PTL

-----------------------------------------------------------------------------
(* The delivery of a reply: the invariant *)

Unknown == {"OUTCOME_UNKNOWN"}

\* Where a consumer has a copy of the row in hand that it is going to write back.
InHand == {"claim", "send", "record", "save", "update_save"}

\* The sends there may be: the budget, and one for every rate limit.
Limited == {a \in attempt_rows : a.outcome = "RATE_LIMITED"}
Budget == MaxAttempts + Cardinality(Limited)

\* A row is within the budget, and a rate-limited one leaves room for another send.
WithinBudget(row) ==
    /\ row.attempts <= Budget
    /\ row.status = "RATE_LIMITED" => row.attempts + 1 <= Budget

\* The channel has the content of a WeCom reply, or the attempt of this number is one that
\* was reconciled or is of unknown outcome.
Evidence(no) ==
    \/ 0 \in shown
    \/ \E a \in attempt_rows :
        a.no = no /\ a.outcome \in {"RECONCILED_DELIVERED", "OUTCOME_UNKNOWN"}

NeedsEvidence == {"DELIVERED"} \cup Unknown

\* The row in the table.
RowOK(row) ==
    /\ row.status = "NO_ROW" => row = NoDelivery /\ attempt_rows = {}
    /\ channel = "WECOM" => row.content = 0
    /\ WithinBudget(row)
    /\ channel = "WECOM" /\ row.status \in NeedsEvidence => Evidence(row.attempts)

\* A consumer: the row it has loaded stays, a result is one of the outcomes, a WeCom
\* delivery is never updated, and what it is about to write is within the budget and has
\* its evidence.
RunnerOK(rec) ==
    /\ rec.at \in {"load", "update_load"} \cup InHand => reply_delivery.status # "NO_ROW"
    /\ rec.at \in InHand => rec.copy.status \in States
    /\ rec.at = "record" => rec.result \in Outcomes
    /\ rec.at \in {"update_load", "update_save"} => channel = "FEISHU" /\ rec.script < Updates
    /\ channel = "WECOM" => rec.copy.content = 0
    /\ WithinBudget(rec.copy)
    /\ rec.at = "claim" \/ (rec.at = "save" /\ rec.next = "RATE_LIMITED") =>
            rec.copy.attempts + 1 <= Budget
    /\ channel = "WECOM" =>
        /\ rec.at = "record" /\ rec.result = "delivered" => 0 \in shown
        /\ rec.at = "save" /\ rec.next \in NeedsEvidence => Evidence(rec.copy.attempts)

\* The only consumer has the row itself in hand, in a state that fits its place; attempts
\* are numbered up to the row's counter, the one under way excepted; and a confirmed WeCom
\* reply stays DELIVERED.
SoleOK(rec) ==
    /\ rec.at \in InHand => rec.copy = reply_delivery
    /\ rec.at = "insert" => reply_delivery.status = "NO_ROW"
    /\ rec.at \in {"claim", "save"} => reply_delivery.status \notin TerminalStates
    /\ rec.at = "claim" => reply_delivery.status \notin Unknown
    /\ rec.at \in {"send", "record"} => reply_delivery.status = "IN_FLIGHT"
    /\ rec.at = "update_save" => reply_delivery.status = "DELIVERED"
    /\ \A a \in attempt_rows : a.no <= reply_delivery.attempts
    /\ rec.at \in {"send", "record"} => \A a \in attempt_rows : a.no < reply_delivery.attempts
    /\ channel = "WECOM" /\ confirmed # {} => reply_delivery.status = "DELIVERED"

Inv ==
    /\ TypeOK
    /\ IsFiniteSet(attempt_rows)
    /\ RowOK(reply_delivery)
    /\ \A r \in Runners : RunnerOK(runner[r])
    /\ OneConsumer => \A r \in scene.consumers : SoleOK(runner[r])

-----------------------------------------------------------------------------
(* What every step preserves *)

\* Attempts and what the channel has shown grow, and a row is not removed.
Grows ==
    /\ attempt_rows \subseteq attempt_rows' /\ IsFiniteSet(attempt_rows')
    /\ shown \subseteq shown'
    /\ scene' = scene
    /\ reply_delivery.status # "NO_ROW" => reply_delivery'.status # "NO_ROW"

\* The budget is a number and grows with the rate limits.
LEMMA BudgetGrows ==
    ASSUME IsFiniteSet(attempt_rows), Grows
    PROVE  Budget \in Nat /\ Budget' \in Nat /\ Budget <= Budget'
<1>1. Limited \subseteq Limited' /\ Limited' \subseteq attempt_rows'
    BY Zenon DEF Limited, Grows
<1>2. IsFiniteSet(Limited')
    BY Zenon, <1>1, FS_Subset DEF Grows
<1>3. IsFiniteSet(Limited) /\ Cardinality(Limited) <= Cardinality(Limited')
    BY Zenon, <1>1, <1>2, FS_Subset
<1>4. Cardinality(Limited) \in Nat /\ Cardinality(Limited') \in Nat
    BY Zenon, <1>2, <1>3, FS_CardinalityType
<1> QED
    BY <1>3, <1>4, DeliveryAssumption DEF Budget

\* What a row or a consumer counts on is not taken from it.
LEMMA RunnerKeeps ==
    ASSUME IsFiniteSet(attempt_rows), Grows, NEW rec \in Runner, RunnerOK(rec)
    PROVE  RunnerOK(rec)'
<1>1. Budget \in Nat /\ Budget' \in Nat /\ Budget <= Budget'
    BY Zenon, BudgetGrows
<1>2. rec.copy.attempts \in Nat
    BY Zenon DEF Runner, Row
<1>3. channel' = channel
    BY Zenon DEF channel, Grows
<1>4. \A n : Evidence(n) => Evidence(n)'
    BY Zenon DEF Evidence, Grows
<1>5. WithinBudget(rec.copy) => WithinBudget(rec.copy)'
    BY <1>1, <1>2 DEF WithinBudget
<1>6. rec.copy.attempts + 1 <= Budget => rec.copy.attempts + 1 <= Budget'
    BY <1>1, <1>2
<1> HIDE DEF Budget, Evidence, WithinBudget
<1> QED
    BY Zenon, <1>3, <1>4, <1>5, <1>6 DEF RunnerOK, Grows

\* A step of consumer r: the tables grow, and r's new record and the row are all right.
LEMMA MoveInv ==
    ASSUME Inv, Grows, TypeOK',
           NEW r \in scene.consumers, NEW new \in Runner, runner' = [runner EXCEPT ![r] = new],
           RowOK(reply_delivery)', RunnerOK(new)', OneConsumer => SoleOK(new)'
    PROVE  Inv'
<1>1. scene.consumers \subseteq Runners /\ runner \in [Runners -> Runner]
    BY Zenon, DeliveryAssumption DEF Inv, TypeOK, Scene
<1>2. runner'[r] = new /\ \A q \in Runners : q # r => runner'[q] = runner[q]
    BY Zenon, <1>1
<1>3. ASSUME NEW q \in Runners PROVE RunnerOK(runner[q])'
    <2>1. CASE q = r
        BY Zenon, <1>2, <2>1 DEF RunnerOK
    <2>2. CASE q # r
        <3>1. RunnerOK(runner[q]) /\ runner[q] \in Runner
            BY Zenon, <1>1 DEF Inv
        <3>2. PICK rec \in Runner : rec = runner[q]
            BY Zenon, <3>1
        <3>3. RunnerOK(rec)'
            BY Zenon, <3>1, <3>2, RunnerKeeps DEF Inv
        <3> QED
            BY Zenon, <1>2, <2>2, <3>2, <3>3 DEF RunnerOK
    <2> QED
        BY Zenon, <2>1, <2>2
<1>4. ASSUME OneConsumer', NEW q \in scene'.consumers PROVE SoleOK(runner[q])'
    <2>1. OneConsumer /\ q \in scene.consumers
        BY Zenon, <1>4 DEF OneConsumer, Grows
    <2>2. PICK c : scene.consumers = {c}
        BY Zenon, <2>1 DEF OneConsumer
    <2>3. q = r
        BY Zenon, <2>1, <2>2
    <2> QED
        BY Zenon, <1>2, <2>1, <2>3 DEF SoleOK
<1> QED
    BY Zenon, <1>3, <1>4 DEF Inv, Grows

\* A step of consumer r that touches no table.
LEMMA QuietInv ==
    ASSUME Inv, NEW r \in scene.consumers, NEW new \in Runner, runner' = [runner EXCEPT ![r] = new],
           UNCHANGED <<reply_delivery, attempt_rows, shown, confirmed, scene>>,
           faults' \in 0..scene.maxFaults, requeues' = requeues,
           RunnerOK(new), OneConsumer => SoleOK(new)
    PROVE  Inv'
<1>1. Grows
    BY Zenon DEF Grows, Inv
<1>2. r \in Runners /\ runner \in [Runners -> Runner]
    BY Zenon, DeliveryAssumption DEF Inv, TypeOK, Scene
<1>3. runner' \in [Runners -> Runner]
    BY Zenon, <1>2
<1>4. TypeOK'
    BY Zenon, <1>3 DEF Inv, TypeOK
<1>5. Budget' = Budget /\ channel' = channel
    BY Zenon DEF Budget, Limited, channel
<1>6. RowOK(reply_delivery)'
    BY Zenon, <1>5 DEF Inv, RowOK, WithinBudget, Evidence
<1>7. RunnerOK(new)'
    BY Zenon, <1>5 DEF RunnerOK, WithinBudget, Evidence
<1>8. SoleOK(new) => SoleOK(new)'
    BY Zenon, <1>5 DEF SoleOK
<1> QED
    BY Zenon, <1>1, <1>4, <1>6, <1>7, <1>8, MoveInv

\* What is known of consumer r and of the row before its step.
LEMMA Before ==
    ASSUME Inv, NEW r \in scene.consumers
    PROVE  /\ r \in Runners
           /\ runner \in [Runners -> Runner] /\ runner[r] \in Runner
           /\ runner[r].copy \in Row /\ reply_delivery \in Row
           /\ RunnerOK(runner[r]) /\ RowOK(reply_delivery)
           /\ OneConsumer => SoleOK(runner[r])
           /\ faults \in 0..scene.maxFaults /\ requeues \in 0..scene.maxRequeues
           /\ scene.maxFaults \in Nat /\ IsFiniteSet(attempt_rows)
           /\ MaxAttempts \in Nat /\ Updates \in Nat /\ Budget \in Nat /\ MaxAttempts <= Budget
<1>1. r \in Runners /\ scene.maxFaults \in Nat /\ MaxAttempts \in Nat /\ Updates \in Nat
    BY Zenon, DeliveryAssumption DEF Inv, TypeOK, Scene
<1>2. Cardinality(Limited) \in Nat
    <2>1. Limited \subseteq attempt_rows /\ IsFiniteSet(attempt_rows)
        BY Zenon DEF Limited, Inv
    <2> QED
        BY Zenon, <2>1, FS_Subset, FS_CardinalityType
<1>3. Budget \in Nat /\ MaxAttempts <= Budget
    BY <1>1, <1>2 DEF Budget
<1>4. runner \in [Runners -> Runner] /\ runner[r] \in Runner
    BY Zenon, <1>1 DEF Inv, TypeOK
<1>5. runner[r].copy \in Row /\ reply_delivery \in Row
    BY Zenon, <1>4 DEF Inv, TypeOK, Runner
<1> QED
    BY Zenon, <1>1, <1>3, <1>4, <1>5 DEF Inv, TypeOK

\* enqueue looks whether there is a row.
LEMMA LookupInv == ASSUME Inv, NEW r \in scene.consumers, Lookup(r) PROVE Inv'
<1>1. PICK at \in {"insert", "load"} : at = IF reply_delivery.status = "NO_ROW" THEN "insert" ELSE "load"
    BY Zenon
<1>2. PICK new \in Runner : new = [runner[r] EXCEPT !.at = at]
    BY ZenonT(60), <1>1, Before DEF Runner, Places
<1>3. runner' = [runner EXCEPT ![r] = new]
    BY Zenon, <1>1, <1>2, Before DEF Lookup
<1>4. /\ new.at = at /\ new.copy = runner[r].copy /\ new.script = runner[r].script
      /\ new.result = runner[r].result /\ new.next = runner[r].next
    BY Zenon, <1>2, Before DEF Runner
<1>5. RunnerOK(new)
    BY Zenon, <1>1, <1>4, Before DEF RunnerOK, InHand
<1>6. OneConsumer => SoleOK(new)
    BY Zenon, <1>1, <1>4, Before DEF SoleOK, InHand
<1> QED
    BY ZenonT(60), <1>3, <1>5, <1>6, Before, QuietInv DEF Lookup

\* A consumer that starts over has nothing in hand.
LEMMA RestartInv ==
    ASSUME Inv, NEW r \in scene.consumers, Retry(r) \/ Redeliver(r) PROVE Inv'
<1>1. IdleRunner \in Runner
    <2>1. 0 \in Contents
        BY Before DEF Contents
    <2>2. NoDelivery \in Row
        BY Zenon, <2>1 DEF NoDelivery, Row
    <2>3. "QUEUED" \in States /\ "idle" \in Places
        BY Zenon DEF States, Places
    <2>4. FALSE \in BOOLEAN
        BY Zenon
    <2> QED
        BY ZenonT(60), <2>1, <2>2, <2>3, <2>4 DEF IdleRunner, Runner
<1>2. PICK new \in Runner : new = IdleRunner
    BY Zenon, <1>1
<1>3. new.at = "idle" /\ new.copy = NoDelivery
    BY Zenon, <1>2 DEF IdleRunner
<1>4. runner' = [runner EXCEPT ![r] = new] /\ faults' \in 0..scene.maxFaults
    BY SMTT(40), <1>2, Before DEF Retry, Redeliver, Fault
<1>5. RunnerOK(new)
    BY <1>3, Before DEF RunnerOK, InHand, WithinBudget, NoDelivery
<1>6. OneConsumer => SoleOK(new)
    BY Zenon, <1>3, Before DEF SoleOK, InHand
<1> QED
    BY Zenon, <1>4, <1>5, <1>6, QuietInv DEF Retry, Redeliver

-----------------------------------------------------------------------------
(* The steps of run *)

\* The consumer goes on with a row in hand.
LEMMA ContinueIs ==
    ASSUME Inv, NEW r \in scene.consumers, NEW row \in Row,
           NEW step \in [at : Places, next : States], Continue(r, row, step)
    PROVE  \E new \in Runner :
              /\ runner' = [runner EXCEPT ![r] = new]
              /\ new.at = step.at /\ new.copy = row /\ new.next = step.next
              /\ new.script = runner[r].script /\ new.result = runner[r].result
<1>1. PICK new \in Runner :
        new = [runner[r] EXCEPT !.copy = row, !.at = step.at, !.next = step.next]
    BY ZenonT(60), Before DEF Runner
<1>2. runner' = [runner EXCEPT ![r] = new]
    BY Zenon, <1>1, Before DEF Continue
<1>3. /\ new.at = step.at /\ new.copy = row /\ new.next = step.next
      /\ new.script = runner[r].script /\ new.result = runner[r].result
    BY Zenon, <1>1, Before DEF Runner
<1> QED
    BY Zenon, <1>2, <1>3

\* Where run returns to: an update only of a card that has one left.
LEMMA ReturnIs ==
    ASSUME NEW r
    PROVE  /\ Return(r) \in {"update_load", "done"} /\ Return(r) \in Places
           /\ Return(r) = "update_load" => channel = "FEISHU" /\ runner[r].script < Updates
BY Zenon DEF Return, Places

\* The top of the loop: what is claimed has a send left.
LEMMA LoopIs ==
    ASSUME Inv, NEW row \in Row, WithinBudget(row), NEW next \in States,
           MaxAttempts \in Nat, Budget \in Nat, MaxAttempts <= Budget
    PROVE  /\ Loop(row, next) \in [at : Places, next : States]
           /\ Loop(row, next).at \in {"save", "claim"}
           /\ Loop(row, next).at = "save" => Loop(row, next).next = "DEAD_LETTER"
           /\ Loop(row, next).at = "claim" =>
                Loop(row, next).next = next /\ row.attempts + 1 <= Budget
<1>1. row.attempts \in Nat
    BY Zenon DEF Row
<1>2. CASE row.attempts >= MaxAttempts /\ row.status # "RATE_LIMITED"
    BY Zenon, <1>2 DEF Loop, Places, States
<1>3. CASE ~ (row.attempts >= MaxAttempts /\ row.status # "RATE_LIMITED")
    <2>1. row.attempts + 1 <= Budget
        BY <1>1, <1>3 DEF WithinBudget
    <2> QED
        BY Zenon, <1>3, <2>1 DEF Loop, Places
<1> QED
    BY Zenon, <1>2, <1>3

\* run loads the row and returns, reconciles it, or enters the loop.
LEMMA LoadInv == ASSUME Inv, NEW r \in scene.consumers, Load(r) PROVE Inv'
<1> DEFINE row == reply_delivery
<1>1. /\ runner[r].at = "load" /\ row.status # "NO_ROW" /\ row.status \in States
      /\ row \in Row /\ WithinBudget(row) /\ row.attempts \in Nat
    BY Zenon, Before DEF Load, RunnerOK, RowOK, Row
<1>2. PICK step \in [at : Places, next : States] :
        /\ Continue(r, row, step)
        /\ \/ step.at = Return(r)
           \/ /\ step.at = "save" /\ row.status = "OUTCOME_UNKNOWN"
              /\ step.next \in {"DELIVERED", "FAILED"}
           \/ /\ row.status \notin TerminalStates \cup Unknown
              /\ \/ step.at = "save" /\ step.next = "DEAD_LETTER"
                 \/ step.at = "claim" /\ row.attempts + 1 <= Budget
    <2>1. CASE row.status \in TerminalStates
        <3>1. [at |-> Return(r), next |-> row.status] \in [at : Places, next : States]
            BY Zenon, <1>1, ReturnIs
        <3> QED
            BY Zenon, <2>1, <3>1 DEF Load, TerminalStates
    <2>2. CASE row.status = "OUTCOME_UNKNOWN"
        <3>1. PICK next \in {"DELIVERED", "FAILED"} :
                next = IF Reconcile(r) = "delivered" THEN "DELIVERED" ELSE "FAILED"
            BY Zenon
        <3>2. [at |-> "save", next |-> next] \in [at : Places, next : States]
            BY Zenon, <3>1 DEF Places, States
        <3> QED
            BY ZenonT(60), <2>2, <3>1, <3>2 DEF Load, TerminalStates
    <2>3. CASE row.status \notin TerminalStates \cup Unknown
        <3>1. PICK step : step = Loop(row, row.status)
            BY Zenon 
        <3>2. /\ step \in [at : Places, next : States] /\ step.at \in {"save", "claim"}
              /\ step.at = "save" => step.next = "DEAD_LETTER"
              /\ step.at = "claim" => row.attempts + 1 <= Budget
            BY ZenonT(60), <1>1, <3>1, LoopIs, Before
        <3>3. Continue(r, row, step)
            BY ZenonT(60), <2>3, <3>1 DEF Load, Unknown
        <3> QED
            BY ZenonT(60), <2>3, <3>2, <3>3
    <2> QED
        BY Zenon, <2>1, <2>2, <2>3 DEF Unknown
<1>3. PICK new \in Runner :
        /\ runner' = [runner EXCEPT ![r] = new]
        /\ new.at = step.at /\ new.copy = row /\ new.next = step.next
        /\ new.script = runner[r].script /\ new.result = runner[r].result
    BY SMTT(30), <1>1, <1>2, ContinueIs
<1>4. RunnerOK(new)
    BY <1>1, <1>2, <1>3, ReturnIs, Before DEF RunnerOK, RowOK, InHand, NeedsEvidence, Unknown
<1>5. OneConsumer => SoleOK(new)
    BY ZenonT(60), <1>1, <1>2, <1>3, ReturnIs, Before DEF SoleOK, InHand, Unknown, TerminalStates
<1> QED
    BY ZenonT(60), <1>3, <1>4, <1>5, Before, QuietInv DEF Load

\* update loads the row, which has to be DELIVERED.
LEMMA UpdateLoadInv == ASSUME Inv, NEW r \in scene.consumers, UpdateLoad(r) PROVE Inv'
<1> DEFINE row == reply_delivery
<1>1. /\ runner[r].at = "update_load" /\ row.status # "NO_ROW" /\ row.status \in States
      /\ row \in Row
    BY Zenon, Before DEF UpdateLoad, RunnerOK, Row
<1>2. PICK at \in {"update_save", "error"} :
        at = IF row.status = "DELIVERED" THEN "update_save" ELSE "error"
    BY Zenon
<1>3. PICK new \in Runner : new = [runner[r] EXCEPT !.copy = row, !.at = at]
    BY ZenonT(40), <1>1, <1>2, Before DEF Runner, Places
<1>4. runner' = [runner EXCEPT ![r] = new]
    BY Zenon, <1>2, <1>3, Before DEF UpdateLoad
<1>5. new.at = at /\ new.copy = row /\ new.script = runner[r].script
    BY Zenon, <1>3, Before DEF Runner
<1>6. RunnerOK(new)
    BY ZenonT(60), <1>1, <1>2, <1>5, Before DEF RunnerOK, RowOK, InHand
<1>7. OneConsumer => SoleOK(new)
    BY ZenonT(60), <1>1, <1>2, <1>5, Before DEF SoleOK, InHand
<1> QED
    BY ZenonT(60), <1>4, <1>6, <1>7, Before, QuietInv DEF UpdateLoad

\* The attempts and what the channel has shown stay: so do budget and evidence.
LEMMA SameEvidence ==
    ASSUME UNCHANGED <<attempt_rows, shown, scene>>
    PROVE  /\ Budget' = Budget /\ channel' = channel
           /\ \A n : Evidence(n)' <=> Evidence(n)
           /\ \A row : WithinBudget(row)' <=> WithinBudget(row)
BY Zenon DEF Budget, Limited, channel, Evidence, WithinBudget

\* A step of consumer r that writes the row.
LEMMA WriteInv ==
    ASSUME Inv, NEW r \in scene.consumers, NEW new \in Runner, runner' = [runner EXCEPT ![r] = new],
           NEW row \in Row, reply_delivery' = row, row.status # "NO_ROW", RowOK(row),
           confirmed' \subseteq Contents,
           UNCHANGED <<attempt_rows, shown, scene, faults, requeues>>,
           RunnerOK(new)', OneConsumer => SoleOK(new)'
    PROVE  Inv'
<1>1. Grows
    BY Zenon DEF Grows, Inv
<1>2. runner' \in [Runners -> Runner]
    BY Zenon, Before
<1>3. TypeOK'
    BY Zenon, <1>2 DEF Inv, TypeOK
<1>4. RowOK(reply_delivery)'
    BY Zenon, SameEvidence DEF RowOK
<1> QED
    BY ZenonT(60), <1>1, <1>3, <1>4, MoveInv

\* The insert of enqueue: of one consumer it makes the first row.
LEMMA InsertInv == ASSUME Inv, NEW r \in scene.consumers, Insert(r) PROVE Inv'
<1>1. PICK row : row = [NoDelivery EXCEPT !.status = "QUEUED"]
    BY Zenon
<1>2. row \in Row /\ row.status = "QUEUED" /\ row.attempts = 0 /\ row.content = 0
    BY <1>1, Before DEF Row, NoDelivery, States, Contents
<1>3. reply_delivery' = row /\ confirmed' = confirmed
    BY Zenon, <1>1, <1>2 DEF Insert, SaveDelivery
<1>4. PICK new \in Runner : new = [runner[r] EXCEPT !.at = "load"]
    BY ZenonT(40), Before DEF Runner, Places
<1>5. /\ runner' = [runner EXCEPT ![r] = new]
      /\ new.at = "load" /\ new.copy = runner[r].copy
    BY Zenon, <1>4, Before DEF Insert, Runner
<1>6. RowOK(row)
    BY <1>2, Before DEF RowOK, WithinBudget, NeedsEvidence, Unknown
<1>7. UNCHANGED <<attempt_rows, shown, scene, faults, requeues>>
    BY Zenon DEF Insert
<1>8. RunnerOK(new)'
    BY ZenonT(60), <1>2, <1>3, <1>5, <1>7, SameEvidence, Before DEF RunnerOK, InHand
<1>9. OneConsumer => SoleOK(new)'
    <2>1. OneConsumer => attempt_rows = {} /\ (channel = "WECOM" => confirmed = {})
        BY Zenon, Before DEF Insert, SoleOK, RowOK
    <2> QED
        BY ZenonT(60), <1>2, <1>3, <1>5, <1>7, <2>1, SameEvidence DEF SoleOK, InHand
<1>10. confirmed' \subseteq Contents
    BY Zenon, <1>3 DEF Inv, TypeOK
<1> QED
    BY ZenonT(60), <1>2, <1>3, <1>5, <1>6, <1>7, <1>8, <1>9, <1>10, WriteInv

\* claim_attempt: the row is as the copy says, or the consumer gives up.
LEMMA ClaimInv == ASSUME Inv, NEW r \in scene.consumers, Claim(r) PROVE Inv'
<1>1. /\ runner[r].at = "claim" /\ runner[r].copy.attempts \in Nat
      /\ reply_delivery.status # "NO_ROW"
      /\ runner[r].copy.attempts + 1 <= Budget
    BY Zenon, Before DEF Claim, RunnerOK, Row, InHand
<1>2. CASE reply_delivery.status = runner[r].copy.status
    <2>1. PICK row : row = [reply_delivery EXCEPT !.status = "IN_FLIGHT",
                                !.attempts = runner[r].copy.attempts + 1]
        BY Zenon
    <2>2. /\ row \in Row /\ row.status = "IN_FLIGHT"
          /\ row.attempts = runner[r].copy.attempts + 1 /\ row.content = reply_delivery.content
        <3>1. PICK n \in Nat : n = runner[r].copy.attempts + 1
            BY <1>1
        <3>2. "IN_FLIGHT" \in States \cup {"NO_ROW"} /\ reply_delivery \in Row
            BY Zenon, Before DEF States
        <3> QED
            BY ZenonT(60), <2>1, <3>1, <3>2 DEF Row
    <2>3. PICK step \in [at : Places, next : States] : step = [at |-> "send", next |-> "IN_FLIGHT"]
        BY ZenonT(40) DEF Places, States
    <2>4. Continue(r, row, step) /\ reply_delivery' = row
        BY ZenonT(60), <1>2, <2>1, <2>3 DEF Claim
    <2>5. PICK new \in Runner :
            /\ runner' = [runner EXCEPT ![r] = new]
            /\ new.at = "send" /\ new.copy = row
        BY <2>2, <2>3, <2>4, ContinueIs
    <2>6. RowOK(row) /\ WithinBudget(row)
        BY Zenon, <1>1, <2>2, Before DEF RowOK, WithinBudget, NeedsEvidence, Unknown
    <2>7. UNCHANGED <<attempt_rows, shown, confirmed, scene, faults, requeues>>
        BY Zenon DEF Claim
    <2>8. RunnerOK(new)'
        BY ZenonT(40), <2>2, <2>4, <2>5, <2>6, <2>7, SameEvidence, Before DEF RunnerOK, RowOK, InHand, States
    <2>9. OneConsumer => SoleOK(new)'
        <3>1. ASSUME OneConsumer PROVE \A a \in attempt_rows : a.no < row.attempts
            <4>1. runner[r].copy = reply_delivery /\ \A a \in attempt_rows : a.no <= reply_delivery.attempts
                BY Zenon, <1>1, <3>1, Before DEF SoleOK, InHand
            <4>2. \A a \in attempt_rows : a.no \in Nat
                BY Zenon DEF Inv, TypeOK
            <4> QED
                BY <1>1, <2>2, <4>1, <4>2
        <3>2. ASSUME OneConsumer, channel = "WECOM" PROVE confirmed = {}
            BY Zenon, <1>1, <3>2, Before DEF SoleOK, TerminalStates
        <3>3. \A a \in attempt_rows : a.no \in Nat
            BY Zenon DEF Inv, TypeOK
        <3> QED
            BY SMTT(40), <1>1, <2>2, <2>4, <2>5, <2>7, <3>1, <3>2, <3>3, SameEvidence DEF SoleOK, InHand
    <2>10. confirmed' \subseteq Contents
        BY Zenon, <2>7 DEF Inv, TypeOK
    <2> QED
        BY ZenonT(60), <2>2, <2>4, <2>5, <2>6, <2>7, <2>8, <2>9, <2>10, WriteInv
<1>3. CASE reply_delivery.status # runner[r].copy.status
    <2>1. PICK new \in Runner : new = [runner[r] EXCEPT !.at = Return(r)]
        BY ZenonT(40), ReturnIs, Before DEF Runner
    <2>2. /\ runner' = [runner EXCEPT ![r] = new]
          /\ new.at = Return(r) /\ new.copy = runner[r].copy /\ new.script = runner[r].script
        BY Zenon, <1>3, <2>1, Before DEF Claim, Runner
    <2>3. RunnerOK(new)
        BY ZenonT(60), <1>1, <2>2, ReturnIs, Before DEF RunnerOK, InHand
    <2>4. OneConsumer => SoleOK(new)
        BY Zenon, <2>2, ReturnIs, Before DEF SoleOK, InHand
    <2> QED
        BY ZenonT(60), <1>3, <2>2, <2>3, <2>4, Before, QuietInv DEF Claim
<1> QED
    BY Zenon, <1>2, <1>3

\* transport.send: the channel may have the content, whatever the outcome.
LEMMA SendInv == ASSUME Inv, NEW r \in scene.consumers, Send(r) PROVE Inv'
<1>1. PICK outcome \in Outcomes :
        /\ IF outcome = "delivered" THEN UNCHANGED faults ELSE Fault
        /\ \/ shown' = shown \cup {runner[r].copy.content} /\ outcome # "rate_limited"
           \/ shown' = shown /\ (outcome = "delivered" => Deduplicated(r))
        /\ runner' = [runner EXCEPT ![r].at = "record", ![r].result = outcome,
                ![r].known = @ \/ (outcome = "delivered" /\ channel = "FEISHU")]
    BY Zenon DEF Send
<1>2. /\ runner[r].at = "send"
      /\ UNCHANGED <<reply_delivery, attempt_rows, confirmed, scene, requeues>>
    BY Zenon DEF Send
<1>3. PICK known \in BOOLEAN :
        known = (runner[r].known \/ (outcome = "delivered" /\ channel = "FEISHU"))
    BY Zenon
<1>4. PICK new \in Runner :
        new = [runner[r] EXCEPT !.at = "record", !.result = outcome, !.known = known]
    <2>1. outcome \in SendResults
        BY Zenon, DeliveryAssumption
    <2>2. PICK result \in SendResults \cup {"none"} : result = outcome
        BY Zenon, <2>1
    <2>3. "record" \in Places
        BY Zenon DEF Places
    <2> QED
        BY ZenonT(60), <1>3, <2>2, <2>3, Before DEF Runner
<1>5. runner' = [runner EXCEPT ![r] = new]
    BY ZenonT(60), <1>1, <1>3, <1>4, Before
<1>6. new.at = "record" /\ new.copy = runner[r].copy /\ new.result = outcome
    BY Zenon, <1>4, Before DEF Runner
<1>7. runner[r].copy.content \in Contents
    BY Zenon, Before DEF Row
<1>8. Grows
    BY Zenon, <1>1, <1>2 DEF Grows, Inv
<1>9. TypeOK'
    <2>1. faults' \in 0..scene.maxFaults
        BY <1>1, Before DEF Fault
    <2>2. runner' \in [Runners -> Runner]
        BY Zenon, <1>5, Before
    <2>3. shown' \subseteq Contents
        BY Zenon, <1>1, <1>7 DEF Inv, TypeOK
    <2> QED
        BY ZenonT(60), <1>2, <2>1, <2>2, <2>3 DEF Inv, TypeOK
<1>10. Budget' = Budget /\ channel' = channel /\ \A n : Evidence(n) => Evidence(n)'
    BY Zenon, <1>2, <1>8 DEF Budget, Limited, channel, Evidence, Grows
<1>11. RowOK(reply_delivery)'
    BY Zenon, <1>2, <1>10, Before DEF RowOK, WithinBudget
<1>12. channel = "WECOM" /\ outcome = "delivered" => 0 \in shown'
    BY Zenon, <1>1, Before DEF Deduplicated, RunnerOK
<1>13. RunnerOK(new)'
    BY ZenonT(60), <1>1, <1>2, <1>6, <1>10, <1>12, Before DEF RunnerOK, WithinBudget, InHand
<1>14. OneConsumer => SoleOK(new)'
    BY ZenonT(60), <1>2, <1>6, <1>10, Before DEF SoleOK, InHand
<1> QED
    BY ZenonT(60), <1>5, <1>8, <1>9, <1>11, <1>13, <1>14, MoveInv

\* What save_attempt and the transition after it are told.
LEMMA VerdictIs ==
    ASSUME NEW r, runner[r].result \in SendResults
    PROVE  /\ Verdict(r).outcome \in AttemptOutcomes
           /\ Verdict(r).next \in States
           /\ Verdict(r).next = "RATE_LIMITED" => Verdict(r).outcome = "RATE_LIMITED"
           /\ Verdict(r).next \in NeedsEvidence =>
                \/ runner[r].result = "delivered"
                \/ Verdict(r).outcome \in {"RECONCILED_DELIVERED", "OUTCOME_UNKNOWN"}
<1>1. CASE runner[r].result = "delivered"
    BY Zenon, <1>1 DEF Verdict, AttemptOutcomes, States
<1>2. CASE runner[r].result = "rate_limited"
    BY Zenon, <1>2 DEF Verdict, AttemptOutcomes, States, NeedsEvidence, Unknown
<1>3. CASE runner[r].result = "failed"
    BY Zenon, <1>3 DEF Verdict, AttemptOutcomes, States, NeedsEvidence, Unknown
<1>4. CASE runner[r].result = "raised"
    BY Zenon, <1>4 DEF Verdict, AttemptOutcomes, States
<1>5. CASE runner[r].result = "timeout"
    BY Zenon, <1>5 DEF Verdict, AttemptOutcomes, States, NeedsEvidence, Unknown
<1> QED
    BY ZenonT(60), <1>1, <1>2, <1>3, <1>4, <1>5 DEF SendResults

\* save_attempt: a rate limit pays for the send that follows it.
LEMMA RecordInv == ASSUME Inv, NEW r \in scene.consumers, Record(r) PROVE Inv'
<1> DEFINE no == runner[r].copy.attempts
           taken == \E a \in attempt_rows : a.no = no
<1>1. /\ runner[r].at = "record" /\ runner[r].result \in Outcomes
      /\ runner[r].result \in SendResults
      /\ UNCHANGED <<reply_delivery, shown, confirmed, scene, faults, requeues>>
      /\ no \in Nat /\ no <= Budget /\ reply_delivery.status # "NO_ROW"
    BY Zenon, Before, DeliveryAssumption DEF Record, RunnerOK, WithinBudget, Row, InHand
<1>2. CASE taken
    <2>1. PICK new \in Runner : new = [runner[r] EXCEPT !.at = "error"]
        BY ZenonT(40), Before DEF Runner, Places
    <2>2. /\ runner' = [runner EXCEPT ![r] = new] /\ attempt_rows' = attempt_rows
          /\ new.at = "error" /\ new.copy = runner[r].copy
        BY Zenon, <1>2, <2>1, Before DEF Record, Runner
    <2>3. RunnerOK(new)
        BY Zenon, <2>2, Before DEF RunnerOK, InHand
    <2>4. OneConsumer => SoleOK(new)
        BY Zenon, <2>2, Before DEF SoleOK, InHand
    <2> QED
        BY ZenonT(60), <1>1, <2>2, <2>3, <2>4, Before, QuietInv
<1>3. CASE ~ taken
    <2>1. PICK verdict \in [outcome : AttemptOutcomes, next : States] :
            /\ verdict.outcome = Verdict(r).outcome /\ verdict.next = Verdict(r).next
            /\ verdict.next = "RATE_LIMITED" => verdict.outcome = "RATE_LIMITED"
            /\ verdict.next \in NeedsEvidence =>
                \/ runner[r].result = "delivered"
                \/ verdict.outcome \in {"RECONCILED_DELIVERED", "OUTCOME_UNKNOWN"}
        <3>1. [outcome |-> Verdict(r).outcome, next |-> Verdict(r).next]
                    \in [outcome : AttemptOutcomes, next : States]
            BY Zenon, <1>1, VerdictIs
        <3> QED
            BY Zenon, <1>1, <3>1, VerdictIs
    <2>2. PICK a : a = [no |-> no, outcome |-> verdict.outcome]
        BY Zenon
    <2>3. /\ a \in [no : Nat, outcome : AttemptOutcomes] /\ a.no = no
          /\ a.outcome = verdict.outcome /\ a \notin attempt_rows
        BY ZenonT(60), <1>1, <1>3, <2>1, <2>2
    <2>4. attempt_rows' = attempt_rows \cup {a}
        BY Zenon, <1>3, <2>1, <2>2 DEF Record
    <2>5. PICK new \in Runner : new = [runner[r] EXCEPT !.at = "save", !.next = verdict.next]
        <3>1. PICK new : new = [runner[r] EXCEPT !.at = "save", !.next = verdict.next]
            BY Zenon
        <3>2. runner[r] \in Runner /\ verdict.next \in States
            BY <2>1, Before
        <3> QED
            BY Zenon, <3>1, <3>2 DEF Runner, Places
    <2>6. /\ runner' = [runner EXCEPT ![r] = new]
          /\ new.at = "save" /\ new.copy = runner[r].copy /\ new.next = verdict.next
        <3>1. runner[r] \in Runner
            BY Zenon, Before
        <3>2. new.at = "save" /\ new.copy = runner[r].copy /\ new.next = verdict.next
            BY Zenon, <2>5, <3>1 DEF Runner
        <3>3. runner' = [runner EXCEPT ![r].at = "save", ![r].next = verdict.next]
            BY Zenon, <1>3, <2>1 DEF Record
        <3> QED
            BY Zenon, <2>5, <3>2, <3>3
    <2>7. Grows
        <3>1. IsFiniteSet(attempt_rows')
            BY Zenon, <2>4, Before, FS_AddElement
        <3> QED
            BY Zenon, <1>1, <2>4, <3>1 DEF Grows
    <2>8. TypeOK'
        <3>1. runner' \in [Runners -> Runner]
            BY Zenon, <2>6, Before
        <3>2. attempt_rows' \subseteq [no : Nat, outcome : AttemptOutcomes]
            BY Zenon, <2>3, <2>4 DEF Inv, TypeOK
        <3> QED
            BY Zenon, <1>1, <3>1, <3>2 DEF Inv, TypeOK
    <2>9. Budget \in Nat /\ Budget' \in Nat /\ Budget <= Budget'
        BY ZenonT(60), <2>7, Before, BudgetGrows
    <2>10. verdict.next = "RATE_LIMITED" => no + 1 <= Budget'
        <3>1. SUFFICES ASSUME verdict.outcome = "RATE_LIMITED" PROVE Budget' = Budget + 1
            BY <1>1, <2>1, <2>9
        <3>2. Limited' = Limited \cup {a} /\ a \notin Limited
            BY Zenon, <2>3, <2>4, <3>1 DEF Limited
        <3>3. IsFiniteSet(Limited) /\ Cardinality(Limited) \in Nat
            <4>1. Limited \subseteq attempt_rows
                BY Zenon DEF Limited
            <4> QED
                BY Zenon, <4>1, Before, FS_Subset, FS_CardinalityType
        <3>4. Cardinality(Limited') = Cardinality(Limited) + 1
            BY ZenonT(40), <3>2, <3>3, FS_AddElement
        <3> QED
            BY SMTT(40), <3>3, <3>4, Before DEF Budget
    <2>11. channel' = channel /\ \A n : Evidence(n) => Evidence(n)'
        BY Zenon, <2>7 DEF channel, Evidence, Grows
    <2>12. \A row \in Row : WithinBudget(row) => WithinBudget(row)'
        BY <2>9 DEF WithinBudget, Row
    <2>13. RowOK(reply_delivery)'
        BY ZenonT(60), <1>1, <2>11, <2>12, Before DEF RowOK
    <2>14. RunnerOK(new)'
        <3>1. channel = "WECOM" /\ verdict.next \in NeedsEvidence => Evidence(new.copy.attempts)'
            <4>1. channel = "WECOM" /\ runner[r].result = "delivered" => 0 \in shown'
                BY Zenon, <1>1, Before DEF RunnerOK
            <4>2. a \in attempt_rows' /\ a.no = new.copy.attempts
                BY Zenon, <2>3, <2>4, <2>6
            <4>3. verdict.outcome \in {"RECONCILED_DELIVERED", "OUTCOME_UNKNOWN"} =>
                    Evidence(new.copy.attempts)'
                BY Zenon, <2>3, <4>2 DEF Evidence
            <4> QED
                BY ZenonT(40), <2>1, <4>1, <4>3 DEF Evidence
        <3>2. channel = "WECOM" => new.copy.content = 0
            BY Zenon, <2>6, Before DEF RunnerOK
        <3>3. new.copy.status \in States /\ WithinBudget(new.copy)'
            BY ZenonT(60), <1>1, <2>6, <2>12, Before DEF RunnerOK, InHand
        <3> QED
            BY ZenonT(60), <1>1, <2>6, <2>10, <2>11, <3>1, <3>2, <3>3 DEF RunnerOK, InHand
    <2>15. OneConsumer => SoleOK(new)'
        <3>1. ASSUME OneConsumer
              PROVE  /\ runner[r].copy = reply_delivery /\ reply_delivery.status = "IN_FLIGHT"
                     /\ \A b \in attempt_rows : b.no <= reply_delivery.attempts
                     /\ channel = "WECOM" => confirmed = {}
            BY ZenonT(60), <1>1, <3>1, Before DEF SoleOK, InHand
        <3>2. ASSUME OneConsumer PROVE \A b \in attempt_rows' : b.no <= reply_delivery.attempts
            BY SMTT(40), <1>1, <2>3, <2>4, <3>1, <3>2
        <3> QED
            BY ZenonT(60), <1>1, <2>6, <2>11, <3>1, <3>2 DEF SoleOK, InHand, TerminalStates
    <2> QED
        BY ZenonT(60), <2>6, <2>7, <2>8, <2>13, <2>14, <2>15, MoveInv
<1> QED
    BY Zenon, <1>2, <1>3

\* _transition writes the status into the copy, and the copy into the table.
LEMMA SaveInv == ASSUME Inv, NEW r \in scene.consumers, Save(r) PROVE Inv'
<1>1. /\ runner[r].at = "save" /\ runner[r].next \in States
      /\ runner[r].copy.attempts \in Nat /\ runner[r].copy \in Row
      /\ UNCHANGED <<attempt_rows, shown, scene, faults, requeues>>
    BY Zenon, Before DEF Save, Runner, Row
<1>2. PICK row : row = [runner[r].copy EXCEPT !.status = runner[r].next]
    BY Zenon
<1>3. /\ row \in Row /\ row.status = runner[r].next /\ row.status # "NO_ROW"
      /\ row.attempts = runner[r].copy.attempts /\ row.content = runner[r].copy.content
    BY Zenon, <1>1, <1>2 DEF Row, States
<1>4. /\ reply_delivery' = row
      /\ confirmed' = IF row.status = "DELIVERED" THEN confirmed \cup {row.content} ELSE confirmed
    BY Zenon, <1>2 DEF Save, SaveDelivery
<1>5. RowOK(row) /\ WithinBudget(row)
    BY ZenonT(60), <1>1, <1>3, Before DEF RowOK, RunnerOK, WithinBudget
<1>6. PICK step \in [at : Places, next : States] :
        /\ Continue(r, row, step)
        /\ \/ step.at = Return(r)
           \/ /\ row.status \notin TerminalStates \cup Unknown
              /\ \/ step.at = "save" /\ step.next = "DEAD_LETTER"
                 \/ step.at = "claim" /\ row.attempts + 1 <= Budget
    <2>1. CASE row.status \in TerminalStates \cup Unknown
        <3>1. [at |-> Return(r), next |-> row.status] \in [at : Places, next : States]
            BY ZenonT(60), <1>1, <1>3, ReturnIs
        <3> QED
            BY ZenonT(60), <1>2, <2>1, <3>1 DEF Save, Unknown
    <2>2. CASE row.status \notin TerminalStates \cup Unknown
        <3>1. PICK step : step = Loop(row, row.status)
            BY Zenon 
        <3>2. /\ step \in [at : Places, next : States] /\ step.at \in {"save", "claim"}
              /\ step.at = "save" => step.next = "DEAD_LETTER"
              /\ step.at = "claim" => row.attempts + 1 <= Budget
            BY ZenonT(60), <1>1, <1>3, <1>5, <3>1, LoopIs, Before
        <3>3. Continue(r, row, step)
            BY ZenonT(60), <1>2, <2>2, <3>1 DEF Save, Unknown
        <3> QED
            BY Zenon, <2>2, <3>2, <3>3
    <2> QED
        BY Zenon, <2>1, <2>2
<1>7. PICK new \in Runner :
        /\ runner' = [runner EXCEPT ![r] = new]
        /\ new.at = step.at /\ new.copy = row /\ new.next = step.next
        /\ new.script = runner[r].script
    BY <1>3, <1>6, ContinueIs
<1>8. RunnerOK(new)'
    BY ZenonT(40), <1>1, <1>3, <1>4, <1>5, <1>6, <1>7, SameEvidence, ReturnIs, Before
    DEF RunnerOK, RowOK, InHand, NeedsEvidence, Unknown, States
<1>9. OneConsumer => SoleOK(new)'
    <2>1. ASSUME OneConsumer
          PROVE  /\ \A a \in attempt_rows : a.no <= row.attempts
                 /\ channel = "WECOM" => confirmed = {}
        BY ZenonT(40), <1>1, <1>3, <2>1, Before DEF SoleOK, InHand, TerminalStates
    <2> QED
        BY ZenonT(40), <1>1, <1>3, <1>4, <1>6, <1>7, <2>1, SameEvidence, ReturnIs
        DEF SoleOK, InHand, TerminalStates, Unknown
<1>10. confirmed' \subseteq Contents
    BY Zenon, <1>3, <1>4 DEF Inv, TypeOK, Row
<1> QED
    BY ZenonT(60), <1>1, <1>3, <1>4, <1>5, <1>7, <1>8, <1>9, <1>10, WriteInv

-----------------------------------------------------------------------------
(* The update, the operator, and all steps *)

\* update queues the next content on the row it has loaded.
LEMMA UpdateSaveInv == ASSUME Inv, NEW r \in scene.consumers, UpdateSave(r) PROVE Inv'
<1>1. /\ runner[r].at = "update_save" /\ channel = "FEISHU" /\ runner[r].script < Updates
      /\ runner[r].script \in 0..Updates
      /\ runner[r].copy.attempts \in Nat /\ runner[r].copy \in Row
      /\ UNCHANGED <<attempt_rows, shown, scene, faults, requeues>>
    BY ZenonT(60), Before DEF UpdateSave, RunnerOK, Runner, Row, Contents
<1>2. PICK script \in Contents : script = runner[r].script + 1
    BY <1>1, Before DEF Contents
<1>3. PICK row : row = [runner[r].copy EXCEPT !.status = "QUEUED", !.content = script]
    BY Zenon
<1>4. /\ row \in Row /\ row.status = "QUEUED" /\ row.attempts = runner[r].copy.attempts
    BY ZenonT(60), <1>1, <1>2, <1>3 DEF Row, States
<1>5. reply_delivery' = row /\ confirmed' = confirmed
    BY Zenon, <1>2, <1>3, <1>4 DEF UpdateSave, SaveDelivery
<1>6. PICK new \in Runner : new = [runner[r] EXCEPT !.at = "load", !.script = script]
    BY ZenonT(60), <1>2, Before DEF Runner, Places
<1>7. /\ runner' = [runner EXCEPT ![r] = new]
      /\ new.at = "load" /\ new.copy = runner[r].copy
    BY ZenonT(40), <1>2, <1>6, Before DEF UpdateSave, Runner
<1>8. RowOK(row)
    BY ZenonT(60), <1>1, <1>4, Before DEF RowOK, RunnerOK, WithinBudget
<1>9. RunnerOK(new)'
    BY ZenonT(40), <1>1, <1>4, <1>5, <1>7, SameEvidence, Before DEF RunnerOK, InHand
<1>10. OneConsumer => SoleOK(new)'
    BY ZenonT(60), <1>1, <1>4, <1>5, <1>7, SameEvidence, Before DEF SoleOK, InHand
<1>11. confirmed' \subseteq Contents
    BY Zenon, <1>5 DEF Inv, TypeOK
<1> QED
    BY ZenonT(60), <1>1, <1>4, <1>5, <1>7, <1>8, <1>9, <1>10, <1>11, WriteInv

\* The operator's requeue of a dead letter: nobody has a dead letter in hand alone.
LEMMA RequeueInv == ASSUME Inv, RequeueDeadLetter PROVE Inv'
<1>1. /\ reply_delivery \in Row /\ reply_delivery.status = "DEAD_LETTER"
      /\ UNCHANGED <<attempt_rows, runner, shown, confirmed, scene, faults>>
      /\ requeues' \in 0..scene.maxRequeues
    BY DeliveryAssumption DEF RequeueDeadLetter, Inv, TypeOK, Scene
<1>2. PICK row : row = [reply_delivery EXCEPT !.status = "QUEUED"]
    BY Zenon
<1>3. /\ row \in Row /\ row.status = "QUEUED" /\ row.attempts = reply_delivery.attempts
      /\ row.content = reply_delivery.content /\ reply_delivery' = row
    BY Zenon, <1>1, <1>2 DEF Row, States, RequeueDeadLetter
<1>4. TypeOK'
    BY Zenon, <1>1, <1>3 DEF Inv, TypeOK
<1>5. Grows
    BY Zenon, <1>1, <1>3 DEF Grows, Inv
<1>6. RowOK(reply_delivery)'
    BY ZenonT(60), <1>1, <1>3, SameEvidence DEF Inv, RowOK, WithinBudget, NeedsEvidence, Unknown
<1>7. ASSUME NEW q \in Runners PROVE RunnerOK(runner[q])'
    <2>1. PICK rec \in Runner : rec = runner[q] /\ RunnerOK(rec)
        BY Zenon DEF Inv, TypeOK
    <2>2. RunnerOK(rec)'
        BY ZenonT(60), <1>5, <2>1, RunnerKeeps DEF Inv
    <2> QED
        BY ZenonT(60), <1>1, <2>1, <2>2 DEF RunnerOK
<1>8. ASSUME OneConsumer, NEW q \in scene.consumers PROVE SoleOK(runner[q])'
    <2>1. SoleOK(runner[q])
        BY Zenon, <1>8 DEF Inv
    <2> QED
        BY ZenonT(60), <1>1, <1>3, <2>1, SameEvidence DEF SoleOK, InHand, TerminalStates
<1>9. OneConsumer' = OneConsumer
    BY Zenon, <1>1 DEF OneConsumer
<1> QED
    BY ZenonT(60), <1>1, <1>4, <1>5, <1>6, <1>7, <1>8, <1>9 DEF Inv, Grows

\* There is no row, and nothing has been sent.
LEMMA InitInv == Init => Inv
<1> SUFFICES ASSUME Init PROVE Inv
    BY Zenon
<1>1. Updates \in Nat /\ MaxAttempts \in Nat /\ scene \in Scenes
      /\ scene.maxFaults \in Nat /\ scene.maxRequeues \in Nat
    BY Zenon, DeliveryAssumption DEF Init, Scene
<1>2. NoDelivery \in Row
    BY <1>1 DEF NoDelivery, Row, Contents
<1>3. IdleRunner \in Runner
    <2>1. 0 \in Contents
        BY <1>1 DEF Contents
    <2>2. "QUEUED" \in States /\ "idle" \in Places
        BY Zenon DEF States, Places
    <2>3. FALSE \in BOOLEAN
        BY Zenon
    <2> QED
        BY Zenon, <1>2, <2>1, <2>2, <2>3 DEF IdleRunner, Runner
<1>4. TypeOK
    <2>1. runner \in [Runners -> Runner]
        BY Zenon, <1>3 DEF Init
    <2>2. faults \in 0..scene.maxFaults /\ requeues \in 0..scene.maxRequeues
        BY <1>1 DEF Init
    <2> QED
        BY ZenonT(60), <1>1, <1>2, <2>1, <2>2 DEF Init, TypeOK
<1>5. IsFiniteSet(attempt_rows)
    BY Zenon, FS_EmptySet DEF Init
<1>6. Budget = MaxAttempts
    <2>1. Limited = {}
        BY Zenon DEF Limited, Init
    <2> QED
        BY <1>1, <2>1, FS_EmptySet DEF Budget
<1>7. RowOK(reply_delivery)
    BY <1>1, <1>6 DEF RowOK, Init, NoDelivery, WithinBudget, NeedsEvidence, Unknown
<1>8. \A r \in Runners : RunnerOK(runner[r])
    BY <1>1, <1>6 DEF RunnerOK, Init, IdleRunner, NoDelivery, WithinBudget, InHand
<1>9. \A r \in scene.consumers : SoleOK(runner[r])
    <2>1. scene.consumers \subseteq Runners
        BY Zenon, <1>1, DeliveryAssumption DEF Scene
    <2> QED
        BY Zenon, <2>1 DEF SoleOK, Init, IdleRunner, InHand
<1> QED
    BY ZenonT(60), <1>4, <1>5, <1>7, <1>8, <1>9 DEF Inv

\* Every step of the consumers and of the operator preserves the invariant.
LEMMA NextInv == Inv /\ [Next]_vars => Inv'
<1> SUFFICES ASSUME Inv, [Next]_vars PROVE Inv'
    BY Zenon 
<1>1. ASSUME NEW r \in scene.consumers, Step(r) \/ Redeliver(r) PROVE Inv'
    BY ZenonT(60), <1>1, LookupInv, InsertInv, LoadInv, ClaimInv, SendInv, RecordInv, SaveInv,
       UpdateLoadInv, UpdateSaveInv, RestartInv DEF Step
<1>2. CASE RequeueDeadLetter
    BY Zenon, <1>2, RequeueInv
<1>3. CASE UNCHANGED vars
    BY ZenonT(40), <1>3 DEF vars, Inv, TypeOK, RowOK, RunnerOK, SoleOK, OneConsumer, WithinBudget, Budget,
                Limited, Evidence, channel
<1> QED
    BY Zenon, <1>1, <1>2, <1>3 DEF Next

\* The invariant holds in every behaviour of the consumers and of the operator.
THEOREM Invariance == Spec => []Inv
BY InitInv, NextInv, PTL DEF Spec

-----------------------------------------------------------------------------
(* The theorems *)

\* One counter numbers the attempts and bounds the failures (delivery.py, run and
\* claim_attempt): a lone consumer never saves an attempt under a number that is taken, and
\* whoever works on the row, more sends than the budget are all paid for by rate limits.
THEOREM AttemptsAreCounted == Spec => []AttemptsCounted
<1>1. Inv => AttemptsCounted
    <2> SUFFICES ASSUME Inv PROVE AttemptsCounted
        BY Zenon
    <2>1. AttemptsNumberedOnce
        <3> SUFFICES ASSUME OneConsumer, NEW r \in scene.consumers, runner[r].at = "record",
                            NEW a \in attempt_rows
                     PROVE  a.no < runner[r].copy.attempts
            BY Zenon DEF AttemptsNumberedOnce
        <3>1. SoleOK(runner[r])
            BY Zenon DEF Inv
        <3> QED
            BY Zenon, <3>1 DEF SoleOK, InHand
    <2>2. AttemptsWithinBudget
        BY Zenon DEF Inv, RowOK, WithinBudget, AttemptsWithinBudget, Budget, Limited
    <2> QED
        BY Zenon, <2>1, <2>2 DEF AttemptsCounted
<1> QED
    BY <1>1, Invariance, PTL

\* DELIVERED on a WeCom reply is backed by what the channel has shown or by an attempt that
\* was reconciled or of unknown outcome, whoever wrote the row (delivery.py, _transition).
THEOREM DeliveryEvidenced == Spec => []DeliveredHasEvidence
<1>1. Inv => DeliveredHasEvidence
    BY Zenon DEF Inv, RowOK, Evidence, NeedsEvidence, DeliveredHasEvidence
<1> QED
    BY <1>1, Invariance, PTL

\* A lone consumer sends no WeCom reply that was recorded DELIVERED, and claims no row whose
\* last outcome is unknown, after any number of crashes and redeliveries (delivery.py, run).
THEOREM NeverBlindlyResent == Spec => NotBlindlyResent
<1>1. Inv => [\A r \in scene.consumers : OneConsumer =>
                /\ channel = "WECOM" /\ Send(r) => runner[r].copy.content \notin confirmed
                /\ Claim(r) => reply_delivery.status # "OUTCOME_UNKNOWN"]_vars
    <2> SUFFICES ASSUME Inv, NEW r \in scene.consumers, OneConsumer
                 PROVE  /\ channel = "WECOM" /\ Send(r) => runner[r].copy.content \notin confirmed
                        /\ Claim(r) => reply_delivery.status # "OUTCOME_UNKNOWN"
        BY Zenon
    <2>1. SoleOK(runner[r])
        BY Zenon DEF Inv
    <2>2. channel = "WECOM" /\ Send(r) => confirmed = {}
        BY Zenon, <2>1 DEF Send, SoleOK
    <2>3. Claim(r) => reply_delivery.status # "OUTCOME_UNKNOWN"
        BY Zenon, <2>1 DEF Claim, SoleOK, Unknown
    <2> QED
        BY Zenon, <2>2, <2>3
<1> QED
    BY <1>1, Invariance, PTL DEF NotBlindlyResent

\* A dead letter of a lone consumer stays as it is until the operator requeues it
\* (delivery.py, update and run; admin_api/ops.py).
THEOREM DeadLettersStay == Spec => DeadLetterImmutable
<1>1. Inv /\ [Next]_vars =>
        [OneConsumer /\ reply_delivery.status = "DEAD_LETTER" =>
            reply_delivery' = reply_delivery \/ RequeueDeadLetter]_vars
    <2> SUFFICES ASSUME Inv, Next, OneConsumer, reply_delivery.status = "DEAD_LETTER",
                        NEW r \in scene.consumers, Step(r) \/ Redeliver(r)
                 PROVE  reply_delivery' = reply_delivery
        BY Zenon DEF Next, vars
    <2>1. SoleOK(runner[r])
        BY Zenon DEF Inv
    <2>2. runner[r].at \notin {"insert", "claim", "save", "update_save"}
        BY Zenon, <2>1 DEF SoleOK, TerminalStates
    <2> QED
        BY Zenon, <2>2 DEF Step, Redeliver, Lookup, Insert, Load, Claim, Send, Record, Save, UpdateLoad,
                    UpdateSave, Retry
<1> QED
    BY <1>1, Invariance, PTL DEF Spec, DeadLetterImmutable
=============================================================================
