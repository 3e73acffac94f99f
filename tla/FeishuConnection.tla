-------------------------- MODULE FeishuConnection --------------------------
(***************************************************************************)
(* The lease under which one Channel Gateway at a time runs the long       *)
(* connection of a Feishu application (trpc_service/channels/feishu.py,    *)
(* supervised by trpc_service/channel_gateway.py).                         *)
(*                                                                         *)
(* A gateway reads its own clock, sends the statement, and computes the    *)
(* time until which it believes in its lease from the earlier reading; the *)
(* row's expires_at comes from the later clock of the database.  Both are  *)
(* kept as the time left.                                                  *)
(***************************************************************************)
EXTENDS Integers, FiniteSets

CONSTANTS
    Gateways,           \* Channel Gateway processes, by stable owner id
    NoGateway,          \* no owner: there is no lease row yet
    ConnectionTtl,      \* lease_ttl_seconds, in clock ticks
    MaxToken,           \* bound: fencing tokens handed out
    MaxCrashes          \* bound: crashes of processes

ASSUME ConnectionAssumption ==
    /\ NoGateway \notin Gateways
    /\ ConnectionTtl \in Nat \ {0}
    /\ MaxToken \in Nat /\ MaxCrashes \in Nat

VARIABLES
    channel_connection_lease,   \* the lease row of the connection
    gateway,                    \* what each gateway process knows and does
    crashes

connVars == <<channel_connection_lease, gateway, crashes>>

ConnectionLease == [owner : Gateways \cup {NoGateway}, token : Nat, left : Nat]

\* acquire, renew: the statement is on its way; granted, renewed: its answer is;
\* connected: consuming events; unrenewed: the same, and the renewal task has
\* died of an error of the database; release: consume has ended.  token 0: no lease.
\* left: until the held lease expires by the gateway's clock; asked: the same
\* for the lease that was asked for.
GatewayState == [at : {"idle", "acquire", "granted", "connected", "renew", "renewed",
                       "unrenewed", "release", "down"},
                 token : Nat, left : Nat, asked : Nat]
IdleGateway == [at |-> "idle", token |-> 0, left |-> 0, asked |-> 0]

Consuming == {"connected", "renew", "renewed", "unrenewed"}

ConnTypeOK ==
    /\ channel_connection_lease \in ConnectionLease
    /\ gateway \in [Gateways -> GatewayState]
    /\ crashes \in 0..MaxCrashes

ConnInit ==
    /\ channel_connection_lease = [owner |-> NoGateway, token |-> 0, left |-> 0]
    /\ gateway = [g \in Gateways |-> IdleGateway]
    /\ crashes = 0

-----------------------------------------------------------------------------

\* The supervisor starts another run: acquire_long_connection reads the clock.
StartAcquire(g) ==
    /\ gateway[g].at = "idle"
    /\ gateway' = [gateway EXCEPT ![g].at = "acquire", ![g].asked = ConnectionTtl]
    /\ UNCHANGED <<channel_connection_lease, crashes>>

\* The upsert applies: no row, an expired one, or the caller's own.
ConnectionFree(g) ==
    channel_connection_lease.left = 0 \/ channel_connection_lease.owner = g

\* A new owner gets the next token, the same owner keeps its own.
ConnectionToken(g) ==
    IF channel_connection_lease.owner = g
    THEN channel_connection_lease.token ELSE channel_connection_lease.token + 1

Acquire(g) ==
    /\ gateway[g].at = "acquire"
    /\ \/ /\ ConnectionFree(g) /\ ConnectionToken(g) <= MaxToken
          /\ channel_connection_lease' =
                [owner |-> g, token |-> ConnectionToken(g), left |-> ConnectionTtl]
          /\ gateway' = [gateway EXCEPT ![g].at = "granted", ![g].token = ConnectionToken(g)]
       \/ /\ ~ ConnectionFree(g)
          /\ gateway' = [gateway EXCEPT ![g] = IdleGateway]
          /\ UNCHANGED channel_connection_lease
    /\ UNCHANGED crashes

\* The renewal task wakes up and reads the clock ...
StartRenew(g) ==
    /\ gateway[g].at = "connected"
    /\ gateway' = [gateway EXCEPT ![g].at = "renew", ![g].asked = ConnectionTtl]
    /\ UNCHANGED <<channel_connection_lease, crashes>>

\* WHERE owner_id AND fencing_token AND expires_at > now().
Renewable(g) ==
    /\ channel_connection_lease.owner = g
    /\ channel_connection_lease.token = gateway[g].token
    /\ channel_connection_lease.left > 0

\* ... and the row is extended, or the lease is lost and the source is closed.
Renew(g) ==
    /\ gateway[g].at = "renew"
    /\ \/ /\ Renewable(g)
          /\ channel_connection_lease' = [channel_connection_lease EXCEPT !.left = ConnectionTtl]
          /\ gateway' = [gateway EXCEPT ![g].at = "renewed"]
       \/ /\ ~ Renewable(g)
          /\ gateway' = [gateway EXCEPT ![g] = [IdleGateway EXCEPT !.at = "release"]]
          /\ UNCHANGED channel_connection_lease
    /\ UNCHANGED crashes

\* _renew catches FeishuAdapterError alone: an error of the database ends the
\* task, and nobody closes the source.  The statement may have been applied.
RenewDies(g) ==
    /\ gateway[g].at \in {"renew", "renewed"}
    /\ gateway' = [gateway EXCEPT ![g].at = "unrenewed", ![g].asked = 0]
    /\ UNCHANGED <<channel_connection_lease, crashes>>

\* Mutant: the lease is counted from the time the answer arrives.
Answer_FromArrival(g) ==
    /\ gateway[g].at \in {"granted", "renewed"}
    /\ gateway' = [gateway EXCEPT ![g].at = "connected", ![g].left = ConnectionTtl,
                                  ![g].asked = 0]
    /\ UNCHANGED <<channel_connection_lease, crashes>>

\* The answer arrives: the gateway keeps the lease, counted from its earlier
\* reading of the clock.
Answer(g) ==
    /\ gateway[g].at \in {"granted", "renewed"}
    /\ gateway' = [gateway EXCEPT ![g].at = "connected", ![g].left = gateway[g].asked,
                                  ![g].asked = 0]
    /\ UNCHANGED <<channel_connection_lease, crashes>>

\* consume ends (the provider disconnects, or an error): the renewal task is
\* cancelled and the lease is about to be released.
Disconnect(g) ==
    /\ gateway[g].at \in Consuming
    /\ gateway' = [gateway EXCEPT ![g].at = "release", ![g].asked = 0]
    /\ UNCHANGED <<channel_connection_lease, crashes>>

\* release_long_connection: the row expires if it is still this lease.
Release(g) ==
    /\ gateway[g].at = "release"
    /\ channel_connection_lease' = [channel_connection_lease EXCEPT !.left =
            IF /\ channel_connection_lease.owner = g
               /\ channel_connection_lease.token = gateway[g].token
            THEN 0 ELSE @]
    /\ gateway' = [gateway EXCEPT ![g] = IdleGateway]
    /\ UNCHANGED crashes

CrashGateway(g) ==
    /\ crashes < MaxCrashes /\ crashes' = crashes + 1
    /\ gateway' = [gateway EXCEPT ![g] = [IdleGateway EXCEPT !.at = "down"]]
    /\ UNCHANGED channel_connection_lease

RestartConnection(g) ==
    /\ gateway[g].at = "down"
    /\ gateway' = [gateway EXCEPT ![g] = IdleGateway]
    /\ UNCHANGED <<channel_connection_lease, crashes>>

Less(n) == IF n > 0 THEN n - 1 ELSE 0

\* Time passes on all clocks alike.
ConnTick ==
    /\ channel_connection_lease' = [channel_connection_lease EXCEPT !.left = Less(@)]
    /\ gateway' = [g \in Gateways |->
            [gateway[g] EXCEPT !.left = Less(@), !.asked = Less(@)]]
    /\ UNCHANGED crashes

ConnStep(g) ==
    \/ StartAcquire(g) \/ Acquire(g) \/ StartRenew(g) \/ Renew(g) \/ Answer(g) \/ RenewDies(g)
    \/ Disconnect(g) \/ Release(g) \/ RestartConnection(g)

ConnNext ==
    \/ \E g \in Gateways : ConnStep(g) \/ CrashGateway(g)
    \/ ConnTick

ConnSpec == ConnInit /\ [][ConnNext]_connVars

\* The supervisor's loop goes on, statements are answered, the renewal task
\* wakes up and clocks run; whether the provider disconnects is up to it.
ConnFairness ==
    /\ \A g \in Gateways :
        WF_connVars(StartAcquire(g) \/ Acquire(g) \/ StartRenew(g) \/ Renew(g) \/ Answer(g)
                    \/ Release(g) \/ RestartConnection(g))
    /\ WF_connVars(ConnTick)

ConnFairSpec == ConnSpec /\ ConnFairness

-----------------------------------------------------------------------------

\* The test of receive_long_connection_event: the gateway believes in its lease.
Holds(g) == gateway[g].token > 0 /\ gateway[g].left > 0

\* Whoever believes in its lease owns the row, with its token, for at least as
\* long as it will believe in it (feishu.py:570-594, 288-339): statements take
\* time, but the gateway counts from before it sends one.
HolderOwnsRow ==
    \A g \in Gateways : Holds(g) =>
        /\ channel_connection_lease.owner = g
        /\ channel_connection_lease.token = gateway[g].token
        /\ gateway[g].left <= channel_connection_lease.left

\* Hence at most one gateway accepts events of the long connection at a time.
OneHolder ==
    \A g, h \in Gateways : Holds(g) /\ Holds(h) => g = h

\* "Losing the lease fences this instance before it can consume more events; the
\* SDK source must then disconnect" (feishu.py:276).  NOT kept: a renewal task
\* that dies of a database error leaves the gateway consuming without a lease.
LosersDisconnect ==
    \A g \in Gateways :
        (gateway[g].at \in Consuming /\ ~ Holds(g)) ~> (gateway[g].at \notin Consuming \/ Holds(g))

=============================================================================
