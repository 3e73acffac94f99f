-------------------------- MODULE MCReplyDelivery --------------------------
(* Small instances of ReplyDelivery: a WeCom reply and a Feishu card that   *)
(* one consumer at a time handles, and a WeCom reply that two consumers     *)
(* have at once.                                                            *)
EXTENDS ReplyDelivery

CONSTANTS r1, r2

TwoRunners == {r1, r2}

Alone(channel_type) ==
    [channel |-> channel_type, consumers |-> {r1}, maxFaults |-> 4, maxRequeues |-> 1]
Together == [channel |-> "WECOM", consumers |-> {r1, r2}, maxFaults |-> 3, maxRequeues |-> 0]
MCScenes == {Alone("WECOM"), Alone("FEISHU"), Together}

=============================================================================
