---------------------------- MODULE MCModelCalls ----------------------------
(* A small instance of ModelCalls: three calls of two applications, a       *)
(* budget of each scope, a model and its fallback.                          *)
EXTENDS ModelCalls

CONSTANTS c1, c2, c3, agent, tenant, execution, a1, app1, app2, main, spare

ThreeCalls == {c1, c2, c3}
ThreeBudgets == {agent, tenant, execution}
AgentFirst == <<agent, tenant, execution>>
Scopes == [b \in {agent, tenant, execution} |->
    CASE b = agent -> "AGENT_DAILY" [] b = tenant -> "TENANT_MONTHLY" [] OTHER -> "EXECUTION"]
OneAdjustment == {a1}
TwoProfiles == {main, spare}
AdjustTenant == [a \in {a1} |-> tenant]

ByCall(x, y, z) == [c \in {c1, c2, c3} |-> IF c = c1 THEN x ELSE IF c = c2 THEN y ELSE z]
Budget(limit, contingency) == [made |-> TRUE, limit |-> limit, contingency |-> contingency]
NoBudget == [made |-> FALSE, limit |-> 0, contingency |-> 0]
OfBudgets(x, y, z) ==
    [b \in {agent, tenant, execution} |-> CASE b = agent -> x [] b = tenant -> y [] OTHER -> z]
Put(b, row) == [budget |-> b, row |-> row]

\* A release of main, with spare as a fallback or without.
Released(fallbacks, perMinute, fits, policy, faults) ==
    [model_alias |-> main, allowed |-> fallbacks, snapshots |-> {main} \cup fallbacks,
     fallbacks |-> [p \in {main, spare} |-> IF p = main THEN <<spare>> ELSE <<main>>],
     requests_per_minute |-> [p \in {main, spare} |-> perMinute], fits |-> fits,
     policy |-> policy, faults |-> faults]
Plain == Released({}, 3, {main}, {TRUE}, {"provider"})

\* Budgets that fail closed, of which the administrator lowers one; RESTRICTED content.
Lowered ==
    [application |-> ByCall(app1, app1, app2), named |-> {c1, c2, c3},
     owner |-> OfBudgets(app1, NoApplication, NoApplication),
     budget |-> OfBudgets(Budget(9, 0), Budget(8, 0), NoBudget), upserts |-> <<>>,
     prices |-> <<ByCall(4, 5, 3)>>, delta |-> [a \in {a1} |-> -2], maxErrors |-> 2,
     lastDay |-> 1, scan |-> ByCall("clean", "clean", "restricted"),
     release |-> ByCall(Plain, Plain, Released({}, 3, {}, {TRUE}, {})), lastTime |-> 0]

\* Contingency allowances, and a limit of 0 that the administrator raises.
RaisedFromZero ==
    [Lowered EXCEPT !.budget = OfBudgets(Budget(9, 9), Budget(0, 3), NoBudget),
        !.delta = [a \in {a1} |-> 5],
        !.scan = ByCall("clean", "clean", "clean"), !.release = ByCall(Plain, Plain, Plain)]

\* The administrator creates a budget and lowers its limit, the price table changes
\* (c3 has no price at first), and a day ends, while two calls run that come through
\* the gateway's endpoint.
Reconfigured ==
    [Lowered EXCEPT !.named = {}, !.owner[agent] = NoApplication,
        !.budget = OfBudgets(NoBudget, NoBudget, NoBudget),
        !.upserts = <<Put(agent, Budget(9, 0)), Put(agent, Budget(4, 0))>>,
        !.prices = <<ByCall(4, 5, Unpriced), ByCall(4, 5, 3)>>,
        !.delta = [a \in {a1} |-> 0], !.maxErrors = 0, !.lastDay = 2,
        !.scan = ByCall("clean", "secret", "clean"),
        !.release = ByCall(Plain, Plain, [Plain EXCEPT !.policy = BOOLEAN])]

\* The routing of three calls to two models that may fail, of releases with
\* different fallbacks and limits, through the gateway's endpoint.
Routed ==
    [Lowered EXCEPT !.named = {}, !.budget = OfBudgets(Budget(9, 0), NoBudget, NoBudget),
        !.prices = <<ByCall(0, 0, 0)>>,
        !.maxErrors = 0, !.scan = ByCall("clean", "clean", "clean"),
        !.release = ByCall(Released({spare}, 2, {main, spare}, {TRUE}, {"provider"}),
                           Released({}, 2, {main}, {TRUE}, {"secret"}),
                           Released({}, 1, {main}, {TRUE}, {"provider"})),
        !.delta = [a \in {a1} |-> 0], !.lastTime = 2]

\* A budget per execution is created while two calls run, of which c2 comes through
\* the gateway's endpoint.
PerExecution ==
    [Lowered EXCEPT !.named = {c1}, !.budget = OfBudgets(NoBudget, Budget(9, 5), NoBudget),
        !.upserts = <<Put(execution, Budget(4, 0))>>, !.delta = [a \in {a1} |-> 0],
        !.maxErrors = 1, !.scan = ByCall("clean", "clean", "secret"),
        !.release = ByCall(Plain, Plain, Plain)]

\* Calls of different models, of which one may be answered by the other's.
TwoPrimaries ==
    [Routed EXCEPT !.scan = ByCall("clean", "secret", "clean"), !.lastTime = 0,
        !.release = ByCall(Released({spare}, 3, {main, spare}, {TRUE}, {"secret", "provider"}),
                           Plain, [Plain EXCEPT !.model_alias = spare, !.snapshots = {spare},
                                                !.fits = {spare}])]

Scenes == <<Lowered, RaisedFromZero, Reconfigured, Routed, PerExecution, TwoPrimaries>>

=============================================================================
