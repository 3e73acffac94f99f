----------------------------- MODULE ModelCalls -----------------------------
(***************************************************************************)
(* A model call from the gateway's point of view: LLMGateway.complete in   *)
(* trpc_service/llm_gateway.py, which composes the scan of the messages,   *)
(* the budget ledger (BudgetLedger), the routing (ModelRouting) and the    *)
(* audit of outbound denials.                                              *)
(***************************************************************************)
EXTENDS BudgetLedger

CONSTANTS Profiles, Threshold, ResetTime, Window

VARIABLES
    failures, opened_at, requests, degraded, route, now, outcomes,
    audit,          \* calls with a governance.outbound_denied event
    answer          \* what complete has returned or raised

INSTANCE ModelRouting

\* setting.scan[c]: what scan_messages finds in the messages of c.
ASSUME CallsAssumption ==
    /\ Threshold \in Nat \ {0} /\ ResetTime \in Nat /\ Window \in Nat
    /\ \A i \in DOMAIN Settings : LET s == Settings[i] IN
        /\ s.scan \in [Calls -> {"clean", "restricted", "secret"}]
        /\ s.release \in [Calls -> Release]
        /\ \A c \in Calls : s.release[c].model_alias \in s.release[c].snapshots
        /\ \A c \in Calls : s.scan[c] = "restricted" => s.release[c].fits = {}
        /\ s.lastTime \in Nat

routing == <<failures, opened_at, requests, degraded, route, now, outcomes>>
vars == <<ledgerVars, routing, audit, answer>>

Codes == {"none", "completed", "SECRET_DETECTED", "AUDIT_UNAVAILABLE", "MODEL_UNPRICED",
          "BUDGET_EXCEEDED", "BUDGET_STATE_UNKNOWN", "EXECUTION_BUDGET_UNEVALUABLE",
          "MODEL_POLICY_DENIED", "RATE_LIMITED", "CIRCUIT_OPEN", "SECRET_RESOLUTION_FAILED",
          "MODEL_UNAVAILABLE", "internal error"}

TypeOK ==
    /\ LedgerTypeOK /\ RoutingTypeOK
    /\ audit \subseteq Calls
    /\ answer \in [Calls -> Codes]

Init ==
    /\ LedgerInit /\ RoutingInit
    /\ audit = {}
    /\ answer = [c \in Calls |-> "none"]

-----------------------------------------------------------------------------
(* The steps of complete *)

Restricted(c) == setting.scan[c] = "restricted"
Answer(c, code) == answer' = [answer EXCEPT ![c] = code]

\* The call answers with code if this step of the ledger ends it.
AnswerIfEnded(c, code) ==
    IF call'[c].at = "ended" THEN Answer(c, code) ELSE UNCHANGED answer

\* A detected secret ends the call before anything billable, once it is audited.
BlockSecret(c) ==
    /\ call[c].at = "ready" /\ setting.scan[c] = "secret"
    /\ End(c)
    /\ \/ audit' = audit \cup {c} /\ Answer(c, "SECRET_DETECTED") /\ UNCHANGED errors
       \/ Error /\ Answer(c, "AUDIT_UNAVAILABLE") /\ UNCHANGED audit
    /\ UNCHANGED <<admin, budget_period_state, cost_ledger, budget_alert, lock, routing>>

Price(c) ==
    /\ setting.scan[c] # "secret"
    /\ ReadPrice(c)
    /\ UNCHANGED <<routing, audit, answer>>

\* What the guard raises when it reserves nothing.
GuardError(c) ==
    CASE call[c].at = "unpriced"  -> "MODEL_UNPRICED"
      [] call[c].at \in {"reserve", "unknown"} -> "EXECUTION_BUDGET_UNEVALUABLE"
      [] call[c].at = "reserving" -> "BUDGET_EXCEEDED"
      [] OTHER                    -> "BUDGET_STATE_UNKNOWN"

Guard(c) ==
    /\ LedgerStep(c)
    /\ AnswerIfEnded(c, GuardError(c))
    /\ UNCHANGED <<routing, audit>>

\* Mutant: a call that was sent to a provider is charged.
Served_Attempted(c) == route'[c].attempted

Served(c) == route'[c].at = "served"

\* A step of the routing; when a model has served the call, or none has, the guard
\* settles or releases.
RouteCall(c) ==
    /\ call[c].at = "calling"
    /\ RouteStep(c)
    /\ IF route'[c].at \in {"served", "raised"} THEN CallReturns(c, Served(c))
       ELSE UNCHANGED ledgerVars
    /\ UNCHANGED <<audit, answer>>

\* The denial of RESTRICTED content is audited after the release.
DenialToAudit(c) == Restricted(c) /\ ErrorCode(c) = "MODEL_POLICY_DENIED"

\* The ledger's transaction commits: settle ends the call, release too unless its
\* error is still to be audited, and a recovery without contingency allowance.
CommitCall(c) ==
    /\ Commit(c)
    /\ IF call[c].at = "releasing" /\ DenialToAudit(c) THEN UNCHANGED answer
       ELSE AnswerIfEnded(c, CASE call[c].at = "settling" -> "completed"
                               [] call[c].at = "releasing" -> ErrorCode(c)
                               [] OTHER -> "BUDGET_STATE_UNKNOWN")
    /\ UNCHANGED <<routing, audit>>

\* The guard turns what the ledger's transaction raises into BUDGET_STATE_UNKNOWN.
RaisesUnknown(c) ==
    /\ AnswerIfEnded(c, "BUDGET_STATE_UNKNOWN")
    /\ UNCHANGED <<routing, audit>>

CallRefused(c) == ConstraintViolated(c) /\ RaisesUnknown(c)
CallFails(c) == LedgerFails(c) /\ RaisesUnknown(c)

\* DatabasePolicyAuditor.record_denied, whose errors are not caught here.
RecordDenied(c) ==
    /\ call[c].at = "ended" /\ answer[c] = "none"
    /\ \/ audit' = audit \cup {c} /\ Answer(c, "MODEL_POLICY_DENIED") /\ UNCHANGED errors
       \/ Error /\ Answer(c, "internal error") /\ UNCHANGED audit
    /\ UNCHANGED <<admin, budget_period_state, cost_ledger, budget_alert, lock, call,
                   routing>>

CancelCall(c) ==
    /\ Cancel(c)
    /\ Answer(c, "internal error")
    /\ UNCHANGED <<routing, audit>>

Step(c) ==
    \/ BlockSecret(c) \/ Price(c) \/ Guard(c) \/ RouteCall(c)
    \/ CommitCall(c) \/ CallRefused(c) \/ RecordDenied(c)

Environment ==
    \/ \E c \in Calls : CallFails(c) \/ CancelCall(c)
    \/ Administer /\ UNCHANGED <<routing, audit, answer>>
    \/ Tick /\ UNCHANGED <<ledgerVars, audit, answer>>

Next == ((\E c \in Calls : Step(c)) \/ Environment) /\ UNCHANGED scene

Spec == Init /\ [][Next]_vars

\* While some call has a statement that is not waiting for a row, or awaits an
\* answer (of the policy, the credential store or the provider, or a timeout),
\* some call goes on.
FairSpec == Spec /\ WF_vars((\E c \in Calls : Step(c)) /\ UNCHANGED scene)

-----------------------------------------------------------------------------
(* Properties *)

\* "A successful call is never released", and a failed one never charged: how a
\* reservation is closed is how the routing ended.
ChargedAsServed ==
    \A e, f \in cost_ledger : e.type = "RESERVE" /\ Closes(e, f) =>
        (f.type = "SETTLE") = (route[e.call].at = "served")

\* "bookkeeping must not silently diverge from actual spend": a completion is
\* returned only when every reservation of its call is settled, and a call that met
\* no error leaves no reservation open however it ends.
EndedIsClosed ==
    \A c \in Calls :
        call[c].at = "ended" /\ NothingDrawn /\ (errors = 0 \/ answer[c] = "completed") =>
            \A k \in Rows : \A e \in Open(k) : e.call # c

\* A caller is told of a detected secret, or of a policy denial of RESTRICTED
\* content, only when the denial is on record, and neither reached a provider.
DeniedIsAudited ==
    \A c \in Calls :
        answer[c] = "SECRET_DETECTED" \/ (answer[c] = "MODEL_POLICY_DENIED" /\ Restricted(c)) =>
            c \in audit /\ \A p \in Profiles : route[c].sent[p] = Never

(* Statements of the documentation that the code does not keep *)

\* "Immutable evidence trail for governance outbound denials": every call that ends
\* because its RESTRICTED content was denied leaves evidence.
EveryDenialAudited ==
    \A c \in Calls :
        Restricted(c) /\ route[c].at = "raised" /\ answer[c] # "none" => c \in audit

=============================================================================
