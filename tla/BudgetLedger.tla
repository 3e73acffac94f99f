---------------------------- MODULE BudgetLedger ----------------------------
(***************************************************************************)
(* Hard budgets, prices and the cost ledger: BudgetService                 *)
(* (trpc_service/budgets.py) over budget, budget_period_state, model_price *)
(* and cost_ledger, as DatabaseBudgetGuard (trpc_service/llm_gateway.py)   *)
(* drives it around a billable model call, and the administrator's         *)
(* requests (trpc_service/admin_api/budgets.py).                           *)
(*                                                                         *)
(* A call reads its price, reserves its estimate on every budget that      *)
(* applies to it, calls the model, and settles or releases.  Reserving,    *)
(* settling and releasing are one transaction each.  Reserving reads the   *)
(* budgets first, then locks their rows of the current period one after    *)
(* the other, in the order of the budgets' creation, and changes them when *)
(* it commits; a transaction that meets a locked row waits.  Meanwhile the *)
(* administrator may change the budgets and a new day may begin.  A        *)
(* database error leaves the transaction rolled back or, when only the     *)
(* answer to the commit was lost, applied.                                 *)
(***************************************************************************)
EXTENDS Integers, Sequences, SequencesExt

CONSTANTS
    Calls,          \* model calls
    Budgets,        \* the tenant's budgets
    Order,          \* Budgets in the order created_at, id
    Scope,          \* Scope[b]: TENANT_MONTHLY, AGENT_DAILY or EXECUTION
    Adjustments,    \* administrators' requests to adjust an allowance
    Target,         \* Target[a]: the budget a adjusts
    Settings,       \* by scene, what the administrators do and the bounds: see Setting
    MaxTries,       \* bound: how often one adjustment is sent (same Idempotency-Key)
    MaxDays         \* bound: days

Unpriced == -1
NoApplication == "no application"
Row == [made : BOOLEAN, limit : Nat, contingency : Nat]

\* application: the application each call is made for; named: the calls whose request
\* says so, and names its execution too (_released_request drops both, so none of the
\* calls through the gateway's endpoint); owner: each budget's application_id;
\* budget: the rows at the start, contingency 0 under FAIL_CLOSED; upserts: the
\* administrator's changes of them; prices: the versions of the price table, by
\* what each call's estimate comes to; delta: what the adjustments ask for
\* (0: it is not sent).
\* Bounds: maxErrors, lastDay.
Setting(s) ==
    /\ \A c \in Calls : s.application[c] # NoApplication
    /\ s.named \subseteq Calls /\ DOMAIN s.owner = Budgets
    /\ s.budget \in [Budgets -> Row]
    /\ s.upserts \in Seq([budget : Budgets, row : Row])
    /\ s.prices \in Seq([Calls -> Nat \cup {Unpriced}]) /\ s.prices # <<>>
    /\ s.delta \in [Adjustments -> Int]
    /\ s.maxErrors \in Nat /\ s.lastDay \in 1..MaxDays

ASSUME BudgetAssumption ==
    /\ Order \in Seq(Budgets) /\ IsInjective(Order) /\ Range(Order) = Budgets
    /\ Scope \in [Budgets -> {"TENANT_MONTHLY", "AGENT_DAILY", "EXECUTION"}]
    /\ Target \in [Adjustments -> Budgets]
    /\ \A i \in DOMAIN Settings : Setting(Settings[i])
    /\ MaxTries \in Nat /\ MaxDays \in Nat

VARIABLES
    budget,              \* the configured budgets
    budget_period_state, \* one row per budget and period
    cost_ledger,         \* RESERVE, SETTLE, RELEASE and REJECT entries
    budget_alert,        \* alerts raised
    lock,                \* which call's transaction holds a budget's row of a period
    call,                \* what each call is doing
    today,
    price_version,       \* the newest version of the price table
    upserted,            \* how many of the administrator's changes are made
    tries,               \* how often each adjustment has been applied
    errors,              \* database errors and cancelled requests so far
    scene                \* which of the Settings; constant

admin == <<budget, today, price_version, upserted, tries>>
ledgerVars ==
    <<admin, budget_period_state, cost_ledger, budget_alert, lock, call, errors, scene>>

setting == Settings[scene]

NoCall == "no call"
Periods == 0..MaxDays
Period == [made : BOOLEAN, reserved : Nat, consumed : Nat, allowance : Int, contingency : Nat]
NewPeriod ==
    [made |-> FALSE, reserved |-> 0, consumed |-> 0, allowance |-> 0, contingency |-> 0]

\* Each call has at most one plain and one contingency reservation on a budget:
\* the pair stands for the reserve_id.
Entry == [type : {"RESERVE", "SETTLE", "RELEASE", "REJECT"}, budget : Budgets,
          period : Periods, call : Calls, contingency : BOOLEAN, amount : Nat]
Places == {"ready", "unpriced", "reserve", "reserving", "unknown", "recovering", "calling",
           "settling", "releasing", "ended"}

\* A budget as a transaction has read it, and the reservation made on it: the
\* limit or contingency allowance read, and the amount reserved.
Level == [budget : Budgets, period : Periods, allowed : Nat, amount : Nat]

\* amount: estimated_micros; levels: the budgets the transaction under way goes
\* through, the bundle's entries once it is made; pos: how many it has locked.
Call == [at : Places, amount : Nat, pos : 0..Len(Order), levels : Seq(Level),
         contingency : BOOLEAN]
NewCall == [at |-> "ready", amount |-> 0, pos |-> 0, levels |-> <<>>, contingency |-> FALSE]

LedgerTypeOK ==
    /\ budget \in [Budgets -> Row]
    /\ budget_period_state \in [Budgets \X Periods -> Period]
    /\ cost_ledger \subseteq Entry
    /\ budget_alert \subseteq (Budgets \X Periods) \X {"WARNING_70", "CRITICAL_90"}
    /\ lock \in [Budgets \X Periods -> Calls \cup {NoCall}]
    /\ call \in [Calls -> Call]
    /\ today \in 1..setting.lastDay
    /\ price_version \in 1..Len(setting.prices)
    /\ upserted \in 0..Len(setting.upserts)
    /\ tries \in [Adjustments -> 0..MaxTries]
    /\ errors \in 0..setting.maxErrors
    /\ scene \in DOMAIN Settings

LedgerInit ==
    /\ scene \in DOMAIN Settings
    /\ budget = setting.budget
    /\ budget_period_state = [k \in Budgets \X Periods |-> NewPeriod]
    /\ cost_ledger = {} /\ budget_alert = {}
    /\ lock = [k \in Budgets \X Periods |-> NoCall]
    /\ call = [c \in Calls |-> NewCall]
    /\ today = 1 /\ price_version = 1 /\ upserted = 0
    /\ tries = [a \in Adjustments |-> 0]
    /\ errors = 0

-----------------------------------------------------------------------------
(* Amounts and decisions *)

\* A row of budget_period_state is a pair of a budget and a period.
Used(k) == budget_period_state[k].reserved + budget_period_state[k].consumed

\* period_key_for: the calendar day, or a period that does not end here (the
\* month, and the execution, which the named calls share).
PeriodKey(b) == IF Scope[b] = "AGENT_DAILY" THEN today ELSE 0

\* _released_request: the application the gateway knows of.
Requester(c) == IF c \in setting.named THEN setting.application[c] ELSE NoApplication

\* Whether a budget counts for the calls of an application.
Covers(b, application) ==
    CASE Scope[b] = "TENANT_MONTHLY" -> TRUE
      [] Scope[b] = "AGENT_DAILY"    -> setting.owner[b] = application
      [] Scope[b] = "EXECUTION"      -> setting.owner[b] \in {NoApplication, application}

\* EXECUTION_BUDGET_UNEVALUABLE: an execution budget, and the call names no execution.
Unevaluable(c) ==
    c \notin setting.named /\ \E b \in Budgets : budget[b].made /\ Scope[b] = "EXECUTION"

\* evaluate_level
Decision(used, limit) ==
    IF used > limit THEN "REJECT"
    ELSE IF limit > 0 /\ 10 * used >= 9 * limit THEN "CRITICAL_90"
    ELSE IF limit > 0 /\ 10 * used >= 7 * limit THEN "WARNING_70"
    ELSE "NONE"

Smaller(m, n) == IF m < n THEN m ELSE n

\* _applicable_levels: the budgets as they are now; for a contingency draw those
\* that have an allowance, and what is drawn from it.
ApplicableLevels(c, contingency) ==
    LET applicable == SelectSeq(Order, LAMBDA b :
            /\ budget[b].made /\ Covers(b, Requester(c))
            /\ contingency => budget[b].contingency > 0)
        allowed(b) == IF contingency THEN budget[b].contingency ELSE budget[b].limit
    IN  [i \in DOMAIN applicable |->
            [budget |-> applicable[i], period |-> PeriodKey(applicable[i]),
             allowed |-> allowed(applicable[i]),
             amount |-> IF contingency THEN Smaller(call[c].amount, allowed(applicable[i]))
                        ELSE call[c].amount]]

Entries(c, type, levels) ==
    {[type |-> type, budget |-> l.budget, period |-> l.period, call |-> c,
      contingency |-> call[c].contingency, amount |-> l.amount] : l \in levels}

\* _append_ledger: an entry that is there already is not inserted again.
AppendLedger(new) == cost_ledger' = cost_ledger \cup new

-----------------------------------------------------------------------------
(* Transactions *)

InTransaction(c) == call[c].at \in {"reserving", "recovering", "settling", "releasing"}
RowOf(l) == <<l.budget, l.period>>
Locked(c) == {call[c].levels[i] : i \in 1..call[c].pos}
HasNext(c) == call[c].pos < Len(call[c].levels)
NextLevel(c) == call[c].levels[call[c].pos + 1]
NextRow(c) == RowOf(NextLevel(c))

Unlock(c) == lock' = [k \in DOMAIN lock |-> IF lock[k] = c THEN NoCall ELSE lock[k]]

Goto(c, at, levels, contingency) ==
    call' = [call EXCEPT ![c].at = at, ![c].pos = 0, ![c].levels = levels,
                         ![c].contingency = contingency]
End(c) == call' = [call EXCEPT ![c] = [NewCall EXCEPT !.at = "ended"]]

\* The transaction gets the lock of its next row and goes on.
Advance(c) ==
    /\ lock' = [lock EXCEPT ![NextRow(c)] = c]
    /\ call' = [call EXCEPT ![c].pos = @ + 1]

WaitsFor(c) == HasNext(c) /\ lock[NextRow(c)] = NoCall

\* latest_prices, and what the estimate of each call comes to by them.
LatestPrices == setting.prices[price_version]

\* DatabaseBudgetGuard.reserve: read the newest prices, ...
ReadPrice(c) ==
    LET price == LatestPrices[c]
    IN  /\ call[c].at = "ready"
        /\ \/ /\ price = Unpriced
              /\ Goto(c, "unpriced", <<>>, FALSE)
           \/ /\ price # Unpriced
              /\ call' = [call EXCEPT ![c].at = "reserve", ![c].amount = price]
        /\ UNCHANGED <<admin, budget_period_state, cost_ledger, budget_alert, lock, errors>>

\* ... without a price look whether the tenant has budgets (MODEL_UNPRICED), ...
HasActiveBudgets(c) ==
    /\ call[c].at = "unpriced"
    /\ IF \E b \in Budgets : budget[b].made THEN End(c) ELSE Goto(c, "reserve", <<>>, FALSE)
    /\ UNCHANGED <<admin, budget_period_state, cost_ledger, budget_alert, lock, errors>>

\* ... and reserve: the transaction begins with reading the budgets.
Begin(c) ==
    /\ call[c].at = "reserve"
    /\ IF Unevaluable(c) THEN End(c)
       ELSE Goto(c, "reserving", ApplicableLevels(c, FALSE), FALSE)
    /\ UNCHANGED <<admin, budget_period_state, cost_ledger, budget_alert, lock, errors>>

\* What reserving on the next row comes to, by the limit read.  An alert on a
\* budget whose limit is 0 violates the check on budget_alert.limit_micros.
EffectiveLimit(l) == l.allowed + budget_period_state[RowOf(l)].allowance
LevelDecision(l) == Decision(Used(RowOf(l)) + l.amount, EffectiveLimit(l))
AlertRefused(l) == LevelDecision(l) \in {"WARNING_70", "CRITICAL_90"} /\ l.allowed = 0

\* Mutant: the level is admitted while it has any room.
ReserveLevel_AnyRoom(c) ==
    /\ call[c].at = "reserving" /\ WaitsFor(c)
    /\ Used(NextRow(c)) < EffectiveLimit(NextLevel(c)) /\ ~AlertRefused(NextLevel(c))
    /\ Advance(c)
    /\ UNCHANGED <<admin, budget_period_state, cost_ledger, budget_alert, errors>>

\* _reserve_level, on a budget with room for the estimate.
ReserveLevel(c) ==
    /\ call[c].at = "reserving" /\ WaitsFor(c)
    /\ LevelDecision(NextLevel(c)) # "REJECT" /\ ~AlertRefused(NextLevel(c))
    /\ Advance(c)
    /\ UNCHANGED <<admin, budget_period_state, cost_ledger, budget_alert, errors>>

\* The alerts the levels passed so far insert.
Alerts(levels) ==
    {<<RowOf(l), LevelDecision(l)>> : l \in levels}
        \cap ((Budgets \X Periods) \X {"WARNING_70", "CRITICAL_90"})

\* The rows of some levels, changed by the amount reserved on each.
Changed(levels, Change(_, _)) ==
    [k \in DOMAIN budget_period_state |->
        IF \E l \in levels : RowOf(l) = k
        THEN Change(budget_period_state[k], (CHOOSE l \in levels : RowOf(l) = k).amount)
        ELSE budget_period_state[k]]

\* _ensure_state_row
EnsureStateRow(row, amount) == [row EXCEPT !.made = TRUE]

\* _compensate_level: what was reserved is taken off again, in the same transaction.
CompensateLevels(c) == Entries(c, "RESERVE", Locked(c)) \cup Entries(c, "RELEASE", Locked(c))

\* Mutant: the levels secured so far are not compensated.
Reject_NoCompensation(c) ==
    /\ call[c].at = "reserving" /\ WaitsFor(c)
    /\ LevelDecision(NextLevel(c)) = "REJECT"
    /\ AppendLedger(Entries(c, "RESERVE", Locked(c)) \cup Entries(c, "REJECT", {NextLevel(c)}))
    /\ budget_period_state' = Changed(Locked(c) \cup {NextLevel(c)}, EnsureStateRow)
    /\ budget_alert' = budget_alert \cup Alerts(Locked(c))
    /\ Unlock(c) /\ End(c)
    /\ UNCHANGED <<admin, errors>>

\* A level without room: the levels secured so far are compensated, and the
\* attempt is committed as evidence, alerts included (BUDGET_EXCEEDED).
Reject(c) ==
    /\ call[c].at = "reserving" /\ WaitsFor(c)
    /\ LevelDecision(NextLevel(c)) = "REJECT"
    /\ AppendLedger(CompensateLevels(c) \cup Entries(c, "REJECT", {NextLevel(c)}))
    /\ budget_period_state' = Changed(Locked(c) \cup {NextLevel(c)}, EnsureStateRow)
    /\ budget_alert' = budget_alert \cup Alerts(Locked(c))
    /\ Unlock(c) /\ End(c)
    /\ UNCHANGED <<admin, errors>>

\* The changes of each kind of transaction.
ApplyReserve(c) ==
    LET reserve(row, amount) == [row EXCEPT !.made = TRUE, !.reserved = @ + amount]
    IN  /\ budget_period_state' = Changed(Locked(c), reserve)
        /\ AppendLedger(Entries(c, "RESERVE", Locked(c)))
        /\ budget_alert' = budget_alert \cup Alerts(Locked(c))

\* Mutant: the contingency allowance is not used up.
ApplyContingency_Unlimited(c) ==
    /\ AppendLedger(Entries(c, "RESERVE", Locked(c)))
    /\ UNCHANGED <<budget_period_state, budget_alert>>

ApplyContingency(c) ==
    LET draw(row, amount) == [row EXCEPT !.contingency = @ + amount]
    IN  /\ budget_period_state' = Changed(Locked(c), draw)
        /\ AppendLedger(Entries(c, "RESERVE", Locked(c)))
        /\ UNCHANGED budget_alert

\* settle and release: both take the amount off reserved_micros, whichever
\* allowance it was drawn from, in the period it was reserved in.
ApplyClose(c) ==
    LET settles == call[c].at = "settling"
        close(row, amount) ==
            [row EXCEPT !.reserved = @ - amount, !.consumed = IF settles THEN @ + amount ELSE @]
    IN  /\ budget_period_state' = Changed(Locked(c), close)
        /\ AppendLedger(Entries(c, IF settles THEN "SETTLE" ELSE "RELEASE", Locked(c)))
        /\ UNCHANGED budget_alert

Apply(c) ==
    \/ call[c].at = "reserving" /\ ApplyReserve(c)
    \/ call[c].at = "recovering" /\ ApplyContingency(c)
    \/ call[c].at \in {"settling", "releasing"} /\ ApplyClose(c)

\* Mutant: settling goes through the budgets backwards.
Committed_Backwards(c) ==
    IF call[c].at \in {"reserving", "recovering"} /\ call[c].levels # <<>>
    THEN Goto(c, "calling", Reverse(call[c].levels), call[c].contingency)
    ELSE IF call[c].at = "reserving" THEN Goto(c, "calling", <<>>, FALSE) ELSE End(c)

\* Where the call goes when its transaction committed: with a bundle, which is
\* empty if no budget applies, on to the model; a recovery that found no
\* contingency allowance fails.
Committed(c) ==
    IF call[c].at = "reserving" \/ (call[c].at = "recovering" /\ call[c].levels # <<>>)
    THEN Goto(c, "calling", call[c].levels, call[c].contingency)
    ELSE End(c)

\* Where it goes when its transaction raised.
Raised(c) == IF call[c].at = "reserving" THEN Goto(c, "unknown", <<>>, FALSE) ELSE End(c)

Commit(c) ==
    /\ InTransaction(c) /\ ~HasNext(c)
    /\ Apply(c)
    /\ Committed(c)
    /\ Unlock(c)
    /\ UNCHANGED <<admin, errors>>

\* _apply_unknown_policy: read the budgets again, ...
ApplyUnknownPolicy(c) ==
    /\ call[c].at = "unknown"
    /\ IF Unevaluable(c) THEN End(c)
       ELSE Goto(c, "recovering", ApplicableLevels(c, TRUE), TRUE)
    /\ UNCHANGED <<admin, budget_period_state, cost_ledger, budget_alert, lock, errors>>

CanDraw(l) ==
    /\ budget_period_state[RowOf(l)].made
    /\ budget_period_state[RowOf(l)].contingency + l.amount <= l.allowed

\* ... draw on the next budget's contingency allowance, ...
DrawLevel(c) ==
    /\ call[c].at = "recovering" /\ WaitsFor(c)
    /\ CanDraw(NextLevel(c))
    /\ Advance(c)
    /\ UNCHANGED <<admin, budget_period_state, cost_ledger, budget_alert, errors>>

\* ... or give up: the return leaves the transaction block, which commits.
DrawRefused(c) ==
    /\ call[c].at = "recovering" /\ WaitsFor(c)
    /\ ~CanDraw(NextLevel(c))
    /\ ApplyContingency(c)
    /\ Unlock(c) /\ End(c)
    /\ UNCHANGED <<admin, errors>>

CheckRefused(l) == budget_period_state[RowOf(l)].reserved < l.amount

CloseLevel(c) ==
    /\ call[c].at \in {"settling", "releasing"} /\ WaitsFor(c)
    /\ ~CheckRefused(NextLevel(c))
    /\ Advance(c)
    /\ UNCHANGED <<admin, budget_period_state, cost_ledger, budget_alert, errors>>

\* A check constraint refuses the change: the transaction rolls back.
ConstraintViolated(c) ==
    /\ WaitsFor(c)
    /\ \/ call[c].at = "reserving" /\ AlertRefused(NextLevel(c))
       \/ call[c].at \in {"settling", "releasing"} /\ CheckRefused(NextLevel(c))
    /\ Raised(c)
    /\ Unlock(c)
    /\ UNCHANGED <<admin, budget_period_state, cost_ledger, budget_alert, errors>>

Error == errors < setting.maxErrors /\ errors' = errors + 1

\* A database error rolls the transaction back.
RollBack(c) ==
    /\ InTransaction(c) /\ Error
    /\ Raised(c)
    /\ Unlock(c)
    /\ UNCHANGED <<admin, budget_period_state, cost_ledger, budget_alert>>

\* The commit is applied and its answer lost.
AnswerLost(c) ==
    /\ InTransaction(c) /\ ~HasNext(c) /\ Error
    /\ Apply(c)
    /\ Raised(c)
    /\ Unlock(c)
    /\ UNCHANGED admin

-----------------------------------------------------------------------------
(* The model call, cancelled requests and the administrator *)

\* The model has answered, or the call failed upstream with a ModelGatewayError.
CallReturns(c, served) ==
    /\ call[c].at = "calling"
    /\ Goto(c, IF served THEN "settling" ELSE "releasing", call[c].levels, call[c].contingency)
    /\ UNCHANGED <<admin, budget_period_state, cost_ledger, budget_alert, lock, errors>>

\* The request is cancelled or its process dies; a transaction under way rolls back.
Cancel(c) ==
    /\ call[c].at \notin {"ready", "ended"} /\ Error
    /\ End(c)
    /\ Unlock(c)
    /\ UNCHANGED <<admin, budget_period_state, cost_ledger, budget_alert>>

\* BudgetService.adjust, in the current period.
AdjustPeriod(k, delta) ==
    budget_period_state' =
        [budget_period_state EXCEPT ![k].made = TRUE, ![k].allowance = @ + delta]

\* adjust_budget: the request may be sent again with the same Idempotency-Key, and no
\* record of it is kept.
Adjust(a) ==
    LET k == <<Target[a], PeriodKey(Target[a])>>
    IN  /\ tries[a] < MaxTries /\ setting.delta[a] # 0 /\ Scope[Target[a]] # "EXECUTION"
        /\ budget[Target[a]].made /\ lock[k] = NoCall
        /\ AdjustPeriod(k, setting.delta[a])
        /\ tries' = [tries EXCEPT ![a] = @ + 1]
        /\ UNCHANGED <<budget, today, price_version, upserted, cost_ledger, budget_alert, lock,
                       call, errors>>

\* upsert_budget: the row is inserted, or its limit and allowance are replaced.
UpsertBudget ==
    /\ upserted < Len(setting.upserts)
    /\ LET put == setting.upserts[upserted + 1]
       IN  budget' = [budget EXCEPT ![put.budget] = put.row]
    /\ upserted' = upserted + 1
    /\ UNCHANGED <<today, price_version, tries, budget_period_state, cost_ledger, budget_alert,
                   lock, call, errors>>

\* set_model_prices: the next version replaces the whole table.
SetModelPrices ==
    /\ price_version < Len(setting.prices)
    /\ price_version' = price_version + 1
    /\ UNCHANGED <<budget, today, upserted, tries, budget_period_state, cost_ledger,
                   budget_alert, lock, call, errors>>

NewDay ==
    /\ today < setting.lastDay
    /\ today' = today + 1
    /\ UNCHANGED <<budget, price_version, upserted, tries, budget_period_state, cost_ledger,
                   budget_alert, lock, call, errors>>

\* What a call does against the ledger when nothing goes wrong.
LedgerStep(c) ==
    \/ HasActiveBudgets(c) \/ Begin(c) \/ ReserveLevel(c) \/ Reject(c)
    \/ ApplyUnknownPolicy(c) \/ DrawLevel(c) \/ DrawRefused(c) \/ CloseLevel(c)

LedgerFails(c) == RollBack(c) \/ AnswerLost(c)

Administer ==
    \/ \E a \in Adjustments : Adjust(a)
    \/ UpsertBudget \/ SetModelPrices \/ NewDay

\* The ledger on its own, under calls that return either way.
LedgerNext ==
    /\ \/ \E c \in Calls : \/ ReadPrice(c) \/ LedgerStep(c) \/ Commit(c)
                            \/ ConstraintViolated(c) \/ LedgerFails(c)
                            \/ \E served \in BOOLEAN : CallReturns(c, served)
                            \/ Cancel(c)
       \/ Administer
    /\ UNCHANGED scene

-----------------------------------------------------------------------------
(* Properties *)

Rows == Budgets \X Periods
Total(entries) == MapThenSumSet(LAMBDA e : e.amount, entries)
EntriesOf(k, type) == {e \in cost_ledger : <<e.budget, e.period>> = k /\ e.type = type}

\* Entries of one reservation carry its reserve_id.
ReserveId(e) == <<e.budget, e.period, e.call, e.contingency>>
Closes(e, f) == f.type \in {"SETTLE", "RELEASE"} /\ ReserveId(f) = ReserveId(e)

\* The reservations that neither a SETTLE nor a RELEASE has closed.
Open(k) == {e \in EntriesOf(k, "RESERVE") : \A f \in cost_ledger : ~Closes(e, f)}

\* Nothing was drawn from a contingency allowance so far.  (A draw that is
\* settled goes through the reserved bucket: see ReservedCoversOpen.)
NothingDrawn == \A e \in cost_ledger : ~e.contingency

\* The level at which the transaction that holds a row read its budget.
LevelAt(k) == CHOOSE l \in Locked(lock[k]) : RowOf(l) = k

\* "concurrent reservations unable to overdraw a budget": only a transaction that
\* holds the row raises what is used of a budget, and leaves it within the limit it
\* has read and the allowance of that moment.
NoOverdraw ==
    [][\A k \in Rows : Used(k)' > Used(k) =>
            lock[k] # NoCall /\ Used(k)' <= EffectiveLimit(LevelAt(k))]_ledgerVars

\* The counters of every period are what the ledger says, whatever was rolled back,
\* applied without an answer, cancelled, or closed on a later day.
LedgerBalances ==
    NothingDrawn => \A k \in Rows :
        /\ budget_period_state[k].reserved = Total(Open(k))
        /\ budget_period_state[k].consumed = Total(EntriesOf(k, "SETTLE"))

\* What may have been spent in a period: settled and open reservations, contingency
\* draws included, stay within a limit and a contingency allowance that were
\* configured, and the allowance granted.
SpendBounded ==
    \A k \in Rows : \E r, q \in {setting.budget[k[1]]} \cup
            {put.row : put \in {u \in ToSet(setting.upserts) : u.budget = k[1]}} :
        Total(EntriesOf(k, "SETTLE")) + Total(Open(k))
            <= r.limit + q.contingency
                + MapThenSumSet(LAMBDA a : IF Target[a] = k[1] /\ setting.delta[a] > 0
                                           THEN tries[a] * setting.delta[a] ELSE 0, Adjustments)

\* A reservation that takes a budget to 90% of the limit it read raises its CRITICAL
\* alert, in its own period.
CriticalAlerted ==
    [][\A k \in Rows :
        Used(k)' > Used(k) /\ 10 * Used(k)' >= 9 * EffectiveLimit(LevelAt(k)) =>
            <<k, "CRITICAL_90">> \in budget_alert']_ledgerVars

\* Calls that lock several budgets do not block one another: every call ends.
EveryCallEnds == <>(\A c \in Calls : call[c].at = "ended")

(* Statements of the documentation that the code does not keep *)

\* "Budgets apply at three levels": a call goes to the model with a reservation on
\* every budget that is configured for its application.
AppliesAtEveryLevel ==
    \A c \in Calls : call[c].at = "calling" /\ ~call[c].contingency =>
        \A b \in Budgets : setting.budget[b].made /\ Covers(b, setting.application[c]) =>
            \E i \in DOMAIN call[c].levels : call[c].levels[i].budget = b

\* "draw from the budget's separate contingency allowance": the reserved bucket
\* covers every open reservation of its own, whatever the contingency draws do.
ReservedCoversOpen ==
    \A k \in Rows :
        budget_period_state[k].reserved >= Total({e \in Open(k) : ~e.contingency})

\* "None means fail closed": a draw that is refused on one budget has drawn
\* nothing from the others.
RefusedDrawsNothing ==
    [][\A c \in Calls : DrawRefused(c) => cost_ledger' = cost_ledger]_ledgerVars

\* "only usage beyond it is rejected": a reservation that fits the limit and the
\* allowance of a budget is not turned away by a constraint.
FittingReserveAdmitted ==
    [][\A c \in Calls : call[c].at = "reserving" => ~ConstraintViolated(c)]_ledgerVars

\* "100% hard limit": a reservation is admitted within the limit configured when it
\* is made, not within one that was lowered after it was read.
LoweredLimitBinds ==
    [][\A k \in Rows : Used(k)' > Used(k) =>
            Used(k)' <= budget[k[1]].limit + budget_period_state[k].allowance]_ledgerVars

\* "fail closed instead of reserving zero": an enforced budget never meets the
\* reservation of a call whose model has no price.
UnpricedFailsClosed ==
    \A c \in Calls :
        (\A i \in DOMAIN setting.prices : setting.prices[i][c] # 0) =>
            \A e \in cost_ledger : e.call = c => e.amount > 0

\* A write request sent again with its Idempotency-Key changes nothing more.
AdjustedOnce ==
    \A k \in Rows :
        budget_period_state[k].allowance \in
            {MapThenSumSet(LAMBDA a : setting.delta[a], S) :
                S \in SUBSET {a \in Adjustments : Target[a] = k[1] /\ tries[a] > 0}}

=============================================================================
