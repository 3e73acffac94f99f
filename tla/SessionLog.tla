----------------------------- MODULE SessionLog -----------------------------
(***************************************************************************)
(* What the execution pipeline promises the users of a Session: a message  *)
(* is accepted once, its turn is added to the end of its Session's history *)
(* at most once and in one step, and nothing else ever changes a history.  *)
(* There are no leases, brokers, workers or failures at this level; a      *)
(* message whose execution was reported failed may still succeed, because  *)
(* commit_session_events rejects only the status SUCCEEDED.                *)
(***************************************************************************)
EXTENDS Sequences

CONSTANTS Sessions, Messages, SessionOf

VARIABLES
    outcome,    \* what is known of each message
    history     \* the messages answered in each Session, in order

logVars == <<outcome, history>>

LogInit ==
    /\ outcome = [m \in Messages |-> "NO_ROW"]
    /\ history = [s \in Sessions |-> <<>>]

Accept(m) ==
    /\ outcome[m] = "NO_ROW"
    /\ outcome' = [outcome EXCEPT ![m] = "PENDING"]
    /\ UNCHANGED history

Answer(m) ==
    /\ outcome[m] \in {"PENDING", "FAILED"}
    /\ outcome' = [outcome EXCEPT ![m] = "SUCCEEDED"]
    /\ history' = [history EXCEPT ![SessionOf[m]] = Append(@, m)]

Fail(m) ==
    /\ outcome[m] = "PENDING"
    /\ outcome' = [outcome EXCEPT ![m] = "FAILED"]
    /\ UNCHANGED history

LogNext == \E m \in Messages : Accept(m) \/ Answer(m) \/ Fail(m)

LogSpec == LogInit /\ [][LogNext]_logVars

=============================================================================
