---------------------------- MODULE ModelRouting ----------------------------
(***************************************************************************)
(* How the LLM Gateway routes a model call: LLMGateway in                  *)
(* trpc_service/llm_gateway.py, and the MODEL entry of the process's       *)
(* DegradationRegistry (trpc_service/degradation.py).                      *)
(*                                                                         *)
(* A call goes through the release's candidate profiles, the requested     *)
(* model first and then the fallbacks.  For each it awaits the outbound    *)
(* policy, passes the circuit breaker and the rate limiter, awaits the     *)
(* credential and awaits the provider; the first answer ends it.  The      *)
(* breaker and the limiter are memory of one gateway process, shared by    *)
(* its calls, which interleave at the awaits and may be of releases with   *)
(* different limits for the same alias.  Nothing shared is touched between *)
(* the credential and the provider, which are one await here.              *)
(***************************************************************************)
EXTENDS Integers, Sequences, SequencesExt, FiniteSets

CONSTANTS
    Calls, Profiles,
    Settings,       \* Settings[scene].release[c]: the release of call c; .lastTime: a bound
    Threshold,      \* circuit_failure_threshold
    ResetTime,      \* circuit_reset_seconds
    Window          \* the rate limiter's minute

VARIABLES
    failures,       \* failures[p]: _failures
    opened_at,      \* opened_at[p]: _opened_at
    requests,       \* requests[p]: _requests, the times of recent requests
    degraded,       \* the requested model of the MODEL degradation
    route,          \* how far each call's loop is
    now,            \* monotonic()
    outcomes,       \* history: outcomes[p], the providers' answers in order
    scene           \* constant

routingVars == <<failures, opened_at, requests, degraded, route, now, outcomes>>

Never == -1
NoProfile == "no profile"

\* A release as the gateway reads it: the requested alias, the allowed fallbacks,
\* the snapshots (their fallbacks and limits), the snapshots whose region and
\* classification fit the request, the answers the outbound policy gives, and what
\* may fail when a candidate is called.
Release == [model_alias : Profiles, allowed : SUBSET Profiles, snapshots : SUBSET Profiles,
            fallbacks : [Profiles -> Seq(Profiles)], requests_per_minute : [Profiles -> Nat],
            fits : SUBSET Profiles, policy : SUBSET BOOLEAN,
            faults : SUBSET {"secret", "provider"}]
ReleaseOf(c) == Settings[scene].release[c]
LastTime == Settings[scene].lastTime

Outcome == [ok : BOOLEAN, at : Nat]
Route == [at : {"policy", "provider", "served", "raised"}, left : Seq(Profiles),
          attempted : BOOLEAN, rate_limited : BOOLEAN, circuit_open : BOOLEAN,
          last_failure : {"none", "secret", "upstream"}, sent : [Profiles -> Nat \cup {Never}]]

RoutingTypeOK ==
    /\ failures \in [Profiles -> Nat]
    /\ opened_at \in [Profiles -> Nat \cup {Never}]
    /\ requests \in [Profiles -> Seq(Nat)]
    /\ degraded \in Profiles \cup {NoProfile}
    /\ route \in [Calls -> Route]
    /\ now \in 0..LastTime
    /\ outcomes \in [Profiles -> Seq(Outcome)]

-----------------------------------------------------------------------------
(* The candidates *)

\* _candidate_profiles: breadth first through the allowed fallbacks of the snapshots.
RECURSIVE Candidates(_, _, _)
Candidates(release, aliases, seen) ==
    IF aliases = <<>> THEN <<>>
    ELSE LET alias == Head(aliases)
         IN  IF alias \in seen \/ alias \notin release.snapshots
             THEN Candidates(release, Tail(aliases), seen \cup {alias})
             ELSE <<alias>> \o Candidates(release,
                    Tail(aliases) \o SelectSeq(release.fallbacks[alias],
                                               LAMBDA f : f \in release.allowed),
                    seen \cup {alias})

CandidateProfiles(release) == Candidates(release, <<release.model_alias>>, {})

RoutingInit ==
    /\ failures = [p \in Profiles |-> 0]
    /\ opened_at = [p \in Profiles |-> Never]
    /\ requests = [p \in Profiles |-> <<>>]
    /\ degraded = NoProfile
    /\ route = [c \in Calls |->
            [at |-> "policy", left |-> CandidateProfiles(ReleaseOf(c)), attempted |-> FALSE,
             rate_limited |-> FALSE, circuit_open |-> FALSE, last_failure |-> "none",
             sent |-> [p \in Profiles |-> Never]]]
    /\ now = 0
    /\ outcomes = [p \in Profiles |-> <<>>]

-----------------------------------------------------------------------------
(* The loop over the candidates *)

Considers(c) == route[c].at = "policy"
Candidate(c) == Head(route[c].left)

\* _allows: what the release and the effective classification say, then OPA, whose
\* errors count as a refusal.
MayAllow(c) == Candidate(c) \in ReleaseOf(c).fits /\ TRUE \in ReleaseOf(c).policy
MayDeny(c) == Candidate(c) \notin ReleaseOf(c).fits \/ FALSE \in ReleaseOf(c).policy

\* The loop goes on with the next candidate; after the last one it raises.
Continue(c, r) ==
    route' = [route EXCEPT ![c] = [r EXCEPT
        !.at = IF Tail(route[c].left) = <<>> THEN "raised" ELSE "policy", !.left = Tail(@)]]

Deny(c) ==
    /\ Considers(c) /\ MayDeny(c)
    /\ Continue(c, route[c])
    /\ UNCHANGED <<failures, opened_at, requests, degraded, now, outcomes>>

\* _circuit_open
CircuitOpen(p) == opened_at[p] # Never /\ now - opened_at[p] < ResetTime

\* Its side effect: a circuit that was open long enough is forgotten.
ForgetExpired(p) ==
    /\ opened_at' = [opened_at EXCEPT ![p] = Never]
    /\ failures' = [failures EXCEPT ![p] = IF opened_at[p] = Never THEN @ ELSE 0]

CircuitRefuses(c) ==
    /\ Considers(c) /\ MayAllow(c)
    /\ CircuitOpen(Candidate(c))
    /\ Continue(c, [route[c] EXCEPT !.attempted = TRUE, !.circuit_open = TRUE])
    /\ UNCHANGED <<failures, opened_at, requests, degraded, now, outcomes>>

\* _within_rate_limit: the requests of the last minute.
Recent(p) == SelectSeq(requests[p], LAMBDA t : t > now - Window)

RateRefuses(c) ==
    LET p == Candidate(c)
    IN  /\ Considers(c) /\ MayAllow(c)
        /\ ~CircuitOpen(p) /\ ForgetExpired(p)
        /\ Len(Recent(p)) >= ReleaseOf(c).requests_per_minute[p]
        /\ requests' = [requests EXCEPT ![p] = Recent(p)]
        /\ Continue(c, [route[c] EXCEPT !.attempted = TRUE, !.rate_limited = TRUE])
        /\ UNCHANGED <<degraded, now, outcomes>>

Admit(c) ==
    LET p == Candidate(c)
    IN  /\ Considers(c) /\ MayAllow(c)
        /\ ~CircuitOpen(p) /\ ForgetExpired(p)
        /\ Len(Recent(p)) < ReleaseOf(c).requests_per_minute[p]
        /\ requests' = [requests EXCEPT ![p] = Append(Recent(p), now)]
        /\ route' = [route EXCEPT ![c].at = "provider", ![c].attempted = TRUE, ![c].sent[p] = now]
        /\ UNCHANGED <<degraded, now, outcomes>>

\* Mutant: the circuit opens one failure late.
RecordFailure_Late(p) ==
    /\ failures' = [failures EXCEPT ![p] = @ + 1]
    /\ opened_at' = [opened_at EXCEPT ![p] = IF failures[p] + 1 > Threshold THEN now ELSE @]

\* _record_failure
RecordFailure(p) ==
    /\ failures' = [failures EXCEPT ![p] = @ + 1]
    /\ opened_at' = [opened_at EXCEPT ![p] = IF failures[p] + 1 >= Threshold THEN now ELSE @]

Log(p, ok) == outcomes' = [outcomes EXCEPT ![p] = Append(@, [ok |-> ok, at |-> now])]

\* The credential is not resolved, or the provider fails: the next candidate.
SecretFails(c) ==
    /\ route[c].at = "provider" /\ "secret" \in ReleaseOf(c).faults
    /\ RecordFailure(Candidate(c)) /\ Log(Candidate(c), FALSE)
    /\ Continue(c, [route[c] EXCEPT !.last_failure = "secret"])
    /\ UNCHANGED <<requests, degraded, now>>

ProviderFails(c) ==
    /\ route[c].at = "provider" /\ "provider" \in ReleaseOf(c).faults
    /\ RecordFailure(Candidate(c)) /\ Log(Candidate(c), FALSE)
    /\ Continue(c, [route[c] EXCEPT !.last_failure = "upstream"])
    /\ UNCHANGED <<requests, degraded, now>>

\* The registry's degrade and restore, by which kind of model served.
MarkModel(c, p) ==
    degraded' = IF p = ReleaseOf(c).model_alias THEN NoProfile ELSE ReleaseOf(c).model_alias

\* _record_success, and the registry is told.
ProviderAnswers(c) ==
    LET p == Candidate(c)
    IN  /\ route[c].at = "provider"
        /\ failures' = [failures EXCEPT ![p] = 0]
        /\ opened_at' = [opened_at EXCEPT ![p] = Never]
        /\ MarkModel(c, p)
        /\ Log(p, TRUE)
        /\ route' = [route EXCEPT ![c].at = "served"]
        /\ UNCHANGED <<requests, now>>

\* The code of the error raised when no candidate has served.
ErrorCode(c) ==
    CASE ~route[c].attempted                              -> "MODEL_POLICY_DENIED"
      [] route[c].rate_limited /\ ~route[c].circuit_open -> "RATE_LIMITED"
      [] route[c].circuit_open /\ ~route[c].rate_limited -> "CIRCUIT_OPEN"
      [] route[c].last_failure = "secret"                 -> "SECRET_RESOLUTION_FAILED"
      [] OTHER                                            -> "MODEL_UNAVAILABLE"

Tick ==
    /\ now < LastTime
    /\ now' = now + 1
    /\ UNCHANGED <<failures, opened_at, requests, degraded, route, outcomes>>

RouteStep(c) ==
    \/ Deny(c) \/ CircuitRefuses(c) \/ RateRefuses(c) \/ Admit(c)
    \/ SecretFails(c) \/ ProviderFails(c) \/ ProviderAnswers(c)

-----------------------------------------------------------------------------
(* Properties *)

\* A profile gets no more requests in any minute than the most generous of the
\* releases that use it allows, whatever the calls were awaiting when others passed
\* _within_rate_limit.
WithinRateLimit ==
    \A p \in Profiles, t \in 0..now : \E c \in Calls :
        Cardinality({d \in Calls : route[d].sent[p] # Never /\ route[d].sent[p] \in t-Window+1..t})
            <= ReleaseOf(c).requests_per_minute[p]

\* The last Threshold answers of a profile are failures, less than ResetTime apart.
Failing(p) ==
    LET n == Len(outcomes[p])
    IN  /\ n >= Threshold
        /\ \A i \in n-Threshold+1..n : ~outcomes[p][i].ok
        /\ outcomes[p][n].at - outcomes[p][n-Threshold+1].at < ResetTime

\* The circuit breaker protects a failing provider: once it has failed Threshold
\* times in a row within ResetTime, no call is sent to it for ResetTime, also when
\* answers of earlier calls arrive in between.
FailingIsSpared ==
    [][\A p \in Profiles, c \in Calls :
        Failing(p) /\ now - Last(outcomes[p]).at < ResetTime =>
            route'[c].sent[p] = route[c].sent[p]]_routingVars

(* Statements of the documentation that the code does not keep *)

\* "secrets ... never degrade, only deny": a call whose credential could not be
\* resolved is not answered by a fallback.
SecretFailureDenies ==
    \A c \in Calls : route[c].last_failure = "secret" => route[c].at # "served"

\* "PRIMARY_RECOVERED": the degradation of a model ends when that model answers.
DegradedUntilRecovered ==
    [][\A p \in Profiles : degraded = p /\ degraded' = NoProfile =>
            Len(outcomes'[p]) > Len(outcomes[p])]_routingVars

=============================================================================
