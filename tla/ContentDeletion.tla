--------------------------- MODULE ContentDeletion ---------------------------
(***************************************************************************)
(* Erasure of one tenant's content (trpc_service/content_lifecycle.py):    *)
(* deletion requests, the deletion workers that erase and verify backend   *)
(* after backend, and the retention sweep.                                 *)
(*                                                                         *)
(* Time is a choice: a PROCESSING row may become older than the processing *)
(* lease at any moment, and a content item may age at any moment.          *)
(***************************************************************************)
EXTENDS RetentionHolds, Sequences

CONSTANTS
    Workers,       \* job worker replicas
    Requests,      \* deletion requests, used once each
    Backends,      \* the executor's backends in the order of its dictionary
    MaxWrites,     \* bound: content items written
    MaxAge,        \* bound: age of an item
    MaxFailures    \* bound: incomplete erasures, backend errors, deaths

ASSUME DeletionAssumption ==
    /\ Backends \in Seq({"SQL", "REDIS", "VECTOR", "OBJECT", "DERIVED", "BACKUP"})
    /\ Backends # <<>> /\ Backends[1] = "SQL"
    /\ MaxWrites \in Nat /\ MaxAge \in Nat /\ MaxFailures \in Nat

VARIABLES
    request,   \* request -> its row; written is the number of items at its creation
    proofs,    \* request -> backends with a verified proof
    content,   \* backend -> items it stores
    age,       \* item -> how old it is, in retention periods
    worker,    \* worker -> what it is doing
    sweep,     \* the retention sweep: days it read, or Nobody
    writes, failures

deletionVars == <<request, proofs, content, age, worker, sweep, writes, failures>>

Planes == {Backends[k] : k \in DOMAIN Backends}
Items == 1..MaxWrites
Statuses == {"NONE", "PENDING", "RETRYABLE", "PROCESSING", "COMPLETED", "BLOCKED_LEGAL_HOLD"}
Idle == [at |-> "idle", request |-> Nobody, backend |-> 1, proofs |-> {}, ok |-> FALSE]

DeletionTypeOK ==
    /\ request \in [Requests -> [status : Statuses, stale : BOOLEAN, written : 0..MaxWrites]]
    /\ proofs \in [Requests -> SUBSET Planes]
    /\ content \in [Planes -> SUBSET Items]
    /\ age \in [Items -> 0..MaxAge]
    /\ worker \in [Workers -> [at : {"idle", "selected", "erase", "verify", "store"},
                               request : Requests \cup {Nobody}, backend : DOMAIN Backends,
                               proofs : SUBSET Planes, ok : BOOLEAN]]
    /\ sweep \in Days \cup {Nobody}
    /\ writes \in 0..MaxWrites /\ failures \in 0..MaxFailures

DeletionInit ==
    /\ request = [r \in Requests |-> [status |-> "NONE", stale |-> FALSE, written |-> 0]]
    /\ proofs = [r \in Requests |-> {}]
    /\ content = [b \in Planes |-> {}]
    /\ age = [x \in Items |-> 0]
    /\ worker = [w \in Workers |-> Idle]
    /\ sweep = Nobody /\ writes = 0 /\ failures = 0

-----------------------------------------------------------------------------
\* The platform stores content of the tenant in every plane; it goes on doing so.
WriteContent ==
    /\ writes < MaxWrites
    /\ writes' = writes + 1
    /\ content' = [b \in Planes |-> content[b] \cup {writes + 1}]
    /\ UNCHANGED <<request, proofs, age, worker, sweep, failures>>

Grow(x) ==
    /\ x <= writes /\ age[x] < MaxAge
    /\ age' = [age EXCEPT ![x] = @ + 1]
    /\ UNCHANGED <<request, proofs, content, worker, sweep, writes, failures>>

CreateDeletionRequest(r) ==
    /\ request[r].status = "NONE" /\ ~HoldActive
    /\ request' = [request EXCEPT ![r] = [status |-> "PENDING", stale |-> FALSE,
                                          written |-> writes]]
    /\ UNCHANGED <<proofs, content, age, worker, sweep, writes, failures>>

\* processing_at falls behind the processing lease.
LeaseExpires(r) ==
    /\ request[r].status = "PROCESSING" /\ ~request[r].stale
    /\ request' = [request EXCEPT ![r].stale = TRUE]
    /\ UNCHANGED <<proofs, content, age, worker, sweep, writes, failures>>

\* Mutant: a claim never becomes stale.
Due_FirstAttempt(row) == row.status \in {"PENDING", "RETRYABLE", "BLOCKED_LEGAL_HOLD"}

Due(row) == \/ row.status \in {"PENDING", "RETRYABLE", "BLOCKED_LEGAL_HOLD"}
            \/ row.status = "PROCESSING" /\ row.stale

\* run_once selects due requests in a transaction of its own, then processes each.
RunOnce(w, r) ==
    /\ worker[w].at = "idle" /\ Due(request[r])
    /\ worker' = [worker EXCEPT ![w] = [Idle EXCEPT !.at = "selected", !.request = r]]
    /\ UNCHANGED <<request, proofs, content, age, sweep, writes, failures>>

\* Mutant: the hold is not looked up.
Process_Unheld(w) ==
    LET r == worker[w].request IN
    /\ worker[w].at = "selected"
    /\ IF Due(request[r])
       THEN /\ request' = [request EXCEPT ![r].status = "PROCESSING", ![r].stale = FALSE]
            /\ worker' = [worker EXCEPT ![w].at = "erase"]
       ELSE worker' = [worker EXCEPT ![w] = Idle] /\ UNCHANGED request
    /\ UNCHANGED <<proofs, content, age, sweep, writes, failures>>

\* One transaction: an active hold blocks the request whatever its status is by now,
\* otherwise the row is claimed if it is still due.
Process(w) ==
    LET r == worker[w].request IN
    /\ worker[w].at = "selected"
    /\ CASE HoldActive ->
              /\ request' = [request EXCEPT ![r].status = "BLOCKED_LEGAL_HOLD"]
              /\ worker' = [worker EXCEPT ![w] = Idle]
         [] ~HoldActive /\ Due(request[r]) ->
              /\ request' = [request EXCEPT ![r].status = "PROCESSING", ![r].stale = FALSE]
              /\ worker' = [worker EXCEPT ![w].at = "erase"]
         [] OTHER -> worker' = [worker EXCEPT ![w] = Idle] /\ UNCHANGED request
    /\ UNCHANGED <<proofs, content, age, sweep, writes, failures>>

Plane(w) == Backends[worker[w].backend]

\* The adapter erases the tenant's namespace; one that only marks it for deletion leaves
\* the content in place, which is what verify_erased is for.
Erase(w) ==
    /\ worker[w].at = "erase"
    /\ \/ content' = [content EXCEPT ![Plane(w)] = {}] /\ UNCHANGED failures
       \/ failures < MaxFailures /\ failures' = failures + 1 /\ UNCHANGED content
    /\ worker' = [worker EXCEPT ![w].at = "verify"]
    /\ UNCHANGED <<request, proofs, age, sweep, writes>>

\* Mutant: the answer of the erasure is trusted.
VerifyErased_Trusts(b) == TRUE

\* What the adapter reports once it has erased.
VerifyErased(b) == content[b] = {}

\* An unverified backend raises, and the proofs collected so far are not returned.
Verify(w) ==
    LET row == worker[w]
        b == Plane(w) IN
    /\ row.at = "verify"
    /\ worker' = [worker EXCEPT ![w] =
         CASE ~VerifyErased(b) -> [row EXCEPT !.at = "store", !.proofs = {}]
           [] VerifyErased(b) /\ row.backend < Len(Backends) ->
                [row EXCEPT !.at = "erase", !.backend = @ + 1, !.proofs = @ \cup {b}]
           [] OTHER -> [row EXCEPT !.at = "store", !.proofs = @ \cup {b}, !.ok = TRUE]]
    /\ UNCHANGED <<request, proofs, content, age, sweep, writes, failures>>

\* A backend call raises something else: the proofs so far are kept, the request retried.
BackendFails(w) ==
    /\ worker[w].at \in {"erase", "verify"} /\ failures < MaxFailures
    /\ worker' = [worker EXCEPT ![w].at = "store"]
    /\ failures' = failures + 1
    /\ UNCHANGED <<request, proofs, content, age, sweep, writes>>

\* The proofs and the new status are stored in one transaction, whatever the row says.
Store(w) ==
    LET r == worker[w].request IN
    /\ worker[w].at = "store"
    /\ proofs' = [proofs EXCEPT ![r] = @ \cup worker[w].proofs]
    /\ request' = [request EXCEPT
                     ![r].status = IF worker[w].ok THEN "COMPLETED" ELSE "RETRYABLE",
                     ![r].stale = FALSE]
    /\ worker' = [worker EXCEPT ![w] = Idle]
    /\ UNCHANGED <<content, age, sweep, writes, failures>>

\* The job worker dies and is restarted.
WorkerDies(w) ==
    /\ worker[w].at # "idle" /\ failures < MaxFailures
    /\ worker' = [worker EXCEPT ![w] = Idle]
    /\ failures' = failures + 1
    /\ UNCHANGED <<request, proofs, content, age, sweep, writes>>

-----------------------------------------------------------------------------
\* RetentionSweep.run_once: the hold and the policy are read first, in the transaction
\* that then removes what the policy lets expire.
SweepRead ==
    /\ sweep = Nobody /\ ~HoldActive
    /\ sweep' = retention_days
    /\ UNCHANGED <<request, proofs, content, age, worker, writes, failures>>

Expired(x, days) == age[x] > days

SweepApply ==
    /\ sweep # Nobody
    /\ content' = [content EXCEPT !["SQL"] = {x \in @ : ~Expired(x, sweep)}]
    /\ sweep' = Nobody
    /\ UNCHANGED <<request, proofs, age, worker, writes, failures>>

WorkerStep(w) ==
    \/ \E r \in Requests : RunOnce(w, r)
    \/ Process(w)
    \/ Erase(w)
    \/ Verify(w)
    \/ Store(w)

-----------------------------------------------------------------------------
\* A completed request left nothing of what the tenant had when it was made, in any plane,
\* and has a verified proof of every plane, although content is written during the erasure,
\* a second worker may erase as well, and a failed attempt returns only some proofs.
CompletedMeansErased ==
    \A r \in Requests : request[r].status = "COMPLETED" =>
        /\ \A b \in Planes : \A x \in content[b] : x > request[r].written
        /\ proofs[r] = Planes

\* The sweep never removes an item that no policy ever in force would let expire: a change
\* that is only proposed has no effect, and the limit itself is still kept.
SweepWithinPolicy ==
    [][\A x \in content["SQL"] \ content'["SQL"] : sweep # Nobody /\ sweep' = Nobody =>
          \/ age[x] > DefaultDays
          \/ \E c \in Changes : /\ retention_change[c].status = "APPROVED"
                               /\ age[x] > retention_change[c].days]_deletionVars

\* A request completes unless a hold is placed: failed attempts are retried, and a request
\* whose worker died is claimed again after the processing lease.
RequestCompletes ==
    \A r \in Requests : request[r].status = "PENDING" ~>
        \/ request[r].status = "COMPLETED"
        \/ HoldActive

\* Not kept: "A Legal Hold wins over every ordinary expiry rule" (content_lifecycle.py:277).
\* A hold approved between the two statements of the sweep does not stop it.
HoldWins ==
    [][content'["SQL"] # content["SQL"] /\ sweep # Nobody /\ sweep' = Nobody
         => ~HoldActive]_deletionVars

\* Not kept: a request is processed once (content_lifecycle.py:181).  A worker slower than
\* the processing lease, or one that selected the request earlier, overwrites COMPLETED.
CompletedIsFinal ==
    [][\A r \in Requests : request[r].status = "COMPLETED" =>
          request'[r].status = "COMPLETED"]_deletionVars
=============================================================================
