----------------------------- MODULE AuditChain -----------------------------
(***************************************************************************)
(* The audit trail of one tenant: the hash chain every audited transaction *)
(* extends (trpc_service/audit_chain/chain.py, admin_api/audit.py), the    *)
(* audit outbox (audit_chain/outbox.py), the signed manifests and their    *)
(* WORM archive (audit_chain/manifest.py, worm.py), and the requests of    *)
(* the audit surface (admin_api/audit_query.py).                           *)
(*                                                                         *)
(* Hashes do not collide: the hash of an event is the event, a chain head  *)
(* is the sequence of the hashes it was made from.  A transaction runs at  *)
(* READ COMMITTED, so each of its statements sees the rows that were       *)
(* committed when it began.                                                *)
(***************************************************************************)
EXTENDS Integers, Sequences, FiniteSets, FiniteSetsExt

CONSTANTS
    MaxRequests,  \* bound: requests and dispatcher runs, numbered as they start
    Intents,      \* audit intents that business transactions enqueue
    None

Procs == 1..MaxRequests

VARIABLES
    chain_state,     \* row with the last index and head, or None before the first event
    audit_event,     \* committed events: [index, hash, prev]
    audit_outbox,    \* intent -> "NONE", "PENDING" or "DISPATCHED"
    audit_manifest,  \* committed manifest rows
    worm,            \* every object version ever written to the WORM bucket
    lock,            \* the transaction that holds the chain_state row
    at,              \* control state of each request
    todo,            \* its audited transactions, each with the events left to append
    view,            \* its uncommitted [index, head, rows]
    claim,           \* outbox rows it has locked
    segment          \* what an archiving request has read so far

chainVars == <<chain_state, audit_event, lock>>
archiveVars == <<audit_manifest, worm, segment>>
vars == <<chainVars, archiveVars, audit_outbox, at, todo, view, claim>>

GENESIS_HASH == <<>>
NoView == [index |-> 0, head |-> GENESIS_HASH, rows |-> {}]
NoSegment == [archived |-> 0, rows |-> {}, manifest |-> None]

Kinds == {"business", "query", "correct", "archive", "dispatch"}
Actions == {"business", "audit.query", "audit.break_glass", "audit.correction",
            "audit.correct", "audit.export", "dispatched"}
Fingerprint(by, action) == [by |-> by, action |-> action]
Events == {Fingerprint(by, a) : by \in Procs \cup Intents, a \in Actions}
ChainState == [index : Nat, head : Seq(Events)]
Rows == [index : Nat \ {0}, hash : Events, prev : Seq(Events)]
Manifests == [index : Nat \ {0}, first : Nat, last : Nat, count : Nat, head : Seq(Events)]

ASSUME AuditAssumption ==
    /\ MaxRequests \in Nat
    /\ Intents \cap Procs = {}
    /\ None \notin Intents \cup Procs \cup ChainState

TypeOK ==
    /\ chain_state = None \/ chain_state \in ChainState
    /\ audit_event \subseteq Rows
    /\ audit_outbox \in [Intents -> {"NONE", "PENDING", "DISPATCHED"}]
    /\ audit_manifest \subseteq Manifests /\ worm \subseteq Manifests
    /\ lock \in Procs \cup {None}
    /\ at \in [Procs -> {"idle", "claim", "begin", "absent", "append", "archived", "rows",
                         "put", "insert", "done", "failed"}]
    /\ todo \in [Procs -> Seq(Seq(Events))]
    /\ \A p \in Procs : view[p].rows \subseteq Rows /\ claim[p] \subseteq Intents

Init ==
    /\ chain_state = None /\ audit_event = {} /\ lock = None
    /\ audit_outbox = [i \in Intents |-> "NONE"]
    /\ audit_manifest = {} /\ worm = {}
    /\ at = [p \in Procs |-> "idle"]
    /\ todo = [p \in Procs |-> <<>>]
    /\ view = [p \in Procs |-> NoView]
    /\ claim = [p \in Procs |-> {}]
    /\ segment = [p \in Procs |-> NoSegment]

-----------------------------------------------------------------------------
(* Requests.  A request runs audited transactions one after the other; the *)
(* events of one of them are appended in its transaction.                  *)

\* A business handler calls insert_audit in its own transaction.
PlanBusiness(p) == << <<Fingerprint(p, "business")>> >>

\* An access to the audit surface writes evidence about itself; an emergency operator's
\* access adds the break-glass event in the same transaction.
SelfAudit(p, action, emergency) ==
    << <<Fingerprint(p, action)>> \o
       (IF emergency THEN <<Fingerprint(p, "audit.break_glass")>> ELSE <<>>) >>

\* The events are read, and answered once the access is audited.
PlanQuery(p) == SelfAudit(p, "audit.query", TRUE)

\* A correction is appended by itself, then the access is audited.
PlanCorrect(p) ==
    << <<Fingerprint(p, "audit.correction")>> >> \o SelfAudit(p, "audit.correct", FALSE)

\* build_and_archive runs first.
PlanArchive(p) == SelfAudit(p, "audit.export", FALSE)

Start(p, kind) ==
    /\ at[p] = "idle" /\ \A q \in 1 .. p - 1 : at[q] # "idle"
    /\ kind = "correct" => audit_event # {}
    /\ at' = [at EXCEPT ![p] = CASE kind = "dispatch" -> "claim"
                                 [] kind = "archive" -> "archived"
                                 [] OTHER -> "begin"]
    /\ todo' = [todo EXCEPT ![p] = CASE kind = "business" -> PlanBusiness(p)
                                     [] kind = "query" -> PlanQuery(p)
                                     [] kind = "correct" -> PlanCorrect(p)
                                     [] kind = "archive" -> PlanArchive(p)
                                     [] OTHER -> <<>>]
    /\ UNCHANGED <<chainVars, archiveVars, audit_outbox, view, claim>>

\* A business transaction commits with an intent it enqueued.
EnqueueAudit(i) ==
    /\ audit_outbox[i] = "NONE"
    /\ audit_outbox' = [audit_outbox EXCEPT ![i] = "PENDING"]
    /\ UNCHANGED <<chainVars, archiveVars, at, todo, view, claim>>

\* dispatch_pending locks the tenant's pending intents; a second dispatcher waits for the
\* first and finds their new status.  Their ids are random, and so is their order.
DispatchPending(p) ==
    LET pending == {i \in Intents : audit_outbox[i] = "PENDING"} IN
    /\ at[p] = "claim"
    /\ \A q \in Procs : claim[q] \cap pending = {}
    /\ IF pending = {}
       THEN at' = [at EXCEPT ![p] = "done"] /\ UNCHANGED <<todo, claim>>
       ELSE \E order \in Bijection(1..Cardinality(pending), pending) :
              /\ at' = [at EXCEPT ![p] = "begin"]
              /\ todo' = [todo EXCEPT ![p] =
                            <<[k \in DOMAIN order |-> Fingerprint(order[k], "dispatched")]>>]
              /\ claim' = [claim EXCEPT ![p] = pending]
    /\ UNCHANGED <<chainVars, archiveVars, audit_outbox, view>>

-----------------------------------------------------------------------------
(* append_to_chain, and the transaction around it.                         *)

\* SELECT ... FOR UPDATE of the chain state; before the first event there is no row to lock.
LockState(p) ==
    /\ at[p] = "begin"
    /\ IF chain_state = None
       THEN at' = [at EXCEPT ![p] = "absent"] /\ UNCHANGED <<lock, view>>
       ELSE /\ lock = None
            /\ lock' = p
            /\ view' = [view EXCEPT ![p] = [index |-> chain_state.index,
                                            head |-> chain_state.head, rows |-> {}]]
            /\ at' = [at EXCEPT ![p] = "append"]
    /\ UNCHANGED <<chain_state, audit_event, archiveVars, audit_outbox, todo, claim>>

\* What the transaction sees of the chain after INSERT ... ON CONFLICT DO NOTHING, which
\* waits for a concurrent insert, and the second SELECT ... FOR UPDATE.
AfterInsert ==
    IF chain_state = None THEN NoView
    ELSE [index |-> chain_state.index, head |-> chain_state.head, rows |-> {}]

InsertState(p) ==
    /\ at[p] = "absent" /\ lock = None
    /\ lock' = p
    /\ view' = [view EXCEPT ![p] = AfterInsert]
    /\ at' = [at EXCEPT ![p] = "append"]
    /\ UNCHANGED <<chain_state, audit_event, archiveVars, audit_outbox, todo, claim>>

ChainHash(previous, current) == Append(previous, current)

\* Mutant: the row names the head it leads to instead of the one it extends.
Extend_NewHead(v, event) ==
    [index |-> v.index + 1, head |-> ChainHash(v.head, event),
     rows |-> v.rows \cup {[index |-> v.index + 1, hash |-> event,
                            prev |-> ChainHash(v.head, event)]}]

Extend(v, event) ==
    [index |-> v.index + 1, head |-> ChainHash(v.head, event),
     rows |-> v.rows \cup {[index |-> v.index + 1, hash |-> event, prev |-> v.head]}]

\* Mutant: each append takes the chain lock again.
AppendToChain_Nested(p) ==
    /\ at[p] = "append" /\ Head(todo[p]) # <<>>
    /\ view[p].rows # {} => lock = None
    /\ view' = [view EXCEPT ![p] = Extend(@, Head(Head(todo[p])))]
    /\ todo' = [todo EXCEPT ![p] = <<Tail(Head(@))>> \o Tail(@)]
    /\ UNCHANGED <<chainVars, archiveVars, audit_outbox, at, claim>>

AppendToChain(p) ==
    /\ at[p] = "append" /\ Head(todo[p]) # <<>>
    /\ view' = [view EXCEPT ![p] = Extend(@, Head(Head(todo[p])))]
    /\ todo' = [todo EXCEPT ![p] = <<Tail(Head(@))>> \o Tail(@)]
    /\ UNCHANGED <<chainVars, archiveVars, audit_outbox, at, claim>>

\* Mutant: only one intent of the batch is marked.
Dispatched_First(outbox, ids) ==
    [i \in Intents |-> IF ids # {} /\ i = CHOOSE j \in ids : TRUE THEN "DISPATCHED"
                       ELSE outbox[i]]

Dispatched(outbox, ids) == [i \in Intents |-> IF i \in ids THEN "DISPATCHED" ELSE outbox[i]]

Commit(p) ==
    /\ at[p] = "append" /\ Head(todo[p]) = <<>>
    /\ chain_state' = [index |-> view[p].index, head |-> view[p].head]
    /\ audit_event' = audit_event \cup view[p].rows
    /\ audit_outbox' = Dispatched(audit_outbox, claim[p])
    /\ lock' = None
    /\ claim' = [claim EXCEPT ![p] = {}]
    /\ view' = [view EXCEPT ![p] = NoView]
    /\ todo' = [todo EXCEPT ![p] = Tail(@)]
    /\ at' = [at EXCEPT ![p] = IF Tail(todo[p]) = <<>> THEN "done" ELSE "begin"]
    /\ UNCHANGED archiveVars

\* An exception or a lost connection: PostgreSQL rolls the transaction back.
Rollback(p) ==
    /\ at[p] \in {"begin", "absent", "append"}
    /\ at' = [at EXCEPT ![p] = "failed"]
    /\ lock' = IF lock = p THEN None ELSE lock
    /\ claim' = [claim EXCEPT ![p] = {}]
    /\ view' = [view EXCEPT ![p] = NoView]
    /\ todo' = [todo EXCEPT ![p] = <<>>]
    /\ UNCHANGED <<chain_state, audit_event, archiveVars, audit_outbox>>

-----------------------------------------------------------------------------
(* build_and_archive: three reads at three moments, the WORM object, then  *)
(* the manifest row.                                                       *)

LastArchived == Max({0} \cup {d.last : d \in audit_manifest})

ReadArchived(p) ==
    /\ at[p] = "archived"
    /\ segment' = [segment EXCEPT ![p].archived = LastArchived]
    /\ at' = [at EXCEPT ![p] = "rows"]
    /\ UNCHANGED <<chainVars, audit_manifest, worm, audit_outbox, todo, view, claim>>

\* Mutant: a segment leaves out its first event.
After_Next(archived) == {r \in audit_event : r.index > archived + 1}

After(archived) == {r \in audit_event : r.index > archived}

\* Nothing to archive is answered after the access is audited.
ReadRows(p) ==
    LET rows == After(segment[p].archived) IN
    /\ at[p] = "rows"
    /\ segment' = [segment EXCEPT ![p] = [NoSegment EXCEPT !.rows = rows]]
    /\ at' = [at EXCEPT ![p] = IF rows = {} THEN "begin" ELSE "put"]
    /\ UNCHANGED <<chainVars, audit_manifest, worm, audit_outbox, todo, view, claim>>

\* ORDER BY chain_index: the k-th row is the one with k rows up to it.
InOrder(rows) ==
    [k \in 1..Cardinality(rows) |->
        CHOOSE r \in rows : Cardinality({s \in rows : s.index <= r.index}) = k]

\* The document of the segment; its chain head is rolled forward over the rows, which
\* adds the hash of each of them to the head before the first.
Document(rows) ==
    LET seq == InOrder(rows) IN
    [index |-> Max({0} \cup {d.index : d \in audit_manifest}) + 1,
     first |-> seq[1].index, last |-> seq[Len(seq)].index, count |-> Len(seq),
     head |-> seq[1].prev \o [k \in DOMAIN seq |-> seq[k].hash]]

PutWorm(p) ==
    /\ at[p] = "put"
    /\ segment' = [segment EXCEPT ![p] = [NoSegment EXCEPT !.manifest = Document(segment[p].rows)]]
    /\ worm' = worm \cup {Document(segment[p].rows)}
    /\ at' = [at EXCEPT ![p] = "insert"]
    /\ UNCHANGED <<chainVars, audit_manifest, audit_outbox, todo, view, claim>>

\* The primary key (tenant, manifest_index) refuses the second row of the same index.
InsertManifest(p) ==
    LET taken == \E d \in audit_manifest : d.index = segment[p].manifest.index IN
    /\ at[p] = "insert"
    /\ audit_manifest' = IF taken THEN audit_manifest
                         ELSE audit_manifest \cup {segment[p].manifest}
    /\ at' = [at EXCEPT ![p] = IF taken THEN "failed" ELSE "begin"]
    /\ segment' = [segment EXCEPT ![p] = NoSegment]
    /\ todo' = [todo EXCEPT ![p] = IF taken THEN <<>> ELSE @]
    /\ UNCHANGED <<chainVars, worm, audit_outbox, view, claim>>

\* The WORM write is refused or the process dies.
ArchiveFails(p) ==
    /\ at[p] \in {"put", "insert"}
    /\ at' = [at EXCEPT ![p] = "failed"]
    /\ segment' = [segment EXCEPT ![p] = NoSegment]
    /\ todo' = [todo EXCEPT ![p] = <<>>]
    /\ UNCHANGED <<chainVars, audit_manifest, worm, audit_outbox, view, claim>>

-----------------------------------------------------------------------------
Step(p) ==
    \/ DispatchPending(p)
    \/ LockState(p)
    \/ InsertState(p)
    \/ AppendToChain(p)
    \/ Commit(p)
    \/ ReadArchived(p)
    \/ ReadRows(p)
    \/ PutWorm(p)
    \/ InsertManifest(p)

Next ==
    \/ \E p \in Procs, kind \in Kinds : Start(p, kind)
    \/ \E i \in Intents : EnqueueAudit(i)
    \/ \E p \in Procs : Step(p)
    \/ \E p \in Procs : Rollback(p)
    \/ \E p \in Procs : ArchiveFails(p)

Spec == Init /\ [][Next]_vars

\* A started request goes on: its coroutine is resumed when the statement it awaits returns.
FairSpec == Spec /\ \A p \in Procs : WF_vars(Step(p))

-----------------------------------------------------------------------------
(* verify_tenant_chain recomputes every row's hash and the head before it. *)
VerifyTenantChain ==
    LET rows == InOrder(audit_event) IN
    \A k \in DOMAIN rows : rows[k].prev = [j \in 1 .. k - 1 |-> rows[j].hash]

\* Whatever transactions interleave, roll back or race for the first row, the committed
\* events verify, are numbered without gaps, and the chain state is their head: no honest
\* history is ever reported as tampered with, and the next append will verify as well.
ChainVerifies ==
    LET rows == InOrder(audit_event) IN
    /\ VerifyTenantChain
    /\ \A k \in DOMAIN rows : rows[k].index = k
    /\ (chain_state = None) = (rows = <<>>)
    /\ chain_state # None =>
         /\ chain_state.index = Len(rows)
         /\ chain_state.head = [k \in DOMAIN rows |-> rows[k].hash]

\* An intent is in the trail exactly once when it is DISPATCHED and not at all before,
\* with two dispatchers and with a dispatcher that dies after some of its appends.
DispatchedExactlyOnce ==
    \A i \in Intents :
        Cardinality({r \in audit_event : r.hash.by = i})
            = IF audit_outbox[i] = "DISPATCHED" THEN 1 ELSE 0

\* Manifests leave no event out: each describes its segment with the chain's own head, and
\* its segment begins no later than right after another one's end.
ManifestsCoverChain ==
    \A d \in audit_manifest :
        /\ d.count = d.last - d.first + 1
        /\ \E r \in audit_event : r.index = d.last /\ d.head = ChainHash(r.prev, r.hash)
        /\ d.first = 1 \/ \E e \in audit_manifest : e.index < d.index /\ e.last >= d.first - 1

\* Every request ends: the chain lock and the locks of outbox rows are never held by
\* requests that wait for each other.
RequestsEnd == \A p \in Procs : at[p] # "idle" ~> at[p] \in {"done", "failed"}

\* Not kept: segments are archived once.  Two concurrent archiving requests read the last
\* archived index before either commits and the manifest index after (manifest.py:83-110).
SegmentsDisjoint ==
    \A d, e \in audit_manifest : d.index < e.index => d.last < e.first

\* Not kept: every access to the audit surface leaves evidence about itself.  The access is
\* audited in a second transaction, after the correction or the manifest is committed.
AccessLeavesEvidence ==
    \A p \in Procs : at[p] \in {"done", "failed"} =>
        \A r \in audit_event : r.hash = Fingerprint(p, "audit.correction") =>
            \E s \in audit_event : s.hash = Fingerprint(p, "audit.correct")
=============================================================================
