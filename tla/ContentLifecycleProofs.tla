----------------------- MODULE ContentLifecycleProofs -----------------------
(***************************************************************************)
(* Proofs about the content lifecycle of a tenant: what a completed        *)
(* deletion request, a served artifact, the retention sweep and an active  *)
(* legal hold promise, for any number of workers, requests, backends,      *)
(* holds and artifacts.                                                    *)
(*                                                                         *)
(* Holds, erasure and artifacts change separate variables, so the          *)
(* invariant has a part for each and a step has to show one of them.       *)
(***************************************************************************)
EXTENDS ContentLifecycle, TLAPS

-----------------------------------------------------------------------------
(* The inductive invariant *)

\* The policy in force is the default or one that was approved.
InForce(days) ==
    \/ days = DefaultDays
    \/ \E c \in Changes : retention_change[c].status = "APPROVED" /\ retention_change[c].days = days

PolicyOK == InForce(retention_days) /\ (sweep # Nobody => InForce(sweep))

\* Plane b has nothing left of what the tenant had when request r was made.
Erased(b, r) == \A x \in content[b] : x > request[r].written

RequestOK(r) ==
    /\ request[r].written <= writes
    /\ \A b \in proofs[r] : Erased(b, r)
    /\ request[r].status = "COMPLETED" => proofs[r] = Planes
    /\ request[r].status = "NONE" => proofs[r] = {}

WorkerRow == [at : {"idle", "selected", "erase", "verify", "store"},
              request : Requests \cup {Nobody}, backend : DOMAIN Backends,
              proofs : SUBSET Planes, ok : BOOLEAN]

\* A worker has a proof of every backend before the one it is at, and of all of them once
\* the executor has returned.
RowOK(row) ==
    row.at # "idle" =>
        /\ row.request \in Requests /\ request[row.request].status # "NONE"
        /\ \A b \in row.proofs : Erased(b, row.request)
        /\ row.at # "store" =>
             ~row.ok /\ row.proofs = {Backends[k] : k \in 1 .. row.backend - 1}
        /\ row.ok => row.proofs = Planes

WorkerOK(w) == RowOK(worker[w])

DeletionInv ==
    /\ DeletionTypeOK
    /\ \A r \in Requests : RequestOK(r)
    /\ \A w \in Workers : WorkerOK(w)

\* Artifact a was created for subject s.
Belongs(a, s) == stored[a] # "NONE" /\ owner[a] = s

OwnersOK == \A a \in Artifact : stored[a] # "NONE" => owner[a] \in Subjects
DownloadsOK == \A s \in Subjects : download[s] # Nobody => Belongs(download[s], s)
ServedOK == \A a \in Artifact, s \in Subjects : <<a, s>> \in served =>
                Belongs(a, s) /\ <<"artifact.accessed", a, s>> \in trail

\* The purge worker is at artifacts that were created.
PurgeOK ==
    /\ purge \in [at : {"idle", "unheld", "delete", "audit"}, left : SUBSET Artifact,
                  deleted : Artifact \cup {Nobody}]
    /\ \A a \in purge.left : stored[a] # "NONE"
    /\ purge.at = "audit" => purge.deleted \in Artifact /\ stored[purge.deleted] # "NONE"

ArtifactInv ==
    /\ ArtifactTypeOK /\ PurgeOK
    /\ OwnersOK /\ DownloadsOK /\ ServedOK /\ ReturnedIsAudited

Inv == HoldTypeOK /\ PolicyOK /\ DeletionInv /\ ArtifactInv /\ settings \in Deployments

-----------------------------------------------------------------------------
(* Holds and the policy *)

\* The rows of holds and policy changes under every step of an administrator.
LEMMA HoldTypes == HoldTypeOK /\ HoldNext => HoldTypeOK'
<1> SUFFICES ASSUME HoldTypeOK, HoldNext PROVE HoldTypeOK'
    BY Zenon
<1> USE RetentionAssumption
<1>1. ASSUME NEW h \in Holds, NEW u \in Initiators, CreateLegalHold(h, u) PROVE HoldTypeOK'
    BY ZenonT(60), <1>1 DEF CreateLegalHold, HoldTypeOK, Hold
<1>2. ASSUME NEW h \in Holds, NEW u \in Admins, ApproveLegalHold(h, u) PROVE HoldTypeOK'
    BY ZenonT(60), <1>2 DEF ApproveLegalHold, HoldTypeOK, Hold
<1>3. ASSUME NEW h \in Holds, NEW u \in Admins, ReleaseLegalHold(h, u) PROVE HoldTypeOK'
    BY ZenonT(60), <1>3 DEF ReleaseLegalHold, HoldTypeOK, Hold
<1>4. ASSUME NEW c \in Changes, NEW u \in Initiators, NEW d \in Days, ProposeRetention(c, u, d)
      PROVE  HoldTypeOK'
    BY <1>4 DEF ProposeRetention, HoldTypeOK, Change
<1>5. ASSUME NEW c \in Changes, NEW u \in Admins, ApproveRetention(c, u) PROVE HoldTypeOK'
    BY ZenonT(60), <1>5 DEF ApproveRetention, HoldTypeOK, Change
<1> QED
    BY Zenon, <1>1, <1>2, <1>3, <1>4, <1>5 DEF HoldNext

\* A policy that was in force stays one that was: an approved change is never proposed again.
LEMMA StaysInForce ==
    ASSUME HoldTypeOK, HoldNext
    PROVE  /\ \A days : InForce(days) => InForce(days)'
           /\ InForce(retention_days) => InForce(retention_days)'
<1>1. ASSUME NEW c \in Changes, NEW u \in Initiators, NEW d \in Days, ProposeRetention(c, u, d)
      PROVE  \A days : InForce(days) => InForce(days)'
    BY <1>1 DEF ProposeRetention, InForce, HoldTypeOK, Change
<1>2. ASSUME NEW c \in Changes, NEW u \in Admins, ApproveRetention(c, u)
      PROVE  (\A days : InForce(days) => InForce(days)') /\ InForce(retention_days)'
    <2>1. /\ retention_change'[c].status = "APPROVED"
          /\ retention_change'[c].days = retention_change[c].days
          /\ retention_days' = retention_change[c].days
        BY <1>2 DEF ApproveRetention, HoldTypeOK, Change
    <2>2. \A e \in Changes : e # c => retention_change'[e] = retention_change[e]
        BY Zenon, <1>2 DEF ApproveRetention, HoldTypeOK
    <2>3. \A e \in Changes : retention_change[e].status = "APPROVED" =>
            /\ retention_change'[e].status = "APPROVED"
            /\ retention_change'[e].days = retention_change[e].days
        BY Zenon, <2>1, <2>2
    <2> QED
        BY Zenon, <2>1, <2>3 DEF InForce
<1>3. (\E c \in Changes, u \in Initiators, d \in Days : ProposeRetention(c, u, d))
        => UNCHANGED retention_days
    BY Zenon DEF ProposeRetention
<1>4. \/ \E c \in Changes, u \in Initiators, d \in Days : ProposeRetention(c, u, d)
      \/ \E c \in Changes, u \in Admins : ApproveRetention(c, u)
      \/ UNCHANGED <<retention_change, retention_days>>
    BY Zenon DEF HoldNext, CreateLegalHold, ApproveLegalHold, ReleaseLegalHold
<1> QED
    BY Zenon, <1>1, <1>2, <1>3, <1>4 DEF InForce

-----------------------------------------------------------------------------
(* Erasure *)

\* A step writes at most the next item, and neither changes what a request is about nor
\* takes it back.
Onward ==
    /\ \A b \in Planes : content'[b] \subseteq content[b] \cup {writes + 1}
    /\ writes' \in {writes, writes + 1}
    /\ \A r \in Requests : request[r].status # "NONE" =>
         request'[r].status # "NONE" /\ request'[r].written = request[r].written

\* What was erased stays erased.
LEMMA StaysErased ==
    ASSUME DeletionTypeOK, Onward, NEW r \in Requests, RequestOK(r), request[r].status # "NONE",
           NEW b \in Planes, Erased(b, r)
    PROVE  Erased(b, r)'
<1>1. request'[r].written = request[r].written
    BY Zenon DEF Onward
<1>2. request[r].written \in 0..MaxWrites /\ writes \in 0..MaxWrites /\ MaxWrites \in Nat
    BY DeletionAssumption DEF DeletionTypeOK
<1>3. writes + 1 > request[r].written
    BY <1>2 DEF RequestOK
<1>4. \A x \in content'[b] : x \in content[b] \/ x = writes + 1
    BY Zenon DEF Onward
<1>5. \A x \in content'[b] : x > request[r].written
    BY Zenon, <1>3, <1>4 DEF Erased
<1> QED
    BY Zenon, <1>1, <1>5 DEF Erased

\* A request whose row and proofs a step leaves alone, or whose row it claims or blocks.
LEMMA RequestKept ==
    ASSUME DeletionTypeOK, Onward, NEW r \in Requests, RequestOK(r), proofs'[r] = proofs[r],
           request'[r].written = request[r].written,
           \/ request'[r].status = request[r].status
           \/ request[r].status # "NONE" /\ request'[r].status \notin {"COMPLETED", "NONE"}
    PROVE  RequestOK(r)'
<1>1. request'[r].written <= writes'
    <2>1. request[r].written \in 0..MaxWrites /\ writes \in 0..MaxWrites /\ MaxWrites \in Nat
        BY DeletionAssumption DEF DeletionTypeOK
    <2> QED
        BY <2>1 DEF Onward, RequestOK
<1>2. \A b \in proofs'[r] : Erased(b, r)'
    <2> SUFFICES ASSUME NEW b \in proofs'[r] PROVE Erased(b, r)'
        BY Zenon
    <2>1. b \in proofs[r] /\ b \in Planes
        BY Zenon DEF DeletionTypeOK
    <2>2. Erased(b, r) /\ request[r].status # "NONE"
        BY Zenon, <2>1 DEF RequestOK
    <2> QED
        BY Zenon, <2>1, <2>2, StaysErased
<1>3. request'[r].status = "COMPLETED" => proofs'[r] = Planes
    BY Zenon DEF RequestOK
<1>4. request'[r].status = "NONE" => proofs'[r] = {}
    BY Zenon DEF RequestOK
<1> QED
    BY Zenon, <1>1, <1>2, <1>3, <1>4 DEF RequestOK

\* A worker that a step leaves alone.
LEMMA WorkerKept ==
    ASSUME DeletionTypeOK, Onward, \A r \in Requests : RequestOK(r),
           NEW w \in Workers, WorkerOK(w), worker'[w] = worker[w]
    PROVE  WorkerOK(w)'
<1>1. PICK row : row = worker[w]
    BY Zenon
<1>2. row \in WorkerRow /\ RowOK(row) /\ worker'[w] = row
    BY Zenon, <1>1 DEF DeletionTypeOK, WorkerRow, WorkerOK
<1>3. \A b \in row.proofs : b \in Planes
    BY <1>2 DEF WorkerRow
<1>4. ASSUME row.at # "idle"
      PROVE  /\ request'[row.request].status # "NONE"
             /\ \A b \in row.proofs : Erased(b, row.request)'
    <2>1. PICK r : r = row.request
        BY Zenon
    <2>2. r \in Requests /\ request[r].status # "NONE" /\ \A b \in row.proofs : Erased(b, r)
        BY Zenon, <1>2, <1>4, <2>1 DEF RowOK
    <2>3. \A b \in row.proofs : Erased(b, r)'
        BY Zenon, <1>3, <2>2, StaysErased
    <2> QED
        BY Zenon, <2>1, <2>2, <2>3 DEF Onward
<1>5. RowOK(row)'
    BY Zenon, <1>2, <1>4 DEF RowOK
<1> QED
    BY Zenon, <1>2, <1>5 DEF WorkerOK

\* A step that writes no row: content, ages and the sweep.
LEMMA ContentStep ==
    ASSUME DeletionInv, Onward, DeletionTypeOK', UNCHANGED <<request, proofs, worker>>
    PROVE  DeletionInv'
<1>1. \A r \in Requests : RequestOK(r)'
    BY Zenon, RequestKept DEF DeletionInv
<1>2. \A w \in Workers : WorkerOK(w)'
    BY Zenon, WorkerKept DEF DeletionInv
<1> QED
    BY Zenon, <1>1, <1>2 DEF DeletionInv

\* A step of one worker.
LEMMA OneWorker ==
    ASSUME DeletionInv, Onward, DeletionTypeOK', \A r \in Requests : RequestOK(r)',
           NEW w \in Workers, WorkerOK(w)', \A v \in Workers : v # w => worker'[v] = worker[v]
    PROVE  DeletionInv'
<1>1. \A v \in Workers : v # w => WorkerOK(v)'
    BY Zenon, WorkerKept DEF DeletionInv
<1> QED
    BY Zenon, <1>1 DEF DeletionInv

\* The platform stores content, and it ages.
LEMMA WriteContentInv == DeletionInv /\ WriteContent => DeletionInv'
<1> SUFFICES ASSUME DeletionInv, WriteContent PROVE DeletionInv'
    BY Zenon
<1>1. DeletionTypeOK /\ MaxWrites \in Nat
    BY Zenon, DeletionAssumption DEF DeletionInv
<1>2. writes + 1 \in Items /\ writes + 1 \in 0..MaxWrites
    BY <1>1 DEF WriteContent, DeletionTypeOK, Items
<1>3. DeletionTypeOK'
    <2>1. content' \in [Planes -> SUBSET Items]
        BY <1>1, <1>2 DEF WriteContent, DeletionTypeOK
    <2> QED
        BY Zenon, <1>1, <1>2, <2>1 DEF WriteContent, DeletionTypeOK
<1>4. Onward
    BY Zenon DEF WriteContent, Onward
<1> QED
    BY Zenon, <1>3, <1>4, ContentStep DEF WriteContent

\* Steps of the sweep, and of time.
LEMMA SweepInv ==
    ASSUME HoldTypeOK, DeletionInv, SweepRead \/ SweepApply \/ \E x \in Items : Grow(x)
    PROVE  DeletionInv'
<1>1. DeletionTypeOK /\ MaxWrites \in Nat /\ MaxAge \in Nat
    BY Zenon, DeletionAssumption DEF DeletionInv
<1>2. CASE SweepRead
    <2>1. DeletionTypeOK'
        BY Zenon, <1>1, <1>2 DEF SweepRead, DeletionTypeOK, HoldTypeOK
    <2>2. Onward
        BY Zenon, <1>2 DEF SweepRead, Onward
    <2> QED
        BY Zenon, <1>2, <2>1, <2>2, ContentStep DEF SweepRead
<1>3. CASE SweepApply
    <2>1. content' \in [Planes -> SUBSET Items] /\ \A b \in Planes : content'[b] \subseteq content[b]
        BY Zenon, <1>1, <1>3 DEF SweepApply, DeletionTypeOK
    <2>2. DeletionTypeOK'
        BY Zenon, <1>1, <1>3, <2>1 DEF SweepApply, DeletionTypeOK
    <2>3. Onward
        BY Zenon, <1>3, <2>1 DEF SweepApply, Onward
    <2> QED
        BY Zenon, <1>3, <2>2, <2>3, ContentStep DEF SweepApply
<1>4. CASE \E x \in Items : Grow(x)
    <2>1. PICK x \in Items : Grow(x)
        BY Zenon, <1>4
    <2>2. age' \in [Items -> 0..MaxAge]
        BY <1>1, <2>1 DEF Grow, DeletionTypeOK
    <2>3. DeletionTypeOK'
        BY Zenon, <1>1, <2>1, <2>2 DEF Grow, DeletionTypeOK
    <2>4. Onward
        BY Zenon, <2>1 DEF Grow, Onward
    <2> QED
        BY Zenon, <2>1, <2>3, <2>4, ContentStep DEF Grow
<1> QED
    BY Zenon, <1>2, <1>3, <1>4

\* A tenant asks for erasure, and a claim becomes stale.
LEMMA RequestStep ==
    ASSUME DeletionInv, NEW r \in Requests, CreateDeletionRequest(r) \/ LeaseExpires(r)
    PROVE  DeletionInv'
<1>1. DeletionTypeOK /\ RequestOK(r) /\ writes \in 0..MaxWrites /\ MaxWrites \in Nat
    BY Zenon, DeletionAssumption DEF DeletionInv, DeletionTypeOK
<1>2. UNCHANGED <<proofs, content, age, worker, sweep, writes, failures>>
    BY Zenon DEF CreateDeletionRequest, LeaseExpires
<1>3. /\ request' \in [Requests -> [status : Statuses, stale : BOOLEAN, written : 0..MaxWrites]]
      /\ \A q \in Requests : q # r => request'[q] = request[q]
    <2>1. request \in [Requests -> [status : Statuses, stale : BOOLEAN, written : 0..MaxWrites]]
        BY Zenon, <1>1 DEF DeletionTypeOK
    <2>2. CASE CreateDeletionRequest(r)
        BY <1>1, <2>1, <2>2 DEF CreateDeletionRequest, Statuses
    <2>3. CASE LeaseExpires(r)
        BY Zenon, <1>1, <2>1, <2>3 DEF LeaseExpires
    <2> QED
        BY Zenon, <2>2, <2>3
<1>4. DeletionTypeOK'
    BY Zenon, <1>1, <1>2, <1>3 DEF DeletionTypeOK
<1>5. \/ request[r].status = "NONE" /\ request'[r].status = "PENDING" /\ request'[r].written = writes
      \/ request'[r].status = request[r].status /\ request'[r].written = request[r].written
    BY <1>1 DEF CreateDeletionRequest, LeaseExpires, DeletionTypeOK
<1>6. Onward
    BY Zenon, <1>2, <1>3, <1>5 DEF Onward
<1>7. \A q \in Requests : q # r => RequestOK(q)'
    BY Zenon, <1>1, <1>2, <1>3, <1>6, RequestKept DEF DeletionInv
<1>8. RequestOK(r)'
    <2>1. CASE request'[r].status = request[r].status /\ request'[r].written = request[r].written
        BY Zenon, <1>1, <1>2, <1>6, <2>1, RequestKept
    <2>2. CASE /\ request[r].status = "NONE" /\ request'[r].status = "PENDING"
               /\ request'[r].written = writes
        <3>1. proofs'[r] = {} /\ writes' = writes /\ writes <= writes
            BY <1>1, <1>2, <2>2 DEF RequestOK
        <3>2. request'[r].status # "NONE" /\ request'[r].status # "COMPLETED"
            BY <2>2
        <3> QED
            BY Zenon, <2>2, <3>1, <3>2 DEF RequestOK
    <2> QED
        BY Zenon, <1>5, <2>1, <2>2
<1>9. \A w \in Workers : WorkerOK(w)'
    BY Zenon, <1>1, <1>2, <1>6, WorkerKept DEF DeletionInv
<1> QED
    BY Zenon, <1>4, <1>7, <1>8, <1>9 DEF DeletionInv

\* The first backend, and the ones before it.
LEMMA FirstBackend ==
    /\ 1 \in DOMAIN Backends /\ {Backends[k] : k \in 1 .. 1 - 1} = {}
    /\ Len(Backends) \in Nat /\ DOMAIN Backends = 1 .. Len(Backends)
    /\ "SQL" \in Planes
<1>1. /\ Backends \in Seq({"SQL", "REDIS", "VECTOR", "OBJECT", "DERIVED", "BACKUP"})
      /\ Backends # <<>> /\ Backends[1] = "SQL"
    BY Zenon, DeletionAssumption
<1>2. Len(Backends) \in Nat /\ DOMAIN Backends = 1 .. Len(Backends) /\ 1 \in DOMAIN Backends
    BY <1>1
<1>3. {Backends[k] : k \in 1 .. 1 - 1} = {}
    OBVIOUS
<1> QED
    BY Zenon, <1>1, <1>2, <1>3 DEF Planes

\* A worker that is idle has nothing to be right about.
LEMMA IdleRow == Idle \in WorkerRow /\ RowOK(Idle)'
<1>1. Idle \in WorkerRow
    BY FirstBackend DEF Idle, WorkerRow
<1>2. Idle.at = "idle"
    BY DEF Idle
<1> QED
    BY Zenon, <1>1, <1>2 DEF RowOK

\* A worker gets a new row.
LEMMA WorkerTypes ==
    ASSUME DeletionTypeOK, NEW w \in Workers, NEW row \in WorkerRow,
           worker' = [worker EXCEPT ![w] = row]
    PROVE  /\ worker' \in [Workers -> WorkerRow] /\ worker'[w] = row
           /\ \A v \in Workers : v # w => worker'[v] = worker[v]
BY Zenon DEF DeletionTypeOK, WorkerRow

\* A worker moves on without writing rows of the database: it may erase.
LEMMA WorkerMoves ==
    ASSUME DeletionInv, NEW w \in Workers, NEW row \in WorkerRow,
           worker' = [worker EXCEPT ![w] = row],
           UNCHANGED <<request, proofs, age, sweep, writes>>, failures' \in 0..MaxFailures,
           content' \in [Planes -> SUBSET Items], \A b \in Planes : content'[b] \subseteq content[b],
           RowOK(row)'
    PROVE  DeletionInv'
<1>1. DeletionTypeOK /\ \A q \in Requests : RequestOK(q)
    BY Zenon DEF DeletionInv
<1>2. /\ worker' \in [Workers -> WorkerRow] /\ worker'[w] = row
      /\ \A v \in Workers : v # w => worker'[v] = worker[v]
    BY Zenon, <1>1, WorkerTypes
<1>3. DeletionTypeOK'
    BY Zenon, <1>1, <1>2 DEF DeletionTypeOK, WorkerRow
<1>4. Onward
    BY Zenon DEF Onward
<1>5. \A q \in Requests : RequestOK(q)'
    BY Zenon, <1>1, <1>4, RequestKept
<1>6. WorkerOK(w)'
    BY Zenon, <1>2 DEF WorkerOK
<1> QED
    BY Zenon, <1>2, <1>3, <1>4, <1>5, <1>6, OneWorker

\* run_once selects a request that is due.
LEMMA RunOnceInv ==
    ASSUME DeletionInv, NEW w \in Workers, NEW r \in Requests, RunOnce(w, r)
    PROVE  DeletionInv'
<1>1. PICK row : row = [Idle EXCEPT !.at = "selected", !.request = r]
    BY Zenon
<1>2. /\ row.at = "selected" /\ row.request = r /\ row.backend = 1 /\ row.proofs = {}
      /\ row.ok = FALSE /\ row \in WorkerRow
    BY Zenon, <1>1, FirstBackend DEF Idle, WorkerRow
<1>3. /\ worker' = [worker EXCEPT ![w] = row]
      /\ UNCHANGED <<request, proofs, content, age, sweep, writes, failures>>
    BY Zenon, <1>1 DEF RunOnce
<1>4. request'[r].status # "NONE"
    BY <1>3 DEF RunOnce, Due
<1>5. row.proofs = {Backends[k] : k \in 1 .. row.backend - 1} /\ row.at # "store"
    BY <1>2, FirstBackend
<1>6. RowOK(row)'
    BY Zenon, <1>2, <1>4, <1>5 DEF RowOK
<1>7. failures' \in 0..MaxFailures /\ content' \in [Planes -> SUBSET Items]
    BY Zenon, <1>3 DEF DeletionInv, DeletionTypeOK
<1> QED
    BY Zenon, <1>2, <1>3, <1>6, <1>7, WorkerMoves

\* A worker ends an attempt without storing anything, or dies.
LEMMA BackToIdle ==
    ASSUME DeletionInv, NEW w \in Workers, worker' = [worker EXCEPT ![w] = Idle],
           UNCHANGED <<request, proofs, content, age, sweep, writes>>, failures' \in 0..MaxFailures
    PROVE  DeletionInv'
<1>1. content' \in [Planes -> SUBSET Items] /\ \A b \in Planes : content'[b] \subseteq content[b]
    BY Zenon DEF DeletionInv, DeletionTypeOK
<1> QED
    BY Zenon, <1>1, IdleRow, WorkerMoves

\* A worker writes the row of the request it works on, and moves on.
LEMMA WorkerWrites ==
    ASSUME DeletionInv, NEW w \in Workers, NEW r \in Requests, NEW row \in WorkerRow,
           worker' = [worker EXCEPT ![w] = row], RowOK(row)',
           UNCHANGED <<content, age, sweep, writes, failures>>,
           request' \in [Requests -> [status : Statuses, stale : BOOLEAN, written : 0..MaxWrites]],
           \A q \in Requests : q # r => request'[q] = request[q] /\ proofs'[q] = proofs[q],
           request'[r].written = request[r].written, request'[r].status # "NONE",
           proofs' \in [Requests -> SUBSET Planes], \A b \in proofs'[r] : Erased(b, r),
           request'[r].status = "COMPLETED" => proofs'[r] = Planes
    PROVE  DeletionInv'
<1>1. DeletionTypeOK /\ \A q \in Requests : RequestOK(q)
    BY Zenon DEF DeletionInv
<1>2. /\ worker' \in [Workers -> WorkerRow] /\ worker'[w] = row
      /\ \A v \in Workers : v # w => worker'[v] = worker[v]
    BY Zenon, <1>1, WorkerTypes
<1>3. DeletionTypeOK'
    BY Zenon, <1>1, <1>2 DEF DeletionTypeOK, WorkerRow
<1>4. Onward
    BY Zenon DEF Onward
<1>5. \A q \in Requests : q # r => RequestOK(q)'
    BY Zenon, <1>1, <1>4, RequestKept
<1>6. RequestOK(r)'
    <2>1. request'[r].written <= writes'
        BY Zenon, <1>1 DEF RequestOK
    <2>2. \A b \in proofs'[r] : Erased(b, r)'
        BY Zenon DEF Erased
    <2> QED
        BY Zenon, <2>1, <2>2 DEF RequestOK
<1>7. WorkerOK(w)'
    BY Zenon, <1>2 DEF WorkerOK
<1> QED
    BY Zenon, <1>2, <1>3, <1>4, <1>5, <1>6, <1>7, OneWorker

\* The row of a worker and of the request it works on.
LEMMA Working ==
    ASSUME DeletionInv, NEW w \in Workers, worker[w].at # "idle"
    PROVE  /\ worker[w] \in WorkerRow /\ RowOK(worker[w])
           /\ worker[w].request \in Requests /\ request[worker[w].request].status # "NONE"
           /\ RequestOK(worker[w].request)
           /\ request[worker[w].request]
                \in [status : Statuses, stale : BOOLEAN, written : 0..MaxWrites]
<1>1. worker[w] \in WorkerRow /\ RowOK(worker[w])
    BY Zenon DEF DeletionInv, DeletionTypeOK, WorkerRow, WorkerOK
<1>2. worker[w].request \in Requests /\ request[worker[w].request].status # "NONE"
    BY Zenon, <1>1 DEF RowOK
<1> QED
    BY Zenon, <1>1, <1>2 DEF DeletionInv, DeletionTypeOK

\* The transaction that blocks, claims or skips the request.
LEMMA ProcessInv ==
    ASSUME DeletionInv, NEW w \in Workers, Process(w)
    PROVE  DeletionInv'
<1>1. PICK r : r = worker[w].request
    BY Zenon
<1>2. PICK old : old = worker[w]
    BY Zenon
<1>3. /\ worker[w].at = "selected" /\ old.at = "selected" /\ worker[w].at # "idle"
      /\ UNCHANGED <<proofs, content, age, sweep, writes, failures>>
    BY <1>2 DEF Process
<1>4. /\ old \in WorkerRow /\ RowOK(old) /\ r \in Requests /\ request[r].status # "NONE"
      /\ RequestOK(r) /\ old.request = r
    BY Zenon, <1>1, <1>2, <1>3, Working
<1>5. request \in [Requests -> [status : Statuses, stale : BOOLEAN, written : 0..MaxWrites]]
    BY Zenon DEF DeletionInv, DeletionTypeOK
<1>6. proofs' \in [Requests -> SUBSET Planes] /\ \A b \in proofs'[r] : Erased(b, r)
    BY Zenon, <1>3, <1>4 DEF DeletionInv, DeletionTypeOK, RequestOK
<1>7. CASE HoldActive
    <2>1. /\ request' = [request EXCEPT ![r].status = "BLOCKED_LEGAL_HOLD"]
          /\ worker' = [worker EXCEPT ![w] = Idle]
        BY <1>1, <1>7 DEF Process
    <2>2. /\ request' \in [Requests -> [status : Statuses, stale : BOOLEAN, written : 0..MaxWrites]]
          /\ \A q \in Requests : q # r => request'[q] = request[q]
          /\ request'[r].written = request[r].written
          /\ request'[r].status = "BLOCKED_LEGAL_HOLD"
        BY <1>4, <1>5, <2>1 DEF Statuses
    <2>3. request'[r].status # "NONE" /\ request'[r].status # "COMPLETED"
        BY <2>2
    <2> QED
        BY ZenonT(60), <1>3, <1>4, <1>6, <2>1, <2>2, <2>3, IdleRow, WorkerWrites
<1>8. CASE ~HoldActive /\ Due(request[r])
    <2>1. /\ request' = [request EXCEPT ![r].status = "PROCESSING", ![r].stale = FALSE]
          /\ worker' = [worker EXCEPT ![w].at = "erase"]
        BY <1>1, <1>8 DEF Process
    <2>2. /\ request' \in [Requests -> [status : Statuses, stale : BOOLEAN, written : 0..MaxWrites]]
          /\ \A q \in Requests : q # r => request'[q] = request[q]
          /\ request'[r].written = request[r].written
          /\ request'[r].status = "PROCESSING"
        BY ZenonT(60), <1>4, <1>5, <2>1 DEF Statuses
    <2>3. request'[r].status # "NONE" /\ request'[r].status # "COMPLETED"
        BY <2>2
    <2>4. PICK row : row = [old EXCEPT !.at = "erase"]
        BY Zenon
    <2>5. worker' = [worker EXCEPT ![w] = row]
        BY Zenon, <1>2, <2>1, <2>4
    <2>6. /\ row \in WorkerRow /\ row.at = "erase" /\ row.request = r /\ row.backend = old.backend
          /\ row.proofs = old.proofs /\ row.ok = old.ok
        BY <1>4, <2>4 DEF WorkerRow
    <2>7. \A b \in old.proofs : Erased(b, r)'
        BY Zenon, <1>3, <1>4, <2>2 DEF RowOK, Erased
    <2>8. /\ ~old.ok /\ old.proofs = {Backends[k] : k \in 1 .. old.backend - 1}
          /\ row.at # "store"
        BY Zenon, <1>3, <1>4, <2>6 DEF RowOK
    <2>9. RowOK(row)'
        BY Zenon, <1>4, <2>3, <2>6, <2>7, <2>8 DEF RowOK
    <2> QED
        BY Zenon, <1>3, <1>4, <1>6, <2>2, <2>3, <2>5, <2>6, <2>9, WorkerWrites
<1>9. CASE ~HoldActive /\ ~Due(request[r])
    <2>1. worker' = [worker EXCEPT ![w] = Idle] /\ UNCHANGED request
        BY <1>1, <1>9 DEF Process
    <2>2. failures' \in 0..MaxFailures
        BY Zenon, <1>3 DEF DeletionInv, DeletionTypeOK
    <2> QED
        BY Zenon, <1>3, <2>1, <2>2, BackToIdle
<1> QED
    BY Zenon, <1>7, <1>8, <1>9

\* A worker that goes on with the same request and the same proofs while content may only
\* shrink: the row it had was right, so the new one is.
LEMMA SameProofs ==
    ASSUME DeletionInv, NEW w \in Workers, worker[w].at # "idle", NEW row \in WorkerRow,
           row.request = worker[w].request, row.proofs = worker[w].proofs,
           row.backend = worker[w].backend, row.ok = worker[w].ok,
           worker[w].at # "store", UNCHANGED request,
           \A b \in Planes : content'[b] \subseteq content[b]
    PROVE  RowOK(row)'
<1>1. PICK r : r = row.request
    BY Zenon
<1>2. PICK old : old = worker[w]
    BY Zenon
<1>3. /\ old \in WorkerRow /\ RowOK(old) /\ r \in Requests /\ request[r].status # "NONE"
      /\ old.request = r
    BY Zenon, <1>1, <1>2, Working
<1>4. \A b \in old.proofs : b \in Planes
    BY <1>3 DEF WorkerRow
<1>5. \A b \in old.proofs : Erased(b, r)'
    BY Zenon, <1>2, <1>3, <1>4 DEF RowOK, Erased
<1>6. ~old.ok /\ old.proofs = {Backends[k] : k \in 1 .. old.backend - 1}
    BY Zenon, <1>2, <1>3 DEF RowOK
<1> QED
    BY Zenon, <1>1, <1>2, <1>3, <1>5, <1>6 DEF RowOK

\* The adapter erases, or only marks.
LEMMA EraseInv ==
    ASSUME DeletionInv, NEW w \in Workers, Erase(w)
    PROVE  DeletionInv'
<1>1. PICK old : old = worker[w]
    BY Zenon
<1>2. PICK row : row = [old EXCEPT !.at = "verify"]
    BY Zenon
<1>3. /\ worker[w].at = "erase" /\ worker[w].at # "idle" /\ worker[w].at # "store"
      /\ worker' = [worker EXCEPT ![w] = row]
      /\ UNCHANGED <<request, proofs, age, sweep, writes>>
    BY <1>1, <1>2 DEF Erase
<1>4. old \in WorkerRow
    BY Zenon, <1>1, <1>3, Working
<1>5. /\ row \in WorkerRow /\ row.request = old.request /\ row.proofs = old.proofs
      /\ row.backend = old.backend /\ row.ok = old.ok
    BY <1>2, <1>4 DEF WorkerRow
<1>6. content \in [Planes -> SUBSET Items] /\ failures \in 0..MaxFailures /\ MaxFailures \in Nat
    BY Zenon, DeletionAssumption DEF DeletionInv, DeletionTypeOK
<1>7. content' \in [Planes -> SUBSET Items] /\ \A b \in Planes : content'[b] \subseteq content[b]
    <2>1. content' = [content EXCEPT ![Plane(w)] = {}] \/ content' = content
        BY Zenon DEF Erase
    <2> QED
        BY <1>6, <2>1
<1>8. failures' \in 0..MaxFailures
    BY <1>6 DEF Erase
<1>9. RowOK(row)'
    BY Zenon, <1>1, <1>3, <1>5, <1>7, SameProofs
<1> QED
    BY Zenon, <1>3, <1>5, <1>7, <1>8, <1>9, WorkerMoves

\* Everything up to backend n is what was there before it and n itself.
LEMMA NextBackend ==
    ASSUME NEW n \in DOMAIN Backends
    PROVE  /\ {Backends[k] : k \in 1 .. n - 1} \cup {Backends[n]} = {Backends[k] : k \in 1 .. n}
           /\ n < Len(Backends) => n + 1 \in DOMAIN Backends /\ (n + 1) - 1 = n
           /\ ~(n < Len(Backends)) => {Backends[k] : k \in 1 .. n} = Planes
           /\ Backends[n] \in Planes
<1>1. n \in 1 .. Len(Backends) /\ Len(Backends) \in Nat /\ DOMAIN Backends = 1 .. Len(Backends)
    BY Zenon, FirstBackend
<1>2. \A k : k \in 1 .. n <=> k \in 1 .. n - 1 \/ k = n
    BY <1>1
<1>3. {Backends[k] : k \in 1 .. n - 1} \cup {Backends[n]} = {Backends[k] : k \in 1 .. n}
    BY Zenon, <1>2
<1>4. n < Len(Backends) => n + 1 \in DOMAIN Backends /\ (n + 1) - 1 = n
    BY <1>1
<1>5. ~(n < Len(Backends)) => 1 .. n = DOMAIN Backends
    BY <1>1
<1> QED
    BY Zenon, <1>3, <1>4, <1>5 DEF Planes

\* What verify_erased answers decides how the worker goes on.
LEMMA VerifyInv ==
    ASSUME DeletionInv, NEW w \in Workers, Verify(w)
    PROVE  DeletionInv'
<1>1. PICK old : old = worker[w]
    BY Zenon
<1>2. PICK r : r = old.request
    BY Zenon
<1>3. PICK b : b = Plane(w)
    BY Zenon
<1>4. /\ worker[w].at = "verify" /\ old.at # "idle" /\ old.at # "store"
      /\ UNCHANGED <<request, proofs, content, age, sweep, writes, failures>>
    BY <1>1 DEF Verify
<1>5. /\ old \in WorkerRow /\ RowOK(old) /\ r \in Requests /\ request[r].status # "NONE"
    BY Zenon, <1>1, <1>2, <1>4, Working
<1>6. /\ ~old.ok /\ old.proofs = {Backends[k] : k \in 1 .. old.backend - 1}
      /\ \A p \in old.proofs : Erased(p, r)
    BY Zenon, <1>2, <1>4, <1>5 DEF RowOK
<1>7. old.backend \in DOMAIN Backends /\ b = Backends[old.backend] /\ b \in Planes
    <2>1. old.backend \in DOMAIN Backends
        BY <1>5 DEF WorkerRow
    <2> QED
        BY Zenon, <1>1, <1>3, <2>1, NextBackend DEF Plane
<1>8. VerifyErased(b) => \A p \in old.proofs \cup {b} : Erased(p, r)'
    <2>1. \A p \in old.proofs : Erased(p, r)'
        BY Zenon, <1>4, <1>6 DEF Erased
    <2>2. VerifyErased(b) => Erased(b, r)'
        BY Zenon, <1>4 DEF Erased, VerifyErased
    <2> QED
        BY Zenon, <2>1, <2>2
<1>9. ASSUME NEW row \in WorkerRow, worker' = [worker EXCEPT ![w] = row], RowOK(row)'
      PROVE  DeletionInv'
    <2>1. failures' \in 0..MaxFailures /\ content' \in [Planes -> SUBSET Items]
        BY Zenon, <1>4 DEF DeletionInv, DeletionTypeOK
    <2> QED
        BY Zenon, <1>4, <1>9, <2>1, WorkerMoves
<1>10. CASE ~VerifyErased(b)
    <2>1. PICK row : row = [old EXCEPT !.at = "store", !.proofs = {}]
        BY Zenon
    <2>2. worker' = [worker EXCEPT ![w] = row]
        BY Zenon, <1>1, <1>3, <1>10, <2>1 DEF Verify
    <2>3. /\ row \in WorkerRow /\ row.at = "store" /\ row.proofs = {} /\ row.request = r
          /\ ~row.ok
        BY Zenon, <1>2, <1>5, <1>6, <2>1 DEF WorkerRow
    <2>4. RowOK(row)'
        BY Zenon, <1>4, <1>5, <2>3 DEF RowOK
    <2> QED
        BY Zenon, <1>9, <2>2, <2>3, <2>4
<1>11. CASE VerifyErased(b) /\ old.backend < Len(Backends)
    <2>1. PICK row : row = [old EXCEPT !.at = "erase", !.backend = @ + 1, !.proofs = @ \cup {b}]
        BY Zenon
    <2>2. worker' = [worker EXCEPT ![w] = row]
        BY Zenon, <1>1, <1>3, <1>11, <2>1 DEF Verify
    <2>3. old.backend + 1 \in DOMAIN Backends /\ (old.backend + 1) - 1 = old.backend
        BY Zenon, <1>7, <1>11, NextBackend
    <2>4. /\ row \in WorkerRow /\ row.at = "erase" /\ row.proofs = old.proofs \cup {b}
          /\ row.request = r /\ row.ok = old.ok /\ row.backend = old.backend + 1
        BY Zenon, <1>2, <1>5, <1>7, <2>1, <2>3 DEF WorkerRow
    <2>5. row.proofs = {Backends[k] : k \in 1 .. row.backend - 1}
        <3>1. row.backend - 1 = old.backend
            BY Zenon, <2>3, <2>4
        <3> QED
            BY ZenonT(60), <1>6, <1>7, <2>4, <3>1, NextBackend
    <2>6. RowOK(row)'
        BY Zenon, <1>4, <1>5, <1>6, <1>8, <1>11, <2>4, <2>5 DEF RowOK
    <2> QED
        BY Zenon, <1>9, <2>2, <2>4, <2>6
<1>12. CASE VerifyErased(b) /\ ~(old.backend < Len(Backends))
    <2>1. PICK row : row = [old EXCEPT !.at = "store", !.proofs = @ \cup {b}, !.ok = TRUE]
        BY Zenon
    <2>2. worker' = [worker EXCEPT ![w] = row]
        BY Zenon, <1>1, <1>3, <1>12, <2>1 DEF Verify
    <2>3. /\ row \in WorkerRow /\ row.at = "store" /\ row.proofs = old.proofs \cup {b}
          /\ row.request = r
        BY Zenon, <1>2, <1>5, <1>7, <2>1 DEF WorkerRow
    <2>4. row.proofs = Planes
        BY Zenon, <1>6, <1>7, <1>12, <2>3, NextBackend
    <2>5. RowOK(row)'
        BY Zenon, <1>4, <1>5, <1>8, <1>12, <2>3, <2>4 DEF RowOK
    <2> QED
        BY Zenon, <1>9, <2>2, <2>3, <2>5
<1> QED
    BY Zenon, <1>10, <1>11, <1>12

\* A backend raises, or the worker dies.
LEMMA FailureInv ==
    ASSUME DeletionInv, NEW w \in Workers, BackendFails(w) \/ WorkerDies(w)
    PROVE  DeletionInv'
<1>1. failures \in 0..MaxFailures /\ MaxFailures \in Nat /\ content \in [Planes -> SUBSET Items]
    BY Zenon, DeletionAssumption DEF DeletionInv, DeletionTypeOK
<1>2. /\ failures' \in 0..MaxFailures
      /\ UNCHANGED <<request, proofs, content, age, sweep, writes>>
    BY <1>1 DEF BackendFails, WorkerDies
<1>3. CASE WorkerDies(w)
    BY Zenon, <1>2, <1>3, BackToIdle DEF WorkerDies
<1>4. CASE BackendFails(w)
    <2>1. PICK old : old = worker[w]
        BY Zenon
    <2>2. PICK row : row = [old EXCEPT !.at = "store"]
        BY Zenon
    <2>3. /\ worker[w].at # "idle" /\ worker[w].at # "store"
          /\ worker' = [worker EXCEPT ![w] = row]
        BY <1>4, <2>1, <2>2 DEF BackendFails
    <2>4. old \in WorkerRow
        BY Zenon, <2>1, <2>3, Working
    <2>5. /\ row \in WorkerRow /\ row.request = old.request /\ row.proofs = old.proofs
          /\ row.backend = old.backend /\ row.ok = old.ok
        BY <2>2, <2>4 DEF WorkerRow
    <2>6. content' \in [Planes -> SUBSET Items] /\ \A b \in Planes : content'[b] \subseteq content[b]
        BY Zenon, <1>1, <1>2
    <2>7. RowOK(row)'
        BY Zenon, <1>2, <2>1, <2>3, <2>5, <2>6, SameProofs
    <2> QED
        BY Zenon, <1>2, <2>3, <2>5, <2>6, <2>7, WorkerMoves
<1> QED
    BY Zenon, <1>3, <1>4

\* The transaction that stores the proofs and the new status.
LEMMA StoreInv ==
    ASSUME DeletionInv, NEW w \in Workers, Store(w)
    PROVE  DeletionInv'
<1>1. PICK old : old = worker[w]
    BY Zenon
<1>2. PICK r : r = old.request
    BY Zenon
<1>3. PICK st : st = IF old.ok THEN "COMPLETED" ELSE "RETRYABLE"
    BY Zenon
<1>4. /\ old.at = "store" /\ old.at # "idle"
      /\ proofs' = [proofs EXCEPT ![r] = @ \cup old.proofs]
      /\ request' = [request EXCEPT ![r].status = st, ![r].stale = FALSE]
      /\ worker' = [worker EXCEPT ![w] = Idle]
      /\ UNCHANGED <<content, age, sweep, writes, failures>>
    BY <1>1, <1>2, <1>3 DEF Store
<1>5. /\ old \in WorkerRow /\ RowOK(old) /\ r \in Requests /\ RequestOK(r)
    BY Zenon, <1>1, <1>2, <1>4, Working
<1>6. /\ request \in [Requests -> [status : Statuses, stale : BOOLEAN, written : 0..MaxWrites]]
      /\ proofs \in [Requests -> SUBSET Planes]
    BY Zenon DEF DeletionInv, DeletionTypeOK
<1>7. st \in Statuses /\ st # "NONE" /\ (st = "COMPLETED" => old.ok)
    BY <1>3 DEF Statuses
<1>8. /\ request' \in [Requests -> [status : Statuses, stale : BOOLEAN, written : 0..MaxWrites]]
      /\ \A q \in Requests : q # r => request'[q] = request[q]
      /\ request'[r].written = request[r].written /\ request'[r].status = st
    BY Zenon, <1>4, <1>5, <1>6, <1>7
<1>9. old.proofs \subseteq Planes
    BY <1>5 DEF WorkerRow
<1>10. /\ proofs' \in [Requests -> SUBSET Planes] /\ proofs'[r] = proofs[r] \cup old.proofs
       /\ \A q \in Requests : q # r => proofs'[q] = proofs[q]
    BY <1>4, <1>5, <1>6, <1>9
<1>11. \A b \in proofs'[r] : Erased(b, r)
    BY Zenon, <1>2, <1>4, <1>5, <1>10 DEF RequestOK, RowOK
<1>12. request'[r].status = "COMPLETED" => proofs'[r] = Planes
    <2>1. ASSUME st = "COMPLETED" PROVE old.proofs = Planes
        BY Zenon, <1>4, <1>5, <1>7, <2>1 DEF RowOK
    <2>2. proofs[r] \subseteq Planes
        BY Zenon, <1>5, <1>6
    <2> QED
        BY Zenon, <1>8, <1>10, <2>1, <2>2
<1>13. request'[r].status # "NONE"
    BY Zenon, <1>7, <1>8
<1> QED
    BY ZenonT(60), <1>4, <1>5, <1>8, <1>10, <1>11, <1>12, <1>13, IdleRow, WorkerWrites

-----------------------------------------------------------------------------
(* Artifacts *)

\* A step neither takes an artifact back nor gives it another owner, and the trail only grows.
Kept == /\ \A a \in Artifact : stored[a] # "NONE" => stored'[a] # "NONE" /\ owner'[a] = owner[a]
        /\ trail \subseteq trail'

\* What was said of a download, of what was served and of the purge holds on.
LEMMA KeptFacts ==
    ASSUME ArtifactInv, Kept
    PROVE  /\ UNCHANGED download => DownloadsOK'
           /\ UNCHANGED served => ServedOK'
           /\ UNCHANGED purge => PurgeOK'
<1>1. \A s \in Subjects : download[s] # Nobody => download[s] \in Artifact
    BY Zenon DEF ArtifactInv, ArtifactTypeOK
<1>2. \A a \in purge.left : a \in Artifact
    BY Zenon DEF ArtifactInv, ArtifactTypeOK
<1>3. UNCHANGED download => DownloadsOK'
    BY ZenonT(60), <1>1 DEF ArtifactInv, Kept, DownloadsOK, Belongs
<1>4. UNCHANGED served => ServedOK'
    BY Zenon DEF ArtifactInv, Kept, ServedOK, Belongs
<1>5. UNCHANGED purge => PurgeOK'
    BY Zenon, <1>2 DEF ArtifactInv, Kept, PurgeOK
<1> QED
    BY Zenon, <1>3, <1>4, <1>5

\* The steps of a creation.
LEMMA CreationInv ==
    ASSUME ArtifactInv, NEW a \in Artifact,
           \/ \E s \in Subjects : CreateArtifact(a, s)
           \/ AuditCreated(a) \/ AuditCreatedRefused(a) \/ CreatorDies(a)
    PROVE  ArtifactInv'
<1>1. ArtifactTypeOK /\ OwnersOK /\ ReturnedIsAudited /\ MaxAborts \in Nat
    BY Zenon, ArtifactAssumption DEF ArtifactInv
<1>2. ASSUME NEW s \in Subjects, CreateArtifact(a, s) PROVE ArtifactInv'
    <2>1. /\ stored[a] = "NONE" /\ stored'[a] = "CREATING" /\ owner'[a] = s
          /\ \A x \in Artifact : x # a => stored'[x] = stored[x] /\ owner'[x] = owner[x]
          /\ UNCHANGED <<expired, tokens, download, served, trail, purge, aborts>>
        BY <1>1, <1>2 DEF CreateArtifact, ArtifactTypeOK
    <2>2. ArtifactTypeOK'
        <3>1. /\ stored' \in [Artifact -> {"NONE", "CREATING", "STORED", "ORPHAN", "DELETED"}]
              /\ owner' \in [Artifact -> Subjects \cup {Nobody}]
            BY <1>1, <1>2 DEF CreateArtifact, ArtifactTypeOK
        <3> QED
            BY Zenon, <1>1, <2>1, <3>1 DEF ArtifactTypeOK
    <2>3. stored'[a] # "NONE" /\ stored'[a] # "STORED"
        BY <2>1
    <2>4. Kept
        BY Zenon, <2>1 DEF Kept
    <2>5. OwnersOK'
        BY Zenon, <1>1, <2>1 DEF OwnersOK
    <2>6. ReturnedIsAudited'
        BY Zenon, <1>1, <2>1, <2>3 DEF ReturnedIsAudited
    <2> QED
        BY Zenon, <2>1, <2>2, <2>4, <2>5, <2>6, KeptFacts DEF ArtifactInv
<1>3. ASSUME AuditCreated(a) \/ AuditCreatedRefused(a) \/ CreatorDies(a) PROVE ArtifactInv'
    <2>1. /\ stored[a] = "CREATING" /\ stored'[a] \in {"STORED", "DELETED", "ORPHAN"}
          /\ \A x \in Artifact : x # a => stored'[x] = stored[x]
          /\ stored' \in [Artifact -> {"NONE", "CREATING", "STORED", "ORPHAN", "DELETED"}]
          /\ aborts' \in 0..MaxAborts
        BY <1>1, <1>3 DEF AuditCreated, AuditCreatedRefused, CreatorDies, ArtifactTypeOK
    <2>2. UNCHANGED <<owner, expired, tokens, download, served, purge>>
        BY Zenon, <1>3 DEF AuditCreated, AuditCreatedRefused, CreatorDies
    <2>3. owner[a] \in Subjects
        BY <1>1, <2>1 DEF OwnersOK
    <2>4. trail' = trail \/ trail' = trail \cup {<<"artifact.created", a, owner[a]>>}
        BY Zenon, <1>3 DEF AuditCreated, AuditCreatedRefused, CreatorDies, Audit
    <2>5. trail \subseteq trail' /\ trail' \subseteq ArtifactActions \X Artifact \X Subjects
        BY <1>1, <2>3, <2>4 DEF ArtifactTypeOK, ArtifactActions
    <2>6. stored'[a] = "STORED" => <<"artifact.created", a, owner[a]>> \in trail'
        BY <1>1, <1>3 DEF AuditCreated, AuditCreatedRefused, CreatorDies, ArtifactTypeOK, Audit
    <2>7. ArtifactTypeOK'
        BY Zenon, <1>1, <2>1, <2>2, <2>5 DEF ArtifactTypeOK
    <2>8. stored'[a] # "NONE"
        BY <2>1
    <2>9. Kept
        BY Zenon, <2>1, <2>2, <2>5, <2>8 DEF Kept
    <2>10. OwnersOK'
        BY Zenon, <1>1, <2>1, <2>2, <2>3 DEF OwnersOK
    <2>11. ReturnedIsAudited'
        BY Zenon, <1>1, <2>1, <2>2, <2>5, <2>6 DEF ReturnedIsAudited
    <2> QED
        BY Zenon, <2>2, <2>7, <2>9, <2>10, <2>11, KeptFacts DEF ArtifactInv
<1> QED
    BY Zenon, <1>2, <1>3

\* Steps that leave every artifact where it is.
LEMMA StoredKept ==
    ASSUME ArtifactInv, ArtifactTypeOK', UNCHANGED <<stored, owner>>, trail \subseteq trail',
           PurgeOK', DownloadsOK', ServedOK'
    PROVE  ArtifactInv'
BY Zenon DEF ArtifactInv, OwnersOK, ReturnedIsAudited

\* Artifacts and tokens expire, and tokens are issued.
LEMMA TokensInv ==
    ASSUME ArtifactInv,
           \/ \E a \in Artifact : ArtifactExpires(a)
           \/ \E a \in Artifact, s \in Subjects : TokenExpires(a, s) \/ IssueAccessToken(a, s)
           \/ \E a \in Artifact, s, t \in Subjects : DownloadDenied(a, s, t)
    PROVE  ArtifactInv'
<1>1. ArtifactTypeOK
    BY Zenon DEF ArtifactInv
<1>2. UNCHANGED <<stored, owner, download, served, purge, aborts>>
    BY Zenon DEF ArtifactExpires, TokenExpires, IssueAccessToken, DownloadDenied
<1>3. /\ trail \subseteq trail' /\ trail' \subseteq ArtifactActions \X Artifact \X Subjects
      /\ expired' \subseteq Artifact /\ tokens' \subseteq Artifact \X Subjects
    <2>1. ASSUME NEW a \in Artifact, ArtifactExpires(a)
          PROVE  /\ UNCHANGED trail
                 /\ expired' \subseteq Artifact /\ tokens' \subseteq Artifact \X Subjects
        BY <1>1, <2>1 DEF ArtifactExpires, ArtifactTypeOK
    <2>2. ASSUME NEW a \in Artifact, NEW s \in Subjects, TokenExpires(a, s)
          PROVE  /\ UNCHANGED trail
                 /\ expired' \subseteq Artifact /\ tokens' \subseteq Artifact \X Subjects
        BY <1>1, <2>2 DEF TokenExpires, ArtifactTypeOK
    <2>3. ASSUME NEW a \in Artifact, NEW s \in Subjects, IssueAccessToken(a, s)
          PROVE  /\ trail \subseteq trail' /\ trail' \subseteq ArtifactActions \X Artifact \X Subjects
                 /\ expired' \subseteq Artifact /\ tokens' \subseteq Artifact \X Subjects
        BY <1>1, <2>3 DEF IssueAccessToken, ArtifactTypeOK, Audit, ArtifactActions
    <2>4. ASSUME NEW a \in Artifact, NEW s \in Subjects, NEW t \in Subjects, DownloadDenied(a, s, t)
          PROVE  /\ trail \subseteq trail' /\ trail' \subseteq ArtifactActions \X Artifact \X Subjects
                 /\ expired' \subseteq Artifact /\ tokens' \subseteq Artifact \X Subjects
        BY <1>1, <2>4 DEF DownloadDenied, ArtifactTypeOK, ArtifactActions
    <2> QED
        BY Zenon, <1>1, <2>1, <2>2, <2>3, <2>4 DEF ArtifactTypeOK
<1>4. ArtifactTypeOK'
    BY Zenon, <1>1, <1>2, <1>3 DEF ArtifactTypeOK
<1>5. Kept
    BY Zenon, <1>2, <1>3 DEF Kept
<1> QED
    BY Zenon, <1>2, <1>3, <1>4, <1>5, KeptFacts, StoredKept

\* A download reads the bytes, and returns them after the audit write.
LEMMA DownloadInv ==
    ASSUME ArtifactInv, NEW s \in Subjects,
           \/ \E a \in Artifact, t \in Subjects : DownloadRead(a, s, t)
           \/ DownloadServe(s)
    PROVE  ArtifactInv'
<1>1. ArtifactTypeOK /\ DownloadsOK /\ ServedOK
    BY Zenon DEF ArtifactInv
<1>2. CASE \E a \in Artifact, t \in Subjects : DownloadRead(a, s, t)
    <2>1. PICK a \in Artifact, t \in Subjects : DownloadRead(a, s, t)
        BY Zenon, <1>2
    <2>2. /\ UNCHANGED <<stored, owner, expired, tokens, served, trail, purge, aborts>>
          /\ download' = [download EXCEPT ![s] = a]
        BY Zenon, <2>1 DEF DownloadRead
    <2>3. /\ download' \in [Subjects -> Artifact \cup {Nobody}] /\ download'[s] = a
          /\ \A x \in Subjects : x # s => download'[x] = download[x]
        BY <1>1, <2>2 DEF ArtifactTypeOK
    <2>4. Belongs(a, s)
        BY <2>1 DEF DownloadRead, Owned, Readable, Belongs
    <2>5. ArtifactTypeOK'
        BY Zenon, <1>1, <2>2, <2>3 DEF ArtifactTypeOK
    <2>6. Kept
        BY Zenon, <2>2 DEF Kept
    <2>7. DownloadsOK'
        BY Zenon, <1>1, <2>2, <2>3, <2>4 DEF DownloadsOK, Belongs
    <2> QED
        BY Zenon, <2>2, <2>5, <2>6, <2>7, KeptFacts, StoredKept
<1>3. CASE DownloadServe(s)
    <2>1. PICK a : a = download[s]
        BY Zenon
    <2>2. /\ a # Nobody /\ UNCHANGED <<stored, owner, expired, tokens, purge, aborts>>
          /\ trail' = trail \cup {<<"artifact.accessed", a, s>>}
          /\ served' = served \cup {<<a, s>>}
          /\ download' = [download EXCEPT ![s] = Nobody]
        BY Zenon, <1>3, <2>1 DEF DownloadServe, Audit
    <2>3. /\ download' \in [Subjects -> Artifact \cup {Nobody}] /\ download'[s] = Nobody
          /\ \A x \in Subjects : x # s => download'[x] = download[x]
        BY <1>1, <2>2 DEF ArtifactTypeOK
    <2>4. a \in Artifact /\ Belongs(a, s)
        BY Zenon, <1>1, <2>1, <2>2 DEF ArtifactTypeOK, DownloadsOK
    <2>5. /\ trail' \subseteq ArtifactActions \X Artifact \X Subjects
          /\ served' \subseteq Artifact \X Subjects
        BY <1>1, <2>2, <2>4 DEF ArtifactTypeOK, ArtifactActions
    <2>6. ArtifactTypeOK'
        BY Zenon, <1>1, <2>2, <2>3, <2>5 DEF ArtifactTypeOK
    <2>7. Kept
        BY Zenon, <2>2 DEF Kept
    <2>8. DownloadsOK'
        BY Zenon, <1>1, <2>2, <2>3 DEF DownloadsOK, Belongs
    <2>9. ServedOK'
        <3> SUFFICES ASSUME NEW x \in Artifact, NEW u \in Subjects, <<x, u>> \in served'
                     PROVE  Belongs(x, u)' /\ <<"artifact.accessed", x, u>> \in trail'
            BY Zenon DEF ServedOK
        <3>1. <<x, u>> \in served \/ (x = a /\ u = s)
            BY <2>2
        <3>2. Belongs(x, u) /\ <<"artifact.accessed", x, u>> \in trail'
            BY Zenon, <1>1, <2>2, <2>4, <3>1 DEF ServedOK
        <3> QED
            BY Zenon, <2>2, <3>2 DEF Belongs
    <2> QED
        BY Zenon, <2>2, <2>6, <2>7, <2>8, <2>9, KeptFacts, StoredKept
<1> QED
    BY Zenon, <1>2, <1>3

\* The purge worker looks up the holds, lists, deletes and audits.
LEMMA PurgeInv ==
    ASSUME ArtifactInv, PurgeStep \/ PurgeAborts
    PROVE  ArtifactInv'
<1>1. /\ ArtifactTypeOK /\ PurgeOK /\ OwnersOK /\ ReturnedIsAudited /\ MaxAborts \in Nat
    BY Zenon, ArtifactAssumption DEF ArtifactInv
<1>2. UNCHANGED <<owner, expired, tokens, download, served>>
    BY Zenon DEF PurgeStep, PurgeCheck, PurgeList, PurgeDelete, PurgeAudit, PurgeAborts
<1>3. ASSUME UNCHANGED <<stored, trail>>, PurgeOK', aborts' \in 0..MaxAborts PROVE ArtifactInv'
    <2>1. purge'.at \in {"idle", "unheld", "delete", "audit"} /\ purge'.left \subseteq Artifact
        BY <1>3 DEF PurgeOK
    <2>2. ArtifactTypeOK'
        BY Zenon, <1>1, <1>2, <1>3, <2>1 DEF ArtifactTypeOK
    <2>3. Kept
        BY Zenon, <1>2, <1>3 DEF Kept
    <2> QED
        BY Zenon, <1>2, <1>3, <2>2, <2>3, KeptFacts, StoredKept
<1>4. ASSUME PurgeCheck \/ PurgeList \/ PurgeAborts PROVE ArtifactInv'
    <2>1. UNCHANGED <<stored, trail>> /\ aborts' \in 0..MaxAborts
        BY <1>1, <1>4 DEF PurgeCheck, PurgeList, PurgeAborts, ArtifactTypeOK
    <2>2. PurgeOK'
        <3>1. CASE PurgeCheck
            BY <1>1, <2>1, <3>1 DEF PurgeCheck, PurgeOK
        <3>2. CASE PurgeList
            BY <1>1, <2>1, <3>2 DEF PurgeList, PurgeOK, ListExpired, Readable, Resting, ArtifactTypeOK
        <3>3. CASE PurgeAborts
            BY <1>1, <2>1, <3>3 DEF PurgeAborts, PurgeOK, Resting
        <3> QED
            BY Zenon, <1>4, <3>1, <3>2, <3>3
    <2> QED
        BY Zenon, <1>3, <2>1, <2>2
<1>5. ASSUME PurgeAudit PROVE ArtifactInv'
    <2>1. PICK a : a = purge.deleted
        BY Zenon
    <2>2. /\ trail' = trail \cup {<<"artifact.expired", a, owner[a]>>}
          /\ purge.at = "audit" /\ UNCHANGED <<stored, aborts>>
        BY Zenon, <1>5, <2>1 DEF PurgeAudit, Audit
    <2>3. a \in Artifact /\ owner[a] \in Subjects
        BY Zenon, <1>1, <2>1, <2>2 DEF PurgeOK, OwnersOK
    <2>4. trail' \subseteq ArtifactActions \X Artifact \X Subjects
        BY <1>1, <2>2, <2>3 DEF ArtifactTypeOK, ArtifactActions
    <2>5. PurgeOK'
        BY Zenon, <1>1, <1>5, <2>2 DEF PurgeAudit, PurgeOK, Resting
    <2>6. purge'.at \in {"idle", "unheld", "delete", "audit"} /\ purge'.left \subseteq Artifact
        BY <2>5 DEF PurgeOK
    <2>7. ArtifactTypeOK'
        BY Zenon, <1>1, <1>2, <2>2, <2>4, <2>6 DEF ArtifactTypeOK
    <2>8. Kept
        BY Zenon, <1>2, <2>2 DEF Kept
    <2>9. trail \subseteq trail'
        BY Zenon, <2>2
    <2> QED
        BY Zenon, <1>2, <2>2, <2>5, <2>7, <2>8, <2>9, KeptFacts, StoredKept
<1>6. ASSUME NEW a \in Artifact, PurgeDelete(a) PROVE ArtifactInv'
    <2>1. /\ stored' \in [Artifact -> {"NONE", "CREATING", "STORED", "ORPHAN", "DELETED"}]
          /\ stored'[a] = "DELETED" /\ \A x \in Artifact : x # a => stored'[x] = stored[x]
          /\ UNCHANGED <<trail, aborts>> /\ stored[a] # "NONE"
        BY <1>1, <1>6 DEF PurgeDelete, ArtifactTypeOK, PurgeOK
    <2>2. stored'[a] # "NONE" /\ stored'[a] # "STORED"
        BY <2>1
    <2>3. PurgeOK'
        BY <1>1, <1>6, <2>1, <2>2 DEF PurgeDelete, PurgeOK
    <2>4. purge'.at \in {"idle", "unheld", "delete", "audit"} /\ purge'.left \subseteq Artifact
        BY <2>3 DEF PurgeOK
    <2>5. ArtifactTypeOK'
        BY Zenon, <1>1, <1>2, <2>1, <2>4 DEF ArtifactTypeOK
    <2>6. Kept
        BY Zenon, <1>2, <2>1, <2>2 DEF Kept
    <2>7. OwnersOK' /\ ReturnedIsAudited'
        BY Zenon, <1>1, <1>2, <2>1, <2>2 DEF OwnersOK, ReturnedIsAudited
    <2> QED
        BY Zenon, <1>2, <2>3, <2>5, <2>6, <2>7, KeptFacts DEF ArtifactInv
<1> QED
    BY Zenon, <1>4, <1>5, <1>6 DEF PurgeStep

\* Every step of the artifact service and of its purge worker.
LEMMA ArtifactsInv == ArtifactInv /\ ArtifactNext => ArtifactInv'
BY Zenon, CreationInv, TokensInv, DownloadInv, PurgeInv DEF ArtifactNext

-----------------------------------------------------------------------------
(* All steps *)

LEMMA Initially == Init => Inv
<1> SUFFICES ASSUME Init PROVE Inv
    BY Zenon
<1> USE RetentionAssumption, DeletionAssumption, ArtifactAssumption
<1>1. HoldTypeOK /\ PolicyOK
    BY DEF Init, HoldInit, DeletionInit, HoldTypeOK, PolicyOK, InForce, Hold, Change
<1>2. DeletionTypeOK
    <2>1. /\ request \in [Requests -> [status : Statuses, stale : BOOLEAN, written : 0..MaxWrites]]
          /\ age \in [Items -> 0..MaxAge] /\ writes \in 0..MaxWrites /\ failures \in 0..MaxFailures
        BY DEF Init, DeletionInit, Statuses
    <2>2. worker \in [Workers -> WorkerRow]
        BY Zenon, IdleRow DEF Init, DeletionInit
    <2> QED
        BY Zenon, <2>1, <2>2 DEF Init, DeletionInit, DeletionTypeOK, WorkerRow
<1>3. \A r \in Requests : RequestOK(r)
    <2> SUFFICES ASSUME NEW r \in Requests PROVE RequestOK(r)
        BY Zenon
    <2>1. request[r].status = "NONE" /\ request[r].written = 0 /\ proofs[r] = {} /\ writes = 0
        BY DEF Init, DeletionInit
    <2> QED
        BY <2>1 DEF RequestOK
<1>4. \A w \in Workers : WorkerOK(w)
    BY DEF Init, DeletionInit, WorkerOK, RowOK, Idle
<1>5. ArtifactInv
    BY DEF Init, ArtifactInit, ArtifactInv, ArtifactTypeOK, PurgeOK, OwnersOK, DownloadsOK, ServedOK,
           ReturnedIsAudited, Resting
<1> QED
    BY Zenon, <1>1, <1>2, <1>3, <1>4, <1>5 DEF Init, Inv, DeletionInv

\* The part of the invariant a step leaves alone holds on.
LEMMA PartsKept ==
    /\ HoldTypeOK /\ UNCHANGED holdVars => HoldTypeOK'
    /\ DeletionInv /\ UNCHANGED deletionVars => DeletionInv'
    /\ ArtifactInv /\ UNCHANGED artifactVars => ArtifactInv'
<1>1. HoldTypeOK /\ UNCHANGED holdVars => HoldTypeOK'
    BY Zenon DEF HoldTypeOK, holdVars
<1>2. DeletionInv /\ UNCHANGED deletionVars => DeletionInv'
    BY ZenonT(60) DEF DeletionInv, DeletionTypeOK, RequestOK, WorkerOK, RowOK, Erased, deletionVars
<1>3. ArtifactInv /\ UNCHANGED artifactVars => ArtifactInv'
    BY ZenonT(60) DEF ArtifactInv, ArtifactTypeOK, PurgeOK, OwnersOK, DownloadsOK, ServedOK, Belongs,
                 ReturnedIsAudited, artifactVars
<1> QED
    BY Zenon, <1>1, <1>2, <1>3

\* The steps of erasure, in one formula.
DeletionNext ==
    \/ WriteContent \/ SweepRead \/ SweepApply
    \/ \E x \in Items : Grow(x)
    \/ \E r \in Requests : CreateDeletionRequest(r) \/ LeaseExpires(r)
    \/ \E w \in Workers : WorkerStep(w) \/ BackendFails(w) \/ WorkerDies(w)

LEMMA ErasureInv == HoldTypeOK /\ DeletionInv /\ DeletionNext => DeletionInv'
BY Zenon, WriteContentInv, SweepInv, RequestStep, RunOnceInv, ProcessInv, EraseInv, VerifyInv,
   StoreInv, FailureInv DEF DeletionNext, WorkerStep

\* A step is one of an administrator, of erasure and the sweep, or of the artifact service.
LEMMA Steps ==
    ASSUME Next
    PROVE  /\ UNCHANGED settings
           /\ \/ HoldNext /\ UNCHANGED <<deletionVars, artifactVars>>
              \/ DeletionNext /\ UNCHANGED <<holdVars, artifactVars>>
              \/ ArtifactNext /\ UNCHANGED <<holdVars, deletionVars>>
BY Zenon DEF Next, Others, Purges, DeletionNext

LEMMA PolicyKept == HoldTypeOK /\ PolicyOK /\ Next => PolicyOK'
<1> SUFFICES ASSUME HoldTypeOK, PolicyOK, Next PROVE PolicyOK'
    BY Zenon
<1>1. CASE HoldNext /\ UNCHANGED <<deletionVars, artifactVars>>
    BY Zenon, <1>1, StaysInForce DEF PolicyOK, deletionVars
<1>2. CASE UNCHANGED holdVars
    <2>1. \A days : InForce(days) => InForce(days)'
        BY Zenon, <1>2 DEF InForce, holdVars
    <2>2. sweep' \in {sweep, Nobody, retention_days} /\ retention_days' = retention_days
        BY Zenon, <1>2, Steps DEF DeletionNext, WriteContent, SweepRead, SweepApply, Grow,
           CreateDeletionRequest, LeaseExpires, WorkerStep, RunOnce, Process, Erase, Verify, Store,
           BackendFails, WorkerDies, deletionVars, holdVars
    <2> QED
        BY Zenon, <2>1, <2>2 DEF PolicyOK
<1> QED
    BY Zenon, <1>1, <1>2, Steps

LEMMA Inductive == Inv /\ [Next]_vars => Inv'
<1> SUFFICES ASSUME Inv, [Next]_vars PROVE Inv'
    BY Zenon
<1>1. CASE Next
    <2>1. HoldTypeOK' /\ DeletionInv' /\ ArtifactInv'
        BY Zenon, <1>1, Steps, HoldTypes, ErasureInv, ArtifactsInv, PartsKept DEF Inv
    <2> QED
        BY Zenon, <1>1, <2>1, Steps, PolicyKept DEF Inv
<1>2. CASE UNCHANGED vars
    <2>1. UNCHANGED holdVars /\ UNCHANGED deletionVars /\ UNCHANGED artifactVars /\ UNCHANGED settings
        BY Zenon, <1>2 DEF vars
    <2>2. PolicyOK'
        BY Zenon, <2>1 DEF Inv, PolicyOK, InForce, holdVars, deletionVars
    <2> QED
        BY Zenon, <2>1, <2>2, PartsKept DEF Inv
<1> QED
    BY Zenon, <1>1, <1>2

\* Holds, requests, workers and artifacts stay as the invariant describes them.
THEOREM Invariance == Spec => []Inv
BY Initially, Inductive, PTL DEF Spec

\* Every row of the lifecycle keeps its shape.
THEOREM TypeCorrect == Spec => []TypeOK
<1>1. Inv => TypeOK
    BY Zenon DEF Inv, DeletionInv, ArtifactInv, TypeOK
<1> QED
    BY <1>1, Invariance, PTL

\* A completed request left nothing of what the tenant had when it was made, and has a
\* verified proof of every plane: writers, a second worker and failed attempts included.
THEOREM CompletedErased == Spec => []CompletedMeansErased
<1>1. Inv => CompletedMeansErased
    <2> SUFFICES ASSUME Inv, NEW r \in Requests, request[r].status = "COMPLETED"
                 PROVE  /\ \A b \in Planes : \A x \in content[b] : x > request[r].written
                        /\ proofs[r] = Planes
        BY Zenon DEF CompletedMeansErased
    <2> QED
        BY Zenon DEF Inv, DeletionInv, RequestOK, Erased
<1> QED
    BY <1>1, Invariance, PTL

\* Bytes of an artifact are returned only to its owner, and with the audit event.
THEOREM ServedToOwner == Spec => []ServedToOwnerAndAudited
<1>1. Inv => ServedToOwnerAndAudited
    BY Zenon DEF Inv, ArtifactInv, ServedOK, Belongs, ServedToOwnerAndAudited
<1> QED
    BY <1>1, Invariance, PTL

\* What create returned has its creation in the audit chain.
THEOREM CreationsAudited == Spec => []ReturnedIsAudited
<1>1. Inv => ReturnedIsAudited
    BY Zenon DEF Inv, ArtifactInv
<1> QED
    BY <1>1, Invariance, PTL

\* The retention sweep removes only what some policy in force at some time lets expire.
THEOREM SweepsWithinPolicy == Spec => SweepWithinPolicy
<1> DEFINE Within ==
      \A x \in content["SQL"] \ content'["SQL"] : sweep # Nobody /\ sweep' = Nobody =>
          \/ age[x] > DefaultDays
          \/ \E c \in Changes : /\ retention_change[c].status = "APPROVED"
                               /\ age[x] > retention_change[c].days
<1>1. Inv /\ [Next]_vars => [Within]_deletionVars
    <2> SUFFICES ASSUME Inv, Next, NEW x \in content["SQL"] \ content'["SQL"],
                        sweep # Nobody, sweep' = Nobody
                 PROVE  \/ age[x] > DefaultDays
                        \/ \E c \in Changes : /\ retention_change[c].status = "APPROVED"
                                             /\ age[x] > retention_change[c].days
        BY Zenon DEF vars
    <2>1. SweepApply
        BY Zenon, Steps DEF DeletionNext, WriteContent, SweepRead, Grow,
           CreateDeletionRequest, LeaseExpires, WorkerStep, RunOnce, Process, Erase, Verify, Store,
           BackendFails, WorkerDies, deletionVars
    <2>2. age[x] > sweep
        <3>1. content \in [Planes -> SUBSET Items]
            BY Zenon DEF Inv, DeletionInv, DeletionTypeOK
        <3>2. content'["SQL"] = {y \in content["SQL"] : ~Expired(y, sweep)}
            BY Zenon, <2>1, <3>1, FirstBackend DEF SweepApply
        <3> QED
            BY Zenon, <3>2 DEF Expired
    <2>3. InForce(sweep)
        BY Zenon DEF Inv, PolicyOK
    <2> QED
        BY Zenon, <2>2, <2>3 DEF InForce
<1> QED
    BY <1>1, Invariance, PTL DEF Spec, SweepWithinPolicy

\* While a hold is active, and nobody is past the lookup, nobody gets past it: workers block
\* the request they selected, and neither sweep nor purge begins.
LEMMA QuietStays == DeletionTypeOK /\ HoldActive /\ Quiet /\ Next => Quiet'
<1> SUFFICES ASSUME DeletionTypeOK, HoldActive, Quiet, Next PROVE Quiet'
    BY Zenon
<1>1. (\A w \in Workers : worker'[w].at \in {"idle", "selected"}) /\ sweep' = Nobody
    <2>1. CASE UNCHANGED deletionVars
        BY Zenon, <2>1 DEF deletionVars, Quiet
    <2>2. CASE DeletionNext
        <3>1. ASSUME NEW w \in Workers, UNCHANGED sweep,
                     \/ worker' = [worker EXCEPT ![w] = Idle]
                     \/ \E r \in Requests : worker' = [worker EXCEPT ![w] =
                           [Idle EXCEPT !.at = "selected", !.request = r]]
              PROVE  (\A v \in Workers : worker'[v].at \in {"idle", "selected"}) /\ sweep' = Nobody
            <4>1. PICK row : /\ worker' = [worker EXCEPT ![w] = row]
                             /\ row.at \in {"idle", "selected"}
                <5>1. Idle.at = "idle"
                    BY DEF Idle
                <5>2. \A r \in Requests : [Idle EXCEPT !.at = "selected", !.request = r].at = "selected"
                    BY DEF Idle
                <5> QED
                    BY Zenon, <3>1, <5>1, <5>2
            <4>2. worker'[w] = row /\ \A v \in Workers : v # w => worker'[v] = worker[v]
                BY Zenon, <4>1 DEF DeletionTypeOK
            <4> QED
                BY Zenon, <3>1, <4>1, <4>2 DEF Quiet
        <3>2. ASSUME NEW w \in Workers, WorkerStep(w) \/ BackendFails(w) \/ WorkerDies(w)
              PROVE  /\ UNCHANGED sweep
                     /\ \/ worker' = [worker EXCEPT ![w] = Idle]
                        \/ \E r \in Requests : worker' = [worker EXCEPT ![w] =
                              [Idle EXCEPT !.at = "selected", !.request = r]]
            <4>1. worker[w].at \notin {"erase", "verify", "store"}
                BY DEF Quiet
            <4>2. /\ UNCHANGED sweep
                  /\ (\E r \in Requests : RunOnce(w, r)) \/ Process(w) \/ WorkerDies(w)
                BY Zenon, <3>2, <4>1 DEF WorkerStep, RunOnce, Process, Erase, Verify, Store,
                   BackendFails, WorkerDies
            <4>3. Process(w) => worker' = [worker EXCEPT ![w] = Idle]
                BY DEF Process
            <4> QED
                BY Zenon, <4>2, <4>3 DEF RunOnce, WorkerDies
        <3>3. CASE \E w \in Workers : WorkerStep(w) \/ BackendFails(w) \/ WorkerDies(w)
            BY Zenon, <3>1, <3>2, <3>3
        <3>4. CASE UNCHANGED worker
            <4>1. sweep' = Nobody
                BY Zenon, <2>2 DEF Quiet, DeletionNext, WriteContent, SweepRead, SweepApply, Grow,
                   CreateDeletionRequest, LeaseExpires, WorkerStep, RunOnce, Process, Erase, Verify,
                   Store, BackendFails, WorkerDies
            <4> QED
                BY Zenon, <3>4, <4>1 DEF Quiet
        <3> QED
            BY Zenon, <2>2, <3>3, <3>4 DEF DeletionNext, WriteContent, SweepRead, SweepApply, Grow,
               CreateDeletionRequest, LeaseExpires
    <2> QED
        BY Zenon, <2>1, <2>2, Steps
<1>2. purge'.at = "idle"
    <2>1. CASE UNCHANGED artifactVars
        BY Zenon, <2>1 DEF artifactVars, Quiet
    <2>2. CASE ArtifactNext
        <3>1. purge.at = "idle" /\ purge.at \notin {"unheld", "delete", "audit"}
            BY DEF Quiet
        <3>2. UNCHANGED purge
            BY Zenon, <2>2, <3>1 DEF ArtifactNext, CreateArtifact, AuditCreated, AuditCreatedRefused,
               CreatorDies, ArtifactExpires, TokenExpires, IssueAccessToken, DownloadRead,
               DownloadDenied, DownloadServe, PurgeStep, PurgeCheck, PurgeList, PurgeDelete,
               PurgeAudit, PurgeAborts
        <3> QED
            BY Zenon, <3>1, <3>2
    <2> QED
        BY Zenon, <2>1, <2>2, Steps
<1> QED
    BY Zenon, <1>1, <1>2 DEF Quiet

\* An active hold keeps all content once the tasks that had looked up the holds before are
\* done: no task begins to erase, sweep or purge until the hold is released.
THEOREM HoldsKeepContent == Spec => HoldKeepsContent
<1> DEFINE Keeps ==
      HoldActive /\ Quiet /\ HoldActive' =>
         /\ Quiet'
         /\ \A b \in Planes : content[b] \subseteq content'[b]
         /\ \A a \in Artifact : stored[a] = "STORED" => stored'[a] = "STORED"
<1>1. Inv /\ [Next]_vars => [Keeps]_vars
    <2> SUFFICES ASSUME Inv, Next, HoldActive, Quiet
                 PROVE  /\ Quiet'
                        /\ \A b \in Planes : content[b] \subseteq content'[b]
                        /\ \A a \in Artifact : stored[a] = "STORED" => stored'[a] = "STORED"
        BY Zenon
    <2>1. Quiet'
        BY Zenon, QuietStays DEF Inv, DeletionInv
    <2>2. \A b \in Planes : content[b] \subseteq content'[b]
        <3>1. CASE UNCHANGED deletionVars
            BY Zenon, <3>1 DEF deletionVars
        <3>2. CASE DeletionNext
            <4>1. sweep = Nobody /\ \A w \in Workers : worker[w].at # "erase"
                BY DEF Quiet
            <4>2. WriteContent \/ UNCHANGED content
                BY Zenon, <3>2, <4>1 DEF DeletionNext, SweepRead, SweepApply, Grow,
                   CreateDeletionRequest, LeaseExpires, WorkerStep, RunOnce, Process, Erase, Verify,
                   Store, BackendFails, WorkerDies
            <4> QED
                BY Zenon, <4>2 DEF WriteContent
        <3> QED
            BY Zenon, <3>1, <3>2, Steps
    <2>3. \A a \in Artifact : stored[a] = "STORED" => stored'[a] = "STORED"
        <3>1. CASE UNCHANGED artifactVars
            BY Zenon, <3>1 DEF artifactVars
        <3>2. CASE ArtifactNext
            <4>1. purge.at # "delete"
                BY DEF Quiet
            <4>2. stored \in [Artifact -> {"NONE", "CREATING", "STORED", "ORPHAN", "DELETED"}]
                BY Zenon DEF Inv, ArtifactInv, ArtifactTypeOK
            <4> QED
                BY Zenon, <3>2, <4>1, <4>2 DEF ArtifactNext, CreateArtifact, AuditCreated,
                   AuditCreatedRefused, CreatorDies, ArtifactExpires, TokenExpires, IssueAccessToken,
                   DownloadRead, DownloadDenied, DownloadServe, PurgeStep, PurgeCheck, PurgeList,
                   PurgeDelete, PurgeAudit, PurgeAborts
        <3> QED
            BY Zenon, <3>1, <3>2, Steps
    <2> QED
        BY Zenon, <2>1, <2>2, <2>3
<1> QED
    BY <1>1, Invariance, PTL DEF Spec, HoldKeepsContent

=============================================================================
