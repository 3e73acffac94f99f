-------------------------- MODULE AuditChainProofs --------------------------
(***************************************************************************)
(* Proofs about the audit trail of a tenant: whatever requests, rollbacks  *)
(* and dispatchers interleave, the committed events form one chain that    *)
(* verifies, every dispatched intent is in it exactly once, and the        *)
(* manifests leave no event out.                                           *)
(*                                                                         *)
(* A chain head is the sequence of what was hashed, so the head determines *)
(* the rows that lead to it (Segment).  The invariant says which head each *)
(* part of the state is about.                                             *)
(***************************************************************************)
EXTENDS AuditChain, TLAPS

-----------------------------------------------------------------------------
(* The inductive invariant *)

\* The k-th row of the chain that leads to head, and the rows first..last of it.
RowAt(head, k) == [index |-> k, hash |-> head[k], prev |-> [j \in 1 .. k - 1 |-> head[j]]]
Segment(head, first, last) == {RowAt(head, k) : k \in first..last}

\* head2 is head, or continues it.
Extends(head2, head) ==
    /\ Len(head) <= Len(head2)
    /\ \A k \in 1..Len(head) : head2[k] = head[k]

ChainHead == IF chain_state = None THEN GENESIS_HASH ELSE chain_state.head

\* The committed events are the rows of the committed head.
ChainOK ==
    /\ chain_state = None \/ chain_state \in ChainState
    /\ chain_state # None => /\ chain_state.index = Len(chain_state.head)
                             /\ chain_state.head # <<>>
    /\ audit_event = Segment(ChainHead, 1, Len(ChainHead))

Working == {"begin", "absent", "append"}
Archiving == {"archived", "rows", "put", "insert"}

\* What a request has still to append.
TodoOK(p) ==
    /\ at[p] \in Working \cup Archiving => todo[p] # <<>>
    /\ \A k \in 1..Len(todo[p]) : todo[p][k] = <<>> =>
           k = 1 /\ at[p] = "append" /\ view[p].head # <<>>

\* The transaction that holds the chain, and no other, is ahead of the committed head.
ViewOK(p) ==
    /\ at[p] = "append" <=> lock = p
    /\ at[p] = "append" =>
         /\ view[p].head \in Seq(Events)
         /\ view[p].index = Len(view[p].head)
         /\ Extends(view[p].head, ChainHead)
         /\ view[p].rows = Segment(view[p].head, Len(ChainHead) + 1, Len(view[p].head))

NotIn(events, i) == \A k \in 1..Len(events) : events[k].by # i
OnceIn(events, i) ==
    \E k \in 1..Len(events) : \A j \in 1..Len(events) : events[j].by = i <=> j = k

\* An intent is in the chain once if it was dispatched, otherwise not at all.
IntentOK(head, i) ==
    IF audit_outbox[i] = "DISPATCHED" THEN OnceIn(head, i) ELSE NotIn(head, i)

\* A claimed intent is pending, has one claimant, and is in what the claimant has appended
\* or in what it has still to append; nobody else has it.
ClaimOK(p) ==
    /\ claim[p] # {} => at[p] \in Working
    /\ \A i \in claim[p] : audit_outbox[i] = "PENDING"
    /\ \A q \in Procs : q # p => claim[p] \cap claim[q] = {}
    /\ \A i \in Intents, k \in 1..Len(todo[p]) :
         IF k = 1 /\ i \in claim[p] /\ (at[p] = "append" => NotIn(view[p].head, i))
         THEN OnceIn(todo[p][k], i) ELSE NotIn(todo[p][k], i)
    /\ at[p] = "append" => \A i \in Intents :
         IF i \in claim[p] THEN OnceIn(view[p].head, i) \/ NotIn(view[p].head, i)
         ELSE IntentOK(view[p].head, i)

OutboxOK ==
    /\ audit_outbox \in [Intents -> {"NONE", "PENDING", "DISPATCHED"}]
    /\ \A i \in Intents : IntentOK(ChainHead, i)

\* The dispatcher's batch can be put in an order.
FinitelyPending == IsFiniteSet({i \in Intents : audit_outbox[i] = "PENDING"})

\* Everything up to an index is in a segment that was archived before.
Reached(archived) == archived = 0 \/ \E d \in audit_manifest : d.last >= archived

\* A document describes a segment of the chain that begins where another one reached.
DocumentOK(d) ==
    /\ d \in Manifests
    /\ d.first \in 1..d.last /\ d.last \in 1..Len(ChainHead)
    /\ d.count = d.last - d.first + 1
    /\ d.head = [k \in 1..d.last |-> ChainHead[k]]
    /\ d.first = 1 \/ \E e \in audit_manifest : e.index < d.index /\ e.last >= d.first - 1

ArchiveOK(p) ==
    /\ at[p] = "rows" =>
         segment[p].archived \in 0..Len(ChainHead) /\ Reached(segment[p].archived)
    /\ at[p] = "put" => \E a \in 0..Len(ChainHead), n \in 1..Len(ChainHead) :
         a < n /\ segment[p].rows = Segment(ChainHead, a + 1, n) /\ Reached(a)
    /\ at[p] = "insert" => DocumentOK(segment[p].manifest)

ManifestsOK ==
    /\ \A d \in audit_manifest : DocumentOK(d)
    /\ \E n \in Nat : \A d \in audit_manifest : d.index <= n

Shapes ==
    /\ at \in [Procs -> {"idle", "claim", "done", "failed"} \cup Working \cup Archiving]
    /\ lock \in Procs \cup {None}
    /\ todo \in [Procs -> Seq(Seq(Events))]
    /\ view \in [Procs -> [index : Nat, head : Seq(Events), rows : SUBSET Rows]]
    /\ claim \in [Procs -> SUBSET Intents]
    /\ segment \in [Procs -> [archived : Nat, rows : SUBSET Rows,
                               manifest : Manifests \cup {None}]]

ChainInv == Shapes /\ ChainOK /\ \A p \in Procs : TodoOK(p) /\ ViewOK(p)
OutboxInv == OutboxOK /\ \A p \in Procs : ClaimOK(p)
ManifestInv == ManifestsOK /\ \A p \in Procs : ArchiveOK(p)
Inv == ChainInv /\ OutboxInv /\ FinitelyPending /\ ManifestInv

-----------------------------------------------------------------------------
(* Sequences and chain heads *)

\* The first element of a sequence is replaced.
LEMMA ReplaceHead ==
    ASSUME NEW S, NEW t \in Seq(S), t # <<>>, NEW x \in S
    PROVE  /\ <<x>> \o Tail(t) \in Seq(S)
           /\ Len(<<x>> \o Tail(t)) = Len(t)
           /\ (<<x>> \o Tail(t))[1] = x
           /\ \A k \in 2..Len(t) : (<<x>> \o Tail(t))[k] = t[k]
OBVIOUS

\* The first element of a sequence, and what follows it.
LEMMA HeadTail ==
    ASSUME NEW S, NEW t \in Seq(S), t # <<>>
    PROVE  /\ Head(t) = t[1] /\ t[1] \in S /\ Len(t) \in Nat \ {0}
           /\ Tail(t) \in Seq(S) /\ Len(Tail(t)) = Len(t) - 1
           /\ \A k \in 1..Len(t) - 1 : Tail(t)[k] = t[k + 1]
OBVIOUS

\* An event at the end of a sequence.
LEMMA AppendOne ==
    ASSUME NEW S, NEW h \in Seq(S), NEW e \in S
    PROVE  /\ Append(h, e) \in Seq(S) /\ Append(h, e) # <<>>
           /\ Len(h) \in Nat /\ Len(Append(h, e)) = Len(h) + 1
           /\ Append(h, e)[Len(h) + 1] = e
           /\ \A k \in 1..Len(h) : Append(h, e)[k] = h[k]
OBVIOUS

\* A head that continues another one has the same rows up to its end.
LEMMA SegmentKept ==
    ASSUME NEW h2, NEW h, Len(h) \in Nat, Extends(h2, h),
           NEW a \in Nat \ {0}, NEW n \in Nat, n <= Len(h)
    PROVE  Segment(h2, a, n) = Segment(h, a, n)
<1>1. \A k \in a..n : RowAt(h2, k) = RowAt(h, k)
    <2> SUFFICES ASSUME NEW k \in a..n PROVE RowAt(h2, k) = RowAt(h, k)
        BY Zenon
    <2>1. k \in 1..Len(h) /\ 1 .. k - 1 \subseteq 1..Len(h)
        OBVIOUS
    <2>2. h2[k] = h[k] /\ \A j \in 1 .. k - 1 : h2[j] = h[j]
        BY Zenon, <2>1 DEF Extends
    <2>3. [j \in 1 .. k - 1 |-> h2[j]] = [j \in 1 .. k - 1 |-> h[j]]
        BY Zenon, <2>2
    <2> QED
        BY Zenon, <2>2, <2>3 DEF RowAt
<1> QED
    BY Zenon, <1>1 DEF Segment

\* Segments that meet are a segment.
LEMMA SegmentsJoin ==
    ASSUME NEW h, NEW m \in Nat, NEW n \in Nat, m <= n
    PROVE  Segment(h, 1, m) \cup Segment(h, m + 1, n) = Segment(h, 1, n)
<1>1. \A k : k \in 1..n <=> k \in 1..m \/ k \in m + 1 .. n
    OBVIOUS
<1> QED
    BY Zenon, <1>1 DEF Segment

\* append_to_chain adds the row of the event to the segment of the transaction.
LEMMA SegmentExtended ==
    ASSUME NEW h \in Seq(Events), NEW e \in Events, NEW n \in Nat, n <= Len(h)
    PROVE  Segment(Append(h, e), n + 1, Len(h) + 1)
               = Segment(h, n + 1, Len(h))
                     \cup {[index |-> Len(h) + 1, hash |-> e, prev |-> h]}
<1> DEFINE g == Append(h, e)
<1>1. /\ Len(h) \in Nat /\ Len(g) = Len(h) + 1
      /\ g[Len(h) + 1] = e /\ \A k \in 1..Len(h) : g[k] = h[k]
    OBVIOUS
<1>2. Extends(g, h)
    <2>1. Len(h) <= Len(g)
        BY <1>1
    <2> QED
        BY Zenon, <1>1, <2>1 DEF Extends
<1>3. h = [j \in 1..Len(h) |-> h[j]]
    OBVIOUS
<1>4. [j \in 1 .. (Len(h) + 1) - 1 |-> g[j]] = h
    <2>1. (Len(h) + 1) - 1 = Len(h)
        BY <1>1
    <2>2. [j \in 1 .. Len(h) |-> g[j]] = [j \in 1..Len(h) |-> h[j]]
        BY Zenon, <1>1
    <2> QED
        BY Zenon, <1>3, <2>1, <2>2
<1>5. RowAt(g, Len(h) + 1) = [index |-> Len(h) + 1, hash |-> e, prev |-> h]
    BY Zenon, <1>1, <1>4 DEF RowAt
<1>6. Segment(g, n + 1, Len(h)) = Segment(h, n + 1, Len(h))
    <2>1. n + 1 \in Nat \ {0} /\ Len(h) <= Len(h)
        BY <1>1
    <2> HIDE DEF g
    <2> QED
        BY ZenonT(60), <1>1, <1>2, <2>1, SegmentKept
<1>7. \A k : k \in n + 1 .. Len(h) + 1 <=> k \in n + 1 .. Len(h) \/ k = Len(h) + 1
    BY <1>1
<1>8. Segment(g, n + 1, Len(h) + 1)
        = Segment(g, n + 1, Len(h)) \cup {RowAt(g, Len(h) + 1)}
    BY Zenon, <1>7 DEF Segment
<1> QED
    BY Zenon, <1>5, <1>6, <1>8

-----------------------------------------------------------------------------
(* The chain under every action *)

\* The committed head is a sequence of events, before and after a step ...
LEMMA HeadType ==
    /\ ChainOK => ChainHead \in Seq(Events) /\ Len(ChainHead) \in Nat
    /\ ChainOK' => ChainHead' \in Seq(Events) /\ Len(ChainHead') \in Nat
<1>1. <<>> \in Seq(Events)
    OBVIOUS
<1>2. /\ ChainOK => ChainHead \in Seq(Events)
      /\ ChainOK' => ChainHead' \in Seq(Events)
    BY Zenon, <1>1 DEF ChainOK, ChainHead, ChainState, GENESIS_HASH
<1>3. \A h \in Seq(Events) : Len(h) \in Nat
    OBVIOUS
<1> QED
    BY Zenon, <1>2, <1>3

\* ... and a transaction that has read none begins with the empty one.
LEMMA NoViewType == NoView \in [index : Nat, head : Seq(Events), rows : SUBSET Rows]
<1>1. <<>> \in Seq(Events) /\ 0 \in Nat
    OBVIOUS
<1> QED
    BY Zenon, <1>1 DEF NoView, GENESIS_HASH

\* A request that a step leaves alone, and that does not hold the chain if the step writes it.
LEMMA OthersChain ==
    ASSUME NEW q, TodoOK(q), ViewOK(q), at'[q] = at[q], todo'[q] = todo[q], view'[q] = view[q],
           lock' = q <=> lock = q, at[q] = "append" => chain_state' = chain_state
    PROVE  TodoOK(q)' /\ ViewOK(q)'
<1>1. TodoOK(q)'
    BY Zenon DEF TodoOK
<1>4. (at'[q] = "append") <=> (lock' = q)
    BY Zenon DEF ViewOK
<1>2. CASE at[q] = "append"
    <2>1. ChainHead' = ChainHead
        BY Zenon, <1>2 DEF ChainHead
    <2> QED
        BY Zenon, <1>1, <1>4, <2>1 DEF ViewOK
<1>3. CASE at[q] # "append"
    BY Zenon, <1>1, <1>4, <1>3 DEF ViewOK
<1> QED
    BY Zenon, <1>1, <1>2, <1>3

\* The events of a request that is planned.
LEMMA Plans ==
    ASSUME NEW p \in Procs,
           NEW plan \in {PlanBusiness(p), PlanQuery(p), PlanCorrect(p), PlanArchive(p)}
    PROVE  /\ plan \in Seq(Seq(Events)) /\ plan # <<>>
           /\ \A k \in 1..Len(plan) : plan[k] # <<>>
           /\ \A k \in 1..Len(plan) : \A j \in 1..Len(plan[k]) : plan[k][j].by = p
<1>1. \A a \in Actions : Fingerprint(p, a) \in Events /\ Fingerprint(p, a).by = p
    <2> SUFFICES ASSUME NEW a \in Actions
                 PROVE  Fingerprint(p, a) \in Events /\ Fingerprint(p, a).by = p
        BY Zenon
    <2>1. p \in Procs \cup Intents
        BY Zenon
    <2>2. Fingerprint(p, a) \in Events
        BY <2>1 DEF Events
    <2>3. Fingerprint(p, a).by = p
        BY Zenon DEF Fingerprint
    <2> QED
        BY Zenon, <2>2, <2>3
<1>2. /\ "business" \in Actions /\ "audit.query" \in Actions /\ "audit.break_glass" \in Actions
      /\ "audit.correction" \in Actions /\ "audit.correct" \in Actions
      /\ "audit.export" \in Actions
    BY Zenon DEF Actions
<1> DEFINE Good(s) == /\ s \in Seq(Seq(Events)) /\ s # <<>>
                      /\ \A k \in 1..Len(s) : s[k] # <<>>
                      /\ \A k \in 1..Len(s) : \A j \in 1..Len(s[k]) : s[k][j].by = p
<1>3. \A e \in Events : e.by = p => Good(<< <<e>> >>)
    OBVIOUS
<1>4. \A e, f \in Events : e.by = p /\ f.by = p => Good(<< <<e>> \o <<f>> >>)
    OBVIOUS
<1>5. \A e, f \in Events : e.by = p /\ f.by = p => Good(<< <<e>> >> \o << <<f>> \o <<>> >>)
    OBVIOUS
<1>6. \A e \in Events : e.by = p => Good(<< <<e>> \o <<>> >>)
    OBVIOUS
<1> HIDE DEF Good
<1>7. Good(PlanBusiness(p))
    BY Zenon, <1>1, <1>2, <1>3 DEF PlanBusiness
<1>8. Good(PlanQuery(p))
    BY Zenon, <1>1, <1>2, <1>4 DEF PlanQuery, SelfAudit
<1>9. Good(PlanCorrect(p))
    BY Zenon, <1>1, <1>2, <1>5 DEF PlanCorrect, SelfAudit
<1>10. Good(PlanArchive(p))
    BY Zenon, <1>1, <1>2, <1>6 DEF PlanArchive, SelfAudit
<1>11. Good(plan)
    BY Zenon, <1>7, <1>8, <1>9, <1>10
<1> QED
    BY Zenon, <1>11 DEF Good

\* A step of one request: the chain's lock passes between it and nobody.
StepOf(p) ==
    /\ \A q \in Procs \ {p} : at'[q] = at[q] /\ todo'[q] = todo[q] /\ view'[q] = view[q]
    /\ lock' = lock \/ (lock \in {p, None} /\ lock' \in {p, None})

\* It leaves the others' part of the invariant alone.
LEMMA ChainFrame ==
    ASSUME ChainInv, NEW p \in Procs, StepOf(p), chain_state' = chain_state \/ lock = p,
           Shapes', ChainOK', TodoOK(p)', ViewOK(p)'
    PROVE  ChainInv'
<1>1. ASSUME NEW q \in Procs, q # p PROVE TodoOK(q)' /\ ViewOK(q)'
    <2>1. TodoOK(q) /\ ViewOK(q)
        BY Zenon DEF ChainInv
    <2>2. at'[q] = at[q] /\ todo'[q] = todo[q] /\ view'[q] = view[q]
        BY Zenon, <1>1 DEF StepOf
    <2>3. None # q
        BY Zenon, AuditAssumption
    <2>4. lock' = q <=> lock = q
        BY <1>1, <2>3 DEF StepOf
    <2>5. at[q] = "append" => chain_state' = chain_state
        BY Zenon, <1>1, <2>1 DEF ViewOK
    <2> QED
        BY Zenon, <2>1, <2>2, <2>4, <2>5, OthersChain
<1> QED
    BY Zenon, <1>1 DEF ChainInv

\* A step outside the transactions of the chain.
LEMMA ChainAside ==
    ASSUME ChainInv, NEW p \in Procs, at[p] # "append", at'[p] # "append",
           UNCHANGED <<chainVars, view>>, Shapes', TodoOK(p)',
           \A q \in Procs \ {p} : at'[q] = at[q] /\ todo'[q] = todo[q]
    PROVE  ChainInv'
<1>1. StepOf(p)
    BY Zenon DEF StepOf, chainVars
<1>2. ChainOK'
    <2>1. ChainHead' = ChainHead
        BY Zenon DEF ChainHead, chainVars
    <2> QED
        BY Zenon, <2>1 DEF ChainInv, ChainOK, chainVars
<1>3. ViewOK(p)'
    BY Zenon DEF ChainInv, ViewOK, chainVars
<1>4. chain_state' = chain_state
    BY Zenon DEF chainVars
<1> QED
    BY Zenon, <1>1, <1>2, <1>3, <1>4, ChainFrame

\* A request starts.
LEMMA StartChain ==
    ASSUME ChainInv, NEW p \in Procs, NEW kind \in Kinds, Start(p, kind)
    PROVE  ChainInv'
<1>1. Shapes
    BY Zenon DEF ChainInv
<1>2. /\ at[p] = "idle"
      /\ \/ kind = "dispatch" /\ at'[p] = "claim" /\ todo'[p] = <<>>
         \/ /\ at'[p] \in {"archived", "begin"}
            /\ todo'[p] \in {PlanBusiness(p), PlanQuery(p), PlanCorrect(p), PlanArchive(p)}
    BY Zenon, <1>1 DEF Start, Shapes, Kinds
<1>3. todo'[p] \in Seq(Seq(Events))
    <2>1. <<>> \in Seq(Seq(Events))
        OBVIOUS
    <2> QED
        BY Zenon, <1>2, <2>1, Plans
<1>4. Shapes'
    BY Zenon, <1>1, <1>2, <1>3 DEF Start, Shapes, Working, Archiving, chainVars, archiveVars
<1>5. TodoOK(p)'
    <2>1. CASE todo'[p] = <<>> /\ at'[p] = "claim"
        BY <2>1 DEF TodoOK, Working, Archiving
    <2>2. CASE todo'[p] # <<>> /\ \A k \in 1..Len(todo'[p]) : todo'[p][k] # <<>>
        BY Zenon, <2>2 DEF TodoOK
    <2> QED
        BY Zenon, <1>2, <2>1, <2>2, Plans
<1>6. \A q \in Procs \ {p} : at'[q] = at[q] /\ todo'[q] = todo[q]
    BY Zenon, <1>1 DEF Start, Shapes
<1> QED
    BY Zenon, <1>2, <1>4, <1>5, <1>6, ChainAside DEF Start

\* An intent is enqueued.
LEMMA EnqueueChain ==
    ASSUME ChainInv, NEW i \in Intents, EnqueueAudit(i)
    PROVE  ChainInv'
<1>1. UNCHANGED <<chainVars, archiveVars, at, todo, view, claim>>
    BY Zenon DEF EnqueueAudit
<1>2. UNCHANGED <<chain_state, audit_event, lock, segment, at, todo, view, claim>>
    BY Zenon, <1>1 DEF chainVars, archiveVars
<1> QED
    BY ZenonT(60), <1>2 DEF ChainInv, Shapes, ChainOK, ChainHead, TodoOK, ViewOK

\* A transaction that has the chain begins at the committed head.
LEMMA TakeChain ==
    ASSUME ChainInv, NEW p \in Procs, at[p] \in {"begin", "absent"}, lock = None,
           lock' = p, at' = [at EXCEPT ![p] = "append"],
           view' = [view EXCEPT ![p] = [index |-> Len(ChainHead), head |-> ChainHead, rows |-> {}]],
           UNCHANGED <<chain_state, audit_event, archiveVars, todo, claim>>
    PROVE  ChainInv'
<1>1. Shapes /\ TodoOK(p) /\ ChainOK
    BY Zenon DEF ChainInv
<1>2. ChainHead \in Seq(Events) /\ Len(ChainHead) \in Nat
    BY Zenon, <1>1, HeadType
<1>3. ChainHead' = ChainHead
    BY Zenon DEF ChainHead
<1>4. Shapes'
    <2>1. [index |-> Len(ChainHead), head |-> ChainHead, rows |-> {}]
            \in [index : Nat, head : Seq(Events), rows : SUBSET Rows]
        BY Zenon, <1>2
    <2> QED
        BY Zenon, <1>1, <2>1 DEF Shapes, Working, archiveVars
<1>5. /\ at'[p] = "append"
      /\ view'[p] = [index |-> Len(ChainHead), head |-> ChainHead, rows |-> {}]
    BY Zenon, <1>1 DEF Shapes
<1>6. StepOf(p)
    BY Zenon, <1>1 DEF StepOf, Shapes
<1>7. ChainOK'
    BY Zenon, <1>1, <1>3 DEF ChainOK
<1>8. TodoOK(p)'
    BY Zenon, <1>1, <1>5 DEF TodoOK, Working
<1>9. ViewOK(p)'
    <2>1. Extends(ChainHead, ChainHead)
        BY <1>2 DEF Extends
    <2>2. Segment(ChainHead, Len(ChainHead) + 1, Len(ChainHead)) = {}
        <3>1. \A k : k \notin Len(ChainHead) + 1 .. Len(ChainHead)
            BY <1>2
        <3> QED
            BY Zenon, <3>1 DEF Segment
    <2> QED
        <3>1. /\ view'[p].index = Len(ChainHead) /\ view'[p].head = ChainHead
              /\ view'[p].rows = {}
            BY <1>5
        <3> QED
            BY Zenon, <1>2, <1>3, <1>5, <2>1, <2>2, <3>1 DEF ViewOK
<1> QED
    BY Zenon, <1>4, <1>6, <1>7, <1>8, <1>9, ChainFrame

\* SELECT ... FOR UPDATE finds the row and takes it, or finds none.
LEMMA LockChain ==
    ASSUME ChainInv, NEW p \in Procs, LockState(p)
    PROVE  ChainInv'
<1>1. Shapes /\ TodoOK(p) /\ ChainOK /\ at[p] = "begin"
    BY Zenon DEF ChainInv, LockState
<1>2. CASE chain_state = None
    <2>1. /\ at' = [at EXCEPT ![p] = "absent"]
          /\ UNCHANGED <<chainVars, archiveVars, todo, view, claim>>
        BY Zenon, <1>2 DEF LockState, chainVars
    <2>2. Shapes'
        BY Zenon, <1>1, <2>1 DEF Shapes, Working, chainVars, archiveVars
    <2>3. at'[p] = "absent" /\ \A q \in Procs \ {p} : at'[q] = at[q]
        BY Zenon, <1>1, <2>1 DEF Shapes
    <2>4. TodoOK(p)'
        BY Zenon, <1>1, <2>1, <2>3 DEF TodoOK, Working
    <2> QED
        BY Zenon, <1>1, <2>1, <2>2, <2>3, <2>4, ChainAside
<1>3. CASE chain_state # None
    <2>1. ChainHead = chain_state.head /\ chain_state.index = Len(ChainHead)
        BY Zenon, <1>1, <1>3 DEF ChainHead, ChainOK
    <2> QED
        BY Zenon, <1>1, <1>3, <2>1, TakeChain DEF LockState
<1> QED
    BY Zenon, <1>2, <1>3

\* Whoever inserts the row or waited for another's insert has the row afterwards.
LEMMA InsertChain ==
    ASSUME ChainInv, NEW p \in Procs, InsertState(p)
    PROVE  ChainInv'
<1>1. AfterInsert = [index |-> Len(ChainHead), head |-> ChainHead, rows |-> {}]
    <2>1. CASE chain_state = None
        <3>1. Len(<<>>) = 0
            OBVIOUS
        <3> QED
            BY Zenon, <2>1, <3>1 DEF AfterInsert, NoView, ChainHead, GENESIS_HASH
    <2>2. CASE chain_state # None
        BY Zenon, <2>2 DEF AfterInsert, ChainHead, ChainInv, ChainOK
    <2> QED
        BY Zenon, <2>1, <2>2
<1> QED
    BY Zenon, <1>1, TakeChain DEF InsertState

\* An event is appended in the transaction.
LEMMA AppendChain ==
    ASSUME ChainInv, NEW p \in Procs, AppendToChain(p)
    PROVE  ChainInv'
<1>1. Shapes /\ TodoOK(p) /\ ViewOK(p) /\ ChainOK
    BY Zenon DEF ChainInv
<1>2. /\ at[p] = "append" /\ Head(todo[p]) # <<>>
      /\ view' = [view EXCEPT ![p] = Extend(view[p], Head(Head(todo[p])))]
      /\ todo' = [todo EXCEPT ![p] = <<Tail(Head(todo[p]))>> \o Tail(todo[p])]
      /\ UNCHANGED <<chain_state, audit_event, lock, segment, at, claim>>
    BY Zenon DEF AppendToChain, chainVars, archiveVars
<1>3. PICK t : t = todo[p]
    BY Zenon
<1>4. t \in Seq(Seq(Events)) /\ t # <<>>
    BY Zenon, <1>1, <1>2, <1>3 DEF Shapes, TodoOK, Working
<1>5. Head(t) = t[1] /\ t[1] \in Seq(Events) /\ t[1] # <<>>
    BY Zenon, <1>2, <1>3, <1>4, HeadTail
<1>6. PICK e : e = Head(t[1])
    BY Zenon
<1>7. e \in Events /\ e = t[1][1] /\ Tail(t[1]) \in Seq(Events)
    BY Zenon, <1>5, <1>6, HeadTail
<1>8. PICK u : u = <<Tail(t[1])>> \o Tail(t)
    BY Zenon
<1>9. /\ u \in Seq(Seq(Events)) /\ Len(u) = Len(t) /\ u[1] = Tail(t[1])
      /\ \A k \in 2..Len(t) : u[k] = t[k]
    <2>1. PICK x : x = Tail(t[1])
        BY Zenon
    <2>2. x \in Seq(Events) /\ u = <<x>> \o Tail(t)
        BY Zenon, <1>7, <1>8, <2>1
    <2>3. /\ <<x>> \o Tail(t) \in Seq(Seq(Events)) /\ Len(<<x>> \o Tail(t)) = Len(t)
          /\ (<<x>> \o Tail(t))[1] = x
          /\ \A k \in 2..Len(t) : (<<x>> \o Tail(t))[k] = t[k]
        BY <1>4, <2>2, ReplaceHead
    <2> QED
        BY Zenon, <2>1, <2>2, <2>3
<1>10. PICK h : h = view[p].head
    BY Zenon
<1>11. /\ h \in Seq(Events) /\ Len(h) \in Nat /\ view[p].index = Len(h) /\ Extends(h, ChainHead)
       /\ view[p].rows = Segment(h, Len(ChainHead) + 1, Len(h))
    <2>1. h \in Seq(Events)
        BY Zenon, <1>1, <1>2, <1>10 DEF ViewOK
    <2>2. Len(h) \in Nat
        BY <2>1
    <2> QED
        BY Zenon, <1>1, <1>2, <1>10, <2>1, <2>2 DEF ViewOK
<1>12. PICK g : g = Append(h, e)
    BY Zenon
<1>13. /\ g \in Seq(Events) /\ g # <<>> /\ Len(g) = Len(h) + 1
       /\ \A k \in 1..Len(h) : g[k] = h[k]
    BY <1>7, <1>11, <1>12
<1>14. ChainHead \in Seq(Events) /\ Len(ChainHead) \in Nat
    BY Zenon, <1>1, HeadType
<1>15. /\ todo'[p] = u /\ at'[p] = "append" /\ view'[p] = Extend(view[p], e)
       /\ \A q \in Procs \ {p} : todo'[q] = todo[q] /\ view'[q] = view[q]
    BY Zenon, <1>1, <1>2, <1>3, <1>5, <1>6, <1>8 DEF Shapes
<1>16. PICK rows : rows = Segment(g, Len(ChainHead) + 1, Len(g))
    BY Zenon
<1>17. view'[p] = [index |-> Len(g), head |-> g, rows |-> rows]
    <2>1. Len(ChainHead) <= Len(h)
        BY Zenon, <1>11 DEF Extends
    <2>2. rows = view[p].rows \cup {[index |-> Len(h) + 1, hash |-> e, prev |-> h]}
        <3>1. Segment(Append(h, e), Len(ChainHead) + 1, Len(h) + 1)
                = Segment(h, Len(ChainHead) + 1, Len(h))
                      \cup {[index |-> Len(h) + 1, hash |-> e, prev |-> h]}
            BY <1>7, <1>11, <1>14, <2>1, SegmentExtended
        <3> QED
            BY Zenon, <1>11, <1>12, <1>13, <1>16, <3>1
    <2> QED
        BY Zenon, <1>10, <1>11, <1>12, <1>13, <1>15, <2>2 DEF Extend, ChainHash
<1>18. Shapes'
    <2>1. [index |-> Len(h) + 1, hash |-> e, prev |-> h] \in Rows
        <3>1. Len(h) + 1 \in Nat \ {0}
            BY <1>11
        <3> QED
            BY Zenon, <1>7, <1>11, <3>1 DEF Rows
    <2>2. Len(h) + 1 \in Nat
        BY <1>11
    <2>3. view[p].rows \subseteq Rows
        BY Zenon, <1>1 DEF Shapes
    <2>4. Extend(view[p], e) \in [index : Nat, head : Seq(Events), rows : SUBSET Rows]
        BY ZenonT(60), <1>10, <1>11, <1>12, <1>13, <2>1, <2>2, <2>3 DEF Extend, ChainHash
    <2> QED
        BY Zenon, <1>1, <1>2, <1>3, <1>5, <1>6, <1>8, <1>9, <2>4 DEF Shapes
<1>19. Extends(g, ChainHead)
    <2>1. Len(ChainHead) <= Len(h) /\ \A k \in 1..Len(ChainHead) : h[k] = ChainHead[k]
        BY Zenon, <1>11 DEF Extends
    <2>2. Len(ChainHead) <= Len(g) /\ \A k \in 1..Len(ChainHead) : k \in 1..Len(h)
        BY <1>11, <1>13, <1>14, <2>1
    <2> QED
        BY Zenon, <1>13, <2>1, <2>2 DEF Extends
<1>20. ChainHead' = ChainHead /\ ChainOK'
    BY Zenon, <1>1, <1>2 DEF ChainHead, ChainOK
<1>21. ViewOK(p)'
    <2>1. view'[p].index = Len(g) /\ view'[p].head = g /\ view'[p].rows = rows
        BY <1>17
    <2>2. lock' = p
        BY Zenon, <1>1, <1>2 DEF ViewOK
    <2> QED
        BY Zenon, <1>13, <1>15, <1>16, <1>19, <1>20, <2>1, <2>2 DEF ViewOK
<1>22. TodoOK(p)'
    <2>1. u # <<>>
        BY <1>4, <1>9
    <2>2. \A k \in 1..Len(u) : k = 1 \/ k \in 2..Len(t)
        BY <1>4, <1>9
    <2>3. \A k \in 1..Len(u) : u[k] = <<>> => k = 1
        <3>1. \A k \in 2..Len(t) : k \in 1..Len(t) /\ k # 1
            BY <1>4
        <3> QED
            BY Zenon, <1>1, <1>3, <1>9, <2>2, <3>1 DEF TodoOK
    <2> QED
        <3>1. view'[p].head # <<>>
            BY <1>13, <1>17
        <3> QED
            BY Zenon, <1>15, <2>1, <2>3, <3>1 DEF TodoOK
<1> QED
    BY Zenon, <1>2, <1>15, <1>18, <1>20, <1>21, <1>22, ChainFrame DEF StepOf

\* What a commit publishes: a head that continues the committed one, and its rows.
LEMMA CommitHead ==
    ASSUME ChainInv, NEW p \in Procs, Commit(p)
    PROVE  /\ view[p].head \in Seq(Events) /\ view[p].head # <<>> /\ todo[p] # <<>>
           /\ chain_state' \in ChainState /\ chain_state' # None
           /\ ChainHead' = view[p].head /\ Extends(ChainHead', ChainHead)
           /\ ChainOK' /\ lock = p
<1>1. Shapes /\ TodoOK(p) /\ ViewOK(p) /\ ChainOK
    BY Zenon DEF ChainInv
<1>2. /\ at[p] = "append" /\ Head(todo[p]) = <<>>
      /\ chain_state' = [index |-> view[p].index, head |-> view[p].head]
      /\ audit_event' = audit_event \cup view[p].rows
    BY Zenon DEF Commit
<1>3. PICK h : h = view[p].head
    BY Zenon
<1>4. /\ h \in Seq(Events) /\ view[p].index = Len(h) /\ Extends(h, ChainHead)
      /\ view[p].rows = Segment(h, Len(ChainHead) + 1, Len(h)) /\ lock = p
    BY Zenon, <1>1, <1>2, <1>3 DEF ViewOK
<1>5. Len(h) \in Nat
    BY <1>4
<1>6. todo[p] \in Seq(Seq(Events)) /\ todo[p] # <<>>
    BY Zenon, <1>1, <1>2 DEF Shapes, TodoOK, Working
<1>7. h # <<>>
    <2>1. todo[p][1] = <<>> /\ 1 \in 1..Len(todo[p])
        BY <1>2, <1>6
    <2> QED
        BY Zenon, <1>1, <1>3, <2>1 DEF TodoOK
<1>8. chain_state' \in ChainState
    BY Zenon, <1>2, <1>3, <1>4, <1>5 DEF ChainState
<1>9. chain_state' # None
    BY Zenon, <1>8, AuditAssumption
<1>10. chain_state'.head = h /\ chain_state'.index = Len(h)
    BY <1>2, <1>3, <1>4
<1>11. ChainHead' = h
    BY Zenon, <1>9, <1>10 DEF ChainHead
<1>12. audit_event' = Segment(h, 1, Len(h))
    <2>1. Len(ChainHead) \in Nat
        BY Zenon, <1>1, HeadType
    <2>2. Len(ChainHead) \in Nat /\ Len(ChainHead) <= Len(ChainHead) /\ 1 \in Nat \ {0}
        BY <2>1
    <2>3. Segment(h, 1, Len(ChainHead)) = Segment(ChainHead, 1, Len(ChainHead))
        BY <1>4, <2>2, SegmentKept
    <2>4. Len(ChainHead) <= Len(h)
        BY Zenon, <1>4 DEF Extends
    <2>5. Segment(h, 1, Len(ChainHead)) \cup Segment(h, Len(ChainHead) + 1, Len(h))
            = Segment(h, 1, Len(h))
        BY Zenon, <1>5, <2>2, <2>4, SegmentsJoin
    <2> QED
        BY Zenon, <1>1, <1>2, <1>4, <2>3, <2>5 DEF ChainOK
<1>13. ChainOK'
    BY Zenon, <1>7, <1>8, <1>10, <1>11, <1>12 DEF ChainOK
<1> QED
    BY Zenon, <1>3, <1>4, <1>6, <1>7, <1>8, <1>9, <1>11, <1>13

\* The transaction commits.
LEMMA CommitChain ==
    ASSUME ChainInv, NEW p \in Procs, Commit(p)
    PROVE  ChainInv'
<1>1. Shapes /\ TodoOK(p)
    BY Zenon DEF ChainInv
<1>2. /\ at[p] = "append" /\ lock' = None
      /\ claim' = [claim EXCEPT ![p] = {}] /\ view' = [view EXCEPT ![p] = NoView]
      /\ todo' = [todo EXCEPT ![p] = Tail(todo[p])] /\ segment' = segment
      /\ at' = [at EXCEPT ![p] = IF Tail(todo[p]) = <<>> THEN "done" ELSE "begin"]
    BY Zenon DEF Commit, archiveVars
<1>3. chain_state' \in ChainState /\ ChainOK' /\ lock = p /\ todo[p] # <<>>
    BY Zenon, CommitHead
<1>4. PICK t : t = todo[p]
    BY Zenon
<1>5. t \in Seq(Seq(Events)) /\ t # <<>>
    BY Zenon, <1>1, <1>3, <1>4 DEF Shapes
<1>6. PICK u : u = Tail(t)
    BY Zenon
<1>7. u \in Seq(Seq(Events)) /\ Len(u) = Len(t) - 1 /\ \A k \in 1..Len(u) : u[k] = t[k + 1]
    BY <1>5, <1>6
<1>8. /\ todo'[p] = u /\ at'[p] = IF u = <<>> THEN "done" ELSE "begin"
      /\ StepOf(p)
    BY Zenon, <1>1, <1>2, <1>3, <1>4, <1>6 DEF Shapes, StepOf
<1>9. Shapes'
    <2>1. NoView \in [index : Nat, head : Seq(Events), rows : SUBSET Rows]
        BY Zenon, NoViewType
    <2> QED
        BY Zenon, <1>1, <1>2, <1>4, <1>6, <1>7, <2>1 DEF Shapes, Working
<1>10. TodoOK(p)'
    <2>1. \A k \in 1..Len(u) : u[k] # <<>>
        <3>1. \A k \in 1..Len(u) : k + 1 \in 1..Len(t) /\ k + 1 # 1
            BY <1>5, <1>7
        <3> QED
            BY Zenon, <1>1, <1>4, <1>7, <3>1 DEF TodoOK
    <2>2. at'[p] \in Working \cup Archiving => u # <<>>
        BY <1>8 DEF Working, Archiving
    <2> QED
        BY Zenon, <1>8, <2>1, <2>2 DEF TodoOK
<1>11. ViewOK(p)'
    <2>1. None # p
        BY Zenon, AuditAssumption
    <2>2. at'[p] # "append"
        BY Zenon, <1>8
    <2> QED
        BY Zenon, <1>2, <2>1, <2>2 DEF ViewOK
<1> QED
    BY Zenon, <1>3, <1>8, <1>9, <1>10, <1>11, ChainFrame

\* The transaction is rolled back.
LEMMA RollbackChain ==
    ASSUME ChainInv, NEW p \in Procs, Rollback(p)
    PROVE  ChainInv'
<1>1. Shapes /\ ViewOK(p) /\ ChainOK
    BY Zenon DEF ChainInv
<1>2. /\ lock' = (IF lock = p THEN None ELSE lock) /\ at' = [at EXCEPT ![p] = "failed"]
      /\ claim' = [claim EXCEPT ![p] = {}] /\ view' = [view EXCEPT ![p] = NoView]
      /\ todo' = [todo EXCEPT ![p] = <<>>]
      /\ UNCHANGED <<chain_state, audit_event, segment>>
    BY Zenon DEF Rollback, archiveVars
<1>3. Shapes'
    <2>1. NoView \in [index : Nat, head : Seq(Events), rows : SUBSET Rows]
        BY Zenon, NoViewType
    <2>2. <<>> \in Seq(Seq(Events))
        OBVIOUS
    <2> QED
        BY Zenon, <1>1, <1>2, <2>1, <2>2 DEF Shapes
<1>4. at'[p] = "failed" /\ todo'[p] = <<>>
    BY Zenon, <1>1, <1>2 DEF Shapes
<1>5. StepOf(p)
    BY Zenon, <1>1, <1>2 DEF StepOf, Shapes
<1>6. ChainOK'
    BY Zenon, <1>1, <1>2 DEF ChainOK, ChainHead
<1>7. TodoOK(p)'
    BY <1>4 DEF TodoOK, Working, Archiving
<1>8. ViewOK(p)'
    <2>1. None # p
        BY Zenon, AuditAssumption
    <2>2. lock' # p
        BY Zenon, <1>2, <2>1
    <2> QED
        BY Zenon, <1>4, <2>2 DEF ViewOK
<1> QED
    BY Zenon, <1>2, <1>3, <1>5, <1>6, <1>7, <1>8, ChainFrame

\* A step of build_and_archive: it ends in the audited transaction of the access, goes on
\* or fails.
LEMMA ArchivingChain ==
    ASSUME ChainInv, NEW p \in Procs, at[p] \in Archiving, Shapes',
           UNCHANGED <<chainVars, view, claim>>,
           \A q \in Procs \ {p} : at'[q] = at[q] /\ todo'[q] = todo[q],
           \/ at'[p] \in Archiving \cup {"begin"} /\ todo'[p] = todo[p]
           \/ at'[p] = "failed" /\ todo'[p] = <<>>
    PROVE  ChainInv'
<1>1. TodoOK(p)
    BY Zenon DEF ChainInv
<1>2. at[p] # "append" /\ at'[p] # "append"
    BY DEF Archiving
<1>3. TodoOK(p)'
    <2>1. CASE at'[p] = "failed" /\ todo'[p] = <<>>
        BY <2>1 DEF TodoOK, Working, Archiving
    <2>2. CASE todo'[p] = todo[p]
        BY Zenon, <1>1, <1>2, <2>2 DEF TodoOK
    <2> QED
        BY Zenon, <2>1, <2>2
<1> QED
    BY Zenon, <1>2, <1>3, ChainAside

-----------------------------------------------------------------------------
(* Each intent once, under every action *)

\* Where an intent is after an append.
LEMMA InAppend ==
    ASSUME NEW h \in Seq(Events), NEW e \in Events, NEW i
    PROVE  /\ NotIn(h, i) /\ e.by # i => NotIn(Append(h, e), i)
           /\ NotIn(h, i) /\ e.by = i => OnceIn(Append(h, e), i)
           /\ OnceIn(h, i) /\ e.by # i => OnceIn(Append(h, e), i)
<1>1. PICK g : g = Append(h, e)
    BY Zenon
<1>2. /\ \A k : k \in 1..Len(g) <=> k \in 1..Len(h) \/ k = Len(h) + 1
      /\ Len(h) + 1 \notin 1..Len(h)
      /\ g[Len(h) + 1] = e /\ \A k \in 1..Len(h) : g[k] = h[k]
    BY <1>1
<1>3. NotIn(h, i) /\ e.by # i => NotIn(g, i)
    BY Zenon, <1>2 DEF NotIn
<1>4. ASSUME NotIn(h, i), e.by = i PROVE OnceIn(g, i)
    <2>1. \A j \in 1..Len(g) : g[j].by = i <=> j = Len(h) + 1
        BY Zenon, <1>2, <1>4 DEF NotIn
    <2> QED
        BY Zenon, <1>2, <2>1 DEF OnceIn
<1>5. ASSUME OnceIn(h, i), e.by # i PROVE OnceIn(g, i)
    <2>1. PICK k \in 1..Len(h) : \A j \in 1..Len(h) : h[j].by = i <=> j = k
        BY Zenon, <1>5 DEF OnceIn
    <2>2. \A j \in 1..Len(g) : g[j].by = i <=> j = k
        BY Zenon, <1>2, <1>5, <2>1
    <2>3. k \in 1..Len(g)
        BY Zenon, <1>2, <2>1
    <2> QED
        BY Zenon, <2>2, <2>3 DEF OnceIn
<1> QED
    BY Zenon, <1>1, <1>3, <1>4, <1>5

\* Where an intent is when the first event of a sequence is taken off.
LEMMA InTail ==
    ASSUME NEW t \in Seq(Events), t # <<>>, NEW i
    PROVE  /\ NotIn(t, i) => t[1].by # i /\ NotIn(Tail(t), i)
           /\ OnceIn(t, i) /\ t[1].by = i => NotIn(Tail(t), i)
           /\ OnceIn(t, i) /\ t[1].by # i => OnceIn(Tail(t), i)
<1>1. PICK u : u = Tail(t)
    BY Zenon
<1>2. /\ 1 \in 1..Len(t)
      /\ \A k \in 1..Len(u) : u[k] = t[k + 1] /\ k + 1 \in 1..Len(t) /\ k + 1 # 1
      /\ \A k \in 1..Len(t) : k # 1 => k - 1 \in 1..Len(u)
      /\ \A k \in 1..Len(u), j \in 1..Len(t) : k + 1 = j <=> k = j - 1
    BY <1>1
<1>3. NotIn(t, i) => t[1].by # i /\ NotIn(u, i)
    <2> SUFFICES ASSUME NotIn(t, i) PROVE t[1].by # i /\ \A k \in 1..Len(u) : u[k].by # i
        BY Zenon DEF NotIn
    <2>1. \A k \in 1..Len(t) : t[k].by # i
        BY Zenon DEF NotIn
    <2>2. ASSUME NEW k \in 1..Len(u) PROVE u[k].by # i
        <3>1. u[k] = t[k + 1] /\ k + 1 \in 1..Len(t)
            BY Zenon, <1>2
        <3> QED
            BY Zenon, <2>1, <3>1
    <2> QED
        BY Zenon, <1>2, <2>1, <2>2
<1>4. ASSUME OnceIn(t, i), t[1].by = i PROVE NotIn(u, i)
    <2>1. PICK k \in 1..Len(t) : \A j \in 1..Len(t) : t[j].by = i <=> j = k
        BY Zenon, <1>4 DEF OnceIn
    <2>2. k = 1
        BY Zenon, <1>2, <1>4, <2>1
    <2>3. ASSUME NEW j \in 1..Len(u) PROVE u[j].by # i
        <3>1. u[j] = t[j + 1] /\ j + 1 \in 1..Len(t) /\ j + 1 # 1
            BY Zenon, <1>2
        <3> QED
            BY Zenon, <2>1, <2>2, <3>1
    <2> QED
        BY Zenon, <2>3 DEF NotIn
<1>5. ASSUME OnceIn(t, i), t[1].by # i PROVE OnceIn(u, i)
    <2>1. PICK k \in 1..Len(t) : \A j \in 1..Len(t) : t[j].by = i <=> j = k
        BY Zenon, <1>5 DEF OnceIn
    <2>2. k - 1 \in 1..Len(u)
        BY Zenon, <1>2, <1>5, <2>1
    <2>3. ASSUME NEW j \in 1..Len(u) PROVE u[j].by = i <=> j = k - 1
        <3>1. u[j] = t[j + 1] /\ j + 1 \in 1..Len(t) /\ (j + 1 = k <=> j = k - 1)
            BY Zenon, <1>2, <2>1
        <3> QED
            BY Zenon, <2>1, <3>1
    <2> QED
        BY Zenon, <2>2, <2>3 DEF OnceIn
<1> QED
    BY Zenon, <1>1, <1>3, <1>4, <1>5

\* Not at all and once exclude each other; nothing is in the empty sequence.
LEMMA NotOnce ==
    ASSUME NEW i
    PROVE  /\ NotIn(<<>>, i)
           /\ \A t : ~ (NotIn(t, i) /\ OnceIn(t, i))
<1>1. NotIn(<<>>, i)
    BY DEF NotIn
<1>2. \A t : ~ (NotIn(t, i) /\ OnceIn(t, i))
    BY Zenon DEF NotIn, OnceIn
<1> QED
    BY Zenon, <1>1, <1>2

\* The claims of a request that a step leaves alone.
LEMMA OthersClaim ==
    ASSUME NEW q \in Procs, ClaimOK(q), at'[q] = at[q], todo'[q] = todo[q], view'[q] = view[q],
           claim'[q] = claim[q],
           \A i \in claim[q] : audit_outbox'[i] = "PENDING",
           \A r \in Procs : r # q => claim[q] \cap claim'[r] = {},
           at[q] = "append" => \A i \in Intents \ claim[q] :
               audit_outbox'[i] = "DISPATCHED" <=> audit_outbox[i] = "DISPATCHED"
    PROVE  ClaimOK(q)'
<1>1. ASSUME at[q] = "append", NEW i \in Intents, i \notin claim[q] PROVE IntentOK(view[q].head, i)'
    <2>1. IntentOK(view[q].head, i)
        BY Zenon, <1>1 DEF ClaimOK
    <2>2. audit_outbox'[i] = "DISPATCHED" <=> audit_outbox[i] = "DISPATCHED"
        BY Zenon, <1>1
    <2> QED
        BY Zenon, <2>1, <2>2 DEF IntentOK
<1>2. at'[q] = "append" => \A i \in Intents :
         IF i \in claim'[q] THEN OnceIn(view'[q].head, i) \/ NotIn(view'[q].head, i)
         ELSE IntentOK(view[q].head, i)'
    BY Zenon, <1>1 DEF ClaimOK
<1>3. \A i \in Intents, k \in 1..Len(todo'[q]) :
         IF k = 1 /\ i \in claim'[q] /\ (at'[q] = "append" => NotIn(view'[q].head, i))
         THEN OnceIn(todo'[q][k], i) ELSE NotIn(todo'[q][k], i)
    BY Zenon DEF ClaimOK
<1> QED
    BY Zenon, <1>2, <1>3 DEF ClaimOK

\* A step of one request that touches neither the outbox nor the chain head.
LEMMA OutboxFrame ==
    ASSUME ChainInv, OutboxInv, NEW p \in Procs, StepOf(p), UNCHANGED <<audit_outbox, chain_state>>,
           \A q \in Procs \ {p} : claim'[q] = claim[q], claim'[p] \subseteq claim[p], ClaimOK(p)'
    PROVE  OutboxInv'
<1>1. OutboxOK'
    <2>1. ChainHead' = ChainHead
        BY Zenon DEF ChainHead
    <2> QED
        BY Zenon, <2>1 DEF OutboxInv, OutboxOK, IntentOK
<1>2. ASSUME NEW q \in Procs, q # p PROVE ClaimOK(q)'
    <2>1. ClaimOK(q) /\ claim'[q] = claim[q]
        BY Zenon, <1>2 DEF OutboxInv
    <2>2. at'[q] = at[q] /\ todo'[q] = todo[q] /\ view'[q] = view[q]
        BY Zenon, <1>2 DEF StepOf
    <2>3. \A i \in claim[q] : audit_outbox'[i] = "PENDING"
        BY Zenon, <2>1 DEF ClaimOK
    <2>4. ASSUME NEW r \in Procs PROVE claim'[r] \subseteq claim[r]
        <3>1. CASE r = p
            BY Zenon, <3>1
        <3>2. CASE r \in Procs \ {p}
            BY <3>2
        <3> QED
            BY Zenon, <3>1, <3>2
    <2>5. \A r \in Procs : r # q => claim[q] \cap claim'[r] = {}
        BY Zenon, <2>1, <2>4 DEF ClaimOK
    <2> QED
        BY Zenon, <2>1, <2>2, <2>3, <2>5, OthersClaim
<1> QED
    BY Zenon, <1>1, <1>2 DEF OutboxInv

\* A request without claims has no intents to append.
LEMMA NoClaim ==
    ASSUME NEW p \in Procs, claim'[p] = {}, at'[p] # "append",
           \A i \in Intents, k \in 1..Len(todo'[p]) : NotIn(todo'[p][k], i)
    PROVE  ClaimOK(p)'
BY Zenon DEF ClaimOK

\* A request starts.
LEMMA StartOutbox ==
    ASSUME ChainInv, OutboxInv, NEW p \in Procs, NEW kind \in Kinds, Start(p, kind)
    PROVE  OutboxInv'
<1>1. Shapes /\ ClaimOK(p)
    BY Zenon DEF ChainInv, OutboxInv
<1>2. /\ at[p] = "idle" /\ at'[p] # "append"
      /\ todo'[p] \in {<<>>, PlanBusiness(p), PlanQuery(p), PlanCorrect(p), PlanArchive(p)}
      /\ UNCHANGED <<audit_outbox, chain_state, lock, view, claim>>
      /\ \A q \in Procs \ {p} : at'[q] = at[q] /\ todo'[q] = todo[q]
    BY Zenon, <1>1 DEF Start, Shapes, Kinds, chainVars
<1>3. claim'[p] = {}
    BY <1>1, <1>2 DEF ClaimOK, Working
<1>4. ASSUME NEW i \in Intents, NEW k \in 1..Len(todo'[p]) PROVE NotIn(todo'[p][k], i)
    <2>1. p # i
        BY Zenon, AuditAssumption
    <2>2. todo'[p] # <<>>
        BY <1>4
    <2>3. PICK plan : plan = todo'[p]
        BY Zenon
    <2>4. plan \in {PlanBusiness(p), PlanQuery(p), PlanCorrect(p), PlanArchive(p)}
        BY Zenon, <1>2, <2>2, <2>3
    <2>5. \A j \in 1..Len(plan[k]) : plan[k][j].by = p
        <3>1. k \in 1..Len(plan)
            BY Zenon, <2>3
        <3>2. \A n \in 1..Len(plan) : \A j \in 1..Len(plan[n]) : plan[n][j].by = p
            BY ZenonT(60), <2>4, Plans
        <3> QED
            BY Zenon, <3>1, <3>2
    <2> QED
        BY Zenon, <2>1, <2>3, <2>5 DEF NotIn
<1>5. ClaimOK(p)'
    BY Zenon, <1>2, <1>3, <1>4, NoClaim
<1> QED
    BY Zenon, <1>2, <1>3, <1>5, OutboxFrame DEF StepOf

\* An intent is enqueued.
LEMMA EnqueueOutbox ==
    ASSUME ChainInv, OutboxInv, NEW i \in Intents, EnqueueAudit(i)
    PROVE  OutboxInv'
<1>1. OutboxOK /\ \A q \in Procs : ClaimOK(q)
    BY Zenon DEF OutboxInv
<1>2. /\ audit_outbox[i] = "NONE" /\ audit_outbox' = [audit_outbox EXCEPT ![i] = "PENDING"]
      /\ UNCHANGED <<chain_state, at, todo, view, claim>>
    BY Zenon DEF EnqueueAudit, chainVars
<1>3. /\ audit_outbox' \in [Intents -> {"NONE", "PENDING", "DISPATCHED"}]
      /\ audit_outbox'[i] = "PENDING"
      /\ \A j \in Intents : j # i => audit_outbox'[j] = audit_outbox[j]
    BY Zenon, <1>1, <1>2 DEF OutboxOK
<1>4. \A j \in Intents : audit_outbox'[j] = "DISPATCHED" <=> audit_outbox[j] = "DISPATCHED"
    BY <1>2, <1>3
<1>5. OutboxOK'
    <2>1. ChainHead' = ChainHead
        BY Zenon, <1>2 DEF ChainHead
    <2> QED
        BY Zenon, <1>1, <1>3, <1>4, <2>1 DEF OutboxOK, IntentOK
<1>6. ASSUME NEW q \in Procs PROVE ClaimOK(q)'
    <2>1. claim[q] \subseteq Intents
        BY Zenon DEF ChainInv, Shapes
    <2>2. \A j \in claim[q] : audit_outbox'[j] = "PENDING"
        BY Zenon, <1>1, <1>3, <2>1 DEF ClaimOK
    <2>3. \A r \in Procs : r # q => claim[q] \cap claim'[r] = {}
        BY Zenon, <1>1, <1>2 DEF ClaimOK
    <2> QED
        BY Zenon, <1>1, <1>2, <1>4, <2>2, <2>3, OthersClaim
<1> QED
    BY Zenon, <1>5, <1>6 DEF OutboxInv

\* The transaction takes the chain: what it has claimed is not in the committed head.
LEMMA TakeOutbox ==
    ASSUME ChainInv, OutboxInv, NEW p \in Procs, at[p] \in {"begin", "absent"}, StepOf(p),
           at'[p] = "append", view'[p].head = ChainHead,
           UNCHANGED <<chain_state, audit_outbox, todo, claim>>
    PROVE  OutboxInv'
<1>1. ClaimOK(p) /\ at[p] # "append" /\ claim[p] \subseteq Intents
    BY Zenon DEF OutboxInv, ChainInv, Shapes
<1>2. \A i \in Intents : IntentOK(ChainHead, i)
    BY Zenon DEF OutboxInv, OutboxOK
<1>3. \A i \in claim[p] : NotIn(ChainHead, i)
    <2>1. \A i \in claim[p] : audit_outbox[i] # "DISPATCHED"
        BY Zenon, <1>1 DEF ClaimOK
    <2> QED
        BY Zenon, <1>1, <1>2, <2>1 DEF IntentOK
<1>4. \A i \in Intents : IntentOK(view[p].head, i)'
    BY Zenon, <1>2 DEF IntentOK
<1>5. \A i \in Intents, k \in 1..Len(todo[p]) :
         IF k = 1 /\ i \in claim[p] THEN OnceIn(todo[p][k], i) ELSE NotIn(todo[p][k], i)
    BY Zenon, <1>1 DEF ClaimOK
<1>6. ClaimOK(p)'
    BY Zenon, <1>1, <1>3, <1>4, <1>5 DEF ClaimOK, Working
<1> QED
    BY Zenon, <1>6, OutboxFrame

\* SELECT ... FOR UPDATE finds the row and takes it, or finds none.
LEMMA LockOutbox ==
    ASSUME ChainInv, OutboxInv, NEW p \in Procs, LockState(p)
    PROVE  OutboxInv'
<1>1. Shapes /\ ClaimOK(p) /\ at[p] = "begin"
    BY Zenon DEF ChainInv, OutboxInv, LockState
<1>2. CASE chain_state = None
    <2>1. /\ at' = [at EXCEPT ![p] = "absent"]
          /\ UNCHANGED <<chain_state, lock, audit_outbox, todo, view, claim>>
        BY Zenon, <1>2 DEF LockState
    <2>2. at'[p] = "absent" /\ StepOf(p)
        BY Zenon, <1>1, <2>1 DEF Shapes, StepOf
    <2>3. ClaimOK(p)'
        BY Zenon, <1>1, <2>1, <2>2 DEF ClaimOK, Working
    <2> QED
        BY Zenon, <2>1, <2>2, <2>3, OutboxFrame
<1>3. CASE chain_state # None
    <2>1. /\ lock = None /\ lock' = p /\ at' = [at EXCEPT ![p] = "append"]
          /\ view' = [view EXCEPT ![p] = [index |-> chain_state.index,
                                          head |-> chain_state.head, rows |-> {}]]
          /\ UNCHANGED <<chain_state, audit_outbox, todo, claim>>
        BY Zenon, <1>3 DEF LockState
    <2>2. /\ at'[p] = "append" /\ StepOf(p)
          /\ view'[p] = [index |-> chain_state.index, head |-> chain_state.head, rows |-> {}]
        BY Zenon, <1>1, <2>1 DEF Shapes, StepOf
    <2>3. view'[p].head = ChainHead
        BY <1>3, <2>2 DEF ChainHead
    <2> QED
        BY Zenon, <1>1, <2>1, <2>2, <2>3, TakeOutbox
<1> QED
    BY Zenon, <1>2, <1>3

\* Whoever inserts the row or waited for another's insert has the row afterwards.
LEMMA InsertOutbox ==
    ASSUME ChainInv, OutboxInv, NEW p \in Procs, InsertState(p)
    PROVE  OutboxInv'
<1>1. Shapes
    BY Zenon DEF ChainInv
<1>2. /\ at[p] = "absent" /\ lock = None /\ lock' = p /\ at' = [at EXCEPT ![p] = "append"]
      /\ view' = [view EXCEPT ![p] = AfterInsert]
      /\ UNCHANGED <<chain_state, audit_outbox, todo, claim>>
    BY Zenon DEF InsertState
<1>3. at'[p] = "append" /\ StepOf(p) /\ view'[p] = AfterInsert
    BY Zenon, <1>1, <1>2 DEF Shapes, StepOf
<1>4. view'[p].head = ChainHead
    BY <1>3 DEF ChainHead, AfterInsert, NoView
<1> QED
    BY Zenon, <1>2, <1>3, <1>4, TakeOutbox

\* An event moves from what is to be appended to what has been.
LEMMA AppendOutbox ==
    ASSUME ChainInv, OutboxInv, NEW p \in Procs, AppendToChain(p)
    PROVE  OutboxInv'
<1>1. Shapes /\ TodoOK(p) /\ ViewOK(p) /\ ClaimOK(p)
    BY Zenon DEF ChainInv, OutboxInv
<1>2. /\ at[p] = "append" /\ Head(todo[p]) # <<>>
      /\ view' = [view EXCEPT ![p] = Extend(view[p], Head(Head(todo[p])))]
      /\ todo' = [todo EXCEPT ![p] = <<Tail(Head(todo[p]))>> \o Tail(todo[p])]
      /\ UNCHANGED <<chain_state, lock, audit_outbox, at, claim>>
    BY Zenon DEF AppendToChain, chainVars
<1>3. PICK t : t = todo[p]
    BY Zenon
<1>4. t \in Seq(Seq(Events)) /\ t # <<>>
    BY Zenon, <1>1, <1>2, <1>3 DEF Shapes, TodoOK, Working
<1>5. PICK f : f = t[1]
    BY Zenon
<1>6. Head(t) = f /\ f \in Seq(Events) /\ f # <<>>
    BY Zenon, <1>2, <1>3, <1>4, <1>5, HeadTail
<1>7. Head(f) = f[1] /\ f[1] \in Events /\ Tail(f) \in Seq(Events)
    BY Zenon, <1>6, HeadTail
<1>8. PICK u : u = <<Tail(f)>> \o Tail(t)
    BY Zenon
<1>9. u \in Seq(Seq(Events)) /\ Len(u) = Len(t) /\ u[1] = Tail(f) /\ \A k \in 2..Len(t) : u[k] = t[k]
    <2>1. PICK x : x = Tail(f)
        BY Zenon
    <2>2. x \in Seq(Events) /\ u = <<x>> \o Tail(t)
        BY Zenon, <1>7, <1>8, <2>1
    <2> QED
        BY <1>4, <2>1, <2>2
<1>10. PICK h : h = view[p].head
    BY Zenon
<1>11. h \in Seq(Events)
    BY Zenon, <1>1, <1>2, <1>10 DEF ViewOK
<1>12. PICK g : g = Append(h, f[1])
    BY Zenon
<1>13. /\ todo'[p] = u /\ view'[p] = Extend(view[p], f[1]) /\ at'[p] = "append" /\ StepOf(p)
    BY Zenon, <1>1, <1>2, <1>3, <1>6, <1>7, <1>8 DEF Shapes, StepOf
<1>14. view'[p].head = g
    BY <1>10, <1>12, <1>13 DEF Extend, ChainHash
<1>15. \A k \in 1..Len(u) : k = 1 \/ k \in 2..Len(t)
    BY <1>4, <1>9
<1>16. 1 \in 1..Len(t) /\ \A k \in 2..Len(t) : k \in 1..Len(t) /\ k # 1
    BY <1>4
<1>17. \A i \in Intents, k \in 2..Len(t) : NotIn(t[k], i)
    BY Zenon, <1>1, <1>3, <1>16 DEF ClaimOK
<1>18. \A i \in Intents : IF i \in claim[p] /\ NotIn(h, i) THEN OnceIn(f, i) ELSE NotIn(f, i)
    BY Zenon, <1>1, <1>2, <1>3, <1>5, <1>10, <1>16 DEF ClaimOK
<1>19. \A i \in Intents : IF i \in claim[p] THEN OnceIn(h, i) \/ NotIn(h, i)
                          ELSE IntentOK(h, i)
    BY Zenon, <1>1, <1>2, <1>10 DEF ClaimOK
<1>20. ASSUME NEW i \in Intents
       PROVE  /\ IF i \in claim[p] THEN OnceIn(g, i) \/ NotIn(g, i) ELSE IntentOK(g, i)
              /\ IF i \in claim[p] /\ NotIn(g, i) THEN OnceIn(Tail(f), i)
                 ELSE NotIn(Tail(f), i)
    <2>1. /\ NotIn(h, i) /\ f[1].by # i => NotIn(g, i)
          /\ NotIn(h, i) /\ f[1].by = i => OnceIn(g, i)
          /\ OnceIn(h, i) /\ f[1].by # i => OnceIn(g, i)
        BY Zenon, <1>7, <1>11, <1>12, InAppend
    <2>2. /\ NotIn(f, i) => f[1].by # i /\ NotIn(Tail(f), i)
          /\ OnceIn(f, i) /\ f[1].by = i => NotIn(Tail(f), i)
          /\ OnceIn(f, i) /\ f[1].by # i => OnceIn(Tail(f), i)
        BY Zenon, <1>6, InTail
    <2>3. /\ ~ (NotIn(h, i) /\ OnceIn(h, i)) /\ ~ (NotIn(g, i) /\ OnceIn(g, i))
        BY Zenon, NotOnce
    <2>4. CASE i \notin claim[p]
        BY Zenon, <1>18, <1>19, <2>1, <2>2, <2>4 DEF IntentOK
    <2>5. CASE i \in claim[p] /\ NotIn(h, i)
        BY Zenon, <1>18, <2>1, <2>2, <2>3, <2>5
    <2>6. CASE i \in claim[p] /\ ~NotIn(h, i)
        BY Zenon, <1>18, <1>19, <2>1, <2>2, <2>3, <2>6
    <2> QED
        BY Zenon, <2>4, <2>5, <2>6
<1>21. ASSUME NEW i \in Intents, NEW k \in 1..Len(u)
       PROVE  IF k = 1 /\ i \in claim[p] /\ NotIn(g, i)
              THEN OnceIn(u[k], i) ELSE NotIn(u[k], i)
    <2>1. CASE k = 1
        BY Zenon, <1>9, <1>20, <2>1
    <2>2. CASE k \in 2..Len(t)
        <3>1. k # 1 /\ u[k] = t[k]
            BY Zenon, <1>9, <1>16, <2>2
        <3> QED
            BY Zenon, <1>17, <2>2, <3>1
    <2> QED
        BY Zenon, <1>15, <2>1, <2>2
<1>22. ClaimOK(p)'
    <2>1. /\ claim'[p] # {} => at'[p] \in Working
          /\ \A i \in claim'[p] : audit_outbox'[i] = "PENDING"
          /\ \A q \in Procs : q # p => claim'[p] \cap claim'[q] = {}
        BY Zenon, <1>1, <1>2 DEF ClaimOK
    <2>2. \A i \in Intents, k \in 1..Len(todo'[p]) :
            IF k = 1 /\ i \in claim'[p] /\ (at'[p] = "append" => NotIn(view'[p].head, i))
            THEN OnceIn(todo'[p][k], i) ELSE NotIn(todo'[p][k], i)
        BY Zenon, <1>2, <1>13, <1>14, <1>21
    <2>3. \A i \in Intents : IF i \in claim'[p]
                             THEN OnceIn(view'[p].head, i) \/ NotIn(view'[p].head, i)
                             ELSE IntentOK(view[p].head, i)'
        BY Zenon, <1>2, <1>14, <1>20 DEF IntentOK
    <2> QED
        BY Zenon, <2>1, <2>2, <2>3 DEF ClaimOK
<1> QED
    BY Zenon, <1>2, <1>13, <1>22, OutboxFrame

\* The transaction commits: what it had claimed is in the head, and DISPATCHED.
LEMMA CommitOutbox ==
    ASSUME ChainInv, OutboxInv, NEW p \in Procs, Commit(p)
    PROVE  OutboxInv'
<1>1. Shapes /\ TodoOK(p) /\ ClaimOK(p) /\ OutboxOK
    BY Zenon DEF ChainInv, OutboxInv
<1>2. /\ at[p] = "append" /\ Head(todo[p]) = <<>>
      /\ audit_outbox' = Dispatched(audit_outbox, claim[p])
      /\ claim' = [claim EXCEPT ![p] = {}] /\ view' = [view EXCEPT ![p] = NoView]
      /\ todo' = [todo EXCEPT ![p] = Tail(todo[p])]
      /\ at' = [at EXCEPT ![p] = IF Tail(todo[p]) = <<>> THEN "done" ELSE "begin"]
    BY Zenon DEF Commit
<1>3. ChainHead' = view[p].head /\ lock = p /\ todo[p] # <<>>
    BY Zenon, CommitHead
<1>4. PICK t : t = todo[p]
    BY Zenon
<1>5. t \in Seq(Seq(Events)) /\ t # <<>>
    BY Zenon, <1>1, <1>3, <1>4 DEF Shapes
<1>6. PICK u : u = Tail(t)
    BY Zenon
<1>7. /\ t[1] = <<>> /\ 1 \in 1..Len(t)
      /\ \A k \in 1..Len(u) : u[k] = t[k + 1] /\ k + 1 \in 1..Len(t) /\ k + 1 # 1
    BY <1>2, <1>4, <1>5, <1>6
<1>8. /\ todo'[p] = u /\ at'[p] \in {"done", "begin"} /\ claim'[p] = {}
      /\ \A q \in Procs \ {p} : /\ at'[q] = at[q] /\ todo'[q] = todo[q] /\ view'[q] = view[q]
                               /\ claim'[q] = claim[q]
    BY Zenon, <1>1, <1>2, <1>4, <1>6 DEF Shapes
<1>9. /\ \A i \in claim[p] : i \in Intents /\ audit_outbox'[i] = "DISPATCHED"
      /\ \A i \in Intents : i \notin claim[p] => audit_outbox'[i] = audit_outbox[i]
    BY Zenon, <1>1, <1>2 DEF Shapes, Dispatched
<1>10. ASSUME NEW i \in Intents PROVE IntentOK(ChainHead, i)'
    <2>1. CASE i \in claim[p]
        <3>1. ~ OnceIn(t[1], i)
            BY Zenon, <1>7, NotOnce
        <3>2. OnceIn(view[p].head, i)
            BY Zenon, <1>1, <1>2, <1>4, <1>7, <2>1, <3>1 DEF ClaimOK
        <3> QED
            BY Zenon, <1>3, <1>9, <2>1, <3>2 DEF IntentOK
    <2>2. CASE i \notin claim[p]
        <3>1. IntentOK(view[p].head, i)
            BY Zenon, <1>1, <1>2, <2>2 DEF ClaimOK
        <3> QED
            BY Zenon, <1>3, <1>9, <2>2, <3>1 DEF IntentOK
    <2> QED
        BY Zenon, <2>1, <2>2
<1>11. OutboxOK'
    <2>1. audit_outbox' \in [Intents -> {"NONE", "PENDING", "DISPATCHED"}]
        BY Zenon, <1>1, <1>2 DEF OutboxOK, Dispatched
    <2> QED
        BY Zenon, <1>10, <2>1 DEF OutboxOK
<1>12. ClaimOK(p)'
    <2>1. ASSUME NEW i \in Intents, NEW k \in 1..Len(todo'[p]) PROVE NotIn(todo'[p][k], i)
        <3>1. k \in 1..Len(u)
            BY Zenon, <1>8
        <3>2. todo'[p][k] = t[k + 1] /\ k + 1 \in 1..Len(t) /\ k + 1 # 1
            BY Zenon, <1>7, <1>8, <3>1
        <3> QED
            BY Zenon, <1>1, <1>4, <3>2 DEF ClaimOK
    <2>2. at'[p] # "append"
        BY <1>8
    <2> QED
        BY Zenon, <1>8, <2>1, <2>2, NoClaim
<1>13. ASSUME NEW q \in Procs, q # p PROVE ClaimOK(q)'
    <2>1. ClaimOK(q) /\ ViewOK(q) /\ claim[q] \subseteq Intents
        BY Zenon DEF ChainInv, OutboxInv, Shapes
    <2>2. /\ at'[q] = at[q] /\ todo'[q] = todo[q] /\ view'[q] = view[q] /\ claim'[q] = claim[q]
        BY Zenon, <1>8, <1>13
    <2>3. at[q] # "append"
        BY Zenon, <1>3, <1>13, <2>1 DEF ViewOK
    <2>4. \A i \in claim[q] : i \notin claim[p]
        BY Zenon, <1>13, <2>1 DEF ClaimOK
    <2>5. \A i \in claim[q] : audit_outbox'[i] = "PENDING"
        BY Zenon, <1>9, <2>1, <2>4 DEF ClaimOK
    <2>6. ASSUME NEW r \in Procs, r # q PROVE claim[q] \cap claim'[r] = {}
        <3>1. CASE r = p
            BY Zenon, <1>8, <3>1
        <3>2. CASE r \in Procs \ {p}
            BY Zenon, <1>8, <2>1, <2>6, <3>2 DEF ClaimOK
        <3> QED
            BY Zenon, <3>1, <3>2
    <2> QED
        BY Zenon, <2>1, <2>2, <2>3, <2>5, <2>6, OthersClaim
<1> QED
    BY Zenon, <1>11, <1>12, <1>13 DEF OutboxInv

\* The transaction is rolled back, with its claims.
LEMMA RollbackOutbox ==
    ASSUME ChainInv, OutboxInv, NEW p \in Procs, Rollback(p)
    PROVE  OutboxInv'
<1>1. Shapes
    BY Zenon DEF ChainInv
<1>2. /\ lock' = (IF lock = p THEN None ELSE lock) /\ at' = [at EXCEPT ![p] = "failed"]
      /\ claim' = [claim EXCEPT ![p] = {}] /\ view' = [view EXCEPT ![p] = NoView]
      /\ todo' = [todo EXCEPT ![p] = <<>>] /\ UNCHANGED <<chain_state, audit_outbox>>
    BY Zenon DEF Rollback
<1>3. /\ at'[p] = "failed" /\ todo'[p] = <<>> /\ claim'[p] = {} /\ StepOf(p)
      /\ \A q \in Procs \ {p} : claim'[q] = claim[q]
    BY Zenon, <1>1, <1>2 DEF Shapes, StepOf
<1>4. \A k : k \notin 1..Len(todo'[p])
    BY <1>3
<1>5. ClaimOK(p)'
    BY Zenon, <1>3, <1>4, NoClaim
<1> QED
    BY Zenon, <1>2, <1>3, <1>5, OutboxFrame

\* A step of build_and_archive claims no intent.
LEMMA ArchivingOutbox ==
    ASSUME ChainInv, OutboxInv, NEW p \in Procs, at[p] \in Archiving,
           UNCHANGED <<chainVars, view, claim, audit_outbox>>,
           \A q \in Procs \ {p} : at'[q] = at[q] /\ todo'[q] = todo[q],
           \/ at'[p] \in Archiving \cup {"begin"} /\ todo'[p] = todo[p]
           \/ at'[p] = "failed" /\ todo'[p] = <<>>
    PROVE  OutboxInv'
<1>1. ClaimOK(p)
    BY Zenon DEF OutboxInv
<1>2. at[p] # "append" /\ at'[p] # "append" /\ claim[p] = {}
    BY <1>1 DEF ClaimOK, Archiving, Working
<1>3. ASSUME NEW i \in Intents, NEW k \in 1..Len(todo'[p]) PROVE NotIn(todo'[p][k], i)
    <2>1. todo'[p] = todo[p]
        <3>1. todo'[p] # <<>>
            BY <1>3
        <3> QED
            BY Zenon, <3>1
    <2> QED
        BY Zenon, <1>1, <1>2, <1>3, <2>1 DEF ClaimOK
<1>4. ClaimOK(p)' /\ StepOf(p)
    BY Zenon, <1>2, <1>3, NoClaim DEF StepOf, chainVars
<1> QED
    BY Zenon, <1>2, <1>4, OutboxFrame DEF chainVars

-----------------------------------------------------------------------------
(* Manifests, while the chain grows *)

\* The rows of a chain have the types of the table.
LEMMA SegmentRows ==
    ASSUME NEW h \in Seq(Events), NEW a \in Nat \ {0}, NEW n \in Nat, n <= Len(h)
    PROVE  Segment(h, a, n) \subseteq Rows
<1> SUFFICES ASSUME NEW k \in a..n PROVE RowAt(h, k) \in Rows
    BY Zenon DEF Segment
<1>1. k \in Nat \ {0} /\ h[k] \in Events
    OBVIOUS
<1>2. [j \in 1 .. k - 1 |-> h[j]] \in Seq(Events)
    <2>1. k - 1 \in Nat /\ \A j \in 1 .. k - 1 : h[j] \in Events
        OBVIOUS
    <2> QED
        BY <2>1
<1> QED
    BY Zenon, <1>1, <1>2 DEF RowAt, Rows

\* A document describes the same segment of a longer chain.
LEMMA DocumentKept ==
    ASSUME ChainOK, ChainOK', Extends(ChainHead', ChainHead), audit_manifest \subseteq audit_manifest',
           NEW d, DocumentOK(d)
    PROVE  DocumentOK(d)'
<1>1. PICK m : m = Len(ChainHead)
    BY Zenon
<1>2. PICK n : n = Len(ChainHead')
    BY Zenon
<1>3. m \in Nat /\ n \in Nat
    BY Zenon, <1>1, <1>2, HeadType
<1>4. m <= n /\ \A k \in 1..m : ChainHead'[k] = ChainHead[k]
    BY Zenon, <1>1, <1>2 DEF Extends
<1>5. d.last \in 1..m /\ d.first \in 1..d.last
    BY Zenon, <1>1 DEF DocumentOK
<1>6. d.last \in 1..n /\ \A k \in 1..d.last : k \in 1..m
    BY <1>3, <1>4, <1>5
<1>7. [k \in 1..d.last |-> ChainHead'[k]] = [k \in 1..d.last |-> ChainHead[k]]
    BY Zenon, <1>4, <1>6
<1> QED
    BY Zenon, <1>2, <1>6, <1>7 DEF DocumentOK

\* A request that a step leaves alone goes on archiving the segment it has read.
LEMMA ArchiveKept ==
    ASSUME ChainOK, ChainOK', Extends(ChainHead', ChainHead), audit_manifest \subseteq audit_manifest',
           NEW q \in Procs, ArchiveOK(q), segment'[q] = segment[q],
           at'[q] \in {"rows", "put", "insert"} => at'[q] = at[q]
    PROVE  ArchiveOK(q)'
<1>1. PICK m : m = Len(ChainHead)
    BY Zenon
<1>2. PICK n : n = Len(ChainHead')
    BY Zenon
<1>3. m \in Nat /\ n \in Nat
    BY Zenon, <1>1, <1>2, HeadType
<1>4. m <= n
    BY Zenon, <1>1, <1>2 DEF Extends
<1>5. \A a : Reached(a) => Reached(a)'
    BY Zenon DEF Reached
<1>6. ASSUME at'[q] = "rows"
      PROVE  segment'[q].archived \in 0..n /\ Reached(segment[q].archived)'
    <2>1. segment[q].archived \in 0..m /\ Reached(segment[q].archived)
        BY Zenon, <1>1, <1>6 DEF ArchiveOK
    <2>2. segment[q].archived \in 0..n
        BY <1>3, <1>4, <2>1
    <2> QED
        BY Zenon, <1>5, <2>1, <2>2
<1>7. ASSUME at'[q] = "put"
      PROVE  \E a \in 0..n, k \in 1..n : a < k /\ segment'[q].rows = Segment(ChainHead', a + 1, k)
                                               /\ Reached(a)'
    <2>1. PICK a \in 0..m, k \in 1..m :
            a < k /\ segment[q].rows = Segment(ChainHead, a + 1, k) /\ Reached(a)
        BY Zenon, <1>1, <1>7 DEF ArchiveOK
    <2>2. a \in 0..n /\ k \in 1..n /\ a + 1 \in Nat \ {0} /\ k \in Nat /\ k <= m
        BY <1>3, <1>4
    <2>3. Segment(ChainHead', a + 1, k) = Segment(ChainHead, a + 1, k)
        BY SMTT(40), <1>1, <1>3, <2>2, SegmentKept
    <2> QED
        BY Zenon, <1>5, <2>1, <2>2, <2>3
<1>8. at'[q] = "insert" => DocumentOK(segment[q].manifest)'
    <2>1. at'[q] = "insert" => DocumentOK(segment[q].manifest)
        BY Zenon DEF ArchiveOK
    <2>2. PICK d : d = segment[q].manifest
        BY Zenon
    <2>3. DocumentOK(d) => DocumentOK(d)'
        BY Zenon, DocumentKept
    <2> QED
        BY Zenon, <2>1, <2>2, <2>3
<1> QED
    BY Zenon, <1>2, <1>6, <1>7, <1>8 DEF ArchiveOK

\* A step outside build_and_archive.
LEMMA ManifestFrame ==
    ASSUME ChainOK, ChainOK', Extends(ChainHead', ChainHead), ManifestInv,
           UNCHANGED <<audit_manifest, segment>>,
           \A q \in Procs : at'[q] \in {"rows", "put", "insert"} => at'[q] = at[q]
    PROVE  ManifestInv'
<1>1. \A d \in audit_manifest' : DocumentOK(d)'
    <2> SUFFICES ASSUME NEW d \in audit_manifest' PROVE DocumentOK(d)'
        BY Zenon
    <2>1. DocumentOK(d)
        BY Zenon DEF ManifestInv, ManifestsOK
    <2> QED
        BY Zenon, <2>1, DocumentKept
<1>2. ManifestsOK'
    BY Zenon, <1>1 DEF ManifestInv, ManifestsOK
<1>3. \A q \in Procs : ArchiveOK(q)'
    BY Zenon, ArchiveKept DEF ManifestInv
<1> QED
    BY Zenon, <1>2, <1>3 DEF ManifestInv

\* What a step relies on that is found by counting: the size of a dispatcher's batch, the last
\* index that is archived, and the document of the rows a request has read.
Counted ==
    /\ LET pending == {i \in Intents : audit_outbox[i] = "PENDING"}
       IN  pending # {} => Cardinality(pending) \in Nat \ {0}
    /\ LastArchived \in 0..Len(ChainHead) /\ Reached(LastArchived)
    /\ \A p \in Procs : at[p] = "put" => DocumentOK(Document(segment[p].rows))

-----------------------------------------------------------------------------
(* build_and_archive *)

\* Nothing about the manifests changes with a step that leaves the chain and them alone.
LEMMA SameManifests ==
    ASSUME ManifestInv, UNCHANGED <<chain_state, audit_manifest>>
    PROVE  ManifestsOK'
<1>1. ChainHead' = ChainHead
    BY Zenon DEF ChainHead
<1> QED
    BY Zenon, <1>1 DEF ManifestInv, ManifestsOK, DocumentOK

\* A step of build_and_archive: what it has to show about the manifests, the rest it keeps.
LEMMA ArchivingStep ==
    ASSUME ChainInv, OutboxInv, ManifestInv, NEW p \in Procs, at[p] \in Archiving,
           UNCHANGED <<chainVars, view, claim, audit_outbox>>,
           NEW s \in [archived : Nat, rows : SUBSET Rows, manifest : Manifests \cup {None}],
           segment' = [segment EXCEPT ![p] = s],
           NEW c, at' = [at EXCEPT ![p] = c],
           NEW t, todo' = [todo EXCEPT ![p] = t],
           \/ c \in Archiving \cup {"begin"} /\ t = todo[p]
           \/ c = "failed" /\ t = <<>>,
           audit_manifest \subseteq audit_manifest', ManifestsOK',
           c \in {"rows", "put", "insert"} => ArchiveOK(p)'
    PROVE  ChainInv' /\ OutboxInv' /\ ManifestInv'
<1>1. Shapes /\ ChainOK
    BY Zenon DEF ChainInv
<1>2. /\ at'[p] = c /\ todo'[p] = t /\ segment'[p] = s
      /\ \A q \in Procs \ {p} : at'[q] = at[q] /\ todo'[q] = todo[q] /\ segment'[q] = segment[q]
    BY Zenon, <1>1 DEF Shapes
<1>3. Shapes'
    <2>1. todo[p] \in Seq(Seq(Events)) /\ <<>> \in Seq(Seq(Events))
        BY <1>1 DEF Shapes
    <2>2. t \in Seq(Seq(Events))
        BY Zenon, <2>1
    <2>3. c \in {"idle", "claim", "done", "failed"} \cup Working \cup Archiving
        BY DEF Working
    <2>4. todo' \in [Procs -> Seq(Seq(Events))]
        BY Zenon, <1>1, <2>2 DEF Shapes
    <2>5. at' \in [Procs -> {"idle", "claim", "done", "failed"} \cup Working \cup Archiving]
        BY Zenon, <1>1, <2>3 DEF Shapes
    <2>6. segment' \in [Procs -> [archived : Nat, rows : SUBSET Rows,
                                   manifest : Manifests \cup {None}]]
        BY Zenon, <1>1 DEF Shapes
    <2> QED
        BY Zenon, <1>1, <2>4, <2>5, <2>6 DEF Shapes, chainVars
<1>4. ChainInv'
    BY Zenon, <1>2, <1>3, ArchivingChain
<1>5. OutboxInv'
    BY Zenon, <1>2, ArchivingOutbox
<1>6. ChainOK' /\ Extends(ChainHead', ChainHead)
    <2>1. ChainOK' /\ ChainHead' = ChainHead
        BY Zenon, <1>4 DEF ChainInv, ChainHead, chainVars
    <2>2. Len(ChainHead) <= Len(ChainHead)
        BY <1>1, HeadType
    <2> QED
        BY Zenon, <2>1, <2>2 DEF Extends
<1>7. ASSUME NEW q \in Procs PROVE ArchiveOK(q)'
    <2>1. CASE q = p /\ c \in {"rows", "put", "insert"}
        BY Zenon, <2>1
    <2>2. CASE q = p /\ c \notin {"rows", "put", "insert"}
        BY Zenon, <1>2, <2>2 DEF ArchiveOK
    <2>3. CASE q # p
        BY Zenon, <1>1, <1>2, <1>6, <2>3, ArchiveKept DEF ManifestInv
    <2> QED
        BY Zenon, <2>1, <2>2, <2>3
<1> QED
    BY Zenon, <1>4, <1>5, <1>7 DEF ManifestInv

\* The index of the last archived event is read.
LEMMA ReadArchivedInv ==
    ASSUME ChainInv, OutboxInv, ManifestInv, Counted, NEW p \in Procs, ReadArchived(p)
    PROVE  ChainInv' /\ OutboxInv' /\ ManifestInv'
<1>1. Shapes
    BY Zenon DEF ChainInv
<1>2. PICK a : a = LastArchived
    BY Zenon
<1>3. PICK s : s = [segment[p] EXCEPT !.archived = a]
    BY Zenon
<1>4. /\ at[p] = "archived" /\ at' = [at EXCEPT ![p] = "rows"]
      /\ segment' = [segment EXCEPT ![p] = s]
      /\ UNCHANGED <<chainVars, audit_manifest, audit_outbox, todo, view, claim>>
    BY Zenon, <1>2, <1>3 DEF ReadArchived
<1>5. a \in 0..Len(ChainHead) /\ Reached(a)
    BY Zenon, <1>2 DEF Counted
<1>6. a \in Nat
    BY <1>5
<1>7. /\ s \in [archived : Nat, rows : SUBSET Rows, manifest : Manifests \cup {None}]
      /\ s.archived = a
    <2>1. segment[p] \in [archived : Nat, rows : SUBSET Rows, manifest : Manifests \cup {None}]
        BY Zenon, <1>1 DEF Shapes
    <2> QED
        BY <1>3, <1>6, <2>1
<1>8. todo' = [todo EXCEPT ![p] = todo[p]]
    BY Zenon, <1>1, <1>4 DEF Shapes
<1>9. ArchiveOK(p)'
    <2>1. at'[p] = "rows" /\ segment'[p] = s
        BY Zenon, <1>1, <1>4 DEF Shapes
    <2>2. ChainHead' = ChainHead /\ Reached(a)'
        BY Zenon, <1>4, <1>5 DEF ChainHead, Reached, chainVars
    <2>3. at'[p] # "put" /\ at'[p] # "insert"
        BY <2>1
    <2> QED
        BY Zenon, <1>5, <1>7, <2>1, <2>2, <2>3 DEF ArchiveOK
<1>10. ManifestsOK'
    BY Zenon, <1>4, SameManifests DEF chainVars
<1>11. at[p] \in Archiving /\ "rows" \in Archiving /\ audit_manifest \subseteq audit_manifest'
    BY <1>4 DEF Archiving
<1> QED
    BY Zenon, <1>4, <1>7, <1>8, <1>9, <1>10, <1>11, ArchivingStep

\* Request p sees the committed events after an index: a segment up to the head, or nothing.
LEMMA ReadRowsInv ==
    ASSUME ChainInv, OutboxInv, ManifestInv, NEW p \in Procs, ReadRows(p)
    PROVE  ChainInv' /\ OutboxInv' /\ ManifestInv'
<1>1. Shapes /\ ChainOK /\ ArchiveOK(p)
    BY Zenon DEF ChainInv, ManifestInv
<1>2. PICK a : a = segment[p].archived
    BY Zenon
<1>3. PICK rows : rows = After(a)
    BY Zenon
<1>4. PICK s : s = [NoSegment EXCEPT !.rows = rows]
    BY Zenon
<1>5. PICK c : c = IF rows = {} THEN "begin" ELSE "put"
    BY Zenon
<1>6. /\ at[p] = "rows" /\ at' = [at EXCEPT ![p] = c]
      /\ segment' = [segment EXCEPT ![p] = s]
      /\ UNCHANGED <<chainVars, audit_manifest, audit_outbox, todo, view, claim>>
    BY Zenon, <1>2, <1>3, <1>4, <1>5 DEF ReadRows
<1>7. PICK n : n = Len(ChainHead)
    BY Zenon
<1>8. ChainHead \in Seq(Events) /\ n \in Nat
    BY Zenon, <1>1, <1>7, HeadType
<1>9. a \in 0..n /\ Reached(a)
    BY Zenon, <1>1, <1>2, <1>6, <1>7 DEF ArchiveOK
<1>10. a \in Nat /\ a <= n /\ a + 1 \in Nat \ {0} /\ n <= n
    BY <1>8, <1>9
<1>11. rows = Segment(ChainHead, a + 1, n)
    <2>1. \A k : k \in a + 1 .. n <=> k \in 1..n /\ k > a
        BY <1>8, <1>10
    <2>2. \A k : RowAt(ChainHead, k).index = k
        BY Zenon DEF RowAt
    <2>3. audit_event = Segment(ChainHead, 1, n)
        BY Zenon, <1>1, <1>7 DEF ChainOK
    <2> QED
        BY ZenonT(60), <1>3, <2>1, <2>2, <2>3 DEF After, Segment
<1>12. rows \subseteq Rows
    BY Zenon, <1>7, <1>8, <1>10, <1>11, SegmentRows
<1>13. /\ s \in [archived : Nat, rows : SUBSET Rows, manifest : Manifests \cup {None}]
       /\ s.rows = rows
    BY <1>4, <1>12 DEF NoSegment
<1>14. todo' = [todo EXCEPT ![p] = todo[p]]
    BY Zenon, <1>1, <1>6 DEF Shapes
<1>15. c \in Archiving \cup {"begin"} /\ at[p] \in Archiving /\ (c = "put" \/ c = "begin")
    BY <1>5, <1>6 DEF Archiving
<1>16. ASSUME c = "put" PROVE ArchiveOK(p)'
    <2>1. at'[p] = "put" /\ segment'[p] = s
        BY Zenon, <1>1, <1>6, <1>16 DEF Shapes
    <2>2. ChainHead' = ChainHead /\ Reached(a)'
        BY Zenon, <1>6, <1>9 DEF ChainHead, Reached, chainVars
    <2>3. at'[p] # "rows" /\ at'[p] # "insert"
        BY <2>1
    <2>4. a < n /\ n \in 1..n
        <3>1. rows # {}
            BY <1>5, <1>16
        <3>2. a + 1 .. n # {}
            BY Zenon, <1>11, <3>1 DEF Segment
        <3> QED
            BY <1>8, <1>10, <3>2
    <2> QED
        BY Zenon, <1>7, <1>9, <1>11, <1>13, <2>1, <2>2, <2>3, <2>4 DEF ArchiveOK
<1>17. c \in {"rows", "put", "insert"} => ArchiveOK(p)'
    BY <1>15, <1>16
<1>18. ManifestsOK' /\ audit_manifest \subseteq audit_manifest'
    BY Zenon, <1>6, SameManifests DEF chainVars
<1> QED
    BY Zenon, <1>6, <1>13, <1>14, <1>15, <1>17, <1>18, ArchivingStep

\* The rows after index a up to n in their order, and what a document takes from them.
RowsAfter(h, a, n) == [k \in 1 .. n - a |-> RowAt(h, a + k)]
Describes(seq, h, a, n) ==
    /\ Len(seq) = n - a /\ seq[1].index = a + 1 /\ seq[Len(seq)].index = n
    /\ seq[1].prev \o [k \in DOMAIN seq |-> seq[k].hash] = [k \in 1..n |-> h[k]]
    /\ [k \in 1..n |-> h[k]] \in Seq(Events)

\* The head in the document of a segment is rolled forward to the segment's end.
LEMMA RolledForward ==
    ASSUME NEW h \in Seq(Events), NEW a \in Nat, NEW n \in Nat, a < n, n <= Len(h)
    PROVE  Describes(RowsAfter(h, a, n), h, a, n)
<1>0. PICK seq : seq = RowsAfter(h, a, n)
    BY Zenon
<1>1. n - a \in Nat \ {0}
    OBVIOUS
<1>2. Len(h) \in Nat /\ \A k \in 1..Len(h) : h[k] \in Events
    OBVIOUS
<1>3. n \in 1..Len(h) /\ a <= n /\ a + 1 \in 1..n
    BY <1>2
<1>4. \A k \in 1 .. n - a : seq[k] = RowAt(h, a + k)
    BY Zenon, <1>0 DEF RowsAfter
<1>5. DOMAIN seq = 1 .. n - a
    BY Zenon, <1>0 DEF RowsAfter
<1>6. Len(seq) = n - a
    BY <1>0, <1>1 DEF RowsAfter
<1>7. /\ 1 \in 1 .. n - a /\ n - a \in 1 .. n - a
      /\ a + (n - a) = n /\ (a + 1) - 1 = a
    BY <1>1
<1>8. /\ seq[1] = RowAt(h, a + 1) /\ seq[Len(seq)] = RowAt(h, n)
      /\ \A k \in 1 .. n - a : seq[k].hash = h[a + k]
    <2>1. \A k : RowAt(h, k).hash = h[k]
        BY Zenon DEF RowAt
    <2> QED
        BY Zenon, <1>4, <1>6, <1>7, <2>1
<1>9. PICK x : x = [j \in 1..a |-> h[j]]
    BY Zenon
<1>10. PICK y : y = [k \in 1 .. n - a |-> h[a + k]]
    BY Zenon
<1>11. seq[1].index = a + 1 /\ seq[1].prev = x /\ seq[Len(seq)].index = n
    <2>1. /\ RowAt(h, a + 1).index = a + 1 /\ RowAt(h, n).index = n
          /\ RowAt(h, a + 1).prev = [j \in 1 .. (a + 1) - 1 |-> h[j]]
        BY Zenon DEF RowAt
    <2> QED
        BY Zenon, <1>7, <1>8, <1>9, <2>1
<1>12. [k \in DOMAIN seq |-> seq[k].hash] = y
    BY Zenon, <1>5, <1>8, <1>10
<1>13. x \in Seq(Events) /\ Len(x) = a /\ \A j \in 1..a : x[j] = h[j]
    <2>1. \A j \in 1..a : h[j] \in Events
        BY <1>2, <1>3
    <2> QED
        BY <1>3, <1>9, <2>1
<1>14. y \in Seq(Events) /\ Len(y) = n - a /\ \A k \in 1 .. n - a : y[k] = h[a + k]
    <2>1. \A k \in 1 .. n - a : h[a + k] \in Events
        BY <1>2, <1>3
    <2> QED
        BY <1>3, <1>10, <2>1
<1>15. PICK z : z = x \o y
    BY Zenon
<1>16. z \in Seq(Events) /\ z = [k \in 1..n |-> h[k]]
    <2>1. z \in Seq(Events) /\ Len(z) = n
        <3>1. z \in Seq(Events) /\ Len(z) = Len(x) + Len(y)
            <4>1. x \in Seq(Events) /\ y \in Seq(Events)
                BY Zenon, <1>13, <1>14
            <4> QED
                BY <1>15, <4>1
        <3>2. a + (n - a) = n
            BY Zenon, <1>7
        <3> QED
            BY Zenon, <1>13, <1>14, <3>1, <3>2
    <2>2. ASSUME NEW k \in 1..n PROVE z[k] = h[k]
        <3>1. CASE k \in 1..a
            <4>1. z[k] = x[k]
                BY <1>13, <1>14, <1>15, <3>1
            <4> QED
                BY Zenon, <1>13, <3>1, <4>1
        <3>2. CASE k \notin 1..a
            <4>1. k - a \in 1 .. n - a /\ a + (k - a) = k
                BY <1>3, <3>2
            <4>2. z[k] = y[k - a]
                BY <1>3, <1>13, <1>14, <1>15, <3>2
            <4> QED
                BY Zenon, <1>14, <4>1, <4>2
        <3> QED
            BY Zenon, <3>1, <3>2
    <2>3. z = [k \in 1..n |-> z[k]]
        BY <2>1
    <2> QED
        BY Zenon, <2>1, <2>2, <2>3
<1> QED
    BY Zenon, <1>0, <1>6, <1>11, <1>12, <1>15, <1>16 DEF Describes

\* NoSegment with a field set, as a request keeps it.
LEMMA SegmentShape ==
    /\ NoSegment \in [archived : Nat, rows : SUBSET Rows, manifest : Manifests \cup {None}]
    /\ \A d \in Manifests :
         /\ [NoSegment EXCEPT !.manifest = d]
                \in [archived : Nat, rows : SUBSET Rows, manifest : Manifests \cup {None}]
         /\ [NoSegment EXCEPT !.manifest = d].manifest = d
BY DEF NoSegment

\* The document is signed and written to the WORM bucket.
LEMMA PutWormInv ==
    ASSUME ChainInv, OutboxInv, ManifestInv, Counted, NEW p \in Procs, PutWorm(p)
    PROVE  ChainInv' /\ OutboxInv' /\ ManifestInv'
<1>1. Shapes
    BY Zenon DEF ChainInv
<1>2. PICK d : d = Document(segment[p].rows)
    BY Zenon
<1>3. PICK s : s = [NoSegment EXCEPT !.manifest = d]
    BY Zenon
<1>4. /\ at[p] = "put" /\ at' = [at EXCEPT ![p] = "insert"]
      /\ segment' = [segment EXCEPT ![p] = s]
      /\ UNCHANGED <<chainVars, audit_manifest, audit_outbox, todo, view, claim>>
    BY Zenon, <1>2, <1>3 DEF PutWorm
<1>5. DocumentOK(d)
    BY Zenon, <1>2, <1>4 DEF Counted
<1>6. /\ s \in [archived : Nat, rows : SUBSET Rows, manifest : Manifests \cup {None}]
      /\ s.manifest = d
    BY Zenon, <1>3, <1>5, SegmentShape DEF DocumentOK
<1>7. todo' = [todo EXCEPT ![p] = todo[p]]
    BY Zenon, <1>1, <1>4 DEF Shapes
<1>8. ArchiveOK(p)'
    <2>1. at'[p] = "insert" /\ segment'[p] = s
        BY Zenon, <1>1, <1>4 DEF Shapes
    <2>2. ChainHead' = ChainHead
        BY Zenon, <1>4 DEF ChainHead, chainVars
    <2>3. DocumentOK(d)'
        BY Zenon, <1>4, <1>5, <2>2 DEF DocumentOK
    <2>4. at'[p] # "rows" /\ at'[p] # "put"
        BY <2>1
    <2> QED
        BY Zenon, <1>6, <2>1, <2>3, <2>4 DEF ArchiveOK
<1>9. ManifestsOK' /\ audit_manifest \subseteq audit_manifest'
    BY Zenon, <1>4, SameManifests DEF chainVars
<1>10. at[p] \in Archiving /\ "insert" \in Archiving
    BY <1>4 DEF Archiving
<1> QED
    BY Zenon, <1>4, <1>6, <1>7, <1>8, <1>9, <1>10, ArchivingStep

\* The manifest row is inserted, or refused because its index is taken.
LEMMA InsertManifestInv ==
    ASSUME ChainInv, OutboxInv, ManifestInv, NEW p \in Procs, InsertManifest(p)
    PROVE  ChainInv' /\ OutboxInv' /\ ManifestInv'
<1>1. Shapes /\ ArchiveOK(p)
    BY Zenon DEF ChainInv, ManifestInv
<1>2. PICK d : d = segment[p].manifest
    BY Zenon
<1>3. PICK taken \in BOOLEAN : taken <=> \E e \in audit_manifest : e.index = d.index
    BY Zenon
<1>4. PICK c : c = IF taken THEN "failed" ELSE "begin"
    BY Zenon
<1>5. PICK t : t = IF taken THEN <<>> ELSE todo[p]
    BY Zenon
<1>6. /\ at[p] = "insert" /\ at' = [at EXCEPT ![p] = c]
      /\ audit_manifest' = IF taken THEN audit_manifest ELSE audit_manifest \cup {d}
      /\ segment' = [segment EXCEPT ![p] = NoSegment]
      /\ todo' = [todo EXCEPT ![p] = t]
      /\ UNCHANGED <<chainVars, audit_outbox, view, claim>>
    BY Zenon, <1>2, <1>3, <1>4, <1>5 DEF InsertManifest
<1>7. DocumentOK(d)
    BY Zenon, <1>1, <1>2, <1>6 DEF ArchiveOK
<1>8. audit_manifest \subseteq audit_manifest' /\ audit_manifest' \subseteq audit_manifest \cup {d}
    BY Zenon, <1>6
<1>9. ManifestsOK'
    <2>1. ChainHead' = ChainHead
        BY Zenon, <1>6 DEF ChainHead, chainVars
    <2>2. \A e \in audit_manifest \cup {d} : DocumentOK(e)
        BY Zenon, <1>7 DEF ManifestInv, ManifestsOK
    <2>3. \A e \in audit_manifest' : DocumentOK(e)'
        BY ZenonT(60), <1>8, <2>1, <2>2 DEF DocumentOK
    <2>4. PICK n \in Nat : \A e \in audit_manifest : e.index <= n
        BY Zenon DEF ManifestInv, ManifestsOK
    <2>5. \A e \in audit_manifest \cup {d} : e.index \in Nat
        BY Zenon, <2>2 DEF DocumentOK, Manifests
    <2>6. n + d.index \in Nat /\ \A e \in audit_manifest \cup {d} : e.index <= n + d.index
        BY <2>4, <2>5
    <2> QED
        BY Zenon, <1>8, <2>3, <2>6 DEF ManifestsOK
<1>10. /\ at[p] \in Archiving
       /\ \/ c \in Archiving \cup {"begin"} /\ t = todo[p]
          \/ c = "failed" /\ t = <<>>
       /\ c \notin {"rows", "put", "insert"}
    BY <1>4, <1>5, <1>6 DEF Archiving
<1> QED
    BY Zenon, <1>6, <1>8, <1>9, <1>10, ArchivingStep, SegmentShape

\* The WORM write fails, or the process dies.
LEMMA ArchiveFailsInv ==
    ASSUME ChainInv, OutboxInv, ManifestInv, NEW p \in Procs, ArchiveFails(p)
    PROVE  ChainInv' /\ OutboxInv' /\ ManifestInv'
<1>1. /\ at[p] \in {"put", "insert"} /\ at' = [at EXCEPT ![p] = "failed"]
      /\ segment' = [segment EXCEPT ![p] = NoSegment]
      /\ todo' = [todo EXCEPT ![p] = <<>>]
      /\ UNCHANGED <<chainVars, audit_manifest, audit_outbox, view, claim>>
    BY Zenon DEF ArchiveFails
<1>2. ManifestsOK' /\ audit_manifest \subseteq audit_manifest'
    BY Zenon, <1>1, SameManifests DEF chainVars
<1>3. at[p] \in Archiving /\ "failed" \notin {"rows", "put", "insert"}
    BY <1>1 DEF Archiving
<1> QED
    BY Zenon, <1>1, <1>2, <1>3, ArchivingStep, SegmentShape

-----------------------------------------------------------------------------
(* A dispatcher's batch *)

\* A dispatcher claims the pending intents: some order of them is what it has to append.
LEMMA DispatchChain ==
    ASSUME ChainInv, Counted, NEW p \in Procs, DispatchPending(p)
    PROVE  ChainInv'
<1> DEFINE pending == {i \in Intents : audit_outbox[i] = "PENDING"}
<1>1. Shapes /\ TodoOK(p)
    BY Zenon DEF ChainInv
<1>2. CASE pending = {}
    <2>1. /\ at[p] = "claim" /\ at' = [at EXCEPT ![p] = "done"]
          /\ UNCHANGED <<chainVars, archiveVars, view, todo, claim>>
        BY Zenon, <1>2 DEF DispatchPending
    <2>2. Shapes'
        BY Zenon, <1>1, <2>1 DEF Shapes, chainVars, archiveVars
    <2>3. at'[p] = "done" /\ \A q \in Procs \ {p} : at'[q] = at[q]
        BY Zenon, <1>1, <2>1 DEF Shapes
    <2>4. TodoOK(p)'
        BY Zenon, <1>1, <2>1, <2>3 DEF TodoOK, Working, Archiving
    <2> QED
        BY Zenon, <2>1, <2>2, <2>3, <2>4, ChainAside
<1>3. CASE pending # {}
    <2>1. PICK order \in Bijection(1..Cardinality(pending), pending) :
            /\ at[p] = "claim" /\ at' = [at EXCEPT ![p] = "begin"]
            /\ todo' = [todo EXCEPT ![p] =
                          <<[k \in DOMAIN order |-> Fingerprint(order[k], "dispatched")]>>]
            /\ claim' = [claim EXCEPT ![p] = pending]
            /\ UNCHANGED <<chainVars, archiveVars, view>>
        BY Zenon, <1>3 DEF DispatchPending
    <2>2. order \in [1..Cardinality(pending) -> pending] /\ Cardinality(pending) \in Nat \ {0}
        BY Zenon, <1>3 DEF Counted, Bijection, Injection
    <2> DEFINE events == [k \in DOMAIN order |-> Fingerprint(order[k], "dispatched")]
    <2>3. events \in Seq(Events) /\ events # <<>>
        <3>1. \A i \in Intents : Fingerprint(i, "dispatched") \in Events
            BY DEF Events, Actions
        <3>2. \A k \in 1..Cardinality(pending) : events[k] \in Events
            BY Zenon, <2>2, <3>1
        <3>3. DOMAIN events = 1..Cardinality(pending) /\ events = [k \in 1..Cardinality(pending) |-> events[k]]
            BY Zenon, <2>2
        <3> HIDE DEF events, pending
        <3> QED
            BY <2>2, <3>2, <3>3
    <2> HIDE DEF events
    <2>4. <<events>> \in Seq(Seq(Events)) /\ <<events>> # <<>> /\ Len(<<events>>) = 1
          /\ <<events>>[1] = events
        BY <2>3
    <2>5. /\ at'[p] = "begin" /\ todo'[p] = <<events>>
          /\ \A q \in Procs \ {p} : at'[q] = at[q] /\ todo'[q] = todo[q]
        BY Zenon, <1>1, <2>1 DEF Shapes, events
    <2>6. Shapes'
        BY Zenon, <1>1, <2>1, <2>4 DEF Shapes, Working, events, chainVars, archiveVars
    <2>7. TodoOK(p)'
        BY <2>3, <2>4, <2>5 DEF TodoOK
    <2> QED
        BY Zenon, <2>1, <2>5, <2>6, <2>7, ChainAside
<1> QED
    BY Zenon, <1>2, <1>3

\* A batch put in an order has each of its intents once.
LEMMA BatchOnce ==
    ASSUME NEW S, NEW m \in Nat, NEW order \in Bijection(1..m, S), NEW events,
           events = [k \in DOMAIN order |-> Fingerprint(order[k], "dispatched")]
    PROVE  \A i : IF i \in S THEN OnceIn(events, i) ELSE NotIn(events, i)
<1>1. /\ order \in [1..m -> S] /\ DOMAIN order = 1..m
      /\ \A i \in S : \E k \in 1..m : order[k] = i
      /\ \A j, k \in 1..m : order[j] = order[k] => j = k
    BY Zenon DEF Bijection, Injection, Surjection, IsInjective
<1>2. events = [k \in 1..m |-> Fingerprint(order[k], "dispatched")]
    BY Zenon, <1>1
<1>3. \A k \in 1..m : events[k].by = order[k]
    <2>1. \A k \in 1..m : events[k] = Fingerprint(order[k], "dispatched")
        BY Zenon, <1>2
    <2>2. \A i : Fingerprint(i, "dispatched").by = i
        BY DEF Fingerprint
    <2> QED
        BY Zenon, <2>1, <2>2
<1>4. Len(events) = m
    BY <1>2
<1>5. ASSUME NEW i \in S PROVE OnceIn(events, i)
    <2>1. PICK k \in 1..m : order[k] = i
        BY Zenon, <1>1
    <2>2. ASSUME NEW j \in 1..m PROVE events[j].by = i <=> j = k
        <3>1. events[j].by = order[j] /\ events[k].by = order[k]
            BY Zenon, <1>3
        <3>2. order[j] = i => j = k
            BY Zenon, <1>1, <2>1
        <3> QED
            BY Zenon, <2>1, <3>1, <3>2
    <2> QED
        BY Zenon, <1>4, <2>2 DEF OnceIn
<1>6. ASSUME NEW i, i \notin S PROVE NotIn(events, i)
    <2>1. ASSUME NEW k \in 1..m PROVE events[k].by # i
        <3>1. events[k].by = order[k] /\ order[k] \in S
            BY Zenon, <1>1, <1>3
        <3> QED
            BY Zenon, <1>6, <3>1
    <2> QED
        BY Zenon, <1>4, <2>1 DEF NotIn
<1> QED
    BY Zenon, <1>5, <1>6

\* A dispatcher claims the pending intents, each of them once in what it has to append.
LEMMA DispatchOutbox ==
    ASSUME ChainInv, OutboxInv, Counted, NEW p \in Procs, DispatchPending(p)
    PROVE  OutboxInv'
<1> DEFINE pending == {i \in Intents : audit_outbox[i] = "PENDING"}
<1>1. Shapes /\ OutboxOK /\ \A q \in Procs : ClaimOK(q)
    BY Zenon DEF ChainInv, OutboxInv
<1>2. /\ at[p] = "claim" /\ UNCHANGED <<chain_state, lock, view, audit_outbox>>
      /\ \A q \in Procs : claim[q] \cap pending = {}
    BY Zenon DEF DispatchPending, chainVars
<1>3. claim[p] = {}
    BY <1>1, <1>2 DEF ClaimOK, Working
<1>4. CASE pending = {}
    <2>1. at' = [at EXCEPT ![p] = "done"] /\ UNCHANGED <<todo, claim>>
        BY Zenon, <1>4 DEF DispatchPending
    <2>2. at'[p] = "done" /\ StepOf(p)
        BY Zenon, <1>1, <1>2, <2>1 DEF Shapes, StepOf
    <2>3. \A i \in Intents, k \in 1..Len(todo'[p]) : NotIn(todo'[p][k], i)
        BY Zenon, <1>1, <1>3, <2>1 DEF ClaimOK
    <2>4. ClaimOK(p)'
        <3>1. at'[p] # "append"
            BY <2>2
        <3> QED
            BY Zenon, <1>3, <2>1, <2>3, <3>1, NoClaim
    <2> QED
        BY Zenon, <1>2, <2>1, <2>2, <2>4, OutboxFrame
<1>5. CASE pending # {}
    <2>1. PICK order \in Bijection(1..Cardinality(pending), pending) :
            /\ at' = [at EXCEPT ![p] = "begin"]
            /\ todo' = [todo EXCEPT ![p] =
                          <<[k \in DOMAIN order |-> Fingerprint(order[k], "dispatched")]>>]
            /\ claim' = [claim EXCEPT ![p] = pending]
        BY Zenon, <1>5 DEF DispatchPending
    <2>2. PICK m : m = Cardinality(pending)
        BY Zenon
    <2>3. PICK events : events = [k \in DOMAIN order |-> Fingerprint(order[k], "dispatched")]
        BY Zenon
    <2>4. /\ at'[p] = "begin" /\ todo'[p] = <<events>> /\ claim'[p] = pending
          /\ \A q \in Procs \ {p} : at'[q] = at[q] /\ todo'[q] = todo[q] /\ claim'[q] = claim[q]
        BY Zenon, <1>1, <2>1, <2>3 DEF Shapes
    <2>5. m \in Nat
        BY Zenon, <1>5, <2>2 DEF Counted
    <2>6. PICK S : S = pending
        BY Zenon
    <2>7. \A i \in Intents : IF i \in pending THEN OnceIn(events, i) ELSE NotIn(events, i)
        <3>1. order \in Bijection(1..m, S)
            BY Zenon, <2>2, <2>6
        <3>2. \A i : IF i \in S THEN OnceIn(events, i) ELSE NotIn(events, i)
            BY <2>3, <2>5, <3>1, BatchOnce
        <3> QED
            BY Zenon, <2>6, <3>2
    <2>8. \A k \in 1..Len(todo'[p]) : k = 1 /\ todo'[p][k] = events
        BY <2>4
    <2>9. at'[p] # "append" /\ at'[p] \in Working
        BY <2>4 DEF Working
    <2>10. \A i \in claim'[p] : audit_outbox'[i] = "PENDING"
        BY Zenon, <1>2, <2>4
    <2>11. \A q \in Procs : q # p => claim'[p] \cap claim'[q] = {}
        BY Zenon, <1>2, <2>4
    <2>12. \A i \in Intents, k \in 1..Len(todo'[p]) :
             IF k = 1 /\ i \in claim'[p] /\ (at'[p] = "append" => NotIn(view'[p].head, i))
             THEN OnceIn(todo'[p][k], i) ELSE NotIn(todo'[p][k], i)
        BY ZenonT(60), <2>4, <2>7, <2>8, <2>9
    <2>13. ClaimOK(p)'
        BY Zenon, <2>9, <2>10, <2>11, <2>12 DEF ClaimOK
    <2>14. OutboxOK'
        BY Zenon, <1>1, <1>2 DEF OutboxOK, IntentOK, ChainHead
    <2>15. ASSUME NEW q \in Procs, q # p PROVE ClaimOK(q)'
        <3>1. /\ ClaimOK(q) /\ at'[q] = at[q] /\ todo'[q] = todo[q] /\ view'[q] = view[q]
              /\ claim'[q] = claim[q]
            BY Zenon, <1>1, <1>2, <2>4, <2>15
        <3>2. \A i \in claim[q] : audit_outbox'[i] = "PENDING"
            BY Zenon, <1>2, <3>1 DEF ClaimOK
        <3>3. ASSUME NEW r \in Procs, r # q PROVE claim[q] \cap claim'[r] = {}
            <4>1. CASE r = p
                BY Zenon, <1>2, <2>4, <4>1
            <4>2. CASE r # p
                BY Zenon, <2>4, <3>1, <3>3, <4>2 DEF ClaimOK
            <4> QED
                BY Zenon, <4>1, <4>2
        <3> QED
            BY Zenon, <1>2, <3>1, <3>2, <3>3, OthersClaim
    <2> QED
        BY Zenon, <2>13, <2>14, <2>15 DEF OutboxInv
<1> QED
    BY Zenon, <1>4, <1>5

-----------------------------------------------------------------------------
(* Every step *)

\* A step that archives nothing.
LEMMA ManifestAside ==
    ASSUME ChainInv, ChainInv', ManifestInv, UNCHANGED archiveVars,
           chain_state' = chain_state \/ Extends(ChainHead', ChainHead),
           NEW p \in Procs, NEW c, at' = [at EXCEPT ![p] = c], c \notin {"rows", "put", "insert"}
    PROVE  ManifestInv'
<1>1. ChainOK /\ ChainOK' /\ Shapes
    BY Zenon DEF ChainInv
<1>2. Extends(ChainHead', ChainHead)
    <2>1. CASE chain_state' = chain_state
        <3>1. ChainHead' = ChainHead
            BY Zenon, <2>1 DEF ChainHead
        <3>2. Len(ChainHead) <= Len(ChainHead)
            BY <1>1, HeadType
        <3> QED
            BY Zenon, <3>1, <3>2 DEF Extends
    <2> QED
        BY Zenon, <2>1
<1>3. \A q \in Procs : at'[q] \in {"rows", "put", "insert"} => at'[q] = at[q]
    BY Zenon, <1>1 DEF Shapes
<1>4. UNCHANGED <<audit_manifest, segment>>
    BY Zenon DEF archiveVars
<1> QED
    BY Zenon, <1>1, <1>2, <1>3, <1>4, ManifestFrame

\* A step that starts, ends or archives nothing.
LEMMA ManifestSame ==
    ASSUME ChainInv, ChainInv', ManifestInv, UNCHANGED <<chain_state, audit_manifest, segment, at>>
    PROVE  ManifestInv'
<1>1. ChainOK /\ ChainOK' /\ ChainHead' = ChainHead
    BY Zenon DEF ChainInv, ChainHead
<1>2. Len(ChainHead) <= Len(ChainHead)
    BY <1>1, HeadType
<1>3. Extends(ChainHead', ChainHead)
    BY Zenon, <1>1, <1>2 DEF Extends
<1> QED
    BY Zenon, <1>1, <1>3, ManifestFrame

\* The control state of a request after a step outside build_and_archive.
LEMMA AsideSteps ==
    ASSUME ChainInv, NEW p \in Procs,
           \/ \E kind \in Kinds : Start(p, kind)
           \/ DispatchPending(p) \/ LockState(p) \/ InsertState(p) \/ AppendToChain(p)
           \/ Commit(p) \/ Rollback(p)
    PROVE  /\ UNCHANGED archiveVars
           /\ \E c : at' = [at EXCEPT ![p] = c] /\ c \notin {"rows", "put", "insert"}
           /\ chain_state' = chain_state \/ Extends(ChainHead', ChainHead)
<1>1. CASE \E kind \in Kinds : Start(p, kind)
    <2>1. PICK kind \in Kinds : Start(p, kind)
        BY Zenon, <1>1
    <2>2. PICK c : c = CASE kind = "dispatch" -> "claim"
                         [] kind = "archive" -> "archived"
                         [] OTHER -> "begin"
        BY Zenon
    <2>3. c \notin {"rows", "put", "insert"}
        BY <2>2
    <2> QED
        BY Zenon, <2>1, <2>2, <2>3 DEF Start, chainVars
<1>2. CASE DispatchPending(p)
    <2>1. at' = [at EXCEPT ![p] = "done"] \/ at' = [at EXCEPT ![p] = "begin"]
        BY Zenon, <1>2 DEF DispatchPending
    <2>2. UNCHANGED archiveVars /\ chain_state' = chain_state
        BY Zenon, <1>2 DEF DispatchPending, chainVars
    <2>3. "done" \notin {"rows", "put", "insert"} /\ "begin" \notin {"rows", "put", "insert"}
        OBVIOUS
    <2> QED
        BY Zenon, <2>1, <2>2, <2>3
<1>3. CASE LockState(p)
    <2>1. at' = [at EXCEPT ![p] = "absent"] \/ at' = [at EXCEPT ![p] = "append"]
        BY Zenon, <1>3 DEF LockState
    <2>2. UNCHANGED archiveVars /\ chain_state' = chain_state
        BY Zenon, <1>3 DEF LockState
    <2>3. "absent" \notin {"rows", "put", "insert"} /\ "append" \notin {"rows", "put", "insert"}
        OBVIOUS
    <2> QED
        BY Zenon, <2>1, <2>2, <2>3
<1>4. CASE InsertState(p)
    <2>1. "append" \notin {"rows", "put", "insert"}
        OBVIOUS
    <2> QED
        BY Zenon, <1>4, <2>1 DEF InsertState
<1>5. CASE AppendToChain(p)
    <2>1. at[p] = "append" /\ at' = at /\ UNCHANGED archiveVars /\ chain_state' = chain_state
        BY Zenon, <1>5 DEF AppendToChain, chainVars
    <2>2. at' = [at EXCEPT ![p] = "append"]
        BY Zenon, <2>1 DEF ChainInv, Shapes
    <2>3. "append" \notin {"rows", "put", "insert"}
        OBVIOUS
    <2> QED
        BY Zenon, <2>1, <2>2, <2>3
<1>6. CASE Commit(p)
    <2>1. PICK c : c = IF Tail(todo[p]) = <<>> THEN "done" ELSE "begin"
        BY Zenon
    <2>2. c \notin {"rows", "put", "insert"}
        BY <2>1
    <2>3. Extends(ChainHead', ChainHead)
        BY Zenon, <1>6, CommitHead
    <2> QED
        BY Zenon, <1>6, <2>1, <2>2, <2>3 DEF Commit
<1>7. CASE Rollback(p)
    <2>1. "failed" \notin {"rows", "put", "insert"}
        OBVIOUS
    <2> QED
        BY Zenon, <1>7, <2>1 DEF Rollback
<1> QED
    BY Zenon, <1>1, <1>2, <1>3, <1>4, <1>5, <1>6, <1>7

\* Nothing is audited yet.
LEMMA Initially ==
    ASSUME Init
    PROVE  ChainInv /\ OutboxInv /\ ManifestInv /\ worm \subseteq Manifests
<1>1. ChainHead = <<>> /\ Len(<<>>) = 0 /\ <<>> \in Seq(Seq(Events))
    BY DEF Init, ChainHead, GENESIS_HASH
<1>2. \A k : k \notin 1..0
    OBVIOUS
<1>3. Shapes
    <2>1. todo \in [Procs -> Seq(Seq(Events))]
        BY Zenon, <1>1 DEF Init
    <2>2. view \in [Procs -> [index : Nat, head : Seq(Events), rows : SUBSET Rows]]
        BY Zenon, NoViewType DEF Init
    <2>3. segment \in [Procs -> [archived : Nat, rows : SUBSET Rows, manifest : Manifests \cup {None}]]
        BY Zenon, SegmentShape DEF Init
    <2>4. claim \in [Procs -> SUBSET Intents]
        BY Zenon DEF Init
    <2>5. at \in [Procs -> {"idle", "claim", "done", "failed"} \cup Working \cup Archiving]
        BY Zenon DEF Init
    <2> QED
        BY Zenon, <2>1, <2>2, <2>3, <2>4, <2>5 DEF Init, Shapes
<1>4. ChainOK
    <2>1. Segment(<<>>, 1, 0) = {}
        BY Zenon, <1>2 DEF Segment
    <2> QED
        BY Zenon, <1>1, <2>1 DEF Init, ChainOK
<1>5. ASSUME NEW p \in Procs PROVE TodoOK(p) /\ ViewOK(p) /\ ClaimOK(p) /\ ArchiveOK(p)
    <2>1. at[p] = "idle" /\ todo[p] = <<>> /\ claim[p] = {} /\ lock = None
        BY Zenon DEF Init
    <2>2. at[p] \notin Working \cup Archiving /\ at[p] \notin {"append", "rows", "put", "insert"}
        BY <2>1 DEF Working, Archiving
    <2>3. \A k : k \notin 1..Len(todo[p])
        BY Zenon, <1>1, <1>2, <2>1
    <2>4. None # p
        BY Zenon, AuditAssumption
    <2>5. TodoOK(p) /\ ViewOK(p)
        BY Zenon, <2>1, <2>2, <2>3, <2>4 DEF TodoOK, ViewOK
    <2>6. ClaimOK(p) /\ ArchiveOK(p)
        BY Zenon, <2>1, <2>2, <2>3 DEF ClaimOK, ArchiveOK
    <2> QED
        BY Zenon, <2>5, <2>6
<1>6. OutboxOK
    <2>1. \A i \in Intents : audit_outbox[i] = "NONE"
        BY Zenon DEF Init
    <2>2. \A i \in Intents : audit_outbox[i] # "DISPATCHED"
        BY <2>1
    <2>3. \A i \in Intents : IntentOK(ChainHead, i)
        BY Zenon, <1>1, <2>2, NotOnce DEF IntentOK
    <2>4. audit_outbox \in [Intents -> {"NONE", "PENDING", "DISPATCHED"}]
        BY Zenon DEF Init
    <2> QED
        BY Zenon, <2>3, <2>4 DEF OutboxOK
<1>7. ManifestsOK /\ worm \subseteq Manifests
    <2>1. 0 \in Nat
        OBVIOUS
    <2> QED
        BY Zenon, <2>1 DEF Init, ManifestsOK
<1> QED
    BY Zenon, <1>3, <1>4, <1>5, <1>6, <1>7 DEF ChainInv, OutboxInv, ManifestInv

\* Every step of a request, of a business transaction or of a dispatcher.
LEMMA EveryStep ==
    ASSUME Inv, Counted, [Next]_vars
    PROVE  ChainInv' /\ OutboxInv' /\ ManifestInv'
<1>1. ChainInv /\ OutboxInv /\ ManifestInv
    BY Zenon DEF Inv
<1>3. ASSUME NEW p \in Procs, NEW kind \in Kinds, Start(p, kind)
      PROVE  ChainInv' /\ OutboxInv' /\ ManifestInv'
    <2>1. ChainInv' /\ OutboxInv'
        BY Zenon, <1>1, <1>3, StartChain, StartOutbox
    <2> QED
        BY Zenon, <1>1, <1>3, <2>1, AsideSteps, ManifestAside
<1>4. ASSUME NEW i \in Intents, EnqueueAudit(i)
      PROVE  ChainInv' /\ OutboxInv' /\ ManifestInv'
    <2>1. ChainInv' /\ OutboxInv'
        BY Zenon, <1>1, <1>4, EnqueueChain, EnqueueOutbox
    <2>2. UNCHANGED <<chain_state, audit_manifest, segment, at>>
        BY Zenon, <1>4 DEF EnqueueAudit, chainVars, archiveVars
    <2>3. ManifestInv'
        BY Zenon, <1>1, <2>1, <2>2, ManifestSame
    <2> QED
        BY Zenon, <2>1, <2>3
<1>5. ASSUME NEW p \in Procs, DispatchPending(p)
      PROVE  ChainInv' /\ OutboxInv' /\ ManifestInv'
    <2>1. ChainInv' /\ OutboxInv'
        BY ZenonT(60), <1>1, <1>5, DispatchChain, DispatchOutbox
    <2> QED
        BY Zenon, <1>1, <1>5, <2>1, AsideSteps, ManifestAside
<1>6. ASSUME NEW p \in Procs, LockState(p)
      PROVE  ChainInv' /\ OutboxInv' /\ ManifestInv'
    <2>1. ChainInv' /\ OutboxInv'
        BY Zenon, <1>1, <1>6, LockChain, LockOutbox
    <2> QED
        BY Zenon, <1>1, <1>6, <2>1, AsideSteps, ManifestAside
<1>7. ASSUME NEW p \in Procs, InsertState(p)
      PROVE  ChainInv' /\ OutboxInv' /\ ManifestInv'
    <2>1. ChainInv' /\ OutboxInv'
        BY Zenon, <1>1, <1>7, InsertChain, InsertOutbox
    <2> QED
        BY ZenonT(60), <1>1, <1>7, <2>1, AsideSteps, ManifestAside
<1>8. ASSUME NEW p \in Procs, AppendToChain(p)
      PROVE  ChainInv' /\ OutboxInv' /\ ManifestInv'
    <2>1. ChainInv' /\ OutboxInv'
        BY Zenon, <1>1, <1>8, AppendChain, AppendOutbox
    <2> QED
        BY ZenonT(60), <1>1, <1>8, <2>1, AsideSteps, ManifestAside
<1>9. ASSUME NEW p \in Procs, Commit(p)
      PROVE  ChainInv' /\ OutboxInv' /\ ManifestInv'
    <2>1. ChainInv' /\ OutboxInv'
        BY Zenon, <1>1, <1>9, CommitChain, CommitOutbox
    <2> QED
        BY Zenon, <1>1, <1>9, <2>1, AsideSteps, ManifestAside
<1>10. ASSUME NEW p \in Procs, Rollback(p)
       PROVE  ChainInv' /\ OutboxInv' /\ ManifestInv'
    <2>1. ChainInv' /\ OutboxInv'
        BY Zenon, <1>1, <1>10, RollbackChain, RollbackOutbox
    <2> QED
        BY ZenonT(60), <1>1, <1>10, <2>1, AsideSteps, ManifestAside
<1>11. ASSUME NEW p \in Procs, ReadArchived(p) \/ ReadRows(p) \/ PutWorm(p) \/ InsertManifest(p)
                               \/ ArchiveFails(p)
       PROVE  ChainInv' /\ OutboxInv' /\ ManifestInv'
    BY Zenon, <1>1, <1>11, ReadArchivedInv, ReadRowsInv, PutWormInv, InsertManifestInv, ArchiveFailsInv
<1>12. ASSUME UNCHANGED vars PROVE ChainInv' /\ OutboxInv' /\ ManifestInv'
    <2>1. UNCHANGED <<chain_state, audit_event, lock, audit_manifest, segment, audit_outbox, at,
                      todo, view, claim>>
        BY Zenon, <1>12 DEF vars, chainVars, archiveVars
    <2>2. ChainHead' = ChainHead
        BY Zenon, <2>1 DEF ChainHead
    <2>3. ChainInv'
        BY ZenonT(60), <1>1, <2>1, <2>2 DEF ChainInv, Shapes, ChainOK, TodoOK, ViewOK
    <2>4. OutboxInv'
        BY ZenonT(60), <1>1, <2>1, <2>2 DEF OutboxInv, OutboxOK, IntentOK, ClaimOK
    <2> QED
        BY Zenon, <1>1, <2>1, <2>3, <2>4, ManifestSame
<1> QED
    BY ZenonT(60), <1>3, <1>4, <1>5, <1>6, <1>7, <1>8, <1>9, <1>10, <1>11, <1>12 DEF Next, Step

\* Objects in the bucket are documents of the manifest's shape.
LEMMA WormKept ==
    ASSUME Counted, worm \subseteq Manifests, [Next]_vars
    PROVE  worm' \subseteq Manifests
<1>1. ASSUME NEW p \in Procs, PutWorm(p) PROVE worm' \subseteq Manifests
    <2>1. at[p] = "put" /\ worm' = worm \cup {Document(segment[p].rows)}
        BY Zenon, <1>1 DEF PutWorm
    <2>2. Document(segment[p].rows) \in Manifests
        BY Zenon, <2>1 DEF Counted, DocumentOK
    <2> QED
        BY Zenon, <2>1, <2>2
<1>2. (\E p \in Procs : PutWorm(p)) \/ UNCHANGED worm
    BY ZenonT(60) DEF Next, Step, Start, EnqueueAudit, DispatchPending, LockState, InsertState, AppendToChain,
             Commit, Rollback, ReadArchived, ReadRows, InsertManifest, ArchiveFails, vars, archiveVars
<1> QED
    BY Zenon, <1>1, <1>2

-----------------------------------------------------------------------------
(* What the invariant says of the tables *)

\* The tables are well-formed.
LEMMA TypesHold ==
    ASSUME Inv, worm \subseteq Manifests
    PROVE  TypeOK
<1>1. Shapes /\ ChainOK /\ OutboxOK /\ ManifestsOK
    BY Zenon DEF Inv, ChainInv, OutboxInv, ManifestInv
<1>2. audit_event \subseteq Rows
    <2>1. PICK n : n = Len(ChainHead)
        BY Zenon
    <2>2. ChainHead \in Seq(Events) /\ n \in Nat
        BY Zenon, <1>1, <2>1, HeadType
    <2>3. 1 \in Nat \ {0} /\ n <= n
        BY <2>2
    <2> QED
        BY Zenon, <1>1, <2>1, <2>2, <2>3, SegmentRows DEF ChainOK
<1>3. audit_manifest \subseteq Manifests
    BY Zenon, <1>1 DEF ManifestsOK, DocumentOK
<1>4. \A p \in Procs : view[p].rows \subseteq Rows /\ claim[p] \subseteq Intents
    BY <1>1 DEF Shapes
<1>5. at \in [Procs -> {"idle", "claim", "begin", "absent", "append", "archived", "rows",
                        "put", "insert", "done", "failed"}]
    BY <1>1 DEF Shapes, Working, Archiving
<1> QED
    BY Zenon, <1>1, <1>2, <1>3, <1>4, <1>5 DEF TypeOK, Shapes, ChainOK, OutboxOK

\* The rows of a table that carry an intent, and the rows of places in a head.
RowsOf(rows, i) == {r \in rows : r.hash.by = i}
RowsAt(h, places) == {RowAt(h, j) : j \in places}

\* The rows an intent has in the trail are those of the places where the head has it.
LEMMA RowsOfIntent ==
    ASSUME NEW h, NEW n, NEW i, NEW places, \A j \in 1..n : h[j].by = i <=> j \in places,
           places \subseteq 1..n
    PROVE  RowsOf(Segment(h, 1, n), i) = RowsAt(h, places)
<1>1. \A k : RowAt(h, k).hash = h[k]
    BY Zenon DEF RowAt
<1> QED
    BY Zenon, <1>1 DEF Segment, RowsOf, RowsAt

\* What verify_tenant_chain recomputes.
LEMMA Accepted ==
    ASSUME NEW rows, rows = InOrder(audit_event),
           \A k \in DOMAIN rows : rows[k].prev = [j \in 1 .. k - 1 |-> rows[j].hash]
    PROVE  VerifyTenantChain
BY DEF VerifyTenantChain

\* The rows of the committed head verify.
LEMMA RowsVerify ==
    ASSUME Inv, NEW h, NEW n, NEW rows, h = ChainHead, h \in Seq(Events), n = Len(h), n \in Nat,
           rows = InOrder(audit_event), rows = [k \in 1..n |-> RowAt(h, k)], Len(rows) = n
    PROVE  ChainVerifies
<1>1. /\ h = ChainHead /\ h \in Seq(Events) /\ n = Len(h) /\ n \in Nat
      /\ rows = InOrder(audit_event) /\ rows = [k \in 1..n |-> RowAt(h, k)]
      /\ Len(rows) = n
    BY Zenon
<1>2. DOMAIN rows = 1..n /\ \A k \in 1..n : rows[k] = RowAt(h, k)
    BY Zenon, <1>1
<1>3. \A k \in 1..n : /\ rows[k].index = k /\ rows[k].hash = h[k]
                      /\ rows[k].prev = [j \in 1 .. k - 1 |-> h[j]]
    <2>1. \A k : /\ RowAt(h, k).index = k /\ RowAt(h, k).hash = h[k]
                  /\ RowAt(h, k).prev = [j \in 1 .. k - 1 |-> h[j]]
        BY Zenon DEF RowAt
    <2> QED
        BY Zenon, <1>2, <2>1
<1>4. ASSUME NEW k \in 1..n PROVE rows[k].prev = [j \in 1 .. k - 1 |-> rows[j].hash]
    <2>1. \A j \in 1 .. k - 1 : j \in 1..n
        BY <1>1
    <2>2. [j \in 1 .. k - 1 |-> rows[j].hash] = [j \in 1 .. k - 1 |-> h[j]]
        BY Zenon, <1>3, <2>1
    <2> QED
        BY Zenon, <1>3, <2>2
<1>5. VerifyTenantChain
    <2>1. \A k \in DOMAIN rows : rows[k].prev = [j \in 1 .. k - 1 |-> rows[j].hash]
        BY Zenon, <1>2, <1>4
    <2>2. rows = InOrder(audit_event)
        BY Zenon, <1>1
    <2> QED
        BY Zenon, <2>1, <2>2, Accepted
<1>6. ChainOK
    BY Zenon DEF Inv, ChainInv
<1>7. (chain_state = None) = (rows = <<>>)
    <2>1. ASSUME chain_state = None PROVE rows = <<>>
        <3>1. n = 0
            BY <1>1, <2>1 DEF ChainHead, GENESIS_HASH
        <3> QED
            BY <1>1, <3>1
    <2>2. ASSUME chain_state # None PROVE rows # <<>>
        <3>1. h # <<>>
            BY Zenon, <1>1, <1>6, <2>2 DEF ChainOK, ChainHead
        <3>2. n # 0
            BY <1>1, <3>1
        <3> QED
            BY <1>1, <3>2
    <2> QED
        BY Zenon, <2>1, <2>2
<1>8. ASSUME chain_state # None
      PROVE  chain_state.index = n /\ chain_state.head = [k \in 1..n |-> rows[k].hash]
    <2>1. chain_state.head = h /\ chain_state.index = n
        BY Zenon, <1>1, <1>6, <1>8 DEF ChainOK, ChainHead
    <2>2. h = [k \in 1..n |-> h[k]]
        BY <1>1
    <2>3. [k \in 1..n |-> rows[k].hash] = [k \in 1..n |-> h[k]]
        BY Zenon, <1>3
    <2> QED
        BY Zenon, <2>1, <2>2, <2>3
<1> QED
    BY ZenonT(60), <1>1, <1>2, <1>3, <1>5, <1>7, <1>8 DEF ChainVerifies

\* A document that describes a segment of the chain is covered by it.
LEMMA DocumentsCover ==
    ASSUME Inv, NEW d \in audit_manifest
    PROVE  /\ d.count = d.last - d.first + 1
           /\ \E r \in audit_event : r.index = d.last /\ d.head = ChainHash(r.prev, r.hash)
           /\ d.first = 1 \/ \E e \in audit_manifest : e.index < d.index /\ e.last >= d.first - 1
<1>1. PICK h, n :
        /\ h = ChainHead /\ h \in Seq(Events) /\ n = Len(h) /\ n \in Nat
        /\ audit_event = Segment(h, 1, n)
    BY Zenon, HeadType DEF Inv, ChainInv, ChainOK
<1>2. DocumentOK(d)
    BY Zenon DEF Inv, ManifestInv, ManifestsOK
<1>3. PICK m : m = d.last
    BY Zenon
<1>4. m \in 1..n /\ d.head = [k \in 1..m |-> h[k]]
    BY Zenon, <1>1, <1>2, <1>3 DEF DocumentOK
<1>5. PICK x : x = [j \in 1 .. m - 1 |-> h[j]]
    BY Zenon
<1>6. Append(x, h[m]) = [k \in 1..m |-> h[k]]
    <2>1. m - 1 \in Nat /\ m \in Nat /\ (m - 1) + 1 = m
        BY <1>1, <1>4
    <2>2. /\ x \in Seq(Events) /\ Len(x) = m - 1 /\ h[m] \in Events
          /\ \A k \in 1 .. m - 1 : x[k] = h[k]
        <3>1. \A j \in 1..m : h[j] \in Events
            BY <1>1, <1>4
        <3>2. \A j \in 1 .. m - 1 : h[j] \in Events
            BY <2>1, <3>1
        <3>3. x \in Seq(Events) /\ Len(x) = m - 1
            BY <1>5, <2>1, <3>2
        <3>4. h[m] \in Events
            BY <2>1, <1>4, <3>1
        <3>5. \A k \in 1 .. m - 1 : x[k] = h[k]
            BY Zenon, <1>5
        <3> QED
            BY Zenon, <3>3, <3>4, <3>5
    <2>3. PICK y : y = Append(x, h[m])
        BY Zenon
    <2>4. /\ y \in Seq(Events) /\ Len(y) = (m - 1) + 1 /\ y[(m - 1) + 1] = h[m]
          /\ \A k \in 1 .. m - 1 : y[k] = x[k]
        <3>1. PICK e \in Events : e = h[m]
            BY Zenon, <2>2
        <3>2. /\ Append(x, e) \in Seq(Events) /\ Len(Append(x, e)) = Len(x) + 1
              /\ Append(x, e)[Len(x) + 1] = e
              /\ \A k \in 1..Len(x) : Append(x, e)[k] = x[k]
            BY <2>2, AppendOne
        <3> QED
            BY Zenon, <2>2, <2>3, <3>1, <3>2
    <2>5. \A k \in 1..m : k \in 1 .. m - 1 \/ k = m
        BY <2>1
    <2>6. \A k \in 1..m : y[k] = h[k]
        BY Zenon, <2>1, <2>2, <2>4, <2>5
    <2>7. y = [k \in 1..Len(y) |-> y[k]]
        BY <2>4
    <2>8. y = [k \in 1..m |-> y[k]]
        BY Zenon, <2>1, <2>4, <2>7
    <2> QED
        BY Zenon, <2>3, <2>6, <2>8
<1>7. /\ RowAt(h, m) \in audit_event /\ RowAt(h, m).index = m
      /\ RowAt(h, m).hash = h[m] /\ RowAt(h, m).prev = x
    BY Zenon, <1>1, <1>4, <1>5 DEF Segment, RowAt
<1>8. d.head = ChainHash(RowAt(h, m).prev, RowAt(h, m).hash)
    BY Zenon, <1>4, <1>6, <1>7 DEF ChainHash
<1>9. \E r \in audit_event : r.index = d.last /\ d.head = ChainHash(r.prev, r.hash)
    BY Zenon, <1>3, <1>7, <1>8
<1> QED
    BY Zenon, <1>2, <1>9 DEF DocumentOK

-----------------------------------------------------------------------------
(* Counting: the order of rows, the size of a batch, the last of a set of indices *)

INSTANCE FiniteSetTheorems

\* The rows of a segment are as many as their indices.
LEMMA SegmentSize ==
    ASSUME NEW h, NEW a \in Nat, NEW n \in Nat, a <= n
    PROVE  IsFiniteSet(Segment(h, a + 1, n)) /\ Cardinality(Segment(h, a + 1, n)) = n - a
<1> DEFINE f == [k \in a + 1 .. n |-> RowAt(h, k)]
<1>1. f \in Bijection(a + 1 .. n, Segment(h, a + 1, n))
    <2>1. f \in [a + 1 .. n -> Segment(h, a + 1, n)]
        BY Zenon DEF Segment
    <2>2. \A j, k \in a + 1 .. n : f[j] = f[k] => j = k
        <3> SUFFICES ASSUME NEW j \in a + 1 .. n, NEW k \in a + 1 .. n, RowAt(h, j) = RowAt(h, k)
                     PROVE  j = k
            BY Zenon
        <3>1. RowAt(h, j).index = j /\ RowAt(h, k).index = k
            BY Zenon DEF RowAt
        <3> QED
            BY Zenon, <3>1
    <2>3. \A r \in Segment(h, a + 1, n) : \E k \in a + 1 .. n : f[k] = r
        BY Zenon DEF Segment
    <2> HIDE DEF f
    <2> QED
        BY ZenonT(60), <2>1, <2>2, <2>3 DEF Bijection, Injection, IsInjective, Surjection
<1>2. ExistsBijection(a + 1 .. n, Segment(h, a + 1, n))
    BY Zenon, <1>1 DEF ExistsBijection
<1>3. a + 1 \in Int /\ n \in Int
    OBVIOUS
<1>4. IsFiniteSet(a + 1 .. n) /\ Cardinality(a + 1 .. n) = IF a + 1 > n THEN 0 ELSE n - (a + 1) + 1
    BY ZenonT(60), <1>3, FS_Interval
<1>5. Cardinality(a + 1 .. n) = n - a
    BY <1>4
<1> QED
    BY ZenonT(60), <1>2, <1>4, <1>5, FS_Bijection

\* ORDER BY chain_index returns a segment of the chain row by row.
LEMMA SegmentInOrder ==
    ASSUME NEW h, NEW a \in Nat, NEW n \in Nat, a <= n
    PROVE  InOrder(Segment(h, a + 1, n)) = [k \in 1 .. n - a |-> RowAt(h, a + k)]
<1>1. PICK rows : rows = Segment(h, a + 1, n)
    BY Zenon
<1>2. Cardinality(rows) = n - a
    BY Zenon, <1>1, SegmentSize
<1>3. \A k \in a + 1 .. n : RowAt(h, k) \in rows /\ RowAt(h, k).index = k
    BY Zenon, <1>1 DEF Segment, RowAt
<1>4. \A r \in rows : r.index \in a + 1 .. n /\ r = RowAt(h, r.index)
    <2> SUFFICES ASSUME NEW r \in rows PROVE r.index \in a + 1 .. n /\ r = RowAt(h, r.index)
        BY Zenon
    <2>1. PICK k \in a + 1 .. n : r = RowAt(h, k)
        BY Zenon, <1>1 DEF Segment
    <2>2. r.index = k
        BY Zenon, <1>3, <2>1
    <2> QED
        BY ZenonT(60), <2>1, <2>2
<1>5. ASSUME NEW r \in rows PROVE Cardinality({s \in rows : s.index <= r.index}) = r.index - a
    <2>1. PICK m : m = r.index
        BY Zenon
    <2>2. m \in a + 1 .. n
        BY Zenon, <1>4, <2>1
    <2>3. m \in Nat /\ a <= m /\ \A k : k \in a + 1 .. m <=> k \in a + 1 .. n /\ k <= m
        BY <2>2
    <2>4. {s \in rows : s.index <= m} = Segment(h, a + 1, m)
        <3>1. \A s : s \in Segment(h, a + 1, m) <=> \E k \in a + 1 .. m : s = RowAt(h, k)
            BY Zenon DEF Segment
        <3>2. \A s : s \in Segment(h, a + 1, m) => s \in rows /\ s.index <= m
            BY ZenonT(60), <1>3, <2>3, <3>1
        <3>3. \A s \in rows : s.index <= m => s \in Segment(h, a + 1, m)
            BY Zenon, <1>4, <2>3, <3>1
        <3> QED
            BY ZenonT(60), <3>2, <3>3
    <2>5. Cardinality(Segment(h, a + 1, m)) = m - a
        BY ZenonT(60), <2>3, SegmentSize
    <2> QED
        BY ZenonT(60), <2>1, <2>4, <2>5
<1>6. ASSUME NEW k \in 1 .. n - a
      PROVE  (CHOOSE r \in rows : Cardinality({s \in rows : s.index <= r.index}) = k)
                 = RowAt(h, a + k)
    <2>1. a + k \in a + 1 .. n /\ (a + k) - a = k
        OBVIOUS
    <2>2. RowAt(h, a + k) \in rows /\ RowAt(h, a + k).index = a + k
        BY Zenon, <1>3, <2>1
    <2>3. PICK row : row = RowAt(h, a + k)
        BY Zenon
    <2>4. row \in rows /\ Cardinality({s \in rows : s.index <= row.index}) = k
        BY ZenonT(60), <1>5, <2>1, <2>2, <2>3
    <2>5. ASSUME NEW r \in rows, Cardinality({s \in rows : s.index <= r.index}) = k
          PROVE  r = row
        <3>1. r.index - a = k /\ r.index \in a + 1 .. n /\ r = RowAt(h, r.index)
            BY ZenonT(60), <1>4, <1>5, <2>5
        <3>2. r.index = a + k
            BY <3>1
        <3> QED
            BY ZenonT(60), <2>3, <3>1, <3>2
    <2> QED
        BY ZenonT(60), <2>3, <2>4, <2>5
<1>7. InOrder(rows)
        = [k \in 1 .. n - a |->
              CHOOSE r \in rows : Cardinality({s \in rows : s.index <= r.index}) = k]
    BY Zenon, <1>2 DEF InOrder
<1>8. InOrder(rows) = [k \in 1 .. n - a |-> RowAt(h, a + k)]
    BY ZenonT(60), <1>6, <1>7
<1> QED
    BY ZenonT(60), <1>1, <1>8

\* SELECT MAX: the largest of some indices below a bound is one of them.
LEMMA LargestIndex ==
    ASSUME NEW T, T # {}, NEW bound \in Nat, T \subseteq 0..bound
    PROVE  Max(T) \in T /\ \A t \in T : t <= Max(T)
<1> DEFINE less == OpToRel(<, Nat)
           Gap == {bound - t : t \in T}
<1>1. IsWellFoundedOn(less, Nat) /\ \A x, y \in Nat : x < y => <<x, y>> \in less
    <2>1. IsWellFoundedOn(less, Nat)
        BY Zenon, NatLessThanWellFounded
    <2>2. \A x, y \in Nat : x < y => <<x, y>> \in less
        BY Zenon DEF OpToRel
    <2> QED
        BY Zenon, <2>1, <2>2
<1> HIDE DEF less
<1>2. \A t \in T : t \in Int /\ bound - t \in Nat
    OBVIOUS
<1>3. Gap \subseteq Nat /\ Gap # {}
    BY Zenon, <1>2
<1>4. PICK x \in Gap : \A y \in Gap : ~ (<<y, x>> \in less)
    <2>1. IsWellFoundedOn(less, Nat)
        BY Zenon, <1>1
    <2> HIDE DEF Gap
    <2> QED
        BY ZenonT(60), <1>3, <2>1, WFMin
<1>5. PICK s \in T : x = bound - s
    BY Zenon, <1>4
<1>6. \A t \in T : ~ (bound - t < bound - s)
    BY ZenonT(60), <1>1, <1>3, <1>4, <1>5
<1>7. s \in Int
    BY ZenonT(60), <1>2, <1>5
<1> HIDE DEF Gap
<1>8. \A t \in T : s >= t
    BY <1>2, <1>6, <1>7
<1>9. Max(T) \in T /\ \A t \in T : Max(T) >= t
    BY ZenonT(60), <1>5, <1>8 DEF Max
<1> QED
    BY <1>2, <1>9

\* The last archived index is in the chain, and a manifest reaches it.
LEMMA LastArchivedReached ==
    ASSUME ChainInv, ManifestInv
    PROVE  LastArchived \in 0..Len(ChainHead) /\ Reached(LastArchived)
<1> DEFINE T == {0} \cup {d.last : d \in audit_manifest}
<1>1. Len(ChainHead) \in Nat
    BY Zenon, HeadType DEF ChainInv
<1>2. \A d \in audit_manifest : d.last \in 0..Len(ChainHead)
    <2>1. \A d \in audit_manifest : d.last \in 1..Len(ChainHead)
        BY Zenon DEF ManifestInv, ManifestsOK, DocumentOK
    <2> QED
        BY <1>1, <2>1
<1>3. T # {} /\ T \subseteq 0..Len(ChainHead)
    <2>1. 0 \in 0..Len(ChainHead)
        BY <1>1
    <2> QED
        BY Zenon, <1>2, <2>1
<1>4. LastArchived = Max(T)
    BY Zenon DEF LastArchived
<1>5. LastArchived \in T
    <2> HIDE DEF T
    <2> QED
        BY ZenonT(60), <1>1, <1>3, <1>4, LargestIndex
<1>6. LastArchived \in 0..Len(ChainHead)
    BY Zenon, <1>3, <1>5
<1>7. CASE LastArchived = 0
    BY Zenon, <1>6, <1>7 DEF Reached
<1>8. CASE LastArchived \in {d.last : d \in audit_manifest}
    <2>1. PICK d \in audit_manifest : d.last = LastArchived
        BY Zenon, <1>8
    <2>2. d.last >= LastArchived
        BY <1>1, <1>6, <2>1
    <2> QED
        BY ZenonT(60), <1>6, <2>1, <2>2 DEF Reached
<1> QED
    BY ZenonT(60), <1>5, <1>7, <1>8

\* The next manifest index is above all there are.
LEMMA NextIndex ==
    ASSUME ManifestInv
    PROVE  LET next == Max({0} \cup {d.index : d \in audit_manifest}) + 1
           IN  next \in Nat \ {0} /\ \A e \in audit_manifest : e.index < next
<1> DEFINE T == {0} \cup {d.index : d \in audit_manifest}
<1>1. PICK n \in Nat : \A d \in audit_manifest : d.index <= n
    BY Zenon DEF ManifestInv, ManifestsOK
<1>2. \A d \in audit_manifest : d.index \in Nat
    <2>1. \A d \in audit_manifest : d \in Manifests
        BY Zenon DEF ManifestInv, ManifestsOK, DocumentOK
    <2> QED
        BY ZenonT(60), <2>1 DEF Manifests
<1>3. \A d \in audit_manifest : d.index \in 0..n
    BY <1>1, <1>2
<1>4. T # {} /\ T \subseteq 0..n
    <2>1. 0 \in 0..n
        OBVIOUS
    <2> QED
        BY ZenonT(60), <1>3, <2>1
<1>5. \A d \in audit_manifest : d.index \in T
    BY Zenon
<1> HIDE DEF T
<1>6. Max(T) \in T /\ \A t \in T : t <= Max(T)
    BY Zenon, <1>4, LargestIndex
<1>7. Max(T) \in Nat
    <2>1. Max(T) \in 0..n
        BY Zenon, <1>4, <1>6
    <2> QED
        BY <2>1
<1>8. Max(T) + 1 \in Nat \ {0} /\ \A e \in audit_manifest : e.index < Max(T) + 1
    BY <1>2, <1>5, <1>6, <1>7
<1> QED
    BY Zenon, <1>8 DEF T

\* The document of a segment that a request has read is one of the chain.
LEMMA DocumentSound ==
    ASSUME ChainInv, ManifestInv, NEW a \in 0..Len(ChainHead), NEW n \in 1..Len(ChainHead),
           a < n, Reached(a)
    PROVE  DocumentOK(Document(Segment(ChainHead, a + 1, n)))
<1>1. PICK h : h = ChainHead
    BY Zenon
<1>2. h \in Seq(Events) /\ Len(h) \in Nat
    BY Zenon, <1>1, HeadType DEF ChainInv
<1>3. /\ a \in Nat /\ n \in Nat /\ n \in 1..Len(h) /\ a <= n /\ n <= Len(h) /\ a + 1 \in 1..n
      /\ n - a = n - (a + 1) + 1 /\ (a + 1) - 1 = a /\ n - a \in Nat /\ a + 1 \in Nat
    BY <1>1, <1>2
<1>4. PICK seq : seq = InOrder(Segment(h, a + 1, n))
    BY Zenon
<1>5. InOrder(Segment(h, a + 1, n)) = [k \in 1 .. n - a |-> RowAt(h, a + k)]
    BY <1>3, SegmentInOrder
<1>6. PICK z : z = [k \in 1..n |-> h[k]]
    BY Zenon
<1>7. /\ Len(seq) = n - a /\ seq[1].index = a + 1 /\ seq[Len(seq)].index = n
      /\ seq[1].prev \o [k \in DOMAIN seq |-> seq[k].hash] = z /\ z \in Seq(Events)
    <2>1. seq = RowsAfter(h, a, n)
        BY ZenonT(60), <1>4, <1>5 DEF RowsAfter
    <2>2. h \in Seq(Events) /\ n <= Len(h) /\ a \in Nat /\ n \in Nat
        BY ZenonT(60), <1>2, <1>3
    <2>3. Describes(RowsAfter(h, a, n), h, a, n)
        BY ZenonT(60), <2>2, RolledForward
    <2> QED
        BY ZenonT(60), <1>6, <2>1, <2>3 DEF Describes
<1>8. PICK i : i = Max({0} \cup {d.index : d \in audit_manifest}) + 1
    BY Zenon
<1>9. i \in Nat \ {0} /\ \A e \in audit_manifest : e.index < i
    BY ZenonT(60), <1>8, NextIndex
<1>10. PICK d : d = Document(Segment(h, a + 1, n))
    BY Zenon
<1>11. d = [index |-> i, first |-> a + 1, last |-> n, count |-> n - a, head |-> z]
    BY ZenonT(60), <1>4, <1>7, <1>8, <1>10 DEF Document
<1>12. d \in Manifests
    BY ZenonT(60), <1>3, <1>7, <1>9, <1>11 DEF Manifests
<1>13. d.index = i /\ d.first = a + 1 /\ d.last = n /\ d.count = n - a /\ d.head = z
    BY Zenon, <1>11
<1>14. d.first = 1 \/ \E e \in audit_manifest : e.index < d.index /\ e.last >= d.first - 1
    <2>1. CASE a = 0
        BY <1>13, <2>1
    <2>2. CASE a # 0
        BY ZenonT(60), <1>3, <1>9, <1>13, <2>2 DEF Reached
    <2> QED
        BY ZenonT(60), <2>1, <2>2
<1>15. DocumentOK(d)
    BY ZenonT(60), <1>1, <1>3, <1>6, <1>12, <1>13, <1>14 DEF DocumentOK
<1> QED
    BY ZenonT(60), <1>1, <1>10, <1>15

\* A batch of intents can be counted.
LEMMA BatchSize ==
    ASSUME NEW S, IsFiniteSet(S), S # {}
    PROVE  Cardinality(S) \in Nat \ {0}
<1>1. Cardinality(S) \in Nat /\ Cardinality(S) # 0
    BY Zenon, FS_CardinalityType, FS_EmptySet
<1> QED
    BY <1>1

\* What the invariant says of batches, indices and documents.
LEMMA CountedNow == Inv => Counted
<1> SUFFICES ASSUME Inv PROVE Counted
    BY Zenon
<1>1. ChainInv /\ ManifestInv /\ FinitelyPending
    BY Zenon DEF Inv
<1>2. LET pending == {i \in Intents : audit_outbox[i] = "PENDING"}
      IN  pending # {} => Cardinality(pending) \in Nat \ {0}
    BY Zenon, <1>1, BatchSize DEF FinitelyPending
<1>3. LastArchived \in 0..Len(ChainHead) /\ Reached(LastArchived)
    BY Zenon, <1>1, LastArchivedReached
<1>4. ASSUME NEW p \in Procs, at[p] = "put" PROVE DocumentOK(Document(segment[p].rows))
    <2>1. PICK a \in 0..Len(ChainHead), n \in 1..Len(ChainHead) :
            a < n /\ segment[p].rows = Segment(ChainHead, a + 1, n) /\ Reached(a)
        BY Zenon, <1>1, <1>4 DEF ManifestInv, ArchiveOK
    <2>2. DocumentOK(Document(Segment(ChainHead, a + 1, n)))
        BY ZenonT(60), <1>1, <2>1, DocumentSound
    <2> QED
        BY ZenonT(60), <2>1, <2>2
<1> QED
    BY ZenonT(60), <1>2, <1>3, <1>4 DEF Counted

\* The intents that wait for a dispatcher are finitely many.
LEMMA StillFinite ==
    ASSUME OutboxOK, FinitelyPending, [Next]_vars
    PROVE  FinitelyPending'
<1> DEFINE pending == {i \in Intents : audit_outbox[i] = "PENDING"}
           later == {i \in Intents : audit_outbox'[i] = "PENDING"}
<1>1. IsFiniteSet(pending)
    BY Zenon DEF FinitelyPending
<1>2. ASSUME NEW i \in Intents, EnqueueAudit(i) PROVE IsFiniteSet(later)
    <2>1. later \subseteq pending \cup {i}
        BY Zenon, <1>2 DEF EnqueueAudit, OutboxOK
    <2>2. IsFiniteSet(pending \cup {i})
        BY Zenon, <1>1, FS_AddElement
    <2> QED
        BY ZenonT(60), <2>1, <2>2, FS_Subset
<1>3. ASSUME NEW p \in Procs, Commit(p) PROVE IsFiniteSet(later)
    <2>1. later \subseteq pending
        BY <1>3 DEF Commit, Dispatched
    <2> QED
        BY ZenonT(60), <1>1, <2>1, FS_Subset
<1>4. CASE UNCHANGED audit_outbox
    BY ZenonT(60), <1>1, <1>4 DEF FinitelyPending
<1>5. \/ \E i \in Intents : EnqueueAudit(i)
      \/ \E p \in Procs : Commit(p)
      \/ UNCHANGED audit_outbox
    BY Zenon DEF Next, Step, Start, DispatchPending, LockState, InsertState, AppendToChain, Rollback,
             ReadArchived, ReadRows, PutWorm, InsertManifest, ArchiveFails, vars
<1> QED
    BY ZenonT(60), <1>2, <1>3, <1>4, <1>5 DEF FinitelyPending

-----------------------------------------------------------------------------
(* What the audit trail promises *)

\* The invariant holds in every reachable state.
THEOREM Invariance == Spec => [](Inv /\ worm \subseteq Manifests)
<1>1. Init => Inv /\ worm \subseteq Manifests
    <2> SUFFICES ASSUME Init PROVE FinitelyPending
        BY ZenonT(60), Initially DEF Inv
    <2>1. \A i \in Intents : audit_outbox[i] = "NONE"
        BY Zenon DEF Init
    <2>2. {i \in Intents : audit_outbox[i] = "PENDING"} = {}
        BY <2>1
    <2> QED
        BY ZenonT(60), <2>2, FS_EmptySet DEF FinitelyPending
<1>2. Inv /\ worm \subseteq Manifests /\ [Next]_vars => (Inv /\ worm \subseteq Manifests)'
    <2> SUFFICES ASSUME Inv, worm \subseteq Manifests, [Next]_vars
                 PROVE  Inv' /\ worm' \subseteq Manifests
        BY Zenon
    <2>1. Counted
        BY Zenon, CountedNow
    <2>2. ChainInv' /\ OutboxInv' /\ ManifestInv'
        BY ZenonT(60), <2>1, EveryStep
    <2>3. worm' \subseteq Manifests
        BY ZenonT(60), <2>1, WormKept
    <2>4. FinitelyPending'
        BY Zenon, StillFinite DEF Inv, OutboxInv
    <2> QED
        BY ZenonT(60), <2>2, <2>3, <2>4 DEF Inv
<1> QED
    BY <1>1, <1>2, PTL DEF Spec

\* The rows of the table, in the order of their index, are the rows of the committed head.
LEMMA RowsOfHead ==
    ASSUME Inv
    PROVE  \E h, n, rows :
             /\ h = ChainHead /\ h \in Seq(Events) /\ n = Len(h) /\ n \in Nat
             /\ audit_event = Segment(h, 1, n)
             /\ rows = InOrder(audit_event) /\ rows = [k \in 1..n |-> RowAt(h, k)]
             /\ Len(rows) = n
<1>1. ChainOK
    BY Zenon DEF Inv, ChainInv
<1>2. PICK h : h = ChainHead
    BY Zenon
<1>3. PICK n : n = Len(h)
    BY Zenon
<1>4. h \in Seq(Events) /\ n \in Nat
    BY ZenonT(60), <1>1, <1>2, <1>3, HeadType
<1>5. audit_event = Segment(h, 1, n)
    BY ZenonT(60), <1>1, <1>2, <1>3 DEF ChainOK
<1>6. PICK a \in Nat : a = 0
    OBVIOUS
<1>7. a <= n /\ a + 1 = 1 /\ n - a = n /\ \A k \in 1..n : a + k = k
    BY <1>4, <1>6
<1>8. InOrder(Segment(h, 1, n)) = [k \in 1..n |-> RowAt(h, k)]
    <2>1. InOrder(Segment(h, a + 1, n)) = [k \in 1 .. n - a |-> RowAt(h, a + k)]
        <3>1. n \in Nat /\ a <= n
            BY Zenon, <1>4, <1>7
        <3> QED
            BY <3>1, SegmentInOrder
    <2>2. [k \in 1..n |-> RowAt(h, a + k)] = [k \in 1..n |-> RowAt(h, k)]
        BY Zenon, <1>7
    <2> QED
        BY ZenonT(60), <1>7, <2>1, <2>2
<1>9. PICK rows : rows = InOrder(audit_event)
    BY Zenon
<1>10. rows = [k \in 1..n |-> RowAt(h, k)]
    BY ZenonT(60), <1>5, <1>8, <1>9
<1>11. Len(rows) = n
    BY <1>4, <1>10
<1> QED
    BY ZenonT(60), <1>2, <1>3, <1>4, <1>5, <1>9, <1>10, <1>11

\* Audit entries are well-formed rows, and so are the manifests and the stored objects.
THEOREM TypeCorrect == Spec => []TypeOK
<1>1. Inv /\ worm \subseteq Manifests => TypeOK
    BY Zenon, TypesHold
<1> QED
    BY <1>1, Invariance, PTL

\* verify_tenant_chain accepts every history that append_to_chain can produce, whatever
\* transactions interleave, roll back or race for the first row; the rows are numbered
\* without gaps and the chain state is their head.
THEOREM ChainAlwaysVerifies == Spec => []ChainVerifies
<1>1. Inv => ChainVerifies
    BY ZenonT(60), RowsOfHead, RowsVerify
<1> QED
    BY <1>1, Invariance, PTL

\* dispatch_pending puts an intent into the trail once when it marks it DISPATCHED and never
\* before, with any number of dispatchers and with dispatchers that die on the way.
THEOREM DispatchedOnce == Spec => []DispatchedExactlyOnce
<1>1. Inv => DispatchedExactlyOnce
    <2> SUFFICES ASSUME Inv, NEW i \in Intents
                 PROVE  Cardinality({r \in audit_event : r.hash.by = i})
                            = IF audit_outbox[i] = "DISPATCHED" THEN 1 ELSE 0
        BY Zenon DEF DispatchedExactlyOnce
    <2>1. PICK h, n, rows :
            h = ChainHead /\ n = Len(h) /\ audit_event = Segment(h, 1, n)
        BY ZenonT(60), RowsOfHead
    <2>2. IntentOK(h, i)
        BY ZenonT(60), <2>1 DEF Inv, OutboxInv, OutboxOK
    <2>3. {r \in audit_event : r.hash.by = i} = RowsOf(Segment(h, 1, n), i)
        BY ZenonT(60), <2>1 DEF RowsOf
    <2>4. CASE audit_outbox[i] = "DISPATCHED"
        <3>1. PICK k \in 1..n : \A j \in 1..n : h[j].by = i <=> j = k
            BY ZenonT(60), <2>1, <2>2, <2>4 DEF IntentOK, OnceIn
        <3>2. RowsOf(Segment(h, 1, n), i) = RowsAt(h, {k})
            <4>1. PICK places : places = {k}
                BY Zenon
            <4>2. (\A j \in 1..n : h[j].by = i <=> j \in places) /\ places \subseteq 1..n
                BY ZenonT(60), <3>1, <4>1
            <4>3. RowsOf(Segment(h, 1, n), i) = RowsAt(h, places)
                BY ZenonT(60), <4>2, RowsOfIntent
            <4> QED
                BY ZenonT(60), <4>1, <4>3
        <3>3. RowsAt(h, {k}) = {RowAt(h, k)}
            BY Zenon DEF RowsAt
        <3>4. Cardinality({RowAt(h, k)}) = 1
            BY ZenonT(60), FS_Singleton
        <3> QED
            BY ZenonT(60), <2>3, <2>4, <3>2, <3>3, <3>4
    <2>5. CASE audit_outbox[i] # "DISPATCHED"
        <3>1. \A j \in 1..n : h[j].by # i
            BY ZenonT(60), <2>1, <2>2, <2>5 DEF IntentOK, NotIn
        <3>2. RowsOf(Segment(h, 1, n), i) = RowsAt(h, {})
            <4>1. PICK places : places = {}
                BY Zenon
            <4>2. (\A j \in 1..n : h[j].by = i <=> j \in places) /\ places \subseteq 1..n
                BY Zenon, <3>1, <4>1
            <4>3. RowsOf(Segment(h, 1, n), i) = RowsAt(h, places)
                BY Zenon, <4>2, RowsOfIntent
            <4> QED
                BY ZenonT(60), <4>1, <4>3
        <3>3. RowsAt(h, {}) = {}
            BY Zenon DEF RowsAt
        <3>4. Cardinality({}) = 0
            BY ZenonT(60), FS_EmptySet
        <3> QED
            BY ZenonT(60), <2>3, <2>5, <3>2, <3>3, <3>4
    <2> QED
        BY ZenonT(60), <2>4, <2>5
<1> QED
    BY <1>1, Invariance, PTL

\* build_and_archive leaves no event out: a manifest describes its segment with the chain's
\* own head, and the segment begins no later than right after another one's end, also when
\* several requests archive while the chain grows.
THEOREM ManifestsComplete == Spec => []ManifestsCoverChain
<1>1. Inv => ManifestsCoverChain
    BY Zenon, DocumentsCover DEF ManifestsCoverChain
<1> QED
    BY <1>1, Invariance, PTL
=============================================================================
