------------------------ MODULE ToolGovernanceProofs ------------------------
(***************************************************************************)
(* Governed tool calls for every number of calls, resuming workers and     *)
(* people: a grant is spent once and by the release it was asked for, a    *)
(* gated call sends nothing it has no grant for, a checkpoint is resumed   *)
(* once, and a resume that failed holds nothing.                           *)
(*                                                                         *)
(* An actor works with what it read before its last await.  The invariant  *)
(* says what of that is still true (KnowsOK): the tables only ever grow    *)
(* and close, so a step of one actor takes nothing from another.           *)
(***************************************************************************)
EXTENDS ToolGovernance, TLAPS

-----------------------------------------------------------------------------
(* The invariant *)

\* Where an actor has a request at hand, and where it has none yet.
AtRequest == {"get", "expire", "consume", "decide", "expire_approved", "expire_pending"}
Starting == {"idle", "absent"}

\* Where a call may have sent something, and where a gated one may.
Sending == {"execute", "record", "done", "error", "release", "parked"}
Sent == Sending \ {"execute"}

\* Where a resumer does not hold the Session's lease.
Empty == {"idle", "absent", "acquire", "error"}

\* Who holds a grant of its own.
Granted(a) == \E g \in spent : g.by = a

\* What a call with this record is: it counts its attempts and, where it is gated, has
\* sent nothing until it is granted, and sends once.
CallOK(c, rec) ==
    /\ sends[c] = rec.attempts
    /\ rec.at \notin Sending => rec.attempts = 0
    /\ rec.at = "execute" => rec.attempts < MaxAttempts
    /\ rec.at = "record" => rec.want \in CallStatuses
    /\ Gated /\ gated =>
        /\ sends[c] <= 1
        /\ sends[c] = 1 \/ rec.at \in {"replay", "execute"} => Granted(c)
        /\ rec.at \notin Sent => sends[c] = 0

\* A resumer goes for the checkpoint's request, and gets through on a grant of its own.
ResumerOK(r, rec) ==
    /\ rec.at \notin Starting =>
            tool_checkpoint.status # NoRow /\ rec.approval = tool_checkpoint.approval
    /\ rec.at \in {"save", "done"} => \E g \in spent : g.by = r /\ g.approval = rec.approval

\* What actor a knows, with this record, is true of the tables.
KnowsOK(a, rec) ==
    /\ rec \in Actor
    /\ rec.approval \in 0..Len(tool_approval)
    /\ rec.at \in AtRequest => rec.approval # 0
    /\ rec.at = "expire" => rec.copy.release = tool_approval[rec.approval].release
    /\ rec.at = "consume" => rec.release = tool_approval[rec.approval].release
    /\ a \in Calls => CallOK(a, rec)
    /\ a \in Deciders => (rec.at \in AtRequest => rec.want \in {"APPROVED", "DENIED"})
    /\ a \in Resumers => ResumerOK(a, rec)
    /\ \A g \in spent : g.by = a =>
            rec.at \notin Starting /\ rec.release = tool_approval[g.approval].release

AllKnow == \A a \in Actors : KnowsOK(a, actor[a])

\* A spent request is closed, by whatever status, and spent once; a granted one names who
\* granted it; a resumed checkpoint was resumed on a grant.
GrantsOK ==
    /\ ApprovalSpentOnce
    /\ \A g \in spent :
        g.approval \in DOMAIN tool_approval /\ tool_approval[g.approval].status \notin Open
    /\ \A id \in DOMAIN tool_approval :
        tool_approval[id].status = "APPROVED" => tool_approval[id].decided_by \in Deciders
    /\ tool_checkpoint.approval \in 0..Len(tool_approval)
    /\ tool_checkpoint.status # NoRow => tool_checkpoint.approval # 0
    /\ tool_checkpoint.status = "RESUMED" =>
        \E g \in spent : g.approval = tool_checkpoint.approval /\ g.by \in Resumers

NotHeld(r) == \A s \in Sessions : ~ (session_lease[s].owner = r /\ session_lease[s].left > 0)

LeasesOK == \A r \in Resumers : actor[r].at \in Empty => NotHeld(r)

OperatorsOK ==
    \A o \in Operators : operator[o].at = "insert" =>
        operator[o].call \in Calls /\ operator[o].want \in Resolutions

Inv == TypeOK /\ GrantsOK /\ AllKnow /\ LeasesOK /\ OperatorsOK

\* The tables of the grants grow: rows stay what they ask for, grants stay, and so does
\* the checkpoint's request.
TablesGrow ==
    /\ Len(tool_approval) <= Len(tool_approval')
    /\ \A id \in 1..Len(tool_approval) : tool_approval'[id].release = tool_approval[id].release
    /\ spent \subseteq spent'
    /\ Gated' /\ gated' => Gated /\ gated
    /\ tool_checkpoint.status # NoRow =>
            tool_checkpoint'.status # NoRow /\ tool_checkpoint'.approval = tool_checkpoint.approval

\* So who takes no step knows as much as before.
LEMMA KnowsStays ==
    ASSUME TypeOK, GrantsOK, TablesGrow, Len(tool_approval') \in Nat,
           NEW a \in Actors, NEW rec, KnowsOK(a, rec),
           a \in Calls => sends'[a] = sends[a],
           \A g \in spent' : g.by = a => g \in spent
    PROVE  KnowsOK(a, rec)'
<1>1. tool_approval \in Seq(ApprovalRow) /\ Len(tool_approval) \in Nat
      /\ DOMAIN tool_approval = 1..Len(tool_approval)
    BY DEF TypeOK
<1>2. rec.approval \in 0..Len(tool_approval) /\ rec.approval \in 0..Len(tool_approval')
    BY <1>1 DEF KnowsOK, TablesGrow
<1>3. rec.approval # 0 => tool_approval'[rec.approval].release = tool_approval[rec.approval].release
    BY <1>1, <1>2 DEF TablesGrow
<1>4. \A g \in spent : tool_approval'[g.approval].release = tool_approval[g.approval].release
    BY Zenon, <1>1 DEF GrantsOK, TablesGrow
<1>5. Granted(a) => Granted(a)'
    BY Zenon DEF Granted, TablesGrow
<1>6. a \in Calls => CallOK(a, rec)'
    BY Zenon, <1>5 DEF KnowsOK, CallOK, TablesGrow
<1>7. a \in Resumers => ResumerOK(a, rec)'
    BY Zenon DEF KnowsOK, ResumerOK, TablesGrow
<1> QED
    BY Zenon, <1>2, <1>3, <1>4, <1>6, <1>7 DEF KnowsOK, AtRequest

\* A step of a, which goes on with the record new, is for a alone to justify.
LEMMA WalkKnows ==
    ASSUME TypeOK, GrantsOK, AllKnow, TablesGrow, Len(tool_approval') \in Nat,
           NEW a \in Actors, NEW new,
           actor' = [actor EXCEPT ![a] = new],
           KnowsOK(a, new)',
           \A c \in Calls : c # a => sends'[c] = sends[c],
           \A g \in spent' : g.by # a => g \in spent
    PROVE  AllKnow' /\ actor' \in [Actors -> Actor]
<1>1. actor \in [Actors -> Actor]
    BY Zenon DEF TypeOK
<1>2. ASSUME NEW b \in Actors PROVE KnowsOK(b, actor[b])'
    <2>1. PICK rec : rec = actor'[b]
        BY Zenon
    <2>2. CASE b = a
        <3>1. rec = new
            BY Zenon, <1>1, <2>1, <2>2
        <3> QED
            BY Zenon, <2>1, <2>2, <3>1
    <2>3. CASE b # a
        <3>1. rec = actor[b]
            BY Zenon, <1>1, <2>1, <2>3
        <3>2. KnowsOK(b, rec)
            BY Zenon, <3>1 DEF AllKnow
        <3>3. KnowsOK(b, rec)'
            BY Zenon, <2>3, <3>2, KnowsStays
        <3> QED
            BY Zenon, <2>1, <3>3
    <2> QED
        BY Zenon, <2>2, <2>3
<1>3. new \in Actor
    BY Zenon DEF KnowsOK
<1> QED
    BY Zenon, <1>1, <1>2, <1>3 DEF AllKnow

\* A step that touches none of the tables of the grants.
LEMMA Walk ==
    ASSUME Inv, NEW a \in Actors, NEW new,
           actor' = [actor EXCEPT ![a] = new],
           KnowsOK(a, new),
           UNCHANGED <<tool_definition, tool_reconciliation, operator, gated, sends,
                       tool_approval, tool_checkpoint, spent>>,
           StoreTypeOK', LeasesOK',
           tool_call' \in [Calls -> CallStatuses \cup {NoRow}],
           failures' \in 0..MaxFailures
    PROVE  Inv'
<1>1. TypeOK /\ GrantsOK /\ AllKnow /\ OperatorsOK
    BY Zenon DEF Inv
<1>2. TablesGrow /\ Len(tool_approval') \in Nat
    BY <1>1 DEF TablesGrow, TypeOK, Gated, SideEffect
<1>3. KnowsOK(a, new)'
    BY Zenon DEF KnowsOK, CallOK, ResumerOK, Granted, Gated, SideEffect
<1>4. AllKnow' /\ actor' \in [Actors -> Actor]
    BY Zenon, <1>1, <1>2, <1>3, WalkKnows
<1>5. TypeOK'
    BY Zenon, <1>1, <1>4 DEF TypeOK
<1>6. GrantsOK' /\ OperatorsOK'
    BY Zenon, <1>1 DEF GrantsOK, OperatorsOK, ApprovalSpentOnce
<1> QED
    BY Zenon, <1>4, <1>5, <1>6 DEF Inv

\* Leases that are left alone, and an actor that is no resumer or lets go of nothing.
LEMMA LeasesKept ==
    ASSUME TypeOK, LeasesOK, UNCHANGED session_lease, NEW a \in Actors, NEW new,
           actor' = [actor EXCEPT ![a] = new],
           a \in Resumers => new.at \notin Empty \/ actor[a].at \in Empty
    PROVE  LeasesOK'
<1>1. actor \in [Actors -> Actor] /\ Resumers \subseteq Actors
    BY Zenon DEF TypeOK, Actors
<1> QED
    BY Zenon, <1>1 DEF LeasesOK, NotHeld

\* A walk that leaves the rest of the tables alone as well.
LEMMA PlainWalk ==
    ASSUME Inv, NEW a \in Actors, NEW new,
           actor' = [actor EXCEPT ![a] = new],
           KnowsOK(a, new),
           a \in Resumers => new.at \notin Empty \/ actor[a].at \in Empty,
           UNCHANGED <<storeVars, callVars, tool_approval, tool_checkpoint, spent>>,
           failures' \in 0..MaxFailures
    PROVE  Inv'
<1>1. LeasesOK'
    BY Zenon, LeasesKept DEF Inv, storeVars
<1>2. StoreTypeOK' /\ tool_call' \in [Calls -> CallStatuses \cup {NoRow}]
    BY Zenon DEF Inv, TypeOK, StoreTypeOK, storeVars, callVars
<1> QED
    BY Zenon, <1>1, <1>2, Walk DEF callVars

\* What Go makes of an actor's record.
LEMMA GoRecord ==
    ASSUME TypeOK, NEW a \in Actors, NEW place \in Places, Go(a, place)
    PROVE  \E new \in Actor :
            /\ actor' = [actor EXCEPT ![a] = new]
            /\ new.at = place
            /\ a \in Deciders /\ place \in {"done", "error"} => new.approval = 0
            /\ ~ (a \in Deciders /\ place \in {"done", "error"}) =>
                /\ new.approval = actor[a].approval /\ new.release = actor[a].release
                /\ new.want = actor[a].want /\ new.attempts = actor[a].attempts
                /\ new.turn = actor[a].turn
<1>1. actor \in [Actors -> Actor] /\ actor[a] \in Actor
    BY Zenon DEF TypeOK
<1>2. BlankRow \in ApprovalRow
    BY Zenon DEF BlankRow, ApprovalRow, ApprovalStatuses
<1>3. CASE a \in Deciders /\ place \in {"done", "error"}
    <2> DEFINE new == [IdleActor EXCEPT !.at = place]
    <2>1. new \in Actor /\ new.at = place /\ new.approval = 0
        <3>1. 0 \in 0..MaxAttempts
            BY ToolAssumption
        <3>3. IdleActor \in Actor
            BY Zenon, <1>2, <3>1 DEF IdleActor, Actor, Places
        <3>4. IdleActor.approval = 0
            BY Zenon DEF IdleActor
        <3> QED
            BY Zenon, <3>3, <3>4 DEF Actor
    <2>2. actor' = [actor EXCEPT ![a] = new]
        BY Zenon, <1>3 DEF Go
    <2> QED
        BY Zenon, <1>3, <2>1, <2>2
<1>4. CASE ~ (a \in Deciders /\ place \in {"done", "error"})
    <2> DEFINE new == [actor[a] EXCEPT !.at = place, !.copy = BlankRow]
    <2>1. /\ new \in Actor /\ new.at = place
          /\ new.approval = actor[a].approval /\ new.release = actor[a].release
          /\ new.want = actor[a].want /\ new.attempts = actor[a].attempts
          /\ new.turn = actor[a].turn
        BY Zenon, <1>1, <1>2 DEF Actor
    <2>2. actor' = [actor EXCEPT ![a] = new]
        BY Zenon, <1>1, <1>4 DEF Go
    <2> HIDE DEF new
    <2> QED
        BY Zenon, <1>4, <2>1, <2>2
<1> QED
    BY Zenon, <1>3, <1>4

\* Calls, resumers and deciders are different actors.
LEMMA ActorKinds ==
    ASSUME NEW a \in Actors
    PROVE  /\ a \in Calls => a \notin Resumers /\ a \notin Deciders
           /\ a \in Resumers => a \notin Deciders
           /\ a \notin Calls /\ a \notin Deciders => a \in Resumers
<1>1. Workers = Calls \cup Resumers /\ Calls \cap Resumers = {} /\ Deciders \cap Workers = {}
    BY Zenon, ToolAssumption
<1> QED
    BY Zenon, <1>1 DEF Actors

-----------------------------------------------------------------------------
(* Steps that read the tables of the grants *)

\* An actor that goes on with what it knew.
LEMMA GoesOn ==
    ASSUME TypeOK, NEW a \in Actors, KnowsOK(a, actor[a]), actor[a].at \notin Starting,
           NEW new \in Actor,
           new.approval = actor[a].approval, new.release = actor[a].release,
           new.attempts = actor[a].attempts,
           a \in Deciders => new.want = actor[a].want,
           new.at \notin Starting,
           new.at \in AtRequest => actor[a].approval # 0,
           new.at = "expire" => new.copy.release = tool_approval[actor[a].approval].release,
           new.at = "consume" => actor[a].release = tool_approval[actor[a].approval].release,
           a \in Deciders /\ new.at \in AtRequest => actor[a].at \in AtRequest,
           a \in Calls =>
                /\ new.at = "execute" => actor[a].attempts < MaxAttempts
                /\ new.at = "record" => new.want \in CallStatuses
                /\ new.at \notin Sending => actor[a].at \notin Sending
                /\ Gated /\ gated =>
                    /\ new.at \in {"replay", "execute"} => Granted(a)
                    /\ new.at \notin Sent => actor[a].at \notin Sent,
           a \in Resumers =>
                (new.at \in {"save", "done"} =>
                    \E g \in spent : g.by = a /\ g.approval = actor[a].approval)
    PROVE  KnowsOK(a, new)
<1>1. a \in Calls => CallOK(a, new)
    BY Zenon DEF KnowsOK, CallOK
<1>2. a \in Resumers => ResumerOK(a, new)
    BY Zenon DEF KnowsOK, ResumerOK
<1> QED
    BY Zenon, <1>1, <1>2 DEF KnowsOK

\* A decider that is through has forgotten everything.
LEMMA DeciderEnds ==
    ASSUME TypeOK, NEW a \in Deciders, NEW new \in Actor,
           new.approval = 0, new.at \in {"done", "error"}
    PROVE  KnowsOK(a, new)
<1>1. a \in Actors /\ a \notin Calls /\ a \notin Resumers
    BY Zenon, ActorKinds DEF Actors
<1>2. \A g \in spent : g.by # a
    BY Zenon, <1>1 DEF TypeOK
<1>3. Len(tool_approval) \in Nat
    BY DEF TypeOK
<1> QED
    BY <1>1, <1>2, <1>3 DEF KnowsOK, AtRequest

\* What get answers decides where its caller goes on.
LEMMA GetPlaces ==
    ASSUME NEW a \in Actors, NEW row
    PROVE  /\ AfterGet(a, row) \in Places
           /\ a \in Deciders => AfterGet(a, row) \in {"decide", "error"}
           /\ a \in Calls => AfterGet(a, row) \in {"consume", "error"}
           /\ a \in Resumers => AfterGet(a, row) \in {"consume", "give_back"}
           /\ AfterGet(a, row) = "consume" => row.release = actor[a].release
BY Zenon, ActorKinds DEF AfterGet, AfterConsumeGet, AfterDecideGet, Places

\* ... and what its caller knows then.
LEMMA AfterGetKnows ==
    ASSUME TypeOK, NEW a \in Actors, KnowsOK(a, actor[a]), actor[a].at \in {"get", "expire"},
           NEW row, row.release = tool_approval[actor[a].approval].release,
           Go(a, AfterGet(a, row))
    PROVE  \E new \in Actor :
            /\ actor' = [actor EXCEPT ![a] = new]
            /\ KnowsOK(a, new)
            /\ a \in Resumers => new.at \notin Empty
<1> DEFINE place == AfterGet(a, row)
<1>1. /\ place \in Places
      /\ a \in Deciders => place \in {"decide", "error"}
      /\ a \in Calls => place \in {"consume", "error"}
      /\ a \in Resumers => place \in {"consume", "give_back"}
      /\ place = "consume" => row.release = actor[a].release
      /\ a \in Calls \/ a \in Deciders \/ a \in Resumers
    BY Zenon, GetPlaces DEF Actors
<1> HIDE DEF place
<1>2. PICK new \in Actor :
            /\ actor' = [actor EXCEPT ![a] = new]
            /\ new.at = place
            /\ a \in Deciders /\ place \in {"done", "error"} => new.approval = 0
            /\ ~ (a \in Deciders /\ place \in {"done", "error"}) =>
                /\ new.approval = actor[a].approval /\ new.release = actor[a].release
                /\ new.want = actor[a].want /\ new.attempts = actor[a].attempts
                /\ new.turn = actor[a].turn
    BY Zenon, <1>1, GoRecord DEF place
<1>3. CASE a \in Deciders /\ place = "error"
    <2>1. KnowsOK(a, new)
        BY Zenon, <1>2, <1>3, DeciderEnds
    <2> QED
        BY Zenon, <1>2, <1>3, <2>1, ActorKinds
<1>4. CASE ~ (a \in Deciders /\ place = "error")
    <2>1. place \notin {"done", "expire", "execute", "record", "replay", "save"}
        BY Zenon, <1>1
    <2>2. actor[a].approval # 0
        BY Zenon DEF KnowsOK, AtRequest
    <2>3. KnowsOK(a, new)
        BY ZenonT(60), <1>1, <1>2, <1>4, <2>1, <2>2, GoesOn, ActorKinds DEF Starting, AtRequest, Sending, Sent
    <2> QED
        BY Zenon, <1>1, <1>2, <2>3 DEF Empty
<1> QED
    BY Zenon, <1>3, <1>4

\* get only reads.
LEMMA GetInv ==
    ASSUME Inv, NEW a \in Actors, Get(a)
    PROVE  Inv'
<1> DEFINE row == tool_approval[actor[a].approval]
<1>1. /\ TypeOK /\ KnowsOK(a, actor[a]) /\ actor[a].at = "get"
      /\ UNCHANGED <<storeVars, callVars, tool_approval, tool_checkpoint, spent, failures>>
      /\ failures' \in 0..MaxFailures
    BY Zenon DEF Inv, AllKnow, Get, At, TypeOK
<1>2. CASE Go(a, AfterGet(a, row))
    <2>1. PICK new \in Actor :
            /\ actor' = [actor EXCEPT ![a] = new]
            /\ KnowsOK(a, new)
            /\ a \in Resumers => new.at \notin Empty
        BY Zenon, <1>1, <1>2, AfterGetKnows
    <2> QED
        BY Zenon, <1>1, <2>1, PlainWalk
<1>3. CASE actor' = [actor EXCEPT ![a].at = "expire", ![a].copy = row]
    <2>1. /\ actor[a] \in Actor /\ actor \in [Actors -> Actor]
          /\ actor[a].approval \in 1..Len(tool_approval)
        BY <1>1 DEF TypeOK, KnowsOK, AtRequest
    <2>2. row \in ApprovalRow
        BY <1>1, <2>1 DEF TypeOK
    <2>3. PICK new : new = [actor[a] EXCEPT !.at = "expire", !.copy = row]
        BY Zenon
    <2>4. /\ new \in Actor /\ new.at = "expire" /\ new.copy = row
          /\ new.approval = actor[a].approval /\ new.release = actor[a].release
          /\ new.want = actor[a].want /\ new.attempts = actor[a].attempts
        BY ZenonT(60), <2>1, <2>2, <2>3 DEF Actor, Places
    <2>5. actor' = [actor EXCEPT ![a] = new]
        BY Zenon, <1>3, <2>1, <2>3
    <2>6. KnowsOK(a, new)
        BY <1>1, <2>1, <2>4, GoesOn DEF Starting, AtRequest, Sending, Sent
    <2> QED
        BY Zenon, <1>1, <2>4, <2>5, <2>6, PlainWalk DEF Empty
<1> QED
    BY Zenon, <1>2, <1>3 DEF Get

\* A call that goes on, with another request perhaps, or starts.
LEMMA CallGoes ==
    ASSUME TypeOK, NEW c \in Calls, KnowsOK(c, actor[c]),
           NEW new \in Actor,
           new.approval \in 0..Len(tool_approval), new.attempts = actor[c].attempts,
           new.release = actor[c].release \/ actor[c].at \in Starting,
           new.at \notin Starting, new.at \notin {"expire", "consume"},
           new.at \in AtRequest => new.approval # 0,
           new.at = "execute" => actor[c].attempts < MaxAttempts,
           new.at = "record" => new.want \in CallStatuses,
           new.at \notin Sending => actor[c].at \notin Sending,
           Gated /\ gated =>
                /\ new.at \in {"replay", "execute"} => Granted(c)
                /\ new.at \notin Sent => actor[c].at \notin Sent
    PROVE  KnowsOK(c, new)
<1>1. c \in Actors /\ c \notin Resumers /\ c \notin Deciders
    BY Zenon, ActorKinds DEF Actors
<1>2. CallOK(c, new)
    BY Zenon DEF KnowsOK, CallOK
<1> QED
    BY Zenon, <1>1, <1>2 DEF KnowsOK

\* ... by Go.
LEMMA CallGo ==
    ASSUME TypeOK, NEW c \in Calls, KnowsOK(c, actor[c]),
           NEW place \in Places \ (Starting \cup AtRequest), Go(c, place),
           place = "execute" => actor[c].attempts < MaxAttempts,
           place = "record" => actor[c].want \in CallStatuses,
           place \notin Sending => actor[c].at \notin Sending,
           Gated /\ gated =>
                /\ place \in {"replay", "execute"} => Granted(c)
                /\ place \notin Sent => actor[c].at \notin Sent
    PROVE  \E new \in Actor : actor' = [actor EXCEPT ![c] = new] /\ KnowsOK(c, new)
<1>1. c \in Actors /\ c \notin Resumers /\ c \notin Deciders
    BY Zenon, ActorKinds DEF Actors
<1>2. PICK new \in Actor :
            /\ actor' = [actor EXCEPT ![c] = new]
            /\ new.at = place
            /\ new.approval = actor[c].approval /\ new.release = actor[c].release
            /\ new.want = actor[c].want /\ new.attempts = actor[c].attempts
    BY <1>1, GoRecord
<1>3. new.approval \in 0..Len(tool_approval)
    BY Zenon, <1>2 DEF KnowsOK
<1>4. KnowsOK(c, new)
    BY ZenonT(60), <1>2, <1>3, CallGoes DEF AtRequest
<1> QED
    BY Zenon, <1>2, <1>4

\* A decision is posted.
LEMMA DecideApprovalInv ==
    ASSUME Inv, NEW d \in Deciders, NEW id \in Approvals, NEW want \in {"APPROVED", "DENIED"},
           DecideApproval(d, id, want)
    PROVE  Inv'
<1>1. d \in Actors /\ d \notin Calls /\ d \notin Resumers
    BY Zenon, ActorKinds DEF Actors
<1>2. /\ TypeOK /\ actor[d] \in Actor /\ actor \in [Actors -> Actor]
      /\ id \in 1..Len(tool_approval)
      /\ UNCHANGED <<storeVars, callVars, tool_approval, tool_checkpoint, spent, failures>>
      /\ failures' \in 0..MaxFailures
    BY <1>1 DEF Inv, TypeOK, DecideApproval
<1>3. \A g \in spent : g.by # d
    BY <1>1 DEF Inv, TypeOK
<1>4. PICK new : new = [actor[d] EXCEPT !.at = "get", !.approval = id, !.want = want]
    BY Zenon
<1>5. new \in Actor /\ new.at = "get" /\ new.approval = id /\ new.want = want
    BY Zenon, <1>2, <1>4 DEF Actor, Places
<1>6. actor' = [actor EXCEPT ![d] = new]
    BY Zenon, <1>2, <1>4 DEF DecideApproval
<1>7. KnowsOK(d, new)
    BY <1>1, <1>2, <1>3, <1>5 DEF KnowsOK
<1> QED
    BY Zenon, <1>1, <1>2, <1>6, <1>7, PlainWalk

\* The newest open request of the intent is a request.
LEMMA FindOpenRow ==
    ASSUME TypeOK, NEW status, NEW id \in FindOpen(status)
    PROVE  /\ id \in 1..Len(tool_approval) /\ id \in Approvals
           /\ tool_approval[id] \in ApprovalRow /\ tool_approval[id].status = status
<1>1. id \in 1..Len(tool_approval) /\ tool_approval[id].status = status
    BY DEF TypeOK, FindOpen
<1>2. tool_approval[id] \in ApprovalRow
    BY <1>1 DEF TypeOK
<1>3. MaxApprovals \in Nat /\ Len(tool_approval) \in Nat /\ Len(tool_approval) <= MaxApprovals
    BY ToolAssumption DEF TypeOK
<1> QED
    BY <1>1, <1>2, <1>3 DEF Approvals

\* find_approved and find_pending only read.
LEMMA FindInv ==
    ASSUME Inv, NEW c \in Calls, FindApproved(c) \/ FindPending(c)
    PROVE  Inv'
<1>1. c \in Actors /\ c \notin Resumers /\ c \notin Deciders
    BY Zenon, ActorKinds DEF Actors
<1>2. /\ TypeOK /\ actor[c] \in Actor /\ actor \in [Actors -> Actor] /\ KnowsOK(c, actor[c])
      /\ actor[c].at \in {"find_approved", "find_pending"}
      /\ UNCHANGED <<storeVars, callVars, tool_approval, tool_checkpoint, spent, failures>>
      /\ failures' \in 0..MaxFailures
    BY Zenon, <1>1 DEF Inv, TypeOK, AllKnow, FindApproved, FindPending, At
<1>3. CASE Go(c, "find_pending") \/ Go(c, "create")
    <2>1. PICK new \in Actor : actor' = [actor EXCEPT ![c] = new] /\ KnowsOK(c, new)
        BY Zenon, <1>2, <1>3, CallGo DEF Places, Starting, AtRequest, Sending, Sent
    <2> QED
        BY Zenon, <1>1, <1>2, <2>1, PlainWalk
<1>4. ASSUME NEW id \in FindOpen("APPROVED"),
             actor' = [actor EXCEPT ![c].approval = id,
                ![c].copy = IF tool_approval[id].left = 0 THEN tool_approval[id] ELSE @,
                ![c].at = IF tool_approval[id].left = 0 THEN "expire_approved" ELSE "get"]
      PROVE  Inv'
    <2>1. /\ id \in 1..Len(tool_approval) /\ id \in Approvals /\ tool_approval[id] \in ApprovalRow
        BY Zenon, <1>2, <1>4, FindOpenRow
    <2>2. PICK new : new = [actor[c] EXCEPT !.approval = id,
                !.copy = IF tool_approval[id].left = 0 THEN tool_approval[id] ELSE @,
                !.at = IF tool_approval[id].left = 0 THEN "expire_approved" ELSE "get"]
        BY Zenon
    <2>3. /\ new \in Actor /\ new.approval = id /\ new.at \in {"expire_approved", "get"}
          /\ new.release = actor[c].release /\ new.attempts = actor[c].attempts
        BY ZenonT(60), <1>2, <2>1, <2>2 DEF Actor, Places
    <2>4. actor' = [actor EXCEPT ![c] = new]
        BY Zenon, <1>2, <1>4, <2>2
    <2>5. KnowsOK(c, new)
        BY <1>2, <2>1, <2>3, CallGoes DEF Starting, AtRequest, Sending, Sent
    <2> QED
        BY Zenon, <1>1, <1>2, <2>4, <2>5, PlainWalk
<1>5. ASSUME NEW id \in FindOpen("PENDING"),
             actor' = [actor EXCEPT ![c].approval = id, ![c].want = "BLOCKED",
                ![c].copy = IF tool_approval[id].left = 0 THEN tool_approval[id] ELSE @,
                ![c].at = IF tool_approval[id].left = 0 THEN "expire_pending" ELSE "record"]
      PROVE  Inv'
    <2>1. /\ id \in 1..Len(tool_approval) /\ id \in Approvals /\ tool_approval[id] \in ApprovalRow
        BY Zenon, <1>2, <1>5, FindOpenRow
    <2>2. PICK new : new = [actor[c] EXCEPT !.approval = id, !.want = "BLOCKED",
                !.copy = IF tool_approval[id].left = 0 THEN tool_approval[id] ELSE @,
                !.at = IF tool_approval[id].left = 0 THEN "expire_pending" ELSE "record"]
        BY Zenon
    <2>3. /\ new \in Actor /\ new.approval = id /\ new.at \in {"expire_pending", "record"}
          /\ new.want = "BLOCKED"
          /\ new.release = actor[c].release /\ new.attempts = actor[c].attempts
        BY ZenonT(40), <1>2, <2>1, <2>2 DEF Actor, Places, CallStatuses
    <2>4. actor' = [actor EXCEPT ![c] = new]
        BY Zenon, <1>2, <1>5, <2>2
    <2>5. KnowsOK(c, new)
        BY <1>2, <2>1, <2>3, CallGoes DEF Starting, AtRequest, Sending, Sent, CallStatuses
    <2> QED
        BY Zenon, <1>1, <1>2, <2>4, <2>5, PlainWalk
<1> QED
    BY Zenon, <1>3, <1>4, <1>5 DEF FindApproved, FindPending

\* find_replay looks for a record of the same key.
LEMMA FindReplayInv ==
    ASSUME Inv, NEW c \in Calls, FindReplay(c)
    PROVE  Inv'
<1>1. c \in Actors /\ c \notin Resumers /\ c \notin Deciders
    BY Zenon, ActorKinds DEF Actors
<1>2. /\ TypeOK /\ KnowsOK(c, actor[c]) /\ actor[c].at = "replay"
      /\ UNCHANGED <<storeVars, callVars, tool_approval, tool_checkpoint, spent, failures>>
      /\ failures' \in 0..MaxFailures
      /\ Go(c, "done") \/ Go(c, "execute")
    BY Zenon, <1>1 DEF Inv, TypeOK, AllKnow, FindReplay, At
<1>3. /\ actor[c].attempts = 0 /\ 0 < MaxAttempts
      /\ Gated /\ gated => Granted(c)
    BY <1>2, ToolAssumption DEF KnowsOK, CallOK, Sending
<1>4. PICK new \in Actor : actor' = [actor EXCEPT ![c] = new] /\ KnowsOK(c, new)
    BY Zenon, <1>2, <1>3, CallGo DEF Places, Starting, AtRequest, Sending, Sent
<1> QED
    BY Zenon, <1>1, <1>2, <1>4, PlainWalk

\* The record of a call.
LEMMA RecordInv ==
    ASSUME Inv, NEW c \in Calls, Record(c)
    PROVE  Inv'
<1>1. c \in Actors /\ c \notin Resumers /\ c \notin Deciders
    BY Zenon, ActorKinds DEF Actors
<1>2. /\ TypeOK /\ KnowsOK(c, actor[c]) /\ actor[c].at = "record"
      /\ UNCHANGED <<storeVars, invokeKeeps, tool_approval, sends, failures>>
      /\ failures' \in 0..MaxFailures
      /\ Go(c, "done") \/ Go(c, "error")
    BY Zenon, <1>1 DEF Inv, TypeOK, AllKnow, Record, At
<1>3. actor[c].want \in CallStatuses
    BY Zenon, <1>2 DEF KnowsOK, CallOK
<1>4. PICK new \in Actor : actor' = [actor EXCEPT ![c] = new] /\ KnowsOK(c, new)
    BY Zenon, <1>2, CallGo DEF Places, Starting, AtRequest, Sending, Sent
<1>5. tool_call' \in [Calls -> CallStatuses \cup {NoRow}]
    BY Zenon, <1>2, <1>3 DEF Record, TypeOK
<1>6. StoreTypeOK'
    BY Zenon, <1>2 DEF TypeOK, StoreTypeOK, storeVars
<1>7. LeasesOK'
    BY Zenon, <1>1, <1>2, <1>4, LeasesKept DEF Inv, storeVars
<1> QED
    BY Zenon, <1>1, <1>2, <1>4, <1>5, <1>6, <1>7, Walk DEF invokeKeeps

\* Leases: nobody's lease is another's, and who releases the Session holds nothing.
LEMMA LeaseStep ==
    ASSUME TypeOK, NEW s \in Sessions, NEW w \in Workers,
           AcquireLease(s, w) \/ ReleaseLease(s, w),
           UNCHANGED <<agent_execution, agent_session, session_event>>
    PROVE  /\ StoreTypeOK'
           /\ \A r \in Resumers : r # w /\ NotHeld(r) => NotHeld(r)'
           /\ ReleaseLease(s, w) => NotHeld(w)'
<1>1. session_lease \in [Sessions -> Lease] /\ session_lease[s] \in Lease
    BY Zenon DEF TypeOK, StoreTypeOK
<1>2. Sessions = {s}
    BY Zenon, ToolAssumption
<1>3. CASE AcquireLease(s, w)
    <2>1. [owner |-> w, token |-> session_lease[s].token + 1, left |-> LeaseTtl] \in Lease
        BY <1>1, TtlAssumption DEF Lease
    <2>2. /\ session_lease' \in [Sessions -> Lease]
          /\ session_lease'[s].owner = w
        BY Zenon, <1>1, <1>3, <2>1 DEF AcquireLease, LeaseGrant
    <2>3. ASSUME ReleaseLease(s, w) PROVE NotHeld(w)'
        <3>1. session_lease' = [session_lease EXCEPT ![s].left =
                IF session_lease[s].owner = w THEN 0 ELSE @]
            BY Zenon, <2>3 DEF ReleaseLease
        <3>2. session_lease'[s].owner = session_lease[s].owner
            BY Zenon, <1>1, <3>1 DEF Lease
        <3>3. session_lease'[s].left = 0
            BY <1>1, <2>2, <3>1, <3>2 DEF Lease
        <3> QED
            BY <1>2, <3>3 DEF NotHeld
    <2> QED
        BY Zenon, <1>2, <2>2, <2>3 DEF TypeOK, StoreTypeOK, NotHeld
<1>4. CASE ReleaseLease(s, w)
    <2>1. session_lease' = [session_lease EXCEPT ![s].left =
                IF session_lease[s].owner = w THEN 0 ELSE @]
        BY Zenon, <1>4 DEF ReleaseLease
    <2>2. /\ session_lease' \in [Sessions -> Lease]
          /\ session_lease'[s].owner = session_lease[s].owner
          /\ session_lease'[s].left = IF session_lease[s].owner = w THEN 0 ELSE session_lease[s].left
        BY Zenon, <1>1, <2>1 DEF Lease
    <2>3. NotHeld(w)'
        BY <1>2, <2>2 DEF NotHeld
    <2>4. \A r \in Resumers : r # w /\ NotHeld(r) => NotHeld(r)'
        BY Zenon, <1>2, <2>2 DEF NotHeld
    <2> QED
        BY Zenon, <2>2, <2>3, <2>4 DEF TypeOK, StoreTypeOK
<1> QED
    BY Zenon, <1>3, <1>4

\* Where a call takes or gives a lease, the resumers' leases are as good as before.
LEMMA CallLeases ==
    ASSUME Inv, NEW c \in Calls, NEW new, actor' = [actor EXCEPT ![c] = new],
           \A r \in Resumers : r # c /\ NotHeld(r) => NotHeld(r)'
    PROVE  LeasesOK'
<1>1. c \in Actors /\ c \notin Resumers /\ Resumers \subseteq Actors
    BY Zenon, ActorKinds DEF Actors
<1>2. actor \in [Actors -> Actor]
    BY Zenon DEF Inv, TypeOK
<1> QED
    BY Zenon, <1>1, <1>2 DEF Inv, LeasesOK

\* A call starts, under the lease of its turn or outside of any Session.
LEMMA InvokeInv ==
    ASSUME Inv, NEW c \in Calls, NEW mode, NEW release \in Releases, NEW keyed \in BOOLEAN,
           NEW valid, Invoke(c, mode, release, keyed, valid),
           UNCHANGED session_lease \/ \E s \in Sessions : AcquireLease(s, c)
    PROVE  Inv'
<1> DEFINE place == IF tool_definition # NoDefinition /\ valid THEN GatePlace(mode) ELSE "blocked"
<1>1. c \in Actors /\ c \in Workers
    BY Zenon, ToolAssumption DEF Actors
<1>2. /\ TypeOK /\ KnowsOK(c, actor[c]) /\ actor[c].at = "idle"
      /\ actor[c] \in Actor /\ actor \in [Actors -> Actor]
      /\ UNCHANGED <<invokeKeeps, tool_approval, sends, failures>>
      /\ UNCHANGED <<session_event, agent_session, agent_execution>>
      /\ failures' \in 0..MaxFailures
    BY Zenon, <1>1 DEF Inv, TypeOK, AllKnow, Invoke, At, RecordBlocked
<1>3. StoreTypeOK' /\ \A r \in Resumers : r # c /\ NotHeld(r) => NotHeld(r)'
    <2>1. CASE UNCHANGED session_lease
        BY Zenon, <1>2, <2>1 DEF TypeOK, StoreTypeOK, NotHeld
    <2>2. CASE \E s \in Sessions : AcquireLease(s, c)
        BY Zenon, <1>1, <1>2, <2>2, LeaseStep
    <2> QED
        BY Zenon, <2>1, <2>2
<1>4. /\ place \in {"blocked", "replay", "find_approved"}
      /\ place = "replay" => ~ (Gated /\ gated)
    BY Zenon DEF GatePlace
<1>5. /\ place = "blocked" => RecordBlocked(c) /\ Go(c, "done")
      /\ place # "blocked" => UNCHANGED tool_call /\
            actor' = [actor EXCEPT ![c] = IF place = "replay"
                    THEN [@ EXCEPT !.at = place, !.keyed = keyed]
                    ELSE [@ EXCEPT !.at = place, !.keyed = keyed, !.release = release,
                                   !.turn = mode = "conversation"]]
    BY Zenon DEF Invoke
<1> HIDE DEF place
<1>6. tool_call' \in [Calls -> CallStatuses \cup {NoRow}]
    BY Zenon, <1>2, <1>5 DEF TypeOK, RecordBlocked, CallStatuses
<1>7. \E new \in Actor : actor' = [actor EXCEPT ![c] = new] /\ KnowsOK(c, new)
    <2>1. CASE place = "blocked"
        BY Zenon, <1>2, <1>5, <2>1, CallGo DEF Places, Starting, AtRequest, Sending, Sent
    <2>2. CASE place = "replay"
        <3>1. PICK new : new = [actor[c] EXCEPT !.at = place, !.keyed = keyed]
            BY Zenon
        <3>2. /\ new \in Actor /\ new.at = "replay" /\ new.approval = actor[c].approval
              /\ new.release = actor[c].release /\ new.attempts = actor[c].attempts
            BY ZenonT(60), <1>2, <2>2, <3>1 DEF Actor, Places
        <3>3. actor' = [actor EXCEPT ![c] = new]
            BY Zenon, <1>2, <1>5, <2>2, <3>1
        <3>4. new.approval \in 0..Len(tool_approval)
            BY Zenon, <1>2, <3>2 DEF KnowsOK
        <3>5. KnowsOK(c, new)
            BY Zenon, <1>2, <1>4, <2>2, <3>2, <3>4, CallGoes DEF Starting, AtRequest, Sending, Sent
        <3> QED
            BY Zenon, <3>2, <3>3, <3>5
    <2>3. CASE place = "find_approved"
        <3>1. PICK new : new = [actor[c] EXCEPT !.at = place, !.keyed = keyed, !.release = release,
                                                !.turn = mode = "conversation"]
            BY Zenon
        <3>2. (mode = "conversation") \in BOOLEAN
            BY Zenon
        <3>3. /\ new \in Actor /\ new.at = "find_approved" /\ new.approval = actor[c].approval
              /\ new.attempts = actor[c].attempts
            BY ZenonT(40), <1>2, <2>3, <3>1, <3>2 DEF Actor, Places
        <3>4. actor' = [actor EXCEPT ![c] = new]
            BY Zenon, <1>2, <1>5, <2>3, <3>1
        <3>5. new.approval \in 0..Len(tool_approval)
            BY Zenon, <1>2, <3>3 DEF KnowsOK
        <3>6. KnowsOK(c, new)
            BY Zenon, <1>2, <3>3, <3>5, CallGoes DEF Starting, AtRequest, Sending, Sent
        <3> QED
            BY Zenon, <3>3, <3>4, <3>6
    <2> QED
        BY Zenon, <1>4, <2>1, <2>2, <2>3
<1>8. PICK new \in Actor : actor' = [actor EXCEPT ![c] = new] /\ KnowsOK(c, new)
    BY Zenon, <1>7
<1>9. LeasesOK'
    BY Zenon, <1>3, <1>8, CallLeases
<1> QED
    BY Zenon, <1>1, <1>2, <1>3, <1>6, <1>8, <1>9, Walk DEF invokeKeeps

\* A parked call gives its lease up.
LEMMA ParkReleaseInv ==
    ASSUME Inv, NEW c \in Calls, ParkRelease(c)
    PROVE  Inv'
<1>1. c \in Actors /\ c \in Workers
    BY Zenon, ToolAssumption DEF Actors
<1>2. /\ TypeOK /\ KnowsOK(c, actor[c]) /\ actor[c].at = "release"
      /\ UNCHANGED <<parkKeeps, tool_checkpoint, failures>>
      /\ failures' \in 0..MaxFailures /\ Go(c, "parked")
    BY Zenon, <1>1 DEF Inv, TypeOK, AllKnow, ParkRelease, At
<1>3. StoreTypeOK' /\ \A r \in Resumers : r # c /\ NotHeld(r) => NotHeld(r)'
    BY Zenon, <1>1, <1>2, LeaseStep DEF ParkRelease, parkKeeps
<1>4. PICK new \in Actor : actor' = [actor EXCEPT ![c] = new] /\ KnowsOK(c, new)
    BY Zenon, <1>2, CallGo DEF Places, Starting, AtRequest, Sending, Sent
<1>5. LeasesOK'
    BY Zenon, <1>3, <1>4, CallLeases
<1>6. tool_call' \in [Calls -> CallStatuses \cup {NoRow}]
    BY Zenon, <1>2 DEF TypeOK, parkKeeps, callVars
<1> QED
    BY Zenon, <1>1, <1>2, <1>3, <1>4, <1>5, <1>6, Walk DEF parkKeeps, callVars

\* A resumer that goes on by Go.
LEMMA ResumerGo ==
    ASSUME TypeOK, NEW r \in Resumers, KnowsOK(r, actor[r]), actor[r].at \notin Starting,
           NEW place \in Places \ (Starting \cup {"expire", "consume", "done", "save"}),
           place \in AtRequest => actor[r].approval # 0,
           Go(r, place)
    PROVE  \E new \in Actor :
                actor' = [actor EXCEPT ![r] = new] /\ KnowsOK(r, new) /\ new.at = place
<1>1. r \in Actors /\ r \notin Calls /\ r \notin Deciders
    BY Zenon, ActorKinds DEF Actors
<1>2. PICK new \in Actor :
            /\ actor' = [actor EXCEPT ![r] = new]
            /\ new.at = place
            /\ new.approval = actor[r].approval /\ new.release = actor[r].release
            /\ new.want = actor[r].want /\ new.attempts = actor[r].attempts
    BY <1>1, GoRecord
<1>3. KnowsOK(r, new)
    BY Zenon, <1>1, <1>2, GoesOn
<1> QED
    BY Zenon, <1>2, <1>3

\* A resume begins: it remembers the checkpoint's request.
LEMMA ResumeInv ==
    ASSUME Inv, NEW r \in Resumers, Resume(r)
    PROVE  Inv'
<1>1. r \in Actors /\ r \notin Calls /\ r \notin Deciders
    BY Zenon, ActorKinds DEF Actors
<1>2. /\ TypeOK /\ GrantsOK /\ KnowsOK(r, actor[r]) /\ actor[r].at = "idle"
      /\ actor[r] \in Actor /\ actor \in [Actors -> Actor]
      /\ tool_checkpoint \in CheckpointRow /\ tool_checkpoint.status = "WAITING_APPROVAL"
      /\ UNCHANGED <<storeVars, callVars, tool_approval, tool_checkpoint, spent, failures>>
      /\ failures' \in 0..MaxFailures
    BY Zenon, <1>1 DEF Inv, TypeOK, AllKnow, Resume, At, parkKeeps, storeVars
<1>3. PICK new : new = [actor[r] EXCEPT !.at = "acquire", !.approval = tool_checkpoint.approval,
                                        !.release = tool_checkpoint.release]
    BY Zenon
<1>4. new \in Actor /\ new.at = "acquire" /\ new.approval = tool_checkpoint.approval
    BY Zenon, <1>2, <1>3 DEF Actor, Places, CheckpointRow
<1>5. actor' = [actor EXCEPT ![r] = new]
    BY Zenon, <1>2, <1>3 DEF Resume
<1>6. \A g \in spent : g.by # r
    BY Zenon, <1>2 DEF KnowsOK, Starting
<1>7. new.approval \in 0..Len(tool_approval) /\ tool_checkpoint.status # NoRow
    BY Zenon, <1>2, <1>4 DEF GrantsOK, NoRow
<1>8. KnowsOK(r, new)
    BY Zenon, <1>1, <1>4, <1>6, <1>7 DEF KnowsOK, ResumerOK, AtRequest
<1> QED
    BY Zenon, <1>1, <1>2, <1>5, <1>8, PlainWalk DEF Empty

\* A transaction of consume fails, and the resume gives the lease back.
LEMMA ConsumeFailsInv ==
    ASSUME Inv, NEW r \in Resumers, ConsumeFails(r)
    PROVE  Inv'
<1>1. r \in Actors
    BY Zenon DEF Actors
<1>2. /\ TypeOK /\ KnowsOK(r, actor[r]) /\ actor[r].at \in {"get", "expire", "consume"}
      /\ Go(r, "give_back")
      /\ UNCHANGED <<storeVars, callVars, tool_approval, tool_checkpoint, spent>>
    BY Zenon, <1>1 DEF Inv, AllKnow, ConsumeFails
<1>3. failures' \in 0..MaxFailures
    BY <1>2, ToolAssumption DEF TypeOK, ConsumeFails
<1>4. PICK new \in Actor :
            actor' = [actor EXCEPT ![r] = new] /\ KnowsOK(r, new) /\ new.at = "give_back"
    BY Zenon, <1>2, ResumerGo DEF Places, Starting, AtRequest
<1> QED
    BY Zenon, <1>1, <1>2, <1>3, <1>4, PlainWalk DEF Empty

\* The lease is taken or refused, and given back.
LEMMA ResumeLeaseInv ==
    ASSUME Inv, NEW r \in Resumers, ResumeAcquire(r) \/ GiveBack(r)
    PROVE  Inv'
<1>1. r \in Actors /\ r \in Workers /\ Resumers \subseteq Actors
    BY Zenon, ToolAssumption DEF Actors
<1>2. /\ TypeOK /\ GrantsOK /\ LeasesOK /\ KnowsOK(r, actor[r]) /\ actor[r].at \in {"acquire", "give_back"}
      /\ UNCHANGED <<parkKeeps, tool_checkpoint, failures>>
      /\ failures' \in 0..MaxFailures /\ actor \in [Actors -> Actor]
      /\ tool_call' \in [Calls -> CallStatuses \cup {NoRow}]
    BY Zenon, <1>1 DEF Inv, TypeOK, AllKnow, ResumeAcquire, GiveBack, At, parkKeeps, callVars
<1>3. PICK s \in Sessions :
        \/ AcquireLease(s, r) /\ Go(r, "get")
        \/ ~ LeaseFree(s, r) /\ Go(r, "error") /\ UNCHANGED session_lease
        \/ ReleaseLease(s, r) /\ Go(r, "error")
    BY Zenon DEF ResumeAcquire, GiveBack
<1>4. Sessions = {s}
    BY Zenon, ToolAssumption
<1>5. actor[r].approval # 0
    BY Zenon, <1>2 DEF KnowsOK, ResumerOK, GrantsOK, Starting
<1>6. StoreTypeOK' /\ \A q \in Resumers : q # r /\ NotHeld(q) => NotHeld(q)'
    <2>1. CASE UNCHANGED session_lease
        BY Zenon, <1>2, <2>1 DEF TypeOK, StoreTypeOK, NotHeld, parkKeeps
    <2>2. CASE AcquireLease(s, r) \/ ReleaseLease(s, r)
        BY Zenon, <1>1, <1>2, <2>2, LeaseStep DEF parkKeeps
    <2> QED
        BY Zenon, <1>3, <2>1, <2>2
<1>7. PICK new \in Actor :
            actor' = [actor EXCEPT ![r] = new] /\ KnowsOK(r, new) /\ new.at \in {"get", "error"}
            /\ (new.at = "error" => Go(r, "error")) /\ (new.at = "get" => Go(r, "get"))
    BY <1>2, <1>3, <1>5, ResumerGo DEF Places, Starting, AtRequest
<1>8. new.at = "error" => NotHeld(r)'
    <2>1. CASE ReleaseLease(s, r)
        BY Zenon, <1>1, <1>2, <2>1, LeaseStep DEF parkKeeps
    <2>2. CASE ~ LeaseFree(s, r) /\ UNCHANGED session_lease
        BY Zenon, <1>4, <2>2 DEF LeaseFree, NotHeld
    <2>3. CASE Go(r, "get")
        <3>1. actor'[r].at = "get"
            BY Zenon, <1>1, <1>2, <2>3 DEF Go, Actor
        <3> QED
            BY Zenon, <1>1, <1>2, <1>7, <3>1
    <2> QED
        BY Zenon, <1>3, <2>1, <2>2, <2>3
<1>9. LeasesOK'
    BY Zenon, <1>1, <1>2, <1>6, <1>7, <1>8 DEF LeasesOK, Empty
<1> QED
    BY Zenon, <1>1, <1>2, <1>6, <1>7, <1>9, Walk DEF parkKeeps, callVars

-----------------------------------------------------------------------------
(* Steps that write the tables of the grants *)

\* Rows keep their number and their release, are never opened again, and are granted by
\* somebody.
RowsMove ==
    /\ tool_approval' \in Seq(ApprovalRow) /\ Len(tool_approval') = Len(tool_approval)
    /\ \A id \in 1..Len(tool_approval) :
        /\ tool_approval'[id].release = tool_approval[id].release
        /\ tool_approval[id].status \notin Open => tool_approval'[id].status \notin Open
        /\ tool_approval'[id].status = "APPROVED" => tool_approval'[id].decided_by \in Deciders

\* One row is replaced.
LEMMA RowMoves ==
    ASSUME TypeOK, GrantsOK, NEW id \in 1..Len(tool_approval), NEW row \in ApprovalRow,
           tool_approval' = [tool_approval EXCEPT ![id] = row],
           row.release = tool_approval[id].release,
           row.status \in Open => tool_approval[id].status \in Open,
           row.status = "APPROVED" => row.decided_by \in Deciders
    PROVE  RowsMove
<1>1. tool_approval \in Seq(ApprovalRow) /\ DOMAIN tool_approval = 1..Len(tool_approval)
    BY DEF TypeOK
<1>2. tool_approval' \in Seq(ApprovalRow) /\ Len(tool_approval') = Len(tool_approval)
    BY <1>1
<1>3. \A k \in 1..Len(tool_approval) :
        tool_approval'[k] = IF k = id THEN row ELSE tool_approval[k]
    BY Zenon, <1>1
<1> QED
    BY Zenon, <1>1, <1>2, <1>3 DEF RowsMove, GrantsOK

\* The compare-and-swap closes an open row, or grants it.
LEMMA TransitionMoves ==
    ASSUME TypeOK, GrantsOK, NEW id \in 1..Len(tool_approval), NEW from \in SUBSET Open,
           NEW to \in ApprovalStatuses, NEW subject \in Deciders \cup {NoSubject},
           to = "APPROVED" => subject # NoSubject,
           Transition(id, from, to, subject)
    PROVE  /\ RowsMove
           /\ Moves(id, from) => tool_approval'[id].status = to
<1>1. /\ tool_approval \in Seq(ApprovalRow) /\ DOMAIN tool_approval = 1..Len(tool_approval)
      /\ tool_approval[id] \in ApprovalRow
    BY DEF TypeOK
<1>2. CASE Moves(id, from)
    <2> DEFINE new == [tool_approval[id] EXCEPT !.status = to,
                            !.decided_by = IF subject = NoSubject THEN @ ELSE subject]
    <2>1. /\ new \in ApprovalRow /\ new.release = tool_approval[id].release /\ new.status = to
          /\ subject # NoSubject => new.decided_by \in Deciders
        BY Zenon, <1>1 DEF ApprovalRow
    <2>2. tool_approval' = [tool_approval EXCEPT ![id] = new]
        BY Zenon, <1>1, <1>2 DEF Transition
    <2>3. tool_approval[id].status \in Open
        BY Zenon, <1>2 DEF Moves
    <2> HIDE DEF new
    <2>4. RowsMove
        BY Zenon, <2>1, <2>2, <2>3, RowMoves
    <2> QED
        BY Zenon, <1>1, <2>1, <2>2, <2>4
<1>3. CASE ~ Moves(id, from)
    BY Zenon, <1>1, <1>3 DEF Transition, RowsMove, GrantsOK
<1> QED
    BY Zenon, <1>2, <1>3

\* What is said of the grants survives such a move.
LEMMA RowsKeepGrants ==
    ASSUME TypeOK, GrantsOK, RowsMove, UNCHANGED <<spent, tool_checkpoint>>
    PROVE  GrantsOK'
<1>1. DOMAIN tool_approval = 1..Len(tool_approval) /\ DOMAIN tool_approval' = 1..Len(tool_approval)
    BY DEF TypeOK, RowsMove
<1> QED
    BY Zenon, <1>1 DEF GrantsOK, RowsMove, ApprovalSpentOnce

\* A step of a that moves a row.
LEMMA MoveWalk ==
    ASSUME Inv, NEW a \in Actors, NEW new,
           actor' = [actor EXCEPT ![a] = new],
           KnowsOK(a, new), RowsMove,
           a \in Resumers => new.at \notin Empty \/ actor[a].at \in Empty,
           UNCHANGED <<storeVars, callVars, tool_checkpoint, spent, failures>>
    PROVE  Inv'
<1>1. TypeOK /\ GrantsOK /\ AllKnow /\ LeasesOK /\ OperatorsOK
    BY Zenon DEF Inv
<1>2. TablesGrow /\ Len(tool_approval') \in Nat /\ UNCHANGED <<sends, spent, operator>>
    BY <1>1 DEF TablesGrow, RowsMove, TypeOK, Gated, SideEffect, callVars
<1>3. KnowsOK(a, new)'
    BY Zenon, <1>1, <1>2, KnowsStays
<1>4. AllKnow' /\ actor' \in [Actors -> Actor]
    BY Zenon, <1>1, <1>2, <1>3, WalkKnows
<1>5. GrantsOK'
    BY Zenon, <1>1, RowsKeepGrants
<1>6. LeasesOK'
    BY Zenon, <1>1, LeasesKept DEF storeVars
<1>7. TypeOK'
    BY Zenon, <1>1, <1>4 DEF TypeOK, RowsMove, StoreTypeOK, storeVars, callVars
<1>8. OperatorsOK'
    BY Zenon, <1>1, <1>2 DEF OperatorsOK
<1> QED
    BY Zenon, <1>4, <1>5, <1>6, <1>7, <1>8 DEF Inv

\* get marks an expired request, and goes on with what it read if somebody was faster.
LEMMA ExpireByGetInv ==
    ASSUME Inv, NEW a \in Actors, ExpireByGet(a)
    PROVE  Inv'
<1> DEFINE id == actor[a].approval
           row == IF Moves(id, Open) THEN [actor[a].copy EXCEPT !.status = "EXPIRED"]
                                     ELSE actor[a].copy
<1>1. /\ TypeOK /\ GrantsOK /\ KnowsOK(a, actor[a]) /\ actor[a].at = "expire" /\ actor[a] \in Actor
      /\ UNCHANGED <<storeVars, callVars, tool_checkpoint, spent, failures>>
      /\ Transition(id, Open, "EXPIRED", NoSubject) /\ Go(a, AfterGet(a, row))
    BY Zenon DEF Inv, AllKnow, ExpireByGet, At, TypeOK
<1>2. /\ id \in 1..Len(tool_approval)
      /\ actor[a].copy.release = tool_approval[id].release /\ actor[a].copy \in ApprovalRow
    BY <1>1 DEF KnowsOK, AtRequest, Actor
<1>3. row.release = tool_approval[id].release
    BY Zenon, <1>2 DEF ApprovalRow
<1>4. RowsMove
    BY Zenon, <1>1, <1>2, TransitionMoves DEF ApprovalStatuses
<1> HIDE DEF row
<1>5. PICK new \in Actor :
            /\ actor' = [actor EXCEPT ![a] = new]
            /\ KnowsOK(a, new)
            /\ a \in Resumers => new.at \notin Empty
    BY Zenon, <1>1, <1>3, AfterGetKnows
<1> QED
    BY Zenon, <1>1, <1>4, <1>5, MoveWalk

\* A decision is stored where the request is still pending.
LEMMA DecideInv ==
    ASSUME Inv, NEW d \in Deciders, Decide(d)
    PROVE  Inv'
<1> DEFINE id == actor[d].approval
<1>1. d \in Actors /\ d \notin Calls /\ d \notin Resumers
    BY Zenon, ActorKinds DEF Actors
<1>2. /\ TypeOK /\ GrantsOK /\ KnowsOK(d, actor[d]) /\ actor[d].at = "decide"
      /\ UNCHANGED <<storeVars, callVars, tool_checkpoint, spent, failures>>
      /\ Transition(id, {"PENDING"}, actor[d].want, d)
      /\ Go(d, "done") \/ Go(d, "error")
    BY Zenon, <1>1 DEF Inv, AllKnow, Decide, At
<1>3. id \in 1..Len(tool_approval) /\ actor[d].want \in {"APPROVED", "DENIED"} /\ d # NoSubject
    BY <1>2, ToolAssumption DEF KnowsOK, AtRequest
<1>4. RowsMove
    BY ZenonT(60), <1>2, <1>3, TransitionMoves DEF ApprovalStatuses, Open
<1>5. PICK new \in Actor :
            actor' = [actor EXCEPT ![d] = new] /\ new.approval = 0 /\ new.at \in {"done", "error"}
    BY <1>1, <1>2, GoRecord DEF Places
<1>6. KnowsOK(d, new)
    BY Zenon, <1>2, <1>5, DeciderEnds
<1> QED
    BY Zenon, <1>1, <1>2, <1>4, <1>5, <1>6, MoveWalk

\* An expired request is written back from a stale copy: it is closed all the same.
LEMMA ExpireFoundInv ==
    ASSUME Inv, NEW c \in Calls, ExpireFound(c)
    PROVE  Inv'
<1> DEFINE id == actor[c].approval
<1>1. c \in Actors /\ c \notin Resumers
    BY Zenon, ActorKinds DEF Actors
<1>2. /\ TypeOK /\ GrantsOK /\ KnowsOK(c, actor[c]) /\ actor[c] \in Actor
      /\ actor[c].at \in {"expire_approved", "expire_pending"}
      /\ UNCHANGED <<storeVars, callVars, tool_checkpoint, spent, failures>>
      /\ UpsertApproval(id, [actor[c].copy EXCEPT !.status = "EXPIRED"])
      /\ Go(c, "find_pending") \/ Go(c, "create")
    BY Zenon, <1>1 DEF Inv, AllKnow, ExpireFound, TypeOK
<1>3. id \in 1..Len(tool_approval) /\ actor[c].copy \in ApprovalRow
    BY <1>2 DEF KnowsOK, AtRequest, Actor
<1>4. tool_approval[id] \in ApprovalRow /\ tool_approval \in Seq(ApprovalRow)
    BY <1>2, <1>3 DEF TypeOK
<1>5. PICK by \in Deciders \cup {NoSubject} :
            tool_approval' = [tool_approval EXCEPT ![id].status = "EXPIRED", ![id].decided_by = by]
    <2>1. PICK copy : copy = [actor[c].copy EXCEPT !.status = "EXPIRED"]
        BY Zenon
    <2>2. copy.status = "EXPIRED" /\ copy.decided_by \in Deciders \cup {NoSubject}
        BY Zenon, <1>3, <2>1 DEF ApprovalRow
    <2>3. UpsertApproval(id, copy)
        BY Zenon, <1>2, <2>1
    <2> QED
        BY Zenon, <2>2, <2>3 DEF UpsertApproval
<1> DEFINE row == [tool_approval[id] EXCEPT !.status = "EXPIRED", !.decided_by = by]
<1>6. tool_approval' = [tool_approval EXCEPT ![id] = row]
    BY Zenon, <1>3, <1>4, <1>5
<1>7. row \in ApprovalRow /\ row.status = "EXPIRED" /\ row.release = tool_approval[id].release
    BY Zenon, <1>4, <1>5 DEF ApprovalRow, ApprovalStatuses
<1> HIDE DEF row
<1>8. RowsMove
    BY Zenon, <1>2, <1>3, <1>6, <1>7, RowMoves DEF Open
<1>9. PICK new \in Actor : actor' = [actor EXCEPT ![c] = new] /\ KnowsOK(c, new)
    BY Zenon, <1>2, CallGo DEF Places, Starting, AtRequest, Sending, Sent
<1> QED
    BY Zenon, <1>1, <1>2, <1>8, <1>9, MoveWalk

\* A step of a that lets the tables of the grants grow.
LEMMA GrowWalk ==
    ASSUME Inv, NEW a \in Actors, NEW new,
           actor' = [actor EXCEPT ![a] = new],
           TablesGrow, KnowsOK(a, new)', GrantsOK',
           a \in Resumers => new.at \notin Empty \/ actor[a].at \in Empty,
           tool_approval' \in Seq(ApprovalRow), Len(tool_approval') <= MaxApprovals,
           tool_checkpoint' \in CheckpointRow,
           spent' \subseteq [approval : Approvals, by : Calls \cup Resumers, decided_by : Deciders],
           \A g \in spent' : g.by # a => g \in spent,
           sends' \in [Calls -> 0..MaxAttempts],
           \A c \in Calls : c # a => sends'[c] = sends[c],
           UNCHANGED <<storeVars, tool_definition, tool_call, tool_reconciliation, operator,
                       gated, failures>>
    PROVE  Inv'
<1>1. TypeOK /\ GrantsOK /\ AllKnow /\ LeasesOK /\ OperatorsOK
    BY Zenon DEF Inv
<1>2. Len(tool_approval') \in Nat
    OBVIOUS
<1>3. AllKnow' /\ actor' \in [Actors -> Actor]
    BY Zenon, <1>1, <1>2, WalkKnows
<1>4. LeasesOK'
    BY Zenon, <1>1, LeasesKept DEF storeVars
<1>5. TypeOK'
    BY Zenon, <1>1, <1>3 DEF TypeOK, StoreTypeOK, storeVars
<1>6. OperatorsOK'
    BY Zenon, <1>1 DEF OperatorsOK
<1> QED
    BY Zenon, <1>3, <1>4, <1>5, <1>6 DEF Inv

\* A request is created.
LEMMA CreateApprovalInv ==
    ASSUME Inv, NEW c \in Calls, CreateApproval(c)
    PROVE  Inv'
<1> DEFINE id == Len(tool_approval) + 1
           row == [status |-> "PENDING", release |-> actor[c].release,
                   decided_by |-> NoSubject, left |-> ApprovalTtl]
<1>1. c \in Actors /\ c \notin Resumers /\ c \notin Deciders
    BY Zenon, ActorKinds DEF Actors
<1>2. /\ TypeOK /\ GrantsOK /\ KnowsOK(c, actor[c]) /\ actor[c].at = "create"
      /\ actor[c] \in Actor /\ actor \in [Actors -> Actor]
      /\ tool_approval \in Seq(ApprovalRow) /\ Len(tool_approval) \in Nat
      /\ Len(tool_approval) < MaxApprovals /\ MaxApprovals \in Nat
      /\ tool_approval' = Append(tool_approval, row)
      /\ UNCHANGED <<storeVars, callVars, tool_checkpoint, spent, failures>>
    BY SMTT(40), <1>1, ToolAssumption DEF Inv, AllKnow, CreateApproval, At, TypeOK
<1>3. row \in ApprovalRow /\ row.status = "PENDING"
    BY Zenon, <1>2, ToolAssumption DEF ApprovalRow, ApprovalStatuses, Actor
<1> HIDE DEF row
<1>4. /\ tool_approval' \in Seq(ApprovalRow) /\ Len(tool_approval') = id
      /\ DOMAIN tool_approval = 1..Len(tool_approval)
      /\ DOMAIN tool_approval' = 1..id /\ Len(tool_approval') <= MaxApprovals
      /\ \A k \in 1..Len(tool_approval) : tool_approval'[k] = tool_approval[k]
      /\ tool_approval'[id] = row
    BY <1>2, <1>3
<1>5. TablesGrow
    BY <1>2, <1>4 DEF TablesGrow, Gated, SideEffect, callVars
<1>6. GrantsOK'
    <2>1. \A k \in 1..id : k = id \/ k \in 1..Len(tool_approval)
        BY <1>2
    <2>2. \A k \in DOMAIN tool_approval' :
            tool_approval'[k].status = "APPROVED" => tool_approval'[k].decided_by \in Deciders
        BY ZenonT(60), <1>2, <1>3, <1>4, <2>1 DEF GrantsOK
    <2>3. \A g \in spent' : /\ g.approval \in DOMAIN tool_approval'
                            /\ tool_approval'[g.approval].status \notin Open
        BY <1>2, <1>4 DEF GrantsOK
    <2>4. tool_checkpoint'.approval \in 0..Len(tool_approval')
        BY <1>2, <1>4 DEF GrantsOK
    <2> QED
        BY Zenon, <1>2, <2>2, <2>3, <2>4 DEF GrantsOK, ApprovalSpentOnce
<1>7. PICK new : new = [actor[c] EXCEPT !.approval = id, !.want = "BLOCKED", !.at = "record"]
    BY Zenon
<1>8. /\ new \in Actor /\ new.approval = id /\ new.at = "record" /\ new.want = "BLOCKED"
      /\ new.release = actor[c].release /\ new.attempts = actor[c].attempts
    <2>1. id \in Approvals /\ actor[c] \in Actor
        BY <1>2 DEF Approvals
    <2> HIDE DEF id
    <2> QED
        BY Zenon, <1>7, <2>1 DEF Actor, Places, CallStatuses
<1>9. actor' = [actor EXCEPT ![c] = new]
    BY Zenon, <1>2, <1>7 DEF CreateApproval
<1>10. KnowsOK(c, new)'
    <2>1. CallOK(c, actor[c]) /\ UNCHANGED <<sends, spent, gated, tool_definition>>
        BY Zenon, <1>2 DEF KnowsOK, callVars
    <2>2. CallOK(c, new)'
        BY Zenon, <1>8, <2>1 DEF CallOK, CallStatuses, Sending, Sent, Granted, Gated, SideEffect
    <2>3. \A g \in spent' : g.by = c =>
            new.at \notin Starting /\ new.release = tool_approval'[g.approval].release
        BY Zenon, <1>2, <1>4, <1>8, <2>1 DEF KnowsOK, GrantsOK, Starting
    <2>4. new.approval \in 0..Len(tool_approval')
        BY <1>2, <1>4, <1>8
    <2> QED
        BY Zenon, <1>1, <1>8, <2>2, <2>3, <2>4 DEF KnowsOK, AtRequest
<1>11. /\ spent' \subseteq [approval : Approvals, by : Calls \cup Resumers, decided_by : Deciders]
       /\ sends' \in [Calls -> 0..MaxAttempts] /\ sends' = sends /\ spent' = spent
       /\ tool_checkpoint' \in CheckpointRow
       /\ UNCHANGED <<tool_definition, tool_call, tool_reconciliation, operator, gated>>
    BY Zenon, <1>2 DEF TypeOK, callVars
<1> QED
    BY ZenonT(60), <1>1, <1>2, <1>4, <1>5, <1>6, <1>9, <1>10, <1>11, GrowWalk

\* What one attempt of a gated call decides: it is the last.
LEMMA GatedNeverRetried ==
    ASSUME NEW c \in Calls, Gated
    PROVE  ~ CanRetry(c)
BY Zenon DEF Gated, CanRetry, AutoExecutable

\* An attempt is recorded as something.
LEMMA OutcomeRecorded ==
    ASSUME NEW retryable \in BOOLEAN,
           NEW outcome \in {"ok", "timeout", "connection", "transient", "raised", "refused"}
    PROVE  WriteOutcome(outcome, retryable) \in CallStatuses
BY Zenon DEF WriteOutcome, CallStatuses

\* One attempt: a gated call has sent nothing before and has a grant.
LEMMA AttemptInv ==
    ASSUME Inv, NEW c \in Calls,
           NEW outcome \in {"ok", "timeout", "connection", "transient", "raised", "refused"},
           Attempt(c, outcome)
    PROVE  Inv'
<1> DEFINE attempts == actor[c].attempts + 1
           again == outcome \notin {"ok", "refused"} /\ CanRetry(c) /\ attempts < MaxAttempts
<1>1. c \in Actors /\ c \notin Resumers /\ c \notin Deciders
    BY Zenon, ActorKinds DEF Actors
<1>2. /\ TypeOK /\ GrantsOK /\ KnowsOK(c, actor[c]) /\ actor[c].at = "execute"
      /\ actor[c] \in Actor /\ actor \in [Actors -> Actor]
      /\ sends \in [Calls -> 0..MaxAttempts] /\ MaxAttempts \in Nat
      /\ sends' = [sends EXCEPT ![c] = @ + 1]
      /\ UNCHANGED <<storeVars, invokeKeeps, tool_approval, tool_call, failures>>
    BY Zenon, <1>1, ToolAssumption DEF Inv, AllKnow, Attempt, At, TypeOK
<1>3. /\ sends[c] = actor[c].attempts /\ actor[c].attempts < MaxAttempts
      /\ actor[c].attempts \in 0..MaxAttempts
      /\ Gated /\ gated => sends[c] = 0 /\ Granted(c)
    BY Zenon, <1>2 DEF KnowsOK, CallOK, Actor, Sent
<1>4. CanRetry(c) \in BOOLEAN
    BY Zenon DEF CanRetry
<1>5. WriteOutcome(outcome, CanRetry(c)) \in CallStatuses
    BY Zenon, <1>4, OutcomeRecorded
<1>6. PICK status \in CallStatuses : status = WriteOutcome(outcome, CanRetry(c))
    BY Zenon, <1>5
<1>7. PICK new : new = [actor[c] EXCEPT !.attempts = attempts,
                            !.want = IF again THEN @ ELSE status,
                            !.at = IF again THEN "execute" ELSE "record"]
    BY Zenon
<1>8. actor' = [actor EXCEPT ![c] = new]
    BY Zenon, <1>2, <1>6, <1>7 DEF Attempt
<1>9. Gated => ~ again
    BY Zenon, GatedNeverRetried
<1>10. again => attempts < MaxAttempts
    BY Zenon
<1> HIDE DEF again
<1>11. /\ new \in Actor /\ new.attempts = attempts /\ new.at \in {"execute", "record"}
       /\ new.at = "execute" => again
       /\ new.at = "record" => new.want \in CallStatuses
       /\ new.approval = actor[c].approval /\ new.release = actor[c].release
    <2>1. attempts \in 0..MaxAttempts /\ actor[c] \in Actor
        BY <1>2, <1>3
    <2> HIDE DEF attempts
    <2> QED
        BY ZenonT(60), <1>6, <1>7, <2>1 DEF Actor, Places
<1>12. /\ sends'[c] = attempts /\ sends' \in [Calls -> 0..MaxAttempts]
       /\ \A d \in Calls : d # c => sends'[d] = sends[d]
    BY <1>2, <1>3
<1>13. UNCHANGED <<tool_definition, tool_checkpoint, tool_reconciliation, operator, gated, spent>>
    BY Zenon, <1>2 DEF invokeKeeps
<1>14. KnowsOK(c, new)'
    <2>1. CallOK(c, new)'
        BY SMTT(40), <1>3, <1>9, <1>10, <1>11, <1>12, <1>13
           DEF CallOK, Granted, Gated, SideEffect, Sending, Sent
    <2> QED
        BY Zenon, <1>1, <1>2, <1>11, <1>13, <2>1 DEF KnowsOK, AtRequest, Starting
<1>15. TablesGrow /\ GrantsOK'
    BY <1>2, <1>13 DEF TablesGrow, GrantsOK, ApprovalSpentOnce, Gated, SideEffect, TypeOK
<1>16. /\ spent' \subseteq [approval : Approvals, by : Calls \cup Resumers, decided_by : Deciders]
       /\ tool_checkpoint' \in CheckpointRow
       /\ tool_approval' \in Seq(ApprovalRow) /\ Len(tool_approval') <= MaxApprovals
    BY Zenon, <1>2, <1>13 DEF TypeOK
<1> QED
    BY ZenonT(60), <1>1, <1>2, <1>8, <1>12, <1>13, <1>14, <1>15, <1>16, GrowWalk

\* consume wins: the request is closed and the grant is spent, by the release it was asked
\* for.  It was open, so nobody had spent it before.
LEMMA ConsumeWins ==
    ASSUME Inv, NEW a \in Calls \cup Resumers, Consume(a), Moves(actor[a].approval, {"APPROVED"})
    PROVE  Inv'
<1> DEFINE id == actor[a].approval
           place == IF a \in Calls THEN "replay" ELSE "save"
           grant == [approval |-> id, by |-> a, decided_by |-> tool_approval[id].decided_by]
<1>1. a \in Actors /\ a \notin Deciders /\ (a \in Resumers => a \notin Calls)
    BY Zenon, ActorKinds DEF Actors
<1>2. /\ TypeOK /\ GrantsOK /\ KnowsOK(a, actor[a]) /\ actor[a].at = "consume"
      /\ Transition(id, {"APPROVED"}, "CONSUMED", NoSubject)
      /\ spent' = spent \cup {grant} /\ Go(a, place)
      /\ UNCHANGED <<storeVars, callVars, tool_checkpoint, failures>>
    BY ZenonT(60), <1>1 DEF Inv, AllKnow, Consume, At
<1>3. /\ id \in 1..Len(tool_approval) /\ tool_approval[id].status = "APPROVED"
      /\ actor[a].release = tool_approval[id].release
    BY <1>2 DEF KnowsOK, AtRequest, Moves
<1>4. RowsMove /\ tool_approval'[id].status = "CONSUMED"
    BY ZenonT(60), <1>2, <1>3, TransitionMoves DEF ApprovalStatuses, Open
<1>5. /\ Len(tool_approval) \in Nat /\ Len(tool_approval) <= MaxApprovals /\ MaxApprovals \in Nat
      /\ DOMAIN tool_approval = 1..Len(tool_approval)
      /\ tool_approval' \in Seq(ApprovalRow) /\ Len(tool_approval') = Len(tool_approval)
      /\ DOMAIN tool_approval' = 1..Len(tool_approval)
      /\ \A k \in 1..Len(tool_approval) : tool_approval'[k].release = tool_approval[k].release
    BY <1>2, <1>4, ToolAssumption DEF RowsMove, TypeOK
<1>6. tool_approval[id].decided_by \in Deciders
    BY ZenonT(60), <1>2, <1>3, <1>5 DEF GrantsOK
<1>7. /\ grant.approval = id /\ grant.by = a
      /\ grant \in [approval : Approvals, by : Calls \cup Resumers, decided_by : Deciders]
    BY <1>3, <1>5, <1>6 DEF Approvals
<1> HIDE DEF grant
<1>8. \A g \in spent : g.approval # id
    BY ZenonT(60), <1>2, <1>3 DEF GrantsOK, Open
<1>9. TablesGrow
    <2>1. UNCHANGED <<gated, tool_definition, tool_checkpoint>>
        BY Zenon, <1>2 DEF callVars
    <2>2. (Gated <=> Gated') /\ spent \subseteq spent'
        BY Zenon, <1>2, <2>1 DEF Gated, SideEffect
    <2> QED
        BY <1>5, <2>1, <2>2 DEF TablesGrow
<1>10. GrantsOK'
    <2>1. \A g \in spent' : \/ g = grant
                            \/ /\ g \in spent /\ g.approval # id
                               /\ g.approval \in 1..Len(tool_approval)
                               /\ tool_approval[g.approval].status \notin Open
        BY ZenonT(60), <1>2, <1>5, <1>8 DEF GrantsOK
    <2>2. ApprovalSpentOnce'
        BY SMTT(40), <1>2, <1>7, <2>1 DEF GrantsOK, ApprovalSpentOnce
    <2>3. \A g \in spent' : /\ g.approval \in DOMAIN tool_approval'
                            /\ tool_approval'[g.approval].status \notin Open
        BY <1>3, <1>4, <1>5, <1>7, <2>1 DEF RowsMove, Open
    <2>4. \A k \in DOMAIN tool_approval' :
            tool_approval'[k].status = "APPROVED" => tool_approval'[k].decided_by \in Deciders
        BY Zenon, <1>4, <1>5 DEF RowsMove
    <2>5. /\ tool_checkpoint' = tool_checkpoint
          /\ tool_checkpoint.approval \in 0..Len(tool_approval)
          /\ tool_checkpoint.status # NoRow => tool_checkpoint.approval # 0
          /\ tool_checkpoint.status = "RESUMED" =>
                \E g \in spent : g.approval = tool_checkpoint.approval /\ g.by \in Resumers
        BY Zenon, <1>2 DEF GrantsOK
    <2> QED
        BY Zenon, <1>5, <2>2, <2>3, <2>4, <2>5, <1>2 DEF GrantsOK
<1>11. place \in {"replay", "save"} /\ place \in Places /\ (a \in Calls <=> place = "replay")
    BY Zenon DEF Places
<1> HIDE DEF place
<1>12. PICK new \in Actor :
            /\ actor' = [actor EXCEPT ![a] = new] /\ new.at = place
            /\ new.approval = id /\ new.release = actor[a].release
            /\ new.attempts = actor[a].attempts
    BY <1>1, <1>2, <1>11, GoRecord
<1>13. KnowsOK(a, new)'
    <2>1. UNCHANGED <<sends, gated, tool_definition, tool_checkpoint>>
        BY Zenon, <1>2 DEF callVars
    <2>2. ASSUME a \in Calls PROVE CallOK(a, new)'
        <3>1. CallOK(a, actor[a])
            BY Zenon, <1>2, <2>2 DEF KnowsOK
        <3>2. Granted(a)'
            BY ZenonT(60), <1>2, <1>7 DEF Granted
        <3> QED
            BY Zenon, <1>2, <1>11, <1>12, <2>1, <2>2, <3>1, <3>2
               DEF CallOK, Gated, SideEffect, Sending, Sent
    <2>3. ASSUME a \in Resumers PROVE ResumerOK(a, new)'
        <3>1. ResumerOK(a, actor[a])
            BY Zenon, <1>2, <2>3 DEF KnowsOK
        <3> QED
            BY <1>2, <1>7, <1>12, <2>1, <3>1 DEF ResumerOK, Starting
    <2>4. \A g \in spent' : g.by = a =>
            new.at \notin Starting /\ new.release = tool_approval'[g.approval].release
        <3>1. \A g \in spent : g.by = a => actor[a].release = tool_approval[g.approval].release
            BY Zenon, <1>2 DEF KnowsOK
        <3>2. \A g \in spent : g.approval \in 1..Len(tool_approval)
            BY Zenon, <1>2, <1>5 DEF GrantsOK
        <3>3. spent' = spent \cup {grant} /\ new.at \notin Starting
            BY Zenon, <1>2, <1>11, <1>12 DEF Starting
        <3>4. new.release = tool_approval'[grant.approval].release
            BY Zenon, <1>3, <1>5, <1>7, <1>12
        <3>5. \A g \in spent : g.by = a => new.release = tool_approval'[g.approval].release
            BY ZenonT(60), <1>5, <1>12, <3>1, <3>2
        <3> QED
            BY Zenon, <3>3, <3>4, <3>5
    <2>5. new.at \notin AtRequest /\ new.approval \in 0..Len(tool_approval')
        BY <1>3, <1>5, <1>11, <1>12 DEF AtRequest
    <2> QED
        BY <1>1, <1>11, <1>12, <2>2, <2>3, <2>4, <2>5 DEF KnowsOK
<1>14. /\ spent' \subseteq [approval : Approvals, by : Calls \cup Resumers, decided_by : Deciders]
       /\ sends' \in [Calls -> 0..MaxAttempts] /\ sends' = sends
       /\ tool_checkpoint' \in CheckpointRow
       /\ UNCHANGED <<tool_definition, tool_call, tool_reconciliation, operator, gated>>
    BY Zenon, <1>2, <1>7 DEF TypeOK, callVars
<1>15. \A g \in spent' : g.by # a => g \in spent
    BY Zenon, <1>2, <1>7
<1>16. new.at \notin Empty
    BY Zenon, <1>11, <1>12 DEF Empty
<1> QED
    BY ZenonT(60), <1>1, <1>2, <1>5, <1>9, <1>10, <1>12, <1>13, <1>14, <1>15, <1>16, GrowWalk

\* consume loses, and nothing is spent.
LEMMA ConsumeLoses ==
    ASSUME Inv, NEW a \in Calls \cup Resumers, Consume(a), ~ Moves(actor[a].approval, {"APPROVED"})
    PROVE  Inv'
<1>1. a \in Actors
    BY Zenon DEF Actors
<1>2. /\ TypeOK /\ KnowsOK(a, actor[a]) /\ actor[a].at = "consume"
      /\ UNCHANGED <<storeVars, callVars, tool_approval, tool_checkpoint, spent, failures>>
      /\ failures' \in 0..MaxFailures
      /\ Go(a, IF a \in Calls THEN "error" ELSE "give_back")
    BY Zenon, <1>1 DEF Inv, AllKnow, Consume, At, Transition, TypeOK
<1>3. CASE a \in Calls
    <2>1. PICK new \in Actor : actor' = [actor EXCEPT ![a] = new] /\ KnowsOK(a, new)
        BY Zenon, <1>2, <1>3, CallGo DEF Places, Starting, AtRequest, Sending, Sent
    <2> QED
        BY Zenon, <1>1, <1>2, <1>3, <2>1, PlainWalk, ActorKinds
<1>4. CASE a \notin Calls
    <2>1. PICK new \in Actor :
            actor' = [actor EXCEPT ![a] = new] /\ KnowsOK(a, new) /\ new.at = "give_back"
        BY Zenon, <1>2, <1>4, ResumerGo DEF Places, Starting, AtRequest
    <2> QED
        BY Zenon, <1>1, <1>2, <2>1, PlainWalk DEF Empty
<1> QED
    BY Zenon, <1>3, <1>4

\* park writes the checkpoint; no resume has begun before.
LEMMA ParkInv ==
    ASSUME Inv, NEW c \in Calls, Park(c)
    PROVE  Inv'
<1>1. c \in Actors /\ c \notin Resumers /\ c \notin Deciders
    BY Zenon, ActorKinds DEF Actors
<1>2. /\ TypeOK /\ GrantsOK /\ KnowsOK(c, actor[c]) /\ actor[c].at = "done" /\ actor[c] \in Actor
      /\ actor[c].approval # 0 /\ tool_checkpoint.status = NoRow
      /\ tool_checkpoint' = [status |-> "WAITING_APPROVAL", approval |-> actor[c].approval,
                             release |-> actor[c].release]
      /\ Go(c, "release")
      /\ UNCHANGED <<parkKeeps, session_lease, failures>>
    BY Zenon, <1>1 DEF Inv, AllKnow, Park, At, TypeOK
<1>3. UNCHANGED <<storeVars, callVars, tool_approval, spent, failures>>
    BY Zenon, <1>2 DEF parkKeeps, storeVars
<1>4. actor[c].approval \in 0..Len(tool_approval)
    BY Zenon, <1>2 DEF KnowsOK
<1>5. /\ tool_checkpoint' \in CheckpointRow /\ tool_checkpoint'.status = "WAITING_APPROVAL"
      /\ tool_checkpoint'.approval = actor[c].approval
    BY ZenonT(60), <1>2 DEF CheckpointRow, Actor
<1>6. TablesGrow
    BY <1>2, <1>3 DEF TablesGrow, Gated, SideEffect, callVars, TypeOK
<1>7. GrantsOK'
    BY Zenon, <1>2, <1>3, <1>4, <1>5 DEF GrantsOK, ApprovalSpentOnce, NoRow
<1>8. PICK new \in Actor : actor' = [actor EXCEPT ![c] = new] /\ KnowsOK(c, new)
    BY ZenonT(60), <1>2, CallGo DEF Places, Starting, AtRequest, Sending, Sent
<1>9. KnowsOK(c, new)'
    BY <1>1, <1>2, <1>3, <1>6, <1>8, KnowsStays DEF callVars, TypeOK
<1>10. /\ spent' \subseteq [approval : Approvals, by : Calls \cup Resumers, decided_by : Deciders]
       /\ sends' \in [Calls -> 0..MaxAttempts] /\ sends' = sends /\ spent' = spent
       /\ tool_approval' \in Seq(ApprovalRow) /\ Len(tool_approval') <= MaxApprovals
       /\ UNCHANGED <<tool_definition, tool_call, tool_reconciliation, operator, gated>>
    BY Zenon, <1>2, <1>3 DEF TypeOK, callVars
<1> QED
    BY ZenonT(60), <1>1, <1>3, <1>5, <1>6, <1>7, <1>8, <1>9, <1>10, GrowWalk

\* The checkpoint is marked resumed by who consumed its request.
LEMMA SaveResumedInv ==
    ASSUME Inv, NEW r \in Resumers, SaveResumed(r)
    PROVE  Inv'
<1>1. r \in Actors /\ r \notin Calls /\ r \notin Deciders
    BY Zenon, ActorKinds DEF Actors
<1>2. /\ TypeOK /\ GrantsOK /\ KnowsOK(r, actor[r]) /\ actor[r].at = "save"
      /\ tool_checkpoint' = [tool_checkpoint EXCEPT !.status = "RESUMED"]
      /\ Go(r, "done")
      /\ UNCHANGED <<parkKeeps, session_lease, failures>>
      /\ tool_checkpoint \in CheckpointRow
    BY Zenon, <1>1 DEF Inv, AllKnow, SaveResumed, At, TypeOK
<1>3. UNCHANGED <<storeVars, callVars, tool_approval, spent, failures>>
    BY Zenon, <1>2 DEF parkKeeps, storeVars
<1>4. /\ tool_checkpoint.status # NoRow /\ actor[r].approval = tool_checkpoint.approval
      /\ \E g \in spent : g.by = r /\ g.approval = actor[r].approval
    BY Zenon, <1>2 DEF KnowsOK, ResumerOK, Starting
<1>5. /\ tool_checkpoint' \in CheckpointRow /\ tool_checkpoint'.status = "RESUMED"
      /\ tool_checkpoint'.approval = tool_checkpoint.approval
    BY Zenon, <1>2 DEF CheckpointRow
<1>6. TablesGrow
    BY <1>2, <1>3, <1>5 DEF TablesGrow, Gated, SideEffect, callVars, TypeOK, NoRow
<1>7. GrantsOK'
    BY ZenonT(60), <1>2, <1>3, <1>4, <1>5 DEF GrantsOK, ApprovalSpentOnce
<1>8. PICK new \in Actor :
            /\ actor' = [actor EXCEPT ![r] = new] /\ new.at = "done"
            /\ new.approval = actor[r].approval /\ new.release = actor[r].release
            /\ new.want = actor[r].want /\ new.attempts = actor[r].attempts
    BY <1>1, <1>2, GoRecord DEF Places
<1>9. KnowsOK(r, new)
    BY <1>1, <1>2, <1>4, <1>8, GoesOn DEF Starting, AtRequest
<1>10. KnowsOK(r, new)'
    BY <1>1, <1>2, <1>3, <1>6, <1>9, KnowsStays DEF TypeOK
<1>11. /\ spent' \subseteq [approval : Approvals, by : Calls \cup Resumers, decided_by : Deciders]
       /\ sends' \in [Calls -> 0..MaxAttempts] /\ sends' = sends /\ spent' = spent
       /\ tool_approval' \in Seq(ApprovalRow) /\ Len(tool_approval') <= MaxApprovals
       /\ UNCHANGED <<tool_definition, tool_call, tool_reconciliation, operator, gated>>
    BY Zenon, <1>2, <1>3 DEF TypeOK, callVars
<1> QED
    BY ZenonT(60), <1>1, <1>3, <1>5, <1>6, <1>7, <1>8, <1>10, <1>11, GrowWalk DEF Empty

-----------------------------------------------------------------------------
(* Steps of no actor *)

\* Where no actor steps, all know what they knew.
LEMMA AllStillKnow ==
    ASSUME TypeOK, GrantsOK, AllKnow, TablesGrow, Len(tool_approval') \in Nat,
           UNCHANGED <<actor, sends, spent>>
    PROVE  AllKnow'
<1>1. ASSUME NEW a \in Actors PROVE KnowsOK(a, actor[a])'
    <2>1. PICK rec : rec = actor[a] /\ rec = actor'[a]
        BY Zenon
    <2>2. KnowsOK(a, rec)
        BY Zenon, <2>1 DEF AllKnow
    <2>3. KnowsOK(a, rec)'
        BY Zenon, <2>2, KnowsStays
    <2> QED
        BY Zenon, <2>1, <2>3
<1> QED
    BY Zenon, <1>1 DEF AllKnow

\* A tool is registered.  An unregistered one counts as gated, so no call is held to more.
LEMMA RegisterInv ==
    ASSUME Inv, NEW d \in Definitions, RegisterDefinition(d)
    PROVE  Inv'
<1>1. TypeOK /\ GrantsOK /\ AllKnow /\ LeasesOK /\ OperatorsOK
    BY Zenon DEF Inv
<1>2. /\ tool_definition = NoDefinition /\ tool_definition' = d
      /\ UNCHANGED <<storeVars, tool_approval, tool_call, tool_checkpoint, tool_reconciliation,
                     actor, operator, gated, sends, spent, failures>>
    BY Zenon DEF RegisterDefinition, InsertDefinition
<1>3. Gated
    BY Zenon, <1>2 DEF Gated, SideEffect, NoDefinition, AutoExecutable
<1>4. TablesGrow /\ Len(tool_approval') \in Nat
    BY <1>1, <1>2, <1>3 DEF TablesGrow, TypeOK
<1>5. AllKnow'
    BY Zenon, <1>1, <1>2, <1>4, AllStillKnow
<1>6. TypeOK'
    BY Zenon, <1>1, <1>2 DEF TypeOK, StoreTypeOK, storeVars
<1>7. GrantsOK' /\ LeasesOK' /\ OperatorsOK'
    BY Zenon, <1>1, <1>2 DEF GrantsOK, ApprovalSpentOnce, LeasesOK, NotHeld, OperatorsOK, storeVars
<1> QED
    BY Zenon, <1>5, <1>6, <1>7 DEF Inv

\* An operator checks and then stores a resolution; nobody else reads it.
LEMMA ResolveInv ==
    ASSUME Inv,
           \/ \E o \in Operators, c \in Calls, decision \in Resolutions :
                    ResolveCall(o, c, decision)
           \/ \E o \in Operators : ResolveInsert(o)
    PROVE  Inv'
<1>1. TypeOK /\ GrantsOK /\ AllKnow /\ LeasesOK /\ OperatorsOK
    BY Zenon DEF Inv
<1>2. UNCHANGED <<storeVars, tool_definition, tool_call, gated, sends,
                  tool_approval, tool_checkpoint, actor, spent, failures>>
    BY Zenon DEF ResolveCall, ResolveInsert
<1>3. TablesGrow /\ Len(tool_approval') \in Nat
    BY <1>1, <1>2 DEF TablesGrow, TypeOK, Gated, SideEffect
<1>4. AllKnow'
    BY Zenon, <1>1, <1>2, <1>3, AllStillKnow
<1> DEFINE OperatorRow == [at : {"idle", "insert", "answered", "absent"},
                           call : Calls \cup {NoCall}, want : Resolutions \cup {NoRow}]
           Resolved == /\ operator' \in [Operators -> OperatorRow] /\ OperatorsOK'
                       /\ tool_reconciliation' \in [Calls -> Resolutions \cup {NoRow}]
<1>5. /\ operator \in [Operators -> OperatorRow]
      /\ tool_reconciliation \in [Calls -> Resolutions \cup {NoRow}]
    BY Zenon, <1>1 DEF TypeOK
<1>6. Resolved
    <2>1. ASSUME NEW o \in Operators, NEW c \in Calls, NEW decision \in Resolutions,
                 ResolveCall(o, c, decision)
          PROVE  Resolved
        BY Zenon, <1>1, <1>5, <2>1 DEF ResolveCall, OperatorsOK
    <2>2. ASSUME NEW o \in Operators, ResolveInsert(o)
          PROVE  Resolved
        <3>1. operator[o].call \in Calls /\ operator[o].want \in Resolutions
            BY Zenon, <1>1, <2>2 DEF ResolveInsert, OperatorsOK
        <3>2. tool_reconciliation' \in [Calls -> Resolutions \cup {NoRow}]
            BY Zenon, <1>5, <2>2, <3>1 DEF ResolveInsert, InsertReconciliation
        <3>3. operator' \in [Operators -> OperatorRow] /\ OperatorsOK'
            BY <1>1, <1>5, <2>2 DEF ResolveInsert, OperatorsOK
        <3> QED
            BY Zenon, <3>2, <3>3
    <2> QED
        BY Zenon, <2>1, <2>2
<1>7. TypeOK'
    BY Zenon, <1>1, <1>2, <1>6 DEF TypeOK, StoreTypeOK, storeVars
<1>8. GrantsOK' /\ LeasesOK'
    BY Zenon, <1>1, <1>2 DEF GrantsOK, ApprovalSpentOnce, LeasesOK, NotHeld, storeVars
<1> QED
    BY Zenon, <1>4, <1>6, <1>7, <1>8 DEF Inv

\* Time passes: requests come closer to their end, and nobody gets a lease by it.
LEMMA TickInv ==
    ASSUME Inv, Tick
    PROVE  Inv'
<1>1. TypeOK /\ GrantsOK /\ AllKnow /\ LeasesOK /\ OperatorsOK
    BY Zenon DEF Inv
<1>2. /\ UNCHANGED <<agent_execution, agent_session, session_event, callVars, tool_checkpoint,
                     actor, spent, failures>>
      /\ UNCHANGED <<tool_definition, tool_call, tool_reconciliation, operator, gated, sends>>
    BY Zenon DEF Tick, callVars
<1>3. RowsMove
    <2>1. /\ tool_approval \in Seq(ApprovalRow) /\ Len(tool_approval) \in Nat
          /\ DOMAIN tool_approval = 1..Len(tool_approval)
        BY <1>1 DEF TypeOK
    <2>2. tool_approval' = [id \in 1..Len(tool_approval) |->
            [tool_approval[id] EXCEPT !.left = IF @ > 0 THEN @ - 1 ELSE 0]]
        BY Zenon, <2>1 DEF Tick
    <2>3. ASSUME NEW id \in 1..Len(tool_approval)
          PROVE  /\ tool_approval'[id] \in ApprovalRow
                 /\ tool_approval'[id].release = tool_approval[id].release
                 /\ tool_approval'[id].status = tool_approval[id].status
                 /\ tool_approval'[id].decided_by = tool_approval[id].decided_by
        <3>1. tool_approval[id] \in ApprovalRow
            BY <2>1
        <3>2. tool_approval'[id] =
                [tool_approval[id] EXCEPT !.left = IF @ > 0 THEN @ - 1 ELSE 0]
            BY Zenon, <2>2
        <3> QED
            BY <3>1, <3>2 DEF ApprovalRow
    <2>4. tool_approval' \in Seq(ApprovalRow) /\ Len(tool_approval') = Len(tool_approval)
        BY <2>1, <2>2, <2>3
    <2> QED
        BY Zenon, <1>1, <2>1, <2>3, <2>4 DEF RowsMove, GrantsOK
<1>4. TablesGrow /\ Len(tool_approval') \in Nat
    <2>1. Gated <=> Gated'
        BY ZenonT(60), <1>2 DEF Gated, SideEffect
    <2>2. /\ Len(tool_approval) \in Nat /\ Len(tool_approval') = Len(tool_approval)
          /\ \A id \in 1..Len(tool_approval) :
                tool_approval'[id].release = tool_approval[id].release
        BY <1>1, <1>3 DEF TypeOK, RowsMove
    <2> QED
        BY <1>2, <2>1, <2>2 DEF TablesGrow
<1>5. AllKnow'
    BY Zenon, <1>1, <1>2, <1>4, AllStillKnow
<1>6. GrantsOK'
    BY Zenon, <1>1, <1>2, <1>3, RowsKeepGrants
<1>7. /\ session_lease' \in [Sessions -> Lease]
      /\ \A s \in Sessions : /\ session_lease'[s].owner = session_lease[s].owner
                             /\ session_lease'[s].left > 0 => session_lease[s].left > 0
    <2>1. session_lease \in [Sessions -> Lease]
        BY Zenon, <1>1 DEF TypeOK, StoreTypeOK
    <2>2. ASSUME NEW s \in Sessions
          PROVE  /\ session_lease'[s] \in Lease
                 /\ session_lease'[s].owner = session_lease[s].owner
                 /\ session_lease'[s].left > 0 => session_lease[s].left > 0
        <3>1. session_lease[s] \in Lease
            BY Zenon, <2>1
        <3>2. session_lease'[s] = [session_lease[s] EXCEPT !.left = IF @ > 0 THEN @ - 1 ELSE 0]
            BY Zenon DEF Tick, AgeLeases
        <3> QED
            BY <3>1, <3>2 DEF Lease
    <2> QED
        BY Zenon, <2>2 DEF Tick, AgeLeases
<1>8. LeasesOK'
    BY Zenon, <1>1, <1>2, <1>7 DEF LeasesOK, NotHeld
<1>9. TypeOK'
    BY ZenonT(60), <1>1, <1>2, <1>3, <1>7 DEF TypeOK, StoreTypeOK, RowsMove
<1>10. OperatorsOK'
    BY Zenon, <1>1, <1>2 DEF OperatorsOK
<1> QED
    BY Zenon, <1>5, <1>6, <1>8, <1>9, <1>10 DEF Inv

-----------------------------------------------------------------------------
(* The invariant holds *)

\* It holds of a system that starts.
LEMMA InitInv == Init => Inv
<1> SUFFICES ASSUME Init PROVE Inv
    BY Zenon
<1>1. /\ tool_approval = << >> /\ spent = {} /\ tool_definition = NoDefinition
      /\ sends = [c \in Calls |-> 0]
      /\ tool_checkpoint = [status |-> NoRow, approval |-> 0, release |-> NoRelease]
      /\ tool_call = [c \in Calls |-> NoRow] /\ tool_reconciliation = [c \in Calls |-> NoRow]
      /\ gated \in BOOLEAN /\ failures = 0
    BY ZenonT(60) DEF Init
<1>2. Len(tool_approval) = 0 /\ DOMAIN tool_approval = {}
    BY <1>1
<1>3. PICK active :
        /\ actor = [a \in Actors |->
                [IdleActor EXCEPT !.at = IF a \in active THEN "idle" ELSE "absent"]]
        /\ operator = [o \in Operators |->
                [at |-> IF o \in active THEN "idle" ELSE "absent",
                 call |-> NoCall, want |-> NoRow]]
    BY Zenon DEF Init
<1>4. IdleActor \in Actor /\ IdleActor.approval = 0 /\ IdleActor.attempts = 0
    <2>1. BlankRow \in ApprovalRow
        BY Zenon DEF BlankRow, ApprovalRow, ApprovalStatuses
    <2>2. 0 \in 0..MaxAttempts
        BY ToolAssumption
    <2> QED
        BY Zenon, <2>1, <2>2 DEF IdleActor, Actor, Places
<1>5. ASSUME NEW a \in Actors
      PROVE  /\ actor[a] \in Actor /\ actor[a].at \in Starting
             /\ actor[a].approval = 0 /\ actor[a].attempts = 0
    BY <1>3, <1>4 DEF Actor, Places, Starting
<1>6. StoreTypeOK
    BY Zenon DEF Init, StoreTypeOK, Statuses, Lease
<1>7. TypeOK
    <2>1. tool_approval \in Seq(ApprovalRow) /\ Len(tool_approval) <= MaxApprovals
        BY <1>1, <1>2, ToolAssumption
    <2>2. actor \in [Actors -> Actor]
        BY ZenonT(60), <1>3, <1>5
    <2>3. /\ tool_checkpoint \in CheckpointRow /\ failures \in 0..MaxFailures
          /\ sends \in [Calls -> 0..MaxAttempts]
        BY <1>1, ToolAssumption DEF CheckpointRow
    <2> QED
        BY ZenonT(60), <1>1, <1>3, <1>6, <2>1, <2>2, <2>3 DEF TypeOK
<1>8. GrantsOK
    BY <1>1, <1>2 DEF GrantsOK, ApprovalSpentOnce, NoRow
<1>9. AllKnow
    <2>1. ASSUME NEW a \in Actors PROVE KnowsOK(a, actor[a])
        <3>1. a \in Calls => CallOK(a, actor[a])
            BY <1>1, <1>5 DEF CallOK, Starting
        <3>2. a \in Resumers => ResumerOK(a, actor[a])
            BY Zenon, <1>5 DEF ResumerOK, Starting
        <3>3. actor[a].at \notin {"expire", "consume"} \cup AtRequest
            BY Zenon, <1>5 DEF Starting, AtRequest
        <3>4. actor[a].approval \in 0..Len(tool_approval)
            BY <1>2, <1>5
        <3> QED
            BY ZenonT(60), <1>1, <1>5, <3>1, <3>2, <3>3, <3>4 DEF KnowsOK
    <2> QED
        BY Zenon, <2>1 DEF AllKnow
<1>10. LeasesOK
    BY DEF LeasesOK, NotHeld, Init
<1>11. OperatorsOK
    BY ZenonT(60), <1>3 DEF OperatorsOK
<1> QED
    BY ZenonT(60), <1>7, <1>8, <1>9, <1>10, <1>11 DEF Inv

\* Every step keeps it.
LEMMA NextInv == Inv /\ [Next]_vars => Inv'
<1> SUFFICES ASSUME Inv, [Next]_vars PROVE Inv'
    BY Zenon
<1>1. ASSUME NEW d \in Definitions, RegisterTool(d) \/ RegisterMcpServer(d) PROVE Inv'
    BY Zenon, <1>1, RegisterInv DEF RegisterTool, RegisterMcpServer
<1>2. ASSUME NEW c \in Calls, CallStep(c) PROVE Inv'
    <2>1. CASE GovernedInvoke(c)
        <3>1. PICK s \in Sessions, release \in Releases, valid \in BOOLEAN :
                AcquireLease(s, c) /\ Invoke(c, "conversation", release, FALSE, valid)
            BY Zenon, <2>1 DEF GovernedInvoke
        <3> QED
            BY Zenon, <3>1, InvokeInv
    <2>2. CASE DirectInvoke(c)
        <3>1. PICK release \in Releases, keyed \in DirectKeyed, valid \in BOOLEAN :
                Invoke(c, "direct", release, keyed, valid) /\ UNCHANGED session_lease
            BY Zenon, <2>2 DEF DirectInvoke
        <3>2. keyed \in BOOLEAN
            BY Zenon, ToolAssumption
        <3> QED
            BY Zenon, <3>1, <3>2, InvokeInv
    <2>3. CASE FindApproved(c) \/ FindPending(c)
        BY Zenon, <2>3, FindInv
    <2>4. CASE ExpireFound(c)
        BY Zenon, <2>4, ExpireFoundInv
    <2>5. CASE CreateApproval(c)
        BY Zenon, <2>5, CreateApprovalInv
    <2>6. CASE FindReplay(c)
        BY Zenon, <2>6, FindReplayInv
    <2>7. CASE Record(c)
        BY Zenon, <2>7, RecordInv
    <2>8. ASSUME NEW outcome \in {"ok", "timeout", "connection", "transient", "raised", "refused"},
                 Attempt(c, outcome)
          PROVE  Inv'
        BY Zenon, <2>8, AttemptInv
    <2>9. CASE Park(c)
        BY Zenon, <2>9, ParkInv
    <2>10. CASE ParkRelease(c)
        BY Zenon, <2>10, ParkReleaseInv
    <2> QED
        BY ZenonT(60), <1>2, <2>1, <2>2, <2>3, <2>4, <2>5, <2>6, <2>7, <2>8, <2>9, <2>10 DEF CallStep
<1>3. ASSUME NEW r \in Resumers, ResumerStep(r) PROVE Inv'
    BY Zenon, <1>3, ResumeInv, ResumeLeaseInv, SaveResumedInv, ConsumeFailsInv DEF ResumerStep
<1>4. ASSUME NEW a \in Actors, Get(a) \/ ExpireByGet(a) PROVE Inv'
    BY Zenon, <1>4, GetInv, ExpireByGetInv
<1>5. ASSUME NEW a \in Calls \cup Resumers, Consume(a) PROVE Inv'
    BY Zenon, <1>5, ConsumeWins, ConsumeLoses
<1>6. ASSUME NEW d \in Deciders, Decide(d) PROVE Inv'
    BY Zenon, <1>6, DecideInv
<1>7. ASSUME NEW d \in Deciders, NEW id \in Approvals, NEW want \in {"APPROVED", "DENIED"},
             DecideApproval(d, id, want)
      PROVE  Inv'
    BY Zenon, <1>7, DecideApprovalInv
<1>8. CASE \/ \E o \in Operators, c \in Calls, decision \in Resolutions :
                    ResolveCall(o, c, decision)
           \/ \E o \in Operators : ResolveInsert(o)
    BY Zenon, <1>8, ResolveInv
<1>9. CASE Tick
    BY Zenon, <1>9, TickInv
<1>10. CASE UNCHANGED vars
    <2>1. UNCHANGED <<storeVars, callVars, tool_approval, tool_checkpoint, actor, spent, failures>>
        BY Zenon, <1>10 DEF vars, toolVars
    <2>2. UNCHANGED <<agent_execution, agent_session, session_event, session_lease,
                      tool_definition, tool_call, tool_reconciliation, operator, gated, sends>>
        BY Zenon, <2>1 DEF storeVars, callVars
    <2>3. TypeOK /\ GrantsOK /\ AllKnow /\ LeasesOK /\ OperatorsOK
        BY Zenon DEF Inv
    <2>4. TablesGrow /\ Len(tool_approval') \in Nat
        BY <2>1, <2>2, <2>3 DEF TablesGrow, TypeOK, Gated, SideEffect
    <2>5. AllKnow'
        BY Zenon, <2>1, <2>2, <2>3, <2>4, AllStillKnow
    <2>6. TypeOK'
        BY Zenon, <2>1, <2>2, <2>3 DEF TypeOK, StoreTypeOK
    <2>7. GrantsOK' /\ LeasesOK' /\ OperatorsOK'
        BY Zenon, <2>1, <2>2, <2>3 DEF GrantsOK, ApprovalSpentOnce, LeasesOK, NotHeld, OperatorsOK
    <2> QED
        BY Zenon, <2>5, <2>6, <2>7 DEF Inv
<1> QED
    BY SMTT(40), <1>1, <1>2, <1>3, <1>4, <1>5, <1>6, <1>7, <1>8, <1>9, <1>10 DEF Next

\* The invariant, of every behaviour.
THEOREM Invariance == Spec => []Inv
<1> QED
    BY InitInv, NextInv, PTL DEF Spec

-----------------------------------------------------------------------------
(* What follows *)

\* However many calls and resumes race for an approval, one at most goes ahead on it
\* (the compare-and-swap of consume), although expired rows are written back from stale
\* copies (find_approved, find_pending).
THEOREM SingleUse == Spec => []ApprovalSpentOnce
<1>1. Inv => ApprovalSpentOnce
    BY Zenon DEF Inv, GrantsOK
<1> QED
    BY <1>1, Invariance, PTL

\* A grant is spent by an execution of the release it was asked for (the binding check of
\* consume), and what is spent stays bound to it.
THEOREM GrantsBound == Spec => []GrantBoundToRelease
<1>1. Inv => GrantBoundToRelease
    BY Zenon DEF Inv, TypeOK, AllKnow, KnowsOK, GrantBoundToRelease, Actors
<1> QED
    BY <1>1, Invariance, PTL

\* A resume that failed, at whichever await, does not hold the lease of the Session
\* (resume gives it back on every exception).
THEOREM FailureHoldsNothing == Spec => []FailedResumeHoldsNothing
<1>1. Inv => FailedResumeHoldsNothing
    BY Zenon DEF Inv, LeasesOK, NotHeld, Empty, FailedResumeHoldsNothing, At
<1> QED
    BY <1>1, Invariance, PTL

\* The stored resolution of a call of unknown outcome is final: the insert does nothing
\* where there is one, whoever checked before (reconciliation.py, resolve).
THEOREM ResolutionsFinal == Spec => ResolutionFinal
<1>1. ASSUME Inv, [Next]_vars, NEW c \in Calls, tool_reconciliation[c] # NoRow
      PROVE  tool_reconciliation'[c] = tool_reconciliation[c]
    <2>1. tool_reconciliation \in [Calls -> Resolutions \cup {NoRow}]
        BY Zenon, <1>1 DEF Inv, TypeOK
    <2>2. CASE \E o \in Operators : ResolveInsert(o)
        BY Zenon, <1>1, <2>1, <2>2 DEF ResolveInsert, InsertReconciliation
    <2>3. CASE UNCHANGED vars
        BY Zenon, <2>3 DEF vars, toolVars, callVars
    <2>4. CASE Next /\ ~ \E o \in Operators : ResolveInsert(o)
        <3>1. CASE \E d \in Definitions : RegisterTool(d) \/ RegisterMcpServer(d)
            BY Zenon, <3>1 DEF RegisterTool, RegisterMcpServer, RegisterDefinition
        <3>2. CASE \E d \in Calls : CallStep(d)
            <4>1. PICK d \in Calls : CallStep(d)
                BY Zenon, <3>2
            <4>2. CASE GovernedInvoke(d) \/ DirectInvoke(d)
                BY Zenon, <4>2 DEF GovernedInvoke, DirectInvoke, Invoke, invokeKeeps
            <4>3. CASE FindApproved(d) \/ FindPending(d) \/ ExpireFound(d) \/ CreateApproval(d)
                       \/ FindReplay(d)
                BY Zenon, <4>3 DEF FindApproved, FindPending, ExpireFound, CreateApproval, FindReplay,
                   callVars
            <4>4. ASSUME NEW outcome, Attempt(d, outcome) \/ Record(d)
                  PROVE  UNCHANGED tool_reconciliation
                BY Zenon, <4>4 DEF Attempt, Record, invokeKeeps
            <4>5. CASE Park(d) \/ ParkRelease(d)
                BY Zenon, <4>5 DEF Park, ParkRelease, parkKeeps, callVars
            <4> QED
                BY Zenon, <4>1, <4>2, <4>3, <4>4, <4>5 DEF CallStep
        <3>3. CASE \E r \in Resumers : ResumerStep(r)
            BY Zenon, <3>3 DEF ResumerStep, Resume, ResumeAcquire, GiveBack, SaveResumed, ConsumeFails,
               callVars, parkKeeps
        <3>4. CASE \/ \E a \in Actors : Get(a) \/ ExpireByGet(a)
                   \/ \E a \in Calls \cup Resumers : Consume(a)
                   \/ \E d \in Deciders : Decide(d)
                   \/ \E d \in Deciders, id \in Approvals, want \in {"APPROVED", "DENIED"} :
                            DecideApproval(d, id, want)
            BY Zenon, <3>4 DEF Get, ExpireByGet, Consume, Decide, DecideApproval, callVars
        <3>5. CASE \E o \in Operators, d \in Calls, decision \in Resolutions :
                        ResolveCall(o, d, decision)
            BY Zenon, <3>5 DEF ResolveCall
        <3>6. CASE Tick
            BY Zenon, <3>6 DEF Tick, callVars
        <3> QED
            BY Zenon, <2>4, <3>1, <3>2, <3>3, <3>4, <3>5, <3>6 DEF Next
    <2> QED
        BY Zenon, <1>1, <2>2, <2>3, <2>4
<1>2. Inv /\ [Next]_vars => [\A c \in Calls : tool_reconciliation[c] # NoRow
            => tool_reconciliation'[c] = tool_reconciliation[c]]_vars
    BY Zenon, <1>1
<1> QED
    BY <1>2, Invariance, PTL DEF Spec, ResolutionFinal

-----------------------------------------------------------------------------
(* Counting grants *)

INSTANCE FiniteSetTheorems

\* A gated call makes no backend.execute that a grant of its own does not pay for: it sends
\* once, after its consume, and is never retried (_execute_with_contract).
THEOREM SendsPaid == Spec => []SendsArePaidFor
<1>1. ASSUME Inv PROVE SendsArePaidFor
    <2> SUFFICES ASSUME Gated, gated, NEW c \in Calls
                 PROVE  sends[c] <= Cardinality({g \in spent : g.by = c})
        BY ZenonT(60) DEF SendsArePaidFor
    <2> DEFINE own == {g \in spent : g.by = c}
    <2>1. sends[c] \in Nat /\ sends[c] <= 1 /\ (sends[c] = 1 => Granted(c))
        <3>1. CallOK(c, actor[c])
            BY ZenonT(60), <1>1 DEF Inv, AllKnow, KnowsOK, Actors
        <3>2. sends \in [Calls -> 0..MaxAttempts] /\ MaxAttempts \in Nat
            BY <1>1, ToolAssumption DEF Inv, TypeOK
        <3> QED
            BY <3>1, <3>2 DEF CallOK
    <2>2. IsFiniteSet(own)
        <3> DEFINE asked == [g \in own |-> g.approval]
        <3>1. Len(tool_approval) \in Nat /\ DOMAIN tool_approval = 1..Len(tool_approval)
            BY <1>1 DEF Inv, TypeOK
        <3>2. asked \in [own -> 1..Len(tool_approval)]
            BY ZenonT(60), <1>1, <3>1 DEF Inv, GrantsOK
        <3>3. IsInjective(asked)
            BY Zenon, <1>1 DEF Inv, GrantsOK, ApprovalSpentOnce, IsInjective
        <3>4. asked \in Injection(own, 1..Len(tool_approval))
            BY ZenonT(60), <3>2, <3>3 DEF Injection
        <3>5. IsFiniteSet(1..Len(tool_approval))
            BY <3>1, FS_Interval
        <3> QED
            BY ZenonT(60), <3>4, <3>5, FS_Injection
    <2>3. Cardinality(own) \in Nat
        BY ZenonT(60), <2>2, FS_CardinalityType
    <2>4. CASE sends[c] = 0
        BY <2>3, <2>4
    <2>5. CASE sends[c] = 1
        <3>1. own # {}
            BY ZenonT(60), <2>1, <2>5 DEF Granted
        <3>2. Cardinality(own) # 0
            BY ZenonT(60), <2>2, <3>1, FS_EmptySet
        <3> QED
            BY <2>3, <2>5, <3>2
    <2> QED
        BY <2>1, <2>4, <2>5
<1> QED
    BY <1>1, Invariance, PTL

\* A checkpoint is resumed by one worker at most, and on a grant: all who read it waiting
\* go for the same request, which one of them consumes.
THEOREM CheckpointResumedOnce == Spec => []ResumedOnce
<1>1. ASSUME Inv PROVE ResumedOnce
    <2> DEFINE done == {r \in Resumers : At(r, "done")}
    <2>1. ASSUME NEW q \in done, NEW r \in done PROVE q = r
        <3>1. ResumerOK(q, actor[q]) /\ ResumerOK(r, actor[r])
            BY ZenonT(60), <1>1 DEF Inv, AllKnow, KnowsOK, Actors
        <3>2. PICK g \in spent : g.by = q /\ g.approval = tool_checkpoint.approval
            BY Zenon, <3>1 DEF ResumerOK, At, Starting
        <3>3. PICK h \in spent : h.by = r /\ h.approval = tool_checkpoint.approval
            BY Zenon, <3>1 DEF ResumerOK, At, Starting
        <3> QED
            BY SMTT(40), <1>1, <3>2, <3>3 DEF Inv, GrantsOK, ApprovalSpentOnce
    <2>2. done = {} \/ \E r \in done : done = {r}
        BY ZenonT(60), <2>1
    <2> HIDE DEF done
    <2>3. Cardinality(done) <= 1
        <3>1. CASE done = {}
            BY <3>1, FS_EmptySet
        <3>2. ASSUME NEW r, done = {r} PROVE Cardinality(done) = 1
            BY ZenonT(60), <3>2, FS_Singleton
        <3> QED
            BY SMTT(40), <2>2, <3>1, <3>2
    <2>4. tool_checkpoint.status = "RESUMED" =>
            \E g \in spent : g.approval = tool_checkpoint.approval /\ g.by \in Resumers
        BY Zenon, <1>1 DEF Inv, GrantsOK
    <2> QED
        BY ZenonT(60), <2>3, <2>4 DEF ResumedOnce, done
<1> QED
    BY <1>1, Invariance, PTL

=============================================================================
