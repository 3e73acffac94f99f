--------------------------- MODULE IMMemoryProofs ---------------------------
(***************************************************************************)
(* Memory of IM subjects for every number of sessions, events, replicas,   *)
(* faults and administrators' commands.                                    *)
(*                                                                         *)
(* A projection is committed before it is acknowledged and may be repeated *)
(* from an older snapshot; what it has written only grows (Keeps), so that *)
(* a repetition finds it.  A command is applied to the version it was      *)
(* decided on, and versions of a row only grow while it lives.             *)
(***************************************************************************)
EXTENDS IMMemory, TLAPS

-----------------------------------------------------------------------------
(* Associations *)

\* An administrator's command has associated the two subjects.
Associated == \E k \in Keys : command[k].op = "associate" /\ applied[k] > 0

\* A command took effect once if its key is in the ledger, and not at all before.  One that
\* was decided on the row as it is now saw a version that the row has or had, and had if it
\* was applied.
CommandOK(k) ==
    /\ applied[k] = IF k \in ledger THEN 1 ELSE 0
    /\ command[k].op = "none" => k \notin ledger
    /\ command[k].op \in {"reverify", "revoke"} =>
        /\ command[k].born <= association.born
        /\ command[k].born = association.born /\ association.version > 0 =>
            /\ command[k].if_match <= association.version
            /\ k \in ledger => command[k].if_match < association.version

AssociationInv ==
    /\ AssociationTypeOK
    /\ \A k \in Keys : CommandOK(k)
    /\ association.version > 0 => Associated
    /\ NoLostUpdate

\* No command was given, and there is no row.
LEMMA AssociationStart == AssociationInit => AssociationInv
<1> SUFFICES ASSUME AssociationInit PROVE AssociationInv
    BY Zenon
<1> USE DEF AssociationInit
<1>1. AssociationTypeOK
    BY AssociationAssumption DEF AssociationTypeOK, Command, Operations
<1>2. \A k \in Keys : CommandOK(k)
    BY DEF CommandOK
<1>3. ~ (association.version > 0)
    OBVIOUS
<1>4. NoLostUpdate
    BY DEF NoLostUpdate
<1> QED
    BY Zenon, <1>1, <1>2, <1>3, <1>4 DEF AssociationInv

\* A command is decided on the row as it is.
LEMMA DecideInv ==
    ASSUME AssociationInv, NEW k \in Keys, NEW op \in Operations \ {"none"}, Decide(k, op)
    PROVE  AssociationInv'
<1>1. /\ association \in [version : Nat, born : Nat] /\ command \in [Keys -> Command]
      /\ ledger \subseteq Keys /\ applied \in [Keys -> Nat]
      /\ UNCHANGED <<association, ledger, applied>>
    BY Zenon DEF AssociationInv, AssociationTypeOK, Decide
<1>2. association.version \in Nat /\ association.born \in Nat /\ 0 \in 0..MaxRuns
    BY <1>1, AssociationAssumption
<1>3. PICK new \in Command : new = [op |-> op, if_match |-> association.version,
                                    born |-> association.born, runs |-> 0]
    BY Zenon, <1>2 DEF Command
<1>4. /\ new.op = op /\ new.if_match = association.version /\ new.born = association.born
      /\ new.op # "none"
    BY Zenon, <1>3
<1>5. command' = [command EXCEPT ![k] = new]
    BY Zenon, <1>3 DEF Decide
<1>6. \A q \in Keys : command'[q] = IF q = k THEN new ELSE command[q]
    BY Zenon, <1>1, <1>5
<1>7. \A q \in Keys : CommandOK(q)
    BY Zenon DEF AssociationInv
<1>8. k \notin ledger /\ applied[k] = 0
    BY <1>7 DEF Decide, CommandOK
<1>9. AssociationTypeOK'
    BY Zenon, <1>1, <1>5 DEF AssociationTypeOK
<1>10. ASSUME NEW q \in Keys PROVE CommandOK(q)'
    BY <1>1, <1>2, <1>4, <1>6, <1>7, <1>8 DEF CommandOK
<1>11. association'.version > 0 => Associated'
    BY <1>1, <1>6, <1>8 DEF AssociationInv, Associated
<1>12. NoLostUpdate'
    BY <1>1, <1>6, <1>8 DEF AssociationInv, NoLostUpdate
<1> QED
    BY Zenon, <1>9, <1>10, <1>11, <1>12 DEF AssociationInv

\* A command that is applied meets the version it was decided on, which moves on; a new row
\* is in the life of no earlier command.
LEMMA ExecuteInv ==
    ASSUME AssociationInv, NEW k \in Keys, Execute(k)
    PROVE  AssociationInv'
<1>1. /\ association \in [version : Nat, born : Nat] /\ command \in [Keys -> Command]
      /\ ledger \subseteq Keys /\ applied \in [Keys -> Nat]
    BY Zenon DEF AssociationInv, AssociationTypeOK
<1>2. /\ association.version \in Nat /\ association.born \in Nat
      /\ \A q \in Keys : /\ command[q] \in Command /\ applied[q] \in Nat
                         /\ command[q].op \in Operations
                         /\ command[q].if_match \in Nat /\ command[q].born \in Nat
    BY <1>1 DEF Command
<1>3. command[k].runs + 1 \in 0..MaxRuns
    BY <1>2, AssociationAssumption DEF Execute, Command
<1>4. PICK new \in Command : new = [command[k] EXCEPT !.runs = command[k].runs + 1]
    BY Zenon, <1>2, <1>3 DEF Command
<1>5. new.op = command[k].op /\ new.if_match = command[k].if_match /\ new.born = command[k].born
    BY Zenon, <1>2, <1>4 DEF Command
<1>6. command' = [command EXCEPT ![k] = new]
    BY Zenon, <1>4 DEF Execute
<1>7. /\ \A q \in Keys : /\ command'[q].op = command[q].op
                         /\ command'[q].if_match = command[q].if_match
                         /\ command'[q].born = command[q].born
      /\ command' \in [Keys -> Command]
    BY Zenon, <1>1, <1>5, <1>6
<1>8. \A q \in Keys : CommandOK(q)
    BY Zenon DEF AssociationInv
<1>9. CASE UNCHANGED <<association, ledger, applied>>
    <2>1. AssociationTypeOK'
        BY Zenon, <1>1, <1>7, <1>9 DEF AssociationTypeOK
    <2>2. ASSUME NEW q \in Keys PROVE CommandOK(q)'
        BY <1>7, <1>8, <1>9 DEF CommandOK
    <2>3. association'.version > 0 => Associated'
        BY <1>7, <1>9 DEF AssociationInv, Associated
    <2>4. NoLostUpdate'
        BY <1>7, <1>9 DEF AssociationInv, NoLostUpdate
    <2> QED
        BY Zenon, <2>1, <2>2, <2>3, <2>4 DEF AssociationInv
<1>10. CASE /\ ~Replayed(k) /\ Matches(k)
            /\ association' = Written(command[k].op)
            /\ ledger' = ledger \cup {k}
            /\ applied' = [applied EXCEPT ![k] = @ + 1]
    <2>1. k \notin ledger /\ applied[k] = 0 /\ command[k].op # "none"
        BY <1>8, <1>10 DEF Replayed, CommandOK, Execute
    <2>2. /\ applied' \in [Keys -> Nat] /\ applied'[k] = 1
          /\ \A q \in Keys : q # k => applied'[q] = applied[q]
        BY <1>1, <1>2, <1>10, <2>1
    <2>3. association' \in [version : Nat, born : Nat]
        BY <1>1, <1>2, <1>10, <2>1 DEF Written, Operations
    <2>4. AssociationTypeOK'
        BY Zenon, <1>1, <1>7, <1>10, <2>2, <2>3 DEF AssociationTypeOK
    <2>5. CASE command[k].op = "associate"
        <3>1. association'.version = 1 /\ association'.born = association.born + 1
            BY <1>10, <2>5 DEF Written
        <3>2. ASSUME NEW q \in Keys PROVE CommandOK(q)'
            BY <1>2, <1>7, <1>8, <1>10, <2>2, <2>5, <3>1 DEF CommandOK
        <3>3. Associated'
            BY <1>7, <2>2, <2>5 DEF Associated
        <3>4. \A q \in Keys : command[q].op \in {"reverify", "revoke"} =>
                command'[q].born # association'.born
            BY <1>2, <1>7, <1>8, <3>1 DEF CommandOK
        <3>5. NoLostUpdate'
            <4> SUFFICES ASSUME NEW j \in Keys, NEW q \in Keys, applied'[j] > 0,
                                command'[j].op # "associate", command'[j].born = association'.born
                         PROVE  FALSE
                BY Zenon DEF NoLostUpdate
            <4>1. command[j].op = "none"
                BY Zenon, <1>2, <1>7, <3>4 DEF Operations
            <4>2. j # k /\ applied[j] = 0
                BY <1>8, <2>5, <4>1 DEF CommandOK
            <4> QED
                BY <2>2, <4>2
        <3> QED
            BY Zenon, <2>4, <3>2, <3>3, <3>5 DEF AssociationInv
    <2>6. CASE command[k].op # "associate"
        <3>1. /\ command[k].op \in {"reverify", "revoke"}
              /\ association.version > 0 /\ association.version = command[k].if_match
              /\ association'.born = association.born
              /\ association'.version \in {0, association.version + 1}
            BY <1>1, <1>2, <1>10, <2>1, <2>6 DEF Matches, Written, Operations
        <3>2. ASSUME NEW q \in Keys PROVE CommandOK(q)'
            BY <1>2, <1>7, <1>8, <1>10, <2>1, <2>2, <3>1 DEF CommandOK
        <3>3. Associated'
            BY <1>7, <2>2, <3>1, <2>1 DEF AssociationInv, Associated
        <3>4. ASSUME NEW j \in Keys, j # k, applied[j] > 0, command[j].op # "associate",
                     command[j].born = association.born
              PROVE  command[j].if_match < command[k].if_match
            <4>1. j \in ledger /\ command[j].op \in {"reverify", "revoke"}
                BY <1>2, <1>8, <3>4 DEF CommandOK, Operations
            <4> QED
                BY <1>8, <3>1, <3>4, <4>1 DEF CommandOK
        <3>5. NoLostUpdate'
            <4> SUFFICES ASSUME NEW j \in Keys, NEW q \in Keys, j # q,
                                applied'[j] > 0, applied'[q] > 0,
                                command[j].op # "associate", command[q].op # "associate",
                                command[j].born = association.born,
                                command[q].born = association.born
                         PROVE  command[j].if_match # command[q].if_match
                BY <1>7, <3>1 DEF NoLostUpdate
            <4>1. CASE j # k /\ q # k
                BY Zenon, <2>2, <4>1 DEF AssociationInv, NoLostUpdate
            <4>2. CASE j = k
                BY <1>2, <2>2, <3>4, <4>2
            <4>3. CASE q = k
                BY <1>2, <2>2, <3>4, <4>3
            <4> QED
                BY Zenon, <4>1, <4>2, <4>3
        <3> QED
            BY Zenon, <2>4, <3>2, <3>3, <3>5 DEF AssociationInv
    <2> QED
        BY Zenon, <2>5, <2>6
<1> QED
    BY Zenon, <1>9, <1>10 DEF Execute

\* The invariant of the associations is about their variables only.
LEMMA AssociationQuiet ==
    ASSUME AssociationInv, UNCHANGED associationVars
    PROVE  AssociationInv'
BY Zenon DEF AssociationInv, AssociationTypeOK, CommandOK, Associated, NoLostUpdate,
    associationVars

\* Every command, decided or sent, keeps the invariant.
LEMMA AssociationStep == ASSUME AssociationInv, AssociationNext PROVE AssociationInv'
BY Zenon, DecideInv, ExecuteInv DEF AssociationNext

-----------------------------------------------------------------------------
(* Projections *)

\* Memory comes from direct conversations of a subject, and the outbox tells of each once.
MemoryOK(r) ==
    /\ memory[r].state # "NONE" => Projects(r[1])
    /\ published[<<r, "CREATED">>] = IF memory[r].state = "NONE" THEN 0 ELSE 1
    /\ published[<<r, "CORRECTED">>] = IF memory[r].state = "CORRECTED" THEN 1 ELSE 0

\* A replica works on a committed record that has an attempt left.  What it has read is of
\* the record's range and was not swept before, unless it is marked stale; what it is going
\* to acknowledge is projected.
ReplicaOK(x) ==
    /\ x.at # "idle" => /\ x.record \in Records /\ x.record[2] \in Committed(x.record[1])
                        /\ x.attempts < MaxAttempts
    /\ x.at = "read" => /\ x.text \subseteq 1..x.record[2]
                        /\ x.stale \/ x.text \cap swept[x.record[1]] = {}
    /\ x.at = "ack" => Projected(x.record)

\* What was swept is blank.
SweptOK == \A s \in Sessions : \A k \in swept[s] : k \in Committed(s) /\ ~event[s][k]

ProjectionInv ==
    /\ ProjectionTypeOK
    /\ DeliveredIsProjected
    /\ SweptOK
    /\ \A r \in Records : MemoryOK(r)
    /\ \A w \in Replicas : ReplicaOK(replica[w])

\* The invariant's types by name.
LEMMA Types ==
    ASSUME ProjectionInv
    PROVE  /\ scope \in [Sessions -> Scopes] /\ owner \in [Sessions -> Owners]
           /\ event \in [Sessions -> Seq(BOOLEAN)] /\ delivery \in [Records -> Delivery]
           /\ summary \in [Sessions -> Summary] /\ memory \in [Records -> Memory]
           /\ published \in [Records \X Reasons -> Nat] /\ replica \in [Replicas -> Replica]
           /\ faults \in Nat /\ swept \in [Sessions -> SUBSET Nat] /\ bound \in Bounds
           /\ \A s \in Sessions : /\ Len(event[s]) \in Nat /\ Committed(s) = 1..Len(event[s])
                                  /\ Len(event[s]) <= MaxVersion
                                  /\ summary[s] \in Summary /\ summary[s].version \in Nat
                                  /\ summary[s].version <= Len(event[s])
                                  /\ summary[s].text \subseteq 1..summary[s].version
           /\ \A r \in Records : /\ delivery[r] \in Delivery /\ memory[r] \in Memory
                                 /\ delivery[r].attempts \in 0..MaxAttempts
           /\ \A w \in Replicas : /\ replica[w] \in Replica /\ ReplicaOK(replica[w])
                                  /\ replica[w].attempts \in Nat
           /\ MaxVersion \in Nat /\ MaxAttempts \in Nat \ {0}
<1>1. MaxVersion \in Nat /\ MaxAttempts \in Nat \ {0}
    BY Zenon, ProjectionAssumption
<1>2. /\ event \in [Sessions -> Seq(BOOLEAN)] /\ summary \in [Sessions -> Summary]
      /\ delivery \in [Records -> Delivery] /\ memory \in [Records -> Memory]
      /\ replica \in [Replicas -> Replica]
    BY Zenon DEF ProjectionInv, ProjectionTypeOK
<1>3. \A s \in Sessions : Len(event[s]) \in Nat /\ Committed(s) = 1..Len(event[s])
    BY <1>2 DEF Committed
<1>4. \A s \in Sessions : summary[s] \in Summary /\ summary[s].version \in Nat
    BY Zenon, <1>2 DEF Summary
<1>5. \A r \in Records : /\ delivery[r] \in Delivery /\ memory[r] \in Memory
                         /\ delivery[r].attempts \in 0..MaxAttempts
    BY Zenon, <1>2 DEF Delivery
<1>6. \A w \in Replicas : replica[w] \in Replica /\ replica[w].attempts \in Nat
    BY <1>1, <1>2 DEF Replica
<1> QED
    BY Zenon, <1>1, <1>2, <1>3, <1>4, <1>5, <1>6 DEF ProjectionInv, ProjectionTypeOK

\* A record is of a session and ends at one of its possible versions.
LEMMA RecordIs ==
    ASSUME NEW r \in Records
    PROVE  r[1] \in Sessions /\ r[2] \in 1..MaxVersion /\ r[2] \in Nat
BY ProjectionAssumption DEF Records

\* Events, summaries and memories are not taken back.
Keeps ==
    /\ UNCHANGED <<scope, owner, swept>>
    /\ \A s \in Sessions : /\ Committed(s) \subseteq Committed(s)'
                           /\ summary'[s].version \in Nat
                           /\ summary[s].version <= summary'[s].version
    /\ \A r \in Records : memory[r].state # "NONE" => memory'[r].state # "NONE"

\* What is projected stays projected.
LEMMA ProjectedKeeps ==
    ASSUME ProjectionInv, Keeps, NEW r \in Records, Projected(r)
    PROVE  Projected(r)'
<1>1. r[1] \in Sessions /\ r[2] \in Nat
    BY Zenon, RecordIs
<1>2. /\ summary[r[1]].version \in Nat /\ summary'[r[1]].version \in Nat
      /\ summary[r[1]].version <= summary'[r[1]].version
    BY Zenon, <1>1, Types DEF Keeps
<1>3. summary'[r[1]].version >= r[2]
    BY <1>1, <1>2 DEF Projected
<1>4. Projects(r[1])' = Projects(r[1])
    BY Zenon DEF Projects, MemoryPolicy, Keeps
<1> QED
    BY Zenon, <1>3, <1>4 DEF Projected, Keeps

\* Nothing that a replica counts on is taken from it.
LEMMA ReplicaKeeps ==
    ASSUME ProjectionInv, Keeps, NEW x \in Replica, ReplicaOK(x)
    PROVE  ReplicaOK(x)'
<1>1. x.at # "idle" => x.record \in Records /\ x.record[2] \in Committed(x.record[1])'
    BY Zenon, RecordIs DEF ReplicaOK, Keeps
<1>2. x.at = "ack" => Projected(x.record)'
    BY Zenon, ProjectedKeeps DEF ReplicaOK
<1> QED
    BY Zenon, <1>1, <1>2 DEF ReplicaOK, Keeps

\* A step of replica w: what it leaves in hand is all right, and the others keep theirs.
LEMMA MoveReplica ==
    ASSUME ProjectionInv, Keeps, NEW w \in Replicas, NEW new \in Replica,
           replica' = [replica EXCEPT ![w] = new], ReplicaOK(new)'
    PROVE  /\ replica' \in [Replicas -> Replica]
           /\ \A q \in Replicas : ReplicaOK(replica[q])'
<1>1. replica \in [Replicas -> Replica]
    BY Zenon, Types
<1>2. replica' \in [Replicas -> Replica]
    BY Zenon, <1>1
<1>3. replica'[w] = new /\ \A q \in Replicas : q # w => replica'[q] = replica[q]
    BY Zenon, <1>1
<1>4. ASSUME NEW q \in Replicas PROVE ReplicaOK(replica[q])'
    <2>1. CASE q = w
        BY Zenon, <1>3, <2>1 DEF ReplicaOK
    <2>2. CASE q # w
        <3>1. PICK x \in Replica : x = replica[q] /\ ReplicaOK(x)
            BY Zenon, Types
        <3>2. ReplicaOK(x)'
            BY Zenon, <3>1, ReplicaKeeps
        <3> QED
            BY Zenon, <1>3, <2>2, <3>1, <3>2 DEF ReplicaOK
    <2> QED
        BY Zenon, <2>1, <2>2
<1> QED
    BY Zenon, <1>2, <1>4

\* A step of replica w that touches no table.
LEMMA QuietReplica ==
    ASSUME ProjectionInv, NEW w \in Replicas, NEW new \in Replica,
           replica' = [replica EXCEPT ![w] = new], ReplicaOK(new), faults' \in Nat,
           UNCHANGED <<setup, event, delivery, summary, memory, published, swept>>
    PROVE  ProjectionInv'
<1>1. Keeps
    <2>1. \A s \in Sessions : summary[s].version \in Nat /\ summary[s].version <= summary[s].version
        BY Types
    <2> QED
        BY Zenon, <2>1 DEF Keeps, setup, Committed
<1>2. ReplicaOK(new)'
    BY Zenon, <1>1, ReplicaKeeps
<1>3. /\ replica' \in [Replicas -> Replica]
      /\ \A q \in Replicas : ReplicaOK(replica[q])'
    BY Zenon, <1>1, <1>2, MoveReplica
<1>4. ProjectionTypeOK'
    BY Zenon, <1>3 DEF ProjectionInv, ProjectionTypeOK, setup
<1>5. \A r \in Records : MemoryOK(r)'
    BY Zenon DEF ProjectionInv, MemoryOK, Projects, MemoryPolicy, setup
<1>6. DeliveredIsProjected'
    BY Zenon, <1>1, ProjectedKeeps DEF ProjectionInv, DeliveredIsProjected
<1>7. SweptOK'
    BY Zenon DEF ProjectionInv, SweptOK, Committed
<1> QED
    BY Zenon, <1>3, <1>4, <1>5, <1>6, <1>7 DEF ProjectionInv

\* A replica that has nothing in hand.
LEMMA IdleOK ==
    ASSUME ProjectionInv
    PROVE  Idle \in Replica /\ Idle.at = "idle" /\ ReplicaOK(Idle)
<1>1. 0 \in 0..MaxAttempts
    BY Types
<1>2. Idle.at = "idle"
    BY Zenon DEF Idle
<1>3. Idle \in Replica
    BY Zenon, <1>1 DEF Idle, Replica
<1> QED
    BY Zenon, <1>2, <1>3 DEF ReplicaOK

\* run_once finds a record that has an attempt left.
LEMMA ChooseInv ==
    ASSUME ProjectionInv, NEW w \in Replicas, NEW r \in Records, ChooseRecord(w, r)
    PROVE  ProjectionInv'
<1>1. delivery[r].attempts \in 0..MaxAttempts /\ delivery[r].attempts < MaxAttempts
    BY Zenon, Types DEF ChooseRecord
<1>2. PICK new : new = [Idle EXCEPT !.at = "chosen", !.record = r, !.attempts = delivery[r].attempts]
    BY Zenon
<1>3. new \in Replica /\ new.at = "chosen" /\ new.record = r /\ new.attempts = delivery[r].attempts
    BY Zenon, <1>1, <1>2, IdleOK DEF Replica
<1>4. replica' = [replica EXCEPT ![w] = new]
    BY Zenon, <1>2 DEF ChooseRecord
<1>5. ReplicaOK(new)
    BY Zenon, <1>1, <1>3 DEF ReplicaOK, ChooseRecord
<1> QED
    BY Zenon, <1>3, <1>4, <1>5, QuietReplica, Types DEF ChooseRecord

\* It locks the outbox row, or skips it.
LEMMA LockInv ==
    ASSUME ProjectionInv, NEW w \in Replicas, LockRecord(w)
    PROVE  ProjectionInv'
<1>1. replica[w] \in Replica /\ ReplicaOK(replica[w])
    BY Zenon, Types
<1>2. PICK new : new = IF replica[w].record \in Locked THEN Idle
                       ELSE [replica[w] EXCEPT !.at = "locked"]
    BY Zenon
<1>3. new \in Replica /\ ReplicaOK(new)
    <2>1. CASE new = Idle
        BY Zenon, <2>1, IdleOK
    <2>2. CASE new = [replica[w] EXCEPT !.at = "locked"]
        <3>1. /\ new \in Replica /\ new.at = "locked" /\ new.record = replica[w].record
              /\ new.attempts = replica[w].attempts
            BY Zenon, <1>1, <2>2 DEF Replica
        <3> QED
            BY Zenon, <1>1, <3>1 DEF ReplicaOK, LockRecord
    <2> QED
        BY Zenon, <1>2, <2>1, <2>2
<1>4. replica' = [replica EXCEPT ![w] = new]
    BY Zenon, <1>2 DEF LockRecord
<1> QED
    BY Zenon, <1>3, <1>4, QuietReplica, Types DEF LockRecord

\* handle reads what was not swept.
LEMMA ReadInv ==
    ASSUME ProjectionInv, NEW w \in Replicas, HandleRead(w)
    PROVE  ProjectionInv'
<1>1. /\ replica[w] \in Replica /\ ReplicaOK(replica[w]) /\ replica \in [Replicas -> Replica]
      /\ replica[w].at = "locked"
    BY Zenon, Types DEF HandleRead
<1>2. PICK r \in Records : r = replica[w].record /\ r[2] \in Committed(r[1])
    BY Zenon, <1>1 DEF ReplicaOK
<1>3. PICK text : text = SourceEvents(r[1], r[2])
    BY Zenon
<1>4. r[1] \in Sessions /\ r[2] \in Nat
    BY Zenon, RecordIs
<1>5. text \subseteq 1..r[2] /\ text \in SUBSET Nat /\ text \cap swept[r[1]] = {}
    BY <1>3, <1>4 DEF SourceEvents, ProjectionInv, SweptOK
<1>6. PICK new : new = [replica[w] EXCEPT !.at = "read", !.text = text]
    BY Zenon
<1>7. /\ new \in Replica /\ new.at = "read" /\ new.record = r /\ new.text = text
      /\ new.attempts = replica[w].attempts
    BY Zenon, <1>1, <1>2, <1>5, <1>6 DEF Replica
<1>8. replica' = [replica EXCEPT ![w] = new]
    BY Zenon, <1>1, <1>2, <1>3, <1>6 DEF HandleRead
<1>9. ReplicaOK(new)
    BY Zenon, <1>1, <1>2, <1>5, <1>7 DEF ReplicaOK
<1> QED
    BY Zenon, <1>7, <1>8, <1>9, QuietReplica, Types DEF HandleRead

\* handle raises: nothing is left of what was read.
LEMMA FailsInv ==
    ASSUME ProjectionInv, NEW w \in Replicas, HandleFails(w)
    PROVE  ProjectionInv'
<1>1. /\ replica[w] \in Replica /\ ReplicaOK(replica[w]) /\ replica \in [Replicas -> Replica]
      /\ replica[w].at \in {"locked", "read"}
    BY Zenon, Types DEF HandleFails
<1>2. PICK new : new = [replica[w] EXCEPT !.at = "failed", !.text = {}, !.stale = FALSE]
    BY Zenon
<1>3. /\ new \in Replica /\ new.at = "failed" /\ new.record = replica[w].record
      /\ new.attempts = replica[w].attempts
    BY Zenon, <1>1, <1>2 DEF Replica
<1>4. replica' = [replica EXCEPT ![w] = new]
    BY Zenon, <1>1, <1>2 DEF HandleFails
<1>5. ReplicaOK(new)
    BY Zenon, <1>1, <1>3 DEF ReplicaOK
<1>6. faults' \in Nat
    BY Types DEF HandleFails
<1> QED
    BY Zenon, <1>3, <1>4, <1>5, <1>6, QuietReplica DEF HandleFails

\* A replica dies.
LEMMA DiesInv ==
    ASSUME ProjectionInv, NEW w \in Replicas, ReplicaDies(w)
    PROVE  ProjectionInv'
<1>1. faults' \in Nat
    BY Types DEF ReplicaDies
<1>2. PICK new \in Replica : new = Idle /\ ReplicaOK(new)
    BY Zenon, IdleOK
<1> QED
    BY Zenon, <1>1, <1>2, QuietReplica DEF ReplicaDies, Release

-----------------------------------------------------------------------------
(* The steps that write *)

\* A step of replica w that writes its delivery row and is done.
LEMMA SettleInv ==
    ASSUME ProjectionInv, NEW w \in Replicas, Release(w), NEW r \in Records,
           NEW row \in Delivery, delivery' = [delivery EXCEPT ![r] = row],
           row.status = "SUCCEEDED" => Projected(r),
           UNCHANGED <<setup, event, summary, memory, published, faults, swept>>
    PROVE  ProjectionInv'
<1>1. Keeps
    <2>1. \A s \in Sessions : summary[s].version \in Nat /\ summary[s].version <= summary[s].version
        BY Types
    <2> QED
        BY Zenon, <2>1 DEF Keeps, setup, Committed
<1>2. PICK new \in Replica : new = Idle /\ ReplicaOK(new)
    BY Zenon, IdleOK
<1>3. ReplicaOK(new)'
    BY Zenon, <1>1, <1>2, ReplicaKeeps
<1>4. /\ replica' \in [Replicas -> Replica]
      /\ \A q \in Replicas : ReplicaOK(replica[q])'
    BY Zenon, <1>1, <1>2, <1>3, MoveReplica DEF Release
<1>5. /\ delivery' \in [Records -> Delivery]
      /\ \A q \in Records : delivery'[q] = IF q = r THEN row ELSE delivery[q]
    BY Zenon, Types
<1>6. ProjectionTypeOK'
    BY Zenon, <1>4, <1>5 DEF ProjectionInv, ProjectionTypeOK, setup
<1>7. \A q \in Records : MemoryOK(q)'
    BY Zenon DEF ProjectionInv, MemoryOK, Projects, MemoryPolicy, setup
<1>8. DeliveredIsProjected'
    BY Zenon, <1>1, <1>5, ProjectedKeeps DEF ProjectionInv, DeliveredIsProjected
<1>9. SweptOK'
    BY Zenon DEF ProjectionInv, SweptOK, Committed
<1> QED
    BY Zenon, <1>4, <1>6, <1>7, <1>8, <1>9 DEF ProjectionInv

\* What is acknowledged was committed before.
LEMMA AcknowledgeInv ==
    ASSUME ProjectionInv, NEW w \in Replicas, Acknowledge(w)
    PROVE  ProjectionInv'
<1>1. /\ replica[w].at = "ack" /\ ReplicaOK(replica[w]) /\ replica[w].attempts \in Nat
      /\ MaxAttempts \in Nat
    BY Zenon, Types DEF Acknowledge
<1>2. PICK r \in Records : r = replica[w].record /\ Projected(r)
    BY Zenon, <1>1 DEF ReplicaOK
<1>3. replica[w].attempts + 1 \in 0..MaxAttempts
    BY <1>1 DEF ReplicaOK
<1>4. PICK row \in Delivery : row = [status |-> "SUCCEEDED", attempts |-> replica[w].attempts + 1]
    BY Zenon, <1>3 DEF Delivery
<1>5. delivery' = [delivery EXCEPT ![r] = row]
    BY Zenon, <1>2, <1>4 DEF Acknowledge
<1> QED
    BY Zenon, <1>2, <1>5, SettleInv DEF Acknowledge

\* A failure is recorded unless the row says SUCCEEDED.
LEMMA FailureInv ==
    ASSUME ProjectionInv, NEW w \in Replicas, RecordFailure(w)
    PROVE  ProjectionInv'
<1>1. /\ replica[w].at = "failed" /\ ReplicaOK(replica[w]) /\ replica[w].attempts \in Nat
      /\ MaxAttempts \in Nat
    BY Zenon, Types DEF RecordFailure
<1>2. PICK r \in Records : r = replica[w].record
    BY Zenon, <1>1 DEF ReplicaOK
<1>3. PICK n \in 0..MaxAttempts : n = replica[w].attempts + 1
    BY <1>1 DEF ReplicaOK
<1>4. PICK row : row = IF Checked(delivery[r]) THEN [status |-> FailureStatus(n), attempts |-> n]
                       ELSE delivery[r]
    BY Zenon
<1>5. row \in Delivery /\ (row.status = "SUCCEEDED" => Projected(r))
    <2>1. CASE Checked(delivery[r])
        <3>1. FailureStatus(n) \in {"DEAD_LETTER", "PENDING"}
            BY Zenon DEF FailureStatus
        <3>2. row = [status |-> FailureStatus(n), attempts |-> n]
            BY Zenon, <1>4, <2>1
        <3> QED
            BY Zenon, <3>1, <3>2 DEF Delivery
    <2>2. CASE ~ Checked(delivery[r])
        BY Zenon, <1>4, <2>2, Types DEF ProjectionInv, DeliveredIsProjected
    <2> QED
        BY Zenon, <2>1, <2>2
<1>6. delivery' = [delivery EXCEPT ![r] = row]
    BY Zenon, <1>2, <1>3, <1>4 DEF RecordFailure
<1> QED
    BY Zenon, <1>5, <1>6, SettleInv DEF RecordFailure

INSTANCE SequenceTheorems

\* A turn commits its events: the session gets one more, and the others stay.
LEMMA CommitInv ==
    ASSUME ProjectionInv, NEW s \in Sessions, CommitEvents(s)
    PROVE  ProjectionInv'
<1>1. /\ event \in [Sessions -> Seq(BOOLEAN)] /\ event[s] \in Seq(BOOLEAN)
      /\ Len(event[s]) \in Nat /\ MaxVersion \in Nat
    BY Zenon, Types
<1>2. bound.versions \in 0..MaxVersion
    BY Zenon, Types, ProjectionAssumption
<1>3. Len(event[s]) + 1 <= MaxVersion
    BY <1>1, <1>2 DEF CommitEvents
<1>4. PICK new \in Seq(BOOLEAN) : new = Append(event[s], TRUE)
    BY Zenon, <1>1, AppendProperties
<1>5. /\ Len(new) = Len(event[s]) + 1
      /\ \A k \in 1..Len(event[s]) : new[k] = event[s][k]
    <2>1. TRUE \in BOOLEAN
        BY Zenon
    <2>2. /\ Len(Append(event[s], TRUE)) = Len(event[s]) + 1
          /\ \A k \in 1..Len(event[s]) : Append(event[s], TRUE)[k] = event[s][k]
        BY ZenonT(40), <1>1, <2>1, AppendProperties
    <2> QED
        BY Zenon, <1>4, <2>2
<1>6. event' = [event EXCEPT ![s] = new]
    BY Zenon, <1>4 DEF CommitEvents
<1>7. /\ event' \in [Sessions -> Seq(BOOLEAN)]
      /\ event'[s] = new /\ \A q \in Sessions : q # s => event'[q] = event[q]
    BY Zenon, <1>1, <1>6
<1>8. \A q \in Sessions : /\ Len(event'[q]) \in Nat /\ Len(event'[q]) <= MaxVersion
                          /\ Len(event[q]) <= Len(event'[q])
                          /\ Committed(q)' = 1..Len(event'[q])
                          /\ \A k \in 1..Len(event[q]) : event'[q][k] = event[q][k]
    <2>1. \A q \in Sessions : Len(event[q]) \in Nat /\ Len(event[q]) <= MaxVersion
        BY Zenon, Types
    <2>2. \A q \in Sessions : Len(event'[q]) = IF q = s THEN Len(event[s]) + 1 ELSE Len(event[q])
        BY Zenon, <1>5, <1>7
    <2>3. \A q \in Sessions : \A k \in 1..Len(event[q]) : event'[q][k] = event[q][k]
        BY Zenon, <1>5, <1>7
    <2>4. \A q \in Sessions : Committed(q)' = 1..Len(event'[q])
        BY <1>7 DEF Committed
    <2>5. \A q \in Sessions : /\ Len(event'[q]) \in Nat /\ Len(event'[q]) <= MaxVersion
                              /\ Len(event[q]) <= Len(event'[q])
        BY <1>3, <2>1, <2>2
    <2> QED
        BY Zenon, <2>3, <2>4, <2>5
<1>9. Keeps
    <2>1. \A q \in Sessions : summary[q].version \in Nat /\ summary[q].version <= summary[q].version
        BY Types
    <2>2. \A q \in Sessions : Committed(q) \subseteq Committed(q)'
        <3>1. \A q \in Sessions : /\ Len(event[q]) \in Nat /\ Len(event'[q]) \in Nat
                                  /\ Len(event[q]) <= Len(event'[q])
            BY Zenon, <1>8, Types
        <3>2. \A q \in Sessions : 1..Len(event[q]) \subseteq 1..Len(event'[q])
            BY <3>1
        <3> QED
            BY Zenon, <1>8, <3>2, Types
    <2> QED
        BY Zenon, <2>1, <2>2 DEF Keeps, CommitEvents, setup
<1>10. \A q \in Replicas : ReplicaOK(replica[q])'
    <2> SUFFICES ASSUME NEW q \in Replicas PROVE ReplicaOK(replica[q])'
        BY Zenon
    <2>1. PICK x \in Replica : x = replica[q] /\ ReplicaOK(x)
        BY Zenon, Types
    <2>2. ReplicaOK(x)'
        BY Zenon, <1>9, <2>1, ReplicaKeeps
    <2> QED
        BY Zenon, <2>1, <2>2 DEF ReplicaOK, CommitEvents
<1>11. ProjectionTypeOK'
    <2>1. \A q \in Sessions : summary[q].version <= Len(event'[q])
        BY <1>8, Types
    <2> QED
        BY Zenon, <1>7, <1>8, <2>1 DEF ProjectionInv, ProjectionTypeOK, CommitEvents, setup
<1>12. \A r \in Records : MemoryOK(r)'
    BY Zenon DEF ProjectionInv, MemoryOK, Projects, MemoryPolicy, setup, CommitEvents
<1>13. DeliveredIsProjected'
    BY Zenon, <1>9, ProjectedKeeps DEF ProjectionInv, DeliveredIsProjected, CommitEvents
<1>14. SweptOK'
    <2> SUFFICES ASSUME NEW q \in Sessions, NEW k \in swept[q]
                 PROVE  k \in Committed(q)' /\ ~event'[q][k]
        BY Zenon DEF SweptOK, CommitEvents
    <2>1. k \in 1..Len(event[q]) /\ ~event[q][k]
        BY Zenon, Types DEF ProjectionInv, SweptOK
    <2> QED
        BY Zenon, <1>8, <1>9, <2>1, Types DEF Keeps
<1> QED
    BY Zenon, <1>10, <1>11, <1>12, <1>13, <1>14 DEF ProjectionInv

\* An operator corrects a valid memory, and the outbox tells of it.
LEMMA CorrectInv ==
    ASSUME ProjectionInv, NEW r \in Records, CorrectMemory(r)
    PROVE  ProjectionInv'
<1>1. /\ memory[r].state = "VALID" /\ memory[r] \in Memory
      /\ memory \in [Records -> Memory] /\ published \in [Records \X Reasons -> Nat]
    BY Zenon, Types DEF CorrectMemory
<1>2. PICK new : new = [memory[r] EXCEPT !.state = "CORRECTED"]
    BY Zenon
<1>3. new \in Memory /\ new.state = "CORRECTED"
    BY Zenon, <1>1, <1>2 DEF Memory
<1>4. memory' = [memory EXCEPT ![r] = new]
    BY Zenon, <1>2 DEF CorrectMemory
<1>5. memory' \in [Records -> Memory] /\ \A q \in Records : memory'[q] = IF q = r THEN new ELSE memory[q]
    BY Zenon, <1>1, <1>3, <1>4
<1>6. <<r, "CORRECTED">> \in Records \X Reasons /\ published[<<r, "CORRECTED">>] = 0
    BY Zenon, <1>1 DEF ProjectionInv, MemoryOK, Reasons
<1>7. published' = [published EXCEPT ![<<r, "CORRECTED">>] = 1]
    BY <1>6 DEF CorrectMemory, Publish
<1>8. /\ published' \in [Records \X Reasons -> Nat]
      /\ \A p \in Records \X Reasons : published'[p] = IF p = <<r, "CORRECTED">> THEN 1 ELSE published[p]
    BY Zenon, <1>1, <1>7
<1>9. Keeps
    <2>1. \A s \in Sessions : summary[s].version \in Nat /\ summary[s].version <= summary[s].version
        BY Types
    <2> QED
        BY Zenon, <1>3, <1>5, <2>1 DEF Keeps, setup, Committed, CorrectMemory
<1>10. \A q \in Replicas : ReplicaOK(replica[q])'
    <2> SUFFICES ASSUME NEW q \in Replicas PROVE ReplicaOK(replica[q])'
        BY Zenon
    <2>1. PICK x \in Replica : x = replica[q] /\ ReplicaOK(x)
        BY Zenon, Types
    <2>2. ReplicaOK(x)'
        BY Zenon, <1>9, <2>1, ReplicaKeeps
    <2> QED
        BY Zenon, <2>1, <2>2 DEF ReplicaOK, CorrectMemory
<1>11. ProjectionTypeOK'
    BY Zenon, <1>5, <1>8 DEF ProjectionInv, ProjectionTypeOK, CorrectMemory, setup
<1>12. ASSUME NEW q \in Records PROVE MemoryOK(q)'
    <2>1. /\ published'[<<q, "CREATED">>] = published[<<q, "CREATED">>]
          /\ published'[<<q, "CORRECTED">>] = IF q = r THEN 1 ELSE published[<<q, "CORRECTED">>]
        BY <1>8 DEF Reasons
    <2>2. Projects(q[1])' = Projects(q[1])
        BY Zenon, <1>9 DEF Projects, MemoryPolicy, Keeps
    <2> QED
        BY Zenon, <1>1, <1>3, <1>5, <2>1, <2>2 DEF ProjectionInv, MemoryOK
<1>13. DeliveredIsProjected'
    BY Zenon, <1>9, ProjectedKeeps DEF ProjectionInv, DeliveredIsProjected, CorrectMemory
<1>14. SweptOK'
    BY Zenon DEF ProjectionInv, SweptOK, Committed, CorrectMemory
<1> QED
    BY Zenon, <1>10, <1>11, <1>12, <1>13, <1>14 DEF ProjectionInv

\* A projection is committed: the summary covers the record, and its memory is there.
LEMMA ProjectInv ==
    ASSUME ProjectionInv, NEW w \in Replicas, HandleCommit(w)
    PROVE  ProjectionInv'
<1>1. /\ replica[w] \in Replica /\ ReplicaOK(replica[w]) /\ replica \in [Replicas -> Replica]
      /\ replica[w].at = "read"
    BY Zenon, Types DEF HandleCommit
<1>2. PICK r \in Records : /\ r = replica[w].record /\ r[2] \in Committed(r[1])
                           /\ replica[w].text \subseteq 1..r[2]
    BY Zenon, <1>1 DEF ReplicaOK
<1>3. PICK s \in Sessions : s = r[1]
    BY Zenon, RecordIs
<1>4. PICK v \in Nat : v = r[2]
    BY Zenon, RecordIs
<1>5. PICK text : text = replica[w].text
    BY Zenon
<1>6. UNCHANGED <<scope, owner, bound, event, delivery, faults, swept>>
    BY Zenon DEF HandleCommit, setup
<1>7. PICK row : row = IF summary[s].version < v
                       THEN [version |-> v, text |-> SummaryProjection(text)] ELSE summary[s]
    BY Zenon
<1>8. summary' = [summary EXCEPT ![s] = row]
    BY Zenon, <1>2, <1>3, <1>4, <1>5, <1>7 DEF HandleCommit, UpsertSummary
<1>9. v \in 1..Len(event[s]) /\ Len(event[s]) \in Nat
    BY Zenon, <1>2, <1>3, <1>4, Types
<1>10. /\ row \in Summary /\ row.version \in Nat /\ v <= row.version
       /\ summary[s].version <= row.version /\ row.version <= Len(event[s])
       /\ row.text \subseteq 1..row.version
    <2>1. /\ summary[s] \in Summary /\ summary[s].version \in Nat
          /\ summary[s].version <= Len(event[s])
          /\ summary[s].text \subseteq 1..summary[s].version
        BY Zenon, Types
    <2>2. CASE summary[s].version < v
        <3>1. row = [version |-> v, text |-> SummaryProjection(text)]
            BY Zenon, <1>7, <2>2
        <3>2. SummaryProjection(text) \subseteq 1..v
            BY Zenon, <1>2, <1>4, <1>5 DEF SummaryProjection
        <3>3. SummaryProjection(text) \subseteq Nat
            BY <3>2
        <3>4. row \in Summary /\ row.version = v /\ row.text \subseteq 1..v
            BY Zenon, <3>1, <3>2, <3>3 DEF Summary
        <3> QED
            BY <1>9, <2>1, <2>2, <3>4
    <2>3. CASE ~ (summary[s].version < v)
        BY <1>7, <2>1, <2>3
    <2> QED
        BY Zenon, <2>2, <2>3
<1>11. /\ summary' \in [Sessions -> Summary]
       /\ summary'[s] = row /\ \A q \in Sessions : q # s => summary'[q] = summary[q]
    BY Zenon, <1>8, <1>10, Types
<1>12. /\ memory' \in [Records -> Memory] /\ published' \in [Records \X Reasons -> Nat]
       /\ \A q \in Records : memory[q].state # "NONE" => memory'[q].state # "NONE"
       /\ Projects(s) => memory'[r].state # "NONE"
       /\ \A q \in Records : MemoryOK(q)'
    <2>1. /\ memory \in [Records -> Memory] /\ published \in [Records \X Reasons -> Nat]
          /\ \A q \in Records : MemoryOK(q)
        BY Zenon, Types DEF ProjectionInv
    <2>2. \A q \in Sessions : Projects(q)' = Projects(q)
        BY Zenon, <1>6 DEF Projects, MemoryPolicy
    <2>3. CASE ~ (Projects(s) /\ memory[r].state = "NONE")
        <3>1. UNCHANGED <<memory, published>>
            BY Zenon, <1>2, <1>3, <2>3 DEF HandleCommit, InsertMemory
        <3> QED
            BY Zenon, <2>1, <2>2, <2>3, <3>1, RecordIs DEF MemoryOK
    <2>4. CASE Projects(s) /\ memory[r].state = "NONE"
        <3>1. PICK has \in BOOLEAN : has = (r[2] \in text)
            <4>1. (r[2] \in text) \in BOOLEAN
                OBVIOUS
            <4> QED
                BY Zenon, <4>1
        <3>2. PICK new \in Memory : new = [state |-> "VALID", text |-> has]
            BY Zenon DEF Memory
        <3>3. memory' = [memory EXCEPT ![r] = new] /\ Publish(r, "CREATED")
            BY Zenon, <1>2, <1>3, <1>5, <2>4, <3>1, <3>2 DEF HandleCommit, InsertMemory
        <3>4. /\ memory' \in [Records -> Memory] /\ new.state = "VALID"
              /\ \A q \in Records : memory'[q] = IF q = r THEN new ELSE memory[q]
            BY Zenon, <2>1, <3>2, <3>3
        <3>5. <<r, "CREATED">> \in Records \X Reasons /\ published[<<r, "CREATED">>] = 0
            BY Zenon, <2>1, <2>4 DEF MemoryOK, Reasons
        <3>6. published' = [published EXCEPT ![<<r, "CREATED">>] = 1]
            BY <3>3, <3>5 DEF Publish
        <3>7. /\ published' \in [Records \X Reasons -> Nat]
              /\ \A p \in Records \X Reasons :
                    published'[p] = IF p = <<r, "CREATED">> THEN 1 ELSE published[p]
            BY Zenon, <2>1, <3>6
        <3>8. ASSUME NEW q \in Records PROVE MemoryOK(q)'
            <4>1. /\ published'[<<q, "CORRECTED">>] = published[<<q, "CORRECTED">>]
                  /\ published'[<<q, "CREATED">>] = IF q = r THEN 1 ELSE published[<<q, "CREATED">>]
                BY <3>7 DEF Reasons
            <4>2. Projects(q[1])' = Projects(q[1])
                BY Zenon, <2>2, RecordIs
            <4> QED
                BY ZenonT(60), <1>3, <2>1, <2>4, <3>4, <4>1, <4>2 DEF MemoryOK
        <3> QED
            BY Zenon, <3>4, <3>7, <3>8
    <2> QED
        BY Zenon, <2>3, <2>4
<1>13. Keeps
    <2>1. \A q \in Sessions : /\ summary'[q].version \in Nat
                              /\ summary[q].version <= summary'[q].version
        <3>1. \A q \in Sessions : summary[q].version \in Nat /\ summary[q].version <= summary[q].version
            BY Types
        <3> QED
            BY ZenonT(60), <1>10, <1>11, <3>1
    <2> QED
        BY Zenon, <1>6, <1>12, <2>1 DEF Keeps, Committed
<1>14. PICK new : new = [replica[w] EXCEPT !.at = "ack", !.text = {}, !.stale = FALSE]
    BY Zenon
<1>15. /\ new \in Replica /\ new.at = "ack" /\ new.record = r
       /\ new.attempts = replica[w].attempts
    BY Zenon, <1>1, <1>2, <1>14 DEF Replica
<1>16. replica' = [replica EXCEPT ![w] = new]
    BY Zenon, <1>1, <1>14 DEF HandleCommit
<1>17. Projected(r)'
    <2>1. summary'[r[1]].version >= r[2]
        BY <1>3, <1>4, <1>10, <1>11
    <2> QED
        BY Zenon, <1>3, <1>6, <1>12, <2>1 DEF Projected, Projects, MemoryPolicy
<1>18. ReplicaOK(new)'
    BY Zenon, <1>1, <1>2, <1>6, <1>15, <1>17 DEF ReplicaOK, Committed
<1>19. /\ replica' \in [Replicas -> Replica]
       /\ \A q \in Replicas : ReplicaOK(replica[q])'
    BY Zenon, <1>13, <1>15, <1>16, <1>18, MoveReplica
<1>20. ProjectionTypeOK'
    <2>1. \A q \in Sessions : /\ Len(event[q]) <= MaxVersion
                              /\ summary'[q].version <= Len(event[q])
                              /\ summary'[q].text \subseteq 1..summary'[q].version
        BY Zenon, <1>10, <1>11, Types
    <2> QED
        BY Zenon, <1>6, <1>11, <1>12, <1>19, <2>1 DEF ProjectionInv, ProjectionTypeOK
<1>21. DeliveredIsProjected'
    BY Zenon, <1>6, <1>13, ProjectedKeeps DEF ProjectionInv, DeliveredIsProjected
<1>22. SweptOK'
    BY Zenon, <1>6 DEF ProjectionInv, SweptOK, Committed
<1> QED
    BY Zenon, <1>12, <1>19, <1>20, <1>21, <1>22 DEF ProjectionInv

\* The sweep blanks the events of a session and its summary, and marks who has read them.
LEMMA SweepInv ==
    ASSUME ProjectionInv, NEW s \in Sessions, NEW old, SweepSession(s, old)
    PROVE  ProjectionInv'
<1>1. UNCHANGED <<scope, owner, bound, delivery, published, faults>>
    BY Zenon DEF SweepSession, setup
<1>2. /\ event \in [Sessions -> Seq(BOOLEAN)] /\ summary \in [Sessions -> Summary]
      /\ swept \in [Sessions -> SUBSET Nat] /\ memory \in [Records -> Memory]
      /\ replica \in [Replicas -> Replica]
    BY Zenon, Types
<1>3. PICK blank : blank = [k \in DOMAIN event[s] |-> FALSE]
    BY Zenon
<1>4. /\ blank \in Seq(BOOLEAN) /\ Len(blank) = Len(event[s]) /\ DOMAIN blank = DOMAIN event[s]
      /\ \A k \in DOMAIN event[s] : ~blank[k]
    <2>1. DOMAIN event[s] = 1..Len(event[s]) /\ Len(event[s]) \in Nat
        BY Zenon, Types DEF Committed
    <2>2. DOMAIN blank = 1..Len(event[s]) /\ blank \in [1..Len(event[s]) -> BOOLEAN]
        BY Zenon, <1>3, <2>1
    <2>3. blank \in Seq(BOOLEAN) /\ Len(blank) = Len(event[s])
        <3>1. blank \in Seq(BOOLEAN)
            BY Zenon, <2>1, <2>2, SeqDef
        <3>2. Len(blank) \in Nat /\ 1..Len(blank) = 1..Len(event[s])
            BY Zenon, <2>2, <3>1, LenProperties
        <3>3. Len(blank) = Len(event[s])
            BY <2>1, <3>2
        <3> QED
            BY Zenon, <3>1, <3>3
    <2>4. \A k \in DOMAIN event[s] : ~blank[k]
        BY Zenon, <1>3
    <2> QED
        BY Zenon, <2>1, <2>2, <2>3, <2>4
<1>5. event' = [event EXCEPT ![s] = blank]
    BY Zenon, <1>3 DEF SweepSession
<1>6. /\ event' \in [Sessions -> Seq(BOOLEAN)]
      /\ event'[s] = blank /\ \A q \in Sessions : q # s => event'[q] = event[q]
    BY Zenon, <1>2, <1>4, <1>5
<1>7. \A q \in Sessions : Len(event'[q]) = Len(event[q]) /\ Committed(q)' = Committed(q)
    BY Zenon, <1>4, <1>6 DEF Committed
<1>8. PICK row : row = [summary[s] EXCEPT !.text = {}]
    BY Zenon
<1>9. row \in Summary /\ row.version = summary[s].version /\ row.text = {}
    BY Zenon, <1>2, <1>8 DEF Summary
<1>10. summary' = [summary EXCEPT ![s] = row]
    BY Zenon, <1>8 DEF SweepSession
<1>11. /\ summary' \in [Sessions -> Summary]
       /\ summary'[s] = row /\ \A q \in Sessions : q # s => summary'[q] = summary[q]
    BY Zenon, <1>2, <1>9, <1>10
<1>12. \A q \in Sessions : summary'[q].version = summary[q].version
    BY Zenon, <1>9, <1>11
<1>13. swept' = [swept EXCEPT ![s] = Committed(s)]
    BY Zenon DEF SweepSession
<1>14. Committed(s) \in SUBSET Nat
    <2>1. Committed(s) = 1..Len(event[s]) /\ Len(event[s]) \in Nat
        BY Zenon, Types
    <2> QED
        BY <2>1
<1>15. /\ swept' \in [Sessions -> SUBSET Nat]
       /\ swept'[s] = Committed(s) /\ \A q \in Sessions : q # s => swept'[q] = swept[q]
    BY Zenon, <1>2, <1>13, <1>14
<1>16. PICK gone \in Memory : gone = [state |-> "EXPIRED", text |-> FALSE]
    BY Zenon DEF Memory
<1>17. /\ memory' \in [Records -> Memory]
       /\ \A q \in Records : \/ memory'[q] = memory[q]
                             \/ memory[q].state = "VALID" /\ memory'[q].state = "EXPIRED"
    <2>1. memory' = [q \in Records |-> IF q \in old /\ memory[q].state = "VALID"
                                       THEN gone ELSE memory[q]]
        BY Zenon, <1>16 DEF SweepSession
    <2>2. gone.state = "EXPIRED"
        BY Zenon, <1>16
    <2> QED
        BY Zenon, <1>2, <2>1, <2>2
<1>18. \A r \in Records : (Projected(r)' <=> Projected(r)) /\ MemoryOK(r)'
    <2> SUFFICES ASSUME NEW r \in Records PROVE (Projected(r)' <=> Projected(r)) /\ MemoryOK(r)'
        BY Zenon
    <2>1. MemoryOK(r)
        BY Zenon DEF ProjectionInv
    <2>2. (memory'[r].state = "NONE" <=> memory[r].state = "NONE")
        BY Zenon, <1>17
    <2>3. (memory'[r].state = "CORRECTED" <=> memory[r].state = "CORRECTED")
        BY Zenon, <1>17
    <2>4. summary'[r[1]].version = summary[r[1]].version
        BY Zenon, <1>12, RecordIs
    <2>5. Projects(r[1])' = Projects(r[1])
        BY Zenon, <1>1 DEF Projects, MemoryPolicy
    <2>6. Projected(r)' <=> Projected(r)
        BY Zenon, <2>2, <2>4, <2>5 DEF Projected
    <2>7. MemoryOK(r)'
        BY Zenon, <1>1, <2>1, <2>2, <2>3, <2>5 DEF MemoryOK
    <2> QED
        BY Zenon, <2>6, <2>7
<1>19. ASSUME NEW w \in Replicas PROVE replica'[w] \in Replica /\ ReplicaOK(replica[w])'
    <2>1. PICK x \in Replica : x = replica[w] /\ ReplicaOK(x)
        BY Zenon, Types
    <2>2. PICK stale \in BOOLEAN : stale = (x.stale \/ (x.at = "read" /\ x.record[1] = s))
        <3>1. (x.stale \/ (x.at = "read" /\ x.record[1] = s)) \in BOOLEAN
            OBVIOUS
        <3> QED
            BY Zenon, <3>1
    <2>3. PICK new : new = [x EXCEPT !.stale = stale]
        BY Zenon
    <2>4. replica'[w] = new
        BY Zenon, <2>1, <2>2, <2>3 DEF SweepSession
    <2>5. /\ new \in Replica /\ new.at = x.at /\ new.record = x.record
          /\ new.attempts = x.attempts /\ new.text = x.text /\ new.stale = stale
        BY Zenon, <2>1, <2>3 DEF Replica
    <2>6. x.at # "idle" => /\ x.record \in Records /\ x.record[1] \in Sessions
                           /\ x.record[2] \in Committed(x.record[1])' /\ x.attempts < MaxAttempts
        BY Zenon, <1>7, <2>1, RecordIs DEF ReplicaOK
    <2>7. x.at = "read" /\ ~stale => x.text \cap swept'[x.record[1]] = {}
        BY Zenon, <1>15, <2>1, <2>2, <2>6 DEF ReplicaOK
    <2>8. x.at = "ack" => Projected(x.record)'
        BY Zenon, <1>18, <2>1, <2>6 DEF ReplicaOK
    <2>9. ReplicaOK(new)'
        BY Zenon, <2>1, <2>5, <2>6, <2>7, <2>8 DEF ReplicaOK
    <2> QED
        BY Zenon, <2>4, <2>5, <2>9 DEF ReplicaOK
<1>20. replica' \in [Replicas -> Replica]
    <2> DEFINE F(w) == [replica[w] EXCEPT !.stale = @ \/ (replica[w].at = "read" /\
                                                          replica[w].record[1] = s)]
    <2>1. replica' = [w \in Replicas |-> F(w)]
        BY Zenon DEF SweepSession
    <2> HIDE DEF F
    <2> QED
        BY Zenon, <1>19, <2>1
<1>21. ProjectionTypeOK'
    <2>1. \A q \in Sessions : /\ Len(event'[q]) <= MaxVersion
                              /\ summary'[q].version <= Len(event'[q])
                              /\ summary'[q].text \subseteq 1..summary'[q].version
        BY Zenon, <1>7, <1>9, <1>11, <1>12, Types
    <2> QED
        BY Zenon, <1>1, <1>6, <1>11, <1>15, <1>17, <1>20, <2>1 DEF ProjectionInv, ProjectionTypeOK
<1>22. DeliveredIsProjected'
    BY Zenon, <1>1, <1>18 DEF ProjectionInv, DeliveredIsProjected
<1>23. SweptOK'
    <2>1. ASSUME NEW q \in Sessions, NEW k \in swept'[q], q # s
          PROVE  k \in Committed(q)' /\ ~event'[q][k]
        BY Zenon, <1>6, <1>7, <1>15, <2>1 DEF ProjectionInv, SweptOK
    <2>2. ASSUME NEW k \in swept'[s] PROVE k \in Committed(s)' /\ ~event'[s][k]
        BY Zenon, <1>4, <1>6, <1>7, <1>15 DEF Committed
    <2> QED
        BY Zenon, <2>1, <2>2 DEF SweptOK
<1> QED
    BY Zenon, <1>18, <1>19, <1>21, <1>22, <1>23 DEF ProjectionInv

\* Nothing is committed, projected or swept.
LEMMA ProjectionStart == ProjectionInit => ProjectionInv
<1> SUFFICES ASSUME ProjectionInit PROVE ProjectionInv
    BY Zenon
<1> USE DEF ProjectionInit
<1>1. MaxVersion \in Nat /\ MaxAttempts \in Nat \ {0} /\ 0 \in 0..MaxAttempts /\ 0 \in Nat
    BY ProjectionAssumption
<1>2. <<>> \in Seq(BOOLEAN) /\ Len(<<>>) = 0
    BY Zenon, EmptySeq
<1>3. Idle \in Replica /\ Idle.at = "idle"
    BY Zenon, <1>1 DEF Idle, Replica
<1>4. Undelivered \in Delivery /\ Undelivered.status = "NONE"
    BY Zenon, <1>1 DEF Undelivered, Delivery
<1>5. \A s \in Sessions : /\ event[s] = <<>> /\ summary[s] \in Summary /\ swept[s] = {}
                          /\ summary[s].version = 0 /\ summary[s].text = {}
    BY Zenon, <1>1 DEF Summary
<1>6. \A r \in Records : memory[r] \in Memory /\ memory[r].state = "NONE"
    BY Zenon DEF Memory
<1>7. ProjectionTypeOK
    <2>1. \A s \in Sessions : /\ Len(event[s]) <= MaxVersion
                              /\ summary[s].version <= Len(event[s])
                              /\ summary[s].text \subseteq 1..summary[s].version
        <3>1. \A s \in Sessions : Len(event[s]) = 0
            BY Zenon, <1>2, <1>5
        <3> QED
            BY <1>1, <1>5, <3>1
    <2>2. /\ event \in [Sessions -> Seq(BOOLEAN)] /\ summary \in [Sessions -> Summary]
          /\ memory \in [Records -> Memory] /\ delivery \in [Records -> Delivery]
          /\ replica \in [Replicas -> Replica] /\ swept \in [Sessions -> SUBSET Nat]
          /\ published \in [Records \X Reasons -> Nat]
        BY Zenon, <1>1, <1>2, <1>3, <1>4, <1>5, <1>6
    <2> QED
        BY Zenon, <1>1, <2>1, <2>2 DEF ProjectionTypeOK
<1>8. ASSUME NEW r \in Records PROVE MemoryOK(r)
    <2>1. published[<<r, "CREATED">>] = 0 /\ published[<<r, "CORRECTED">>] = 0
        BY DEF Reasons
    <2> QED
        BY Zenon, <1>6, <2>1 DEF MemoryOK
<1>9. DeliveredIsProjected
    BY Zenon, <1>4 DEF DeliveredIsProjected
<1>10. SweptOK
    BY Zenon, <1>5 DEF SweptOK
<1>11. \A w \in Replicas : ReplicaOK(replica[w])
    BY Zenon, <1>3 DEF ReplicaOK
<1> QED
    BY Zenon, <1>7, <1>8, <1>9, <1>10, <1>11 DEF ProjectionInv

\* The invariant of the projections is about their variables only.
LEMMA ProjectionQuiet ==
    ASSUME ProjectionInv, UNCHANGED projectionVars
    PROVE  ProjectionInv'
BY Zenon DEF ProjectionInv, ProjectionTypeOK, DeliveredIsProjected, SweptOK, MemoryOK, ReplicaOK,
    Projected, Projects, MemoryPolicy, Committed, projectionVars

\* Every step of a replica, the sessions, the operator and the sweep keeps the invariant.
LEMMA ProjectionStep == ASSUME ProjectionInv, ProjectionNext PROVE ProjectionInv'
BY Zenon, CommitInv, ChooseInv, LockInv, ReadInv, ProjectInv, AcknowledgeInv, FailureInv,
    FailsInv, DiesInv, CorrectInv, SweepInv DEF ProjectionNext, ConsumerStep

-----------------------------------------------------------------------------
(* The two together *)

\* What an IM request is given is in the projections, and is its subject's own unless an
\* administrator has associated the subjects.
ContextOK ==
    /\ context \in [subject : Subjects \cup {Nothing}, scope : {"direct", "group", "thread"},
                    memories : SUBSET Records]
    /\ requests \in Nat
    /\ context.scope # "direct" => context.memories = {}
    /\ \A r \in context.memories : owner[r[1]] = context.subject \/ Associated

Inv == ProjectionInv /\ AssociationInv /\ ContextOK

\* Associations that were made stay on record.
LEMMA AssociatedStays == ASSUME AssociationInv, AssociationNext, Associated PROVE Associated'
<1>1. PICK k \in Keys : command[k].op = "associate" /\ applied[k] > 0
    BY Zenon DEF Associated
<1>2. /\ command \in [Keys -> Command] /\ applied \in [Keys -> Nat]
      /\ command[k] \in Command /\ applied[k] \in Nat
    BY Zenon DEF AssociationInv, AssociationTypeOK
<1>3. command'[k].op = "associate" /\ applied'[k] > 0
    <2>1. ASSUME NEW q \in Keys, NEW op \in Operations, Decide(q, op)
          PROVE  command'[k].op = "associate" /\ applied'[k] > 0
        <3>1. q # k /\ applied' = applied
            BY Zenon, <1>1, <2>1 DEF Decide
        <3>2. command'[k] = command[k]
            BY Zenon, <1>2, <2>1, <3>1 DEF Decide
        <3> QED
            BY Zenon, <1>1, <3>1, <3>2
    <2>2. ASSUME NEW q \in Keys, Execute(q)
          PROVE  command'[k].op = "associate" /\ applied'[k] > 0
        <3>1. command'[k].op = "associate"
            BY <1>1, <1>2, <2>2 DEF Execute, Command
        <3>2. applied'[k] > 0
            BY <1>1, <1>2, <2>2 DEF Execute
        <3> QED
            BY Zenon, <3>1, <3>2
    <2> QED
        BY Zenon, <2>1, <2>2 DEF AssociationNext
<1> QED
    BY Zenon, <1>3 DEF Associated

\* Whose session it is never changes.
LEMMA OwnerStays == ASSUME ProjectionNext PROVE UNCHANGED <<scope, owner, bound>>
BY Zenon DEF ProjectionNext, ConsumerStep, CommitEvents, ChooseRecord, LockRecord, HandleRead,
    HandleCommit, Acknowledge, RecordFailure, HandleFails, ReplicaDies, CorrectMemory,
    SweepSession, setup

\* Nothing is looked up in the beginning.
LEMMA InitInv == Init => Inv
<1> SUFFICES ASSUME Init PROVE Inv
    BY Zenon
<1>1. ProjectionInv /\ AssociationInv
    BY Zenon, ProjectionStart, AssociationStart DEF Init
<1>2. ContextOK
    BY Zenon DEF Init, ContextOK, NoContext
<1> QED
    BY Zenon, <1>1, <1>2 DEF Inv

\* A request is given what list_visible returns.
LEMMA LookUpInv ==
    ASSUME Inv, NEW u \in Subjects, NEW where \in Scopes, LookUp(u, where)
    PROVE  Inv'
<1>1. ProjectionInv' /\ AssociationInv'
    BY Zenon, ProjectionQuiet, AssociationQuiet DEF LookUp, Inv
<1>2. /\ context' = [subject |-> u, scope |-> where, memories |-> Visible(u, where)]
      /\ Visible(u, where) \in SUBSET Records /\ where \in {"direct", "group", "thread"}
    BY Zenon, ProjectionAssumption DEF LookUp, Visible
<1>3. /\ context'.subject = u /\ context'.scope = where /\ context'.memories = Visible(u, where)
      /\ context' \in [subject : Subjects \cup {Nothing}, scope : {"direct", "group", "thread"},
                       memories : SUBSET Records]
    BY Zenon, <1>2
<1>4. requests' \in Nat
    BY DEF LookUp, Inv, ContextOK
<1>5. Associated' = Associated /\ owner' = owner
    BY Zenon DEF LookUp, Associated, associationVars, projectionVars
<1>6. where # "direct" => Visible(u, where) = {}
    BY Zenon DEF Visible
<1>7. \A r \in Visible(u, where) : owner[r[1]] = u \/ Associated
    BY Zenon DEF Visible, Inv, AssociationInv
<1>8. ContextOK'
    BY Zenon, <1>3, <1>4, <1>5, <1>6, <1>7 DEF ContextOK
<1> QED
    BY Zenon, <1>1, <1>8 DEF Inv

\* Every step keeps the invariant.
LEMMA NextInv == Inv /\ [Next]_vars => Inv'
<1> SUFFICES ASSUME Inv, [Next]_vars PROVE Inv'
    BY Zenon
<1>1. CASE UNCHANGED vars
    <2>1. ProjectionInv' /\ AssociationInv'
        BY Zenon, <1>1, ProjectionQuiet, AssociationQuiet DEF Inv, vars
    <2>2. ContextOK'
        BY Zenon, <1>1 DEF Inv, ContextOK, Associated, vars, associationVars, projectionVars
    <2> QED
        BY Zenon, <2>1, <2>2 DEF Inv
<1>2. CASE ProjectionNext /\ UNCHANGED <<associationVars, context, requests>>
    <2>1. ProjectionInv' /\ AssociationInv'
        BY Zenon, <1>2, ProjectionStep, AssociationQuiet DEF Inv
    <2>2. ContextOK'
        BY Zenon, <1>2, OwnerStays DEF Inv, ContextOK, Associated, associationVars
    <2> QED
        BY Zenon, <2>1, <2>2 DEF Inv
<1>3. CASE AssociationNext /\ UNCHANGED <<projectionVars, context, requests>>
    <2>1. ProjectionInv' /\ AssociationInv'
        BY Zenon, <1>3, ProjectionQuiet, AssociationStep DEF Inv
    <2>2. ContextOK'
        BY Zenon, <1>3, AssociatedStays DEF Inv, ContextOK, projectionVars
    <2> QED
        BY Zenon, <2>1, <2>2 DEF Inv
<1>4. CASE Answer
    <2>1. ProjectionInv' /\ AssociationInv'
        BY Zenon, <1>4, ProjectionQuiet, AssociationQuiet DEF Inv, Answer
    <2>2. ContextOK'
        BY Zenon, <1>4 DEF Inv, ContextOK, Answer, NoContext
    <2> QED
        BY Zenon, <2>1, <2>2 DEF Inv
<1> QED
    BY Zenon, <1>1, <1>2, <1>3, <1>4, LookUpInv DEF Next

\* The invariant holds throughout.
THEOREM Invariance == Spec => []Inv
BY InitInv, NextInv, PTL DEF Spec

-----------------------------------------------------------------------------
(* What follows *)

\* Every variable of the memory keeps its type, and a summary never runs ahead of the events
\* of its session.
THEOREM TypeCorrect == Spec => []TypeOK
<1>1. Inv => TypeOK
    BY Zenon DEF Inv, TypeOK, ProjectionInv, AssociationInv, ContextOK
<1> QED
    BY <1>1, Invariance, PTL

\* memory_access.py: group conversations neither yield member memory nor are given any, and
\* a request sees memory of another subject only where an administrator associated the two,
\* whatever is projected, associated or revoked meanwhile.
THEOREM MemoryPrivate == Spec => []MemoryStaysPrivate
<1>1. Inv => MemoryStaysPrivate
    <2> SUFFICES ASSUME Inv PROVE MemoryStaysPrivate
        BY Zenon
    <2>1. \A r \in Records : memory[r].state # "NONE" => scope[r[1]] = "direct"
        BY Zenon DEF Inv, ProjectionInv, MemoryOK, Projects, MemoryPolicy
    <2> QED
        BY Zenon, <2>1 DEF Inv, ContextOK, Associated, MemoryStaysPrivate
<1> QED
    BY <1>1, Invariance, PTL

\* im_subjects.py, If-Match: of the commands decided on one version of a living row one at
\* most is applied, however they are interleaved and repeated.
THEOREM UpdatesNotLost == Spec => []NoLostUpdate
<1>1. Inv => NoLostUpdate
    BY ZenonT(40) DEF Inv, AssociationInv
<1> QED
    BY <1>1, Invariance, PTL

\* idempotency.py: a command takes effect once, however often it is sent.
THEOREM CommandsOnce == Spec => []AppliedOnce
<1>1. Inv => AppliedOnce
    BY DEF Inv, AssociationInv, CommandOK, AppliedOnce
<1> QED
    BY <1>1, Invariance, PTL

\* job_worker.py: the acknowledgement of a record stands for its projection, although the
\* two are committed apart and replicas may repeat each other's work.
THEOREM DeliveriesProjected == Spec => []DeliveredIsProjected
<1>1. Inv => DeliveredIsProjected
    BY Zenon DEF Inv, ProjectionInv
<1> QED
    BY <1>1, Invariance, PTL

\* job_worker.py: the outbox tells exactly once of every memory created or corrected.
THEOREM InvalidationsOnce == Spec => []InvalidationsMatch
<1>1. Inv => InvalidationsMatch
    BY Zenon DEF Inv, ProjectionInv, MemoryOK, InvalidationsMatch
<1> QED
    BY <1>1, Invariance, PTL

\* What a committed projection leaves of summaries, memories and swept text.
LEMMA ProjectStands ==
    ASSUME ProjectionInv, NEW w \in Replicas, HandleCommit(w)
    PROVE  /\ \A s \in Sessions : summary'[s].version >= summary[s].version
           /\ \A r \in Records : memory[r].state # "NONE" => memory'[r] = memory[r]
           /\ delivery' = delivery
           /\ \A s \in Sessions : \A k \in swept[s] :
                k \notin summary[s].text /\ ~replica[w].stale => k \notin summary'[s].text
<1>1. /\ summary \in [Sessions -> Summary] /\ memory \in [Records -> Memory]
      /\ \A s \in Sessions : summary[s].version \in Nat
    BY Zenon, Types
<1>2. PICK r \in Records : /\ r = replica[w].record
                           /\ ~replica[w].stale => replica[w].text \cap swept[r[1]] = {}
    BY Zenon, Types DEF HandleCommit, ReplicaOK
<1>3. PICK q \in Sessions : q = r[1]
    BY Zenon, RecordIs
<1>4. PICK v \in Nat : v = r[2]
    BY Zenon, RecordIs
<1>5. PICK text : text = SummaryProjection(replica[w].text)
    BY Zenon
<1>6. text \subseteq replica[w].text
    BY Zenon, <1>5 DEF SummaryProjection
<1>7. summary' = [summary EXCEPT ![q] = IF summary[q].version < v
                                        THEN [version |-> v, text |-> text] ELSE summary[q]]
    BY Zenon, <1>2, <1>3, <1>4, <1>5 DEF HandleCommit, UpsertSummary
<1>8. /\ \A s \in Sessions : s # q => summary'[s] = summary[s]
      /\ \/ summary[q].version < v /\ summary'[q] = [version |-> v, text |-> text]
         \/ summary'[q] = summary[q]
    BY Zenon, <1>1, <1>7
<1>9. \A s \in Sessions : summary'[s].version >= summary[s].version
    <2>1. summary'[q].version >= summary[q].version
        BY <1>1, <1>8
    <2>2. \A s \in Sessions : summary[s].version >= summary[s].version
        BY <1>1
    <2> QED
        BY Zenon, <1>8, <2>1, <2>2
<1>10. ASSUME NEW p \in Records, memory[p].state # "NONE" PROVE memory'[p] = memory[p]
    BY Zenon, <1>1, <1>2, <1>10 DEF HandleCommit, InsertMemory
<1>11. ASSUME NEW s \in Sessions, NEW k \in swept[s], k \notin summary[s].text, ~replica[w].stale
       PROVE  k \notin summary'[s].text
    <2>1. CASE s = q
        <3>1. k \notin text
            BY ZenonT(60), <1>2, <1>3, <1>6, <1>11, <2>1
        <3>2. summary'[q].text = text \/ summary'[q].text = summary[q].text
            BY <1>8
        <3> QED
            BY Zenon, <1>11, <2>1, <3>1, <3>2
    <2>2. CASE s # q
        BY Zenon, <1>8, <1>11, <2>2
    <2> QED
        BY Zenon, <2>1, <2>2
<1> QED
    BY Zenon, <1>9, <1>10, <1>11 DEF HandleCommit

\* What the sweep leaves of summaries and memories.
LEMMA SweepStands ==
    ASSUME ProjectionInv, NEW s \in Sessions, NEW old, SweepSession(s, old)
    PROVE  /\ \A q \in Sessions : /\ summary'[q].version >= summary[q].version
                                  /\ summary'[q].text \subseteq summary[q].text
           /\ \A r \in Records : memory[r].state # "VALID" => memory'[r] = memory[r]
           /\ delivery' = delivery
<1>1. /\ summary \in [Sessions -> Summary]
      /\ \A q \in Sessions : summary[q].version \in Nat /\ summary[q].version >= summary[q].version
    BY Types
<1>2. PICK row : row = [summary[s] EXCEPT !.text = {}]
    BY Zenon
<1>3. row.version = summary[s].version /\ row.text = {}
    BY Zenon, <1>1, <1>2 DEF Summary
<1>4. summary'[s] = row /\ \A q \in Sessions : q # s => summary'[q] = summary[q]
    BY Zenon, <1>1, <1>2 DEF SweepSession
<1> QED
    BY Zenon, <1>1, <1>3, <1>4 DEF SweepSession

\* A settled delivery stays settled: an acknowledgement is written over with another one
\* only.
LEMMA SettledStands ==
    ASSUME ProjectionInv, NEW w \in Replicas, Acknowledge(w) \/ RecordFailure(w),
           NEW r \in Records, delivery[r].status = "SUCCEEDED"
    PROVE  delivery'[r].status = "SUCCEEDED"
<1>1. delivery \in [Records -> Delivery]
    BY Zenon, Types
<1>2. CASE Acknowledge(w)
    BY Zenon, <1>1, <1>2 DEF Acknowledge
<1>3. CASE RecordFailure(w)
    BY Zenon, <1>1, <1>3 DEF RecordFailure, Checked
<1> QED
    BY Zenon, <1>2, <1>3

\* A step that writes neither summaries, memories nor deliveries, or one of three that do.
LEMMA Writers ==
    ASSUME ProjectionNext
    PROVE  \/ UNCHANGED <<summary, memory, delivery>>
           \/ \E w \in Replicas : HandleCommit(w)
           \/ \E w \in Replicas : (Acknowledge(w) \/ RecordFailure(w)) /\ UNCHANGED <<summary, memory>>
           \/ \E r \in Records : CorrectMemory(r) /\ UNCHANGED <<summary, delivery>>
           \/ \E s \in Sessions : \E old \in SUBSET Existing : SweepSession(s, old)
BY ZenonT(40) DEF ProjectionNext, ConsumerStep, CommitEvents, ChooseRecord, LockRecord, HandleRead,
    Acknowledge, RecordFailure, HandleFails, ReplicaDies, CorrectMemory

\* job_worker.py: whoever projects a record late, out of order or again takes nothing back: a
\* summary keeps to its newest version, a corrected or expired memory stays so, and
\* SUCCEEDED is final.
THEOREM ProjectionsFinal == Spec => ProjectionsStand
<1>1. ASSUME Inv, [Next]_vars
      PROVE  [/\ \A s \in Sessions : summary'[s].version >= summary[s].version
              /\ \A r \in Records : memory[r].state \in {"CORRECTED", "EXPIRED"} =>
                    memory'[r].state = memory[r].state
              /\ \A r \in Records : delivery[r].status = "SUCCEEDED" =>
                    delivery'[r].status = "SUCCEEDED"]_projectionVars
    <2>1. ProjectionInv /\ (UNCHANGED projectionVars \/ ProjectionNext)
        BY Zenon, <1>1 DEF Inv, Next, LookUp, Answer, vars
    <2> SUFFICES ASSUME ProjectionNext
                 PROVE  /\ \A s \in Sessions : summary'[s].version >= summary[s].version
                        /\ \A r \in Records : memory[r].state \in {"CORRECTED", "EXPIRED"} =>
                              memory'[r].state = memory[r].state
                        /\ \A r \in Records : delivery[r].status = "SUCCEEDED" =>
                              delivery'[r].status = "SUCCEEDED"
        BY Zenon, <2>1
    <2>2. \A s \in Sessions : summary[s].version >= summary[s].version
        BY <2>1, Types
    <2>3. CASE UNCHANGED <<summary, memory, delivery>>
        BY Zenon, <2>2, <2>3
    <2>4. ASSUME NEW r \in Records, CorrectMemory(r), UNCHANGED <<summary, delivery>>
          PROVE  \A q \in Records : memory[q].state # "VALID" => memory'[q] = memory[q]
        <3>1. memory \in [Records -> Memory]
            BY Zenon, <2>1, Types
        <3> QED
            BY Zenon, <2>4, <3>1 DEF CorrectMemory
    <2> QED
        BY ZenonT(60), <2>1, <2>2, <2>3, <2>4, Writers, ProjectStands, SweepStands, SettledStands
<1> QED
    BY <1>1, Invariance, PTL DEF Spec, ProjectionsStand

\* content_lifecycle.py: what the sweep has blanked returns to a summary only with a
\* projection that had read it before.
THEOREM SweptOut == Spec => SweptStaysOut
<1>1. ASSUME Inv, [Next]_vars
      PROVE  [\A s \in Sessions : \A k \in swept[s] :
                k \notin summary[s].text /\ (\A w \in Replicas : ~replica[w].stale)
                => k \notin summary'[s].text]_projectionVars
    <2>1. ProjectionInv /\ (UNCHANGED projectionVars \/ ProjectionNext)
        BY Zenon, <1>1 DEF Inv, Next, LookUp, Answer, vars
    <2> QED
        BY Zenon, <2>1, Writers, ProjectStands, SweepStands
<1> QED
    BY <1>1, Invariance, PTL DEF Spec, SweptStaysOut

=============================================================================
