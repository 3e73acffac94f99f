------------------------- MODULE SubjectAssociations -------------------------
(***************************************************************************)
(* Verified associations between two IM subjects of a tenant               *)
(* (trpc_service/admin_api/im_subjects.py): administrators associate,      *)
(* re-verify and revoke with If-Match versions and idempotency keys        *)
(* (trpc_service/admin_api/idempotency.py).  A client repeats a command    *)
(* with its key when it got no answer.                                     *)
(*                                                                         *)
(* A command is one transaction: the lock on its key and the row it writes *)
(* keep the others out until it commits.                                   *)
(***************************************************************************)
EXTENDS Integers

CONSTANTS
    Commands,      \* idempotency keys, issued in this order
    MaxRuns        \* bound: how often a command is sent

ASSUME AssociationAssumption == Commands \in Nat /\ MaxRuns \in Nat

VARIABLES
    association,   \* the row of the pair: version (0: none) and how often it was created
    command,       \* key -> what was asked for, of which row, and how often it was sent
    ledger,        \* keys with an idempotency_record
    applied        \* key -> times the command took effect, each with its audit event

associationVars == <<association, command, ledger, applied>>

Keys == 1..Commands
Operations == {"none", "associate", "reverify", "revoke"}

Command == [op : Operations, if_match : Nat, born : Nat, runs : 0..MaxRuns]

AssociationTypeOK ==
    /\ association \in [version : Nat, born : Nat]
    /\ command \in [Keys -> Command]
    /\ ledger \subseteq Keys
    /\ applied \in [Keys -> Nat]

AssociationInit ==
    /\ association = [version |-> 0, born |-> 0]
    /\ command = [k \in Keys |-> [op |-> "none", if_match |-> 0, born |-> 0, runs |-> 0]]
    /\ ledger = {}
    /\ applied = [k \in Keys |-> 0]

\* An administrator decides on a command; the ETag is that of the row they know.
Decide(k, op) ==
    /\ command[k].op = "none" /\ \A j \in 1..(k - 1) : command[j].op # "none"
    /\ op # "associate" => association.version > 0
    /\ command' = [command EXCEPT ![k] = [op |-> op, if_match |-> association.version,
                                          born |-> association.born, runs |-> 0]]
    /\ UNCHANGED <<association, ledger, applied>>

\* replay_for: a key that is in the ledger is answered from it.
Replayed(k) == k \in ledger

\* Mutant: If-Match is not compared.
Matches_Exists(k) ==
    IF command[k].op = "associate" THEN association.version = 0 ELSE association.version > 0

\* The precondition of the statement that writes the row.
Matches(k) ==
    IF command[k].op = "associate" THEN association.version = 0
    ELSE association.version > 0 /\ association.version = command[k].if_match

Written(op) ==
    CASE op = "associate" -> [version |-> 1, born |-> association.born + 1]
      [] op = "reverify" -> [association EXCEPT !.version = @ + 1]
      [] op = "revoke" -> [association EXCEPT !.version = 0]

\* verify_association and revoke_association; 404, 412 and 428 leave nothing behind.
Execute(k) ==
    /\ command[k].op # "none" /\ command[k].runs < MaxRuns
    /\ command' = [command EXCEPT ![k].runs = @ + 1]
    /\ IF ~Replayed(k) /\ Matches(k)
       THEN /\ association' = Written(command[k].op)
            /\ ledger' = ledger \cup {k}
            /\ applied' = [applied EXCEPT ![k] = @ + 1]
       ELSE UNCHANGED <<association, ledger, applied>>

AssociationNext == \E k \in Keys : Execute(k) \/ \E op \in Operations \ {"none"} : Decide(k, op)

\* A repeated command takes effect once, also if the association it created was revoked
\* or re-verified before the repetition arrives.
AppliedOnce == \A k \in Keys : applied[k] <= 1

\* A change is applied to the version its administrator saw: within the life of a row, two
\* commands decided on the same version are never both applied.  (Of two commands for a row
\* that was revoked since, the second may meet the row that was created after it: see
\* SameAssociation.)
NoLostUpdate ==
    \A j, k \in Keys : /\ j # k /\ applied[j] > 0 /\ applied[k] > 0
                       /\ command[j].op # "associate" /\ command[k].op # "associate"
                       /\ command[j].born = association.born
                       /\ command[k].born = association.born
                       => command[j].if_match # command[k].if_match

\* Not kept: a revocation applies to the association its administrator saw.  A row that is
\* created again starts with version 1 again and matches the old ETag.
SameAssociation ==
    [][\A k \in Keys : applied'[k] > applied[k] /\ command[k].op # "associate" =>
          command[k].born = association.born]_associationVars
=============================================================================
