------------------------------ MODULE IMMemory ------------------------------
(***************************************************************************)
(* Memory of IM subjects: what the job worker projects, what an IM request *)
(* may see of it (trpc_service/memory_access.py, _im_memory_context of     *)
(* trpc_service/channel_gateway.py), and the associations that let one     *)
(* subject see the memory of another.                                      *)
(***************************************************************************)
EXTENDS JobProjections, SubjectAssociations

VARIABLES
    context,       \* the memories handed to the IM request under way
    requests

vars == <<projectionVars, associationVars, context, requests>>

NoContext == [subject |-> Nothing, scope |-> "direct", memories |-> {}]

TypeOK ==
    /\ ProjectionTypeOK /\ AssociationTypeOK
    /\ context \in [subject : Subjects \cup {Nothing}, scope : {"direct", "group", "thread"},
                   memories : SUBSET Records]
    /\ requests \in Nat

Init == /\ ProjectionInit /\ AssociationInit
        /\ context = NoContext /\ requests = 0

\* list_visible: nothing outside direct conversations; there, own and associated memory.
Visible(u, where) ==
    {r \in Records : where = "direct" /\ memory[r].state = "VALID" /\
        (owner[r[1]] = u \/ association.version > 0)}

LookUp(u, where) ==
    /\ context = NoContext /\ requests < bound.requests
    /\ context' = [subject |-> u, scope |-> where, memories |-> Visible(u, where)]
    /\ requests' = requests + 1
    /\ UNCHANGED <<projectionVars, associationVars>>

\* The lookup failed, or the request is answered.
Answer ==
    /\ context # NoContext
    /\ context' = NoContext
    /\ UNCHANGED <<projectionVars, associationVars, requests>>

Next ==
    \/ ProjectionNext /\ UNCHANGED <<associationVars, context, requests>>
    \/ AssociationNext /\ bound.requests > 0 /\ UNCHANGED <<projectionVars, context, requests>>
    \/ \E u \in Subjects, where \in Scopes : LookUp(u, where)
    \/ Answer

Spec == Init /\ [][Next]_vars

\* The consumer's loop goes on after every exception, on every replica (job_worker.py:587).
FairSpec ==
    /\ Spec
    /\ \A w \in Replicas : WF_vars(ConsumerStep(w) /\
                                   UNCHANGED <<associationVars, context, requests>>)

\* Group conversations neither yield member memory nor are given any; memory of another
\* subject is given only if an administrator's command associated the two.
MemoryStaysPrivate ==
    /\ \A r \in Records : memory[r].state # "NONE" => scope[r[1]] = "direct"
    /\ context.scope # "direct" => context.memories = {}
    /\ \A r \in context.memories : \/ owner[r[1]] = context.subject
                                   \/ \E k \in Keys : /\ command[k].op = "associate"
                                                      /\ applied[k] > 0
=============================================================================
