---------------------------- MODULE AgentDrafts ----------------------------
(***************************************************************************)
(* Authoring of an agent application (trpc_service/admin_api/agents.py and *)
(* draft_validation.py): the application row, its mutable draft and the    *)
(* immutable releases published from it.                                   *)
(*                                                                         *)
(* Every handler is one READ COMMITTED transaction.  publish_release locks *)
(* the application row and reads draft and model profile in statements of  *)
(* their own; draft updates do not take that lock, so they may commit in   *)
(* between.  An insert that refers to the application (a draft, a suite, a *)
(* run) waits for the lock, because its foreign key reads the row.         *)
(*                                                                         *)
(* The commands are fresh ones: a replayed Idempotency-Key answers from    *)
(* the stored response (SubjectAssociations) and changes nothing.          *)
(***************************************************************************)
EXTENDS Integers, Sequences, FiniteSets

CONSTANTS
    Admins,        \* principals with write access to the tenant
    Contents,      \* draft contents: instructions, aliases, references, policy
    Blank,         \* the contents that have an empty instruction or an illegal name
    MaxReleases,   \* bound: releases that are published from the draft
    MaxVersion,    \* bound: versions of a draft
    MaxLives,      \* bound: drafts that an editor can tell apart
    MaxEdits,      \* bound: versions of the application row
    Nobody,
    None

ASSUME DraftAssumption ==
    MaxVersion \in Nat \ {0} /\ MaxLives \in Nat /\ MaxEdits \in Nat \ {0}

VARIABLES
    application,   \* [status, version]
    draft,         \* None or [version, content, life]; life tells a draft from the
                   \* deleted ones that some editor still has in mind (history)
    releases,      \* sequence of [version, row]; its index is release_version
    editor,        \* admin -> the draft it read last, or None
    publisher,     \* admin -> the draft its publication has read, or None
    lock           \* holder of the FOR UPDATE lock on the application row, or Nobody

draftVars == <<application, draft, releases, editor, publisher, lock>>

Max0(S) == IF S = {} THEN 0 ELSE CHOOSE n \in S : \A m \in S : m <= n
Live == application.status = "live"
Unlocked == lock = Nobody
Drafts == [version : 1..MaxVersion, content : Contents, life : 1..MaxLives]
ReleaseRow == [version : 1..MaxVersion, row : Drafts]

\* validate_draft_configuration: no issue is reported.
Valid(content) == content \notin Blank

\* publish_release refuses on issues and does not rely on an earlier validate_draft.
Publishable(d) == d # None /\ Valid(d.content)

DraftTypeOK ==
    /\ application \in [status : {"absent", "live", "deleted"}, version : 1..MaxEdits]
    /\ draft \in Drafts \cup {None}
    /\ releases \in Seq(ReleaseRow)
    /\ editor \in [Admins -> Drafts \cup {None}]
    /\ publisher \in [Admins -> Drafts \cup {None}]
    /\ lock \in Admins \cup {Nobody}

----------------------------------------------------------------------------
(* The application row *)

\* create_application.
CreateApplication ==
    /\ application.status = "absent"
    /\ application' = [status |-> "live", version |-> 1]
    /\ UNCHANGED <<draft, releases, editor, publisher, lock>>

\* update_application: slug, name and description are not modelled; the row's version is.
UpdateApplication ==
    /\ Live /\ Unlocked
    /\ application.version < MaxEdits
    /\ application' = [application EXCEPT !.version = @ + 1]
    /\ UNCHANGED <<draft, releases, editor, publisher, lock>>

\* delete_application: the draft and the releases go with the row.
DeleteApplication ==
    /\ Live /\ Unlocked
    /\ application' = [application EXCEPT !.status = "deleted"]
    /\ draft' = None
    /\ releases' = <<>>
    /\ UNCHANGED <<editor, publisher, lock>>

----------------------------------------------------------------------------
(* The draft *)

\* create_draft: the primary key allows one draft per application, and its version is 1.
CreateDraft(content) ==
    /\ Live /\ Unlocked
    /\ draft = None
    /\ LET life == 1 + Max0({editor[a].life : a \in {b \in Admins : editor[b] # None}})
       IN /\ life <= MaxLives
          /\ draft' = [version |-> 1, content |-> content, life |-> life]
    /\ UNCHANGED <<application, releases, editor, publisher, lock>>

\* get_draft: the editor learns the content and the ETag.
ReadDraft(a) ==
    /\ draft # None /\ editor[a] # draft
    /\ editor' = [editor EXCEPT ![a] = draft]
    /\ UNCHANGED <<application, draft, releases, publisher, lock>>

\* If-Match: the version the editor read is the version of the row.
Matches(a) == /\ editor[a] # None /\ draft # None
              /\ editor[a].version = draft.version

\* update_draft.
UpdateDraft(a, content) ==
    /\ Matches(a)
    /\ draft.version < MaxVersion
    /\ draft' = [draft EXCEPT !.version = @ + 1, !.content = content]
    /\ editor' = [editor EXCEPT ![a] = draft']
    /\ UNCHANGED <<application, releases, publisher, lock>>

\* delete_draft.
DeleteDraft(a) ==
    /\ Matches(a)
    /\ draft' = None
    /\ UNCHANGED <<application, releases, editor, publisher, lock>>

----------------------------------------------------------------------------
(* Publication *)

\* publish_release up to the validated draft.
PublishRead(a) ==
    /\ Live /\ Unlocked
    /\ Publishable(draft)
    /\ Len(releases) < MaxReleases
    /\ lock' = a
    /\ publisher' = [publisher EXCEPT ![a] = draft]
    /\ UNCHANGED <<application, draft, releases, editor>>

\* Mutant: the content is read again when the snapshot is written.
Snapshot_Reread(d) ==
    [version |-> d.version, row |-> IF draft = None THEN d ELSE draft]

\* source_draft_version and draft_snapshot come from the one row that was read.
Snapshot(d) == [version |-> d.version, row |-> d]

\* publish_release from the profile to the commit.
PublishCommit(a) ==
    /\ publisher[a] # None
    /\ releases' = Append(releases, Snapshot(publisher[a]))
    /\ publisher' = [publisher EXCEPT ![a] = None]
    /\ lock' = Nobody
    /\ UNCHANGED <<application, draft, editor>>

\* publish_release when a model profile or a fallback is missing (409, 422): rolled back.
PublishFails(a) ==
    /\ publisher[a] # None
    /\ publisher' = [publisher EXCEPT ![a] = None]
    /\ lock' = Nobody
    /\ UNCHANGED <<application, draft, releases, editor>>

AuthoringNext ==
    \/ CreateApplication
    \/ UpdateApplication
    \/ DeleteApplication
    \/ \E content \in Contents : CreateDraft(content)
    \/ \E a \in Admins : \/ ReadDraft(a)
                         \/ \E content \in Contents : UpdateDraft(a, content)
                         \/ DeleteDraft(a)
                         \/ PublishRead(a)
                         \/ PublishCommit(a)
                         \/ PublishFails(a)

----------------------------------------------------------------------------
(* Properties *)

\* A release is valid and is one draft that really was there: draft updates that commit
\* while a publication runs never leave a release with the version of one draft and the
\* content of another, and a draft that was changed after its validation is not published
\* on the strength of it (agents.py, publish_release).
SnapshotsAreDrafts ==
    \A n \in DOMAIN releases :
       /\ releases[n].row.version = releases[n].version
       /\ Valid(releases[n].row.content)

\* As long as a draft is not deleted, an update replaces exactly the content its author
\* had read, whatever other editors do (agents.py, update_draft and its If-Match).
UpdatesWhatWasRead ==
    [][\A a \in Admins : \A content \in Contents :
          UpdateDraft(a, content) /\ editor[a].life = draft.life
             => editor[a].content = draft.content]_draftVars

\* docs/adr/0034: 更新使用版本或 If-Match.  The same without the restriction to one life of
\* the draft does not hold: a draft that is deleted and created again has version 1 again.
UpdatesWhatWasReadEver ==
    [][\A a \in Admins : \A content \in Contents :
          UpdateDraft(a, content) => editor[a].content = draft.content]_draftVars
=============================================================================
