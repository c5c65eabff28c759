--------------------------- MODULE DocumentKernel ---------------------------
(***************************************************************************)
(* The document kernel of the Gateway: the documents, their versions and   *)
(* leases, and the operations (proposals and drafts) of agent runs and     *)
(* users that change them.                                                 *)
(*                                                                         *)
(* The Gateway is one Node process over SQLite.  A transaction and the     *)
(* synchronous code around it are one step; what interleaves are the tasks *)
(* separated by an await: a command between its handler and its            *)
(* transaction, a selection rewrite between its plan and its row, an       *)
(* external synchronisation between its conflict pass and its save, and a  *)
(* doc-writer dispatch.  A crash loses these tasks and keeps the database. *)
(***************************************************************************)
EXTENDS Naturals, Sequences, FiniteSets

CONSTANTS
    Docs,           \* ids of imported and externally projected documents
    Drafts,         \* ids drawn by document.create for its drafts
    Ops,            \* operation ids
    Runs,           \* agent runs; a run is also its agent-modification mark
    User,           \* the author of a version no operation wrote
    Null,           \* SQL NULL
    MaxVersion,     \* bound: no document goes beyond this version
    MaxItems        \* bound: an operation holds at most this many items

ASSUME IdsAssumption ==
    /\ Docs \cap Drafts = {}
    /\ Ops \cap Runs = {}
    /\ Docs \cap Ops = {} /\ Drafts \cap Ops = {}
    /\ User \notin Ops \cup Runs
    /\ Null \notin Docs \cup Drafts \cup Ops \cup Runs \cup {User} \cup Nat

ASSUME BoundsAssumption == MaxVersion \in Nat /\ MaxItems \in Nat

VARIABLES
    docs,           \* docs[d]: the row of d in documents
    history,        \* history[d]: its rows in doc_versions, oldest first
    ops,            \* ops[o]: the row of o in document_operations
    cmds,           \* cmds[d]: the command of d's queue that awaits its handler
    sync,           \* sync[d]: base version of the queued external save of d
    runs,           \* runs[r]: whether the agent run is new, live or ended
    drafting        \* drafting[r]: the document of r's doc-writer dispatch

vars == <<docs, history, ops, cmds, sync, runs, drafting>>

AllDocs == Docs \cup Drafts
Writers == Ops \cup Runs \cup {User}

Kinds == {"create", "edit", "continue", "rewrite"}
Building == {"created", "running", "awaiting_input"}
Active == Building \cup {"awaiting_review", "applying"}
Terminal == {"completed", "rejected", "conflicted", "failed", "cancelled", "expired"}
Rows == Active \cup Terminal

Types == {"stream.begin", "stream.append", "stream.commit", "item.append",
          "operation.prepare", "operation.start", "operation.cancel",
          "review.apply", "review.reject", "review.close",
          "item.accept", "item.reject"}
Commits == {"stream.commit", "review.apply", "item.accept"}

Absent == [status |-> "absent", version |-> 0, lease |-> Null, trashed |-> FALSE]
Blank == [status |-> "none", kind |-> "none", run |-> Null, doc |-> Null,
          draft |-> Null, base |-> Null, rev |-> 0, expires |-> FALSE,
          pending |-> 0, applied |-> 0]
\* A deleted row; its draft id is never drawn again.
Gone(op) == [Blank EXCEPT !.status = "gone", !.draft = op.draft]
Idle == [op |-> Null, type |-> "idle", rev |-> 0, basis |-> 0, items |-> 0]

TypeOK ==
    /\ docs \in [AllDocs -> [status : {"absent", "draft", "active"}, version : Nat,
                             lease : Ops \cup Runs \cup {Null}, trashed : BOOLEAN]]
    /\ history \in [AllDocs -> Seq([by : Writers, basis : Nat])]
    /\ ops \in [Ops -> [status : Rows \cup {"none", "planned", "gone"},
                        kind : Kinds \cup {"none"}, run : Runs \cup {Null},
                        doc : AllDocs \cup {Null}, draft : Drafts \cup {Null},
                        base : Nat \cup {Null}, rev : Nat, expires : BOOLEAN,
                        pending : Nat, applied : Nat]]
    /\ cmds \in [AllDocs -> [op : Ops \cup {Null}, type : Types \cup {"idle"},
                             rev : Nat, basis : Nat, items : Nat]]
    /\ sync \in [Docs -> Nat]
    /\ runs \in [Runs -> {"new", "live", "ended"}]
    /\ drafting \in [Runs -> AllDocs \cup {Null}]

Init ==
    /\ docs = [d \in AllDocs |-> Absent]
    /\ history = [d \in AllDocs |-> << >>]
    /\ ops = [o \in Ops |-> Blank]
    /\ cmds = [d \in AllDocs |-> Idle]
    /\ sync = [d \in Docs |-> 0]
    /\ runs = [r \in Runs |-> "new"]
    /\ drafting = [r \in Runs |-> Null]

(***************************************************************************)
(* The state machine of an operation                                       *)
(***************************************************************************)

Transitions == [
    created         |-> {"running", "conflicted", "cancelled", "failed"},
    running         |-> {"awaiting_input", "awaiting_review", "applying", "completed",
                         "conflicted", "cancelled", "failed", "expired"},
    awaiting_input  |-> {"running", "awaiting_review", "applying", "conflicted",
                         "cancelled", "failed", "expired"},
    awaiting_review |-> {"applying", "rejected", "conflicted", "cancelled", "failed"},
    applying        |-> {"awaiting_review", "completed", "conflicted", "failed"},
    completed       |-> {},
    rejected        |-> {},
    conflicted      |-> {"cancelled"},
    failed          |-> {},
    cancelled       |-> {},
    expired         |-> {}]

\* assertDocumentOperationTransition
CanMove(s, t) == s = t \/ t \in Transitions[s]

\* One mutation of an operation row: its status and the next revision.
Move(op, s) == [op EXCEPT !.status = s, !.rev = @ + 1]

(***************************************************************************)
(* Documents and leases                                                    *)
(***************************************************************************)

Exists(d) == docs[d].status # "absent"

\* What save and restoreVersion require: not in trash, no lease of any kind.
Writable(d) == Exists(d) /\ ~docs[d].trashed /\ docs[d].lease = Null

Free(D, S) ==
    [d \in AllDocs |-> IF D[d].lease \in S THEN [D[d] EXCEPT !.lease = Null] ELSE D[d]]

\* Deleting documents deletes their versions and, by the foreign key, the
\* operations that name them.
DocsWithout(D, S) == [d \in AllDocs |-> IF d \in S THEN Absent ELSE D[d]]
HistoryWithout(S) == [d \in AllDocs |-> IF d \in S THEN << >> ELSE history[d]]
OpsWithout(O, S) ==
    [o \in Ops |-> IF O[o].status \in Rows /\ O[o].doc \in S THEN Gone(O[o]) ELSE O[o]]

\* Mutant: only operations still being built are looked at.
BuildingRivals(d, v, o) ==
    {x \in Ops \ {o} : /\ ops[x].status \in Building
                       /\ ops[x].doc = d
                       /\ ops[x].base \notin {Null, v}}

\* The operations a new version v of d makes stale, and what becomes of them.
Rivals(d, v, o) ==
    {x \in Ops \ {o} : /\ ops[x].status \in Active
                       /\ ops[x].doc = d
                       /\ ops[x].base \notin {Null, v}}
Conflicted(O, S) == [o \in Ops |-> IF o \in S THEN Move(O[o], "conflicted") ELSE O[o]]

\* The draft of a document.create operation, as the clean-up paths check it.
OwnsDraft(o) == /\ docs[ops[o].draft].status = "draft"
                /\ docs[ops[o].draft].version = 0
                /\ docs[ops[o].draft].lease = o
DraftRemovable(o) == docs[ops[o].draft].status = "absent" \/ OwnsDraft(o)

(***************************************************************************)
(* Documents: import, save, restore, trash, delete                         *)
(***************************************************************************)

Import(d) ==
    /\ ~Exists(d)
    /\ docs' = [docs EXCEPT ![d] = [Absent EXCEPT !.status = "active", !.version = 1]]
    /\ history' = [history EXCEPT ![d] = << [by |-> User, basis |-> 0] >>]
    /\ UNCHANGED <<ops, cmds, sync, runs, drafting>>

\* Mutant: the compare-and-swap forgets the version.
AdvanceBlindly(d, b) ==
    LET S == Rivals(d, b + 1, Null)
    IN  /\ b < MaxVersion
        /\ docs' = Free([docs EXCEPT ![d].version = b + 1], S)
        /\ history' = [history EXCEPT ![d] = Append(@, [by |-> User, basis |-> b])]
        /\ ops' = Conflicted(ops, S)

\* Mutant: the conflict pass is left out of the transaction.
AdvanceAlone(d, b) ==
    /\ docs[d].version = b
    /\ b < MaxVersion
    /\ docs' = [docs EXCEPT ![d].version = b + 1]
    /\ history' = [history EXCEPT ![d] = Append(@, [by |-> User, basis |-> b])]
    /\ ops' = ops

\* The commit of a version nobody's operation wrote, computed from version b:
\* the compare-and-swap on the version, the version row, and the conflict pass
\* that runs in the same transaction.
Advance(d, b) ==
    LET S == Rivals(d, b + 1, Null)
    IN  /\ docs[d].version = b
        /\ b < MaxVersion
        /\ docs' = Free([docs EXCEPT ![d].version = b + 1], S)
        /\ history' = [history EXCEPT ![d] = Append(@, [by |-> User, basis |-> b])]
        /\ ops' = Conflicted(ops, S)

Save(d, b) ==
    /\ Writable(d)
    /\ Advance(d, b)
    /\ UNCHANGED <<cmds, sync, runs, drafting>>

\* Restoring version n appends its content as the next version.
RestoreVersion(d, n, b) ==
    /\ Writable(d)
    /\ n \in DOMAIN history[d]
    /\ Advance(d, b)
    /\ UNCHANGED <<cmds, sync, runs, drafting>>

Trash(d) ==
    /\ Writable(d)
    /\ docs' = [docs EXCEPT ![d].trashed = TRUE]
    /\ UNCHANGED <<history, ops, cmds, sync, runs, drafting>>

Restore(d) ==
    /\ docs[d].trashed
    /\ docs' = [docs EXCEPT ![d].trashed = FALSE]
    /\ UNCHANGED <<history, ops, cmds, sync, runs, drafting>>

Delete(S) ==
    /\ docs' = DocsWithout(docs, S)
    /\ history' = HistoryWithout(S)
    /\ ops' = OpsWithout(ops, S)
    /\ UNCHANGED <<cmds, sync, runs, drafting>>

DeletePermanently(d) == docs[d].trashed /\ Delete({d})

\* The documents of this module are those of one Room.
EmptyTrash ==
    LET S == {d \in AllDocs : docs[d].trashed}
    IN  S # {} /\ Delete(S)

(***************************************************************************)
(* External synchronisation                                                *)
(***************************************************************************)

\* A changed source conflicts every active operation of the document, each in
\* a transaction of its own, before the save is even queued.  Bound: one
\* synchronisation of a document at a time.
SyncBegin(d, changed) ==
    LET v == docs[d].version
        S == IF changed THEN Rivals(d, v + 1, Null) ELSE {}
    IN  /\ Exists(d)
        /\ sync[d] = 0
        /\ ops' = Conflicted(ops, S)
        /\ docs' = Free(docs, S)
        /\ sync' = [sync EXCEPT ![d] = v]
        /\ UNCHANGED <<history, cmds, runs, drafting>>

SyncSave(d) ==
    /\ sync[d] # 0
    /\ Writable(d)
    /\ Advance(d, sync[d])
    /\ sync' = [sync EXCEPT ![d] = 0]
    /\ UNCHANGED <<cmds, runs, drafting>>

\* The queued save fails, or finds its content already there.
SyncDrop(d) ==
    /\ sync[d] # 0
    /\ sync' = [sync EXCEPT ![d] = 0]
    /\ UNCHANGED <<docs, history, ops, cmds, runs, drafting>>

(***************************************************************************)
(* The doc-writer dispatch of a run and its agent-modification mark        *)
(***************************************************************************)

StartRun(r) ==
    /\ runs[r] = "new"
    /\ runs' = [runs EXCEPT ![r] = "live"]
    /\ UNCHANGED <<docs, history, ops, cmds, sync, drafting>>

DraftBegin(r, d) ==
    /\ runs[r] = "live"
    /\ drafting[r] = Null
    /\ Exists(d) /\ ~docs[d].trashed
    /\ drafting' = [drafting EXCEPT ![r] = d]
    /\ docs' = [docs EXCEPT ![d].lease = IF @ = Null THEN r ELSE @]
    /\ UNCHANGED <<history, ops, cmds, sync, runs>>

\* Mutant: clearing the mark clears any lease.
DraftEndClearsAll(r) ==
    LET d == drafting[r]
    IN  /\ d # Null
        /\ drafting' = [drafting EXCEPT ![r] = Null]
        /\ docs' = [docs EXCEPT ![d].lease = Null]
        /\ UNCHANGED <<history, ops, cmds, sync, runs>>

\* Mutant: a dispatch that ends forgets its mark.
DraftEndForgets(r) ==
    /\ drafting[r] # Null
    /\ drafting' = [drafting EXCEPT ![r] = Null]
    /\ UNCHANGED <<docs, history, ops, cmds, sync, runs>>

\* The mark is cleared whoever set it; an operation's lease never is.
DraftEnd(r) ==
    LET d == drafting[r]
    IN  /\ d # Null
        /\ drafting' = [drafting EXCEPT ![r] = Null]
        /\ docs' = [docs EXCEPT ![d].lease = IF @ \in Runs THEN Null ELSE @]
        /\ UNCHANGED <<history, ops, cmds, sync, runs>>

(***************************************************************************)
(* Creating operations                                                     *)
(***************************************************************************)

\* Mutant: the operation is begun without a deadline.
BeginPatchForGood(o, r, d, kind, b) ==
    /\ runs[r] = "live"
    /\ ops[o].status = "none"
    /\ kind \in {"edit", "continue"}
    /\ Writable(d)
    /\ docs[d].version = b
    /\ docs' = [docs EXCEPT ![d].lease = o]
    /\ ops' = [ops EXCEPT ![o] = [Blank EXCEPT !.status = "running", !.kind = kind,
                                  !.run = r, !.doc = d, !.base = b, !.rev = 1]]
    /\ UNCHANGED <<history, cmds, sync, runs, drafting>>

\* patch_begin: the row and the lease in one transaction, the lease by a
\* compare-and-swap on the version, the trash and the lease itself.
BeginPatch(o, r, d, kind, b) ==
    /\ runs[r] = "live"
    /\ ops[o].status = "none"
    /\ kind \in {"edit", "continue"}
    /\ Writable(d)
    /\ docs[d].version = b
    /\ docs' = [docs EXCEPT ![d].lease = o]
    /\ ops' = [ops EXCEPT ![o] = [Blank EXCEPT !.status = "running", !.kind = kind,
                                  !.run = r, !.doc = d, !.base = b, !.rev = 1,
                                  !.expires = TRUE]]
    /\ UNCHANGED <<history, cmds, sync, runs, drafting>>

\* write_begin: the row names the draft in its input, not as its document.
BeginCreate(o, r, d) ==
    /\ runs[r] = "live"
    /\ ops[o].status = "none"
    /\ \A x \in Ops : ops[x].draft # d
    /\ ops' = [ops EXCEPT ![o] = [Blank EXCEPT !.status = "running", !.kind = "create",
                                  !.run = r, !.draft = d, !.rev = 1, !.expires = TRUE]]
    /\ UNCHANGED <<docs, history, cmds, sync, runs, drafting>>

\* A selection rewrite checks the document, then awaits before its row exists.
PlanRewrite(o, r, d, b) ==
    /\ ops[o].status = "none"
    /\ Exists(d) /\ ~docs[d].trashed
    /\ docs[d].version = b
    /\ ops' = [ops EXCEPT ![o] = [Blank EXCEPT !.status = "planned", !.kind = "rewrite",
                                  !.run = r, !.doc = d, !.base = b]]
    /\ UNCHANGED <<docs, history, cmds, sync, runs, drafting>>

\* No lease and no check of the version; only the foreign key can refuse it.
CreateRewrite(o) ==
    /\ ops[o].status = "planned"
    /\ ops' = [ops EXCEPT ![o] = IF Exists(ops[o].doc) THEN Move(@, "running") ELSE Gone(@)]
    /\ UNCHANGED <<docs, history, cmds, sync, runs, drafting>>

(***************************************************************************)
(* Commands                                                                *)
(***************************************************************************)

\* The queue that serialises an operation's commands.
Key(o) == IF ops[o].doc # Null THEN ops[o].doc ELSE ops[o].draft

\* What authoritativeDocument and prepareOperationCommit require of a commit.
ReadyToCommit(o) == Writable(ops[o].doc) /\ docs[ops[o].doc].version = ops[o].base

\* The commands each capability accepts; n is the number of items they carry.
\* stream.begin and operation.start are queued with the row they belong to, so
\* that no other command of their operation finds its first revision.
CreateAccepts(o, type, n) ==
    \/ type = "stream.begin" /\ ops[o].rev = 1 /\ n = 0
    \/ type = "stream.append" /\ ops[o].rev > 1 /\ n = 1
    \/ type = "stream.commit" /\ OwnsDraft(o) /\ n = 0
    \/ type = "operation.cancel" /\ ops[o].rev > 1 /\ n = 0

\* The tools of a patch find it only while it is running.
RunningPatch(o) == ops[o].status = "running" /\ ops[o].kind \in {"edit", "continue"}

\* patch_hunk: a batch of a continuation may hold several items.
HunkAccepts(o, type, n) ==
    /\ RunningPatch(o)
    /\ type = "item.append" /\ n > 0
    /\ ops[o].kind = "edit" => n = 1

\* patch_commit hands a patch with items to review.
PrepareAccepts(o, type, n) ==
    /\ RunningPatch(o)
    /\ type = "operation.prepare" /\ ops[o].pending > 0 /\ n = 0

\* The desktop may cancel a patch at any time.
PatchAccepts(o, type, n) ==
    \/ HunkAccepts(o, type, n)
    \/ PrepareAccepts(o, type, n)
    \/ type = "operation.cancel" /\ n = 0

EditAccepts(o, type, n) ==
    \/ type = "review.reject" /\ n = 0
    \/ type = "review.apply" /\ n \in 1..ops[o].pending /\ ReadyToCommit(o)

\* Mutant: rejecting an item does not look for it.
ContinueRejectsAny(o, type, n) ==
    \/ type \in {"review.close", "item.reject"} /\ n = 0
    \/ type = "item.accept" /\ ops[o].pending > 0 /\ ReadyToCommit(o) /\ n = 1

ContinueAccepts(o, type, n) ==
    \/ type = "review.close" /\ n = 0
    \/ type = "item.reject" /\ ops[o].pending > 0 /\ n = 0
    \/ type = "item.accept" /\ ops[o].pending > 0 /\ ReadyToCommit(o) /\ n = 1

RewriteAccepts(o, type, n) ==
    \/ type = "operation.start" /\ ops[o].rev = 1 /\ n = 1
    \/ type \in {"review.reject", "operation.cancel"} /\ ops[o].rev > 1 /\ n = 0
    \/ /\ type = "review.apply" /\ ops[o].rev > 1
       /\ n = ops[o].pending /\ ReadyToCommit(o)

Accepts(o, type, n) ==
    \/ ops[o].kind = "create" /\ CreateAccepts(o, type, n)
    \/ ops[o].kind \in {"edit", "continue"} /\ PatchAccepts(o, type, n)
    \/ ops[o].kind = "edit" /\ EditAccepts(o, type, n)
    \/ ops[o].kind = "continue" /\ ContinueAccepts(o, type, n)
    \/ ops[o].kind = "rewrite" /\ RewriteAccepts(o, type, n)

\* The terminal gate: a finished operation takes no command, except that a
\* conflicted one may be cancelled.
Admits(o, type) ==
    \/ ops[o].status \in Active
    \/ ops[o].status = "conflicted" /\ type = "operation.cancel"

\* A command reaches the head of its queue with the current revision, passes
\* the gate and runs its handler; its transaction comes after the await.
StartCommand(o, type, n) ==
    LET d == Key(o)
    IN  /\ ops[o].status \in Rows
        /\ cmds[d] = Idle
        /\ Admits(o, type)
        /\ Accepts(o, type, n)
        /\ type \in {"stream.append", "item.append"} => ops[o].pending + n =< MaxItems
        /\ type \in Commits => docs[d].version < MaxVersion
        /\ cmds' = [cmds EXCEPT ![d] = [op |-> o, type |-> type, rev |-> ops[o].rev,
                                        basis |-> docs[d].version, items |-> n]]
        /\ UNCHANGED <<docs, history, ops, sync, runs, drafting>>

\* The status a command asks for.
Target(op, type) ==
    CASE type \in {"stream.append", "item.append"} -> op.status
      [] type = "stream.begin" -> "running"
      [] type \in {"operation.prepare", "operation.start"} -> "awaiting_review"
      [] type \in {"stream.commit", "review.apply"} -> "completed"
      [] type = "review.reject" -> "rejected"
      [] type = "operation.cancel" -> "cancelled"
      [] type = "item.accept" -> IF op.pending > 1 THEN "awaiting_review" ELSE "completed"
      [] type = "item.reject" /\ op.pending > 1 -> "awaiting_review"
      [] OTHER -> IF op.applied > 0 THEN "completed" ELSE "rejected"

\* A commit under review passes through applying in the same transaction.
ThroughApplying(op, type) == op.status = "awaiting_review" /\ type \in Commits
Legal(op, type) ==
    IF ThroughApplying(op, type)
    THEN CanMove(op.status, "applying") /\ CanMove("applying", Target(op, type))
    ELSE CanMove(op.status, Target(op, type))

\* Items still to decide after a command.
PendingAfter(op, c) ==
    CASE c.type \in {"stream.append", "item.append", "operation.start"} -> op.pending + c.items
      [] c.type \in {"item.accept", "item.reject"} -> op.pending - 1
      [] c.type \in {"review.apply", "review.reject", "review.close", "stream.commit"} -> 0
      [] OTHER -> IF op.kind = "rewrite" THEN 0 ELSE op.pending

\* Mutant: a rejected item counts as applied.
RejectedApplied(op, c) ==
    CASE c.type \in {"review.apply", "item.accept"} -> op.applied + c.items
      [] c.type = "item.reject" -> op.applied + 1
      [] c.type = "stream.commit" -> op.pending
      [] OTHER -> op.applied

\* Items written into a version after a command.
AppliedAfter(op, c) ==
    CASE c.type \in {"review.apply", "item.accept"} -> op.applied + c.items
      [] c.type = "stream.commit" -> op.pending
      [] OTHER -> op.applied

\* The operation row a command leaves behind.
After(op, c) ==
    [op EXCEPT !.status = Target(op, c.type),
               !.rev = @ + IF ThroughApplying(op, c.type) THEN 2 ELSE 1,
               !.doc = IF c.type = "stream.commit" THEN op.draft ELSE @,
               !.base = IF c.type \in {"stream.commit", "item.accept"}
                        THEN c.basis + 1 ELSE @,
               !.expires = CASE c.type = "stream.append" -> TRUE
                             [] c.type \in {"operation.prepare", "operation.start"} -> FALSE
                             [] OTHER -> @,
               !.pending = PendingAfter(op, c),
               !.applied = AppliedAfter(op, c)]

\* Mutant: the transaction does not compare the revision.
StillThere(c) == c.op # Null /\ ops[c.op].status \in Rows

\* The command's operation has not changed since the handler read it.
Unchanged(c) == c.op # Null /\ ops[c.op].status \in Rows /\ ops[c.op].rev = c.rev

\* Mutant: a command leaves the lease where it is.
ReleasesNothing(c) == {}

\* An operation's lease goes when it leaves the building statuses.
Releases(c) == IF Target(ops[c.op], c.type) \in Building THEN {} ELSE {c.op}

\* Mutant: the lease is not looked at again after the await.
CommittableOverLease(d, c) ==
    Exists(d) /\ ~docs[d].trashed /\ docs[d].version = c.basis

\* prepareAtomicCommit, once more after the await.
Committable(d, c) ==
    /\ Exists(d) /\ ~docs[d].trashed
    /\ docs[d].lease \in {Null, c.op}
    /\ docs[d].version = c.basis

CanCommit(d, c) ==
    c.type \in Commits /\ Unchanged(c) /\ Legal(ops[c.op], c.type) /\ Committable(d, c)

\* A command that writes a version: document, version row, operation and the
\* conflict pass over the other operations, in one transaction.
CommitCommand(d) ==
    LET c == cmds[d]
        S == Rivals(d, c.basis + 1, c.op)
    IN  /\ CanCommit(d, c)
        /\ docs' = Free([docs EXCEPT ![d].version = c.basis + 1,
                                     ![d].status = IF c.type = "stream.commit"
                                                   THEN "active" ELSE @],
                        S \cup Releases(c))
        /\ history' = [history EXCEPT ![d] = Append(@, [by |-> c.op, basis |-> c.basis])]
        /\ ops' = [Conflicted(ops, S) EXCEPT ![c.op] = After(ops[c.op], c)]
        /\ cmds' = [cmds EXCEPT ![d] = Idle]
        /\ UNCHANGED <<sync, runs, drafting>>

\* The begin and append commands of document.create write its draft.
CanDraft(d, c) ==
    /\ Unchanged(c) /\ Legal(ops[c.op], c.type)
    /\ \/ c.type = "stream.begin" /\ ~Exists(d)
       \/ c.type = "stream.append" /\ OwnsDraft(c.op)

DraftCommand(d) ==
    LET c == cmds[d]
    IN  /\ CanDraft(d, c)
        /\ docs' = [docs EXCEPT ![d] = [Absent EXCEPT !.status = "draft", !.lease = c.op]]
        /\ ops' = [ops EXCEPT ![c.op] = After(@, c)]
        /\ cmds' = [cmds EXCEPT ![d] = Idle]
        /\ UNCHANGED <<history, sync, runs, drafting>>

\* Cancelling document.create deletes its draft in the same transaction.
CanDropDraft(c) ==
    /\ c.type = "operation.cancel" /\ Unchanged(c) /\ ops[c.op].kind = "create"
    /\ Legal(ops[c.op], c.type) /\ DraftRemovable(c.op)

DropDraftCommand(d) ==
    LET c == cmds[d]
    IN  /\ CanDropDraft(c)
        /\ docs' = DocsWithout(docs, {d})
        /\ history' = HistoryWithout({d})
        /\ ops' = OpsWithout([ops EXCEPT ![c.op] = After(@, c)], {d})
        /\ cmds' = [cmds EXCEPT ![d] = Idle]
        /\ UNCHANGED <<sync, runs, drafting>>

\* Every other command changes its operation only.
CanDecide(c) ==
    /\ c.type \notin Commits \cup {"stream.begin", "stream.append"}
    /\ Unchanged(c) /\ Legal(ops[c.op], c.type)
    /\ ops[c.op].kind = "create" => c.type # "operation.cancel"

DecideCommand(d) ==
    LET c == cmds[d]
    IN  /\ CanDecide(c)
        /\ docs' = Free(docs, Releases(c))
        /\ ops' = [ops EXCEPT ![c.op] = After(@, c)]
        /\ cmds' = [cmds EXCEPT ![d] = Idle]
        /\ UNCHANGED <<history, sync, runs, drafting>>

\* Something changed during the await: the command fails and changes nothing.
RejectCommand(d) ==
    LET c == cmds[d]
    IN  /\ c # Idle
        /\ ~(CanCommit(d, c) \/ CanDraft(d, c) \/ CanDropDraft(c) \/ CanDecide(c))
        /\ cmds' = [cmds EXCEPT ![d] = Idle]
        /\ UNCHANGED <<docs, history, ops, sync, runs, drafting>>

FinishCommand(d) ==
    CommitCommand(d) \/ DraftCommand(d) \/ DropDraftCommand(d)
        \/ DecideCommand(d) \/ RejectCommand(d)

(***************************************************************************)
(* Expiry, the end of a run, and restart                                   *)
(***************************************************************************)

\* Mutant: the drafts of the operations are left behind.
DraftsLeft(S) == {}

DraftsOf(S) == {ops[o].draft : o \in {x \in S : ops[x].kind = "create"}}

\* Outside the queues, the operations of S get a final status; their leases
\* and drafts go with them.
Settle(S, status) ==
    /\ \A o \in S : /\ CanMove(ops[o].status, status)
                   /\ ops[o].kind = "create" => DraftRemovable(o)
    /\ docs' = Free(DocsWithout(docs, DraftsOf(S)), S)
    /\ history' = HistoryWithout(DraftsOf(S))
    /\ ops' = OpsWithout([o \in Ops |-> IF o \in S THEN Move(ops[o], status) ELSE ops[o]],
                         DraftsOf(S))

\* The timer found o past its deadline.
Expire(o) ==
    /\ ops[o].status \in Building
    /\ ops[o].expires
    /\ Settle({o}, "expired")
    /\ UNCHANGED <<cmds, sync, runs, drafting>>

OfRun(r, statuses) == {o \in Ops : ops[o].run = r /\ ops[o].status \in statuses}

\* A completed run leaves its proposals to the user; any other end cancels all.
FinishRun(r, completed) ==
    /\ runs[r] = "live"
    /\ runs' = [runs EXCEPT ![r] = "ended"]
    /\ Settle(OfRun(r, IF completed THEN Building ELSE Active), "cancelled")
    /\ UNCHANGED <<cmds, sync, drafting>>

\* The second identical failure of patch_hunk gives up what the run builds.
GiveUp(r) ==
    /\ runs[r] = "live"
    /\ \E o \in OfRun(r, {"running"}) : ops[o].kind \in {"edit", "continue"}
    /\ Settle(OfRun(r, Building), "cancelled")
    /\ UNCHANGED <<cmds, sync, runs, drafting>>

\* The process dies and starts again.  What awaited is lost; orphaned marks
\* are cleared; an interrupted create fails, anything else is handed to review.
Restart ==
    LET R == {o \in Ops : ops[o].status \in {"running", "applying"}}
        F == {o \in R : ops[o].kind = "create"}
    IN  /\ \A o \in F : DraftRemovable(o)
        /\ docs' = Free(DocsWithout(docs, DraftsOf(F)), R \cup Runs)
        /\ history' = HistoryWithout(DraftsOf(F))
        /\ ops' = OpsWithout([o \in Ops |->
                        IF ops[o].status = "planned" THEN Gone(ops[o])
                        ELSE IF o \in F THEN Move(ops[o], "failed")
                        ELSE IF o \in R THEN Move(ops[o], "awaiting_review")
                        ELSE ops[o]], DraftsOf(F))
        /\ cmds' = [d \in AllDocs |-> Idle]
        /\ sync' = [d \in Docs |-> 0]
        /\ runs' = [r \in Runs |-> IF runs[r] = "live" THEN "ended" ELSE runs[r]]
        /\ drafting' = [r \in Runs |-> Null]

(***************************************************************************)
(* The specification                                                       *)
(***************************************************************************)

DocumentStep ==
    \/ \E d \in Docs : Import(d)
    \/ \E d \in AllDocs, b \in 0..MaxVersion : Save(d, b)
    \/ \E d \in AllDocs, n \in 1..MaxVersion, b \in 0..MaxVersion : RestoreVersion(d, n, b)
    \/ \E d \in AllDocs : Trash(d) \/ Restore(d) \/ DeletePermanently(d)
    \/ EmptyTrash

SyncStep == \E d \in Docs :
    \/ \E changed \in BOOLEAN : SyncBegin(d, changed)
    \/ SyncSave(d)
    \/ SyncDrop(d)

RunStep == \E r \in Runs :
    \/ StartRun(r)
    \/ \E d \in AllDocs : DraftBegin(r, d)
    \/ DraftEnd(r)
    \/ \E completed \in BOOLEAN : FinishRun(r, completed)
    \/ GiveUp(r)

OperationStep == \E o \in Ops :
    \/ \E r \in Runs, d \in AllDocs, kind \in {"edit", "continue"}, b \in 0..MaxVersion :
            BeginPatch(o, r, d, kind, b)
    \/ \E r \in Runs, d \in Drafts : BeginCreate(o, r, d)
    \/ \E r \in Runs, d \in AllDocs, b \in 0..MaxVersion : PlanRewrite(o, r, d, b)
    \/ CreateRewrite(o)
    \/ \E type \in Types, n \in 0..MaxItems : StartCommand(o, type, n)
    \/ Expire(o)

Next ==
    \/ DocumentStep
    \/ SyncStep
    \/ RunStep
    \/ OperationStep
    \/ \E d \in AllDocs : FinishCommand(d)
    \/ Restart

Spec == Init /\ [][Next]_vars

\* What the process keeps doing: a handler's await returns and its command is
\* finished, a queue is served in order (so a start command is not overtaken
\* for ever), a queued save is run or fails, a dispatch ends or times out, and
\* the expiry timer ticks.  Nothing obliges a user or an agent to act.
Fairness ==
    /\ \A d \in AllDocs : WF_vars(FinishCommand(d))
    /\ \A d \in Docs : WF_vars(SyncSave(d) \/ SyncDrop(d))
    /\ \A r \in Runs : WF_vars(DraftEnd(r))
    /\ \A o \in Ops : /\ WF_vars(CreateRewrite(o))
                      /\ SF_vars(StartCommand(o, "operation.start", 1))
                      /\ WF_vars(Expire(o))

FairSpec == Spec /\ Fairness

(***************************************************************************)
(* Safety                                                                  *)
(***************************************************************************)

\* The version counter of a document and its version rows agree, and a draft
\* has none (CommitService: the row and its version in one transaction).
VersionLog == \A d \in AllDocs : docs[d].version = Len(history[d])

\* Every version was computed from the one before it: no save, restore,
\* synchronisation or accepted proposal overwrites a version its author had
\* not seen, whatever happened while it waited in a queue or for a handler.
NoLostUpdate ==
    \A d \in AllDocs : \A n \in DOMAIN history[d] : history[d][n].basis = n - 1

\* An operation's lease on a document belongs to an operation that is being
\* built, on that document or on that draft: no exit from the building
\* statuses (prepare, cancel, conflict, expiry, run end, restart) leaks one.
LeaseOwner ==
    \A d \in AllDocs : docs[d].lease \in Ops =>
        LET o == docs[d].lease
        IN  /\ ops[o].status \in Building
            /\ \/ ops[o].kind \in {"edit", "continue"} /\ ops[o].doc = d
               \/ ops[o].kind = "create" /\ ops[o].draft = d /\ docs[d].status = "draft"

\* An edit or continuation being built holds the lease of its document, at
\* the version it was begun on: the mark of another run's dispatch, the trash
\* and a synchronisation never take it away and leave the operation building.
LeaseWhileBuilding ==
    \A o \in Ops :
        ops[o].kind \in {"edit", "continue"} /\ ops[o].status \in Building =>
            /\ docs[ops[o].doc].lease = o
            /\ docs[ops[o].doc].version = ops[o].base

\* A draft exists only while its document.create operation runs and owns it:
\* cancelling, expiring, failing over and committing each settle both rows.
NoOrphanDraft ==
    \A d \in AllDocs : docs[d].status = "draft" =>
        \E o \in Ops : /\ ops[o].kind = "create" /\ ops[o].status = "running"
                       /\ ops[o].draft = d /\ docs[d].lease = o

\* Whatever ends open operations from outside the queues, the timer, the end
\* of a run or recovery, can do so: none of them throws over one operation and
\* leaves those behind it, or the start of the server, unserved.
Settleable ==
    \A o \in Ops :
        /\ ops[o].status \in Active => CanMove(ops[o].status, "cancelled")
        /\ ops[o].status \in Building /\ ops[o].expires => CanMove(ops[o].status, "expired")
        /\ ops[o].kind = "create" /\ ops[o].status \in Active => DraftRemovable(o)

\* A proposal of an agent that is still open applies to the document as it
\* is: its document exists and its base is the current version.
ProposalsCurrent ==
    \A o \in Ops :
        ops[o].kind \in {"edit", "continue"} /\ ops[o].status \in Active =>
            /\ Exists(ops[o].doc)
            /\ ops[o].base = docs[ops[o].doc].version

\* The versions an operation wrote are those its decisions account for: one
\* per accepted item of a continuation, exactly one for any other operation
\* that completed, and none for one that did not.
Authored(o) ==
    IF Key(o) = Null THEN {}
    ELSE {n \in DOMAIN history[Key(o)] : history[Key(o)][n].by = o}
DecisionsAreVersions ==
    \A o \in Ops : ops[o].status \in Rows =>
        Cardinality(Authored(o)) =
            IF ops[o].kind = "continue" THEN ops[o].applied
            ELSE IF ops[o].status = "completed" THEN 1 ELSE 0

\* Whoever advances a document conflicts, in the same step, every operation
\* that is open on an older version of it.
ConflictsWithAdvance ==
    [][\A d \in AllDocs : docs'[d].version > docs[d].version =>
          \A o \in Ops : ops'[o].status \in Active /\ ops'[o].doc = d =>
              ops'[o].base = docs'[d].version]_vars

\* A finished operation stays as it is, except that a conflicted one may be
\* cancelled and that deleting its document deletes it: no late command,
\* timer, run end or restart reopens it.
Finality ==
    [][\A o \in Ops : ops[o].status \in Terminal =>
          \/ ops'[o] = ops[o]
          \/ ops'[o].status = "gone"
          \/ ops[o].status = "conflicted" /\ ops'[o].status = "cancelled"]_vars

\* No document stays leased for ever: whoever takes it, by an operation, a
\* draft or a dispatch, it becomes free again without a user's help.
LeasesEnd == \A d \in AllDocs : []<>(docs[d].lease = Null)

\* No operation runs for ever: it reaches review, completes, expires, or is
\* cancelled, conflicted, failed or deleted.  A selection rewrite has no
\* deadline and depends on its start command.
RunningEnds == \A o \in Ops : ops[o].status = "running" ~> ops[o].status # "running"

\* The kernel implements the abstract store: a log per document that only its
\* holder extends, each version computed from the latest.
Register == INSTANCE DocumentRegister
    WITH Documents <- AllDocs, NoHolder <- Null,
         log <- history, holder <- [d \in AllDocs |-> docs[d].lease]
Implements == Register!Spec
=============================================================================
