------------------------------ MODULE VaultPatch ------------------------------
(***************************************************************************)
(* One note of an Obsidian vault and the document that mirrors it.  Four   *)
(* parties touch them: the user, who edits the file in Obsidian and decides *)
(* on an agent's continuation in EverRoom; the desktop, which writes the    *)
(* accepted text to the file; its projections, which carry the file to the  *)
(* Gateway after every change; and the Gateway, which keeps the document,   *)
(* the operation, the commands executed and the patches prepared.           *)
(*                                                                         *)
(* A text is a set of marks: the user's edits and the agent's items.  A     *)
(* source hash is the text it was taken of.  Execution of a command is one  *)
(* step here; DocumentKernel has its two halves.                           *)
(***************************************************************************)
EXTENDS Naturals, Sequences, FiniteSets

CONSTANTS
    NItems,         \* items of the continuation under review
    Edits,          \* edits the user may make in Obsidian, each once
    Loops,          \* projections of the vault that may run at the same time
    MaxFaults       \* bound: crashes of the Gateway, and restarts of the desktop

ASSUME VaultAssumption ==
    NItems \in Nat \ {0} /\ MaxFaults \in Nat

Items == 1..NItems
Texts == SUBSET (Edits \cup Items)
Sessions == 0..MaxFaults
\* A command id names one decision on one item; the renderer keeps it over
\* retries and forgets it when the desktop restarts.
Cmds == [kind : {"accept", "reject"}, item : Items, session : Sessions]

VARIABLES
    file,           \* the note on disk
    doc,            \* the document: version and text
    bind,           \* the binding: hash and raw text of the last projection
    op,             \* the operation under review
    executed,       \* ids of the commands in the Gateway's command log
    prep,           \* prep[i][s]: the patch prepared for accepting i in session s
    entry,          \* the operation as the renderer last loaded it
    flow,           \* the decision being carried out
    loops,          \* loops[l]: a projection of the vault in progress
    writes,         \* saves of projections that wait in the document write queue
    notice,         \* a change of the vault has not been projected yet
    session,        \* restarts of the desktop so far
    crashes,        \* crashes of the Gateway so far
    disk,           \* history: marks that have been in the file
    risked,         \* history: edits the user made while EverRoom was saving
    told            \* history: the commands answered with success

gateway == <<doc, bind, op, executed, prep>>
desktop == <<entry, flow, loops, notice>>
history == <<disk, risked, told>>
vars == <<file, gateway, desktop, writes, session, crashes, history>>

NoPrep == [at |-> "none", rev |-> 0, from |-> {}, md |-> {}, hash |-> {}]
NoFlow == [at |-> "idle", kind |-> "accept", item |-> 1, rev |-> 0, from |-> {},
           md |-> {}, hash |-> {}]
NoLoop == [at |-> "idle", text |-> {}, base |-> 0]
Revs == 0..(2 * NItems + 1)
Ops == [status : {"awaiting_review", "completed", "rejected", "conflicted"},
        rev : Revs, base : Nat,
        items : [Items -> {"pending", "applied", "rejected"}]]

TypeOK ==
    /\ file \in Texts
    /\ doc \in [version : Nat \ {0}, text : Texts]
    /\ bind \in [hash : Texts, md : Texts]
    /\ op \in Ops /\ entry \in Ops
    /\ executed \subseteq Cmds /\ told \subseteq executed
    /\ prep \in [Items -> [Sessions -> [at : {"none", "pending", "expired", "completed"},
                                        rev : Revs, from : Texts, md : Texts,
                                        hash : Texts]]]
    /\ flow \in [at : {"idle", "prepare", "prepared", "save", "write", "written",
                       "execute", "complete", "bind", "answer"},
                 kind : {"accept", "reject"}, item : Items, rev : Revs,
                 from : Texts, md : Texts, hash : Texts]
    /\ loops \in [Loops -> [at : {"idle", "read", "queued", "saved"},
                            text : Texts, base : Nat]]
    /\ writes \in Seq(Loops)
    /\ notice \in BOOLEAN
    /\ session \in Sessions /\ crashes \in 0..MaxFaults
    /\ disk \in Texts /\ risked \subseteq Edits

\* The note has been projected once and the agent has proposed a continuation.
Init ==
    /\ file = {} /\ disk = {} /\ risked = {}
    /\ doc = [version |-> 1, text |-> {}]
    /\ bind = [hash |-> {}, md |-> {}]
    /\ op = [status |-> "awaiting_review", rev |-> 1, base |-> 1,
             items |-> [i \in Items |-> "pending"]]
    /\ entry = op
    /\ executed = {} /\ told = {}
    /\ prep = [i \in Items |-> [s \in Sessions |-> NoPrep]]
    /\ flow = NoFlow
    /\ loops = [l \in Loops |-> NoLoop] /\ writes = << >>
    /\ notice = FALSE
    /\ session = 0 /\ crashes = 0

\* Between a commit and the rest of its handler the Gateway runs nothing else.
GatewayFree == flow.at # "bind" /\ \A l \in Loops : loops[l].at # "saved"
Saving == flow.at \in {"write", "written"}

Pending(o) == {i \in Items : o.items[i] = "pending"}
Current(o, i) == i \in Pending(o) /\ \A j \in Pending(o) : i <= j

(***************************************************************************)
(* The Gateway                                                             *)
(***************************************************************************)

\* conflictOtherActive: whatever is open on the document is conflicted.
Conflicted(o) ==
    IF o.status = "awaiting_review"
    THEN [o EXCEPT !.status = "conflicted", !.rev = @ + 1] ELSE o

\* continuationCommand: only the first undecided item may be decided, and an
\* accepted one applies to the version the operation was made for.
CapabilityAccepts(kind, i) ==
    /\ Current(op, i)
    /\ kind = "accept" => doc.version = op.base

Decided(kind, i) ==
    LET items == [op.items EXCEPT ![i] = IF kind = "accept" THEN "applied" ELSE "rejected"]
        left == {j \in Items : items[j] = "pending"}
    IN  [op EXCEPT !.items = items,
                   !.rev = IF kind = "accept" THEN @ + 2 ELSE @ + 1,
                   !.base = IF kind = "accept" THEN doc.version + 1 ELSE @,
                   !.status = IF left # {} THEN @
                              ELSE IF \E j \in Items : items[j] = "applied"
                                   THEN "completed" ELSE "rejected"]

\* requireTransition: an acceptance passes through applying, a rejection goes
\* from awaiting_review to where its item leaves the operation, and from there
\* no transition leads to completed: the last item cannot be rejected once
\* another one was applied.
Legal(kind, i) == Decided(kind, i).status = "completed" => kind = "accept"

\* A command in the log is answered from the log; any other one must carry the
\* current revision, find the operation open, be accepted by its capability and
\* lead to a status the operation may take.
Executes(c, rev) ==
    /\ c \notin executed
    /\ op.rev = rev /\ op.status = "awaiting_review"
    /\ CapabilityAccepts(c.kind, c.item) /\ Legal(c.kind, c.item)

\* Mutant: the command is carried out without a row in the log.
ExecuteUnlogged(c) ==
    /\ UNCHANGED executed
    /\ op' = Decided(c.kind, c.item)
    /\ doc' = IF c.kind = "accept"
              THEN [version |-> doc.version + 1, text |-> doc.text \cup {c.item}] ELSE doc

Execute(c) ==
    /\ executed' = executed \cup {c}
    /\ op' = Decided(c.kind, c.item)
    /\ doc' = IF c.kind = "accept"
              THEN [version |-> doc.version + 1, text |-> doc.text \cup {c.item}] ELSE doc

\* Mutant: the renderer keeps one command id per item, whatever the decision.
CmdOfItem(kind, i) == [kind |-> "accept", item |-> i, session |-> session]

Cmd(kind, i) == [kind |-> kind, item |-> i, session |-> session]
Refused == flow' = NoFlow

\* prepare forgets the patches that expired, whatever becomes of the request.
Unexpired == [i \in Items |-> [s \in Sessions |->
    IF prep[i][s].at = "expired" THEN NoPrep ELSE prep[i][s]]]

Reviewable == op.status = "awaiting_review" /\ op.rev = flow.rev
Prepared(p) == flow' = [flow EXCEPT !.at = "prepared", !.from = p.from, !.md = p.md]

\* The patch for an accepted item: found again by its command id, or computed
\* from the raw text of the last projection, to which it may fail to apply when
\* that differs from the document.
Prepare ==
    /\ flow.at = "prepare" /\ GatewayFree
    /\ LET i == flow.item
           p == Unexpired[i][session]
           new == [at |-> "pending", rev |-> flow.rev, from |-> bind.hash,
                   md |-> bind.md \cup {i}, hash |-> {}]
       IN  \/ /\ \/ ~Reviewable
                \/ /\ p = NoPrep
                   /\ CapabilityAccepts("accept", i) => bind.md # doc.text
             /\ Refused /\ prep' = Unexpired
          \/ /\ Reviewable /\ p # NoPrep
             /\ Prepared(p) /\ prep' = Unexpired
          \/ /\ Reviewable /\ p = NoPrep /\ CapabilityAccepts("accept", i)
             /\ Prepared(new) /\ prep' = [Unexpired EXCEPT ![i][session] = new]
    /\ UNCHANGED <<file, doc, bind, op, executed, entry, loops, writes, notice,
                   session, crashes, history>>

\* complete executes the prepared command, with the revision it was prepared at.
Complete ==
    /\ flow.at = "complete" /\ GatewayFree
    /\ LET c == Cmd("accept", flow.item)
           p == prep[flow.item][session]
           valid == /\ p.at \in {"pending", "completed"}
                    /\ p.at = "completed" => p.hash = flow.hash
           bound == flow' = [flow EXCEPT !.at = "bind"]
       IN  \/ /\ valid /\ c \in executed
             /\ bound /\ UNCHANGED <<doc, op, executed>>
          \/ /\ valid /\ Executes(c, p.rev)
             /\ bound /\ Execute(c)
          \/ /\ ~valid \/ (c \notin executed /\ ~Executes(c, p.rev))
             /\ Refused /\ UNCHANGED <<doc, op, executed>>
    /\ UNCHANGED <<file, bind, prep, entry, loops, writes, notice, session, crashes,
                   history>>

\* Mutant: the binding keeps the raw text of the projection before.
CompleteBindHash ==
    /\ flow.at = "bind"
    /\ prep' = [prep EXCEPT ![flow.item][session] =
                   [@ EXCEPT !.at = "completed", !.hash = flow.hash]]
    /\ bind' = [bind EXCEPT !.hash = flow.hash]
    /\ flow' = [flow EXCEPT !.at = "answer"]
    /\ UNCHANGED <<file, doc, op, executed, entry, loops, writes, notice, session,
                   crashes, history>>

\* The rest of complete, in a transaction of its own.
CompleteBind ==
    /\ flow.at = "bind"
    /\ prep' = [prep EXCEPT ![flow.item][session] =
                   [@ EXCEPT !.at = "completed", !.hash = flow.hash]]
    /\ bind' = [hash |-> flow.hash, md |-> prep[flow.item][session].md]
    /\ flow' = [flow EXCEPT !.at = "answer", !.from = {}, !.md = {}, !.hash = {}]
    /\ UNCHANGED <<file, doc, op, executed, entry, loops, writes, notice, session,
                   crashes, history>>

\* Mutant: the log is not consulted.
ExecuteAgain ==
    /\ flow.at = "execute" /\ GatewayFree
    /\ LET c == Cmd("reject", flow.item)
       IN  \/ /\ Executes(c, flow.rev)
             /\ flow' = [flow EXCEPT !.at = "answer"] /\ Execute(c)
          \/ /\ ~Executes(c, flow.rev)
             /\ Refused /\ UNCHANGED <<doc, op, executed>>
    /\ UNCHANGED <<file, bind, prep, entry, loops, writes, notice, session, crashes,
                   history>>

\* A rejection needs no patch and goes to the operation itself.
ExecuteCommand ==
    /\ flow.at = "execute" /\ GatewayFree
    /\ LET c == Cmd("reject", flow.item)
           answered == flow' = [flow EXCEPT !.at = "answer"]
       IN  \/ /\ c \in executed
             /\ answered /\ UNCHANGED <<doc, op, executed>>
          \/ /\ Executes(c, flow.rev)
             /\ answered /\ Execute(c)
          \/ /\ c \notin executed /\ ~Executes(c, flow.rev)
             /\ Refused /\ UNCHANGED <<doc, op, executed>>
    /\ UNCHANGED <<file, bind, prep, entry, loops, writes, notice, session, crashes,
                   history>>

\* Five minutes have passed; no command asks for the patches of a session before.
PrepExpire(i) ==
    /\ prep[i][session].at = "pending"
    /\ prep' = [prep EXCEPT ![i][session].at = "expired"]
    /\ UNCHANGED <<file, doc, bind, op, executed, desktop, writes, session, crashes,
                   history>>

\* sync: another hash conflicts what is open; then the text waits to be saved
\* over the version the handler has seen.
SyncBegin(l) ==
    /\ loops[l].at = "read" /\ GatewayFree
    /\ op' = IF bind.hash # loops[l].text THEN Conflicted(op) ELSE op
    /\ loops' = [loops EXCEPT ![l].at = "queued", ![l].base = doc.version]
    /\ writes' = Append(writes, l)
    /\ UNCHANGED <<file, doc, bind, executed, prep, entry, flow, notice, session,
                   crashes, history>>

\* The queued save.  The blocks of a parsed text get new ids, so that it never
\* equals the document: it is a new version, even when not a letter changed.
SyncSave(l) ==
    /\ writes # << >> /\ Head(writes) = l /\ GatewayFree
    /\ writes' = Tail(writes)
    /\ \/ /\ doc.version = loops[l].base
          /\ doc' = [version |-> doc.version + 1, text |-> loops[l].text]
          /\ op' = Conflicted(op)
          /\ loops' = [loops EXCEPT ![l].at = "saved"]
       \/ /\ doc.version # loops[l].base
          /\ loops' = [loops EXCEPT ![l] = NoLoop]
          /\ UNCHANGED <<doc, op>>
    /\ UNCHANGED <<file, bind, executed, prep, entry, flow, notice, session, crashes,
                   history>>

\* The rest of sync.
SyncBind(l) ==
    /\ loops[l].at = "saved"
    /\ bind' = [hash |-> loops[l].text, md |-> loops[l].text]
    /\ loops' = [loops EXCEPT ![l] = NoLoop]
    /\ UNCHANGED <<file, doc, op, executed, prep, entry, flow, writes, notice,
                   session, crashes, history>>

(***************************************************************************)
(* The user and the desktop                                                *)
(***************************************************************************)

\* A save in Obsidian; the watcher of the vault notices it.  Nothing keeps the
\* user from it while EverRoom saves the same note.
UserEdit(e) ==
    /\ e \notin disk
    /\ file' = file \cup {e} /\ disk' = disk \cup {e}
    /\ risked' = IF Saving THEN risked \cup {e} ELSE risked
    /\ notice' = TRUE
    /\ UNCHANGED <<gateway, entry, flow, loops, writes, session, crashes, told>>

\* The user decides the current item of the review as the renderer shows it; a
\* second command of the operation waits until the first is answered.
Decide(kind) ==
    /\ flow.at = "idle"
    /\ entry.status = "awaiting_review"
    /\ \E i \in Items :
          /\ Current(entry, i)
          /\ flow' = [NoFlow EXCEPT !.at = IF kind = "accept" THEN "prepare" ELSE "execute",
                                    !.kind = kind, !.item = i, !.rev = entry.rev]
    /\ UNCHANGED <<file, gateway, entry, loops, writes, notice, session, crashes,
                   history>>

\* Mutant: a note that has changed is taken for one already patched.
ReadNoteTrusting ==
    /\ flow.at = "prepared"
    /\ flow' = IF file = flow.from THEN [flow EXCEPT !.at = "save"]
               ELSE [flow EXCEPT !.at = "complete", !.hash = file]
    /\ UNCHANGED <<file, gateway, entry, loops, writes, notice, session, crashes,
                   history>>

\* The note is written only over the text the patch was made for; a note that
\* already has the patched text needs no writing.
ReadNote ==
    /\ flow.at = "prepared"
    /\ flow' = IF file = flow.from THEN [flow EXCEPT !.at = "save"]
               ELSE IF file = flow.md THEN [flow EXCEPT !.at = "complete", !.hash = file]
               ELSE NoFlow
    /\ UNCHANGED <<file, gateway, entry, loops, writes, notice, session, crashes,
                   history>>

\* saveNoteForAgent reads and compares again, writes, scans, and reads once more.
\* Mutant: the note is not compared again before it is written.
CheckNoteOnce ==
    /\ flow.at = "save"
    /\ flow' = [flow EXCEPT !.at = "write"]
    /\ UNCHANGED <<file, gateway, entry, loops, writes, notice, session, crashes,
                   history>>

CheckNote ==
    /\ flow.at = "save"
    /\ flow' = IF file = flow.from THEN [flow EXCEPT !.at = "write"] ELSE NoFlow
    /\ UNCHANGED <<file, gateway, entry, loops, writes, notice, session, crashes,
                   history>>

\* Mutant: the watcher does not see the desktop's own writes.
WriteNoteUnwatched ==
    /\ flow.at = "write"
    /\ file' = flow.md /\ disk' = disk \cup flow.md
    /\ flow' = [flow EXCEPT !.at = "written"]
    /\ UNCHANGED <<gateway, entry, loops, writes, notice, session, crashes, risked,
                   told>>

WriteNote ==
    /\ flow.at = "write"
    /\ file' = flow.md /\ disk' = disk \cup flow.md
    /\ notice' = TRUE
    /\ flow' = [flow EXCEPT !.at = "written"]
    /\ UNCHANGED <<gateway, entry, loops, writes, session, crashes, risked, told>>

RereadNote ==
    /\ flow.at = "written"
    /\ flow' = [flow EXCEPT !.at = "complete", !.hash = file]
    /\ UNCHANGED <<file, gateway, entry, loops, writes, notice, session, crashes,
                   history>>

\* The answer reaches the renderer; after a patch the vault is projected again.
Receive ==
    /\ flow.at = "answer"
    /\ entry' = op
    /\ told' = told \cup {Cmd(flow.kind, flow.item)}
    /\ notice' = (notice \/ flow.kind = "accept")
    /\ flow' = NoFlow
    /\ UNCHANGED <<file, gateway, loops, writes, session, crashes, disk, risked>>

\* The renderer loads the operation when it hears of a change.
Load ==
    /\ entry # op
    /\ entry' = op
    /\ UNCHANGED <<file, gateway, flow, loops, writes, notice, session, crashes,
                   history>>

\* projectRoomVault: started by a change, it reads the note and carries it to
\* the Gateway, whether or not another projection is doing so.  A projection has
\* no name: any that is free stands for the one that starts.
ProjectNote(l) ==
    /\ notice /\ loops[l].at = "idle"
    /\ l = CHOOSE m \in Loops : loops[m].at = "idle"
    /\ notice' = FALSE
    /\ loops' = [loops EXCEPT ![l].at = "read", ![l].text = file]
    /\ UNCHANGED <<file, gateway, entry, flow, writes, session, crashes, history>>

\* The Gateway dies: what it was doing is lost, a request under way fails, and
\* one that had not reached it, or was answered, may go on.
GatewayCrash ==
    /\ crashes + session < MaxFaults
    /\ crashes' = crashes + 1
    /\ writes' = << >>
    /\ loops' = [l \in Loops |-> IF loops[l].at \in {"queued", "saved"} THEN NoLoop
                                 ELSE loops[l]]
    /\ \/ flow.at \in {"bind", "answer", "prepare", "prepared", "execute", "complete"}
          /\ flow' = NoFlow
       \/ flow.at \notin {"bind", "answer"} /\ UNCHANGED flow
    /\ UNCHANGED <<file, gateway, entry, notice, session, history>>

\* The desktop and its Gateway restart; every vault is projected.
Restart ==
    /\ crashes + session < MaxFaults
    /\ session' = session + 1
    /\ entry' = op /\ flow' = NoFlow
    /\ loops' = [l \in Loops |-> NoLoop] /\ writes' = << >>
    /\ notice' = TRUE
    /\ UNCHANGED <<file, gateway, crashes, history>>

Flow == \/ Prepare \/ ReadNote \/ CheckNote \/ WriteNote \/ RereadNote
        \/ Complete \/ CompleteBind \/ ExecuteCommand \/ Receive
Project(l) == ProjectNote(l) \/ SyncBegin(l) \/ SyncSave(l) \/ SyncBind(l)

Next ==
    \/ \E kind \in {"accept", "reject"} : Decide(kind)
    \/ \E e \in Edits : UserEdit(e)
    \/ Flow \/ Load
    \/ \E l \in Loops : Project(l)
    \/ \E i \in Items : PrepExpire(i)
    \/ GatewayCrash \/ Restart

\* Requests are served and the desktop's projections go on; nobody need decide,
\* edit, load or die.
Spec == Init /\ [][Next]_vars /\ WF_vars(Flow) /\ WF_vars(\E l \in Loops : Project(l))

(***************************************************************************)
(* Properties                                                              *)
(***************************************************************************)

\* The document never gets ahead of its source: what it shows has been in the
\* file, although an accepted item is written to the file, then committed, and
\* either process may die in between.
SourceFirst == doc.text \subseteq disk

\* While nothing crashes, the binding is about the document: no sync and no
\* patch leaves the raw text of one projection beside the document of another.
BindingAgrees == GatewayFree /\ crashes + session = 0 => bind.md = doc.text

\* What the user was told is so: the decision is recorded, and of an accepted
\* item the text has been written.  A decision the operation cannot take, the
\* rejection of its last item after an acceptance among them, is never told done.
ToldTrue == \A c \in told :
    /\ op.items[c.item] = IF c.kind = "accept" THEN "applied" ELSE "rejected"
    /\ c.kind = "accept" => c.item \in disk

\* The note loses nothing but what the user saved while EverRoom was saving it:
\* what was there when saveNoteForAgent compared the hashes stays, whatever was
\* prepared, retried, projected or restarted before.
LostOnlyInSave == [][file \ file' \subseteq risked]_file

\* Retries: a command that has been executed is not refused when it comes
\* again, with whatever revision (only a crash may keep the answer from it).
Refuses(kind) ==
    /\ flow.at \in {"prepare", "execute", "complete"} /\ flow' = NoFlow
    /\ flow.kind = kind /\ Cmd(kind, flow.item) \in executed
    /\ UNCHANGED <<crashes, session>>
RejectRetried == [][~Refuses("reject")]_vars

\* A patch in the file does not leave its operation open for ever: it is
\* completed, or the projection of the file conflicts the operation.
PatchedSettles == \A i \in Items :
    (i \in file /\ op.status = "awaiting_review" /\ op.items[i] = "pending")
        ~> (op.status # "awaiting_review" \/ op.items[i] # "pending" \/ crashes > 0)
=============================================================================
