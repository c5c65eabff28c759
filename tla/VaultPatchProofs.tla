-------------------------- MODULE VaultPatchProofs --------------------------
(***************************************************************************)
(* Theorems about VaultPatch, for any items, edits, projections and        *)
(* faults: the document never gets ahead of its file, what the user was    *)
(* told is so, the binding is about the document until something crashes,  *)
(* a rejection is not refused when it comes again, and the note loses      *)
(* nothing but what the user wrote while EverRoom was saving it.           *)
(***************************************************************************)
EXTENDS VaultPatch, FiniteSetTheorems, SequenceTheorems, TLAPS

USE DEF history

\* Revisions are paid for by the items still to be decided, two for each.
Budget ==
    op.status = "awaiting_review" =>
        Pending(op) # {} /\ op.rev + 2 * Cardinality(Pending(op)) =< 2 * NItems + 1

\* Whatever is on its way to the document has been in the file.
Seen ==
    /\ file \subseteq disk /\ doc.text \subseteq disk
    /\ \A l \in Loops : loops[l].text \subseteq disk

Patching == flow.at \in {"prepared", "save", "write", "written", "complete", "bind"}

\* What the decision being carried out relies on.
Carried ==
    /\ flow.at = "prepare" \/ Patching => flow.kind = "accept"
    /\ flow.at = "execute" => flow.kind = "reject"
    /\ Patching => /\ prep[flow.item][session].at # "none"
                   /\ prep[flow.item][session].md = flow.md
    /\ flow.at \in {"written", "complete", "bind"} => flow.item \in disk
    /\ flow.at \in {"bind", "answer"} => Cmd(flow.kind, flow.item) \in executed

\* A patch that was prepared contains its item.
Contains == \A i \in Items, s \in Sessions :
    prep[i][s] = NoPrep \/ (prep[i][s].at # "none" /\ i \in prep[i][s].md)

\* A command in the log has had its effect, for good.
Logged == \A c \in executed :
    /\ op.items[c.item] = IF c.kind = "accept" THEN "applied" ELSE "rejected"
    /\ c.kind = "accept" => c.item \in disk

\* A patch adds to the note it was made for, but for edits of the user that came
\* while an earlier one was saved: they are in the hash the Gateway was told and
\* not in the text it prepared.
Adds ==
    /\ bind.hash \subseteq bind.md \cup risked
    /\ \A i \in Items, s \in Sessions : prep[i][s].from \subseteq prep[i][s].md \cup risked
    /\ Patching => flow.from \subseteq flow.md \cup risked
    /\ flow.at = "write" => file \subseteq flow.from \cup risked
    /\ flow.at = "written" => file \subseteq flow.md \cup risked
    /\ flow.at \in {"complete", "bind"} => flow.hash \subseteq flow.md \cup risked

Quiet == crashes + session = 0

\* While nothing crashes, a handler of the Gateway that has committed has the
\* text in hand that the document shows, and so has a patch that may be executed.
Bound ==
    /\ GatewayFree => bind.md = doc.text
    /\ flow.at = "bind" => doc.text = flow.md
    /\ \A l \in Loops : loops[l].at = "saved" =>
          /\ doc.text = loops[l].text /\ flow.at # "bind"
          /\ \A m \in Loops : loops[m].at = "saved" => m = l
    /\ \A i \in Items, s \in Sessions :
          prep[i][s].at # "none" /\ op.status = "awaiting_review" /\ prep[i][s].rev = op.rev
          => prep[i][s].md = doc.text \cup {i}

\* While nothing crashes, no command is sent again once it has been executed.
Fresh == \A c \in executed :
    /\ entry.items[c.item] # "pending" \/ (flow.at \in {"bind", "answer"} /\ c.item = flow.item)
    /\ flow.at \notin {"idle", "bind", "answer"} => c.item # flow.item

\* No patch was prepared for a revision to come.
Ahead == \A i \in Items, s \in Sessions : prep[i][s].rev =< op.rev

Core == TypeOK /\ Budget /\ Seen /\ Carried /\ Contains /\ Logged /\ Ahead
IInv == Core /\ Adds /\ (Quiet => Bound /\ Fresh)

FlowType == [at : {"idle", "prepare", "prepared", "save", "write", "written",
                   "execute", "complete", "bind", "answer"},
             kind : {"accept", "reject"}, item : Items, rev : Revs,
             from : Texts, md : Texts, hash : Texts]
LoopType == [at : {"idle", "read", "queued", "saved"}, text : Texts, base : Nat]
PrepType == [at : {"none", "pending", "expired", "completed"}, rev : Revs, from : Texts,
             md : Texts, hash : Texts]

LEMMA Small ==
    /\ {} \in Texts /\ 0 \in Revs /\ 1 \in Items /\ 0 \in Sessions /\ Items \subseteq Nat
    /\ \A s \in Sessions : s \in Nat
    /\ \A t \in Texts, i \in Items : t \cup {i} \in Texts
BY VaultAssumption DEF Texts, Revs, Items, Sessions

LEMMA NoFlowType == NoFlow \in FlowType /\ NoFlow.at = "idle"
BY Small DEF NoFlow, FlowType

LEMMA NoLoopType == NoLoop \in LoopType /\ NoLoop.at = "idle" /\ NoLoop.text = {}
BY Small DEF NoLoop, LoopType

LEMMA NoPrepType == NoPrep \in PrepType /\ NoPrep.at = "none" /\ NoPrep.rev = 0
                    /\ NoPrep.from = {} /\ NoPrep.md = {}
BY Small DEF NoPrep, PrepType

LEMMA Types ==
    ASSUME TypeOK
    PROVE  /\ flow \in FlowType /\ flow.item \in Items /\ flow.rev \in Revs
           /\ flow.kind \in {"accept", "reject"}
           /\ loops \in [Loops -> LoopType] /\ prep \in [Items -> [Sessions -> PrepType]]
           /\ \A i \in Items, s \in Sessions : prep[i][s] \in PrepType
           /\ \A l \in Loops : loops[l] \in LoopType
           /\ op \in Ops /\ entry \in Ops /\ session \in Sessions /\ crashes \in 0..MaxFaults
           /\ executed \subseteq Cmds /\ file \in Texts /\ disk \in Texts
           /\ risked \subseteq Edits
           /\ doc \in [version : Nat \ {0}, text : Texts] /\ bind \in [hash : Texts, md : Texts]
BY DEF TypeOK, FlowType, LoopType, PrepType

LEMMA InitHolds ==
    ASSUME Init
    PROVE  IInv
<1>1. TypeOK
  <2>1. op \in Ops
    BY Small, VaultAssumption DEF Init, Ops, Revs
  <2>2. flow \in FlowType /\ loops \in [Loops -> LoopType]
        /\ prep \in [Items -> [Sessions -> PrepType]]
    BY NoFlowType, NoLoopType, NoPrepType DEF Init
  <2>3. file \in Texts /\ disk \in Texts /\ bind \in [hash : Texts, md : Texts]
        /\ doc \in [version : Nat \ {0}, text : Texts] /\ entry = op
    BY Small DEF Init
  <2>4. executed = {} /\ told = {} /\ risked = {} /\ notice = FALSE /\ session \in Sessions
        /\ crashes \in 0..MaxFaults
    BY Small DEF Init, Sessions
  <2>5. writes \in Seq(Loops)
    BY DEF Init
  <2>6. QED BY <2>1, <2>2, <2>3, <2>4, <2>5 DEF TypeOK, FlowType, LoopType, PrepType
<1>2. Budget
  <2>1. Pending(op) = 1..NItems /\ op.rev = 1
    BY DEF Init, Pending, Items
  <2>2. Cardinality(1..NItems) = NItems
    BY FS_Interval, VaultAssumption
  <2>3. Cardinality(Pending(op)) = NItems /\ 1 \in Pending(op) /\ NItems \in Nat
        /\ op.rev = 1
    BY <2>1, <2>2, VaultAssumption
  <2>4. op.rev + 2 * Cardinality(Pending(op)) =< 2 * NItems + 1 /\ Pending(op) # {}
    BY <2>3
  <2>5. QED BY <2>4 DEF Budget
<1>3. Seen
  BY NoLoopType DEF Init, Seen
<1>4. Carried
  BY NoFlowType DEF Init, Carried, Patching
<1>5. Contains /\ Logged /\ Ahead
  BY NoPrepType DEF Init, Contains, Logged, Ahead
<1>6. Adds
  BY NoFlowType, NoPrepType DEF Init, Adds, Patching
<1>7. Bound /\ Fresh
  BY NoFlowType, NoPrepType, NoLoopType DEF Init, Bound, Fresh
<1>8. QED BY <1>1, <1>2, <1>3, <1>4, <1>5, <1>6, <1>7 DEF IInv, Core

(***************************************************************************)
(* The desktop                                                             *)
(***************************************************************************)

\* A step of the decision on the desktop's side: nothing of the Gateway changes.
LEMMA FlowStep ==
    ASSUME IInv, flow' \in FlowType, flow.at # "bind", flow'.at # "bind",
           Carried', Adds', Quiet => Fresh',
           file' = file, doc' = doc, bind' = bind, op' = op, executed' = executed, prep' = prep,
           entry' = entry, loops' = loops, writes' = writes, notice' \in BOOLEAN,
           session' = session, crashes' = crashes, disk' = disk,
           risked' = risked, told' = told
    PROVE  IInv'
<1>1. TypeOK'
  BY DEF IInv, Core, TypeOK, FlowType
<1>2. Budget' /\ Seen' /\ Contains' /\ Logged' /\ Ahead'
  BY DEF IInv, Core, Budget, Pending, Seen, Contains, Logged, Ahead
<1>3. Bound => Bound'
  BY DEF Bound, GatewayFree
<1>4. Quiet' <=> Quiet
  BY DEF Quiet
<1>5. QED BY <1>1, <1>2, <1>3, <1>4 DEF IInv, Core

\* A decision is dropped, or refused.
LEMMA DropKeeps ==
    ASSUME IInv, flow' = NoFlow, flow.at \notin {"idle", "bind", "answer"},
           file' = file, doc' = doc, bind' = bind, op' = op, executed' = executed, prep' = prep,
           entry' = entry, loops' = loops, writes' = writes, notice' \in BOOLEAN,
           session' = session, crashes' = crashes, disk' = disk,
           risked' = risked, told' = told
    PROVE  IInv'
<1>1. Carried'
  BY NoFlowType DEF Carried, Patching
<1>2. Adds => Adds'
  BY NoFlowType DEF Adds, Patching
<1>3. Fresh => Fresh'
  BY NoFlowType DEF Fresh
<1>4. QED BY <1>1, <1>2, <1>3, NoFlowType, FlowStep DEF IInv

LEMMA DecideKeeps ==
    ASSUME IInv, NEW kind \in {"accept", "reject"}, Decide(kind)
    PROVE  IInv'
<1> DEFINE at == IF kind = "accept" THEN "prepare" ELSE "execute"
<1>1. PICK i \in Items : Current(entry, i)
                        /\ flow' = [NoFlow EXCEPT !.at = at, !.kind = kind, !.item = i,
                                                  !.rev = entry.rev]
  BY DEF Decide
<1>2. /\ at \in {"prepare", "execute"}
      /\ at = "prepare" => kind = "accept"
      /\ at = "execute" => kind = "reject"
  OBVIOUS
<1>3. entry.rev \in Revs
  BY Types DEF IInv, Core, Ops
<1> HIDE DEF at
<1>4. flow' \in FlowType /\ flow'.at = at /\ flow'.kind = kind /\ flow'.item = i
  BY <1>1, <1>2, <1>3, NoFlowType DEF FlowType
<1>5. Carried'
  BY <1>2, <1>4 DEF Carried, Patching
<1>6. flow.at = "idle"
      /\ UNCHANGED <<file, gateway, entry, loops, writes, notice, session, crashes, history>>
  BY DEF Decide
<1>7. Adds => Adds'
  BY <1>2, <1>4, <1>6 DEF Adds, Patching, gateway
<1>8. Fresh => Fresh'
  <2> SUFFICES ASSUME Fresh, NEW c \in executed
               PROVE  entry.items[c.item] # "pending" /\ c.item # i
    BY <1>4, <1>6 DEF Fresh, gateway
  <2>1. entry.items[c.item] # "pending"
    BY <1>6 DEF Fresh
  <2>2. entry.items[i] = "pending"
    BY <1>1 DEF Current, Pending
  <2>3. QED BY <2>1, <2>2
<1>9. notice' \in BOOLEAN
  BY <1>6 DEF IInv, Core, TypeOK
<1>10. QED BY <1>2, <1>4, <1>5, <1>6, <1>7, <1>8, <1>9, FlowStep DEF IInv, gateway

Moved(at) == [flow EXCEPT !.at = at]
Hashed(at, h) == [flow EXCEPT !.at = at, !.hash = h]

LEMMA FlowFields ==
    ASSUME flow \in FlowType, NEW h \in Texts,
           NEW at \in {"save", "write", "written", "complete", "bind", "answer"}
    PROVE  /\ Moved(at) \in FlowType /\ Moved(at).at = at
           /\ Moved(at).kind = flow.kind /\ Moved(at).item = flow.item
           /\ Moved(at).from = flow.from /\ Moved(at).md = flow.md
           /\ Moved(at).hash = flow.hash
           /\ Hashed(at, h) \in FlowType /\ Hashed(at, h).at = at
           /\ Hashed(at, h).kind = flow.kind /\ Hashed(at, h).item = flow.item
           /\ Hashed(at, h).from = flow.from /\ Hashed(at, h).md = flow.md
           /\ Hashed(at, h).hash = h
BY DEF FlowType, Moved, Hashed

\* The patch in hand is the prepared one and contains its item.
LEMMA InHand ==
    ASSUME Core, Patching
    PROVE  flow.item \in flow.md
<1>1. prep[flow.item][session] # NoPrep /\ prep[flow.item][session].md = flow.md
  BY NoPrepType DEF Core, Carried
<1>2. QED BY <1>1, Types DEF Core, Contains

\* The desktop goes on with the patch in hand.
LEMMA MoveKeeps ==
    ASSUME IInv, flow.at \in {"prepared", "save", "written"},
           flow' \in FlowType, flow'.at \in {"save", "write", "complete"},
           flow'.kind = flow.kind, flow'.item = flow.item, flow'.from = flow.from,
           flow'.md = flow.md,
           flow'.at = "write" => file = flow.from,
           flow'.at = "complete" => /\ flow.item \in disk
                                    /\ flow'.hash \subseteq flow.md \cup risked,
           UNCHANGED <<file, gateway, entry, loops, writes, notice, session, crashes, history>>
    PROVE  IInv'
<1>1. /\ file' = file /\ doc' = doc /\ bind' = bind /\ op' = op /\ executed' = executed
      /\ prep' = prep /\ entry' = entry /\ loops' = loops /\ writes' = writes
      /\ session' = session /\ crashes' = crashes /\ disk' = disk
      /\ risked' = risked /\ told' = told /\ notice' \in BOOLEAN
  BY DEF gateway, IInv, Core, TypeOK
<1>2. Carried'
  BY <1>1 DEF IInv, Core, Carried, Patching
<1>3. Adds'
  BY <1>1 DEF IInv, Adds, Patching
<1>4. Quiet => Fresh'
  BY <1>1 DEF IInv, Fresh
<1>5. QED BY <1>1, <1>2, <1>3, <1>4, FlowStep

LEMMA DropStep ==
    ASSUME IInv, flow' = NoFlow, flow.at \notin {"idle", "bind", "answer"},
           UNCHANGED <<file, gateway, entry, loops, writes, notice, session, crashes, history>>
    PROVE  IInv'
<1>1. notice' \in BOOLEAN
  BY DEF IInv, Core, TypeOK
<1>2. QED BY <1>1, DropKeeps DEF gateway

LEMMA ReadNoteKeeps ==
    ASSUME IInv, ReadNote
    PROVE  IInv'
<1>1. flow.at = "prepared"
      /\ UNCHANGED <<file, gateway, entry, loops, writes, notice, session, crashes, history>>
  BY DEF ReadNote
<1>2. flow \in FlowType /\ file \in Texts
  BY Types DEF IInv, Core
<1>3. CASE file = flow.from
  <2>1. flow' = Moved("save")
    BY <1>3 DEF ReadNote, Moved
  <2>2. QED BY <1>1, <1>2, <2>1, FlowFields, MoveKeeps
<1>4. CASE file # flow.from /\ file = flow.md
  <2>1. flow' = Hashed("complete", file)
    BY <1>4 DEF ReadNote, Hashed
  <2>2. flow.item \in disk
    BY <1>1, <1>4, InHand DEF IInv, Core, Seen, Patching
  <2>3. QED BY <1>1, <1>2, <1>4, <2>1, <2>2, FlowFields, MoveKeeps
<1>5. CASE file # flow.from /\ file # flow.md
  <2>1. flow' = NoFlow
    BY <1>5 DEF ReadNote
  <2>2. QED BY <1>1, <2>1, DropStep
<1>6. QED BY <1>3, <1>4, <1>5

LEMMA CheckNoteKeeps ==
    ASSUME IInv, CheckNote
    PROVE  IInv'
<1>1. flow.at = "save"
      /\ UNCHANGED <<file, gateway, entry, loops, writes, notice, session, crashes, history>>
  BY DEF CheckNote
<1>2. flow \in FlowType /\ file \in Texts
  BY Types DEF IInv, Core
<1>3. CASE file = flow.from
  <2>1. flow' = Moved("write")
    BY <1>3 DEF CheckNote, Moved
  <2>2. QED BY <1>1, <1>2, <1>3, <2>1, FlowFields, MoveKeeps
<1>4. CASE file # flow.from
  <2>1. flow' = NoFlow
    BY <1>4 DEF CheckNote
  <2>2. QED BY <1>1, <2>1, DropStep
<1>5. QED BY <1>3, <1>4

LEMMA RereadNoteKeeps ==
    ASSUME IInv, RereadNote
    PROVE  IInv'
<1>1. flow.at = "written" /\ flow' = Hashed("complete", file)
      /\ UNCHANGED <<file, gateway, entry, loops, writes, notice, session, crashes, history>>
  BY DEF RereadNote, Hashed
<1>2. flow \in FlowType /\ file \in Texts
  BY Types DEF IInv, Core
<1>3. flow.item \in disk /\ file \subseteq flow.md \cup risked
  BY <1>1 DEF IInv, Core, Carried, Adds
<1>4. QED BY <1>1, <1>2, <1>3, FlowFields, MoveKeeps

\* The file changes: the user edits it, or the desktop writes the patch.
LEMMA FileKeeps ==
    ASSUME IInv, flow' \in FlowType, flow'.at = "bind" <=> flow.at = "bind", flow'.md = flow.md,
           file' \in Texts, disk' \in Texts, file' \subseteq disk', disk \subseteq disk',
           risked' \subseteq Edits,
           Carried', Adds', Quiet => Fresh',
           UNCHANGED <<gateway, entry, loops, writes, session, crashes, told>>, notice' \in BOOLEAN
    PROVE  IInv'
<1>1. /\ doc' = doc /\ bind' = bind /\ op' = op /\ executed' = executed
      /\ prep' = prep /\ entry' = entry /\ loops' = loops /\ writes' = writes
      /\ session' = session /\ crashes' = crashes /\ told' = told
  BY DEF gateway
<1>2. TypeOK'
  BY <1>1 DEF IInv, Core, TypeOK, FlowType
<1>3. Budget' /\ Contains' /\ Ahead'
  BY <1>1 DEF IInv, Core, Budget, Pending, Contains, Ahead
<1>4. Seen'
  BY <1>1 DEF IInv, Core, Seen
<1>5. Logged'
  BY <1>1 DEF IInv, Core, Logged
<1>6. Bound => Bound'
  BY <1>1 DEF Bound, GatewayFree
<1>7. Quiet' <=> Quiet
  BY <1>1 DEF Quiet
<1>8. QED BY <1>2, <1>3, <1>4, <1>5, <1>6, <1>7 DEF IInv, Core

LEMMA UserEditKeeps ==
    ASSUME IInv, NEW e \in Edits, UserEdit(e)
    PROVE  IInv'
<1>1. /\ file' = file \cup {e} /\ disk' = disk \cup {e} /\ notice' = TRUE
      /\ risked' = IF Saving THEN risked \cup {e} ELSE risked
      /\ UNCHANGED <<gateway, entry, flow, loops, writes, session, crashes, told>>
  BY DEF UserEdit
<1>2. /\ flow' = flow /\ bind' = bind /\ executed' = executed /\ prep' = prep
      /\ entry' = entry /\ session' = session
  BY <1>1 DEF gateway
<1>3. flow \in FlowType /\ file \in Texts /\ disk \in Texts
  BY Types DEF IInv, Core
<1>4. file' \in Texts /\ disk' \in Texts /\ disk \subseteq disk'
  BY <1>1, <1>3 DEF Texts
<1>5. file' \subseteq disk'
  BY <1>1 DEF IInv, Core, Seen
<1>6. Carried'
  BY <1>2, <1>4 DEF IInv, Core, Carried, Patching, Cmd
<1>7. Adds'
  <2>1. risked \subseteq risked' /\ (Saving => e \in risked')
    BY <1>1
  <2>2. QED BY <1>1, <1>2, <2>1 DEF IInv, Adds, Patching, Saving
<1>8. Quiet => Fresh'
  BY <1>2 DEF IInv, Fresh
<1>9. notice' \in BOOLEAN /\ risked' \subseteq Edits
  BY <1>1, Types DEF IInv, Core
<1>10. QED BY <1>1, <1>2, <1>3, <1>4, <1>5, <1>6, <1>7, <1>8, <1>9, FileKeeps

LEMMA WriteNoteKeeps ==
    ASSUME IInv, WriteNote
    PROVE  IInv'
<1>1. /\ flow.at = "write" /\ flow' = Moved("written")
      /\ file' = flow.md /\ disk' = disk \cup flow.md /\ notice' = TRUE
      /\ UNCHANGED <<gateway, entry, loops, writes, session, crashes, risked, told>>
  BY DEF WriteNote, Moved
<1>2. /\ bind' = bind /\ executed' = executed /\ prep' = prep
      /\ entry' = entry /\ session' = session
  BY <1>1 DEF gateway
<1>3. flow \in FlowType /\ flow.md \in Texts /\ disk \in Texts
  BY Types DEF IInv, Core, FlowType
<1>4. /\ flow' \in FlowType /\ flow'.at = "written" /\ flow'.kind = flow.kind
      /\ flow'.item = flow.item /\ flow'.from = flow.from /\ flow'.md = flow.md
  BY <1>1, <1>3, FlowFields
<1>5. file' \in Texts /\ disk' \in Texts /\ disk \subseteq disk' /\ file' \subseteq disk'
  BY <1>1, <1>3 DEF Texts
<1>6. Carried'
  <2>1. flow.item \in disk'
    BY <1>1, InHand DEF IInv, Patching
  <2>2. QED BY <1>1, <1>2, <1>4, <2>1 DEF IInv, Core, Carried, Patching
<1>7. Adds'
  BY <1>1, <1>2, <1>4 DEF IInv, Adds, Patching
<1>8. Quiet => Fresh'
  BY <1>1, <1>2, <1>4 DEF IInv, Fresh
<1>9. notice' \in BOOLEAN /\ (flow'.at = "bind" <=> flow.at = "bind") /\ risked' \subseteq Edits
  BY <1>1, <1>4, Types DEF IInv, Core
<1>10. QED BY <1>1, <1>4, <1>5, <1>6, <1>7, <1>8, <1>9, FileKeeps

\* What the renderer knows of the operation is what it is.
LEMMA KnownFresh ==
    ASSUME Logged, entry' = op, executed' = executed, flow'.at = "idle" \/ (Fresh /\ flow' = flow)
    PROVE  Fresh'
<1> SUFFICES ASSUME NEW c \in executed
             PROVE  op.items[c.item] # "pending"
  BY DEF Fresh
<1>1. QED BY DEF Logged

LEMMA ReceiveKeeps ==
    ASSUME IInv, Receive
    PROVE  IInv'
<1>1. /\ flow.at = "answer" /\ entry' = op /\ flow' = NoFlow
      /\ told' = told \cup {Cmd(flow.kind, flow.item)}
      /\ notice' = (notice \/ flow.kind = "accept")
      /\ UNCHANGED <<file, gateway, loops, writes, session, crashes, disk, risked>>
  BY DEF Receive
<1>2. /\ doc' = doc /\ bind' = bind /\ op' = op /\ executed' = executed /\ prep' = prep
  BY <1>1 DEF gateway
<1>3. told' \subseteq executed
  BY <1>1 DEF IInv, Core, TypeOK, Carried
<1>4. notice' \in BOOLEAN
  BY <1>1 DEF IInv, Core, TypeOK
<1>5. TypeOK'
  BY <1>1, <1>2, <1>3, <1>4, NoFlowType DEF IInv, Core, TypeOK, FlowType
<1>6. Budget' /\ Seen' /\ Contains' /\ Logged' /\ Ahead'
  BY <1>1, <1>2 DEF IInv, Core, Budget, Pending, Seen, Contains, Logged, Ahead
<1>7. Carried'
  BY <1>1, NoFlowType DEF Carried, Patching
<1>8. Adds => Adds'
  BY <1>1, <1>2, NoFlowType DEF Adds, Patching
<1>9. Bound => Bound'
  BY <1>1, <1>2, NoFlowType DEF Bound, GatewayFree
<1>10. Fresh'
  BY <1>1, <1>2, NoFlowType, KnownFresh DEF IInv, Core
<1>11. Quiet' <=> Quiet
  BY <1>1 DEF Quiet
<1>12. QED BY <1>5, <1>6, <1>7, <1>8, <1>9, <1>10, <1>11 DEF IInv, Core

LEMMA LoadKeeps ==
    ASSUME IInv, Load
    PROVE  IInv'
<1>1. entry' = op
      /\ UNCHANGED <<file, gateway, flow, loops, writes, notice, session, crashes, history>>
  BY DEF Load
<1>2. TypeOK'
  BY <1>1 DEF IInv, Core, TypeOK, gateway
<1>3. Budget' /\ Seen' /\ Contains' /\ Logged' /\ Ahead'
  BY <1>1 DEF IInv, Core, Budget, Pending, Seen, Contains, Logged, Ahead, gateway
<1>4. Carried'
  BY <1>1 DEF IInv, Core, Carried, Patching, Cmd, gateway
<1>5. Adds => Adds'
  BY <1>1 DEF Adds, Patching, gateway
<1>6. Bound => Bound'
  BY <1>1 DEF Bound, GatewayFree, gateway
<1>7. Fresh => Fresh'
  BY <1>1, KnownFresh DEF IInv, Core, gateway
<1>8. Quiet' <=> Quiet
  BY <1>1 DEF Quiet
<1>9. QED BY <1>2, <1>3, <1>4, <1>5, <1>6, <1>7, <1>8 DEF IInv, Core

(***************************************************************************)
(* The projections                                                         *)
(***************************************************************************)

Reading(x, text) == [x EXCEPT !.at = "read", !.text = text]
Queued(x, base) == [x EXCEPT !.at = "queued", !.base = base]
Saved(x) == [x EXCEPT !.at = "saved"]

LEMMA LoopFields ==
    ASSUME NEW x \in LoopType, NEW text \in Texts, NEW base \in Nat
    PROVE  /\ Reading(x, text) \in LoopType /\ Reading(x, text).at = "read"
           /\ Reading(x, text).text = text
           /\ Queued(x, base) \in LoopType /\ Queued(x, base).at = "queued"
           /\ Queued(x, base).text = x.text
           /\ Saved(x) \in LoopType /\ Saved(x).at = "saved" /\ Saved(x).text = x.text
BY DEF LoopType, Reading, Queued, Saved

LEMMA ProjectNoteKeeps ==
    ASSUME IInv, NEW l \in Loops, ProjectNote(l)
    PROVE  IInv'
<1> DEFINE r == Reading(loops[l], file)
<1>1. /\ loops[l].at = "idle" /\ notice' = FALSE /\ loops' = [loops EXCEPT ![l] = r]
      /\ UNCHANGED <<file, gateway, entry, flow, writes, session, crashes, history>>
  BY DEF ProjectNote, Reading
<1>2. loops \in [Loops -> LoopType] /\ loops[l] \in LoopType /\ file \in Texts
  BY Types DEF IInv, Core
<1>3. r \in LoopType /\ r.at = "read" /\ r.text = file
  BY <1>2, LoopFields
<1> HIDE DEF r
<1>4. /\ loops' \in [Loops -> LoopType] /\ loops'[l] = r
      /\ \A m \in Loops : m # l => loops'[m] = loops[m]
  BY <1>1, <1>2, <1>3
<1>5. TypeOK'
  BY <1>1, <1>4 DEF IInv, Core, TypeOK, LoopType, gateway
<1>6. Budget' /\ Contains' /\ Logged' /\ Ahead'
  BY <1>1 DEF IInv, Core, Budget, Pending, Contains, Logged, Ahead, gateway
<1>7. Seen'
  BY <1>1, <1>3, <1>4 DEF IInv, Core, Seen, gateway
<1>8. Carried'
  BY <1>1 DEF IInv, Core, Carried, Patching, Cmd, gateway
<1>9. Adds => Adds'
  BY <1>1 DEF Adds, Patching, gateway
<1>10. Bound => Bound'
  <2>1. \A m \in Loops : /\ loops'[m].at = "saved" <=> loops[m].at = "saved"
                         /\ loops[m].at = "saved" => loops'[m] = loops[m]
    BY <1>1, <1>3, <1>4
  <2>2. QED BY <1>1, <2>1 DEF Bound, GatewayFree, gateway
<1>11. Fresh => Fresh'
  BY <1>1 DEF Fresh, gateway
<1>12. Quiet' <=> Quiet
  BY <1>1 DEF Quiet
<1>13. QED BY <1>5, <1>6, <1>7, <1>8, <1>9, <1>10, <1>11, <1>12 DEF IInv, Core

\* The fields of an operation, whatever their sets.
LEMMA OpFields ==
    ASSUME op \in Ops, NEW rev \in Revs
    PROVE  LET o == [op EXCEPT !.status = "conflicted", !.rev = rev]
           IN  o \in Ops /\ o.items = op.items /\ o.status = "conflicted" /\ o.rev = rev
<1> DEFINE It == [Items -> {"pending", "applied", "rejected"}]
           St == {"awaiting_review", "completed", "rejected", "conflicted"}
<1>1. op \in [status : St, rev : Revs, base : Nat, items : It] /\ "conflicted" \in St
  BY DEF Ops
<1> HIDE DEF It, St
<1>2. [op EXCEPT !.status = "conflicted", !.rev = rev]
          \in [status : St, rev : Revs, base : Nat, items : It]
  BY <1>1
<1>3. [op EXCEPT !.status = "conflicted", !.rev = rev].items = op.items
  BY <1>1
<1>4. [op EXCEPT !.status = "conflicted", !.rev = rev].status = "conflicted"
  BY <1>1
<1>5. [op EXCEPT !.status = "conflicted", !.rev = rev].rev = rev
  BY <1>1
<1>6. QED BY <1>2, <1>3, <1>4, <1>5 DEF Ops, It, St

LEMMA ConflictedFields ==
    ASSUME Core
    PROVE  /\ Conflicted(op) \in Ops /\ Conflicted(op).items = op.items
           /\ Conflicted(op).status # "awaiting_review" /\ op.rev =< Conflicted(op).rev
<1>1. op \in Ops /\ op.rev \in Nat
  BY Types DEF Core, Ops, Revs
<1>2. CASE op.status # "awaiting_review"
  BY <1>1, <1>2 DEF Conflicted
<1>3. CASE op.status = "awaiting_review"
  <2>1. Pending(op) # {} /\ op.rev + 2 * Cardinality(Pending(op)) =< 2 * NItems + 1
    BY <1>3 DEF Core, Budget
  <2>2. IsFiniteSet(Items)
    BY FS_Interval, VaultAssumption DEF Items
  <2>3. IsFiniteSet(Pending(op))
    BY <2>2, FS_Subset DEF Pending
  <2>4. Cardinality(Pending(op)) \in Nat /\ Cardinality(Pending(op)) # 0
    BY <2>1, <2>3, FS_CardinalityType, FS_EmptySet
  <2>5. op.rev + 1 \in Revs
    BY <1>1, <2>1, <2>4, VaultAssumption DEF Revs
  <2>6. Conflicted(op) = [op EXCEPT !.status = "conflicted", !.rev = op.rev + 1]
    BY <1>3 DEF Conflicted
  <2>7. op.rev + 1 \in Revs /\ op.rev =< op.rev + 1
    BY <1>1, <2>5
  <2>8. QED BY <1>1, <2>6, <2>7, OpFields
<1>4. QED BY <1>2, <1>3

\* A step of a projection that leaves the document alone.
LEMMA ProjectKeeps ==
    ASSUME IInv, loops' \in [Loops -> LoopType], writes' \in Seq(Loops),
           op' = op \/ op' = Conflicted(op),
           \A m \in Loops : loops'[m].text \subseteq disk,
           \A m \in Loops : loops'[m].at = "saved" => loops'[m] = loops[m],
           bind' \in [hash : Texts, md : Texts], bind'.hash \subseteq bind'.md \/ bind' = bind,
           GatewayFree' => bind'.md = doc.text \/ (GatewayFree /\ bind' = bind) \/ ~Quiet,
           UNCHANGED <<file, doc, executed, prep, entry, flow, notice, session, crashes, history>>
    PROVE  IInv'
<1>1. op' \in Ops /\ op'.items = op.items /\ op.rev =< op'.rev
      /\ (op' = op \/ op'.status # "awaiting_review")
  BY ConflictedFields, Types DEF IInv, Core, Ops, Revs
<1>2. TypeOK'
  BY <1>1 DEF IInv, Core, TypeOK, LoopType
<1>3. Budget'
  BY <1>1 DEF IInv, Core, Budget, Pending
<1>4. Seen'
  BY DEF IInv, Core, Seen
<1>5. Contains' /\ Logged'
  BY <1>1 DEF IInv, Core, Contains, Logged
<1>6. Ahead'
  <2> SUFFICES ASSUME NEW i \in Items, NEW s \in Sessions
               PROVE  prep[i][s].rev =< op'.rev
    BY DEF Ahead
  <2>1. prep[i][s].rev =< op.rev
    BY DEF IInv, Core, Ahead
  <2>2. prep[i][s].rev \in Nat /\ op.rev \in Nat /\ op'.rev \in Nat
    BY <1>1, Types DEF IInv, Core, PrepType, Ops, Revs
  <2>3. QED BY <1>1, <2>1, <2>2
<1>7. Carried'
  BY DEF IInv, Core, Carried, Patching, Cmd
<1>8. Adds => Adds'
  BY DEF Adds, Patching
<1>9. Quiet /\ Bound => Bound'
  BY <1>1 DEF Bound, GatewayFree
<1>10. Fresh => Fresh'
  BY DEF Fresh
<1>11. Quiet' <=> Quiet
  BY DEF Quiet
<1>12. QED BY <1>2, <1>3, <1>4, <1>5, <1>6, <1>7, <1>8, <1>9, <1>10, <1>11 DEF IInv, Core

LEMMA SyncBeginKeeps ==
    ASSUME IInv, NEW l \in Loops, SyncBegin(l)
    PROVE  IInv'
<1> DEFINE q == Queued(loops[l], doc.version)
<1>1. /\ loops[l].at = "read" /\ loops' = [loops EXCEPT ![l] = q]
      /\ GatewayFree /\ writes' = Append(writes, l)
      /\ op' = op \/ op' = Conflicted(op)
      /\ UNCHANGED <<file, doc, bind, executed, prep, entry, flow, notice, session, crashes,
                     history>>
  BY DEF SyncBegin, Queued
<1>2. /\ loops \in [Loops -> LoopType] /\ loops[l] \in LoopType /\ doc.version \in Nat
      /\ {} \in Texts
  BY Types, Small DEF IInv, Core
<1>3. q \in LoopType /\ q.at = "queued" /\ q.text = loops[l].text
  BY <1>2, LoopFields
<1> HIDE DEF q
<1>4. /\ loops' \in [Loops -> LoopType] /\ loops'[l] = q
      /\ \A m \in Loops : m # l => loops'[m] = loops[m]
  BY <1>1, <1>2, <1>3
<1>5. writes' \in Seq(Loops)
  BY <1>1 DEF IInv, Core, TypeOK
<1>6. \A m \in Loops : loops'[m].text \subseteq disk
  BY <1>3, <1>4 DEF IInv, Core, Seen
<1>7. \A m \in Loops : loops'[m].at = "saved" => loops'[m] = loops[m]
  BY <1>3, <1>4
<1>8. bind' \in [hash : Texts, md : Texts]
  BY <1>1, Types DEF IInv, Core
<1>9. QED BY <1>1, <1>4, <1>5, <1>6, <1>7, <1>8, ProjectKeeps

LEMMA SyncBindKeeps ==
    ASSUME IInv, NEW l \in Loops, SyncBind(l)
    PROVE  IInv'
<1>1. /\ loops[l].at = "saved" /\ loops' = [loops EXCEPT ![l] = NoLoop]
      /\ bind' = [hash |-> loops[l].text, md |-> loops[l].text]
      /\ UNCHANGED <<file, doc, op, executed, prep, entry, flow, writes, notice, session,
                     crashes, history>>
  BY DEF SyncBind
<1>2. loops \in [Loops -> LoopType] /\ loops[l].text \in Texts
  BY Types DEF IInv, Core, LoopType
<1>3. /\ loops' \in [Loops -> LoopType] /\ loops'[l] = NoLoop
      /\ \A m \in Loops : m # l => loops'[m] = loops[m]
  BY <1>1, <1>2, NoLoopType
<1>4. writes' \in Seq(Loops)
  BY <1>1 DEF IInv, Core, TypeOK
<1>5. \A m \in Loops : loops'[m].text \subseteq disk
  BY <1>3, NoLoopType DEF IInv, Core, Seen
<1>6. \A m \in Loops : loops'[m].at = "saved" => loops'[m] = loops[m]
  BY <1>3, NoLoopType
<1>7. bind' \in [hash : Texts, md : Texts] /\ bind'.hash \subseteq bind'.md
      /\ bind'.md = loops[l].text
  BY <1>1, <1>2
<1>8. Quiet => doc.text = loops[l].text
  BY <1>1 DEF IInv, Bound
<1>9. QED BY <1>1, <1>3, <1>4, <1>5, <1>6, <1>7, <1>8, ProjectKeeps

LEMMA SyncSaveKeeps ==
    ASSUME IInv, NEW l \in Loops, SyncSave(l)
    PROVE  IInv'
<1> DEFINE sv == Saved(loops[l])
<1>1. /\ writes # << >> /\ GatewayFree /\ writes' = Tail(writes)
      /\ UNCHANGED <<file, bind, executed, prep, entry, flow, notice, session, crashes, history>>
  BY DEF SyncSave
<1>2. /\ loops \in [Loops -> LoopType] /\ loops[l] \in LoopType /\ {} \in Texts
      /\ loops[l].text \in Texts /\ doc.version \in Nat \ {0}
      /\ bind \in [hash : Texts, md : Texts]
  BY Types, Small DEF IInv, Core, LoopType
<1>3. writes' \in Seq(Loops)
  BY <1>1 DEF IInv, Core, TypeOK
<1>4. CASE /\ doc.version # loops[l].base
           /\ loops' = [loops EXCEPT ![l] = NoLoop] /\ UNCHANGED <<doc, op>>
  <2>1. /\ loops' \in [Loops -> LoopType] /\ loops'[l] = NoLoop
        /\ \A m \in Loops : m # l => loops'[m] = loops[m]
    BY <1>2, <1>4, NoLoopType
  <2>2. \A m \in Loops : loops'[m].text \subseteq disk
    BY <2>1, NoLoopType DEF IInv, Core, Seen
  <2>3. \A m \in Loops : loops'[m].at = "saved" => loops'[m] = loops[m]
    BY <2>1, NoLoopType
  <2>4. QED BY <1>1, <1>2, <1>3, <1>4, <2>1, <2>2, <2>3, ProjectKeeps
<1>5. CASE /\ doc.version = loops[l].base
           /\ doc' = [version |-> doc.version + 1, text |-> loops[l].text]
           /\ op' = Conflicted(op) /\ loops' = [loops EXCEPT ![l].at = "saved"]
  <2>1. sv \in LoopType /\ sv.at = "saved" /\ sv.text = loops[l].text
    BY <1>2, LoopFields, 0 \in Nat
  <2>2. loops' = [loops EXCEPT ![l] = sv]
    BY <1>5 DEF Saved
  <2> HIDE DEF sv
  <2>3. /\ loops' \in [Loops -> LoopType] /\ loops'[l] = sv
        /\ \A m \in Loops : m # l => loops'[m] = loops[m]
    BY <1>2, <2>1, <2>2
  <2>4. op' \in Ops /\ op'.items = op.items /\ op.rev =< op'.rev
        /\ op'.status # "awaiting_review"
    BY <1>5, ConflictedFields DEF IInv
  <2>5. doc' \in [version : Nat \ {0}, text : Texts] /\ doc'.text = loops[l].text
    BY <1>2, <1>5
  <2>6. TypeOK'
    BY <1>1, <1>3, <2>3, <2>4, <2>5 DEF IInv, Core, TypeOK, LoopType
  <2>7. Budget'
    BY <2>4 DEF Budget
  <2>8. Seen'
    BY <1>1, <2>1, <2>3, <2>5 DEF IInv, Core, Seen
  <2>9. Contains' /\ Logged'
    BY <1>1, <2>4 DEF IInv, Core, Contains, Logged
  <2>10. Ahead'
    <3> SUFFICES ASSUME NEW i \in Items, NEW s \in Sessions
                 PROVE  prep[i][s].rev =< op'.rev
      BY <1>1 DEF Ahead
    <3>1. prep[i][s].rev =< op.rev
      BY DEF IInv, Core, Ahead
    <3>2. prep[i][s].rev \in Nat /\ op.rev \in Nat /\ op'.rev \in Nat
      BY <2>4, Types DEF IInv, Core, PrepType, Ops, Revs
    <3>3. QED BY <2>4, <3>1, <3>2
  <2>11. Carried'
    BY <1>1 DEF IInv, Core, Carried, Patching, Cmd
  <2>12. Adds => Adds'
    BY <1>1 DEF Adds, Patching
  <2>13. Bound'
    <3>1. flow.at # "bind" /\ \A m \in Loops : loops[m].at # "saved"
      BY <1>1 DEF GatewayFree
    <3>2. ~GatewayFree'
      BY <2>1, <2>3 DEF GatewayFree
    <3>3. QED BY <1>1, <2>1, <2>3, <2>4, <2>5, <3>1, <3>2 DEF Bound
  <2>14. Fresh => Fresh'
    BY <1>1 DEF Fresh
  <2>15. Quiet' <=> Quiet
    BY <1>1 DEF Quiet
  <2>16. QED
    BY <2>6, <2>7, <2>8, <2>9, <2>10, <2>11, <2>12, <2>13, <2>14, <2>15 DEF IInv, Core
<1>6. QED BY <1>4, <1>5 DEF SyncSave

(***************************************************************************)
(* The patches                                                             *)
(***************************************************************************)

\* The patches after one of them has been replaced.
LEMMA PrepFields ==
    ASSUME NEW P \in [Items -> [Sessions -> PrepType]], NEW i \in Items, NEW s \in Sessions,
           NEW x \in PrepType
    PROVE  LET Q == [P EXCEPT ![i][s] = x]
           IN  /\ Q \in [Items -> [Sessions -> PrepType]] /\ Q[i][s] = x
               /\ \A j \in Items, r \in Sessions : <<j, r>> # <<i, s>> => Q[j][r] = P[j][r]
<1> DEFINE row == [P[i] EXCEPT ![s] = x]
           Q == [P EXCEPT ![i] = row]
           PT == PrepType
<1>1. P[i] \in [Sessions -> PT]
  OBVIOUS
<1> HIDE DEF PT
<1>2. row \in [Sessions -> PT] /\ row[s] = x /\ \A r \in Sessions : r # s => row[r] = P[i][r]
  BY <1>1 DEF PT
<1> HIDE DEF row
<1>3. Q \in [Items -> [Sessions -> PrepType]] /\ Q[i] = row
      /\ \A j \in Items : j # i => Q[j] = P[j]
  BY <1>2 DEF PT
<1> HIDE DEF Q
<1>4. Q[i][s] = x /\ \A j \in Items, r \in Sessions : <<j, r>> # <<i, s>> => Q[j][r] = P[j][r]
  BY <1>2, <1>3
<1>5. Q = [P EXCEPT ![i][s] = x]
  BY DEF Q, row
<1>6. QED BY <1>3, <1>4, <1>5

Expired(x) == [x EXCEPT !.at = "expired"]
Done(x, h) == [x EXCEPT !.at = "completed", !.hash = h]

LEMMA PatchFields ==
    ASSUME NEW x \in PrepType, NEW h \in Texts
    PROVE  /\ Expired(x) \in PrepType /\ Expired(x).at = "expired" /\ Expired(x).rev = x.rev
           /\ Expired(x).from = x.from /\ Expired(x).md = x.md
           /\ Done(x, h) \in PrepType /\ Done(x, h).at = "completed" /\ Done(x, h).rev = x.rev
           /\ Done(x, h).from = x.from /\ Done(x, h).md = x.md
BY DEF PrepType, Expired, Done

LEMMA PrepExpireKeeps ==
    ASSUME IInv, NEW i \in Items, PrepExpire(i)
    PROVE  IInv'
<1> DEFINE x == Expired(prep[i][session])
<1>1. /\ prep[i][session].at = "pending" /\ prep' = [prep EXCEPT ![i][session] = x]
      /\ UNCHANGED <<file, doc, bind, op, executed, entry, flow, loops, notice, writes, session,
                     crashes, history>>
  BY DEF PrepExpire, desktop, Expired
<1>2. /\ prep \in [Items -> [Sessions -> PrepType]] /\ prep[i][session] \in PrepType
      /\ session \in Sessions /\ {} \in Texts
  BY Types, Small DEF IInv, Core
<1>3. /\ x \in PrepType /\ x.at = "expired" /\ x.rev = prep[i][session].rev
      /\ x.from = prep[i][session].from /\ x.md = prep[i][session].md
  BY <1>2, PatchFields
<1> HIDE DEF x
<1>4. /\ prep' \in [Items -> [Sessions -> PrepType]] /\ prep'[i][session] = x
      /\ \A j \in Items, r \in Sessions : <<j, r>> # <<i, session>> => prep'[j][r] = prep[j][r]
  BY <1>1, <1>2, <1>3, PrepFields
<1>5. \A j \in Items, r \in Sessions :
          /\ prep'[j][r].rev = prep[j][r].rev /\ prep'[j][r].from = prep[j][r].from
          /\ prep'[j][r].md = prep[j][r].md
          /\ prep'[j][r].at = "none" <=> prep[j][r].at = "none"
          /\ prep[j][r] = NoPrep => prep'[j][r] = NoPrep
  BY <1>1, <1>3, <1>4, NoPrepType
<1>6. TypeOK'
  BY <1>1, <1>4 DEF IInv, Core, TypeOK, PrepType
<1>7. Budget' /\ Seen' /\ Logged'
  BY <1>1 DEF IInv, Core, Budget, Pending, Seen, Logged
<1>8. Contains' /\ Ahead'
  BY <1>1, <1>5 DEF IInv, Core, Contains, Ahead
<1>9. Carried'
  BY <1>1, <1>5, Types DEF IInv, Core, Carried, Patching, Cmd
<1>10. Adds => Adds'
  BY <1>1, <1>5 DEF Adds, Patching
<1>11. Bound => Bound'
  BY <1>1, <1>5 DEF Bound, GatewayFree
<1>12. Fresh => Fresh'
  BY <1>1 DEF Fresh
<1>13. Quiet' <=> Quiet
  BY <1>1 DEF Quiet
<1>14. QED BY <1>6, <1>7, <1>8, <1>9, <1>10, <1>11, <1>12, <1>13 DEF IInv, Core

\* prepare leaves patches that were there, forgets them, or adds the one asked for.
LEMMA PrepareStep ==
    ASSUME IInv, flow.at = "prepare",
           prep' \in [Items -> [Sessions -> PrepType]],
           \A i \in Items, s \in Sessions :
               \/ prep'[i][s] \in {prep[i][s], NoPrep}
               \/ /\ prep'[i][s].at = "pending" /\ i \in prep'[i][s].md
                  /\ prep'[i][s].rev =< op.rev
                  /\ prep'[i][s].from \subseteq prep'[i][s].md \cup risked
                  /\ prep'[i][s].md = bind.md \cup {i},
           GatewayFree, flow' \in FlowType,
           \/ flow' = NoFlow
           \/ /\ flow'.at = "prepared" /\ flow'.kind = "accept" /\ flow'.item = flow.item
              /\ prep'[flow.item][session].at # "none"
              /\ prep'[flow.item][session].md = flow'.md
              /\ prep'[flow.item][session].from = flow'.from,
           UNCHANGED <<file, doc, bind, op, executed, entry, loops, writes, notice, session,
                       crashes, history>>
    PROVE  IInv'
<1>1. flow.item \in Items /\ session \in Sessions
  BY Types DEF IInv, Core
<1>2. TypeOK'
  BY DEF IInv, Core, TypeOK, PrepType, FlowType
<1>3. Budget' /\ Seen' /\ Logged'
  BY DEF IInv, Core, Budget, Pending, Seen, Logged
<1>4. Contains'
  BY DEF IInv, Core, Contains
<1>5. Ahead'
  <2>1. op.rev \in Nat
    BY Types DEF IInv, Core, Ops, Revs
  <2>2. SUFFICES ASSUME NEW i \in Items, NEW s \in Sessions
                 PROVE  prep'[i][s].rev =< op.rev
    BY DEF Ahead
  <2>3. prep[i][s].rev =< op.rev
    BY DEF IInv, Core, Ahead
  <2>4. CASE prep'[i][s] = NoPrep
    BY <2>1, <2>4, NoPrepType
  <2>5. CASE prep'[i][s] # NoPrep
    BY <2>3, <2>5
  <2>6. QED BY <2>4, <2>5
<1>6. Carried'
  BY <1>1, NoFlowType DEF Carried, Patching
<1>7. Adds'
  <2>1. \A i \in Items, s \in Sessions : prep'[i][s].from \subseteq prep'[i][s].md \cup risked
    BY NoPrepType DEF IInv, Adds
  <2>2. QED BY <1>1, <2>1, NoFlowType DEF IInv, Adds, Patching
<1>8. Quiet => Bound'
  <2>1. flow'.at # "bind" /\ flow.at # "bind"
    BY NoFlowType
  <2>2. \A i \in Items, s \in Sessions :
            Quiet /\ prep'[i][s].at # "none" /\ op.status = "awaiting_review"
            /\ prep'[i][s].rev = op.rev
            => prep'[i][s].md = doc.text \cup {i}
    BY NoPrepType DEF IInv, Bound
  <2>3. QED BY <2>1, <2>2 DEF IInv, Bound, GatewayFree
<1>9. Quiet => Fresh'
  BY NoFlowType DEF IInv, Fresh
<1>10. Quiet' <=> Quiet
  BY DEF Quiet
<1>11. QED BY <1>2, <1>3, <1>4, <1>5, <1>6, <1>7, <1>8, <1>9, <1>10 DEF IInv, Core

LEMMA PrepareKeeps ==
    ASSUME IInv, Prepare
    PROVE  IInv'
<1> DEFINE i == flow.item
           U == Unexpired
           new == [at |-> "pending", rev |-> flow.rev, from |-> bind.hash,
                   md |-> bind.md \cup {i}, hash |-> {}]
<1>1. /\ flow.at = "prepare" /\ GatewayFree
      /\ UNCHANGED <<file, doc, bind, op, executed, entry, loops, writes, notice, session,
                     crashes, history>>
  BY DEF Prepare
<1>2. /\ flow \in FlowType /\ i \in Items /\ session \in Sessions /\ flow.rev \in Revs
      /\ bind \in [hash : Texts, md : Texts] /\ flow.kind = "accept"
      /\ \A j \in Items, s \in Sessions : prep[j][s] \in PrepType
  BY <1>1, Types DEF IInv, Core, Carried
<1>3. U \in [Items -> [Sessions -> PrepType]]
      /\ \A j \in Items, s \in Sessions : U[j][s] \in {prep[j][s], NoPrep}
  BY <1>2, NoPrepType DEF Unexpired
<1>4. CASE flow' = NoFlow /\ prep' = U
  BY <1>1, <1>3, <1>4, NoFlowType, PrepareStep
<1>5. CASE /\ U[i][session] # NoPrep /\ prep' = U
           /\ flow' = [flow EXCEPT !.at = "prepared", !.from = U[i][session].from,
                                   !.md = U[i][session].md]
  <2>1. U[i][session] = prep[i][session] /\ U[i][session] \in PrepType
    BY <1>2, <1>3, <1>5
  <2>2. U[i][session].at # "none"
    BY <1>2, <1>5, <2>1 DEF IInv, Core, Contains
  <2> HIDE DEF U
  <2>3. U[i][session].from \in Texts /\ U[i][session].md \in Texts
    BY <2>1 DEF PrepType
  <2>4. /\ flow' \in FlowType /\ flow'.at = "prepared" /\ flow'.kind = "accept"
        /\ flow'.item = flow.item /\ flow'.from = U[i][session].from
        /\ flow'.md = U[i][session].md
    BY <1>2, <1>5, <2>3 DEF FlowType
  <2>5. QED BY <1>1, <1>3, <1>5, <2>2, <2>4, PrepareStep
<1>6. CASE /\ Reviewable /\ prep' = [U EXCEPT ![i][session] = new]
           /\ flow' = [flow EXCEPT !.at = "prepared", !.from = new.from, !.md = new.md]
  <2>1. /\ new \in PrepType /\ new.at = "pending" /\ new.rev = flow.rev /\ new.from = bind.hash
        /\ new.md = bind.md \cup {i} /\ new.from \in Texts /\ new.md \in Texts
    BY <1>2, Small DEF PrepType
  <2> HIDE DEF new, U
  <2>2. /\ prep' \in [Items -> [Sessions -> PrepType]] /\ prep'[i][session] = new
        /\ \A j \in Items, s \in Sessions : <<j, s>> # <<i, session>> => prep'[j][s] = U[j][s]
    BY <1>2, <1>3, <1>6, <2>1, PrepFields
  <2>3. /\ flow' \in FlowType /\ flow'.at = "prepared" /\ flow'.kind = "accept"
        /\ flow'.item = flow.item /\ flow'.from = new.from /\ flow'.md = new.md
    BY <1>2, <1>6, <2>1 DEF FlowType
  <2>4. new.rev =< op.rev
    BY <1>2, <1>6, <2>1, Types DEF Reviewable, IInv, Core, Revs
  <2>5. new.from \subseteq new.md \cup risked
    BY <2>1 DEF IInv, Adds
  <2>6. \A j \in Items, s \in Sessions :
            \/ prep'[j][s] \in {prep[j][s], NoPrep}
            \/ /\ prep'[j][s].at = "pending" /\ j \in prep'[j][s].md
               /\ prep'[j][s].rev =< op.rev
               /\ prep'[j][s].from \subseteq prep'[j][s].md \cup risked
               /\ prep'[j][s].md = bind.md \cup {j}
    BY <1>3, <2>1, <2>2, <2>4, <2>5
  <2>7. prep'[i][session].at # "none"
    BY <2>1, <2>2
  <2>8. QED BY <1>1, <2>2, <2>3, <2>6, <2>7, PrepareStep
<1>7. QED BY <1>4, <1>5, <1>6 DEF Prepare, Refused, Prepared

(***************************************************************************)
(* Decisions                                                               *)
(***************************************************************************)

Outcome(kind) == IF kind = "accept" THEN "applied" ELSE "rejected"

\* A decision settles its item, costs at most what the item paid for, and never
\* leaves the operation at the revision it had.
LEMMA DecidedFields ==
    ASSUME Core, op.status = "awaiting_review", NEW kind \in {"accept", "reject"},
           NEW i \in Items, Current(op, i)
    PROVE  /\ Decided(kind, i) \in Ops /\ op.rev < Decided(kind, i).rev
           /\ Decided(kind, i).items[i] = Outcome(kind)
           /\ \A j \in Items : j # i => Decided(kind, i).items[j] = op.items[j]
           /\ Decided(kind, i).status = "awaiting_review" =>
                 /\ Pending(Decided(kind, i)) # {}
                 /\ Decided(kind, i).rev + 2 * Cardinality(Pending(Decided(kind, i)))
                    =< 2 * NItems + 1
<1> DEFINE It == [Items -> {"pending", "applied", "rejected"}]
           St == {"awaiting_review", "completed", "rejected", "conflicted"}
           items == [op.items EXCEPT ![i] = Outcome(kind)]
           left == {j \in Items : items[j] = "pending"}
           rev == IF kind = "accept" THEN op.rev + 2 ELSE op.rev + 1
           base == IF kind = "accept" THEN doc.version + 1 ELSE op.base
           status == IF left # {} THEN op.status
                     ELSE IF \E j \in Items : items[j] = "applied"
                          THEN "completed" ELSE "rejected"
           d == [op EXCEPT !.items = items, !.rev = rev, !.base = base, !.status = status]
<1>1. op \in [status : St, rev : Revs, base : Nat, items : It] /\ op.items \in It
      /\ op.rev \in Nat /\ op.base \in Nat /\ doc.version \in Nat
  BY Types DEF Core, Ops, Revs
<1>2. Decided(kind, i) = d
  BY DEF Decided, Outcome
<1>3. items \in It /\ items[i] = Outcome(kind) /\ items[i] # "pending"
      /\ \A j \in Items : j # i => items[j] = op.items[j]
  BY <1>1 DEF Outcome
<1>4. status \in St /\ (status = "awaiting_review" <=> left # {})
  OBVIOUS
<1>5. base \in Nat
  BY <1>1
<1>6. i \in Pending(op) /\ left = Pending(op) \ {i}
  BY <1>3 DEF Current, Pending
<1>7. /\ Cardinality(Pending(op)) \in Nat /\ Cardinality(Pending(op)) # 0
      /\ Cardinality(left) = Cardinality(Pending(op)) - 1
  <2>1. IsFiniteSet(Items)
    BY FS_Interval, VaultAssumption DEF Items
  <2>2. IsFiniteSet(Pending(op))
    BY <2>1, FS_Subset DEF Pending
  <2>3. Cardinality(Pending(op)) \in Nat /\ Cardinality(Pending(op)) # 0
    BY <1>6, <2>2, FS_CardinalityType, FS_EmptySet
  <2>4. Cardinality(Pending(op) \ {i}) = Cardinality(Pending(op)) - 1
    BY <1>6, <2>2, FS_RemoveElement
  <2>5. QED BY <1>6, <2>3, <2>4
<1>8. op.rev + 2 * Cardinality(Pending(op)) =< 2 * NItems + 1
  BY DEF Core, Budget
<1>9. rev \in Nat /\ op.rev < rev /\ rev =< op.rev + 2
  BY <1>1
<1> HIDE DEF rev, left
<1>10. rev + 2 * Cardinality(left) =< 2 * NItems + 1
  BY <1>1, <1>7, <1>8, <1>9, VaultAssumption
<1>11. rev \in Revs
  BY <1>1, <1>7, <1>8, <1>9, VaultAssumption DEF Revs
<1> HIDE DEF It, St, items, base, status
<1>12. d \in [status : St, rev : Revs, base : Nat, items : It]
  BY <1>1, <1>3, <1>4, <1>5, <1>11
<1>13. d.items = items /\ d.rev = rev /\ d.status = status
  BY <1>1
<1> HIDE DEF d
<1>14. d \in Ops
  BY <1>12 DEF Ops, It, St
<1>15. Pending(d) = left
  BY <1>13 DEF Pending, left
<1>16. QED BY <1>2, <1>3, <1>4, <1>9, <1>10, <1>13, <1>14, <1>15

\* A command is carried out, with a revision the operation is at.
LEMMA ExecuteKeeps ==
    ASSUME IInv, NEW kind \in {"accept", "reject"}, NEW rev,
           Executes(Cmd(kind, flow.item), rev), Execute(Cmd(kind, flow.item)), GatewayFree,
           kind = flow.kind, kind = "accept" <=> flow.at = "complete",
           kind = "reject" <=> flow.at = "execute",
           kind = "accept" => rev = prep[flow.item][session].rev,
           flow' \in FlowType, flow'.kind = flow.kind, flow'.item = flow.item,
           flow'.from = flow.from, flow'.md = flow.md, flow'.hash = flow.hash,
           flow'.at = IF kind = "accept" THEN "bind" ELSE "answer",
           UNCHANGED <<file, bind, prep, entry, loops, writes, notice, session, crashes, history>>
    PROVE  IInv'
<1> DEFINE i == flow.item
           c == Cmd(kind, i)
           d == Decided(kind, i)
<1>1. c.kind = kind /\ c.item = i /\ c \in Cmds /\ i \in Items /\ session \in Sessions
  BY Types DEF Cmd, Cmds, IInv, Core
<1>2. /\ c \notin executed /\ op.rev = rev /\ op.status = "awaiting_review" /\ Current(op, i)
      /\ executed' = executed \cup {c} /\ op' = d
      /\ doc' = IF kind = "accept"
                THEN [version |-> doc.version + 1, text |-> doc.text \cup {i}] ELSE doc
  BY <1>1 DEF Executes, CapabilityAccepts, Execute
<1>3. /\ d \in Ops /\ op.rev < d.rev /\ d.items[i] = Outcome(kind)
      /\ \A j \in Items : j # i => d.items[j] = op.items[j]
      /\ d.status = "awaiting_review" =>
            Pending(d) # {} /\ d.rev + 2 * Cardinality(Pending(d)) =< 2 * NItems + 1
  BY <1>1, <1>2, DecidedFields DEF IInv
<1> HIDE DEF d, c
<1>4. kind = "accept" => i \in disk
  BY DEF IInv, Core, Carried
<1>5. /\ doc' \in [version : Nat \ {0}, text : Texts]
      /\ doc'.text = IF kind = "accept" THEN doc.text \cup {i} ELSE doc.text
  <2>1. doc \in [version : Nat \ {0}, text : Texts] /\ doc.text \in Texts
        /\ doc.version \in Nat \ {0} /\ doc.version + 1 \in Nat \ {0}
    BY Types DEF IInv, Core
  <2>2. doc.text \cup {i} \in Texts
    BY <1>1, <2>1, Small
  <2>3. QED BY <1>2, <2>1, <2>2
<1>6. TypeOK'
  BY <1>1, <1>2, <1>3, <1>5 DEF IInv, Core, TypeOK, FlowType
<1>7. Budget'
  BY <1>2, <1>3 DEF Budget
<1>8. Seen'
  BY <1>4, <1>5 DEF IInv, Core, Seen
<1>9. Contains'
  BY DEF IInv, Core, Contains
<1>10. Logged'
  <2> SUFFICES ASSUME NEW x \in executed \cup {c}
               PROVE  /\ d.items[x.item] = Outcome(x.kind)
                      /\ x.kind = "accept" => x.item \in disk
    BY <1>2 DEF Logged, Outcome
  <2>1. CASE x = c
    BY <1>1, <1>3, <1>4, <2>1
  <2>2. CASE x \in executed
    <3>1. op.items[x.item] = Outcome(x.kind) /\ (x.kind = "accept" => x.item \in disk)
      BY <2>2 DEF IInv, Core, Logged, Outcome
    <3>2. op.items[i] = "pending" /\ Outcome(x.kind) # "pending"
      BY <1>2 DEF Current, Pending, Outcome
    <3>3. x.item \in Items
      BY <2>2, Types DEF IInv, Core, Cmds
    <3>4. QED BY <1>3, <3>1, <3>2, <3>3
  <2>3. QED BY <2>1, <2>2
<1>11. Ahead' /\ \A j \in Items, s \in Sessions : prep[j][s].rev # d.rev
  <2> SUFFICES ASSUME NEW j \in Items, NEW s \in Sessions
               PROVE  prep[j][s].rev =< d.rev /\ prep[j][s].rev # d.rev
    BY <1>2 DEF Ahead
  <2>1. prep[j][s].rev =< op.rev
    BY DEF IInv, Core, Ahead
  <2>2. prep[j][s].rev \in Nat /\ op.rev \in Nat /\ d.rev \in Nat
    BY <1>3, Types DEF IInv, Core, PrepType, Ops, Revs
  <2>3. QED BY <1>3, <2>1, <2>2
<1>12. Carried'
  BY <1>2, <1>4 DEF IInv, Core, Carried, Patching, Cmd, c
<1>13. Adds => Adds'
  BY DEF Adds, Patching
<1>14. Quiet => Bound'
  <2> SUFFICES ASSUME Quiet PROVE Bound'
    OBVIOUS
  <2>1. Bound /\ flow.at # "bind" /\ \A l \in Loops : loops[l].at # "saved"
    BY DEF IInv, GatewayFree
  <2>2. kind = "accept" => doc.text \cup {i} = flow.md
    <3> SUFFICES ASSUME kind = "accept" PROVE doc.text \cup {i} = flow.md
      OBVIOUS
    <3>1. prep[i][session].at # "none" /\ prep[i][session].md = flow.md
      BY DEF IInv, Core, Carried, Patching
    <3>2. prep[i][session].md = doc.text \cup {i}
      BY <1>1, <1>2, <2>1, <3>1 DEF Bound
    <3>3. QED BY <3>1, <3>2
  <2>3. QED BY <1>2, <1>5, <1>11, <2>1, <2>2 DEF Bound, GatewayFree
<1>15. Quiet => Fresh'
  <2> SUFFICES ASSUME Quiet, NEW x \in executed \cup {c}
               PROVE  entry.items[x.item] # "pending" \/ x.item = i
    BY <1>2 DEF Fresh
  <2>1. Fresh
    BY DEF IInv
  <2>2. QED BY <1>1, <2>1 DEF Fresh
<1>16. Quiet' <=> Quiet
  BY DEF Quiet
<1>17. QED
  BY <1>6, <1>7, <1>8, <1>9, <1>10, <1>11, <1>12, <1>13, <1>14, <1>15, <1>16 DEF IInv, Core

\* A command that is found in the log is answered; somebody died in between.
LEMMA ReplayKeeps ==
    ASSUME IInv, flow.at \in {"complete", "execute"}, Cmd(flow.kind, flow.item) \in executed,
           flow' \in FlowType, flow'.kind = flow.kind, flow'.item = flow.item,
           flow'.from = flow.from, flow'.md = flow.md, flow'.hash = flow.hash,
           flow'.at = IF flow.at = "complete" THEN "bind" ELSE "answer",
           UNCHANGED <<file, doc, op, executed, bind, prep, entry, loops, writes, notice,
                       session, crashes, history>>
    PROVE  IInv'
<1>1. ~(Quiet /\ Fresh)
  BY DEF Fresh, Cmd
<1>2. ~Quiet
  BY <1>1 DEF IInv
<1>3. TypeOK'
  BY DEF IInv, Core, TypeOK, FlowType
<1>4. Budget' /\ Seen' /\ Contains' /\ Logged' /\ Ahead'
  BY DEF IInv, Core, Budget, Pending, Seen, Contains, Logged, Ahead
<1>5. Carried'
  BY DEF IInv, Core, Carried, Patching, Cmd
<1>6. Adds => Adds'
  BY DEF Adds, Patching
<1>7. ~Quiet'
  BY <1>2 DEF Quiet
<1>8. QED BY <1>3, <1>4, <1>5, <1>6, <1>7 DEF IInv, Core

LEMMA CompleteKeeps ==
    ASSUME IInv, Complete
    PROVE  IInv'
<1> DEFINE c == Cmd("accept", flow.item)
           p == prep[flow.item][session]
<1>1. /\ flow.at = "complete" /\ GatewayFree
      /\ UNCHANGED <<file, bind, prep, entry, loops, writes, notice, session, crashes, history>>
  BY DEF Complete
<1>2. flow \in FlowType /\ flow.kind = "accept" /\ {} \in Texts
  BY <1>1, Types, Small DEF IInv, Core, Carried, Patching
<1>3. /\ Moved("bind") \in FlowType /\ Moved("bind").at = "bind"
      /\ Moved("bind").kind = flow.kind /\ Moved("bind").item = flow.item
      /\ Moved("bind").from = flow.from /\ Moved("bind").md = flow.md
      /\ Moved("bind").hash = flow.hash
  BY <1>2, FlowFields
<1>4. CASE c \in executed /\ flow' = Moved("bind") /\ UNCHANGED <<doc, op, executed>>
  BY <1>1, <1>2, <1>3, <1>4, ReplayKeeps
<1>5. CASE Executes(c, p.rev) /\ Execute(c) /\ flow' = Moved("bind")
  <2>1. flow'.at = IF "accept" = "accept" THEN "bind" ELSE "answer"
    BY <1>3, <1>5
  <2>2. QED BY <1>1, <1>2, <1>3, <1>5, <2>1, ExecuteKeeps
<1>6. CASE flow' = NoFlow /\ UNCHANGED <<doc, op, executed>>
  <2>1. notice' \in BOOLEAN
    BY <1>1 DEF IInv, Core, TypeOK
  <2>2. QED BY <1>1, <1>6, <2>1, DropKeeps
<1>7. QED BY <1>4, <1>5, <1>6 DEF Complete, Refused, Moved

LEMMA ExecuteCommandKeeps ==
    ASSUME IInv, ExecuteCommand
    PROVE  IInv'
<1> DEFINE c == Cmd("reject", flow.item)
<1>1. /\ flow.at = "execute" /\ GatewayFree
      /\ UNCHANGED <<file, bind, prep, entry, loops, writes, notice, session, crashes, history>>
  BY DEF ExecuteCommand
<1>2. flow \in FlowType /\ flow.kind = "reject" /\ {} \in Texts
  BY <1>1, Types, Small DEF IInv, Core, Carried
<1>3. /\ Moved("answer") \in FlowType /\ Moved("answer").at = "answer"
      /\ Moved("answer").kind = flow.kind /\ Moved("answer").item = flow.item
      /\ Moved("answer").from = flow.from /\ Moved("answer").md = flow.md
      /\ Moved("answer").hash = flow.hash
  BY <1>2, FlowFields
<1>4. CASE c \in executed /\ flow' = Moved("answer") /\ UNCHANGED <<doc, op, executed>>
  BY <1>1, <1>2, <1>3, <1>4, ReplayKeeps
<1>5. CASE Executes(c, flow.rev) /\ Execute(c) /\ flow' = Moved("answer")
  <2>1. flow'.at = IF "reject" = "accept" THEN "bind" ELSE "answer"
    BY <1>3, <1>5
  <2>2. QED BY <1>1, <1>2, <1>3, <1>5, <2>1, ExecuteKeeps
<1>6. CASE flow' = NoFlow /\ UNCHANGED <<doc, op, executed>>
  <2>1. notice' \in BOOLEAN
    BY <1>1 DEF IInv, Core, TypeOK
  <2>2. QED BY <1>1, <1>6, <2>1, DropKeeps
<1>7. QED BY <1>4, <1>5, <1>6 DEF ExecuteCommand, Refused, Moved

LEMMA CompleteBindKeeps ==
    ASSUME IInv, CompleteBind
    PROVE  IInv'
<1> DEFINE i == flow.item
           x == Done(prep[i][session], flow.hash)
<1>1. /\ flow.at = "bind" /\ prep' = [prep EXCEPT ![i][session] = x]
      /\ bind' = [hash |-> flow.hash, md |-> prep[i][session].md]
      /\ flow' = [flow EXCEPT !.at = "answer", !.from = {}, !.md = {}, !.hash = {}]
      /\ UNCHANGED <<file, doc, op, executed, entry, loops, writes, notice, session,
                     crashes, history>>
  BY DEF CompleteBind, Done
<1>2. /\ flow \in FlowType /\ i \in Items /\ session \in Sessions /\ flow.hash \in Texts
      /\ prep \in [Items -> [Sessions -> PrepType]] /\ prep[i][session] \in PrepType
      /\ prep[i][session].md \in Texts
  BY Types DEF IInv, Core, FlowType, PrepType
<1>3. /\ x \in PrepType /\ x.at = "completed" /\ x.rev = prep[i][session].rev
      /\ x.from = prep[i][session].from /\ x.md = prep[i][session].md
  BY <1>2, PatchFields
<1> HIDE DEF x
<1>4. /\ prep' \in [Items -> [Sessions -> PrepType]] /\ prep'[i][session] = x
      /\ \A j \in Items, r \in Sessions : <<j, r>> # <<i, session>> => prep'[j][r] = prep[j][r]
  BY <1>1, <1>2, <1>3, PrepFields
<1>5. prep[i][session].at # "none" /\ prep[i][session].md = flow.md
  BY <1>1 DEF IInv, Core, Carried, Patching
<1>6. \A j \in Items, r \in Sessions :
          /\ prep'[j][r].rev = prep[j][r].rev /\ prep'[j][r].from = prep[j][r].from
          /\ prep'[j][r].md = prep[j][r].md
          /\ prep'[j][r].at = "none" <=> prep[j][r].at = "none"
          /\ prep[j][r] = NoPrep => prep'[j][r] = NoPrep
  BY <1>3, <1>4, <1>5, NoPrepType
<1>7. /\ flow' \in FlowType /\ flow'.at = "answer" /\ flow'.kind = flow.kind
      /\ flow'.item = flow.item
  BY <1>1, <1>2, Small DEF FlowType
<1>8. /\ bind' \in [hash : Texts, md : Texts] /\ bind'.hash = flow.hash /\ bind'.md = flow.md
  BY <1>1, <1>2, <1>5
<1>9. TypeOK'
  BY <1>1, <1>4, <1>7, <1>8 DEF IInv, Core, TypeOK, PrepType, FlowType
<1>10. Budget' /\ Seen' /\ Logged'
  BY <1>1 DEF IInv, Core, Budget, Pending, Seen, Logged
<1>11. Contains' /\ Ahead'
  BY <1>1, <1>6 DEF IInv, Core, Contains, Ahead
<1>12. Carried'
  BY <1>1, <1>7 DEF IInv, Core, Carried, Patching, Cmd
<1>13. Adds => Adds'
  BY <1>1, <1>6, <1>7, <1>8 DEF Adds, Patching
<1>14. Bound => Bound'
  BY <1>1, <1>6, <1>7, <1>8 DEF Bound, GatewayFree
<1>15. Fresh => Fresh'
  BY <1>1, <1>7 DEF Fresh
<1>16. Quiet' <=> Quiet
  BY <1>1 DEF Quiet
<1>17. QED
  BY <1>9, <1>10, <1>11, <1>12, <1>13, <1>14, <1>15, <1>16 DEF IInv, Core

(***************************************************************************)
(* Crashes                                                                 *)
(***************************************************************************)

\* Whoever dies, the document, its file and the Gateway's tables remain.
LEMMA DeadKeeps ==
    ASSUME IInv, loops' \in [Loops -> LoopType],
           \A l \in Loops : loops'[l] \in {loops[l], NoLoop},
           writes' = << >>, notice' \in BOOLEAN, entry' = entry \/ entry' = op,
           session' \in Sessions, crashes' \in 0..MaxFaults, crashes' + session' # 0,
           flow' = NoFlow \/ (flow' = flow /\ session' = session /\ flow.at # "bind"),
           UNCHANGED <<file, doc, bind, op, executed, prep, history>>
    PROVE  IInv'
<1>1. writes' \in Seq(Loops)
  OBVIOUS
<1>2. flow' \in FlowType
  BY NoFlowType, Types DEF IInv, Core
<1>3. TypeOK'
  BY <1>1, <1>2 DEF IInv, Core, TypeOK, LoopType, FlowType
<1>4. Budget' /\ Contains' /\ Logged' /\ Ahead'
  BY DEF IInv, Core, Budget, Pending, Contains, Logged, Ahead
<1>5. Seen'
  BY NoLoopType DEF IInv, Core, Seen
<1>6. Carried'
  BY NoFlowType DEF IInv, Core, Carried, Patching, Cmd
<1>7. Adds => Adds'
  BY NoFlowType DEF Adds, Patching
<1>8. ~Quiet'
  BY DEF Quiet
<1>9. QED BY <1>3, <1>4, <1>5, <1>6, <1>7, <1>8 DEF IInv, Core

LEMMA GatewayCrashKeeps ==
    ASSUME IInv, GatewayCrash
    PROVE  IInv'
<1>1. /\ crashes + session < MaxFaults /\ crashes' = crashes + 1 /\ writes' = << >>
      /\ loops' = [l \in Loops |-> IF loops[l].at \in {"queued", "saved"} THEN NoLoop
                                   ELSE loops[l]]
      /\ flow' = NoFlow \/ (flow' = flow /\ flow.at # "bind")
      /\ UNCHANGED <<file, doc, bind, op, executed, prep, entry, notice, session, history>>
  BY DEF GatewayCrash, gateway
<1>2. session \in Nat /\ crashes \in Nat /\ session \in Sessions
  BY Types, Small DEF IInv, Core
<1>3. /\ loops' \in [Loops -> LoopType]
      /\ \A l \in Loops : loops'[l] \in {loops[l], NoLoop}
  BY <1>1, Types, NoLoopType DEF IInv, Core
<1>4. crashes' \in 0..MaxFaults /\ crashes' + session' # 0 /\ session' \in Sessions
  BY <1>1, <1>2, VaultAssumption
<1>5. notice' \in BOOLEAN
  BY <1>1 DEF IInv, Core, TypeOK
<1>6. QED BY <1>1, <1>3, <1>4, <1>5, DeadKeeps

LEMMA RestartKeeps ==
    ASSUME IInv, Restart
    PROVE  IInv'
<1>1. /\ crashes + session < MaxFaults /\ session' = session + 1 /\ entry' = op
      /\ flow' = NoFlow /\ loops' = [l \in Loops |-> NoLoop] /\ writes' = << >>
      /\ notice' = TRUE
      /\ UNCHANGED <<file, doc, bind, op, executed, prep, crashes, history>>
  BY DEF Restart, gateway
<1>2. session \in Nat /\ crashes \in 0..MaxFaults
  BY Types, Small DEF IInv, Core
<1>3. /\ loops' \in [Loops -> LoopType]
      /\ \A l \in Loops : loops'[l] \in {loops[l], NoLoop}
  BY <1>1, NoLoopType
<1>4. crashes' \in 0..MaxFaults /\ crashes' + session' # 0 /\ session' \in Sessions
  BY <1>1, <1>2, VaultAssumption DEF Sessions
<1>5. notice' \in BOOLEAN
  BY <1>1
<1>6. QED BY <1>1, <1>3, <1>4, <1>5, DeadKeeps

LEMMA StepKeeps ==
    ASSUME IInv, [Next]_vars
    PROVE  IInv'
<1>1. CASE UNCHANGED vars
  <2>1. UNCHANGED <<file, doc, bind, op, executed, prep, entry, flow, loops, notice, writes,
                    session, crashes, history>>
    BY <1>1 DEF vars, gateway, desktop
  <2>2. TypeOK'
    BY <2>1 DEF IInv, Core, TypeOK
  <2>3. Budget' /\ Seen' /\ Contains' /\ Logged' /\ Ahead'
    BY <2>1 DEF IInv, Core, Budget, Pending, Seen, Contains, Logged, Ahead
  <2>4. Carried'
    BY <2>1 DEF IInv, Core, Carried, Patching, Cmd
  <2>5. Adds => Adds'
    BY <2>1 DEF Adds, Patching
  <2>6. Bound => Bound'
    BY <2>1 DEF Bound, GatewayFree
  <2>7. Fresh => Fresh'
    BY <2>1 DEF Fresh
  <2>8. Quiet' <=> Quiet
    BY <2>1 DEF Quiet
  <2>9. QED BY <2>2, <2>3, <2>4, <2>5, <2>6, <2>7, <2>8 DEF IInv, Core
<1>2. CASE \E kind \in {"accept", "reject"} : Decide(kind)
  BY <1>2, DecideKeeps
<1>3. CASE \E e \in Edits : UserEdit(e)
  BY <1>3, UserEditKeeps
<1>4. CASE Flow
  BY <1>4, PrepareKeeps, ReadNoteKeeps, CheckNoteKeeps, WriteNoteKeeps, RereadNoteKeeps,
     CompleteKeeps, CompleteBindKeeps, ExecuteCommandKeeps, ReceiveKeeps DEF Flow
<1>5. CASE Load \/ GatewayCrash \/ Restart
  BY <1>5, LoadKeeps, GatewayCrashKeeps, RestartKeeps
<1>6. CASE \E l \in Loops : Project(l)
  BY <1>6, ProjectNoteKeeps, SyncBeginKeeps, SyncSaveKeeps, SyncBindKeeps DEF Project
<1>7. CASE \E i \in Items : PrepExpire(i)
  BY <1>7, PrepExpireKeeps
<1>8. QED BY <1>1, <1>2, <1>3, <1>4, <1>5, <1>6, <1>7 DEF Next

(***************************************************************************)
(* Theorems                                                                *)
(***************************************************************************)

\* The strengthening holds in every state.
THEOREM Invariance == Spec => []IInv
<1>1. Init => IInv
  BY InitHolds
<1>2. IInv /\ [Next]_vars => IInv'
  BY StepKeeps
<1>3. QED BY <1>1, <1>2, PTL DEF Spec

\* Every variable keeps to its type; the revisions an operation reaches are
\* bounded by its items.
THEOREM TypeCorrect == Spec => []TypeOK
<1>1. IInv => TypeOK
  BY DEF IInv, Core
<1>2. QED BY <1>1, Invariance, PTL

\* Crashes or not, what the document shows has been in the file.
THEOREM NeverAhead == Spec => []SourceFirst
<1>1. IInv => SourceFirst
  BY DEF IInv, Core, Seen, SourceFirst
<1>2. QED BY <1>1, Invariance, PTL

\* A decision that was answered with success is recorded for good, and the
\* accepted text has been in the file; one that the state machine refuses, as
\* the rejection of the last item after an acceptance, was never answered so.
THEOREM AnswersTrue == Spec => []ToldTrue
<1>1. IInv => ToldTrue
  BY DEF IInv, Core, TypeOK, Logged, ToldTrue
<1>2. QED BY <1>1, Invariance, PTL

\* However projections, decisions and edits interleave, the binding is about
\* the document whenever the Gateway is between handlers.
THEOREM BindingTrue == Spec => []BindingAgrees
<1>1. IInv => BindingAgrees
  BY DEF IInv, Quiet, Bound, BindingAgrees
<1>2. QED BY <1>1, Invariance, PTL

\* A rejection that was executed is not refused when it is sent again; one the
\* state machine refused is in no log, and is refused again.
THEOREM RetryAnswered == Spec => RejectRetried
<1>1. ASSUME IInv, [Next]_vars
      PROVE  [~Refuses("reject")]_vars
  <2> SUFFICES ASSUME Refuses("reject") PROVE FALSE
    OBVIOUS
  <2>1. /\ flow.at \in {"prepare", "execute", "complete"} /\ flow' = NoFlow
        /\ flow.kind = "reject" /\ Cmd("reject", flow.item) \in executed
        /\ crashes' = crashes /\ session' = session
    BY DEF Refuses
  <2>2. flow.at = "execute"
    BY <1>1, <2>1 DEF IInv, Core, Carried, Patching
  <2>3. flow' # flow /\ crashes \in Nat /\ session \in Nat
    BY <1>1, <2>1, <2>2, NoFlowType, Types, Small DEF IInv, Core
  <2>4. ~ExecuteCommand
    <3>1. Moved("answer").at = "answer"
      BY <1>1, FlowFields, Types, Small DEF IInv, Core
    <3>2. SUFFICES ASSUME ExecuteCommand PROVE FALSE
      OBVIOUS
    <3>3. flow' = Moved("answer")
      BY <2>1, <3>2 DEF ExecuteCommand, Executes, Moved
    <3>4. QED BY <2>1, <3>1, <3>3, NoFlowType
  <2>5. ~Prepare /\ ~ReadNote /\ ~CheckNote /\ ~WriteNote /\ ~RereadNote /\ ~Complete
        /\ ~CompleteBind /\ ~Receive
    BY <2>2 DEF Prepare, ReadNote, CheckNote, WriteNote, RereadNote, Complete, CompleteBind,
                Receive
  <2>6. \A kind \in {"accept", "reject"} : ~Decide(kind)
    BY <2>2 DEF Decide
  <2>7. ~GatewayCrash /\ ~Restart
    BY <2>1, <2>3 DEF GatewayCrash, Restart
  <2>8. /\ \A e \in Edits : ~UserEdit(e)
        /\ ~Load /\ \A l \in Loops : ~Project(l)
        /\ \A i \in Items : ~PrepExpire(i)
    BY <2>3 DEF UserEdit, Load, Project, ProjectNote, SyncBegin, SyncSave, SyncBind, PrepExpire,
                desktop
  <2>9. ~UNCHANGED vars
    BY <2>3 DEF vars, desktop
  <2>10. QED BY <1>1, <2>4, <2>5, <2>6, <2>7, <2>8, <2>9 DEF Next, Flow
<1>2. QED BY <1>1, Invariance, PTL DEF Spec, RejectRetried

\* Whatever is prepared, retried, projected or restarted, and however the user's
\* edits interleave with it, a step that takes something from the note takes only
\* edits that were made between a comparison of saveNoteForAgent and the read
\* after its write.
THEOREM NothingOverwritten == Spec => LostOnlyInSave
<1>1. ASSUME IInv, [Next]_vars
      PROVE  [file \ file' \subseteq risked]_file
  <2> SUFFICES ASSUME file' # file PROVE file \ file' \subseteq risked
    OBVIOUS
  <2>1. CASE WriteNote
    <3>1. file \subseteq flow.from \cup risked /\ flow.from \subseteq flow.md \cup risked
      BY <1>1, <2>1 DEF WriteNote, IInv, Adds, Patching
    <3>2. file' = flow.md
      BY <2>1 DEF WriteNote
    <3>3. QED BY <3>1, <3>2
  <2>2. CASE \E e \in Edits : UserEdit(e)
    BY <2>2 DEF UserEdit
  <2>3. CASE Flow /\ ~WriteNote
    BY <2>3 DEF Flow, Prepare, ReadNote, CheckNote, RereadNote, Complete, CompleteBind,
                ExecuteCommand, Receive
  <2>4. CASE \E kind \in {"accept", "reject"} : Decide(kind)
    BY <2>4 DEF Decide
  <2>5. CASE \E l \in Loops : Project(l)
    BY <2>5 DEF Project, ProjectNote, SyncBegin, SyncSave, SyncBind
  <2>6. CASE Load \/ GatewayCrash \/ Restart \/ \E i \in Items : PrepExpire(i)
    BY <2>6 DEF Load, GatewayCrash, Restart, PrepExpire
  <2>7. CASE UNCHANGED vars
    BY <2>7 DEF vars
  <2>8. QED BY <1>1, <2>1, <2>2, <2>3, <2>4, <2>5, <2>6, <2>7 DEF Next
<1>2. QED BY <1>1, Invariance, PTL DEF Spec, LostOnlyInSave
=============================================================================
