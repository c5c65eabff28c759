------------------------ MODULE DocumentLeaseProofs ------------------------
(***************************************************************************)
(* Theorems about the leases, drafts and proposals of DocumentKernel, for  *)
(* any documents, operations and runs and any bounds.                      *)
(***************************************************************************)
EXTENDS DocumentKernelProofs

(***************************************************************************)
(* The invariant                                                           *)
(***************************************************************************)

Patch(o) == ops[o].kind \in {"edit", "continue"}

\* An open operation runs or waits for review.  An open patch is on the current
\* version, and holds its document while it is built.  An open document.create
\* has no document yet: before its first command its draft does not exist
\* either, and after it the draft is its own.
OperationShape(o) ==
    /\ ops[o].status \in Active => ops[o].status \in {"running", "awaiting_review"}
    /\ ops[o].status \in {"none", "planned"} => ops[o].draft = Null
    /\ ops[o].status \in Rows \cup {"planned"} => ops[o].kind \in Kinds
    /\ ops[o].status \in Rows => ops[o].rev # 0
    /\ ops[o].status = "planned" => ops[o].kind = "rewrite"
    /\ ops[o].kind \in {"edit", "continue", "rewrite"} => ops[o].base \in Nat
    /\ ops[o].status \in Rows /\ ops[o].doc # Null => Exists(ops[o].doc)
    /\ Patch(o) /\ ops[o].status \in Active => ops[o].base = docs[ops[o].doc].version
    /\ Patch(o) /\ ops[o].status \in Building => docs[ops[o].doc].lease = o
    /\ ops[o].kind = "create" /\ ops[o].status \in Active =>
          /\ ops[o].status = "running"
          /\ ops[o].doc = Null
          /\ ops[o].rev = 1 => ~Exists(ops[o].draft)
          /\ ops[o].rev # 1 => OwnsDraft(o)

\* A document in the trash is free.  An operation's lease belongs to a patch
\* that is built on the document or to the create whose draft it is; a draft is
\* always held so, and a draft id that is in use was drawn by an operation.
DocumentShape(d) ==
    /\ docs[d].trashed => docs[d].lease = Null
    /\ docs[d].lease \in Ops =>
          /\ ops[docs[d].lease].status \in Building
          /\ \/ Patch(docs[d].lease) /\ ops[docs[d].lease].doc = d
             \/ ops[docs[d].lease].kind = "create" /\ ops[docs[d].lease].draft = d
    /\ docs[d].status = "draft" => /\ docs[d].lease \in Ops
                                   /\ ops[docs[d].lease].kind = "create"
    /\ d \in Drafts /\ Exists(d) => \E o \in Ops : ops[o].draft = d

DraftsOnce == \A o, x \in Ops : ops[o].draft = ops[x].draft /\ ops[o].draft # Null => o = x

\* What the handler of a queued command saw of its operation's kind, and, while
\* the revision is the one it read, of its status.
CommandShape(d) ==
    LET c == cmds[d]
    IN  c.op # Null =>
            /\ c.type \in Types
            /\ ops[c.op].status \in Rows =>
                  /\ ops[c.op].kind = "create" =>
                        c.type \in {"stream.begin", "stream.append", "stream.commit",
                                    "operation.cancel"}
                  /\ c.rev = ops[c.op].rev => Admits(c.op, c.type)

LeaseInv ==
    /\ \A o \in Ops : OperationShape(o)
    /\ \A d \in AllDocs : DocumentShape(d)
    /\ \A d \in AllDocs : CommandShape(d)
    /\ DraftsOnce

(***************************************************************************)
(* What every step makes sure of                                           *)
(***************************************************************************)

\* Finality, of one operation.
FinalStep(o) ==
    ops[o].status \in Terminal =>
        \/ ops'[o] = ops[o]
        \/ ops'[o].status = "gone"
        \/ ops[o].status = "conflicted" /\ ops'[o].status = "cancelled"

\* ConflictsWithAdvance, of one document.
AdvanceOutdates(d) ==
    docs'[d].version > docs[d].version =>
        \A o \in Ops : ops'[o].status \in Active /\ ops'[o].doc = d =>
            ops'[o].base = docs'[d].version

LeaseStep ==
    /\ LeaseInv'
    /\ \A o \in Ops : FinalStep(o)
    /\ \A d \in AllDocs : AdvanceOutdates(d)

\* The rows of the two states, without the other parts of the invariant.
Typed ==
    /\ docs \in [AllDocs -> DocRow]
    /\ ops \in [Ops -> OpRow]
    /\ cmds \in [AllDocs -> Command]
    /\ \A o \in Ops : OperationOK(o)
    /\ \A d \in AllDocs : DocumentOK(d) /\ CommandOK(d)

LEMMA TypedOK == IInv => Typed
BY Rows_ DEF IInv, Typed

\* The statuses, told apart.
LEMMA Statuses ==
    /\ Active = {"created", "running", "awaiting_input", "awaiting_review", "applying"}
    /\ Rows = Active \cup Terminal
    /\ Active \cap Terminal = {} /\ Building \subseteq Active
    /\ {"none", "planned", "gone"} \cap Rows = {}
    /\ "awaiting_review" \notin Building
BY DEF Rows, Active, Building, Terminal

\* What a step may do to an operation so that its queued commands stay valid.
OpKept(o) ==
    \/ ops'[o] = ops[o]
    \/ ops'[o].status \notin Rows
    \/ ops[o].status \notin Rows \cup {"gone"}
    \/ /\ ops[o].status \in Rows
       /\ ops'[o].kind = ops[o].kind /\ ops'[o].rev > ops[o].rev

\* A command that stays queued keeps its shape.
LEMMA CommandsKept ==
    ASSUME Typed, Typed', LeaseInv,
           \A o \in Ops : OpKept(o),
           \A d \in AllDocs : cmds'[d] = cmds[d] \/ cmds'[d] = Idle
    PROVE  \A d \in AllDocs : CommandShape(d)'
<1> SUFFICES ASSUME NEW d \in AllDocs, cmds'[d].op # Null
             PROVE  CommandShape(d)'
  BY DEF CommandShape
<1> DEFINE c == cmds[d]
<1>1. cmds'[d] = c /\ c \in Command /\ c.op \in Ops /\ CommandOK(d)
  BY DEF Typed, Command, Idle
<1>2. /\ OpKept(c.op) /\ CommandShape(d)
      /\ ops[c.op] \in OpRow /\ ops'[c.op] \in OpRow
  BY <1>1 DEF LeaseInv, Typed
<1>3. ops[c.op].status \in Rows \cup {"gone"}
  BY <1>1 DEF CommandOK
<1>4. CASE ops'[c.op] = ops[c.op]
  BY <1>1, <1>2, <1>4 DEF CommandShape, Admits
<1>5. CASE /\ ops[c.op].status \in Rows
           /\ ops'[c.op].kind = ops[c.op].kind /\ ops'[c.op].rev > ops[c.op].rev
  <2>1. c.rev =< ops[c.op].rev
    BY <1>1, <1>5 DEF CommandOK
  <2>2. c.rev # ops'[c.op].rev
    BY <1>1, <1>2, <1>5, <2>1 DEF OpRow, Command
  <2> QED
    BY <1>1, <1>2, <1>5, <2>2 DEF CommandShape
<1>6. CASE ops'[c.op].status \notin Rows
  BY <1>1, <1>2, <1>6 DEF CommandShape
<1> QED
  BY <1>1, <1>2, <1>3, <1>4, <1>5, <1>6 DEF OpKept

(***************************************************************************)
(* Steps that leave the operations alone                                   *)
(***************************************************************************)

\* Steps that change at most marks and the trash: an agent's mark is no
\* operation's lease, and only a free document is in the trash.
LEMMA MarksStep ==
    ASSUME Typed, Typed', LeaseInv,
           ops' = ops,
           \A d \in AllDocs : cmds'[d] = cmds[d] \/ cmds'[d] = Idle,
           \A d \in AllDocs :
               /\ docs'[d].status = docs[d].status /\ docs'[d].version = docs[d].version
               /\ \/ docs'[d].lease = docs[d].lease
                  \/ docs[d].lease \notin Ops /\ docs'[d].lease \notin Ops
               /\ docs'[d].trashed => docs'[d].lease = Null
    PROVE  LeaseStep
<1>1. \A o \in Ops : ops'[o] = ops[o]
  OBVIOUS
<1>2. ASSUME NEW o \in Ops PROVE OperationShape(o)'
  <2>1. OperationShape(o) /\ OperationOK(o) /\ ops[o] \in OpRow
    BY DEF LeaseInv, Typed
  <2>2. /\ ops[o].doc \in AllDocs \cup {Null}
        /\ ops[o].doc \in AllDocs => (Exists(ops[o].doc)' <=> Exists(ops[o].doc))
    BY <2>1 DEF OpRow, Exists
  <2>3. Patch(o) /\ ops[o].status \in Active => ops[o].doc \in AllDocs
    BY <2>1, Statuses DEF OperationOK, Patch
  <2>4. ASSUME ops[o].kind = "create"
        PROVE  /\ ops[o].draft \in AllDocs
               /\ Exists(ops[o].draft)' <=> Exists(ops[o].draft)
    BY <2>1, <2>4 DEF OperationOK, AllDocs, Exists
  <2>5. ASSUME ops[o].kind = "create", OwnsDraft(o) PROVE OwnsDraft(o)'
    <3>1. docs'[ops[o].draft].lease = docs[ops[o].draft].lease
      BY <2>4, <2>5 DEF OwnsDraft
    <3> QED
      BY <2>4, <2>5, <3>1 DEF OwnsDraft
  <2>6. ASSUME Patch(o), ops[o].status \in Active
        PROVE  /\ ops'[o].base = docs'[ops'[o].doc].version
               /\ ops[o].status \in Building => docs'[ops'[o].doc].lease = o
    BY <2>1, <2>3, <2>6 DEF OperationShape
  <2>7. ops[o].status \in Building => ops[o].status \in Active
    BY Statuses
  <2>8. OperationShape(o) /\ (ops[o].doc # Null => ops[o].doc \in AllDocs)
    BY <2>1, <2>2
  <2> QED
    BY <2>2, <2>4, <2>5, <2>6, <2>7, <2>8 DEF OperationShape, Patch
<1>3. ASSUME NEW d \in AllDocs PROVE DocumentShape(d)'
  <2>1. DocumentShape(d)
    BY DEF LeaseInv
  <2>2. Exists(d)' <=> Exists(d)
    BY DEF Exists
  <2>3. docs'[d].lease \in Ops => docs'[d].lease = docs[d].lease
    OBVIOUS
  <2>4. docs[d].status = "draft" => docs'[d].lease = docs[d].lease
    BY <2>1 DEF DocumentShape
  <2> QED
    BY <2>1, <2>2, <2>3, <2>4 DEF DocumentShape, Patch
<1>4. \A d \in AllDocs : CommandShape(d)'
  BY <1>1, CommandsKept DEF OpKept
<1>5. DraftsOnce'
  BY DEF LeaseInv, DraftsOnce
<1>6. \A d \in AllDocs : AdvanceOutdates(d)
  BY DEF Typed, DocRow, AdvanceOutdates
<1> QED
  BY <1>1, <1>2, <1>3, <1>4, <1>5, <1>6 DEF LeaseStep, LeaseInv, FinalStep

(***************************************************************************)
(* Steps that end operations                                               *)
(***************************************************************************)

\* An operation row moved on within what it is about: to a final status or,
\* that of a patch or rewrite, to review or within its status.
Onward(op, next) ==
    /\ \/ op.status \in Active
       \/ op.status = "conflicted" /\ next.status = "cancelled"
    /\ next.status \in Terminal \cup {"awaiting_review", op.status}
    /\ op.kind = "create" => next.status \in Terminal
    /\ next.kind = op.kind /\ next.doc = op.doc
    /\ next.draft = op.draft /\ next.base = op.base
    /\ next.rev > op.rev

\* An operation left alone, deleted, or moved on.
Settled(o) ==
    \/ ops'[o] = ops[o]
    \/ /\ ops'[o].status = "gone" /\ ops'[o].kind = "none"
       /\ ops'[o].draft = ops[o].draft
    \/ Onward(ops[o], ops'[o])

\* A document left alone, freed or deleted.
Kept(d) == docs'[d] = docs[d]
Freed(d) == docs'[d] = [docs[d] EXCEPT !.lease = Null]
Erased(d) == docs'[d] = Absent

\* Ending operations keeps the shapes, if no surviving operation loses its
\* document, a lease goes exactly with the end of the building of its
\* operation, and a draft goes with its lease.
LEMMA SettledStep ==
    ASSUME Typed, Typed', LeaseInv,
           \A d \in AllDocs : cmds'[d] = cmds[d] \/ cmds'[d] = Idle,
           \A o \in Ops : Settled(o),
           \A d \in AllDocs : Kept(d) \/ Freed(d) \/ Erased(d),
           \A o \in Ops : ops'[o].status \in Rows /\ ops[o].doc # Null =>
               Kept(ops[o].doc) \/ Freed(ops[o].doc),
           \A d \in AllDocs : docs[d].lease \in Ops =>
               (docs'[d].lease = docs[d].lease <=> ops'[docs[d].lease].status \in Building),
           \A d \in AllDocs : docs'[d].status = "draft" => docs'[d].lease = docs[d].lease
    PROVE  LeaseStep
<1>1. Null \notin Ops \cup AllDocs
  BY IdsAssumption DEF AllDocs
<1>2. ASSUME NEW d \in AllDocs
      PROVE  /\ docs'[d].lease \in {Null, docs[d].lease}
             /\ Kept(d) \/ Freed(d) => /\ docs'[d].version = docs[d].version
                                       /\ docs'[d].status = docs[d].status
                                       /\ docs'[d].trashed = docs[d].trashed
             /\ Erased(d) => docs'[d] = Absent /\ docs'[d].version = 0
             /\ docs[d] \in DocRow
  BY DEF Typed, DocRow, Kept, Freed, Erased, Absent
<1>3. ASSUME NEW o \in Ops
      PROVE  /\ ops'[o].draft = ops[o].draft
             /\ OpKept(o) /\ FinalStep(o)
             /\ ops'[o].status \in Active =>
                  /\ ops[o].status \in Active
                  /\ ops'[o].status \in {"awaiting_review", ops[o].status}
                  /\ ops'[o].kind = ops[o].kind /\ ops'[o].doc = ops[o].doc
                  /\ ops'[o].base = ops[o].base
                  /\ ops[o].kind = "create" => ops'[o] = ops[o]
  <2>1. Settled(o)
    OBVIOUS
  <2>2. CASE ops'[o] = ops[o]
    BY <2>2 DEF OpKept, FinalStep
  <2>3. CASE ops'[o].status = "gone" /\ ops'[o].draft = ops[o].draft
    BY <2>3, Statuses DEF OpKept, FinalStep
  <2>4. CASE Onward(ops[o], ops'[o])
    <3>1. "conflicted" \in Terminal /\ "cancelled" \in Terminal
      BY DEF Terminal
    <3> QED
      BY <2>4, <3>1, Statuses DEF Onward, OpKept, FinalStep
  <2> QED
    BY <2>1, <2>2, <2>3, <2>4 DEF Settled
<1>4. ASSUME NEW o \in Ops PROVE OperationShape(o)'
  <2>1. /\ OperationShape(o) /\ OperationOK(o) /\ ops[o] \in OpRow
        /\ OperationOK(o)' /\ ops'[o] \in OpRow
    BY DEF LeaseInv, Typed
  <2>2. ASSUME ops'[o].status \in Rows
        PROVE  /\ ops'[o].kind = ops[o].kind /\ ops'[o].doc = ops[o].doc
               /\ ops'[o].base = ops[o].base
               /\ ops'[o].rev # 0 /\ ops[o].status \in Rows
    BY <2>1, <2>2, Statuses DEF Settled, Onward, OperationShape, OpRow, Terminal
  <2>3. ASSUME ops'[o].status \in Rows, ops[o].doc # Null PROVE docs'[ops[o].doc].status # "absent"
    <3>1. Exists(ops[o].doc) /\ ops[o].doc \in AllDocs
      BY <2>1, <2>2, <2>3 DEF OperationShape, OpRow
    <3> QED
      BY <1>2, <2>3, <3>1 DEF Exists
  <2>4. ASSUME Patch(o)', ops'[o].status \in Active
        PROVE  /\ ops'[o].base = docs'[ops'[o].doc].version
               /\ ops'[o].status \in Building => docs'[ops'[o].doc].lease = o
    <3>1. /\ Patch(o) /\ ops[o].status \in Active /\ ops'[o].doc = ops[o].doc
          /\ ops'[o].base = ops[o].base
      BY <1>3, <2>4 DEF Patch
    <3>2. ops[o].doc \in AllDocs
      BY <2>1, <3>1, Statuses DEF OperationOK, Patch
    <3>3. Kept(ops[o].doc) \/ Freed(ops[o].doc)
      BY <1>1, <2>4, <3>2, Statuses
    <3>4. ops'[o].base = docs'[ops'[o].doc].version
      BY <1>2, <2>1, <3>1, <3>2, <3>3 DEF OperationShape
    <3>5. ASSUME ops'[o].status \in Building PROVE docs'[ops'[o].doc].lease = o
      <4>1. ops[o].status \in Building
        BY <1>3, <2>4, <3>5, Statuses
      <4>2. docs[ops[o].doc].lease = o
        BY <2>1, <3>1, <4>1 DEF OperationShape
      <4> QED
        BY <3>1, <3>2, <3>5, <4>2
    <3> QED
      BY <3>4, <3>5
  <2>5. ASSUME ops'[o].kind = "create", ops'[o].status \in Active
        PROVE  /\ ops'[o].status = "running"
               /\ ops'[o].doc = Null
               /\ ops'[o].rev = 1 => docs'[ops'[o].draft].status = "absent"
               /\ ops'[o].rev # 1 => OwnsDraft(o)'
    <3>1. ops'[o] = ops[o] /\ ops[o].draft \in AllDocs
      BY <1>3, <2>1, <2>5 DEF OperationOK, AllDocs
    <3>2. ops'[o].status = "running" /\ ops'[o].doc = Null
      BY <2>1, <2>5, <3>1 DEF OperationShape
    <3>3. ASSUME ops'[o].rev = 1 PROVE docs'[ops'[o].draft].status = "absent"
      <4>1. ~Exists(ops[o].draft)
        BY <2>1, <2>5, <3>1, <3>3 DEF OperationShape
      <4> QED
        BY <1>2, <3>1, <4>1 DEF Exists, Absent
    <3>4. ASSUME ops'[o].rev # 1 PROVE OwnsDraft(o)'
      <4>1. OwnsDraft(o)
        BY <2>1, <2>5, <3>1, <3>4 DEF OperationShape
      <4>2. ops'[o].status \in Building
        BY <3>2 DEF Building
      <4>3. docs'[ops[o].draft].lease = o
        BY <3>1, <4>1, <4>2 DEF OwnsDraft
      <4>4. ~Erased(ops[o].draft)
        BY <1>1, <4>3 DEF Erased, Absent
      <4> QED
        BY <1>2, <3>1, <4>1, <4>3, <4>4 DEF OwnsDraft
    <3> QED
      BY <3>2, <3>3, <3>4
  <2>6. ops'[o].status \in Active => ops'[o].status \in {"running", "awaiting_review"}
    BY <1>3, <2>1 DEF OperationShape
  <2>7. ops'[o].status \in {"none", "planned"} => ops'[o] = ops[o]
    BY <2>1, Statuses DEF Settled, Onward, Terminal
  <2>8. ops'[o].kind \in {"edit", "continue", "rewrite"} => ops'[o].base \in Nat
    BY <2>1 DEF Settled, Onward, OperationShape
  <2>9. /\ ops'[o].status \in {"none", "planned"} => ops'[o].draft = Null
        /\ ops'[o].status \in Rows \cup {"planned"} => ops'[o].kind \in Kinds
        /\ ops'[o].status = "planned" => ops'[o].kind = "rewrite"
    BY <2>1, <2>2, <2>7, Statuses DEF OperationShape
  <2>10. ops'[o].status \in Building => ops'[o].status \in Active
    BY Statuses
  <2>11. ops'[o].status \in Rows /\ ops'[o].doc # Null =>
            docs'[ops'[o].doc].status # "absent"
    BY <2>2, <2>3
  <2> QED
    BY <2>2, <2>4, <2>5, <2>6, <2>8, <2>9, <2>10, <2>11
       DEF OperationShape, Exists
<1>5. ASSUME NEW d \in AllDocs PROVE DocumentShape(d)'
  <2>1. DocumentShape(d)
    BY DEF LeaseInv
  <2>2. docs'[d].trashed => docs'[d].lease = Null
    BY <1>2, <2>1 DEF DocumentShape, Absent
  <2>3. ASSUME docs'[d].lease \in Ops
        PROVE  /\ ops'[docs'[d].lease].status \in Building
               /\ \/ Patch(docs[d].lease)' /\ ops'[docs'[d].lease].doc = d
                  \/ ops'[docs'[d].lease].kind = "create" /\ ops'[docs'[d].lease].draft = d
               /\ docs'[d].lease = docs[d].lease
               /\ ops'[docs'[d].lease].kind = ops[docs[d].lease].kind
    <3>1. docs'[d].lease = docs[d].lease
      BY <1>1, <1>2, <2>3
    <3>2. PICK o \in Ops : o = docs[d].lease
      BY <2>3, <3>1
    <3>3. ops'[o].status \in Building
      BY <3>1, <3>2
    <3>4. /\ ops'[o].kind = ops[o].kind /\ ops'[o].doc = ops[o].doc
          /\ ops'[o].draft = ops[o].draft
      BY <1>3, <3>3, Statuses
    <3> QED
      BY <2>1, <3>1, <3>2, <3>3, <3>4 DEF DocumentShape, Patch
  <2>4. ASSUME docs'[d].status = "draft"
        PROVE  docs'[d].lease \in Ops /\ ops'[docs'[d].lease].kind = "create"
    <3>1. docs[d].status = "draft" /\ docs'[d].lease = docs[d].lease
      BY <1>2, <2>4 DEF Absent
    <3> QED
      BY <2>1, <2>3, <3>1 DEF DocumentShape
  <2>5. Exists(d)' => Exists(d)
    BY <1>2 DEF Exists, Absent
  <2> QED
    BY <1>3, <2>1, <2>2, <2>3, <2>4, <2>5 DEF DocumentShape, Patch
<1>6. \A d \in AllDocs : CommandShape(d)'
  BY <1>3, CommandsKept
<1>7. DraftsOnce'
  BY <1>3 DEF LeaseInv, DraftsOnce
<1>8. \A d \in AllDocs : AdvanceOutdates(d)
  BY <1>2 DEF DocRow, AdvanceOutdates
<1> QED
  BY <1>3, <1>4, <1>5, <1>6, <1>7, <1>8 DEF LeaseStep, LeaseInv

\* An open operation row that moves to a final status, or, that of a patch or
\* rewrite, to review.
LEMMA MovedOn ==
    ASSUME NEW op \in OpRow, NEW s \in Terminal \cup {"awaiting_review"},
           op.status \in Active,
           op.kind = "create" => s \in Terminal
    PROVE  Onward(op, Move(op, s)) /\ Move(op, s).status = s
<1>1. Move(op, s) = [op EXCEPT !.status = s, !.rev = op.rev + 1]
  BY DEF Move
<1>2. /\ Move(op, s).status = s /\ Move(op, s).rev = op.rev + 1
      /\ Move(op, s).kind = op.kind /\ Move(op, s).doc = op.doc
      /\ Move(op, s).draft = op.draft /\ Move(op, s).base = op.base
  BY <1>1 DEF OpRow
<1>3. Move(op, s).rev > op.rev
  BY <1>2 DEF OpRow
<1> QED
  BY <1>2, <1>3 DEF Onward

\* Who holds a document for an operation.
LEMMA HolderFacts ==
    ASSUME Typed, LeaseInv, NEW d \in AllDocs, docs[d].lease \in Ops
    PROVE  LET o == docs[d].lease
           IN  /\ ops[o].status \in Building
               /\ \/ Patch(o) /\ ops[o].doc = d
                  \/ /\ ops[o].kind = "create" /\ ops[o].draft = d /\ ops[o].doc = Null
                     /\ OwnsDraft(o)
<1>1. PICK o \in Ops : o = docs[d].lease
  OBVIOUS
<1>2. OperationShape(o) /\ OperationOK(o) /\ DocumentShape(d) /\ DocumentOK(d)
  BY DEF LeaseInv, Typed
<1>3. /\ ops[o].status \in Building
      /\ \/ Patch(o) /\ ops[o].doc = d
         \/ ops[o].kind = "create" /\ ops[o].draft = d
  BY <1>1, <1>2 DEF DocumentShape
<1>4. ASSUME ops[o].kind = "create" PROVE ops[o].doc = Null /\ OwnsDraft(o)
  <2>1. ops[o].draft = d /\ ops[o].status \in Active
    BY <1>3, <1>4, Statuses DEF Patch
  <2>2. ops[o].doc = Null /\ (ops[o].rev # 1 => OwnsDraft(o))
        /\ (ops[o].rev = 1 => ~Exists(d))
    BY <1>2, <1>4, <2>1 DEF OperationShape
  <2>3. Exists(d)
    BY <1>1, <1>2, IdsAssumption DEF DocumentOK, Absent, Exists
  <2> QED
    BY <2>2, <2>3
<1> QED
  BY <1>1, <1>3, <1>4

\* The draft of an open create: not there yet, or its own.
LEMMA DraftFacts ==
    ASSUME Typed, LeaseInv, NEW o \in Ops,
           ops[o].kind = "create", ops[o].status \in Active
    PROVE  /\ ops[o].draft \in AllDocs /\ ops[o].doc = Null
           /\ docs[ops[o].draft] = Absent \/ OwnsDraft(o)
<1>1. OperationShape(o) /\ OperationOK(o)
  BY DEF LeaseInv, Typed
<1>2. ops[o].draft \in AllDocs
  BY <1>1 DEF OperationOK, AllDocs
<1>3. DocumentOK(ops[o].draft)
  BY <1>2 DEF Typed
<1> QED
  BY <1>1, <1>2, <1>3 DEF OperationShape, DocumentOK, Exists

\* An operation that a new version makes stale is open, on this document, and
\* no create.
LEMMA RivalFacts ==
    ASSUME Typed, LeaseInv, NEW d \in AllDocs, NEW v, NEW w, NEW x \in Rivals(d, v, w)
    PROVE  /\ x \in Ops /\ x # w /\ ops[x].status \in Active
           /\ ops[x].doc = d /\ ops[x].kind # "create"
<1>1. x \in Ops /\ x # w /\ ops[x].status \in Active /\ ops[x].doc = d
  BY DEF Rivals
<1>2. ops[x].kind # "create"
  BY <1>1, DraftFacts, IdsAssumption DEF AllDocs
<1> QED
  BY <1>1, <1>2

\* The documents of E are deleted, and of the others those that T holds freed.
DocsEnded(E, T) ==
    \A d \in AllDocs : /\ d \in E => Erased(d)
                       /\ d \notin E /\ docs[d].lease \in T => Freed(d)
                       /\ d \notin E /\ docs[d].lease \notin T => Kept(d)

\* The operations move to the rows of O, and those that then name a document of
\* E are deleted; those of S, and no others, stop being built.
OpsEnded(E, S, O) ==
    /\ \A o \in Ops :
          /\ O[o].status \in Rows /\ O[o].doc \in E => ops'[o] = Gone(O[o])
          /\ ~(O[o].status \in Rows /\ O[o].doc \in E) => ops'[o] = O[o]
    /\ \A o \in Ops : \/ O[o] = ops[o]
                      \/ ops[o].status = "planned" /\ O[o] = Gone(ops[o])
                      \/ Onward(ops[o], O[o])
    /\ \A o \in S : O[o].status \notin Building
    /\ \A o \in Ops \ S : ops[o].status \in Building => O[o].status \in Building

\* Together they are such a step, if E is what the creates of S drafted and
\* nobody else builds in E.
LEMMA EndedStep ==
    ASSUME Typed, Typed', LeaseInv,
           NEW E \in SUBSET AllDocs, NEW S \in SUBSET Ops, NEW T, S = T \cap Ops, NEW O,
           \A d \in AllDocs : cmds'[d] = cmds[d] \/ cmds'[d] = Idle,
           DocsEnded(E, T),
           OpsEnded(E, S, O),
           \A d \in E : docs[d].lease \in Ops => docs[d].lease \in S,
           \A o \in S : ops[o].kind = "create" => ops[o].draft \in E
    PROVE  LeaseStep
<1>1. Null \notin Ops \cup AllDocs
  BY IdsAssumption DEF AllDocs
<1>2. \A op : /\ Gone(op).status = "gone" /\ Gone(op).kind = "none"
              /\ Gone(op).draft = op.draft
  BY DEF Gone, Blank
<1>3. ASSUME NEW o \in Ops
      PROVE  /\ Settled(o)
             /\ ops'[o].status \in Rows => /\ ops'[o] = O[o] /\ O[o].doc = ops[o].doc
                                           /\ O[o].doc \notin E
             /\ ops[o] \in OpRow
  <2>1. /\ ops[o] \in OpRow
        /\ O[o].draft = ops[o].draft
        /\ O[o].status \in Rows => O[o].doc = ops[o].doc
    BY <1>2, Statuses DEF Typed, Onward, OpsEnded
  <2>2. Settled(o)
    BY <1>2, <2>1 DEF Settled, OpsEnded
  <2> QED
    BY <1>2, <2>1, <2>2, Statuses DEF OpsEnded
<1>4. ASSUME NEW d \in AllDocs
      PROVE  /\ d \notin E => (Kept(d) \/ Freed(d)) /\ docs'[d].status = docs[d].status
             /\ d \in E => docs'[d].status = "absent" /\ docs'[d].lease = Null
             /\ docs[d].lease \in T => docs'[d].lease = Null
  BY DEF DocsEnded, Kept, Freed, Erased, Typed, DocRow, Absent
<1>5. ASSUME NEW o \in Ops, ops'[o].status \in Rows, ops[o].doc # Null
      PROVE  Kept(ops[o].doc) \/ Freed(ops[o].doc)
  BY <1>3, <1>4, <1>5 DEF OpRow
<1>6. ASSUME NEW d \in AllDocs, docs[d].lease \in Ops
      PROVE  /\ docs'[d].lease = docs[d].lease
                <=> ops'[docs[d].lease].status \in Building
             /\ docs'[d].status = "draft" => docs'[d].lease = docs[d].lease
  <2>1. PICK o \in Ops : o = docs[d].lease
    BY <1>6
  <2>2. /\ ops[o].status \in Building
        /\ \/ Patch(o) /\ ops[o].doc = d
           \/ ops[o].kind = "create" /\ ops[o].draft = d /\ ops[o].doc = Null
    BY <1>6, <2>1, HolderFacts
  <2>3. CASE o \in S
    <3>1. docs'[d].lease = Null
      BY <1>4, <2>1, <2>3
    <3>2. ops'[o].status \notin Building
      BY <1>2, <2>3, Statuses DEF OpsEnded
    <3>3. docs'[d].status # "draft"
      <4>1. CASE d \in E
        BY <1>4, <4>1
      <4>2. CASE d \notin E
        <5>1. docs'[d].status = docs[d].status
          BY <1>4, <4>2
        <5>2. ops[o].kind # "create"
          BY <2>2, <2>3, <4>2 DEF Patch
        <5> QED
          BY <2>1, <5>1, <5>2 DEF LeaseInv, DocumentShape
      <4> QED
        BY <4>1, <4>2
    <3> QED
      BY <1>1, <2>1, <3>1, <3>2, <3>3
  <2>4. CASE o \notin S
    <3>1. d \notin E /\ docs'[d] = docs[d]
      BY <2>1, <2>4 DEF Kept, DocsEnded
    <3>2. O[o].status \in Building /\ O[o].doc = ops[o].doc
      BY <2>2, <2>4, Statuses DEF Onward, OpsEnded
    <3>3. O[o].doc \notin E
      BY <1>1, <2>2, <3>1, <3>2
    <3>4. ops'[o] = O[o]
      BY <3>3 DEF OpsEnded
    <3> QED
      BY <2>1, <3>1, <3>2, <3>4
  <2> QED
    BY <2>3, <2>4
<1>7. ASSUME NEW d \in AllDocs, docs'[d].status = "draft"
      PROVE  docs'[d].lease = docs[d].lease
  <2>1. d \notin E
    BY <1>4, <1>7
  <2>2. docs[d].status = "draft"
    BY <1>4, <1>7, <2>1
  <2> QED
    BY <1>6, <1>7, <2>2 DEF LeaseInv, DocumentShape
<1>8. \A d \in AllDocs : Kept(d) \/ Freed(d) \/ Erased(d)
  BY DEF DocsEnded
<1>9. \A o \in Ops : Settled(o)
  BY <1>3
<1> QED
  BY <1>5, <1>6, <1>7, <1>8, <1>9, SettledStep

\* The conflict pass of an external synchronisation.
LEMMA SyncBeginLease ==
    ASSUME Typed, Typed', LeaseInv, NEW d \in Docs, NEW changed \in BOOLEAN,
           SyncBegin(d, changed)
    PROVE  LeaseStep
<1> DEFINE S == IF changed THEN Rivals(d, docs[d].version + 1, Null) ELSE {}
           O == [o \in Ops |-> IF o \in S THEN Move(ops[o], "conflicted") ELSE ops[o]]
<1>1. /\ d \in AllDocs /\ ops' = O /\ docs' = Free(docs, S)
      /\ cmds' = cmds
  BY DEF SyncBegin, AllDocs, Conflicted
<1>2. \A x \in S : x \in Ops /\ ops[x].status \in Active /\ ops[x].kind # "create"
  BY <1>1, RivalFacts
<1> HIDE DEF S
<1>3. "conflicted" \in Terminal
  BY DEF Terminal
<1>4. ASSUME NEW o \in S
      PROVE  Onward(ops[o], O[o]) /\ O[o].status = "conflicted"
  BY <1>2, <1>3, MovedOn DEF Typed
<1>5. DocsEnded({}, S)
  BY <1>1 DEF Free, Freed, Kept, DocsEnded
<1>6. S \in SUBSET Ops /\ S = S \cap Ops /\ {} \in SUBSET AllDocs
  BY <1>2
<1>7. \A o \in Ops \ S : O[o] = ops[o]
  OBVIOUS
<1> HIDE DEF O
<1>8. OpsEnded({}, S, O)
  BY <1>1, <1>4, <1>7 DEF Building, OpsEnded
<1> QED
  BY <1>1, <1>2, <1>5, <1>6, <1>8, EndedStep

\* Documents in the trash are deleted; nobody builds on them.
LEMMA DeleteLease ==
    ASSUME Typed, Typed', LeaseInv, NEW S \in SUBSET AllDocs,
           \A d \in S : docs[d].trashed, Delete(S)
    PROVE  LeaseStep
<1>1. /\ docs' = DocsWithout(docs, S) /\ ops' = OpsWithout(ops, S)
      /\ cmds' = cmds
  BY DEF Delete
<1>2. DocsEnded(S, {})
  BY <1>1 DEF DocsWithout, DocsEnded, Erased, Kept
<1>3. OpsEnded(S, {}, ops)
  BY <1>1 DEF OpsWithout, OpsEnded
<1>4. \A d \in S : docs[d].lease \notin Ops
  BY IdsAssumption DEF LeaseInv, DocumentShape
<1>5. {} \in SUBSET Ops /\ {} = {} \cap Ops
  OBVIOUS
<1> QED
  BY <1>1, <1>2, <1>3, <1>4, <1>5, EndedStep

\* Operations ended from outside the queues: their leases and drafts go with
\* them, and T names no other operation.
LEMMA OutsideLease ==
    ASSUME Typed, Typed', LeaseInv, NEW S \in SUBSET Ops, NEW T, S = T \cap Ops, NEW O,
           \A d \in AllDocs : cmds'[d] = cmds[d] \/ cmds'[d] = Idle,
           \A o \in S : ops[o].status \in Active,
           docs' = Free(DocsWithout(docs, DraftsOf(S)), T),
           OpsEnded(DraftsOf(S), S, O)
    PROVE  LeaseStep
<1> DEFINE E == DraftsOf(S)
<1>1. ASSUME NEW o \in S, ops[o].kind = "create"
      PROVE  /\ ops[o].draft \in E
             /\ ops[o].draft \in AllDocs
             /\ docs[ops[o].draft] = Absent \/ docs[ops[o].draft].lease = o
  BY <1>1, DraftFacts DEF DraftsOf, OwnsDraft
<1>2. \A d \in E : \E o \in S : ops[o].kind = "create" /\ ops[o].draft = d
  BY DEF DraftsOf
<1>3. E \in SUBSET AllDocs
  BY <1>1, <1>2
<1>4. \A d \in E : docs[d].lease \in Ops => docs[d].lease \in S
  BY <1>1, <1>2, IdsAssumption DEF Absent
<1>5. \A o \in S : ops[o].kind = "create" => ops[o].draft \in E
  BY <1>1
<1> HIDE DEF E
<1>6. DocsEnded(E, T)
  <2>1. docs' = Free(DocsWithout(docs, E), T)
    BY DEF E
  <2> SUFFICES ASSUME NEW d \in AllDocs
               PROVE  /\ d \in E => Erased(d)
                      /\ d \notin E /\ docs[d].lease \in T => Freed(d)
                      /\ d \notin E /\ docs[d].lease \notin T => Kept(d)
    BY DEF DocsEnded
  <2>2. CASE d \in E
    <3>1. DocsWithout(docs, E)[d] = Absent
      BY <2>2 DEF DocsWithout
    <3>2. DocsWithout(docs, E) \in [AllDocs -> DocRow]
      BY DEF Typed, DocsWithout, Absent, DocRow
    <3>3. DocsWithout(docs, E)[d].lease = Null
      BY <3>1 DEF Absent
    <3>4. Free(DocsWithout(docs, E), T)[d] = DocsWithout(docs, E)[d]
      BY <3>2, <3>3, FreeFacts
    <3> QED
      BY <2>1, <2>2, <3>1, <3>4 DEF Erased
  <2>3. CASE d \notin E
    <3>1. DocsWithout(docs, E)[d] = docs[d]
      BY <2>3 DEF DocsWithout
    <3> QED
      BY <2>1, <2>3, <3>1 DEF Free, Freed, Kept
  <2> QED
    BY <2>2, <2>3
<1>7. OpsEnded(E, S, O)
  BY DEF E
<1> QED
  BY <1>3, <1>4, <1>5, <1>6, <1>7, EndedStep

\* Expiry and the end of a run.
LEMMA SettleLease ==
    ASSUME Typed, Typed', LeaseInv, NEW S \in SUBSET Ops, NEW status \in Terminal,
           \A o \in S : ops[o].status \in Active,
           Settle(S, status),
           UNCHANGED <<cmds, sync, drafting>>
    PROVE  LeaseStep
<1> DEFINE O == [o \in Ops |-> IF o \in S THEN Move(ops[o], status) ELSE ops[o]]
<1>1. /\ docs' = Free(DocsWithout(docs, DraftsOf(S)), S)
      /\ ops' = OpsWithout(O, DraftsOf(S))
  BY DEF Settle
<1>2. ASSUME NEW o \in S PROVE Onward(ops[o], O[o]) /\ O[o].status = status
  BY MovedOn DEF Typed
<1>3. \A o \in Ops \ S : O[o] = ops[o]
  OBVIOUS
<1> HIDE DEF O
<1>4. OpsEnded(DraftsOf(S), S, O)
  BY <1>1, <1>2, <1>3, Statuses DEF OpsWithout, OpsEnded
<1>5. \A d \in AllDocs : cmds'[d] = cmds[d]
  OBVIOUS
<1>6. S = S \cap Ops
  OBVIOUS
<1> QED
  BY <1>1, <1>4, <1>5, <1>6, OutsideLease

\* Recovery after the death of the process.
LEMMA RestartLease ==
    ASSUME Typed, Typed', LeaseInv, Restart
    PROVE  LeaseStep
<1> DEFINE R == {o \in Ops : ops[o].status \in {"running", "applying"}}
           F == {o \in R : ops[o].kind = "create"}
           O == [o \in Ops |-> IF ops[o].status = "planned" THEN Gone(ops[o])
                               ELSE IF o \in F THEN Move(ops[o], "failed")
                               ELSE IF o \in R THEN Move(ops[o], "awaiting_review")
                               ELSE ops[o]]
<1>1. /\ docs' = Free(DocsWithout(docs, DraftsOf(F)), R \cup Runs)
      /\ ops' = OpsWithout(O, DraftsOf(F))
      /\ cmds' = [d \in AllDocs |-> Idle]
  BY DEF Restart
<1>2. DraftsOf(F) = DraftsOf(R)
  BY DEF DraftsOf
<1>3. \A o \in R : ops[o].status \in Active /\ ops[o].status # "planned"
  BY Statuses
<1>4. /\ "failed" \in Terminal /\ "failed" \notin Building
      /\ "awaiting_review" \notin Building
  BY DEF Terminal, Building
<1>5. ASSUME NEW o \in R PROVE Onward(ops[o], O[o]) /\ O[o].status \notin Building
  BY <1>3, <1>4, MovedOn DEF Typed
<1>6. \A o \in Ops \ R : \/ O[o] = ops[o]
                         \/ ops[o].status = "planned" /\ O[o] = Gone(ops[o])
  OBVIOUS
<1>7. \A o \in Ops \ R : ops[o].status \notin Building
  BY Statuses DEF LeaseInv, OperationShape
<1>8. R \in SUBSET Ops /\ R = (R \cup Runs) \cap Ops
  BY IdsAssumption
<1> HIDE DEF O, R, F
<1>9. OpsEnded(DraftsOf(R), R, O)
  BY <1>1, <1>2, <1>5, <1>6, <1>7, <1>8 DEF OpsWithout, OpsEnded
<1>10. \A d \in AllDocs : cmds'[d] = Idle
  BY <1>1
<1> QED
  BY <1>1, <1>2, <1>3, <1>8, <1>9, <1>10, OutsideLease

(***************************************************************************)
(* Commands                                                                *)
(***************************************************************************)

\* What a command that may still run knows, and the row it leaves: its operation
\* is open, or conflicted and cancelled, and a create is only drafted, committed
\* or cancelled.
LEMMA CommandFacts ==
    ASSUME Typed, LeaseInv, NEW d \in AllDocs, Unchanged(cmds[d])
    PROVE  LET c == cmds[d]
           IN  /\ c \in Command /\ c.type \in Types
               /\ c.op \in Ops /\ ops[c.op] \in OpRow /\ Key(c.op) = d
               /\ ops[c.op].status \in Rows /\ ops[c.op].rev # 0
               /\ \/ ops[c.op].status \in Active
                  \/ /\ ops[c.op].status = "conflicted"
                     /\ c.type = "operation.cancel"
               /\ ops[c.op].kind = "create" =>
                     /\ ops[c.op].draft = d
                     /\ c.type \in {"stream.begin", "stream.append", "stream.commit",
                                    "operation.cancel"}
               /\ c.type \in {"stream.begin", "stream.append", "stream.commit"} =>
                     ops[c.op].kind = "create"
<1> DEFINE c == cmds[d]
<1>1. /\ c \in Command /\ c.op # Null
      /\ ops[c.op].status \in Rows /\ ops[c.op].rev = c.rev
  BY DEF Typed, Unchanged
<1>2. c.op \in Ops
  BY <1>1 DEF Command
<1>3. /\ ops[c.op] \in OpRow /\ OperationOK(c.op) /\ OperationShape(c.op)
      /\ CommandOK(d) /\ CommandShape(d)
  BY <1>2 DEF Typed, LeaseInv
<1>4. Key(c.op) = d
  BY <1>1, <1>3 DEF CommandOK
<1>5. ops[c.op].kind = "create" => ops[c.op].draft = d
  BY <1>3, <1>4 DEF OperationOK, Key
<1>6. Admits(c.op, c.type)
  BY <1>1, <1>3 DEF CommandShape
<1> QED
  BY <1>1, <1>2, <1>3, <1>4, <1>5, <1>6 DEF CommandShape, CommandOK, OperationShape, Admits

\* The fields of the row a command leaves.
LEMMA AfterFields ==
    ASSUME NEW op \in OpRow, NEW c \in Command
    PROVE  /\ After(op, c).status = Target(op, c.type)
           /\ After(op, c).kind = op.kind /\ After(op, c).draft = op.draft
           /\ After(op, c).doc = IF c.type = "stream.commit" THEN op.draft ELSE op.doc
           /\ After(op, c).base = IF c.type \in {"stream.commit", "item.accept"}
                                  THEN c.basis + 1 ELSE op.base
           /\ After(op, c).rev > op.rev
<1>1. /\ After(op, c).status = Target(op, c.type)
      /\ After(op, c).kind = op.kind /\ After(op, c).draft = op.draft
      /\ After(op, c).doc = IF c.type = "stream.commit" THEN op.draft ELSE op.doc
      /\ After(op, c).base = IF c.type \in {"stream.commit", "item.accept"}
                             THEN c.basis + 1 ELSE op.base
      /\ After(op, c).rev = op.rev + IF ThroughApplying(op, c.type) THEN 2 ELSE 1
  BY DEF After, OpRow
<1> QED
  BY <1>1 DEF OpRow

\* The statuses commands ask for.
LEMMA Targets ==
    ASSUME NEW op, NEW type \in Types
    PROVE  /\ type \in {"stream.append", "item.append"} => Target(op, type) = op.status
           /\ type = "stream.begin" => Target(op, type) = "running"
           /\ type = "operation.cancel" => Target(op, type) = "cancelled"
           /\ type \in {"stream.commit", "review.apply"} => Target(op, type) = "completed"
           /\ type \in Commits => Target(op, type) \in {"awaiting_review", "completed"}
           /\ type = "review.apply" => Target(op, type) = "completed"
           /\ type \notin {"stream.begin", "stream.append", "item.append"} =>
                 Target(op, type) \in Terminal \cup {"awaiting_review"}
BY DEF Target, Types, Commits, Terminal

\* Cancelling a create deletes its draft.
LEMMA DropDraftLease ==
    ASSUME Typed, Typed', LeaseInv, NEW d \in AllDocs, DropDraftCommand(d)
    PROVE  LeaseStep
<1> DEFINE c == cmds[d]
           w == c.op
           O == [ops EXCEPT ![w] = After(ops[w], c)]
<1>1. /\ Unchanged(c) /\ c.type = "operation.cancel" /\ ops[w].kind = "create"
      /\ DraftRemovable(w)
      /\ docs' = DocsWithout(docs, {d}) /\ ops' = OpsWithout(O, {d})
      /\ cmds' = [cmds EXCEPT ![d] = Idle]
  BY DEF DropDraftCommand, CanDropDraft
<1>2. /\ c \in Command /\ w \in Ops /\ ops[w] \in OpRow /\ ops[w].draft = d
      /\ ops[w].status \in Active \/ ops[w].status = "conflicted"
  BY <1>1, CommandFacts
<1>3. Onward(ops[w], O[w]) /\ O[w].status = "cancelled"
  <2>1. O[w] = After(ops[w], c)
    BY <1>2 DEF Typed
  <2>2. Target(ops[w], c.type) = "cancelled"
    BY <1>1 DEF Target
  <2> QED
    BY <1>1, <1>2, <2>1, <2>2, AfterFields DEF Onward, Terminal
<1>4. \A o \in Ops \ {w} : O[o] = ops[o]
  BY DEF Typed
<1>5. docs[d].lease \in Ops => docs[d].lease = w
  <2>1. docs[d].status = "absent" \/ docs[d].lease = w
    BY <1>1, <1>2 DEF DraftRemovable, OwnsDraft
  <2>2. docs[d].status = "absent" => docs[d].lease = Null
    BY DEF Typed, DocumentOK, Absent
  <2> QED
    BY <2>1, <2>2, IdsAssumption
<1>6. ASSUME NEW e \in AllDocs, docs[e].lease = w PROVE e = d
  BY <1>1, <1>2, <1>6, HolderFacts DEF Patch
<1>7. DocsEnded({d}, {w})
  BY <1>1, <1>6 DEF DocsWithout, DocsEnded, Erased, Kept
<1> HIDE DEF O, w, c
<1>8. OpsEnded({d}, {w}, O)
  BY <1>1, <1>3, <1>4 DEF OpsWithout, OpsEnded, Building
<1>9. /\ {d} \in SUBSET AllDocs /\ {w} \in SUBSET Ops /\ {w} = {w} \cap Ops
  BY <1>2
<1>10. \A e \in AllDocs : cmds'[e] = cmds[e] \/ cmds'[e] = Idle
  BY <1>1 DEF Typed
<1>11. \A e \in {d} : docs[e].lease \in Ops => docs[e].lease \in {w}
  BY <1>5
<1>12. \A o \in {w} : ops[o].kind = "create" => ops[o].draft \in {d}
  BY <1>2
<1> QED
  BY <1>7, <1>8, <1>9, <1>10, <1>11, <1>12, EndedStep

\* A command that writes no version frees its operation's lease exactly when it
\* ends the building.
LEMMA DecideLease ==
    ASSUME Typed, Typed', LeaseInv, NEW d \in AllDocs, DecideCommand(d)
    PROVE  LeaseStep
<1> DEFINE c == cmds[d]
           w == c.op
           O == [ops EXCEPT ![w] = After(ops[w], c)]
           S == Releases(c)
<1>1. /\ Unchanged(c) /\ c.type \notin Commits \cup {"stream.begin", "stream.append"}
      /\ ops[w].kind = "create" => c.type # "operation.cancel"
      /\ docs' = Free(docs, S) /\ ops' = O
      /\ cmds' = [cmds EXCEPT ![d] = Idle]
  BY DEF DecideCommand, CanDecide
<1>2. /\ c \in Command /\ c.type \in Types /\ w \in Ops /\ ops[w] \in OpRow
      /\ \/ ops[w].status \in Active
         \/ ops[w].status = "conflicted" /\ c.type = "operation.cancel"
      /\ ops[w].kind # "create"
  BY <1>1, CommandFacts DEF Commits
<1>4. O[w] = After(ops[w], c) /\ \A o \in Ops \ {w} : O[o] = ops[o]
  BY <1>2 DEF Typed
<1>5. /\ O[w].status = Target(ops[w], c.type)
      /\ Target(ops[w], c.type) \in Terminal \cup {"awaiting_review", ops[w].status}
      /\ c.type = "operation.cancel" => Target(ops[w], c.type) = "cancelled"
  BY <1>1, <1>2, <1>4, AfterFields, Targets
<1>6. Onward(ops[w], O[w])
  BY <1>1, <1>2, <1>4, <1>5, AfterFields DEF Onward, Commits
<1>7. S = IF O[w].status \in Building THEN {} ELSE {w}
  BY <1>5 DEF Releases
<1> HIDE DEF O, w, c, S
<1>8. DocsEnded({}, S)
  BY <1>1 DEF Free, DocsEnded, Freed, Kept
<1>9. OpsEnded({}, S, O)
  BY <1>1, <1>4, <1>6, <1>7 DEF OpsEnded
<1>10. \A e \in AllDocs : cmds'[e] = cmds[e] \/ cmds'[e] = Idle
  BY <1>1 DEF Typed
<1>11. /\ {} \in SUBSET AllDocs /\ S \in SUBSET Ops /\ S = S \cap Ops
       /\ \A o \in S : ops[o].kind # "create"
  BY <1>2, <1>7
<1> QED
  BY <1>8, <1>9, <1>10, <1>11, EndedStep

(***************************************************************************)
(* New versions                                                            *)
(***************************************************************************)

\* What becomes of the operation w that publishes a version of d: it is done, or
\* is based on the new version.
Published(w, d) ==
    /\ ops[w].status \in Active /\ ops[w].status \in Rows
    /\ ops[w].kind = "create" => ops[w].draft = d /\ ops'[w].status = "completed"
    /\ ops[w].kind # "create" => ops[w].doc = d
    /\ ops'[w].status \in {"completed", "awaiting_review"}
    /\ ops'[w].kind = ops[w].kind /\ ops'[w].draft = ops[w].draft /\ ops'[w].doc = d
    /\ ops[w].kind # "create" => ops'[w].base \in Nat
    /\ ops'[w].status = "awaiting_review" => ops'[w].base = docs[d].version + 1
    /\ ops'[w].rev > ops[w].rev

\* A version of d, by the operation w or by nobody's, with the conflict pass
\* over the others.  The document is free afterwards.
LEMMA PublishStep ==
    ASSUME Typed, Typed', LeaseInv, NEW d \in AllDocs, NEW w \in Ops \cup {Null},
           \A e \in AllDocs : cmds'[e] = cmds[e] \/ cmds'[e] = Idle,
           Exists(d), docs[d].lease \in {Null, w},
           docs'[d] = [status |-> "active", version |-> docs[d].version + 1,
                       lease |-> Null, trashed |-> FALSE],
           \A e \in AllDocs \ {d} : Kept(e),
           \A x \in Rivals(d, docs[d].version + 1, w) :
               ops'[x] = Move(ops[x], "conflicted"),
           \A x \in Ops \ (Rivals(d, docs[d].version + 1, w) \cup {w}) : ops'[x] = ops[x],
           w \in Ops => Published(w, d)
    PROVE  LeaseStep
<1> DEFINE v == docs[d].version + 1
           S == Rivals(d, v, w)
<1>1. Null \notin Ops \cup AllDocs \cup Nat
  BY IdsAssumption DEF AllDocs
<1>2. /\ docs[d].version \in Nat /\ v \in Nat /\ v # docs[d].version /\ v # 0
      /\ docs'[d].version = v /\ docs'[d].lease = Null
      /\ docs'[d].status = "active" /\ ~docs'[d].trashed
  BY DEF Typed, DocRow
<1>3. ASSUME NEW x \in S
      PROVE  /\ x \in Ops /\ x # w
             /\ ops[x].status \in Active /\ ops[x].doc = d /\ ops[x].kind # "create"
             /\ Onward(ops[x], ops'[x]) /\ ops'[x].status = "conflicted"
  <2>1. /\ x \in Ops /\ x # w
        /\ ops[x].status \in Active /\ ops[x].doc = d /\ ops[x].kind # "create"
    BY RivalFacts
  <2> QED
    BY <2>1, MovedOn DEF Typed, Terminal
<1>4. ASSUME NEW x \in Ops, x \notin S, x # w, ops[x].status \in Active
      PROVE  /\ ops'[x] = ops[x]
             /\ ops[x].doc = d => ops[x].base = v /\ ~Patch(x)
  <2>1. ops'[x] = ops[x] /\ OperationShape(x)
    BY <1>4 DEF LeaseInv
  <2>2. ASSUME ops[x].doc = d PROVE ops[x].base = v
    <3>1. ops[x].base \in {Null, v}
      BY <1>4, <2>2 DEF Rivals
    <3>2. ops[x].kind # "create"
      BY <1>1, <1>4, <2>2, DraftFacts
    <3>3. ops[x].kind \in {"edit", "continue", "rewrite"}
      BY <1>4, <2>1, <3>2, Statuses DEF OperationShape, Kinds
    <3> QED
      BY <1>1, <2>1, <3>1, <3>3 DEF OperationShape
  <2>3. ops[x].doc = d => ~Patch(x)
    BY <1>2, <1>4, <2>1, <2>2 DEF OperationShape
  <2> QED
    BY <2>1, <2>2, <2>3
<1>5. ASSUME NEW x \in Ops
      PROVE  /\ OpKept(x) /\ FinalStep(x)
             /\ ops'[x].draft = ops[x].draft
             /\ ops'[x].status \in Active => ops[x].status \in Active /\ x \notin S
             /\ ops'[x].kind = ops[x].kind
             /\ x # w => ops'[x].doc = ops[x].doc /\ ops'[x].base = ops[x].base
             /\ ops'[x].status \in {"none", "planned", "gone"} => ops'[x] = ops[x]
  <2>1. CASE x \in S
    BY <1>3, <2>1, Statuses DEF OpKept, FinalStep, Onward, Terminal
  <2>2. CASE x = w
    BY <1>3, <2>2, Statuses DEF OpKept, FinalStep, Published, Terminal
  <2>3. CASE x \notin S /\ x # w
    <3>1. ops'[x] = ops[x]
      BY <2>3
    <3> QED
      BY <2>3, <3>1 DEF OpKept, FinalStep
  <2> QED
    BY <2>1, <2>2, <2>3
<1> HIDE DEF S
<1>6. ASSUME NEW e \in AllDocs
      PROVE  /\ Exists(e)' <=> Exists(e)
             /\ e # d => docs'[e] = docs[e]
  BY <1>2 DEF Exists, Kept
<1>7. ASSUME NEW x \in Ops PROVE OperationShape(x)'
  <2>1. /\ OperationShape(x) /\ OperationOK(x) /\ ops[x] \in OpRow
        /\ OperationOK(x)' /\ ops'[x] \in OpRow
    BY DEF LeaseInv, Typed
  <2>2. CASE x \in S
    <3>1. /\ ops'[x].status = "conflicted" /\ ops'[x].kind = ops[x].kind
          /\ ops'[x].doc = d /\ ops'[x].base = ops[x].base
          /\ ops[x].status \in Active /\ ops'[x].rev > ops[x].rev
      BY <1>3, <2>2 DEF Onward
    <3>2. "conflicted" \in Rows /\ "conflicted" \notin Active
      BY DEF Rows, Active, Building, Terminal
    <3>3. ops'[x].rev # 0
      BY <2>1, <3>1 DEF OpRow
    <3>4. ops[x].status \in Rows /\ ops'[x].status \notin Building
      BY <3>1, <3>2, Statuses
    <3> QED
      BY <1>2, <2>1, <3>1, <3>2, <3>3, <3>4, Statuses DEF OperationShape, Exists, Patch
  <2>3. CASE x = w
    <3>1. Published(x, d)
      BY <2>3
    <3>2. /\ {"completed", "awaiting_review"} \subseteq Rows
          /\ "completed" \notin Active /\ {"completed", "awaiting_review"} \cap Building = {}
      BY DEF Rows, Active, Building, Terminal
    <3>3. ops'[x].rev # 0
      BY <2>1, <3>1 DEF OpRow, Published
    <3>4. /\ ops'[x].status \in Rows \ Building
          /\ ops'[x].status \in Active => ops'[x].status = "awaiting_review"
          /\ ops'[x].kind = ops[x].kind /\ ops'[x].kind \in Kinds
          /\ ops'[x].kind = "create" => ops'[x].status = "completed"
          /\ ops'[x].kind # "create" => ops'[x].base \in Nat
          /\ ops'[x].doc = d
          /\ ops'[x].status = "awaiting_review" => ops'[x].base = docs'[d].version
      BY <1>2, <2>1, <3>1, <3>2, Statuses DEF Published, OperationShape
    <3> QED
      BY <1>2, <3>2, <3>3, <3>4, Statuses DEF OperationShape, Exists, Patch
  <2>4. CASE x \notin S /\ x # w
    <3>1. ops'[x] = ops[x]
      BY <2>4 DEF S
    <3>2. ops[x].doc \in AllDocs \cup {Null}
      BY <2>1 DEF OpRow
    <3>3. ASSUME ops[x].status \in Rows, ops[x].doc # Null
          PROVE  docs'[ops[x].doc].status # "absent"
      BY <1>6, <2>1, <3>2, <3>3 DEF OperationShape, Exists
    <3>4. ASSUME Patch(x), ops[x].status \in Active
          PROVE  /\ ops[x].base = docs'[ops[x].doc].version
                 /\ ops[x].status \in Building => docs'[ops[x].doc].lease = x
      <4>1. ops[x].doc \in AllDocs /\ ops[x].doc # d
        BY <1>4, <2>1, <2>4, <3>4, Statuses DEF OperationOK, Patch
      <4> QED
        BY <1>6, <2>1, <3>4, <4>1 DEF OperationShape
    <3>5. ASSUME ops[x].kind = "create", ops[x].status \in Active
          PROVE  /\ ops[x].rev = 1 => docs'[ops[x].draft].status = "absent"
                 /\ ops[x].rev # 1 => OwnsDraft(x)'
      <4>1. ops[x].draft \in AllDocs
        BY <3>5, DraftFacts
      <4>2. ops[x].draft # d \/ docs[d].status = "absent"
        <5>1. docs[ops[x].draft].lease # x \/ ops[x].draft # d
          BY <1>1, <2>4
        <5>2. OwnsDraft(x) => docs[ops[x].draft].lease = x
          BY DEF OwnsDraft
        <5> QED
          BY <3>5, <5>1, <5>2, DraftFacts DEF Absent
      <4>3. docs'[ops[x].draft] = docs[ops[x].draft]
        BY <1>6, <4>1, <4>2 DEF Exists
      <4> QED
        BY <2>1, <3>1, <3>5, <4>3 DEF OperationShape, Exists, OwnsDraft
    <3>6. ops[x].status \in Building => ops[x].status \in Active
      BY Statuses
    <3> QED
      BY <2>1, <3>1, <3>3, <3>4, <3>5, <3>6 DEF OperationShape, Exists, Patch
  <2> QED
    BY <2>2, <2>3, <2>4
<1>8. ASSUME NEW e \in AllDocs PROVE DocumentShape(e)'
  <2>1. CASE e = d
    <3>1. d \in Drafts => \E x \in Ops : ops'[x].draft = d
      BY <1>5 DEF LeaseInv, DocumentShape
    <3> QED
      BY <1>1, <1>2, <2>1, <3>1 DEF DocumentShape
  <2>2. CASE e # d
    <3>1. DocumentShape(e) /\ docs'[e] = docs[e]
      BY <1>6, <2>2 DEF LeaseInv
    <3>2. ASSUME docs[e].lease \in Ops PROVE ops'[docs[e].lease] = ops[docs[e].lease]
      <4>1. PICK x \in Ops : x = docs[e].lease
        BY <3>2
      <4>2. /\ ops[x].status \in Active
            /\ \/ Patch(x) /\ ops[x].doc = e
               \/ ops[x].kind = "create" /\ ops[x].draft = e /\ ops[x].doc = Null
        BY <3>2, <4>1, HolderFacts, Statuses
      <4>3. x # w
        BY <2>2, <4>2 DEF Published, Patch
      <4>4. x \notin S
        BY <1>1, <1>3, <2>2, <4>2
      <4> QED
        BY <4>1, <4>3, <4>4 DEF S
    <3>3. e \in Drafts /\ Exists(e) => \E x \in Ops : ops'[x].draft = e
      BY <1>5, <3>1 DEF DocumentShape
    <3> QED
      BY <3>1, <3>2, <3>3 DEF DocumentShape, Exists, Patch
  <2> QED
    BY <2>1, <2>2
<1>9. \A e \in AllDocs : CommandShape(e)'
  BY <1>5, CommandsKept
<1>10. DraftsOnce'
  BY <1>5 DEF LeaseInv, DraftsOnce
<1>11. ASSUME NEW e \in AllDocs PROVE AdvanceOutdates(e)
  <2>1. CASE e = d
    <3> SUFFICES ASSUME NEW x \in Ops, ops'[x].status \in Active, ops'[x].doc = d
                 PROVE  ops'[x].base = docs'[d].version
      BY <2>1 DEF AdvanceOutdates
    <3>1. CASE x = w
      <4>1. ops'[x].status = "awaiting_review"
        BY <3>1, Statuses DEF Published, Active, Building
      <4> QED
        BY <1>2, <3>1, <4>1 DEF Published
    <3>2. CASE x # w
      BY <1>2, <1>4, <1>5, <3>2
    <3> QED
      BY <3>1, <3>2
  <2>2. CASE e # d
    BY <1>6, <2>2 DEF Typed, DocRow, AdvanceOutdates
  <2> QED
    BY <2>1, <2>2
<1> QED
  BY <1>5, <1>7, <1>8, <1>9, <1>10, <1>11 DEF LeaseStep, LeaseInv

\* A version nobody's operation wrote, as save, restore and synchronisation
\* commit it.
LEMMA AdvanceLease ==
    ASSUME Typed, Typed', LeaseInv, NEW d \in AllDocs, NEW b,
           Writable(d), Advance(d, b), cmds' = cmds
    PROVE  LeaseStep
<1> DEFINE S == Rivals(d, b + 1, Null)
           D == [docs EXCEPT ![d].version = b + 1]
<1>1. /\ docs[d].version = b /\ docs' = Free(D, S) /\ ops' = Conflicted(ops, S)
      /\ Exists(d) /\ ~docs[d].trashed /\ docs[d].lease = Null
      /\ docs[d] \in DocRow /\ b + 1 \in Nat
  BY DEF Advance, Writable, Typed, DocRow
<1>2. docs[d].status = "active"
  BY <1>1, IdsAssumption DEF LeaseInv, DocumentShape, Exists, DocRow
<1>3. D[d] = [status |-> "active", version |-> b + 1, lease |-> Null, trashed |-> FALSE]
  BY <1>1, <1>2 DEF Typed, DocRow
<1>4. \A x \in S : x \in Ops /\ ops[x].doc = d /\ ops[x].kind # "create"
  BY RivalFacts
<1>5. ASSUME NEW e \in AllDocs \ {d} PROVE docs'[e] = docs[e]
  <2>1. docs[e].lease \notin S
    <3> SUFFICES ASSUME docs[e].lease \in S PROVE FALSE
      OBVIOUS
    <3> QED
      BY <1>4, <1>5, HolderFacts DEF Patch
  <2> QED
    BY <1>1, <2>1 DEF Free, Typed
<1>6. docs'[d] = D[d]
  <2>1. D[d].lease = Null /\ Null \notin S
    BY <1>3, <1>4, IdsAssumption
  <2> QED
    BY <1>1, <2>1 DEF Free
<1>7. /\ \A x \in S : ops'[x] = Move(ops[x], "conflicted")
      /\ \A x \in Ops \ S : ops'[x] = ops[x]
  BY <1>1, <1>4 DEF Conflicted
<1> HIDE DEF S, D
<1>8. S = Rivals(d, docs[d].version + 1, Null)
  BY <1>1 DEF S
<1>9. \A e \in AllDocs \ {d} : Kept(e)
  BY <1>5 DEF Kept
<1>10. /\ docs'[d] = [status |-> "active", version |-> docs[d].version + 1,
                      lease |-> Null, trashed |-> FALSE]
       /\ Null \notin Ops
  BY <1>1, <1>3, <1>6, IdsAssumption
<1> QED
  BY <1>1, <1>7, <1>8, <1>9, <1>10, PublishStep

\* A version that accepts what an operation proposed.
LEMMA CommitLease ==
    ASSUME Typed, Typed', LeaseInv, NEW d \in AllDocs, CommitCommand(d)
    PROVE  LeaseStep
<1> DEFINE c == cmds[d]
           w == c.op
           S == Rivals(d, c.basis + 1, w)
           D == [docs EXCEPT ![d].version = c.basis + 1,
                             ![d].status = IF c.type = "stream.commit" THEN "active" ELSE @]
           O == [Conflicted(ops, S) EXCEPT ![w] = After(ops[w], c)]
<1>1. /\ c.type \in Commits /\ Unchanged(c) /\ Committable(d, c)
      /\ docs' = Free(D, S \cup Releases(c)) /\ ops' = O
      /\ cmds' = [cmds EXCEPT ![d] = Idle]
  BY DEF CommitCommand, CanCommit
<1>2. /\ c \in Command /\ c.type \in Types /\ w \in Ops /\ ops[w] \in OpRow
      /\ Key(w) = d /\ ops[w].status \in Active /\ ops[w].status \in Rows
      /\ ops[w].kind = "create" => ops[w].draft = d /\ c.type = "stream.commit"
      /\ c.type = "stream.commit" => ops[w].kind = "create"
      /\ OperationShape(w) /\ OperationOK(w)
  BY <1>1, CommandFacts DEF Commits, LeaseInv, Typed
<1>3. /\ Exists(d) /\ ~docs[d].trashed /\ docs[d].lease \in {Null, w}
      /\ docs[d].version = c.basis /\ docs[d] \in DocRow /\ c.basis + 1 \in Nat
  BY <1>1, <1>2 DEF Committable, Typed, Command
<1>4. Target(ops[w], c.type) \in {"awaiting_review", "completed"}
  BY <1>1, <1>2, Targets
<1>5. Releases(c) = {w}
  BY <1>4 DEF Releases, Building
<1>6. c.type # "stream.commit" => docs[d].status = "active"
  <2>1. docs[d].status = "draft" => docs[d].lease = w /\ ops[w].kind = "create"
    BY <1>3, IdsAssumption DEF LeaseInv, DocumentShape
  <2> QED
    BY <1>2, <1>3, <2>1 DEF Exists, DocRow
<1>7. /\ D[d].status = "active" /\ D[d].version = c.basis + 1
      /\ D[d].lease = docs[d].lease /\ ~D[d].trashed
      /\ D[d] \in DocRow
      /\ \A e \in AllDocs \ {d} : D[e] = docs[e]
  BY <1>3, <1>6 DEF Typed, DocRow
<1>8. \A x \in S : /\ x \in Ops /\ x # w /\ ops[x].doc = d /\ ops[x].kind # "create"
  BY RivalFacts
<1>9. ASSUME NEW e \in AllDocs \ {d} PROVE docs'[e] = docs[e]
  <2>1. docs[e].lease \notin S \cup {w}
    <3> SUFFICES ASSUME docs[e].lease \in S \cup {w} PROVE FALSE
      OBVIOUS
    <3>1. docs[e].lease \in Ops
      BY <1>2, <1>8
    <3>2. CASE docs[e].lease \in S
      BY <1>8, <1>9, <3>1, <3>2, HolderFacts DEF Patch
    <3>3. CASE docs[e].lease = w
      BY <1>2, <1>9, <3>1, <3>3, HolderFacts, IdsAssumption DEF Key, Patch, AllDocs
    <3> QED
      BY <3>2, <3>3
  <2> QED
    BY <1>1, <1>5, <1>7, <2>1 DEF Free
<1>10. docs'[d] = [status |-> "active", version |-> docs[d].version + 1,
                  lease |-> Null, trashed |-> FALSE]
  <2>1. docs'[d] = IF D[d].lease \in S \cup {w} THEN [D[d] EXCEPT !.lease = Null] ELSE D[d]
    BY <1>1, <1>5 DEF Free
  <2>2. CASE docs[d].lease = Null
    <3>1. docs'[d] = D[d]
      BY <1>2, <1>7, <1>8, <2>1, <2>2, IdsAssumption
    <3> QED
      BY <1>3, <1>7, <2>2, <3>1 DEF DocRow
  <2>3. CASE docs[d].lease = w
    <3>1. docs'[d] = [D[d] EXCEPT !.lease = Null]
      BY <1>7, <2>1, <2>3
    <3> QED
      BY <1>3, <1>7, <3>1 DEF DocRow
  <2> QED
    BY <1>3, <2>2, <2>3
<1>11. /\ O[w] = After(ops[w], c)
       /\ \A x \in S : O[x] = Move(ops[x], "conflicted")
       /\ \A x \in Ops \ (S \cup {w}) : O[x] = ops[x]
  BY <1>2, <1>8 DEF Conflicted
<1>12. /\ O[w].status = Target(ops[w], c.type)
       /\ O[w].kind = ops[w].kind /\ O[w].draft = ops[w].draft
       /\ O[w].doc = IF c.type = "stream.commit" THEN ops[w].draft ELSE ops[w].doc
       /\ O[w].base = IF c.type \in {"stream.commit", "item.accept"}
                      THEN c.basis + 1 ELSE ops[w].base
       /\ O[w].rev > ops[w].rev
  BY <1>2, <1>11, AfterFields
<1> HIDE DEF O, D
<1>13. Published(w, d)
  <2>1. ops[w].kind # "create" => ops[w].doc = d /\ ops[w].base \in Nat
    BY <1>2, IdsAssumption, Statuses DEF Key, OperationOK, OperationShape, Kinds, AllDocs
  <2>2. O[w].doc = d
    BY <1>2, <1>12, <2>1
  <2>3. c.type = "stream.commit" \/ c.type = "review.apply" => O[w].status = "completed"
    BY <1>2, <1>12, Targets
  <2>4. O[w].status = "awaiting_review" => O[w].base = docs[d].version + 1
    BY <1>1, <1>3, <1>12, <2>3 DEF Commits
  <2>5. ops[w].kind # "create" => O[w].base \in Nat
    BY <1>3, <1>12, <2>1
  <2> QED
    BY <1>1, <1>2, <1>4, <1>12, <2>1, <2>2, <2>3, <2>4, <2>5 DEF Published
<1> HIDE DEF S, w, c
<1>14. S = Rivals(d, docs[d].version + 1, w)
  BY <1>3 DEF S
<1>15. \A e \in AllDocs : cmds'[e] = cmds[e] \/ cmds'[e] = Idle
  BY <1>1 DEF Typed
<1>16. \A e \in AllDocs \ {d} : Kept(e)
  BY <1>9 DEF Kept
<1> QED
  BY <1>1, <1>2, <1>3, <1>10, <1>11, <1>13, <1>14, <1>15, <1>16, PublishStep

(***************************************************************************)
(* Documents and operations that begin                                     *)
(***************************************************************************)

\* A step about at most one operation and one document, which appears, is taken
\* while it is free, or keeps its lease.
LEMMA LocalStep ==
    ASSUME Typed, Typed', LeaseInv, NEW o \in Ops \cup {Null}, NEW d \in AllDocs,
           \A e \in AllDocs : cmds'[e] = cmds[e] \/ cmds'[e] = Idle,
           \A x \in Ops \ {o} : ops'[x] = ops[x],
           \A e \in AllDocs \ {d} : docs'[e] = docs[e],
           \A e \in AllDocs \ {d} : docs[e].lease \in Ops => docs[e].lease # o,
           \/ docs[d] = Absent /\ \A x \in Ops \ {o} : ops[x].draft # d
           \/ /\ docs'[d].status = docs[d].status /\ docs'[d].version = docs[d].version
              /\ docs[d].lease \in {Null, docs'[d].lease},
           o \in Ops =>
               /\ OperationShape(o)' /\ OpKept(o) /\ FinalStep(o)
               /\ \/ ops'[o].draft = ops[o].draft
                  \/ ops[o].draft = Null /\ \A x \in Ops : ops[x].draft # ops'[o].draft
               /\ ops'[o].status \in Active /\ ops'[o].doc = d =>
                       docs'[d].version = docs[d].version,
           DocumentShape(d)'
    PROVE  LeaseStep
<1>1. Null \notin Ops \cup AllDocs
  BY IdsAssumption DEF AllDocs
<1>2. ASSUME NEW e \in AllDocs \ {d}
      PROVE  docs'[e] = docs[e] /\ (docs[e].lease \in Ops => docs[e].lease # o)
  BY <1>1
<1>3. ASSUME NEW x \in Ops
      PROVE  OpKept(x) /\ FinalStep(x) /\ (ops[x].draft # Null => ops'[x].draft = ops[x].draft)
  BY DEF OpKept, FinalStep
<1>4. \A x \in Ops : ops[x].status \in Rows /\ ops[x].doc = d => docs[d].status # "absent"
  BY <1>1 DEF LeaseInv, OperationShape, Exists
<1>5. ASSUME NEW x \in Ops PROVE OperationShape(x)'
  <2>1. CASE x = o
    BY <2>1
  <2>2. CASE x # o
    <3>1. ops'[x] = ops[x] /\ OperationShape(x) /\ OperationOK(x) /\ ops[x] \in OpRow
      BY <2>2 DEF LeaseInv, Typed
    <3>2. ASSUME ops[x].status \in Rows, ops[x].doc # Null
          PROVE  docs'[ops[x].doc].status # "absent"
      <4>1. ops[x].doc \in AllDocs /\ docs[ops[x].doc].status # "absent"
        BY <3>1, <3>2 DEF OpRow, OperationShape, Exists
      <4>2. CASE ops[x].doc = d
        BY <4>1, <4>2 DEF Absent
      <4> QED
        BY <1>2, <4>1, <4>2
    <3>3. ASSUME Patch(x), ops[x].status \in Active
          PROVE  /\ ops[x].base = docs'[ops[x].doc].version
                 /\ ops[x].status \in Building => docs'[ops[x].doc].lease = x
      <4>1. ops[x].doc \in AllDocs
        BY <3>1, <3>3, Statuses DEF OperationOK, Patch
      <4>2. CASE ops[x].doc # d
        BY <1>2, <3>1, <3>3, <4>1, <4>2 DEF OperationShape
      <4>3. CASE ops[x].doc = d
        <5>1. docs[d] # Absent
          BY <1>4, <3>3, <4>3, Statuses DEF Absent
        <5>2. /\ docs'[d].version = docs[d].version
              /\ docs[d].lease \in {Null, docs'[d].lease}
          BY <5>1
        <5> QED
          BY <1>1, <3>1, <3>3, <4>3, <5>2 DEF OperationShape
      <4> QED
        BY <4>2, <4>3
    <3>4. ASSUME ops[x].kind = "create", ops[x].status \in Active
          PROVE  /\ ops[x].rev = 1 => docs'[ops[x].draft].status = "absent"
                 /\ ops[x].rev # 1 => OwnsDraft(x)'
      <4>1. ops[x].draft \in AllDocs
        BY <3>4, DraftFacts
      <4>2. CASE ops[x].draft # d
        <5>1. docs'[ops[x].draft] = docs[ops[x].draft]
          BY <1>2, <4>1, <4>2
        <5> QED
          BY <3>1, <3>4, <5>1 DEF OperationShape, Exists, OwnsDraft
      <4>3. CASE ops[x].draft = d
        <5>1. /\ docs'[d].status = docs[d].status /\ docs'[d].version = docs[d].version
              /\ docs[d].lease \in {Null, docs'[d].lease}
          BY <2>2, <4>3
        <5>2. ops[x].rev # 1 => docs[d].lease = x /\ OwnsDraft(x)
          BY <3>1, <3>4, <4>3 DEF OperationShape, OwnsDraft
        <5>3. ops[x].rev = 1 => docs[d].status = "absent"
          BY <3>1, <3>4, <4>3 DEF OperationShape, Exists
        <5> QED
          BY <1>1, <3>1, <4>3, <5>1, <5>2, <5>3 DEF OwnsDraft
      <4> QED
        BY <4>2, <4>3
    <3>5. ops[x].status \in Building => ops[x].status \in Active
      BY Statuses
    <3> QED
      BY <3>1, <3>2, <3>3, <3>4, <3>5 DEF OperationShape, Exists, Patch
  <2> QED
    BY <2>1, <2>2
<1>6. ASSUME NEW e \in AllDocs PROVE DocumentShape(e)'
  <2>1. CASE e = d
    BY <2>1
  <2>2. CASE e # d
    <3>1. docs'[e] = docs[e] /\ DocumentShape(e)
      BY <1>2, <2>2 DEF LeaseInv
    <3>2. docs[e].lease \in Ops => ops'[docs[e].lease] = ops[docs[e].lease]
      BY <1>2, <2>2
    <3>3. e \in Drafts /\ Exists(e) => \E x \in Ops : ops'[x].draft = e
      BY <1>1, <1>3, <3>1 DEF DocumentShape
    <3> QED
      BY <3>1, <3>2, <3>3 DEF DocumentShape, Exists, Patch
  <2> QED
    BY <2>1, <2>2
<1>7. \A e \in AllDocs : CommandShape(e)'
  BY <1>3, CommandsKept
<1>8. DraftsOnce'
  <2> SUFFICES ASSUME NEW x \in Ops, NEW y \in Ops,
                      ops'[x].draft = ops'[y].draft, ops'[x].draft # Null
               PROVE  x = y
    BY DEF DraftsOnce
  <2> QED
    BY DEF LeaseInv, DraftsOnce
<1>9. ASSUME NEW e \in AllDocs PROVE AdvanceOutdates(e)
  <2> SUFFICES ASSUME docs'[e].version > docs[e].version,
                      NEW x \in Ops, ops'[x].status \in Active, ops'[x].doc = e
               PROVE  FALSE
    BY DEF AdvanceOutdates
  <2>1. docs[e].version \in Nat
    BY DEF Typed, DocRow
  <2>2. e = d /\ docs[d] = Absent /\ docs'[d].version # docs[d].version
    BY <1>2, <2>1
  <2>3. CASE x = o
    BY <2>2, <2>3
  <2>4. CASE x # o
    BY <1>4, <2>2, <2>4, Statuses DEF Absent
  <2> QED
    BY <2>3, <2>4
<1> QED
  BY <1>3, <1>5, <1>6, <1>7, <1>8, <1>9 DEF LeaseStep, LeaseInv

\* A document appears; nobody can have named it.
LEMMA ImportLease ==
    ASSUME Typed, Typed', LeaseInv, NEW d \in Docs, Import(d)
    PROVE  LeaseStep
<1>1. /\ d \in AllDocs /\ docs[d] = Absent
      /\ docs' = [docs EXCEPT ![d] = [Absent EXCEPT !.status = "active", !.version = 1]]
      /\ ops' = ops /\ cmds' = cmds
  BY DEF Import, Exists, Typed, DocumentOK, AllDocs
<1>2. d \notin Drafts /\ Null \notin Ops /\ d # Null
  BY IdsAssumption
<1>3. docs'[d].status = "active" /\ docs'[d].lease = Null /\ ~docs'[d].trashed
  BY <1>1 DEF Typed, Absent
<1>4. DocumentShape(d)'
  BY <1>2, <1>3 DEF DocumentShape
<1>5. \A e \in AllDocs \ {d} : docs'[e] = docs[e]
  BY <1>1 DEF Typed
<1>6. \A x \in Ops : ops[x].draft # d
  BY <1>2 DEF Typed, OpRow
<1> QED
  BY <1>1, <1>2, <1>4, <1>5, <1>6, LocalStep

\* A row that is inserted, or whose plan becomes a row: nothing else changes,
\* and nobody had it hold a document.
LEMMA NewOpLease ==
    ASSUME Typed, Typed', LeaseInv, NEW o \in Ops, NEW op,
           AllDocs # {},
           ops[o].status \in {"none", "planned"},
           docs' = docs, cmds' = cmds, ops' = [ops EXCEPT ![o] = op],
           OperationShape(o)',
           op.draft = Null \/ \A x \in Ops : ops[x].draft # op.draft
    PROVE  LeaseStep
<1>1. /\ OperationShape(o) /\ ops[o].draft = Null /\ ops[o].status \notin Active
      /\ ops[o].status \notin Rows \cup {"gone"}
  BY Statuses DEF LeaseInv, OperationShape
<1>2. /\ ops'[o] = op
      /\ \A x \in Ops \ {o} : ops'[x] = ops[x]
  BY DEF Typed
<1>3. OpKept(o) /\ FinalStep(o)
  BY <1>1, Statuses DEF OpKept, FinalStep
<1>4. ASSUME NEW d \in AllDocs
      PROVE  /\ docs[d].lease \in Ops => docs[d].lease # o
             /\ DocumentShape(d)'
  <2>1. DocumentShape(d)
    BY DEF LeaseInv
  <2>2. docs[d].lease \in Ops => docs[d].lease # o
    BY <1>1, <2>1, Statuses DEF DocumentShape
  <2>3. ASSUME d \in Drafts, Exists(d) PROVE \E x \in Ops : ops'[x].draft = d
    <3>1. PICK x \in Ops : ops[x].draft = d
      BY <2>1, <2>3 DEF DocumentShape
    <3>2. x # o
      BY <1>1, <2>3, <3>1, IdsAssumption
    <3> QED
      BY <1>2, <3>1, <3>2
  <2>4. docs[d].lease \in Ops => ops'[docs[d].lease] = ops[docs[d].lease]
    BY <1>2, <2>2
  <2> QED
    BY <2>1, <2>2, <2>3, <2>4 DEF DocumentShape, Exists, Patch
<1>5. PICK d : d \in AllDocs
  OBVIOUS
<1> QED
  BY <1>1, <1>2, <1>3, <1>4, <1>5, LocalStep

\* An edit or continuation takes the lease with its row.
LEMMA BeginPatchLease ==
    ASSUME Typed, Typed', LeaseInv, NEW o \in Ops, NEW r \in Runs, NEW d \in AllDocs,
           NEW kind \in {"edit", "continue"}, NEW b \in 0..MaxVersion,
           BeginPatch(o, r, d, kind, b)
    PROVE  LeaseStep
<1>1. /\ ops[o].status = "none"
      /\ Exists(d) /\ ~docs[d].trashed /\ docs[d].lease = Null
      /\ docs[d].version = b /\ b \in Nat
      /\ docs' = [docs EXCEPT ![d].lease = o]
      /\ ops' = [ops EXCEPT ![o] = [Blank EXCEPT !.status = "running", !.kind = kind,
                                    !.run = r, !.doc = d, !.base = b, !.rev = 1,
                                    !.expires = TRUE]]
      /\ cmds' = cmds
  BY BoundsAssumption DEF BeginPatch, Writable
<1>2. /\ ops'[o].status = "running" /\ ops'[o].kind = kind /\ ops'[o].doc = d
      /\ ops'[o].base = b /\ ops'[o].rev = 1 /\ ops'[o].draft = Null
      /\ \A x \in Ops \ {o} : ops'[x] = ops[x]
  BY <1>1 DEF Typed, Blank
<1>3. /\ docs'[d].status = docs[d].status /\ docs'[d].version = docs[d].version
      /\ docs'[d].trashed = docs[d].trashed /\ docs'[d].lease = o
      /\ \A e \in AllDocs \ {d} : docs'[e] = docs[e]
  BY <1>1 DEF Typed, DocRow
<1>4. "running" \in Building /\ "running" \in Active /\ "running" \in Rows
  BY DEF Rows, Active, Building
<1>5. OperationShape(o)'
  BY <1>1, <1>2, <1>3, <1>4, Statuses DEF OperationShape, Exists, Kinds, Patch
<1>6. ops[o].draft = Null /\ OpKept(o) /\ FinalStep(o)
  BY <1>1, Statuses DEF LeaseInv, OperationShape, OpKept, FinalStep
<1>7. DocumentShape(d)'
  <2>1. docs[d].status # "draft"
    BY <1>1, IdsAssumption DEF LeaseInv, DocumentShape
  <2>2. ASSUME d \in Drafts PROVE \E x \in Ops : ops'[x].draft = d
    <3>1. PICK x \in Ops : ops[x].draft = d
      BY <1>1, <2>2 DEF LeaseInv, DocumentShape
    <3> QED
      BY <1>2, <1>6, <2>2, <3>1, IdsAssumption
  <2> QED
    BY <1>1, <1>2, <1>3, <1>4, <2>1, <2>2 DEF DocumentShape, Patch
<1>8. \A e \in AllDocs \ {d} : docs[e].lease \in Ops => docs[e].lease # o
  BY <1>1, Statuses DEF LeaseInv, DocumentShape
<1> QED
  BY <1>1, <1>2, <1>3, <1>5, <1>6, <1>7, <1>8, LocalStep

\* document.create draws a fresh draft id.
LEMMA BeginCreateLease ==
    ASSUME Typed, Typed', LeaseInv, NEW o \in Ops, NEW r \in Runs, NEW d \in Drafts,
           BeginCreate(o, r, d)
    PROVE  LeaseStep
<1> DEFINE op == [Blank EXCEPT !.status = "running", !.kind = "create",
                               !.run = r, !.draft = d, !.rev = 1, !.expires = TRUE]
<1>1. /\ ops[o].status = "none" /\ \A x \in Ops : ops[x].draft # d
      /\ ops' = [ops EXCEPT ![o] = op] /\ docs' = docs /\ cmds' = cmds
      /\ AllDocs # {}
  BY DEF BeginCreate, AllDocs
<1>2. /\ op.status = "running" /\ op.kind = "create" /\ op.doc = Null
      /\ op.draft = d /\ op.rev = 1
  BY DEF Blank
<1>3. ops'[o] = op
  BY <1>1 DEF Typed
<1> HIDE DEF op
<1>4. ~Exists(d)
  BY <1>1 DEF LeaseInv, DocumentShape, AllDocs
<1>5. OperationShape(o)'
  BY <1>1, <1>2, <1>3, <1>4, Statuses DEF OperationShape, Exists, Kinds, Patch
<1> QED
  BY <1>1, <1>2, <1>5, NewOpLease

\* A selection rewrite is planned on a version, and becomes a row later, on
\* whatever version the document then has.
LEMMA RewriteLease ==
    ASSUME Typed, Typed', LeaseInv, NEW o \in Ops,
           \/ CreateRewrite(o)
           \/ \E r \in Runs, d \in AllDocs, b \in 0..MaxVersion : PlanRewrite(o, r, d, b)
    PROVE  LeaseStep
<1>1. ops[o] \in OpRow /\ OperationShape(o)
  BY DEF Typed, LeaseInv
<1>2. ASSUME NEW r \in Runs, NEW d \in AllDocs, NEW b \in 0..MaxVersion,
             PlanRewrite(o, r, d, b)
      PROVE  LeaseStep
  <2> DEFINE op == [Blank EXCEPT !.status = "planned", !.kind = "rewrite",
                                 !.run = r, !.doc = d, !.base = b]
  <2>1. /\ ops[o].status = "none" /\ ops' = [ops EXCEPT ![o] = op]
        /\ docs' = docs /\ cmds' = cmds
    BY <1>2 DEF PlanRewrite
  <2>2. /\ op.status = "planned" /\ op.kind = "rewrite" /\ op.base = b
        /\ op.draft = Null
    BY DEF Blank
  <2>3. b \in Nat
    BY BoundsAssumption
  <2>4. ops'[o] = op
    BY <2>1 DEF Typed
  <2> HIDE DEF op
  <2>5. OperationShape(o)'
    BY <2>1, <2>2, <2>3, <2>4, Statuses DEF OperationShape, Kinds, Patch
  <2> QED
    BY <2>1, <2>2, <2>5, NewOpLease
<1>3. CASE CreateRewrite(o)
  <2> DEFINE op == IF Exists(ops[o].doc) THEN Move(ops[o], "running") ELSE Gone(ops[o])
  <2>1. /\ ops[o].status = "planned" /\ ops' = [ops EXCEPT ![o] = op]
        /\ docs' = docs /\ cmds' = cmds
    BY <1>3 DEF CreateRewrite
  <2>2. /\ ops[o].kind = "rewrite" /\ ops[o].draft = Null /\ ops[o].base \in Nat
        /\ ops[o].rev \in Nat /\ AllDocs # {}
    BY <1>1, <2>1 DEF OperationShape, OpRow, OperationOK, Typed
  <2>3. CASE Exists(ops[o].doc)
    <3>1. op = [ops[o] EXCEPT !.status = "running", !.rev = ops[o].rev + 1]
      BY <2>3 DEF Move
    <3>2. ops'[o] = op
      BY <2>1 DEF Typed
    <3> HIDE DEF op
    <3>3. /\ op.status = "running" /\ op.kind = ops[o].kind /\ op.rev = ops[o].rev + 1
          /\ op.doc = ops[o].doc /\ op.base = ops[o].base /\ op.draft = ops[o].draft
      BY <1>1, <3>1 DEF OpRow
    <3>4. /\ op.status = "running" /\ op.kind = "rewrite" /\ op.rev # 0
          /\ op.doc = ops[o].doc /\ op.base = ops[o].base /\ op.draft = Null
      BY <2>2, <3>3
    <3>5. OperationShape(o)'
      BY <2>1, <2>2, <2>3, <3>2, <3>4, Statuses DEF OperationShape, Exists, Kinds, Patch
    <3> QED
      BY <2>1, <2>2, <3>4, <3>5, NewOpLease
  <2>4. CASE ~Exists(ops[o].doc)
    <3>1. op.status = "gone" /\ op.kind = "none" /\ op.draft = Null
      BY <2>2, <2>4 DEF Gone, Blank
    <3>2. ops'[o] = op
      BY <2>1 DEF Typed
    <3> HIDE DEF op
    <3>3. OperationShape(o)'
      BY <3>1, <3>2, Statuses DEF OperationShape, Kinds, Patch
    <3> QED
      BY <2>1, <2>2, <3>1, <3>3, NewOpLease
  <2> QED
    BY <2>3, <2>4
<1> QED
  BY <1>2, <1>3

\* The draft of a create appears with its first command, and is the create's
\* own; a later one finds it so.
LEMMA DraftLease ==
    ASSUME Typed, Typed', LeaseInv, NEW d \in AllDocs, DraftCommand(d)
    PROVE  LeaseStep
<1>1. PICK w, c :
        /\ c = cmds[d] /\ w = c.op /\ Unchanged(c)
        /\ \/ c.type = "stream.begin" /\ ~Exists(d)
           \/ c.type = "stream.append" /\ OwnsDraft(w)
        /\ docs' = [docs EXCEPT ![d] = [Absent EXCEPT !.status = "draft", !.lease = w]]
        /\ ops' = [ops EXCEPT ![w] = After(ops[w], c)]
        /\ cmds' = [cmds EXCEPT ![d] = Idle]
  BY DEF DraftCommand, CanDraft
<1> DEFINE row == [Absent EXCEPT !.status = "draft", !.lease = w]
<1>2. /\ c \in Command /\ c.type \in Types /\ w \in Ops /\ ops[w] \in OpRow
      /\ ops[w].status \in Active /\ ops[w].rev # 0
      /\ ops[w].kind = "create" /\ ops[w].draft = d
      /\ c.type # "stream.commit"
  BY <1>1, CommandFacts
<1>3. /\ OperationShape(w) /\ OperationOK(w) /\ DocumentShape(d)
      /\ ops[w].status = "running" /\ ops[w].doc = Null
  BY <1>2 DEF LeaseInv, Typed, OperationShape
<1>4. /\ row.status = "draft" /\ row.version = 0 /\ row.lease = w /\ row.trashed = FALSE
  BY DEF Absent
<1>5. docs'[d] = row /\ \A e \in AllDocs \ {d} : docs'[e] = docs[e]
  BY <1>1 DEF Typed
<1>6. ops'[w] = After(ops[w], c) /\ \A x \in Ops \ {w} : ops'[x] = ops[x]
  BY <1>1, <1>2 DEF Typed
<1> HIDE DEF row
<1>7. Target(ops[w], c.type) = "running"
  BY <1>1, <1>2, <1>3, Targets
<1>8. /\ ops'[w].status = "running" /\ ops'[w].kind = "create" /\ ops'[w].draft = d
      /\ ops'[w].doc = Null /\ ops'[w].rev > ops[w].rev
  BY <1>2, <1>3, <1>6, <1>7, AfterFields
<1>9. ops'[w].rev # 1 /\ ops'[w].rev # 0
  BY <1>2, <1>8 DEF Typed, OpRow
<1>10. "running" \in Building /\ "running" \in Active /\ "running" \in Rows
  BY DEF Rows, Active, Building
<1>11. OwnsDraft(w)'
  BY <1>4, <1>5, <1>8 DEF OwnsDraft
<1>12. OperationShape(w)'
  BY <1>8, <1>9, <1>10, <1>11, Statuses DEF OperationShape, Kinds, Patch
<1>13. OpKept(w) /\ FinalStep(w)
  BY <1>2, <1>8, Statuses DEF OpKept, FinalStep
<1>14. DocumentShape(d)'
  BY <1>2, <1>4, <1>5, <1>8, <1>10 DEF DocumentShape
<1>15. \/ docs[d] = Absent /\ \A x \in Ops \ {w} : ops[x].draft # d
       \/ /\ docs'[d].status = docs[d].status /\ docs'[d].version = docs[d].version
          /\ docs[d].lease \in {Null, docs'[d].lease}
  <2>1. CASE ~Exists(d)
    <3>1. docs[d] = Absent
      BY <2>1 DEF Typed, DocumentOK, Exists
    <3>2. \A x \in Ops \ {w} : ops[x].draft # d
      BY <1>2, IdsAssumption DEF LeaseInv, DraftsOnce, AllDocs
    <3> QED
      BY <3>1, <3>2
  <2>2. CASE OwnsDraft(w)
    BY <1>2, <1>4, <1>5, <2>2 DEF OwnsDraft
  <2> QED
    BY <1>1, <2>1, <2>2
<1>16. \A e \in AllDocs \ {d} : docs[e].lease \in Ops => docs[e].lease # w
  BY <1>2, HolderFacts DEF Patch
<1>17. ops'[w].doc # d
  BY <1>8, IdsAssumption DEF AllDocs
<1>18. \A e \in AllDocs : cmds'[e] = cmds[e] \/ cmds'[e] = Idle
  BY <1>1 DEF Typed
<1> QED
  BY <1>2, <1>5, <1>6, <1>8, <1>12, <1>13, <1>14, <1>15, <1>16, <1>17, <1>18, LocalStep

\* A command that starts changes no row, and its handler has seen what its
\* shape says.
LEMMA StartLease ==
    ASSUME Typed, Typed', LeaseInv, NEW o \in Ops, NEW type \in Types,
           NEW n \in 0..MaxItems, StartCommand(o, type, n)
    PROVE  LeaseStep
<1> DEFINE d == Key(o)
           c == [op |-> o, type |-> type, rev |-> ops[o].rev,
                 basis |-> docs[d].version, items |-> n]
<1>1. /\ ops[o].status \in Rows /\ Admits(o, type) /\ Accepts(o, type, n)
      /\ cmds' = [cmds EXCEPT ![d] = c]
      /\ docs' = docs /\ ops' = ops
  BY DEF StartCommand
<1>2. ops[o].kind = "create" =>
        type \in {"stream.begin", "stream.append", "stream.commit", "operation.cancel"}
  BY <1>1 DEF Accepts, CreateAccepts
<1>3. ASSUME NEW e \in AllDocs PROVE CommandShape(e)'
  <2>1. CASE cmds'[e] = cmds[e]
    <3>1. CommandShape(e)
      BY DEF LeaseInv
    <3> QED
      BY <1>1, <2>1, <3>1 DEF CommandShape, Admits
  <2>2. CASE cmds'[e] = c
    BY <1>1, <1>2, <2>2 DEF CommandShape, Admits
  <2> QED
    BY <1>1, <2>1, <2>2 DEF Typed
<1>4. ASSUME NEW e \in AllDocs PROVE DocumentShape(e)' /\ AdvanceOutdates(e)
  <2>1. docs[e].version \in Nat
    BY DEF Typed, DocRow
  <2> QED
    BY <1>1, <2>1 DEF LeaseInv, DocumentShape, Exists, Patch, AdvanceOutdates
<1>5. ASSUME NEW x \in Ops PROVE OperationShape(x)' /\ FinalStep(x)
  BY <1>1 DEF LeaseInv, OperationShape, Exists, Patch, OwnsDraft, FinalStep
<1>6. DraftsOnce'
  BY <1>1 DEF LeaseInv, DraftsOnce
<1> QED
  BY <1>3, <1>4, <1>5, <1>6 DEF LeaseStep, LeaseInv

(***************************************************************************)
(* The specification                                                       *)
(***************************************************************************)

\* Nothing exists at first.
LEMMA LeaseInit == Init => LeaseInv
<1> SUFFICES ASSUME Init PROVE LeaseInv
  OBVIOUS
<1>1. ASSUME NEW o \in Ops PROVE OperationShape(o) /\ ops[o].draft = Null
  <2>1. ops[o].status = "none" /\ ops[o].kind = "none" /\ ops[o].draft = Null
    BY DEF Init, Blank
  <2> QED
    BY <2>1, Statuses DEF OperationShape, Patch
<1>2. ASSUME NEW d \in AllDocs PROVE DocumentShape(d) /\ CommandShape(d)
  <2>1. docs[d] = Absent /\ cmds[d].op = Null
    BY DEF Init, Idle
  <2>2. Null \notin Ops
    BY IdsAssumption
  <2> QED
    BY <2>1, <2>2 DEF DocumentShape, CommandShape, Absent, Exists
<1> QED
  BY <1>1, <1>2 DEF LeaseInv, DraftsOnce

\* Steps that change no operation: marks, the trash, runs, and commands or
\* saves that are given up.
LEMMA QuietLease ==
    ASSUME Typed, Typed', LeaseInv,
           \/ \E d \in AllDocs : Trash(d) \/ Restore(d) \/ RejectCommand(d)
           \/ \E d \in Docs : SyncDrop(d)
           \/ \E r \in Runs : \/ StartRun(r) \/ DraftEnd(r)
                              \/ \E d \in AllDocs : DraftBegin(r, d)
           \/ UNCHANGED vars
    PROVE  LeaseStep
<1>1. /\ \A d \in AllDocs : docs[d] \in DocRow /\ (docs[d].trashed => docs[d].lease = Null)
      /\ Null \notin Ops /\ Runs \cap Ops = {}
  BY IdsAssumption DEF Typed, LeaseInv, DocumentShape
<1>2. ops' = ops
  BY DEF Trash, Restore, RejectCommand, SyncDrop, StartRun, DraftEnd, DraftBegin, vars
<1>3. \A d \in AllDocs : cmds'[d] = cmds[d] \/ cmds'[d] = Idle
  BY DEF Trash, Restore, RejectCommand, SyncDrop, StartRun, DraftEnd, DraftBegin, vars, Typed
<1>4. ASSUME NEW e \in AllDocs
      PROVE  /\ docs'[e].status = docs[e].status /\ docs'[e].version = docs[e].version
             /\ \/ docs'[e].lease = docs[e].lease
                \/ docs[e].lease \notin Ops /\ docs'[e].lease \notin Ops
             /\ docs'[e].trashed => docs'[e].lease = Null
  <2>1. CASE docs' = docs
    BY <1>1, <2>1
  <2>2. ASSUME NEW d \in AllDocs, Trash(d) \/ Restore(d)
        PROVE  /\ docs'[e].status = docs[e].status /\ docs'[e].version = docs[e].version
               /\ docs'[e].lease = docs[e].lease
               /\ docs'[e].trashed => docs'[e].lease = Null
    BY <1>1, <2>2 DEF Trash, Restore, Writable, Typed, DocRow
  <2>3. ASSUME NEW r \in Runs, NEW d \in AllDocs, DraftBegin(r, d)
        PROVE  /\ docs'[e].status = docs[e].status /\ docs'[e].version = docs[e].version
               /\ \/ docs'[e].lease = docs[e].lease
                  \/ docs[e].lease \notin Ops /\ docs'[e].lease \notin Ops
               /\ docs'[e].trashed => docs'[e].lease = Null
    BY <1>1, <2>3 DEF DraftBegin, Typed, DocRow
  <2>4. ASSUME NEW r \in Runs, DraftEnd(r)
        PROVE  /\ docs'[e].status = docs[e].status /\ docs'[e].version = docs[e].version
               /\ \/ docs'[e].lease = docs[e].lease
                  \/ docs[e].lease \notin Ops /\ docs'[e].lease \notin Ops
               /\ docs'[e].trashed => docs'[e].lease = Null
    BY <1>1, <2>4 DEF DraftEnd, Typed, DocRow
  <2>5. \/ docs' = docs
        \/ \E d \in AllDocs : Trash(d) \/ Restore(d)
        \/ \E r \in Runs : DraftEnd(r) \/ \E d \in AllDocs : DraftBegin(r, d)
    BY DEF RejectCommand, SyncDrop, StartRun, vars
  <2> QED
    BY <2>1, <2>2, <2>3, <2>4, <2>5
<1> QED
  BY <1>2, <1>3, <1>4, MarksStep

\* The end of a run, and an operation that expires.
LEMMA EndLease ==
    ASSUME Typed, Typed', LeaseInv,
           \/ \E o \in Ops : Expire(o)
           \/ \E r \in Runs : GiveUp(r) \/ \E completed \in BOOLEAN : FinishRun(r, completed)
    PROVE  LeaseStep
<1>1. {"expired", "cancelled"} \subseteq Terminal
  BY DEF Terminal
<1>2. ASSUME NEW o \in Ops, Expire(o) PROVE LeaseStep
  <2>1. /\ ops[o].status \in Active /\ Settle({o}, "expired")
        /\ UNCHANGED <<cmds, sync, drafting>>
    BY <1>2, Statuses DEF Expire
  <2>2. {o} \in SUBSET Ops /\ \A x \in {o} : ops[x].status \in Active
    BY <2>1
  <2> QED
    BY <1>1, <2>1, <2>2, SettleLease
<1>3. ASSUME NEW r \in Runs, NEW statuses \in SUBSET Active,
             Settle(OfRun(r, statuses), "cancelled"), UNCHANGED <<cmds, sync, drafting>>
      PROVE  LeaseStep
  <2>1. /\ OfRun(r, statuses) \in SUBSET Ops
        /\ \A x \in OfRun(r, statuses) : ops[x].status \in Active
    BY DEF OfRun
  <2> QED
    BY <1>1, <1>3, <2>1, SettleLease
<1>4. ASSUME NEW r \in Runs, GiveUp(r) PROVE LeaseStep
  <2>1. /\ Building \in SUBSET Active /\ Settle(OfRun(r, Building), "cancelled")
        /\ UNCHANGED <<cmds, sync, drafting>>
    BY <1>4, Statuses DEF GiveUp
  <2> QED
    BY <1>3, <2>1
<1>5. ASSUME NEW r \in Runs, NEW completed \in BOOLEAN, FinishRun(r, completed)
      PROVE  LeaseStep
  <2> DEFINE T == IF completed THEN Building ELSE Active
  <2>1. /\ T \in SUBSET Active /\ Settle(OfRun(r, T), "cancelled")
        /\ UNCHANGED <<cmds, sync, drafting>>
    BY <1>5, Statuses DEF FinishRun
  <2> HIDE DEF T
  <2> QED
    BY <1>3, <2>1
<1> QED
  BY <1>2, <1>4, <1>5

\* Every step of the kernel, one case per kind of action.
LEMMA LeaseNext ==
    ASSUME IInv, LeaseInv, [Next]_vars
    PROVE  LeaseStep
<1>1. Typed /\ Typed'
  BY NextOK, TypedOK, PTL
<1>2. CASE DocumentStep
  <2>1. ASSUME NEW d \in AllDocs, NEW b \in 0..MaxVersion,
               Save(d, b) \/ \E n \in 1..MaxVersion : RestoreVersion(d, n, b)
        PROVE  LeaseStep
    <3>1. Writable(d) /\ Advance(d, b) /\ cmds' = cmds
      BY <2>1 DEF Save, RestoreVersion
    <3> QED
      BY <1>1, <3>1, AdvanceLease
  <2>2. ASSUME NEW S \in SUBSET AllDocs, \A d \in S : docs[d].trashed, Delete(S)
        PROVE  LeaseStep
    BY <1>1, <2>2, DeleteLease
  <2>3. CASE EmptyTrash
    BY <2>2, <2>3 DEF EmptyTrash
  <2>4. ASSUME NEW d \in AllDocs, DeletePermanently(d) PROVE LeaseStep
    BY <2>2, <2>4 DEF DeletePermanently
  <2> QED
    BY <1>1, <1>2, <2>1, <2>3, <2>4, ImportLease, QuietLease DEF DocumentStep
<1>3. CASE SyncStep
  <2>1. ASSUME NEW d \in Docs, SyncSave(d) PROVE LeaseStep
    <3>1. d \in AllDocs /\ Writable(d) /\ Advance(d, sync[d]) /\ cmds' = cmds
      BY <2>1 DEF SyncSave, AllDocs
    <3> QED
      BY <1>1, <3>1, AdvanceLease
  <2> QED
    BY <1>1, <1>3, <2>1, SyncBeginLease, QuietLease DEF SyncStep
<1>4. CASE RunStep
  BY <1>1, <1>4, QuietLease, EndLease DEF RunStep
<1>5. CASE OperationStep
  BY <1>1, <1>5, BeginPatchLease, BeginCreateLease, RewriteLease, StartLease, EndLease
     DEF OperationStep
<1>6. ASSUME NEW d \in AllDocs, FinishCommand(d) PROVE LeaseStep
  BY <1>1, <1>6, CommitLease, DraftLease, DropDraftLease, DecideLease, QuietLease
     DEF FinishCommand
<1>7. CASE Restart
  BY <1>1, <1>7, RestartLease
<1>8. CASE UNCHANGED vars
  BY <1>1, <1>8, QuietLease
<1> QED
  BY <1>2, <1>3, <1>4, <1>5, <1>6, <1>7, <1>8 DEF Next

\* In every reachable state the shapes hold.
THEOREM LeaseInvariance == Spec => []LeaseInv
<1>1. IInv /\ LeaseInv /\ [Next]_vars => LeaseInv'
  BY LeaseNext DEF LeaseStep
<1> QED
  BY <1>1, LeaseInit, Invariance, PTL DEF Spec

\* An operation's lease belongs to an operation that is being built on the
\* document or on its draft, whichever way operations end.
THEOREM LeasesOwned == Spec => []LeaseOwner
<1>1. IInv /\ LeaseInv => LeaseOwner
  BY TypedOK, HolderFacts DEF LeaseOwner, OwnsDraft, Patch
<1> QED
  BY <1>1, Invariance, LeaseInvariance, PTL

\* An edit or continuation being built holds its document, unchanged.
THEOREM BuildersHold == Spec => []LeaseWhileBuilding
<1>1. LeaseInv => LeaseWhileBuilding
  BY Statuses DEF LeaseInv, OperationShape, Patch, LeaseWhileBuilding
<1> QED
  BY <1>1, LeaseInvariance, PTL

\* A draft never outlives the operation that writes it.
THEOREM DraftsOwned == Spec => []NoOrphanDraft
<1>1. IInv /\ LeaseInv => NoOrphanDraft
  <2> SUFFICES ASSUME IInv, LeaseInv, NEW d \in AllDocs, docs[d].status = "draft"
               PROVE  \E o \in Ops : /\ ops[o].kind = "create" /\ ops[o].status = "running"
                                     /\ ops[o].draft = d /\ docs[d].lease = o
    BY DEF NoOrphanDraft
  <2>1. PICK o \in Ops : o = docs[d].lease /\ ops[o].kind = "create"
    BY DEF LeaseInv, DocumentShape
  <2>2. ops[o].draft = d /\ ops[o].status \in Active
    BY <2>1, TypedOK, HolderFacts, Statuses DEF Patch
  <2>3. ops[o].status = "running"
    BY <2>1, <2>2 DEF LeaseInv, OperationShape
  <2> QED
    BY <2>1, <2>2, <2>3
<1> QED
  BY <1>1, Invariance, LeaseInvariance, PTL

\* An open proposal applies to the document as it is.
THEOREM ProposalsApply == Spec => []ProposalsCurrent
<1>1. IInv /\ LeaseInv => ProposalsCurrent
  <2> SUFFICES ASSUME IInv, LeaseInv, NEW o \in Ops,
                      ops[o].kind \in {"edit", "continue"}, ops[o].status \in Active
               PROVE  Exists(ops[o].doc) /\ ops[o].base = docs[ops[o].doc].version
    BY DEF ProposalsCurrent
  <2>1. OperationShape(o) /\ OperationOK(o)
    BY DEF IInv, LeaseInv
  <2>2. ops[o].doc # Null /\ ops[o].status \in Rows
    BY <2>1, IdsAssumption, Statuses DEF OperationOK, AllDocs
  <2> QED
    BY <2>1, <2>2 DEF OperationShape, Patch
<1> QED
  BY <1>1, Invariance, LeaseInvariance, PTL

\* The timer, the end of a run and recovery can always end what is open: the
\* transition is legal and the draft is one they may remove.
THEOREM AlwaysSettleable == Spec => []Settleable
<1>1. IInv /\ LeaseInv => Settleable
  <2> SUFFICES ASSUME IInv, LeaseInv, NEW o \in Ops
               PROVE  /\ ops[o].status \in Active => CanMove(ops[o].status, "cancelled")
                      /\ ops[o].status \in Building /\ ops[o].expires =>
                            CanMove(ops[o].status, "expired")
                      /\ ops[o].kind = "create" /\ ops[o].status \in Active =>
                            DraftRemovable(o)
    BY DEF Settleable
  <2>1. OperationShape(o)
    BY DEF LeaseInv
  <2>2. ops[o].status \in Active => ops[o].status \in {"running", "awaiting_review"}
    BY <2>1 DEF OperationShape
  <2>3. ops[o].status \in Building => ops[o].status = "running"
    BY <2>2, Statuses
  <2>4. /\ CanMove("running", "cancelled") /\ CanMove("running", "expired")
        /\ CanMove("awaiting_review", "cancelled")
    BY DEF CanMove, Transitions
  <2>5. ASSUME ops[o].kind = "create", ops[o].status \in Active PROVE DraftRemovable(o)
    BY <2>5, TypedOK, DraftFacts DEF DraftRemovable, Absent
  <2> QED
    BY <2>2, <2>3, <2>4, <2>5
<1> QED
  BY <1>1, Invariance, LeaseInvariance, PTL

\* A finished operation is never reopened.
THEOREM FinishedStays == Spec => Finality
<1>1. IInv /\ LeaseInv /\ [Next]_vars =>
        [\A o \in Ops : ops[o].status \in Terminal =>
            \/ ops'[o] = ops[o]
            \/ ops'[o].status = "gone"
            \/ ops[o].status = "conflicted" /\ ops'[o].status = "cancelled"]_vars
  BY LeaseNext DEF LeaseStep, FinalStep
<1> QED
  BY <1>1, Invariance, LeaseInvariance, PTL DEF Spec, Finality

\* Whoever advances a document conflicts what is open on an older version.
THEOREM AdvanceConflicts == Spec => ConflictsWithAdvance
<1>1. IInv /\ LeaseInv /\ [Next]_vars =>
        [\A d \in AllDocs : docs'[d].version > docs[d].version =>
            \A o \in Ops : ops'[o].status \in Active /\ ops'[o].doc = d =>
                ops'[o].base = docs'[d].version]_vars
  BY LeaseNext DEF LeaseStep, AdvanceOutdates
<1> QED
  BY <1>1, Invariance, LeaseInvariance, PTL DEF Spec, ConflictsWithAdvance
=============================================================================
