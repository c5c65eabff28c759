------------------------ MODULE DocumentKernelProofs ------------------------
(***************************************************************************)
(* Theorems about DocumentKernel, for any documents, operations and runs   *)
(* and any bounds.                                                         *)
(***************************************************************************)
EXTENDS DocumentKernel, TLAPS

(***************************************************************************)
(* Types of the rows                                                       *)
(***************************************************************************)

DocRow == [status : {"absent", "draft", "active"}, version : Nat,
           lease : Ops \cup Runs \cup {Null}, trashed : BOOLEAN]
Version == [by : Writers, basis : Nat]
OpRow == [status : Rows \cup {"none", "planned", "gone"},
          kind : Kinds \cup {"none"}, run : Runs \cup {Null},
          doc : AllDocs \cup {Null}, draft : Drafts \cup {Null},
          base : Nat \cup {Null}, rev : Nat, expires : BOOLEAN,
          pending : Nat, applied : Nat]
Command == [op : Ops \cup {Null}, type : Types \cup {"idle"},
            rev : Nat, basis : Nat, items : Nat]

\* A queued command belongs to the queue of its operation, has not read a
\* later revision than the operation has, and as long as the revision is the
\* one it read, what its handler made sure of still holds.
CommandOK(d) ==
    LET c == cmds[d]
    IN  c.op # Null =>
            /\ ops[c.op].status \in Rows \cup {"gone"}
            /\ ops[c.op].status \in Rows =>
                /\ Key(c.op) = d
                /\ c.rev =< ops[c.op].rev
                /\ c.rev = ops[c.op].rev =>
                    /\ c.type \in {"item.accept", "item.reject"} => ops[c.op].pending > 0
                    /\ c.type \in {"stream.begin", "stream.append", "stream.commit"} =>
                            ops[c.op].kind = "create"

\* An operation names its document, or its draft, by its kind.
OperationOK(o) ==
    /\ ops[o].kind = "create" => /\ ops[o].draft \in Drafts
                                 /\ ops[o].doc \in {Null, ops[o].draft}
    /\ ops[o].status \in Rows \cup {"planned"} /\ ops[o].kind # "create" =>
            ops[o].doc \in AllDocs

\* A row that does not exist has no version and nobody holds it.
DocumentOK(d) == docs[d].status = "absent" => docs[d] = Absent

\* The version log, and what keeps it: neither TypeOK nor VersionLog is
\* inductive without the facts about the commands that wait.
IInv ==
    /\ TypeOK
    /\ \A d \in AllDocs : CommandOK(d)
    /\ \A o \in Ops : OperationOK(o)
    /\ \A d \in AllDocs : DocumentOK(d)
    /\ VersionLog
    /\ NoLostUpdate

(***************************************************************************)
(* What the helpers return                                                 *)
(***************************************************************************)

\* TypeOK, row by row.
LEMMA Rows_ ==
    TypeOK <=> /\ docs \in [AllDocs -> DocRow]
               /\ history \in [AllDocs -> Seq(Version)]
               /\ ops \in [Ops -> OpRow]
               /\ cmds \in [AllDocs -> Command]
               /\ sync \in [Docs -> Nat]
               /\ runs \in [Runs -> {"new", "live", "ended"}]
               /\ drafting \in [Runs -> AllDocs \cup {Null}]
BY DEF TypeOK, DocRow, Version, OpRow, Command

\* Free changes nothing but leases, and those only to Null.
LEMMA FreeFacts ==
    ASSUME NEW D \in [AllDocs -> DocRow], NEW S
    PROVE  /\ Free(D, S) \in [AllDocs -> DocRow]
           /\ \A d \in AllDocs :
                /\ Free(D, S)[d].version = D[d].version
                /\ Free(D, S)[d].status = D[d].status
                /\ Free(D, S)[d].trashed = D[d].trashed
                /\ Free(D, S)[d].lease = IF D[d].lease \in S THEN Null ELSE D[d].lease
                /\ D[d].lease = Null => Free(D, S)[d] = D[d]
<1>1. \A d \in AllDocs : D[d] \in DocRow
  OBVIOUS
<1>2. \A d \in AllDocs :
        Free(D, S)[d] = IF D[d].lease \in S THEN [D[d] EXCEPT !.lease = Null] ELSE D[d]
  BY DEF Free
<1>3. \A d \in AllDocs :
        D[d].lease = Null => Free(D, S)[d] = D[d]
  BY <1>1, <1>2 DEF DocRow
<1>4. \A d \in AllDocs : Free(D, S)[d] \in DocRow
  <2>1. \A row \in DocRow : [row EXCEPT !.lease = Null] \in DocRow
    BY DEF DocRow
  <2> QED
    BY <1>1, <1>2, <2>1
<1>5. Free(D, S) \in [AllDocs -> DocRow]
  BY <1>4 DEF Free
<1> QED
  BY <1>1, <1>2, <1>3, <1>5 DEF DocRow

\* Deleting the documents of S leaves nothing of them and the others alone.
LEMMA WithoutFacts ==
    ASSUME NEW D \in [AllDocs -> DocRow], NEW S,
           history \in [AllDocs -> Seq(Version)]
    PROVE  /\ DocsWithout(D, S) \in [AllDocs -> DocRow]
           /\ HistoryWithout(S) \in [AllDocs -> Seq(Version)]
           /\ \A d \in AllDocs :
                /\ d \in S => DocsWithout(D, S)[d] = Absent /\ HistoryWithout(S)[d] = << >>
                /\ d \notin S => /\ DocsWithout(D, S)[d] = D[d]
                                 /\ HistoryWithout(S)[d] = history[d]
<1>1. Absent \in DocRow
  BY DEF Absent, DocRow
<1> QED
  BY <1>1 DEF DocsWithout, HistoryWithout

\* A mutation keeps what an operation is about and raises its revision.
LEMMA MoveFacts ==
    ASSUME NEW op \in OpRow, NEW s \in Rows
    PROVE  /\ Move(op, s) \in OpRow
           /\ Move(op, s).status = s
           /\ Move(op, s).rev = op.rev + 1
           /\ Move(op, s).kind = op.kind
           /\ Move(op, s).doc = op.doc
           /\ Move(op, s).draft = op.draft
<1>1. op.rev \in Nat /\ op.rev + 1 \in Nat
  BY DEF OpRow
<1>2. Move(op, s) \in OpRow
  BY <1>1 DEF Move, OpRow
<1>3. Move(op, s).status = s /\ Move(op, s).rev = op.rev + 1
  BY DEF Move, OpRow
<1>4. /\ Move(op, s).kind = op.kind
      /\ Move(op, s).doc = op.doc
      /\ Move(op, s).draft = op.draft
  BY DEF Move, OpRow
<1> QED
  BY <1>2, <1>3, <1>4

\* A deleted operation row is no row of any kind.
LEMMA GoneFacts ==
    ASSUME NEW op \in OpRow
    PROVE  /\ Gone(op) \in OpRow
           /\ Gone(op).status = "gone"
           /\ Gone(op).kind = "none"
BY DEF Gone, Blank, OpRow

(***************************************************************************)
(* What a step may do to one document and to one operation                 *)
(***************************************************************************)

\* One document, seen as a register: its lease is taken or given back, a
\* version follows the current one, or the document is deleted.
Keeps(d) == docs'[d].version = docs[d].version /\ history'[d] = history[d]
DocStep(d) ==
    \/ Keeps(d) /\ docs'[d].lease = docs[d].lease
    \/ Keeps(d) /\ docs'[d].lease = Null
    \/ Keeps(d) /\ docs[d].lease = Null /\ docs'[d].lease \in Writers
    \/ /\ docs'[d].version = docs[d].version + 1
       /\ \E w \in Writers :
            /\ docs[d].lease \in {Null, w}
            /\ history'[d] = Append(history[d], [by |-> w, basis |-> docs[d].version])
       /\ docs'[d].lease \in {Null, docs[d].lease}
    \/ docs'[d] = Absent /\ history'[d] = << >>

\* One operation: left alone, deleted, not a row before, or moved on.
OpStep(o) ==
    \/ ops'[o] = ops[o]
    \/ ops'[o].status = "gone"
    \/ ops[o].status \notin Rows \cup {"gone"}
    \/ /\ ops[o].status \in Rows /\ ops'[o].status \in Rows
       /\ ops'[o].rev > ops[o].rev
       /\ Key(o)' = Key(o)

\* The two invariants about versions follow from what a step may do.
LEMMA LogStep ==
    ASSUME IInv, TypeOK', \A d \in AllDocs : DocStep(d)
    PROVE  VersionLog' /\ NoLostUpdate'
<1> SUFFICES ASSUME NEW d \in AllDocs
             PROVE  /\ docs'[d].version = Len(history'[d])
                    /\ \A n \in DOMAIN history'[d] : history'[d][n].basis = n - 1
  BY DEF VersionLog, NoLostUpdate
<1>1. /\ history[d] \in Seq(Version)
      /\ docs[d].version = Len(history[d])
      /\ \A n \in DOMAIN history[d] : history[d][n].basis = n - 1
  BY Rows_ DEF IInv, VersionLog, NoLostUpdate
<1>2. CASE Keeps(d)
  BY <1>1, <1>2 DEF Keeps
<1>3. CASE docs'[d] = Absent /\ history'[d] = << >>
  BY <1>3 DEF Absent
<1>4. ASSUME docs'[d].version = docs[d].version + 1,
             NEW w \in Writers,
             history'[d] = Append(history[d], [by |-> w, basis |-> docs[d].version])
      PROVE  /\ docs'[d].version = Len(history'[d])
             /\ \A n \in DOMAIN history'[d] : history'[d][n].basis = n - 1
  <2> DEFINE x == [by |-> w, basis |-> docs[d].version]
  <2>1. x \in Version
    BY <1>1 DEF Version
  <2>2. /\ Len(history'[d]) = Len(history[d]) + 1
        /\ DOMAIN history'[d] = 1..Len(history[d]) + 1
        /\ \A n \in 1..Len(history[d]) : history'[d][n] = history[d][n]
        /\ history'[d][Len(history[d]) + 1] = x
    BY <1>1, <1>4, <2>1
  <2> QED
    BY <1>1, <1>4, <2>2
<1> QED
  BY <1>2, <1>3, <1>4 DEF DocStep

\* A queued command stays in order whatever happens to its operation.
LEMMA CommandStep ==
    ASSUME IInv, TypeOK',
           \A o \in Ops : OpStep(o),
           \A d \in AllDocs : cmds'[d] = cmds[d] \/ cmds'[d] = Idle
    PROVE  \A d \in AllDocs : CommandOK(d)'
<1> SUFFICES ASSUME NEW d \in AllDocs, cmds'[d].op # Null
             PROVE  CommandOK(d)'
  BY DEF CommandOK
<1> DEFINE c == cmds[d]
<1>1. cmds'[d] = c /\ c \in Command /\ c.op \in Ops /\ CommandOK(d)
  BY Rows_ DEF IInv, Command, Idle
<1>2. /\ ops[c.op] \in OpRow /\ ops'[c.op] \in OpRow
      /\ OpStep(c.op)
  BY <1>1 DEF IInv, TypeOK, OpRow
<1>3. ops[c.op].status \in Rows \cup {"gone"}
  BY <1>1 DEF CommandOK
<1>4. "gone" \notin Rows
  BY DEF Rows, Active, Building, Terminal
<1>5. CASE ops'[c.op] = ops[c.op]
  BY <1>1, <1>5 DEF CommandOK, Key
<1>6. CASE ops'[c.op].status = "gone"
  BY <1>1, <1>4, <1>6 DEF CommandOK
<1>7. CASE /\ ops[c.op].status \in Rows /\ ops'[c.op].status \in Rows
           /\ ops'[c.op].rev > ops[c.op].rev
           /\ Key(c.op)' = Key(c.op)
  <2>1. c.rev =< ops[c.op].rev /\ Key(c.op) = d
    BY <1>1, <1>7 DEF CommandOK
  <2>2. ops[c.op].rev \in Nat /\ ops'[c.op].rev \in Nat /\ c.rev \in Nat
    BY <1>1, <1>2 DEF OpRow, Command
  <2>3. c.rev < ops'[c.op].rev
    BY <1>7, <2>1, <2>2
  <2>4. Key(c.op)' = d
    BY <1>7, <2>1
  <2> QED
    BY <1>1, <1>7, <2>2, <2>3, <2>4 DEF CommandOK, Key
<1> QED
  BY <1>2, <1>3, <1>5, <1>6, <1>7 DEF OpStep

\* An operation that is moved to another status of a row.
LEMMA MovedOp ==
    ASSUME IInv, NEW o \in Ops, NEW s \in Rows,
           ops[o].status \in Rows \cup {"planned"},
           ops'[o] = Move(ops[o], s)
    PROVE  OpStep(o) /\ OperationOK(o)'
<1>1. ops[o] \in OpRow /\ OperationOK(o)
  BY Rows_ DEF IInv
<1>2. /\ ops'[o].status = s /\ ops'[o].rev = ops[o].rev + 1
      /\ ops'[o].kind = ops[o].kind /\ ops'[o].doc = ops[o].doc
      /\ ops'[o].draft = ops[o].draft
  BY <1>1, MoveFacts
<1>3. OperationOK(o)'
  BY <1>1, <1>2 DEF OperationOK
<1>4. Key(o)' = Key(o)
  BY <1>2 DEF Key
<1>5. ops'[o].rev > ops[o].rev
  BY <1>1, <1>2 DEF OpRow
<1>6. "planned" \notin Rows \cup {"gone"}
  BY DEF Rows, Active, Building, Terminal
<1> QED
  BY <1>2, <1>3, <1>4, <1>5, <1>6 DEF OpStep

\* An operation deleted with its document.
LEMMA GoneOp ==
    ASSUME NEW o \in Ops, NEW op \in OpRow, ops'[o] = Gone(op)
    PROVE  OpStep(o) /\ OperationOK(o)'
<1>1. "gone" \notin Rows \cup {"planned"}
  BY DEF Rows, Active, Building, Terminal
<1>2. ops'[o].status = "gone" /\ ops'[o].kind = "none"
  BY GoneFacts
<1> QED
  BY <1>1, <1>2 DEF OpStep, OperationOK

\* An operation left as it is.
LEMMA SameOp ==
    ASSUME IInv, NEW o \in Ops, ops'[o] = ops[o]
    PROVE  OpStep(o) /\ OperationOK(o)'
BY DEF IInv, OpStep, OperationOK

\* A document left as it is.
LEMMA SameDoc ==
    ASSUME IInv, NEW d \in AllDocs, docs'[d] = docs[d], history'[d] = history[d]
    PROVE  DocStep(d) /\ DocumentOK(d)'
BY DEF IInv, DocStep, Keeps, DocumentOK

\* A document whose lease may have been freed and nothing else.
LEMMA FreedDoc ==
    ASSUME IInv, NEW d \in AllDocs, NEW S,
           docs'[d] = Free(docs, S)[d], history'[d] = history[d]
    PROVE  DocStep(d) /\ DocumentOK(d)'
<1>1. docs \in [AllDocs -> DocRow] /\ DocumentOK(d)
  BY Rows_ DEF IInv
<1>2. /\ docs'[d].version = docs[d].version
      /\ docs'[d].status = docs[d].status
      /\ docs'[d].lease \in {Null, docs[d].lease}
      /\ docs[d].lease = Null => docs'[d] = docs[d]
  BY <1>1, FreeFacts
<1>3. ASSUME docs'[d].status = "absent" PROVE docs'[d] = Absent
  <2>1. docs[d] = Absent
    BY <1>1, <1>2, <1>3 DEF DocumentOK
  <2>2. docs[d].lease = Null
    BY <2>1 DEF Absent
  <2> QED
    BY <1>2, <2>1, <2>2
<1>4. DocumentOK(d)'
  BY <1>3 DEF DocumentOK, Absent
<1> QED
  BY <1>2, <1>4 DEF DocStep, Keeps

\* A document deleted with its versions.
LEMMA ErasedDoc ==
    ASSUME NEW d \in AllDocs, docs'[d] = Absent, history'[d] = << >>
    PROVE  DocStep(d) /\ DocumentOK(d)'
BY DEF DocStep, DocumentOK

DocSteps == \A d \in AllDocs : DocStep(d)

\* What every action makes sure of; the rest of IInv follows from it.
StepOK ==
    /\ TypeOK'
    /\ \A d \in AllDocs : DocStep(d) /\ DocumentOK(d)'
    /\ \A o \in Ops : OpStep(o) /\ OperationOK(o)'

\* A step that makes sure of StepOK and queues no command preserves IInv.
LEMMA StepPreserves ==
    ASSUME IInv, StepOK,
           \A d \in AllDocs : cmds'[d] = cmds[d] \/ cmds'[d] = Idle
    PROVE  IInv' /\ DocSteps
BY LogStep, CommandStep DEF StepOK, IInv, DocSteps

(***************************************************************************)
(* The operations of a batch: conflicted, deleted with their documents     *)
(***************************************************************************)

\* The conflict pass moves the operations of S and no others.
LEMMA ConflictedFacts ==
    ASSUME NEW O \in [Ops -> OpRow], NEW S
    PROVE  /\ Conflicted(O, S) \in [Ops -> OpRow]
           /\ \A o \in Ops :
                Conflicted(O, S)[o] = IF o \in S THEN Move(O[o], "conflicted") ELSE O[o]
<1>1. "conflicted" \in Rows
  BY DEF Rows, Active, Building, Terminal
<1>2. \A o \in Ops : Move(O[o], "conflicted") \in OpRow
  BY <1>1, MoveFacts
<1> QED
  BY <1>2 DEF Conflicted

\* The foreign key deletes an operation or leaves it alone.
LEMMA OpsWithoutFacts ==
    ASSUME NEW O \in [Ops -> OpRow], NEW S
    PROVE  /\ OpsWithout(O, S) \in [Ops -> OpRow]
           /\ \A o \in Ops : OpsWithout(O, S)[o] \in {O[o], Gone(O[o])}
<1>1. \A o \in Ops : Gone(O[o]) \in OpRow
  BY GoneFacts
<1> QED
  BY <1>1 DEF OpsWithout

\* The conflict pass, as far as operations are concerned.
LEMMA ConflictPass ==
    ASSUME IInv, NEW d, NEW v, NEW x,
           ops' = Conflicted(ops, Rivals(d, v, x))
    PROVE  /\ ops' \in [Ops -> OpRow]
           /\ \A o \in Ops : OpStep(o) /\ OperationOK(o)'
<1>1. ops \in [Ops -> OpRow]
  BY Rows_ DEF IInv
<1>2. \A o \in Rivals(d, v, x) : ops[o].status \in Rows
  BY DEF Rivals, Rows
<1>3. "conflicted" \in Rows
  BY DEF Rows, Terminal
<1>4. ASSUME NEW o \in Ops PROVE OpStep(o) /\ OperationOK(o)'
  <2>1. CASE o \in Rivals(d, v, x)
    <3>1. ops'[o] = Move(ops[o], "conflicted")
      BY <1>1, <2>1, ConflictedFacts
    <3> QED
      BY <1>2, <1>3, <2>1, <3>1, MovedOp
  <2>2. CASE o \notin Rivals(d, v, x)
    BY <1>1, <2>2, ConflictedFacts, SameOp
  <2> QED
    BY <2>1, <2>2
<1> QED
  BY <1>1, <1>4, ConflictedFacts

(***************************************************************************)
(* Documents and external synchronisation                                  *)
(***************************************************************************)

\* Importing a document writes the first version of an empty log.
LEMMA ImportStep ==
    ASSUME IInv, NEW d \in Docs, Import(d)
    PROVE  IInv' /\ DocSteps
<1> USE DEF Import
<1>1. docs \in [AllDocs -> DocRow] /\ history \in [AllDocs -> Seq(Version)] /\ d \in AllDocs
  BY Rows_ DEF IInv, AllDocs
<1>2. docs[d] = Absent /\ VersionLog
  BY <1>1 DEF IInv, DocumentOK, Exists
<1>3. docs[d].version = 0 /\ docs[d].lease = Null
  BY <1>2 DEF Absent
<1>4. Len(history[d]) = 0 /\ history[d] = << >>
  BY <1>1, <1>2, <1>3 DEF VersionLog
<1> DEFINE v == [by |-> User, basis |-> 0]
<1>5. v \in Version /\ User \in Writers
  BY DEF Version, Writers
<1>6. [Absent EXCEPT !.status = "active", !.version = 1] \in DocRow
  BY DEF Absent, DocRow
<1>7. TypeOK'
  <2>1. docs' \in [AllDocs -> DocRow] /\ history' \in [AllDocs -> Seq(Version)]
    BY <1>1, <1>5, <1>6
  <2> QED
    BY <2>1, Rows_ DEF IInv, TypeOK, DocRow, Version
<1>8. ASSUME NEW e \in AllDocs PROVE DocStep(e) /\ DocumentOK(e)'
  <2>1. CASE e = d
    <3>1. /\ docs'[d].version = 1 /\ docs'[d].status = "active" /\ docs'[d].lease = Null
          /\ history'[d] = << v >>
      BY <1>1 DEF Absent
    <3>2. history'[d] = Append(history[d], v)
      BY <1>4, <3>1
    <3> QED
      BY <1>3, <1>5, <2>1, <3>1, <3>2 DEF DocStep, DocumentOK
  <2>2. CASE e # d
    BY <1>1, <2>2, SameDoc
  <2> QED
    BY <2>1, <2>2
<1> QED
  BY <1>7, <1>8, SameOp, StepPreserves DEF StepOK

\* The commit of a version nobody's operation wrote.
LEMMA AdvanceStep ==
    ASSUME IInv, NEW d \in AllDocs, NEW b, Writable(d), Advance(d, b),
           sync' \in [Docs -> Nat], UNCHANGED <<cmds, runs, drafting>>
    PROVE  IInv' /\ DocSteps
<1>1. /\ docs \in [AllDocs -> DocRow] /\ history \in [AllDocs -> Seq(Version)]
      /\ docs[d] \in DocRow /\ b = docs[d].version /\ b \in Nat /\ b + 1 \in Nat
  BY Rows_ DEF IInv, DocRow, Advance
<1>2. docs[d].lease = Null /\ docs[d].status # "absent"
  BY DEF Writable, Exists
<1> DEFINE D == [docs EXCEPT ![d].version = b + 1]
           S == Rivals(d, b + 1, Null)
           v == [by |-> User, basis |-> b]
<1>3. User \in Writers /\ v \in Version
  BY <1>1 DEF Writers, Version
<1>4. D \in [AllDocs -> DocRow]
  <2>1. [docs[d] EXCEPT !.version = b + 1] \in DocRow
    BY <1>1 DEF DocRow
  <2> QED
    BY <1>1, <2>1
<1>5. /\ docs' = Free(D, S) /\ ops' = Conflicted(ops, S)
      /\ history' = [history EXCEPT ![d] = Append(@, v)]
  BY DEF Advance
<1> HIDE DEF D, S
<1>6. TypeOK'
  <2>1. docs' \in [AllDocs -> DocRow]
    BY <1>4, <1>5, FreeFacts
  <2>2. history' \in [AllDocs -> Seq(Version)]
    BY <1>1, <1>3, <1>5
  <2>3. ops' \in [Ops -> OpRow]
    BY <1>5, ConflictPass DEF S
  <2> QED
    BY <2>1, <2>2, <2>3, Rows_ DEF IInv, TypeOK, DocRow, Version, OpRow
<1>7. ASSUME NEW e \in AllDocs PROVE DocStep(e) /\ DocumentOK(e)'
  <2>1. CASE e = d
    <3>1. D[d].version = b + 1 /\ D[d].lease = Null /\ D[d].status # "absent"
      BY <1>1, <1>2 DEF D, DocRow
    <3>2. docs'[d] = D[d]
      BY <1>4, <1>5, <3>1, FreeFacts
    <3>3. history'[d] = Append(history[d], v)
      BY <1>1, <1>5
    <3> QED
      BY <1>1, <1>2, <1>3, <2>1, <3>1, <3>2, <3>3 DEF DocStep, DocumentOK
  <2>2. CASE e # d
    <3>1. D[e] = docs[e] /\ history'[e] = history[e]
      BY <1>1, <1>5, <2>2 DEF D
    <3>2. docs'[e] = Free(docs, S)[e]
      BY <1>5, <3>1 DEF Free
    <3> QED
      BY <3>1, <3>2, FreedDoc
  <2> QED
    BY <2>1, <2>2
<1>8. \A o \in Ops : OpStep(o) /\ OperationOK(o)'
  BY <1>5, ConflictPass DEF S
<1> QED
  BY <1>6, <1>7, <1>8, StepPreserves DEF StepOK

\* Steps that change no operation, no version and no lease.
LEMMA TrashStep ==
    ASSUME IInv, NEW d \in AllDocs, Trash(d) \/ Restore(d)
    PROVE  IInv' /\ DocSteps
<1>1. docs \in [AllDocs -> DocRow] /\ docs[d] \in DocRow
  BY Rows_ DEF IInv
<1>2. PICK t \in BOOLEAN : docs' = [docs EXCEPT ![d].trashed = t]
  BY DEF Trash, Restore
<1>3. UNCHANGED <<history, ops, cmds, sync, runs, drafting>>
  BY DEF Trash, Restore
<1>4. docs[d].status # "absent"
  <2>1. CASE Trash(d)
    BY <2>1 DEF Trash, Writable, Exists
  <2>2. CASE Restore(d)
    BY <2>2 DEF Restore, IInv, DocumentOK, Absent
  <2> QED
    BY <2>1, <2>2
<1>5. [docs[d] EXCEPT !.trashed = t] \in DocRow
  BY <1>1 DEF DocRow
<1>6. docs' \in [AllDocs -> DocRow]
  BY <1>1, <1>2, <1>5
<1>7. TypeOK'
  BY <1>3, <1>6, Rows_ DEF IInv, TypeOK, DocRow
<1>8. ASSUME NEW e \in AllDocs PROVE DocStep(e) /\ DocumentOK(e)'
  <2>1. CASE e = d
    <3>1. /\ docs'[d].version = docs[d].version
          /\ docs'[d].status = docs[d].status
          /\ docs'[d].lease = docs[d].lease
      BY <1>1, <1>2 DEF DocRow
    <3> QED
      BY <1>3, <1>4, <2>1, <3>1 DEF DocStep, Keeps, DocumentOK
  <2>2. CASE e # d
    BY <1>1, <1>2, <1>3, <2>2, SameDoc
  <2> QED
    BY <2>1, <2>2
<1> QED
  BY <1>3, <1>7, <1>8, SameOp, StepPreserves DEF StepOK

\* Permanent deletion, of one document or of all in the trash.
LEMMA DeleteStep ==
    ASSUME IInv, NEW S, Delete(S)
    PROVE  IInv' /\ DocSteps
<1> USE DEF Delete
<1>1. /\ docs \in [AllDocs -> DocRow] /\ history \in [AllDocs -> Seq(Version)]
      /\ ops \in [Ops -> OpRow]
  BY Rows_ DEF IInv
<1>2. TypeOK'
  <2>1. docs' \in [AllDocs -> DocRow] /\ history' \in [AllDocs -> Seq(Version)]
    BY <1>1, WithoutFacts
  <2>2. ops' \in [Ops -> OpRow]
    BY <1>1, OpsWithoutFacts
  <2> QED
    BY <2>1, <2>2, Rows_ DEF IInv, TypeOK, DocRow, Version, OpRow
<1>3. ASSUME NEW e \in AllDocs PROVE DocStep(e) /\ DocumentOK(e)'
  <2>1. CASE e \in S
    BY <1>1, <2>1, WithoutFacts, ErasedDoc
  <2>2. CASE e \notin S
    BY <1>1, <2>2, WithoutFacts, SameDoc
  <2> QED
    BY <2>1, <2>2
<1>4. ASSUME NEW o \in Ops PROVE OpStep(o) /\ OperationOK(o)'
  BY <1>1, OpsWithoutFacts, SameOp, GoneOp
<1> QED
  BY <1>2, <1>3, <1>4, StepPreserves DEF StepOK

\* The conflict pass that precedes an external save writes no version.
LEMMA SyncBeginStep ==
    ASSUME IInv, NEW d \in Docs, NEW changed \in BOOLEAN, SyncBegin(d, changed)
    PROVE  IInv' /\ DocSteps
<1> DEFINE S == IF changed THEN Rivals(d, docs[d].version + 1, Null) ELSE {}
<1>1. /\ docs \in [AllDocs -> DocRow] /\ ops \in [Ops -> OpRow] /\ sync \in [Docs -> Nat]
      /\ d \in AllDocs
  BY Rows_ DEF IInv, AllDocs
<1>2. /\ docs' = Free(docs, S) /\ ops' = Conflicted(ops, S)
      /\ sync' = [sync EXCEPT ![d] = docs[d].version]
      /\ UNCHANGED <<history, cmds, runs, drafting>>
  BY DEF SyncBegin
<1>3. ops' \in [Ops -> OpRow] /\ \A o \in Ops : OpStep(o) /\ OperationOK(o)'
  <2>1. CASE changed
    BY <1>2, <2>1, ConflictPass
  <2>2. CASE ~changed
    <3>1. S = {} /\ ops' = Conflicted(ops, {})
      BY <1>2, <2>2
    <3> HIDE DEF S
    <3>2. \A o \in Ops : ops'[o] = ops[o]
      BY <1>1, <3>1, ConflictedFacts
    <3>3. ops' \in [Ops -> OpRow]
      BY <1>1, <3>1, ConflictedFacts
    <3> QED
      BY <3>2, <3>3, SameOp
  <2> QED
    BY <2>1, <2>2
<1> HIDE DEF S
<1>4. TypeOK'
  <2>1. docs' \in [AllDocs -> DocRow]
    BY <1>1, <1>2, FreeFacts
  <2>2. sync' \in [Docs -> Nat]
    BY <1>1, <1>2 DEF DocRow
  <2> QED
    BY <1>2, <1>3, <2>1, <2>2, Rows_ DEF IInv, TypeOK, DocRow, OpRow
<1>5. ASSUME NEW e \in AllDocs PROVE DocStep(e) /\ DocumentOK(e)'
  BY <1>2, FreedDoc
<1> QED
  BY <1>2, <1>3, <1>4, <1>5, StepPreserves DEF StepOK

(***************************************************************************)
(* Runs and the operations they begin                                      *)
(***************************************************************************)

\* A dispatch marks a document only if nobody holds it.
LEMMA DraftBeginStep ==
    ASSUME IInv, NEW r \in Runs, NEW d \in AllDocs, DraftBegin(r, d)
    PROVE  IInv' /\ DocSteps
<1>1. docs \in [AllDocs -> DocRow] /\ docs[d] \in DocRow
      /\ drafting \in [Runs -> AllDocs \cup {Null}]
  BY Rows_ DEF IInv
<1> DEFINE l == IF docs[d].lease = Null THEN r ELSE docs[d].lease
<1>2. /\ docs' = [docs EXCEPT ![d].lease = l]
      /\ drafting' = [drafting EXCEPT ![r] = d]
      /\ UNCHANGED <<history, ops, cmds, sync, runs>>
      /\ docs[d].status # "absent"
  BY <1>1 DEF DraftBegin, Exists
<1>3. [docs[d] EXCEPT !.lease = l] \in DocRow
  BY <1>1 DEF DocRow
<1>4. docs' \in [AllDocs -> DocRow] /\ drafting' \in [Runs -> AllDocs \cup {Null}]
  BY <1>1, <1>2, <1>3
<1>5. TypeOK'
  BY <1>2, <1>4, Rows_ DEF IInv, TypeOK, DocRow
<1>6. ASSUME NEW e \in AllDocs PROVE DocStep(e) /\ DocumentOK(e)'
  <2>1. CASE e = d
    <3>1. /\ docs'[d].version = docs[d].version
          /\ docs'[d].status = docs[d].status
          /\ docs'[d].lease = l
      BY <1>1, <1>2 DEF DocRow
    <3>2. r \in Writers
      BY DEF Writers
    <3> QED
      BY <1>2, <2>1, <3>1, <3>2 DEF DocStep, Keeps, DocumentOK
  <2>2. CASE e # d
    BY <1>1, <1>2, <2>2, SameDoc
  <2> QED
    BY <2>1, <2>2
<1> QED
  BY <1>2, <1>5, <1>6, SameOp, StepPreserves DEF StepOK

\* The end of a dispatch frees what a run marked and nothing else.
LEMMA DraftEndStep ==
    ASSUME IInv, NEW r \in Runs, DraftEnd(r)
    PROVE  IInv' /\ DocSteps
<1>0. PICK d \in AllDocs : d = drafting[r]
  BY Rows_ DEF IInv, DraftEnd
<1> DEFINE l == IF docs[d].lease \in Runs THEN Null ELSE docs[d].lease
<1>1. /\ docs \in [AllDocs -> DocRow] /\ drafting \in [Runs -> AllDocs \cup {Null}]
      /\ docs[d] \in DocRow
  BY Rows_ DEF IInv
<1>2. /\ docs' = [docs EXCEPT ![d].lease = l]
      /\ drafting' = [drafting EXCEPT ![r] = Null]
      /\ UNCHANGED <<history, ops, cmds, sync, runs>>
  BY <1>0 DEF DraftEnd
<1>3. [docs[d] EXCEPT !.lease = l] \in DocRow
  BY <1>1 DEF DocRow
<1>4. docs' \in [AllDocs -> DocRow] /\ drafting' \in [Runs -> AllDocs \cup {Null}]
  BY <1>1, <1>2, <1>3
<1>5. TypeOK'
  BY <1>2, <1>4, Rows_ DEF IInv, TypeOK, DocRow
<1>6. ASSUME NEW e \in AllDocs PROVE DocStep(e) /\ DocumentOK(e)'
  <2>1. CASE e = d
    <3>1. /\ docs'[d].version = docs[d].version
          /\ docs'[d].status = docs[d].status
          /\ docs'[d].lease \in {Null, docs[d].lease}
          /\ docs[d].lease = Null => docs'[d] = docs[d]
      BY <1>1, <1>2 DEF DocRow
    <3>2. ASSUME docs'[d].status = "absent" PROVE docs'[d] = Absent
      <4>1. docs[d] = Absent
        BY <1>1, <3>1, <3>2 DEF IInv, DocumentOK
      <4>2. docs[d].lease = Null
        BY <4>1 DEF Absent
      <4> QED
        BY <3>1, <4>1, <4>2
    <3>3. DocumentOK(d)'
      BY <3>2 DEF DocumentOK, Absent
    <3> QED
      BY <1>2, <2>1, <3>1, <3>3 DEF DocStep, Keeps
  <2>2. CASE e # d
    BY <1>1, <1>2, <2>2, SameDoc
  <2> QED
    BY <2>1, <2>2
<1> QED
  BY <1>2, <1>5, <1>6, SameOp, StepPreserves DEF StepOK

\* A new operation row, or a planned one, in the place of none.
LEMMA NewOp ==
    ASSUME IInv, NEW o \in Ops, ops[o].status \in {"none", "planned"},
           NEW op \in OpRow, ops'[o] = op,
           op.kind = "create" => op.draft \in Drafts /\ op.doc = Null,
           op.kind # "create" => op.doc \in AllDocs
    PROVE  OpStep(o) /\ OperationOK(o)'
<1>1. {"none", "planned"} \cap (Rows \cup {"gone"}) = {}
  BY DEF Rows, Active, Building, Terminal
<1> QED
  BY <1>1 DEF OpStep, OperationOK

\* Beginning an edit or a continuation takes a free lease.
LEMMA BeginPatchStep ==
    ASSUME IInv, NEW o \in Ops, NEW r \in Runs, NEW d \in AllDocs, NEW kind,
           NEW b \in 0..MaxVersion, BeginPatch(o, r, d, kind, b)
    PROVE  IInv' /\ DocSteps
<1> DEFINE op == [Blank EXCEPT !.status = "running", !.kind = kind, !.run = r, !.doc = d,
                               !.base = b, !.rev = 1, !.expires = TRUE]
<1>1. /\ docs \in [AllDocs -> DocRow] /\ docs[d] \in DocRow /\ ops \in [Ops -> OpRow]
  BY Rows_ DEF IInv
<1>2. /\ docs' = [docs EXCEPT ![d].lease = o] /\ ops' = [ops EXCEPT ![o] = op]
      /\ UNCHANGED <<history, cmds, sync, runs, drafting>>
      /\ ops[o].status = "none" /\ kind \in {"edit", "continue"}
      /\ docs[d].lease = Null /\ docs[d].status # "absent"
  BY DEF BeginPatch, Writable, Exists
<1>3. b \in Nat
  BY BoundsAssumption
<1>4. op \in OpRow /\ op.kind = kind /\ op.doc = d
  BY <1>2, <1>3 DEF Blank, OpRow, Rows, Active, Building, Kinds
<1> HIDE DEF op
<1>5. [docs[d] EXCEPT !.lease = o] \in DocRow
  BY <1>1 DEF DocRow
<1>6. docs' \in [AllDocs -> DocRow] /\ ops' \in [Ops -> OpRow]
  BY <1>1, <1>2, <1>4, <1>5
<1>7. TypeOK'
  BY <1>2, <1>6, Rows_ DEF IInv, TypeOK, DocRow, OpRow
<1>8. ASSUME NEW e \in AllDocs PROVE DocStep(e) /\ DocumentOK(e)'
  <2>1. CASE e = d
    <3>1. /\ docs'[d].version = docs[d].version
          /\ docs'[d].status = docs[d].status
          /\ docs'[d].lease = o
      BY <1>1, <1>2 DEF DocRow
    <3>2. o \in Writers
      BY DEF Writers
    <3> QED
      BY <1>2, <2>1, <3>1, <3>2 DEF DocStep, Keeps, DocumentOK
  <2>2. CASE e # d
    BY <1>1, <1>2, <2>2, SameDoc
  <2> QED
    BY <2>1, <2>2
<1>9. ASSUME NEW x \in Ops PROVE OpStep(x) /\ OperationOK(x)'
  <2>1. CASE x = o
    <3>1. ops'[o] = op
      BY <1>1, <1>2
    <3> QED
      BY <1>2, <1>4, <2>1, <3>1, NewOp
  <2>2. CASE x # o
    BY <1>1, <1>2, <2>2, SameOp
  <2> QED
    BY <2>1, <2>2
<1> QED
  BY <1>2, <1>7, <1>8, <1>9, StepPreserves DEF StepOK

\* The beginnings that touch no document.
LEMMA BeginStep ==
    ASSUME IInv, NEW o \in Ops, NEW op \in OpRow,
           ops[o].status = "none", ops' = [ops EXCEPT ![o] = op],
           op.kind = "create" => op.draft \in Drafts /\ op.doc = Null,
           op.kind # "create" => op.doc \in AllDocs,
           UNCHANGED <<docs, history, cmds, sync, runs, drafting>>
    PROVE  IInv' /\ DocSteps
<1>1. ops \in [Ops -> OpRow] /\ ops' \in [Ops -> OpRow]
  BY Rows_ DEF IInv
<1>2. TypeOK'
  BY <1>1, Rows_ DEF IInv, TypeOK, OpRow
<1>3. ASSUME NEW x \in Ops PROVE OpStep(x) /\ OperationOK(x)'
  <2>1. CASE x = o
    <3>1. ops'[o] = op
      BY <1>1
    <3> QED
      BY <2>1, <3>1, NewOp
  <2>2. CASE x # o
    BY <1>1, <2>2, SameOp
  <2> QED
    BY <2>1, <2>2
<1> QED
  BY <1>2, <1>3, SameDoc, StepPreserves DEF StepOK

\* Beginning a creation touches no document yet.
LEMMA BeginCreateStep ==
    ASSUME IInv, NEW o \in Ops, NEW r \in Runs, NEW d \in Drafts, BeginCreate(o, r, d)
    PROVE  IInv' /\ DocSteps
<1> DEFINE op == [Blank EXCEPT !.status = "running", !.kind = "create", !.run = r,
                               !.draft = d, !.rev = 1, !.expires = TRUE]
<1>1. op \in OpRow /\ op.kind = "create" /\ op.draft = d /\ op.doc = Null
  BY DEF Blank, OpRow, Rows, Active, Building, Kinds
<1>2. /\ ops' = [ops EXCEPT ![o] = op] /\ ops[o].status = "none"
      /\ UNCHANGED <<docs, history, cmds, sync, runs, drafting>>
  BY DEF BeginCreate
<1> HIDE DEF op
<1> QED
  BY <1>1, <1>2, BeginStep

\* Planning a selection rewrite touches no document.
LEMMA PlanRewriteStep ==
    ASSUME IInv, NEW o \in Ops, NEW r \in Runs, NEW d \in AllDocs,
           NEW b \in 0..MaxVersion, PlanRewrite(o, r, d, b)
    PROVE  IInv' /\ DocSteps
<1> DEFINE op == [Blank EXCEPT !.status = "planned", !.kind = "rewrite", !.run = r,
                               !.doc = d, !.base = b]
<1>1. b \in Nat
  BY BoundsAssumption
<1>2. op \in OpRow /\ op.kind = "rewrite" /\ op.doc = d
  BY <1>1 DEF Blank, OpRow, Kinds
<1>3. /\ ops' = [ops EXCEPT ![o] = op] /\ ops[o].status = "none"
      /\ UNCHANGED <<docs, history, cmds, sync, runs, drafting>>
  BY DEF PlanRewrite
<1> HIDE DEF op
<1> QED
  BY <1>2, <1>3, BeginStep

\* The row of a planned rewrite is created, or refused by the foreign key.
LEMMA CreateRewriteStep ==
    ASSUME IInv, NEW o \in Ops, CreateRewrite(o)
    PROVE  IInv' /\ DocSteps
<1>1. ops \in [Ops -> OpRow] /\ ops[o] \in OpRow
  BY Rows_ DEF IInv
<1> DEFINE op == IF Exists(ops[o].doc) THEN Move(ops[o], "running") ELSE Gone(ops[o])
<1>2. /\ ops' = [ops EXCEPT ![o] = op] /\ ops[o].status = "planned"
      /\ UNCHANGED <<docs, history, cmds, sync, runs, drafting>>
  BY DEF CreateRewrite
<1>3. "running" \in Rows
  BY DEF Rows, Active, Building
<1>4. op \in OpRow
  BY <1>1, <1>3, MoveFacts, GoneFacts
<1>5. OpStep(o) /\ OperationOK(o)'
  <2>1. ops'[o] \in {Move(ops[o], "running"), Gone(ops[o])}
    BY <1>1, <1>2
  <2> QED
    BY <1>1, <1>2, <1>3, <2>1, MovedOp, GoneOp
<1> HIDE DEF op
<1>6. ops' \in [Ops -> OpRow]
  BY <1>1, <1>2, <1>4
<1>7. TypeOK'
  BY <1>2, <1>6, Rows_ DEF IInv, TypeOK, OpRow
<1>8. ASSUME NEW x \in Ops PROVE OpStep(x) /\ OperationOK(x)'
  BY <1>1, <1>2, <1>5, SameOp
<1> QED
  BY <1>2, <1>7, <1>8, SameDoc, StepPreserves DEF StepOK

(***************************************************************************)
(* Commands                                                                *)
(***************************************************************************)

\* The queue of an operation is that of a document.
LEMMA KeyFacts ==
    ASSUME IInv, NEW o \in Ops, ops[o].status \in Rows, ops[o].kind \in Kinds
    PROVE  Key(o) \in AllDocs
<1>1. ops[o] \in OpRow /\ OperationOK(o)
  BY Rows_ DEF IInv
<1>2. Null \notin AllDocs
  BY IdsAssumption DEF AllDocs
<1>3. CASE ops[o].kind = "create"
  BY <1>1, <1>3 DEF OperationOK, Key, AllDocs
<1>4. CASE ops[o].kind # "create"
  BY <1>1, <1>2, <1>4 DEF OperationOK, Key
<1> QED
  BY <1>3, <1>4

\* A command that starts records what its handler read of its operation.
LEMMA StartCommandStep ==
    ASSUME IInv, NEW o \in Ops, NEW type \in Types, NEW n \in 0..MaxItems,
           StartCommand(o, type, n)
    PROVE  IInv' /\ DocSteps
<1>1. /\ docs \in [AllDocs -> DocRow] /\ ops \in [Ops -> OpRow] /\ ops[o] \in OpRow
      /\ cmds \in [AllDocs -> Command] /\ OperationOK(o)
  BY Rows_ DEF IInv
<1>2. /\ ops[o].status \in Rows /\ Accepts(o, type, n)
      /\ UNCHANGED <<docs, history, ops, sync, runs, drafting>>
  BY DEF StartCommand
<1>3. ops[o].kind \in Kinds
  BY <1>2 DEF Accepts, Kinds
<1>4. PICK d \in AllDocs : d = Key(o)
  BY <1>2, <1>3, KeyFacts
<1> DEFINE c == [op |-> o, type |-> type, rev |-> ops[o].rev,
                 basis |-> docs[d].version, items |-> n]
<1>5. cmds' = [cmds EXCEPT ![d] = c]
  BY <1>4 DEF StartCommand
<1>6. /\ type \in {"item.accept", "item.reject"} => ops[o].pending > 0
      /\ type \in {"stream.begin", "stream.append", "stream.commit"} =>
            ops[o].kind = "create"
  BY <1>2 DEF Accepts, CreateAccepts, PatchAccepts, HunkAccepts, PrepareAccepts,
              RunningPatch, EditAccepts, ContinueAccepts, RewriteAccepts
<1>7. c \in Command
  <2>1. docs[d].version \in Nat /\ ops[o].rev \in Nat /\ n \in Nat
    BY <1>1, BoundsAssumption DEF DocRow, OpRow
  <2> QED
    BY <2>1 DEF Command
<1>8. cmds' \in [AllDocs -> Command]
  BY <1>1, <1>5, <1>7
<1>9. TypeOK'
  BY <1>2, <1>8, Rows_ DEF IInv, TypeOK, Command
<1>10. ASSUME NEW e \in AllDocs PROVE CommandOK(e)'
  <2>1. CASE e = d
    <3>1. cmds'[d] = c
      BY <1>1, <1>5
    <3>2. ops[o].rev \in Nat
      BY <1>1 DEF OpRow
    <3>3. Key(o)' = d
      BY <1>2, <1>4 DEF Key
    <3> QED
      BY <1>2, <1>6, <2>1, <3>1, <3>2, <3>3 DEF CommandOK
  <2>2. CASE e # d
    <3>1. cmds'[e] = cmds[e] /\ CommandOK(e)
      BY <1>1, <1>5, <2>2 DEF IInv
    <3> QED
      BY <1>2, <3>1 DEF CommandOK, Key
  <2> QED
    BY <2>1, <2>2
<1>11. DocSteps
  BY <1>2, SameDoc DEF DocSteps
<1> QED
  BY <1>2, <1>9, <1>10, <1>11 DEF IInv, OperationOK, DocumentOK, VersionLog, NoLostUpdate

\* A command that finds its operation as its handler left it is in the queue of
\* that operation, and leaves a row behind that moves the operation on.
LEMMA UnchangedFacts ==
    ASSUME IInv, NEW d \in AllDocs, NEW c \in Command, c = cmds[d], Unchanged(c)
    PROVE  /\ c.op \in Ops /\ ops[c.op] \in OpRow /\ ops[c.op].status \in Rows
           /\ OperationOK(c.op) /\ Key(c.op) = d
           /\ c.type \in {"item.accept", "item.reject"} => ops[c.op].pending > 0
           /\ c.type \in {"stream.begin", "stream.append", "stream.commit"} =>
                    ops[c.op].kind = "create" /\ ops[c.op].draft = d /\ d \in Drafts
<1>1. /\ c.op \in Ops /\ ops[c.op] \in OpRow /\ ops[c.op].status \in Rows
      /\ OperationOK(c.op)
  BY Rows_ DEF IInv, Unchanged, Command
<1>2. /\ Key(c.op) = d
      /\ c.type \in {"item.accept", "item.reject"} => ops[c.op].pending > 0
      /\ c.type \in {"stream.begin", "stream.append", "stream.commit"} =>
            ops[c.op].kind = "create"
  BY <1>1 DEF IInv, Unchanged, CommandOK
<1>3. ops[c.op].kind = "create" => ops[c.op].draft = d /\ d \in Drafts
  BY <1>1, <1>2 DEF OperationOK, Key
<1> QED
  BY <1>1, <1>2, <1>3

\* Every command asks for a status of the state machine.
LEMMA TargetFacts ==
    ASSUME NEW op \in OpRow, op.status \in Rows, NEW type
    PROVE  Target(op, type) \in Rows
<1>1. {"running", "awaiting_review", "completed", "rejected", "cancelled"} \subseteq Rows
  BY DEF Rows, Active, Building, Terminal
<1> QED
  BY <1>1 DEF Target

\* The row a command leaves behind, whatever the command.
LEMMA AfterFacts ==
    ASSUME IInv, NEW d \in AllDocs, NEW c \in Command, c = cmds[d], Unchanged(c),
           NEW op, op = ops[c.op]
    PROVE  /\ After(op, c) \in OpRow
           /\ After(op, c).status \in Rows
           /\ After(op, c).rev > op.rev
           /\ After(op, c).kind = op.kind /\ After(op, c).draft = op.draft
           /\ After(op, c).doc = IF c.type = "stream.commit" THEN op.draft ELSE op.doc
<1>1. /\ op \in OpRow /\ op.status \in Rows
      /\ c.type \in {"item.accept", "item.reject"} => op.pending > 0
  BY UnchangedFacts
<1> DEFINE st == Target(op, c.type)
           rv == op.rev + IF ThroughApplying(op, c.type) THEN 2 ELSE 1
           dc == IF c.type = "stream.commit" THEN op.draft ELSE op.doc
           bs == IF c.type \in {"stream.commit", "item.accept"} THEN c.basis + 1 ELSE op.base
           ex == CASE c.type = "stream.append" -> TRUE
                   [] c.type \in {"operation.prepare", "operation.start"} -> FALSE
                   [] OTHER -> op.expires
           pe == PendingAfter(op, c)
           ap == AppliedAfter(op, c)
<1>2. st \in Rows
  BY <1>1, TargetFacts
<1>3. rv \in Nat /\ rv > op.rev
  BY <1>1 DEF OpRow
<1>4. dc \in AllDocs \cup {Null} /\ bs \in Nat \cup {Null}
  BY <1>1 DEF OpRow, Command, AllDocs
<1>5. ex \in BOOLEAN
  BY <1>1 DEF OpRow
<1>6. pe \in Nat
  <2>1. op.pending \in Nat /\ c.items \in Nat
    BY <1>1 DEF OpRow, Command
  <2> QED
    BY <1>1, <2>1 DEF PendingAfter
<1>7. ap \in Nat
  BY <1>1 DEF OpRow, Command, AppliedAfter
<1>8. After(op, c) = [op EXCEPT !.status = st, !.rev = rv, !.doc = dc, !.base = bs,
                                !.expires = ex, !.pending = pe, !.applied = ap]
  BY DEF After
<1> HIDE DEF st, rv, dc, bs, ex, pe, ap
<1>9. After(op, c) \in OpRow
  <2>1. \A row \in OpRow : [row EXCEPT !.status = st, !.rev = rv] \in OpRow
    BY <1>2, <1>3 DEF OpRow
  <2>2. \A row \in OpRow : [row EXCEPT !.doc = dc, !.base = bs] \in OpRow
    BY <1>4 DEF OpRow
  <2>3. \A row \in OpRow :
            [row EXCEPT !.expires = ex, !.pending = pe, !.applied = ap] \in OpRow
    BY <1>5, <1>6, <1>7 DEF OpRow
  <2> DEFINE a == [op EXCEPT !.status = st, !.rev = rv]
             b == [a EXCEPT !.doc = dc, !.base = bs]
  <2>4. After(op, c) = [b EXCEPT !.expires = ex, !.pending = pe, !.applied = ap]
    BY <1>1, <1>8 DEF OpRow
  <2>5. b \in OpRow
    BY <1>1, <2>1, <2>2
  <2> HIDE DEF b
  <2> QED
    BY <2>3, <2>4, <2>5
<1>10. /\ After(op, c).status = st /\ After(op, c).rev = rv /\ After(op, c).doc = dc
       /\ After(op, c).kind = op.kind /\ After(op, c).draft = op.draft
  BY <1>1, <1>8 DEF OpRow
<1> QED
  BY <1>2, <1>3, <1>9, <1>10 DEF dc

\* A command moves its operation on and keeps what it is about.
LEMMA AfterStep ==
    ASSUME IInv, NEW d \in AllDocs, NEW c \in Command, c = cmds[d], Unchanged(c),
           ops'[c.op] = After(ops[c.op], c)
    PROVE  OpStep(c.op) /\ OperationOK(c.op)'
<1>1. /\ c.op \in Ops /\ ops[c.op] \in OpRow /\ ops[c.op].status \in Rows
      /\ OperationOK(c.op) /\ Key(c.op) = d
      /\ c.type = "stream.commit" => ops[c.op].kind = "create" /\ ops[c.op].draft = d
  BY UnchangedFacts
<1> DEFINE a == ops'[c.op]
<1>2. /\ a.status \in Rows /\ a.rev > ops[c.op].rev
      /\ a.kind = ops[c.op].kind /\ a.draft = ops[c.op].draft
      /\ a.doc = IF c.type = "stream.commit" THEN ops[c.op].draft ELSE ops[c.op].doc
  BY AfterFacts
<1>3. OperationOK(c.op)'
  BY <1>1, <1>2 DEF OperationOK
<1>4. Key(c.op)' = Key(c.op)
  BY <1>1, <1>2 DEF Key
<1> QED
  BY <1>1, <1>2, <1>3, <1>4 DEF OpStep

\* A commit appends one version, computed from the current one.
LEMMA CommitCommandStep ==
    ASSUME IInv, NEW d \in AllDocs, CommitCommand(d)
    PROVE  IInv' /\ DocSteps
<1>1. /\ docs \in [AllDocs -> DocRow] /\ docs[d] \in DocRow
      /\ history \in [AllDocs -> Seq(Version)] /\ ops \in [Ops -> OpRow]
      /\ cmds \in [AllDocs -> Command]
  BY Rows_ DEF IInv
<1>2. PICK c \in Command : c = cmds[d]
  BY <1>1
<1> DEFINE st == IF c.type = "stream.commit" THEN "active" ELSE docs[d].status
           row == [docs[d] EXCEPT !.version = c.basis + 1, !.status = st]
           D == [docs EXCEPT ![d] = row]
           S == Rivals(d, c.basis + 1, c.op)
           v == [by |-> c.op, basis |-> c.basis]
<1>3. /\ Unchanged(c) /\ Committable(d, c)
      /\ docs' = Free([docs EXCEPT ![d].version = c.basis + 1, ![d].status = st],
                      S \cup Releases(c))
      /\ history' = [history EXCEPT ![d] = Append(@, v)]
      /\ ops' = [Conflicted(ops, S) EXCEPT ![c.op] = After(ops[c.op], c)]
      /\ cmds' = [cmds EXCEPT ![d] = Idle]
      /\ UNCHANGED <<sync, runs, drafting>>
  BY <1>2 DEF CommitCommand, CanCommit
<1>4. c.op \in Ops /\ c.op \in Writers /\ c.op \notin S
  BY <1>2, <1>3, UnchangedFacts DEF Writers, Rivals
<1>5. /\ docs[d].version = c.basis /\ docs[d].lease \in {Null, c.op}
      /\ docs[d].status # "absent" /\ c.basis \in Nat /\ c.basis + 1 \in Nat
  BY <1>2, <1>3 DEF Committable, Exists, Command
<1>6. row \in DocRow /\ row.version = docs[d].version + 1 /\ row.lease = docs[d].lease
      /\ row.status # "absent"
  BY <1>1, <1>5 DEF DocRow
<1>7. [docs EXCEPT ![d].version = c.basis + 1, ![d].status = st] = D
  BY <1>1 DEF DocRow
<1>8. D \in [AllDocs -> DocRow] /\ D[d] = row
  BY <1>1, <1>6
<1>9. v \in Version
  BY <1>4, <1>5 DEF Version
<1>10. Idle \in Command
  BY DEF Idle, Command
<1> HIDE DEF st, row, D, v, S
<1>11. docs' = Free(D, S \cup Releases(c))
  BY <1>3, <1>7
<1>12. Conflicted(ops, S) \in [Ops -> OpRow]
  BY <1>1, ConflictedFacts
<1>13. ops' \in [Ops -> OpRow]
  <2>1. After(ops[c.op], c) \in OpRow
    BY <1>2, <1>3, AfterFacts
  <2> QED
    BY <1>3, <1>12, <2>1
<1>14. TypeOK'
  <2>1. docs' \in [AllDocs -> DocRow]
    BY <1>8, <1>11, FreeFacts
  <2>2. history' \in [AllDocs -> Seq(Version)]
    BY <1>1, <1>3, <1>9
  <2>3. cmds' \in [AllDocs -> Command]
    BY <1>1, <1>3, <1>10
  <2> QED
    BY <1>3, <1>13, <2>1, <2>2, <2>3, Rows_
       DEF IInv, TypeOK, DocRow, Version, OpRow, Command
<1>15. ASSUME NEW e \in AllDocs PROVE DocStep(e) /\ DocumentOK(e)'
  <2>1. CASE e = d
    <3>1. /\ docs'[d].version = docs[d].version + 1
          /\ docs'[d].lease \in {Null, docs[d].lease}
          /\ docs'[d].status # "absent"
      BY <1>6, <1>8, <1>11, FreeFacts
    <3>2. history'[d] = Append(history[d], [by |-> c.op, basis |-> docs[d].version])
      BY <1>1, <1>3, <1>5 DEF v
    <3> QED
      BY <1>4, <1>5, <2>1, <3>1, <3>2 DEF DocStep, DocumentOK
  <2>2. CASE e # d
    <3>1. D[e] = docs[e] /\ history'[e] = history[e]
      BY <1>1, <1>3, <2>2 DEF D
    <3>2. docs'[e] = Free(docs, S \cup Releases(c))[e]
      BY <1>11, <3>1 DEF Free
    <3> QED
      BY <3>1, <3>2, FreedDoc
  <2> QED
    BY <2>1, <2>2
<1>16. ASSUME NEW o \in Ops PROVE OpStep(o) /\ OperationOK(o)'
  <2>1. CASE o = c.op
    <3>1. ops'[c.op] = After(ops[c.op], c)
      BY <1>3, <1>4, <1>12
    <3> QED
      BY <1>2, <1>3, <2>1, <3>1, AfterStep
  <2>2. CASE o # c.op /\ o \in S
    <3>1. ops'[o] = Move(ops[o], "conflicted")
      BY <1>1, <1>3, <1>12, <2>2, ConflictedFacts
    <3>2. ops[o].status \in Rows /\ "conflicted" \in Rows
      BY <2>2 DEF S, Rivals, Rows, Terminal
    <3> QED
      BY <3>1, <3>2, MovedOp
  <2>3. CASE o # c.op /\ o \notin S
    <3>1. Conflicted(ops, S)[o] = ops[o]
      BY <1>1, <2>3, ConflictedFacts
    <3>2. ops'[o] = Conflicted(ops, S)[o]
      BY <1>3, <1>12, <2>3
    <3> QED
      BY <3>1, <3>2, SameOp
  <2> QED
    BY <2>1, <2>2, <2>3
<1> QED
  BY <1>1, <1>3, <1>14, <1>15, <1>16, StepPreserves DEF StepOK

\* The begin and append commands of a creation write its draft.
LEMMA DraftCommandStep ==
    ASSUME IInv, NEW d \in AllDocs, DraftCommand(d)
    PROVE  IInv' /\ DocSteps
<1>1. /\ docs \in [AllDocs -> DocRow] /\ docs[d] \in DocRow /\ DocumentOK(d)
      /\ ops \in [Ops -> OpRow] /\ cmds \in [AllDocs -> Command]
  BY Rows_ DEF IInv
<1>2. PICK c \in Command : c = cmds[d]
  BY <1>1
<1> DEFINE row == [Absent EXCEPT !.status = "draft", !.lease = c.op]
<1>3. /\ Unchanged(c) /\ CanDraft(d, c)
      /\ docs' = [docs EXCEPT ![d] = row]
      /\ ops' = [ops EXCEPT ![c.op] = After(ops[c.op], c)]
      /\ cmds' = [cmds EXCEPT ![d] = Idle]
      /\ UNCHANGED <<history, sync, runs, drafting>>
  BY <1>2 DEF DraftCommand, CanDraft
<1>4. /\ c.op \in Ops /\ c.op \in Writers
      /\ c.type \in {"stream.begin", "stream.append"} => ops[c.op].draft = d
  BY <1>2, <1>3, UnchangedFacts DEF Writers
<1>5. docs[d].version = 0 /\ docs[d].lease \in {Null, c.op}
  <2>1. CASE ~Exists(d)
    BY <1>1, <2>1 DEF Exists, DocumentOK, Absent
  <2>2. CASE c.type = "stream.append" /\ OwnsDraft(c.op)
    BY <1>4, <2>2 DEF OwnsDraft
  <2> QED
    BY <1>3, <2>1, <2>2 DEF CanDraft
<1>6. /\ row \in DocRow /\ row.version = 0 /\ row.lease = c.op /\ row.status = "draft"
  BY <1>4 DEF Absent, DocRow
<1>7. Idle \in Command /\ After(ops[c.op], c) \in OpRow
  BY <1>2, <1>3, AfterFacts DEF Idle, Command
<1> HIDE DEF row
<1>8. TypeOK'
  <2>1. /\ docs' \in [AllDocs -> DocRow] /\ ops' \in [Ops -> OpRow]
        /\ cmds' \in [AllDocs -> Command]
    BY <1>1, <1>3, <1>6, <1>7
  <2> QED
    BY <1>3, <2>1, Rows_ DEF IInv, TypeOK, DocRow, OpRow, Command
<1>9. ASSUME NEW e \in AllDocs PROVE DocStep(e) /\ DocumentOK(e)'
  <2>1. CASE e = d
    <3>1. docs'[d] = row /\ history'[d] = history[d]
      BY <1>1, <1>3
    <3> QED
      BY <1>4, <1>5, <1>6, <2>1, <3>1 DEF DocStep, Keeps, DocumentOK
  <2>2. CASE e # d
    BY <1>1, <1>3, <2>2, SameDoc
  <2> QED
    BY <2>1, <2>2
<1>10. ASSUME NEW o \in Ops PROVE OpStep(o) /\ OperationOK(o)'
  <2>1. CASE o = c.op
    BY <1>1, <1>2, <1>3, <2>1, AfterStep
  <2>2. CASE o # c.op
    BY <1>1, <1>3, <2>2, SameOp
  <2> QED
    BY <2>1, <2>2
<1> QED
  BY <1>1, <1>3, <1>8, <1>9, <1>10, StepPreserves DEF StepOK

\* Settling operations or dropping a draft deletes documents and then frees
\* leases: what that does to one document.
LEMMA SettledDoc ==
    ASSUME IInv, NEW E, NEW S, NEW d \in AllDocs,
           docs' = Free(DocsWithout(docs, E), S), history' = HistoryWithout(E)
    PROVE  DocStep(d) /\ DocumentOK(d)'
<1>1. /\ docs \in [AllDocs -> DocRow] /\ history \in [AllDocs -> Seq(Version)]
      /\ DocsWithout(docs, E) \in [AllDocs -> DocRow]
  BY Rows_, WithoutFacts DEF IInv
<1>2. CASE d \in E
  <2>1. DocsWithout(docs, E)[d] = Absent /\ history'[d] = << >>
    BY <1>2 DEF DocsWithout, HistoryWithout
  <2>2. Absent.lease = Null
    BY DEF Absent
  <2>3. docs'[d] = Absent
    BY <1>1, <2>1, <2>2, FreeFacts
  <2> QED
    BY <2>1, <2>3, ErasedDoc
<1>3. CASE d \notin E
  <2>1. DocsWithout(docs, E)[d] = docs[d] /\ history'[d] = history[d]
    BY SMTT(30), <1>1, <1>3, WithoutFacts
  <2>2. docs'[d] = Free(docs, S)[d]
    BY <2>1 DEF Free
  <2> QED
    BY <2>1, <2>2, FreedDoc
<1> QED
  BY <1>2, <1>3

\* The same, for the types of documents and versions.
LEMMA SettledTypes ==
    ASSUME IInv, NEW E, NEW S,
           docs' = Free(DocsWithout(docs, E), S), history' = HistoryWithout(E)
    PROVE  docs' \in [AllDocs -> DocRow] /\ history' \in [AllDocs -> Seq(Version)]
<1>1. docs \in [AllDocs -> DocRow] /\ history \in [AllDocs -> Seq(Version)]
  BY Rows_ DEF IInv
<1>2. /\ DocsWithout(docs, E) \in [AllDocs -> DocRow]
      /\ HistoryWithout(E) \in [AllDocs -> Seq(Version)]
  BY <1>1, WithoutFacts
<1> QED
  BY <1>2, FreeFacts

\* Operations that move on or vanish, some of them deleted with a document.
LEMMA SettledOps ==
    ASSUME IInv, NEW E, NEW O \in [Ops -> OpRow], ops' = OpsWithout(O, E),
           \A o \in Ops : \/ O[o] = ops[o]
                         \/ \E op \in OpRow : O[o] = Gone(op)
                         \/ /\ ops[o].status \in Rows \cup {"planned"}
                            /\ \E s \in Rows : O[o] = Move(ops[o], s)
    PROVE  ops' \in [Ops -> OpRow] /\ \A o \in Ops : OpStep(o) /\ OperationOK(o)'
<1>1. ops' \in [Ops -> OpRow] /\ \A o \in Ops : ops'[o] \in {O[o], Gone(O[o])}
  BY OpsWithoutFacts
<1>2. ASSUME NEW o \in Ops PROVE OpStep(o) /\ OperationOK(o)'
  <2>1. O[o] \in OpRow
    OBVIOUS
  <2>2. CASE ops'[o] = Gone(O[o])
    BY <2>1, <2>2, GoneOp
  <2>3. CASE ops'[o] = O[o]
    <3>1. CASE O[o] = ops[o]
      BY <2>3, <3>1, SameOp
    <3>2. CASE \E op \in OpRow : O[o] = Gone(op)
      BY <2>3, <3>2, GoneOp
    <3>3. CASE /\ ops[o].status \in Rows \cup {"planned"}
               /\ \E s \in Rows : O[o] = Move(ops[o], s)
      BY <2>3, <3>3, MovedOp
    <3> QED
      BY <3>1, <3>2, <3>3
  <2> QED
    BY <1>1, <2>2, <2>3
<1> QED
  BY <1>1, <1>2

\* Cancelling a creation deletes its draft.
LEMMA DropDraftCommandStep ==
    ASSUME IInv, NEW d \in AllDocs, DropDraftCommand(d)
    PROVE  IInv' /\ DocSteps
<1>1. /\ docs \in [AllDocs -> DocRow] /\ history \in [AllDocs -> Seq(Version)]
      /\ ops \in [Ops -> OpRow] /\ cmds \in [AllDocs -> Command]
  BY Rows_ DEF IInv
<1>2. PICK c \in Command : c = cmds[d]
  BY <1>1
<1> DEFINE O == [ops EXCEPT ![c.op] = After(ops[c.op], c)]
<1>3. /\ Unchanged(c)
      /\ docs' = DocsWithout(docs, {d})
      /\ history' = HistoryWithout({d})
      /\ ops' = OpsWithout(O, {d})
      /\ cmds' = [cmds EXCEPT ![d] = Idle]
      /\ UNCHANGED <<sync, runs, drafting>>
  BY <1>2 DEF DropDraftCommand, CanDropDraft
<1>4. c.op \in Ops /\ After(ops[c.op], c) \in OpRow /\ Idle \in Command
  BY <1>2, <1>3, UnchangedFacts, AfterFacts DEF Idle, Command
<1>5. O \in [Ops -> OpRow] /\ O[c.op] = After(ops[c.op], c)
      /\ \A o \in Ops : o # c.op => O[o] = ops[o]
  BY <1>1, <1>4
<1> HIDE DEF O
<1>6. ops' \in [Ops -> OpRow] /\ \A o \in Ops : ops'[o] \in {O[o], Gone(O[o])}
  BY <1>3, <1>5, OpsWithoutFacts
<1>7. TypeOK'
  <2>1. docs' \in [AllDocs -> DocRow] /\ history' \in [AllDocs -> Seq(Version)]
    BY <1>1, <1>3, WithoutFacts
  <2>2. cmds' \in [AllDocs -> Command]
    BY <1>1, <1>3, <1>4
  <2> QED
    BY <1>3, <1>6, <2>1, <2>2, Rows_ DEF IInv, TypeOK, DocRow, Version, OpRow, Command
<1>8. ASSUME NEW e \in AllDocs PROVE DocStep(e) /\ DocumentOK(e)'
  <2>1. CASE e = d
    <3>1. docs'[e] = Absent /\ history'[e] = << >>
      BY <1>3, <2>1 DEF DocsWithout, HistoryWithout
    <3> QED
      BY <3>1, ErasedDoc
  <2>2. CASE e # d
    <3>1. docs'[e] = docs[e] /\ history'[e] = history[e]
      BY <1>3, <2>2 DEF DocsWithout, HistoryWithout
    <3> QED
      BY <3>1, SameDoc
  <2> QED
    BY <2>1, <2>2
<1>9. ASSUME NEW o \in Ops PROVE OpStep(o) /\ OperationOK(o)'
  <2>1. CASE ops'[o] = Gone(O[o])
    BY <1>5, <2>1, GoneOp
  <2>2. CASE ops'[o] = O[o] /\ o = c.op
    BY <1>2, <1>3, <1>5, <2>2, AfterStep
  <2>3. CASE ops'[o] = O[o] /\ o # c.op
    BY <1>5, <2>3, SameOp
  <2> QED
    BY <1>6, <2>1, <2>2, <2>3
<1> QED
  BY <1>1, <1>3, <1>7, <1>8, <1>9, StepPreserves DEF StepOK

\* A command that writes no version frees at most its own lease.
LEMMA DecideCommandStep ==
    ASSUME IInv, NEW d \in AllDocs, DecideCommand(d)
    PROVE  IInv' /\ DocSteps
<1>1. /\ docs \in [AllDocs -> DocRow] /\ ops \in [Ops -> OpRow]
      /\ cmds \in [AllDocs -> Command]
  BY Rows_ DEF IInv
<1>2. PICK c \in Command : c = cmds[d]
  BY <1>1
<1>3. /\ Unchanged(c)
      /\ docs' = Free(docs, Releases(c))
      /\ ops' = [ops EXCEPT ![c.op] = After(ops[c.op], c)]
      /\ cmds' = [cmds EXCEPT ![d] = Idle]
      /\ UNCHANGED <<history, sync, runs, drafting>>
  BY <1>2 DEF DecideCommand, CanDecide
<1>4. c.op \in Ops /\ After(ops[c.op], c) \in OpRow /\ Idle \in Command
  BY <1>2, <1>3, UnchangedFacts, AfterFacts DEF Idle, Command
<1>5. TypeOK'
  <2>1. docs' \in [AllDocs -> DocRow]
    BY <1>1, <1>3, FreeFacts
  <2>2. ops' \in [Ops -> OpRow] /\ cmds' \in [AllDocs -> Command]
    BY <1>1, <1>3, <1>4
  <2> QED
    BY <1>3, <2>1, <2>2, Rows_ DEF IInv, TypeOK, DocRow, OpRow, Command
<1>6. ASSUME NEW e \in AllDocs PROVE DocStep(e) /\ DocumentOK(e)'
  BY <1>3, FreedDoc
<1>7. ASSUME NEW o \in Ops PROVE OpStep(o) /\ OperationOK(o)'
  <2>1. CASE o = c.op
    BY <1>1, <1>2, <1>3, <2>1, AfterStep
  <2>2. CASE o # c.op
    BY <1>1, <1>3, <2>2, SameOp
  <2> QED
    BY <2>1, <2>2
<1> QED
  BY <1>1, <1>3, <1>5, <1>6, <1>7, StepPreserves DEF StepOK

\* A command that finds its operation changed changes nothing.
LEMMA RejectCommandStep ==
    ASSUME IInv, NEW d \in AllDocs, RejectCommand(d)
    PROVE  IInv' /\ DocSteps
<1>1. cmds \in [AllDocs -> Command] /\ Idle \in Command
  BY Rows_ DEF IInv, Idle, Command
<1>2. /\ cmds' = [cmds EXCEPT ![d] = Idle]
      /\ UNCHANGED <<docs, history, ops, sync, runs, drafting>>
  BY DEF RejectCommand
<1>3. cmds' \in [AllDocs -> Command]
  BY <1>1, <1>2
<1>4. TypeOK'
  BY <1>2, <1>3, Rows_ DEF IInv, TypeOK, Command
<1> QED
  BY <1>1, <1>2, <1>4, SameDoc, SameOp, StepPreserves DEF StepOK

(***************************************************************************)
(* Expiry, the end of a run, and restart                                   *)
(***************************************************************************)

\* Operations settled outside the queues: expiry and the end of a run.
LEMMA SettleStep ==
    ASSUME IInv, NEW S \in SUBSET Ops, NEW status \in Rows,
           \A o \in S : ops[o].status \in Rows,
           Settle(S, status),
           runs' \in [Runs -> {"new", "live", "ended"}],
           UNCHANGED <<cmds, sync, drafting>>
    PROVE  IInv' /\ DocSteps
<1> DEFINE E == DraftsOf(S)
           O == [o \in Ops |-> IF o \in S THEN Move(ops[o], status) ELSE ops[o]]
<1>1. ops \in [Ops -> OpRow]
  BY Rows_ DEF IInv
<1>2. \A o \in Ops : Move(ops[o], status) \in OpRow
  BY <1>1, MoveFacts
<1>3. /\ docs' = Free(DocsWithout(docs, E), S)
      /\ history' = HistoryWithout(E)
      /\ ops' = OpsWithout(O, E)
  BY DEF Settle
<1>4. O \in [Ops -> OpRow]
  BY <1>1, <1>2
<1>5. ASSUME NEW o \in Ops
      PROVE  \/ O[o] = ops[o]
             \/ /\ ops[o].status \in Rows \cup {"planned"}
                /\ \E s \in Rows : O[o] = Move(ops[o], s)
  OBVIOUS
<1> HIDE DEF E, O
<1>6. ops' \in [Ops -> OpRow] /\ \A o \in Ops : OpStep(o) /\ OperationOK(o)'
  BY <1>3, <1>4, <1>5, SettledOps
<1>7. TypeOK'
  <2>1. docs' \in [AllDocs -> DocRow] /\ history' \in [AllDocs -> Seq(Version)]
    BY <1>3, SettledTypes
  <2> QED
    BY <1>6, <2>1, Rows_ DEF IInv, TypeOK, DocRow, Version, OpRow
<1>8. \A d \in AllDocs : DocStep(d) /\ DocumentOK(d)'
  BY <1>3, SettledDoc
<1> QED
  BY <1>6, <1>7, <1>8, StepPreserves DEF StepOK

\* Expiry of one operation.
LEMMA ExpireStep ==
    ASSUME IInv, NEW o \in Ops, Expire(o)
    PROVE  IInv' /\ DocSteps
<1>1. /\ Settle({o}, "expired") /\ ops[o].status \in Rows /\ "expired" \in Rows
      /\ UNCHANGED <<cmds, sync, runs, drafting>>
  BY DEF Expire, Rows, Active, Terminal
<1>2. runs' \in [Runs -> {"new", "live", "ended"}]
  BY <1>1, Rows_ DEF IInv
<1>3. {o} \in SUBSET Ops /\ \A x \in {o} : ops[x].status \in Rows
  BY <1>1
<1> QED
  BY <1>1, <1>2, <1>3, SettleStep

\* What a run leaves behind is cancelled, at its end or when it gives up.
LEMMA RunStepOfOps ==
    ASSUME IInv, NEW r \in Runs, NEW T \in SUBSET Rows,
           Settle(OfRun(r, T), "cancelled"),
           runs' \in [Runs -> {"new", "live", "ended"}],
           UNCHANGED <<cmds, sync, drafting>>
    PROVE  IInv' /\ DocSteps
<1>1. "cancelled" \in Rows
  BY DEF Rows, Terminal
<1>2. OfRun(r, T) \in SUBSET Ops /\ \A o \in OfRun(r, T) : ops[o].status \in Rows
  BY DEF OfRun
<1> QED
  BY <1>1, <1>2, SettleStep

\* The end of a run.
LEMMA FinishRunStep ==
    ASSUME IInv, NEW r \in Runs, NEW completed \in BOOLEAN, FinishRun(r, completed)
    PROVE  IInv' /\ DocSteps
<1> DEFINE T == IF completed THEN Building ELSE Active
<1>1. /\ Settle(OfRun(r, T), "cancelled") /\ runs' = [runs EXCEPT ![r] = "ended"]
      /\ UNCHANGED <<cmds, sync, drafting>>
  BY DEF FinishRun
<1>2. T \in SUBSET Rows
  BY DEF Rows, Active
<1>3. runs' \in [Runs -> {"new", "live", "ended"}]
  BY <1>1, Rows_ DEF IInv
<1> HIDE DEF T
<1> QED
  BY <1>1, <1>2, <1>3, RunStepOfOps

\* A run that gives up what it builds.
LEMMA GiveUpStep ==
    ASSUME IInv, NEW r \in Runs, GiveUp(r)
    PROVE  IInv' /\ DocSteps
<1>1. /\ Settle(OfRun(r, Building), "cancelled")
      /\ UNCHANGED <<cmds, sync, runs, drafting>>
  BY DEF GiveUp
<1>2. Building \in SUBSET Rows
  BY DEF Rows, Active
<1>3. runs' \in [Runs -> {"new", "live", "ended"}]
  BY <1>1, Rows_ DEF IInv
<1> QED
  BY <1>1, <1>2, <1>3, RunStepOfOps

\* A run that starts.
LEMMA StartRunStep ==
    ASSUME IInv, NEW r \in Runs, StartRun(r)
    PROVE  IInv' /\ DocSteps
<1>1. /\ runs' = [runs EXCEPT ![r] = "live"]
      /\ UNCHANGED <<docs, history, ops, cmds, sync, drafting>>
  BY DEF StartRun
<1>2. TypeOK'
  BY <1>1 DEF IInv, TypeOK
<1> QED
  BY <1>1, <1>2, SameDoc, SameOp, StepPreserves DEF StepOK

\* The death of the process and what start-up repairs.
LEMMA RestartStep ==
    ASSUME IInv, Restart
    PROVE  IInv' /\ DocSteps
<1> DEFINE R == {o \in Ops : ops[o].status \in {"running", "applying"}}
           F == {o \in R : ops[o].kind = "create"}
           E == DraftsOf(F)
           O == [o \in Ops |-> IF ops[o].status = "planned" THEN Gone(ops[o])
                               ELSE IF o \in F THEN Move(ops[o], "failed")
                               ELSE IF o \in R THEN Move(ops[o], "awaiting_review")
                               ELSE ops[o]]
<1>1. ops \in [Ops -> OpRow] /\ drafting \in [Runs -> AllDocs \cup {Null}]
      /\ runs \in [Runs -> {"new", "live", "ended"}]
  BY Rows_ DEF IInv
<1>2. {"failed", "awaiting_review", "running", "applying"} \subseteq Rows
  BY DEF Rows, Active, Building, Terminal
<1>3. /\ docs' = Free(DocsWithout(docs, E), R \cup Runs)
      /\ history' = HistoryWithout(E)
      /\ ops' = OpsWithout(O, E)
      /\ cmds' = [d \in AllDocs |-> Idle]
      /\ sync' = [d \in Docs |-> 0]
      /\ runs' = [r \in Runs |-> IF runs[r] = "live" THEN "ended" ELSE runs[r]]
      /\ drafting' = [r \in Runs |-> Null]
  BY DEF Restart
<1>4. \A o \in Ops : /\ Gone(ops[o]) \in OpRow
                     /\ Move(ops[o], "failed") \in OpRow
                     /\ Move(ops[o], "awaiting_review") \in OpRow
  BY <1>1, <1>2, MoveFacts, GoneFacts
<1>5. O \in [Ops -> OpRow]
  BY <1>1, <1>4
<1>6. ASSUME NEW o \in Ops
      PROVE  \/ O[o] = ops[o]
             \/ \E op \in OpRow : O[o] = Gone(op)
             \/ /\ ops[o].status \in Rows \cup {"planned"}
                /\ \E s \in Rows : O[o] = Move(ops[o], s)
  BY <1>1, <1>2
<1> HIDE DEF R, F, E, O
<1>7. ops' \in [Ops -> OpRow] /\ \A o \in Ops : OpStep(o) /\ OperationOK(o)'
  BY <1>3, <1>5, <1>6, SettledOps
<1>8. TypeOK'
  <2>1. docs' \in [AllDocs -> DocRow] /\ history' \in [AllDocs -> Seq(Version)]
    BY <1>3, SettledTypes
  <2>2. cmds' \in [AllDocs -> Command]
    BY <1>3 DEF Idle, Command
  <2>3. /\ sync' \in [Docs -> Nat] /\ runs' \in [Runs -> {"new", "live", "ended"}]
        /\ drafting' \in [Runs -> AllDocs \cup {Null}]
    BY <1>1, <1>3
  <2> QED
    BY <1>7, <2>1, <2>2, <2>3 DEF TypeOK, DocRow, Version, OpRow, Command
<1>9. \A d \in AllDocs : DocStep(d) /\ DocumentOK(d)'
  BY <1>3, SettledDoc
<1>10. \A d \in AllDocs : cmds'[d] = Idle
  BY <1>3
<1> QED
  BY <1>7, <1>8, <1>9, <1>10, StepPreserves DEF StepOK

(***************************************************************************)
(* The specification                                                       *)
(***************************************************************************)

\* The invariant holds of the empty store.
LEMMA InitOK == Init => IInv
<1> SUFFICES ASSUME Init PROVE IInv
  OBVIOUS
<1>1. TypeOK
  <2>1. docs \in [AllDocs -> DocRow] /\ history \in [AllDocs -> Seq(Version)]
    BY DEF Init, Absent, DocRow
  <2>2. ops \in [Ops -> OpRow] /\ cmds \in [AllDocs -> Command]
    BY DEF Init, Blank, OpRow, Idle, Command
  <2>3. /\ sync \in [Docs -> Nat] /\ runs \in [Runs -> {"new", "live", "ended"}]
        /\ drafting \in [Runs -> AllDocs \cup {Null}]
    BY DEF Init
  <2> QED
    BY <2>1, <2>2, <2>3, Rows_
<1>2. ASSUME NEW d \in AllDocs
      PROVE  CommandOK(d) /\ DocumentOK(d) /\ docs[d].version = Len(history[d])
             /\ \A n \in DOMAIN history[d] : history[d][n].basis = n - 1
  <2>1. cmds[d].op = Null /\ docs[d] = Absent /\ history[d] = << >>
    BY DEF Init, Idle
  <2> QED
    BY <2>1 DEF CommandOK, DocumentOK, Absent
<1>3. ASSUME NEW o \in Ops PROVE OperationOK(o)
  <2>1. ops[o].status = "none" /\ ops[o].kind = "none"
    BY DEF Init, Blank
  <2> QED
    BY <2>1 DEF OperationOK, Rows, Active, Building, Terminal
<1> QED
  BY <1>1, <1>2, <1>3 DEF IInv, VersionLog, NoLostUpdate

\* Every step of the kernel preserves the invariant and is, for each document,
\* the step of a register; one case per action.
LEMMA NextOK ==
    ASSUME IInv, [Next]_vars
    PROVE  IInv' /\ DocSteps
<1>1. CASE DocumentStep
  <2>1. ASSUME NEW d \in Docs, Import(d) PROVE IInv' /\ DocSteps
    BY <2>1, ImportStep
  <2>2. ASSUME NEW d \in AllDocs, NEW b \in 0..MaxVersion,
               Save(d, b) \/ \E n \in 1..MaxVersion : RestoreVersion(d, n, b)
        PROVE  IInv' /\ DocSteps
    <3>1. /\ Writable(d) /\ Advance(d, b)
          /\ UNCHANGED <<cmds, sync, runs, drafting>>
      BY <2>2 DEF Save, RestoreVersion
    <3>2. sync' \in [Docs -> Nat]
      BY <3>1, Rows_ DEF IInv
    <3> QED
      BY <3>1, <3>2, AdvanceStep
  <2>3. ASSUME NEW d \in AllDocs, Trash(d) \/ Restore(d) PROVE IInv' /\ DocSteps
    BY <2>3, TrashStep
  <2>4. ASSUME NEW d \in AllDocs, DeletePermanently(d) PROVE IInv' /\ DocSteps
    BY <2>4, DeleteStep DEF DeletePermanently
  <2>5. CASE EmptyTrash
    BY <2>5, DeleteStep DEF EmptyTrash
  <2> QED
    BY <1>1, <2>1, <2>2, <2>3, <2>4, <2>5 DEF DocumentStep
<1>2. CASE SyncStep
  <2>1. ASSUME NEW d \in Docs, NEW changed \in BOOLEAN, SyncBegin(d, changed)
        PROVE  IInv' /\ DocSteps
    BY <2>1, SyncBeginStep
  <2>2. ASSUME NEW d \in Docs, SyncSave(d) PROVE IInv' /\ DocSteps
    <3>1. /\ Writable(d) /\ Advance(d, sync[d])
          /\ sync' = [sync EXCEPT ![d] = 0] /\ UNCHANGED <<cmds, runs, drafting>>
      BY <2>2 DEF SyncSave
    <3>2. sync' \in [Docs -> Nat] /\ d \in AllDocs
      BY <3>1, Rows_ DEF IInv, AllDocs
    <3> QED
      BY <3>1, <3>2, AdvanceStep
  <2>3. ASSUME NEW d \in Docs, SyncDrop(d) PROVE IInv' /\ DocSteps
    <3>1. /\ sync' = [sync EXCEPT ![d] = 0]
          /\ UNCHANGED <<docs, history, ops, cmds, runs, drafting>>
      BY <2>3 DEF SyncDrop
    <3>2. TypeOK'
      BY <3>1 DEF IInv, TypeOK
    <3> QED
      BY <3>1, <3>2, SameDoc, SameOp, StepPreserves DEF StepOK
  <2> QED
    BY <1>2, <2>1, <2>2, <2>3 DEF SyncStep
<1>3. CASE RunStep
  BY <1>3, StartRunStep, DraftBeginStep, DraftEndStep, FinishRunStep, GiveUpStep
     DEF RunStep
<1>4. CASE OperationStep
  <2>1. ASSUME NEW o \in Ops, NEW r \in Runs, NEW d \in AllDocs,
               NEW kind \in {"edit", "continue"}, NEW b \in 0..MaxVersion,
               BeginPatch(o, r, d, kind, b)
        PROVE  IInv' /\ DocSteps
    BY <2>1, BeginPatchStep
  <2>2. ASSUME NEW o \in Ops, NEW r \in Runs, NEW d \in Drafts, BeginCreate(o, r, d)
        PROVE  IInv' /\ DocSteps
    BY <2>2, BeginCreateStep
  <2>3. ASSUME NEW o \in Ops, NEW r \in Runs, NEW d \in AllDocs, NEW b \in 0..MaxVersion,
               PlanRewrite(o, r, d, b)
        PROVE  IInv' /\ DocSteps
    BY <2>3, PlanRewriteStep
  <2>4. ASSUME NEW o \in Ops, CreateRewrite(o) PROVE IInv' /\ DocSteps
    BY <2>4, CreateRewriteStep
  <2>5. ASSUME NEW o \in Ops, NEW type \in Types, NEW n \in 0..MaxItems,
               StartCommand(o, type, n)
        PROVE  IInv' /\ DocSteps
    BY <2>5, StartCommandStep
  <2>6. ASSUME NEW o \in Ops, Expire(o) PROVE IInv' /\ DocSteps
    BY <2>6, ExpireStep
  <2> QED
    BY <1>4, <2>1, <2>2, <2>3, <2>4, <2>5, <2>6 DEF OperationStep
<1>5. ASSUME NEW d \in AllDocs, FinishCommand(d) PROVE IInv' /\ DocSteps
  BY <1>5, CommitCommandStep, DraftCommandStep, DropDraftCommandStep, DecideCommandStep,
     RejectCommandStep DEF FinishCommand
<1>6. CASE Restart
  BY <1>6, RestartStep
<1>7. CASE UNCHANGED vars
  <2>1. UNCHANGED <<docs, history, ops, cmds, sync, runs, drafting>>
    BY <1>7 DEF vars
  <2>2. TypeOK'
    BY <2>1 DEF IInv, TypeOK
  <2> QED
    BY <2>1, <2>2, SameDoc, SameOp, StepPreserves DEF StepOK
<1> QED
  BY <1>1, <1>2, <1>3, <1>4, <1>5, <1>6, <1>7 DEF Next

\* In every reachable state the invariant holds.
THEOREM Invariance == Spec => []IInv
BY InitOK, NextOK, PTL DEF Spec

\* Every row of the store keeps its type: the statuses, revisions and counts of
\* an operation, and in particular no command decides an item that is not there.
THEOREM TypeCorrect == Spec => []TypeOK
<1>1. IInv => TypeOK
  BY DEF IInv
<1> QED
  BY <1>1, Invariance, PTL

\* The version counter of a document and its version rows always agree.
THEOREM VersionsLogged == Spec => []VersionLog
<1>1. IInv => VersionLog
  BY DEF IInv
<1> QED
  BY <1>1, Invariance, PTL

\* No version is computed from any but the one before it: no update is lost.
THEOREM NoUpdateLost == Spec => []NoLostUpdate
<1>1. IInv => NoLostUpdate
  BY DEF IInv
<1> QED
  BY <1>1, Invariance, PTL

(***************************************************************************)
(* The kernel implements the register                                      *)
(***************************************************************************)

\* The empty store is an empty register.
LEMMA RegisterInit == Init => Register!Init
BY DEF Init, Register!Init, Absent

\* The step of a document is a step of its register.
LEMMA RegisterStep ==
    ASSUME IInv, DocSteps
    PROVE  Register!Next
<1> SUFFICES ASSUME NEW d \in AllDocs
             PROVE  \/ Register!Acquire(d) \/ Register!Release(d) \/ Register!Publish(d)
                    \/ Register!Erase(d) \/ Register!Stay(d)
  BY DEF Register!Next
<1>1. docs[d].version = Len(history[d])
  BY DEF IInv, VersionLog
<1>2. DocStep(d)
  BY DEF DocSteps
<1>3. /\ [e \in AllDocs |-> docs[e].lease][d] = docs[d].lease
      /\ [e \in AllDocs |-> docs'[e].lease][d] = docs'[d].lease
  OBVIOUS
<1>4. CASE Keeps(d) /\ docs'[d].lease = docs[d].lease
  BY <1>4 DEF Keeps, Register!Stay
<1>5. CASE Keeps(d) /\ docs'[d].lease = Null
  BY <1>5 DEF Keeps, Register!Stay, Register!Release
<1>6. CASE Keeps(d) /\ docs[d].lease = Null /\ docs'[d].lease \in Writers
  BY <1>6 DEF Keeps, Register!Acquire
<1>7. CASE /\ docs'[d].version = docs[d].version + 1
           /\ \E w \in Writers :
                /\ docs[d].lease \in {Null, w}
                /\ history'[d] = Append(history[d], [by |-> w, basis |-> docs[d].version])
           /\ docs'[d].lease \in {Null, docs[d].lease}
  BY <1>1, <1>7 DEF Register!Publish
<1>8. CASE docs'[d] = Absent /\ history'[d] = << >>
  BY <1>8 DEF Absent, Register!Erase
<1> QED
  BY <1>2, <1>4, <1>5, <1>6, <1>7, <1>8 DEF DocStep

\* Every behaviour of the kernel, seen through versions and leases, is one of
\* the abstract store: at most one writer holds a document, only the holder of
\* a held document extends its log, and from its latest version.
THEOREM Refinement == Spec => Implements
<1>1. IInv /\ [Next]_vars => [Register!Next]_<<history, [d \in AllDocs |-> docs[d].lease]>>
  BY NextOK, RegisterStep
<1> QED
  BY <1>1, RegisterInit, Invariance, PTL DEF Spec, Implements, Register!Spec
=============================================================================
