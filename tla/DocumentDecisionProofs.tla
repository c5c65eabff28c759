----------------------- MODULE DocumentDecisionProofs -----------------------
(***************************************************************************)
(* For any documents, operations and runs of DocumentKernel and any        *)
(* bounds: the versions of a document that an operation wrote are those    *)
(* its decisions account for (DecisionsAreVersions), and whatever is begun *)
(* can be ended without a user (EndInSight).                               *)
(***************************************************************************)
EXTENDS DocumentLeaseProofs, FiniteSetTheorems

(***************************************************************************)
(* The invariant                                                           *)
(***************************************************************************)

\* The versions of d that o wrote, and how many its row answers for.
By(o, d) == {n \in DOMAIN history[d] : history[d][n].by = o}
Due(o) == IF ops[o].kind = "continue" THEN ops[o].applied
          ELSE IF ops[o].status = "completed" THEN 1 ELSE 0

\* An operation that is not there yet wrote nothing anywhere; one that is wrote
\* in its own document what is due; and a finished create names its document,
\* so that it is deleted with it.
Counted(o) ==
    /\ ops[o].status \in {"none", "planned"} => \A d \in AllDocs : By(o, d) = {}
    /\ ops[o].status \in Rows =>
          \A d \in AllDocs : d = Key(o) => Cardinality(By(o, d)) = Due(o)
    /\ ops[o].kind = "create" /\ ops[o].status = "completed" => ops[o].doc # Null

\* Items are decided one by one in a continuation only, other operations at once.
Deciding(d) ==
    LET c == cmds[d]
    IN  c.op # Null /\ ops[c.op].status \in Rows =>
          /\ c.type \in {"item.accept", "item.reject", "review.close"} =>
                ops[c.op].kind = "continue"
          /\ c.type \in {"review.apply", "stream.commit"} => ops[c.op].kind # "continue"
          /\ c.type = "item.accept" => c.items = 1

DecisionInv ==
    /\ \A o \in Ops : Counted(o)
    /\ \A d \in AllDocs : Deciding(d)

(***************************************************************************)
(* Counting versions                                                       *)
(***************************************************************************)

\* A version that is appended counts for its author.
LEMMA ByAppend ==
    ASSUME NEW d \in AllDocs, history[d] \in Seq(Version), NEW v \in Version,
           history'[d] = Append(history[d], v), NEW o
    PROVE  /\ v.by # o => By(o, d)' = By(o, d)
           /\ v.by = o => Cardinality(By(o, d)') = Cardinality(By(o, d)) + 1
<1> DEFINE n == Len(history[d])
<1>1. /\ n \in Nat /\ Len(history'[d]) = n + 1
      /\ DOMAIN history[d] = 1..n /\ DOMAIN history'[d] = 1..n + 1
      /\ \A k \in 1..n : history'[d][k] = history[d][k]
      /\ history'[d][n + 1] = v
  OBVIOUS
<1> HIDE DEF n
<1>2. n + 1 \notin 1..n /\ 1..n + 1 = 1..n \cup {n + 1}
  BY <1>1
<1>3. By(o, d) = {k \in 1..n : history[d][k].by = o}
  BY <1>1 DEF By
<1>4. By(o, d)' = {k \in 1..n + 1 : history'[d][k].by = o}
  BY <1>1 DEF By
<1>5. CASE v.by # o
  BY <1>1, <1>2, <1>3, <1>4, <1>5
<1>6. CASE v.by = o
  <2>1. By(o, d)' = By(o, d) \cup {n + 1}
    BY <1>1, <1>2, <1>3, <1>4, <1>6
  <2>2. n + 1 \notin By(o, d) /\ By(o, d) \subseteq 1..n
    BY <1>2, <1>3
  <2>3. IsFiniteSet(By(o, d))
    <3>1. IsFiniteSet(1..n)
      BY <1>1, FS_Interval
    <3> QED
      BY <2>2, <3>1, FS_Subset
  <2>4. Cardinality(By(o, d) \cup {n + 1}) = Cardinality(By(o, d)) + 1
    BY <2>2, <2>3, FS_AddElement
  <2> QED
    BY <1>6, <2>1, <2>4
<1> QED
  BY <1>5, <1>6

\* A document without versions has none by anybody.
LEMMA ByNone ==
    ASSUME NEW d \in AllDocs, NEW o
    PROVE  /\ history[d] = << >> => By(o, d) = {}
           /\ history'[d] = << >> => By(o, d)' = {}
           /\ history'[d] = history[d] => By(o, d)' = By(o, d)
BY DEF By

(***************************************************************************)
(* Steps that decide nothing                                               *)
(***************************************************************************)

\* What a step may do to an operation without deciding on it: leave it, delete
\* it, begin it, or move it on with its items as they are.
Begun(o) ==
    /\ ops[o].status \in {"none", "planned"}
    /\ ops'[o].status \in Rows \ {"completed"}
    /\ ops'[o].kind = "continue" => ops'[o].applied = 0
Moved(o) ==
    /\ ops[o].status \in Rows /\ ops'[o].status \in Rows
    /\ ops'[o].kind = ops[o].kind /\ ops'[o].applied = ops[o].applied
    /\ ops'[o].doc = ops[o].doc /\ ops'[o].draft = ops[o].draft
    /\ ops[o].kind # "continue" => "completed" \notin {ops[o].status, ops'[o].status}
Passive(o) ==
    \/ ops'[o] = ops[o]
    \/ ops'[o].status = "gone"
    \/ ops[o].status = "none" /\ ops'[o].status = "planned"
    \/ Begun(o)
    \/ Moved(o)

\* The versions of an operation in a document stay, or go with the document and
\* all the operations that name it.
Standing(o, d) ==
    \/ By(o, d)' = By(o, d)
    \/ By(o, d)' = {} /\ (ops'[o].status \in Rows => ops'[o].doc # d)

LEMMA PassiveCounts ==
    ASSUME IInv, IInv', LeaseInv', NEW o \in Ops, Counted(o), Passive(o),
           \A d \in AllDocs : Standing(o, d)
    PROVE  Counted(o)'
<1>1. /\ {"none", "planned", "gone"} \cap Rows = {} /\ "completed" \in Rows
      /\ Cardinality({}) = 0 /\ Null \notin AllDocs
  BY Statuses, FS_EmptySet, IdsAssumption DEF Rows, Terminal, AllDocs
<1>2. OperationOK(o)' /\ (ops'[o].status \in Rows => ops'[o].kind \in Kinds)
  BY DEF IInv, LeaseInv, OperationShape
<1>3. ASSUME ops'[o].status \in {"none", "planned"}, NEW d \in AllDocs PROVE By(o, d)' = {}
  <2>1. ops[o].status \in {"none", "planned"}
    BY <1>1, <1>3 DEF Passive, Begun, Moved
  <2> QED
    BY <2>1 DEF Counted, Standing
<1>4. ASSUME ops'[o].kind = "create", ops'[o].status = "completed" PROVE ops'[o].doc # Null
  BY <1>1, <1>4 DEF Passive, Begun, Moved, Counted
<1>5. ASSUME ops'[o].status \in Rows, NEW d \in AllDocs, d = Key(o)'
      PROVE  Cardinality(By(o, d)') = Due(o)'
  <2>1. ASSUME By(o, d)' = {}, ops'[o].doc # d PROVE Due(o)' = 0
    <3>1. ops'[o].kind = "create" /\ ops'[o].doc = Null
      BY <1>1, <1>2, <1>5, <2>1 DEF OperationOK, Key
    <3>2. ops'[o].status # "completed"
      BY <1>4, <3>1
    <3> QED
      BY <3>1, <3>2 DEF Due
  <2>2. CASE Begun(o)
    <3>1. By(o, d)' = {}
      BY <2>2 DEF Begun, Counted, Standing
    <3>2. Due(o)' = 0
      BY <2>2 DEF Begun, Due
    <3> QED
      BY <1>1, <3>1, <3>2
  <2>3. CASE ops'[o] = ops[o] \/ Moved(o)
    <3>1. ops[o].status \in Rows /\ d = Key(o) /\ Due(o)' = Due(o)
      BY <1>5, <2>3 DEF Moved, Key, Due
    <3>2. Cardinality(By(o, d)) = Due(o)
      BY <3>1 DEF Counted
    <3>3. CASE By(o, d)' = By(o, d)
      BY <3>1, <3>2, <3>3
    <3>4. CASE By(o, d)' = {} /\ ops'[o].doc # d
      BY <1>1, <2>1, <3>4
    <3> QED
      BY <1>5, <3>3, <3>4 DEF Standing
  <2> QED
    BY <1>1, <1>5, <2>2, <2>3 DEF Passive
<1> QED
  BY <1>3, <1>4, <1>5 DEF Counted

\* An operation that has a row keeps its kind while it has one.
KindKept(o) ==
    ops'[o].status \in Rows /\ ops[o].status \in Rows \cup {"gone"} =>
        ops[o].status \in Rows /\ ops'[o].kind = ops[o].kind

LEMMA DecidingKept ==
    ASSUME IInv, DecisionInv, \A o \in Ops : KindKept(o),
           NEW d \in AllDocs, cmds'[d] = cmds[d] \/ cmds'[d] = Idle
    PROVE  Deciding(d)'
<1> SUFFICES ASSUME cmds'[d].op # Null, ops'[cmds'[d].op].status \in Rows
             PROVE  Deciding(d)'
  BY DEF Deciding
<1>1. cmds'[d] = cmds[d]
  BY DEF Idle
<1>2. cmds[d].op \in Ops /\ CommandOK(d) /\ Deciding(d)
  BY <1>1, Rows_ DEF IInv, DecisionInv, Command
<1>3. /\ ops[cmds[d].op].status \in Rows
      /\ ops'[cmds[d].op].kind = ops[cmds[d].op].kind
  BY <1>1, <1>2 DEF CommandOK, KindKept
<1> QED
  BY <1>1, <1>2, <1>3 DEF Deciding

\* A step that decides nothing keeps the count.
LEMMA PassiveStep ==
    ASSUME IInv, IInv', LeaseInv', DecisionInv,
           \A o \in Ops : Passive(o), \A o \in Ops, d \in AllDocs : Standing(o, d),
           \A d \in AllDocs : cmds'[d] = cmds[d] \/ cmds'[d] = Idle
    PROVE  DecisionInv'
<1>1. \A o \in Ops : Counted(o)'
  BY PassiveCounts DEF DecisionInv
<1>2. \A o \in Ops : KindKept(o)
  BY Statuses DEF Passive, Begun, Moved, KindKept
<1> QED
  BY <1>1, <1>2, DecidingKept DEF DecisionInv

\* An open operation that ends otherwise than by a decision.
LEMMA MovedPassive ==
    ASSUME NEW o \in Ops, NEW op, ops[o] \in OpRow, op = ops[o], op.status \in Active,
           NEW s \in Rows \ {"completed"}
    PROVE  /\ ops'[o] = Move(op, s) => Moved(o)
           /\ Move(op, s).status = s /\ Move(op, s).doc = op.doc
<1>1. /\ Move(op, s).status = s /\ Move(op, s).kind = op.kind
      /\ Move(op, s).doc = op.doc /\ Move(op, s).draft = op.draft
      /\ Move(op, s).applied = op.applied
  BY DEF Move, OpRow
<1>2. op.status \in Rows /\ op.status # "completed"
  BY Statuses DEF Terminal
<1> QED
  BY <1>1, <1>2 DEF Moved

(***************************************************************************)
(* Documents and the ends of operations                                    *)
(***************************************************************************)

\* A version nobody's operation wrote counts for no operation, and what it
\* conflicts is not decided.
LEMMA AdvanceDecides ==
    ASSUME IInv, IInv', LeaseInv', DecisionInv, NEW d \in AllDocs, NEW b, Advance(d, b),
           cmds' = cmds
    PROVE  DecisionInv'
<1>1. /\ ops \in [Ops -> OpRow] /\ history \in [AllDocs -> Seq(Version)]
      /\ docs \in [AllDocs -> DocRow]
  BY Rows_ DEF IInv
<1> DEFINE v == [by |-> User, basis |-> b]
           S == Rivals(d, b + 1, Null)
<1>2. v \in Version /\ User \notin Ops /\ v.by = User
  <2>1. b \in Nat
    BY <1>1 DEF Advance, DocRow
  <2> QED
    BY <2>1, IdsAssumption DEF Version, Writers
<1>3. history' = [history EXCEPT ![d] = Append(@, v)] /\ ops' = Conflicted(ops, S)
  BY DEF Advance
<1>4. "conflicted" \in Rows \ {"completed"}
  BY DEF Rows, Terminal
<1>5. \A x \in S : ops[x].status \in Active
  BY DEF Rivals
<1> HIDE DEF v, S
<1>6. ASSUME NEW o \in Ops PROVE Passive(o)
  <2>1. CASE o \in S
    <3>1. ops'[o] = Move(ops[o], "conflicted")
      BY <1>3, <2>1 DEF Conflicted
    <3> QED
      BY <1>1, <1>4, <1>5, <2>1, <3>1, MovedPassive DEF Passive
  <2>2. CASE o \notin S
    BY <1>3, <2>2 DEF Conflicted, Passive
  <2> QED
    BY <2>1, <2>2
<1>7. ASSUME NEW o \in Ops, NEW e \in AllDocs PROVE Standing(o, e)
  <2>1. CASE e = d
    <3>1. history'[d] = Append(history[d], v) /\ history[d] \in Seq(Version) /\ v.by # o
      BY <1>1, <1>2, <1>3
    <3>2. By(o, d)' = By(o, d)
      BY <1>2, <3>1, ByAppend
    <3> QED
      BY <2>1, <3>2 DEF Standing
  <2>2. CASE e # d
    <3>1. history'[e] = history[e]
      BY <1>1, <1>3, <2>2
    <3> QED
      BY <3>1, ByNone DEF Standing
  <2> QED
    BY <2>1, <2>2
<1> QED
  BY <1>6, <1>7, PassiveStep

LEMMA ImportDecides ==
    ASSUME IInv, IInv', LeaseInv', DecisionInv, NEW d \in Docs, Import(d)
    PROVE  DecisionInv'
<1>1. /\ history \in [AllDocs -> Seq(Version)] /\ docs[d] = Absent /\ VersionLog
      /\ d \in AllDocs
  BY Rows_ DEF IInv, DocumentOK, Import, Exists, AllDocs
<1>2. history[d] = << >>
  <2>1. Len(history[d]) = 0 /\ history[d] \in Seq(Version)
    BY <1>1 DEF VersionLog, Absent
  <2> QED
    BY <2>1
<1> DEFINE v == [by |-> User, basis |-> 0]
<1>3. v \in Version /\ v.by = User /\ User \notin Ops
  BY IdsAssumption DEF Version, Writers
<1>4. history' = [history EXCEPT ![d] = << v >>] /\ << v >> = Append(<< >>, v)
  BY DEF Import
<1>5. ops' = ops /\ cmds' = cmds
  BY DEF Import
<1> HIDE DEF v
<1>6. ASSUME NEW o \in Ops, NEW e \in AllDocs PROVE Standing(o, e)
  <2>1. CASE e = d
    <3>1. history'[d] = Append(history[d], v) /\ history[d] \in Seq(Version) /\ v.by # o
      BY <1>1, <1>2, <1>3, <1>4
    <3>2. By(o, d)' = By(o, d)
      BY <1>1, <1>3, <3>1, ByAppend
    <3> QED
      BY <2>1, <3>2 DEF Standing
  <2>2. CASE e # d
    <3>1. history'[e] = history[e]
      BY <1>1, <1>4, <2>2
    <3> QED
      BY <3>1, ByNone DEF Standing
  <2> QED
    BY <2>1, <2>2
<1> QED
  BY <1>5, <1>6, PassiveStep DEF Passive

\* The operations of O have moved on at most; no command is queued.
OnlyMoved(O) ==
    \A o \in Ops : \/ O[o] = ops[o]
                   \/ O[o].status = "gone"
                   \/ ops'[o] = O[o] => Moved(o)
CommandsWait == \A d \in AllDocs : cmds'[d] = cmds[d] \/ cmds'[d] = Idle

\* Documents deleted with the operations that name them, while others move on.
LEMMA WithoutDecides ==
    ASSUME IInv, IInv', LeaseInv', DecisionInv, NEW E, NEW O \in [Ops -> OpRow],
           history' = HistoryWithout(E), ops' = OpsWithout(O, E),
           OnlyMoved(O), CommandsWait
    PROVE  DecisionInv'
<1>1. history \in [AllDocs -> Seq(Version)]
  BY Rows_ DEF IInv
<1>2. \A o \in Ops : ops'[o] = IF O[o].status \in Rows /\ O[o].doc \in E THEN Gone(O[o]) ELSE O[o]
  BY DEF OpsWithout
<1>3. \A o \in Ops : Gone(O[o]).status = "gone"
  BY GoneFacts
<1>4. "gone" \notin Rows
  BY Statuses
<1>5. ASSUME NEW o \in Ops PROVE Passive(o)
  <2>1. ops'[o].status = "gone" \/ ops'[o] = O[o]
    BY <1>2, <1>3
  <2> QED
    BY <2>1 DEF Passive, OnlyMoved
<1>6. ASSUME NEW o \in Ops, NEW d \in AllDocs PROVE Standing(o, d)
  <2>1. CASE d \in E
    <3>1. history'[d] = << >>
      BY <2>1 DEF HistoryWithout
    <3>2. ops'[o].status \in Rows => ops'[o].doc # d
      BY <1>2, <1>3, <1>4, <2>1
    <3> QED
      BY <3>1, <3>2, ByNone DEF Standing
  <2>2. CASE d \notin E
    <3>1. history'[d] = history[d]
      BY <2>2 DEF HistoryWithout
    <3> QED
      BY <3>1, ByNone DEF Standing
  <2> QED
    BY <2>1, <2>2
<1> QED
  BY <1>5, <1>6, PassiveStep DEF CommandsWait

LEMMA DeleteDecides ==
    ASSUME IInv, IInv', LeaseInv', DecisionInv, NEW S, Delete(S)
    PROVE  DecisionInv'
<1>1. ops \in [Ops -> OpRow] /\ history' = HistoryWithout(S) /\ ops' = OpsWithout(ops, S)
      /\ cmds' = cmds
  BY Rows_ DEF IInv, Delete
<1>2. OnlyMoved(ops) /\ CommandsWait
  BY <1>1 DEF OnlyMoved, CommandsWait
<1> QED
  BY <1>1, <1>2, WithoutDecides

\* What ends open operations from outside the queues decides none of them.
LEMMA SettleDecides ==
    ASSUME IInv, IInv', LeaseInv', DecisionInv, NEW S, NEW status \in Rows \ {"completed"},
           \A o \in S : ops[o].status \in Active, Settle(S, status), cmds' = cmds
    PROVE  DecisionInv'
<1> DEFINE O == [o \in Ops |-> IF o \in S THEN Move(ops[o], status) ELSE ops[o]]
<1>1. ops \in [Ops -> OpRow] /\ history' = HistoryWithout(DraftsOf(S))
      /\ ops' = OpsWithout(O, DraftsOf(S))
  BY Rows_ DEF IInv, Settle
<1>2. \A o \in Ops : Move(ops[o], status) \in OpRow
  BY <1>1, MoveFacts
<1>3. O \in [Ops -> OpRow]
  BY <1>1, <1>2
<1>4. ASSUME NEW o \in Ops PROVE O[o] = ops[o] \/ (ops'[o] = O[o] => Moved(o))
  <2>1. CASE o \in S
    <3>1. O[o] = Move(ops[o], status) /\ ops[o] \in OpRow /\ ops[o].status \in Active
      BY <1>1, <2>1
    <3> QED
      BY <3>1, MovedPassive
  <2>2. CASE o \notin S
    BY <2>2
  <2> QED
    BY <2>1, <2>2
<1> HIDE DEF O
<1>5. OnlyMoved(O) /\ CommandsWait
  BY <1>4 DEF OnlyMoved, CommandsWait
<1> QED
  BY <1>1, <1>3, <1>5, WithoutDecides

LEMMA RestartDecides ==
    ASSUME IInv, IInv', LeaseInv', DecisionInv, Restart
    PROVE  DecisionInv'
<1> DEFINE R == {o \in Ops : ops[o].status \in {"running", "applying"}}
           F == {o \in R : ops[o].kind = "create"}
           O == [o \in Ops |-> IF ops[o].status = "planned" THEN Gone(ops[o])
                               ELSE IF o \in F THEN Move(ops[o], "failed")
                               ELSE IF o \in R THEN Move(ops[o], "awaiting_review")
                               ELSE ops[o]]
<1>1. /\ ops \in [Ops -> OpRow] /\ history' = HistoryWithout(DraftsOf(F))
      /\ ops' = OpsWithout(O, DraftsOf(F)) /\ cmds' = [d \in AllDocs |-> Idle]
  BY Rows_ DEF IInv, Restart
<1>2. {"failed", "awaiting_review"} \subseteq Rows \ {"completed"}
  BY DEF Rows, Active, Terminal
<1>3. \A o \in Ops : /\ Move(ops[o], "failed") \in OpRow
                     /\ Move(ops[o], "awaiting_review") \in OpRow
                     /\ Gone(ops[o]) \in OpRow /\ Gone(ops[o]).status = "gone"
  BY <1>1, <1>2, MoveFacts, GoneFacts
<1>4. O \in [Ops -> OpRow]
  BY <1>1, <1>3
<1>5. \A o \in Ops : \/ O[o] = ops[o]
                     \/ O[o] = Gone(ops[o])
                     \/ /\ ops[o].status \in Active
                        /\ \E s \in {"failed", "awaiting_review"} : O[o] = Move(ops[o], s)
  BY Statuses
<1> HIDE DEF O, R, F
<1>6. ASSUME NEW o \in Ops
      PROVE  O[o] = ops[o] \/ O[o].status = "gone" \/ (ops'[o] = O[o] => Moved(o))
  <2>1. CASE /\ ops[o].status \in Active
             /\ \E s \in {"failed", "awaiting_review"} : O[o] = Move(ops[o], s)
    <3>1. PICK s \in Rows \ {"completed"} : O[o] = Move(ops[o], s)
      BY <1>2, <2>1
    <3> QED
      BY <1>1, <2>1, <3>1, MovedPassive
  <2> QED
    BY <1>3, <1>5, <2>1
<1>7. OnlyMoved(O) /\ CommandsWait
  BY <1>1, <1>6 DEF OnlyMoved, CommandsWait
<1> QED
  BY <1>1, <1>4, <1>7, WithoutDecides

\* Steps that write no version and change no operation but by the conflict pass
\* or by beginning it.
LEMMA StillDecides ==
    ASSUME IInv, IInv', LeaseInv', DecisionInv, history' = history,
           \A o \in Ops : Passive(o),
           \A d \in AllDocs : cmds'[d] = cmds[d] \/ cmds'[d] = Idle
    PROVE  DecisionInv'
<1>1. \A o \in Ops, d \in AllDocs : Standing(o, d)
  BY ByNone DEF Standing
<1> QED
  BY <1>1, PassiveStep

LEMMA SyncBeginDecides ==
    ASSUME IInv, IInv', LeaseInv', DecisionInv, NEW d \in Docs, NEW changed \in BOOLEAN,
           SyncBegin(d, changed)
    PROVE  DecisionInv'
<1> DEFINE S == IF changed THEN Rivals(d, docs[d].version + 1, Null) ELSE {}
<1>1. /\ ops \in [Ops -> OpRow] /\ ops' = Conflicted(ops, S)
      /\ history' = history /\ cmds' = cmds
  BY Rows_ DEF IInv, SyncBegin
<1>2. \A x \in S : ops[x].status \in Active
  BY DEF Rivals
<1>3. "conflicted" \in Rows \ {"completed"}
  BY DEF Rows, Terminal
<1> HIDE DEF S
<1>4. ASSUME NEW o \in Ops PROVE Passive(o)
  <2>1. CASE o \in S
    <3>1. ops'[o] = Move(ops[o], "conflicted")
      BY <1>1, <2>1 DEF Conflicted
    <3> QED
      BY <1>1, <1>2, <1>3, <2>1, <3>1, MovedPassive DEF Passive
  <2>2. CASE o \notin S
    BY <1>1, <2>2 DEF Conflicted, Passive
  <2> QED
    BY <2>1, <2>2
<1> QED
  BY <1>1, <1>4, StillDecides

LEMMA BeginDecides ==
    ASSUME IInv, IInv', LeaseInv, LeaseInv', DecisionInv, NEW o \in Ops,
           \/ \E r \in Runs, d \in AllDocs, kind \in {"edit", "continue"}, b \in 0..MaxVersion :
                 BeginPatch(o, r, d, kind, b)
           \/ \E r \in Runs, d \in Drafts : BeginCreate(o, r, d)
           \/ \E r \in Runs, d \in AllDocs, b \in 0..MaxVersion : PlanRewrite(o, r, d, b)
           \/ CreateRewrite(o)
    PROVE  DecisionInv'
<1>1. ops \in [Ops -> OpRow] /\ ops[o] \in OpRow
  BY Rows_ DEF IInv
<1>2. history' = history /\ cmds' = cmds
  BY DEF BeginPatch, BeginCreate, PlanRewrite, CreateRewrite
<1>3. \A x \in Ops \ {o} : ops'[x] = ops[x]
  BY <1>1 DEF BeginPatch, BeginCreate, PlanRewrite, CreateRewrite
<1>4. "running" \in Rows \ {"completed"}
  BY DEF Rows, Active, Building
<1>5. ASSUME NEW r \in Runs, NEW d \in AllDocs, NEW kind \in {"edit", "continue"},
             NEW b \in 0..MaxVersion, BeginPatch(o, r, d, kind, b)
      PROVE  Passive(o)
  <2>1. /\ ops[o].status = "none" /\ ops'[o].status = "running"
        /\ ops'[o].applied = 0
    BY <1>1, <1>5 DEF BeginPatch, Blank
  <2> QED
    BY <1>4, <2>1 DEF Passive, Begun
<1>6. ASSUME NEW r \in Runs, NEW d \in Drafts, BeginCreate(o, r, d) PROVE Passive(o)
  <2>1. /\ ops[o].status = "none" /\ ops'[o].status = "running"
        /\ ops'[o].applied = 0
    BY <1>1, <1>6 DEF BeginCreate, Blank
  <2> QED
    BY <1>4, <2>1 DEF Passive, Begun
<1>7. ASSUME NEW r \in Runs, NEW d \in AllDocs, NEW b \in 0..MaxVersion, PlanRewrite(o, r, d, b)
      PROVE  Passive(o)
  BY <1>1, <1>7 DEF PlanRewrite, Blank, Passive
<1>8. ASSUME CreateRewrite(o) PROVE Passive(o)
  <2>1. ops[o].status = "planned" /\ ops'[o] \in {Move(ops[o], "running"), Gone(ops[o])}
    BY <1>1, <1>8 DEF CreateRewrite
  <2>2. /\ Move(ops[o], "running").status = "running"
        /\ Move(ops[o], "running").kind = ops[o].kind
        /\ Gone(ops[o]).status = "gone"
    BY <1>1, <1>4, MoveFacts, GoneFacts
  <2>3. ops[o].kind = "rewrite" \/ ops'[o].status = "gone"
    BY <2>1, <2>2 DEF LeaseInv, OperationShape
  <2> QED
    BY <1>4, <2>1, <2>2, <2>3 DEF Passive, Begun
<1>9. Passive(o)
  BY <1>5, <1>6, <1>7, <1>8
<1>10. \A x \in Ops : Passive(x)
  BY <1>3, <1>9 DEF Passive
<1> QED
  BY <1>2, <1>10, StillDecides

(***************************************************************************)
(* Commands that write no version                                          *)
(***************************************************************************)

\* The items a command leaves applied.
LEMMA AfterApplied ==
    ASSUME NEW op \in OpRow, NEW c \in Command
    PROVE  After(op, c).applied = AppliedAfter(op, c)
BY DEF After, OpRow

\* Only a commit, a rejected item or a closed review completes an operation.
LEMMA TargetsOpen ==
    ASSUME NEW op, op.status # "completed",
           NEW type \in Types \ (Commits \cup {"item.reject", "review.close"})
    PROVE  Target(op, type) # "completed"
BY DEF Target, Types, Commits

\* A command that writes no version moves its operation on without deciding it.
LEMMA AfterMoved ==
    ASSUME IInv, LeaseInv, NEW d \in AllDocs, Deciding(d), Unchanged(cmds[d]),
           cmds[d].type \notin Commits,
           ops'[cmds[d].op] = After(ops[cmds[d].op], cmds[d])
    PROVE  cmds[d].op \in Ops /\ Moved(cmds[d].op)
<1> DEFINE c == cmds[d]
           w == c.op
<1>1. /\ c \in Command /\ c.type \in Types /\ w \in Ops /\ ops[w] \in OpRow
      /\ ops[w].status \in Rows
      /\ ops[w].status \in Active \/ ops[w].status = "conflicted"
  BY TypedOK, CommandFacts
<1>2. w # Null
  BY <1>1, IdsAssumption
<1>3. ops'[w].status = Target(ops[w], c.type) /\ ops'[w].status \in Rows
  BY <1>1, AfterFields, TargetFacts
<1>4. /\ ops'[w].kind = ops[w].kind /\ ops'[w].draft = ops[w].draft
      /\ ops'[w].doc = ops[w].doc
  BY <1>1, AfterFields DEF Commits
<1>5. ops'[w].applied = ops[w].applied
  BY <1>1, AfterApplied DEF AppliedAfter, Commits
<1>6. ops[w].status # "completed"
  BY <1>1, Statuses DEF Terminal
<1>7. ops[w].kind # "continue" => c.type \notin {"item.reject", "review.close"}
  BY <1>1, <1>2 DEF Deciding
<1>8. ops[w].kind # "continue" => ops'[w].status # "completed"
  BY <1>1, <1>3, <1>6, <1>7, TargetsOpen
<1> QED
  BY <1>1, <1>3, <1>4, <1>5, <1>6, <1>8 DEF Moved

LEMMA DecideDecides ==
    ASSUME IInv, IInv', LeaseInv, LeaseInv', DecisionInv, NEW d \in AllDocs,
           DecideCommand(d) \/ DraftCommand(d)
    PROVE  DecisionInv'
<1> DEFINE c == cmds[d]
<1>1. /\ Unchanged(c) /\ c.type \notin Commits
      /\ history' = history /\ ops' = [ops EXCEPT ![c.op] = After(@, c)]
      /\ cmds' = [cmds EXCEPT ![d] = Idle]
  BY DEF DecideCommand, CanDecide, DraftCommand, CanDraft, Commits
<1>2. ops \in [Ops -> OpRow] /\ cmds \in [AllDocs -> Command]
  BY Rows_ DEF IInv
<1>3. c.op \in Ops
  BY <1>1, TypedOK, CommandFacts
<1>4. ops'[c.op] = After(ops[c.op], c) /\ \A o \in Ops \ {c.op} : ops'[o] = ops[o]
  BY <1>1, <1>2, <1>3
<1>5. Moved(c.op)
  BY <1>1, <1>4, AfterMoved DEF DecisionInv
<1>6. \A o \in Ops : Passive(o)
  BY <1>4, <1>5 DEF Passive
<1>7. \A e \in AllDocs : cmds'[e] = cmds[e] \/ cmds'[e] = Idle
  BY <1>1, <1>2
<1> QED
  BY <1>1, <1>6, <1>7, StillDecides

\* A create that is cancelled loses its draft, and wrote nothing.
LEMMA DropDraftDecides ==
    ASSUME IInv, IInv', LeaseInv, LeaseInv', DecisionInv, NEW d \in AllDocs,
           DropDraftCommand(d)
    PROVE  DecisionInv'
<1> DEFINE c == cmds[d]
           O == [ops EXCEPT ![c.op] = After(@, c)]
<1>1. /\ Unchanged(c) /\ c.type \notin Commits
      /\ history' = HistoryWithout({d}) /\ ops' = OpsWithout(O, {d})
      /\ cmds' = [cmds EXCEPT ![d] = Idle]
  BY DEF DropDraftCommand, CanDropDraft, Commits
<1>2. ops \in [Ops -> OpRow] /\ cmds \in [AllDocs -> Command]
  BY Rows_ DEF IInv
<1>3. c.op \in Ops /\ c \in Command
  BY <1>1, TypedOK, CommandFacts
<1>4. After(ops[c.op], c) \in OpRow
  BY <1>1, <1>3, AfterFacts
<1>5. /\ O \in [Ops -> OpRow] /\ O[c.op] = After(ops[c.op], c)
      /\ \A o \in Ops \ {c.op} : O[o] = ops[o]
  BY <1>2, <1>3, <1>4
<1> HIDE DEF O
<1>6. ops'[c.op] = O[c.op] => Moved(c.op)
  BY <1>1, <1>5, AfterMoved DEF DecisionInv
<1>7. OnlyMoved(O)
  BY <1>5, <1>6 DEF OnlyMoved
<1>8. CommandsWait
  BY <1>1, <1>2 DEF CommandsWait
<1> QED
  BY <1>1, <1>5, <1>7, <1>8, WithoutDecides

\* Steps that change no operation and write no version.
LEMMA QuietDecides ==
    ASSUME IInv, IInv', LeaseInv', DecisionInv,
           \/ \E d \in AllDocs : Trash(d) \/ Restore(d) \/ RejectCommand(d)
           \/ \E d \in Docs : SyncDrop(d)
           \/ \E r \in Runs : \/ StartRun(r) \/ DraftEnd(r)
                              \/ \E d \in AllDocs : DraftBegin(r, d)
           \/ UNCHANGED vars
    PROVE  DecisionInv'
<1>1. ops' = ops /\ history' = history
  BY DEF Trash, Restore, RejectCommand, SyncDrop, StartRun, DraftEnd, DraftBegin, vars
<1>2. cmds \in [AllDocs -> Command]
  BY Rows_ DEF IInv
<1>3. \A d \in AllDocs : cmds'[d] = cmds[d] \/ cmds'[d] = Idle
  BY <1>2 DEF Trash, Restore, RejectCommand, SyncDrop, StartRun, DraftEnd, DraftBegin, vars
<1> QED
  BY <1>1, <1>3, StillDecides DEF Passive

\* The end of a run, and an operation that expires.
LEMMA EndDecides ==
    ASSUME IInv, IInv', LeaseInv', DecisionInv,
           \/ \E o \in Ops : Expire(o)
           \/ \E r \in Runs : GiveUp(r) \/ \E completed \in BOOLEAN : FinishRun(r, completed)
    PROVE  DecisionInv'
<1>1. {"expired", "cancelled"} \subseteq Rows \ {"completed"} /\ Building \subseteq Active
  BY Statuses DEF Terminal
<1>2. ASSUME NEW S, NEW s \in Rows \ {"completed"}, \A o \in S : ops[o].status \in Active,
             Settle(S, s), cmds' = cmds
      PROVE  DecisionInv'
  BY <1>2, SettleDecides
<1>3. ASSUME NEW o \in Ops, Expire(o) PROVE DecisionInv'
  <2>1. /\ \A x \in {o} : ops[x].status \in Active
        /\ Settle({o}, "expired") /\ cmds' = cmds
    BY <1>1, <1>3 DEF Expire
  <2> QED
    BY <1>1, <1>2, <2>1
<1>4. ASSUME NEW r \in Runs, NEW statuses \in SUBSET Active,
             Settle(OfRun(r, statuses), "cancelled"), cmds' = cmds
      PROVE  DecisionInv'
  <2>1. \A x \in OfRun(r, statuses) : ops[x].status \in Active
    BY DEF OfRun
  <2> QED
    BY <1>1, <1>2, <1>4, <2>1
<1>5. ASSUME NEW r \in Runs, GiveUp(r) PROVE DecisionInv'
  <2>1. Settle(OfRun(r, Building), "cancelled") /\ cmds' = cmds
    BY <1>5 DEF GiveUp
  <2> QED
    BY <1>1, <1>4, <2>1
<1>6. ASSUME NEW r \in Runs, NEW completed \in BOOLEAN, FinishRun(r, completed)
      PROVE  DecisionInv'
  <2> DEFINE T == IF completed THEN Building ELSE Active
  <2>1. T \in SUBSET Active /\ Settle(OfRun(r, T), "cancelled") /\ cmds' = cmds
    BY <1>1, <1>6 DEF FinishRun
  <2> HIDE DEF T
  <2> QED
    BY <1>4, <2>1
<1> QED
  BY <1>3, <1>5, <1>6

\* A command that starts is one its operation's capability accepts.
LEMMA StartDecides ==
    ASSUME IInv, IInv', LeaseInv', DecisionInv, NEW o \in Ops, NEW type \in Types,
           NEW n \in 0..MaxItems, StartCommand(o, type, n)
    PROVE  DecisionInv'
<1> DEFINE c == [op |-> o, type |-> type, rev |-> ops[o].rev,
                 basis |-> docs[Key(o)].version, items |-> n]
<1>1. /\ Accepts(o, type, n) /\ cmds' = [cmds EXCEPT ![Key(o)] = c]
      /\ ops' = ops /\ history' = history
  BY DEF StartCommand
<1>2. cmds \in [AllDocs -> Command]
  BY Rows_ DEF IInv
<1>3. /\ type \in {"item.accept", "item.reject", "review.close"} => ops[o].kind = "continue"
      /\ type \in {"review.apply", "stream.commit"} => ops[o].kind # "continue"
      /\ type = "item.accept" => n = 1
  <2>1. CASE ops[o].kind = "create"
    BY <1>1, <2>1 DEF Accepts, CreateAccepts
  <2>2. CASE ops[o].kind = "edit"
    BY <1>1, <2>2 DEF Accepts, PatchAccepts, HunkAccepts, PrepareAccepts, EditAccepts
  <2>3. CASE ops[o].kind = "continue"
    BY <1>1, <2>3 DEF Accepts, PatchAccepts, HunkAccepts, PrepareAccepts, ContinueAccepts
  <2>4. CASE ops[o].kind = "rewrite"
    BY <1>1, <2>4 DEF Accepts, RewriteAccepts
  <2> QED
    BY <1>1, <2>1, <2>2, <2>3, <2>4 DEF Accepts
<1>4. ASSUME NEW x \in Ops PROVE Counted(x)'
  <2>1. Counted(x)
    BY DEF DecisionInv
  <2> QED
    BY <1>1, <2>1 DEF Counted, By, Due, Key
<1>5. ASSUME NEW e \in AllDocs PROVE Deciding(e)'
  <2>1. CASE cmds'[e] = cmds[e]
    BY <1>1, <2>1 DEF DecisionInv, Deciding
  <2>2. CASE cmds'[e] = c
    BY <1>1, <1>3, <2>2 DEF Deciding
  <2> QED
    BY <1>1, <1>2, <2>1, <2>2
<1> QED
  BY <1>4, <1>5 DEF DecisionInv

(***************************************************************************)
(* Commits                                                                 *)
(***************************************************************************)

\* What a commit makes of its operation: an item of a continuation more is
\* applied, and any other operation completes.
LEMMA CommitDue ==
    ASSUME IInv, LeaseInv, NEW d \in AllDocs, Deciding(d), Unchanged(cmds[d]),
           NEW w \in Ops, NEW c, c = cmds[d], w = c.op, c.type \in Commits,
           ops'[w] = After(ops[w], c)
    PROVE  /\ ops[w].status \in Active /\ Key(w) = d /\ Key(w)' = d
           /\ ops'[w].status \in Rows /\ ops'[w].kind = ops[w].kind
           /\ Due(w)' = Due(w) + 1
           /\ ops'[w].kind = "create" => ops'[w].doc # Null
<1>1. /\ c \in Command /\ c.type \in Types /\ w \in Ops /\ ops[w] \in OpRow
      /\ ops[w].status \in Rows /\ ops[w].status \in Active /\ Key(w) = d
      /\ ops[w].kind = "create" => ops[w].draft = d /\ c.type = "stream.commit"
      /\ c.type = "stream.commit" => ops[w].kind = "create"
  BY TypedOK, CommandFacts DEF Commits
<1>2. w # Null /\ d # Null
  BY <1>1, IdsAssumption DEF AllDocs
<1>3. /\ c.type = "item.accept" => ops[w].kind = "continue" /\ c.items = 1
      /\ c.type # "item.accept" => ops[w].kind # "continue"
  BY <1>1, <1>2 DEF Deciding, Commits
<1>4. /\ ops'[w].status = Target(ops[w], c.type) /\ ops'[w].status \in Rows
      /\ ops'[w].kind = ops[w].kind /\ ops'[w].draft = ops[w].draft
      /\ ops'[w].doc = IF c.type = "stream.commit" THEN ops[w].draft ELSE ops[w].doc
      /\ ops'[w].applied = AppliedAfter(ops[w], c)
  BY <1>1, AfterFields, TargetFacts, AfterApplied
<1>5. Key(w)' = d
  BY <1>1, <1>4 DEF Key
<1>6. ops'[w].kind = "create" => ops'[w].doc # Null
  BY <1>1, <1>2, <1>4
<1>7. Due(w)' = Due(w) + 1
  <2>1. CASE c.type = "item.accept"
    <3>1. ops'[w].applied = ops[w].applied + 1
      BY <1>3, <1>4, <2>1 DEF AppliedAfter
    <3> QED
      BY <1>3, <1>4, <2>1, <3>1 DEF Due
  <2>2. CASE c.type # "item.accept"
    <3>1. ops'[w].status = "completed"
      BY <1>1, <1>4, <2>2 DEF Target, Commits
    <3>2. ops[w].status # "completed"
      BY <1>1, Statuses DEF Terminal
    <3> QED
      BY <1>3, <1>4, <2>2, <3>1, <3>2 DEF Due
  <2> QED
    BY <2>1, <2>2
<1> QED
  BY <1>1, <1>4, <1>5, <1>6, <1>7

LEMMA CommitDecides ==
    ASSUME IInv, IInv', LeaseInv, LeaseInv', DecisionInv, NEW d \in AllDocs,
           CommitCommand(d)
    PROVE  DecisionInv'
<1>0. PICK w \in Ops, c \in Command : c = cmds[d] /\ w = c.op
  <2>1. Unchanged(cmds[d])
    BY DEF CommitCommand, CanCommit
  <2> QED
    BY <2>1, TypedOK, CommandFacts
<1> DEFINE S == Rivals(d, c.basis + 1, w)
           v == [by |-> w, basis |-> c.basis]
<1>1. /\ c.type \in Commits /\ Unchanged(c)
      /\ history' = [history EXCEPT ![d] = Append(@, v)]
      /\ ops' = [Conflicted(ops, S) EXCEPT ![w] = After(ops[w], c)]
      /\ cmds' = [cmds EXCEPT ![d] = Idle]
  BY <1>0 DEF CommitCommand, CanCommit
<1>2. /\ ops \in [Ops -> OpRow] /\ history \in [AllDocs -> Seq(Version)]
      /\ cmds \in [AllDocs -> Command]
  BY Rows_ DEF IInv
<1>4. \A x \in S : x # w /\ ops[x].status \in Active
  BY DEF Rivals
<1>5. v \in Version
  BY DEF Version, Writers, Command
<1> HIDE DEF S
<1>6. /\ ops'[w] = After(ops[w], c)
      /\ \A x \in Ops \ {w} : ops'[x] = IF x \in S THEN Move(ops[x], "conflicted") ELSE ops[x]
  BY <1>1 DEF Conflicted
<1>7. /\ ops[w].status \in Active /\ Key(w) = d /\ Key(w)' = d
      /\ ops'[w].status \in Rows /\ ops'[w].kind = ops[w].kind
      /\ Due(w)' = Due(w) + 1
      /\ ops'[w].kind = "create" => ops'[w].doc # Null
  BY <1>0, <1>1, <1>6, CommitDue DEF DecisionInv
<1>8. history'[d] = Append(history[d], v) /\ \A e \in AllDocs \ {d} : history'[e] = history[e]
  BY <1>1, <1>2
<1>9. history[d] \in Seq(Version)
  BY <1>2
<1>10. v.by = w
  OBVIOUS
<1> HIDE DEF v
<1>11. Counted(w)'
  <2>1. /\ ops[w].status \in Rows /\ {"none", "planned"} \cap Rows = {} /\ Counted(w)
    BY <1>7, Statuses DEF DecisionInv
  <2>2. Cardinality(By(w, d)) = Due(w)
    BY <1>7, <2>1 DEF Counted
  <2>3. Cardinality(By(w, d)') = Cardinality(By(w, d)) + 1
    BY <1>5, <1>8, <1>9, <1>10, ByAppend
  <2>4. Cardinality(By(w, d)') = Due(w)'
    BY <1>7, <2>2, <2>3
  <2> QED
    BY <1>7, <2>1, <2>4 DEF Counted
<1>12. ASSUME NEW o \in Ops \ {w} PROVE Counted(o)' /\ KindKept(o)
  <2>1. Passive(o)
    <3>1. CASE o \in S
      <4>1. ops'[o] = Move(ops[o], "conflicted")
        BY <1>6, <3>1
      <4>2. "conflicted" \in Rows \ {"completed"}
        BY DEF Rows, Terminal
      <4> QED
        BY <1>2, <1>4, <3>1, <4>1, <4>2, MovedPassive DEF Passive
    <3>2. CASE o \notin S
      BY <1>6, <3>2 DEF Passive
    <3> QED
      BY <3>1, <3>2
  <2>2. ASSUME NEW e \in AllDocs PROVE Standing(o, e)
    <3>1. CASE e = d
      <4>1. By(o, d)' = By(o, d)
        BY <1>5, <1>8, <1>9, <1>10, <1>12, ByAppend
      <4> QED
        BY <3>1, <4>1 DEF Standing
    <3>2. CASE e # d
      BY <1>8, <3>2, ByNone DEF Standing
    <3> QED
      BY <3>1, <3>2
  <2>3. Counted(o)'
    BY <2>1, <2>2, PassiveCounts DEF DecisionInv
  <2>4. KindKept(o)
    BY <2>1, Statuses DEF Passive, Begun, Moved, KindKept
  <2> QED
    BY <2>3, <2>4
<1>13. \A o \in Ops : KindKept(o)
  BY <1>7, <1>12, Statuses DEF KindKept
<1>14. \A e \in AllDocs : cmds'[e] = cmds[e] \/ cmds'[e] = Idle
  BY <1>1, <1>2
<1>15. \A e \in AllDocs : Deciding(e)'
  BY <1>13, <1>14, DecidingKept
<1> QED
  BY <1>11, <1>12, <1>15 DEF DecisionInv

(***************************************************************************)
(* The specification                                                       *)
(***************************************************************************)

\* Nothing is written at first.
LEMMA DecisionInit == Init => DecisionInv
<1> SUFFICES ASSUME Init PROVE DecisionInv
  OBVIOUS
<1>1. ASSUME NEW o \in Ops PROVE Counted(o)
  <2>1. ops[o].status = "none" /\ ops[o].kind = "none"
    BY DEF Init, Blank
  <2>2. \A d \in AllDocs : By(o, d) = {}
    BY DEF Init, By
  <2> QED
    BY <2>1, <2>2, Statuses DEF Counted
<1>2. \A d \in AllDocs : Deciding(d)
  BY DEF Init, Idle, Deciding
<1> QED
  BY <1>1, <1>2 DEF DecisionInv

\* Every step of the kernel, one case per kind of action.
LEMMA DecisionNext ==
    ASSUME IInv, LeaseInv, DecisionInv, [Next]_vars
    PROVE  DecisionInv'
<1>1. IInv' /\ LeaseInv'
  BY NextOK, LeaseNext DEF LeaseStep
<1>2. CASE DocumentStep
  <2>1. ASSUME NEW d \in AllDocs, NEW b \in 0..MaxVersion,
               Save(d, b) \/ \E n \in 1..MaxVersion : RestoreVersion(d, n, b)
        PROVE  DecisionInv'
    <3>1. Advance(d, b) /\ cmds' = cmds
      BY <2>1 DEF Save, RestoreVersion
    <3> QED
      BY <1>1, <3>1, AdvanceDecides
  <2>2. ASSUME NEW S, Delete(S) PROVE DecisionInv'
    BY <1>1, <2>2, DeleteDecides
  <2>3. CASE EmptyTrash
    BY <2>2, <2>3 DEF EmptyTrash
  <2>4. ASSUME NEW d \in AllDocs, DeletePermanently(d) PROVE DecisionInv'
    BY <2>2, <2>4 DEF DeletePermanently
  <2> QED
    BY <1>1, <1>2, <2>1, <2>3, <2>4, ImportDecides, QuietDecides DEF DocumentStep
<1>3. CASE SyncStep
  <2>1. ASSUME NEW d \in Docs, SyncSave(d) PROVE DecisionInv'
    <3>1. d \in AllDocs /\ Advance(d, sync[d]) /\ cmds' = cmds
      BY <2>1 DEF SyncSave, AllDocs
    <3> QED
      BY <1>1, <3>1, AdvanceDecides
  <2> QED
    BY <1>1, <1>3, <2>1, SyncBeginDecides, QuietDecides DEF SyncStep
<1>4. CASE RunStep
  BY <1>1, <1>4, QuietDecides, EndDecides DEF RunStep
<1>5. CASE OperationStep
  BY <1>1, <1>5, BeginDecides, StartDecides, EndDecides DEF OperationStep
<1>6. ASSUME NEW d \in AllDocs, FinishCommand(d) PROVE DecisionInv'
  BY <1>1, <1>6, CommitDecides, DecideDecides, DropDraftDecides, QuietDecides
     DEF FinishCommand
<1>7. CASE Restart
  BY <1>1, <1>7, RestartDecides
<1>8. CASE UNCHANGED vars
  BY <1>1, <1>8, QuietDecides
<1> QED
  BY <1>2, <1>3, <1>4, <1>5, <1>6, <1>7, <1>8 DEF Next

\* The versions an operation wrote are those its decisions account for: one per
\* accepted item of a continuation, one for any other operation that completed,
\* none for one that did not, whatever the conflict pass, the clean-up paths and
\* a restart do between the handler and the transaction of a commit.
THEOREM DecisionsCounted == Spec => []DecisionsAreVersions
<1>1. IInv /\ LeaseInv /\ DecisionInv => DecisionsAreVersions
  <2> SUFFICES ASSUME IInv, LeaseInv, DecisionInv, NEW o \in Ops, ops[o].status \in Rows
               PROVE  Cardinality(Authored(o)) = Due(o)
    BY DEF DecisionsAreVersions, Due
  <2>1. ops[o].kind \in Kinds
    BY DEF LeaseInv, OperationShape
  <2>2. Key(o) \in AllDocs /\ Key(o) # Null
    BY <2>1, KeyFacts, IdsAssumption DEF AllDocs
  <2>3. Cardinality(By(o, Key(o))) = Due(o)
    BY <2>2 DEF DecisionInv, Counted
  <2>4. Authored(o) = By(o, Key(o))
    BY <2>2 DEF Authored, By
  <2> QED
    BY <2>3, <2>4
<1>2. IInv /\ LeaseInv /\ DecisionInv /\ [Next]_vars => DecisionInv'
  BY DecisionNext
<1> QED
  BY <1>1, <1>2, DecisionInit, Invariance, LeaseInvariance, PTL DEF Spec

(***************************************************************************)
(* The end of what is begun                                                *)
(***************************************************************************)

\* What the timer asks of an operation before it ends it: the guard of Expire.
MayExpire(o) ==
    /\ ops[o].status \in Building /\ ops[o].expires
    /\ CanMove(ops[o].status, "expired")
    /\ ops[o].kind = "create" => DraftRemovable(o)

\* Somebody other than a user can end whatever is begun: an operation that
\* holds a document has a deadline the timer can apply, a mark belongs to the
\* dispatch that drafts this very document and will clear it, and an operation
\* that is built has such a deadline or a start command that is still accepted.
EndInSight ==
    /\ \A d \in AllDocs :
          /\ docs[d].lease \in Ops => MayExpire(docs[d].lease)
          /\ docs[d].lease \in Runs => drafting[docs[d].lease] = d
    /\ \A o \in Ops : ops[o].status \in Building =>
          \/ MayExpire(o)
          \/ ops[o].kind = "rewrite" /\ Accepts(o, "operation.start", 1)

\* An operation that is built has a deadline or, a rewrite, its first revision.
Timed(o) ==
    /\ ops[o].status \in Building =>
          IF ops[o].kind = "rewrite" THEN ops[o].rev = 1 ELSE ops[o].expires
    /\ ops[o].status = "planned" => ops[o].rev = 0

\* Nobody appends items to a rewrite.
Hunks(d) ==
    LET c == cmds[d]
    IN  c.op # Null /\ ops[c.op].status \in Rows =>
          (c.type = "item.append" => ops[c.op].kind # "rewrite")

Marked(d) == docs[d].lease \in Runs => drafting[docs[d].lease] = d

EndingInv ==
    /\ \A o \in Ops : Timed(o)
    /\ \A d \in AllDocs : Hunks(d)
    /\ \A d \in AllDocs : Marked(d)

\* What a step may do to an operation so that its end stays in sight, and to the
\* documents so that no mark is left behind.
Tended(o) == ops'[o] = ops[o] \/ (KindKept(o) /\ Timed(o)')
Unmarked ==
    /\ drafting' = drafting
    /\ \A d \in AllDocs : docs'[d].lease \in Runs => docs'[d].lease = docs[d].lease

LEMMA HunksKept ==
    ASSUME IInv, EndingInv, \A o \in Ops : Tended(o),
           NEW d \in AllDocs, cmds'[d] = cmds[d] \/ cmds'[d] = Idle
    PROVE  Hunks(d)'
<1> SUFFICES ASSUME cmds'[d].op # Null, ops'[cmds'[d].op].status \in Rows
             PROVE  Hunks(d)'
  BY DEF Hunks
<1>1. cmds'[d] = cmds[d]
  BY DEF Idle
<1>2. cmds[d].op \in Ops /\ CommandOK(d) /\ Hunks(d)
  BY <1>1, Rows_ DEF IInv, EndingInv, Command
<1>3. /\ ops[cmds[d].op].status \in Rows
      /\ ops'[cmds[d].op].kind = ops[cmds[d].op].kind
  BY <1>1, <1>2 DEF CommandOK, Tended, KindKept
<1> QED
  BY <1>1, <1>2, <1>3 DEF Hunks

LEMMA EndingStep ==
    ASSUME IInv, EndingInv, \A o \in Ops : Tended(o), Unmarked, CommandsWait
    PROVE  EndingInv'
<1>1. \A o \in Ops : Timed(o)'
  BY DEF EndingInv, Tended, Timed
<1>2. \A d \in AllDocs : Hunks(d)'
  BY HunksKept DEF CommandsWait
<1>3. \A d \in AllDocs : Marked(d)'
  BY DEF EndingInv, Marked, Unmarked
<1> QED
  BY <1>1, <1>2, <1>3 DEF EndingInv

\* An operation that ends or goes to review needs no end any more.
LEMMA EndedTended ==
    ASSUME NEW o \in Ops,
           \/ ops'[o].status = "gone"
           \/ /\ ops[o] \in OpRow /\ ops[o].status \in Active
              /\ \E s \in Rows \ Building : ops'[o] = Move(ops[o], s)
    PROVE  Tended(o)
<1>1. CASE ops'[o].status = "gone"
  BY <1>1, Statuses DEF Tended, KindKept, Timed
<1>2. CASE /\ ops[o] \in OpRow /\ ops[o].status \in Active
           /\ \E s \in Rows \ Building : ops'[o] = Move(ops[o], s)
  <2>1. PICK s \in Rows \ Building : ops'[o] = Move(ops[o], s)
    BY <1>2
  <2>2. ops'[o].status = s /\ ops'[o].kind = ops[o].kind
    BY <1>2, <2>1, MoveFacts
  <2>3. ops[o].status \in Rows /\ s # "planned"
    BY <1>2, Statuses
  <2> QED
    BY <2>2, <2>3 DEF Tended, KindKept, Timed
<1> QED
  BY <1>1, <1>2

\* Freeing documents, and deleting some, leaves no mark behind.
LEMMA FreeUnmarked ==
    ASSUME NEW D, NEW S, docs' = Free(D, S), drafting' = drafting,
           docs \in [AllDocs -> DocRow], D \in [AllDocs -> DocRow],
           \A d \in AllDocs : D[d].lease \in {docs[d].lease, Null}
    PROVE  Unmarked
<1>1. \A d \in AllDocs : docs'[d].lease \in {docs[d].lease, Null}
  BY FreeFacts
<1> QED
  BY <1>1, IdsAssumption DEF Unmarked

\* The operations of O, left as they are, ended, or sent to review.
OnlyEnded(O) ==
    \A o \in Ops : \/ O[o] = ops[o]
                   \/ O[o].status = "gone"
                   \/ /\ ops[o].status \in Active
                      /\ \E s \in Rows \ Building : O[o] = Move(ops[o], s)

LEMMA OutsideEnds ==
    ASSUME IInv, EndingInv, NEW E, NEW O, OnlyEnded(O), ops' = OpsWithout(O, E),
           Unmarked, CommandsWait
    PROVE  EndingInv'
<1>1. ops \in [Ops -> OpRow]
  BY Rows_ DEF IInv
<1>2. \A o \in Ops : ops'[o] = O[o] \/ ops'[o] = Gone(O[o])
  BY DEF OpsWithout
<1>3. \A o \in Ops : Gone(O[o]).status = "gone"
  BY DEF Gone, Blank
<1>4. ASSUME NEW o \in Ops PROVE Tended(o)
  <2>1. ops[o] \in OpRow
    BY <1>1
  <2>2. CASE ops'[o] = ops[o]
    BY <2>2 DEF Tended
  <2>3. CASE ops'[o].status = "gone"
    BY <2>3, EndedTended
  <2>4. CASE ops[o].status \in Active /\ \E s \in Rows \ Building : ops'[o] = Move(ops[o], s)
    BY <2>1, <2>4, EndedTended
  <2> QED
    BY <1>2, <1>3, <2>2, <2>3, <2>4 DEF OnlyEnded
<1> QED
  BY <1>4, EndingStep

\* Documents deleted and freed leave no mark.
LEMMA LapseUnmarked ==
    ASSUME IInv, NEW E, NEW S,
           \/ docs' = DocsWithout(docs, E)
           \/ docs' = Free(DocsWithout(docs, E), S),
           drafting' = drafting
    PROVE  Unmarked
<1>1. docs \in [AllDocs -> DocRow] /\ Absent \in DocRow /\ Absent.lease = Null
  BY Rows_ DEF IInv, DocRow, Absent
<1>2. \A d \in AllDocs : DocsWithout(docs, E)[d] \in {docs[d], Absent}
  BY DEF DocsWithout
<1>3. DocsWithout(docs, E) \in [AllDocs -> DocRow]
  BY <1>1 DEF DocsWithout
<1>4. \A d \in AllDocs : DocsWithout(docs, E)[d].lease \in {docs[d].lease, Null}
  BY <1>1, <1>2
<1>5. CASE docs' = DocsWithout(docs, E)
  BY <1>4, <1>5, IdsAssumption DEF Unmarked
<1>6. CASE docs' = Free(DocsWithout(docs, E), S)
  BY <1>1, <1>3, <1>4, <1>6, FreeUnmarked
<1> QED
  BY <1>5, <1>6

LEMMA DeleteEnds ==
    ASSUME IInv, EndingInv, NEW S, Delete(S)
    PROVE  EndingInv'
<1>1. /\ ops' = OpsWithout(ops, S) /\ docs' = DocsWithout(docs, S)
      /\ cmds' = cmds /\ drafting' = drafting
  BY DEF Delete
<1>2. OnlyEnded(ops) /\ CommandsWait
  BY <1>1 DEF OnlyEnded, CommandsWait
<1> QED
  BY <1>1, <1>2, LapseUnmarked, OutsideEnds

LEMMA SettleEnds ==
    ASSUME IInv, EndingInv, NEW S, NEW status \in Rows \ Building,
           \A o \in S : ops[o].status \in Active, Settle(S, status),
           cmds' = cmds, drafting' = drafting
    PROVE  EndingInv'
<1> DEFINE O == [o \in Ops |-> IF o \in S THEN Move(ops[o], status) ELSE ops[o]]
<1>1. /\ ops' = OpsWithout(O, DraftsOf(S))
      /\ docs' = Free(DocsWithout(docs, DraftsOf(S)), S)
  BY DEF Settle
<1>2. \A o \in Ops : O[o] = IF o \in S THEN Move(ops[o], status) ELSE ops[o]
  OBVIOUS
<1> HIDE DEF O
<1>3. OnlyEnded(O) /\ CommandsWait
  BY <1>2 DEF OnlyEnded, CommandsWait
<1> QED
  BY <1>1, <1>3, LapseUnmarked, OutsideEnds

\* The end of a run, and an operation that expires.
LEMMA EndEnds ==
    ASSUME IInv, EndingInv,
           \/ \E o \in Ops : Expire(o)
           \/ \E r \in Runs : GiveUp(r) \/ \E completed \in BOOLEAN : FinishRun(r, completed)
    PROVE  EndingInv'
<1>1. /\ {"expired", "cancelled"} \subseteq Rows \ Building
      /\ Building \subseteq Active
  BY Statuses DEF Terminal, Building
<1>2. ASSUME NEW o \in Ops, Expire(o) PROVE EndingInv'
  <2>1. /\ \A x \in {o} : ops[x].status \in Active
        /\ Settle({o}, "expired") /\ cmds' = cmds /\ drafting' = drafting
    BY <1>1, <1>2 DEF Expire
  <2> QED
    BY <1>1, <2>1, SettleEnds
<1>3. ASSUME NEW r \in Runs, NEW statuses \in SUBSET Active,
             Settle(OfRun(r, statuses), "cancelled"), cmds' = cmds, drafting' = drafting
      PROVE  EndingInv'
  <2>1. \A x \in OfRun(r, statuses) : ops[x].status \in Active
    BY DEF OfRun
  <2> QED
    BY <1>1, <1>3, <2>1, SettleEnds
<1>4. ASSUME NEW r \in Runs, GiveUp(r) PROVE EndingInv'
  <2>1. Settle(OfRun(r, Building), "cancelled") /\ cmds' = cmds /\ drafting' = drafting
    BY <1>4 DEF GiveUp
  <2> QED
    BY <1>1, <1>3, <2>1
<1>5. ASSUME NEW r \in Runs, NEW completed \in BOOLEAN, FinishRun(r, completed)
      PROVE  EndingInv'
  <2> DEFINE T == IF completed THEN Building ELSE Active
  <2>1. /\ T \in SUBSET Active /\ Settle(OfRun(r, T), "cancelled")
        /\ cmds' = cmds /\ drafting' = drafting
    BY <1>1, <1>5 DEF FinishRun
  <2> HIDE DEF T
  <2> QED
    BY <1>3, <2>1
<1> QED
  BY <1>2, <1>4, <1>5

\* After a restart nobody drafts, and no document is marked.
LEMMA RestartEnds ==
    ASSUME IInv, EndingInv, Restart
    PROVE  EndingInv'
<1> DEFINE R == {o \in Ops : ops[o].status \in {"running", "applying"}}
           F == {o \in R : ops[o].kind = "create"}
           O == [o \in Ops |-> IF ops[o].status = "planned" THEN Gone(ops[o])
                               ELSE IF o \in F THEN Move(ops[o], "failed")
                               ELSE IF o \in R THEN Move(ops[o], "awaiting_review")
                               ELSE ops[o]]
           D == DocsWithout(docs, DraftsOf(F))
<1>1. /\ ops' = OpsWithout(O, DraftsOf(F)) /\ docs' = Free(D, R \cup Runs)
      /\ cmds' = [d \in AllDocs |-> Idle]
  BY DEF Restart
<1>2. {"failed", "awaiting_review"} \subseteq Rows \ Building
  BY DEF Rows, Active, Terminal, Building
<1>3. \A o \in Ops : \/ O[o] = ops[o]
                     \/ O[o] = Gone(ops[o])
                     \/ /\ ops[o].status \in Active
                        /\ \E s \in {"failed", "awaiting_review"} : O[o] = Move(ops[o], s)
  BY Statuses
<1>4. D \in [AllDocs -> DocRow]
  <2>1. docs \in [AllDocs -> DocRow] /\ Absent \in DocRow
    BY Rows_ DEF IInv, DocRow, Absent
  <2> QED
    BY <2>1 DEF DocsWithout
<1> HIDE DEF O, R, F, D
<1>5. ASSUME NEW o \in Ops PROVE Timed(o)'
  <2>1. ops'[o] = O[o] \/ ops'[o] = Gone(O[o])
    BY <1>1 DEF OpsWithout
  <2>2. ops[o] \in OpRow /\ Gone(O[o]).status = "gone" /\ Gone(ops[o]).status = "gone"
    BY Rows_ DEF IInv, Gone, Blank
  <2>3. CASE ops'[o] = ops[o]
    BY <2>3 DEF EndingInv, Timed
  <2>4. CASE ops'[o].status = "gone"
    BY <2>4, Statuses DEF Timed
  <2>5. CASE \E s \in {"failed", "awaiting_review"} : ops'[o] = Move(ops[o], s)
    <3>1. ops'[o].status \in {"failed", "awaiting_review"}
      BY <1>2, <2>2, <2>5, MoveFacts
    <3> QED
      BY <1>2, <3>1 DEF Timed
  <2> QED
    BY <1>3, <2>1, <2>2, <2>3, <2>4, <2>5
<1>6. \A d \in AllDocs : Hunks(d)'
  BY <1>1 DEF Hunks, Idle
<1>7. \A d \in AllDocs : docs'[d].lease \notin Runs
  BY <1>1, <1>4, FreeFacts, IdsAssumption
<1> QED
  BY <1>5, <1>6, <1>7 DEF EndingInv, Marked

\* Open operations that are conflicted, and their documents freed.
LEMMA ConflictEnds ==
    ASSUME IInv, EndingInv, NEW S, NEW D \in [AllDocs -> DocRow],
           ops' = Conflicted(ops, S), docs' = Free(D, S),
           \A x \in S : ops[x].status \in Active,
           \A e \in AllDocs : D[e].lease = docs[e].lease,
           cmds' = cmds, drafting' = drafting
    PROVE  EndingInv'
<1>1. docs \in [AllDocs -> DocRow] /\ ops \in [Ops -> OpRow]
  BY Rows_ DEF IInv
<1>2. Unmarked
  BY <1>1, FreeUnmarked
<1>3. ASSUME NEW o \in Ops PROVE Tended(o)
  <2>1. CASE o \in S
    <3>1. ops'[o] = Move(ops[o], "conflicted") /\ ops[o].status \in Active
      BY <2>1 DEF Conflicted
    <3>2. "conflicted" \in Rows \ Building
      BY DEF Rows, Terminal, Building
    <3> QED
      BY <1>1, <3>1, <3>2, EndedTended
  <2>2. CASE o \notin S
    BY <2>2 DEF Conflicted, Tended
  <2> QED
    BY <2>1, <2>2
<1> QED
  BY <1>2, <1>3, EndingStep DEF CommandsWait

\* A version that nobody's operation wrote.
LEMMA AdvanceEnds ==
    ASSUME IInv, EndingInv, NEW d \in AllDocs, NEW b, Advance(d, b),
           cmds' = cmds, drafting' = drafting
    PROVE  EndingInv'
<1> DEFINE S == Rivals(d, b + 1, Null)
           D == [docs EXCEPT ![d].version = b + 1]
<1>1. docs \in [AllDocs -> DocRow]
  BY Rows_ DEF IInv
<1>2. ops' = Conflicted(ops, S) /\ docs' = Free(D, S) /\ b \in Nat
  BY <1>1 DEF Advance, DocRow
<1>3. D \in [AllDocs -> DocRow] /\ \A e \in AllDocs : D[e].lease = docs[e].lease
  BY <1>1, <1>2 DEF DocRow
<1>4. \A x \in S : ops[x].status \in Active
  BY DEF Rivals
<1> HIDE DEF S, D
<1> QED
  BY <1>2, <1>3, <1>4, ConflictEnds

\* A changed source.
LEMMA SyncBeginEnds ==
    ASSUME IInv, EndingInv, NEW d \in Docs, NEW changed \in BOOLEAN, SyncBegin(d, changed)
    PROVE  EndingInv'
<1> DEFINE S == IF changed THEN Rivals(d, docs[d].version + 1, Null) ELSE {}
<1>1. docs \in [AllDocs -> DocRow]
  BY Rows_ DEF IInv
<1>2. /\ ops' = Conflicted(ops, S) /\ docs' = Free(docs, S)
      /\ cmds' = cmds /\ drafting' = drafting
  BY DEF SyncBegin
<1>3. \A x \in S : ops[x].status \in Active
  BY DEF Rivals
<1> HIDE DEF S
<1> QED
  BY <1>1, <1>2, <1>3, ConflictEnds

\* An operation is begun with a deadline, or, a rewrite, for its first command.
LEMMA BeginEnds ==
    ASSUME IInv, LeaseInv, EndingInv, NEW o \in Ops,
           \/ \E r \in Runs, d \in AllDocs, kind \in {"edit", "continue"}, b \in 0..MaxVersion :
                 BeginPatch(o, r, d, kind, b)
           \/ \E r \in Runs, d \in Drafts : BeginCreate(o, r, d)
           \/ \E r \in Runs, d \in AllDocs, b \in 0..MaxVersion : PlanRewrite(o, r, d, b)
           \/ CreateRewrite(o)
    PROVE  EndingInv'
<1>1. /\ ops \in [Ops -> OpRow] /\ ops[o] \in OpRow
      /\ docs \in [AllDocs -> DocRow] /\ o \notin Runs
  BY Rows_, IdsAssumption DEF IInv
<1>2. /\ cmds' = cmds /\ drafting' = drafting
      /\ \A d \in AllDocs : docs'[d].lease = docs[d].lease \/ docs'[d].lease = o
  BY <1>1 DEF BeginPatch, BeginCreate, PlanRewrite, CreateRewrite, DocRow
<1>3. \A x \in Ops \ {o} : ops'[x] = ops[x]
  BY <1>1 DEF BeginPatch, BeginCreate, PlanRewrite, CreateRewrite
<1>4. /\ "running" \in Rows /\ {"none", "planned", "gone"} \cap Rows = {}
      /\ "planned" \notin Building
  BY Statuses DEF Building
<1>5. ASSUME NEW r \in Runs, NEW d \in AllDocs, NEW kind \in {"edit", "continue"},
             NEW b \in 0..MaxVersion, BeginPatch(o, r, d, kind, b)
      PROVE  Tended(o)
  <2>1. /\ ops[o].status = "none" /\ ops'[o].status = "running"
        /\ ops'[o].kind # "rewrite" /\ ops'[o].expires
    BY <1>1, <1>5 DEF BeginPatch, Blank
  <2> QED
    BY <1>4, <2>1 DEF Tended, KindKept, Timed
<1>6. ASSUME NEW r \in Runs, NEW d \in Drafts, BeginCreate(o, r, d) PROVE Tended(o)
  <2>1. /\ ops[o].status = "none" /\ ops'[o].status = "running"
        /\ ops'[o].kind # "rewrite" /\ ops'[o].expires
    BY <1>1, <1>6 DEF BeginCreate, Blank
  <2> QED
    BY <1>4, <2>1 DEF Tended, KindKept, Timed
<1>7. ASSUME NEW r \in Runs, NEW d \in AllDocs, NEW b \in 0..MaxVersion, PlanRewrite(o, r, d, b)
      PROVE  Tended(o)
  <2>1. ops[o].status = "none" /\ ops'[o].status = "planned" /\ ops'[o].rev = 0
    BY <1>1, <1>7 DEF PlanRewrite, Blank
  <2> QED
    BY <1>4, <2>1 DEF Tended, KindKept, Timed
<1>8. ASSUME CreateRewrite(o) PROVE Tended(o)
  <2>1. ops[o].status = "planned" /\ ops'[o] \in {Move(ops[o], "running"), Gone(ops[o])}
    BY <1>1, <1>8 DEF CreateRewrite
  <2>2. CASE ops'[o] = Move(ops[o], "running")
    <3>1. ops[o].kind = "rewrite" /\ ops[o].rev = 0
      BY <2>1 DEF LeaseInv, OperationShape, EndingInv, Timed
    <3>2. ops'[o].status = "running" /\ ops'[o].kind = "rewrite" /\ ops'[o].rev = 1
      BY <1>1, <1>4, <2>2, <3>1, MoveFacts
    <3> QED
      BY <1>4, <2>1, <3>2 DEF Tended, KindKept, Timed
  <2>3. CASE ops'[o] = Gone(ops[o])
    BY <1>1, <2>3, GoneFacts, EndedTended
  <2> QED
    BY <2>1, <2>2, <2>3
<1>9. Tended(o)
  BY <1>5, <1>6, <1>7, <1>8
<1>10. \A x \in Ops : Tended(x)
  BY <1>3, <1>9 DEF Tended
<1>11. Unmarked /\ CommandsWait
  BY <1>1, <1>2 DEF Unmarked, CommandsWait
<1> QED
  BY <1>10, <1>11, EndingStep

\* Steps that change no operation, no drafting and no lease.
LEMMA QuietEnds ==
    ASSUME IInv, EndingInv,
           \/ \E d \in Docs : Import(d) \/ SyncDrop(d)
           \/ \E d \in AllDocs : Trash(d) \/ Restore(d) \/ RejectCommand(d)
           \/ \E r \in Runs : StartRun(r)
           \/ UNCHANGED vars
    PROVE  EndingInv'
<1>1. docs \in [AllDocs -> DocRow] /\ cmds \in [AllDocs -> Command]
  BY Rows_ DEF IInv
<1>2. ops' = ops /\ drafting' = drafting
  BY DEF Import, SyncDrop, Trash, Restore, RejectCommand, StartRun, vars
<1>3. \A d \in AllDocs : docs'[d].lease \in {docs[d].lease, Null}
  <2>1. CASE docs' = docs
    BY <2>1
  <2>2. ASSUME NEW d \in Docs, Import(d), NEW e \in AllDocs
        PROVE  docs'[e].lease \in {docs[e].lease, Null}
    <3>1. [Absent EXCEPT !.status = "active", !.version = 1].lease = Null
      BY DEF Absent
    <3> QED
      BY <1>1, <2>2, <3>1 DEF Import
  <2>3. ASSUME NEW d \in AllDocs, Trash(d) \/ Restore(d), NEW e \in AllDocs
        PROVE  docs'[e].lease = docs[e].lease
    BY <1>1, <2>3 DEF Trash, Restore, DocRow
  <2> QED
    BY <2>1, <2>2, <2>3 DEF SyncDrop, RejectCommand, StartRun, vars
<1>4. CommandsWait
  BY <1>1 DEF Import, SyncDrop, Trash, Restore, RejectCommand, StartRun, vars, CommandsWait
<1>5. Unmarked
  BY <1>2, <1>3, IdsAssumption DEF Unmarked
<1> QED
  BY <1>2, <1>4, <1>5, EndingStep DEF Tended

\* A run marks one document at a time, and its dispatch clears what it marked.
LEMMA DispatchEnds ==
    ASSUME IInv, EndingInv, NEW r \in Runs,
           DraftEnd(r) \/ \E d \in AllDocs : DraftBegin(r, d)
    PROVE  EndingInv'
<1>1. /\ docs \in [AllDocs -> DocRow] /\ drafting \in [Runs -> AllDocs \cup {Null}]
      /\ Null \notin AllDocs /\ Null \notin Runs
  BY Rows_, IdsAssumption DEF IInv, AllDocs
<1>2. ops' = ops /\ cmds' = cmds
  BY DEF DraftEnd, DraftBegin
<1>3. ASSUME DraftEnd(r), NEW e \in AllDocs PROVE Marked(e)'
  <2>1. /\ drafting[r] \in AllDocs /\ drafting' = [drafting EXCEPT ![r] = Null]
        /\ docs' = [docs EXCEPT ![drafting[r]].lease = IF @ \in Runs THEN Null ELSE @]
    BY <1>1, <1>3 DEF DraftEnd
  <2>2. CASE e = drafting[r]
    <3>1. docs'[e].lease \notin Runs
      BY <1>1, <2>1, <2>2 DEF DocRow
    <3> QED
      BY <3>1 DEF Marked
  <2>3. CASE e # drafting[r]
    <3>1. docs'[e] = docs[e] /\ Marked(e)
      BY <1>1, <2>1, <2>3 DEF EndingInv
    <3> QED
      BY <1>1, <2>1, <2>3, <3>1 DEF Marked
  <2> QED
    BY <2>2, <2>3
<1>4. ASSUME NEW d \in AllDocs, DraftBegin(r, d), NEW e \in AllDocs PROVE Marked(e)'
  <2>1. /\ drafting[r] = Null /\ drafting' = [drafting EXCEPT ![r] = d]
        /\ docs' = [docs EXCEPT ![d].lease = IF @ = Null THEN r ELSE @]
    BY <1>4 DEF DraftBegin
  <2>2. docs'[e].lease = docs[e].lease \/ (e = d /\ docs'[e].lease = r)
    BY <1>1, <2>1 DEF DocRow
  <2>3. drafting'[r] = d /\ \A x \in Runs \ {r} : drafting'[x] = drafting[x]
    BY <1>1, <2>1
  <2>4. Marked(e)
    BY DEF EndingInv
  <2> QED
    BY <1>1, <2>1, <2>2, <2>3, <2>4 DEF Marked
<1>5. \A e \in AllDocs : Marked(e)'
  BY <1>3, <1>4
<1> QED
  BY <1>2, <1>5 DEF EndingInv, Timed, Hunks

\* Only a patch takes items.
LEMMA StartEnds ==
    ASSUME IInv, EndingInv, NEW o \in Ops, NEW type \in Types, NEW n \in 0..MaxItems,
           StartCommand(o, type, n)
    PROVE  EndingInv'
<1> DEFINE c == [op |-> o, type |-> type, rev |-> ops[o].rev,
                 basis |-> docs[Key(o)].version, items |-> n]
<1>1. /\ Accepts(o, type, n) /\ cmds' = [cmds EXCEPT ![Key(o)] = c]
      /\ ops' = ops /\ docs' = docs /\ drafting' = drafting
  BY DEF StartCommand
<1>2. cmds \in [AllDocs -> Command]
  BY Rows_ DEF IInv
<1>3. type = "item.append" => ops[o].kind # "rewrite"
  BY <1>1 DEF Accepts, RewriteAccepts
<1>4. ASSUME NEW e \in AllDocs PROVE Hunks(e)'
  <2>1. CASE cmds'[e] = cmds[e]
    BY <1>1, <2>1 DEF EndingInv, Hunks
  <2>2. CASE cmds'[e] = c
    BY <1>1, <1>3, <2>2 DEF Hunks
  <2> QED
    BY <1>1, <1>2, <2>1, <2>2
<1> QED
  BY <1>1, <1>4 DEF EndingInv, Timed, Marked

\* The deadline a command leaves.
LEMMA AfterExpires ==
    ASSUME NEW op \in OpRow, NEW c \in Command
    PROVE  /\ c.type = "stream.append" => After(op, c).expires
           /\ c.type \notin {"stream.append", "operation.prepare", "operation.start"} =>
                 After(op, c).expires = op.expires
<1>1. After(op, c).expires =
        CASE c.type = "stream.append" -> TRUE
          [] c.type \in {"operation.prepare", "operation.start"} -> FALSE
          [] OTHER -> op.expires
  BY DEF After, OpRow
<1> QED
  BY <1>1

\* A command leaves its operation's end in sight, or its building over.
LEMMA CommandTended ==
    ASSUME IInv, LeaseInv, EndingInv, NEW d \in AllDocs, NEW c, c = cmds[d],
           Unchanged(c), ops'[c.op] = After(ops[c.op], c)
    PROVE  c.op \in Ops /\ Tended(c.op)
<1>1. /\ c \in Command /\ c.type \in Types /\ c.op \in Ops /\ ops[c.op] \in OpRow
      /\ ops[c.op].status \in Rows
      /\ ops[c.op].status \in Active \/ c.type = "operation.cancel"
      /\ c.type \in {"stream.begin", "stream.append", "stream.commit"} =>
            ops[c.op].kind = "create"
  BY TypedOK, CommandFacts
<1> DEFINE w == c.op
<1>2. /\ ops'[w].status = Target(ops[w], c.type) /\ ops'[w].status \in Rows
      /\ ops'[w].kind = ops[w].kind
  BY <1>1, AfterFields, TargetFacts
<1>3. /\ Timed(w) /\ OperationShape(w) /\ Hunks(d) /\ w # Null /\ "planned" \notin Rows
  BY <1>1, IdsAssumption, Statuses DEF EndingInv, LeaseInv
<1>4. CASE c.type = "stream.append"
  BY <1>1, <1>2, <1>3, <1>4, AfterExpires DEF Tended, KindKept, Timed
<1>5. CASE c.type = "stream.begin"
  <2>1. ops[w].status = "running" /\ ops[w].kind = "create"
    BY <1>1, <1>3, <1>5 DEF OperationShape
  <2>2. ops[w].expires
    BY <1>3, <2>1 DEF Timed, Building
  <2>3. ops'[w].expires
    BY <1>1, <1>5, <2>2, AfterExpires
  <2> QED
    BY <1>1, <1>2, <1>3, <2>1, <2>3 DEF Tended, KindKept, Timed
<1>6. CASE c.type = "item.append"
  <2>1. ops[w].kind # "rewrite"
    BY <1>1, <1>3, <1>6 DEF Hunks
  <2>2. ops'[w].status = ops[w].status /\ ops'[w].expires = ops[w].expires
    BY <1>1, <1>2, <1>6, Targets, AfterExpires
  <2> QED
    BY <1>1, <1>2, <1>3, <2>1, <2>2 DEF Tended, KindKept, Timed
<1>7. CASE c.type \notin {"stream.begin", "stream.append", "item.append"}
  <2>1. ops'[w].status \in Terminal \cup {"awaiting_review"}
    BY <1>1, <1>2, <1>7, Targets
  <2>2. ops'[w].status \notin Building
    BY <2>1, Statuses
  <2> QED
    BY <1>1, <1>2, <1>3, <2>2 DEF Tended, KindKept, Timed
<1> QED
  BY <1>1, <1>4, <1>5, <1>6, <1>7

LEMMA FinishEnds ==
    ASSUME IInv, LeaseInv, EndingInv, NEW d \in AllDocs,
           CommitCommand(d) \/ DecideCommand(d) \/ DraftCommand(d) \/ DropDraftCommand(d)
    PROVE  EndingInv'
<1> DEFINE c == cmds[d]
<1>1. /\ docs \in [AllDocs -> DocRow] /\ ops \in [Ops -> OpRow]
      /\ cmds \in [AllDocs -> Command]
  BY Rows_ DEF IInv
<1>2. Unchanged(c) /\ cmds' = [cmds EXCEPT ![d] = Idle] /\ drafting' = drafting
  BY DEF CommitCommand, CanCommit, DecideCommand, CanDecide, DraftCommand, CanDraft,
         DropDraftCommand, CanDropDraft
<1>3. c \in Command /\ c.op \in Ops /\ ops[c.op] \in OpRow
  BY <1>2, TypedOK, CommandFacts
<1>4. ops'[c.op] = After(ops[c.op], c) => Tended(c.op)
  BY <1>2, CommandTended
<1>5. CommandsWait
  BY <1>1, <1>2 DEF CommandsWait
<1>6. CASE DecideCommand(d) \/ DraftCommand(d)
  <2>1. ops' = [ops EXCEPT ![c.op] = After(@, c)]
    BY <1>6 DEF DecideCommand, DraftCommand
  <2>2. ASSUME NEW o \in Ops PROVE Tended(o)
    <3>1. CASE o = c.op
      BY <1>1, <1>4, <2>1, <3>1
    <3>2. CASE o # c.op
      BY <1>1, <2>1, <3>2 DEF Tended
    <3> QED
      BY <3>1, <3>2
  <2>3. CASE DecideCommand(d)
    <3>1. docs' = Free(docs, Releases(c))
      BY <2>3 DEF DecideCommand
    <3>2. Unmarked
      BY <1>1, <1>2, <3>1, FreeUnmarked
    <3> QED
      BY <1>5, <2>2, <3>2, EndingStep
  <2>4. CASE DraftCommand(d)
    <3>1. docs' = [docs EXCEPT ![d] = [Absent EXCEPT !.status = "draft", !.lease = c.op]]
      BY <2>4 DEF DraftCommand
    <3>2. docs'[d].lease = c.op /\ c.op \notin Runs
          /\ \A e \in AllDocs \ {d} : docs'[e] = docs[e]
      BY <1>1, <1>3, <3>1, IdsAssumption DEF Absent
    <3>3. Unmarked
      BY <1>2, <3>2 DEF Unmarked
    <3> QED
      BY <1>5, <2>2, <3>3, EndingStep
  <2> QED
    BY <1>6, <2>3, <2>4
<1>7. CASE CommitCommand(d)
  <2> DEFINE S == Rivals(d, c.basis + 1, c.op)
             D == [docs EXCEPT ![d].version = c.basis + 1,
                               ![d].status = IF c.type = "stream.commit"
                                             THEN "active" ELSE @]
  <2>1. /\ ops' = [Conflicted(ops, S) EXCEPT ![c.op] = After(ops[c.op], c)]
        /\ docs' = Free(D, S \cup Releases(c))
    BY <1>7 DEF CommitCommand
  <2>2. c.basis + 1 \in Nat
    BY <1>3 DEF Command
  <2>3. D \in [AllDocs -> DocRow] /\ \A e \in AllDocs : D[e].lease = docs[e].lease
    BY <1>1, <2>2 DEF DocRow
  <2>4. \A x \in S : ops[x].status \in Active
    BY DEF Rivals
  <2> HIDE DEF S, D
  <2>5. Unmarked
    BY <1>1, <1>2, <2>1, <2>3, FreeUnmarked
  <2>6. /\ ops'[c.op] = After(ops[c.op], c)
        /\ \A o \in Ops \ {c.op} :
              ops'[o] = IF o \in S THEN Move(ops[o], "conflicted") ELSE ops[o]
    BY <1>3, <2>1 DEF Conflicted
  <2>7. "conflicted" \in Rows \ Building
    BY DEF Rows, Terminal, Building
  <2>8. ASSUME NEW o \in Ops PROVE Tended(o)
    <3>1. CASE o = c.op
      BY <1>4, <2>6, <3>1
    <3>2. CASE o # c.op /\ o \in S
      <4>1. ops'[o] = Move(ops[o], "conflicted") /\ ops[o].status \in Active
        BY <2>4, <2>6, <3>2
      <4> QED
        BY <1>1, <2>7, <4>1, EndedTended
    <3>3. CASE o # c.op /\ o \notin S
      BY <2>6, <3>3 DEF Tended
    <3> QED
      BY <3>1, <3>2, <3>3
  <2> QED
    BY <1>5, <2>5, <2>8, EndingStep
<1>8. CASE DropDraftCommand(d)
  <2> DEFINE O == [ops EXCEPT ![c.op] = After(@, c)]
  <2>1. ops' = OpsWithout(O, {d}) /\ docs' = DocsWithout(docs, {d})
    BY <1>8 DEF DropDraftCommand
  <2>2. O[c.op] = After(ops[c.op], c) /\ \A o \in Ops \ {c.op} : O[o] = ops[o]
    BY <1>1, <1>3
  <2> HIDE DEF O
  <2>3. \A o \in Ops : ops'[o] = O[o] \/ ops'[o].status = "gone"
    BY <2>1 DEF OpsWithout, Gone, Blank
  <2>4. ASSUME NEW o \in Ops PROVE Tended(o)
    <3>1. CASE ops'[o].status = "gone"
      BY <3>1, EndedTended
    <3>2. CASE ops'[o] = O[o] /\ o = c.op
      BY <1>4, <2>2, <3>2
    <3>3. CASE ops'[o] = O[o] /\ o # c.op
      BY <2>2, <3>3 DEF Tended
    <3> QED
      BY <2>3, <3>1, <3>2, <3>3
  <2>5. Unmarked
    BY <1>2, <2>1, LapseUnmarked
  <2> QED
    BY <1>5, <2>4, <2>5, EndingStep
<1> QED
  BY <1>6, <1>7, <1>8

LEMMA EndingInit == Init => EndingInv
<1> SUFFICES ASSUME Init PROVE EndingInv
  OBVIOUS
<1>1. \A o \in Ops : Timed(o)
  BY DEF Init, Blank, Timed, Building
<1>2. \A d \in AllDocs : Hunks(d) /\ Marked(d)
  BY IdsAssumption DEF Init, Idle, Absent, Hunks, Marked
<1> QED
  BY <1>1, <1>2 DEF EndingInv

\* Every step of the kernel, one case per kind of action.
LEMMA EndingNext ==
    ASSUME IInv, LeaseInv, EndingInv, [Next]_vars
    PROVE  EndingInv'
<1>1. CASE DocumentStep
  <2>1. ASSUME NEW d \in AllDocs, NEW b \in 0..MaxVersion,
               Save(d, b) \/ \E n \in 1..MaxVersion : RestoreVersion(d, n, b)
        PROVE  EndingInv'
    <3>1. Advance(d, b) /\ cmds' = cmds /\ drafting' = drafting
      BY <2>1 DEF Save, RestoreVersion
    <3> QED
      BY <3>1, AdvanceEnds
  <2>2. CASE EmptyTrash
    BY <2>2, DeleteEnds DEF EmptyTrash
  <2>3. ASSUME NEW d \in AllDocs, DeletePermanently(d) PROVE EndingInv'
    BY <2>3, DeleteEnds DEF DeletePermanently
  <2> QED
    BY <1>1, <2>1, <2>2, <2>3, QuietEnds DEF DocumentStep
<1>2. CASE SyncStep
  <2>1. ASSUME NEW d \in Docs, SyncSave(d) PROVE EndingInv'
    <3>1. /\ d \in AllDocs /\ Advance(d, sync[d])
          /\ cmds' = cmds /\ drafting' = drafting
      BY <2>1 DEF SyncSave, AllDocs
    <3> QED
      BY <3>1, AdvanceEnds
  <2> QED
    BY <1>2, <2>1, SyncBeginEnds, QuietEnds DEF SyncStep
<1>3. CASE RunStep
  BY <1>3, QuietEnds, DispatchEnds, EndEnds DEF RunStep
<1>4. CASE OperationStep
  BY <1>4, BeginEnds, StartEnds, EndEnds DEF OperationStep
<1>5. ASSUME NEW d \in AllDocs, FinishCommand(d) PROVE EndingInv'
  BY <1>5, FinishEnds, QuietEnds DEF FinishCommand
<1>6. CASE Restart
  BY <1>6, RestartEnds
<1>7. CASE UNCHANGED vars
  BY <1>7, QuietEnds
<1> QED
  BY <1>1, <1>2, <1>3, <1>4, <1>5, <1>6, <1>7 DEF Next

\* Nothing is begun without somebody who can end it: every lease of an operation
\* and every draft can expire, every mark is that of a dispatch under way on that
\* document, and a selection rewrite that runs can still be started.
THEOREM AlwaysInSight == Spec => []EndInSight
<1>1. IInv /\ LeaseInv /\ EndingInv => EndInSight
  <2> SUFFICES ASSUME IInv, LeaseInv, EndingInv PROVE EndInSight
    OBVIOUS
  <2>1. ASSUME NEW o \in Ops, ops[o].status \in Building, ops[o].kind # "rewrite"
        PROVE  MayExpire(o)
    <3>1. ops[o].status \in Active /\ ops[o].status = "running"
      BY <2>1, Statuses DEF LeaseInv, OperationShape
    <3>2. CanMove("running", "expired")
      BY DEF CanMove, Transitions
    <3>3. ops[o].expires
      BY <2>1 DEF EndingInv, Timed
    <3>4. ops[o].kind = "create" => DraftRemovable(o)
      BY <3>1, TypedOK, DraftFacts DEF DraftRemovable, Absent
    <3> QED
      BY <2>1, <3>1, <3>2, <3>3, <3>4 DEF MayExpire
  <2>2. ASSUME NEW o \in Ops, ops[o].status \in Building, ops[o].kind = "rewrite"
        PROVE  Accepts(o, "operation.start", 1)
    <3>1. ops[o].rev = 1
      BY <2>2 DEF EndingInv, Timed
    <3> QED
      BY <2>2, <3>1 DEF Accepts, RewriteAccepts
  <2>3. ASSUME NEW d \in AllDocs, docs[d].lease \in Ops PROVE MayExpire(docs[d].lease)
    <3>1. /\ ops[docs[d].lease].status \in Building
          /\ ops[docs[d].lease].kind # "rewrite"
      BY <2>3 DEF LeaseInv, DocumentShape, Patch
    <3> QED
      BY <2>1, <2>3, <3>1
  <2>4. \A d \in AllDocs : Marked(d)
    BY DEF EndingInv
  <2> QED
    BY <2>1, <2>2, <2>3, <2>4 DEF EndInSight, Marked
<1>2. IInv /\ LeaseInv /\ EndingInv /\ [Next]_vars => EndingInv'
  BY EndingNext
<1> QED
  BY <1>1, <1>2, EndingInit, Invariance, LeaseInvariance, PTL DEF Spec
=============================================================================
