--------------------------- MODULE SubagentsProofs ---------------------------
(***************************************************************************)
(* Theorems about Subagents, for any agents, keys, dispatches and limits:  *)
(* a slot is held by exactly the invocations whose row says running, the   *)
(* limits are kept, and everyone who is told an outcome is told the one    *)
(* that was written.                                                       *)
(***************************************************************************)
EXTENDS Subagents, FiniteSetTheorems, TLAPS

\* A runtime that has not answered yet has its flow waiting for the answer:
\* otherwise the answer would make a slot out of nothing.
Awaited == \A i \in Invocations : work[i] = "start" => flow[i] = "start"

\* A bound on a cardinality says something of a finite set only.
IInv == TypeOK /\ Awaited /\ IsFiniteSet(Flows) /\ SlotsHeld /\ AnswersAgree

OfAgent(F, a) == {i \in F : AgentOf[i] = a}
Within(F) ==
    /\ IsFiniteSet(F) /\ Cardinality(F) =< MaxConcurrent
    /\ \A a \in Agents : Cardinality(OfAgent(F, a)) =< MaxPerAgent

(***************************************************************************)
(* Slots                                                                   *)
(***************************************************************************)

\* Giving slots back keeps the limits.
LEMMA Fewer ==
    ASSUME NEW F, NEW G, G \subseteq F, Within(F)
    PROVE  Within(G)
<1>1. IsFiniteSet(G) /\ Cardinality(G) =< Cardinality(F)
  BY FS_Subset DEF Within
<1>2. Cardinality(G) \in Nat /\ Cardinality(F) \in Nat
  BY <1>1, FS_CardinalityType DEF Within
<1>3. ASSUME NEW a \in Agents
      PROVE  Cardinality(OfAgent(G, a)) =< MaxPerAgent
  <2>1. OfAgent(G, a) \subseteq OfAgent(F, a) /\ OfAgent(F, a) \subseteq F
    BY DEF OfAgent
  <2>2. IsFiniteSet(OfAgent(F, a))
    BY <2>1, FS_Subset DEF Within
  <2>3. IsFiniteSet(OfAgent(G, a)) /\ Cardinality(OfAgent(G, a)) =< Cardinality(OfAgent(F, a))
    BY <2>1, <2>2, FS_Subset
  <2>4. Cardinality(OfAgent(G, a)) \in Nat /\ Cardinality(OfAgent(F, a)) \in Nat
    BY <2>2, <2>3, FS_CardinalityType
  <2>5. QED BY <2>3, <2>4, InvocationsAssumption DEF Within
<1>4. QED BY <1>1, <1>2, <1>3, InvocationsAssumption DEF Within

\* Taking a free slot keeps them.
LEMMA OneMore ==
    ASSUME NEW F, NEW i, Within(F), i \notin F,
           Cardinality(F) < MaxConcurrent, Cardinality(OfAgent(F, AgentOf[i])) < MaxPerAgent
    PROVE  Within(F \cup {i})
<1>1. IsFiniteSet(F \cup {i}) /\ Cardinality(F \cup {i}) = Cardinality(F) + 1
  BY FS_AddElement DEF Within
<1>2. Cardinality(F) \in Nat
  BY FS_CardinalityType DEF Within
<1>3. ASSUME NEW a \in Agents
      PROVE  Cardinality(OfAgent(F \cup {i}, a)) =< MaxPerAgent
  <2>1. IsFiniteSet(OfAgent(F, a))
    BY FS_Subset DEF Within, OfAgent
  <2>2. Cardinality(OfAgent(F, a)) \in Nat
    BY <2>1, FS_CardinalityType
  <2>3. CASE AgentOf[i] = a
    <3>1. OfAgent(F \cup {i}, a) = OfAgent(F, a) \cup {i} /\ i \notin OfAgent(F, a)
      BY <2>3 DEF OfAgent
    <3>2. Cardinality(OfAgent(F \cup {i}, a)) = Cardinality(OfAgent(F, a)) + 1
      BY <2>1, <3>1, FS_AddElement
    <3>3. QED BY <2>2, <2>3, <3>2, InvocationsAssumption
  <2>4. CASE AgentOf[i] # a
    <3>1. OfAgent(F \cup {i}, a) = OfAgent(F, a)
      BY <2>4 DEF OfAgent
    <3>2. QED BY <3>1 DEF Within
  <2>5. QED BY <2>3, <2>4
<1>4. QED BY <1>1, <1>2, <1>3, InvocationsAssumption DEF Within

\* IInv says of the slots that they are Within and that the rows agree.
LEMMA Slots ==
    IInv <=> /\ TypeOK /\ Awaited /\ AnswersAgree /\ Within(Flows)
             /\ \A i \in Invocations : row[i] = "running" <=> flow[i] # "none"
BY DEF IInv, SlotsHeld, Within, OfAgent, Flows

LEMMA SlotsNext ==
    ASSUME TypeOK', Awaited', AnswersAgree', Within(Flows'),
           \A i \in Invocations : row'[i] = "running" <=> flow'[i] # "none"
    PROVE  IInv'
BY DEF IInv, SlotsHeld, Within, OfAgent, Flows

\* A step that leaves rows and flows alone holds the same slots.
LEMMA SameSlots ==
    ASSUME IInv, UNCHANGED <<row, flow>>, TypeOK', Awaited', AnswersAgree'
    PROVE  IInv'
BY DEF IInv, SlotsHeld, Flows

(***************************************************************************)
(* Dispatches                                                              *)
(***************************************************************************)

Told == {"idle", "waiting", "refused", "error", "begun", "accepted"} \cup Final

\* A dispatch that is answered, with anything but an outcome or with the row's.
LEMMA AnswerAgrees ==
    ASSUME IInv, NEW c \in Calls, NEW status \in Told,
           status \in Final \cup {"accepted"} => status = row[KeyOf[c]],
           call' = [call EXCEPT ![c] = status], UNCHANGED <<row, flow, owner, work, aborted, faults>>
    PROVE  IInv'
<1>1. TypeOK'
  BY DEF IInv, TypeOK, Told
<1>2. Awaited'
  BY DEF IInv, Awaited
<1>3. AnswersAgree'
  BY DEF IInv, TypeOK, AnswersAgree
<1>4. QED BY <1>1, <1>2, <1>3, SameSlots

LEMMA JoinKeeps ==
    ASSUME IInv, NEW c \in Calls, Join(c)
    PROVE  IInv'
<1> DEFINE i == KeyOf[c]
<1>1. i \in Invocations
  BY InvocationsAssumption
<1>2. row[i] # "running" \/ flow[i] # "none"
  BY <1>1, Slots
<1>3. row[i] \in {"none", "accepted", "running"} \cup Final /\ row[i] # "none"
  BY <1>1 DEF Join, IInv, TypeOK
<1> DEFINE status == IF c \in Detached THEN "begun"
                     ELSE IF flow[i] # "none" THEN "waiting" ELSE row[i]
<1>4. status \in Told
  BY <1>2, <1>3 DEF Told
<1>5. status \in Final \cup {"accepted"} => status = row[i]
  BY DEF Final
<1>6. call' = [call EXCEPT ![c] = status] /\ UNCHANGED <<row, flow, owner, work, aborted, faults>>
  BY DEF Join, Answer
<1> HIDE DEF status
<1>7. QED BY <1>4, <1>5, <1>6, AnswerAgrees

LEMMA RefuseKeeps ==
    ASSUME IInv, NEW c \in Calls, Refuse(c)
    PROVE  IInv'
BY AnswerAgrees DEF Refuse, Told, Final

\* A dispatch that makes a row: no one can have been told of it before.
LEMMA NewRow ==
    ASSUME IInv, NEW c \in Calls, row[KeyOf[c]] = "none",
           NEW status \in {"accepted", "running"}, NEW answer \in {"error", "begun", "waiting"},
           row' = [row EXCEPT ![KeyOf[c]] = status], call' = [call EXCEPT ![c] = answer]
    PROVE  AnswersAgree'
BY InvocationsAssumption DEF IInv, TypeOK, AnswersAgree, Final

LEMMA BeginKeeps ==
    ASSUME IInv, NEW c \in Calls, Begin(c)
    PROVE  IInv'
<1> DEFINE i == KeyOf[c]
<1>1. i \in Invocations /\ i \notin Flows
  BY InvocationsAssumption, Slots DEF Begin, Flows
<1>2. PICK answer \in {"begun", "waiting"} : call' = [call EXCEPT ![c] = answer]
  BY DEF Begin, Answer
<1>3. TypeOK'
  BY <1>1, <1>2 DEF Begin, IInv, TypeOK
<1>4. Awaited'
  BY <1>1 DEF Begin, IInv, TypeOK, Awaited
<1>5. AnswersAgree'
  BY <1>2, NewRow DEF Begin
<1>6. Flows' = Flows \cup {i}
  BY <1>1 DEF Begin, IInv, TypeOK, Flows
<1>7. Within(Flows')
  BY <1>1, <1>6, OneMore, Slots DEF Begin, Free, OfAgent
<1>8. \A j \in Invocations : row'[j] = "running" <=> flow'[j] # "none"
  BY <1>1, Slots DEF Begin, IInv, TypeOK
<1>9. QED BY <1>3, <1>4, <1>5, <1>7, <1>8, SlotsNext

LEMMA StrandKeeps ==
    ASSUME IInv, NEW c \in Calls, Strand(c)
    PROVE  IInv'
<1>1. KeyOf[c] \in Invocations
  BY InvocationsAssumption
<1>2. TypeOK'
  BY <1>1, InvocationsAssumption DEF Strand, Fault, IInv, TypeOK
<1>3. Awaited'
  BY DEF Strand, IInv, Awaited
<1>4. AnswersAgree'
  BY NewRow DEF Strand
<1>5. Within(Flows')
  BY Slots DEF Strand, Flows
<1>6. \A j \in Invocations : row'[j] = "running" <=> flow'[j] # "none"
  BY <1>1, Slots DEF Strand, IInv, TypeOK
<1>7. QED BY <1>2, <1>3, <1>4, <1>5, <1>6, SlotsNext

(***************************************************************************)
(* Flows                                                                   *)
(***************************************************************************)

\* Telling the runtime to stop what it has started changes no slot.
LEMMA StopKeeps ==
    ASSUME IInv, work' \in [Invocations -> {"none", "start", "on", "stop"}],
           \A i \in Invocations : work'[i] = "start" => work[i] = "start",
           UNCHANGED <<row, flow, owner, call>>, aborted' \subseteq Calls, faults' \in 0..MaxFaults
    PROVE  IInv'
<1>1. TypeOK'
  BY DEF IInv, TypeOK
<1>2. Awaited'
  BY DEF IInv, Awaited
<1>3. AnswersAgree'
  BY DEF IInv, AnswersAgree
<1>4. QED BY <1>1, <1>2, <1>3, SameSlots

LEMMA StoppedWork ==
    ASSUME TypeOK, NEW i \in Invocations
    PROVE  /\ Stopped(i) \in [Invocations -> {"none", "start", "on", "stop"}]
           /\ \A j \in Invocations : Stopped(i)[j] = "start" => work[j] = "start"
BY DEF TypeOK, Stopped

LEMMA AbortKeeps ==
    ASSUME IInv, NEW c \in Calls, Abort(c)
    PROVE  IInv'
<1>1. KeyOf[c] \in Invocations
  BY InvocationsAssumption
<1>2. aborted' \subseteq Calls /\ faults' \in 0..MaxFaults
  BY DEF Abort, IInv, TypeOK
<1>3. QED BY <1>1, <1>2, StoppedWork, StopKeeps DEF Abort, IInv

LEMMA CancelKeeps ==
    ASSUME IInv, NEW i \in Invocations, Cancel(i)
    PROVE  IInv'
<1>1. aborted' \subseteq Calls /\ faults' \in 0..MaxFaults
  BY DEF Cancel, IInv, TypeOK
<1>2. QED BY <1>1, StoppedWork, StopKeeps DEF Cancel, IInv

\* An outcome is written over a row that says running: no one was told before.
LEMMA FinishKeeps ==
    ASSUME IInv, NEW i \in Invocations, NEW status \in Final, Finish(i, status),
           flow[i] # "none", work' \in [Invocations -> {"none", "start", "on", "stop"}],
           work'[i] # "start", \A j \in Invocations \ {i} : work'[j] = work[j],
           UNCHANGED <<aborted, faults>>
    PROVE  IInv'
<1>1. row[i] = "running"
  BY Slots
<1>2. TypeOK'
  <2>1. row' \in [Invocations -> {"none", "accepted", "running"} \cup Final]
    BY DEF Finish, IInv, TypeOK
  <2>2. flow' \in [Invocations -> {"none", "start", "follow", "grace"}]
    BY DEF Finish, IInv, TypeOK
  <2>3. owner' \in [Invocations -> Calls \cup {None}]
    BY DEF Finish, IInv, TypeOK
  <2>4. call' \in [Calls -> {"idle", "waiting", "refused", "error", "begun", "accepted"} \cup Final]
    BY DEF Finish, IInv, TypeOK
  <2>5. QED BY <2>1, <2>2, <2>3, <2>4 DEF IInv, TypeOK
<1>3. Awaited'
  BY DEF Finish, IInv, TypeOK, Awaited
<1>4. AnswersAgree'
  <2> SUFFICES ASSUME NEW c \in Calls, call'[c] \in Final \cup {"accepted"}
               PROVE  call'[c] = row'[KeyOf[c]]
    BY DEF AnswersAgree
  <2>1. KeyOf[c] \in Invocations
    BY InvocationsAssumption
  <2>2. CASE call[c] = "waiting" /\ KeyOf[c] = i
    BY <2>2 DEF Finish, IInv, TypeOK
  <2>3. CASE ~(call[c] = "waiting" /\ KeyOf[c] = i)
    <3>1. call'[c] = call[c] /\ call[c] = row[KeyOf[c]]
      BY <2>3 DEF Finish, IInv, AnswersAgree
    <3>2. KeyOf[c] # i
      BY <1>1, <3>1 DEF Final
    <3>3. QED BY <2>1, <3>1, <3>2 DEF Finish, IInv, TypeOK
  <2>4. QED BY <2>2, <2>3
<1>5. Within(Flows')
  <2>1. Flows' \subseteq Flows
    BY DEF Finish, IInv, TypeOK, Flows
  <2>2. QED BY <2>1, Fewer, Slots
<1>6. \A j \in Invocations : row'[j] = "running" <=> flow'[j] # "none"
  BY Slots DEF Finish, IInv, TypeOK, Final
<1>7. QED BY <1>2, <1>3, <1>4, <1>5, <1>6, SlotsNext

\* A flow that goes on keeps its slot.
LEMMA MovesKeeps ==
    ASSUME IInv, NEW i \in Invocations, flow[i] # "none", NEW at \in {"follow", "grace"},
           flow' = [flow EXCEPT ![i] = at],
           work' \in [Invocations -> {"none", "start", "on", "stop"}],
           work'[i] # "start", \A j \in Invocations : work'[j] = "start" => work[j] = "start",
           UNCHANGED <<row, owner, call, aborted, faults>>
    PROVE  IInv'
<1>1. TypeOK'
  BY DEF IInv, TypeOK
<1>2. Awaited'
  BY DEF IInv, TypeOK, Awaited
<1>3. AnswersAgree'
  BY DEF IInv, AnswersAgree
<1>4. Flows' = Flows
  BY DEF IInv, TypeOK, Flows
<1>5. Within(Flows')
  BY <1>4, Slots
<1>6. \A j \in Invocations : row'[j] = "running" <=> flow'[j] # "none"
  BY Slots DEF IInv, TypeOK
<1>7. QED BY <1>1, <1>2, <1>3, <1>5, <1>6, SlotsNext

LEMMA StartedKeeps ==
    ASSUME IInv, NEW i \in Invocations, Started(i)
    PROVE  IInv'
<1>1. work[i] = "start" /\ flow[i] # "none"
  BY DEF Started, RunStarts, StartFails, IInv, Awaited
<1>2. CASE RunStarts(i)
  <2>1. work' = [work EXCEPT ![i] = "on"]
    BY <1>2 DEF RunStarts
  <2>2. /\ work' \in [Invocations -> {"none", "start", "on", "stop"}] /\ work'[i] # "start"
        /\ \A j \in Invocations : work'[j] = "start" => work[j] = "start"
    BY <2>1 DEF IInv, TypeOK
  <2>3. QED BY <1>1, <1>2, <2>2, MovesKeeps DEF RunStarts
<1>3. CASE StartFails(i)
  <2>1. work' = [work EXCEPT ![i] = "none"]
    BY <1>3 DEF StartFails
  <2>2. /\ work' \in [Invocations -> {"none", "start", "on", "stop"}] /\ work'[i] # "start"
        /\ \A j \in Invocations \ {i} : work'[j] = work[j]
    BY <2>1 DEF IInv, TypeOK
  <2>3. "failed" \in Final
    BY DEF Final
  <2>4. QED BY <1>1, <1>3, <2>2, <2>3, FinishKeeps DEF StartFails
<1>4. QED BY <1>2, <1>3 DEF Started

LEMMA RunEndsKeeps ==
    ASSUME IInv, NEW i \in Invocations, RunEnds(i)
    PROVE  IInv'
<1>1. work' = [work EXCEPT ![i] = "none"] /\ UNCHANGED <<aborted, faults>>
  BY DEF RunEnds
<1>2. /\ work' \in [Invocations -> {"none", "start", "on", "stop"}] /\ work'[i] # "start"
      /\ \A j \in Invocations \ {i} : work'[j] = work[j]
  BY <1>1 DEF IInv, TypeOK
<1>3. CASE \E status \in Final : Finish(i, status) /\ flow[i] # "none"
  BY <1>1, <1>2, <1>3, FinishKeeps
<1>4. CASE UNCHANGED <<row, flow, owner, call>>
  BY <1>1, <1>2, <1>4, StopKeeps DEF IInv, TypeOK
<1>5. QED BY <1>3, <1>4 DEF RunEnds, EndsAs, Final

LEMMA TimeoutKeeps ==
    ASSUME IInv, NEW i \in Invocations, Timeout(i)
    PROVE  IInv'
<1>1. work[i] # "start"
  BY DEF Timeout, IInv, Awaited
<1>2. /\ work' \in [Invocations -> {"none", "start", "on", "stop"}]
      /\ \A j \in Invocations : work'[j] = "start" => work[j] = "start"
  BY StoppedWork DEF Timeout, IInv
<1>3. QED BY <1>1, <1>2, MovesKeeps DEF Timeout

LEMMA GraceEndsKeeps ==
    ASSUME IInv, NEW i \in Invocations, GraceEnds(i)
    PROVE  IInv'
<1>1. work[i] # "start"
  BY DEF GraceEnds, IInv, Awaited
<1>2. "timed_out" \in Final
  BY DEF Final
<1>3. QED BY <1>1, <1>2, FinishKeeps DEF GraceEnds, IInv, TypeOK

(***************************************************************************)
(* Crashes, and the theorems                                               *)
(***************************************************************************)

LEMMA InvalidateKeeps ==
    ASSUME IInv, Invalidate
    PROVE  IInv'
<1>1. /\ work' \in [Invocations -> {"none", "start", "on", "stop"}]
      /\ \A i \in Invocations : work'[i] = "start" => work[i] = "start"
  BY DEF Invalidate, IInv, TypeOK
<1>2. aborted' \subseteq Calls /\ faults' \in 0..MaxFaults
  BY InvocationsAssumption DEF Invalidate, Fault, IInv, TypeOK
<1>3. QED BY <1>1, <1>2, StopKeeps DEF Invalidate

\* Without flows every slot is free.
LEMMA NoFlows ==
    ASSUME \A i \in Invocations : flow[i] = "none"
    PROVE  Within(Flows)
<1>1. Flows = {} /\ \A a \in Agents : OfAgent(Flows, a) = {}
  BY DEF Flows, OfAgent
<1>2. QED BY SMTT(30), <1>1, FS_EmptySet, InvocationsAssumption DEF Within

LEMMA RestartKeeps ==
    ASSUME IInv, Restart
    PROVE  IInv'
<1>1. TypeOK'
  BY InvocationsAssumption DEF Restart, Fault, IInv, TypeOK, Final
<1>2. Awaited' /\ AnswersAgree'
  BY DEF Restart, Awaited, AnswersAgree, Final
<1>3. \A i \in Invocations : flow'[i] = "none" /\ row'[i] # "running"
  BY DEF Restart, IInv, TypeOK
<1>4. Within(Flows')
  <2>1. Flows' = {} /\ \A a \in Agents : OfAgent({}, a) = {}
    BY <1>3 DEF Flows, OfAgent
  <2>2. QED BY <2>1, FS_EmptySet, InvocationsAssumption DEF Within
<1>5. QED BY <1>1, <1>2, <1>3, <1>4, SlotsNext

LEMMA Initially == Init => IInv
<1> SUFFICES ASSUME Init PROVE IInv
  OBVIOUS
<1>1. TypeOK
  BY InvocationsAssumption DEF Init, TypeOK
<1>2. Awaited /\ AnswersAgree
  BY DEF Init, Awaited, AnswersAgree, Final
<1>3. Within(Flows)
  BY NoFlows DEF Init
<1>4. \A i \in Invocations : row[i] = "running" <=> flow[i] # "none"
  BY DEF Init
<1>5. QED BY <1>1, <1>2, <1>3, <1>4, Slots

LEMMA Stepwise == IInv /\ [Next]_vars => IInv'
<1> SUFFICES ASSUME IInv, [Next]_vars PROVE IInv'
  OBVIOUS
<1>1. ASSUME NEW c \in Calls, Dispatch(c) PROVE IInv'
  BY <1>1, JoinKeeps, RefuseKeeps, BeginKeeps, StrandKeeps DEF Dispatch
<1>2. ASSUME NEW c \in Calls, Abort(c) PROVE IInv'
  BY <1>2, AbortKeeps
<1>3. ASSUME NEW i \in Invocations,
             Cancel(i) \/ Started(i) \/ RunEnds(i) \/ Timeout(i) \/ GraceEnds(i)
      PROVE  IInv'
  BY <1>3, CancelKeeps, StartedKeeps, RunEndsKeeps, TimeoutKeeps, GraceEndsKeeps
<1>4. CASE Invalidate \/ Restart
  BY <1>4, InvalidateKeeps, RestartKeeps
<1>5. CASE UNCHANGED vars
  BY <1>5, SameSlots DEF vars, IInv, TypeOK, Awaited, AnswersAgree
<1>6. QED BY <1>1, <1>2, <1>3, <1>4, <1>5 DEF Next

LEMMA Inductive == Spec => []IInv
BY Initially, Stepwise, PTL DEF Spec

\* Rows, flows, runs and answers hold what they may hold, for any number of
\* agents, keys and dispatches.
THEOREM Types == Spec => []TypeOK
<1>1. IInv => TypeOK
  BY DEF IInv
<1>2. QED BY <1>1, Inductive, PTL

\* executeInvocation gives its slot back on every way out: a row says running
\* exactly while a slot is taken for it, and no more are taken than allowed.
THEOREM Limits == Spec => []SlotsHeld
<1>1. IInv => SlotsHeld
  BY DEF IInv
<1>2. QED BY <1>1, Inductive, PTL

\* A dispatch, the ones that joined it and the row all have the same outcome.
THEOREM Agreement == Spec => []AnswersAgree
<1>1. IInv => AnswersAgree
  BY DEF IInv
<1>2. QED BY <1>1, Inductive, PTL
=============================================================================
