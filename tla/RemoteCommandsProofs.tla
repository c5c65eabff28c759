------------------------ MODULE RemoteCommandsProofs ------------------------
(***************************************************************************)
(* Theorems about RemoteCommands, for any sessions, runs and commands and  *)
(* any bounds: whatever is delivered twice, cancelled, deleted or          *)
(* restarted, a session has one run at a time, a command is executed once, *)
(* what the phone is told of its end is so, and all of it together is the  *)
(* service CommandService promises.                                        *)
(***************************************************************************)
EXTENDS RemoteCommands, SequenceTheorems, TLAPS

\* A run without a row has not been begun since, the others once at most.
Begun == \A r \in Runs : begun[r] =< 1 /\ (run[r] = "none" => begun[r] = 0)

RunInv == RunTypeOK /\ OneRunPerSession /\ Begun

\* A queue that is not at rest works on a command.
Executing == \A s \in Sessions : exec[s].at # "rest" => exec[s].of \in Commands

\* OneRunPerSession is inductive only together with the types, and ExecutedOnce
\* only with what Begun says of runs without a row.
IInv == RunInv /\ DeskTypeOK /\ Executing

(***************************************************************************)
(* The steps of the Gateway                                                *)
(***************************************************************************)

LEMMA AcceptKeeps ==
    ASSUME RunInv, NEW r \in Runs, ~Known(r), session[SessionOf[r]] # "running", Accept(r)
    PROVE  RunInv'
<1> USE RunsAssumption DEF RunInv, RunTypeOK, OneRunPerSession
<1>1. RunTypeOK'
  <2>1. session' \in [Sessions -> {"none", "idle", "running", "interrupted"}]
    BY DEF Accept, Active
  <2>2. run' \in [Runs -> Active \cup Ended \cup {"none"}]
    BY DEF Accept, Active
  <2>3. agent' \in [Runs -> {"none", "starting", "working"} \cup Outcomes]
    BY DEF Accept
  <2>4. begun' \in [Runs -> Nat]
    BY DEF Accept
  <2>5. deleting' \subseteq Sessions /\ faults' \in 0..MaxFaults
    BY DEF Accept
  <2>6. QED BY <2>1, <2>2, <2>3, <2>4, <2>5
<1>2. /\ \A x \in Runs : run'[x] = IF x = r THEN "accepted" ELSE run[x]
      /\ \A x \in Runs : agent'[x] = IF x = r THEN "starting" ELSE agent[x]
      /\ \A x \in Runs : begun'[x] = IF x = r THEN begun[x] + 1 ELSE begun[x]
      /\ \A s \in Sessions : session'[s] = IF s = SessionOf[r] THEN "running" ELSE session[s]
  BY DEF Accept
<1>3. BusyExactly'
  BY <1>2 DEF BusyExactly, OneActive, RuntimeBehind, Active, Ended, Outcomes
<1>4. OneActive'
  BY <1>2 DEF BusyExactly, OneActive, RuntimeBehind, Active, Ended, Outcomes
<1>5. RuntimeBehind'
  BY <1>2 DEF RuntimeBehind, Active, Ended, Outcomes
<1>6. Begun'
  BY <1>2 DEF Begun, Known, Ended, Outcomes
<1>7. QED BY <1>1, <1>3, <1>4, <1>5, <1>6

LEMMA ReplaceKeeps ==
    ASSUME RunInv, NEW r \in Runs, NEW q \in Runs, Admits(r), Replace(r, q)
    PROVE  RunInv'
<1> USE RunsAssumption DEF RunInv, RunTypeOK, OneRunPerSession
<1>1. RunTypeOK'
  <2>1. session' \in [Sessions -> {"none", "idle", "running", "interrupted"}]
    BY DEF Replace, Active
  <2>2. run' \in [Runs -> Active \cup Ended \cup {"none"}]
    BY DEF Replace, Active
  <2>3. agent' \in [Runs -> {"none", "starting", "working"} \cup Outcomes]
    BY DEF Replace
  <2>4. begun' \in [Runs -> Nat]
    BY DEF Replace
  <2>5. deleting' \subseteq Sessions /\ faults' \in 0..MaxFaults
    BY DEF Replace
  <2>6. QED BY <2>1, <2>2, <2>3, <2>4, <2>5
<1>2. /\ run[q] \in Ended /\ SessionOf[q] = SessionOf[r] /\ q # r
      /\ \A x \in Runs : run'[x] = IF x = r THEN "accepted" ELSE IF x = q THEN "none" ELSE run[x]
      /\ \A x \in Runs : agent'[x] = IF x = r THEN "starting" ELSE agent[x]
      /\ \A x \in Runs : begun'[x] = IF x = r THEN begun[x] + 1 ELSE IF x = q THEN 0 ELSE begun[x]
      /\ \A s \in Sessions : session'[s] = IF s = SessionOf[r] THEN "running" ELSE session[s]
  BY DEF Replace
<1>3. BusyExactly'
  BY <1>2 DEF BusyExactly, OneActive, RuntimeBehind, Active, Ended, Outcomes, Admits, Known
<1>4. OneActive'
  BY <1>2 DEF BusyExactly, OneActive, RuntimeBehind, Active, Ended, Outcomes, Admits, Known
<1>5. RuntimeBehind'
  BY <1>2 DEF RuntimeBehind, Active, Ended, Outcomes, Admits, Known
<1>6. Begun'
  BY <1>2 DEF Begun, Known, Admits, Known
<1>7. QED BY <1>1, <1>3, <1>4, <1>5, <1>6

LEMMA QuestionKeeps ==
    ASSUME RunInv, NEW r \in Runs, Admits(r), Question(r)
    PROVE  RunInv'
<1> USE RunsAssumption DEF RunInv, RunTypeOK, OneRunPerSession
<1>1. RunTypeOK'
  <2>1. session' \in [Sessions -> {"none", "idle", "running", "interrupted"}]
    BY DEF Question, Ended, Outcomes
  <2>2. run' \in [Runs -> Active \cup Ended \cup {"none"}]
    BY DEF Question, Ended, Outcomes
  <2>3. agent' \in [Runs -> {"none", "starting", "working"} \cup Outcomes]
    BY DEF Question
  <2>4. begun' \in [Runs -> Nat]
    BY DEF Question
  <2>5. deleting' \subseteq Sessions /\ faults' \in 0..MaxFaults
    BY DEF Question
  <2>6. QED BY <2>1, <2>2, <2>3, <2>4, <2>5
<1>2. /\ \A x \in Runs : run'[x] = IF x = r THEN "completed" ELSE run[x]
      /\ agent' = agent /\ begun' = begun
      /\ \A s \in Sessions : session'[s] = IF s = SessionOf[r] THEN "idle" ELSE session[s]
  BY DEF Question
<1>3. BusyExactly'
  BY <1>2 DEF BusyExactly, OneActive, RuntimeBehind, Active, Ended, Outcomes, Admits, Known
<1>4. OneActive'
  BY <1>2 DEF BusyExactly, OneActive, RuntimeBehind, Active, Ended, Outcomes, Admits, Known
<1>5. RuntimeBehind'
  BY <1>2 DEF RuntimeBehind, Active, Ended, Outcomes, Admits, Known
<1>6. Begun'
  BY <1>2 DEF Begun, Known, Admits, Known
<1>7. QED BY <1>1, <1>3, <1>4, <1>5, <1>6

LEMMA EndKeeps ==
    ASSUME RunInv, NEW r \in Runs, NEW status \in Ended, agent[r] # "none", End(r, status)
    PROVE  RunInv'
<1> USE RunsAssumption DEF RunInv, RunTypeOK, OneRunPerSession
<1>1. RunTypeOK'
  <2>1. session' \in [Sessions -> {"none", "idle", "running", "interrupted"}]
    BY DEF End
  <2>2. run' \in [Runs -> Active \cup Ended \cup {"none"}]
    BY DEF End
  <2>3. agent' \in [Runs -> {"none", "starting", "working"} \cup Outcomes]
    BY DEF End
  <2>4. begun' \in [Runs -> Nat]
    BY DEF End
  <2>5. deleting' \subseteq Sessions /\ faults' \in 0..MaxFaults
    BY DEF End
  <2>6. QED BY <2>1, <2>2, <2>3, <2>4, <2>5
<1>2. /\ \A x \in Runs : run'[x] = IF x = r THEN status ELSE run[x]
      /\ \A x \in Runs : agent'[x] = IF x = r THEN "none" ELSE agent[x]
      /\ begun' = begun
      /\ \A s \in Sessions : session'[s] = IF s = SessionOf[r] THEN "idle" ELSE session[s]
  BY DEF End
<1>3. BusyExactly'
  BY <1>2 DEF BusyExactly, OneActive, RuntimeBehind, Active, Ended, Outcomes
<1>4. OneActive'
  BY <1>2 DEF BusyExactly, OneActive, RuntimeBehind, Active, Ended, Outcomes
<1>5. RuntimeBehind'
  BY <1>2 DEF RuntimeBehind, Active, Ended, Outcomes
<1>6. Begun'
  BY <1>2 DEF Begun, Known, Ended, Outcomes
<1>7. QED BY <1>1, <1>3, <1>4, <1>5, <1>6

LEMMA StartKeeps ==
    ASSUME RunInv, NEW r \in Runs, RuntimeStarts(r)
    PROVE  RunInv'
<1> USE RunsAssumption DEF RunInv, RunTypeOK, OneRunPerSession
<1>1. RunTypeOK'
  <2>1. session' \in [Sessions -> {"none", "idle", "running", "interrupted"}]
    BY DEF RuntimeStarts, Active
  <2>2. run' \in [Runs -> Active \cup Ended \cup {"none"}]
    BY DEF RuntimeStarts, Active
  <2>3. agent' \in [Runs -> {"none", "starting", "working"} \cup Outcomes]
    BY DEF RuntimeStarts
  <2>4. begun' \in [Runs -> Nat]
    BY DEF RuntimeStarts
  <2>5. deleting' \subseteq Sessions /\ faults' \in 0..MaxFaults
    BY DEF RuntimeStarts
  <2>6. QED BY <2>1, <2>2, <2>3, <2>4, <2>5
<1>2. /\ agent[r] = "starting" /\ session' = session /\ begun' = begun
      /\ \A x \in Runs : run'[x] = IF x = r THEN "running" ELSE run[x]
      /\ \A x \in Runs : agent'[x] = IF x = r THEN "working" ELSE agent[x]
  BY DEF RuntimeStarts
<1>3. BusyExactly'
  BY <1>2 DEF BusyExactly, OneActive, RuntimeBehind, Active, Ended, Outcomes
<1>4. OneActive'
  BY <1>2 DEF BusyExactly, OneActive, RuntimeBehind, Active, Ended, Outcomes
<1>5. RuntimeBehind'
  BY <1>2 DEF RuntimeBehind, Active, Ended, Outcomes
<1>6. Begun'
  BY <1>2 DEF Begun, Known, Ended, Outcomes
<1>7. QED BY <1>1, <1>3, <1>4, <1>5, <1>6

LEMMA SettleKeeps ==
    ASSUME RunInv, NEW r \in Runs, NEW outcome \in Outcomes, Settle(r, outcome)
    PROVE  RunInv'
<1> USE RunsAssumption DEF RunInv, RunTypeOK, OneRunPerSession
<1>1. RunTypeOK'
  <2>1. session' \in [Sessions -> {"none", "idle", "running", "interrupted"}]
    BY DEF Settle
  <2>2. run' \in [Runs -> Active \cup Ended \cup {"none"}]
    BY DEF Settle
  <2>3. agent' \in [Runs -> {"none", "starting", "working"} \cup Outcomes]
    BY DEF Settle
  <2>4. begun' \in [Runs -> Nat]
    BY DEF Settle
  <2>5. deleting' \subseteq Sessions /\ faults' \in 0..MaxFaults
    BY DEF Settle
  <2>6. QED BY <2>1, <2>2, <2>3, <2>4, <2>5
<1>2. /\ agent[r] = "working" /\ session' = session /\ run' = run /\ begun' = begun
      /\ \A x \in Runs : agent'[x] = IF x = r THEN outcome ELSE agent[x]
  BY DEF Settle
<1>3. BusyExactly'
  BY <1>2 DEF BusyExactly, OneActive, RuntimeBehind, Active, Ended, Outcomes
<1>4. OneActive'
  BY <1>2 DEF BusyExactly, OneActive, RuntimeBehind, Active, Ended, Outcomes
<1>5. RuntimeBehind'
  BY <1>2 DEF RuntimeBehind, Active, Ended, Outcomes
<1>6. Begun'
  BY <1>2 DEF Begun, Known, Ended, Outcomes
<1>7. QED BY <1>1, <1>3, <1>4, <1>5, <1>6

LEMMA SameRuns ==
    ASSUME RunInv, UNCHANGED runVars
    PROVE  RunInv'
BY DEF RunInv, RunTypeOK, OneRunPerSession, BusyExactly, OneActive, RuntimeBehind, Begun, runVars

\* Connections fail without a trace in the Gateway.
LEMMA FaultKeeps ==
    ASSUME RunInv, UNCHANGED <<session, run, agent, deleting, begun>>, Fault
    PROVE  RunInv'
BY RunsAssumption
   DEF RunInv, RunTypeOK, OneRunPerSession, BusyExactly, OneActive, RuntimeBehind, Begun, Fault

LEMMA StopKeeps ==
    ASSUME RunInv, NEW r \in Runs, Stop(r)
    PROVE  RunInv'
BY SettleKeeps, SameRuns DEF Stop, Outcomes

LEMMA DeleteBeginKeeps ==
    ASSUME RunInv, NEW s \in Sessions, DeleteBegin(s)
    PROVE  RunInv'
BY RunsAssumption
   DEF RunInv, RunTypeOK, OneRunPerSession, BusyExactly, OneActive, RuntimeBehind, Begun,
       DeleteBegin, Fault

LEMMA DeleteEndKeeps ==
    ASSUME RunInv, NEW t \in Sessions, DeleteEnd(t),
           ~UNCHANGED <<session, run, agent, begun>>
    PROVE  RunInv'
<1> USE RunsAssumption DEF RunInv, RunTypeOK, OneRunPerSession
<1>1. RunTypeOK'
  <2>1. session' \in [Sessions -> {"none", "idle", "running", "interrupted"}]
    BY DEF DeleteEnd
  <2>2. run' \in [Runs -> Active \cup Ended \cup {"none"}]
    BY DEF DeleteEnd
  <2>3. agent' \in [Runs -> {"none", "starting", "working"} \cup Outcomes]
    BY DEF DeleteEnd
  <2>4. begun' \in [Runs -> Nat]
    BY DEF DeleteEnd
  <2>5. deleting' \subseteq Sessions /\ faults' \in 0..MaxFaults
    BY DEF DeleteEnd
  <2>6. QED BY <2>1, <2>2, <2>3, <2>4, <2>5
<1>2. /\ \A x \in Runs : run'[x] = IF SessionOf[x] = t THEN "none" ELSE run[x]
      /\ \A x \in Runs : agent'[x] = IF SessionOf[x] = t THEN "none" ELSE agent[x]
      /\ \A x \in Runs : begun'[x] = IF SessionOf[x] = t THEN 0 ELSE begun[x]
      /\ \A s \in Sessions : session'[s] = IF s = t THEN "none" ELSE session[s]
  BY DEF DeleteEnd
<1>3. BusyExactly'
  BY <1>2 DEF BusyExactly, OneActive, RuntimeBehind, Active, Ended, Outcomes
<1>4. OneActive'
  BY <1>2 DEF BusyExactly, OneActive, RuntimeBehind, Active, Ended, Outcomes
<1>5. RuntimeBehind'
  BY <1>2 DEF RuntimeBehind, Active, Ended, Outcomes
<1>6. Begun'
  BY <1>2 DEF Begun, Known, Ended, Outcomes
<1>7. QED BY <1>1, <1>3, <1>4, <1>5, <1>6

LEMMA RestartKeeps ==
    ASSUME RunInv, Fault, RunsRestart
    PROVE  RunInv'
<1> USE RunsAssumption DEF RunInv, RunTypeOK, OneRunPerSession
<1>1. RunTypeOK'
  <2>1. session' \in [Sessions -> {"none", "idle", "running", "interrupted"}]
    BY DEF RunsRestart, Ended, RunsOf
  <2>2. run' \in [Runs -> Active \cup Ended \cup {"none"}]
    BY DEF RunsRestart, Ended, RunsOf
  <2>3. agent' \in [Runs -> {"none", "starting", "working"} \cup Outcomes]
    BY DEF RunsRestart
  <2>4. begun' \in [Runs -> Nat]
    BY DEF RunsRestart
  <2>5. deleting' \subseteq Sessions /\ faults' \in 0..MaxFaults
    BY DEF RunsRestart, Fault
  <2>6. QED BY <2>1, <2>2, <2>3, <2>4, <2>5
<1>2. /\ \A x \in Runs : run'[x] = IF run[x] \in Active THEN "interrupted" ELSE run[x]
      /\ \A x \in Runs : agent'[x] = "none"
      /\ begun' = begun
      /\ \A s \in Sessions : session'[s] =
              IF \E r \in Runs : SessionOf[r] = s /\ run[r] \in Active
              THEN "interrupted" ELSE session[s]
  BY DEF RunsRestart, RunsOf
<1>3. BusyExactly'
  BY <1>2 DEF BusyExactly, OneActive, RuntimeBehind, Active, Ended, Outcomes
<1>4. OneActive'
  BY <1>2 DEF BusyExactly, OneActive, RuntimeBehind, Active, Ended, Outcomes
<1>5. RuntimeBehind'
  BY <1>2 DEF RuntimeBehind, Active, Ended, Outcomes
<1>6. Begun'
  BY <1>2 DEF Begun, Known, Ended, Outcomes
<1>7. QED BY <1>1, <1>3, <1>4, <1>5, <1>6

(***************************************************************************)
(* The steps of the desktop and of the cloud                               *)
(***************************************************************************)

DeskInv == DeskTypeOK /\ Executing

CloudOK ==
    cloud \in [Commands -> {"queued", "running"} \cup Final] /\ lost \subseteq Commands

\* What is told to the cloud is a status of a command.
LEMMA TellOK ==
    ASSUME CloudOK, NEW c \in Commands, NEW status \in {"running"} \cup Final, Tell(c, status)
    PROVE  CloudOK'
BY DEF CloudOK, Tell

LEMMA OutcomeOK ==
    ASSUME NEW status \in Ended
    PROVE  Outcome(status) \in Final
BY DEF Outcome, Ended, Outcomes, Final

LEMMA RestOK == Rest \in Turn
BY DEF Rest, Turn

LEMMA DoingOK ==
    ASSUME NEW c \in Commands, NEW at \in {"call", "stop", "wait"}
    PROVE  Doing(c, at) \in Turn /\ Doing(c, at).at = at /\ Doing(c, at).of = c
BY DEF Doing, Turn

LEMMA DeliverDesk ==
    ASSUME DeskInv, NEW c \in Commands, Deliver(c)
    PROVE  DeskInv'
<1> USE DEF DeskInv, DeskTypeOK
<1>1. CloudOK'
  BY TellOK DEF Deliver, CloudOK, Silent, Final
<1>2. queue' \in [Sessions -> Seq(Commands)]
  <2>1. SessionOf[c] \in Sessions
    BY RunsAssumption, CommandsAssumption
  <2>2. Append(queue[SessionOf[c]], c) \in Seq(Commands)
    BY <2>1
  <2>3. QED BY <2>1, <2>2 DEF Deliver
<1>3. seen' \subseteq Commands
  BY DEF Deliver
<1>4. DeskTypeOK'
  BY <1>1, <1>2, <1>3 DEF Deliver, CloudOK
<1>5. Executing'
  BY DEF Deliver, Executing
<1>6. QED BY <1>4, <1>5

LEMMA ExpireDesk ==
    ASSUME DeskInv, NEW c \in Commands, Expire(c)
    PROVE  DeskInv'
<1> USE DEF DeskInv, DeskTypeOK
<1>1. late' \subseteq Commands
  BY DEF Expire
<1>2. hands' \in 0..MaxHands
  BY CommandsAssumption DEF Expire, Hand
<1>3. DeskTypeOK'
  BY <1>1, <1>2 DEF Expire, CloudOK, deskVars
<1>4. Executing'
  BY DEF Expire, Executing, deskVars
<1>5. QED BY <1>3, <1>4

LEMMA AskDesk ==
    ASSUME DeskInv, NEW c \in Commands, Ask(c)
    PROVE  DeskInv'
<1> USE DEF DeskInv, DeskTypeOK
<1>1. asked' \in [Commands -> {"no", "sent", "done"}]
  BY DEF Ask
<1>2. hands' \in 0..MaxHands
  BY CommandsAssumption DEF Ask, Hand
<1>3. DeskTypeOK'
  BY <1>1, <1>2 DEF Ask, CloudOK, deskVars
<1>4. Executing'
  BY DEF Ask, Executing, deskVars
<1>5. QED BY <1>3, <1>4

LEMMA DeliverCancelDesk ==
    ASSUME DeskInv, NEW c \in Commands, DeliverCancel(c)
    PROVE  DeskInv'
<1> USE DEF DeskInv, DeskTypeOK
<1>1. CloudOK'
  BY TellOK DEF DeliverCancel, CloudOK, Silent, Final
<1>2. queue' \in [Sessions -> Seq(Commands)]
  <2>1. SessionOf[c] \in Sessions
    BY RunsAssumption, CommandsAssumption
  <2>2. ASSUME NEW k \in DOMAIN queue[SessionOf[c]]
        PROVE  RemoveAt(queue[SessionOf[c]], k) \in Seq(Commands)
    <3> DEFINE q == queue[SessionOf[c]]
    <3>1. q \in Seq(Commands) /\ k \in 1..Len(q)
      BY <2>1, <2>2
    <3>2. SubSeq(q, 1, k - 1) \in Seq(Commands) /\ SubSeq(q, k + 1, Len(q)) \in Seq(Commands)
      BY <3>1
    <3>3. QED BY <3>2 DEF RemoveAt
  <2>3. \/ queue' = queue
        \/ \E k \in DOMAIN queue[SessionOf[c]] :
              queue' = [queue EXCEPT ![SessionOf[c]] = RemoveAt(queue[SessionOf[c]], k)]
    BY DEF DeliverCancel
  <2>4. QED BY <2>1, <2>2, <2>3
<1>3. asked' \in [Commands -> {"no", "sent", "done"}]
  BY DEF DeliverCancel
<1>4. stopping' \in [Commands -> {"no", "call", "wait"}]
  BY DEF DeliverCancel
<1>5. cancelled' \subseteq Commands
  BY DEF DeliverCancel
<1>6. DeskTypeOK'
  BY <1>1, <1>2, <1>3, <1>4, <1>5 DEF DeliverCancel, CloudOK
<1>7. Executing'
  BY DEF DeliverCancel, Executing
<1>8. QED BY <1>6, <1>7

LEMMA CancelCallDesk ==
    ASSUME DeskInv, NEW c \in Commands, CancelCall(c)
    PROVE  DeskInv'
<1> USE DEF DeskInv, DeskTypeOK
<1>1. stopping' \in [Commands -> {"no", "call", "wait"}]
  BY DEF CancelCall
<1>2. DeskTypeOK'
  BY <1>1 DEF CancelCall, CloudOK, cloudVars
<1>3. Executing'
  BY DEF CancelCall, Executing
<1>4. QED BY <1>2, <1>3

LEMMA CancelBackDesk ==
    ASSUME DeskInv, NEW c \in Commands, CancelBack(c)
    PROVE  DeskInv'
<1> USE DEF DeskInv, DeskTypeOK
<1>1. stopping' \in [Commands -> {"no", "call", "wait"}]
  BY DEF CancelBack
<1>2. asked' \in [Commands -> {"no", "sent", "done"}]
  BY DEF CancelBack
<1>3. DeskTypeOK'
  BY <1>1, <1>2 DEF CancelBack, CloudOK
<1>4. Executing'
  BY DEF CancelBack, Executing
<1>5. QED BY <1>3, <1>4

LEMMA WatchOpensDesk ==
    ASSUME DeskInv, NEW c \in Commands, WatchOpens(c)
    PROVE  DeskInv'
<1> USE DEF DeskInv, DeskTypeOK
<1>1. watch' \in [Commands -> {"none", "down", "up"}]
  BY DEF WatchOpens
<1>2. DeskTypeOK'
  BY <1>1 DEF WatchOpens, CloudOK, cloudVars
<1>3. Executing'
  BY DEF WatchOpens, Executing
<1>4. QED BY <1>2, <1>3

LEMMA TakeDesk ==
    ASSUME DeskInv, NEW s \in Sessions, Take(s)
    PROVE  DeskInv'
<1> USE DEF DeskInv, DeskTypeOK
<1>1. queue' \in [Sessions -> Seq(Commands)]
  BY DEF Take
<1>2. exec' \in [Sessions -> Turn]
  BY DoingOK DEF Take
<1>3. CloudOK'
  BY TellOK DEF Take, CloudOK, Silent, Final
<1>4. cancelled' \subseteq Commands
  BY DEF Take
<1>5. DeskTypeOK'
  BY <1>1, <1>2, <1>3, <1>4 DEF Take, CloudOK
<1>6. Executing'
  <2>1. Head(queue[s]) \in Commands
    BY DEF Take
  <2>2. exec' = exec \/ exec' = [exec EXCEPT ![s] = Doing(Head(queue[s]), "call")]
    BY DEF Take
  <2>3. Doing(Head(queue[s]), "call").of \in Commands
    BY <2>1, DoingOK
  <2>4. QED BY <2>2, <2>3 DEF Executing
<1>7. QED BY <1>5, <1>6

LEMMA BackDesk ==
    ASSUME DeskInv, NEW s \in Sessions, Back(s)
    PROVE  DeskInv'
<1> USE DEF DeskInv, DeskTypeOK
<1>1. exec' \in [Sessions -> Turn]
  BY RestOK, DoingOK DEF Back, Executing, Turn
<1>2. CloudOK'
  BY TellOK, OutcomeOK DEF Back, Executing, CloudOK, Silent, Final
<1>3. known' \subseteq Commands
  BY DEF Back, Executing
<1>4. watch' \in [Commands -> {"none", "down", "up"}]
  BY DEF Back
<1>5. DeskTypeOK'
  BY <1>1, <1>2, <1>3, <1>4 DEF Back, CloudOK
<1>6. Executing'
  <2>1. exec[s].of \in Commands
    BY DEF Back, Executing
  <2>2. \/ exec' = [exec EXCEPT ![s] = Rest]
        \/ exec' = [exec EXCEPT ![s] = Doing(exec[s].of, "stop")]
        \/ exec' = [exec EXCEPT ![s] = Doing(exec[s].of, "wait")]
    BY DEF Back
  <2>3. QED BY <2>1, <2>2, DoingOK DEF Executing, Rest
<1>7. QED BY <1>5, <1>6

LEMMA StopBackDesk ==
    ASSUME DeskInv, NEW s \in Sessions, StopBack(s)
    PROVE  DeskInv'
<1> USE DEF DeskInv, DeskTypeOK
<1>1. exec' \in [Sessions -> Turn]
  BY RestOK DEF StopBack
<1>2. CloudOK'
  BY TellOK DEF StopBack, Executing, CloudOK, Final
<1>3. known' \subseteq Commands
  BY DEF StopBack
<1>4. cancelled' \subseteq Commands
  BY DEF StopBack
<1>5. DeskTypeOK'
  BY <1>1, <1>2, <1>3, <1>4 DEF StopBack, CloudOK
<1>6. Executing'
  BY DEF StopBack, Executing, Rest
<1>7. QED BY <1>5, <1>6

LEMMA DisconnectDesk ==
    ASSUME DeskInv, Disconnect
    PROVE  DeskInv'
<1> USE DEF DeskInv, DeskTypeOK
<1>1. DeskTypeOK'
  BY DEF Disconnect, CloudOK, cloudVars
<1>2. Executing'
  BY DEF Disconnect, Executing
<1>3. QED BY <1>1, <1>2

LEMMA ReconnectDesk ==
    ASSUME DeskInv, Reconnect
    PROVE  DeskInv'
<1> USE DEF DeskInv, DeskTypeOK
<1>1. DeskTypeOK'
  BY DEF Reconnect, CloudOK, cloudVars
<1>2. Executing'
  BY DEF Reconnect, Executing
<1>3. QED BY <1>1, <1>2

\* The answer of the Gateway is put down for the command that waits for it.
LEMMA AnswerOK ==
    ASSUME NEW t \in Turn, NEW at \in {"call", "start", "back"},
           NEW reply \in Active \cup Ended \cup {"none", "error"}
    PROVE  LET u == [t EXCEPT !.at = at, !.reply = reply]
           IN  u \in Turn /\ u.of = t.of /\ u.at = at
BY DEF Turn

LEMMA CallDesk ==
    ASSUME DeskInv, RunInv, NEW s \in Sessions, Call(s)
    PROVE  DeskInv'
<1> USE DEF DeskInv, DeskTypeOK
<1>1. exec[s] \in Turn /\ exec[s].of \in Commands
  BY DEF Call, Executing
<1>2. PICK at \in {"start", "back"}, reply \in Active \cup Ended \cup {"none", "error"} :
        exec' = [exec EXCEPT ![s] = [exec[s] EXCEPT !.at = at, !.reply = reply]]
  <2>1. CASE Known(exec[s].of) /\ Reply(s, run[exec[s].of])
    <3>1. run[exec[s].of] \in Active \cup Ended
      BY <2>1, <1>1, CommandsAssumption DEF RunInv, RunTypeOK, Known
    <3>2. QED BY <2>1, <3>1 DEF Reply
  <2>2. CASE Reply(s, "error")
    BY <2>2 DEF Reply
  <2>3. CASE exec' = [exec EXCEPT ![s].at = "start"]
    <3>1. exec[s].reply \in Active \cup Ended \cup {"none", "error"}
      BY <1>1 DEF Turn
    <3>2. [exec[s] EXCEPT !.at = "start"] = [exec[s] EXCEPT !.at = "start", !.reply = exec[s].reply]
      BY <1>1 DEF Turn
    <3>3. QED BY <2>3, <3>1, <3>2
  <2>4. QED BY <2>1, <2>2, <2>3 DEF Call
<1> DEFINE u == [exec[s] EXCEPT !.at = at, !.reply = reply]
<1>3. u \in Turn /\ u.of \in Commands
  <2>1. at \in {"call", "start", "back"}
    OBVIOUS
  <2>2. exec[s] \in Turn
    BY <1>1
  <2>3. u \in Turn /\ u.of = exec[s].of
    BY <2>1, <2>2 DEF Turn
  <2>4. QED BY <1>1, <2>3
<1>4. exec' \in [Sessions -> Turn]
  BY <1>2, <1>3
<1>5. DeskTypeOK'
  BY <1>4 DEF Call, cloudVars
<1>6. Executing'
  BY <1>2, <1>3 DEF Executing
<1>7. QED BY <1>5, <1>6

LEMMA StillDesk ==
    ASSUME DeskInv, UNCHANGED <<cloudVars, deskVars>>
    PROVE  DeskInv'
BY DEF DeskInv, DeskTypeOK, Executing, cloudVars, deskVars

\* Answered keeps what a queue works on.
LEMMA AnsweredOK ==
    ASSUME DeskInv, NEW r \in Runs, NEW status \in Active \cup Ended
    PROVE  /\ Answered(r, status) \in [Sessions -> Turn]
           /\ \A s \in Sessions :
                 Answered(r, status)[s].at # "rest" => Answered(r, status)[s].of \in Commands
<1> USE DEF DeskInv, DeskTypeOK
<1> DEFINE u(s) == [exec[s] EXCEPT !.at = "back", !.reply = status]
<1>1. \A s \in Sessions : u(s) \in Turn /\ u(s).of = exec[s].of
  BY AnswerOK
<1>2. \A s \in Sessions :
        Answered(r, status)[s] = IF exec[s].of = r /\ exec[s].at = "start" THEN u(s) ELSE exec[s]
  BY DEF Answered
<1>3. Answered(r, status) \in [Sessions -> Turn]
  <2> HIDE DEF u
  <2>1. \A s \in Sessions :
           (IF exec[s].of = r /\ exec[s].at = "start" THEN u(s) ELSE exec[s]) \in Turn
    BY <1>1
  <2>2. Answered(r, status) =
          [s \in Sessions |-> IF exec[s].of = r /\ exec[s].at = "start" THEN u(s) ELSE exec[s]]
    BY DEF Answered, u
  <2>3. QED BY <2>1, <2>2
<1>4. \A s \in Sessions :
        Answered(r, status)[s].at # "rest" => Answered(r, status)[s].of \in Commands
  <2> HIDE DEF u
  <2>1. QED BY <1>1, <1>2 DEF Executing
<1>5. QED BY <1>3, <1>4

LEMMA ObserveOK ==
    ASSUME DeskInv, NEW r \in Runs, NEW status \in Ended,
           NEW next \in [Sessions -> Turn],
           \A s \in Sessions : next[s].at # "rest" => next[s].of \in Commands,
           Observe(r, next, status),
           UNCHANGED <<asked, late, hands, link, seen, cancelled, queue, stopping, halts>>
    PROVE  DeskInv'
<1> USE DEF DeskInv, DeskTypeOK
<1>1. CASE r \in known /\ watch[r] = "up"
  <2>1. CloudOK'
    BY <1>1, TellOK, OutcomeOK DEF Observe, CloudOK
  <2>2. \A s \in Sessions : exec'[s] = Rest \/ exec'[s] = next[s]
    BY <1>1 DEF Observe
  <2>3. exec' \in [Sessions -> Turn]
    BY <1>1, RestOK DEF Observe
  <2>4. known' \subseteq Commands /\ watch' \in [Commands -> {"none", "down", "up"}]
    BY <1>1 DEF Observe
  <2>5. DeskTypeOK'
    BY <2>1, <2>3, <2>4 DEF CloudOK
  <2>6. Executing'
    <3>1. Rest.at = "rest"
      BY DEF Rest
    <3>2. QED BY <2>2, <3>1 DEF Executing
  <2>7. QED BY <2>5, <2>6
<1>2. CASE ~(r \in known /\ watch[r] = "up")
  <2>1. lost' \subseteq Commands
    <3>1. ASSUME Awaits(r)
          PROVE  r \in Commands
      BY <3>1 DEF Awaits, Executing
    <3>2. QED BY <1>2, <3>1 DEF Observe
  <2>2. exec' = next /\ cloud' = cloud /\ known' = known
    BY <1>2 DEF Observe
  <2>3. watch' \in [Commands -> {"none", "down", "up"}]
    BY <1>2 DEF Observe
  <2>4. QED BY <2>1, <2>2, <2>3 DEF Executing
<1>3. QED BY <1>1, <1>2

LEMMA RunStartsDesk ==
    ASSUME DeskInv, NEW r \in Runs, RunStarts(r)
    PROVE  DeskInv'
<1> USE DEF DeskInv, DeskTypeOK
<1>1. /\ exec' \in [Sessions -> Turn]
      /\ \A s \in Sessions : exec'[s].at # "rest" => exec'[s].of \in Commands
  BY AnsweredOK DEF RunStarts, Active
<1>2. QED BY <1>1 DEF RunStarts, Executing, cloudVars

LEMMA RunRefusedDesk ==
    ASSUME DeskInv, NEW r \in Runs, RunRefused(r)
    PROVE  DeskInv'
<1>1. "failed" \in Ended
  BY DEF Ended, Outcomes
<1>2. QED BY <1>1, AnsweredOK, ObserveOK DEF RunRefused

LEMMA RunReportsDesk ==
    ASSUME DeskInv, RunInv, NEW r \in Runs, RunReports(r)
    PROVE  DeskInv'
<1>1. run'[r] \in Ended
  BY DEF RunReports, Report, End, RunInv, RunTypeOK, Ended, Outcomes
<1>2. /\ exec \in [Sessions -> Turn]
      /\ \A s \in Sessions : exec[s].at # "rest" => exec[s].of \in Commands
  BY DEF DeskInv, DeskTypeOK, Executing
<1>3. QED BY <1>1, <1>2, ObserveOK DEF RunReports

LEMMA LocalDesk ==
    ASSUME DeskInv, Hand, halts' \subseteq Commands,
           UNCHANGED <<cloud, asked, late, link, seen, cancelled, queue, exec, stopping, known,
                       watch, lost>>
    PROVE  DeskInv'
<1> USE DEF DeskInv, DeskTypeOK
<1>1. hands' \in 0..MaxHands
  BY CommandsAssumption DEF Hand
<1>2. QED BY <1>1 DEF Executing

LEMMA LocalBackDesk ==
    ASSUME DeskInv, NEW c \in Commands, LocalBack(c)
    PROVE  DeskInv'
<1> USE DEF DeskInv, DeskTypeOK
<1>1. CloudOK'
  BY TellOK DEF LocalBack, CloudOK, Silent, Final
<1>2. /\ halts' \subseteq Commands /\ known' \subseteq Commands
      /\ watch' \in [Commands -> {"none", "down", "up"}]
  BY DEF LocalBack
<1>3. \A s \in Sessions : exec'[s] = Rest \/ exec'[s] = exec[s]
  BY DEF LocalBack
<1>4. exec' \in [Sessions -> Turn]
  BY RestOK DEF LocalBack
<1>5. DeskTypeOK'
  BY <1>1, <1>2, <1>4 DEF LocalBack, CloudOK
<1>6. Executing'
  <2>1. Rest.at = "rest"
    BY DEF Rest
  <2>2. QED BY <1>3, <2>1 DEF Executing
<1>7. QED BY <1>5, <1>6

LEMMA DeleteEndDesk ==
    ASSUME DeskInv, NEW s \in Sessions, DeleteEnd(s), Delete(s), ~DeleteBegin(s)
    PROVE  DeskInv'
<1> USE DEF DeskInv, DeskTypeOK
<1> DEFINE u(t) == [exec[t] EXCEPT !.at = "back", !.reply = "error"]
           gone(t) == exec[t].at = "start" /\ run'[exec[t].of] = "none"
<1>1. \A t \in Sessions : u(t) \in Turn /\ u(t).of = exec[t].of
  BY AnswerOK
<1>2. exec' = [t \in Sessions |-> IF gone(t) THEN u(t) ELSE exec[t]]
  BY DEF Delete
<1> HIDE DEF u, gone
<1>3. exec' \in [Sessions -> Turn]
  <2>1. \A t \in Sessions : (IF gone(t) THEN u(t) ELSE exec[t]) \in Turn
    BY <1>1
  <2>2. QED BY <2>1, <1>2
<1>4. Executing'
  <2>1. \A t \in Sessions : exec'[t].of = exec[t].of
    BY <1>1, <1>2
  <2>2. \A t \in Sessions : exec'[t].at # "rest" => exec[t].at # "rest"
    BY <1>2 DEF gone
  <2>3. QED BY <2>1, <2>2 DEF Executing
<1>5. DeskTypeOK'
  BY <1>3 DEF Delete, cloudVars
<1>6. QED BY <1>4, <1>5

LEMMA GatewayRestartDesk ==
    ASSUME DeskInv, GatewayRestart
    PROVE  DeskInv'
<1> USE DEF DeskInv, DeskTypeOK
<1> DEFINE u(s) == [exec[s] EXCEPT !.at = "call"]
<1>1. \A s \in Sessions : u(s) \in Turn /\ u(s).of = exec[s].of
  BY ZenonT(30) DEF Turn
<1>2. exec' = [s \in Sessions |-> IF exec[s].at = "start" THEN u(s) ELSE exec[s]]
  BY DEF GatewayRestart
<1> HIDE DEF u
<1>3. exec' \in [Sessions -> Turn]
  <2>1. \A s \in Sessions : (IF exec[s].at = "start" THEN u(s) ELSE exec[s]) \in Turn
    BY <1>1
  <2>2. QED BY <2>1, <1>2
<1>4. Executing'
  BY <1>1, <1>2 DEF Executing
<1>5. /\ stopping' \in [Commands -> {"no", "call", "wait"}]
      /\ watch' \in [Commands -> {"none", "down", "up"}]
  BY DEF GatewayRestart
<1>6. DeskTypeOK'
  BY <1>3, <1>5 DEF GatewayRestart, cloudVars
<1>7. QED BY <1>4, <1>6

LEMMA DesktopRestartDesk ==
    ASSUME DeskInv, DesktopRestart
    PROVE  DeskInv'
<1> USE DEF DeskInv, DeskTypeOK
<1>1. exec' \in [Sessions -> Turn] /\ Executing'
  BY RestOK DEF DesktopRestart, Executing, Rest
<1>2. QED BY <1>1 DEF DesktopRestart, cloudVars

(***************************************************************************)
(* The theorems                                                            *)
(***************************************************************************)

LEMMA InitIInv == Init => IInv
<1> SUFFICES ASSUME Init PROVE IInv
  OBVIOUS
<1>1. RunInv
  BY RunsAssumption
     DEF Init, RunInit, RunInv, RunTypeOK, OneRunPerSession, BusyExactly, OneActive,
         RuntimeBehind, Begun, Active
<1>2. DeskTypeOK
  BY RestOK, CommandsAssumption DEF Init, DeskTypeOK, Final
<1>3. Executing
  BY DEF Init, Executing, Rest
<1>4. QED BY <1>1, <1>2, <1>3 DEF IInv

LEMMA StepIInv == IInv /\ [Next]_vars => IInv'
<1> SUFFICES ASSUME IInv, [Next]_vars PROVE RunInv' /\ DeskInv'
  BY DEF IInv, DeskInv
<1> USE DEF IInv
<1>0. DeskInv
  BY DEF DeskInv
<1>1. ASSUME NEW c \in Commands, Deliver(c) PROVE RunInv' /\ DeskInv'
  BY <1>0, <1>1, DeliverDesk, SameRuns DEF Deliver
<1>2. ASSUME NEW c \in Commands, Expire(c) PROVE RunInv' /\ DeskInv'
  BY <1>0, <1>2, ExpireDesk, SameRuns DEF Expire
<1>3. ASSUME NEW c \in Commands, Ask(c) PROVE RunInv' /\ DeskInv'
  BY <1>0, <1>3, AskDesk, SameRuns DEF Ask
<1>4. ASSUME NEW c \in Commands, DeliverCancel(c) PROVE RunInv' /\ DeskInv'
  BY <1>0, <1>4, DeliverCancelDesk, SameRuns DEF DeliverCancel
<1>5. ASSUME NEW c \in Commands, CancelCall(c) PROVE RunInv' /\ DeskInv'
  <2>1. c \in Runs
    BY CommandsAssumption
  <2>2. RunInv'
    BY <1>5, <2>1, StopKeeps DEF CancelCall
  <2>3. QED BY <1>0, <1>5, <2>2, CancelCallDesk
<1>6. ASSUME NEW c \in Commands, CancelBack(c) PROVE RunInv' /\ DeskInv'
  BY <1>0, <1>6, CancelBackDesk, SameRuns DEF CancelBack
<1>7. ASSUME NEW c \in Commands, WatchOpens(c) PROVE RunInv' /\ DeskInv'
  BY <1>0, <1>7, WatchOpensDesk, SameRuns DEF WatchOpens
<1>8. ASSUME NEW s \in Sessions, Take(s) PROVE RunInv' /\ DeskInv'
  BY <1>0, <1>8, TakeDesk, SameRuns DEF Take
<1>9. ASSUME NEW s \in Sessions, Call(s) PROVE RunInv' /\ DeskInv'
  <2> DEFINE c == exec[s].of
  <2>1. c \in Runs
    BY <1>9, CommandsAssumption DEF Call, Executing
  <2>2. CASE UNCHANGED runVars
    BY <1>0, <1>9, <2>2, CallDesk, SameRuns
  <2>3. CASE ~Known(c) /\ session[SessionOf[c]] # "running" /\ Accept(c)
    <3>1. RunInv'
      BY <2>1, <2>3, AcceptKeeps
    <3>2. QED BY <1>0, <1>9, <3>1, CallDesk
  <2>4. QED BY <1>9, <2>2, <2>3 DEF Call, Admits
<1>10. ASSUME NEW s \in Sessions, Back(s) PROVE RunInv' /\ DeskInv'
  BY <1>0, <1>10, BackDesk, SameRuns DEF Back
<1>11. ASSUME NEW s \in Sessions, StopCall(s) PROVE RunInv' /\ DeskInv'
  <2>1. exec[s].of \in Runs
    BY <1>11, CommandsAssumption DEF StopCall, Executing
  <2>2. RunInv'
    BY <1>11, <2>1, StopKeeps DEF StopCall
  <2>3. QED BY <1>0, <1>11, <2>2, StillDesk DEF StopCall
<1>12. ASSUME NEW s \in Sessions, StopBack(s) PROVE RunInv' /\ DeskInv'
  BY <1>0, <1>12, StopBackDesk, SameRuns DEF StopBack
<1>13. ASSUME NEW s \in Sessions, Delete(s) PROVE RunInv' /\ DeskInv'
  <2>1. CASE DeleteBegin(s) /\ UNCHANGED <<cloudVars, deskVars>>
    BY <1>0, <2>1, DeleteBeginKeeps, StillDesk
  <2>2. CASE DeleteEnd(s) /\ ~DeleteBegin(s)
    <3>1. CASE ~UNCHANGED <<session, run, agent, begun>>
      BY <1>0, <1>13, <2>2, <3>1, DeleteEndKeeps, DeleteEndDesk
    <3>2. CASE UNCHANGED <<session, run, agent, begun>>
      <4>1. deleting' \subseteq Sessions /\ faults' = faults
        BY <2>2 DEF DeleteEnd, RunInv, RunTypeOK
      <4>2. RunInv'
        BY <3>2, <4>1
           DEF RunInv, RunTypeOK, OneRunPerSession, BusyExactly, OneActive, RuntimeBehind, Begun
      <4>3. QED BY <1>0, <1>13, <2>2, <4>2, DeleteEndDesk
    <3>3. QED BY <3>1, <3>2
  <2>3. DeleteBegin(s) => ~DeleteEnd(s)
    BY CommandsAssumption DEF DeleteBegin, DeleteEnd, Fault, RunInv, RunTypeOK
  <2>4. QED BY <1>13, <2>1, <2>2, <2>3 DEF Delete
<1>14. ASSUME NEW r \in Runs, RunStarts(r) PROVE RunInv' /\ DeskInv'
  BY <1>0, <1>14, StartKeeps, RunStartsDesk DEF RunStarts
<1>15. ASSUME NEW r \in Runs, RunRefused(r) PROVE RunInv' /\ DeskInv'
  <2>1. "failed" \in Ended
    BY DEF Ended, Outcomes
  <2>2. RunInv'
    BY <1>15, <2>1, EndKeeps DEF RunRefused, RuntimeRefuses
  <2>3. QED BY <1>0, <1>15, <2>2, RunRefusedDesk
<1>16. ASSUME NEW r \in Runs, RunSettles(r) PROVE RunInv' /\ DeskInv'
  BY <1>0, <1>16, SettleKeeps, StillDesk DEF RunSettles, Outcomes
<1>17. ASSUME NEW r \in Runs, RunReports(r) PROVE RunInv' /\ DeskInv'
  <2>1. PICK status \in Ended : End(r, status)
    BY <1>17 DEF RunReports, Report, Ended, Outcomes
  <2>2. agent[r] # "none"
    BY <1>17 DEF RunReports, Report, Outcomes
  <2>3. RunInv'
    BY <2>1, <2>2, EndKeeps
  <2>4. QED BY <1>0, <1>17, <2>3, RunReportsDesk
<1>18. ASSUME NEW r \in Locals, LocalRun(r) PROVE RunInv' /\ DeskInv'
  <2>1. r \in Runs /\ ~Known(r) /\ session[SessionOf[r]] # "running"
    BY <1>18 DEF LocalRun, Locals, Admits
  <2>2. RunInv'
    BY <1>18, <2>1, AcceptKeeps, QuestionKeeps, ReplaceKeeps DEF LocalRun
  <2>3. halts' \subseteq Commands
    BY <1>18 DEF LocalRun, DeskTypeOK
  <2>4. QED BY <1>0, <1>18, <2>2, <2>3, LocalDesk DEF LocalRun
<1>19. ASSUME NEW r \in Runs, LocalStop(r) PROVE RunInv' /\ DeskInv'
  <2>1. halts' \subseteq Commands
    BY <1>19 DEF LocalStop, DeskTypeOK
  <2>2. QED BY <1>0, <1>19, <2>1, StopKeeps, LocalDesk DEF LocalStop
<1>20. CASE Disconnect
  BY <1>0, <1>20, FaultKeeps, DisconnectDesk DEF Disconnect
<1>21. CASE Reconnect
  <2>1. RunInv'
    BY <1>21, FaultKeeps, SameRuns DEF Reconnect, runVars
  <2>2. QED BY <1>0, <1>21, <2>1, ReconnectDesk
<1>22. CASE GatewayRestart
  BY <1>0, <1>22, RestartKeeps, GatewayRestartDesk DEF GatewayRestart
<1>23. CASE DesktopRestart
  BY <1>0, <1>23, RestartKeeps, DesktopRestartDesk DEF DesktopRestart
<1>24. CASE UNCHANGED vars
  BY <1>0, <1>24, SameRuns, StillDesk DEF vars
<1>25. ASSUME NEW c \in Commands, LocalBack(c) PROVE RunInv' /\ DeskInv'
  BY <1>0, <1>25, LocalBackDesk, SameRuns DEF LocalBack
<1>26. QED
  BY <1>1, <1>2, <1>3, <1>4, <1>5, <1>6, <1>7, <1>8, <1>9, <1>10, <1>11, <1>12, <1>13, <1>14,
     <1>15, <1>16, <1>17, <1>18, <1>19, <1>20, <1>21, <1>22, <1>23, <1>24, <1>25
     DEF Next, Queue, Cancels, Works

LEMMA Inductive == Spec => []IInv
BY InitIInv, StepIInv, PTL DEF Spec

\* The rows, the runtime, the queues, the watches and the cloud hold what they
\* may hold, for any number of sessions, runs and commands.
THEOREM Types == Spec => []TypeOK
<1>1. IInv => TypeOK
  BY DEF IInv, RunInv, TypeOK
<1>2. QED BY <1>1, Inductive, PTL

\* A session never has two active runs, is marked as running exactly while it
\* has one, and the runtime is behind every active run: startRun's admission,
\* replacement, deletion, cancellation and recovery keep to this in any order.
THEOREM Sessionwise == Spec => []OneRunPerSession
<1>1. IInv => OneRunPerSession
  BY DEF IInv, RunInv
<1>2. QED BY <1>1, Inductive, PTL

\* At-least-once delivery executes a command once, through any number of
\* redeliveries, lost connections and restarts of the desktop and the Gateway.
THEOREM Once == Spec => []ExecutedOnce
<1>1. IInv => ExecutedOnce
  BY DEF IInv, RunInv, Begun, ExecutedOnce
<1>2. QED BY <1>1, Inductive, PTL

(***************************************************************************)
(* The truth of what the phone is told                                     *)
(***************************************************************************)

\* What a queue holds, and that it holds nothing twice.
In(q) == {q[k] : k \in 1..Len(q)}
Distinct(q) == \A j, k \in 1..Len(q) : q[j] = q[k] => j = k

\* A command the desktop has taken is in one place at most: in the queue of its
\* session, once, or on its turn there.
Placed ==
    \A s \in Sessions :
       /\ Distinct(queue[s])
       /\ \A c \in In(queue[s]) : c \in seen /\ SessionOf[c] = s
       /\ exec[s].at # "rest" => /\ exec[s].of \in seen \ In(queue[s])
                                 /\ SessionOf[exec[s].of] = s

\* Where a command is: it waits, or has the turn of its session, at some stage.
Waits(c) == c \in In(queue[SessionOf[c]])
Stage(c) == IF exec[SessionOf[c]].of = c THEN exec[SessionOf[c]].at ELSE "rest"
Answer(c) == exec[SessionOf[c]].reply

\* What the queue is to do with a command before anyone may report its end.
Ahead(c) == Waits(c) \/ Stage(c) \in {"call", "start", "back"}

\* A command the Gateway has not been asked for runs nowhere.
Idles(c) == c \notin seen \/ Waits(c) \/ Stage(c) = "call" => run[c] \notin Active
\* The desktop listens to a run only when the queue has got its answer.
Watched(c) == c \in known => c \in seen /\ ~Ahead(c)
\* While the runtime starts a run, the queue awaits its answer.
Starting(c) == agent[c] = "starting" => Stage(c) = "start"
\* An answer that says the run is over is still so when the queue looks at it.
AnswerHolds(c) ==
    Stage(c) = "back" =>
       /\ Answer(c) \in Ended \cup {"error"} => run[c] \notin Active
       /\ Answer(c) = "completed" => run[c] \in {"completed", "none"}
\* FinalIsTrue, and that the queue has nothing left to do for what it tells of.
Told(c) == cloud[c] \in Final \ {"expired"}
ToldTrue(c) ==
    /\ Told(c) => run[c] \notin Active /\ ~Ahead(c)
    /\ cloud[c] = "completed" => run[c] \in {"completed", "none"}

\* FinalIsTrue is inductive only with what is known of a command at each stage
\* between its delivery and its report.
Truth(c) == Idles(c) /\ Watched(c) /\ Starting(c) /\ AnswerHolds(c) /\ ToldTrue(c)
Protocol == Placed /\ \A c \in Commands : Truth(c)

(***************************************************************************)
(* Queues                                                                  *)
(***************************************************************************)

LEMMA AppendIn ==
    ASSUME NEW q \in Seq(Commands), NEW c \in Commands, c \notin In(q), Distinct(q)
    PROVE  Distinct(Append(q, c)) /\ In(Append(q, c)) = In(q) \cup {c}
<1>1. /\ Append(q, c) \in Seq(Commands) /\ Len(Append(q, c)) = Len(q) + 1 /\ Len(q) \in Nat
      /\ \A k \in 1..Len(q) : Append(q, c)[k] = q[k]
      /\ Append(q, c)[Len(q) + 1] = c
  BY AppendProperties, LenProperties
<1> DEFINE r == Append(q, c)
<1> HIDE DEF r
<1>2. /\ Len(r) = Len(q) + 1 /\ Len(q) \in Nat
      /\ \A k \in 1..Len(q) : r[k] = q[k]
      /\ r[Len(q) + 1] = c
  BY <1>1 DEF r
<1>3. Distinct(r)
  BY <1>2 DEF Distinct, In
<1>4. In(r) = In(q) \cup {c}
  <2>1. ASSUME NEW x \in In(r) PROVE x \in In(q) \cup {c}
    BY <1>2, <2>1 DEF In
  <2>2. ASSUME NEW x \in In(q) PROVE x \in In(r)
    BY <1>2, <2>2 DEF In
  <2>3. c \in In(r)
    BY <1>2 DEF In
  <2>4. QED BY <2>1, <2>2, <2>3
<1>5. QED BY <1>3, <1>4 DEF r

LEMMA TailOut ==
    ASSUME NEW q \in Seq(Commands), q # << >>, Distinct(q)
    PROVE  /\ Head(q) \in In(q) /\ Distinct(Tail(q)) /\ In(Tail(q)) = In(q) \ {Head(q)}
<1> DEFINE r == Tail(q)
<1>1. /\ Len(q) \in Nat \ {0} /\ Head(q) = q[1] /\ r \in Seq(Commands) /\ Len(r) = Len(q) - 1
      /\ \A k \in 1..Len(q) - 1 : r[k] = q[k + 1]
  BY HeadTailProperties, LenProperties, EmptySeq
<1> HIDE DEF r
<1>2. Distinct(r)
  BY <1>1 DEF Distinct
<1>3. ASSUME NEW x \in In(r) PROVE x \in In(q) \ {q[1]}
  <2>1. PICK k \in 1..Len(q) - 1 : x = q[k + 1]
    BY <1>1, <1>3 DEF In
  <2>2. k + 1 \in 1..Len(q) /\ 1 \in 1..Len(q) /\ k + 1 # 1
    BY <1>1
  <2>3. QED BY <2>1, <2>2 DEF In, Distinct
<1>4. ASSUME NEW x \in In(q) \ {q[1]} PROVE x \in In(r)
  <2>1. PICK k \in 1..Len(q) : x = q[k]
    BY <1>4 DEF In
  <2>2. k # 1
    BY <1>4, <2>1
  <2>3. k - 1 \in 1..Len(q) - 1 /\ (k - 1) + 1 = k
    BY <1>1, <2>2
  <2>4. r[k - 1] = x
    BY <1>1, <2>1, <2>3
  <2>5. QED BY <1>1, <2>3, <2>4 DEF In
<1>5. q[1] \in In(q)
  BY <1>1 DEF In
<1>6. QED BY <1>1, <1>2, <1>3, <1>4, <1>5 DEF r

LEMMA RemoveOut ==
    ASSUME NEW q \in Seq(Commands), NEW k \in 1..Len(q), Distinct(q)
    PROVE  Distinct(RemoveAt(q, k)) /\ In(RemoveAt(q, k)) = In(q) \ {q[k]}
<1> DEFINE a == SubSeq(q, 1, k - 1)
           b == SubSeq(q, k + 1, Len(q))
           r == a \o b
<1>1. Len(q) \in Nat /\ \A i \in 1..Len(q) : q[i] \in Commands
  BY LenProperties, ElementOfSeq
<1>2. a \in Seq(Commands) /\ Len(a) = k - 1 /\ \A i \in 1..k - 1 : a[i] = q[i]
  <2>1. \A i \in 1..k - 1 : q[i] \in Commands
    BY <1>1
  <2>2. /\ a \in Seq(Commands) /\ Len(a) = IF 1 <= k - 1 THEN k - 1 - 1 + 1 ELSE 0
        /\ \A i \in 1..k - 1 - 1 + 1 : a[i] = q[1 + i - 1]
    BY <1>1, <2>1, SubSeqProperties
  <2> HIDE DEF a
  <2>3. QED BY <1>1, <2>2
<1>3. b \in Seq(Commands) /\ Len(b) = Len(q) - k /\ \A i \in 1..Len(q) - k : b[i] = q[k + i]
  <2>1. \A i \in k + 1..Len(q) : q[i] \in Commands
    BY <1>1
  <2>2. /\ b \in Seq(Commands)
        /\ Len(b) = IF k + 1 <= Len(q) THEN Len(q) - (k + 1) + 1 ELSE 0
        /\ \A i \in 1..Len(q) - (k + 1) + 1 : b[i] = q[k + 1 + i - 1]
    BY <1>1, <2>1, SubSeqProperties
  <2> HIDE DEF b
  <2>3. QED BY <1>1, <2>2
<1> HIDE DEF a, b
<1>4. /\ r \in Seq(Commands) /\ Len(r) = Len(a) + Len(b)
      /\ \A i \in 1..Len(a) + Len(b) : r[i] = IF i <= Len(a) THEN a[i] ELSE b[i - Len(a)]
  BY <1>2, <1>3, ConcatProperties
<1> HIDE DEF r
<1>5. /\ Len(r) = Len(q) - 1
      /\ \A i \in 1..Len(q) - 1 : r[i] = IF i < k THEN a[i] ELSE b[i - (k - 1)]
  <2>1. Len(a) = k - 1 /\ Len(a) + Len(b) = Len(q) - 1
    BY <1>1, <1>2, <1>3
  <2>2. \A i \in 1..Len(q) - 1 : i <= Len(a) <=> i < k
    BY <1>1, <2>1
  <2>3. \A i \in 1..Len(q) - 1 : r[i] = IF i <= Len(a) THEN a[i] ELSE b[i - Len(a)]
    BY <1>4, <2>1
  <2>4. Len(r) = Len(q) - 1
    BY <1>4, <2>1
  <2>5. QED BY <2>1, <2>2, <2>3, <2>4
<1>6. \A i \in 1..Len(q) - 1 : r[i] = IF i < k THEN q[i] ELSE q[i + 1]
  <2> TAKE i \in 1..Len(q) - 1
  <2>1. CASE i < k
    BY <1>1, <1>2, <1>5, <2>1
  <2>2. CASE ~(i < k)
    <3>1. i - (k - 1) \in 1..Len(q) - k /\ k + (i - (k - 1)) = i + 1
      BY <1>1, <2>2
    <3>2. b[i - (k - 1)] = q[i + 1]
      BY <1>3, <3>1
    <3>3. QED BY <1>5, <2>2, <3>2
  <2>3. QED BY <2>1, <2>2
<1>7. /\ Len(r) = Len(q) - 1
      /\ \A i \in 1..Len(q) - 1 : r[i] = IF i < k THEN q[i] ELSE q[i + 1]
  BY <1>5, <1>6
<1>8. Distinct(r)
  <2> SUFFICES ASSUME NEW i \in 1..Len(r), NEW j \in 1..Len(r), r[i] = r[j] PROVE i = j
    BY DEF Distinct
  <2>1. /\ i \in 1..Len(q) - 1 /\ j \in 1..Len(q) - 1
        /\ i \in 1..Len(q) /\ i + 1 \in 1..Len(q) /\ j \in 1..Len(q) /\ j + 1 \in 1..Len(q)
    BY <1>1, <1>7
  <2>2. /\ r[i] = IF i < k THEN q[i] ELSE q[i + 1]
        /\ r[j] = IF j < k THEN q[j] ELSE q[j + 1]
    BY <1>7, <2>1
  <2> DEFINE f == IF i < k THEN i ELSE i + 1
             g == IF j < k THEN j ELSE j + 1
  <2>3. f \in 1..Len(q) /\ g \in 1..Len(q) /\ q[f] = q[g] /\ (f = g => i = j)
    <3>1. f \in 1..Len(q) /\ g \in 1..Len(q) /\ (f = g => i = j)
      BY <1>1, <2>1
    <3>2. q[f] = r[i] /\ q[g] = r[j]
      BY <2>2
    <3>3. QED BY <3>1, <3>2
  <2>4. f = g
    BY <2>3 DEF Distinct
  <2>5. QED BY <2>3, <2>4
<1>9. ASSUME NEW x \in In(r) PROVE x \in In(q) \ {q[k]}
  <2>1. PICK i \in 1..Len(q) - 1 : x = r[i]
    BY <1>7, <1>9 DEF In
  <2>2. i \in 1..Len(q) /\ i + 1 \in 1..Len(q)
    BY <1>1
  <2>3. x = IF i < k THEN q[i] ELSE q[i + 1]
    BY <1>7, <2>1
  <2>4. QED BY <2>2, <2>3 DEF In, Distinct
<1>10. ASSUME NEW x \in In(q) \ {q[k]} PROVE x \in In(r)
  <2>1. PICK i \in 1..Len(q) : x = q[i] /\ i # k
    BY <1>10 DEF In
  <2>2. CASE i < k
    <3>1. i \in 1..Len(q) - 1
      BY <1>1, <2>2
    <3>2. r[i] = x
      BY <1>7, <2>1, <2>2, <3>1
    <3>3. QED BY <1>7, <3>1, <3>2 DEF In
  <2>3. CASE i > k
    <3>1. i - 1 \in 1..Len(q) - 1 /\ ~(i - 1 < k) /\ (i - 1) + 1 = i
      BY <1>1, <2>3
    <3>2. r[i - 1] = x
      BY <1>7, <2>1, <3>1
    <3>3. QED BY <1>7, <3>1, <3>2 DEF In
  <2>4. QED BY <2>1, <2>2, <2>3
<1>11. QED BY <1>8, <1>9, <1>10 DEF RemoveAt, r, a, b

(***************************************************************************)
(* What the desktop and the cloud do                                       *)
(***************************************************************************)

LEMMA Homes == \A c \in Commands : c \in Runs /\ SessionOf[c] \in Sessions
BY CommandsAssumption, RunsAssumption

\* Truth says nothing of the cloud while a command is on its way there.
LEMMA SameTruth ==
    ASSUME NEW c \in Commands, Truth(c), run[c] \in Active \/ run'[c] \in {run[c], "none"},
           agent'[c] = "starting" => agent[c] = "starting",
           cloud'[c] \in {cloud[c], "running", "expired"},
           c \in known' => c \in known, c \in seen' <=> c \in seen,
           Waits(c)' <=> Waits(c), Stage(c)' = Stage(c),
           Stage(c) = "back" => Answer(c)' = Answer(c)
    PROVE  Truth(c)'
BY DEF Truth, Idles, Watched, Starting, AnswerHolds, ToldTrue, Told, Ahead, Final, Active

LEMMA SameProtocol ==
    ASSUME Protocol, UNCHANGED <<run, seen, queue, exec>>,
           \A c \in Commands : /\ agent'[c] = "starting" => agent[c] = "starting"
                               /\ cloud'[c] \in {cloud[c], "running", "expired"}
                               /\ c \in known' => c \in known
    PROVE  Protocol'
<1>1. Placed'
  BY DEF Protocol, Placed, In, Distinct
<1>2. \A c \in Commands : /\ Waits(c)' <=> Waits(c)
                          /\ Stage(c)' = Stage(c) /\ Answer(c)' = Answer(c)
  BY DEF Waits, Stage, Answer, In
<1>3. ASSUME NEW c \in Commands PROVE Truth(c)'
  BY <1>2, SameTruth DEF Protocol
<1>4. QED BY <1>1, <1>3 DEF Protocol

\* The turn of one command goes on.
LEMMA OneTurn ==
    ASSUME DeskTypeOK, NEW c \in Commands, NEW t \in Turn,
           exec' = [exec EXCEPT ![SessionOf[c]] = t],
           exec[SessionOf[c]].of = c \/ exec[SessionOf[c]].at = "rest",
           t.of = c \/ t.at = "rest"
    PROVE  /\ \A d \in Commands : d # c =>
                 Stage(d)' = Stage(d) /\ (Stage(d) = "back" => Answer(d)' = Answer(d))
           /\ Stage(c)' = t.at /\ Answer(c)' = t.reply
<1>1. /\ exec'[SessionOf[c]] = t
      /\ \A s \in Sessions : s # SessionOf[c] => exec'[s] = exec[s]
  BY Homes DEF DeskTypeOK
<1>2. QED BY <1>1, Homes DEF Stage, Answer

LEMMA TellWhat ==
    ASSUME CloudOK, NEW c \in Commands, NEW status, Tell(c, status)
    PROVE  /\ \A d \in Commands : d # c => cloud'[d] = cloud[d]
           /\ cloud'[c] \in {cloud[c], status}
BY DEF CloudOK, Tell

LEMMA InSame ==
    ASSUME UNCHANGED queue
    PROVE  \A c \in Commands : Waits(c)' <=> Waits(c)
BY DEF Waits, In

LEMMA WaitsNext == \A c \in Commands : Waits(c)' <=> c \in In(queue'[SessionOf[c]])
BY DEF Waits, In

LEMMA PlacedNext ==
    ASSUME \A s \in Sessions :
              /\ Distinct(queue'[s])
              /\ \A c \in In(queue'[s]) : c \in seen' /\ SessionOf[c] = s
              /\ exec'[s].at # "rest" => /\ exec'[s].of \in seen' \ In(queue'[s])
                                         /\ SessionOf[exec'[s].of] = s
    PROVE  Placed'
BY DEF Placed, In, Distinct

LEMMA DeliverTrue ==
    ASSUME IInv, Protocol, NEW c \in Commands, Deliver(c)
    PROVE  Protocol'
<1>0. CloudOK /\ DeskTypeOK
  BY DEF IInv, DeskTypeOK, CloudOK
<1>1. CASE Tell(c, "expired") /\ UNCHANGED <<seen, queue>>
  BY <1>0, <1>1, TellWhat, SameProtocol DEF Deliver, runVars
<1>2. CASE /\ c \notin seen /\ seen' = seen \cup {c} /\ Silent
           /\ queue' = [queue EXCEPT ![SessionOf[c]] = Append(@, c)]
  <2> DEFINE h == SessionOf[c]
  <2>1. h \in Sessions /\ queue[h] \in Seq(Commands) /\ Distinct(queue[h]) /\ c \notin In(queue[h])
    BY <1>0, <1>2, Homes DEF Protocol, Placed, DeskTypeOK
  <2>2. /\ Distinct(queue'[h]) /\ In(queue'[h]) = In(queue[h]) \cup {c}
        /\ \A s \in Sessions : s # h => queue'[s] = queue[s]
    BY <1>0, <1>2, <2>1, AppendIn DEF DeskTypeOK
  <2>3. Placed'
    <3> SUFFICES ASSUME NEW s \in Sessions
                 PROVE  /\ Distinct(queue'[s])
                        /\ \A d \in In(queue'[s]) : d \in seen' /\ SessionOf[d] = s
                        /\ exec'[s].at # "rest" => /\ exec'[s].of \in seen' \ In(queue'[s])
                                                   /\ SessionOf[exec'[s].of] = s
      BY PlacedNext
    <3>1. exec'[s] = exec[s]
      BY DEF Deliver
    <3>2. QED BY <1>2, <2>2, <3>1 DEF Protocol, Placed
  <2>4. \A d \in Commands : Stage(d)' = Stage(d) /\ Answer(d)' = Answer(d)
    <3>1. exec' = exec
      BY DEF Deliver
    <3>2. QED BY <3>1 DEF Stage, Answer
  <2>5. \A d \in Commands : d # c => (Waits(d)' <=> Waits(d))
    BY <2>2, Homes, WaitsNext DEF Waits
  <2>6. ASSUME NEW d \in Commands, d # c PROVE Truth(d)'
    BY <1>2, <2>4, <2>5, <2>6, SameTruth DEF Deliver, Silent, Protocol, runVars
  <2>7. Truth(c)'
    <3>1. Truth(c) /\ ~Told(c) /\ cloud[c] # "completed"
      BY DEF Deliver, Told, Protocol, Final
    <3>2. run[c] \notin Active /\ c \notin known /\ Stage(c) = "rest"
      <4>1. Stage(c) = "rest"
        BY <1>2, Homes DEF Protocol, Placed, Stage
      <4>2. QED BY <1>2, <3>1, <4>1 DEF Truth, Idles, Watched
    <3>3. UNCHANGED <<run, agent, cloud, known>> /\ Stage(c)' = "rest"
      BY <1>2, <2>4, <3>2 DEF Deliver, Silent, runVars
    <3>4. QED
      BY <3>1, <3>2, <3>3
         DEF Truth, Idles, Watched, Starting, AnswerHolds, ToldTrue, Told, Ahead
  <2>8. QED BY <2>3, <2>6, <2>7 DEF Protocol
<1>3. QED BY <1>1, <1>2 DEF Deliver

LEMMA DeliverCancelTrue ==
    ASSUME IInv, Protocol, NEW c \in Commands, DeliverCancel(c)
    PROVE  Protocol'
<1>0. CloudOK /\ DeskTypeOK
  BY DEF IInv, DeskTypeOK, CloudOK
<1>1. CASE Silent /\ UNCHANGED queue
  BY <1>1, SameProtocol DEF DeliverCancel, Silent, runVars
<1>2. ASSUME NEW k \in DOMAIN queue[SessionOf[c]], queue[SessionOf[c]][k] = c,
             queue' = [queue EXCEPT ![SessionOf[c]] = RemoveAt(@, k)],
             Tell(c, "cancelled")
      PROVE  Protocol'
  <2> DEFINE h == SessionOf[c]
  <2>1. h \in Sessions /\ queue[h] \in Seq(Commands) /\ Distinct(queue[h]) /\ k \in 1..Len(queue[h])
    BY <1>0, <1>2, Homes DEF Protocol, Placed, DeskTypeOK
  <2>2. /\ Distinct(queue'[h]) /\ In(queue'[h]) = In(queue[h]) \ {c}
        /\ \A s \in Sessions : s # h => queue'[s] = queue[s]
    BY <1>0, <1>2, <2>1, RemoveOut DEF DeskTypeOK
  <2>3. c \in In(queue[h])
    BY <1>2, <2>1 DEF In
  <2>4. Placed'
    <3> SUFFICES ASSUME NEW s \in Sessions
                 PROVE  /\ Distinct(queue'[s])
                        /\ \A d \in In(queue'[s]) : d \in seen' /\ SessionOf[d] = s
                        /\ exec'[s].at # "rest" => /\ exec'[s].of \in seen' \ In(queue'[s])
                                                   /\ SessionOf[exec'[s].of] = s
      BY PlacedNext
    <3>1. exec'[s] = exec[s] /\ seen' = seen
      BY DEF DeliverCancel
    <3>2. QED BY <2>2, <3>1 DEF Protocol, Placed
  <2>5. \A d \in Commands : Stage(d)' = Stage(d) /\ Answer(d)' = Answer(d)
    <3>1. exec' = exec
      BY DEF DeliverCancel
    <3>2. QED BY <3>1 DEF Stage, Answer
  <2>6. ASSUME NEW d \in Commands, d # c PROVE Truth(d)'
    <3>1. Waits(d)' <=> Waits(d)
      BY <2>2, <2>6, Homes, WaitsNext DEF Waits
    <3>2. cloud'[d] = cloud[d]
      BY <1>0, <1>2, <2>6, TellWhat
    <3>3. QED BY <2>5, <3>1, <3>2, SameTruth DEF DeliverCancel, Protocol, runVars
  <2>7. Truth(c)'
    <3>1. /\ run[c] \notin Active /\ c \notin known /\ Stage(c) = "rest" /\ ~Waits(c)'
          /\ Truth(c)
      <4>1. Truth(c) /\ Waits(c) /\ ~Waits(c)'
        BY <2>2, <2>3, WaitsNext DEF Waits, Protocol
      <4>2. Stage(c) = "rest"
        BY <2>1, <2>3 DEF Protocol, Placed, Stage
      <4>3. QED BY <4>1, <4>2 DEF Truth, Idles, Watched, Ahead
    <3>2. UNCHANGED <<run, agent, known>> /\ Stage(c)' = "rest"
      BY <2>5, <3>1 DEF DeliverCancel, runVars
    <3>3. cloud'[c] \in {cloud[c], "cancelled"}
      BY <1>0, <1>2, TellWhat
    <3>4. QED
      BY <3>1, <3>2, <3>3
         DEF Truth, Idles, Watched, Starting, AnswerHolds, ToldTrue, Told, Ahead
  <2>8. QED BY <2>4, <2>6, <2>7 DEF Protocol
<1>3. QED BY <1>1, <1>2 DEF DeliverCancel

\* A turn that goes on, or ends, leaves every command in its place.
LEMMA TurnPlaced ==
    ASSUME Placed, UNCHANGED <<queue, seen>>,
           \A s \in Sessions : exec'[s].at # "rest" =>
                              exec[s].at # "rest" /\ exec'[s].of = exec[s].of
    PROVE  Placed'
BY PlacedNext DEF Placed

\* The command on turn in a session.
LEMMA OnTurn ==
    ASSUME IInv, Protocol, NEW s \in Sessions, exec[s].at # "rest"
    PROVE  LET c == exec[s].of
           IN  /\ c \in Commands /\ SessionOf[c] = s /\ c \in seen /\ ~Waits(c)
               /\ Stage(c) = exec[s].at /\ Answer(c) = exec[s].reply /\ Truth(c)
BY DEF IInv, Executing, Protocol, Placed, Stage, Answer, Waits

LEMMA TakeTrue ==
    ASSUME IInv, Protocol, NEW s \in Sessions, NEW c \in Commands, c = Head(queue[s]), Take(s)
    PROVE  Protocol'
<1>0. CloudOK /\ DeskTypeOK
  BY DEF IInv, DeskTypeOK, CloudOK
<1>1. /\ queue[s] \in Seq(Commands) /\ queue[s] # << >> /\ Distinct(queue[s])
      /\ exec[s].at = "rest" /\ queue' = [queue EXCEPT ![s] = Tail(queue[s])]
  BY <1>0 DEF Take, DeskTypeOK, Protocol, Placed
<1>2. /\ c \in In(queue[s])
      /\ Distinct(queue'[s]) /\ In(queue'[s]) = In(queue[s]) \ {c}
      /\ \A t \in Sessions : t # s => queue'[t] = queue[t]
  BY <1>0, <1>1, TailOut DEF DeskTypeOK
<1>3. /\ SessionOf[c] = s /\ c \in seen /\ Stage(c) = "rest" /\ Truth(c)
      /\ Waits(c) /\ ~Waits(c)'
  BY <1>1, <1>2, WaitsNext DEF Protocol, Placed, Stage, Waits
<1>4. UNCHANGED <<run, agent, seen, known>>
  BY DEF Take, runVars
<1>5. PICK t \in Turn :
         /\ exec' = [exec EXCEPT ![SessionOf[c]] = t]
         /\ t.of = c \/ t.at = "rest"
         /\ t.at \in {"rest", "call"}
         /\ t.at = "call" => cloud' = cloud
  <2>1. CASE UNCHANGED exec
    <3>1. exec' = [exec EXCEPT ![SessionOf[c]] = exec[s]] /\ exec[s] \in Turn
      BY <1>0, <1>3, <2>1 DEF DeskTypeOK
    <3>2. QED BY <1>1, <3>1
  <2>2. CASE exec' = [exec EXCEPT ![s] = Doing(c, "call")] /\ Silent
    BY <1>2, <1>3, <2>2, DoingOK DEF Silent
  <2>3. QED BY <2>1, <2>2 DEF Take
<1>6. Tell(c, "cancelled") \/ Tell(c, "expired") \/ cloud' = cloud
  BY DEF Take, Silent
<1>7. /\ \A d \in Commands : d # c => cloud'[d] = cloud[d]
      /\ cloud'[c] \in {cloud[c], "cancelled", "expired"}
  BY <1>0, <1>2, <1>6, TellWhat
<1>8. /\ \A d \in Commands : d # c =>
            Stage(d)' = Stage(d) /\ (Stage(d) = "back" => Answer(d)' = Answer(d))
      /\ Stage(c)' = t.at
  BY <1>0, <1>1, <1>2, <1>3, <1>5, OneTurn
<1>9. Placed'
  <2> SUFFICES ASSUME NEW x \in Sessions
               PROVE  /\ Distinct(queue'[x])
                      /\ \A d \in In(queue'[x]) : d \in seen' /\ SessionOf[d] = x
                      /\ exec'[x].at # "rest" => /\ exec'[x].of \in seen' \ In(queue'[x])
                                                 /\ SessionOf[exec'[x].of] = x
    BY PlacedNext
  <2>1. x # s => exec'[x] = exec[x]
    BY <1>0, <1>3, <1>5 DEF DeskTypeOK
  <2>2. x = s => exec'[x] = t
    BY <1>0, <1>3, <1>5 DEF DeskTypeOK
  <2>3. QED BY <1>2, <1>3, <1>4, <1>5, <2>1, <2>2 DEF Protocol, Placed
<1>10. ASSUME NEW d \in Commands, d # c PROVE Truth(d)'
  <2>1. Waits(d)' <=> Waits(d)
    BY <1>2, <1>10, Homes, WaitsNext DEF Waits
  <2>2. QED BY <1>4, <1>7, <1>8, <1>10, <2>1, SameTruth DEF Protocol
<1>11. Truth(c)'
  BY <1>3, <1>4, <1>5, <1>7, <1>8
     DEF Truth, Idles, Watched, Starting, AnswerHolds, ToldTrue, Told, Ahead, Final
<1>12. QED BY <1>9, <1>10, <1>11 DEF Protocol

\* A turn goes on: what must be so of its command afterwards.
LEMMA TurnKeeps ==
    ASSUME IInv, Protocol, NEW s \in Sessions, NEW c \in Commands,
           exec[s].of = c, exec[s].at # "rest", NEW t \in Turn,
           exec' = [exec EXCEPT ![s] = t], t.of = c \/ t.at = "rest",
           UNCHANGED <<queue, seen>>,
           \A d \in Commands \ {c} :
              run'[d] = run[d] /\ agent'[d] = agent[d] /\ cloud'[d] = cloud[d]
                 /\ (d \in known' => d \in known),
           Stage(c)' = t.at /\ Answer(c)' = t.reply /\ ~Waits(c)' => Truth(c)'
    PROVE  Protocol'
<1>0. DeskTypeOK
  BY DEF IInv
<1>1. SessionOf[c] = s /\ ~Waits(c)
  BY OnTurn
<1>2. /\ \A d \in Commands : d # c =>
            Stage(d)' = Stage(d) /\ (Stage(d) = "back" => Answer(d)' = Answer(d))
      /\ Stage(c)' = t.at /\ Answer(c)' = t.reply
  BY <1>0, <1>1, OneTurn
<1>3. \A d \in Commands : Waits(d)' <=> Waits(d)
  BY InSame
<1>4. Placed'
  <2>1. \A x \in Sessions : exec'[x] = IF x = s THEN t ELSE exec[x]
    BY <1>0 DEF DeskTypeOK
  <2>2. QED BY <2>1, TurnPlaced DEF Protocol
<1>5. ASSUME NEW d \in Commands, d # c PROVE Truth(d)'
  BY <1>2, <1>3, <1>5, SameTruth DEF Protocol
<1>6. Truth(c)'
  BY <1>1, <1>2, <1>3
<1>7. QED BY <1>4, <1>5, <1>6 DEF Protocol

LEMMA CallTrue ==
    ASSUME IInv, Protocol, NEW s \in Sessions, NEW c \in Commands, exec[s].of = c, Call(s)
    PROVE  Protocol'
<1>1. /\ SessionOf[c] = s /\ c \in seen /\ Stage(c) = "call" /\ Truth(c) /\ c \in Runs
      /\ exec[s] \in Turn /\ exec[s].at = "call"
  BY OnTurn, Homes DEF Call, IInv, DeskTypeOK
<1>2. /\ run[c] \notin Active /\ agent[c] # "starting" /\ c \notin known /\ ~Told(c)
      /\ cloud[c] # "completed"
  BY <1>1 DEF Truth, Idles, Starting, Watched, ToldTrue, Told, Ahead, Final
<1>3. UNCHANGED <<queue, seen, cloud, known>>
  BY DEF Call, cloudVars
<1>4. CASE Known(c) /\ Reply(s, run[c]) /\ UNCHANGED runVars
  <2> DEFINE t == [exec[s] EXCEPT !.at = "back", !.reply = run[c]]
  <2>1. run[c] \in Ended
    BY <1>1, <1>2, <1>4 DEF IInv, RunInv, RunTypeOK, Known
  <2>2. t \in Turn /\ t.at = "back" /\ t.reply = run[c] /\ t.of = c
    BY <1>1, <2>1 DEF Turn
  <2>3. exec' = [exec EXCEPT ![s] = t] /\ UNCHANGED <<run, agent>>
    BY <1>1, <1>4 DEF Reply, runVars
  <2> HIDE DEF t
  <2>4. Stage(c)' = "back" /\ Answer(c)' = run[c] /\ ~Waits(c)' => Truth(c)'
    BY <1>1, <1>2, <1>3, <2>3
       DEF Truth, Idles, Watched, Starting, AnswerHolds, ToldTrue, Told, Ahead
  <2>5. QED BY <1>1, <1>3, <2>2, <2>3, <2>4, TurnKeeps
<1>5. CASE ~Known(c) /\ Reply(s, "error") /\ UNCHANGED runVars
  <2> DEFINE t == [exec[s] EXCEPT !.at = "back", !.reply = "error"]
  <2>1. t \in Turn /\ t.at = "back" /\ t.reply = "error" /\ t.of = c
    BY <1>1 DEF Turn
  <2>2. exec' = [exec EXCEPT ![s] = t] /\ UNCHANGED <<run, agent>>
    BY <1>1, <1>5 DEF Reply, runVars
  <2> HIDE DEF t
  <2>3. Stage(c)' = "back" /\ Answer(c)' = "error" /\ ~Waits(c)' => Truth(c)'
    BY <1>1, <1>2, <1>3, <2>2
       DEF Truth, Idles, Watched, Starting, AnswerHolds, ToldTrue, Told, Ahead
  <2>4. QED BY <1>1, <1>3, <2>1, <2>2, <2>3, TurnKeeps
<1>6. CASE Accept(c) /\ exec' = [exec EXCEPT ![s].at = "start"]
  <2> DEFINE t == [exec[s] EXCEPT !.at = "start"]
  <2>1. t \in Turn /\ t.at = "start" /\ t.of = c
    BY <1>1 DEF Turn
  <2>2. exec' = [exec EXCEPT ![s] = t]
    BY <1>6
  <2>3. \A d \in Commands \ {c} : run'[d] = run[d] /\ agent'[d] = agent[d]
    BY <1>6, Homes DEF Accept, IInv, RunInv, RunTypeOK
  <2> HIDE DEF t
  <2>4. Stage(c)' = "start" /\ ~Waits(c)' => Truth(c)'
    BY <1>1, <1>2, <1>3
       DEF Truth, Idles, Watched, Starting, AnswerHolds, ToldTrue, Told, Ahead
  <2>5. QED BY <1>1, <1>3, <2>1, <2>2, <2>3, <2>4, TurnKeeps
<1>7. QED BY <1>4, <1>5, <1>6 DEF Call

LEMMA OutcomeWhat ==
    ASSUME NEW status \in Ended
    PROVE  Outcome(status) = "completed" <=> status = "completed"
BY DEF Outcome

LEMMA BackTrue ==
    ASSUME IInv, Protocol, NEW s \in Sessions, NEW c \in Commands, exec[s].of = c, Back(s)
    PROVE  Protocol'
<1>0. CloudOK
  BY DEF IInv, DeskTypeOK, CloudOK
<1>1. /\ SessionOf[c] = s /\ c \in seen /\ Stage(c) = "back" /\ Truth(c)
      /\ exec[s].at = "back" /\ Answer(c) = exec[s].reply
  BY OnTurn DEF Back
<1>2. /\ agent[c] # "starting" /\ ~Told(c) /\ cloud[c] # "completed"
      /\ exec[s].reply \in Ended \cup {"error"} => run[c] \notin Active
      /\ exec[s].reply = "completed" => run[c] \in {"completed", "none"}
  BY <1>1 DEF Truth, Starting, AnswerHolds, ToldTrue, Told, Ahead, Final
<1>3. UNCHANGED <<queue, seen, run, agent>>
  BY DEF Back, runVars
<1>4. PICK status \in {"running"} \cup Final, t \in {Rest, Doing(c, "stop"), Doing(c, "wait")} :
         /\ exec' = [exec EXCEPT ![s] = t]
         /\ Tell(c, status) \/ Silent
         /\ t = Rest => known' \subseteq known /\ c \notin known'
         /\ t # Rest => known' = known \cup {c}
         /\ status \in Final /\ ~Silent => t = Rest /\ run[c] \notin Active
         /\ status = "completed" /\ ~Silent => run[c] \in {"completed", "none"}
  <2>1. Rest # Doing(c, "stop") /\ Rest # Doing(c, "wait")
    BY DEF Rest, Doing
  <2>2. CASE exec[s].reply = "error"
    <3>1. Tell(c, "failed") /\ exec' = [exec EXCEPT ![s] = Rest] /\ known' = known
      BY <2>2 DEF Back
    <3>2. c \notin known
      BY <1>1 DEF Truth, Watched, Ahead
    <3>3. QED BY <1>2, <2>1, <2>2, <3>1, <3>2 DEF Final
  <2>3. CASE exec[s].reply # "error" /\ c \in cancelled
    BY <2>1, <2>3 DEF Back, Final
  <2>4. CASE exec[s].reply # "error" /\ c \notin cancelled /\ exec[s].reply \in Ended
    <3>1. Outcome(exec[s].reply) \in Final
      BY <2>4, OutcomeOK
    <3>2. QED BY <1>2, <2>1, <2>4, <3>1, OutcomeWhat DEF Back
  <2>5. CASE exec[s].reply # "error" /\ c \notin cancelled /\ exec[s].reply \notin Ended
    BY <2>1, <2>5 DEF Back, Final
  <2>6. QED BY <2>2, <2>3, <2>4, <2>5
<1>5. t \in Turn /\ (t.of = c \/ t.at = "rest") /\ t.at \in {"rest", "stop", "wait"}
      /\ (t.at = "rest" <=> t = Rest)
  BY RestOK, DoingOK DEF Rest
<1>6. /\ \A d \in Commands : d # c => cloud'[d] = cloud[d]
      /\ cloud'[c] \in {cloud[c], status}
      /\ Silent => cloud'[c] = cloud[c]
  BY <1>0, <1>4, TellWhat DEF Silent
<1>7. Stage(c)' = t.at /\ ~Waits(c)' => Truth(c)'
  BY <1>1, <1>2, <1>3, <1>4, <1>5, <1>6
     DEF Truth, Idles, Watched, Starting, AnswerHolds, ToldTrue, Told, Ahead, Final
<1>8. \A d \in Commands \ {c} : d \in known' => d \in known
  BY <1>4
<1>9. QED BY <1>1, <1>3, <1>4, <1>5, <1>6, <1>7, <1>8, TurnKeeps

LEMMA StopBackTrue ==
    ASSUME IInv, Protocol, NEW s \in Sessions, NEW c \in Commands, exec[s].of = c, StopBack(s)
    PROVE  Protocol'
<1>0. CloudOK
  BY DEF IInv, DeskTypeOK, CloudOK
<1>1. /\ SessionOf[c] = s /\ c \in seen /\ Stage(c) = "stop" /\ Truth(c) /\ c \in Runs
      /\ exec[s].at = "stop"
  BY OnTurn, Homes DEF StopBack
<1>2. /\ UNCHANGED <<queue, seen, run, agent>> /\ known' = known \ {c}
      /\ exec' = [exec EXCEPT ![s] = Rest] /\ Tell(c, "cancelled")
  BY DEF StopBack, runVars
<1>3. agent[c] = "none" /\ run[c] \notin Active
  BY <1>1 DEF StopBack, Stopped, Truth, Starting, IInv, RunInv, OneRunPerSession, RuntimeBehind
<1>4. /\ \A d \in Commands : d # c => cloud'[d] = cloud[d]
      /\ cloud'[c] \in {cloud[c], "cancelled"}
  BY <1>0, <1>2, TellWhat
<1>5. Rest.at = "rest" /\ Rest \in Turn
  BY RestOK DEF Rest
<1>6. Stage(c)' = "rest" /\ ~Waits(c)' => Truth(c)'
  BY <1>1, <1>2, <1>3, <1>4
     DEF Truth, Idles, Watched, Starting, AnswerHolds, ToldTrue, Told, Ahead
<1>7. QED BY <1>1, <1>2, <1>4, <1>5, <1>6, TurnKeeps

(***************************************************************************)
(* What the runtime answers and reports                                    *)
(***************************************************************************)

\* An answer of the Gateway puts the turn of its command back to the desktop.
LEMMA AnsweredTurn ==
    ASSUME IInv, Protocol, NEW r \in Runs, NEW status, exec' = Answered(r, status)
    PROVE  /\ \A d \in Commands : d # r =>
                 Stage(d)' = Stage(d) /\ (Stage(d) = "back" => Answer(d)' = Answer(d))
           /\ r \in Commands /\ Stage(r) = "start" => Stage(r)' = "back" /\ Answer(r)' = status
           /\ r \in Commands /\ Stage(r) # "start" => Stage(r)' = Stage(r) /\ Answer(r)' = Answer(r)
           /\ \A s \in Sessions : exec'[s].at # "rest" =>
                              exec[s].at # "rest" /\ exec'[s].of = exec[s].of
<1> DEFINE u(s) == [exec[s] EXCEPT !.at = "back", !.reply = status]
           mine(s) == exec[s].of = r /\ exec[s].at = "start"
<1>1. \A s \in Sessions : u(s).at = "back" /\ u(s).reply = status /\ u(s).of = exec[s].of
  BY DEF IInv, DeskTypeOK, Turn
<1>2. \A s \in Sessions : exec'[s] = IF mine(s) THEN u(s) ELSE exec[s]
  BY DEF Answered
<1> HIDE DEF u
<1>3. QED BY <1>1, <1>2, Homes DEF Stage, Answer

LEMMA RunStartsTrue ==
    ASSUME IInv, Protocol, NEW r \in Runs, RunStarts(r)
    PROVE  Protocol'
<1>1. /\ agent[r] = "starting" /\ exec' = Answered(r, "running")
      /\ UNCHANGED <<queue, seen, cloud, known>>
  BY DEF RunStarts, RuntimeStarts, cloudVars
<1>2. /\ run[r] \in Active
      /\ \A x \in Runs : x # r => run'[x] = run[x] /\ agent'[x] = agent[x]
      /\ agent'[r] = "working"
  BY <1>1
     DEF RunStarts, RuntimeStarts, IInv, RunInv, RunTypeOK, OneRunPerSession, RuntimeBehind
<1>3. Placed'
  BY <1>1, AnsweredTurn, TurnPlaced DEF Protocol
<1>4. ASSUME NEW d \in Commands, d # r PROVE Truth(d)'
  BY <1>1, <1>2, <1>4, AnsweredTurn, InSame, Homes, SameTruth DEF Protocol
<1>5. ASSUME r \in Commands PROVE Truth(r)'
  <2>1. Stage(r) = "start" /\ Truth(r)
    BY <1>1, <1>5 DEF Protocol, Truth, Starting
  <2>2. Stage(r)' = "back" /\ Answer(r)' = "running" /\ (Waits(r)' <=> Waits(r))
    BY <1>1, <1>5, <2>1, AnsweredTurn, InSame
  <2>3. "running" \notin Ended \cup {"error"}
    BY DEF Ended, Outcomes
  <2>4. r \in seen /\ ~Waits(r) /\ ~Told(r) /\ r \notin known /\ cloud[r] # "completed"
    BY <1>2, <2>1 DEF Truth, Idles, Watched, ToldTrue, Told, Ahead, Final
  <2>5. Idles(r)' /\ Watched(r)' /\ Starting(r)'
    BY <1>1, <1>2, <2>2, <2>4 DEF Idles, Watched, Starting
  <2>6. AnswerHolds(r)'
    BY <2>2, <2>3 DEF AnswerHolds
  <2>7. ToldTrue(r)'
    BY <1>1, <2>4 DEF ToldTrue, Told
  <2>8. QED BY <2>5, <2>6, <2>7 DEF Truth
<1>6. QED BY <1>3, <1>4, <1>5 DEF Protocol

LEMMA RunRefusedTrue ==
    ASSUME IInv, Protocol, NEW r \in Runs, RunRefused(r)
    PROVE  Protocol'
<1>1. /\ agent[r] = "starting" /\ UNCHANGED <<queue, seen>>
      /\ Observe(r, Answered(r, "failed"), "failed")
  BY DEF RunRefused, RuntimeRefuses
<1>2. /\ run[r] \in Active
      /\ \A x \in Runs : x # r => run'[x] = run[x] /\ agent'[x] = agent[x]
      /\ run'[r] = "failed" /\ agent'[r] = "none"
  BY <1>1
     DEF RunRefused, RuntimeRefuses, End, IInv, RunInv, RunTypeOK, OneRunPerSession,
         RuntimeBehind
<1>3. r \in Commands => Stage(r) = "start" /\ Truth(r)
  BY <1>1 DEF Protocol, Truth, Starting
<1>4. r \notin known
  BY <1>3 DEF Truth, Watched, Ahead, IInv, DeskTypeOK
<1>5. exec' = Answered(r, "failed") /\ UNCHANGED <<cloud, known>>
  BY <1>1, <1>4 DEF Observe
<1>6. Placed'
  BY <1>1, <1>5, AnsweredTurn, TurnPlaced DEF Protocol
<1>7. ASSUME NEW d \in Commands, d # r PROVE Truth(d)'
  BY <1>1, <1>2, <1>5, <1>7, AnsweredTurn, InSame, Homes, SameTruth DEF Protocol
<1>8. ASSUME r \in Commands PROVE Truth(r)'
  <2>1. Stage(r)' = "back" /\ Answer(r)' = "failed" /\ (Waits(r)' <=> Waits(r))
    BY <1>1, <1>3, <1>5, <1>8, AnsweredTurn, InSame
  <2>2. QED
    BY <1>1, <1>2, <1>3, <1>5, <1>8, <2>1
       DEF Truth, Idles, Watched, Starting, AnswerHolds, ToldTrue, Told, Ahead, Active
<1>9. QED BY <1>6, <1>7, <1>8 DEF Protocol

LEMMA RunReportsTrue ==
    ASSUME IInv, Protocol, NEW r \in Runs, RunReports(r)
    PROVE  Protocol'
<1>0. CloudOK
  BY DEF IInv, DeskTypeOK, CloudOK
<1>1. UNCHANGED <<queue, seen>> /\ Observe(r, exec, run'[r])
  BY DEF RunReports
<1>2. /\ run[r] \in Active
      /\ \A x \in Runs : x # r => run'[x] = run[x] /\ agent'[x] = agent[x]
      /\ run'[r] \in Ended /\ agent'[r] = "none"
  BY DEF RunReports, Report, End, IInv, RunInv, RunTypeOK, OneRunPerSession,
         RuntimeBehind, Outcomes, Ended
<1>3. \A s \in Sessions :
         exec'[s] = exec[s] \/ (exec'[s] = Rest /\ exec[s].of = r /\ exec[s].at = "wait")
  BY <1>1 DEF Observe, IInv, DeskTypeOK
<1>4. Placed'
  BY <1>1, <1>3, TurnPlaced DEF Protocol, Rest
<1>5. \A d \in Commands : d # r =>
         Stage(d)' = Stage(d) /\ (Stage(d) = "back" => Answer(d)' = Answer(d))
  BY <1>3, Homes DEF Stage, Answer, Rest
<1>6. CASE r \in known /\ watch[r] = "up"
  <2>1. r \in Commands /\ Tell(r, Outcome(run'[r])) /\ known' = known \ {r}
    BY <1>1, <1>6 DEF Observe, IInv, DeskTypeOK
  <2>2. /\ \A d \in Commands : d # r => cloud'[d] = cloud[d]
        /\ cloud'[r] \in {cloud[r], Outcome(run'[r])}
    BY <1>0, <2>1, TellWhat
  <2>3. ASSUME NEW d \in Commands, d # r PROVE Truth(d)'
    BY <1>1, <1>2, <1>5, <2>1, <2>2, <2>3, InSame, Homes, SameTruth DEF Protocol
  <2>4. Truth(r) /\ ~Ahead(r) /\ (Waits(r)' <=> Waits(r))
    BY <1>1, <1>6, <2>1, InSame DEF Protocol, Truth, Watched
  <2>5. Stage(r)' \in {Stage(r), "rest"}
    BY <1>3, <2>1, Homes DEF Stage, Rest
  <2>6. run'[r] \notin Active /\ cloud[r] # "completed"
    BY <1>2, <2>4 DEF Truth, ToldTrue, Active, Ended, Outcomes
  <2>7. Outcome(run'[r]) = "completed" => run'[r] = "completed"
    BY <1>2, OutcomeWhat
  <2>8. Truth(r)'
    BY <1>1, <1>2, <2>1, <2>2, <2>4, <2>5, <2>6, <2>7
       DEF Truth, Idles, Watched, Starting, AnswerHolds, ToldTrue, Told, Ahead
  <2>9. QED BY <1>4, <2>3, <2>8 DEF Protocol
<1>7. CASE ~(r \in known /\ watch[r] = "up")
  <2>1. exec' = exec /\ UNCHANGED <<cloud, known>>
    BY <1>1, <1>7 DEF Observe
  <2>2. ASSUME NEW d \in Commands PROVE Truth(d)'
    <3>1. Stage(d)' = Stage(d) /\ Answer(d)' = Answer(d)
      BY <2>1 DEF Stage, Answer
    <3>2. QED BY <1>1, <1>2, <2>1, <3>1, InSame, Homes, SameTruth DEF Protocol
  <2>3. QED BY <1>4, <2>2 DEF Protocol
<1>8. QED BY <1>6, <1>7

(***************************************************************************)
(* The user, crashes, and the whole                                        *)
(***************************************************************************)

LEMMA LocalRunTrue ==
    ASSUME IInv, Protocol, NEW r \in Locals, LocalRun(r)
    PROVE  Protocol'
<1>1. UNCHANGED <<queue, seen, exec, cloud, known>>
  BY DEF LocalRun
<1>2. r \in Runs \ Commands
  BY DEF Locals
<1>3. /\ \A x \in Runs : x # r => run'[x] \in {run[x], "none"}
      /\ \A x \in Runs : x # r => agent'[x] = agent[x]
  BY <1>2 DEF LocalRun, Accept, Question, Replace, IInv, RunInv, RunTypeOK
<1>4. Placed'
  BY <1>1, TurnPlaced DEF Protocol
<1>5. ASSUME NEW d \in Commands PROVE Truth(d)'
  <2>1. Stage(d)' = Stage(d) /\ Answer(d)' = Answer(d)
    BY <1>1 DEF Stage, Answer
  <2>2. run'[d] \in {run[d], "none"} /\ agent'[d] = agent[d]
    BY <1>2, <1>3, Homes
  <2>3. QED BY <1>1, <2>1, <2>2, InSame, SameTruth DEF Protocol
<1>6. QED BY <1>4, <1>5 DEF Protocol

\* The desktop makes an end of the answer to the user's stop.  It does so only for a
\* run it knows; that one is not being started, so that the runtime is done with it.
LEMMA LocalBackTrue ==
    ASSUME IInv, Protocol, NEW c \in Commands, LocalBack(c)
    PROVE  Protocol'
<1>0. CloudOK /\ c \in Runs
  BY Homes DEF IInv, DeskTypeOK, CloudOK
<1>1. UNCHANGED <<queue, seen, run, agent>>
  BY DEF LocalBack, runVars
<1>2. \A s \in Sessions :
         exec'[s] = exec[s] \/ (exec'[s] = Rest /\ exec[s].of = c /\ exec[s].at = "wait")
  BY DEF LocalBack, IInv, DeskTypeOK
<1>3. Placed'
  BY <1>1, <1>2, TurnPlaced DEF Protocol, Rest
<1>4. \A d \in Commands : d # c =>
         Stage(d)' = Stage(d) /\ (Stage(d) = "back" => Answer(d)' = Answer(d))
  BY <1>2, Homes DEF Stage, Answer, Rest
<1>5. CASE c \in known
  <2>1. Tell(c, "cancelled") /\ known' = known \ {c}
    BY <1>5 DEF LocalBack
  <2>2. /\ \A d \in Commands : d # c => cloud'[d] = cloud[d]
        /\ cloud'[c] \in {cloud[c], "cancelled"}
    BY <1>0, <2>1, TellWhat
  <2>3. ASSUME NEW d \in Commands, d # c PROVE Truth(d)'
    BY <1>1, <1>4, <2>1, <2>2, <2>3, InSame, Homes, SameTruth DEF Protocol
  <2>4. Truth(c) /\ ~Ahead(c) /\ (Waits(c)' <=> Waits(c))
    BY <1>1, <1>5, InSame DEF Protocol, Truth, Watched
  <2>5. Stage(c)' \in {Stage(c), "rest"}
    BY <1>2, Homes DEF Stage, Rest
  <2>6. run[c] \notin Active
    <3>1. agent[c] # "starting"
      BY <2>4 DEF Truth, Starting, Ahead
    <3>2. agent[c] = "none"
      BY <3>1 DEF LocalBack, Stopped
    <3>3. QED BY <1>0, <3>2 DEF IInv, RunInv, OneRunPerSession, RuntimeBehind
  <2>7. Truth(c)'
    BY <1>1, <2>1, <2>2, <2>4, <2>5, <2>6
       DEF Truth, Idles, Watched, Starting, AnswerHolds, ToldTrue, Told, Ahead
  <2>8. QED BY <1>3, <2>3, <2>7 DEF Protocol
<1>6. CASE c \notin known
  <2>1. UNCHANGED <<exec, cloud, known>>
    BY <1>6 DEF LocalBack, Silent
  <2>2. QED BY <1>1, <2>1, SameProtocol
<1>7. QED BY <1>5, <1>6

\* The turn whose run was deleted before the call returned.
Unanswered(t) == [exec[t] EXCEPT !.at = "back", !.reply = "error"]

\* What is left of a command whose run is deleted is at most an answer.
LEMMA DeleteEndTrue ==
    ASSUME IInv, Protocol, NEW s \in Sessions, DeleteEnd(s),
           exec' = [t \in Sessions |->
             IF exec[t].at = "start" /\ run'[exec[t].of] = "none"
             THEN Unanswered(t) ELSE exec[t]],
           UNCHANGED <<cloudVars, link, seen, cancelled, queue, stopping, known, watch>>
    PROVE  Protocol'
<1>1. UNCHANGED <<queue, seen, cloud, known>>
  BY DEF cloudVars
<1>2. \A x \in Runs : /\ run'[x] \in {run[x], "none"} /\ agent'[x] \in {agent[x], "none"}
                      /\ run'[x] = "none" => agent'[x] # "starting"
  BY DEF DeleteEnd, IInv, RunInv, RunTypeOK, OneRunPerSession, RuntimeBehind, Active
<1>3. /\ \A t \in Sessions : /\ Unanswered(t).at = "back" /\ Unanswered(t).reply = "error"
                             /\ Unanswered(t).of = exec[t].of
      /\ \A t \in Sessions : exec'[t] = IF exec[t].at = "start" /\ run'[exec[t].of] = "none"
                                        THEN Unanswered(t) ELSE exec[t]
  <2>1. \A t \in Sessions : exec[t] \in Turn
    BY DEF IInv, DeskTypeOK
  <2>2. \A t \in Sessions : /\ Unanswered(t).at = "back" /\ Unanswered(t).reply = "error"
                            /\ Unanswered(t).of = exec[t].of
    BY <2>1 DEF Turn, Unanswered
  <2>3. QED BY <2>2
<1>4. Placed'
  BY <1>1, <1>3, TurnPlaced DEF Protocol
<1>5. ASSUME NEW d \in Commands PROVE Truth(d)'
  <2>1. /\ Truth(d) /\ (Waits(d)' <=> Waits(d)) /\ d \in Runs
        /\ run'[d] \in {run[d], "none"} /\ agent'[d] \in {agent[d], "none"}
        /\ run'[d] = "none" => agent'[d] # "starting"
    BY <1>1, <1>2, InSame, Homes DEF Protocol
  <2>2. CASE Stage(d) = "start" /\ run'[d] = "none"
    <3>1. Stage(d)' = "back" /\ Answer(d)' = "error"
      BY <1>3, <2>2, Homes DEF Stage, Answer
    <3>2. run'[d] \notin Active /\ agent'[d] # "starting"
      BY <2>1, <2>2 DEF Active
    <3>3. QED
      BY <1>1, <2>1, <2>2, <3>1, <3>2
         DEF Truth, Idles, Watched, Starting, AnswerHolds, ToldTrue, Told, Ahead
  <2>3. CASE ~(Stage(d) = "start" /\ run'[d] = "none")
    <3>1. Stage(d)' = Stage(d) /\ (Stage(d) = "back" => Answer(d)' = Answer(d))
      BY <1>3, <2>3, Homes DEF Stage, Answer
    <3>2. QED BY <1>1, <2>1, <3>1, SameTruth
  <2>4. QED BY <2>2, <2>3
<1>6. QED BY <1>4, <1>5 DEF Protocol

\* The Gateway's runs are interrupted by a restart.
LEMMA RestartRuns ==
    ASSUME IInv, RunsRestart
    PROVE  \A x \in Runs : /\ run'[x] \notin Active /\ agent'[x] = "none"
                           /\ run[x] \in {"completed", "none"} => run'[x] = run[x]
BY DEF IInv, RunInv, RunTypeOK, RunsRestart, Active

LEMMA GatewayRestartTrue ==
    ASSUME IInv, Protocol, GatewayRestart
    PROVE  Protocol'
<1>1. UNCHANGED <<queue, seen, cloud, known>>
  BY DEF GatewayRestart, cloudVars
<1> DEFINE u(t) == [exec[t] EXCEPT !.at = "call"]
<1>2. /\ \A t \in Sessions : u(t).at = "call" /\ u(t).reply = exec[t].reply /\ u(t).of = exec[t].of
      /\ \A t \in Sessions : exec'[t] = IF exec[t].at = "start" THEN u(t) ELSE exec[t]
  BY DEF IInv, DeskTypeOK, Turn, GatewayRestart
<1> HIDE DEF u
<1>3. Placed'
  BY <1>1, <1>2, TurnPlaced DEF Protocol
<1>4. ASSUME NEW d \in Commands PROVE Truth(d)'
  <2>1. /\ Truth(d) /\ (Waits(d)' <=> Waits(d))
        /\ run'[d] \notin Active /\ agent'[d] = "none"
        /\ run[d] \in {"completed", "none"} => run'[d] = run[d]
    BY <1>1, RestartRuns, InSame, Homes DEF Protocol, GatewayRestart
  <2>2. /\ Stage(d)' = IF Stage(d) = "start" THEN "call" ELSE Stage(d)
        /\ Answer(d)' = Answer(d)
    BY <1>2, Homes DEF Stage, Answer
  <2>3. QED
    BY <1>1, <2>1, <2>2
       DEF Truth, Idles, Watched, Starting, AnswerHolds, ToldTrue, Told, Ahead
<1>5. QED BY <1>3, <1>4 DEF Protocol

LEMMA DesktopRestartTrue ==
    ASSUME IInv, Protocol, DesktopRestart
    PROVE  Protocol'
<1>1. /\ UNCHANGED cloud /\ seen' = {} /\ known' = {}
      /\ \A s \in Sessions : queue'[s] = << >> /\ exec'[s] = Rest
  BY DEF DesktopRestart, cloudVars
<1>2. Distinct(<< >>) /\ In(<< >>) = {}
  BY DEF Distinct, In
<1>3. Placed'
  BY <1>1, <1>2, PlacedNext DEF Rest
<1>4. ASSUME NEW d \in Commands PROVE Truth(d)'
  <2>1. /\ Truth(d) /\ run'[d] \notin Active /\ agent'[d] = "none"
        /\ run[d] \in {"completed", "none"} => run'[d] = run[d]
    BY RestartRuns, Homes DEF Protocol, DesktopRestart
  <2>2. Stage(d)' = "rest" /\ ~Waits(d)'
    BY <1>1, <1>2, Homes, WaitsNext DEF Stage, Rest
  <2>3. QED
    BY <1>1, <2>1, <2>2
       DEF Truth, Idles, Watched, Starting, AnswerHolds, ToldTrue, Told, Ahead
<1>5. QED BY <1>3, <1>4 DEF Protocol

LEMMA InitProtocol == Init => Protocol
<1> SUFFICES ASSUME Init PROVE Protocol
  OBVIOUS
<1>1. Distinct(<< >>) /\ In(<< >>) = {}
  BY DEF Distinct, In
<1>2. \A s \in Sessions : queue[s] = << >> /\ exec[s] = Rest
  BY DEF Init
<1>3. Placed
  <2>1. Rest.at = "rest"
    BY DEF Rest
  <2>2. QED BY <1>1, <1>2, <2>1, Zenon DEF Placed
<1>4. ASSUME NEW c \in Commands PROVE Truth(c)
  <2>1. Stage(c) = "rest" /\ ~Waits(c)
    BY <1>1, <1>2, Homes DEF Stage, Waits, Rest
  <2>2. run[c] = "none" /\ agent[c] = "none" /\ cloud[c] = "queued" /\ c \notin known
    BY Homes DEF Init, RunInit
  <2>3. QED
    BY <2>1, <2>2
       DEF Truth, Idles, Watched, Starting, AnswerHolds, ToldTrue, Told, Ahead, Active, Final
<1>5. QED BY <1>3, <1>4 DEF Protocol

\* The runtime stops a run it works on, and does not begin one.
LEMMA StopTrue ==
    ASSUME IInv, Protocol, NEW r \in Runs, Stop(r) \/ \E outcome \in Outcomes : Settle(r, outcome),
           UNCHANGED <<seen, queue, exec, cloud, known>>
    PROVE  Protocol'
<1>1. UNCHANGED run /\ \A x \in Runs : agent'[x] = "starting" => agent[x] = "starting"
  BY DEF Stop, Settle, runVars, IInv, RunInv, RunTypeOK, Outcomes
<1>2. QED BY <1>1, Homes, SameProtocol

LEMMA StepProtocol == IInv /\ Protocol /\ [Next]_vars => Protocol'
<1> SUFFICES ASSUME IInv, Protocol, [Next]_vars PROVE Protocol'
  OBVIOUS
<1>1. ASSUME NEW c \in Commands, Deliver(c) PROVE Protocol'
  BY <1>1, DeliverTrue
<1>2. ASSUME NEW c \in Commands, Expire(c) PROVE Protocol'
  BY <1>2, SameProtocol DEF Expire, runVars, deskVars
<1>3. ASSUME NEW c \in Commands, Ask(c) PROVE Protocol'
  BY <1>3, SameProtocol DEF Ask, runVars, deskVars
<1>4. ASSUME NEW c \in Commands, DeliverCancel(c) PROVE Protocol'
  BY <1>4, DeliverCancelTrue
<1>5. ASSUME NEW c \in Commands, CancelCall(c) PROVE Protocol'
  BY <1>5, StopTrue, Homes DEF CancelCall, cloudVars
<1>6. ASSUME NEW c \in Commands, CancelBack(c) PROVE Protocol'
  BY <1>6, SameProtocol DEF CancelBack, runVars
<1>7. ASSUME NEW c \in Commands, WatchOpens(c) PROVE Protocol'
  BY <1>7, SameProtocol DEF WatchOpens, runVars, cloudVars
<1>8. ASSUME NEW s \in Sessions, Take(s) PROVE Protocol'
  <2>1. Head(queue[s]) \in Commands
    <3>1. queue[s] \in Seq(Commands) /\ queue[s] # << >>
      BY <1>8 DEF Take, IInv, DeskTypeOK
    <3>2. QED BY <3>1, HeadTailProperties
  <2>2. QED BY <1>8, <2>1, TakeTrue
<1>9. ASSUME NEW s \in Sessions, Call(s) PROVE Protocol'
  <2>1. exec[s].of \in Commands
    BY <1>9 DEF Call, IInv, Executing
  <2>2. QED BY <1>9, <2>1, CallTrue
<1>10. ASSUME NEW s \in Sessions, Back(s) PROVE Protocol'
  <2>1. exec[s].of \in Commands
    BY <1>10 DEF Back, IInv, Executing
  <2>2. QED BY <1>10, <2>1, BackTrue
<1>11. ASSUME NEW s \in Sessions, StopCall(s) PROVE Protocol'
  <2>1. exec[s].of \in Runs
    BY <1>11, Homes DEF StopCall, IInv, Executing
  <2>2. QED BY <1>11, <2>1, StopTrue DEF StopCall, cloudVars, deskVars
<1>12. ASSUME NEW s \in Sessions, StopBack(s) PROVE Protocol'
  <2>1. exec[s].of \in Commands
    BY <1>12 DEF StopBack, IInv, Executing
  <2>2. QED BY <1>12, <2>1, StopBackTrue
<1>13. ASSUME NEW s \in Sessions, Delete(s) PROVE Protocol'
  <2>1. CASE DeleteBegin(s) /\ UNCHANGED <<cloudVars, deskVars>>
    BY <2>1, SameProtocol DEF DeleteBegin, cloudVars, deskVars
  <2>2. QED BY <1>13, <2>1, DeleteEndTrue DEF Delete, Unanswered
<1>14. ASSUME NEW r \in Runs, RunStarts(r) PROVE Protocol'
  BY <1>14, RunStartsTrue
<1>15. ASSUME NEW r \in Runs, RunRefused(r) PROVE Protocol'
  BY <1>15, RunRefusedTrue
<1>16. ASSUME NEW r \in Runs, RunSettles(r) PROVE Protocol'
  BY <1>16, StopTrue DEF RunSettles, cloudVars, deskVars, Outcomes
<1>17. ASSUME NEW r \in Runs, RunReports(r) PROVE Protocol'
  BY <1>17, RunReportsTrue
<1>18. ASSUME NEW r \in Locals, LocalRun(r) PROVE Protocol'
  BY <1>18, LocalRunTrue
<1>19. ASSUME NEW r \in Runs, LocalStop(r) PROVE Protocol'
  BY <1>19, StopTrue DEF LocalStop
<1>20. CASE Disconnect
  BY <1>20, SameProtocol DEF Disconnect, cloudVars
<1>21. CASE Reconnect
  BY <1>21, SameProtocol DEF Reconnect, cloudVars
<1>22. CASE GatewayRestart
  BY <1>22, GatewayRestartTrue
<1>23. CASE DesktopRestart
  BY <1>23, DesktopRestartTrue
<1>24. CASE UNCHANGED vars
  BY <1>24, SameProtocol DEF vars, runVars, cloudVars, deskVars
<1>25. ASSUME NEW c \in Commands, LocalBack(c) PROVE Protocol'
  BY <1>25, LocalBackTrue
<1>26. QED
  BY <1>1, <1>2, <1>3, <1>4, <1>5, <1>6, <1>7, <1>8, <1>9, <1>10, <1>11, <1>12, <1>13, <1>14,
     <1>15, <1>16, <1>17, <1>18, <1>19, <1>20, <1>21, <1>22, <1>23, <1>24, <1>25
     DEF Next, Queue, Cancels, Works

\* What the phone is told is so, for any sessions, runs and commands: the queue,
\* the watch and the cancellation report a command as completed, failed or
\* cancelled only when its run is so and goes on no more, through redeliveries,
\* deletions, lost connections and restarts of the desktop and the Gateway.
THEOREM FinalTrue == Spec => []FinalIsTrue
<1>1. Init => Protocol
  BY InitProtocol
<1>2. IInv /\ Protocol /\ [Next]_vars => Protocol'
  BY StepProtocol
<1>3. Protocol => FinalIsTrue
  BY DEF Protocol, Truth, ToldTrue, Told, FinalIsTrue
<1>4. QED BY <1>1, <1>2, <1>3, Inductive, PTL DEF Spec

(***************************************************************************)
(* The abstract service                                                    *)
(***************************************************************************)

\* What a request became does not change, except for those in S.
Fates(S) == \A x \in Runs \ S : Fate(x)' = Fate(x)

\* The steps of a session of the abstract service.
PlaceStep(p) == Service!Begin(p) \/ Service!End(p) \/ Service!Erase(p) \/ Service!Stay(p)

LEMMA StayStep ==
    ASSUME NEW p \in Sessions, \A x \in Runs : SessionOf[x] = p => Fate(x)' = Fate(x)
    PROVE  PlaceStep(p)
BY DEF PlaceStep, Service!Stay, Service!Only, Service!At

LEMMA EraseStep ==
    ASSUME NEW p \in Sessions, \A x \in Runs : SessionOf[x] = p => Fate(x)' = "new"
    PROVE  PlaceStep(p)
BY DEF PlaceStep, Service!Erase, Service!At

LEMMA EndStep ==
    ASSUME NEW p \in Sessions, NEW w \in Runs, SessionOf[w] = p, Fate(w) = "open",
           Fate(w)' \in Ended,
           \A x \in Runs : x # w /\ SessionOf[x] = p => Fate(x)' = Fate(x)
    PROVE  PlaceStep(p)
BY DEF PlaceStep, Service!End, Service!Only, Service!At, Service!Ends, Ended, Outcomes

LEMMA BeginStep ==
    ASSUME NEW p \in Sessions, NEW w \in Runs, NEW q \in Runs, SessionOf[w] = p, SessionOf[q] = p,
           \A x \in Runs : SessionOf[x] = p => Fate(x) # "open",
           Fate(w) = "new", w \in Commands => cloud[w] \notin Final \ {"expired"},
           Fate(w)' \in {"open", "completed"},
           q # w => Fate(q) \in Ended /\ Fate(q)' = "new",
           Fates({q, w})
    PROVE  PlaceStep(p)
<1>1. CASE q = w
  BY <1>1 DEF PlaceStep, Service!Begin, Service!Free, Service!Only, Service!At, Service!Answers,
              Fates, Final
<1>2. CASE q # w
  BY <1>2 DEF PlaceStep, Service!Begin, Service!Free, Service!Only, Service!At, Service!Answers,
              Service!Ends, Fates, Final, Ended, Outcomes
<1>3. QED BY <1>1, <1>2

LEMMA FateNow ==
    ASSUME RunTypeOK, NEW r \in Runs
    PROVE  /\ Fate(r) = "new" <=> run[r] = "none"
           /\ Fate(r) = "open" <=> run[r] \in Active
           /\ run[r] \in Ended => Fate(r) = run[r]
BY DEF Fate, RunTypeOK, Active, Ended, Outcomes

LEMMA FateNext ==
    ASSUME NEW r \in Runs
    PROVE  /\ run'[r] = "none" => Fate(r)' = "new"
           /\ run'[r] \in Active => Fate(r)' = "open"
           /\ run'[r] \in Ended => Fate(r)' = run'[r]
           /\ run'[r] = run[r] => Fate(r)' = Fate(r)
BY DEF Fate, Active, Ended, Outcomes

\* A session that is not marked as running has no work that goes on.
LEMMA FreeSession ==
    ASSUME RunInv, NEW p \in Sessions, session[p] # "running"
    PROVE  \A x \in Runs : SessionOf[x] = p => Fate(x) # "open"
BY FateNow DEF RunInv, OneRunPerSession, BusyExactly

LEMMA SameServes ==
    ASSUME UNCHANGED run
    PROVE  \A p \in Sessions : PlaceStep(p)
BY FateNext, StayStep

\* A request is taken up, or answered, in a free session, in place of q or not.
LEMMA BeginServes ==
    ASSUME RunInv, NEW r \in Runs, NEW q \in Runs, SessionOf[q] = SessionOf[r],
           ~Known(r), session[SessionOf[r]] # "running",
           r \in Commands => cloud[r] \notin Final \ {"expired"},
           run'[r] \in Active \cup {"completed"},
           q # r => run[q] \in Ended /\ run'[q] = "none",
           \A x \in Runs \ {q, r} : run'[x] = run[x]
    PROVE  \A p \in Sessions : PlaceStep(p)
<1> SUFFICES ASSUME NEW p \in Sessions PROVE PlaceStep(p)
  OBVIOUS
<1> USE DEF RunInv
<1>1. Fates({q, r})
  BY FateNext DEF Fates
<1>2. CASE p # SessionOf[r]
  BY <1>1, <1>2, StayStep DEF Fates
<1>3. CASE p = SessionOf[r]
  <2>1. \A x \in Runs : SessionOf[x] = p => Fate(x) # "open"
    BY <1>3, FreeSession
  <2>2. Fate(r) = "new" /\ Fate(r)' \in {"open", "completed"}
    BY FateNow, FateNext DEF Known, Ended, Outcomes
  <2>3. q # r => Fate(q) \in Ended /\ Fate(q)' = "new"
    BY FateNow, FateNext
  <2>4. QED BY <1>1, <1>3, <2>1, <2>2, <2>3, BeginStep
<1>4. QED BY <1>2, <1>3

LEMMA EndServes ==
    ASSUME RunInv, NEW r \in Runs, NEW status \in Ended, agent[r] # "none", End(r, status)
    PROVE  \A p \in Sessions : PlaceStep(p)
<1> SUFFICES ASSUME NEW p \in Sessions PROVE PlaceStep(p)
  OBVIOUS
<1> USE DEF RunInv
<1>1. /\ run'[r] = status /\ \A x \in Runs : x # r => run'[x] = run[x]
      /\ run[r] \in Active
  BY DEF End, RunTypeOK, OneRunPerSession, RuntimeBehind
<1>2. Fate(r) = "open" /\ Fate(r)' \in Ended
  BY <1>1, FateNow, FateNext
<1>3. \A x \in Runs : x # r => Fate(x)' = Fate(x)
  BY <1>1, FateNext
<1>4. CASE p # SessionOf[r]
  BY <1>3, <1>4, StayStep
<1>5. CASE p = SessionOf[r]
  BY <1>2, <1>3, <1>5, EndStep
<1>6. QED BY <1>4, <1>5

LEMMA StartServes ==
    ASSUME RunInv, NEW r \in Runs, RuntimeStarts(r)
    PROVE  \A p \in Sessions : PlaceStep(p)
<1>1. \A x \in Runs : Fate(x)' = Fate(x)
  <2>1. run[r] \in Active /\ run'[r] \in Active /\ \A x \in Runs : x # r => run'[x] = run[x]
    BY DEF RunInv, RunTypeOK, OneRunPerSession, RuntimeBehind, RuntimeStarts, Active
  <2>2. Fate(r)' = Fate(r)
    BY <2>1, FateNow, FateNext DEF RunInv
  <2>3. QED BY <2>1, <2>2, FateNext
<1>2. QED BY <1>1, StayStep

LEMMA DeleteServes ==
    ASSUME NEW s \in Sessions, DeleteEnd(s)
    PROVE  \A p \in Sessions : PlaceStep(p)
<1>1. CASE UNCHANGED run
  BY <1>1, SameServes
<1>2. CASE run' = [r \in Runs |-> IF SessionOf[r] = s THEN "none" ELSE run[r]]
  <2> SUFFICES ASSUME NEW p \in Sessions PROVE PlaceStep(p)
    OBVIOUS
  <2>1. CASE p = s
    BY <1>2, <2>1, FateNext, EraseStep
  <2>2. CASE p # s
    BY <1>2, <2>2, FateNext, StayStep
  <2>3. QED BY <2>1, <2>2
<1>3. QED BY <1>1, <1>2 DEF DeleteEnd

\* A restart ends what goes on in every session, which is one run at most.
LEMMA RestartServes ==
    ASSUME RunInv, RunsRestart
    PROVE  \A p \in Sessions : PlaceStep(p)
<1> SUFFICES ASSUME NEW p \in Sessions PROVE PlaceStep(p)
  OBVIOUS
<1> USE DEF RunInv
<1>1. \A x \in Runs : run'[x] = IF run[x] \in Active THEN "interrupted" ELSE run[x]
  BY DEF RunsRestart
<1>2. CASE \A x \in Runs : SessionOf[x] = p => run[x] \notin Active
  BY <1>1, <1>2, FateNext, StayStep
<1>3. CASE \E x \in Runs : SessionOf[x] = p /\ run[x] \in Active
  <2>1. PICK w \in Runs : SessionOf[w] = p /\ run[w] \in Active
    BY <1>3
  <2>2. \A x \in Runs : x # w /\ SessionOf[x] = p => run'[x] = run[x]
    BY <1>1, <2>1 DEF OneRunPerSession, OneActive
  <2>3. run'[w] \in Ended
    BY <1>1, <2>1 DEF Ended
  <2>4. QED BY <2>1, <2>2, <2>3, FateNow, FateNext, EndStep
<1>4. QED BY <1>2, <1>3

LEMMA RunsServe ==
    ASSUME IInv, FinalIsTrue, FinalIsTrue', [Next]_vars
    PROVE  \A p \in Sessions : PlaceStep(p)
<1> USE DEF IInv
<1>1. ASSUME NEW s \in Sessions, Call(s) PROVE \A p \in Sessions : PlaceStep(p)
  <2> DEFINE c == exec[s].of
  <2>1. c \in Commands /\ c \in Runs
    BY <1>1, Homes DEF Call, Executing
  <2>2. CASE UNCHANGED runVars
    BY <2>2, SameServes DEF runVars
  <2>3. CASE ~Known(c) /\ session[SessionOf[c]] # "running" /\ Accept(c)
    <3>1. run'[c] \in Active /\ \A x \in Runs : x # c => run'[x] = run[x]
      BY <2>1, <2>3 DEF Accept, RunInv, RunTypeOK, Active
    <3>2. cloud[c] \notin Final \ {"expired"}
      BY <1>1, <2>1, <3>1 DEF Call, cloudVars, FinalIsTrue
    <3>3. QED BY <2>1, <2>3, <3>1, <3>2, BeginServes
  <2>4. QED BY <1>1, <2>2, <2>3 DEF Call, Admits
<1>2. ASSUME NEW c \in Runs, Stop(c) PROVE \A p \in Sessions : PlaceStep(p)
  BY <1>2, SameServes DEF Stop, Settle, runVars
<1>3. ASSUME NEW s \in Sessions, Delete(s) PROVE \A p \in Sessions : PlaceStep(p)
  BY <1>3, DeleteServes, SameServes DEF Delete, DeleteBegin
<1>4. ASSUME NEW r \in Runs, Works(r) PROVE \A p \in Sessions : PlaceStep(p)
  <2>1. CASE RunStarts(r)
    BY <2>1, StartServes DEF RunStarts
  <2>2. CASE RunRefused(r)
    BY <2>2, EndServes DEF RunRefused, RuntimeRefuses, Ended, Outcomes
  <2>3. CASE RunSettles(r)
    BY <2>3, SameServes DEF RunSettles, Settle
  <2>4. CASE RunReports(r)
    BY <2>4, EndServes DEF RunReports, Report, Ended, Outcomes
  <2>5. QED BY <1>4, <2>1, <2>2, <2>3, <2>4 DEF Works
<1>5. ASSUME NEW r \in Locals, LocalRun(r) PROVE \A p \in Sessions : PlaceStep(p)
  <2>1. r \in Runs \ Commands /\ ~Known(r) /\ session[SessionOf[r]] # "running"
    BY <1>5 DEF LocalRun, Locals, Admits
  <2>2. CASE Accept(r) \/ Question(r)
    <3>1. run'[r] \in Active \cup {"completed"} /\ \A x \in Runs : x # r => run'[x] = run[x]
      BY <2>1, <2>2 DEF Accept, Question, RunInv, RunTypeOK, Active
    <3>2. QED BY <2>1, <3>1, BeginServes
  <2>3. ASSUME NEW q \in Runs, Replace(r, q) PROVE \A p \in Sessions : PlaceStep(p)
    <3>1. /\ run'[r] \in Active /\ run'[q] = "none" /\ run[q] \in Ended
          /\ SessionOf[q] = SessionOf[r] /\ \A x \in Runs \ {q, r} : run'[x] = run[x]
      BY <2>1, <2>3 DEF Replace, RunInv, RunTypeOK, Active
    <3>2. QED BY <2>1, <3>1, BeginServes
  <2>4. QED BY <1>5, <2>2, <2>3 DEF LocalRun
<1>6. CASE GatewayRestart \/ DesktopRestart
  BY <1>6, RestartServes DEF GatewayRestart, DesktopRestart
<1>7. CASE UNCHANGED run
  BY <1>7, SameServes
<1>8. ASSUME NEW c \in Commands,
             \/ Deliver(c) \/ Expire(c) \/ Ask(c) \/ DeliverCancel(c) \/ CancelBack(c)
             \/ WatchOpens(c) \/ LocalBack(c)
      PROVE  UNCHANGED run
  BY <1>8 DEF Deliver, Expire, Ask, DeliverCancel, CancelBack, WatchOpens, LocalBack, runVars
<1>9. ASSUME NEW s \in Sessions, Take(s) \/ Back(s) \/ StopBack(s)
      PROVE  UNCHANGED run
  BY <1>9 DEF Take, Back, StopBack, runVars
<1>10. CASE Disconnect \/ Reconnect \/ UNCHANGED vars
  BY <1>7, <1>10 DEF Disconnect, Reconnect, vars, runVars
<1>11. ASSUME NEW c \in Commands, CancelCall(c) PROVE \A p \in Sessions : PlaceStep(p)
  BY <1>2, <1>11, Homes DEF CancelCall
<1>12. ASSUME NEW s \in Sessions, StopCall(s) PROVE \A p \in Sessions : PlaceStep(p)
  BY <1>2, <1>12, Homes DEF StopCall, Executing
<1>13. ASSUME NEW r \in Runs, LocalStop(r) PROVE \A p \in Sessions : PlaceStep(p)
  BY <1>2, <1>13 DEF LocalStop
<1>14. QED
  BY <1>1, <1>3, <1>4, <1>5, <1>6, <1>7, <1>8, <1>9, <1>10, <1>11, <1>12, <1>13
     DEF Next, Queue, Cancels

\* What the cloud takes down for a command is new, and not after an end.
LEMMA TellNew ==
    ASSUME CloudOK, NEW c \in Commands, NEW status \in {"running"} \cup Final, Tell(c, status)
    PROVE  \A d \in Commands :
              cloud'[d] = cloud[d] \/ (cloud[d] \notin Final /\ cloud'[d] \in {"running"} \cup Final)
BY DEF CloudOK, Tell

LEMMA ObserveNew ==
    ASSUME CloudOK, DeskTypeOK, NEW r \in Runs, NEW next, NEW status \in Ended,
           Observe(r, next, status)
    PROVE  \A d \in Commands :
              cloud'[d] = cloud[d] \/ (cloud[d] \notin Final /\ cloud'[d] \in {"running"} \cup Final)
<1>1. CASE r \in known /\ watch[r] = "up"
  <2>1. r \in Commands /\ Tell(r, Outcome(status)) /\ Outcome(status) \in Final
    BY <1>1, OutcomeOK DEF Observe, DeskTypeOK
  <2>2. QED BY <2>1, TellNew
<1>2. CASE ~(r \in known /\ watch[r] = "up")
  BY <1>2 DEF Observe
<1>3. QED BY <1>1, <1>2

LEMMA CloudStep ==
    ASSUME IInv, [Next]_vars
    PROVE  \A d \in Commands :
              cloud'[d] = cloud[d] \/ (cloud[d] \notin Final /\ cloud'[d] \in {"running"} \cup Final)
<1> DEFINE New == \A d \in Commands :
              cloud'[d] = cloud[d] \/ (cloud[d] \notin Final /\ cloud'[d] \in {"running"} \cup Final)
<1> SUFFICES New
  OBVIOUS
<1>1. CloudOK
  BY DEF IInv, DeskTypeOK, CloudOK
<1>2. CASE UNCHANGED cloud
  BY <1>2
<1>3. ASSUME NEW c \in Commands, NEW status \in {"running"} \cup Final, Tell(c, status)
      PROVE  New
  BY <1>1, <1>3, TellNew
<1>4. ASSUME NEW r \in Runs, NEW next, NEW status \in Ended, Observe(r, next, status)
      PROVE  New
  BY <1>1, <1>4, ObserveNew DEF IInv
<1> HIDE DEF New
<1>5. ASSUME NEW c \in Commands, Deliver(c) PROVE New
  BY <1>2, <1>3, <1>5 DEF Deliver, Silent, Final
<1>6. ASSUME NEW c \in Commands, DeliverCancel(c) PROVE New
  BY <1>2, <1>3, <1>6 DEF DeliverCancel, Silent, Final
<1>7. ASSUME NEW s \in Sessions, Take(s) PROVE New
  <2>1. Head(queue[s]) \in Commands
    <3>1. queue[s] \in Seq(Commands) /\ queue[s] # << >>
      BY <1>7 DEF Take, IInv, DeskTypeOK
    <3>2. QED BY <3>1, HeadTailProperties
  <2>2. QED BY <1>2, <1>3, <1>7, <2>1 DEF Take, Silent, Final
<1>8. ASSUME NEW s \in Sessions, Back(s) PROVE New
  <2>1. exec[s].of \in Commands
    BY <1>8 DEF Back, IInv, Executing
  <2>2. QED BY <1>2, <1>3, <1>8, <2>1, OutcomeOK DEF Back, Silent, Final
<1>9. ASSUME NEW s \in Sessions, StopBack(s) PROVE New
  <2>1. exec[s].of \in Commands
    BY <1>9 DEF StopBack, IInv, Executing
  <2>2. QED BY <1>3, <1>9, <2>1 DEF StopBack, Final
<1>10. ASSUME NEW r \in Runs, RunRefused(r) PROVE New
  BY <1>4, <1>10 DEF RunRefused, Ended, Outcomes
<1>11. ASSUME NEW r \in Runs, RunReports(r) PROVE New
  <2>1. run'[r] \in Ended
    BY <1>11 DEF RunReports, Report, End, IInv, RunInv, RunTypeOK, Ended, Outcomes
  <2>2. QED BY <1>4, <1>11, <2>1 DEF RunReports
<1>12. ASSUME NEW c \in Commands, Expire(c) \/ Ask(c) \/ Cancels(c) \/ WatchOpens(c)
       PROVE  UNCHANGED cloud
  BY <1>12 DEF Expire, Ask, Cancels, CancelCall, CancelBack, WatchOpens, cloudVars
<1>13. ASSUME NEW s \in Sessions, Call(s) \/ StopCall(s) \/ Delete(s) PROVE UNCHANGED cloud
  BY <1>13 DEF Call, StopCall, Delete, cloudVars
<1>14. ASSUME NEW r \in Runs, RunStarts(r) \/ RunSettles(r) \/ LocalStop(r) \/ LocalRun(r)
       PROVE  UNCHANGED cloud
  BY <1>14 DEF RunStarts, RunSettles, LocalStop, LocalRun, cloudVars
<1>15. CASE \/ Disconnect \/ Reconnect \/ GatewayRestart \/ DesktopRestart
            \/ UNCHANGED vars
  BY <1>2, <1>15
     DEF Disconnect, Reconnect, GatewayRestart, DesktopRestart, vars, cloudVars
<1>16. ASSUME NEW c \in Commands, LocalBack(c) PROVE New
  BY <1>2, <1>3, <1>16 DEF LocalBack, Silent, Final
<1>17. QED
  BY <1>2, <1>5, <1>6, <1>7, <1>8, <1>9, <1>10, <1>11, <1>12, <1>13, <1>14, <1>15, <1>16
     DEF Next, Queue, Works, Locals

LEMMA CloudServes ==
    ASSUME IInv, IInv', FinalIsTrue', [Next]_vars, NEW c \in Commands
    PROVE  cloud'[c] = cloud[c] \/ Service!Tell(c)
<1>1. CASE cloud[c] \notin Final /\ cloud'[c] \in {"running"} \cup Final
  <2>1. /\ cloud'[c] = "completed" => run'[c] \in {"completed", "none"}
        /\ cloud'[c] \in Final \ {"expired"} => run'[c] \notin Active
    BY DEF FinalIsTrue
  <2>2. run'[c] \in Active \cup Ended \cup {"none"} /\ c \in Runs
    BY Homes DEF IInv, RunInv, RunTypeOK
  <2>3. /\ run'[c] \in {"completed", "none"} => Fate(c)' \in {"completed", "new"}
        /\ run'[c] \notin Active => Fate(c)' # "open"
    BY <2>2, FateNext DEF Ended, Outcomes
  <2>4. QED
    BY <1>1, <2>1, <2>2, <2>3 DEF Service!Tell, Service!Answers, Final
<1>2. QED BY <1>1, CloudStep

LEMMA InitServes == Init => Service!Init
<1>1. Init => \A r \in Runs : Fate(r) = "new"
  BY DEF Init, RunInit, Fate
<1>2. QED BY <1>1 DEF Init, Service!Init

\* Every behaviour of the Gateway and the desktop, seen through the rows of the runs
\* and the commands in the cloud, is one of the abstract service: one run at a time
\* in a session, none taken up twice or after the phone was told of its end, and
\* no end told before it came or after another.
THEOREM Refinement == Spec => Serves
<1>1. IInv /\ Protocol /\ IInv' /\ Protocol' /\ [Next]_vars
         => [Service!Next]_<<[r \in Runs |-> Fate(r)], cloud>>
  <2> SUFFICES ASSUME IInv, Protocol, IInv', Protocol', [Next]_vars PROVE Service!Next
    OBVIOUS
  <2>1. FinalIsTrue /\ FinalIsTrue'
    BY DEF Protocol, Truth, ToldTrue, Told, FinalIsTrue
  <2>2. \A p \in Sessions : PlaceStep(p)
    BY <2>1, RunsServe
  <2>3. \A c \in Commands : cloud'[c] = cloud[c] \/ Service!Tell(c)
    BY <2>1, CloudServes
  <2>4. QED BY <2>2, <2>3 DEF PlaceStep, Service!Next
<1>2. Init => Protocol
  BY InitProtocol
<1>3. IInv /\ Protocol /\ [Next]_vars => Protocol'
  BY StepProtocol
<1>4. QED BY <1>1, <1>2, <1>3, InitServes, Inductive, PTL DEF Spec, Serves, Service!Spec
=============================================================================
