----------------------------- MODULE Subagents -----------------------------
(***************************************************************************)
(* Invocations of subagents.  A dispatch writes a row under its            *)
(* idempotency key and runs a flow of its own: it starts a run in the      *)
(* agent runtime, follows the events of the run against a timeout, and     *)
(* writes the outcome.  A second dispatch with the same key joins the      *)
(* first.  A flow occupies a slot; there is no queue for slots.  The run   *)
(* in the runtime has a life of its own: it may outlive the flow.          *)
(***************************************************************************)
EXTENDS Naturals, FiniteSets

CONSTANTS
    Invocations,    \* idempotency keys
    Agents,
    AgentOf,        \* the agent each invocation is for
    Calls,          \* dispatches
    KeyOf,          \* the key each dispatch uses
    Detached,       \* dispatches that do not wait for the end
    MaxConcurrent,  \* flows at a time
    MaxPerAgent,    \* flows of one agent at a time
    MaxFaults,      \* bound: restarts, invalidations, failures to begin
    None

ASSUME InvocationsAssumption ==
    /\ AgentOf \in [Invocations -> Agents] /\ KeyOf \in [Calls -> Invocations]
    /\ Detached \subseteq Calls
    /\ {MaxConcurrent, MaxPerAgent, MaxFaults} \subseteq Nat

Final == {"completed", "failed", "cancelled", "interrupted", "timed_out"}

VARIABLES
    row,            \* the status of each invocation, "none" without a row
    flow,           \* where executeInvocation is: "start", "follow", "grace"
    owner,          \* the dispatch that began the flow
    work,           \* the run in the runtime
    call,           \* what each dispatch is doing, or its answer
    aborted,        \* dispatches aborted while their own flow was under way
    faults          \* bounded counter

vars == <<row, flow, owner, work, call, aborted, faults>>

TypeOK ==
    /\ row \in [Invocations -> {"none", "accepted", "running"} \cup Final]
    /\ flow \in [Invocations -> {"none", "start", "follow", "grace"}]
    /\ owner \in [Invocations -> Calls \cup {None}]
    /\ work \in [Invocations -> {"none", "start", "on", "stop"}]
    /\ call \in [Calls -> {"idle", "waiting", "refused", "error", "begun", "accepted"} \cup Final]
    /\ aborted \subseteq Calls /\ faults \in 0..MaxFaults

Init ==
    /\ row = [i \in Invocations |-> "none"]
    /\ flow = [i \in Invocations |-> "none"]
    /\ owner = [i \in Invocations |-> None]
    /\ work = [i \in Invocations |-> "none"]
    /\ call = [c \in Calls |-> "idle"]
    /\ aborted = {} /\ faults = 0

Fault == faults < MaxFaults /\ faults' = faults + 1

\* The entries of the orchestrator's map.
Flows == {i \in Invocations : flow[i] # "none"}

Free(i) ==
    /\ Cardinality(Flows) < MaxConcurrent
    /\ Cardinality({j \in Flows : AgentOf[j] = AgentOf[i]}) < MaxPerAgent

(***************************************************************************)
(* Dispatches                                                              *)
(***************************************************************************)

Answer(c, status) == call' = [call EXCEPT ![c] = IF c \in Detached THEN "begun" ELSE status]

\* Mutant: a dispatch that joins is answered with the row as it is.
JoinRow(c) ==
    /\ call[c] = "idle" /\ row[KeyOf[c]] # "none"
    /\ call' = [call EXCEPT ![c] = IF c \in Detached THEN "begun" ELSE row[KeyOf[c]]]
    /\ UNCHANGED <<row, flow, owner, work, aborted, faults>>

\* A known key: the dispatch waits for the flow, or is answered with the row.
Join(c) ==
    LET i == KeyOf[c]
    IN  /\ call[c] = "idle" /\ row[i] # "none"
        /\ Answer(c, IF flow[i] # "none" THEN "waiting" ELSE row[i])
        /\ UNCHANGED <<row, flow, owner, work, aborted, faults>>

\* Without a free slot a dispatch is refused; a caller that tries again is one
\* that dispatches later.
Refuse(c) ==
    /\ call[c] = "idle" /\ row[KeyOf[c]] = "none" /\ ~Free(KeyOf[c])
    /\ call' = [call EXCEPT ![c] = "refused"]
    /\ UNCHANGED <<row, flow, owner, work, aborted, faults>>

\* The row, the runtime and the flow up to its first await.
Begin(c) ==
    LET i == KeyOf[c]
    IN  /\ call[c] = "idle" /\ row[i] = "none" /\ Free(i)
        /\ row' = [row EXCEPT ![i] = "running"]
        /\ flow' = [flow EXCEPT ![i] = "start"] /\ owner' = [owner EXCEPT ![i] = c]
        /\ work' = [work EXCEPT ![i] = "start"]
        /\ Answer(c, "waiting")
        /\ UNCHANGED <<aborted, faults>>

\* The runtime of the agent cannot be made: the row is there, and stays.
Strand(c) ==
    LET i == KeyOf[c]
    IN  /\ Fault /\ call[c] = "idle" /\ row[i] = "none" /\ Free(i)
        /\ row' = [row EXCEPT ![i] = "accepted"]
        /\ call' = [call EXCEPT ![c] = "error"]
        /\ UNCHANGED <<flow, owner, work, aborted>>

\* runtime.cancel knows the runs that have been started.
Stopped(i) == [work EXCEPT ![i] = IF @ = "on" THEN "stop" ELSE @]

\* The caller of the dispatch that began a flow gives up.
Abort(c) ==
    LET i == KeyOf[c]
    IN  /\ owner[i] = c /\ c \notin aborted
        /\ aborted' = aborted \cup {c} /\ work' = Stopped(i)
        /\ UNCHANGED <<row, flow, owner, call, faults>>

Cancel(i) ==
    /\ flow[i] # "none" /\ work' = Stopped(i)
    /\ UNCHANGED <<row, flow, owner, call, aborted, faults>>

(***************************************************************************)
(* The flow of an invocation                                               *)
(***************************************************************************)

\* Mutant: the slot is kept until the run has ended.
FinishHolding(i, status) ==
    /\ row' = [row EXCEPT ![i] = status]
    /\ flow' = [flow EXCEPT ![i] = IF work[i] = "stop" THEN @ ELSE "none"]
    /\ owner' = [owner EXCEPT ![i] = None]
    /\ call' = [c \in Calls |-> IF call[c] = "waiting" /\ KeyOf[c] = i THEN status ELSE call[c]]

\* The row gets its outcome, who waits gets the row, the slot is free.
Finish(i, status) ==
    /\ row' = [row EXCEPT ![i] = status]
    /\ flow' = [flow EXCEPT ![i] = "none"] /\ owner' = [owner EXCEPT ![i] = None]
    /\ call' = [c \in Calls |-> IF call[c] = "waiting" /\ KeyOf[c] = i THEN status ELSE call[c]]

RunStarts(i) ==
    /\ work[i] = "start"
    /\ work' = [work EXCEPT ![i] = "on"] /\ flow' = [flow EXCEPT ![i] = "follow"]
    /\ UNCHANGED <<row, owner, call, aborted, faults>>

StartFails(i) ==
    /\ work[i] = "start"
    /\ work' = [work EXCEPT ![i] = "none"] /\ Finish(i, "failed")
    /\ UNCHANGED <<aborted, faults>>

\* A run that was stopped ends as cancelled or failed.
EndsAs(i) == IF work[i] = "on" THEN {"completed", "failed"} ELSE {"cancelled", "failed"}

\* Mutant: a run that ends after its flow still has its outcome written.
RunEndsLate(i) ==
    /\ work[i] \in {"on", "stop"} /\ work' = [work EXCEPT ![i] = "none"]
    /\ flow[i] # "start" /\ \E status \in EndsAs(i) : Finish(i, status)
    /\ UNCHANGED <<aborted, faults>>

\* The last event of the run.  A completed one without its formal result is a
\* failed invocation; after the timeout the outcome does not matter, and after
\* the flow no one is there to hear of it.
RunEnds(i) ==
    /\ work[i] \in {"on", "stop"} /\ work' = [work EXCEPT ![i] = "none"]
    /\ \/ flow[i] = "follow" /\ \E status \in EndsAs(i) : Finish(i, status)
       \/ flow[i] = "grace" /\ Finish(i, "timed_out")
       \/ flow[i] = "none" /\ UNCHANGED <<row, flow, owner, call>>
    /\ UNCHANGED <<aborted, faults>>

Timeout(i) ==
    /\ flow[i] = "follow" /\ flow' = [flow EXCEPT ![i] = "grace"]
    /\ work' = Stopped(i)
    /\ UNCHANGED <<row, owner, call, aborted, faults>>

\* Mutant: the flow waits for the run it has cancelled.
GraceLong(i) ==
    /\ flow[i] = "grace" /\ work[i] = "none" /\ Finish(i, "timed_out")
    /\ UNCHANGED <<work, aborted, faults>>

\* Two seconds later the flow ends, whatever the run does.
GraceEnds(i) ==
    /\ flow[i] = "grace" /\ Finish(i, "timed_out")
    /\ UNCHANGED <<work, aborted, faults>>

(***************************************************************************)
(* Crashes and changes of the configuration                                *)
(***************************************************************************)

\* The runtimes are disposed of: their runs are cancelled.
Invalidate ==
    /\ Fault /\ \E i \in Invocations : work[i] = "on"
    /\ work' = [i \in Invocations |-> IF work[i] = "on" THEN "stop" ELSE work[i]]
    /\ UNCHANGED <<row, flow, owner, call, aborted>>

\* The Gateway dies with its flows and callers; what was under way is
\* interrupted, and the callers may come again with their keys.
Restart ==
    /\ Fault
    /\ row' = [i \in Invocations |->
          IF row[i] \in {"accepted", "running"} THEN "interrupted" ELSE row[i]]
    /\ flow' = [i \in Invocations |-> "none"] /\ owner' = [i \in Invocations |-> None]
    /\ work' = [i \in Invocations |-> "none"]
    /\ call' = [c \in Calls |-> "idle"] /\ aborted' = {}

Dispatch(c) == Join(c) \/ Refuse(c) \/ Begin(c) \/ Strand(c)
Started(i) == RunStarts(i) \/ StartFails(i)

Next ==
    \/ \E c \in Calls : Dispatch(c) \/ Abort(c)
    \/ \E i \in Invocations :
          Cancel(i) \/ Started(i) \/ RunEnds(i) \/ Timeout(i) \/ GraceEnds(i)
    \/ Invalidate \/ Restart

\* The runtime answers the request to start a run, with a run or an error, and
\* timers go off.  Nothing is assumed of the model: a run need not end, not
\* even when it is stopped.
Spec ==
    /\ Init /\ [][Next]_vars
    /\ \A i \in Invocations :
          WF_vars(Started(i)) /\ WF_vars(Timeout(i)) /\ WF_vars(GraceEnds(i))

(***************************************************************************)
(* Properties                                                              *)
(***************************************************************************)

\* A row says running exactly while a flow occupies a slot for it, and the slots
\* are within the limits: neither a timeout, a failed start, a cancellation nor
\* a restart leaves a row running for ever or a slot taken for good.
SlotsHeld ==
    /\ \A i \in Invocations : row[i] = "running" <=> i \in Flows
    /\ Cardinality(Flows) <= MaxConcurrent
    /\ \A a \in Agents : Cardinality({i \in Flows : AgentOf[i] = a}) <= MaxPerAgent

\* Who is answered is told what the row says, and still says when others are
\* answered later: an outcome is written once.
AnswersAgree ==
    \A c \in Calls :
       call[c] \in Final \cup {"accepted"} => call[c] = row[KeyOf[c]]

\* A dispatch that waits is answered, even if the model never ends its turn and
\* does not react to being stopped: that is what the timeout and its grace are for.
CallsAnswered == \A c \in Calls : call[c] = "waiting" ~> call[c] # "waiting"
=============================================================================
