----------------------------- MODULE AgentRuns -----------------------------
(***************************************************************************)
(* Runs of the agent in its sessions.  A run is a row of the database from *)
(* the moment it is accepted; the runtime takes a while to start it, then  *)
(* works on it, and settles it once the documents it touched are settled.  *)
(* A session has one run at a time.  Runs are named by their idempotency   *)
(* keys: a second request with the same key finds the first one's run.     *)
(***************************************************************************)
EXTENDS Naturals

CONSTANTS
    Sessions,
    Runs,           \* requests for runs, by idempotency key
    SessionOf,      \* the session of each request
    MaxFaults       \* bound: crashes, lost connections and deletions

ASSUME RunsAssumption ==
    SessionOf \in [Runs -> Sessions] /\ MaxFaults \in Nat

Active == {"accepted", "running"}
Outcomes == {"completed", "failed", "cancelled"}
Ended == Outcomes \cup {"interrupted"}

VARIABLES
    session,        \* the status of each session, "none" without a row
    run,            \* the status of each run, "none" without a row
    agent,          \* what the runtime does for each run
    deleting,       \* sessions whose deletion waits for the runtime
    begun,          \* history: how often the runtime was asked for each run
                    \* since the user last removed its row
    faults          \* bounded counter

runVars == <<session, run, agent, deleting, begun, faults>>

RunTypeOK ==
    /\ session \in [Sessions -> {"none", "idle", "running", "interrupted"}]
    /\ run \in [Runs -> Active \cup Ended \cup {"none"}]
    /\ agent \in [Runs -> {"none", "starting", "working"} \cup Outcomes]
    /\ deleting \subseteq Sessions
    /\ begun \in [Runs -> Nat] /\ faults \in 0..MaxFaults

RunInit ==
    /\ session \in [Sessions -> {"none", "idle"}]
    /\ run = [r \in Runs |-> "none"]
    /\ agent = [r \in Runs |-> "none"]
    /\ deleting = {} /\ begun = [r \in Runs |-> 0] /\ faults = 0

RunsOf(s) == {r \in Runs : SessionOf[r] = s}
Fault == faults < MaxFaults /\ faults' = faults + 1

\* Mutant: an ended run does not answer for its key.
KnownActive(r) == run[r] \in Active

\* startRun: a known key answers with its run, and is not admitted again.
Known(r) == run[r] # "none"

\* Mutant: the session is looked at when the runtime is called, not before.
AdmitsAny(r) == ~Known(r) /\ session[SessionOf[r]] # "none"

Admits(r) == ~Known(r) /\ session[SessionOf[r]] \in {"idle", "interrupted"}

\* The row, the session and the call of the runtime, up to its first await.
Accept(r) ==
    /\ run' = [run EXCEPT ![r] = "accepted"]
    /\ session' = [session EXCEPT ![SessionOf[r]] = "running"]
    /\ agent' = [agent EXCEPT ![r] = "starting"]
    /\ begun' = [begun EXCEPT ![r] = @ + 1]
    /\ UNCHANGED <<deleting, faults>>

\* A request may replace an ended run of its session: that row is removed.
Replace(r, q) ==
    /\ q # r /\ SessionOf[q] = SessionOf[r] /\ run[q] \in Ended
    /\ run' = [run EXCEPT ![q] = "none", ![r] = "accepted"]
    /\ session' = [session EXCEPT ![SessionOf[r]] = "running"]
    /\ agent' = [agent EXCEPT ![r] = "starting"]
    /\ begun' = [begun EXCEPT ![q] = 0, ![r] = @ + 1]
    /\ UNCHANGED <<deleting, faults>>

\* An ambiguous request is answered with a question before the runtime is asked.
Question(r) ==
    /\ run' = [run EXCEPT ![r] = "completed"]
    /\ session' = [session EXCEPT ![SessionOf[r]] = "idle"]
    /\ UNCHANGED <<agent, deleting, begun, faults>>

\* The last event of a run ends its row and frees its session.
End(r, status) ==
    /\ run' = [run EXCEPT ![r] = status]
    /\ session' = [session EXCEPT ![SessionOf[r]] = "idle"]
    /\ agent' = [agent EXCEPT ![r] = "none"]
    /\ UNCHANGED <<deleting, begun, faults>>

RuntimeStarts(r) ==
    /\ agent[r] = "starting"
    /\ agent' = [agent EXCEPT ![r] = "working"]
    /\ run' = [run EXCEPT ![r] = "running"]
    /\ UNCHANGED <<session, deleting, begun, faults>>

RuntimeRefuses(r) == agent[r] = "starting" /\ End(r, "failed")

\* finish: the outcome is fixed at once, and reported when the documents of the
\* run have been settled; a failure of that is a failure of the run.
Settle(r, outcome) ==
    /\ agent[r] = "working"
    /\ agent' = [agent EXCEPT ![r] = outcome]
    /\ UNCHANGED <<session, run, deleting, begun, faults>>

Report(r) ==
    /\ agent[r] \in Outcomes
    /\ \E status \in {agent[r], "failed"} : End(r, status)

\* cancelRun: a run that is still being started is not known to the runtime,
\* and one that is being settled keeps its outcome.
Stop(r) == IF agent[r] = "working" THEN Settle(r, "cancelled") ELSE UNCHANGED runVars

\* deleteSession waits for the runtime between its check and the deletion.
DeleteBegin(s) ==
    /\ Fault /\ session[s] \in {"idle", "interrupted"}
    /\ deleting' = deleting \cup {s}
    /\ UNCHANGED <<session, run, agent, begun>>

\* What the runtime still does for a run without a row leaves no trace.
DeleteEnd(s) ==
    /\ s \in deleting /\ deleting' = deleting \ {s}
    /\ \/ /\ session' = [session EXCEPT ![s] = "none"]
          /\ run' = [r \in Runs |-> IF SessionOf[r] = s THEN "none" ELSE run[r]]
          /\ agent' = [r \in Runs |-> IF SessionOf[r] = s THEN "none" ELSE agent[r]]
          /\ begun' = [r \in Runs |-> IF SessionOf[r] = s THEN 0 ELSE begun[r]]
       \/ UNCHANGED <<session, run, agent, begun>>
    /\ UNCHANGED faults

\* Mutant: a restart only knows of runs that were started.
RestartRunning ==
    /\ run' = [r \in Runs |-> IF run[r] = "running" THEN "interrupted" ELSE run[r]]
    /\ session' = [s \in Sessions |->
          IF \E r \in RunsOf(s) : run[r] = "running" THEN "interrupted" ELSE session[s]]
    /\ agent' = [r \in Runs |-> "none"] /\ deleting' = {}
    /\ UNCHANGED begun

\* The Gateway dies; before it serves again, runs that were active are
\* interrupted and their sessions marked.
RunsRestart ==
    /\ run' = [r \in Runs |-> IF run[r] \in Active THEN "interrupted" ELSE run[r]]
    /\ session' = [s \in Sessions |->
          IF \E r \in RunsOf(s) : run[r] \in Active THEN "interrupted" ELSE session[s]]
    /\ agent' = [r \in Runs |-> "none"] /\ deleting' = {}
    /\ UNCHANGED begun

\* A session runs exactly while it has an active run, and has one at most; and
\* behind an active run there is always the runtime, or no one would end it.
BusyExactly ==
    \A s \in Sessions :
       session[s] = "running" <=> \E r \in Runs : SessionOf[r] = s /\ run[r] \in Active
OneActive ==
    \A q, r \in Runs :
       run[q] \in Active /\ run[r] \in Active /\ SessionOf[q] = SessionOf[r] => q = r
RuntimeBehind == \A r \in Runs : run[r] \in Active <=> agent[r] # "none"

OneRunPerSession == BusyExactly /\ OneActive /\ RuntimeBehind
=============================================================================
