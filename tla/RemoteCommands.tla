--------------------------- MODULE RemoteCommands ---------------------------
(***************************************************************************)
(* Commands a phone sends to the agent of a computer.  The cloud keeps     *)
(* them and delivers them at least once, over a connection that comes and  *)
(* goes; the desktop queues them by session, has the Gateway run them one  *)
(* by one, watches each run over a connection of its own, and reports what *)
(* becomes of it.  The user runs, cancels and deletes in the same sessions. *)
(* What the desktop does between two awaits is one step.                    *)
(***************************************************************************)
EXTENDS AgentRuns, Sequences, SequencesExt

CONSTANTS
    Commands,       \* the runs that are asked for by a phone
    Addressed,      \* commands that name a session, which must exist
    MaxHands,       \* bound: cancellations, expiries, runs and stops of the user
    None

ASSUME CommandsAssumption ==
    Addressed \subseteq Commands /\ Commands \subseteq Runs /\ MaxHands \in Nat

Locals == Runs \ Commands
Final == {"completed", "failed", "cancelled", "expired"}

VARIABLES
    cloud,          \* the status of each command in the cloud
    asked,          \* the cancellation of each command: not asked, sent, or done
    late,           \* commands past their expiry
    hands,          \* bounded counter
    link,           \* the desktop's connection to the cloud
    seen,           \* commands the desktop has taken since it started
    cancelled,      \* commands it has been asked to cancel
    queue,          \* commands waiting, by session
    exec,           \* what the queue of each session does
    stopping,       \* cancellations the desktop awaits, by command
    halts,          \* commands whose run the user stops on the computer
    known,          \* commands whose run the desktop knows
    watch,          \* the desktop's connection for the run of each command
    lost            \* history: commands whose end the desktop or the cloud missed

cloudVars == <<cloud, asked, late, hands>>
deskVars == <<link, seen, cancelled, queue, exec, stopping, halts, known,
              watch, lost>>
vars == <<runVars, cloudVars, deskVars>>

Rest == [of |-> None, at |-> "rest", reply |-> "none"]
Doing(c, at) == [of |-> c, at |-> at, reply |-> "none"]

\* What the queue of a session is doing, for which command, and the answer of
\* the Gateway it has not looked at yet.
Turn == [of : Commands \cup {None}, at : {"rest", "call", "start", "back", "stop", "wait"},
         reply : Active \cup Ended \cup {"none", "error"}]

DeskTypeOK ==
    /\ cloud \in [Commands -> {"queued", "running"} \cup Final]
    /\ asked \in [Commands -> {"no", "sent", "done"}]
    /\ late \subseteq Commands /\ hands \in 0..MaxHands
    /\ link \in {"up", "down", "gone"}
    /\ seen \subseteq Commands /\ cancelled \subseteq Commands
    /\ queue \in [Sessions -> Seq(Commands)] /\ exec \in [Sessions -> Turn]
    /\ stopping \in [Commands -> {"no", "call", "wait"}]
    /\ halts \subseteq Commands /\ known \subseteq Commands
    /\ watch \in [Commands -> {"none", "down", "up"}] /\ lost \subseteq Commands

TypeOK == RunTypeOK /\ DeskTypeOK

Init ==
    /\ RunInit
    /\ \A c \in Commands \ Addressed : session[SessionOf[c]] = "none"
    /\ cloud = [c \in Commands |-> "queued"]
    /\ asked = [c \in Commands |-> "no"] /\ late = {} /\ hands = 0
    /\ link = "up" /\ seen = {} /\ cancelled = {}
    /\ queue = [s \in Sessions |-> << >>]
    /\ exec = [s \in Sessions |-> Rest]
    /\ stopping = [c \in Commands |-> "no"]
    /\ halts = {} /\ known = {} /\ watch = [c \in Commands |-> "none"] /\ lost = {}

\* sendTransition: without a connection the report is dropped; the cloud takes
\* none for a command that has ended.
Tell(c, status) ==
    /\ cloud' = IF link = "up" /\ cloud[c] \notin Final
                THEN [cloud EXCEPT ![c] = status] ELSE cloud
    /\ lost' = IF link # "up" /\ status \in Final THEN lost \cup {c} ELSE lost
Silent == UNCHANGED <<cloud, lost>>

Hand == hands < MaxHands /\ hands' = hands + 1

\* The desktop counts on hearing of the end of this run.
Awaits(c) ==
    \/ c \in known
    \/ \E s \in Sessions : exec[s].of = c /\ exec[s].at = "back" /\ exec[s].reply \in Active

\* Mutant: the cloud is told the status of the run as it is.
OutcomeRaw(status) == status

\* Mutant: whatever did not fail and was not cancelled counts as completed.
OutcomeLenient(status) == IF status \in {"failed", "cancelled"} THEN status ELSE "completed"

Outcome(status) ==
    CASE status = "completed" -> "completed"
      [] status = "cancelled" -> "cancelled"
      [] OTHER -> "failed"

(***************************************************************************)
(* The cloud and its connection                                            *)
(***************************************************************************)

\* A command that has not ended may be delivered, again after a reconnection.
\* One taken before is passed over.
Deliver(c) ==
    /\ link = "up" /\ cloud[c] \notin Final
    /\ \/ /\ c \in late /\ Tell(c, "expired") /\ UNCHANGED <<seen, queue>>
       \/ /\ c \notin late /\ c \notin seen
          /\ seen' = seen \cup {c}
          /\ queue' = [queue EXCEPT ![SessionOf[c]] = Append(@, c)]
          /\ Silent
    /\ UNCHANGED <<runVars, asked, late, hands, link, cancelled, exec, stopping, halts,
                   known, watch>>

Expire(c) ==
    /\ Hand /\ cloud[c] \notin Final /\ c \notin late /\ late' = late \cup {c}
    /\ UNCHANGED <<runVars, cloud, asked, deskVars>>

Ask(c) ==
    /\ Hand /\ asked[c] = "no" /\ cloud[c] \notin Final
    /\ asked' = [asked EXCEPT ![c] = "sent"]
    /\ UNCHANGED <<runVars, cloud, late, deskVars>>

\* A waiting command leaves the queue of the session the cancellation names;
\* of a run that is known, to the desktop or the cloud, the Gateway is told;
\* any other is remembered.
DeliverCancel(c) ==
    LET s == SessionOf[c]
        waiting == c \in Addressed /\ \E k \in DOMAIN queue[s] : queue[s][k] = c
        runs == c \in known \/ cloud[c] = "running"
    IN  /\ link = "up" /\ asked[c] = "sent" /\ stopping[c] = "no"
        /\ IF waiting
           THEN /\ \E k \in DOMAIN queue[s] :
                     queue[s][k] = c /\ queue' = [queue EXCEPT ![s] = RemoveAt(@, k)]
                /\ cancelled' = cancelled \ {c}
                /\ Tell(c, "cancelled")
           ELSE cancelled' = cancelled \cup {c} /\ Silent /\ UNCHANGED queue
        /\ IF ~waiting /\ runs
           THEN stopping' = [stopping EXCEPT ![c] = "call"] /\ UNCHANGED asked
           ELSE asked' = [asked EXCEPT ![c] = "done"] /\ UNCHANGED stopping
        /\ UNCHANGED <<runVars, late, hands, link, seen, exec, halts, known, watch>>

Disconnect ==
    /\ Fault /\ link = "up" /\ link' = "down"
    /\ UNCHANGED <<session, run, agent, deleting, begun, cloudVars, seen, cancelled,
                   queue, exec, stopping, halts, known, watch, lost>>

\* One attempt is made to connect again; without credentials there is no other.
Reconnect ==
    /\ link = "down"
    /\ \/ link' = "up" /\ UNCHANGED faults
       \/ link' = "gone" /\ Fault
    /\ UNCHANGED <<session, run, agent, deleting, begun, cloudVars, seen, cancelled,
                   queue, exec, stopping, halts, known, watch, lost>>

(***************************************************************************)
(* The queue of a session                                                  *)
(***************************************************************************)

\* executeRun, up to the call of the Gateway.
Take(s) ==
    LET c == Head(queue[s])
    IN  /\ exec[s].at = "rest" /\ queue[s] # << >>
        /\ queue' = [queue EXCEPT ![s] = Tail(@)]
        /\ IF c \in cancelled
           THEN cancelled' = cancelled \ {c} /\ Tell(c, "cancelled") /\ UNCHANGED exec
           ELSE /\ UNCHANGED cancelled
                /\ IF c \in late THEN Tell(c, "expired") /\ UNCHANGED exec
                   ELSE exec' = [exec EXCEPT ![s] = Doing(c, "call")] /\ Silent
        /\ UNCHANGED <<runVars, asked, late, hands, link, seen, stopping, halts, known, watch>>

Reply(s, status) == exec' = [exec EXCEPT ![s].at = "back", ![s].reply = status]

\* startRemoteRun or startRun in the Gateway: a session of the command's own is
\* created, one it names must be there and free.
Call(s) ==
    LET c == exec[s].of
        fresh == c \notin Addressed /\ session[SessionOf[c]] = "none"
    IN  /\ exec[s].at = "call"
        /\ \/ /\ Known(c) /\ Reply(s, run[c]) /\ UNCHANGED runVars
           \/ /\ Admits(c) \/ (~Known(c) /\ fresh)
              /\ Accept(c) /\ exec' = [exec EXCEPT ![s].at = "start"]
           \/ /\ ~Known(c) /\ ~Admits(c) /\ ~fresh
              /\ Reply(s, "error") /\ UNCHANGED runVars
        /\ UNCHANGED <<cloudVars, link, seen, cancelled, queue, stopping, halts, known, watch, lost>>

\* Mutant: the queue waits for every run, also for one that has ended.
BackWaits(s) ==
    LET c == exec[s].of  status == exec[s].reply
    IN  /\ exec[s].at = "back"
        /\ IF status = "error"
           THEN /\ Tell(c, "failed") /\ exec' = [exec EXCEPT ![s] = Rest]
                /\ UNCHANGED <<known, watch>>
           ELSE /\ watch' = [watch EXCEPT ![c] = IF @ = "none" THEN "down" ELSE @]
                /\ known' = known \cup {c}
                /\ IF c \in cancelled
                   THEN exec' = [exec EXCEPT ![s] = Doing(c, "stop")] /\ Silent
                   ELSE exec' = [exec EXCEPT ![s] = Doing(c, "wait")] /\ Tell(c, "running")
        /\ UNCHANGED <<runVars, asked, late, hands, link, seen, cancelled, queue, stopping, halts>>

\* The bridge watches the run, and the queue tells the cloud of it: if it was
\* cancelled meanwhile it is stopped, if it has ended the queue goes on.
Back(s) ==
    LET c == exec[s].of  status == exec[s].reply
    IN  /\ exec[s].at = "back"
        /\ IF status = "error"
           THEN /\ Tell(c, "failed") /\ exec' = [exec EXCEPT ![s] = Rest]
                /\ UNCHANGED <<known, watch>>
           ELSE /\ watch' = [watch EXCEPT ![c] = IF @ = "none" THEN "down" ELSE @]
                /\ IF c \in cancelled
                   THEN /\ exec' = [exec EXCEPT ![s] = Doing(c, "stop")]
                        /\ known' = known \cup {c} /\ Silent
                   ELSE IF status \in Ended
                   THEN /\ Tell(c, Outcome(status)) /\ exec' = [exec EXCEPT ![s] = Rest]
                        /\ known' = known \ {c}
                   ELSE /\ Tell(c, "running") /\ exec' = [exec EXCEPT ![s] = Doing(c, "wait")]
                        /\ known' = known \cup {c}
        /\ UNCHANGED <<runVars, asked, late, hands, link, seen, cancelled, queue, stopping, halts>>

\* Mutant: the cancellation is answered when the runtime has been told.
StoppedSoon(c) == agent[c] # "working"

\* cancelRemoteRun answers when the run has ended, or could not be stopped.
Stopped(c) == agent[c] \in {"none", "starting"}

\* The queue has asked to stop the run of a cancelled command.
StopCall(s) ==
    /\ exec[s].at = "stop" /\ agent[exec[s].of] = "working"
    /\ Stop(exec[s].of)
    /\ UNCHANGED <<cloudVars, deskVars>>

StopBack(s) ==
    LET c == exec[s].of
    IN  /\ exec[s].at = "stop" /\ Stopped(c)
        /\ exec' = [exec EXCEPT ![s] = Rest]
        /\ Tell(c, "cancelled")
        /\ known' = known \ {c} /\ cancelled' = cancelled \ {c}
        /\ UNCHANGED <<runVars, asked, late, hands, link, seen, queue, stopping, halts, watch>>

\* The same for a cancellation that found the run known.
CancelCall(c) ==
    /\ stopping[c] = "call" /\ Stop(c)
    /\ stopping' = [stopping EXCEPT ![c] = "wait"]
    /\ UNCHANGED <<cloudVars, link, seen, cancelled, queue, exec, halts, known,
                   watch, lost>>

CancelBack(c) ==
    /\ stopping[c] = "wait" /\ Stopped(c)
    /\ stopping' = [stopping EXCEPT ![c] = "no"]
    /\ asked' = [asked EXCEPT ![c] = IF link = "up" THEN "done" ELSE "sent"]
    /\ UNCHANGED <<runVars, cloud, late, hands, link, seen, cancelled, queue, exec, halts, known,
                   watch, lost>>

(***************************************************************************)
(* Runs                                                                    *)
(***************************************************************************)

WatchOpens(c) ==
    /\ watch[c] = "down" /\ watch' = [watch EXCEPT ![c] = "up"]
    /\ UNCHANGED <<runVars, cloudVars, link, seen, cancelled, queue, exec, stopping, halts,
                   known, lost>>

\* The call that started a run returns with its status at that moment.
Answered(r, status) ==
    [s \in Sessions |-> IF exec[s].of = r /\ exec[s].at = "start"
                        THEN [exec[s] EXCEPT !.at = "back", !.reply = status] ELSE exec[s]]

\* onAgentEvent: the end of a run reaches the desktop only through an open
\* watch; it is reported, and the queue that waits for it goes on.
Observe(r, next, status) ==
    IF r \in known /\ watch[r] = "up"
    THEN /\ Tell(r, Outcome(status))
         /\ known' = known \ {r} /\ watch' = [watch EXCEPT ![r] = "none"]
         /\ exec' = [s \in Sessions |->
               IF next[s].of = r /\ next[s].at = "wait" THEN Rest ELSE next[s]]
    ELSE /\ lost' = IF Awaits(r) THEN lost \cup {r} ELSE lost
         /\ exec' = next
         /\ watch' = [c \in Commands |-> IF c = r /\ watch[c] = "up" THEN "none" ELSE watch[c]]
         /\ UNCHANGED <<cloud, known>>

RunStarts(r) ==
    /\ RuntimeStarts(r) /\ exec' = Answered(r, "running")
    /\ UNCHANGED <<cloudVars, link, seen, cancelled, queue, stopping, halts, known, watch, lost>>

RunRefused(r) ==
    /\ RuntimeRefuses(r) /\ Observe(r, Answered(r, "failed"), "failed")
    /\ UNCHANGED <<asked, late, hands, link, seen, cancelled, queue, stopping, halts>>

\* The model has finished or failed.
RunSettles(r) ==
    /\ \E outcome \in {"completed", "failed"} : Settle(r, outcome)
    /\ UNCHANGED <<cloudVars, deskVars>>

RunReports(r) ==
    /\ Report(r) /\ Observe(r, exec, run'[r])
    /\ UNCHANGED <<asked, late, hands, link, seen, cancelled, queue, stopping, halts>>

(***************************************************************************)
(* The user, and crashes                                                   *)
(***************************************************************************)

LocalRun(r) ==
    /\ Hand /\ r \in Locals /\ Admits(r)
    /\ Accept(r) \/ Question(r) \/ \E q \in Runs : Replace(r, q)
    /\ halts' = {c \in halts : run'[c] # "none"}
    /\ UNCHANGED <<cloud, asked, late, link, seen, cancelled, queue, exec, stopping, known,
                   watch, lost>>

\* The call is answered when the run has ended; while the run is being started it
\* is answered at once, and the desktop does not know the run.
LocalStop(r) ==
    /\ Hand /\ run[r] \in Active /\ Stop(r)
    /\ halts' = IF r \in Commands /\ ~Stopped(r) THEN halts \cup {r} ELSE halts
    /\ UNCHANGED <<cloud, asked, late, link, seen, cancelled, queue, exec, stopping, known,
                   watch, lost>>

\* The bridge makes a run.cancelled of the answer, whatever has become of the run,
\* as if it had heard it, and closes the watch.
LocalBack(c) ==
    /\ c \in halts /\ Stopped(c) /\ halts' = halts \ {c}
    /\ watch' = [watch EXCEPT ![c] = "none"]
    /\ IF c \in known
       THEN /\ Tell(c, "cancelled") /\ known' = known \ {c}
            /\ exec' = [s \in Sessions |->
                  IF exec[s].of = c /\ exec[s].at = "wait" THEN Rest ELSE exec[s]]
       ELSE Silent /\ UNCHANGED <<known, exec>>
    /\ UNCHANGED <<runVars, asked, late, hands, link, seen, cancelled, queue, stopping>>

\* The call that started a deleted run has nothing to return.
Delete(s) ==
    \/ DeleteBegin(s) /\ UNCHANGED <<cloudVars, deskVars>>
    \/ /\ DeleteEnd(s)
       /\ lost' = lost \cup {c \in Commands : Awaits(c) /\ run'[c] = "none"}
       /\ exec' = [t \in Sessions |->
             IF exec[t].at = "start" /\ run'[exec[t].of] = "none"
             THEN [exec[t] EXCEPT !.at = "back", !.reply = "error"] ELSE exec[t]]
       /\ halts' = {c \in halts : run'[c] # "none"}
       /\ UNCHANGED <<cloudVars, link, seen, cancelled, queue, stopping, known, watch>>

\* Calls in flight are repeated when the Gateway is back; the ends of the runs
\* it interrupted were announced before anyone could listen.
GatewayRestart ==
    /\ Fault /\ RunsRestart
    /\ exec' = [s \in Sessions |->
          IF exec[s].at = "start" THEN [exec[s] EXCEPT !.at = "call"] ELSE exec[s]]
    /\ stopping' = [c \in Commands |-> IF stopping[c] = "wait" THEN "call" ELSE stopping[c]]
    /\ watch' = [c \in Commands |-> IF watch[c] = "up" THEN "down" ELSE watch[c]]
    /\ lost' = lost \cup {c \in Commands : Awaits(c) /\ run[c] \in Active}
    /\ UNCHANGED <<cloudVars, link, seen, cancelled, queue, halts, known>>

\* The application restarts, and its Gateway with it.
DesktopRestart ==
    /\ Fault /\ RunsRestart
    /\ link' = "up" /\ seen' = {} /\ cancelled' = {} /\ halts' = {} /\ known' = {}
    /\ lost' = {}
    /\ queue' = [s \in Sessions |-> << >>] /\ exec' = [s \in Sessions |-> Rest]
    /\ stopping' = [c \in Commands |-> "no"] /\ watch' = [c \in Commands |-> "none"]
    /\ UNCHANGED cloudVars

Pending == \E s \in Sessions : exec[s].at = "rest" /\ queue[s] # << >>

Queue(s) == Call(s) \/ Back(s) \/ StopCall(s) \/ StopBack(s)
Cancels(c) == CancelCall(c) \/ CancelBack(c)
Works(r) == RunStarts(r) \/ RunRefused(r) \/ RunSettles(r) \/ RunReports(r)

\* The queue goes on in the turn in which something was put into it or its run
\* ended: nothing comes between.
Next ==
    IF Pending THEN \E s \in Sessions : Take(s)
    ELSE \/ \E c \in Commands :
               Deliver(c) \/ Expire(c) \/ Ask(c) \/ DeliverCancel(c) \/ Cancels(c) \/ WatchOpens(c)
               \/ LocalBack(c)
         \/ \E s \in Sessions : Queue(s) \/ Delete(s)
         \/ \E r \in Runs : Works(r)
         \/ \E r \in Locals : LocalRun(r)
         \/ \E r \in Runs : LocalStop(r)
         \/ Disconnect \/ Reconnect \/ GatewayRestart \/ DesktopRestart

Spec == Init /\ [][Next]_vars

\* The event loop serves what is there, the cloud delivers what has not ended, a
\* model answers, and a deletion that was begun comes to an end.  Nothing is
\* assumed of the user, of expiry, or of the connection's getting lost.
FairSpec ==
    /\ Spec
    /\ WF_vars(Pending /\ \E s \in Sessions : Take(s))
    /\ WF_vars(~Pending /\ Reconnect)
    /\ \A s \in Sessions :
          WF_vars(~Pending /\ Queue(s)) /\ WF_vars(~Pending /\ s \in deleting /\ Delete(s))
    /\ \A c \in Commands :
          WF_vars(~Pending /\ (Deliver(c) \/ Cancels(c))) /\ WF_vars(~Pending /\ WatchOpens(c))
    /\ \A r \in Runs : WF_vars(~Pending /\ Works(r))

(***************************************************************************)
(* Properties                                                              *)
(***************************************************************************)

\* However often a command is delivered, and whatever restarts in between, the
\* runtime is asked to execute it once (startRemoteRun's redelivered commands
\* resolve to the same run); only a user who removes the run lets it run again.
ExecutedOnce == \A r \in Runs : begun[r] <= 1

\* What the phone is told is so: a command that completed has a completed run, and
\* one that completed, failed or was cancelled has none that goes on, although
\* reports come from the queue, the watch and the cancellation independently.
FinalIsTrue ==
    \A c \in Commands :
       /\ cloud[c] = "completed" => run[c] \in {"completed", "none"}
       /\ cloud[c] \in Final \ {"expired"} => run[c] \notin Active

\* A command the desktop has taken ends in the cloud, unless an end was missed in
\* its session or the desktop never got back to the cloud: cancellations,
\* refusals, crashes and the commands before it in the queue do not keep it.
EndsOrLost ==
    \A c \in Commands :
       c \in seen ~> \/ cloud[c] \in Final
                    \/ link = "gone"
                    \/ \E d \in lost : SessionOf[d] = SessionOf[c]

\* Every run ends, whoever stops it, deletes its session or restarts the Gateway:
\* its session can always be used again.
RunsEnd == \A r \in Runs : run[r] \in Active ~> run[r] \notin Active

\* What became of a request, as the row of its run has it.
Fate(r) == IF run[r] = "none" THEN "new" ELSE IF run[r] \in Active THEN "open" ELSE run[r]
Service == INSTANCE CommandService
    WITH Places <- Sessions, Work <- Runs, PlaceOf <- SessionOf, Phoned <- Commands,
         fate <- [r \in Runs |-> Fate(r)], told <- cloud

\* The Gateway and the desktop implement the abstract service: together, queues,
\* watches, cancellations, deletions and restarts are one run at a time in a
\* session, none taken up twice or after its end was told, and no end told early.
Serves == Service!Spec
=============================================================================
