--------------------------- MODULE KnowledgeQueue ---------------------------
(***************************************************************************)
(* One document on its way into the wikis of Rooms.  The outbox hands its  *)
(* versions and its deletion to the knowledge service in order; the service *)
(* keeps a table of jobs (route, ingest, relation index, cleanup) that one  *)
(* worker serves by kind and age, with retries; a job awaits the model or   *)
(* the external wiki service, and meanwhile the user saves, trashes,        *)
(* deletes and imports the document, attaches it to entities and reverts    *)
(* decisions.  The router is enabled and the document was made in a Room.   *)
(***************************************************************************)
EXTENDS Naturals, Sequences, FiniteSets, SequencesExt

CONSTANTS
    Rooms,          \* Rooms with a wiki
    Home,           \* the Room the document was made in
    Titles,         \* titles of the document: a title names its file in a wiki
    None,           \* no title, no Room
    MaxVersion,     \* bound: versions of one life of the document
    MaxLives,       \* bound: imports under the same id
    MaxTries,       \* failures after which a job is given up
    MaxHands,       \* bound: saves, trashings, imports, attachments, backlogs, reverts
    MaxFaults       \* bound: failed calls and restarts

ASSUME QueueAssumption ==
    /\ IsFiniteSet(Rooms) /\ Home \in Rooms /\ Titles # {} /\ None \notin Rooms \cup Titles
    /\ {MaxVersion, MaxLives, MaxTries} \subseteq Nat \ {0}
    /\ {MaxHands, MaxFaults} \subseteq Nat

Texts == [life : 1..MaxLives, version : 1..MaxVersion]
NoText == [life |-> 0, version |-> 0]
Kinds == {"ingest", "cleanup", "relation", "route"}

VARIABLES
    doc,            \* the document: where it is, its life, version and title
    outbox,         \* what the document outbox has still to hand over, in order
    jobs,           \* the active jobs, oldest first
    work,           \* what the worker has read for the job it runs
    decisions,      \* route decisions, oldest first
    links,          \* who has linked entities to the document
    relation,       \* the version in the relation projection, 0 for none
    wiki,           \* wiki[r][t]: the text of the document in file t of r's wiki
    revert,         \* a revert in progress: the decision and the Rooms left
    hands, faults,  \* bounded counters
    gaveUp          \* history: kinds of jobs that failed for good

store == <<decisions, links, relation>>
bounds == <<hands, faults, gaveUp>>
vars == <<doc, outbox, jobs, work, store, wiki, revert, bounds>>

Idle == [at |-> "idle", text |-> NoText, title |-> None, todo |-> {}]
NoRevert == [of |-> 0, todo |-> {}]
Payloads == [kind : Kinds, version : 0..MaxVersion, life : 0..MaxLives,
             rooms : SUBSET Rooms, decision : Nat]
Jobs == [payload : Payloads, at : {"ready", "delayed", "running"}, tries : 0..(MaxTries - 1)]
Ledgers == [Rooms -> Titles \cup {None}]
Decisions == [version : 0..MaxVersion, by : {"entry", "resolution"}, ledger : Ledgers,
              status : {"auto", "linked", "awaiting_review", "confirmed", "reverted"}]
Running == {k \in 1..Len(jobs) : jobs[k].at = "running"}

TypeOK ==
    /\ doc \in [at : {"live", "trashed", "gone"}, life : 1..MaxLives,
                version : 1..MaxVersion, title : Titles]
    /\ outbox \in Seq(0..MaxVersion) /\ jobs \in Seq(Jobs) /\ decisions \in Seq(Decisions)
    /\ Cardinality(Running) = (IF work.at = "idle" THEN 0 ELSE 1)
    /\ work \in [at : {"idle", "extract", "write", "build", "index", "remove"},
                text : Texts \cup {NoText}, title : Titles \cup {None},
                todo : SUBSET (Rooms \X Titles)]
    /\ links \subseteq {"resolution", "user"} /\ relation \in 0..MaxVersion
    /\ wiki \in [Rooms -> [Titles -> Texts \cup {NoText}]]
    /\ revert \in [of : 0..Len(decisions), todo : SUBSET Rooms]
    /\ hands \in 0..MaxHands /\ faults \in 0..MaxFaults /\ gaveUp \subseteq Kinds

\* The document has just been committed for the first time.
Init ==
    /\ doc = [at |-> "live", life |-> 1, version |-> 1,
              title |-> CHOOSE t \in Titles : TRUE]
    /\ outbox = <<1>>
    /\ jobs = << >> /\ work = Idle
    /\ decisions = << >> /\ links = {} /\ relation = 0
    /\ wiki = [r \in Rooms |-> [t \in Titles |-> NoText]]
    /\ revert = NoRevert
    /\ hands = 0 /\ faults = 0 /\ gaveUp = {}

(***************************************************************************)
(* Jobs                                                                    *)
(***************************************************************************)

RouteJob(v, life) ==    \* life 0: without the text of the document
    [kind |-> "route", version |-> v, life |-> life, rooms |-> {}, decision |-> 0]
IngestJob(v, r, d) ==
    [kind |-> "ingest", version |-> v, life |-> 0, rooms |-> {r}, decision |-> d]
RelationJob(v, rs) ==
    [kind |-> "relation", version |-> v, life |-> 0, rooms |-> rs, decision |-> 0]
CleanupJob ==
    [kind |-> "cleanup", version |-> 0, life |-> 0, rooms |-> {}, decision |-> 0]

\* insertJob: a job with the payload of an active one is not added.
WithJob(q, p) ==
    IF \E k \in 1..Len(q) : q[k].payload = p THEN q
    ELSE Append(q, [payload |-> p, at |-> "ready", tries |-> 0])

\* One ingest for every Room of a decision, in any order: they differ in age only.
WithIngests(q, v, rs, d) ==
    LET new == {r \in rs : \A k \in 1..Len(q) : q[k].payload # IngestJob(v, r, d)}
    IN  q \o [k \in 1..Cardinality(new) |->
                  [payload |-> IngestJob(v, SetToSeq(new)[k], d), at |-> "ready", tries |-> 0]]

Rank(kind) == CASE kind = "ingest" -> 0 [] kind = "cleanup" -> 1
                [] kind = "relation" -> 2 [] kind = "route" -> 3

\* nextRunnableJob: by kind, then by age; what waits for its retry is passed over.
Runnable(k) ==
    /\ jobs[k].at = "ready"
    /\ \A j \in 1..Len(jobs) : jobs[j].at = "ready" =>
          LET a == Rank(jobs[k].payload.kind)  b == Rank(jobs[j].payload.kind)
          IN  a < b \/ (a = b /\ k <= j)

Job == jobs[CHOOSE k \in Running : TRUE]
Others == RemoveAt(jobs, CHOOSE k \in Running : TRUE)
Started(k) == [jobs EXCEPT ![k].at = "running"]

Latest == Len(decisions)
Decision(v, by, status) ==
    [version |-> v, by |-> by, status |-> status, ledger |-> [r \in Rooms |-> None]]
Confirmed == {d \in 1..Latest : decisions[d].status = "confirmed"}
Placed(d) == {r \in Rooms : decisions[d].ledger[r] # None}

(***************************************************************************)
(* The document and its outbox                                             *)
(***************************************************************************)

\* What the user does to the document or its decisions is bounded together.
Hand == hands < MaxHands /\ hands' = hands + 1 /\ UNCHANGED <<faults, gaveUp>>

Save ==
    /\ Hand /\ doc.at = "live" /\ doc.version < MaxVersion
    /\ \E t \in Titles : doc' = [doc EXCEPT !.version = @ + 1, !.title = t]
    /\ outbox' = Append(outbox, doc.version + 1)
    /\ UNCHANGED <<jobs, work, store, wiki, revert>>

Trash ==
    /\ Hand /\ doc.at = "live" /\ doc' = [doc EXCEPT !.at = "trashed"]
    /\ UNCHANGED <<outbox, jobs, work, store, wiki, revert>>

Restore ==
    /\ doc.at = "trashed" /\ doc' = [doc EXCEPT !.at = "live"]
    /\ UNCHANGED <<outbox, jobs, work, store, wiki, revert, bounds>>

\* In the outbox a deletion is a 0.
Delete ==
    /\ doc.at = "trashed" /\ doc' = [doc EXCEPT !.at = "gone"]
    /\ outbox' = Append(outbox, 0)
    /\ UNCHANGED <<jobs, work, store, wiki, revert, bounds>>

Import ==
    /\ Hand /\ doc.at = "gone" /\ doc.life < MaxLives
    /\ doc' = [doc EXCEPT !.at = "live", !.life = @ + 1, !.version = 1]
    /\ outbox' = Append(outbox, 1)
    /\ UNCHANGED <<jobs, work, store, wiki, revert>>

\* The outbox worker hands over its oldest job: a version that is still the
\* document's becomes a route job with its text, a deletion a cleanup.
Deliver ==
    /\ outbox # << >> /\ outbox' = Tail(outbox)
    /\ jobs' = IF Head(outbox) = 0 THEN WithJob(jobs, CleanupJob)
               ELSE IF doc.at = "live" /\ doc.version = Head(outbox)
               THEN WithJob(jobs, RouteJob(doc.version, doc.life))
               ELSE jobs
    /\ UNCHANGED <<doc, work, store, wiki, revert, bounds>>

(***************************************************************************)
(* The worker                                                              *)
(***************************************************************************)

\* A job is taken and nothing is left of it to await.
Complete(q) == jobs' = q /\ work' = Idle
Without(k) == RemoveAt(jobs, k)

\* route, of a document in its Room: the entry decides, the model is not asked.
RouteEntry(k) ==
    LET p == jobs[k].payload
        v == p.version
    IN  /\ p.kind = "route" /\ p.life # 0 /\ doc.at # "gone"
        /\ decisions' = Append(decisions, Decision(v, "entry", "auto"))
        /\ Complete(WithJob(WithJob(Without(k), IngestJob(v, Home, Latest + 1)),
                            RelationJob(v, {Home})))
        /\ UNCHANGED <<links, relation, wiki, bounds>>

\* Without an entry the text is read by the model: the text that came with the
\* job, or that of the document, which must then be there in that version.
RouteExtract(k) ==
    LET p == jobs[k].payload
    IN  /\ p.kind = "route" /\ (p.life = 0 \/ doc.at = "gone")
        /\ \/ /\ p.life = 0 /\ (doc.at # "live" \/ doc.version # p.version)
              /\ Complete(Without(k))
           \/ /\ p.life # 0 \/ (doc.at = "live" /\ doc.version = p.version)
              /\ jobs' = Started(k) /\ work' = [Idle EXCEPT !.at = "extract"]
        /\ UNCHANGED <<store, wiki, bounds>>

\* The model has answered: nothing to link, entities without a Room, or Rooms.
\* Links the user made are kept.
RouteDecide ==
    /\ work.at = "extract"
    /\ LET v == Job.payload.version
       IN  \/ /\ links' \in {links, links \ {"resolution"}}
              /\ decisions' = Append(decisions, Decision(v, "resolution", "awaiting_review"))
              /\ Complete(Others)
           \/ /\ links' = links \cup {"resolution"}
              /\ decisions' = Append(decisions, Decision(v, "resolution", "linked"))
              /\ Complete(Others)
           \/ \E rs \in SUBSET Rooms \ {{}} :
              /\ links' = links \cup {"resolution"}
              /\ decisions' = Append(decisions, Decision(v, "resolution", "auto"))
              /\ Complete(WithJob(WithIngests(Others, v, rs, Latest + 1), RelationJob(v, rs)))
    /\ UNCHANGED <<relation, wiki, bounds>>

\* Mutant: a decision is carried out although its document is gone.
ReadableSnapshot(v) == doc.version = v

\* buildExecutionEnvelope: the text is read again when the job runs, of a
\* document that is there and still has the version that was routed.
Readable(v) == doc.at = "live" /\ doc.version = v

\* A text already in the wiki under its file name is not written again.
IngestStart(k) ==
    LET p == jobs[k].payload
        r == CHOOSE x \in p.rooms : TRUE
    IN  /\ p.kind = "ingest"
        /\ IF Readable(p.version) /\ decisions[p.decision].ledger[r] # doc.title
           THEN /\ jobs' = Started(k)
                /\ work' = [Idle EXCEPT !.at = "write", !.title = doc.title,
                               !.text = [life |-> doc.life, version |-> doc.version]]
           ELSE Complete(Without(k))
        /\ UNCHANGED <<store, wiki, bounds>>

JobRoom == CHOOSE r \in Job.payload.rooms : TRUE

IngestWrite ==
    /\ work.at = "write"
    /\ wiki' = [wiki EXCEPT ![JobRoom][work.title] = work.text]
    /\ work' = [work EXCEPT !.at = "build"]
    /\ UNCHANGED <<jobs, store, bounds>>

\* The wiki is built, and the decision keeps where the text was put.
IngestConfirm ==
    /\ work.at = "build"
    /\ decisions' = [decisions EXCEPT ![Job.payload.decision] =
                        [@ EXCEPT !.status = "confirmed", !.ledger[JobRoom] = work.title]]
    /\ Complete(Others)
    /\ UNCHANGED <<links, relation, wiki, bounds>>

\* The projection needs the document, and when the model has to read it again,
\* in the version of the job; what a resolution found is projected as it is.
RelationStart(k) ==
    LET p == jobs[k].payload
        found == {d \in 1..Latest : decisions[d].version = p.version}
        last == CHOOSE d \in found : \A e \in found : e <= d
    IN  /\ p.kind = "relation"
        /\ \/ /\ doc.at # "live" \/ doc.version # p.version
              /\ Complete(Without(k)) /\ UNCHANGED relation
           \/ /\ doc.at = "live" /\ doc.version = p.version
              /\ jobs' = Started(k) /\ work' = [Idle EXCEPT !.at = "index"]
              /\ UNCHANGED relation
           \/ /\ doc.at = "live" /\ decisions[last].by = "resolution"
              /\ relation' = p.version /\ Complete(Without(k))
        /\ UNCHANGED <<decisions, links, wiki, bounds>>

RelationIndex ==
    /\ work.at = "index"
    /\ relation' = Job.payload.version
    /\ Complete(Others)
    /\ UNCHANGED <<decisions, links, wiki, bounds>>

\* cleanup: links and projection at once, then the files in the ledgers of
\* confirmed decisions, one call each.
CleanupStart(k) ==
    /\ jobs[k].payload.kind = "cleanup"
    /\ links' = {} /\ relation' = 0
    /\ IF Confirmed = {} THEN Complete(Without(k))
       ELSE /\ jobs' = Started(k)
            /\ work' = [Idle EXCEPT !.at = "remove",
                           !.todo = UNION {{<<r, decisions[d].ledger[r]>> : r \in Placed(d)} :
                                               d \in Confirmed}]
    /\ UNCHANGED <<decisions, wiki, bounds>>

CleanupRemove ==
    /\ work.at = "remove"
    /\ \E x \in work.todo :
          /\ wiki' = [wiki EXCEPT ![x[1]][x[2]] = NoText]
          /\ work' = [work EXCEPT !.todo = @ \ {x}]
    /\ UNCHANGED <<jobs, store, bounds>>

CleanupEnd ==
    /\ work.at = "remove" /\ work.todo = {}
    /\ decisions' = [d \in 1..Latest |->
          IF d \in Confirmed THEN [decisions[d] EXCEPT !.status = "reverted"]
          ELSE decisions[d]]
    /\ Complete(Others)
    /\ UNCHANGED <<links, relation, wiki, bounds>>

\* Mutant: a delayed job keeps the worker's text.
LaterUnreleased(tries) ==
    /\ jobs' = [k \in 1..Len(jobs) |->
          IF k \in Running THEN [jobs[k] EXCEPT !.at = "delayed", !.tries = tries]
          ELSE jobs[k]]
    /\ work' = work

Later(tries) ==
    /\ jobs' = [k \in 1..Len(jobs) |->
          IF k \in Running THEN [jobs[k] EXCEPT !.at = "delayed", !.tries = tries]
          ELSE jobs[k]]
    /\ work' = Idle

\* The wiki service is building: the job waits without counting a failure.
Busy ==
    /\ work.at \in {"write", "build"} \/ (work.at = "remove" /\ work.todo # {})
    /\ Later(Job.tries)
    /\ UNCHANGED <<store, wiki, bounds>>

\* Any other failure is counted, in memory, and one too many ends the job.
Fail ==
    /\ work.at # "idle" /\ faults < MaxFaults
    /\ faults' = faults + 1
    /\ \/ /\ Job.tries + 1 < MaxTries
          /\ Later(Job.tries + 1) /\ UNCHANGED gaveUp
       \/ /\ Job.tries + 1 = MaxTries
          /\ Complete(Others) /\ gaveUp' = gaveUp \cup {Job.payload.kind}
    /\ UNCHANGED <<store, wiki, hands>>

Take(k) ==
    /\ work.at = "idle" /\ Runnable(k)
    /\ \/ RouteEntry(k) \/ RouteExtract(k) \/ IngestStart(k)
       \/ RelationStart(k) \/ CleanupStart(k)
Answer == RouteDecide \/ IngestWrite \/ IngestConfirm \/ RelationIndex
          \/ CleanupRemove \/ CleanupEnd
Worker == /\ (\E k \in 1..Len(jobs) : Take(k)) \/ Answer \/ Busy \/ Fail
          /\ UNCHANGED <<doc, outbox, revert>>

\* The back-off of a job has passed.
Ripen ==
    /\ \E k \in 1..Len(jobs) : jobs[k].at = "delayed" /\ jobs' = [jobs EXCEPT ![k].at = "ready"]
    /\ UNCHANGED <<doc, outbox, work, store, wiki, revert, bounds>>

\* Mutant: running jobs are not made ready again.
RestartStuck ==
    /\ faults < MaxFaults /\ faults' = faults + 1
    /\ work' = Idle /\ revert' = NoRevert
    /\ UNCHANGED <<doc, outbox, jobs, store, wiki, hands, gaveUp>>

\* Mutant: running jobs are forgotten.
RestartForgetful ==
    /\ faults < MaxFaults /\ faults' = faults + 1
    /\ jobs' = SelectSeq(jobs, LAMBDA j : j.at # "running")
    /\ work' = Idle /\ revert' = NoRevert
    /\ UNCHANGED <<doc, outbox, store, wiki, hands, gaveUp>>

\* The Gateway restarts: running jobs are ready again, back-offs, failure
\* counts and requests under way are forgotten.
Restart ==
    /\ faults < MaxFaults /\ faults' = faults + 1
    /\ jobs' = [k \in 1..Len(jobs) |-> [jobs[k] EXCEPT !.at = "ready", !.tries = 0]]
    /\ work' = Idle /\ revert' = NoRevert
    /\ UNCHANGED <<doc, outbox, store, wiki, hands, gaveUp>>

(***************************************************************************)
(* The user                                                                *)
(***************************************************************************)

\* attachDoc, to an entity with a Room or to one without.
Attach ==
    /\ Hand /\ Latest > 0
    /\ links' = links \cup {"user"}
    /\ \/ UNCHANGED <<decisions, jobs>>
       \/ \E r \in Rooms :
             /\ decisions' = [decisions EXCEPT ![Latest].status = "auto"]
             /\ jobs' = WithJob(jobs, IngestJob(decisions[Latest].version, r, Latest))
    /\ UNCHANGED <<doc, outbox, work, relation, wiki, revert>>

\* An entity linked to the document becomes Room r, or part of it.
Backlog ==
    /\ Hand /\ Latest > 0 /\ links # {}
    /\ \E r \in Rooms :
          jobs' = WithJob(WithJob(jobs, IngestJob(decisions[Latest].version, r, Latest)),
                          RelationJob(decisions[Latest].version, {r} \cup Placed(Latest)))
    /\ UNCHANGED <<doc, outbox, work, store, wiki, revert>>

\* revertDecision: the files of one decision are removed, call by call, and the
\* document is routed again without its entry.
RevertBegin ==
    /\ Hand /\ revert.of = 0
    /\ \E d \in Confirmed : Placed(d) # {} /\ revert' = [of |-> d, todo |-> Placed(d)]
    /\ UNCHANGED <<doc, outbox, jobs, work, store, wiki>>

RevertRemove ==
    /\ \E r \in revert.todo :
          /\ wiki' = [wiki EXCEPT ![r][decisions[revert.of].ledger[r]] = NoText]
          /\ revert' = [revert EXCEPT !.todo = @ \ {r}]
    /\ UNCHANGED <<doc, outbox, jobs, work, store, bounds>>

RevertEnd ==
    /\ revert.of # 0 /\ revert.todo = {}
    /\ decisions' = [decisions EXCEPT ![revert.of].status = "reverted"]
    /\ jobs' = WithJob(jobs, RouteJob(decisions[revert.of].version, 0))
    /\ revert' = NoRevert
    /\ UNCHANGED <<doc, outbox, work, links, relation, wiki, bounds>>

RevertFail ==
    /\ revert.todo # {} /\ faults < MaxFaults
    /\ faults' = faults + 1 /\ revert' = NoRevert
    /\ UNCHANGED <<doc, outbox, jobs, work, store, wiki, hands, gaveUp>>

Next ==
    \/ Save \/ Trash \/ Restore \/ Delete \/ Import
    \/ Deliver \/ Worker \/ Ripen \/ Restart
    \/ Attach \/ Backlog \/ RevertBegin \/ RevertRemove \/ RevertEnd \/ RevertFail

\* The outbox and the worker are polled, back-offs pass, a revert goes on, and
\* the wiki service is not busy for ever.
Fairness ==
    /\ WF_vars(Deliver) /\ WF_vars(Worker) /\ WF_vars(Ripen)
    /\ WF_vars(RevertRemove \/ RevertEnd)
    /\ <>[][~Busy]_vars
Spec == Init /\ [][Next]_vars /\ Fairness

(***************************************************************************)
(* Properties                                                              *)
(***************************************************************************)

\* The deletion of the document has reached the worker and been served.
CleanedUp ==
    /\ doc.at = "gone" /\ outbox = << >>
    /\ \A k \in 1..Len(jobs) : jobs[k].payload.kind # "cleanup"

\* A deleted document stays deleted, although ingests go before the cleanup,
\* after it, and again after a retry: no decision is confirmed behind the
\* cleanup, which would be the only one to remove its files, and no relation
\* job left over puts the document back into the projection.
CleanupIsFinal ==
    CleanedUp => relation = 0 /\ ("cleanup" \notin gaveUp => Confirmed = {})

\* Whatever fails or restarts, the queue empties: no job is lost from sight,
\* passed over for ever by younger ones, or retried for ever.
QueueEmpties == <>[](outbox = << >> /\ jobs = << >>)

\* A document that stays out of the trash ends up in the wiki of its Room, in
\* its last version and under its last title.
IndexedInTheEnd ==
    [](doc.at = "live" /\ gaveUp = {} /\ revert.of = 0) =>
        <>[](wiki[Home][doc.title] = [life |-> doc.life, version |-> doc.version])
=============================================================================
