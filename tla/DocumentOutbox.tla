--------------------------- MODULE DocumentOutbox ---------------------------
(***************************************************************************)
(* The document outbox: the jobs that every committed version and every    *)
(* permanent deletion leaves in the database, the one worker that drains   *)
(* them, the ingest ledger it goes through, and the documents that the     *)
(* external memory service then holds.                                     *)
(*                                                                         *)
(* When a document may be saved, trashed or deleted is DocumentKernel's    *)
(* business; here any version may follow any other.  Time appears only as  *)
(* the moment at which a job that waits, for its debounce or its back-off, *)
(* becomes due.  The Room half of the fan-out is left out.                 *)
(***************************************************************************)
EXTENDS Naturals, Sequences

CONSTANTS
    Docs,           \* document ids; an external one is stable over re-imports
    Contents,       \* fingerprints of title and body, block ids included
    Empty,          \* a content without any text
    Nothing,        \* what the memory service holds of an unknown document
    MaxAttempts,    \* failures after which a job is given up (5 in the code)
    MaxJobs,        \* bound: this many jobs are ever written
    MaxCrashes      \* bound: the process dies at most this often

ASSUME OutboxAssumption ==
    /\ Empty \in Contents /\ Nothing \notin Contents
    /\ MaxAttempts \in Nat \ {0} /\ MaxJobs \in Nat /\ MaxCrashes \in Nat

VARIABLES
    docs,           \* docs[d]: its row; version 0 when there is none
    jobs,           \* the outbox rows in the order of their creation
    ledger,         \* ledger[d][c]: the ingest event of content c of d
    memory,         \* memory[d]: what the memory service holds of d
    worker,         \* the drain in progress
    crashes

vars == <<docs, jobs, ledger, memory, worker, crashes>>

\* No document, when the fingerprints in U have been used.
NoDoc(U) == [version |-> 0, content |-> Nothing, past |-> {}, used |-> U, trashed |-> FALSE]
AtRest == [todo |-> {}, announced |-> [d \in Docs |-> {}], blocked |-> {},
           job |-> 0, content |-> Nothing]

TypeOK ==
    /\ docs \in [Docs -> [version : 0..MaxJobs, content : Contents \cup {Nothing},
                          past : SUBSET Contents, used : SUBSET Contents, trashed : BOOLEAN]]
    /\ jobs \in Seq([doc : Docs, version : 0..MaxJobs, due : BOOLEAN,
                     status : {"pending", "running", "completed", "failed"},
                     attempts : 0..MaxAttempts,
                     result : {"none", "superseded", "skipped", "deduped", "imported",
                               "deleted"}])
    /\ ledger \in [Docs -> [Contents -> {"none", "open", "done"}]]
    /\ memory \in [Docs -> Contents \cup {Nothing}]
    /\ worker \in [todo : SUBSET (1..MaxJobs), announced : [Docs -> SUBSET (1..MaxJobs)],
                   blocked : SUBSET Docs, job : 0..MaxJobs,
                   content : Contents \cup {Nothing}]
    /\ crashes \in 0..MaxCrashes

Init ==
    /\ docs = [d \in Docs |-> NoDoc({})]
    /\ jobs = << >>
    /\ ledger = [d \in Docs |-> [c \in Contents |-> "none"]]
    /\ memory = [d \in Docs |-> Nothing]
    /\ worker = AtRest
    /\ crashes = 0

Live(d) == docs[d].version > 0

(***************************************************************************)
(* The documents, as far as they reach the outbox                          *)
(***************************************************************************)

\* A job is written in the transaction of what it announces; version 0 stands
\* for a deletion, which alone need not wait for the debounce.
Enqueue(d, v) ==
    /\ Len(jobs) < MaxJobs
    /\ jobs' = Append(jobs, [doc |-> d, version |-> v, due |-> v = 0, status |-> "pending",
                             attempts |-> 0, result |-> "none"])

\* The first version of a document, or the next one.  Block ids are drawn at
\* random, so that a text typed or imported again has a fingerprint of its own;
\* the one of an earlier version returns when that version is restored.
Commit(d, c) ==
    LET v == docs[d].version + 1
    IN  /\ ~docs[d].trashed
        /\ c = Empty \/ c \in docs[d].past \/ c \notin docs[d].used
        /\ Enqueue(d, v)
        /\ docs' = [docs EXCEPT ![d].version = v, ![d].content = c,
                                ![d].past = @ \cup {c}, ![d].used = @ \cup {c}]
        /\ UNCHANGED <<ledger, memory, worker, crashes>>

Trash(d) ==
    /\ Live(d) /\ ~docs[d].trashed
    /\ docs' = [docs EXCEPT ![d].trashed = TRUE]
    /\ UNCHANGED <<jobs, ledger, memory, worker, crashes>>

Restore(d) ==
    /\ docs[d].trashed
    /\ docs' = [docs EXCEPT ![d].trashed = FALSE]
    /\ UNCHANGED <<jobs, ledger, memory, worker, crashes>>

\* Mutant: the document is deleted without a word to the outbox.
DeleteSilently(d) ==
    /\ docs[d].trashed
    /\ docs' = [docs EXCEPT ![d] = NoDoc(docs[d].used)]
    /\ UNCHANGED <<jobs, ledger, memory, worker, crashes>>

DeletePermanently(d) ==
    /\ docs[d].trashed
    /\ Enqueue(d, 0)
    /\ docs' = [docs EXCEPT ![d] = NoDoc(docs[d].used)]
    /\ UNCHANGED <<ledger, memory, worker, crashes>>

(***************************************************************************)
(* The worker: one drain at a time over a snapshot of the pending jobs     *)
(***************************************************************************)

Pending == {j \in DOMAIN jobs : jobs[j].status = "pending"}

\* The debounce or the back-off of job j has passed.
Ripen(j) ==
    /\ j \in Pending /\ ~jobs[j].due
    /\ jobs' = [jobs EXCEPT ![j].due = TRUE]
    /\ UNCHANGED <<docs, ledger, memory, worker, crashes>>

\* The versions of d that pending jobs announce.
Announced(d) ==
    {jobs[j].version : j \in {i \in Pending : jobs[i].doc = d /\ jobs[i].version > 0}}

DrainBegin ==
    /\ worker.todo = {} /\ worker.job = 0
    /\ Pending # {}
    /\ worker' = [AtRest EXCEPT !.todo = Pending, !.announced = [d \in Docs |-> Announced(d)]]
    /\ UNCHANGED <<docs, jobs, ledger, memory, crashes>>

\* The next job of the snapshot, once no other is in progress.
AtHead(j) == worker.job = 0 /\ j \in worker.todo /\ \A i \in worker.todo : j =< i
Blocked(j) == jobs[j].doc \in worker.blocked
Stale(j) == jobs[j].version > 0 /\ \E v \in worker.announced[jobs[j].doc] : jobs[j].version < v
Rest(j) == [worker EXCEPT !.todo = @ \ {j}]

Complete(j, result) ==
    jobs' = [jobs EXCEPT ![j].status = "completed", ![j].result = result]

SkipBlocked(j) ==
    /\ AtHead(j) /\ Blocked(j)
    /\ worker' = Rest(j)
    /\ UNCHANGED <<docs, jobs, ledger, memory, crashes>>

Supersede(j) ==
    /\ AtHead(j) /\ ~Blocked(j) /\ Stale(j)
    /\ Complete(j, "superseded")
    /\ worker' = Rest(j)
    /\ UNCHANGED <<docs, ledger, memory, crashes>>

\* Mutant: a job that has to wait does not hold back those behind it.
WaitAside(j) ==
    /\ AtHead(j) /\ ~Blocked(j) /\ ~Stale(j) /\ ~jobs[j].due
    /\ worker' = Rest(j)
    /\ UNCHANGED <<docs, jobs, ledger, memory, crashes>>

\* A job that is not due holds back the later jobs of its document.
Wait(j) ==
    /\ AtHead(j) /\ ~Blocked(j) /\ ~Stale(j) /\ ~jobs[j].due
    /\ worker' = [Rest(j) EXCEPT !.blocked = @ \cup {jobs[j].doc}]
    /\ UNCHANGED <<docs, jobs, ledger, memory, crashes>>

Ready(j) == AtHead(j) /\ ~Blocked(j) /\ ~Stale(j) /\ jobs[j].due

\* What ingestCommittedDocument insists on.
Ingestible(d, v) == docs[d].version = v /\ ~docs[d].trashed /\ docs[d].content # Empty

\* Nothing to do: the document has moved on, or this content was ingested.
IngestWithoutImport(j) ==
    LET d == jobs[j].doc  v == jobs[j].version
    IN  /\ Ready(j) /\ v > 0
        /\ \/ ~Ingestible(d, v) /\ Complete(j, "skipped")
           \/ /\ Ingestible(d, v)
              /\ ledger[d][docs[d].content] = "done"
              /\ Complete(j, "deduped")
        /\ worker' = Rest(j)
        /\ UNCHANGED <<docs, ledger, memory, crashes>>

Claim(j, content) ==
    /\ jobs' = [jobs EXCEPT ![j].status = "running"]
    /\ worker' = [Rest(j) EXCEPT !.job = j, !.content = content]

\* The ledger event is written before the memory service is called.
IngestBegin(j) ==
    LET d == jobs[j].doc  c == docs[d].content
    IN  /\ Ready(j) /\ jobs[j].version > 0
        /\ Ingestible(d, jobs[j].version)
        /\ ledger[d][c] # "done"
        /\ ledger' = [ledger EXCEPT ![d][c] = "open"]
        /\ Claim(j, c)
        /\ UNCHANGED <<docs, memory, crashes>>

DeleteBegin(j) ==
    /\ Ready(j) /\ jobs[j].version = 0
    /\ Claim(j, Nothing)
    /\ UNCHANGED <<docs, ledger, memory, crashes>>

\* The call in progress leaves the memory service with this content.
Landed ==
    memory' = [memory EXCEPT ![jobs[worker.job].doc] = worker.content]

Finish ==
    LET j == worker.job  d == jobs[j].doc
    IN  /\ j # 0
        /\ Landed
        /\ Complete(j, IF jobs[j].version = 0 THEN "deleted" ELSE "imported")
        /\ ledger' = IF jobs[j].version = 0 THEN ledger
                     ELSE [ledger EXCEPT ![d][worker.content] = "done"]
        /\ worker' = [worker EXCEPT !.job = 0, !.content = Nothing]
        /\ UNCHANGED <<docs, crashes>>

\* Mutant: one attempt too many.
RetriedOnceMore(job) ==
    [job EXCEPT !.attempts = @ + 1, !.due = FALSE,
                !.status = IF job.attempts >= MaxAttempts THEN "failed" ELSE "pending"]

\* The row of a job that failed once more.
Retried(job) ==
    [job EXCEPT !.attempts = @ + 1, !.due = FALSE,
                !.status = IF job.attempts + 1 >= MaxAttempts THEN "failed" ELSE "pending"]

\* Mutant: a failure does not hold back later jobs.
FailAside ==
    LET j == worker.job
    IN  /\ j # 0
        /\ Landed \/ UNCHANGED memory
        /\ jobs' = [jobs EXCEPT ![j] = Retried(@)]
        /\ worker' = [worker EXCEPT !.job = 0, !.content = Nothing]
        /\ UNCHANGED <<docs, ledger, crashes>>

\* A call that fails may have had its effect all the same.
Fail ==
    LET j == worker.job
    IN  /\ j # 0
        /\ Landed \/ UNCHANGED memory
        /\ jobs' = [jobs EXCEPT ![j] = Retried(@)]
        /\ worker' = [worker EXCEPT !.job = 0, !.content = Nothing,
                                    !.blocked = @ \cup {jobs[j].doc}]
        /\ UNCHANGED <<docs, ledger, crashes>>

\* Mutant: a running job stays running when the process starts again.
RecoveredNot(job) == job

\* The state of the jobs when the process has started again.
Recovered(job) ==
    IF job.status = "running"
    THEN [job EXCEPT !.status = "pending", !.due = job.attempts = 0]
    ELSE job

\* The process dies and starts again; a call in progress may have landed.
Restart ==
    /\ crashes < MaxCrashes
    /\ crashes' = crashes + 1
    /\ \/ UNCHANGED memory
       \/ worker.job # 0 /\ Landed
    /\ jobs' = [j \in DOMAIN jobs |-> Recovered(jobs[j])]
    /\ worker' = AtRest
    /\ UNCHANGED <<docs, ledger>>

(***************************************************************************)
(* The specification                                                       *)
(***************************************************************************)

DocumentStep == \E d \in Docs :
    \/ \E c \in Contents : Commit(d, c)
    \/ Trash(d) \/ Restore(d) \/ DeletePermanently(d)

DrainStep == \E j \in DOMAIN jobs :
    \/ SkipBlocked(j) \/ Supersede(j) \/ Wait(j)
    \/ IngestWithoutImport(j) \/ IngestBegin(j) \/ DeleteBegin(j)

Next ==
    \/ DocumentStep
    \/ DrainBegin
    \/ DrainStep
    \/ \E j \in DOMAIN jobs : Ripen(j)
    \/ Finish \/ Fail
    \/ Restart

\* The poll timer starts drains, a drain goes on to its end, calls return or
\* time out, and time passes.  Nothing obliges a call to succeed.
Fairness ==
    /\ WF_vars(DrainBegin)
    /\ WF_vars(DrainStep)
    /\ WF_vars(Finish \/ Fail)
    /\ \A j \in 1..MaxJobs : WF_vars(Ripen(j))

Spec == Init /\ [][Next]_vars /\ Fairness

(***************************************************************************)
(* Properties                                                              *)
(***************************************************************************)

JobsOf(d) == {j \in DOMAIN jobs : jobs[j].doc = d}
Done(j) == jobs[j].status \in {"completed", "failed"}
Settled(d) == \A j \in JobsOf(d) : Done(j)
LastOf(d) == CHOOSE j \in JobsOf(d) : \A i \in JobsOf(d) : i =< j

\* A job runs only after every earlier job of its document is done with, so
\* that an ingest never overtakes a deletion that waits to be retried
\* (section 2.5 of the development SOP), whatever fails, waits or restarts.
InOrder ==
    worker.job # 0 =>
        \A i \in JobsOf(jobs[worker.job].doc) :
            i < worker.job => Done(i)

\* Of a deleted document nothing remains once its jobs are done, unless a
\* deletion was given up after MaxAttempts: neither an import that was in
\* progress, nor a retry, nor a call repeated after a crash brings it back.
Forgotten ==
    \A d \in Docs :
        ~Live(d) /\ Settled(d)
            /\ (\A j \in JobsOf(d) : jobs[j].version = 0 => jobs[j].status # "failed")
        => memory[d] = Nothing

\* When the last job of a document imported its version, the memory service
\* holds what the document says, whatever was imported, failed, deleted or
\* repeated before.
ImportedIsCurrent ==
    \A d \in Docs :
        Live(d) /\ Settled(d) /\ jobs[LastOf(d)].result = "imported"
        => memory[d] = docs[d].content

\* Every job is completed or given up: none waits for ever behind another of
\* its document, and none is left running by a crash.
Drained ==
    \A j \in 1..MaxJobs :
        j \in DOMAIN jobs ~> \E d \in Docs : j \in JobsOf(d) /\ Done(j)
=============================================================================
