------------------------ MODULE DocumentOutboxProofs ------------------------
(***************************************************************************)
(* Theorems about DocumentOutbox, for any documents, contents and bounds:  *)
(* the jobs of a document run in their order, a deleted document is        *)
(* forgotten, and what was imported last is what the document says.        *)
(***************************************************************************)
EXTENDS DocumentOutbox, SequenceTheorems, TLAPS

Doc == [version : 0..MaxJobs, content : Contents \cup {Nothing},
        past : SUBSET Contents, used : SUBSET Contents, trashed : BOOLEAN]

Job == [doc : Docs, version : 0..MaxJobs, due : BOOLEAN,
        status : {"pending", "running", "completed", "failed"},
        attempts : 0..MaxAttempts,
        result : {"none", "superseded", "skipped", "deduped", "imported", "deleted"}]

IsLast(j, d) == j \in JobsOf(d) /\ \A i \in JobsOf(d) : i =< j

\* No counter passes its bound: a version has its job, and a job that may be
\* tried again has an attempt left; and what lives has a content.
Counted ==
    /\ Len(jobs) =< MaxJobs
    /\ \A d \in Docs : docs[d].version =< Len(jobs)
    /\ \A j \in DOMAIN jobs : ~Done(j) => jobs[j].attempts < MaxAttempts
    /\ \A d \in Docs : Live(d) => docs[d].content \in Contents

\* The running row is the job in progress, which imports unless it deletes.
Claimed ==
    /\ \A j \in DOMAIN jobs : jobs[j].status = "running" <=> j = worker.job
    /\ worker.job # 0 => /\ worker.job \in DOMAIN jobs
                         /\ worker.content = Nothing <=> jobs[worker.job].version = 0

\* What a queued job still has before it is queued, in progress, or blocks it.
Snapshot ==
    /\ worker.todo \subseteq Pending
    /\ \A j \in worker.todo : \A i \in JobsOf(jobs[j].doc) :
          i < j /\ ~Done(i) =>
              i \in worker.todo \/ i = worker.job \/ jobs[j].doc \in worker.blocked

\* The jobs of a document that are done with are its first ones.
Prefix ==
    \A d \in Docs : \A i, j \in JobsOf(d) : i < j /\ Done(j) => Done(i)

\* The last job of a document announces the version it has, 0 when deleted.
Announcing ==
    \A d \in Docs : Live(d) \/ JobsOf(d) # {} =>
        \E j \in JobsOf(d) : IsLast(j, d) /\ jobs[j].version = docs[d].version

\* An import of the last version is of the content the document still has.
Importing ==
    \A d \in Docs : IsLast(worker.job, d) /\ Live(d) => worker.content = docs[d].content

\* An import that is the last job has left its content.
Imported ==
    \A j \in DOMAIN jobs : jobs[j].result = "imported" =>
        /\ jobs[j].status = "completed" /\ jobs[j].version > 0
        /\ IsLast(j, jobs[j].doc) => memory[jobs[j].doc] = docs[jobs[j].doc].content

\* What is remembered was imported by a job that no completed deletion follows.
Remembered ==
    \A d \in Docs : memory[d] # Nothing =>
        \E j \in JobsOf(d) :
            /\ jobs[j].version > 0
            /\ \A k \in JobsOf(d) :
                  j < k /\ jobs[k].version = 0 => jobs[k].status # "completed"

Ordered == Claimed /\ Snapshot /\ Prefix /\ InOrder
Effects == Announcing /\ Importing /\ Imported /\ Remembered
IInv == TypeOK /\ Counted /\ Ordered /\ Effects

(***************************************************************************)
(* The rows of the outbox                                                  *)
(***************************************************************************)

LEMMA Rows ==
    ASSUME TypeOK
    PROVE  /\ jobs \in Seq(Job) /\ Len(jobs) \in Nat /\ DOMAIN jobs = 1..Len(jobs)
           /\ \A j \in DOMAIN jobs : jobs[j] \in Job
<1>1. jobs \in Seq(Job)
  BY DEF TypeOK, Job
<1>2. QED BY <1>1, LenProperties, ElementOfSeq

LEMMA NoJob ==
    ASSUME TypeOK
    PROVE  0 \notin DOMAIN jobs
BY Rows

\* One row is replaced by another of the same document and version.
Replaced(j, r) ==
    /\ jobs' \in Seq(Job) /\ Len(jobs') = Len(jobs) /\ DOMAIN jobs' = DOMAIN jobs
    /\ jobs'[j] = r
    /\ \A i \in DOMAIN jobs : i # j => jobs'[i] = jobs[i]
    /\ r.doc = jobs[j].doc /\ r.version = jobs[j].version

LEMMA Replace ==
    ASSUME TypeOK, NEW j \in DOMAIN jobs, NEW r \in Job, jobs' = [jobs EXCEPT ![j] = r],
           r.doc = jobs[j].doc, r.version = jobs[j].version
    PROVE  Replaced(j, r)
<1>1. jobs \in Seq(Job) /\ j \in 1..Len(jobs) /\ DOMAIN jobs = 1..Len(jobs)
  BY Rows
<1>2. jobs' \in Seq(Job) /\ Len(jobs') = Len(jobs)
  BY <1>1, ExceptSeq
<1>3. DOMAIN jobs' = DOMAIN jobs /\ jobs'[j] = r
      /\ \A i \in DOMAIN jobs : i # j => jobs'[i] = jobs[i]
  BY <1>1
<1>4. QED BY <1>2, <1>3 DEF Replaced

\* The rows keep their documents and versions.
SameKeys ==
    /\ DOMAIN jobs' = DOMAIN jobs
    /\ \A i \in DOMAIN jobs : jobs'[i].doc = jobs[i].doc /\ jobs'[i].version = jobs[i].version

LEMMA SameJobs ==
    ASSUME SameKeys
    PROVE  /\ \A d : JobsOf(d)' = JobsOf(d)
           /\ \A i, d : IsLast(i, d)' <=> IsLast(i, d)
<1>1. \A d : JobsOf(d)' = JobsOf(d)
  BY DEF SameKeys, JobsOf
<1>2. QED BY <1>1 DEF IsLast

LEMMA ReplacedKeys ==
    ASSUME NEW j \in DOMAIN jobs, NEW r, Replaced(j, r)
    PROVE  SameKeys
BY DEF Replaced, SameKeys

\* A job that is done with before its turn would break the order: none is.
LEMMA SamePrefix ==
    ASSUME SameKeys, Prefix,
           \A i \in DOMAIN jobs : Done(i) => Done(i)',
           \A d \in Docs : \A i, j \in JobsOf(d) : i < j /\ Done(j)' /\ ~Done(j) => Done(i)
    PROVE  Prefix'
<1> SUFFICES ASSUME NEW d \in Docs, NEW i \in JobsOf(d), NEW j \in JobsOf(d), i < j, Done(j)'
             PROVE  Done(i)'
  BY SameJobs DEF Prefix
<1>1. Done(i)
  BY DEF Prefix
<1>2. QED BY <1>1 DEF JobsOf

\* The job at the head of the drain, unless it is blocked, has its turn.
LEMMA Turn ==
    ASSUME IInv, NEW j \in DOMAIN jobs, AtHead(j), ~Blocked(j)
    PROVE  \A i \in JobsOf(jobs[j].doc) : i < j => Done(i)
<1> SUFFICES ASSUME NEW i \in JobsOf(jobs[j].doc), i < j, ~Done(i)
             PROVE  FALSE
  OBVIOUS
<1>1. i \in DOMAIN jobs /\ i # 0 /\ i \in Nat /\ j \in Nat
  BY Rows DEF IInv, JobsOf
<1>2. i \in worker.todo
  BY <1>1 DEF IInv, Ordered, Snapshot, AtHead, Blocked
<1>3. QED BY <1>1, <1>2 DEF AtHead

\* What an action that touches neither documents nor keys has to show.
SameDocs == \A d \in Docs : /\ docs'[d].version = docs[d].version
                            /\ docs'[d].content = docs[d].content

LEMMA SameAnnouncing ==
    ASSUME IInv, SameKeys, SameDocs
    PROVE  Announcing'
<1> SUFFICES ASSUME NEW d \in Docs, Live(d)' \/ JobsOf(d)' # {}
             PROVE  \E j \in JobsOf(d)' : IsLast(j, d)' /\ jobs'[j].version = docs'[d].version
  BY DEF Announcing
<1>1. Live(d) \/ JobsOf(d) # {}
  BY SameJobs DEF SameDocs, Live
<1>2. PICK j \in JobsOf(d) : IsLast(j, d) /\ jobs[j].version = docs[d].version
  BY <1>1 DEF IInv, Effects, Announcing
<1>3. QED BY <1>2, SameJobs DEF SameDocs, SameKeys, JobsOf

(***************************************************************************)
(* The documents                                                           *)
(***************************************************************************)

LEMMA InitHolds ==
    ASSUME Init
    PROVE  IInv
<1>1. jobs = << >> /\ DOMAIN jobs = {} /\ Len(jobs) = 0
  BY DEF Init
<1>2. \A d : JobsOf(d) = {}
  BY <1>1 DEF JobsOf
<1>3. TypeOK
  BY <1>1, OutboxAssumption DEF Init, TypeOK, NoDoc, AtRest
<1>4. Counted
  BY <1>1, OutboxAssumption DEF Init, Counted, NoDoc, Live
<1>5. Ordered
  BY <1>1, <1>2 DEF Init, Ordered, Claimed, Snapshot, Prefix, InOrder, AtRest
<1>6. Effects
  BY <1>1, <1>2 DEF Init, Effects, Announcing, Importing, Imported, Remembered, Live, NoDoc,
                    IsLast
<1>7. QED BY <1>3, <1>4, <1>5, <1>6 DEF IInv

LEMMA TrashedOnly ==
    ASSUME TypeOK, NEW d \in Docs, NEW b \in BOOLEAN, docs' = [docs EXCEPT ![d].trashed = b]
    PROVE  docs' \in [Docs -> Doc] /\ SameDocs
<1>1. docs \in [Docs -> Doc] /\ docs[d] \in Doc
  BY DEF TypeOK, Doc
<1> DEFINE r == [docs[d] EXCEPT !.trashed = b]
<1>2. r \in Doc /\ r.version = docs[d].version /\ r.content = docs[d].content
  BY <1>1 DEF Doc
<1>3. docs' = [docs EXCEPT ![d] = r]
  OBVIOUS
<1> HIDE DEF r
<1>4. QED BY <1>1, <1>2, <1>3 DEF SameDocs

\* A document goes to the trash or comes back.
LEMMA TrashKeeps ==
    ASSUME IInv, NEW d \in Docs, Trash(d) \/ Restore(d)
    PROVE  IInv'
<1>1. UNCHANGED <<jobs, ledger, memory, worker, crashes>>
  BY DEF Trash, Restore
<1>2. PICK b \in BOOLEAN : docs' = [docs EXCEPT ![d].trashed = b]
  BY DEF Trash, Restore
<1>3. docs' \in [Docs -> Doc] /\ SameDocs
  BY <1>2, TrashedOnly DEF IInv
<1>4. TypeOK'
  BY <1>1, <1>3 DEF IInv, TypeOK, Doc
<1>5. SameKeys
  BY <1>1 DEF SameKeys
<1>6. Counted'
  BY <1>1, <1>3 DEF IInv, Counted, SameDocs, Live, Done
<1>7. Ordered'
  BY <1>1 DEF IInv, Ordered, Claimed, Snapshot, Prefix, InOrder, Pending, JobsOf, Done
<1>8. Announcing'
  BY <1>3, <1>5, SameAnnouncing
<1>9. Importing'
  BY <1>1, <1>3 DEF IInv, Effects, Importing, IsLast, JobsOf, Live, SameDocs
<1>10. Imported'
  <2> SUFFICES ASSUME NEW j \in DOMAIN jobs, jobs[j].result = "imported"
               PROVE  /\ jobs[j].status = "completed" /\ jobs[j].version > 0
                      /\ IsLast(j, jobs[j].doc) =>
                            memory[jobs[j].doc] = docs'[jobs[j].doc].content
    BY <1>1 DEF Imported, IsLast, JobsOf
  <2>1. jobs[j].doc \in Docs
    BY Rows DEF IInv, Job
  <2>2. QED BY <1>3, <2>1 DEF IInv, Effects, Imported, SameDocs
<1>11. Remembered'
  BY <1>1 DEF IInv, Effects, Remembered, JobsOf
<1>12. QED BY <1>4, <1>6, <1>7, <1>8, <1>9, <1>10, <1>11 DEF IInv, Effects

\* A job for version v of d has been added behind all others.
Added(d, v, n) ==
    /\ jobs' \in Seq(Job) /\ Len(jobs') = n /\ n = Len(jobs) + 1 /\ n =< MaxJobs
    /\ DOMAIN jobs' = DOMAIN jobs \cup {n} /\ n \notin DOMAIN jobs
    /\ \A i \in DOMAIN jobs : i \in Nat /\ i < n /\ jobs'[i] = jobs[i]
    /\ jobs'[n].doc = d /\ jobs'[n].version = v /\ jobs'[n].status = "pending"
    /\ jobs'[n].attempts = 0 /\ jobs'[n].result = "none"

LEMMA EnqueueAdds ==
    ASSUME TypeOK, NEW d \in Docs, NEW v \in 0..MaxJobs, Enqueue(d, v)
    PROVE  \E n \in Nat : Added(d, v, n)
<1> DEFINE row == [doc |-> d, version |-> v, due |-> v = 0, status |-> "pending",
                   attempts |-> 0, result |-> "none"]
           n == Len(jobs) + 1
<1>1. row \in Job
  BY OutboxAssumption DEF Job
<1>2. row.doc = d /\ row.version = v /\ row.status = "pending" /\ row.attempts = 0
      /\ row.result = "none"
  OBVIOUS
<1>3. jobs' = Append(jobs, row) /\ Len(jobs) < MaxJobs
  BY DEF Enqueue
<1> HIDE DEF row
<1>4. jobs \in Seq(Job) /\ Len(jobs) \in Nat /\ DOMAIN jobs = 1..Len(jobs)
  BY Rows
<1>5. jobs' \in Seq(Job) /\ Len(jobs') = n /\ jobs'[n] = row
      /\ \A i \in 1..Len(jobs) : jobs'[i] = jobs[i]
  BY <1>1, <1>3, <1>4, AppendProperties
<1>6. DOMAIN jobs' = 1..n
  BY <1>5, LenProperties
<1>7. QED BY <1>2, <1>3, <1>4, <1>5, <1>6, OutboxAssumption DEF Added

\* A document has a next version, or none any more, and a job that says so.
LEMMA AddedKeeps ==
    ASSUME IInv, NEW d \in Docs, NEW v \in Nat, NEW n \in Nat, Added(d, v, n), v =< n,
           docs' \in [Docs -> Doc], docs'[d].version = v,
           v > 0 => docs'[d].content \in Contents,
           \A e \in Docs : e # d => docs'[e] = docs[e],
           UNCHANGED <<ledger, memory, worker, crashes>>
    PROVE  IInv'
<1> USE DEF Added
<1>1. TypeOK'
  BY DEF IInv, TypeOK, Job, Doc
<1>2. Counted'
  <2>1. \A e \in Docs : docs'[e].version =< Len(jobs')
    <3> SUFFICES ASSUME NEW e \in Docs
                 PROVE  docs'[e].version =< n
      OBVIOUS
    <3>1. CASE e = d
      BY <3>1
    <3>2. CASE e # d
      <4>1. docs[e].version \in Nat /\ docs[e].version =< Len(jobs) /\ Len(jobs) \in Nat
        BY Rows, OutboxAssumption DEF IInv, TypeOK, Counted
      <4>2. QED BY <3>2, <4>1
    <3>3. QED BY <3>1, <3>2
  <2>2. \A j \in DOMAIN jobs' : ~Done(j)' => jobs'[j].attempts < MaxAttempts
    BY OutboxAssumption DEF IInv, Counted, Done
  <2>3. \A e \in Docs : Live(e)' => docs'[e].content \in Contents
    BY DEF IInv, Counted, Live
  <2>4. QED BY <2>1, <2>2, <2>3 DEF Counted
<1>3. worker.job # n /\ n \notin worker.todo /\ worker.job \in Nat /\ n # 0
  BY Rows, OutboxAssumption DEF IInv, Ordered, Claimed, Snapshot, Pending, TypeOK
<1>4. \A e : JobsOf(e)' = IF e = d THEN JobsOf(e) \cup {n} ELSE JobsOf(e)
  BY DEF JobsOf
<1>5. \A i \in DOMAIN jobs : (Done(i)' <=> Done(i)) /\ i < n /\ i \in Nat
  BY DEF Done
<1>6. ~Done(n)'
  BY DEF Done
<1>7. \A e : \A i \in JobsOf(e) : i \in DOMAIN jobs
  BY DEF JobsOf
<1>8. Claimed'
  BY <1>3 DEF IInv, Ordered, Claimed
<1>9. Snapshot'
  <2>1. worker.todo \subseteq Pending'
    BY DEF IInv, Ordered, Snapshot, Pending
  <2> SUFFICES ASSUME NEW j \in worker.todo, NEW i \in JobsOf(jobs[j].doc)', i < j, ~Done(i)'
               PROVE  i \in worker.todo \/ i = worker.job \/ jobs'[j].doc \in worker.blocked
    BY <2>1 DEF Snapshot
  <2>2. j \in DOMAIN jobs
    BY DEF IInv, Ordered, Snapshot, Pending
  <2>3. jobs'[j].doc = jobs[j].doc /\ i # n
    BY <1>5, <2>2
  <2>4. i \in JobsOf(jobs[j].doc) /\ ~Done(i)
    BY <2>3, <1>4, <1>5, <1>7
  <2>5. QED BY <2>2, <2>3, <2>4 DEF IInv, Ordered, Snapshot
<1>10. Prefix'
  <2> SUFFICES ASSUME NEW e \in Docs, NEW i \in JobsOf(e)', NEW j \in JobsOf(e)',
                      i < j, Done(j)'
               PROVE  Done(i)'
    BY DEF Prefix
  <2>1. j \in JobsOf(e) /\ j < n /\ j \in Nat
    BY <1>4, <1>5, <1>6, <1>7
  <2>2. i \in JobsOf(e)
    BY <2>1, <1>4
  <2>3. QED BY <2>1, <2>2, <1>5, <1>7 DEF IInv, Ordered, Prefix
<1>11. InOrder'
  <2> SUFFICES ASSUME worker.job # 0, NEW i \in JobsOf(jobs[worker.job].doc)', i < worker.job
               PROVE  Done(i)'
    BY DEF InOrder
  <2>1. worker.job \in DOMAIN jobs
    BY DEF IInv, Ordered, Claimed
  <2>2. jobs'[worker.job].doc = jobs[worker.job].doc /\ i # n
    BY <2>1, <1>5
  <2>3. i \in JobsOf(jobs[worker.job].doc)
    BY <2>2, <1>4
  <2>4. QED BY <2>3, <1>5, <1>7 DEF IInv, Ordered, InOrder
<1>12. \A e \in Docs : e # d => \A i : IsLast(i, e)' <=> IsLast(i, e)
  BY <1>4 DEF IsLast
<1>13. IsLast(n, d)' /\ \A i : IsLast(i, d)' => i = n
  BY <1>4, <1>5, <1>7 DEF IsLast
<1>14. Announcing'
  <2> SUFFICES ASSUME NEW e \in Docs, Live(e)' \/ JobsOf(e)' # {}
               PROVE  \E j \in JobsOf(e)' : IsLast(j, e)' /\ jobs'[j].version = docs'[e].version
    BY DEF Announcing
  <2>1. CASE e = d
    BY <2>1, <1>4, <1>13
  <2>2. CASE e # d
    <3>1. Live(e) \/ JobsOf(e) # {}
      BY <2>2, <1>4 DEF Live
    <3>2. PICK j \in JobsOf(e) : IsLast(j, e) /\ jobs[j].version = docs[e].version
      BY <3>1 DEF IInv, Effects, Announcing
    <3>3. QED BY <2>2, <3>2, <1>4, <1>7, <1>12
  <2>3. QED BY <2>1, <2>2
<1>15. Importing'
  <2> SUFFICES ASSUME NEW e \in Docs, IsLast(worker.job, e)', Live(e)'
               PROVE  worker.content = docs'[e].content
    BY DEF Importing
  <2>1. e # d
    BY <1>3, <1>13
  <2>2. QED BY <2>1, <1>12 DEF IInv, Effects, Importing, Live
<1>16. Imported'
  <2> SUFFICES ASSUME NEW j \in DOMAIN jobs', jobs'[j].result = "imported"
               PROVE  /\ jobs'[j].status = "completed" /\ jobs'[j].version > 0
                      /\ IsLast(j, jobs[j].doc)' =>
                            memory[jobs'[j].doc] = docs'[jobs'[j].doc].content
    BY DEF Imported
  <2>1. j \in DOMAIN jobs /\ j # n /\ jobs'[j] = jobs[j]
    OBVIOUS
  <2>2. jobs[j].doc \in Docs
    BY <2>1, Rows DEF IInv, Job
  <2>3. IsLast(j, jobs[j].doc)' => jobs[j].doc # d /\ IsLast(j, jobs[j].doc)
    BY <2>1, <2>2, <1>12, <1>13
  <2>4. QED BY <2>1, <2>2, <2>3, <1>12 DEF IInv, Effects, Imported
<1>17. Remembered'
  <2> SUFFICES ASSUME NEW e \in Docs, memory[e] # Nothing
               PROVE  \E j \in JobsOf(e)' :
                         /\ jobs'[j].version > 0
                         /\ \A k \in JobsOf(e)' :
                               j < k /\ jobs'[k].version = 0 => jobs'[k].status # "completed"
    BY DEF Remembered
  <2>1. PICK j \in JobsOf(e) :
           /\ jobs[j].version > 0
           /\ \A k \in JobsOf(e) :
                 j < k /\ jobs[k].version = 0 => jobs[k].status # "completed"
    BY DEF IInv, Effects, Remembered
  <2>2. QED BY <2>1, <1>4, <1>7
<1>18. QED
  BY <1>1, <1>2, <1>8, <1>9, <1>10, <1>11, <1>14, <1>15, <1>16, <1>17 DEF IInv, Ordered, Effects

Revised(x, v, c) ==
    [x EXCEPT !.version = v, !.content = c, !.past = @ \cup {c}, !.used = @ \cup {c}]

LEMMA RevisedDoc ==
    ASSUME NEW x \in Doc, NEW v \in 0..MaxJobs, NEW c \in Contents
    PROVE  /\ Revised(x, v, c) \in Doc
           /\ Revised(x, v, c).version = v /\ Revised(x, v, c).content = c
<1>1. x.past \cup {c} \in SUBSET Contents /\ x.used \cup {c} \in SUBSET Contents
  BY DEF Doc
<1>2. QED BY <1>1 DEF Doc, Revised

LEMMA CommitKeeps ==
    ASSUME IInv, NEW d \in Docs, NEW c \in Contents, Commit(d, c)
    PROVE  IInv'
<1> DEFINE v == docs[d].version + 1
           r == Revised(docs[d], v, c)
<1>1. docs \in [Docs -> Doc] /\ docs[d] \in Doc /\ docs[d].version =< Len(jobs)
  BY DEF IInv, TypeOK, Doc, Counted
<1>2. Len(jobs) < MaxJobs /\ Len(jobs) \in Nat /\ Enqueue(d, v)
  BY Rows DEF IInv, Commit, Enqueue
<1>3. v \in 1..MaxJobs /\ v =< Len(jobs) + 1
  BY <1>1, <1>2, OutboxAssumption DEF Doc
<1>4. docs' = [docs EXCEPT ![d] = r] /\ UNCHANGED <<ledger, memory, worker, crashes>>
  BY DEF Commit, Revised
<1>5. r \in Doc /\ r.version = v /\ r.content = c
  <2>1. v \in 0..MaxJobs
    BY <1>3, OutboxAssumption
  <2> HIDE DEF v
  <2>2. QED BY <1>1, <2>1, RevisedDoc
<1>6. PICK n \in Nat : Added(d, v, n)
  BY <1>2, <1>3, EnqueueAdds DEF IInv
<1> HIDE DEF r, v
<1>7. docs' \in [Docs -> Doc] /\ docs'[d] = r /\ \A e \in Docs : e # d => docs'[e] = docs[e]
  BY <1>1, <1>4, <1>5
<1>8. v \in Nat /\ v =< n
  BY <1>3, <1>6 DEF Added
<1>9. QED BY <1>4, <1>5, <1>6, <1>7, <1>8, AddedKeeps

LEMMA DeleteKeeps ==
    ASSUME IInv, NEW d \in Docs, DeletePermanently(d)
    PROVE  IInv'
<1> DEFINE r == NoDoc(docs[d].used)
<1>1. docs \in [Docs -> Doc] /\ docs[d] \in Doc
  BY DEF IInv, TypeOK, Doc
<1>2. r \in Doc /\ r.version = 0
  BY <1>1, OutboxAssumption DEF NoDoc, Doc
<1>3. docs' = [docs EXCEPT ![d] = r] /\ UNCHANGED <<ledger, memory, worker, crashes>>
      /\ Enqueue(d, 0)
  BY DEF DeletePermanently
<1>4. PICK n \in Nat : Added(d, 0, n)
  BY <1>3, EnqueueAdds, OutboxAssumption DEF IInv
<1> HIDE DEF r
<1>5. docs' \in [Docs -> Doc] /\ docs'[d] = r /\ \A e \in Docs : e # d => docs'[e] = docs[e]
  BY <1>1, <1>2, <1>3
<1>6. QED BY <1>2, <1>3, <1>4, <1>5, AddedKeeps

(***************************************************************************)
(* What the memory service remembers                                       *)
(***************************************************************************)

\* The facts about the job in progress.
LEMMA InProgress ==
    ASSUME IInv, worker.job # 0
    PROVE  /\ worker.job \in DOMAIN jobs /\ worker.job \in Nat /\ jobs[worker.job] \in Job
           /\ jobs[worker.job].status = "running" /\ jobs[worker.job].result # "imported"
           /\ \A k \in JobsOf(jobs[worker.job].doc) :
                  k > worker.job => ~Done(k) /\ k \notin {worker.job} /\ jobs[k].status # "completed"
           /\ \A k \in JobsOf(jobs[worker.job].doc) : k < worker.job => Done(k)
<1> DEFINE j == worker.job
           d == jobs[j].doc
<1>1. j \in DOMAIN jobs /\ jobs[j].status = "running"
  BY DEF IInv, Ordered, Claimed
<1>2. jobs[j] \in Job /\ j \in Nat /\ d \in Docs /\ j \in JobsOf(d)
  BY <1>1, Rows DEF IInv, Job, JobsOf
<1>3. jobs[j].result # "imported"
  BY <1>1 DEF IInv, Effects, Imported
<1>4. ASSUME NEW k \in JobsOf(d), k > j
      PROVE  ~Done(k) /\ k \notin {j} /\ jobs[k].status # "completed"
  <2>1. k \in Nat /\ j < k
    BY <1>2, <1>4, Rows DEF IInv, JobsOf
  <2>2. ~Done(j)
    BY <1>1 DEF Done
  <2>3. ~Done(k)
    BY <1>2, <2>1, <2>2 DEF IInv, Ordered, Prefix
  <2>4. QED BY <1>2, <2>1, <2>3 DEF Done
<1>5. \A k \in JobsOf(d) : k < j => Done(k)
  BY DEF IInv, Ordered, InOrder
<1>6. QED BY <1>1, <1>2, <1>3, <1>4, <1>5

\* Wherever the call lands, no completed deletion follows, and no import that
\* is the last of its document is undone.
LEMMA LandedKeeps ==
    ASSUME IInv, worker.job # 0, Landed
    PROVE  /\ memory' \in [Docs -> Contents \cup {Nothing}]
           /\ memory'[jobs[worker.job].doc] = worker.content
           /\ \A e \in Docs : e # jobs[worker.job].doc => memory'[e] = memory[e]
           /\ \A k \in DOMAIN jobs :
                  jobs[k].result = "imported" /\ IsLast(k, jobs[k].doc)
                  => memory'[jobs[k].doc] = memory[jobs[k].doc]
<1> DEFINE j == worker.job
           d == jobs[j].doc
<1>1. d \in Docs /\ memory' = [memory EXCEPT ![d] = worker.content]
  BY InProgress DEF Landed, Job
<1>2. /\ memory' \in [Docs -> Contents \cup {Nothing}]
      /\ memory'[d] = worker.content
      /\ \A e \in Docs : e # d => memory'[e] = memory[e]
  <2> HIDE DEF d
  <2>1. QED BY <1>1 DEF IInv, TypeOK
<1>3. ASSUME NEW k \in DOMAIN jobs, jobs[k].result = "imported", IsLast(k, jobs[k].doc)
      PROVE  jobs[k].doc \in Docs /\ jobs[k].doc # d
  <2>1. jobs[k].doc \in Docs /\ k \in Nat
    BY Rows DEF IInv, Job
  <2>2. k # j /\ jobs[k].status = "completed"
    BY <1>3, InProgress DEF IInv, Effects, Imported
  <2>3. SUFFICES ASSUME jobs[k].doc = d
                 PROVE  FALSE
    BY <2>1
  <2>4. j \in JobsOf(d) /\ j \in Nat
    BY InProgress DEF JobsOf
  <2>5. j < k /\ k \in JobsOf(d)
    BY <1>3, <2>1, <2>2, <2>3, <2>4 DEF IsLast
  <2>6. QED BY <2>2, <2>5, <2>1, <2>4, InProgress
<1>4. QED BY <1>2, <1>3

\* The memory service remembers after a step that completes no deletion, or
\* completes the one that has landed.
LEMMA StillRemembered ==
    ASSUME IInv, SameKeys, memory' = memory \/ (worker.job # 0 /\ Landed),
           \A k \in DOMAIN jobs :
              jobs[k].version = 0 /\ jobs'[k].status = "completed" =>
                  jobs[k].status = "completed" \/ (k = worker.job /\ Landed)
    PROVE  Remembered'
<1> SUFFICES ASSUME NEW e \in Docs, memory'[e] # Nothing
             PROVE  \E j \in JobsOf(e) :
                       /\ jobs[j].version > 0
                       /\ \A k \in JobsOf(e) :
                             j < k /\ jobs[k].version = 0 => jobs'[k].status # "completed"
  BY SameJobs DEF Remembered, SameKeys, JobsOf
<1>1. CASE worker.job # 0 /\ Landed /\ e = jobs[worker.job].doc
  <2> DEFINE j == worker.job
  <2>1. j \in JobsOf(e) /\ j \in DOMAIN jobs
    BY <1>1, InProgress DEF JobsOf
  <2>2. worker.content # Nothing
    BY <1>1, LandedKeeps
  <2>3. jobs[j].version > 0
    BY <1>1, <2>1, <2>2, InProgress, OutboxAssumption DEF IInv, Ordered, Claimed, Job
  <2>4. ASSUME NEW k \in JobsOf(e), j < k, jobs[k].version = 0
        PROVE  jobs'[k].status # "completed"
    <3>1. k \in DOMAIN jobs /\ k \in Nat /\ j \in Nat
      BY <1>1, InProgress, Rows DEF IInv, JobsOf
    <3>2. k # j /\ jobs[k].status # "completed"
      BY <1>1, <2>4, <3>1, InProgress
    <3>3. QED BY <2>4, <3>1, <3>2
  <2>5. QED BY <2>1, <2>3, <2>4
<1>2. CASE ~(worker.job # 0 /\ Landed /\ e = jobs[worker.job].doc)
  <2>1. memory'[e] = memory[e]
    BY <1>2, LandedKeeps
  <2>2. PICK j \in JobsOf(e) :
           /\ jobs[j].version > 0
           /\ \A k \in JobsOf(e) :
                 j < k /\ jobs[k].version = 0 => jobs[k].status # "completed"
    BY <2>1 DEF IInv, Effects, Remembered
  <2>3. ASSUME NEW k \in JobsOf(e), j < k, jobs[k].version = 0
        PROVE  jobs'[k].status # "completed"
    <3>1. k \in DOMAIN jobs /\ jobs[k].doc = e /\ k # 0
      BY NoJob DEF IInv, JobsOf
    <3>2. QED BY <1>2, <2>2, <2>3, <3>1
  <2>4. QED BY <2>2, <2>3
<1>3. QED BY <1>1, <1>2

(***************************************************************************)
(* The drain up to the call                                                *)
(***************************************************************************)

Worker == [todo : SUBSET (1..MaxJobs), announced : [Docs -> SUBSET (1..MaxJobs)],
           blocked : SUBSET Docs, job : 0..MaxJobs, content : Contents \cup {Nothing}]

\* The row of a job that becomes due, is claimed or is completed.
Ripened(x) == [x EXCEPT !.due = TRUE]
Running(x) == [x EXCEPT !.status = "running"]
Completed(x, result) == [x EXCEPT !.status = "completed", !.result = result]

Outcomes == {"superseded", "skipped", "deduped", "imported", "deleted"}

LEMMA RowFields ==
    ASSUME NEW x \in Job
    PROVE  /\ Ripened(x) \in Job /\ Running(x) \in Job
           /\ Ripened(x).doc = x.doc /\ Ripened(x).version = x.version
           /\ Ripened(x).status = x.status /\ Ripened(x).attempts = x.attempts
           /\ Ripened(x).result = x.result
           /\ Running(x).doc = x.doc /\ Running(x).version = x.version
           /\ Running(x).status = "running" /\ Running(x).attempts = x.attempts
           /\ Running(x).result = x.result
BY DEF Job, Ripened, Running

LEMMA CompletedFields ==
    ASSUME NEW x \in Job, NEW result \in Outcomes
    PROVE  /\ Completed(x, result) \in Job
           /\ Completed(x, result).doc = x.doc /\ Completed(x, result).version = x.version
           /\ Completed(x, result).status = "completed"
           /\ Completed(x, result).result = result
BY DEF Job, Completed, Outcomes

\* A job becomes due.
LEMMA RipenKeeps ==
    ASSUME IInv, NEW j \in DOMAIN jobs, Ripen(j)
    PROVE  IInv'
<1> DEFINE r == Ripened(jobs[j])
<1>1. jobs[j] \in Job
  BY Rows DEF IInv
<1>2. jobs' = [jobs EXCEPT ![j] = r] /\ UNCHANGED <<docs, ledger, memory, worker, crashes>>
  BY DEF Ripen, Ripened
<1>3. r \in Job /\ r.doc = jobs[j].doc /\ r.version = jobs[j].version
      /\ r.status = jobs[j].status /\ r.attempts = jobs[j].attempts /\ r.result = jobs[j].result
  BY <1>1, RowFields
<1> HIDE DEF r
<1>4. Replaced(j, r)
  BY <1>2, <1>3, Replace DEF IInv
<1>5. SameKeys
  BY <1>4, ReplacedKeys
<1>6. \A i \in DOMAIN jobs : /\ jobs'[i].status = jobs[i].status
                             /\ jobs'[i].attempts = jobs[i].attempts
                             /\ jobs'[i].result = jobs[i].result
                             /\ jobs'[i].doc = jobs[i].doc
                             /\ jobs'[i].version = jobs[i].version
  BY <1>3, <1>4 DEF Replaced
<1>7. DOMAIN jobs' = DOMAIN jobs /\ Len(jobs') = Len(jobs) /\ jobs' \in Seq(Job)
  BY <1>4 DEF Replaced
<1>8. TypeOK'
  BY <1>2, <1>7 DEF IInv, TypeOK, Job
<1>9. Counted'
  BY <1>2, <1>6, <1>7 DEF IInv, Counted, Done, Live
<1>10. \A d : JobsOf(d)' = JobsOf(d)
  BY <1>5, SameJobs
<1>11. \A d : \A i \in JobsOf(d) : Done(i)' <=> Done(i)
  BY <1>6 DEF JobsOf, Done
<1>12. Claimed'
  BY <1>2, <1>6, <1>7 DEF IInv, Ordered, Claimed
<1>13. Snapshot'
  <2>1. Pending' = Pending
    BY <1>6, <1>7 DEF Pending
  <2>2. \A i \in worker.todo : jobs'[i].doc = jobs[i].doc
    BY <1>6 DEF IInv, Ordered, Snapshot, Pending
  <2>3. QED BY <1>2, <1>10, <1>11, <2>1, <2>2 DEF IInv, Ordered, Snapshot
<1>14. Prefix' /\ InOrder'
  <2>1. Prefix'
    BY <1>10, <1>11 DEF IInv, Ordered, Prefix
  <2>2. worker.job # 0 => worker.job \in DOMAIN jobs
    BY DEF IInv, Ordered, Claimed
  <2>3. InOrder'
    BY <1>2, <1>6, <1>10, <1>11, <2>2 DEF IInv, Ordered, InOrder
  <2>4. QED BY <2>1, <2>3
<1>15. Announcing'
  BY <1>2, <1>5, SameAnnouncing DEF SameDocs
<1>16. Importing'
  BY <1>2, <1>5, SameJobs DEF IInv, Effects, Importing, Live
<1>17. Imported'
  BY <1>2, <1>5, <1>6, <1>7, SameJobs DEF IInv, Effects, Imported
<1>18. Remembered'
  <2>1. \A d : \A i \in JobsOf(d) : jobs'[i].version = jobs[i].version
                                  /\ jobs'[i].status = jobs[i].status
    BY <1>6 DEF JobsOf
  <2>2. QED BY <1>2, <1>10, <2>1 DEF IInv, Effects, Remembered
<1>19. QED
  BY <1>8, <1>9, <1>12, <1>13, <1>14, <1>15, <1>16, <1>17, <1>18 DEF IInv, Ordered, Effects

\* A worker that calls nobody changes its plans only.
LEMMA PlanKeeps ==
    ASSUME IInv, worker.job = 0, worker' \in Worker, worker'.job = 0, Snapshot',
           UNCHANGED <<docs, jobs, ledger, memory, crashes>>
    PROVE  IInv'
<1>1. TypeOK'
  BY DEF IInv, TypeOK, Worker
<1>2. Counted'
  BY DEF IInv, Counted, Done, Live
<1>3. Claimed'
  BY DEF IInv, Ordered, Claimed
<1>4. Prefix' /\ InOrder'
  BY DEF IInv, Ordered, Prefix, InOrder, JobsOf, Done
<1>5. SameKeys /\ SameDocs
  BY DEF SameKeys, SameDocs
<1>6. Announcing'
  BY <1>5, SameAnnouncing
<1>7. Importing'
  BY NoJob DEF IInv, Importing, IsLast, JobsOf
<1>8. Imported'
  BY <1>5, SameJobs DEF IInv, Effects, Imported
<1>9. Remembered'
  BY DEF IInv, Effects, Remembered, JobsOf
<1>10. QED BY <1>1, <1>2, <1>3, <1>4, <1>6, <1>7, <1>8, <1>9 DEF IInv, Ordered, Effects

LEMMA DrainBeginKeeps ==
    ASSUME IInv, DrainBegin
    PROVE  IInv'
<1> DEFINE A == [d \in Docs |-> Announced(d)]
<1>1. A \in [Docs -> SUBSET (1..MaxJobs)] /\ Pending \subseteq 1..MaxJobs
  <2>1. \A i \in DOMAIN jobs : i \in 1..Len(jobs) /\ jobs[i].version \in 0..MaxJobs
    BY Rows DEF IInv, Job
  <2>2. Len(jobs) \in Nat /\ Len(jobs) =< MaxJobs
    BY Rows DEF IInv, Counted
  <2>3. QED BY <2>1, <2>2, OutboxAssumption DEF Announced, Pending
<1>2. worker' = [todo |-> Pending, announced |-> A, blocked |-> {}, job |-> 0,
                 content |-> Nothing]
  BY DEF DrainBegin, AtRest
<1> HIDE DEF A
<1>3. worker' \in Worker /\ worker'.job = 0 /\ worker'.todo = Pending
  BY <1>1, <1>2, OutboxAssumption DEF Worker
<1>4. UNCHANGED <<docs, jobs, ledger, memory, crashes>> /\ worker.job = 0
  BY DEF DrainBegin
<1>5. Snapshot'
  <2>1. Pending' = Pending /\ \A d : JobsOf(d)' = JobsOf(d)
    BY <1>4 DEF Pending, JobsOf
  <2>2. \A d : \A i \in JobsOf(d) : ~Done(i) => i \in Pending
    <3> SUFFICES ASSUME NEW d, NEW i \in JobsOf(d), ~Done(i)
                 PROVE  i \in Pending
      OBVIOUS
    <3>1. i \in DOMAIN jobs /\ i # 0
      BY NoJob DEF IInv, JobsOf
    <3>2. jobs[i].status \in {"pending", "running", "completed", "failed"}
      BY <3>1, Rows DEF IInv, Job
    <3>3. QED BY <1>4, <3>1, <3>2 DEF Done, Pending, IInv, Ordered, Claimed
  <2>3. QED BY <1>3, <1>4, <2>1, <2>2 DEF Snapshot, Done
<1>6. QED BY <1>3, <1>4, <1>5, PlanKeeps

\* The drain passes over a job, which holds back those behind it.
LEMMA PassKeeps ==
    ASSUME IInv, NEW j \in DOMAIN jobs, SkipBlocked(j) \/ Wait(j)
    PROVE  IInv'
<1> DEFINE d == jobs[j].doc
<1>1. worker \in Worker /\ d \in Docs
  BY Rows DEF IInv, TypeOK, Worker, Job
<1>2. worker.job = 0 /\ UNCHANGED <<docs, jobs, ledger, memory, crashes>>
  BY DEF SkipBlocked, Wait, AtHead
<1>3. /\ worker' \in Worker /\ worker'.job = 0
      /\ worker'.todo = worker.todo \ {j} /\ worker'.blocked = worker.blocked \cup {d}
  <2>1. CASE SkipBlocked(j)
    <3>1. worker' = Rest(j) /\ d \in worker.blocked
      BY <2>1 DEF SkipBlocked, Blocked
    <3> HIDE DEF d
    <3>2. QED BY <1>1, <1>2, <3>1 DEF Rest, Worker
  <2>2. CASE Wait(j)
    <3>1. worker' = [Rest(j) EXCEPT !.blocked = @ \cup {d}]
      BY <2>2 DEF Wait
    <3> HIDE DEF d
    <3>2. QED BY <1>1, <1>2, <3>1 DEF Rest, Worker
  <2>3. QED BY <2>1, <2>2
<1>4. Snapshot'
  <2> SUFFICES ASSUME NEW k \in worker.todo \ {j}, NEW i \in JobsOf(jobs[k].doc), i < k, ~Done(i)
               PROVE  i \in worker.todo \ {j} \/ jobs[k].doc \in worker.blocked \cup {d}
    BY <1>2, <1>3 DEF IInv, Ordered, Snapshot, Pending, JobsOf, Done
  <2>1. i # 0
    BY NoJob DEF IInv, JobsOf
  <2>2. i \in worker.todo \/ jobs[k].doc \in worker.blocked
    BY <1>2, <2>1 DEF IInv, Ordered, Snapshot
  <2>3. CASE i = j
    BY <2>3 DEF JobsOf
  <2>4. QED BY <2>2, <2>3
<1>5. QED BY <1>2, <1>3, <1>4, PlanKeeps

LEMMA RestFields ==
    ASSUME worker \in Worker, NEW j
    PROVE  /\ Rest(j) \in Worker /\ Rest(j).todo = worker.todo \ {j}
           /\ Rest(j).blocked = worker.blocked /\ Rest(j).job = worker.job
           /\ Rest(j).content = worker.content
BY DEF Rest, Worker

\* The job at the head is pending, and so are all it has to wait for done.
LEMMA HeadRow ==
    ASSUME IInv, NEW j \in DOMAIN jobs, AtHead(j)
    PROVE  jobs[j].status = "pending" /\ ~Done(j) /\ worker.job = 0 /\ j # 0
           /\ jobs[j] \in Job /\ jobs[j].attempts < MaxAttempts
<1>1. jobs[j].status = "pending" /\ worker.job = 0
  BY DEF IInv, Ordered, Snapshot, AtHead, Pending
<1>2. jobs[j] \in Job /\ j # 0
  BY Rows, NoJob DEF IInv
<1>3. QED BY <1>1, <1>2 DEF IInv, Counted, Done

\* An import is completed without one.
LEMMA CompleteKeeps ==
    ASSUME IInv, NEW j \in DOMAIN jobs, AtHead(j), ~Blocked(j), jobs[j].version > 0,
           NEW result \in {"superseded", "skipped", "deduped"}, Complete(j, result),
           worker' = Rest(j), UNCHANGED <<docs, ledger, memory, crashes>>
    PROVE  IInv'
<1> DEFINE r == Completed(jobs[j], result)
<1>1. /\ jobs[j].status = "pending" /\ ~Done(j) /\ worker.job = 0 /\ jobs[j] \in Job /\ j # 0
  BY HeadRow
<1>2. jobs' = [jobs EXCEPT ![j] = r]
  BY DEF Complete, Completed
<1>3. r \in Job /\ r.doc = jobs[j].doc /\ r.version = jobs[j].version
      /\ r.status = "completed" /\ r.result = result
  BY <1>1, CompletedFields DEF Outcomes
<1> HIDE DEF r
<1>4. Replaced(j, r)
  BY <1>2, <1>3, Replace DEF IInv
<1>5. SameKeys /\ SameDocs
  BY <1>4, ReplacedKeys DEF SameDocs
<1>6. worker \in Worker
  BY DEF IInv, TypeOK, Worker
<1>7. /\ worker' \in Worker /\ worker'.todo = worker.todo \ {j} /\ worker'.job = 0
      /\ worker'.blocked = worker.blocked
  BY <1>1, <1>6, RestFields
<1>8. DOMAIN jobs' = DOMAIN jobs /\ Len(jobs') = Len(jobs) /\ jobs' \in Seq(Job)
      /\ jobs'[j] = r /\ \A i \in DOMAIN jobs : i # j => jobs'[i] = jobs[i]
  BY <1>4 DEF Replaced
<1>9. Done(j)' /\ \A i \in DOMAIN jobs : i # j => (Done(i)' <=> Done(i))
  BY <1>3, <1>8 DEF Done
<1>10. TypeOK'
  BY <1>7, <1>8 DEF IInv, TypeOK, Job, Worker
<1>11. Counted'
  BY <1>8, <1>9 DEF IInv, Counted, Live
<1>12. Claimed'
  BY <1>1, <1>3, <1>7, <1>8 DEF IInv, Ordered, Claimed
<1>13. Snapshot'
  <2>1. worker'.todo \subseteq Pending'
    BY <1>7, <1>8 DEF IInv, Ordered, Snapshot, Pending
  <2> SUFFICES ASSUME NEW k \in worker.todo \ {j}, NEW i \in JobsOf(jobs[k].doc), i < k, ~Done(i)'
               PROVE  i \in worker.todo \ {j} \/ jobs[k].doc \in worker.blocked
    <3>1. \A k \in worker.todo \ {j} : jobs'[k] = jobs[k]
      BY <1>8 DEF IInv, Ordered, Snapshot, Pending
    <3>2. QED BY <1>5, <1>7, <2>1, <3>1, SameJobs DEF Snapshot
  <2>2. i \in DOMAIN jobs /\ i # j /\ i # 0
    BY <1>9, NoJob DEF IInv, JobsOf
  <2>3. QED BY <1>1, <1>9, <2>2 DEF IInv, Ordered, Snapshot
<1>14. Prefix'
  <2>1. \A d \in Docs : \A i, k \in JobsOf(d) : i < k /\ Done(k)' /\ ~Done(k) => Done(i)
    BY <1>9, Turn DEF JobsOf
  <2>2. \A i \in DOMAIN jobs : Done(i) => Done(i)'
    BY <1>9
  <2>3. QED BY <1>5, <2>1, <2>2, SamePrefix DEF IInv, Ordered
<1>15. InOrder'
  BY <1>7 DEF InOrder
<1>16. Announcing'
  BY <1>5, SameAnnouncing
<1>17. Importing'
  BY <1>7, <1>8, NoJob DEF IInv, Importing, IsLast, JobsOf
<1>18. Imported'
  BY <1>3, <1>5, <1>8, SameJobs DEF IInv, Effects, Imported
<1>19. Remembered'
  BY <1>3, <1>5, <1>8, StillRemembered
<1>20. QED
  BY <1>10, <1>11, <1>12, <1>13, <1>14, <1>15, <1>16, <1>17, <1>18, <1>19
     DEF IInv, Ordered, Effects

LEMMA WithoutImportKeeps ==
    ASSUME IInv, NEW j \in DOMAIN jobs, Supersede(j) \/ IngestWithoutImport(j)
    PROVE  IInv'
<1>1. CASE Supersede(j)
  BY <1>1, CompleteKeeps DEF Supersede, Stale
<1>2. CASE IngestWithoutImport(j)
  BY <1>2, CompleteKeeps DEF IngestWithoutImport, Ready
<1>3. QED BY <1>1, <1>2

\* The job at the head is claimed, with the content the document has now.
LEMMA ClaimKeeps ==
    ASSUME IInv, NEW j \in DOMAIN jobs, AtHead(j), ~Blocked(j),
           NEW c \in Contents \cup {Nothing}, Claim(j, c),
           c = Nothing <=> jobs[j].version = 0,
           jobs[j].version > 0 => c = docs[jobs[j].doc].content,
           ledger' \in [Docs -> [Contents -> {"none", "open", "done"}]],
           UNCHANGED <<docs, memory, crashes>>
    PROVE  IInv'
<1> DEFINE r == Running(jobs[j])
<1>1. /\ jobs[j].status = "pending" /\ ~Done(j) /\ worker.job = 0 /\ jobs[j] \in Job /\ j # 0
      /\ jobs[j].attempts < MaxAttempts
  BY HeadRow
<1>2. jobs' = [jobs EXCEPT ![j] = r]
  BY DEF Claim, Running
<1>3. r \in Job /\ r.doc = jobs[j].doc /\ r.version = jobs[j].version
      /\ r.status = "running" /\ r.result = jobs[j].result /\ r.attempts = jobs[j].attempts
  BY <1>1, RowFields
<1> HIDE DEF r
<1>4. Replaced(j, r)
  BY <1>2, <1>3, Replace DEF IInv
<1>5. SameKeys /\ SameDocs
  BY <1>4, ReplacedKeys DEF SameDocs
<1>6. worker \in Worker /\ j \in 0..MaxJobs
  <2>1. j \in 1..Len(jobs) /\ Len(jobs) \in Nat /\ Len(jobs) =< MaxJobs
    BY Rows DEF IInv, Counted
  <2>2. QED BY <2>1, OutboxAssumption DEF IInv, TypeOK, Worker
<1>7. /\ worker' \in Worker /\ worker'.todo = worker.todo \ {j} /\ worker'.job = j
      /\ worker'.blocked = worker.blocked /\ worker'.content = c
  <2>1. worker' = [Rest(j) EXCEPT !.job = j, !.content = c]
    BY DEF Claim
  <2>2. QED BY <1>6, <2>1, RestFields DEF Worker
<1>8. DOMAIN jobs' = DOMAIN jobs /\ Len(jobs') = Len(jobs) /\ jobs' \in Seq(Job)
      /\ jobs'[j] = r /\ \A i \in DOMAIN jobs : i # j => jobs'[i] = jobs[i]
  BY <1>4 DEF Replaced
<1>9. \A i \in DOMAIN jobs : Done(i)' <=> Done(i)
  BY <1>1, <1>3, <1>8 DEF Done
<1>10. TypeOK'
  BY <1>7, <1>8 DEF IInv, TypeOK, Job, Worker
<1>11. Counted'
  <2>1. \A i \in DOMAIN jobs : jobs'[i].attempts = jobs[i].attempts
    BY <1>3, <1>8
  <2>2. QED BY <1>8, <1>9, <2>1 DEF IInv, Counted, Live
<1>12. Claimed'
  BY <1>1, <1>3, <1>7, <1>8 DEF IInv, Ordered, Claimed
<1>13. Snapshot'
  <2>1. worker'.todo \subseteq Pending'
    BY <1>7, <1>8 DEF IInv, Ordered, Snapshot, Pending
  <2> SUFFICES ASSUME NEW k \in worker.todo \ {j}, NEW i \in JobsOf(jobs[k].doc), i < k, ~Done(i)'
               PROVE  i \in worker.todo \ {j} \/ i = j \/ jobs[k].doc \in worker.blocked
    <3>1. \A k \in worker.todo \ {j} : jobs'[k] = jobs[k]
      BY <1>8 DEF IInv, Ordered, Snapshot, Pending
    <3>2. QED BY <1>5, <1>7, <2>1, <3>1, SameJobs DEF Snapshot
  <2>2. i \in DOMAIN jobs /\ i # 0
    BY NoJob DEF IInv, JobsOf
  <2>3. QED BY <1>1, <1>9, <2>2 DEF IInv, Ordered, Snapshot
<1>14. Prefix'
  BY <1>5, <1>9, SamePrefix DEF IInv, Ordered, JobsOf
<1>15. InOrder'
  <2>1. \A i \in JobsOf(jobs[j].doc) : i < j => Done(i)'
    BY <1>9, Turn DEF JobsOf
  <2>2. JobsOf(jobs[j].doc)' = JobsOf(jobs[j].doc)' /\ jobs'[j].doc = jobs[j].doc
    BY <1>3, <1>8
  <2>3. QED BY <1>5, <1>7, <2>1, <2>2, SameJobs DEF InOrder
<1>16. Announcing'
  BY <1>5, SameAnnouncing
<1>17. Importing'
  <2> SUFFICES ASSUME NEW d \in Docs, IsLast(j, d), Live(d)
               PROVE  c = docs[d].content
    BY <1>5, <1>7, SameJobs DEF Importing, Live
  <2>1. d = jobs[j].doc
    BY DEF IsLast, JobsOf
  <2>2. PICK k \in JobsOf(d) : IsLast(k, d) /\ jobs[k].version = docs[d].version
    BY DEF IInv, Effects, Announcing
  <2>3. j \in Nat /\ k \in Nat
    BY <2>2, Rows DEF IInv, JobsOf
  <2>4. k = j
    BY <2>2, <2>3 DEF IsLast
  <2>5. QED BY <2>1, <2>2, <2>4 DEF Live
<1>18. Imported'
  BY <1>1, <1>3, <1>5, <1>8, SameJobs DEF IInv, Effects, Imported
<1>19. Remembered'
  BY <1>3, <1>5, <1>8, StillRemembered
<1>20. QED
  BY <1>10, <1>11, <1>12, <1>13, <1>14, <1>15, <1>16, <1>17, <1>18, <1>19
     DEF IInv, Ordered, Effects

LEMMA BeginKeeps ==
    ASSUME IInv, NEW j \in DOMAIN jobs, IngestBegin(j) \/ DeleteBegin(j)
    PROVE  IInv'
<1> DEFINE d == jobs[j].doc
           c == docs[d].content
<1>1. d \in Docs /\ jobs[j].version \in Nat
  BY Rows, OutboxAssumption DEF IInv, Job
<1>2. CASE IngestBegin(j)
  <2>1. Claim(j, c) /\ AtHead(j) /\ ~Blocked(j) /\ jobs[j].version > 0
        /\ UNCHANGED <<docs, memory, crashes>> /\ ledger' = [ledger EXCEPT ![d][c] = "open"]
        /\ docs[d].version = jobs[j].version
    BY <1>2 DEF IngestBegin, Ready, Ingestible
  <2>2. c \in Contents /\ c # Nothing
    BY <1>1, <2>1, OutboxAssumption DEF IInv, Counted, Live
  <2>3. ledger' \in [Docs -> [Contents -> {"none", "open", "done"}]]
    <3> HIDE DEF c, d
    <3>1. QED BY <1>1, <2>1, <2>2 DEF IInv, TypeOK
  <2>4. QED BY <2>1, <2>2, <2>3, ClaimKeeps
<1>3. CASE DeleteBegin(j)
  <2>1. Claim(j, Nothing) /\ AtHead(j) /\ ~Blocked(j) /\ jobs[j].version = 0
        /\ UNCHANGED <<docs, ledger, memory, crashes>>
    BY <1>3 DEF DeleteBegin, Ready
  <2>2. ledger' \in [Docs -> [Contents -> {"none", "open", "done"}]]
    BY <2>1 DEF IInv, TypeOK
  <2>3. QED BY <2>1, <2>2, ClaimKeeps
<1>4. QED BY <1>2, <1>3

(***************************************************************************)
(* The end of the call                                                     *)
(***************************************************************************)

\* The call in progress ends: completed only when it has landed, and blocking
\* its document when it is to be repeated.
LEMMA EndKeeps ==
    ASSUME IInv, NEW j, j = worker.job, j # 0, NEW r \in Job, jobs' = [jobs EXCEPT ![j] = r],
           r.doc = jobs[j].doc, r.version = jobs[j].version, r.status # "running",
           r.status = "pending" =>
               r.attempts < MaxAttempts /\ r.doc \in worker'.blocked,
           r.status = "completed" => Landed,
           r.result = "imported" => r.status = "completed" /\ r.version > 0,
           Landed \/ memory' = memory,
           worker' \in Worker, worker'.job = 0, worker'.todo = worker.todo,
           worker.blocked \subseteq worker'.blocked,
           ledger' \in [Docs -> [Contents -> {"none", "open", "done"}]],
           UNCHANGED <<docs, crashes>>
    PROVE  IInv'
<1>1. j \in DOMAIN jobs /\ j \in Nat /\ jobs[j].status = "running" /\ r.doc \in Docs
  BY InProgress DEF Job
<1>2. Replaced(j, r)
  BY <1>1, Replace DEF IInv
<1>3. SameKeys /\ SameDocs
  BY <1>1, <1>2, ReplacedKeys DEF SameDocs
<1>4. DOMAIN jobs' = DOMAIN jobs /\ Len(jobs') = Len(jobs) /\ jobs' \in Seq(Job)
      /\ jobs'[j] = r /\ \A i \in DOMAIN jobs : i # j => jobs'[i] = jobs[i]
  BY <1>2 DEF Replaced
<1>5. \A i \in DOMAIN jobs : i # j => (Done(i)' <=> Done(i))
  BY <1>4 DEF Done
<1>6. r.status = "pending" \/ Done(j)'
  BY <1>4 DEF Job, Done
<1>7. ~Done(j)
  BY <1>1 DEF Done
<1>8. memory' \in [Docs -> Contents \cup {Nothing}]
  BY LandedKeeps DEF IInv, TypeOK
<1>9. TypeOK'
  BY <1>4, <1>8 DEF IInv, TypeOK, Job, Worker
<1>10. Counted'
  BY <1>4, <1>5, <1>6 DEF IInv, Counted, Live
<1>11. Claimed'
  BY <1>4, NoJob DEF IInv, Ordered, Claimed
<1>12. Snapshot'
  <2>1. \A k \in worker.todo : k \in DOMAIN jobs /\ k # j /\ jobs'[k] = jobs[k]
    BY <1>1, <1>4 DEF IInv, Ordered, Snapshot, Pending
  <2>2. worker'.todo \subseteq Pending'
    BY <1>4, <2>1 DEF IInv, Ordered, Snapshot, Pending
  <2> SUFFICES ASSUME NEW k \in worker.todo, NEW i \in JobsOf(jobs[k].doc), i < k, ~Done(i)'
               PROVE  i \in worker.todo \/ jobs[k].doc \in worker'.blocked
    BY <1>3, <2>1, <2>2, SameJobs DEF Snapshot
  <2>3. i \in DOMAIN jobs /\ jobs[i].doc = jobs[k].doc
    BY DEF JobsOf
  <2>4. CASE i = j
    BY <1>6, <2>3, <2>4
  <2>5. CASE i # j
    BY <1>5, <2>3, <2>5 DEF IInv, Ordered, Snapshot
  <2>6. QED BY <2>4, <2>5
<1>13. Prefix'
  <2>1. \A i \in DOMAIN jobs : Done(i) => Done(i)'
    BY <1>5, <1>7
  <2>2. ASSUME NEW d \in Docs, NEW i \in JobsOf(d), NEW k \in JobsOf(d),
               i < k, Done(k)', ~Done(k)
        PROVE  Done(i)
    <3>1. k = j /\ d = jobs[j].doc
      BY <1>5, <2>2 DEF JobsOf
    <3>2. QED BY <2>2, <3>1, InProgress
  <2>3. QED BY <1>3, <2>1, <2>2, SamePrefix DEF IInv, Ordered
<1>14. InOrder'
  BY DEF InOrder
<1>15. Announcing'
  BY <1>3, SameAnnouncing
<1>16. Importing'
  BY <1>4, NoJob DEF IInv, Importing, IsLast, JobsOf
<1>17. Imported'
  <2> SUFFICES ASSUME NEW k \in DOMAIN jobs, jobs'[k].result = "imported"
               PROVE  /\ jobs'[k].status = "completed" /\ jobs[k].version > 0
                      /\ IsLast(k, jobs[k].doc) =>
                            memory'[jobs[k].doc] = docs[jobs[k].doc].content
    BY <1>3, <1>4, SameJobs DEF Imported, SameKeys
  <2>1. CASE k # j
    <3>1. jobs'[k] = jobs[k]
      BY <1>4, <2>1
    <3>2. IsLast(k, jobs[k].doc) => memory'[jobs[k].doc] = memory[jobs[k].doc]
      BY <3>1, LandedKeeps
    <3>3. QED BY <3>1, <3>2 DEF IInv, Effects, Imported
  <2>2. CASE k = j
    <3> DEFINE d == jobs[j].doc
    <3>1. r.result = "imported" /\ r.status = "completed" /\ jobs[j].version > 0 /\ Landed
      BY <1>4, <2>2
    <3>2. ASSUME IsLast(j, d)
          PROVE  memory'[d] = docs[d].content
      <4>1. d \in Docs /\ JobsOf(d) # {}
        BY <1>1, <3>2 DEF IsLast
      <4>2. PICK i \in JobsOf(d) : IsLast(i, d) /\ jobs[i].version = docs[d].version
        BY <4>1 DEF IInv, Effects, Announcing
      <4>3. i \in Nat /\ i = j
        BY <1>1, <3>2, <4>2, Rows DEF IInv, JobsOf, IsLast
      <4>4. Live(d)
        BY <3>1, <4>2, <4>3 DEF Live
      <4>5. worker.content = docs[d].content
        BY <3>2, <4>1, <4>4 DEF IInv, Effects, Importing
      <4>6. QED BY <3>1, <4>5, LandedKeeps
    <3>3. QED BY <1>4, <2>2, <3>1, <3>2
  <2>3. QED BY <2>1, <2>2
<1>18. Remembered'
  BY <1>3, <1>4, StillRemembered
<1>19. QED
  BY <1>9, <1>10, <1>11, <1>12, <1>13, <1>14, <1>15, <1>16, <1>17, <1>18
     DEF IInv, Ordered, Effects

LEMMA FreedFields ==
    ASSUME worker \in Worker, NEW d \in Docs
    PROVE  LET w == [worker EXCEPT !.job = 0, !.content = Nothing]
               b == [worker EXCEPT !.job = 0, !.content = Nothing, !.blocked = @ \cup {d}]
           IN  /\ w \in Worker /\ w.job = 0 /\ w.todo = worker.todo
               /\ w.blocked = worker.blocked
               /\ b \in Worker /\ b.job = 0 /\ b.todo = worker.todo
               /\ b.blocked = worker.blocked \cup {d}
<1>1. 0 \in 0..MaxJobs
  BY OutboxAssumption
<1>2. QED BY <1>1 DEF Worker

LEMMA FinishKeeps ==
    ASSUME IInv, Finish
    PROVE  IInv'
<1> DEFINE j == worker.job
           result == IF jobs[j].version = 0 THEN "deleted" ELSE "imported"
           r == Completed(jobs[j], result)
<1>1. j # 0 /\ Landed /\ Complete(j, result) /\ UNCHANGED <<docs, crashes>>
      /\ worker' = [worker EXCEPT !.job = 0, !.content = Nothing]
  BY DEF Finish
<1>2. j \in DOMAIN jobs /\ jobs[j] \in Job /\ jobs[j].doc \in Docs
  BY <1>1, InProgress DEF Job
<1>3. jobs' = [jobs EXCEPT ![j] = r]
  BY <1>1 DEF Complete, Completed
<1>4. result \in Outcomes /\ (result = "imported" => jobs[j].version > 0)
  BY <1>2, OutboxAssumption DEF Outcomes, Job
<1>5. ledger' \in [Docs -> [Contents -> {"none", "open", "done"}]]
  <2>1. jobs[j].version # 0 => worker.content \in Contents
    BY <1>1 DEF IInv, TypeOK, Ordered, Claimed
  <2>2. CASE jobs[j].version = 0
    BY <2>2 DEF Finish, IInv, TypeOK
  <2>3. CASE jobs[j].version # 0
    <3>1. ledger' = [ledger EXCEPT ![jobs[j].doc][worker.content] = "done"]
      BY <2>3 DEF Finish
    <3>2. QED BY <1>2, <2>1, <2>3, <3>1 DEF IInv, TypeOK
  <2>4. QED BY <2>2, <2>3
<1>6. worker' \in Worker /\ worker'.job = 0 /\ worker'.todo = worker.todo
      /\ worker'.blocked = worker.blocked
  <2>1. worker \in Worker
    BY DEF IInv, TypeOK, Worker
  <2>2. QED BY <1>1, <1>2, <2>1, FreedFields
<1> HIDE DEF result
<1>7. r \in Job /\ r.doc = jobs[j].doc /\ r.version = jobs[j].version
      /\ r.status = "completed" /\ r.result = result
  BY <1>2, <1>4, CompletedFields
<1> HIDE DEF r
<1>8. QED BY <1>1, <1>3, <1>4, <1>5, <1>6, <1>7, EndKeeps

LEMMA RetriedFields ==
    ASSUME NEW x \in Job, x.attempts < MaxAttempts
    PROVE  /\ Retried(x) \in Job
           /\ Retried(x).doc = x.doc /\ Retried(x).version = x.version
           /\ Retried(x).result = x.result
           /\ Retried(x).status \in {"pending", "failed"}
           /\ Retried(x).status = "pending" => Retried(x).attempts < MaxAttempts
<1> DEFINE status == IF x.attempts + 1 >= MaxAttempts THEN "failed" ELSE "pending"
           n == x.attempts + 1
<1>1. n \in 0..MaxAttempts /\ (status = "pending" => n < MaxAttempts)
  BY OutboxAssumption DEF Job
<1>2. status \in {"pending", "failed"}
  OBVIOUS
<1>3. Retried(x) = [x EXCEPT !.attempts = n, !.due = FALSE, !.status = status]
  BY DEF Retried
<1> HIDE DEF n, status
<1>4. QED BY <1>1, <1>2, <1>3 DEF Job

LEMMA FailKeeps ==
    ASSUME IInv, Fail
    PROVE  IInv'
<1> DEFINE j == worker.job
           r == Retried(jobs[j])
           d == jobs[j].doc
<1>1. j # 0 /\ (Landed \/ memory' = memory) /\ UNCHANGED <<docs, ledger, crashes>>
      /\ jobs' = [jobs EXCEPT ![j] = r]
      /\ worker' = [worker EXCEPT !.job = 0, !.content = Nothing, !.blocked = @ \cup {d}]
  BY DEF Fail
<1>2. /\ j \in DOMAIN jobs /\ jobs[j] \in Job /\ d \in Docs /\ jobs[j].status = "running"
      /\ jobs[j].result # "imported"
  BY <1>1, InProgress DEF Job
<1>3. jobs[j].attempts < MaxAttempts
  BY <1>2 DEF IInv, Counted, Done
<1>4. r \in Job /\ r.doc = d /\ r.version = jobs[j].version /\ r.result = jobs[j].result
      /\ r.status \in {"pending", "failed"} /\ (r.status = "pending" => r.attempts < MaxAttempts)
  BY <1>2, <1>3, RetriedFields
<1>5. worker' \in Worker /\ worker'.job = 0 /\ worker'.todo = worker.todo
      /\ worker'.blocked = worker.blocked \cup {d}
  <2>1. worker \in Worker
    BY DEF IInv, TypeOK, Worker
  <2> HIDE DEF d
  <2>2. QED BY <1>1, <1>2, <2>1, FreedFields
<1>6. ledger' \in [Docs -> [Contents -> {"none", "open", "done"}]]
  BY <1>1 DEF IInv, TypeOK
<1> HIDE DEF r
<1>7. QED BY <1>1, <1>2, <1>4, <1>5, <1>6, EndKeeps

LEMMA RecoveredFields ==
    ASSUME NEW x \in Job
    PROVE  /\ Recovered(x) \in Job
           /\ Recovered(x).doc = x.doc /\ Recovered(x).version = x.version
           /\ Recovered(x).result = x.result /\ Recovered(x).attempts = x.attempts
           /\ Recovered(x).status = IF x.status = "running" THEN "pending" ELSE x.status
<1>1. CASE x.status = "running"
  <2> DEFINE b == x.attempts = 0
  <2>1. Recovered(x) = [x EXCEPT !.status = "pending", !.due = b] /\ b \in BOOLEAN
    BY <1>1 DEF Recovered
  <2> HIDE DEF b
  <2>2. QED BY <1>1, <2>1 DEF Job
<1>2. CASE x.status # "running"
  BY <1>2 DEF Recovered
<1>3. QED BY <1>1, <1>2

\* A restart takes up the job in progress again, whether its call landed or not.
LEMMA RestartKeeps ==
    ASSUME IInv, Restart
    PROVE  IInv'
<1>1. /\ UNCHANGED <<docs, ledger>> /\ worker' = AtRest
      /\ crashes < MaxCrashes /\ crashes' = crashes + 1
      /\ memory' = memory \/ (worker.job # 0 /\ Landed)
      /\ jobs' = [j \in DOMAIN jobs |-> Recovered(jobs[j])]
  BY DEF Restart
<1>2. jobs' \in Seq(Job) /\ DOMAIN jobs' = DOMAIN jobs /\ Len(jobs') = Len(jobs)
  <2>1. \A i \in DOMAIN jobs : Recovered(jobs[i]) \in Job
    BY Rows, RecoveredFields DEF IInv
  <2>2. jobs' \in [1..Len(jobs) -> Job] /\ Len(jobs) \in Nat /\ DOMAIN jobs = 1..Len(jobs)
    BY <1>1, <2>1, Rows DEF IInv
  <2>3. jobs' \in Seq(Job)
    BY <2>2, SeqDef
  <2>4. QED BY <2>2, <2>3, LenProperties
<1>3. \A i \in DOMAIN jobs :
         /\ jobs'[i].doc = jobs[i].doc /\ jobs'[i].version = jobs[i].version
         /\ jobs'[i].result = jobs[i].result /\ jobs'[i].attempts = jobs[i].attempts
         /\ jobs'[i].status = IF jobs[i].status = "running" THEN "pending" ELSE jobs[i].status
  BY <1>1, Rows, RecoveredFields DEF IInv
<1>4. SameKeys /\ SameDocs
  BY <1>1, <1>2, <1>3 DEF SameKeys, SameDocs
<1>5. \A i \in DOMAIN jobs : /\ Done(i)' <=> Done(i)
                             /\ jobs'[i].status = "completed" <=> jobs[i].status = "completed"
                             /\ jobs'[i].status # "running"
  BY <1>3 DEF Done
<1>6. worker' \in Worker /\ worker'.job = 0 /\ worker'.todo = {}
  BY <1>1, OutboxAssumption DEF AtRest, Worker
<1>7. memory' \in [Docs -> Contents \cup {Nothing}]
  BY <1>1, LandedKeeps DEF IInv, TypeOK
<1>8. TypeOK'
  BY <1>1, <1>2, <1>6, <1>7, OutboxAssumption DEF IInv, TypeOK, Job, Worker
<1>9. Counted'
  BY <1>1, <1>2, <1>3, <1>5 DEF IInv, Counted, Live
<1>10. Claimed'
  BY <1>2, <1>5, <1>6, NoJob DEF IInv, Claimed
<1>11. Snapshot'
  BY <1>6 DEF Snapshot
<1>12. Prefix'
  BY <1>4, <1>5, SamePrefix DEF IInv, Ordered, JobsOf
<1>13. InOrder'
  BY <1>6 DEF InOrder
<1>14. Announcing'
  BY <1>4, SameAnnouncing
<1>15. Importing'
  BY <1>2, <1>6, NoJob DEF IInv, Importing, IsLast, JobsOf
<1>16. Imported'
  <2> SUFFICES ASSUME NEW k \in DOMAIN jobs, jobs[k].result = "imported"
               PROVE  /\ jobs'[k].status = "completed" /\ jobs[k].version > 0
                      /\ IsLast(k, jobs[k].doc) =>
                            memory'[jobs[k].doc] = docs[jobs[k].doc].content
    BY <1>1, <1>2, <1>3, <1>4, SameJobs DEF Imported
  <2>1. IsLast(k, jobs[k].doc) => memory'[jobs[k].doc] = memory[jobs[k].doc]
    BY <1>1, LandedKeeps
  <2>2. QED BY <1>5, <2>1 DEF IInv, Effects, Imported
<1>17. Remembered'
  BY <1>1, <1>4, <1>5, StillRemembered
<1>18. QED
  BY <1>8, <1>9, <1>10, <1>11, <1>12, <1>13, <1>14, <1>15, <1>16, <1>17
     DEF IInv, Ordered, Effects

(***************************************************************************)
(* The theorems                                                            *)
(***************************************************************************)

LEMMA StepKeeps ==
    ASSUME IInv, [Next]_vars
    PROVE  IInv'
<1>1. CASE DocumentStep
  BY <1>1, CommitKeeps, TrashKeeps, DeleteKeeps DEF DocumentStep
<1>2. CASE DrainBegin
  BY <1>2, DrainBeginKeeps
<1>3. CASE DrainStep
  BY <1>3, PassKeeps, WithoutImportKeeps, BeginKeeps DEF DrainStep
<1>4. CASE \E j \in DOMAIN jobs : Ripen(j)
  BY <1>4, RipenKeeps
<1>5. CASE Finish
  BY <1>5, FinishKeeps
<1>6. CASE Fail
  BY <1>6, FailKeeps
<1>7. CASE Restart
  BY <1>7, RestartKeeps
<1>8. CASE UNCHANGED vars
  BY SMTT(30), <1>8 DEF vars, IInv, TypeOK, Counted, Ordered, Effects, Claimed, Snapshot, Prefix, InOrder,
              Announcing, Importing, Imported, Remembered, JobsOf, Done, Live, IsLast, Pending
<1>9. QED BY <1>1, <1>2, <1>3, <1>4, <1>5, <1>6, <1>7, <1>8 DEF Next

\* The outbox, the worker, the ledger and the memory service keep IInv, whatever
\* fails, waits, is repeated or crashes.
THEOREM Invariance == Spec => []IInv
<1>1. Init => IInv
  BY InitHolds
<1>2. IInv /\ [Next]_vars => IInv'
  BY StepKeeps
<1>3. QED BY <1>1, <1>2, PTL DEF Spec

\* Every variable of the outbox keeps its type.
THEOREM TypeCorrect == Spec => []TypeOK
<1>1. IInv => TypeOK
  BY DEF IInv
<1>2. QED BY <1>1, Invariance, PTL

\* No job runs before an earlier one of its document is done with.
THEOREM RunsInOrder == Spec => []InOrder
<1>1. IInv => InOrder
  BY DEF IInv, Ordered
<1>2. QED BY <1>1, Invariance, PTL

\* Of a deleted document whose jobs are done, with no deletion given up, the
\* memory service holds nothing: what it held came from a job before the
\* deletion that is the document's last job.
THEOREM DeletedForgotten == Spec => []Forgotten
<1>1. ASSUME IInv
      PROVE  Forgotten
  <2> SUFFICES ASSUME NEW d \in Docs, ~Live(d), Settled(d), memory[d] # Nothing,
                      \A j \in JobsOf(d) : jobs[j].version = 0 => jobs[j].status # "failed"
               PROVE  FALSE
    BY DEF Forgotten
  <2>1. PICK j \in JobsOf(d) :
           /\ jobs[j].version > 0
           /\ \A k \in JobsOf(d) :
                 j < k /\ jobs[k].version = 0 => jobs[k].status # "completed"
    BY <1>1 DEF IInv, Effects, Remembered
  <2>2. PICK k \in JobsOf(d) : IsLast(k, d) /\ jobs[k].version = docs[d].version
    BY <1>1, <2>1 DEF IInv, Effects, Announcing
  <2>3. docs[d].version = 0
    BY <1>1, OutboxAssumption DEF IInv, TypeOK, Live
  <2>4. j \in Nat /\ k \in Nat /\ j =< k /\ j # k
    BY <1>1, <2>1, <2>2, <2>3, Rows DEF IInv, IsLast, JobsOf
  <2>5. jobs[k].status = "completed"
    BY <2>2, <2>3 DEF Settled, Done
  <2>6. QED BY <2>1, <2>2, <2>3, <2>4, <2>5
<1>2. QED BY <1>1, Invariance, PTL

\* When the last job of a document imported it, the memory service holds what
\* the document says.
THEOREM ImportsCurrent == Spec => []ImportedIsCurrent
<1>1. ASSUME IInv
      PROVE  ImportedIsCurrent
  <2> SUFFICES ASSUME NEW d \in Docs, Live(d), jobs[LastOf(d)].result = "imported"
               PROVE  memory[d] = docs[d].content
    BY DEF ImportedIsCurrent
  <2>1. PICK j \in JobsOf(d) : IsLast(j, d)
    BY <1>1 DEF IInv, Effects, Announcing
  <2>2. \A i \in JobsOf(d) : i \in Nat
    BY <1>1, Rows DEF IInv, JobsOf
  <2>3. LastOf(d) = j
    BY <2>1, <2>2 DEF LastOf, IsLast
  <2>4. j \in DOMAIN jobs /\ jobs[j].doc = d
    BY DEF JobsOf
  <2>5. QED BY <1>1, <2>1, <2>3, <2>4 DEF IInv, Effects, Imported
<1>2. QED BY <1>1, Invariance, PTL
=============================================================================
