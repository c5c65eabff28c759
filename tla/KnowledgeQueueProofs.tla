------------------------ MODULE KnowledgeQueueProofs ------------------------
(***************************************************************************)
(* Theorems about KnowledgeQueue, for any Rooms, titles and bounds: its    *)
(* variables keep their types, one job runs at a time, and a deletion that *)
(* has been served is final.                                               *)
(***************************************************************************)
EXTENDS KnowledgeQueue, FiniteSetTheorems, SequenceTheorems, TLAPS

DocType == [at : {"live", "trashed", "gone"}, life : 1..MaxLives, version : 1..MaxVersion,
            title : Titles]
WorkType == [at : {"idle", "extract", "write", "build", "index", "remove"},
             text : Texts \cup {NoText}, title : Titles \cup {None},
             todo : SUBSET (Rooms \X Titles)]
WikiType == [Rooms -> [Titles -> Texts \cup {NoText}]]

\* The job that an await of the worker belongs to.
Doing(at) == CASE at = "extract" -> "route" [] at \in {"write", "build"} -> "ingest"
               [] at = "index" -> "relation" [] OTHER -> "cleanup"

\* One job runs, the one the worker is at.
OneJob ==
    /\ work.at = "idle" => Running = {}
    /\ work.at # "idle" => \E k \in 1..Len(jobs) :
          Running = {k} /\ jobs[k].payload.kind = Doing(work.at)

QueueOK == jobs \in Seq(Jobs) /\ work \in WorkType /\ OneJob
DocumentOK == doc \in DocType /\ outbox \in Seq(0..MaxVersion)
RowsOK == /\ decisions \in Seq(Decisions) /\ links \subseteq {"resolution", "user"}
          /\ relation \in 0..MaxVersion
RevertOK == revert \in [of : 0..Len(decisions), todo : SUBSET Rooms]
CountsOK == hands \in 0..MaxHands /\ faults \in 0..MaxFaults /\ gaveUp \subseteq Kinds

\* Behind a deletion nothing is handed over.
DeletedLast == doc.at = "gone" /\ outbox # << >> => outbox[Len(outbox)] = 0

Waiting(q) == \E k \in 1..Len(q) : q[k].payload.kind = "cleanup"

\* The document is gone, and every cleanup that was asked for has been served.
Served == doc.at = "gone" /\ outbox = << >> /\ ~Waiting(jobs)

\* Behind its cleanup nothing of a document is written any more.
Settled ==
    /\ work.at = "remove" => relation = 0
    /\ Served => /\ relation = 0
                 /\ "cleanup" \notin gaveUp => Confirmed = {}
                 /\ work.at \notin {"write", "build", "index"}

IInv == QueueOK /\ DocumentOK /\ RowsOK /\ RevertOK /\ wiki \in WikiType /\ CountsOK
        /\ DeletedLast /\ Settled

(***************************************************************************)
(* Queues                                                                  *)
(***************************************************************************)

\* r is q with ready jobs behind it.
Grown(q, r) ==
    /\ r \in Seq(Jobs) /\ Len(q) =< Len(r)
    /\ \A k \in 1..Len(q) : r[k] = q[k]
    /\ \A k \in 1..Len(r) : k > Len(q) => r[k].at = "ready"

LEMMA GrownSelf ==
    ASSUME NEW q \in Seq(Jobs)
    PROVE  Grown(q, q)
BY LenProperties DEF Grown

LEMMA GrownTwice ==
    ASSUME NEW p \in Seq(Jobs), NEW q, NEW r, Grown(p, q), Grown(q, r)
    PROVE  Grown(p, r)
<1>1. Len(p) \in Nat /\ Len(q) \in Nat /\ Len(r) \in Nat
  BY LenProperties DEF Grown
<1>2. QED BY <1>1 DEF Grown

\* What is added waits its turn.
LEMMA WithJobGrows ==
    ASSUME NEW q \in Seq(Jobs), NEW p \in Payloads
    PROVE  /\ Grown(q, WithJob(q, p))
           /\ p.kind = "cleanup" => Waiting(WithJob(q, p))
<1> DEFINE x == [payload |-> p, at |-> "ready", tries |-> 0]
<1>1. x \in Jobs /\ x.at = "ready" /\ x.payload = p
  BY QueueAssumption DEF Jobs
<1> HIDE DEF x
<1>2. Len(q) \in Nat
  BY LenProperties
<1>3. CASE \E k \in 1..Len(q) : q[k].payload = p
  <2>1. WithJob(q, p) = q
    BY <1>3 DEF WithJob
  <2>2. QED BY <1>3, <2>1, GrownSelf DEF Waiting
<1>4. CASE ~\E k \in 1..Len(q) : q[k].payload = p
  <2>1. WithJob(q, p) = Append(q, x)
    BY <1>4 DEF WithJob, x
  <2>2. /\ Append(q, x) \in Seq(Jobs) /\ Len(Append(q, x)) = Len(q) + 1
        /\ Append(q, x)[Len(q) + 1] = x
        /\ \A k \in 1..Len(q) : Append(q, x)[k] = q[k]
    BY <1>1, AppendProperties
  <2> DEFINE r == Append(q, x)
  <2> HIDE DEF r
  <2>3. r \in Seq(Jobs) /\ Len(r) = Len(q) + 1 /\ r[Len(q) + 1] = x
        /\ \A k \in 1..Len(q) : r[k] = q[k]
    BY <2>2 DEF r
  <2>4. Grown(q, r)
    BY <1>1, <1>2, <2>3 DEF Grown
  <2>5. p.kind = "cleanup" => Waiting(r)
    BY <1>1, <1>2, <2>3 DEF Waiting
  <2>6. QED BY <2>1, <2>4, <2>5 DEF r
<1>5. QED BY <1>3, <1>4

LEMMA PayloadTypes ==
    ASSUME NEW v \in 0..MaxVersion
    PROVE  /\ \A life \in 0..MaxLives : RouteJob(v, life) \in Payloads
           /\ \A r \in Rooms, d \in Nat : IngestJob(v, r, d) \in Payloads
           /\ \A rs \in SUBSET Rooms : RelationJob(v, rs) \in Payloads
           /\ CleanupJob \in Payloads /\ CleanupJob.kind = "cleanup"
BY QueueAssumption DEF RouteJob, IngestJob, RelationJob, CleanupJob, Payloads, Kinds

\* The Rooms of a decision in some order.
LEMMA InOrder ==
    ASSUME NEW rs \in SUBSET Rooms
    PROVE  /\ Cardinality(rs) \in Nat
           /\ \A k \in 1..Cardinality(rs) : SetToSeq(rs)[k] \in rs
<1>1. IsFiniteSet(rs)
  BY QueueAssumption, FS_Subset
<1>2. PICK n \in Nat : ExistsBijection(1..n, rs)
  BY <1>1, FS_NatBijection
<1>3. Cardinality(rs) = n
  BY <1>1, <1>2, FS_CountingElements
<1>4. \E f \in [1..n -> rs] : IsInjective(f)
  BY <1>2 DEF ExistsBijection, Bijection, Injection, IsInjective
<1>5. SetToSeq(rs) \in [1..n -> rs]
  BY <1>3, <1>4 DEF SetToSeq
<1>6. QED BY <1>3, <1>5

LEMMA WithIngestsGrows ==
    ASSUME NEW q \in Seq(Jobs), NEW v \in 0..MaxVersion, NEW rs \in SUBSET Rooms, NEW d \in Nat
    PROVE  Grown(q, WithIngests(q, v, rs, d))
<1> DEFINE new == {r \in rs : \A k \in 1..Len(q) : q[k].payload # IngestJob(v, r, d)}
           n == Cardinality(new)
           x(k) == [payload |-> IngestJob(v, SetToSeq(new)[k], d), at |-> "ready", tries |-> 0]
           more == [k \in 1..n |-> x(k)]
<1>1. n \in Nat /\ \A k \in 1..n : SetToSeq(new)[k] \in Rooms
  BY InOrder
<1>2. \A k \in 1..n : x(k) \in Jobs /\ x(k).at = "ready"
  <2>1. \A room \in Rooms : IngestJob(v, room, d) \in Payloads
    BY PayloadTypes
  <2>2. 0 \in 0..(MaxTries - 1)
    BY QueueAssumption
  <2>3. \A k \in 1..n : IngestJob(v, SetToSeq(new)[k], d) \in Payloads
    <3> HIDE DEF n, new
    <3>1. QED BY <1>1, <2>1
  <2> HIDE DEF n, new
  <2>4. QED BY <2>2, <2>3 DEF Jobs
<1> HIDE DEF x, n
<1>3. more \in Seq(Jobs) /\ Len(more) = n /\ \A k \in 1..n : more[k].at = "ready"
  BY <1>1, <1>2
<1> HIDE DEF more
<1>4. Len(q) \in Nat
  BY LenProperties
<1>5. /\ q \o more \in Seq(Jobs) /\ Len(q \o more) = Len(q) + n
      /\ \A k \in 1..Len(q) + n :
            (q \o more)[k] = IF k <= Len(q) THEN q[k] ELSE more[k - Len(q)]
  BY <1>3, ConcatProperties
<1> DEFINE r == q \o more
<1> HIDE DEF r
<1>6. /\ r \in Seq(Jobs) /\ Len(r) = Len(q) + n
      /\ \A k \in 1..Len(q) + n : r[k] = IF k <= Len(q) THEN q[k] ELSE more[k - Len(q)]
  BY <1>5 DEF r
<1>7. \A k \in 1..Len(r) : k > Len(q) => k - Len(q) \in 1..n /\ r[k] = more[k - Len(q)]
  BY <1>1, <1>4, <1>6
<1>8. Grown(q, r)
  BY <1>1, <1>3, <1>4, <1>6, <1>7 DEF Grown
<1>9. r = WithIngests(q, v, rs, d)
  BY DEF r, more, n, x, WithIngests
<1>10. QED BY <1>8, <1>9

\* A job is gone, and the others are where they were or one place further on.
LEMMA Removed ==
    ASSUME NEW q \in Seq(Jobs), NEW k \in 1..Len(q)
    PROVE  /\ RemoveAt(q, k) \in Seq(Jobs) /\ Len(RemoveAt(q, k)) = Len(q) - 1
           /\ \A j \in 1..Len(q) - 1 :
                 RemoveAt(q, k)[j] = IF j < k THEN q[j] ELSE q[j + 1]
<1> DEFINE a == SubSeq(q, 1, k - 1)
           b == SubSeq(q, k + 1, Len(q))
<1>1. Len(q) \in Nat /\ k \in Nat /\ \A i \in 1..Len(q) : q[i] \in Jobs
  BY LenProperties, ElementOfSeq
<1>2. /\ a \in Seq(Jobs) /\ Len(a) = k - 1
      /\ \A i \in 1..k - 1 : a[i] = q[i]
  <2>1. \A i \in 1..k - 1 : q[i] \in Jobs
    BY <1>1
  <2>2. /\ a \in Seq(Jobs) /\ Len(a) = IF 1 <= k - 1 THEN k - 1 - 1 + 1 ELSE 0
        /\ \A i \in 1..k - 1 - 1 + 1 : a[i] = q[1 + i - 1]
    BY <1>1, <2>1, SubSeqProperties
  <2> HIDE DEF a
  <2>3. QED BY <1>1, <2>2
<1>3. /\ b \in Seq(Jobs) /\ Len(b) = Len(q) - k
      /\ \A i \in 1..Len(q) - k : b[i] = q[k + i]
  <2>1. \A i \in k + 1..Len(q) : q[i] \in Jobs
    BY <1>1
  <2>2. /\ b \in Seq(Jobs)
        /\ Len(b) = IF k + 1 <= Len(q) THEN Len(q) - (k + 1) + 1 ELSE 0
        /\ \A i \in 1..Len(q) - (k + 1) + 1 : b[i] = q[k + 1 + i - 1]
    BY <1>1, <2>1, SubSeqProperties
  <2> HIDE DEF b
  <2>3. QED BY <1>1, <2>2
<1> HIDE DEF a, b
<1>4. /\ a \o b \in Seq(Jobs) /\ Len(a \o b) = Len(a) + Len(b)
      /\ \A i \in 1..Len(a) + Len(b) :
            (a \o b)[i] = IF i <= Len(a) THEN a[i] ELSE b[i - Len(a)]
  BY <1>2, <1>3, ConcatProperties
<1> DEFINE r == a \o b
<1> HIDE DEF r
<1>5. /\ r \in Seq(Jobs) /\ Len(r) = Len(q) - 1
      /\ \A i \in 1..Len(q) - 1 : r[i] = IF i < k THEN a[i] ELSE b[i - (k - 1)]
  BY <1>1, <1>2, <1>3, <1>4 DEF r
<1>6. \A i \in 1..Len(q) - 1 : r[i] = IF i < k THEN q[i] ELSE q[i + 1]
  <2> TAKE i \in 1..Len(q) - 1
  <2>1. CASE i < k
    BY <1>1, <1>2, <1>5, <2>1
  <2>2. CASE ~(i < k)
    <3>1. i - (k - 1) \in 1..Len(q) - k /\ k + (i - (k - 1)) = i + 1
      BY <1>1, <2>2
    <3>2. b[i - (k - 1)] = q[i + 1]
      BY <1>3, <3>1
    <3>3. QED BY <1>5, <2>2, <3>2
  <2>3. QED BY <2>1, <2>2
<1>7. QED BY <1>5, <1>6 DEF r, a, b, RemoveAt

LEMMA WaitingGrown ==
    ASSUME NEW q \in Seq(Jobs), NEW r, Grown(q, r), Waiting(q)
    PROVE  Waiting(r)
<1>1. Len(q) \in Nat /\ Len(r) \in Nat
  BY LenProperties DEF Grown
<1>2. QED BY <1>1 DEF Grown, Waiting

LEMMA WaitingRemoved ==
    ASSUME NEW q \in Seq(Jobs), NEW k \in 1..Len(q), q[k].payload.kind # "cleanup", Waiting(q)
    PROVE  Waiting(RemoveAt(q, k))
<1> DEFINE r == RemoveAt(q, k)
<1>1. /\ Len(q) \in Nat /\ Len(r) = Len(q) - 1
      /\ \A j \in 1..Len(q) - 1 : r[j] = IF j < k THEN q[j] ELSE q[j + 1]
  BY Removed, LenProperties
<1> HIDE DEF r
<1>2. PICK j \in 1..Len(q) : q[j].payload.kind = "cleanup"
  BY DEF Waiting
<1>3. j # k /\ j \in Nat /\ k \in Nat
  BY <1>2
<1>4. \E i \in 1..Len(r) : r[i] = q[j]
  <2>1. CASE j < k
    BY <1>1, <1>3, <2>1
  <2>2. CASE j > k
    <3>1. j - 1 \in 1..Len(r) /\ ~(j - 1 < k) /\ (j - 1) + 1 = j
      BY <1>1, <1>3, <2>2
    <3>2. QED BY <1>1, <3>1
  <2>3. QED BY <1>3, <2>1, <2>2
<1>5. \E i \in 1..Len(r) : r[i].payload.kind = "cleanup"
  BY <1>2, <1>4
<1>6. Waiting(r)
  BY <1>5 DEF Waiting
<1>7. QED BY <1>6 DEF r
(***************************************************************************)
(* Steps of the queue and its worker                                       *)
(***************************************************************************)

\* The job that runs is the one the worker is at.
LEMMA TheJob ==
    ASSUME QueueOK, work.at # "idle"
    PROVE  \E k \in 1..Len(jobs) :
              /\ Running = {k} /\ jobs[k].payload.kind = Doing(work.at)
              /\ Job = jobs[k] /\ Others = RemoveAt(jobs, k)
              /\ jobs[k] \in Jobs
<1>1. PICK k \in 1..Len(jobs) : Running = {k} /\ jobs[k].payload.kind = Doing(work.at)
  BY DEF QueueOK, OneJob
<1>2. (CHOOSE j \in Running : TRUE) = k
  BY <1>1
<1>3. jobs[k] \in Jobs
  BY ElementOfSeq DEF QueueOK
<1>4. QED BY <1>1, <1>2, <1>3 DEF Job, Others

LEMMA Idleness == Idle \in WorkType /\ Idle.at = "idle"
BY DEF Idle, WorkType

\* Jobs are added.
LEMMA QueueGrows ==
    ASSUME QueueOK, Grown(jobs, jobs'), work' = work
    PROVE  QueueOK' /\ (Waiting(jobs) => Waiting(jobs'))
<1>1. Len(jobs) \in Nat /\ Len(jobs') \in Nat
  BY LenProperties DEF QueueOK, Grown
<1>2. Running' = Running
  BY <1>1 DEF Grown, Running
<1>3. OneJob'
  BY <1>1, <1>2 DEF QueueOK, OneJob, Grown
<1>4. QED BY <1>3, WaitingGrown DEF QueueOK, Grown

\* A job ends, and others may be added.
LEMMA QueueEnds ==
    ASSUME QueueOK, NEW k \in 1..Len(jobs), Running \subseteq {k},
           Grown(RemoveAt(jobs, k), jobs'), work' = Idle
    PROVE  QueueOK'
           /\ (jobs[k].payload.kind # "cleanup" /\ Waiting(jobs) => Waiting(jobs'))
<1> DEFINE q == RemoveAt(jobs, k)
<1>1. /\ q \in Seq(Jobs) /\ Len(q) = Len(jobs) - 1 /\ Len(jobs) \in Nat
      /\ \A j \in 1..Len(jobs) - 1 : q[j] = IF j < k THEN jobs[j] ELSE jobs[j + 1]
  BY Removed, LenProperties DEF QueueOK
<1>2. jobs[k].payload.kind # "cleanup" /\ Waiting(jobs) => Waiting(jobs')
  BY <1>1, WaitingRemoved, WaitingGrown DEF QueueOK
<1>3. Grown(q, jobs')
  OBVIOUS
<1> HIDE DEF q
<1>4. Len(jobs') \in Nat
  BY <1>3, LenProperties DEF Grown
<1>5. \A j \in 1..Len(jobs) : j # k => jobs[j].at # "running"
  BY DEF Running
<1>6. \A j \in 1..Len(q) : q[j].at # "running"
  BY <1>1, <1>5
<1>7. \A j \in 1..Len(jobs') : jobs'[j].at # "running"
  BY <1>1, <1>3, <1>4, <1>6 DEF Grown
<1>8. OneJob'
  BY <1>7, Idleness DEF OneJob, Running
<1>9. QED BY <1>2, <1>3, <1>8, Idleness DEF QueueOK, Grown

\* A job is begun.
LEMMA QueueStarts ==
    ASSUME QueueOK, work.at = "idle", NEW k \in 1..Len(jobs), jobs' = Started(k),
           work' \in WorkType, work'.at # "idle", jobs[k].payload.kind = Doing(work'.at)
    PROVE  QueueOK' /\ (Waiting(jobs) => Waiting(jobs'))
<1> DEFINE x == [jobs[k] EXCEPT !.at = "running"]
<1>1. jobs[k] \in Jobs
  BY ElementOfSeq DEF QueueOK
<1>2. x \in Jobs /\ x.at = "running" /\ x.payload = jobs[k].payload
  BY <1>1 DEF Jobs
<1>3. jobs' = [jobs EXCEPT ![k] = x]
  BY DEF Started
<1> HIDE DEF x
<1>4. /\ jobs' \in Seq(Jobs) /\ Len(jobs') = Len(jobs)
      /\ \A j \in 1..Len(jobs) : jobs'[j] = IF j = k THEN x ELSE jobs[j]
  BY <1>2, <1>3, ExceptSeq DEF QueueOK
<1>5. Running' = {k}
  BY <1>2, <1>4 DEF QueueOK, OneJob, Running
<1>6. OneJob'
  BY <1>2, <1>4, <1>5 DEF OneJob
<1>7. Waiting(jobs) => Waiting(jobs')
  BY <1>2, <1>4 DEF Waiting
<1>8. QED BY <1>4, <1>6, <1>7 DEF QueueOK

\* The worker goes on with its job.
LEMMA QueueGoesOn ==
    ASSUME QueueOK, jobs' = jobs, work.at # "idle", work' \in WorkType, work'.at # "idle",
           Doing(work'.at) = Doing(work.at)
    PROVE  QueueOK' /\ (Waiting(jobs) => Waiting(jobs'))
BY DEF QueueOK, OneJob, Running

\* Jobs change places with nobody: they wait longer, or are ready again.
LEMMA QueueWaits ==
    ASSUME QueueOK, jobs' \in Seq(Jobs), Len(jobs') = Len(jobs),
           \A k \in 1..Len(jobs) :
              /\ jobs'[k].payload = jobs[k].payload
              /\ jobs'[k].at = "running" <=> (jobs[k].at = "running" /\ work' = work),
           work' \in {work, Idle}
    PROVE  QueueOK' /\ (Waiting(jobs) => Waiting(jobs'))
<1>1. Waiting(jobs) => Waiting(jobs')
  BY DEF Waiting
<1>2. CASE work' = work
  <2>1. Running' = Running
    BY <1>2 DEF Running
  <2>2. QED BY <1>1, <1>2, <2>1 DEF QueueOK, OneJob
<1>3. CASE work' # work
  <2>1. Running' = {} /\ work' = Idle
    BY <1>3 DEF Running
  <2>2. QED BY <1>1, <2>1, Idleness DEF QueueOK, OneJob
<1>4. QED BY <1>2, <1>3

(***************************************************************************)
(* What is settled stays so                                                *)
(***************************************************************************)

\* A step that confirms nothing, projects nothing and takes no cleanup away.
LEMMA SettledKeeps ==
    ASSUME Settled, doc' = doc, outbox' = outbox, gaveUp \subseteq gaveUp',
           Waiting(jobs) => Waiting(jobs'),
           relation' \in {relation, 0}, Confirmed' \subseteq Confirmed,
           work'.at \in {"idle", "extract", "remove", work.at},
           work'.at = "remove" => relation' = 0
    PROVE  Settled'
BY DEF Settled, Served

\* Nothing is served as long as the document is there.
LEMMA SettledLive ==
    ASSUME doc'.at # "gone", work'.at = "remove" => relation' = 0
    PROVE  Settled'
BY DEF Settled, Served

\* Nothing is served as long as a deletion is on its way.
LEMMA SettledWaiting ==
    ASSUME outbox' # << >> \/ Waiting(jobs'), work'.at = "remove" => relation' = 0
    PROVE  Settled'
BY DEF Settled, Served
(***************************************************************************)
(* The document and its outbox                                             *)
(***************************************************************************)

LEMMA InitHolds ==
    ASSUME Init
    PROVE  IInv
<1>1. doc \in DocType
  <2>1. (CHOOSE t \in Titles : TRUE) \in Titles
    BY QueueAssumption
  <2>2. QED BY <2>1, QueueAssumption DEF Init, DocType
<1>2. outbox \in Seq(0..MaxVersion) /\ Len(outbox) = 1
  BY QueueAssumption DEF Init
<1>3. jobs \in Seq(Jobs) /\ Len(jobs) = 0 /\ decisions \in Seq(Decisions) /\ Len(decisions) = 0
  BY EmptySeq DEF Init
<1>4. QueueOK
  BY <1>3, Idleness DEF Init, QueueOK, OneJob, Running
<1>5. wiki \in WikiType
  BY DEF Init, WikiType
<1>6. RowsOK /\ RevertOK /\ CountsOK
  BY <1>3, QueueAssumption DEF Init, RowsOK, RevertOK, CountsOK, NoRevert
<1>7. DeletedLast /\ Settled
  BY DEF Init, DeletedLast, Settled, Served
<1>8. QED BY <1>1, <1>2, <1>4, <1>5, <1>6, <1>7 DEF IInv, DocumentOK

\* What the user does is counted.
LEMMA HandCounts ==
    ASSUME CountsOK, Hand
    PROVE  CountsOK'
BY QueueAssumption DEF CountsOK, Hand

\* A step of the document alone.
LEMMA DocumentStep ==
    ASSUME IInv, doc' \in DocType, outbox' \in Seq(0..MaxVersion), DeletedLast',
           doc'.at # "gone" \/ outbox' # << >>, CountsOK',
           UNCHANGED <<jobs, work, store, wiki, revert>>
    PROVE  IInv'
<1>1. QueueOK'
  BY QueueGrows, GrownSelf DEF IInv, QueueOK
<1>2. Settled'
  <2>1. work'.at = "remove" => relation' = 0
    BY DEF IInv, Settled, store
  <2>2. QED BY <2>1, SettledLive, SettledWaiting
<1>3. RowsOK' /\ RevertOK' /\ wiki' \in WikiType
  BY DEF IInv, RowsOK, RevertOK, store
<1>4. QED BY <1>1, <1>2, <1>3 DEF IInv, DocumentOK

LEMMA SaveKeeps ==
    ASSUME IInv, Save
    PROVE  IInv'
<1>1. PICK t \in Titles : doc' = [doc EXCEPT !.version = @ + 1, !.title = t]
  BY DEF Save
<1>2. /\ doc \in DocType /\ doc.at = "live" /\ doc.version \in Nat /\ doc.version < MaxVersion
      /\ outbox \in Seq(0..MaxVersion) /\ MaxVersion \in Nat
  BY QueueAssumption DEF IInv, DocumentOK, DocType, Save
<1>3. doc' \in DocType /\ doc'.at = "live"
  <2>1. doc.version + 1 \in 1..MaxVersion
    BY <1>2
  <2>2. doc' = [doc EXCEPT !.version = doc.version + 1, !.title = t]
    BY <1>1
  <2>3. QED BY <1>2, <2>1, <2>2 DEF DocType
<1>4. outbox' \in Seq(0..MaxVersion)
  BY <1>2 DEF Save
<1>5. CountsOK'
  BY HandCounts DEF IInv, Save
<1>6. QED BY <1>3, <1>4, <1>5, DocumentStep DEF Save, DeletedLast

LEMMA TrashKeeps ==
    ASSUME IInv, Trash
    PROVE  IInv'
<1>1. doc' \in DocType /\ doc'.at = "trashed"
  BY DEF IInv, DocumentOK, DocType, Trash
<1>2. CountsOK'
  BY HandCounts DEF IInv, Trash
<1>3. QED BY <1>1, <1>2, DocumentStep DEF Trash, DeletedLast, IInv, DocumentOK

LEMMA RestoreKeeps ==
    ASSUME IInv, Restore
    PROVE  IInv'
<1>1. doc' \in DocType /\ doc'.at = "live"
  BY DEF IInv, DocumentOK, DocType, Restore
<1>2. CountsOK'
  BY DEF IInv, CountsOK, Restore, bounds
<1>3. QED BY <1>1, <1>2, DocumentStep DEF Restore, DeletedLast, IInv, DocumentOK

LEMMA DeleteKeeps ==
    ASSUME IInv, Delete
    PROVE  IInv'
<1>1. doc' \in DocType
  BY DEF IInv, DocumentOK, DocType, Delete
<1>2. outbox \in Seq(0..MaxVersion) /\ 0 \in 0..MaxVersion /\ outbox' = Append(outbox, 0)
  BY QueueAssumption DEF IInv, DocumentOK, Delete
<1>3. /\ outbox' \in Seq(0..MaxVersion) /\ Len(outbox') = Len(outbox) + 1
      /\ outbox'[Len(outbox) + 1] = 0
  BY <1>2, AppendProperties
<1>4. outbox' # << >> /\ DeletedLast'
  BY <1>2, <1>3 DEF DeletedLast
<1>5. CountsOK'
  BY DEF IInv, CountsOK, Delete, bounds
<1>6. QED BY <1>1, <1>3, <1>4, <1>5, DocumentStep DEF Delete

LEMMA ImportKeeps ==
    ASSUME IInv, Import
    PROVE  IInv'
<1>1. doc' = [doc EXCEPT !.at = "live", !.life = @ + 1, !.version = 1]
      /\ doc.life < MaxLives /\ outbox' = Append(outbox, 1)
  BY DEF Import
<1>2. doc \in DocType /\ doc.life \in Nat /\ MaxLives \in Nat /\ 1 \in 1..MaxVersion
      /\ outbox \in Seq(0..MaxVersion) /\ 1 \in 0..MaxVersion
  BY QueueAssumption DEF IInv, DocumentOK, DocType
<1>3. doc' \in DocType /\ doc'.at = "live"
  <2>1. doc.life + 1 \in 1..MaxLives
    BY <1>1, <1>2
  <2>2. doc' = [doc EXCEPT !.at = "live", !.life = doc.life + 1, !.version = 1]
    BY <1>1
  <2>3. QED BY <1>2, <2>1, <2>2 DEF DocType
<1>4. outbox' \in Seq(0..MaxVersion)
  BY <1>1, <1>2
<1>5. CountsOK'
  BY HandCounts DEF IInv, Import
<1>6. QED BY <1>3, <1>4, <1>5, DocumentStep DEF Import, DeletedLast

LEMMA DeliverKeeps ==
    ASSUME IInv, Deliver
    PROVE  IInv'
<1>1. /\ outbox # << >> /\ outbox' = Tail(outbox) /\ work' = work
      /\ UNCHANGED <<doc, work, decisions, links, relation, wiki, revert, hands, faults, gaveUp>>
      /\ jobs' = IF Head(outbox) = 0 THEN WithJob(jobs, CleanupJob)
                 ELSE IF doc.at = "live" /\ doc.version = Head(outbox)
                 THEN WithJob(jobs, RouteJob(doc.version, doc.life))
                 ELSE jobs
  BY DEF Deliver, store, bounds
<1>2. /\ outbox \in Seq(0..MaxVersion) /\ jobs \in Seq(Jobs) /\ doc.version \in 0..MaxVersion
      /\ doc.life \in 0..MaxLives /\ 0 \in 0..MaxVersion
  BY QueueAssumption DEF IInv, DocumentOK, QueueOK, DocType
<1>3. Grown(jobs, jobs') /\ (Head(outbox) = 0 => Waiting(jobs'))
  BY <1>1, <1>2, WithJobGrows, PayloadTypes, GrownSelf
<1>4. QueueOK' /\ (Waiting(jobs) => Waiting(jobs'))
  BY <1>1, <1>3, QueueGrows DEF IInv
<1>5. /\ outbox' \in Seq(0..MaxVersion) /\ Len(outbox') = Len(outbox) - 1
      /\ \A i \in 1..Len(outbox') : outbox'[i] = outbox[i + 1]
      /\ Len(outbox) \in Nat \ {0} /\ Head(outbox) = outbox[1]
      /\ outbox' # << >> => Len(outbox') \in Nat \ {0}
      /\ outbox' = << >> => Len(outbox') = 0
  <2>1. /\ outbox' \in Seq(0..MaxVersion) /\ Len(outbox') = Len(outbox) - 1
        /\ \A i \in 1..Len(outbox') : outbox'[i] = outbox[i + 1]
    BY <1>1, <1>2, HeadTailProperties
  <2>2. Len(outbox) \in Nat \ {0} /\ (outbox' # << >> => Len(outbox') \in Nat \ {0})
        /\ Len(<< >>) = 0
    BY <1>1, <1>2, <2>1, EmptySeq
  <2>3. Head(outbox) = outbox[1]
    BY <1>1, <1>2
  <2>4. QED BY <2>1, <2>2, <2>3
<1>6. DeletedLast'
  <2> SUFFICES ASSUME doc.at = "gone", outbox' # << >> PROVE outbox'[Len(outbox')] = 0
    BY <1>1 DEF DeletedLast
  <2>1. outbox'[Len(outbox')] = outbox[Len(outbox)]
    BY <1>5
  <2>2. QED BY <1>1, <2>1 DEF IInv, DeletedLast
<1>7. Settled'
  <2>1. work'.at = "remove" => relation' = 0
    BY <1>1 DEF IInv, Settled
  <2>2. CASE doc.at # "gone"
    BY <1>1, <2>1, <2>2, SettledLive
  <2>3. CASE doc.at = "gone" /\ Head(outbox) = 0
    BY <1>3, <2>1, <2>3, SettledWaiting
  <2>4. CASE doc.at = "gone" /\ Head(outbox) # 0
    <3>1. outbox[Len(outbox)] = 0
      BY <1>1, <2>4 DEF IInv, DeletedLast
    <3>2. outbox' # << >>
      BY <1>5, <2>4, <3>1
    <3>3. QED BY <2>1, <3>2, SettledWaiting
  <2>5. QED BY <2>2, <2>3, <2>4
<1>8. DocumentOK' /\ RowsOK' /\ RevertOK' /\ wiki' \in WikiType /\ CountsOK'
  BY <1>1, <1>5 DEF IInv, DocumentOK, RowsOK, RevertOK, CountsOK
<1>9. QED BY <1>4, <1>6, <1>7, <1>8 DEF IInv
(***************************************************************************)
(* The worker                                                              *)
(***************************************************************************)

LEMMA WorkerStep ==
    ASSUME IInv, UNCHANGED <<doc, outbox, revert>>, QueueOK', RowsOK', wiki' \in WikiType,
           CountsOK', Settled', Len(decisions) =< Len(decisions')
    PROVE  IInv'
<1>1. Len(decisions) \in Nat /\ Len(decisions') \in Nat
  BY LenProperties DEF IInv, RowsOK
<1>2. RevertOK'
  BY <1>1 DEF IInv, RevertOK
<1>3. QED BY <1>2 DEF IInv, DocumentOK, DeletedLast

\* A decision is added that is not carried out yet.
LEMMA DecisionAdded ==
    ASSUME decisions \in Seq(Decisions), NEW v \in 0..MaxVersion,
           NEW by \in {"entry", "resolution"}, NEW status \in {"auto", "linked", "awaiting_review"},
           decisions' = Append(decisions, Decision(v, by, status))
    PROVE  /\ decisions' \in Seq(Decisions) /\ Len(decisions) =< Len(decisions')
           /\ Confirmed' \subseteq Confirmed
           /\ Latest + 1 \in Nat
<1> DEFINE x == Decision(v, by, status)
<1>1. x \in Decisions /\ x.status = status /\ decisions' = Append(decisions, x)
  BY DEF Decision, Decisions, Ledgers
<1> HIDE DEF x
<1>2. /\ decisions' \in Seq(Decisions) /\ Len(decisions') = Len(decisions) + 1
      /\ decisions'[Len(decisions) + 1] = x
      /\ \A d \in 1..Len(decisions) : decisions'[d] = decisions[d]
  BY <1>1, AppendProperties
<1>3. Len(decisions) \in Nat
  BY LenProperties
<1>4. Confirmed' \subseteq Confirmed
  <2> SUFFICES ASSUME NEW d \in Confirmed' PROVE d \in Confirmed
    OBVIOUS
  <2>1. d \in 1..Len(decisions) + 1 /\ decisions'[d].status = "confirmed"
    BY <1>2 DEF Confirmed, Latest
  <2>2. d \in 1..Len(decisions)
    BY <1>1, <1>2, <1>3, <2>1
  <2>3. QED BY <1>2, <2>1, <2>2 DEF Confirmed, Latest
<1>5. QED BY <1>2, <1>3, <1>4 DEF Latest

\* One field of a decision is changed, or several.
LEMMA DecisionChanged ==
    ASSUME decisions \in Seq(Decisions), NEW d, NEW x \in Decisions,
           decisions' = [decisions EXCEPT ![d] = x]
    PROVE  /\ decisions' \in Seq(Decisions) /\ Len(decisions') = Len(decisions)
           /\ x.status # "confirmed" => Confirmed' \subseteq Confirmed
<1>1. CASE d \in 1..Len(decisions)
  <2>1. /\ decisions' \in Seq(Decisions) /\ Len(decisions') = Len(decisions)
        /\ \A e \in 1..Len(decisions) : decisions'[e] = IF e = d THEN x ELSE decisions[e]
    BY <1>1, ExceptSeq
  <2>2. QED BY <2>1 DEF Confirmed, Latest
<1>2. CASE d \notin 1..Len(decisions)
  <2>1. decisions \in [1..Len(decisions) -> Decisions]
    BY LenProperties
  <2>2. decisions' = decisions
    BY <1>2, <2>1
  <2>3. QED BY <2>2 DEF Confirmed, Latest
<1>3. QED BY <1>1, <1>2

LEMMA TwoJobsGrow ==
    ASSUME NEW q \in Seq(Jobs), NEW a \in Payloads, NEW b \in Payloads
    PROVE  Grown(q, WithJob(WithJob(q, a), b))
<1>1. Grown(q, WithJob(q, a)) /\ WithJob(q, a) \in Seq(Jobs)
  BY WithJobGrows DEF Grown
<1>2. Grown(WithJob(q, a), WithJob(WithJob(q, a), b))
  BY <1>1, WithJobGrows
<1>3. QED BY <1>1, <1>2, GrownTwice

\* The job that is taken, and the queue without it.
LEMMA Taken ==
    ASSUME IInv, work.at = "idle", NEW k \in 1..Len(jobs)
    PROVE  /\ Running \subseteq {k} /\ jobs[k] \in Jobs /\ jobs[k].payload \in Payloads
           /\ Without(k) = RemoveAt(jobs, k)
           /\ Without(k) \in Seq(Jobs) /\ Grown(Without(k), Without(k))
           /\ jobs[k].payload.version \in 0..MaxVersion
           /\ jobs[k].payload.rooms \in SUBSET Rooms
<1>1. jobs[k] \in Jobs
  BY ElementOfSeq DEF IInv, QueueOK
<1>2. jobs[k].payload \in Payloads
  BY <1>1 DEF Jobs
<1>3. QED BY <1>1, <1>2, Removed, GrownSelf DEF IInv, QueueOK, OneJob, Without, Payloads

\* A job is passed over.
LEMMA PassedOver ==
    ASSUME IInv, work.at = "idle", NEW k \in 1..Len(jobs), jobs[k].payload.kind # "cleanup",
           Complete(Without(k)), UNCHANGED <<store, wiki, bounds, doc, outbox, revert>>
    PROVE  IInv'
<1>1. jobs' = Without(k) /\ work' = Idle
  BY DEF Complete
<1>2. QueueOK' /\ (Waiting(jobs) => Waiting(jobs'))
  BY <1>1, Taken, QueueEnds DEF IInv
<1>3. Settled'
  BY <1>1, <1>2, Idleness, SettledKeeps DEF IInv, Confirmed, Latest, store, bounds
<1>4. RowsOK' /\ CountsOK' /\ Len(decisions') = Len(decisions) /\ Len(decisions) \in Nat
  BY LenProperties DEF IInv, RowsOK, CountsOK, store, bounds
<1>5. QED BY <1>2, <1>3, <1>4, WorkerStep DEF IInv, store

\* A job is begun that has to await something.
LEMMA Begun ==
    ASSUME IInv, work.at = "idle", NEW k \in 1..Len(jobs), jobs' = Started(k),
           work' \in WorkType, work'.at # "idle", jobs[k].payload.kind = Doing(work'.at),
           doc.at # "gone" \/ work'.at = "extract", work'.at # "remove",
           UNCHANGED <<store, wiki, bounds, doc, outbox, revert>>
    PROVE  IInv'
<1>1. QueueOK' /\ (Waiting(jobs) => Waiting(jobs'))
  BY QueueStarts DEF IInv
<1>2. Settled'
  <2>1. CASE doc.at # "gone"
    BY <2>1, SettledLive
  <2>2. CASE work'.at = "extract"
    BY <1>1, <2>2, SettledKeeps DEF IInv, Confirmed, Latest, store, bounds
  <2>3. QED BY <2>1, <2>2
<1>3. RowsOK' /\ CountsOK' /\ Len(decisions') = Len(decisions) /\ Len(decisions) \in Nat
  BY LenProperties DEF IInv, RowsOK, CountsOK, store, bounds
<1>4. QED BY <1>1, <1>2, <1>3, WorkerStep DEF IInv, store

LEMMA RouteEntryKeeps ==
    ASSUME IInv, work.at = "idle", NEW k \in 1..Len(jobs), RouteEntry(k),
           UNCHANGED <<doc, outbox, revert>>
    PROVE  IInv'
<1> DEFINE v == jobs[k].payload.version
<1>1. /\ doc.at # "gone" /\ jobs[k].payload.kind = "route"
      /\ decisions' = Append(decisions, Decision(v, "entry", "auto"))
      /\ jobs' = WithJob(WithJob(Without(k), IngestJob(v, Home, Latest + 1)),
                         RelationJob(v, {Home}))
      /\ work' = Idle /\ UNCHANGED <<links, relation, wiki, bounds>>
  BY DEF RouteEntry, Complete
<1>2. v \in 0..MaxVersion /\ decisions \in Seq(Decisions)
  BY Taken DEF IInv, RowsOK
<1>3. /\ decisions' \in Seq(Decisions) /\ Len(decisions) =< Len(decisions')
      /\ Latest + 1 \in Nat
  BY <1>1, <1>2, DecisionAdded
<1>4. IngestJob(v, Home, Latest + 1) \in Payloads /\ RelationJob(v, {Home}) \in Payloads
  BY <1>2, <1>3, PayloadTypes, QueueAssumption
<1>5. Grown(RemoveAt(jobs, k), jobs')
  BY <1>1, <1>4, Taken, TwoJobsGrow
<1>6. QueueOK'
  BY <1>1, <1>5, Taken, QueueEnds DEF IInv
<1>7. Settled'
  BY <1>1, Idleness, SettledLive
<1>8. RowsOK' /\ CountsOK'
  BY <1>1, <1>3 DEF IInv, RowsOK, CountsOK, bounds
<1>9. QED BY <1>1, <1>3, <1>6, <1>7, <1>8, WorkerStep DEF IInv

LEMMA RouteExtractKeeps ==
    ASSUME IInv, work.at = "idle", NEW k \in 1..Len(jobs), RouteExtract(k),
           UNCHANGED <<doc, outbox, revert>>
    PROVE  IInv'
<1>1. jobs[k].payload.kind = "route" /\ UNCHANGED <<store, wiki, bounds>>
  BY DEF RouteExtract
<1>2. CASE Complete(Without(k))
  BY <1>1, <1>2, PassedOver
<1>3. CASE jobs' = Started(k) /\ work' = [Idle EXCEPT !.at = "extract"]
  <2>1. work' \in WorkType /\ work'.at = "extract"
    BY <1>3, Idleness DEF WorkType
  <2>2. Doing(work'.at) = "route"
    BY <2>1 DEF Doing
  <2>3. QED BY <1>1, <1>3, <2>1, <2>2, Begun
<1>4. QED BY <1>2, <1>3 DEF RouteExtract

LEMMA IngestStartKeeps ==
    ASSUME IInv, work.at = "idle", NEW k \in 1..Len(jobs), IngestStart(k),
           UNCHANGED <<doc, outbox, revert>>
    PROVE  IInv'
<1> DEFINE text == [life |-> doc.life, version |-> doc.version]
<1>1. jobs[k].payload.kind = "ingest" /\ UNCHANGED <<store, wiki, bounds>>
  BY DEF IngestStart
<1>2. CASE Complete(Without(k))
  BY <1>1, <1>2, PassedOver
<1>3. CASE /\ doc.at = "live" /\ jobs' = Started(k)
           /\ work' = [Idle EXCEPT !.at = "write", !.title = doc.title, !.text = text]
  <2>1. doc.title \in Titles /\ text \in Texts
    BY DEF IInv, DocumentOK, DocType, Texts
  <2> HIDE DEF text
  <2>2. work' \in WorkType /\ work'.at = "write"
    BY <1>3, <2>1, Idleness DEF WorkType
  <2>3. Doing(work'.at) = "ingest"
    BY <2>2 DEF Doing
  <2>4. QED BY <1>1, <1>3, <2>2, <2>3, Begun
<1>4. QED BY <1>2, <1>3 DEF IngestStart, Readable

LEMMA RelationStartKeeps ==
    ASSUME IInv, work.at = "idle", NEW k \in 1..Len(jobs), RelationStart(k),
           UNCHANGED <<doc, outbox, revert>>
    PROVE  IInv'
<1>1. jobs[k].payload.kind = "relation" /\ UNCHANGED <<decisions, links, wiki, bounds>>
  BY DEF RelationStart
<1>2. CASE Complete(Without(k)) /\ UNCHANGED relation
  BY <1>1, <1>2, PassedOver DEF store
<1>3. CASE /\ doc.at = "live" /\ jobs' = Started(k) /\ work' = [Idle EXCEPT !.at = "index"]
           /\ UNCHANGED relation
  <2>1. work' \in WorkType /\ work'.at = "index"
    BY <1>3, Idleness DEF WorkType
  <2>2. Doing(work'.at) = "relation"
    BY <2>1 DEF Doing
  <2>3. QED BY <1>1, <1>3, <2>1, <2>2, Begun DEF store
<1>4. CASE doc.at = "live" /\ relation' = jobs[k].payload.version /\ Complete(Without(k))
  <2>1. jobs' = Without(k) /\ work' = Idle
    BY <1>4 DEF Complete
  <2>2. QueueOK'
    BY <2>1, Taken, QueueEnds DEF IInv
  <2>3. Settled'
    BY <1>4, <2>1, Idleness, SettledLive
  <2>4. RowsOK' /\ CountsOK' /\ Len(decisions') = Len(decisions) /\ Len(decisions) \in Nat
    BY <1>1, <1>4, Taken, LenProperties DEF IInv, RowsOK, CountsOK, bounds
  <2>5. QED BY <1>1, <2>2, <2>3, <2>4, WorkerStep DEF IInv
<1>5. QED BY <1>2, <1>3, <1>4 DEF RelationStart
LEMMA CleanupStartKeeps ==
    ASSUME IInv, work.at = "idle", NEW k \in 1..Len(jobs), CleanupStart(k),
           UNCHANGED <<doc, outbox, revert>>
    PROVE  IInv'
<1>1. /\ jobs[k].payload.kind = "cleanup" /\ links' = {} /\ relation' = 0
      /\ UNCHANGED <<decisions, wiki, bounds>>
  BY DEF CleanupStart
<1>2. RowsOK' /\ CountsOK' /\ Len(decisions') = Len(decisions) /\ Len(decisions) \in Nat
      /\ Confirmed' = Confirmed
  BY <1>1, QueueAssumption, LenProperties DEF IInv, RowsOK, CountsOK, bounds, Confirmed, Latest
<1>3. CASE Confirmed = {} /\ jobs' = Without(k) /\ work' = Idle
  <2>1. QueueOK'
    BY <1>3, Taken, QueueEnds DEF IInv
  <2>2. Settled'
    BY <1>1, <1>2, <1>3, Idleness DEF Settled
  <2>3. QED BY <1>1, <1>2, <2>1, <2>2, WorkerStep DEF IInv
<1>4. CASE /\ jobs' = Started(k)
           /\ work' = [Idle EXCEPT !.at = "remove",
                          !.todo = UNION {{<<r, decisions[d].ledger[r]>> : r \in Placed(d)} :
                                              d \in Confirmed}]
  <2> DEFINE todo == UNION {{<<r, decisions[d].ledger[r]>> : r \in Placed(d)} : d \in Confirmed}
  <2>1. todo \in SUBSET (Rooms \X Titles)
    <3> SUFFICES ASSUME NEW d \in Confirmed, NEW r \in Placed(d)
                 PROVE  r \in Rooms /\ decisions[d].ledger[r] \in Titles
      OBVIOUS
    <3>1. decisions[d] \in Decisions
      BY ElementOfSeq DEF IInv, RowsOK, Confirmed, Latest
    <3>2. QED BY <3>1 DEF Placed, Decisions, Ledgers
  <2> HIDE DEF todo
  <2>2. work' = [Idle EXCEPT !.at = "remove", !.todo = todo]
    BY <1>4 DEF todo
  <2>3. work' \in WorkType /\ work'.at = "remove"
    BY <2>1, <2>2, Idleness DEF WorkType
  <2>4. Doing(work'.at) = "cleanup"
    BY <2>3 DEF Doing
  <2>5. QueueOK' /\ (Waiting(jobs) => Waiting(jobs'))
    BY <1>1, <1>4, <2>3, <2>4, QueueStarts DEF IInv
  <2>6. Settled'
    <3>1. Waiting(jobs)
      BY <1>1 DEF Waiting
    <3>2. QED BY <1>1, <2>5, <3>1, SettledWaiting
  <2>7. QED BY <1>1, <1>2, <2>5, <2>6, WorkerStep DEF IInv
<1>5. QED BY <1>3, <1>4 DEF CleanupStart, Complete

\* The job that runs ends, and has added nothing to a document that is gone.
LEMMA Ended ==
    ASSUME IInv, work.at \notin {"idle", "remove"}, Grown(Others, jobs'), work' = Idle,
           relation' = relation, Confirmed' \subseteq Confirmed, gaveUp \subseteq gaveUp',
           RowsOK', CountsOK', wiki' \in WikiType, Len(decisions) =< Len(decisions'),
           UNCHANGED <<doc, outbox, revert>>
    PROVE  IInv'
<1>1. PICK k \in 1..Len(jobs) :
          /\ Running = {k} /\ jobs[k].payload.kind = Doing(work.at) /\ Others = RemoveAt(jobs, k)
  BY TheJob DEF IInv
<1>2. Doing(work.at) # "cleanup"
  <2>1. work.at \in {"extract", "write", "build", "index"}
    BY DEF IInv, QueueOK, WorkType
  <2>2. QED BY <2>1 DEF Doing
<1>3. QueueOK' /\ (Waiting(jobs) => Waiting(jobs'))
  BY <1>1, <1>2, QueueEnds DEF IInv
<1>4. Settled'
  BY <1>3, Idleness, SettledKeeps DEF IInv
<1>5. QED BY <1>3, <1>4, WorkerStep

\* What is awaited for an ingest or the projection is awaited for a document
\* that was there, so that its cleanup is still to come.
LEMMA EndedWritten ==
    ASSUME IInv, work.at \in {"build", "index"}, jobs' = Others, work' = Idle,
           RowsOK', CountsOK', wiki' \in WikiType, Len(decisions) =< Len(decisions'),
           UNCHANGED <<doc, outbox, revert>>
    PROVE  IInv'
<1>1. PICK k \in 1..Len(jobs) :
          /\ Running = {k} /\ jobs[k].payload.kind = Doing(work.at) /\ Others = RemoveAt(jobs, k)
  BY TheJob DEF IInv
<1>2. Doing(work.at) # "cleanup"
  BY DEF Doing
<1>3. Grown(RemoveAt(jobs, k), jobs')
  BY <1>1, Removed, GrownSelf DEF IInv, QueueOK
<1>4. QueueOK' /\ (Waiting(jobs) => Waiting(jobs'))
  BY <1>1, <1>2, <1>3, QueueEnds DEF IInv
<1>5. Settled'
  BY <1>4, Idleness DEF IInv, Settled, Served
<1>6. QED BY <1>4, <1>5, WorkerStep

\* The queue without the job that runs.
LEMMA OthersType ==
    ASSUME IInv, work.at # "idle"
    PROVE  /\ Others \in Seq(Jobs) /\ Grown(Others, Others) /\ Job \in Jobs
           /\ Job.payload \in Payloads /\ Job.payload.version \in 0..MaxVersion
           /\ Job.payload.kind = Doing(work.at) /\ Job.tries \in 0..(MaxTries - 1)
<1>1. PICK k \in 1..Len(jobs) :
          /\ Running = {k} /\ jobs[k].payload.kind = Doing(work.at)
          /\ Job = jobs[k] /\ Others = RemoveAt(jobs, k) /\ jobs[k] \in Jobs
  BY TheJob DEF IInv
<1>2. Others \in Seq(Jobs)
  BY <1>1, Removed DEF IInv, QueueOK
<1>3. QED BY <1>1, <1>2, GrownSelf DEF Jobs, Payloads

LEMMA RouteDecideKeeps ==
    ASSUME IInv, RouteDecide, UNCHANGED <<doc, outbox, revert>>
    PROVE  IInv'
<1> DEFINE v == Job.payload.version
<1>1. work.at = "extract" /\ UNCHANGED <<relation, wiki, bounds>>
  BY DEF RouteDecide
<1>2. /\ Others \in Seq(Jobs) /\ Grown(Others, Others) /\ v \in 0..MaxVersion
      /\ decisions \in Seq(Decisions) /\ links \subseteq {"resolution", "user"}
  BY <1>1, OthersType DEF IInv, RowsOK
<1> HIDE DEF v
<1>3. ASSUME NEW status \in {"auto", "linked", "awaiting_review"},
             decisions' = Append(decisions, Decision(v, "resolution", status)),
             links' \subseteq {"resolution", "user"}, Grown(Others, jobs'), work' = Idle
      PROVE  IInv'
  <2>1. /\ decisions' \in Seq(Decisions) /\ Len(decisions) =< Len(decisions')
        /\ Confirmed' \subseteq Confirmed
    BY <1>2, <1>3, DecisionAdded
  <2>2. RowsOK' /\ CountsOK' /\ wiki' \in WikiType /\ gaveUp' = gaveUp
    BY <1>1, <1>3, <2>1 DEF IInv, RowsOK, CountsOK, bounds
  <2>3. QED BY <1>1, <1>3, <2>1, <2>2, Ended
<1>4. CASE /\ links' \in {links, links \ {"resolution"}}
           /\ decisions' = Append(decisions, Decision(v, "resolution", "awaiting_review"))
           /\ Complete(Others)
  BY <1>2, <1>3, <1>4 DEF Complete
<1>5. CASE /\ links' = links \cup {"resolution"}
           /\ decisions' = Append(decisions, Decision(v, "resolution", "linked"))
           /\ Complete(Others)
  BY <1>2, <1>3, <1>5 DEF Complete
<1>6. ASSUME NEW rs \in SUBSET Rooms \ {{}}, links' = links \cup {"resolution"},
             decisions' = Append(decisions, Decision(v, "resolution", "auto")),
             Complete(WithJob(WithIngests(Others, v, rs, Latest + 1), RelationJob(v, rs)))
      PROVE  IInv'
  <2> DEFINE q == WithIngests(Others, v, rs, Latest + 1)
  <2>1. rs \in SUBSET Rooms /\ Latest + 1 \in Nat
    BY <1>2, LenProperties DEF Latest
  <2>2. Grown(Others, q) /\ RelationJob(v, rs) \in Payloads
    BY <1>2, <2>1, WithIngestsGrows, PayloadTypes
  <2>3. q \in Seq(Jobs)
    BY <2>2 DEF Grown
  <2> HIDE DEF q
  <2>4. Grown(q, WithJob(q, RelationJob(v, rs)))
    BY <2>2, <2>3, WithJobGrows
  <2>5. Grown(Others, WithJob(q, RelationJob(v, rs)))
    BY <1>2, <2>2, <2>4, GrownTwice
  <2>6. jobs' = WithJob(q, RelationJob(v, rs)) /\ work' = Idle
    BY <1>6 DEF Complete, q
  <2>7. QED BY <1>2, <1>3, <1>6, <2>5, <2>6
<1>7. QED BY <1>4, <1>5, <1>6 DEF RouteDecide, v

\* A text in a wiki is replaced, or removed.
LEMMA WikiChanged ==
    ASSUME wiki \in WikiType, NEW r \in Rooms, NEW t, NEW x \in Texts \cup {NoText},
           wiki' = [wiki EXCEPT ![r][t] = x]
    PROVE  wiki' \in WikiType
<1> DEFINE T == Texts \cup {NoText}
           row == [wiki[r] EXCEPT ![t] = x]
<1>1. wiki[r] \in [Titles -> T] /\ x \in T
  BY DEF WikiType
<1> HIDE DEF T
<1>2. row \in [Titles -> T]
  BY <1>1
<1> HIDE DEF row
<1>3. [wiki EXCEPT ![r] = row] \in [Rooms -> [Titles -> T]]
  BY <1>2 DEF WikiType, T
<1>4. QED BY <1>3 DEF WikiType, T, row

LEMMA IngestWriteKeeps ==
    ASSUME IInv, IngestWrite, UNCHANGED <<doc, outbox, revert>>
    PROVE  IInv'
<1>1. /\ work.at = "write" /\ wiki' = [wiki EXCEPT ![JobRoom][work.title] = work.text]
      /\ work' = [work EXCEPT !.at = "build"] /\ UNCHANGED <<jobs, store, bounds>>
  BY DEF IngestWrite
<1>2. work \in WorkType /\ work' \in WorkType /\ work'.at = "build"
      /\ work.text \in Texts \cup {NoText}
  BY <1>1 DEF IInv, QueueOK, WorkType
<1>3. Doing(work'.at) = Doing(work.at)
  BY <1>1, <1>2 DEF Doing
<1>4. QueueOK' /\ (Waiting(jobs) => Waiting(jobs'))
  BY <1>1, <1>2, <1>3, QueueGoesOn DEF IInv
<1>5. Settled'
  BY <1>1, <1>2, <1>4 DEF IInv, Settled, Served
<1>6. wiki' \in WikiType
  <2>1. CASE JobRoom \in Rooms
    BY <1>1, <1>2, <2>1, WikiChanged DEF IInv
  <2>2. CASE JobRoom \notin Rooms
    BY <1>1, <2>2 DEF IInv, WikiType
  <2>3. QED BY <2>1, <2>2
<1>7. RowsOK' /\ CountsOK' /\ Len(decisions') = Len(decisions) /\ Len(decisions) \in Nat
  BY <1>1, LenProperties DEF IInv, RowsOK, CountsOK, store, bounds
<1>8. QED BY <1>4, <1>5, <1>6, <1>7, WorkerStep

LEMMA IngestConfirmKeeps ==
    ASSUME IInv, IngestConfirm, UNCHANGED <<doc, outbox, revert>>
    PROVE  IInv'
<1> DEFINE d == Job.payload.decision
           x == [decisions[d] EXCEPT !.status = "confirmed", !.ledger[JobRoom] = work.title]
<1>1. /\ work.at = "build" /\ decisions' = [decisions EXCEPT ![d] = x]
      /\ jobs' = Others /\ work' = Idle /\ UNCHANGED <<links, relation, wiki, bounds>>
  BY DEF IngestConfirm, Complete
<1>2. decisions \in Seq(Decisions) /\ work.title \in Titles \cup {None}
      /\ Len(decisions) \in Nat
  BY LenProperties DEF IInv, RowsOK, QueueOK, WorkType
<1>3. decisions' \in Seq(Decisions) /\ Len(decisions') = Len(decisions)
  <2>1. CASE d \in 1..Len(decisions)
    <3>1. decisions[d] \in Decisions
      BY <1>2, <2>1, ElementOfSeq
    <3>2. [decisions[d].ledger EXCEPT ![JobRoom] = work.title] \in Ledgers
      BY <1>2, <3>1 DEF Decisions, Ledgers
    <3>3. x \in Decisions
      BY <3>1, <3>2 DEF Decisions
    <3> HIDE DEF x
    <3>4. QED BY <1>1, <1>2, <3>3, DecisionChanged
  <2>2. CASE d \notin 1..Len(decisions)
    <3>1. decisions \in [1..Len(decisions) -> Decisions]
      BY <1>2, LenProperties
    <3> HIDE DEF x, d
    <3>2. decisions' = decisions
      BY <1>1, <2>2, <3>1
    <3>3. QED BY <1>2, <3>2
  <2>3. QED BY <2>1, <2>2
<1>4. RowsOK' /\ CountsOK' /\ wiki' \in WikiType
  BY <1>1, <1>3 DEF IInv, RowsOK, CountsOK, bounds
<1>5. QED BY <1>1, <1>2, <1>3, <1>4, EndedWritten

LEMMA RelationIndexKeeps ==
    ASSUME IInv, RelationIndex, UNCHANGED <<doc, outbox, revert>>
    PROVE  IInv'
<1>1. /\ work.at = "index" /\ relation' = Job.payload.version
      /\ jobs' = Others /\ work' = Idle /\ UNCHANGED <<decisions, links, wiki, bounds>>
  BY DEF RelationIndex, Complete
<1>2. RowsOK' /\ CountsOK' /\ wiki' \in WikiType /\ Len(decisions') = Len(decisions)
      /\ Len(decisions) \in Nat
  BY <1>1, OthersType, LenProperties DEF IInv, RowsOK, CountsOK, bounds
<1>3. QED BY <1>1, <1>2, EndedWritten
LEMMA CleanupRemoveKeeps ==
    ASSUME IInv, CleanupRemove, UNCHANGED <<doc, outbox, revert>>
    PROVE  IInv'
<1>1. PICK x \in work.todo :
          /\ wiki' = [wiki EXCEPT ![x[1]][x[2]] = NoText]
          /\ work' = [work EXCEPT !.todo = work.todo \ {x}]
  BY DEF CleanupRemove
<1>2. work.at = "remove" /\ UNCHANGED <<jobs, store, bounds>>
  BY DEF CleanupRemove
<1>3. work \in WorkType /\ work.todo \in SUBSET (Rooms \X Titles) /\ x[1] \in Rooms
  BY <1>1 DEF IInv, QueueOK, WorkType
<1>4. work' \in WorkType /\ work'.at = "remove"
  <2>1. work.todo \ {x} \in SUBSET (Rooms \X Titles)
    BY <1>3
  <2>2. QED BY <1>1, <1>2, <1>3, <2>1 DEF WorkType
<1>5. Doing(work'.at) = Doing(work.at)
  BY <1>2, <1>4
<1>6. QueueOK' /\ (Waiting(jobs) => Waiting(jobs'))
  BY <1>2, <1>4, <1>5, QueueGoesOn DEF IInv
<1>7. wiki' \in WikiType
  BY <1>1, <1>3, WikiChanged DEF IInv
<1>8. Settled'
  <2>1. relation' = 0 /\ relation' = relation
    BY <1>2 DEF IInv, Settled, store
  <2>2. QED BY <1>2, <1>4, <1>6, <2>1, SettledKeeps DEF IInv, Confirmed, Latest, store, bounds
<1>9. RowsOK' /\ CountsOK' /\ Len(decisions') = Len(decisions) /\ Len(decisions) \in Nat
  BY <1>2, LenProperties DEF IInv, RowsOK, CountsOK, store, bounds
<1>10. QED BY <1>6, <1>7, <1>8, <1>9, WorkerStep

\* The cleanup that runs ends; the worker is idle.
LEMMA CleanupEnded ==
    ASSUME IInv, work.at = "remove", jobs' = Others, work' = Idle,
           relation' = relation, "cleanup" \in gaveUp' \/ Confirmed' = {},
           RowsOK', CountsOK', wiki' \in WikiType, Len(decisions) =< Len(decisions'),
           UNCHANGED <<doc, outbox, revert>>
    PROVE  IInv'
<1>1. PICK k \in 1..Len(jobs) : Running = {k} /\ Others = RemoveAt(jobs, k)
  BY TheJob DEF IInv
<1>2. Grown(RemoveAt(jobs, k), jobs')
  BY <1>1, Removed, GrownSelf DEF IInv, QueueOK
<1>3. QueueOK'
  BY <1>1, <1>2, QueueEnds DEF IInv
<1>4. Settled'
  BY Idleness DEF IInv, Settled
<1>5. QED BY <1>3, <1>4, WorkerStep

LEMMA CleanupEndKeeps ==
    ASSUME IInv, CleanupEnd, UNCHANGED <<doc, outbox, revert>>
    PROVE  IInv'
<1> DEFINE x(d) == IF d \in Confirmed THEN [decisions[d] EXCEPT !.status = "reverted"]
                   ELSE decisions[d]
<1>1. /\ work.at = "remove" /\ decisions' = [d \in 1..Latest |-> x(d)]
      /\ jobs' = Others /\ work' = Idle /\ UNCHANGED <<links, relation, wiki, bounds>>
  BY DEF CleanupEnd, Complete
<1>2. Latest \in Nat /\ \A d \in 1..Latest : decisions[d] \in Decisions
  BY ElementOfSeq, LenProperties DEF Latest, IInv, RowsOK
<1>3. \A d \in 1..Latest : x(d) \in Decisions /\ x(d).status # "confirmed"
  <2> TAKE d \in 1..Latest
  <2>1. CASE d \in Confirmed
    BY <1>2, <2>1 DEF Decisions
  <2>2. CASE d \notin Confirmed
    BY <1>2, <2>2 DEF Confirmed
  <2>3. QED BY <2>1, <2>2
<1> HIDE DEF x
<1>4. decisions' \in Seq(Decisions) /\ Len(decisions') = Latest
      /\ \A d \in 1..Latest : decisions'[d] = x(d)
  BY <1>1, <1>2, <1>3
<1>5. Confirmed' = {}
  BY <1>3, <1>4 DEF Confirmed, Latest
<1>6. RowsOK' /\ CountsOK' /\ wiki' \in WikiType /\ Len(decisions) =< Len(decisions')
  BY <1>1, <1>2, <1>4 DEF IInv, RowsOK, CountsOK, bounds, Latest
<1>7. QED BY <1>1, <1>5, <1>6, CleanupEnded

\* The job is put off.
LEMMA LaterKeeps ==
    ASSUME IInv, NEW tries \in 0..(MaxTries - 1), work.at # "idle", Later(tries), CountsOK',
           gaveUp' = gaveUp, UNCHANGED <<store, wiki, doc, outbox, revert>>
    PROVE  IInv'
<1> DEFINE x(k) == IF k \in Running THEN [jobs[k] EXCEPT !.at = "delayed", !.tries = tries]
                   ELSE jobs[k]
<1>1. jobs' = [k \in 1..Len(jobs) |-> x(k)] /\ work' = Idle
  BY DEF Later
<1>2. Len(jobs) \in Nat /\ \A k \in 1..Len(jobs) : jobs[k] \in Jobs
  BY ElementOfSeq, LenProperties DEF IInv, QueueOK
<1>3. \A k \in 1..Len(jobs) :
          x(k) \in Jobs /\ x(k).payload = jobs[k].payload /\ x(k).at # "running"
  <2> TAKE k \in 1..Len(jobs)
  <2>1. CASE k \in Running
    BY <1>2, <2>1 DEF Jobs
  <2>2. CASE k \notin Running
    BY <1>2, <2>2 DEF Running
  <2>3. QED BY <2>1, <2>2
<1> HIDE DEF x
<1>4. jobs' \in Seq(Jobs) /\ Len(jobs') = Len(jobs)
      /\ \A k \in 1..Len(jobs) : jobs'[k] = x(k)
  BY <1>1, <1>2, <1>3
<1>5. QueueOK' /\ (Waiting(jobs) => Waiting(jobs'))
  BY <1>1, <1>3, <1>4, Idleness, QueueWaits DEF IInv
<1>6. Settled'
  BY <1>1, <1>5, Idleness, SettledKeeps DEF IInv, Confirmed, Latest, store
<1>7. RowsOK' /\ Len(decisions') = Len(decisions) /\ Len(decisions) \in Nat
      /\ wiki' \in WikiType
  BY LenProperties DEF IInv, RowsOK, store
<1>8. QED BY <1>5, <1>6, <1>7, WorkerStep

LEMMA BusyKeeps ==
    ASSUME IInv, Busy, UNCHANGED <<doc, outbox, revert>>
    PROVE  IInv'
<1>1. work.at # "idle"
  BY DEF Busy
<1>2. QED BY <1>1, OthersType, LaterKeeps DEF Busy, bounds, IInv, CountsOK

LEMMA FailKeeps ==
    ASSUME IInv, Fail, UNCHANGED <<doc, outbox, revert>>
    PROVE  IInv'
<1>1. /\ work.at # "idle" /\ faults < MaxFaults /\ faults' = faults + 1
      /\ UNCHANGED <<store, wiki, hands>>
  BY DEF Fail
<1>2. /\ faults' \in 0..MaxFaults /\ Job.tries \in 0..(MaxTries - 1) /\ MaxTries \in Nat
      /\ Job.payload.kind \in Kinds /\ Job.payload.kind = Doing(work.at)
  BY <1>1, QueueAssumption, OthersType DEF IInv, CountsOK, Payloads
<1>3. CASE Job.tries + 1 < MaxTries /\ Later(Job.tries + 1) /\ UNCHANGED gaveUp
  <2>1. Job.tries + 1 \in 0..(MaxTries - 1)
    BY <1>2, <1>3
  <2>2. CountsOK'
    BY <1>1, <1>2, <1>3 DEF IInv, CountsOK
  <2>3. QED BY <1>1, <1>3, <2>1, <2>2, LaterKeeps
<1>4. CASE Complete(Others) /\ gaveUp' = gaveUp \cup {Job.payload.kind}
  <2>1. CountsOK'
    BY <1>1, <1>2, <1>4 DEF IInv, CountsOK
  <2>2. RowsOK' /\ wiki' \in WikiType /\ Len(decisions) =< Len(decisions')
        /\ Confirmed' = Confirmed /\ relation' = relation
    BY <1>1, LenProperties DEF IInv, RowsOK, store, Confirmed, Latest
  <2>3. jobs' = Others /\ work' = Idle
    BY <1>4 DEF Complete
  <2>4. CASE work.at = "remove"
    <3>1. "cleanup" \in gaveUp'
      BY <1>2, <1>4, <2>4 DEF Doing
    <3>2. QED BY <2>1, <2>2, <2>3, <2>4, <3>1, CleanupEnded
  <2>5. CASE work.at # "remove"
    <3>1. Grown(Others, jobs')
      BY <1>1, <2>3, OthersType
    <3>2. QED BY <1>1, <1>4, <2>1, <2>2, <2>3, <2>5, <3>1, Ended
  <2>6. QED BY <2>4, <2>5
<1>5. QED BY <1>3, <1>4 DEF Fail

LEMMA WorkerKeeps ==
    ASSUME IInv, Worker
    PROVE  IInv'
<1>1. UNCHANGED <<doc, outbox, revert>>
  BY DEF Worker
<1>2. ASSUME NEW k \in 1..Len(jobs), Take(k)
      PROVE  IInv'
  BY <1>1, <1>2, RouteEntryKeeps, RouteExtractKeeps, IngestStartKeeps, RelationStartKeeps,
     CleanupStartKeeps DEF Take
<1>3. CASE Answer
  BY <1>1, <1>3, RouteDecideKeeps, IngestWriteKeeps, IngestConfirmKeeps, RelationIndexKeeps,
     CleanupRemoveKeeps, CleanupEndKeeps DEF Answer
<1>4. QED BY <1>1, <1>2, <1>3, BusyKeeps, FailKeeps DEF Worker

LEMMA RipenKeeps ==
    ASSUME IInv, Ripen
    PROVE  IInv'
<1>1. PICK k \in 1..Len(jobs) : jobs[k].at = "delayed" /\ jobs' = [jobs EXCEPT ![k].at = "ready"]
  BY DEF Ripen
<1>2. work' = work
      /\ UNCHANGED <<doc, outbox, decisions, links, relation, wiki, revert, hands, faults, gaveUp>>
  BY DEF Ripen, store, bounds
<1> DEFINE x == [jobs[k] EXCEPT !.at = "ready"]
<1>3. jobs \in Seq(Jobs) /\ jobs[k] \in Jobs
  BY ElementOfSeq DEF IInv, QueueOK
<1>4. x \in Jobs /\ x.at = "ready" /\ x.payload = jobs[k].payload
  BY <1>3 DEF Jobs
<1> HIDE DEF x
<1>5. /\ jobs' \in Seq(Jobs) /\ Len(jobs') = Len(jobs)
      /\ \A j \in 1..Len(jobs) : jobs'[j] = IF j = k THEN x ELSE jobs[j]
  BY <1>1, <1>3, <1>4, ExceptSeq DEF x
<1>6. \A j \in 1..Len(jobs) : /\ jobs'[j].payload = jobs[j].payload
                              /\ jobs'[j].at = "running" <=> jobs[j].at = "running"
  BY <1>1, <1>4, <1>5
<1>7. QueueOK' /\ (Waiting(jobs) => Waiting(jobs'))
  BY <1>2, <1>5, <1>6, QueueWaits DEF IInv
<1>8. work'.at = "remove" => relation' = 0
  BY <1>2 DEF IInv, Settled
<1>9. Settled'
  BY <1>2, <1>7, <1>8, SettledKeeps DEF IInv, Confirmed, Latest
<1>10. DocumentOK' /\ DeletedLast' /\ RowsOK' /\ RevertOK' /\ wiki' \in WikiType /\ CountsOK'
  BY <1>2 DEF IInv, DocumentOK, DeletedLast, RowsOK, RevertOK, CountsOK
<1>11. QED BY <1>7, <1>9, <1>10 DEF IInv

LEMMA RestartKeeps ==
    ASSUME IInv, Restart
    PROVE  IInv'
<1> DEFINE x(k) == [jobs[k] EXCEPT !.at = "ready", !.tries = 0]
<1>1. /\ jobs' = [k \in 1..Len(jobs) |-> x(k)] /\ work' = Idle /\ revert' = NoRevert
      /\ faults < MaxFaults /\ faults' = faults + 1
      /\ UNCHANGED <<doc, outbox, decisions, links, relation, wiki, hands, gaveUp>>
  BY DEF Restart, store
<1>2. Len(jobs) \in Nat /\ \A k \in 1..Len(jobs) : jobs[k] \in Jobs
  BY ElementOfSeq, LenProperties DEF IInv, QueueOK
<1>3. \A k \in 1..Len(jobs) :
          x(k) \in Jobs /\ x(k).payload = jobs[k].payload /\ x(k).at = "ready"
  <2>1. 0 \in 0..(MaxTries - 1)
    BY QueueAssumption
  <2>2. QED BY <1>2, <2>1 DEF Jobs
<1> HIDE DEF x
<1>4. jobs' \in Seq(Jobs) /\ Len(jobs') = Len(jobs)
      /\ \A k \in 1..Len(jobs) : jobs'[k] = x(k)
  BY <1>1, <1>2, <1>3
<1>5. QueueOK' /\ (Waiting(jobs) => Waiting(jobs'))
  <2>1. \A k \in 1..Len(jobs) : jobs[k].at = "running" => work' # work
    BY <1>1, Idleness DEF IInv, QueueOK, OneJob, Running
  <2>2. QED BY <1>1, <1>3, <1>4, <2>1, QueueWaits DEF IInv
<1>6. Settled'
  BY <1>1, <1>5, Idleness, SettledKeeps DEF IInv, Confirmed, Latest
<1>7. CountsOK'
  BY <1>1, QueueAssumption DEF IInv, CountsOK
<1>8. Len(decisions) \in Nat
  BY LenProperties DEF IInv, RowsOK
<1>9. DocumentOK' /\ DeletedLast' /\ RowsOK' /\ RevertOK' /\ wiki' \in WikiType
  BY <1>1, <1>8 DEF IInv, DocumentOK, DeletedLast, RowsOK, RevertOK, NoRevert
<1>10. QED BY <1>5, <1>6, <1>7, <1>9 DEF IInv
(***************************************************************************)
(* The user and the decisions                                              *)
(***************************************************************************)

\* A step that adds jobs, and confirms and projects nothing.
LEMMA UserStep ==
    ASSUME IInv, Grown(jobs, jobs'), decisions' \in Seq(Decisions),
           Len(decisions') = Len(decisions), Confirmed' \subseteq Confirmed,
           links' \subseteq {"resolution", "user"}, relation' = relation, wiki' \in WikiType,
           RevertOK', CountsOK', gaveUp' = gaveUp, UNCHANGED <<doc, outbox, work>>
    PROVE  IInv'
<1>1. QueueOK' /\ (Waiting(jobs) => Waiting(jobs'))
  BY QueueGrows DEF IInv
<1>2. work'.at = "remove" => relation' = 0
  BY DEF IInv, Settled
<1>3. Settled'
  BY <1>1, <1>2, SettledKeeps DEF IInv
<1>4. DocumentOK' /\ DeletedLast' /\ RowsOK'
  BY DEF IInv, DocumentOK, DeletedLast, RowsOK
<1>5. QED BY <1>1, <1>3, <1>4 DEF IInv

\* The queue stays as it is, or the rows of decisions do.
LEMMA Unchanging ==
    ASSUME IInv
    PROVE  /\ Grown(jobs, jobs) /\ jobs \in Seq(Jobs) /\ decisions \in Seq(Decisions)
           /\ Len(decisions) \in Nat /\ links \subseteq {"resolution", "user"}
           /\ wiki \in WikiType /\ RevertOK /\ CountsOK
           /\ \A d \in 1..Latest : /\ decisions[d] \in Decisions
                                   /\ decisions[d].version \in 0..MaxVersion
                                   /\ Placed(d) \in SUBSET Rooms
<1>1. decisions \in Seq(Decisions) /\ Latest = Len(decisions)
  BY DEF IInv, RowsOK, Latest
<1>2. \A d \in 1..Latest : decisions[d] \in Decisions
  BY <1>1, ElementOfSeq
<1>3. QED BY <1>1, <1>2, GrownSelf, LenProperties DEF IInv, QueueOK, RowsOK, Decisions, Placed

LEMMA AttachKeeps ==
    ASSUME IInv, Attach
    PROVE  IInv'
<1>1. /\ Hand /\ Latest > 0 /\ links' = links \cup {"user"}
      /\ UNCHANGED <<doc, outbox, work, relation, wiki, revert>>
  BY DEF Attach
<1>2. CountsOK' /\ gaveUp' = gaveUp
  BY <1>1, HandCounts DEF IInv, Hand
<1>3. links' \subseteq {"resolution", "user"} /\ wiki' \in WikiType
  BY <1>1, Unchanging
<1>4. CASE UNCHANGED <<decisions, jobs>>
  <2>1. RevertOK' /\ Confirmed' = Confirmed
    BY <1>1, <1>4, Unchanging DEF RevertOK, Confirmed, Latest
  <2>2. QED BY <1>1, <1>2, <1>3, <1>4, <2>1, Unchanging, UserStep
<1>5. ASSUME NEW r \in Rooms, decisions' = [decisions EXCEPT ![Latest].status = "auto"],
             jobs' = WithJob(jobs, IngestJob(decisions[Latest].version, r, Latest))
      PROVE  IInv'
  <2> DEFINE x == [decisions[Latest] EXCEPT !.status = "auto"]
  <2>1. Latest \in 1..Latest /\ Latest = Len(decisions) /\ Latest \in Nat
    BY <1>1, Unchanging DEF Latest
  <2>2. x \in Decisions /\ x.status # "confirmed"
    BY <2>1, Unchanging DEF Decisions
  <2> HIDE DEF x
  <2>3. decisions' = [decisions EXCEPT ![Latest] = x]
    BY <1>5 DEF x
  <2>4. /\ decisions' \in Seq(Decisions) /\ Len(decisions') = Len(decisions)
        /\ Confirmed' \subseteq Confirmed
    BY <2>2, <2>3, Unchanging, DecisionChanged
  <2>5. Grown(jobs, jobs')
    BY <1>5, <2>1, Unchanging, PayloadTypes, WithJobGrows
  <2>6. RevertOK'
    BY <1>1, <2>4, Unchanging DEF RevertOK
  <2>7. QED BY <1>1, <1>2, <1>3, <2>4, <2>5, <2>6, UserStep
<1>6. QED BY <1>4, <1>5 DEF Attach

LEMMA BacklogKeeps ==
    ASSUME IInv, Backlog
    PROVE  IInv'
<1>1. /\ Hand /\ Latest > 0 /\ UNCHANGED <<doc, outbox, work, store, wiki, revert>>
  BY DEF Backlog
<1>2. PICK r \in Rooms :
          jobs' = WithJob(WithJob(jobs, IngestJob(decisions[Latest].version, r, Latest)),
                          RelationJob(decisions[Latest].version, {r} \cup Placed(Latest)))
  BY DEF Backlog
<1>3. Latest \in 1..Latest /\ Latest \in Nat
  BY <1>1, Unchanging DEF Latest
<1>4. /\ IngestJob(decisions[Latest].version, r, Latest) \in Payloads
      /\ RelationJob(decisions[Latest].version, {r} \cup Placed(Latest)) \in Payloads
  <2>1. {r} \cup Placed(Latest) \in SUBSET Rooms
    BY DEF Placed
  <2>2. QED BY <1>3, <2>1, Unchanging, PayloadTypes
<1>5. Grown(jobs, jobs')
  BY <1>2, <1>4, Unchanging, TwoJobsGrow
<1>6. CountsOK' /\ gaveUp' = gaveUp
  BY <1>1, HandCounts DEF IInv, Hand
<1>7. RevertOK' /\ Confirmed' = Confirmed
  BY <1>1, Unchanging DEF RevertOK, Confirmed, Latest, store
<1>8. QED BY <1>1, <1>5, <1>6, <1>7, Unchanging, UserStep DEF store

LEMMA RevertBeginKeeps ==
    ASSUME IInv, RevertBegin
    PROVE  IInv'
<1>1. Hand /\ UNCHANGED <<doc, outbox, jobs, work, store, wiki>>
  BY DEF RevertBegin
<1>2. PICK d \in Confirmed : revert' = [of |-> d, todo |-> Placed(d)]
  BY DEF RevertBegin
<1>3. d \in 0..Len(decisions) /\ Placed(d) \subseteq Rooms
  BY Unchanging DEF Confirmed, Latest, Placed
<1>4. RevertOK' /\ Confirmed' = Confirmed
  BY <1>1, <1>2, <1>3 DEF RevertOK, store, Confirmed, Latest
<1>5. CountsOK' /\ gaveUp' = gaveUp
  BY <1>1, HandCounts DEF IInv, Hand
<1>6. QED BY <1>1, <1>4, <1>5, Unchanging, UserStep DEF store

LEMMA RevertRemoveKeeps ==
    ASSUME IInv, RevertRemove
    PROVE  IInv'
<1>1. UNCHANGED <<doc, outbox, jobs, work, store, bounds>>
  BY DEF RevertRemove
<1>2. PICK r \in revert.todo :
          /\ wiki' = [wiki EXCEPT ![r][decisions[revert.of].ledger[r]] = NoText]
          /\ revert' = [revert EXCEPT !.todo = revert.todo \ {r}]
  BY DEF RevertRemove
<1>3. r \in Rooms /\ revert.of \in 0..Len(decisions) /\ revert.todo \subseteq Rooms
  BY Unchanging DEF RevertOK
<1>4. wiki' \in WikiType
  BY <1>2, <1>3, Unchanging, WikiChanged
<1>5. RevertOK'
  <2>1. revert \in [of : 0..Len(decisions), todo : SUBSET Rooms]
    BY DEF IInv, RevertOK
  <2>2. QED BY <1>1, <1>2, <1>3, <2>1 DEF RevertOK, store
<1>6. Confirmed' = Confirmed /\ CountsOK' /\ gaveUp' = gaveUp
  BY <1>1, Unchanging DEF Confirmed, Latest, store, bounds, CountsOK
<1>7. QED BY <1>1, <1>4, <1>5, <1>6, Unchanging, UserStep DEF store

LEMMA RevertEndKeeps ==
    ASSUME IInv, RevertEnd
    PROVE  IInv'
<1> DEFINE x == [decisions[revert.of] EXCEPT !.status = "reverted"]
<1>1. /\ revert.of # 0 /\ revert' = NoRevert
      /\ decisions' = [decisions EXCEPT ![revert.of] = x]
      /\ jobs' = WithJob(jobs, RouteJob(decisions[revert.of].version, 0))
      /\ UNCHANGED <<doc, outbox, work, links, relation, wiki, bounds>>
  BY DEF RevertEnd
<1>2. revert.of \in 1..Latest /\ Len(decisions) \in Nat /\ 0 \in 0..MaxLives
  BY <1>1, Unchanging, QueueAssumption DEF RevertOK, Latest
<1>3. x \in Decisions /\ x.status # "confirmed"
  BY <1>2, Unchanging DEF Decisions
<1> HIDE DEF x
<1>4. /\ decisions' \in Seq(Decisions) /\ Len(decisions') = Len(decisions)
      /\ Confirmed' \subseteq Confirmed
  BY <1>1, <1>3, Unchanging, DecisionChanged
<1>5. Grown(jobs, jobs')
  BY <1>1, <1>2, Unchanging, PayloadTypes, WithJobGrows
<1>6. RevertOK' /\ CountsOK' /\ gaveUp' = gaveUp
  BY <1>1, <1>2, <1>4, Unchanging DEF RevertOK, NoRevert, CountsOK, bounds
<1>7. QED BY <1>1, <1>4, <1>5, <1>6, Unchanging, UserStep

LEMMA RevertFailKeeps ==
    ASSUME IInv, RevertFail
    PROVE  IInv'
<1>1. /\ faults < MaxFaults /\ faults' = faults + 1 /\ revert' = NoRevert
      /\ UNCHANGED <<doc, outbox, jobs, work, store, wiki, hands, gaveUp>>
  BY DEF RevertFail
<1>2. CountsOK' /\ Confirmed' = Confirmed
  BY <1>1, QueueAssumption DEF IInv, CountsOK, Confirmed, Latest, store
<1>3. RevertOK'
  BY <1>1, Unchanging DEF RevertOK, NoRevert, store
<1>4. QED BY <1>1, <1>2, <1>3, Unchanging, UserStep DEF store

LEMMA StepKeeps ==
    ASSUME IInv, [Next]_vars
    PROVE  IInv'
<1>1. CASE UNCHANGED vars
  <2>1. UNCHANGED <<doc, outbox, jobs, work, decisions, links, relation, wiki, revert, hands,
                    faults, gaveUp>>
    BY <1>1 DEF vars, store, bounds
  <2>2. RevertOK' /\ CountsOK' /\ Confirmed' = Confirmed
    BY <2>1, Unchanging DEF RevertOK, CountsOK, Confirmed, Latest
  <2>3. QED BY <2>1, <2>2, Unchanging, UserStep
<1>2. CASE Next
  BY <1>2, SaveKeeps, TrashKeeps, RestoreKeeps, DeleteKeeps, ImportKeeps, DeliverKeeps,
     WorkerKeeps, RipenKeeps, RestartKeeps, AttachKeeps, BacklogKeeps, RevertBeginKeeps,
     RevertRemoveKeeps, RevertEndKeeps, RevertFailKeeps DEF Next
<1>3. QED BY <1>1, <1>2

(***************************************************************************)
(* Theorems                                                                *)
(***************************************************************************)

\* The strengthening holds in every state.
THEOREM Invariance == Spec => []IInv
<1>1. Init => IInv
  BY InitHolds
<1>2. IInv /\ [Next]_vars => IInv'
  BY StepKeeps
<1>3. QED BY <1>1, <1>2, PTL DEF Spec

\* Every variable keeps to its type, and the worker is at one job, the one the
\* table says is running.
THEOREM TypeCorrect == Spec => []TypeOK
<1>1. ASSUME IInv PROVE TypeOK
  <2>1. Cardinality(Running) = IF work.at = "idle" THEN 0 ELSE 1
    <3>1. CASE work.at = "idle"
      BY <1>1, <3>1, FS_EmptySet DEF IInv, QueueOK, OneJob
    <3>2. CASE work.at # "idle"
      BY <1>1, <3>2, FS_Singleton DEF IInv, QueueOK, OneJob
    <3>3. QED BY <3>1, <3>2
  <2>2. QED
    BY <1>1, <2>1 DEF IInv, TypeOK, QueueOK, DocumentOK, RowsOK, RevertOK, CountsOK, DocType,
                      WorkType, WikiType
<1>2. QED BY <1>1, Invariance, PTL

\* Whatever order jobs are served, repeated and given up in, and whatever is
\* awaited meanwhile, no decision of a deleted document is confirmed behind its
\* cleanup, and its projection does not come back.
THEOREM DeletionFinal == Spec => []CleanupIsFinal
<1>1. IInv => CleanupIsFinal
  BY DEF IInv, Settled, Served, Waiting, CleanupIsFinal, CleanedUp
<1>2. QED BY <1>1, Invariance, PTL
=============================================================================
