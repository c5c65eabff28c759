# EverRoom: verification of the core

TLA+ models, TLC checks and TLAPS proofs for the parts of EverRoom where several
actors change the same state: the Gateway's documents and the proposals agents
make to them, the way of a committed version to the memory service and into the
wikis, the notes of an Obsidian vault that mirror documents, the runs of agents
with the commands a phone sends to them, and the subagents. Paths below are
relative to `src/`; `documents/`, `ingest/`, `knowledge/`, `agent/` and
`subagents/` stand for the directories of `apps/gateway/src/modules/` with these
names, `desktop/` for `apps/desktop/src/`.

## 1. The system

EverRoom is a desktop application (`apps/desktop`, Electron) over a local
**Gateway** (`apps/gateway`, one Node process, Fastify over SQLite through
drizzle). Agents run inside the Gateway and work on Rooms and documents with
tools; a separate MemoryCore service holds what is to be remembered and builds
the wikis of Rooms; a cloud service relays commands of a phone. The core logic
is the Gateway's and, for vaults and remote commands, the desktop's main
process. In one Node process everything between two `await`s is atomic, and a
`db.transaction` is synchronous; what interleaves are tasks separated by
`await`s and the processes among themselves, and what survives a crash is the
database, the vault's files and the cloud.

### Inventory

| Component | State it keeps | Operations | Interacts with | Hard behaviour | What makes it correct |
| --- | --- | --- | --- | --- | --- |
| Document store and lifecycle (`documents/service.ts`, `core/`) | `documents` (version, status, lease, trash), `document_versions` | import, save, restore a version, trash, restore, delete, empty trash | conflict pass of the operation kernel inside its transactions; outbox | saves computed from old versions; deletion and re-import under one id | no lost update; version log; leases and trash respected |
| Operation kernel (`documents/operations/`) | `document_operations`, items, commands, events; a queue per document | create, execute a command, conflict, expire, cancel for a run, recover | document store (leases, commits), capabilities | handler awaits between read and transaction; timer, run end and restart outside the queues | state machine; finality; leases and drafts settled on every exit; stale proposals conflicted |
| Document capabilities (`documents/capabilities/`) | none of their own | `write_*` (create), `patch_*` (edit, continue), selection rewrite; their commands | operation kernel | selection rewrite awaits before its row exists; items decided one by one | versions written are those decided on |
| Agent runs around documents (`documents/mcp-host.ts`, `subagents/tools.ts`) | attempts per run; a mark on the document | finish a run, give up after a repeated failure, mark during a dispatch | operation kernel, document store | late tool calls; marks of several runs on one column | a mark never takes an operation's lease |
| External projections and vault patches (`documents/external-projections/`, `desktop/main/obsidian/`, `desktop/main/index.ts`) | bindings, prepared patches; the note itself | sync, remove, prepare and complete a patch; read, compare, write, project a note | document store, operation kernel, the user's editor | two-party commit with a crash on either side; projections that overlap | document never ahead of its file; binding and document agree; what the user wrote is not overwritten |
| Command log (`documents/operations/service.ts` 306-325) | `document_operation_commands` | replay, refuse | desktop, tools | a lost answer and its retry | one effect per command id; a retry is answered |
| Document outbox (`ingest/document-outbox-worker.ts`, `documents/integration-outbox.ts`) | rows of `jobs` | enqueue, drain, retry, give up, recover | written by the store, calls ingest, memory, knowledge | at-least-once, back-off, superseding, crash | jobs of one document in order; deleted is forgotten; everything ends |
| Unified ingest (`ingest/service.ts`) | `ingest_events` (the ledger), parsed contents | ingest a source, resume a fan-out, clean up | memory, knowledge, file centre | deduplication by content against partial success | the latest content reaches the consumers |
| Knowledge queue (`knowledge/service.ts`) | jobs, route decisions with their ledgers, entity links, the relation projection | route, ingest, relation, cleanup; attach, revert, backlog | ingest, the model, the wiki service | order by kind, then age; retries; jobs that outlive what they were made for | a served deletion is final; the queue empties; a document reaches its wiki |
| Agent runs and sessions (`agent/service.ts`) | sessions, runs | start, replace, cancel, end, delete a session, recover | runtime, document settlement, desktop | the runtime starts and settles across awaits | one run per session; everything ends |
| Desktop remote commands (`desktop/main/cloud/remote-agent-command-client.ts`, `desktop/main/gateway/agent-gateway-bridge.ts`) | queues per session, seen and cancelled ids, watches, the socket | take, execute, watch, cancel, report | cloud, agent runs | at-least-once delivery, cancellation against start and end, lost connections | one execution per command; no false end reported |
| Subagents (`subagents/orchestrator.ts`, `subagents/runtime-manager.ts`) | invocation rows, the map of flows | dispatch, join, time out, cancel, recover | agent runtime | slots, timeouts with grace, runs that outlive their flow | slots given back; one outcome, told to all |
| Agent scheduler (`agent-scheduler/service.ts` of the same directory) | schedules | run what is due | agent runs | a row read before an await is written after it | each due time once |
| Backfill and style workers (`documents/index-backfill/`, `ingest/document-history-backfill-worker.ts`, `writing-style/`) | jobs | scan, propose, retry | operation kernel | stale scans | no work lost or doubled |
| External-call budget, batch import, room-derive worker | reservations, items, jobs | reserve; import many; derive | memory, documents | partial failure | each item once |
| Rooms, duplicates, clipper, diary, perception, ASR, connectors | their tables | capture, merge | external services | I/O and model output | - |
| Desktop user interface, browser extension | UI state | REST and WebSocket clients | Gateway | reconnects | - |

How the modelled parts interact: a **save** of a user goes through the write
queue and commits by compare-and-swap on the version; in its transaction it
conflicts the open operations and writes the outbox job. An **agent** begins an
operation (a row, for edits also a lease on the document), builds it with
commands through the operation queue, and hands it to the **user**, whose
decisions are commands again; a command that commits a version does all of the
above in one transaction. When the document mirrors a vault's note, an
acceptance first goes to the **desktop**, which writes the note and then
completes the command in the Gateway; every change of the note comes back as a
synchronisation. A **timer** expires operations, the **end of a run** cancels
them, a **restart** settles them. The outbox's **worker** drains its jobs into
ingest and from there into memory and the knowledge queue, whose own worker
routes the document to Rooms and writes it into their wikis. A **phone**'s
command passes through the cloud to the desktop, which has the Gateway run it
in a session that the user may be using as well; a run may dispatch
**subagents**, which have slots, timeouts and rows of their own.

## 2. Modules

| Module | What it is |
| --- | --- |
| `DocumentRegister` | abstract: per document a log of versions and at most one holder |
| `DocumentKernel` | documents, versions, leases, operations, commands, runs, synchronisations; implements `DocumentRegister` |
| `DocumentKernelProofs` | theorems about `DocumentKernel`: types, versions, refinement |
| `DocumentLeaseProofs` | theorems about its leases, drafts, proposals and finality |
| `DocumentDecisionProofs` | theorems about the versions its operations write, and about who can end them |
| `MCDocumentKernel` | symmetry, a bound of the runs, and a claim the kernel does not keep |
| `VaultPatch`, `VaultPatchProofs`, `MCVaultPatch` | a note, its document, the operation under review, the desktop's half and the Gateway's; theorems; what does not hold |
| `DocumentOutbox`, `DocumentOutboxProofs` | jobs, worker, ledger, memory service; theorems |
| `KnowledgeQueue`, `KnowledgeQueueProofs`, `MCKnowledgeQueue` | jobs, decisions and wikis of one document; theorems; what does not hold |
| `CommandService` | abstract: what becomes of requests, and what a phone is told of them |
| `AgentRuns` | runs of sessions in the Gateway and its runtime: state and actions |
| `RemoteCommands` | the desktop's command client and the cloud, over `AgentRuns`; implements `CommandService` |
| `RemoteCommandsProofs`, `MCRemoteCommands` | theorems; instances, and what does not hold |
| `Subagents`, `SubagentsProofs`, `MCSubagents` | dispatches, flows, slots; theorems; the instance |

`RemoteCommands` composes with `AgentRuns` by extending it: every action that
runs, stops or deletes conjoins the Gateway's half with the desktop's. The
document modules share actions by meaning: `VaultPatch` has a command in one
step where `DocumentKernel` has two, `DocumentOutbox` lets any version follow
any other and leaves to `DocumentKernel` when one may, and `KnowledgeQueue`
takes the outbox for a first-in-first-out queue, which is what is proved of
`DocumentOutbox` (`RunsInOrder`).

### DocumentKernel

`docs[d]` is a row of `documents`: `absent` without one, `draft` at version 0
for a document being created, `active` otherwise. `lease` is
`active_transaction_id`: an operation, or a run for `agent-modification:<run>`.
`history[d]` are the rows of `document_versions`; a version records only who
wrote it and the version it was computed from, which is all the properties need
of its content. `ops[o]` is a row of `document_operations` with its items
counted (`pending`, `applied`); `planned` is a selection rewrite before its row
exists, `gone` a row that its document took with it. `cmds[d]` is the command
at the head of `d`'s queue whose handler awaits; the commands behind it have
read nothing yet and are not state. `sync[d]` is the base of a queued external
save, `runs[r]` and `drafting[r]` the agent runs and their doc-writer dispatch.

| Action | Code |
| --- | --- |
| `Import`, `Save`, `RestoreVersion` | the three writers of `service.ts`; `Advance` is the commit they share: compare-and-swap, version row, conflict pass |
| `Trash`, `Restore`, `DeletePermanently`, `EmptyTrash` | `lifecycle-service.ts`; deleting a row deletes its versions and, by the foreign key, its operations |
| `SyncBegin`, `SyncSave`, `SyncDrop` | `external-projections/service.ts` `sync`: conflict pass, then the queued save, which may fail |
| `DraftBegin`, `DraftEnd` | mark and unmark around a doc-writer dispatch |
| `BeginPatch`, `BeginCreate`, `PlanRewrite`, `CreateRewrite` | the four ways an operation begins |
| `StartCommand` | `execute` up to the handler: revision, terminal gate, the capability's own conditions (`*Accepts`) |
| `FinishCommand` | `execute` after the handler: one of commit, draft, draft deletion, decision, or failure because something changed |
| `Expire`, `FinishRun`, `GiveUp` | timer, end of a run, repeated `patch_hunk` failure; all through `Settle` (`applyMutation`) |
| `Restart` | crash, `clearOrphanModificationLeases`, `recoverInterrupted` |

Every action is a whole handler or a whole transaction. The content of
documents and items, Room membership (one Room), read receipts, events and
titles are left out; command ids and their stored results are in `VaultPatch`.

### VaultPatch

A text is a set of marks, the user's edits and the agent's items, and a source
hash is the text it was taken of; that is enough to tell whose text is where.
`file` is the note on disk. `doc`, `bind`, `op`, `executed` and `prep` are the
Gateway's: document, binding, operation, command log (by command id) and
prepared patches (`executeCommand`, `prepare`, `complete`, `sync`). `entry`,
`flow`, `loops` and `notice` are the desktop's: the operation as the renderer
last loaded it, the one decision being carried out (the renderer lets a second
command of an operation wait), the projections in progress and the watcher's
signal. `writes` is the document write queue in which projections wait. Of the
history, `disk` are the marks that have been in the file, `risked` the edits the
user made while EverRoom was saving the note, `told` the decisions answered with
success.

| Action | Code |
| --- | --- |
| `Decide`, `Receive`, `Load` | `useDocumentEditorOperations.ts` and its command ids |
| `Prepare`, `Complete`, `CompleteBind`, `PrepExpire` | `external-projections/service.ts` `prepare`, `complete` (the commit, then the transaction that writes patch and binding), the five-minute limit |
| `ReadNote`, `CheckNote`, `WriteNote`, `RereadNote` | `index.ts` around `saveNoteForAgent` (`obsidian-vault-service.ts`): read, compare, compare again, write, read again |
| `ExecuteCommand` | `operations/service.ts` `execute` for a rejection, which needs no patch |
| `Executes`, `Legal`, `Execute` | what `execute` asks of a command that is not in its log, the transition of the state machine included; its transaction |
| `UserEdit`, `ProjectNote`, `SyncBegin`, `SyncSave`, `SyncBind` | a save in Obsidian; `projectRoomVault`; `sync` in its three parts |
| `GatewayCrash`, `Restart` | the Gateway alone, or the desktop with its Gateway |

`Legal` is the check of `operations/state-machine.ts`: the rejection of the last
pending item after another one was applied would take the operation from
`awaiting_review` to `completed` and is refused, whenever it is sent; the
transaction leaves no row in the log and the item stays pending (`claim_close`
shows the same of `review.close`). The user may edit the note at any time, also
between the steps of a save.

The blocks of a parsed text get new ids, so that a synchronisation always writes
a version. Projections have no names: one that starts takes the place of any
that is free. A patch prepared before a restart of the desktop is never asked
for again, so that only those of the current session expire. A patch may fail to
apply only where binding and document differ.

### DocumentOutbox

`docs[d]` keeps version, content and trash of a document and which contents it
has had: a content is a fingerprint of title and body, and because block ids
are drawn at random (`packages/document-model/src/index.ts`) a fingerprint
returns only when an earlier version is restored, or when the text is empty.
`jobs` are the rows in the order of their creation, `due` says that debounce or
back-off has passed. `ledger[d][c]` is the ingest event of a content: written
(`open`) before the memory service is called, `done` after it succeeded.
`memory[d]` is what MemoryCore holds for the document. `worker` is the drain in
progress: the snapshot it goes through, the versions announced when it
began, the documents it holds back, and the job whose call is under way.

`Commit`, `Trash`, `Restore`, `DeletePermanently` are the document side;
`DrainBegin`, `SkipBlocked`, `Supersede`, `Wait`, `IngestWithoutImport`,
`IngestBegin`, `DeleteBegin`, `Finish`, `Fail` the steps of `drainPending`,
`process` and `ingestCommittedDocument`; `Restart` the crash and `start`. A call
that fails, and one that a crash interrupts, may have landed. The Room half of
the fan-out is `KnowledgeQueue`'s.

### KnowledgeQueue

One document whose router is enabled. `doc` is where it is and which life,
version and title it has; `outbox` what has still to be handed over (0 for a
deletion). `jobs` are the active rows, oldest first, with their payload; a job
whose payload equals an active one's is not added (`insertJob`). `work` is what
the worker has read before the await it is in. `decisions` are the rows of route
decisions with the ledger of files they placed, `links` who linked entities to
the document, `relation` the version in the projection, `wiki[r][t]` the text in
the file that title `t` names in Room `r`. `revert` is a request under way.

| Action | Code |
| --- | --- |
| `Save`, `Trash`, `Restore`, `Delete`, `Import`, `Deliver` | the document and its outbox (`documents/`, `ingest/`) |
| `RouteEntry`, `RouteExtract`, `RouteDecide` | `runRouteJob`: by the entry the document was made with, or by the model |
| `IngestStart`, `IngestWrite`, `IngestConfirm` | `runIngestJob`: `buildExecutionEnvelope`, the raw file, the build, the ledger |
| `RelationStart`, `RelationIndex` | `runRelationIndexJob` |
| `CleanupStart`, `CleanupRemove`, `CleanupEnd` | `runCleanupJob`: links and projection, one call per file, the decisions |
| `Busy`, `Fail`, `Ripen`, `Restart` | a wiki that is building, other failures with their count in memory, back-off, recovery of running jobs |
| `Attach`, `Backlog`, `RevertBegin/Remove/End/Fail` | `attachDoc`, a promoted entity's backlog, `revertDecision` |

A backlog is made here for the version of the latest decision; the code takes
the version the link was made for, which may be older, and a job for an older
version is passed over. What the model answers is any answer.

### AgentRuns and RemoteCommands

`session[s]`, `run[r]` are the rows, with runs named by idempotency keys;
`agent[r]` what the runtime does for a run: it is starting (a call that has not
returned), working, or has fixed its outcome and is settling the documents of
the run before it reports. `AgentRuns` has `Accept`, `Replace`, `Question`
(`startRun`), `RuntimeStarts/Refuses`, `Settle`, `Report`, `Stop` (`cancelRun`),
`DeleteBegin/End` (`deleteSession`) and `RunsRestart`.

`cloud[c]` is the command's status in the cloud, `asked[c]` its cancellation.
Of the desktop: `link` (the socket), `seen`, `cancelled`, `queue[s]`, `exec[s]`
(what the queue of a session does and the answer it has not looked at yet),
`stopping[c]` (cancellations that await the Gateway), `known` (commands whose run
the client waits for), `watch[c]` (the bridge's stream for the run), `halts` (runs of
commands the user stops on the computer, whose calls await the Gateway). `lost`
records ends of runs that no one was listening to, and reports dropped without a
connection.

| Action | Code |
| --- | --- |
| `Deliver`, `DeliverCancel`, `Disconnect`, `Reconnect` | the socket's handlers; redelivery after a reconnection |
| `Take`, `Call`, `Back`, `StopCall`, `StopBack` | `executeRun` in its awaits, and `startRemoteRun` in the Gateway |
| `CancelCall`, `CancelBack` | a cancellation that found the run known |
| `WatchOpens`, `RunReports` with `Observe` | `agent-gateway-bridge.ts`: the stream, and `onAgentEvent` |
| `LocalRun`, `LocalStop`, `Delete` | the user in the same sessions |
| `LocalBack` | `agent-gateway-bridge.ts` `cancelRun`: the `run.cancelled` the bridge makes of the answer to a stop, whatever the row says |
| `GatewayRestart`, `DesktopRestart` | the Gateway alone; the application with its Gateway |

The cloud is external: it keeps commands, delivers what has not ended, at least
once, and takes no report for one that has. The expiry of a cancellation itself
is left out, and a window of the user that happens to watch the same session,
and would then feed the observer too, is not there.

A stop by the user is answered when the runtime has settled the run, and the
bridge then makes a `run.cancelled` of the answer itself: the command of a run
that completed while it was being stopped is told cancelled, which `FinalIsTrue`
allows, since nothing goes on. The stop of a run that is still being started is
answered at once and changes nothing, for the desktop does not know the run yet;
that of a removed run is refused (404) and makes no event. The answers of the
Gateway are taken to arrive in the order in which it gave them: an answer to a
start that is overtaken by the answer to a stop given before it is not modelled.

### Subagents

`row[i]` is the invocation of an idempotency key, `flow[i]` where
`executeInvocation` is (starting the run, following it, in the grace after its
timeout): the entries of the orchestrator's map, which are the slots. `owner[i]`
is the dispatch that began the flow, whose abort cancels it; `work[i]` the run
in the runtime, which may outlive the flow; `call[c]` what each dispatch waits
for or was told. `Join`, `Refuse`, `Begin`, `Strand` are `dispatch`;
`RunStarts`, `StartFails`, `RunEnds`, `Timeout`, `GraceEnds` the flow; `Abort`,
`Cancel`, `Invalidate`, `Restart` what comes from outside.

## 3. What is checked

| Run | Instance | Properties | Shows |
| --- | --- | --- | --- |
| `proposals` | 1 document, 2 operations, 1 run, 2 versions and 1 item, 3 and 2 while there is one operation; 521,000 states | `TypeOK` `NoLostUpdate` `LeaseWhileBuilding` `ProposalsCurrent` `DecisionsAreVersions` `ConflictsWithAdvance` `Finality` `Implements` | two proposals competing with users, synchronisation, dispatch, timer, run end, crash; item-by-item review |
| `drafts` | 1 draft id, 2 operations, 2 runs; 231,000 | `LeaseOwner` `NoOrphanDraft` `Settleable` `LeasesEnd` `RunningEnds` | leases and drafts are settled on every exit; nothing stays locked or running |
| `vault` | 2 items, 1 edit, 2 projections, 1 fault; 828,000 | `TypeOK` `SourceFirst` `BindingAgrees` `ToldTrue` `LostOnlyInSave` `RejectRetried` `PatchedSettles` | a patch of two parties with edits, overlapping projections, a lost answer and a crash |
| `outbox` | 1 document, 3 contents, 3 jobs, 2 attempts, 1 crash; 235,000 | `TypeOK` `InOrder` `Forgotten` `ImportedIsCurrent` `Drained` | order, at-least-once effects, termination |
| `knowledge` | 2 Rooms, 2 titles, 2 versions, 2 lives, 2 tries, 2 acts of the user, 2 faults; 877,000 | `TypeOK` `CleanupIsFinal` `QueueEmpties` `IndexedInTheEnd` | the job queue against deletion, re-import, attachment and revert |
| `remote` | 2 sessions, 3 commands, 1 run of the user, 1 act, 1 fault; 2,755,000, the two commands of one session being interchangeable | `TypeOK` `OneRunPerSession` `ExecutedOnce` `FinalIsTrue` | commands of a phone beside the user, with cancellations, crashes and lost connections |
| `remote_ends` | 1 session, 2 commands, 1 run of the user; 94,000 | `EndsOrLost` `RunsEnd` `Serves` | everything that was begun ends, and the whole is the abstract service |
| `subagents` | 3 invocations of 2 agents, 4 dispatches, 2 slots, 1 per agent, 2 faults; 147,000 | `TypeOK` `SlotsHeld` `AnswersAgree` `CallsAnswered` | slots, joining, timeouts, runs that never end |

**Kernel.** `NoLostUpdate`: every version was computed from the one before it,
whatever waited meanwhile. It compares version numbers, as the compare-and-swap
of the code does: a commit computed from a former life of a document that was
deleted and imported again under its id, where numbers start again at 1, is the
case neither of them sees; that no proposal of the former life stays open is
`ProposalsCurrent`. That the version
counter and the version rows agree (`VersionLog`) is proved, not run.
`LeaseOwner`, `LeaseWhileBuilding`: a lease belongs to an operation being built
on that document, and an edit being built has its lease and base.
`NoOrphanDraft`: a draft has a running operation that owns it. `Settleable`:
timer, run end and recovery never throw over an operation, which would leave
the rows behind it, or the start of the server, unserved. `ProposalsCurrent`,
`ConflictsWithAdvance`: an open proposal applies to the document as it is, and
whoever advances a document conflicts the others in the same step. Selection
rewrites are exempt from the first: they take no lease and do not look at the
version again after their `await`, so a rewrite may be born stale; it is refused
when applied, and conflicted by the next version. `Finality`: finished is
finished. `DecisionsAreVersions`: one version per accepted item of a
continuation, one for any other completed operation, none otherwise.
`LeasesEnd`, `RunningEnds`: every lease ends, no operation runs for ever.
`Implements` is `DocumentRegister!Spec` with `log <- history` and
`holder <- lease`: at most one holder, versions appended only by it or while the
document is free, each from the latest.

**Vault.** `SourceFirst`: the document never shows what has not been in the
file. `BindingAgrees`: while nothing crashes, the binding is about the document,
with two projections and a completion writing both in any order. `ToldTrue`: a
decision that was answered with success is recorded, and written if accepted;
one that the state machine refuses is never answered so.
`LostOnlyInSave`: the note loses nothing but what the user saved between the
comparison of a save and the read after its write; whatever the user had saved
before the comparison stays, whatever was prepared, retried or projected before.
`RejectRetried`: a rejection whose answer was lost is answered when it is sent
again, with whatever revision. `PatchedSettles`: a patch in the file does not
leave its operation open: it is completed, or conflicted by the projection.

**Outbox.** `InOrder`: a job runs only after all earlier jobs of its document
are done. `Forgotten`: nothing remains of a deleted document unless its deletion
was given up. `ImportedIsCurrent`: if the last job of a document imported,
memory holds the document. `Drained`: every job ends. A job that is dropped as
superseded does not run, so that none of them would notice one that was dropped
wrongly because of a version of a former life (section "Where the code and its
documents disagree"); it takes more jobs than the run has.

**Knowledge queue.** `CleanupIsFinal`: once the cleanup of a deletion has been
served, no decision is confirmed behind it and the relation projection stays
empty, although ingests go before it, relations and routes after it, and delayed
jobs are passed over. `QueueEmpties`: no job is lost from sight, starved or
retried for ever. `IndexedInTheEnd`: a document that stays ends up in its Room's
wiki in its last version under its last title.

**Remote commands.** `OneRunPerSession`: a session is busy exactly while it has
an active run, has one at most, and the runtime is behind it. `ExecutedOnce`:
one execution per command, however often it is delivered. `FinalIsTrue`: what
the phone is told of an end is so, although queue, watch and cancellation report
independently; a command that expired is exempt, since redelivery reports the
expiry of one that is already running. `EndsOrLost`: a command that was taken
ends in the cloud unless an end in its session was missed or the connection was
given up. `RunsEnd`: a session can always be used again. `Serves` is
`CommandService!Spec`, with the rows of runs as what became of each request and
the cloud's commands as what the phone was told: a session takes up new work only
when it is free, nothing is taken up twice unless its row was removed or after its
end was told, and an end is told once and not before it came. An instance of two
sessions with two faults (970,000 states) implements it as well.

**Subagents.** `SlotsHeld`: a row says running exactly while a slot is taken for
it, and no more are taken than allowed. `AnswersAgree`: everyone is told the
outcome in the row. `CallsAnswered`: a dispatch that waits is answered even if
the model never ends.

**Bounds.** Kernel: two operations are what every rule about "the other
operations" needs, one document suffices because no rule relates two documents
except the clean-ups, which treat them alike; version 2 is the first that makes
a proposal stale, and a single operation goes to
three and to two items (`LargeAlone`), so that one is accepted after another
beside everything but a second operation; a synchronisation or a commit of the
last version waits only there as well; for any number of
items, versions and operations there is the theorem (`DecisionsCounted`); documents
may be deleted and imported again without bound. Vault: two items make the
second depend on the version of the first, two projections are the fewest that
overlap, and one edit suffices to make a text differ. Outbox: three jobs are a
version, a deletion and a re-import, or three versions; two attempts give one
retry and one giving up (the code has `MAX_ATTEMPTS` 5); one crash may fall into
any call. Knowledge queue: the second life is the first that can meet what was
left of a former one, two Rooms and titles the first that can be confused. Remote:
`c1` and `c2` are addressed to one session, where they queue, `c3` has its own;
an instance of one session with two faults and two acts of the user
(4.8 million states) holds as well. Subagents: `k1` and `k2` share a key, `k4`
is detached; one slot per agent makes `i1` and `i2` compete. Deadlock is checked
in the kernel's runs; elsewhere the system really stops, when its jobs, commands
or bounded acts are used up, and the configurations say so.

**Fairness.** Only processes are obliged, never a user, an agent or the model.
Kernel (`FairSpec`): handlers return, a queued save is run or fails, a dispatch
ends (it has a timeout), the plan of a rewrite returns, the timer ticks; the
start command of a rewrite is strongly fair because it stands in a
first-in-first-out queue whose head changes while it waits. Vault: requests are
served and projections go on. Outbox: the poll timer, the drain, the calls (to
return, not to succeed) and the clock. Knowledge queue: delivery, the worker,
back-offs and a revert go on, and the wiki service is not busy for ever (a busy
wiki is asked again without a limit). Remote: the event loop, delivery and a
deletion that was begun go on, and a model answers or fails. Subagents: the
runtime answers the request to start, and timers go off; a run need not end.
Crashes are never fair.

**Edits during a save.** `saveNoteWithNotification` compares the note with the
text its patch was made for and then renames the new text over it, with awaits in
between, while the user may save the same note. No assumption is made about that
window: what is lost in it is `risked`, `LostOnlyInSave` says that nothing else
is lost, and `claim_overwrite` that something is. The window extends to the read
after the write: an edit between the rename and that read enters the hash the
Gateway is told but not the text it keeps in the binding, so that a patch
prepared before the next projection finds its hash and overwrites the edit.

**Mutants.** Every property has a mutant of the code's model that breaks it; the
mutants stand beside the definitions they replace and are named as such. Some
of what they say about the code: without the version in the compare-and-swap
updates are lost; if unmarking cleared any lease, an edit would go on without
one and recovery would throw over a draft; if a waiting job did not block its
document, an ingest would overtake a deletion; if the note were not compared again
before it is written, edits made before the save would be lost; if the desktop's
own writes were not watched, a patched file could leave its operation open; if ingests did not
read the document again, one would be confirmed behind the cleanup; if recovery
of runs looked at started runs only, a session would be busy for ever; if a slot
were kept until the run has ended, a run that never ends would keep it.

### Where the code and its documents disagree

These runs check one statement each and end with a counterexample.

| Run | Statement | What happens |
| --- | --- | --- |
| `claim_close` | a continuation under review can be closed (SOP, `docs/agent-document-development-sop.md`) | `review.close` after an accepted item asks for `awaiting_review -> completed`, which the state machine lacks; so does `item.reject` of the last item after an accepted one |
| `claim_forgotten` | deleting a document removes it from the wikis (`docs/room-wiki-plan.md`) | `runCleanupJob` knows of the files of confirmed decisions only; one written by an ingest that was not confirmed stays |
| `claim_command` | a command that runs completes, fails, is cancelled or expires (`docs/mobile-agent-sync-plan.zh-CN.md`) | a run that ends before its watch opens is never heard of: the command stays running and the queue of its session stops |
| `claim_overwrite` | a save in EverRoom does not overwrite an edit in Obsidian (`obsidian-vault-service.test.ts`, 'uses source hashes to prevent overwriting an external edit') | the hash is compared before the awaits of the write; what the user saves in between is overwritten |

Read in the code, or seen in the models, without a run of its own:

Documents:
- `operations/state-machine.ts` 5-7 lets `created`, `running` and
  `awaiting_input` become `conflicted`; the diagram of the SOP (3.3) does not.
- `external-projections/service.ts` 64 conflicts proposals before a save that
  may still fail, so an operation may be conflicted without the newer version
  the SOP (3.5) gives as the reason. A synchronisation whose save fails with
  `DOCUMENT_CONFLICT` is not retried.
- The mark of a dispatch: `subagents/tools.ts` 712 clears the mark of whichever
  run set it (`documents/service.ts` 975-979), so that the first of two
  dispatches to end unmarks a document on which the other still works. An
  operation's lease is never cleared this way (`LeaseWhileBuilding`).
- A retried acceptance of a vault patch: `prepare` looks at status and revision
  before it looks for the patch it already prepared
  (`external-projections/service.ts` 134-151), so that a retry after the commit
  is refused, against SOP 3.4; a rejection is not (`RejectRetried`). A prepared
  patch may expire after its file was written; the projection then conflicts
  the operation. An acceptance made before the document is known to mirror a
  note goes to the Gateway directly.
- `COMMAND_IN_PROGRESS` cannot be reached: a command is logged in the transaction
  that executes it.

Outbox and ingest:
- A content that returns: the ledger is keyed by content (`ingest/service.ts`
  599, 1153-1188) and the memory service by document, so that restoring an
  earlier version is a ledger hit and memory keeps the newer text, although SOP
  2.5 says a hit is not taken for success.
- A restored document: a job due while its document is in the trash is completed
  as skipped, and restoring writes no job (`core/lifecycle-service.ts` 39,
  `ingest/service.ts` 249-254), although SOP 2.5 has it that trashing does not
  affect downstream, and the comment at `knowledge/service.ts` 988-990 that
  restoring publishes the document again.
- `latestIngestVersion` mixes the incarnations of a document id
  (`document-outbox-worker.ts` 73-91). A document that is emptied keeps its old
  text in memory, because an empty text is skipped. Two jobs written within a
  millisecond have no defined order.

Knowledge queue:
- A route job has the lowest rank and may outlive the cleanup of its document; it
  then routes a deleted document by the text it carries.
- Reverting an older decision removes the file of a newer version with the same
  name; renaming a document leaves the file under its old title.

Agents:
- `docs/subagent-framework-design.zh-CN.md` 569-573 limits how many runs there
  are; the limits are kept for flows (`SlotsHeld`), and a run that outlives its
  timeout comes on top. A cancellation that arrives while the runtime is being
  asked to start a run is lost. A row whose runtime could not be made stays
  `accepted` until the next restart, and dispatches that join are told so.
- The scheduler (`agent-scheduler/service.ts`, read, not modelled): a schedule
  whose `runNow` throws keeps those after it from running in that tick; the next
  due time is computed from the row as it was before the await (150-167); a
  crash between the start of a run and the update runs it again.

## 4. What is proved

The proof modules prove their theorems for any values of the constants,
from the assumptions the modelled modules name: `IdsAssumption` (the id sorts do
not overlap), `BoundsAssumption`, `OutboxAssumption`, `RunsAssumption`, `CommandsAssumption`,
`InvocationsAssumption`, `VaultAssumption`, `QueueAssumption` (who belongs to whom, and that bounds are naturals).

| Module | Theorem | Statement |
| --- | --- | --- |
| `DocumentKernelProofs` | `Invariance` | `Spec => []IInv` |
| | `TypeCorrect` | `Spec => []TypeOK` |
| | `VersionsLogged` | `Spec => []VersionLog` |
| | `NoUpdateLost` | `Spec => []NoLostUpdate` |
| | `Refinement` | `Spec => Implements` |
| `DocumentLeaseProofs` | `LeasesOwned` | `Spec => []LeaseOwner` |
| | `BuildersHold` | `Spec => []LeaseWhileBuilding` |
| | `DraftsOwned` | `Spec => []NoOrphanDraft` |
| | `ProposalsApply` | `Spec => []ProposalsCurrent` |
| | `AlwaysSettleable` | `Spec => []Settleable` |
| | `FinishedStays` | `Spec => Finality` |
| | `AdvanceConflicts` | `Spec => ConflictsWithAdvance` |
| `DocumentDecisionProofs` | `DecisionsCounted` | `Spec => []DecisionsAreVersions` |
| | `AlwaysInSight` | `Spec => []EndInSight` |
| `DocumentOutboxProofs` | `Invariance` | `Spec => []IInv` |
| | `TypeCorrect` | `Spec => []TypeOK` |
| | `RunsInOrder` | `Spec => []InOrder` |
| | `DeletedForgotten` | `Spec => []Forgotten` |
| | `ImportsCurrent` | `Spec => []ImportedIsCurrent` |
| `VaultPatchProofs` | `Invariance` | `Spec => []IInv` |
| | `TypeCorrect` | `Spec => []TypeOK` |
| | `NeverAhead` | `Spec => []SourceFirst` |
| | `AnswersTrue` | `Spec => []ToldTrue` |
| | `BindingTrue` | `Spec => []BindingAgrees` |
| | `RetryAnswered` | `Spec => RejectRetried` |
| | `NothingOverwritten` | `Spec => LostOnlyInSave` |
| `KnowledgeQueueProofs` | `Invariance` | `Spec => []IInv` |
| | `TypeCorrect` | `Spec => []TypeOK` |
| | `DeletionFinal` | `Spec => []CleanupIsFinal` |
| `RemoteCommandsProofs` | `Types` | `Spec => []TypeOK` |
| | `Sessionwise` | `Spec => []OneRunPerSession` |
| | `Once` | `Spec => []ExecutedOnce` |
| | `FinalTrue` | `Spec => []FinalIsTrue` |
| | `Refinement` | `Spec => Serves` |
| `SubagentsProofs` | `Types` | `Spec => []TypeOK` |
| | `Limits` | `Spec => []SlotsHeld` |
| | `Agreement` | `Spec => []AnswersAgree` |

**Kernel.** `TypeOK` is not inductive: deciding an item decrements a counter
after an `await`, and the items the handler saw must still be there. `VersionLog`
is not either: a command that writes a draft puts its row back to version 0, so
it must come from a `document.create` operation and act on that operation's own
draft. The inductive invariant `IInv` adds what the code relies on: a waiting
command belongs to the queue of its operation and never has a later revision than
the row, and as long as the revisions agree what its handler made sure of holds
(`CommandOK`); an operation names its document or its draft by its kind
(`OperationOK`); a row that does not exist has no version and no holder
(`DocumentOK`). One lemma per action shows that `IInv` is preserved and that each
document makes one of the steps `DocStep` allows (its log stays, grows by one
version computed from the last, or is erased). `NextOK` collects them,
`Invariance` follows, and `Refinement` maps each `DocStep` to a step of the
register.

**Leases.** `LeaseInv` is what a database schema would say of the rows if it
could: an open operation is `running` or `awaiting_review`, and nothing else; an
open patch has the current version as its base, and while it is built its
document's lease; an open `document.create` has no document, and its draft either
does not exist yet (revision 1) or is its own (`OperationShape`); a lease, a draft
and a document in the trash say the same from the other side (`DocumentShape`); no
two operations share a draft; a waiting command whose revision is still current
belongs to an operation that admits it (`CommandShape`). None of the properties is
inductive alone: that a commit leaves no other patch open on the old version
needs the bases, that an expiry may delete a draft needs its owner, and both need
the leases. Three lemmas carry the argument, one for each kind of step:
`EndedStep` (operations end from wherever: conflict, cancellation, decision,
expiry, run end, recovery, deletion of a document), `PublishStep` (a version and
its conflict pass) and `LocalStep` (something begins). Each also shows that
`Finality` and `ConflictsWithAdvance` hold of the step. The other actions are
shown to be such steps, and `LeaseNext` collects them. A defect in any release
path, such as a command that keeps its lease, breaks the lemma of that action.

**Decisions.** `DecisionsAreVersions` counts rows: an operation's versions
against the one number its row keeps of them (`Due`: the applied items of a
continuation, one for anything else that completed). `DecisionInv` adds what the
count needs to survive a step. `Counted`: an operation that is not a row yet has
written nothing, and a completed create names its document, so that the versions
of a deleted document go together with the operations that wrote them.
`Deciding`: a waiting command decides in the way of its operation's kind, items
one by one in a continuation only, one per command; without it a queued
acceptance could raise `applied` by more than the version it writes. Most steps
are `Passive`, they leave an operation, delete it, begin it or move it on with
its items as they are, and `PassiveCounts` treats them all; what remains is the
commit, where `CommitDue` shows that the row's count and the log grow by one
together (`ByAppend`).

**Ends.** `LeasesEnd` and `RunningEnds` are liveness, out of the prover's reach.
What they need of every state is proved: `EndInSight`. The operation that holds a
document satisfies the guard of `Expire`; the run whose mark a document bears is
drafting that very document, so that the end of its dispatch clears it; an
operation that is built can expire, or is a rewrite whose start command is still
accepted. What the fairness then adds is only that the timer ticks, a dispatch
ends and a start command is served. `EndingInv` is the invariant: `Timed`, an
operation that is built has its deadline or, a rewrite, its first revision;
`Hunks`, no command that leaves an operation running waits for a rewrite, which
would otherwise pass its first revision and have nothing left to end it; `Marked`,
the marks. Most steps leave an operation alone or end it (`EndedTended`) and leave
no new mark (`Unmarked`); `CommandTended` treats the commands that go on building.
With `LeaseInv`, which knows whose draft may be deleted, the guard follows.
`EndInSight` was checked by hand on the instances of `drafts` and `proposals`
before it was proved; no run repeats it, `LeasesEnd` covers it there.

**Outbox.** Everything follows from the order of the rows. `Prefix`: the jobs of
a document that are done with are its first ones. `Snapshot`: an unfinished job
before a queued one of the same document is itself queued, in progress, or blocks
that document for the rest of the drain; so a job whose turn comes (`Turn`) has
nothing unfinished before it, which is `InOrder` and keeps `Prefix`. With it, a
call that lands, in time, failing, or as the process dies, has no completed job
behind it: what memory holds always comes from an import that no completed
deletion follows (`Remembered`), and an import that is the last job is never
overwritten (`Imported`). Both meet the documents through `Announcing`: the last
job of a document announces its version, 0 if it was deleted. `Counted` and
`Claimed` are the bookkeeping: attempts are left while a job is not done, one row
at most is running. `EndKeeps` treats success and failure of a call together,
`PlanKeeps` every step of the worker that calls nobody.

**Vault.** `IInv == Core /\ Adds /\ (Quiet => Bound /\ Fresh)`. `Core`
holds through crashes: every text on its way to the document has been in the file
(`Seen`), the decision being carried out has the patch that was prepared for it
(`Carried`), which contains its item (`Contains`), and a command in the log has
had its effect (`Logged`), which lasts because only a pending item is decided. `Budget`
makes revisions finite: each item pays for the two its decision costs; a decision
that `Legal` refuses costs nothing and leaves its item pending. `Adds` says of
every hash that is kept, of the binding, of a patch, of the decision carried out,
that the text kept beside it contains it but for what is `risked`, and that the
note about to be overwritten has nothing beyond the text compared but what is
`risked`; a hash read after an edit during the save, and all patches made for it,
are thereby accounted for. `Bound` is what makes the binding right: a patch
prepared at the current revision is the document's text plus its item, because
whatever changes the document raises the revision (`Ahead`). It holds only
until a crash: one between a commit and its second transaction leaves the two
apart, and so would a command that is answered from the log, which `Fresh`
excludes otherwise. One lemma treats each kind of step: a decision dropped or carried on
(`DropKeeps`, `MoveKeeps`), the file written (`FileKeeps`), a projection that
leaves the document alone (`ProjectKeeps`), a command executed or found in the
log (`ExecuteKeeps`, `ReplayKeeps`), a process dying (`DeadKeeps`).

**Knowledge queue.** The worker awaits between reading a document and confirming
where its text was put, and ingests go before cleanups; what makes `CleanupIsFinal`
true is that there is one worker. `OneJob` says so: one row is running, and it is
the job whose await the worker is in. `DeletedLast` says that nothing follows a
deletion in the outbox until the document is imported again. Then, by `Settled`,
a deleted document either has its cleanup still before it, in the outbox or in
the table, whatever an await writes meanwhile, or the worker is in no await that
could write, and takes up none, since jobs begin only on a document that is there.
A failure for good takes a cleanup away unserved and is the exception the property
states. `Grown` and `Removed` carry this through the queue operations
(`WithJob`, `WithIngests`, `RemoveAt`).

**Remote commands.** `IInv == RunInv /\ DeskTypeOK /\ Executing`. `RunInv` adds to
`OneRunPerSession` that a run without a row has not been begun since it was last
removed (`Begun`): a key that no longer answers for its run may be begun again,
and must then count from nothing. `Executing` says that a queue that is not at
rest works on a command, without which a call could start nothing at all. The
Gateway's actions are treated once, for every way the desktop uses them
(`AcceptKeeps`, `EndKeeps`, `RestartKeeps` and so on), the desktop's state
separately. `FinalIsTrue` needs the protocol between queue, watch and
cancellation in its invariant (`Protocol`). `Placed`: a command is in one place,
waiting in its session's queue or being executed there, and only once taken.
Then, by what can be said where it is (`Truth`): a command whose run has not been
asked for has no run that goes on (`Idles`), so it may be called cancelled or
expired; a run that is watched has passed the queue (`Watched`), so its end is
reported from one side only, be it heard or made of the answer to a stop; a run
that is being started has its call waiting for
the answer (`Starting`), which no cancellation overtakes; an answer that the queue
has not looked at yet, if it is an end, is the end of that run (`AnswerHolds`). A
report is then true when it is made, and stays true because a key that has a run
is not run again (`ToldTrue`).
`Refinement` needs both invariants before and after a step: a session makes one
step of the service (`BeginServes`, `EndServes`, `DeleteServes`, `RestartServes`),
where a restart ends the one run a session may have, which is `OneRunPerSession`;
that what is taken up has not been answered, and what is told has come to its end,
is `FinalIsTrue` after the step.

**Subagents.** `IInv` adds two facts to the properties: a runtime that has not
answered yet has its flow waiting for the answer (`Awaited`), or the answer would
make a slot out of nothing; and the flows are finitely many, without which a
limit on their number says nothing, though there may be any number of keys.
`OneMore` and `Fewer` are the arithmetic of the slots; an outcome is written only
over a row that says running (`FinishKeeps`), which is why no one can have been
told another one.

Only model-checked: liveness (`LeasesEnd`, `RunningEnds`, `PatchedSettles`,
`Drained`, `QueueEmpties`, `IndexedInTheEnd`, `EndsOrLost`, `RunsEnd`,
`CallsAnswered`), whose fairness the prover cannot use. Every invariant and
action property of a passing run has its theorem.

## 5. What is left

- Knowledge: the promotion of entities to Rooms. `mergeEntity` may archive an
  entity while its promotion awaits, and a crash between the insertion of the
  Room and `promoteToRoom` leads to a second Room (read in `knowledge/service.ts`
  1733-1970, 2524-2660).
- Agents: `submitPendingIntent` (`agent/service.ts` 940-1021), which claims an
  intent before it executes it and opens it again when that fails.
- Batch import, the room-derive worker and the backfills: sequential over one
  table each, with a failure per item.

## 6. Not modelled

Content of documents, diffs, block references and Yjs history (derived data);
model output; capture pipelines (clipper, diary, perception, ASR, connectors),
which are I/O; judgements about Rooms and duplicates, which are the model's;
the external-call budget, which awaits nothing between check and update; the
desktop beyond vault notes and remote commands, which is user interface over
single requests. These are most of the repository's lines, and the reason why
the models stand for a small share of them: what several actors change at the
same time, or what must survive a crash, is in few files.

## 7. Running

    tlc -config KernelProposals.cfg MCDocumentKernel
    tlc -config KernelDrafts.cfg MCDocumentKernel
    tlc -config Vault.cfg VaultPatch
    tlc -config Outbox.cfg DocumentOutbox
    tlc -config Knowledge.cfg MCKnowledgeQueue
    tlc -config Remote.cfg MCRemoteCommands
    tlc -config RemoteLive.cfg MCRemoteCommands
    tlc -config Subagents.cfg MCSubagents
    tlc -config ClaimClose.cfg MCDocumentKernel
    tlc -config ClaimForgotten.cfg MCKnowledgeQueue
    tlc -config ClaimCommand.cfg MCRemoteCommands
    tlc -config ClaimOverwrite.cfg MCVaultPatch
    tlapm DocumentKernelProofs.tla
    tlapm DocumentLeaseProofs.tla
    tlapm DocumentDecisionProofs.tla
    tlapm DocumentOutboxProofs.tla
    tlapm VaultPatchProofs.tla
    tlapm KnowledgeQueueProofs.tla
    tlapm RemoteCommandsProofs.tla
    tlapm SubagentsProofs.tla
