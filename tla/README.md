# Daedalus: TLA+ models and proofs

This directory specifies what in Daedalus is decided by several parties at once
or must survive a failure: the durable path of a chat turn, the autonomous
agent, the tools the agent calls, the services that guard what it does for a
user, and the tools that maintain its skills. The modules are translations of
the TypeScript, Lua and Python under `src/`; `PROJECT.json` ("map") names the
lines each definition stands for. Paths of the chat path below are relative to
`src/frontend/server`, all others to `src`.

## 1. The system

**The chat path.** A browser tab (or an API client) submits a turn to a
frontend process. The process admits the turn, writes the job's records to Redis
and appends the job to a Redis stream. A stream worker takes the entry under an
expiring lease, sends one request to the backend, persists the streamed output
and finalizes the job: it claims the outcome, saves the conversation and, in one
commit, records the save, releases the conversation and the user's slot,
publishes the end and queues the turn for memory retention. The user may press
Stop at any time and any process may crash at any time. There is no coordinator;
all agreement is by Lua scripts on Redis keys that carry TTLs.

**The autonomous agent** (`builder/autonomous_agent`) works in the background on
goals of the user: requests wait in a reliable queue, a worker takes one under the
user's lease, dispatches it to the same backend and stores feed items, a run
record and workspace notes.

**The backend** is a Rust agent runtime, which calls a Python service
(`builder/daedalus_runtime`) for its tools: documents and retrieval, images,
memory, web reading, a code sandbox, skills, remote MCP servers under OAuth
grants and user approvals. Replicas of the service share Redis, Milvus, object
storage and the memory service, and nothing else.

**The development side** (`tools/`) proposes, measures, reviews and publishes
changes of the agent's skills.

| Component | State | What is hard about it | Module |
|---|---|---|---|
| Submission (`chat/submission.ts`, `jobSubmission.ts`) | submission, provisional and final records of a job | other tabs, slow submissions, lost enqueue reply, Stop before the queue | `Admission` |
| Guards (`chat/userJobGuard.ts`, `chat/conversationJobGuard.ts`) | the user's slot set (cap 5), one guard per conversation | lapse and pruning; replacing a guard whose owner is only slow | `Admission` |
| Stream queue (`chat/streamQueue.ts`) | entries, payload, lease, start marker | reclaim of a running job, lease expiry, eviction | `StreamJob` |
| Stream worker, readers (`chat/streamWorker.ts`, `streamReader.ts`, `documentIngest.ts`) | abort controller per job, buffered output | every await is a point where lease, status or records change | `StreamJob` |
| User Stop (`chat/cancellation.ts`, `pages/api/chat/async.ts`) | stop signal, submission tombstone | who finalizes, worker or canceller | `StreamJob`, `Admission` |
| Job state, finalization (`chat/jobState.ts`, `finalization.ts`) | status, journal, finalizer lock | compare-and-set on stale snapshots, crash between save and receipt, lock expiry | `Finalization` |
| Conversation store (`session/conversationStore.ts`) | saved conversations | rename or deletion during finalization | `Finalization` |
| Autonomy queue and worker (`builder/autonomous_agent`) | queue, processing list, phases, lease, runs, feed | death between claim and dispatch; a lapsed owner that goes on | `Autonomy`, `AutonomousRun`, `Feed`, `Rotation` |
| Tool runtime (`daedalus_runtime/service.py`) | run contexts, tombstones, streams | release before registration, a reader that leaves | `ToolRuntime` |
| Document ingestion (`nat_nv_ingest`, `document_ingest_api.py`) | collection locks, rows, batches | a timed-out call whose thread still writes; retries | `DocumentIngest`, `Documents` |
| Retrieval (`smart_milvus`) | metadata cache, call slots | stale collections, a bounded cache shared by calls | `Retrieval` |
| Web reading (`webscrape`, `perplexity_search`, `rss_feed`, `public_content.py`) | caches, shared loads, bounded sessions | waiters that outlive the caller that loads; stale snapshots; private addresses | `Scrape`, `Lookups`, `FeedSearch` |
| Evidence and results (`source_verifier`, `tool_output_compaction.py`) | ledger of sources, stored originals | a repair that loses a source; a result stored in several writes | `Evidence`, `ToolOutput` |
| Daily briefing (`briefing_renderer.py`, `skills/daily-summary`) | attempts, pages | a fallback after a half-finished attempt | `Daybook` |
| Images (`image_api.py`, `visual_media`, `image_brief.py`) | stored images, settings | a provider stream that breaks off; inherited settings | `Images` |
| Sandbox and skills (`llm_sandbox`, `agent_skills`) | capability cache, workspace, pipes | lost replies, output limits shared by two pipes | `Sandbox`, `AgentSkills` |
| User memory (`hindsight_memory_context.py`, `memory_api.py`) | bank, session brief, bootstrap lock, generation | Clear while a reflection runs elsewhere | `Memory`, `ProfileImport` |
| Grants, approvals, receipts (`daedalus_runtime/oauth.py`, `approval.py`, `idempotency.py`) | grant, credentials, receipts | rotating refresh tokens, concurrent decisions, unknown outcomes | `Grants`, `Approval`, `Idempotency` |
| Collection migration (`milvus_collection_migration.py`) | audit log, two collections | resumption after a crash | `CollectionMigration` |
| Start-up and access (`entrypoint.py`, `config.py`, `internal_auth.py`) | processes, readiness, identity of a request | a child dies while others start; a connection reused by another user | `Startup`, `Access` |
| Operator's scripts (`scripts/`) | credential bundle and its lock, probe pods, copies of secrets, scans | two runs of one script, a run that dies, a lost reply | `Operations` |
| Evaluation (`evaluation/tool-correctness`) | results of two arms, frozen routes, calls the gateway noted | routes that change in between, a backend that goes on after its client gave up | `ToolEvaluation` |
| Skill maintenance (`tools/`) | candidate branches, baselines, ledger | files that change between evaluation and commit | `SkillReview`, `SkillLoop`, `SkillMeasure`, `SkillMemory` |

`PROJECT.json` lists every component with the part of it that is modelled, and
40 hazards at their lines: what can go wrong there that a test would hardly
reach, and which property would show it.

What makes the whole correct: an effect on the outside world happens at most
once and only with the user's or the operator's consent; a Stop, a revocation
or a Clear that was acknowledged wins over everything under way; slots, guards
and locks are held exactly as long as the work they stand for; nobody's later
work is overwritten by somebody's earlier one; what is reported was done; and
everything that was accepted ends.

## 2. Modules

`ChatJob` is the abstract specification of one job as its user sees it: started
at most once, one outcome, released only after it. `StreamJob` (one job from the
queue commit to its settlement) and `Finalization` (claim and completion of the
journal opened up) both implement it, each for the variables it details, by
`JobSpec`. `StreamJob` takes claim and settlement as two steps, which
`Finalization` refines into eight; `Admission` starts earlier and takes a worker
as a short sequence without faults of its own, since its faults are
`StreamJob`'s subject. `Autonomy` is the same problem in Python with other
means: a processing list and a dispatch phase instead of a start marker.

The other components share no state with each other, so they are checked as
sums: a behaviour of `MCWork`, `MCWeb`, `MCFiles` or `MCServices` is one of one
component (`component` says which), while the others rest in their first state.
Nothing is lost by that, and one instance of TLC checks them all.

| Sum | Components |
|---|---|
| `MCWork` | `DocumentIngest`, `ToolRuntime`, `Rotation` |
| `MCWeb` | `Scrape`, `Lookups`, `FeedSearch`, `Evidence`, `ToolOutput`, `Daybook`, `AutonomousRun` |
| `MCFiles` | `Documents`, `Retrieval`, `Images`, `Sandbox`, `AgentSkills`, `SkillReview`, `SkillLoop`, `SkillMeasure`, `SkillMemory` |
| `MCServices` | `Memory`, `Grants`, `Approval`, `Idempotency`, `CollectionMigration`, `ProfileImport`, `Startup`, `Access`, `Feed`, `Operations`, `ToolEvaluation` |

Proofs are in `StreamJobProofs`, `FinalizationProofs`, `AdmissionProofs`,
`AutonomyProofs`, `WorkProofs`, `ActsProofs` and `FilesProofs` (section 4).

### Reading the modules

One action is one round trip (a Redis script or command, an HTTP call, a file
operation), or one decision between two of them. A process is a program counter
whose values name the next call. Lua scripts that several callers share are
operators (`Commit`, `ClaimStatus`, `SettleJournal`). Records are present or
absent, or one of the few values the code distinguishes; texts, rows and files
are the pieces they consist of; lengths are small numbers compared with small
limits. An operator marked "Mutant:" is not part of a specification: it is a
definition with one plausible bug, against which the property it stands next to
was tested. Variables marked "history" are read by properties only.

*StreamJob.* `status`, `request`, `payload`, `marker`, `abort`, `lease`,
`entries`, `journal` are the Redis keys of the job; `admitted` stands for slot
and conversation guard together. A worker's `sig` is the reason its
`AbortController` was aborted with, `run` is how far it got (timers armed,
request permitted), `caught` that it is past its catch clause. `AcquireLease`
is the lease snapshot with all branches of `processStreamQueueEntry` up to the
reader; `MarkBackendStarted` is `beforeBackendRequest`; `Returned`, `Catch` and
`Load` are what follows the reader. `Crash`, `LeaseExpires`, `DeadlinePassed`,
`Drain`, `ThrowInReader`, `ThrowInWorker`, `LeaseCallFails` and `Evict` are the
faults, bounded by `MaxFaults`, and so is a duplicate entry. A throw may leave the
effect of the call behind where that matters (the marker, the lease token), and
the write of the stop signal before a claim may fail without a trace, as
`finalizeError` swallows it. A reader whose own finalization failed tries it once
more (`ThrowInReader`) and leaves the rest to its worker's catch clause. `sent`
counts the requests; `ChatJob` counts its starts, so that a second one is no
stuttering step.

*Finalization.* A finalizer reads the live status, claims it by compare and
set, acquires the lock, loads the conversation, saves it under lock and
snapshot comparison, commits the journal and unlocks. `Persistence` selects an
owned conversation, an isolated run that creates one, or one that saves
nothing. A conversation is which turns it holds and whether it was renamed. With
`Stalls` a finalizer may outlive its lock, and `overtaken` records that a journal
was completed by somebody else than the one who holds it.

*Admission.* Each job is one submission with its own `pc`; `todo` are the
parallel initialization writes still under way, `holds` what the process knows
it acquired (its cleanup releases no more). `Slow` lets a submission outlast
the initialization grace, so that its guard is examined while it still runs.
`dropped` are the submissions whose guard another one took over, `outran` those
that were queued while the other one was about to, `unsure` those of which a call
failed that takes guard or slot, or that cleans up.

*Autonomy.* `queue`, `processing`, `phase`, `lease`, `runs`, `flags` are the
Redis keys; a worker's `cur` and `rec` are the request and the record it works
with. `Poison` entries are not JSON objects and are dropped as they are claimed,
in two calls no lease fences. The heartbeat of a run is an action of its own. A lease whose worker died
is `Orphan` until it expires; one that expires under a living worker leaves that
worker at its place.

*Web tools.* `Scrape` cuts a page at the longest prefix that fits, rounded to a
paragraph or a sentence when enough stays, and hands a research page on whole;
`FeedSearch` ends in a choice among feed items or in one article, shortened and
told so. In `Evidence` a plan carries, source by source, the tools it hints at
and what it asks to use beside it; the excerpt of a long source is selected again
for fewer characters when its tokens do not fit, and cut last; a ledger of observed links is read in each
form it may be given in; a critic's answer is its schema's fields, right or
wrong. `ToolOutput` decides per result between the original, an equivalent
shorter JSON text and a preview with a reference. In `AutonomousRun` a prompt is
the list of its parts in order, with the goal and the past runs it names.

*Daybook.* An edition is data of a schema (`EditionSchemas` holds a sound one
and broken ones) and content; both front ends of the contract, the compiler of
the schema and the reader of an edition, are operators. A page is the sequence
of its elements; the validator reads the page alone, and what it accepts is
compared with what the renderer was given.

*Sums.* Each module states its own state, actions and properties and ends with
one or a few properties that name the promise (`BatchesEnd`, `ClearIsFinal`);
the sum conjoins them under `component = ...`.

## 3. Runs

| Run | Instance | Checked |
|---|---|---|
| `StreamJob` | chat job, 2 workers, 2 entries, 2 faults (the duplicate entry is one), the request may be evicted | `NoReplay`, `StopWins`, `NothingLeaks`, `LiveJobQueued`, `JobSpec` |
| `StreamJobLive` | chat job or document ingestion, 2 workers, 1 fault, request, payload and stop signal may be evicted, fair | `NoReplay`, `QueuedJobEnds` |
| `Finalization` | 2 finalizers that may outlive their lock, 3 faults, 1 status update, fair | `LaterTurnKept`, `EffectsOnce`, `ReleasedWithReceipt`, `NoResurrection`, `RenameKept`, `JobSpec`, `ClaimSettles` |
| `FinalizationOvertaken` | 2 finalizers that may outlive their lock, 1 fault | `LaterTurnAlwaysKept`, violated |
| `AdmissionFaults` | 2 tabs, 1 conversation, cap 2, slow submissions, 1 fault, both stoppable | `OneTurnAtATime`, `StopBeforeQueue`, `FailureLeavesNothing`, `DiscardedNeverRuns` |
| `AdmissionCap` | 3 submissions, 2 conversations, cap 1, 1 fault, fair | `CapKept`, `EventuallyFree` |
| `AdmissionSlow` | 2 tabs, 1 conversation, slow submissions, no fault | `SlowNeverRuns`, violated |
| `Autonomy` | 2 workers, 2 arrivals out of 3 requests (one scheduled, one poison entry), 1 edit, 1 fault, fair | `DispatchedOnce`, `RequestsKept`, `NoStaleOutput`, `RequestsSettle` |
| `Work` | 2 batches over 2 collections; 2 runs with 3 tools; 2 goals | `IngestSafe`, `ReleasedStaysGone`, `BatchesEnd`, `StreamsEnd`, `GoalsRotate` |
| `Web` | nine components, two or three callers each | `WebHonest`, `FactsHonest`, `ResultsKept` |
| `Files` | eleven components (embedding is a part of retrieval) | `DocumentsKept`, `ImagesSound`, `ActsOnceAndWhole`, `SkillsEarned` |
| `Services` | twelve components (the memory page is a part of `Memory`), two replicas where there are replicas | `ActsAuthorised`, `MemoryKept`, `ServiceSound`, `NoUnapprovedChange` |

All hold but the two that are marked: each of these states what a comment of the
code says, and TLC finds how the code departs from it (below, and "findings" in
`PROJECT.json`). The type invariants (`TypeOK` of the four large modules) are
theorems and need no run; those of the sums' components (`ApprovalTypeOK` and
so on) document the variables.

*Bounds.* Two workers are enough for an owner and a reclaimer; a third would
only repeat the reclaim. Two faults, where they fit, allow a failure during the
recovery from the first one. Two finalizers are a crashed or delayed one and the
one that takes over; three faults let either fail again. With two arrivals the
second request is queued, scheduled, edited or dropped as a poison entry while the
first is under way. `published`, `retained` and `sent`
saturate at 2, "more than once". The slot cap is 1 or 2 instead of 5, a suite has two cases and one repetition instead of
a dozen and three, and limits
of tokens, bytes, pages, retries and cache entries are 1 to 5 instead of
hundreds or thousands; they are compared the same way, and each instance has
inputs below, at and above them. The `Web` run's tool results are every
combination of wrapper, flaw, kind and sizes on both sides of each threshold;
its editions have one defect each, so that a refusal has one cause. Clocks run to two or three ticks and a lifetime
is one or two, so that what was read expires before, while and after it is used.
The proofs remove these bounds for the properties they cover.

*Symmetry* is used for workers and entries (`StreamJob`) and for submissions to one
conversation (`AdmissionFaults`), never in a run with a liveness property.

*Deadlock* is not checked: a job that is settled and acknowledged, or a tool
call that was answered, has nothing left to do, so the models really stop.

*Fairness.* A process that neither crashed nor is idle eventually takes its
next step: every await in the code is bounded by a Redis command timeout, the
connect and idle deadlines of the backend stream, or the heartbeat that aborts
the run. Workers loop over the queue (`StreamWorkerRuntime.run`) and claim idle
entries, so `Dispatch` is weakly fair; in `StreamJob` Redis expires leases.
`Admission` assumes nothing of expiry: `EventuallyFree` says that an accepted
job gives its slot and conversation back without waiting for a TTL (what a
crashed submission holds is left to the TTL or to the next turn). Nothing is
assumed of the user, of status polls or of the submitting process in `StreamJob`. In
`StreamJob` an unfair canceller could hold the finalizer lock for ever, which
its TTL excludes; the model states that as fairness of its finalization.
`Autonomy`: worker steps are fair (the backend request has a hard deadline,
Kubernetes replaces dead workers) and leases of dead workers expire. `Work`: the
steps of an ingestion thread and of its batch, of a tool call and of its reader,
and the dispatcher of goals; not the clients, who may leave.

### What the models show about the code

These are consequences of the code that the models reach; each is outside of
what the code claims, or a deliberate trade-off, and the properties above say
what holds in spite of it.

Chat path:

* The start marker is a key with a TTL and Redis evicts volatile keys under
  pressure. Until response headers arrive the marker is the only evidence of a
  start; if it is evicted and the worker loses its lease, the reclaim sends the
  request again. `SentAtMostOnce` names exactly this assumption.
* `finalizeError` stores the stop signal before the claim, for every failure
  (`chat/finalization.ts:579`). A crash in between makes the reclaim report a
  Stop the user never asked for (`StoppedByUser` in `StreamJob` is violated).
* The save is fenced by the finalizer's lock (`session/conversationStore.ts:24`),
  and a delayed finalizer alone never overwrites a later turn: `LaterTurnKept` holds
  with finalizers that stall. The journal write is not fenced. A finalizer that
  outlived its lock completes the journal and releases the guard while the lock's
  new holder has the journal, still pending, in its hands; the holder then saves
  it over the turn that came next. `chat/finalization.ts:264-266` says that this
  "can never" happen. `LaterTurnAlwaysKept` states that sentence, and
  `FinalizationOvertaken` ends in a conversation without the later turn;
  `LaterTurnKept` exempts that case alone.
* The presence of an apparently abandoned job is read before its guard is
  replaced (`chat/submission.ts:246`, `:248`); a submission slower than the grace
  that is queued in between runs although it was discarded, while
  `chat/submission.ts:296-299` says that one that "was only slow cannot run
  afterwards". `SlowNeverRuns` states that sentence, and `AdmissionSlow` shows
  the request being sent; `DiscardedNeverRuns` exempts that case alone.
  `CapKept` needs `~Slow`.
* After a lost enqueue reply the payload is taken as evidence that the job was
  queued, but a worker that finished the job has deleted the payload: the
  submission is reported as failed though it ran.
* The stop signal is a volatile key like the others. If it is evicted before the
  worker's start check, the Stop is lost; `StopAlwaysWins` assumes that it is
  kept, and `StreamJobLive`, where it may be evicted, checks that the job still
  ends and is sent once.
* An isolated API run takes no conversation guard (`chat/submission.ts:380`),
  yet its completed approval prompt creates a saved conversation: with
  `Persistence = "create"` and one crash a user's turn saved between the save
  and its receipt is overwritten by the re-applied journal.
* With two entries of one job, two workers that each process one of them can
  acknowledge the other's as a duplicate, which leaves no entry to recover the
  job from. Duplicates cannot arise with the present Redis client, which never
  resends a command (`session/redisShared.ts:45`), so the two leak properties
  speak of a job that was queued once (`Forgotten`); that it is sent once, stopped
  for good and ended once is checked and proved with duplicates as well.

Autonomous agent and its output:

* Of a worker that lost its user's lease, feed items and workspace notes are
  refused; its run record and run summary (`upsert_run`) are not fenced, and the
  model writes them too.
* Duplicates of a feed item are looked for in the item it updates and by
  address and story; an update may repeat the text of a follow-up newer than the
  item it names.
* An unclosed `<think>` is not stripped from a run's answer; prompts list at
  most the 60 newest items, so older repeats are left to the classifier.

Tools:

* Document ingestion counts a partly indexed file as success, a misconfigured
  prefix of object keys is answered as the client's error (400), and
  deduplication may drop an entry as the repeat of one that was itself dropped.
* A tool call that fails outside its handlers loses its fallback result when the
  16-event buffer is full (`daedalus_runtime/service.py:655`): nothing is left
  that would end the stream, and the reader gets heartbeats until the caller
  leaves (`:711-718`), which the comment at 640-643 means to exclude.
  `StreamsEnd` exempts such a stream (`mute`); the run's buffer holds one event
  and does fill.
* The semaphore that "caps concurrent synchronous Milvus calls per retriever"
  (`smart_milvus_function.py:82-84`) is released when the awaiting call is
  cancelled by its search's timeout, while its thread runs on. Threads running are
  bounded by the slots and the calls given up (`MissesSerialized`), not by the slots.
* A cancelled first retrieval leaves its half-made client open
  (`smart_milvus`, `_get_retriever`).
* A waiter of a shared article load with a longer timeout fails with the
  shorter one of the caller that loads.
* A repaired answer drops the inline citation of a reference that was listed
  twice; a search answer that is no JSON object raises; the
  reranker of feeds gets at least 16 tokens a passage, also when its budget is
  smaller.
* The briefing's validator can never accept a page with a desk named
  "coverage", "sources" or "editors-note", and more than four agenda items
  overflow.
* An explicitly chosen `jpeg` becomes `png` when a transparent background was
  chosen, planned or inherited (`normalize_image_options`, 151-154), although
  "requested settings win and are never altered" (`image_brief.py:273-275`); no
  property says more than that the chosen output is kept otherwise. An
  inherited `gif` breaks an edit with another model, and orphaned images stay
  until their TTL.
* An answer 2xx without a body or 5xx from the publisher reads "not
  published" though the file may have been.
* Skill instructions are cached once while resources are read fresh.

Services:

* A user's approval is spent although the runtime is at its execution capacity
  and runs nothing.
* A grant's Redis lock lives 40 s, the HTTP timeout is 30 s for each phase of a
  request: a refresh may outlast the lock (`Lapse` in `Grants`). Its write is not
  fenced, so a grant the user has revoked meanwhile comes back; the operation itself
  then fails as it releases the lock. `GrantNeverComesBack` exempts what was
  written that way (`stray`), until the next consent or reset.
* Removing one memory source does not invalidate the session brief, and Clear
  forgets the bootstrap cache of its own replica only; the others keep theirs
  until it lapses. A retention whose write fails leaves its
  reservation in progress.
* A replacing profile import that finds a document gone (404) ends midway; a
  listing that ignores the offset may miss documents.
* The supervisor signals its children, not theirs. Readiness leaves OAuth
  groups out, since they need a user.
* The migration assumes that the source collection only grows while it copies.

Scripts and evaluation:

* `create_content_credentials.py` takes the lock only with `--ensure`. A plain
  run that overlaps an ensuring one may delete the bundle the latter has just
  installed, although a comment says that it owns what it removes.
* The storage preflight leaves its pod when its time is up, and the object when
  the reply to its PUT is lost. `sync_rag_secrets.py` compares no versions: a
  slower run may copy older secrets over newer ones, so one run at a time is
  modelled.
* The evaluation compares digests of the routes before and after each attempt: a
  change that was put back within one is not seen. A call of an attempt whose
  client gave up is charged to the attempt under way when it arrives.

Skill maintenance:

* `reviewed.py` may die between commit and receipt, and a file that changes
  there and back between evaluation and commit is not noticed.
* The loop's byte check after a commit raises when the commit is already made;
  a torn line of the history blocks every later run.
* A promotion may die between writing the rule and writing the ledger; the next
  command finds the rule without its record.

## 4. Proofs

All proofs are checked by TLAPS, for every value of the constants: any number of
workers, requests, replicas, files and faults. The assumptions are the named
ones on the constants (`...Assumption`), which TLC evaluates in every run, and
those that a theorem states itself. Each is about the code:

| Assumption | Why it is needed, and why the code has it |
|---|---|
| `"marker" \notin Evictable` (`SentAtMostOnce`, `ImplementsChatJob`) | the marker is the only evidence of a start; see section 3 |
| one entry per job (`LiveJobsRecoverable`, `NothingIsLeaked`) | the client never resends an `XADD` |
| `"abort" \notin Evictable` (`StopAlwaysWins`) | the stop signal is the only record of a Stop; an hour's TTL, but volatile: see section 3 |
| `~Slow` (`CapAlwaysKept`) | an initialization is a few Redis calls, each with a timeout; its grace is a minute (`conversationJobGuard.ts:11`) |
| `Persistence = "owned"` (`UserEditsKept`, `RenamesKept`, `LaterTurnSafe`) | the conversation is the user's own; see section 3 for isolated runs |
| `GenerationModel = EditModel` (inside `ImagesAreSound`, only for what may be refused) | the default of both settings; section 3 says what an inherited `gif` does otherwise |
| `SandboxAssumption`, `SkillsAssumption`, `LoopAssumption`, `MeasureAssumption`, `SkillMemoryAssumption` | budgets, limits and requested outputs are numbers, cases, folders and skills are finitely many and listed in one order, no skill twice |
| `ReceiptAssumption`, `GrantsAssumption`, `ApprovalAssumption`, `MemoryAssumption`, `IngestAssumption`, `RuntimeAssumption` | a call has one key, a worker one replica, a request one kind, a batch at least one reference; chats, background runs and routes differ; there is room for a tombstone |

`StreamJobProofs` (one job):

* `TypeCorrect`, and `StopAlwaysWins` (`StopWins`): `FlowInv` adds to the types
  that a process in finalization knows its outcome (`AimsKnown`), that a
  finalizer about to settle left no live status (`ClosedWhenSettling`), and that
  after an early stop no worker stands at a sent request (`StopHeeded`).
* `SentAtMostOnce` (`NoReplay`). It is not inductive: it has to be known that
  whoever may still send is alone. `Once` says that a worker at `sending` has
  started and nothing has been sent (`SingleSender`), that evidence of a start
  stays visible to whoever takes the lease (`StartEvident`), and that the lease
  owner at `ready` took the lease when there was no evidence (`OwnerFresh`).
  Evidence disappears only with the acknowledgement or with the status, and then
  the job is no longer live.
* `LiveJobsRecoverable` (`LiveJobQueued`) and `NothingIsLeaked`: who
  acknowledges has seen the job settled, or released what it held (`Settled`).
* `ImplementsChatJob` (`JobSpec`), by the refinement mapping of `StreamJob`.

`FinalizationProofs` (competing finalizers): `TypeCorrect`, `PublishedOnce`,
`ReleaseIsRecorded` and `ImplementsChatJob` from one invariant: a terminal
status and its journal exist together, nothing is released or announced before
the journal is completed, everything is exactly once after. `UserEditsKept` and
`RenamesKept` add that what a finalizer is about to save existed when it read
it; `LaterTurnSafe` that a later turn is saved only after the journal is
completed, and that then nobody who read it as pending still holds the lock,
unless the journal was completed over the holder's head (`overtaken`). Stalls need no
assumption: who lost the lock cannot save.

`AdmissionProofs` (submissions): `TypeCorrect`, `StopBeforeQueueWins`,
`TurnsExclude`, `CapAlwaysKept`, `CapKeptByHolders`, `FailureIsClean`,
`DiscardedStayDown`. What a process knows it holds is what Redis says, until a
lapse, a replacement or a release (`holds` against `guard` and `slot`), and
while parallel writes are out, `todo` names them all. `FailureIsClean` covers
failing writes, a failing preparation and a lost commit reply; `unsure` are those
of which nothing can be said. `DiscardedStayDown` needs no timing assumption: a
submission that was not queued while it was judged finds its guard gone at the commit.

`AutonomyProofs` (the agent's queue): `TypeCorrect`, `DispatchedAtMostOnce`,
`RequestsAreKept`, `OutputIsFresh`. The invariant has three threads. `Once`
keeps waiting, claimed and dispatched requests apart by their phase: recovery
requeues a claim only while it says claimed, and the dispatch fence ends that.
`InOrder` says that both lists follow the order of arrival, which is also why no
list names a request twice. `Exclusive` says that the lease owner alone works
with the one open record, while no lease ended under its owner. The list
operators (recovery reverses, removal filters) are handled by lemmas on
subsequences that count ranks instead of recursing.

`WorkProofs` (over `MCWork`): `IngestionIsSafe` (`IngestSafe`). That threads
exclude each other in a collection is the collection's lock, which stays with the blocking
thread though its caller timed out; that no document is written twice needs that
the batch goes through its references in order of first mention (`InTurn`), that
what waits was not written (`WrittenOnce`) and that a replacing write is the
first of its batch (`FreshAlone`); that a reported document is found needs that
nothing it was written to is replaced by the same batch later (`Kept`).
`ReleasedRunsStayGone` (`ReleasedStaysGone`): a released run, also one released
before its start request came, is registered nowhere and its tombstone stands, or
was forgotten: pushed out by later ones, or older than three minutes.

`ActsProofs` (over `MCServices`):

* `Authorised` (`ActsAuthorised`): the receipt of a call that may write is its
  own (`OwnReceipt`), nothing older stands for it (`NothingOlder`); consents are
  numbered in the order they were given, and what is carried is told apart by
  them; while a lock has not lapsed, its holder is alone with the grant, and what is
  stored was not revoked unless an operation wrote it that had outlived its lock; a
  credential belongs to one approved ask, and the one call that spent it has not
  acted (`OneCredential`, `SpentByOne`), so what was done on an ask was backed
  by it (`ActsBacked`, `ActsDistinct`).
* `NothingUnapproved` (the action property `NoUnapprovedChange`): a call that
  may act was let through by the policy, which only a restart changes, and then
  nothing is under way, or it carries a credential (`GateInv`).
* `ClearedMemoryIsKeptOut` (`MemoryKept`): every cached or carried text is
  either of the present generation, and then holds nothing that was cleared, or
  its holder will fail the comparison of generations; documents are spent once;
  whoever lists or creates pages holds the bootstrap lock and knows all pages
  there are, until the lock was lost (`uncoordinated`).
* A step of one component leaves the variables of the others alone
  (`ServicesApart`), so each invariant is proved over its own module's actions.

`FilesProofs` (over `MCFiles`):

* `ActedOnceAndWhole` (`ActsOnceAndWhole`). A sandbox call posts at most once
  and before it collects (`OnePost`, `OneSend`), what the workspace holds are
  copies of the pieces collected (`PiecesKept`, `CopiesKept`); a skill script's
  output is accounted for byte by byte while two readers share one limit
  (`Accounted`, `Attended`), and a skill is the one of the last folder that
  names it (`LoadsInv`, `LastFolderWins`).
* `SkillsAreEarned` (`SkillsEarned`), four invariants for four tools.
  `ReviewInv`: a round's measurements are those of its own base and head, its
  receipts those of a committed round, and the commits form a chain of texts
  each of which was accepted (`CommitEarned`). `LoopInv`: each stage of an
  intervention loop builds on what the stage before it froze (`LoopChain`).
  `MeasureInv`: what is compared was graded by one judge on one task.
  `GovernedInv`: a rule stands only if somebody approved the very text it was
  added to (`ApprovedText`), and the usage ledger counts every selection.
* Two things came out of the attempt. That the two measurements of a loop used
  the same cases is false if the judge's inputs are replaced and put back
  between them: the fingerprint is compared as a value. The history variable
  `swapped` records a replacement, and `SkillLoop`'s property claims equal
  cases only without one. A put-back needs three interventions, one more than
  the run makes, so the proof covers what the run does not. And the order in
  which equally ranked skills and runs come is the file system's: both are now
  sets of orders, instead of the one order a `CHOOSE` would pick.
* `ImagesAreSound` (`ImagesSound`). For a request (`RequestOk`): every part it
  holds and every final it reports is its user's and no longer a free place, so
  whatever is stored or expires in between leaves them alone; only a final was
  signed. For the settings (`SettingsInv`): the context of the next edit was
  accepted by the model that made it, in one of the two modes, which is what
  inheriting from it needs (`InheritedIsAcceptable`); a second normalization
  changes nothing (`NormalizedIsSent`), a chosen background is kept, and a chosen
  output but for the JPEG of section 3.
* The attempt corrected `Images`: two arms of the `CASE` that reads a PNG chunk
  overlapped, and TLA+ does not say which one is taken (TLC takes the first).
  `Chunk` now has disjoint cases.
* `DocumentsArePrivate` (`DocumentsPrivate`, one half of `DocumentsKept`). What a
  request loads and what it loaded is its user's or a legacy document, whoever
  the object it names belongs to (`Loading`, `Loaded`), and what is cut keeps two
  ends (`OwnDocumentsOnly`). The computations of ingestion are right for inputs
  of any length: deduplication drops no passage that is best so far and each
  dropped one has a similar one at least as good (`DroppedRight`), and likewise
  tables, progress, a batch's status, dimensions, logins and names. The proof needs
  the size limit, the marker and the inline limit to be natural numbers
  (`DocumentsAssumption`).
* Folds and recursive functions over data of any length (the total of a request's
  parts, the scan of a mask file, the entries of a document, what a selection of
  skills takes, the choices of settings) are reasoned about as runs: the values on the prefixes, each the step
  of the one before (`Runs`, `StepsDefineAFunction`). A property of all of them
  follows from the least position where it would fail (`LeastOfNaturals`), not
  from an induction theorem.

*Only model-checked.* Liveness (`QueuedJobEnds`, `ClaimSettles`,
`EventuallyFree`, `RequestsSettle`, `BatchesEnd`, `StreamsEnd`, `GoalsRotate`):
fairness is outside this prover, and so is `ENABLED`. What the other folds
compute (`FeedKept`, `Trimmed`, the page and window arithmetic of `ToolOutput`,
`Retrieval` and `Daybook`): an induction theorem cannot be cited, since those take
an operator as parameter, and each would need a least counterexample of its own.
`WebHonest`, `FactsHonest`, `ServiceSound` and `ResultsKept` have no proof yet, and
of `DocumentsKept` the half about retrieval and embedding (`RetrievalSound`) has
none; see section 6.

*Not so.* One might expect that every passage deduplication drops has a similar
one among those kept (`DroppedIsCovered` in `Documents`). No run checks it, since
it is false of the code: with three entries, the one an entry was dropped for may
itself be dropped for a third, which is similar to it and not to the first.
`_dedup_entries` compares pairs and promises no more; what is proved is that each
dropped entry has a similar one at least as good, kept or not.

## 5. Not modelled

The content of messages, events, errors and documents; the parsing of the
backend's event stream and of HTML; OAuth prompts of the chat (an update of the
live status); health checks, worker capacity and backend selection (its outcome
is a choice); the streaming state shown to other devices. Deletions the chat
path issues in parallel are one step that may fail in any part. TTLs are events
that may happen once nobody renews the key, not durations, except where two
lifetimes are compared (caches, robots policies, snapshots). Of the chat path
the streamed output store is present or absent, and the memory retention worker,
the compatibility API's idempotency record and image job recovery are left out
(hazards without a property say so). The Rust runtime is external: it receives a
request and answers; so are the model services, Milvus, object storage, the memory
service, the sandbox service and remote MCP servers, each of which may fail,
answer late or lose a reply as the code allows for. Of the operator's scripts the checks of target and source names and the
command lines are left out, of the evaluation the prompts, latencies and the
full-text mode of research tasks. The migration and HTTP check
scripts are tests; browser and deployment files only call or configure what is
modelled.

## 6. Plan

1. Done: the modules, runs and theorems above.
2. Next proofs: a collection reported as verified is the source's
   (`VerifiedIsExact`); a request acts for its own user (`AccessSound`); readers
   share one load (`SharedLoads`); an autonomous run writes only while it owns
   the user (`RunsKeepTheirWord`); a retrieval reports hits of collections that
   exist (`RetrievalSound`).
3. Next models: appends to the streamed output store at an acknowledged offset,
   as an implementation of a log; the memory retention worker; the idempotency
   record of the compatibility API; document reservations.
