# A verification development for contentSwarm

TLA+ models of the concurrent core of contentSwarm (the `yuxi` backend under
`src/backend/package/yuxi`, the API server under `src/backend/server`, the web
client of agent runs under `src/web`, and the live collaboration of the HyCanvas
application under `src/apps/hycanvas`), TLC configurations that check them on small
instances, and theorems that TLAPS proves for every instance. `PROJECT.json` lists
for each definition the source lines it stands for; paths below are relative to
`src/backend/package/yuxi` unless they start with `server/`, `web/` or `hycanvas/`
(for `src/apps/hycanvas`).

## 1. The system

contentSwarm is a platform for producing marketing content with agents. A
FastAPI server answers the web frontend; agent runs, content runs, image jobs
and publications are executed by ARQ workers in other processes. They share a
Postgres database, Redis (the ARQ queue, event streams, cancel keys and locks)
and a browser gateway that drives one logged-in browser context per social media
account. Every process is asynchronous Python: between two `await`s nothing else
of that process runs, at an `await` anything may; the same holds of the code in the
browsers. HyCanvas, the design application the platform embeds, has its own
backend in Go, whose hub relays the edits of those who work on one design.

| Component | State | Operations | Talks to |
|---|---|---|---|
| Agent run admission (`services/agent_run_service.py`) | rows `agent_runs`, input messages | create (new or resuming), active run of a thread, cancel | Postgres, ARQ |
| Agent run pipeline (`services/run_worker.py`, `run_queue_service.py`, `repositories/agent_run_repository.py`) | run status, cancel key, event stream, per-attempt buffers and flags | execute with retries, watch for cancel, publish events, SSE with resume | Postgres, Redis, agent graph |
| Tasker (`services/task_service.py`) | dictionary of tasks, queue, rows | submit, submit unique by payload, cancel, delete, worker loops, start with sweep, shutdown | Postgres, knowledge routers |
| Xiaohongshu distribution (`services/xiaohongshu_service.py`, `xiaohongshu_worker.py`) | jobs, per-account results, account locks, manual-control leases | create with deduplication, deliver, drive accounts, take an account over | Postgres, Redis, gateway |
| Web client of agent runs (`web/src/composables/useAgentRunStream.js`, `useAgentThreadState.js`, `AgentChatComponent.vue`) | per thread: the run followed and its last sequence number, chunks, pending question, subscription, timers; a snapshot in `localStorage` | send, reply, stop, subscribe, reconnect, resume after a reload or a change of thread | admission, SSE endpoint |
| HyCanvas realtime collaboration (`hycanvas/frontend/src/lib/ydoc.ts`, `realtime.ts`, `useRealtime.ts`, `hycanvas/backend/internal/realtime/hub.go`) | a Y.Doc bound to an editor store per client, IndexedDB, the hub's buffers, a journal and a file per lineage | edit, apply, sync, connect, switch to a branch and back, preview a version, save, change of role | hub, REST services |
| Browser sessions of the gateway (`integrations/xiaohongshu/session_manager.py`) | open contexts by account, their locks | open, replace, reap, close, close all | gateway handlers |
| Content runs and cover jobs (`services/content_run_worker.py` and neighbours) | content runs, cover jobs, interrupts | produce, interrupt for a cover, resume, cancel | agent runs, image jobs |
| Viral assets (`services/viral_asset_worker.py`) | preparation attempts | prepare, fence by attempt number, invalidate | Postgres, ARQ |
| Sandbox provider (`agents/backends/sandbox/provider.py`) | sandboxes by scope, last use | acquire, get, release, shut down | sandbox service |
| Image design, material sync | jobs with idempotency keys | create, execute | Postgres, ARQ |
| Agent delegation | child runs | start, poll, steer | agent runs |
| Chat stream and agent graph | conversation, graph state | stream chunks | models, tools |
| Conversations, knowledge bases, material library, accounts and roles, callbacks, providers/MCP/skills, server assembly, other views of the frontend, the HyCanvas editor and its services, deployment | rows, files, configuration | CRUD, parsing, calls to other services | – |

What is hard in each, and what makes it correct:

* **Agent run pipeline.** A handler is a dozen awaited calls, and each can
  fail; the job may be delivered again after a lost worker; a cancel arrives by
  two channels (the row and a Redis key) of which the watcher reads one; events are
  appended to the log while a client reads it and the row. Correct means: a
  client told that a run ended has been sent everything published before; the end
  on the log is the one in the row; answers are neither reordered nor held
  back; an early cancel is not lost; a terminal status is final; every run ends.
* **Admission.** The lookup, the insert and the enqueue are separate, and so are
  the transactions of two requests with one request id. Correct means: one run
  per id, jobs find their rows, only a failure leaves a row without a job, an
  interrupted run that was replied to is not reported as active.
* **Tasker.** One `asyncio.Lock` orders the changes of objects and rows, but the
  deletion of a row and the coroutine of a task run outside of it; the process
  crashes and restarts. Correct means: rows follow objects, deleted rows stay
  deleted, unfinished rows have an owner, cancels in time are honoured, builds of a
  graph do not overlap, tasks end and shutdown returns.
* **Distribution.** A click on *publish* cannot be undone and its answer can get
  lost; deliveries repeat, requests race, users take accounts over. Correct means:
  nothing is sent twice by a job, no row denies what was sent, the job's verdict
  sums up its results, a user is given no account that a live worker drives.
* **Web client of agent runs.** Every function of the page that follows a run waits for
  requests in the middle, and none of them owns the thread: a send, a reconnection
  timer, a resumption after a reload and the clean-up of an ended run may cross. The
  event stream can end without an end. Correct means: the snapshot a reload starts
  from is that of the run the page follows; what is shown is the answer, without gaps
  or repetitions; a spinner has something that will end it; a run that goes on is not
  lost sight of; once it has ended, the page stops waiting.
* **HyCanvas realtime collaboration.** An editor store and a Y.Doc mirror each
  other by callbacks, except in a preview, and the store outlives the document it
  was loaded from: after a switch of lineage it holds another one's content. What
  gives the empty Y.Doc its state first (IndexedDB, the journal, the file, a
  peer's frame, the first edit) is a race. Frames get lost. Correct means: content
  of one lineage does not get into another; what is on the screen is what the Y.Doc
  holds; a client that asks a peer for what it lacks gets it; offline edits merge.

The hazards this code is exposed to are in `PROJECT.json` under `hazards`, each
at the line where it bites, with the properties that watch it.

## 2. Modules

### AgentRun.tla — one run, from its job to the end its client is told

Variables are named after the code: `status` is the column, `signal` the key
`run:cancel:{id}`, `stream` the log `run:events:{id}`, `job`/`job_try` what ARQ
knows, `buffer` the `ChunkedEventWriter` buffers, `terminal_set` and `cancel_event` the
locals of `process_agent_run`, `client` the loop of `stream_agent_run_events`.

Each branch of the worker (chunk kinds, end of the stream, `CancelledError`,
retryable and other errors) is written as the sequence of calls it makes:
`ChunkPlan`, `ExhaustPlan`, `CancelPlan`, `ErrorPlan` put into `plan` what is left
to do, and `DoFlush`, `DoPublish`, `DoMark`, `DoEnd`, `DoPeek`, `DoCheck` perform one
call a step. So a failure (`CallFails`, `ExpireFails`), a stop (`Stopped`) or a
death (`WorkerDies`) can fall between any two calls, and everybody else can act
there. `handling` tells an exception inside the `try` body (which starts an `except`
clause) from one inside an `except` clause (which leaves through `finally`).

Row locks appear as `RowFree`: a cancel request holds the row from its `FOR
UPDATE` to its commit, over the call to Redis in between. What the request goes
by is `loaded`, the status its session loaded before it waited for the lock.

The chat generator is the environment: `Yields` lists the chunks it may produce
next (only the run's own thread ends a run; after a question only the state is
reported). A client reads the row and then the log (`ReadRow`, `ListEvents`), stops
at the first end event, and may reconnect from where it was or from the start.

`RetriesOn` names the ends of an attempt after which ARQ delivers a job again. ARQ's
own rule is `{"lost"}`: a lost worker. The code counts on `{"error", "lost"}`, where a
raised `RetryableRunError` leads to another attempt too, which finding 2 is about. The runs
in which calls fail use ARQ's rule; so `RunEnds` excepts a run whose attempt ended in
an error that ARQ does not repeat, and which stays `running` for good. Only `run_cancel`,
where no call fails and which checks safety only, uses the wider rule: it adds
deliveries and takes none away.

### RunFeed.tla — what the event stream promises

The abstract specification: events are published, the run is closed once, a client
moves its cursor and is told the end only behind everything published before the
close. `AgentRun!FeedSpec` is its instance under the mapping `published <- Len(stream)`,
`closed <- outcome # "none"`, `mark <- closedAt`, `cursor <- client.cursor`,
`told <- client.end # "none"`.

### AgentRunProofs, AgentRunAttemptProofs, RunAdmissionProofs, TaskerProofs, XhsDistributionProofs, RunStreamProofs, DesignSyncProofs, DesignSyncMirrorProofs — theorems (section 5)

### RunAdmission.tla — POST /agent/runs

Requests with keys, threads and users walk through parent check, lookup, insert,
conflict, commit and enqueue, one step per statement that reads or writes shared
state. `KeyIsFree` is the unique index on `request_id`: a second insert waits for
the first transaction. `Abort` is a failure of any call or the death of the API
process; a row that is rolled back keeps its place in `order`, where nobody looks for
it, and Redis may have the job although the enqueue failed (`MayHaveQueued`). The run
itself is a job that is taken and ends, interrupted or `"ended"` (completed, failed or
cancelled), which is all that admission sees of AgentRun.

### RunStore.tla — what creation promises

The abstract specification: an idempotent store. A key gets one run in one step (`Create`) and
for good, a stored run is handed to the workers once and its request answered with it or with
an error (`Queue`), other requests are answered with the run of their key or refused because it
is another user's (`Repeat`), or because they wanted to resume what cannot be resumed
(`Refuse`). `RunAdmission!StoreSpec` is its instance: `run` is the committed row of each key,
`queued` the runs with a job, `told` the answers, `wanted` what the requests carry. Lookups,
inserts, conflicts and rollbacks are not seen.

### Tasker.tla — background tasks of the API process

A change of a `Task` object takes the lock and leaves a save under way
(`Change`); the save returns or raises, written or not (`Saved`, `SaveFails`), which
gives the lock back. Deleting a row (`RowDeleted`) is outside the lock, as in
`delete_task`. A worker goes get, lookup, start, run, conclude or settle, with a save
behind each change; `conclude` is the save inside the `try` statement, which turns
into a failed task when it raises, `settle` the ones in the `except` clauses. The
process crashes (`Crash`), is shut down (`Shutdown`, which holds the lock while it
waits for the workers) and starts again with the sweep (`Restart`).

### TaskRow.tla — what the rows of tasks tell

The abstract specification: the life of a row over any number of processes, from
pending over running to one final status, and away for good. A success or
a cancel whose save raised may be overwritten by a failure, which is final. `Tasker!RowSpec` is
its instance: a row that is absent is `new` while its task may still be saved and
`over` once the task is neither registered nor unsubmitted. One step may concern
several rows, because a crash takes several tasks and the sweep writes several.

### XhsDistribution.tla, XhsDistributionMC.tla — publishing to accounts

* A request: `Lookup` (accounts ready, then the idempotency key), `FindRecent` (the
  24-hour rule, during which time does not pass), `Create` (flush and commit; a
  duplicate key fails at the flush), `Enqueue`; `EnqueueFails` raises with or without
  the job in Redis, and `Refuse` writes "failed" over whatever the row says by then.
* A worker, per delivery: `Take`, then per result `Interrupted` (left by an earlier
  delivery), `NotReady` or `Begin`; `Acquire`/`Busy`/`Enter` are
  `_browser_account_slot`; `OpenFails`, `Post`, `Receive`, `GiveUp` the call to the
  gateway and its timeout; `Finish` the total. `Stop` is a stopped or dead worker or
  `job_timeout`.
* The gateway: `Page`, `PageFails`, `Click`, `Confirm`. A handler goes on when its
  caller has stopped waiting. `sent` counts the clicks.
* The account: `Claim`, `ControlEnds`, `Disable`, `LockExpires` (only when the
  holder is gone: `ACCOUNT_LOCK_SECONDS` outlasts a distribution).

The in-process `_BROWSER_SEMAPHORE` is left out, which only adds behaviours: each delivery may
be in a process of its own. A request lists its accounts in an order (`ask[r].list`), which is
part of the key that `FindRecent` compares (`SameDedupeKey`): `json.dumps` keeps the order of
lists. `MCAsks` lets the second request publish to the first account, with the same or another
key, while the first publishes or saves drafts to one or both accounts.

### Publisher.tla — what a distribution promises

The abstract specification: per job and account one `Post` at most, and one `Report`,
final: `sent` only behind a post, `unsent` only where there is none and none will
come, `unknown` otherwise, and then the post may still come. `XhsDistribution!PublisherSpec`
is its instance: `posts` counts the clicks, the report is read off the result by `Told`
(the failed result of a draft tells nothing).

### RunStream.tla — the page that follows a run

One conversation thread of one page. Everything the page knows is the record
`client`: the fields of `getThreadState`, the snapshot in `localStorage` (`snap`), and the
continuations of its asynchronous functions, each as a record of what it has closed
over: `sub` is the invocation of `startRunStream` that owns
`runStreamAbortController`, `dead` are the aborted ones that still run, `timers` the
reconnections of `scheduleRunReconnect`, `resets` the ended runs whose
`.finally(resetOnGoingConv)` is to come, `resumes` the invocations of
`resumeActiveRunForThread` and where each has got to, `awaiting` the requests that
create a run.

A function of the source that changes the thread's state is an operator of the same
name from `client` to `client` (`startRunStream`, `stopRunStreamSubscription`,
`finalizeRunStream`, `preserveInterruptedRun`, ...), and an action is the code between two
awaits: `Deliver` and `Close` are the reading loop, `CheckAnswered` is the look at the row
when the stream closed without an end, `BeginResume`, `ResumeLive`, `ResumeSnapshot`
and `ResumeThread` the stages of a resumption, `LateAnswer` and `LateReset` what dead
invocations still do.

The server is what `AgentRun` and `RunAdmission` promise to a client: rows are
created, log events and end once, with the end event last (`Publish`, `EndRow`,
`AppendEnd`, `Create`); a failed run shows as completed, which the page treats alike.
`FaultNext` are the stream's time limit, a backend that answers with an error event, broken
connections and failing requests; `UserNext` sends, replies, stops, leaves the thread
and comes back, lets the page become visible again, reloads.

`overtaken` is a history variable: a continuation has acted on a thread that had
moved on to something else (`Heeds`), or has shown a question again and so made its run
the active one while no run was (`ShowsAgain`, `At`): the page then stands at that run's last
sequence number without its chunks. `SpinnerHasSource` and `AnswerIsWhole` except threads to
which that has happened; section 4 says which continuations those are.

### DesignSync.tla — live collaboration on a design

A document is the set of transactions it has received (`doc[c].known`, indices into
the log `ops` of all transactions ever created). What shows of it follows from the rules
of Yjs that matter here: a transaction is integrated when those it refers to
(`needs`: the earlier ones of its session, and its parent) are there; of several
seeds of the root the last writer's wins (`Root`); deletions hold in any order.
`Ranks` leaves open which of two concurrent seeds wins. Elements are
numbers; their properties and order are left out.

Each transaction records, as history, whose content it carries (`from`) and into
which lineage it went (`home`); `store[c].of` is what the store really holds, and
`store[c].label` the code's own account of it (`storeLineage`).

* Reconciler (`ydoc.ts`): `Reconciled` is the store's subscriber with `foreign` for
  `foreignStore`; `Apply` is `applyToStore` behind an update; `Edit` and `TurnPage` (a new
  revision of the store, `Bump`), `ExitPreview`, `FileLoads` (`adoptStore`) are what calls them.
* Socket (`realtime.ts`): `Connect` with its step 1, `Receive` for updates, step 1,
  step 2 and role frames, `sendSync`, which drops what cannot be sent.
* Binding (`useRealtime.ts`): `Bind`, by `SwitchBranch` and `OpenPage`, then `IdbLoads`,
  `FramesLoad`, `FileLoads` in any order, each of which may fail, the frames also behind
  some of their pages.
* Hub (`hub.go`): `HandleSync` relays an editor's frames to its room, `Offer` drops a frame
  for a full buffer, `Create` journals behind the broadcast if it can, `RefreshRole`.

`strayed` is a history variable with the three unguarded moments the properties
except: `"saved"` (a save behind a switch that has not completed), `"unlabelled"`
(`storeLineage` is wrong: `resyncFromLiveDoc` does not tell it, and neither does the load of
main's file on the way back from another page of the application), `"skipped"` (a reload
that ends a preview is not reconciled).

## 3. Runs

All bounds are in the configuration files. Two of an actor are what a race
needs; a third request in admission lets one wait for an insert while another
repeats a committed one. `MaxFaults = 1` puts one failure at any point; with two
attempts the failed delivery and the one that repairs it both fit. In `run_faults` it takes
two, one for a delivery and one for the repair.

| Run | Configuration | Shows |
|---|---|---|
| `run_cancel` | 1 cancel, 2 tries, 2 chunks, no failing call, the wider retry rule | The first end event agrees with the row (`FirstEndAgrees`), chunks keep their order (`ThreadOrder`), nothing is held back at the end (`NothingHeldBack`), a cancel before the first delivery is honoured (`EarlyCancelHonoured`). Two chunks before the terminal one let a buffered and an unbuffered chunk of the same or of different threads meet. |
| `run_faults` | 2 failures, 1 reconnect, 2 tries, batches of 2, ARQ's own retry rule | `ClientSawEverything`, and the pipeline implements `RunFeed` (`FeedSpec`). Batches of two split the log, so that the row is read again in the middle. Also `RunEnds` and `ClientIsTold`: every run ends, unless ARQ gave its job up after a failure or an error it does not repeat, and the client of a run that ended is told, past any two failures. One chunk before the terminal one and no cancel request (with more, the instance is too large for liveness); `NoEventMissed` and `FeedImplemented` are proved for any number of both. |
| `run_final` | 1 cancel, 1 try | *Violated*: `TerminalIsFinal`, finding 1. |
| `run_retry` | ARQ's own retry rule | *Violated*: `GivenUpOnlyAfterMaxTries`, finding 2. |
| `admission` | 3 requests, 2 keys, 2 threads, 2 users, 1 failure | `OneRunPerKey`, `OrphanNeedsFailure`, `RepliedIsSuperseded`, creation implements `RunStore` (`StoreSpec`, which implies `JobFindsRow`), `EveryRequestAnswered`. |
| `tasker` | 2 tasks, 2 workers, 1 knowledge base, 1 failure, any number of crashes | `DbAgrees`, `SuccessIsSaved`, `RowHasOwner`, `CancelInTimeHonoured`, `OneBuildUnlessDeleted`, the rows implement `TaskRow` (`RowSpec`, which covers `DeletedStaysDeleted`), `EveryTaskSettles`. |
| `tasker_shutdown` | 1 task | *Violated*: `ShutdownEnds`, finding 3. |
| `xhs` | 2 requests, 2 accounts, 2 tries, 1 failure, one account somebody may take over | `ResultsTruthful`, `JobTellsResults`, `ControlIsExclusive`, `PublishedTwiceOnlyBlindly`, the distribution implements `Publisher` (`PublisherSpec`, which implies `SentOnce`), `JobSettles`. |
| `xhs_duplicate` | 2 requests, no failure | *Violated*: `DuplicateIsAnswered`, finding 4. |
| `run_stream` | 2 runs, 2 events each and their ends, 1 trouble (failure, broken connection, reload, refocus or change of thread; a failing step of the resumption it begins, or a failing late status request, is part of it) | `SnapshotAgrees`, `SpinnerHasSource`, `AnswerIsWhole`, `SightKept`, `Settles`. Two runs are what it takes for a continuation of one to meet the other; two events show a gap or a repetition in the middle; `retry` events, which the page passes over, are left out. |
| `design_sync` | 2 clients, one of which moves between lineages; 2 edits or page turns, 2 moves or troubles, buffers of 2 | `LineagesApart`, `StoreMirrors`, `NewcomerCatchesUp`. Two edits make an addition and a deletion or rival additions, two moves a switch and the way back, or a switch within a preview; a buffer of two is full before the second edit is through. `NewcomerCatchesUp` is checked for the second transaction, which may need the first. |
| `design_offline` | 2 clients, 1 edit, 1 trouble, buffers of 64 | *Violated*: `OfflineEditsMerge`, finding 5. |

Deadlock is not checked anywhere: each system comes to rest when its requests,
tasks, runs or edits are over. The liveness properties say what must not rest earlier.
Type invariants (`TypeOK`) are part of one run per module. There is no symmetry
reduction: most runs check liveness too, where it would be unsound, and the order
of creation and `MCAsks` tell the members apart.

Every property of a passing run has a mutant in `PROJECT.json`: a plausible slip
in a definition of the model (a dropped guard, a swapped order, a missing reset)
under which the run finds the property violated. The definitions marked
`\* mutant` are there for that and are used nowhere else.

### Fairness

* `AgentRun`: weak fairness of the worker (`WorkerStep`, which includes ARQ
  delivering a queued job), of the watcher task, of the polling loop of the SSE
  endpoint and of the rest of each cancel request that has begun: all are loops or
  handlers that keep running in an event loop. Nobody has to send a cancel,
  reconnect or fail.
* `RunAdmission`: weak fairness of each request's handler, after it arrived.
* `Tasker`: weak fairness of saves returning and of the end of a shutdown;
  strong fairness of each worker's `Advance`, because `asyncio.Lock` and
  `asyncio.Queue` serve their waiters first come, first served, while other holders
  take the lock again and again; the same assumption says that a coroutine ends
  however often it reports progress.
* `XhsDistribution`: weak fairness of each delivery's worker. The gateway is under no
  obligation: the worker's timeouts (`GiveUp`) are what ends the wait.
* `RunStream`: weak fairness of the page's own steps (`StreamNext`: a promise that is
  pending is settled, a timer fires) and of the creation of a run that was asked for. Runs need
  not end, nor the user do anything: `Settles` speaks of a run that has ended.
* `DesignSync`: weak fairness of `Receive` for each client: a socket that is up delivers what
  the hub has put into its buffer, in order.

## 4. Findings

1. **A stale cancel undoes a terminal status** (`run_final`).
   `cancel_agent_run_view` loads the row, `_lock_run` then locks it but gets the
   object its session already holds, with the old status; the guard of
   `request_cancel` passes and `cancel_requested` is written over a terminal status
   committed in between. Nothing will end the run again.
2. **A retryable error is not retried** (`run_retry`). `RetryableRunError` is an
   ordinary exception to ARQ, which repeats a job for its own `Retry` or a cancelled
   task only. The attempt leaves the row `running` for a second delivery that
   never comes.
3. **Shutdown waits for itself** (`tasker_shutdown`). `shutdown` holds the lock
   while it gathers the workers it cancelled, and a worker with a task under way
   waits for that lock to mark the task. The lifespan steps behind it never run.
4. **The duplicate request is not answered** (`xhs_duplicate`). The insert of the
   second of two concurrent requests with one request id fails at the `flush` in
   `create_distribution_job`, outside the `try` statement whose `except
   IntegrityError` was written for it.
5. **Offline edits are not sent** (`design_offline`). `sendSync` drops updates while the
   socket is down, and on reconnect the client sends its state vector, to which peers
   answer with what *it* lacks. The comment at `realtime.ts:235-237` relies on a step 1
   of the server, and `docs/roadmap/16-realtime-collaboration.md:271` promises the
   merge, but the hub only relays: nobody asks the client for its edits until some peer
   connects anew, and they never reach the journal.

Observations that contradict no statement of the repository, or only a loose
one:

* Runs of one thread are not serialised; creation never asks for an active one.
* A cancel answered with "cancelled" may still be followed by a success: the
  watcher polls, and the run may complete before it looks.
* Deleting a running task lets a second graph build of the same knowledge base
  start beside it (hence *UnlessDeleted*), and a failed save in `enqueue` or
  behind "running" strands its task (`stuck`, excepted by `EveryTaskSettles`).
* The manual-control lease keeps out live workers only. When a worker timed out
  waiting, the gateway may click after a user took the account over. An account
  disabled behind the worker's look is still published to.
* Two requests with different keys that look before either inserts publish the same text twice,
  and so do two that list their accounts in another order, or accounts they share beside
  others, however late the second one looks; a job orphaned by a dying request blocks the text
  for a day; a job whose enqueue was misreported may publish although its request was refused.
* The page that follows a run. The clean-up of an ended run
  (`web/src/composables/useAgentRunStream.js:194`) comes two requests later and cuts off
  the stream of a newer run. A resumption acts on answers without looking whether the
  thread has moved on (402, 436, 464), and shows chunks twice or restarts an older run;
  `preserveInterruptedRun` (211) writes back the run and the sequence number it was called
  with; a reconnection (232) may fire during a send. A question answered before the
  row says "interrupted" is refused after the chunks were wiped. The error event by which
  the server asks for a reconnection (`services/agent_run_service.py:418-443`) is
  terminal to the page (344).
* Collaboration. A save between a switch back to main and the reload of main's file writes the
  branch into it (the comment at `useRealtime.ts:160-168` is about just that);
  `resyncFromLiveDoc` leaves `storeLineage` behind, and so does the way back from another page,
  after which edits of a main nobody has synced are dropped and main's content may seed a
  branch; turning a page seeds an empty room, also by one who may not edit; a reload that ends
  a preview is not reconciled, so that the next edit takes back what peers did. Of two rival
  first seeds one client's content is hidden. The file a page opens with may be older than the
  Y.Doc in IndexedDB. A dropped frame leaves the later ones of its sender pending at a peer,
  and a dropped role frame an editor read-only. `markClean` on a branch takes edits for
  journaled that the hub never saw.

## 5. Proofs

Each proof module shows `Init => IInv`, `IInv /\ [Next]_vars => IInv'` and, for
each theorem, that `IInv` implies the invariant or the step property in question.
The assumptions are the named `ASSUME`s of the module the proofs are about: bounds are
natural numbers, sets that are told apart (requests and "no request", say) are
disjoint, and the accounts of a distribution are finitely many, because it counts
them.

### AgentRun

`AgentRunProofs.tla` proves, for every set of cancel requests and every number
of tries, chunks, faults and reconnections, from the named assumptions on the
constants:

| Theorem | States |
|---|---|
| `TypeCorrect` | `Spec => []TypeOK` |
| `NoEventMissed` | `Spec => []ClientSawEverything` |
| `FeedImplemented` | `Spec => FeedSpec`: the pipeline refines `RunFeed` |
| `FirstEndIsOutcome` | `Spec => []FirstEndAgrees` |
| `ChunksInOrder` | `Spec => []ThreadOrder` (`AgentRunAttemptProofs`) |
| `NothingIsHeldBack` | `Spec => []NothingHeldBack` (`AgentRunAttemptProofs`) |
| `EarlyCancelIsHonoured` | `Spec => []EarlyCancelHonoured` (`AgentRunAttemptProofs`) |

**TypeOK** is nearly inductive by itself; it carries two facts that need the
control structure: a call is left in `plan` exactly when the worker is inside a
handler, and ARQ holds the job as running exactly while the function runs. The lemmas
at the head of the module say that every plan is a non-empty sequence of calls
(`CancelPlanType`, `ErrorPlanType`, `ChunkPlanType`, ...) and what `Commit`, `Emit`,
`Enter` and `Continue` do to their part of the state.

**ClientSawEverything** is not inductive: the state does not say why an end event
could not be in front of the client before the row is closed. The inductive
invariant `IInv` adds what the order of the calls guarantees:

* `PlanFenced`: in whatever is left of a handler, an `end` call comes behind a
  `mark` call, or the row is terminal already. This is the property of the
  handlers that "commit the row, then append the end" amounts to.
* `RowClosed`: a terminal status, in the row or in what the client last saw of it,
  means that the run is closed.
* `EndsBehindClose`: `closedAt` is within the log, and every end event on the log is
  behind it.
* `ClientInside`: the cursor is within the log, and a client that was told the end
  has stopped.

Then a client that stops at an end event is past `closedAt`, and one that stops on
an empty read behind a terminal row has read the whole log, which is at least as long.
Each action has its step, and under it one per conjunct it can disturb.

**FeedSpec** follows from the same invariant: chunks of the log are published one
at a time, `Commit` of a first terminal status is `CloseRun`, `EndSent` and a
drained `BatchSent` are `Tell`, other batches and `Reconnect` are `Move`, all else
stutters.

**FirstEndAgrees** speaks of the attempts that no failure disturbs, and so does its
invariant `EndInv`. `Paired` is a property of the handlers, stronger than being fenced:
an `end` call stands directly behind the `mark` call of the same status, and every
`mark` is followed by an `end`. It is shown of each plan once and kept by concatenation
(`PairedConcat`). `Paced` says where the worker is in such a plan: as long as there is no end on
the stream, a row that is terminal has the `end` of its own status as the next
call, or the job is over. So the end that comes first names the status that came first, and a
second attempt or a late cancel finds the stream closed. `FaultsCount` lets the failing
steps go: they leave `faults` above zero for good.

**ThreadOrder and NothingHeldBack** speak of what one attempt writes. A chunk it took from
the generator is in one of three places: on the stream (`Sent`), in its thread's buffer
(`Held`) or in a call of the handler under way (`Due`). `WriterInv` says, of an
environment without failures:

* `Ordered`: within a thread, what is sent comes before what is held, and both before
  what is due. `Covered`: every chunk taken is in one of the places.
* `Laid`: a handler carries one chunk, the one taken last, and nothing behind a call that
  completes the attempt or may replace what follows. `FlushedFirst`: it empties a thread's
  buffer before anything of that thread is appended directly. This is the discipline of
  the handlers; it is shown of each plan once (`ChunkPlanFacts`, `ExhaustPlanFacts`, the
  bare plans) and kept by every call (`LaidTail`, `FlushedTail`).
* `CompletesLast`: once the attempt says it is complete, nothing is taken any more.
* `Tries`: events of the stream are of this attempt or an earlier one, so that a second
  attempt begins with none of its own (`Begun`).

`Ranked` and `AnswerOut`, the two properties themselves, then follow at each append
(`Appended`).

**EarlyCancelHonoured** is carried by `EarlyInv`. Before the first delivery, the key in
Redis is there if the cancel is (`BeforeDelivery`). From then on, until the job is over,
the first attempt has taken nothing from the generator whenever it is about to (`Honoured`):
every handler that returns there ends in a check of the key (`EndsInCheck`), and none marks
the row other than cancelled or failed (`Steered`).

### RunAdmission

For any number of requests, keys, threads, users and failures:

| Theorem | States |
|---|---|
| `TypeCorrect` | `Spec => []TypeOK` |
| `IdempotentCreation` | `Spec => []OneRunPerKey` |
| `JobsHaveRows` | `Spec => []JobFindsRow` |
| `OrphansNeedFailures` | `Spec => []OrphanNeedsFailure` |
| `ResumedIsSuperseded` | `Spec => []RepliedIsSuperseded` |
| `StoreImplemented` | `Spec => StoreSpec`: creation refines `RunStore` |

* `Progressed(r)` says what a request has written by the time it is where it is: no
  row before the insert, no job before the commit, and behind the commit a job, unless the
  request is about to enqueue or has failed. It gives `JobFindsRow` and `OrphanNeedsFailure`.
* `OneRowPerKey` is the unique index, over open and committed rows; `AnswerFits(r)`
  says that an answer is a committed row of the key and the user. The rows of a key
  that an answer can name are one row, which is `OneRunPerKey`.
* `InsertedOnce` and `InOrder(r)`: a request has one place in the order of creation,
  and a resumption comes behind the run it resumes, on the same thread. So the latest
  run of a thread cannot have been replied to, which is `RepliedIsSuperseded`.
* `StoreImplemented` needs no further invariant. By `OneRowPerKey` the run of a key is no
  choice (`RunStored`) and nothing is stored under the key of an open row, so that `Commit` is
  `Create`; `Progressed` makes `Enqueue` a first `Queue`, and an `Abort` that left the job in
  Redis one with an error (`JobIsQueued`), and says that a conflict finds a committed row, so
  that `Reread` never refuses for want of one; an answer found is `Repeat` (`AnswerRepeats`),
  and whatever keeps the committed rows, the answers and the jobs is a stutter.

### Tasker

For any number of tasks, workers, knowledge bases, failing calls, crashes and restarts:

| Theorem | States |
|---|---|
| `TypeCorrect` | `Spec => []TypeOK`, with: one save at a time, by the holder of the lock; no task twice in the queue |
| `RowsAgree` | `Spec => []DbAgrees` |
| `SuccessDurable` | `Spec => []SuccessIsSaved` |
| `NoRowAbandoned` | `Spec => []RowHasOwner` |
| `CancelWins` | `Spec => []CancelInTimeHonoured` |
| `OneBuild` | `Spec => []OneBuildUnlessDeleted` |
| `DeletionFinal` | `Spec => DeletedStaysDeleted`, about steps |
| `RowsImplemented` | `Spec => RowSpec`: the rows refine `TaskRow` |

* `SaveInv`: the one save under way carries the status its object has, of a task
  that is registered. It is what holding the lock over the save buys, and what
  `RowInv` (without failures a row lags behind only while it is saved), `RowHasOwner`,
  `SuccessIsSaved` and `DeletionFinal` follow from.
* `QueueInv`, `HeldInv`: a task is with `enqueue`, then in the queue, then with one
  worker; `PlaceInv`: where the worker is tells the status of its task. With `BuildInv`
  (one pending or running build per knowledge base) that gives `OneBuild`.
* `EarlyInv`: a granted cancel stays on the object, and a worker about to conclude
  has seen it.
* `LifeInv`, for `RowsImplemented`: a row is behind its object by one step of the row's
  life at most, unless the object is failed (`Lagging`, with `RowsBehind`); a task
  that is queued or with a worker has a row (`Waiting`), and while its coroutine runs
  the row says running (`Employed`), because a worker whose save of running failed has
  dropped the task. A save writes the status of its object, so its step is one of
  the life of a row. `LifeInv` is inductive relative to `IInv`.

The lemmas `WorkerMoves`, `WorkerUpdates` and `WorkerSaved` treat the three kinds of
step a worker makes once for all of its actions.

### XhsDistribution

For any number of requests, accounts, deliveries and failures:

| Theorem | States |
|---|---|
| `TypeCorrect` | `Spec => []TypeOK` |
| `NothingSentTwice` | `Spec => []SentOnce` |
| `RowsAreTruthful` | `Spec => []ResultsTruthful` |
| `ControlExcluded` | `Spec => []ControlIsExclusive` |
| `VerdictSumsUp` | `Spec => []JobTellsResults` |
| `SecondPublicationIsBlind` | `Spec => []PublishedTwiceOnlyBlindly` |
| `PromiseImplemented` | `Spec => PublisherSpec`: the distribution refines `Publisher` |

* `DeliveredOnce(r)` and `OnItsAccount(r)`: one worker at a time has a job, and the
  account it is at says running. So a result that an interrupted delivery left behind
  is told from one that was never begun.
* `ClickKnown(r, a)` ties result, gateway and clicks together: before the call there was
  no click and there is no handler; a handler that has not clicked means no click so
  far; a failed publication has neither click nor handler, a successful one exactly one
  click. `SentOnce` and `ResultsTruthful` are parts of it.
* `Guarded(r)`: a worker behind the account's lock holds it, and the account is not
  under manual control. With `ClickKnown` this is `ControlIsExclusive`, for workers as for
  what it says of a gateway handler left behind at an account somebody has.
* `TallyAgrees(r)` (the worker's counter is the number of successes on the rows) and
  `SumsUp(r)` (once there is a verdict no delivery is left, so the results stay what
  was summed up) give `JobTellsResults`, with the cardinality of finite sets.
* `Known(q)`: a job that says failed, and whose request did not report so by mistake,
  has clicked nowhere and is `Quiet`: no delivery and no handler is left that could
  click. `PassedOver(r)`: of the publications of its own list a request passes over failed
  ones only, and they stay failed.
  Together they give `PublishedTwiceOnlyBlindly`.
* `PromiseImplemented`: a step writes one open result, clicks once, or does neither
  (`StepKinds`). `ClickKnown` after the step says that what was written is true, and
  before it that the click was allowed: a handler on a page has not clicked, and its
  result is open or uncertain.

### RunStream

For any number of runs, events and troubles:

| Theorem | States |
|---|---|
| `TypeCorrect` | `Spec => []TypeOK` |
| `SnapshotNamesTheRun` | `Spec => []SnapshotAgrees` |
| `SightIsKept` | `Spec => SightKept`, about steps |
| `SpinnersHaveASource` | `Spec => []SpinnerHasSource` |
| `AnswersAreWhole` | `Spec => []AnswerIsWhole` |

The invariant is a predicate on pages, `Good(c)`, with the snapshot's agreement (`Agrees`)
as a conjunct, and the proof follows the program: each function of the page
(`startRunStream`, `finalizeRunStream`, `resetOnGoingConv`, ...) has a lemma that it takes
good pages to good pages, and each action composes those. With it go what the functions
are called with: a subscription and a snapshot name a run (`Subscribed`, `Named`), and so
does a resumption once it has one. `Calm` says that an aborted read is over before
the next step of the page, so that only requests already made are still answered.

`SightIsKept` goes function by function in the same way: each leaves `activeRunId` alone,
takes another run, or gives it up, and the last only for a run that has ended
(`CheckedActive`, `SightOfStream`, `SightOfResumption`, `SightOfAnswer`) or with an excuse:
a failure, a reload, or a continuation that did not look whether the thread had moved
on (`Excuses`).

`SpinnersHaveASource` and `AnswersAreWhole` say what each function does to the few fields
they are about (`AfterStop`, `AfterFinalize`, `AfterPreserve`, ...) and go through the actions
with those descriptions.

* `SpinInv`: `Tied` (while the page streams, its subscription is to the active run, has
  not seen the end, and is not in the last stage of showing a question) and, but for the
  exception, `Waits`, the property with the sources spelled out. `Kept` is what a step
  does that loses neither.
* `WholeInv`: `Needs` lists the ways in which the page may yet go on from what it shows
  (the stream and its check, a reconnection, a late check, a resumption that starts
  behind the snapshot), and in each of them the chunks are `Whole`, not only while the
  page reads. `Unheard`: of a run still being created nothing can have been seen; `Upto`:
  `runLastSeq` is not behind the stream; `ResetsOK`: a clean-up shows its question again only
  for an interrupted run. Most steps are `Narrow`: they take no run and show no more. Those
  that take one empty the chunks first, and a delivery adds exactly one (`OneMore`).

The attempt to prove `AnswerIsWhole` corrected the model: the exception used to leave out
a question shown again on a page with no active run, which is a way to stand behind
chunks that are gone; and `Follows(0)` held of a page without a stream, which let
`SpinnerHasSource` pass too easily.

### DesignSync

For any number of clients, edits and moves and any size of the hub's buffers:

| Theorem | States |
|---|---|
| `TypeCorrect` | `Spec => []TypeOK`, with: no more than `Buffer` frames wait for a client |
| `LineagesStayApart` | `Spec => []LineagesApart` |
| `EditorShowsItsDocument` | `Spec => []StoreMirrors` (`DesignSyncMirrorProofs`) |

* `Typed` says more than the types: nothing refers to a transaction that does not exist
  yet, and ranks are bounded by the log, so that among several seeds there is a last
  writer (`RootIsSeed`, by well-founded induction over finite sets from the library).
* `Guarded(c)`: `foreignStore` says exactly that `storeLineage` is another lineage than the
  document's, and main's file is waited for on main only.
* `Labelled(c)`, as long as nothing has strayed: `storeLineage` is right about what the store
  holds, and with state in the Y.Doc a client is kept from showing it by a preview only. This
  is what an edit needs: the store may be foreign to a bound Y.Doc only while editing is off.
* `OneKept`: a step of one client leaves `Labelled` of the others alone, because what a set
  of transactions shows does not depend on later ones (`Stable`).

`StoreMirrors` rests on three more facts about the transactions:

* `Shaped`: they refer to earlier ones only, and no two seeds have one rank, so there is
  exactly one last writer (`RootIs`).
* `Own` and `Bygone`: a client's Y.Doc has everything its session wrote and all that
  depends on, so what the reconciler makes is integrated at once.
* `SeedMeant` and `DiffMeant`: after a seed, or after the difference between the editor and
  the Y.Doc was written, the Y.Doc shows exactly the elements of the editor.
  `ReconciledMeant` puts the two together as the code does.

`VisibleStays` and `OneMirrors` leave the other clients out of each step.

### Left to TLC

Liveness (`RunEnds`, `ClientIsTold`, `EveryRequestAnswered`, `EveryTaskSettles`,
`JobSettles`, `Settles`, `NewcomerCatchesUp`), which is outside the reach of the prover. Every
safety property that a passing run checks is proved.

## 6. Not modelled

In the modelled components: trimming of the event stream
(`RUN_EVENTS_STREAM_MAXLEN`, off by default), heartbeats and the connection limit
of the SSE endpoint other than as a reconnection; validation that refuses a
request before anything shared is read; result payloads, progress texts and
timestamps; database failures inside the distribution worker; login, status and
cover handling of accounts; local (gateway-less) browser mode.

In `RunStream`: several threads and pages at once, and the conversation history that is loaded
beside the stream. In `DesignSync`: undo, restoring a version, checkpoints that compact the
journal, element locks and presence, several hub instances, the fold at the last leave, and the
properties and order of elements; a page is opened anew rather than taken from one design to
another.

Whole components, with the reason, are in `PROJECT.json`. In short: the chat graph,
knowledge bases, files, roles, providers and the views of the frontends are data
processing or one transaction per request, with no protocol between actors. They
are also most of the text: three quarters of the TypeScript, JavaScript and Vue sources
belong to HyCanvas, whose generated bundles (`composer.js`, `fold.js`) and editor
(`editor.ts`, the surfaces, renderers, importers and panels) are single-threaded
functions over a scene graph. So the share of those lines that these models stand
for is small whatever is added of the protocols. The rest is in the plan.

## 7. Plan

In this order, the most valuable first. Done so far: 1 to 7, with the proofs about
them.

1. `AgentRun`, `RunFeed`: pipeline, refinement.
2. `AgentRunProofs`, and the other proof modules behind 3 to 7 (section 5).
3. `RunAdmission`: idempotent creation.
4. `Tasker`: background tasks with crashes.
5. `XhsDistribution`: publishing with lost answers.
6. `RunStream`: the page that follows a run, on the promises of 1 and 3.
7. `DesignSync`: collaboration on a design.
8. `BrowserSessions`: the gateway's contexts under account, manager and session
   locks: open, replace, reap, close, capacity, and a distribution that waits for a
   session being replaced (`integrations/xiaohongshu/session_manager.py:92`, `:223`).
   Properties: no context is leaked, none is used after it was closed, the number of
   open contexts stays within the capacity. It composes with `XhsDistribution`, whose
   `Page` it refines. Two accounts, two openers, one reaper.
9. `ContentRuns`: the handshake between an interrupted content run and the cover job
   that resumes it (`services/content_run_worker.py:382`), cancelled on either side;
   the resume path by the user and the one by the job share a job id. Properties: a
   run waiting for a cover is resumed exactly once, a cancelled run is not revived.
10. `ViralAssets` (fencing by attempt number, `services/viral_asset_worker.py:113`) and
    `SandboxProvider` (one lock per scope, one for the table, and a shutdown,
    `agents/backends/sandbox/provider.py:241`).

Proofs still to come: type correctness and the safety invariants of the modules 8 to 10.

`AgentRun`, `RunAdmission`, `Tasker` and `XhsDistribution` each implement an abstract
specification. One more is worth stating: the page of `RunStream` as a client of
`RunFeed`, for which the two would have to share the log.
