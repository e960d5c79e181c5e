# AppForge in TLA+

AppForge turns a prompt into a project: a web server queues jobs, each job runs a
pipeline of stages, each stage is worked on by a language-model agent in bounded
attempts and accepted by gates, and everything a later process needs is on disk. The
agent talks to models through a second server, the bridge, and a page in the browser
follows the jobs. This directory specifies the parts of it where the order of steps
matters, checks them with TLC and proves their invariants with TLAPS.

All paths are relative to the repository (`src/` in `PROJECT.json`).

## 1. The system

| Component | State | Operations | Interacts with |
|---|---|---|---|
| **Job manager**, `appforge/web_jobs.py` | job records (`_jobs`, mirrored to `jobs/<id>.json`), `_threads`, `_cancel_events`, `_subscribers`; one `RLock` | create, revise, rerun, approve, retry a stage, cancel, shutdown, load after a restart, subscribe; the worker `_run_job` | called by the web application; calls the runner in a worker thread and gets its events by callback |
| **Pipeline runner**, `appforge/runner.py` | stage, attempt, rewinds, approved stage; all in memory | `run`, `_run_stage_attempts` | reads and writes checkpoints, calls the driver, the gates and the reviews, emits events |
| **Checkpoints**, `appforge/checkpoints.py` | `checkpoint_<stage>.json`, and a mirror of each in the host's control store | write, read, current?, completed stages, next stage | used by the runner, the job manager, the command line |
| **Evidence and snapshots**, `evidence.py`, `snapshots.py` | digests, execution records, a context per attempt | digest the source, the artifacts, the policy; record an execution | checkpoints, validation, tools |
| **Validation service**, `validation_service.py` | `candidate.json` (the receipt), kept snapshots, the archive's record | validate a candidate, is the receipt current, verify an archive | gates, the agent's tools, the job manager |
| **Gates and reviews**, `gates.py`, `llm_review.py`, `browser_checks.py` | none | judge the artifacts, the commands, the web application | called by the runner |
| **Agent driver**, `drivers.py` | session, changed files, submissions, budgets, loop guard | run a stage: sessions with the bridge, tool calls, submissions | called by the runner; talks to the bridge |
| **Bridge client and process**, `llm_bridge.py`, `llm_bridge_process.py` | request in flight; process, token, references | retry, cancel, read a stream; start, check, stop | driver, bridge server |
| **Bridge server**, `llm_bridge/src/server.ts` | agent sessions with waiting and completed tool results | open, turn, tool result, close, expire; generate, stream; the handlers of the configuration | client; provider protocols (vendored) |
| **Bridge configuration**, `config.ts`, `registry.ts`, `platform.ts` | a JSON file, the secret store, a copy in memory, the access list of the directory | load, save, migrate, set, delete, activate, resolve | bridge server; the settings dialog through `web.py` |
| **Model catalog**, `catalog.ts`, `registry.ts` | a copy in memory, a cache file, the merged list and its index | list, refresh | models.dev |
| **Web application, command line**, `web.py`, `cli.py` | session secret | requests | job manager; runner |
| **Page**, `frontend/src/App.vue`, `api.ts` | the current job, what is shown, a poll, an event stream, the local storage | submit, cancel, approve, retry, revise, show, rerun, reload, end | web application |
| **Panels**, `ProviderSettings`, `JobHistory`, `JobAdvancedSettings`, `WorkspaceBrowser`, `ArtifactBrowser`, `JobPanel`, `MarkdownContent` | what each has loaded | load, change, show | web application, the page |

What makes it hard:

* **Threads.** Requests take the manager's lock, a worker takes it only for single
  updates: it tests its cancellation event without it, and acts on the answer later.
  `cancel_job` makes a record terminal while its worker lives on, and
  `retry_stage` may queue such a job again.
* **No poller.** A queued job is started only by a request, by the end of a worker
  or by the start of the server. Losing one of these strands the queue.
* **Callbacks.** The runner's events change the job's status from inside `run`.
* **Crashes.** A checkpoint is two files, and an early stage's new attempt also marks the
  checkpoints of later stages: a process may die between any two writes. A change of the
  configuration is steps over a secret store, a file and a cache.
* **Staleness.** Approvals, receipts, archives and completions all refer to a source
  that agents, gates and people go on changing; caches to a file; answers to a
  selection the user has since changed.
* **Retries.** Attempts, rewinds to verification and single-stage retries all come
  back to a place the pipeline was before, with files of last time.
* **Two channels.** Tool calls go to the driver over an event stream and their results
  come back as requests: results may be early, late, repeated or for a session that
  ended. The page, too, hears of a job by a stream and by a poll.
* **Awaits.** In the bridge and in the browser every `await` lets other handlers run; what
  was read before one may not be true after it.

What makes each part correct, in short: a job is never forgotten (a busy record has a
worker, a queue is looked at), one job runs at a time in order, a cancellation reaches
the worker and stays; the runner trusts only what is complete and current, runs no
stage without its prerequisites, accepts only this attempt's work, reports success only
for a verified source, completes a guided stage only as it was shown, and comes back;
a tool call is executed once and answered once, the two ends of a session never wait for
each other and leave nothing behind; a configuration that was acknowledged survives
failures, and keys stay where they belong; the page does not lose its job, and shows what
was asked for last. The list of hazards in `PROJECT.json` names each at its line, also
those that no property covers yet.

## 2. Modules

| Module | Models | Lines of code it stands for |
|---|---|---|
| `JobManager` | the records, the queue, the workers and their events | `web_jobs.py`, and `PipelineRunner.run` as its caller sees it |
| `PipelineRunner` | the runner with its durable checkpoints | `runner.py`, `checkpoints.py` |
| `RunnerContract` | what a caller of `run` may rely on: the abstract specification of the runner | `runner.py`, its returns and events |
| `AgentSession` | a stage over the bridge: the driver, the session of the server, the stream and the requests between them | `drivers.py`, `llm_bridge.py`, `server.ts`, `llm.ts` |
| `AgentExchange` | what model and driver rely on: the abstract specification of a session | |
| `BridgeConfig` | the configuration of the providers and its handlers | `config.ts`, `registry.ts`, `server.ts`, `platform.ts` |
| `ModelCatalog` | the catalog of models | `catalog.ts`, `registry.ts` |
| `Bridge` | the two, side by side | |
| `JobView` | the page, and what it sees of the server: statuses, event history, subscriber queue | `App.vue`, `api.ts`, `web_jobs.py`, `web.py` |
| `ProviderPanel`, `HistoryPanel`, `SettingsForm`, `JobInspector`, `MarkdownView` | the panels of the page, each with its part of the server | the components named in each |
| `Panels` | the five, side by side | |
| `JobManagerProofs`, `JobQueueProofs`, `PipelineRunnerProofs`, `AgentProofs`, `AgentCallProofs`, `BridgeProofs`, `JobViewProofs`, `PanelProofs` | the theorems | |

**How they fit.** `JobManager` has steps for the runner (`Prelude`, `NextStage`,
`StageStarted`, `Attempt`, `RunStage`, `AwaitingAnnounced`, ...) because cancellations
fall between them and because three of the events change the record. `PipelineRunner` is
the same call in detail, with the disk. `RunnerContract` stands between: TLC checks, and
TLAPS proves, that `PipelineRunner` implements it, and each of its actions has its step in
`JobManager`. `AgentSession` is what `PipelineRunner` has as the one step `DriveAgent`: its
outcomes (`driver.outcome`) are the ones that step chooses from. `JobView` has for a job
only the statuses a page tells apart, and every change `JobManager` makes of them.
`Bridge` and `Panels` put together parts that share no state: a behaviour follows one
of them, so that states add up.

### 2.1 JobManager

One action per request handler and per block of a worker under `_lock`; what the worker
does without the lock is a step of its own, and so is every `cancel_event.is_set()`.
Correspondence of the state:

| Variable | Code |
|---|---|
| `status`, `project`, `onlyStage`, `approved` | `status`; `project_path`, `only_stage`, `approved_stage` present, in memory and on disk |
| `createdAt`, `dict` | `created_at`, in seconds; the order of insertion in `_jobs` |
| `cancelEvent` | `_cancel_events`, an entry is no Event, a clear one or a set one |
| `pc` | the position of the worker; `"none"` iff there is no entry in `_threads` |
| `held` | which Event the worker captured: the one in the table, or one that was replaced by an approval or a retry |
| `runOnly`, `runApproved`, `summary` | the worker's locals |
| `serving` | false once `shutdown` was called |

Every locked block saves the record before the lock is given up, so `Restart` keeps the
records as they are between any two actions, drops threads and events, fails what ran and
starts the head of the queue, as `_load_jobs` does. It follows a crash or a stop alike.
A job is named by its place in the order of the names of the records' files, which are
random. `created_at` has a resolution of one second (`util.py:21`) and is read before the
lock is taken (`web_jobs.py:600`, `610`), so `Admit` inserts any job with any time. The
queue is sorted by it, and the sort is stable (`Sorted`): equal times keep the order of the
dictionary, which `Restart` makes anew by the names of the files (`2405`).

`Spec` allows every request. `SubmitOnlySpec` leaves out approvals, retries and
cancellations; `OneByOneSpec` also has each submission in the queue before the next is
made, by a clock that is not set back. The code does not see to that: it is the hypothesis
under which one job runs at a time and in order, and `jobs_overlap` is what happens without.

Not in it: stars and archive flags (`HistoryPanel`), the event history and its
subscribers (`JobView`), previews, downloads, and failures of the disk under the lock.

### 2.2 PipelineRunner

| Variable | Code |
|---|---|
| `cp`, `torn`, `touched` | the checkpoint files; those whose host mirror differs; those whose artifact, policy or version digest does not fit |
| `source`, `record`, `receipt`, `archive` | the source; the stage named by `stage-result.json`; the source verified by `candidate.json`; the one in the archive |
| `jobOnly`, `approvedStage` | what the job asks the runner to do |
| `pc`, `stage`, `only`, `auto`, `attempt`, `rewinds`, `summary` | the locals and attributes of the runner |
| `outdated`, `submitted`, `shown` | history variables, for the properties only |

Decisions:

* A digest is the content it is taken of: `source` is a member of `Contents`, artifacts
  are current or `touched`. Going back to old contents makes old digests fit again, as
  in the code.
* The checkpoints that are in progress, failed, blocked or stale are all `"open"`:
  nothing in `checkpoints.py` or the runner tells them apart.
* `TornCheckpoint` is `write_checkpoint` up to a crash: later stages first, in order,
  each file before its mirror.
* The agent edits the source, submits artifacts of its own stage and a stage result; it
  writes nothing else under `.appforge` (`_safe_workspace_path` and the tools see to that).
* Gates and reviews return any verdict. What they may change is kept: build commands
  change the source, verification of a web project writes a receipt, the last stage an
  archive.
* The failure signatures of `_register_failure_signature` never stop a stage before its third
  attempt, and at the last one at the latest; in between either is possible.
* A person edits only while no run is active (`Edit`); it makes no difference whether
  that is before or after the request that starts the next one.
* `driver_failed` is the driver that raised: its attempt is rejected without a look at the
  source. One that returned a failure goes through `judge` and the gates like any other and
  is rejected there, whatever they found.

### 2.3 RunnerContract

Eight actions over `phase`, `single` and `result`: `stage_started` comes before the first
attempt, `stage_awaiting_approval` before the result that says so, a single-stage call
ends with its stage unless verification has to be repeated, and no result carries over
into the next call. `PipelineRunner` is mapped to it by `phaseOf` (the positions inside
an attempt are all `"driving"`), `only # NoStage` and `summary`.

### 2.4 AgentSession and AgentExchange

| Variable | Code |
|---|---|
| `status`, `idle`, `announced`, `queued`, `completed` | the entry of `agentSessions` in `server.ts`: open or not, older than its time to live, `announcedToolCallIds`, `queuedToolResults`, `completedToolResults` |
| `loop`, `messages` | `runAgentSession`: the position, the turn and its calls, the one it waits for; the conversation, as the calls whose results are in it |
| `wire` | the event stream as the driver sees it; a connection that broke is not up |
| `posts` | tool-result requests under way, before and after their body was read |
| `shots` | the requests of the fallback, `/generate` or `/stream` |
| `driver` | `LLMBridgeAgentDriver` in `drivers.py`: session, call, why it stopped, what was submitted |
| `asked`, `executed`, `touched`, `lost` | history variables |

A request is a step up to its first `await`; what an answered promise continues
(`Settled`) comes before the next request, as in the event loop. The sessions of a stage
follow one another and share nothing, so the variables hold the latest. A tool is a step of
the driver with one of its effects: a change, a submission, a failure. `RequestFails` is the
driver's own request for the stream or for a result that is lost, refused outright or runs
into its timeout (`drivers.py:1024-1032`, `llm_bridge.py:233-246`): the session stops with a
failure that is retried, or not, and the bridge may have the result all the same. `IdsRestart` is the
one thing taken from a vendored protocol: Gemini numbers the calls of every turn from zero.
Tool calls are counted against `TurnBudget` where the code counts them.

`AgentExchange` has three actions over the calls asked, executed and answered. The mapping
takes the tool messages of the conversation as the answers (what the model said itself is
`asked`, cut into turns, and not kept twice); a new session starts it anew.

### 2.5 BridgeConfig, ModelCatalog, Bridge

| Variable | Code |
|---|---|
| `backend`, `secrets` | where keys are kept (plain file, Keychain, DPAPI), and the store |
| `disk` | the configuration file; it is never torn, since the code writes a temporary file and renames it |
| `memory` | the module's `cached` configuration |
| `acl`, `verified` | the access lists of the directory and its parents; checked by this process |
| `op` | the request under way, between any two awaits of `save` |
| `found`, `touched`, `possible` | history: the access list at first, whether anything was written, and for each field the values it may rightly have |

`possible` is the specification: after a request that was acknowledged a field has the
value that was asked for, after one that failed the old or the new, and no other field
changes. A field's `Value` is found where the code finds it, in the record or, through its
reference, in the store. Requests that change the configuration come one after the other:
the settings dialog locks its buttons, and the process manager warms the bridge under its own
lock (`llm_bridge_process.py:159-211`, `244-280`). Hence these are *not* in the model: two
pages that change the configuration at once, where one update can be lost; a cold load that
ends after a change and overwrites the newer cache (`config.ts:854-883`). In the model, and
allowed by `possible`: a change made to the cache in place and left there by a save that
failed (`config.ts:948-968`), and a new key beside an old endpoint when a save of both
fails half-way.

`ModelCatalog` has the versions of models.dev, the copy in memory with its time to live, the
cache file, the merged list and the index made from it, over refreshes that fail and starts
without the network. The file is written as well as it can be: `Written` may fail and
nobody is told, `Fetched` may leave it truncated (`catalog.ts:76-84`). `newest` is the newest
version ever listed, `unsaved` says that the last write failed. Then a refresh without the
network puts an older catalog in the place of a newer one (`catalog.ts:128-136`);
`ListedIsNewest` says that this is the only case, and that even then the list is no
older than the file.

### 2.6 JobView

| Variable | Code |
|---|---|
| `status`, `log`, `down` | the server: the statuses, the events of each job, whether its session was ended |
| `stream` | the `EventSource` of the page with its queue at the server |
| `seen`, `current`, `stored`, `shown`, `timer`, `ending` | `lastEventIds`, `currentJobId`, its copy in the local storage, `job`, the poll, `endingSession` |
| `requests` | requests sent and answers under way; each is sent, served and continued in three steps |

Some things the code does that the properties have to allow for:

* An answer to `loadCurrentJob` is applied without a look at whether its job is still the
  current one (`App.vue:277-289`): the field `outdated` marks what is shown by it.
* After a reload whose health answer names the stored job, `openEventStream` is not called,
  since the current job does not change (`App.vue:99-106`, `475-481`): such a job is polled
  only, where `docs/ARCHITECTURE.md:60` has the stream. `FollowedToTheEnd` shows that the
  poll is enough.
* After a retry the replay may contain the final event of the time before, which closes
  the new stream (`App.vue:226-230`); here, too, the poll goes on.
* The server sends no `current_job_id` with an error, so the branch at `App.vue:153-158` is
  never taken and has no action.
* The replay of a truncated history begins with what is left and has no gap in it
  (`web_jobs.py:993-1021`): `LossIsNoticed` speaks of the events since the subscription, and
  what was lost before it the poll makes up for.
* A job whose submission was answered into a lost connection runs unfollowed until the next
  look at the health; the answer to a rerun is dropped when the history was closed.

### 2.7 The panels

Each is the requests of one component, their answers in any order, and what is shown by
then. The properties say "what is shown is what was asked for last"; where the code does
not ensure it, a history variable marks the case and the property's comment names the lines.
These are ways to show something outdated that no document of the repository excludes, so they
are exceptions and not findings; the properties say nothing while one lasts, and each ends:

| Exception | Begins | Ends |
|---|---|---|
| `unsure` (`ProviderPanel`), for each provider and the selection | two calls touch it at once; an answer is lost; a quick connect stops half-way; an active or shadowing key is deleted | the dialog is loaded again |
| `mixed` (`HistoryPanel`) | a page is asked for while another is under way | the list is started anew with none under way |
| `moved` (`HistoryPanel`) | a job changes at the server | a first page is cut with no star or archiving under way |
| `crossed` (`SettingsForm`) | the page sets the settings while the form waits for something | it sets another provider's with nothing waiting |
| `overtaken` (`JobInspector`) | the job, or the artifact opened, changes while an opening is under way | the last answer leaves something of the job shown, or nothing; or the job changes with nothing under way |
| `broken` (`MarkdownView`) | the rendering of the last content fails | a later one succeeds |

So the late answers themselves (hazards at `App.vue:277`, `JobHistory.vue`,
`JobAdvancedSettings.vue`, `WorkspaceBrowser.vue`) happen in the model as in the code, and no
property forbids them: what is checked is that they are the only way to show something outdated,
and that what is shown is right again from the end named above. The form takes settings of any provider with a listed model, a typed
one or none, as `web_jobs.py:396-437` accepts them, and the mounting of the form has the case
that no provider is configured. Left out: drafts and the caches of `ensureModels`, chips, numbers of generation
parameters, the blur timer of `ModelSelect` (97-99), equal times in `updated_at` (which has a
resolution of one second), and the rule that the current job is not archived.

## 3. What TLC checks

| Run | Bounds | States | What it shows |
|---|---|---|---|
| `jobs_safety` | 2 jobs of one second, queue of 2, 1 requeue, 1 restart | 376 000 | `TypeOK`, `NoStrandedQueue`, `BusyJobHasWorker`, `QueuedEventIsClear`, `CancelIsSignalled` over all requests, and `QueuedJobIsServed` under `FairSpec` |
| `jobs_one_by_one` | 3 jobs, queue of 2, 2 seconds, 1 restart | 1 270 000 | under `OneByOneSpec`: `OneRunningJob`, `NoOvertaking`, `QueueWithinLimit` |
| `pipeline_safety` | 3 stages, verification the second, the first guided, build gates in both, 2 contents, 2 attempts | 2 670 000 | `NoOutdatedTrust`, `PrerequisitesHold`, `SuccessIsVerified`, `AcceptedWasSubmitted`, `ApprovedAsShown`, that it implements `RunnerContract` (`ContractKept`), and `RunReturns` under `FairSpec` |
| `agent_session` | 2 sessions of 2 turns of 2 calls, a budget of 2, 1 remembered result, 2 requests of the fallback, 1 fault | 470 000 | `TypeOK`, `NoMutualWait`, `SuccessIsCurrent`, `NoOrphan`, `ResultIsTaken`, that it implements `AgentExchange` (`ExchangeKept`), `DriverReturns` and `LoopsEnd` under `FairSpec` |
| `bridge` | 2 keys, 2 endpoints, 3 changes, 1 failure, 1 crash; 2 versions of the catalog | 3 420 000 | `NothingForgotten`, `MemoryIsCurrent`, `KeysLeaveFile`, `NothingAdopted`, `StoredKeyStaysHome`; `ListedIsNewest` |
| `job_view` | 2 jobs, 1 event, history of 1, queue of 2, 2 loads under way, 1 request beside them, 2 incidents | 662 000 | `OneJobFollowed`, `CurrentIsFollowed`, `ShownIsFollowed`, `LossIsNoticed`, and `FollowedToTheEnd` under `FairSpec` |
| `panels` | 3 clicks and 1 fault; 4 steps and 1 change over 3 jobs in pages of 1; 4 rounds; 3 openings; 4 contents | 2 910 000 | `SettingsAreCurrent`, `HistoryIsAPrefix`, `SubmittedAsShown`, `ContentIsOfItsJob`, `RenderedIsLatest` |
| `jobs_overlap` | 2 jobs, 2 seconds, submissions only | | `OneRunningJob` does not hold if submissions overlap |
| `jobs_cancel_final` | 2 jobs | | `CancelledIsFinal` does not hold |
| `jobs_stop` | 2 jobs | | `WaitingJobsSurviveStop` does not hold |
| `pipeline_approval` | 3 stages, verification the first, the second guided, 1 attempt | | `ApprovalIsNotRefused` does not hold |
| `agent_ids` | as `agent_session`, ids that restart | | `NoMutualWait` does not hold |

*Deadlock* is checked in `agent_session`, where only a driver that is done may stop. It is
off elsewhere because those systems really may stop: after `Shutdown` with no restart left
nothing need happen, a bounded number of jobs ends, an idle runner waits for a person, and
the requests and clicks of the other runs are bounded.

*Bounds.* Every `Max...` constant is a guard of the actions that count.
- Jobs: two are enough for every interaction of a running job with a queued one; one
  requeue lets a job be retried under a worker that lost its Event. Times decide nothing in
  `jobs_safety` but which of the two is the head, and with equal ones this is the order
  of insertion, either one, until a restart makes it the order of the files. Three jobs
  against a queue of two make the limit and the order bite, and with two seconds the times of
  any two jobs differ or tie.
- Pipeline: three stages put one before, at and behind verification, so every kind of stale
  completion and every rewind occurs. Two contents are enough since the code only compares
  digests for equality. Two attempts give a first, a repeated and a last one. Runs, edits,
  requests and crashes are not bounded: the state space is finite.
- Agent: two calls in a turn are needed for a result that overtakes another, two turns for
  one that is late for its turn, a memory of one result for a repetition that was
  forgotten, two sessions for what one leaves to the next. The invariants of the proofs were
  tried at two faults and a larger budget as well (4 million states).
- Bridge: with three changes, each may follow one that failed or one that was acknowledged,
  and a third one has to find both; there is one failure or crash for any two awaits.
- Page: a history of one event and a queue of two overflow at once. Two
  loads under way at once let polls, events and the page's return overlap a load, so that an
  answer is late for the job it was asked for, and a final event comes between a load and its
  answer. Two incidents are a click with a lost request or connection, or two clicks; a click
  is made when no answer is awaited (`MaxRequests`), while loads begin at any time. Its
  safety properties were also tried with two requests beside the loads (4.4 million states),
  and `FollowedToTheEnd` with two and no events but the last ones (756 000).
- Panels: three clicks are two that overlap and one that follows; a page of one job makes
  every list have several pages.

The proofs below remove the bounds for the safety properties they are about.

*Fairness.*
- `JobManager`: weak fairness of every worker, the operating system schedules threads,
  and strong fairness of `RunnerDone`: the runner's loop is not gone round for ever, since a
  pipeline has finitely many stages and rewinds are counted. That a call of `run` comes
  back is not assumed of the code but checked, `RunReturns`. Nothing is assumed of users, of
  `Shutdown` or of `Restart`.
- `PipelineRunner`: weak fairness of `Runner`, the steps of the runner itself: the thread is
  scheduled, and a driver call returns since the stage's deadline is its timeout, for which
  `DriverReturns` is the other half. Crashes and the steps of the caller are not fair.
- `AgentSession`: weak fairness of the server, of the driver and of each request of the
  fallback: the event loop and the thread run, a provider ends its turns, tools return. A
  provider or a tool that does not is left to the stage's deadline (`Interrupted`), on which
  the property does not rely. Faults, the passing of time and interruptions are not fair.
- `JobView`: each load, and each health request, is served, and its handler runs; the
  timer fires. Nothing is assumed of the event stream, of users or of jobs.

### The runs that end in a violation

Each states what a document or a test says and shows a behaviour of the code that does
otherwise. `PROJECT.json` quotes the lines.

* `jobs_overlap`: of two submissions the one with the earlier `created_at` takes the lock
  second. The first has been given a thread, but counts as queued until the worker writes
  its first status; the second sorts in front of it, has no thread, and is started too. No
  request but the two is made.
* `jobs_cancel_final`: a job is cancelled while its worker is past its last look at the
  event; the next update makes the cancelled record run, complete or wait again. Without
  retries, approvals and restarts. As the cancelled record had freed the slot, this too
  makes two jobs run once another is queued.
* `jobs_stop`: `shutdown`, which every orderly stop of the server calls, cancels what
  "survives a server restart". Only a crash keeps it.
* `pipeline_approval`: a retry of one late stage rewinds to verification, runs on into a
  guided stage and waits; `approve_job` keeps `only_stage`, so the run that applies the
  approval asks for the late stage again and is refused.
* `agent_ids`: with a provider that numbers the calls of every turn from zero the session
  takes the result of a call in the second turn for a repetition of one in the first,
  answers "duplicate" and goes on waiting for it, while the driver waits for the next event,
  until the call times out. `NeverBothWait` shows that unique ids exclude this.

## 4. What is proved

For all values of the constants that their named assumptions allow: any number of jobs,
stages, attempts, sessions, turns, calls, requests and faults. Each module has one
inductive invariant, tried with TLC first, and one lemma for each action.

**`JobManagerProofs`**, about `Spec`: `TypeCorrect`, `BusyJobsHaveWorkers`,
`QueueIsNeverStranded`, `QueuedEventsAreClear`, `CancelsAreSignalled`, all from
`Invariance == Spec => []IInv`. `IInv` adds to these properties `EventsInv`, without
which none of the last three is inductive: a worker has an Event from `Enter` to
`Finish`; an Event it shares with the table is still there; a worker on its way to
`cancelling` has seen it set. The argument has two parts. `WorkerShape` says that every worker
step but `Enter` and `Finish` is *quiet*: it moves its thread, and perhaps writes one
status of its own record, which is a running one only if the worker stays busy. So the
some twenty quiet actions need one proof (`QuietInv`). `MaybeStartEffect` says what
`_maybe_start_next_job_locked` leaves behind: at most one new thread, and if jobs are queued
then one runs or a thread is registered. Together with `BusyJobHasWorker` a running job has
a thread, hence `NoStrandedQueue`.

**`JobQueueProofs`**, about `OneByOneSpec`: `OneJobRuns` and `QueueIsFifo` from
`SlotInvariance == OneByOneSpec => []QInv`. The hypothesis is in the specification they are
about: nobody approves, retries or cancels, no submission is made before the last is in the
queue, and the clock is not set back. A worker *has the slot* while it may still
write a running status; `SlotInv` says that one worker at most has it, that every running
record is its, and that it belongs to the head of the queue until it has written its first
status. `OrderInv` makes the head unique: of two records, one is in front in the dictionary,
which decides between equal times. Two parts fail without the hypothesis. `CalmInv` does once
approvals, retries and cancellations are allowed: no event is set while serving, and no worker
is past its start under a queued record. `SlotInv` does as soon as submissions overlap: a
record inserted in front of the head takes the place of one whose worker has not written
yet. `QueueIsFifo` speaks of different seconds; of the order within one, nothing is claimed.

`QueueKeepsLimit`, about `SubmitOnlySpec`, needs no order of submissions. It counts the records that wait or run, a finite set that only an admission
adds to, one at a time and under its guard (cardinalities of `FiniteSetTheorems`), while
serving; after a shutdown a worker may still bring back its own record, and no other.

**`PipelineRunnerProofs`**, about `Spec`: `NoOutdatedTrustHolds`, `PrerequisitesAlwaysHold`,
`SuccessMeansVerified`, `AcceptedWasAlwaysSubmitted`, `ApprovalsAreAsShown` and the refinement
`ContractIsKept`. The invariant adds to the properties what a position of the runner
implies (`ControlInv`; `ReadyInv`: all stages before the one at work are trusted), that a
stage result naming the stage at work was written in this attempt (`RecordInv`), that nothing
from the stage at work on is complete (`LaterOpen`), that the last stage is written with the
source verification was written with (`LastIsVerified`), that what a person approves is the
source the checkpoint names (`ShownInv`), and the key to staleness, `OutdatedInv`: a
checkpoint that is outdated is open, or its two files differ. The last is what makes a crash between the two writes harmless. For the refinement every
action is a step of `RunnerContract` or a stutter under `ControlInv`.

**`AgentProofs`**, about `Spec`: `SuccessIsAlwaysCurrent` from `ResultInv` (a submission the
driver counts is one after the last change), `NothingIsOrphaned` from `LeftInv` and `PhaseInv`
(once the driver is past its stop, the session is closed or the stop was lost).

**`AgentCallProofs`**, under `~IdsRestart`: `NeverBothWait`, `ResultIsAlwaysTaken` and the
refinement `ExchangeIsKept`. For the first two the argument follows a call (`ResultIsAlwaysTaken` is about the results
that get an answer; `RequestFails` is the one other way for the driver to stop there): it is in an event under way, with the driver, in a request, or
its result is queued, until it is taken (`DeliveredInv`); only calls the model made travel at
all (`MadeInv`); and a call is announced and unanswered until the driver has sent its result
(`FreshInv`), so the request is accepted. If the driver waits and no event is under way, the
call the loop waits for would have to be in none of these places. Unique ids are used where
`FreshInv` tells a call from all earlier ones, and `agent_ids` shows that there they are needed.

For the refinement the invariant places every call in `asked`: the calls of the turn are
its end, and all before are of earlier turns, so no call is there twice (`AskedInv`); the
conversation has the results of all calls before the one the loop is at (`ToldInv`); the
stream carries, in order, the calls behind those the driver has read, and all of them while it
lasts (`StreamInv`); and a result, wherever it is, is of a call that was executed
(`ExecutedInv`). The result the loop takes is of the call it is at, so it is the next
answer, and since that call is in one place of `asked` only, it was executed before.
`TakeExchanges` is this argument for both ways of taking a result, from the queue and
from a request. Steps of the driver between two sessions are exempt, as the property says.

**`BridgeProofs`**, about `BridgeSpec`: `NothingIsForgotten`, `MemoryIsAlwaysCurrent`,
`KeysAlwaysLeaveFile`, `NothingIsAdopted`, `StoredKeysStayHome`, `ListedIsAlwaysNewest`. The core is
`ValueInv`: at every step of a save, the file, the cache and the configuration about to be
written each mean, field by field, something in `possible`; it rests on two lemmas,
`SerializedKeepsMeaning` (taking the keys out of the file changes no meaning once the store
has them) and `HydrateKeepsMeaning` (putting them back neither), and on
`StoreChangesOneField`, for a failure half-way through the store. For the catalog the
invariant says what version each place has: none is newer than models.dev's, a fetch under way
brings one at least as new as what is listed, and unless the last write failed (`unsaved`) the
file, on which a refresh falls back, can be read and is no older.

**`JobViewProofs`**, about `Spec` of `JobView`: `OneJobIsFollowed`, `CurrentJobIsFollowed`,
`ShownJobIsFollowed`, `LossIsAlwaysNoticed`, from the invariant `PageInv`. `FollowInv` is
`CurrentIsFollowed` with its reason while the page is being mounted: a current job is polled, or
loaded, or the page has shown nothing yet and the mounting will take the job up. What the
answer of each request may carry is `RequestInv`; without it an answer could bring up a job
that does not exist. For the subscriber, `QueueInv` says that a queue is in the order of its
events and newer than what was seen, and `Covers` that it makes up for every event
that was not: the event is in it or a gap behind it is. The lemmas about the queue follow the
code: `put` drops the oldest and marks a gap; the replay starts behind what the browser
last saw, or, without a gap, where the history now begins, and from there the property counts.

**`PanelProofs`**, about `Spec` of `Panels`, one invariant for each panel:
- `SettingsAreCurrentHolds`: every call *promises* something of what it touches
  (`Promised`): what it will show, or what it leaves alone, is what the server has. Two calls
  that touch the same thing make it unsure, and so does a call whose answer is no longer
  awaited (`SettingsInv`); all others keep their promise to the end.
- `HistoryIsAPrefixHolds`: unless loads crossed, one page is under way, and it goes on where
  the list ends (`InPlace`); unless jobs moved, an answered page is as the server would cut it
  now (`CutNow`), so the list stays a beginning of the tab (`PageExtends`, `FirstPage`). A
  star or an archiving that the server accepted is a move: it puts its job to the front.
  Under `mixed` or `moved` nothing is claimed.
- `SubmittedAsShownHolds`: the form waits for one thing at a time while it is mounted, and
  what is listed, and what is being listed, is of the provider it shows, until the page
  changes the settings while it waits, and again once the page has set another provider with
  nothing waiting (`FormInv`). What is submitted is what is shown in every case.
- `RenderedIsLatestHolds`: the rendering with the last version is the only one whose answer
  counts. `ContentIsOfItsJobHolds`: one opening of a workspace entry or a preview is under way
  at a time, and it is of the job shown, unless the job has changed under it (`overtaken`);
  after the last answer that leaves something of the job shown, it is so again.

`Panels` assumes what its proofs need of the constants: there are finitely many jobs, since a
list of them is made and sorted, and no provider is called "active", which is what the
dialog's `busyId` is while the active model is applied.

*Only checked by TLC.* Liveness, `QueuedJobIsServed`, `RunReturns`, `DriverReturns`, `LoopsEnd`,
`FollowedToTheEnd`: the prover has neither fairness nor ENABLED. Every other property
of a passing run is stated by a theorem.

## 5. Not modelled, and why

- The inside of the validation service, of gates and reviews: their verdicts and what they
  write are choices of `RunGates`. Receipts reused across attempts are read and written in
  one thread, inside one attempt; the change of a source while it is validated is listed
  as a hazard.
- The process manager: what matters there is what operating-system processes, ports and
  signals do, which a model would have to invent.
- Failures of the disk under the manager's lock (the hazard at `web_jobs.py:2298`).
- Parsing of manifests, prompts, memory, schemas and credentials: handling of data without an
  order of steps. Sandboxes and tools execute processes: their results are choices of
  `DriveAgent`, `RunGates` and the tool steps of `AgentSession`.
- The provider protocols are vendored. Log, message and summary texts decide nothing.

`PROJECT.json` lists every component with its status, and what of it is left out.

## 6. Plan

Done: the jobs, the runner and its contract, the agent's session and its exchange, the
configuration and the catalog of the bridge, the page and its panels, with the proofs
of section 4. Next, in this order:

1. A variant of `JobManager` in which saving a record may fail, for the hazard at
   `web_jobs.py:2298`: a thread entered in the table and never started.
2. `Validation` (`validation_service.py`, `evidence.py`, `snapshots.py`): receipts against
   sources that change under the validation, archives against replaced receipts; then the
   theorem that a receipt is never issued for a source that was not tested.
3. Concurrent changes of the configuration in `BridgeConfig`, with what can then be lost.
4. The process manager, as far as its own lock and references go.

For each of these, the invariants it adds are to be proved as those above are.
