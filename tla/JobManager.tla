------------------------------ MODULE JobManager ------------------------------
(***************************************************************************)
(* The web orchestration layer, appforge/web_jobs.py: durable job records, *)
(* a queue, one worker thread per started job and one cancellation event   *)
(* per job.                                                                *)
(*                                                                         *)
(* Every request handler, and every block of a worker that runs under      *)
(* JobManager._lock, is one action.  What a worker does without the lock   *)
(* (preflight, project setup, PipelineRunner.run, packing the archive, and *)
(* each cancel_event.is_set()) is a step of its own, so requests fall      *)
(* between the test of the event and the locked update that follows it.    *)
(*                                                                         *)
(* Each locked block ends in _save_locked, an atomic replace of the job's  *)
(* file, so the records are at every action boundary what is on disk: a    *)
(* restart reads back `status`, `project`, `onlyStage` and `approved`, and *)
(* loses the threads and the events.                                       *)
(***************************************************************************)
EXTENDS Naturals, FiniteSets

CONSTANTS
    MaxJobs,      \* how many job records are ever created
    QueueLimit,   \* WebConfig.queue_limit
    Seconds,      \* bound: how many values utc_now takes
    MaxRequeues,  \* bound: approvals and stage retries, all jobs together
    MaxRestarts   \* bound: restarts of the server process

ASSUME JobBoundsAssumption ==
    /\ MaxJobs \in Nat \ {0}
    /\ QueueLimit \in Nat \ {0}
    /\ Seconds \in Nat \ {0}
    /\ MaxRequeues \in Nat
    /\ MaxRestarts \in Nat

\* A job is named by its place in the order of the names of the records' files,
\* random numbers in hexadecimal that say nothing of the order of the requests.
Jobs == 1..MaxJobs

VARIABLES
    status,       \* the job's "status", or "absent" before it is created
    project,      \* the record has a project_path
    onlyStage,    \* the record has an only_stage (a stage retry was asked)
    approved,     \* the record has an approved_stage
    createdAt,    \* the record's created_at, in seconds; 0 before it is created
    dict,         \* the order of _jobs: the pairs <<j, k>> with j in front of k
    cancelEvent,  \* _cancel_events[j]: "none", or an Event "clear" or "set"
    pc,           \* where the worker of j is; "none" iff j is not in _threads
    held,         \* the Event the worker captured: "none" yet, "shared" with
                  \* cancelEvent[j], or a replaced one, still "clear" or "set"
    runOnly,      \* the worker's copy of only_stage
    runApproved,  \* the worker's copy of approved_stage
    summary,      \* what PipelineRunner.run returned to the worker
    serving,      \* FALSE from JobManager.shutdown to the end of the process
    requeues, restarts

records == <<status, project, onlyStage, approved>>
line    == <<createdAt, dict>>
locals  == <<runOnly, runApproved, summary>>
bounds  == <<requeues, restarts>>
vars    == <<records, line, cancelEvent, pc, held, locals, serving, bounds>>

RunningStatuses  == {"initializing", "running", "packaging"}
TerminalStatuses == {"completed", "failed", "cancelled"}
ActiveStatuses   == {"queued", "awaiting_approval"} \cup RunningStatuses
Statuses         == {"absent"} \cup ActiveStatuses \cup TerminalStatuses

\* The points of _run_job between which another thread may run.
BusyPcs ==
    {"preflight", "snapshot", "setup", "start_run", "check_run", "prelude",
     "next_stage", "stage_start", "attempt", "driving", "announce", "returned",
     "settled", "check_packaging", "packaging", "archive", "complete",
     "failing", "cancelling"}
Pcs == {"none", "spawned", "entered", "initialize", "finishing"} \cup BusyPcs

Running(st)   == {j \in Jobs : st[j] \in RunningStatuses}
Queued(st)    == {j \in Jobs : st[j] = "queued"}
Present(st)   == {j \in Jobs : st[j] # "absent"}

\* Mutant: the queue is sorted newest first.
NewestFirst(at, order) ==
    {p \in Jobs \X Jobs : at[p[1]] > at[p[2]] \/ (at[p[1]] = at[p[2]] /\ p \in order)}

\* The queue is sorted by created_at, which has a resolution of one second, and
\* the sort is stable: equal times keep the order of the dictionary.
Sorted(at, order) ==
    {p \in Jobs \X Jobs : at[p[1]] < at[p[2]] \/ (at[p[1]] = at[p[2]] /\ p \in order)}

IsHead(j, st, sorted) == j \in Queued(st) /\ \A k \in Queued(st) \ {j} : <<j, k>> \in sorted
Registered(w) == {j \in Jobs : w[j] # "none"}

\* What cancel_event.is_set() tells the worker of j.
Cancelled(j) == IF held[j] = "shared" THEN cancelEvent[j] = "set"
                                      ELSE held[j] = "set"

-----------------------------------------------------------------------------
(* Starting a worker *)

\* Mutant: the slot counts as free while a job runs.
StartBesideRunning(st, sorted, w, ev) ==
    \/ /\ Queued(st) = {} \/ \E j \in Registered(w) : IsHead(j, st, sorted)
       /\ pc' = w
       /\ cancelEvent' = ev
    \/ \E j \in Jobs \ Registered(w) :
          /\ IsHead(j, st, sorted)
          /\ pc' = [w EXCEPT ![j] = "spawned"]
          /\ cancelEvent' = [ev EXCEPT ![j] = IF @ = "none" THEN "clear" ELSE @]

\* _maybe_start_next_job_locked, called with the statuses st, the order of the
\* queue, the threads w and the events ev as the caller leaves them.
MaybeStart(st, sorted, w, ev) ==
    \/ /\ \/ Running(st) # {}
          \/ Queued(st) = {}
          \/ \E j \in Registered(w) : IsHead(j, st, sorted)
       /\ pc' = w
       /\ cancelEvent' = ev
    \/ /\ Running(st) = {}
       /\ \E j \in Jobs \ Registered(w) :
             /\ IsHead(j, st, sorted)
             /\ pc' = [w EXCEPT ![j] = "spawned"]
             /\ cancelEvent' = [ev EXCEPT ![j] = IF @ = "none" THEN "clear" ELSE @]

\* self._cancel_events[j] = threading.Event(): a worker that had captured the
\* old one keeps it.
Detached(j) == IF held[j] = "shared" THEN [held EXCEPT ![j] = cancelEvent[j]] ELSE held

-----------------------------------------------------------------------------
(* Requests *)

\* Mutant: the capacity test is off by one.
AdmitOneMore(j, at) ==
    /\ serving
    /\ status[j] = "absent"
    /\ Cardinality(Queued(status) \cup Running(status)) <= QueueLimit
    /\ createdAt' = [createdAt EXCEPT ![j] = at]
    /\ dict' = dict \cup Present(status) \X {j}
    /\ LET st == [status EXCEPT ![j] = "queued"] IN
          /\ status' = st
          /\ MaybeStart(st, Sorted(createdAt', dict'), pc, [cancelEvent EXCEPT ![j] = "clear"])
    /\ UNCHANGED <<project, onlyStage, approved, held, locals, serving, bounds>>

\* _ensure_queue_capacity_locked and the insertion of a new record.  `at` was
\* read before the lock was taken: other requests, with a later time too, may
\* have been inserted since.
Admit(j, at) ==
    /\ serving
    /\ status[j] = "absent"
    /\ Cardinality(Queued(status) \cup Running(status)) < QueueLimit
    /\ createdAt' = [createdAt EXCEPT ![j] = at]
    /\ dict' = dict \cup Present(status) \X {j}
    /\ LET st == [status EXCEPT ![j] = "queued"] IN
          /\ status' = st
          /\ MaybeStart(st, Sorted(createdAt', dict'), pc, [cancelEvent EXCEPT ![j] = "clear"])
    /\ UNCHANGED <<project, onlyStage, approved, held, locals, serving, bounds>>

CreateJob(j, at) == Admit(j, at)

\* A revision needs its parent's workspace, a rerun only the parent's record.
ReviseJob(parent, j, at) == project[parent] /\ Admit(j, at)

RerunJob(source, j, at) == status[source] # "absent" /\ Admit(j, at)

\* Mutant: the old Event is kept.
RequeueKeepingEvent(j) ==
    /\ serving
    /\ requeues < MaxRequeues
    /\ requeues' = requeues + 1
    /\ LET st == [status EXCEPT ![j] = "queued"] IN
          /\ status' = st
          /\ MaybeStart(st, Sorted(createdAt, dict), pc, cancelEvent)
    /\ UNCHANGED <<project, held, locals, line, serving, restarts>>

\* Approve and retry put the job back in the queue under a new Event; neither
\* consults the capacity of the queue.
Requeue(j) ==
    /\ serving
    /\ requeues < MaxRequeues
    /\ requeues' = requeues + 1
    /\ held' = Detached(j)
    /\ LET st == [status EXCEPT ![j] = "queued"] IN
          /\ status' = st
          /\ MaybeStart(st, Sorted(createdAt, dict), pc, [cancelEvent EXCEPT ![j] = "clear"])
    /\ UNCHANGED <<project, locals, line, serving, restarts>>

ApproveJob(j) ==
    /\ status[j] = "awaiting_approval"
    /\ approved' = [approved EXCEPT ![j] = TRUE]
    /\ UNCHANGED onlyStage
    /\ Requeue(j)

RetryStage(j) ==
    /\ project[j]
    /\ status[j] \notin RunningStatuses
    /\ approved' = [approved EXCEPT ![j] = FALSE]
    /\ onlyStage' = [onlyStage EXCEPT ![j] = TRUE]
    /\ Requeue(j)

\* The status is final at once; the worker, if there is one, runs on until it
\* looks at the event.
CancelJob(j) ==
    /\ serving
    /\ status[j] \in ActiveStatuses
    /\ cancelEvent' = [cancelEvent EXCEPT ![j] = "set"]
    /\ status' = [status EXCEPT ![j] = "cancelled"]
    /\ UNCHANGED <<project, onlyStage, approved, pc, held, locals, line, serving, bounds>>

\* Mutant: the records are cancelled but the workers are not told.
ShutdownUnsignalled ==
    /\ serving' = FALSE
    /\ status' = [j \in Jobs |-> IF status[j] \in ActiveStatuses THEN "cancelled"
                                                               ELSE status[j]]
    /\ UNCHANGED <<project, onlyStage, approved, cancelEvent, pc, held, locals,
                   line, bounds>>

\* The end of a session and the exit of the ASGI lifespan: every active job,
\* waiting ones included, is cancelled, and no request is served any more.  The
\* end of a session is followed by the exit of the lifespan, so it may happen twice.
Shutdown ==
    /\ serving' = FALSE
    /\ cancelEvent' = [j \in Jobs |-> IF status[j] \in ActiveStatuses THEN "set"
                                                                    ELSE cancelEvent[j]]
    /\ status' = [j \in Jobs |-> IF status[j] \in ActiveStatuses THEN "cancelled"
                                                               ELSE status[j]]
    /\ UNCHANGED <<project, onlyStage, approved, pc, held, locals, line, bounds>>

\* Mutant: loading the records does not start the head of the queue.
RestartIdle ==
    /\ restarts < MaxRestarts
    /\ restarts' = restarts + 1
    /\ serving' = TRUE
    /\ status' = [j \in Jobs |-> IF status[j] \in RunningStatuses THEN "failed"
                                                                ELSE status[j]]
    /\ pc' = [j \in Jobs |-> "none"]
    /\ cancelEvent' = [j \in Jobs |-> "none"]
    /\ held' = [j \in Jobs |-> "none"]
    /\ UNCHANGED <<project, onlyStage, approved, line, locals, requeues>>

\* The process ends, by a crash or after Shutdown, and a new one loads the
\* records (_load_jobs) in the order of their files' names and starts the head
\* of the queue.  `lost` are the completed jobs whose archive file was removed.
Restart ==
    /\ restarts < MaxRestarts
    /\ restarts' = restarts + 1
    /\ serving' = TRUE
    /\ dict' = {p \in Present(status) \X Present(status) : p[1] < p[2]}
    /\ \E lost \in SUBSET {j \in Jobs : status[j] = "completed"} :
          LET st == [j \in Jobs |-> IF status[j] \in RunningStatuses \/ j \in lost
                                      THEN "failed" ELSE status[j]] IN
             /\ status' = st
             /\ MaybeStart(st, Sorted(createdAt, dict'), [j \in Jobs |-> "none"],
                           [j \in Jobs |-> "none"])
    /\ held' = [j \in Jobs |-> "none"]
    /\ runOnly' = [j \in Jobs |-> FALSE]
    /\ runApproved' = [j \in Jobs |-> FALSE]
    /\ summary' = [j \in Jobs |-> "none"]
    /\ UNCHANGED <<project, onlyStage, approved, createdAt, requeues>>

-----------------------------------------------------------------------------
(* The worker thread, _run_job *)

\* A step of the worker that touches nothing shared.
Goto(j, from, to) ==
    /\ pc[j] = from
    /\ pc' = [pc EXCEPT ![j] = to]

\* The worker of j looks at its event and goes on, or to the cancelled state.
Check(j, from, to) == Goto(j, from, IF Cancelled(j) THEN "cancelling" ELSE to)

Private == UNCHANGED <<records, cancelEvent, held, line, serving, bounds>>

\* A locked update of the record's status.
Publish(j, from, to, st) ==
    /\ Goto(j, from, to)
    /\ status' = [status EXCEPT ![j] = st]
    /\ UNCHANGED <<cancelEvent, held, line, serving, bounds>>

\* cancel_event = self._cancel_events.setdefault(j, Event()), without the lock
Enter(j) ==
    /\ Goto(j, "spawned", "entered")
    /\ cancelEvent' = [cancelEvent EXCEPT ![j] = IF @ = "none" THEN "clear" ELSE @]
    /\ held' = [held EXCEPT ![j] = "shared"]
    /\ UNCHANGED <<records, locals, line, serving, bounds>>

EntryCheck(j) == Check(j, "entered", "initialize") /\ Private /\ UNCHANGED locals

SetJobRunning(j) ==
    /\ Publish(j, "initialize", "preflight", "initializing")
    /\ UNCHANGED <<project, onlyStage, approved, locals>>

\* driver_readiness and create_driver, and the cancel checks between them
Preflight(j) ==
    /\ \/ Goto(j, "preflight", "failing")
       \/ Check(j, "preflight", "snapshot")
    /\ Private /\ UNCHANGED locals

Snapshot(j) ==
    /\ Goto(j, "snapshot", "setup")
    /\ runOnly' = [runOnly EXCEPT ![j] = onlyStage[j]]
    /\ runApproved' = [runApproved EXCEPT ![j] = approved[j]]
    /\ Private /\ UNCHANGED summary

\* initialize_project, the copy of a revision's source, or the old workspace
SetupProject(j) ==
    /\ \/ Goto(j, "setup", "failing")
       \/ Check(j, "setup", "start_run")
    /\ Private /\ UNCHANGED locals

StartRun(j) ==
    /\ Publish(j, "start_run", "check_run", "running")
    /\ project' = [project EXCEPT ![j] = TRUE]
    /\ UNCHANGED <<onlyStage, approved, locals>>

RunCheck(j) == Check(j, "check_run", "prelude") /\ Private /\ UNCHANGED locals

Return(j, from, result) ==
    /\ Goto(j, from, "returned")
    /\ summary' = [summary EXCEPT ![j] = result]
    /\ Private /\ UNCHANGED <<runOnly, runApproved>>

\* PipelineRunner.run before its loop: nothing left to do, an approval recorded
\* for a single-stage run, a stage without its prerequisites, a stage that
\* still waits for a person, or a stage to run
Prelude(j) ==
    \/ \E result \in {"success", "failure"} : Return(j, "prelude", result)
    \/ /\ \E to \in {"announce", "next_stage"} : Goto(j, "prelude", to)
       /\ Private /\ UNCHANGED locals

\* The head of the runner's loop.
RunnerDone(j) == Return(j, "next_stage", "success")

NextStage(j) ==
    \/ Cancelled(j) /\ Return(j, "next_stage", "failure")
    \/ ~Cancelled(j) /\ Goto(j, "next_stage", "stage_start") /\ Private /\ UNCHANGED locals

\* The stage_started event, which _handle_runner_event turns into a status
StageStarted(j) ==
    /\ Publish(j, "stage_start", "attempt", "running")
    /\ UNCHANGED <<project, onlyStage, approved, locals>>

Attempt(j) ==
    \/ Cancelled(j) /\ Return(j, "attempt", "failure")
    \/ ~Cancelled(j) /\ Goto(j, "attempt", "driving") /\ Private /\ UNCHANGED locals

\* The attempts at one stage: it fails or is cancelled, passes (a run of one
\* stage ends there, unless verification has to be repeated), or waits for a person.
RunStage(j) ==
    \/ Return(j, "driving", "failure")
    \/ runOnly[j] /\ Return(j, "driving", "success")
    \/ /\ \E to \in {"announce", "next_stage"} : Goto(j, "driving", to)
       /\ Private /\ UNCHANGED locals

\* The stage_awaiting_approval event: the job looks approvable while its
\* worker still has to return from run.
AwaitingAnnounced(j) ==
    /\ Publish(j, "announce", "returned", "awaiting_approval")
    /\ summary' = [summary EXCEPT ![j] = "awaiting"]
    /\ UNCHANGED <<project, onlyStage, approved, runOnly, runApproved>>

\* if approved_stage: self._update_job(job_id, approved_stage=None)
ClearApproval(j) ==
    /\ Goto(j, "returned", "settled")
    /\ approved' = [approved EXCEPT ![j] = @ /\ ~runApproved[j]]
    /\ runApproved' = [runApproved EXCEPT ![j] = FALSE]
    /\ UNCHANGED <<status, project, onlyStage, cancelEvent, held, runOnly, summary,
                   line, serving, bounds>>

\* A single-stage run that passed continues with the rest of the pipeline.
ContinuePipeline(j) ==
    /\ summary[j] = "success"
    /\ runOnly[j]
    /\ Goto(j, "settled", "prelude")
    /\ onlyStage' = [onlyStage EXCEPT ![j] = FALSE]
    /\ runOnly' = [runOnly EXCEPT ![j] = FALSE]
    /\ UNCHANGED <<status, project, approved, cancelEvent, held, runApproved,
                   summary, line, serving, bounds>>

\* Mutant: the checkpoint's word for waiting is written into the job.
AwaitHuman(j) ==
    /\ summary[j] = "awaiting"
    /\ Publish(j, "settled", "finishing", "awaiting_human")
    /\ UNCHANGED <<project, onlyStage, approved, locals>>

\* _await_approval_job, which does not look at the event
AwaitApproval(j) ==
    /\ summary[j] = "awaiting"
    /\ Publish(j, "settled", "finishing", "awaiting_approval")
    /\ UNCHANGED <<project, onlyStage, approved, locals>>

RunFailed(j) ==
    /\ summary[j] = "failure"
    /\ Check(j, "settled", "failing")
    /\ Private /\ UNCHANGED locals

\* next_stage(...) still names a stage, or the pipeline is complete
PipelineOver(j) ==
    /\ summary[j] = "success"
    /\ ~runOnly[j]
    /\ \E to \in {"failing", "check_packaging"} : Goto(j, "settled", to)
    /\ Private /\ UNCHANGED locals

PackagingCheck(j) == Check(j, "check_packaging", "packaging") /\ Private /\ UNCHANGED locals

StartPackaging(j) ==
    /\ Publish(j, "packaging", "archive", "packaging")
    /\ UNCHANGED <<project, onlyStage, approved, locals>>

\* _ensure_archive and _validate_archive, with a cancel check on either side
PackArchive(j) ==
    /\ \/ Goto(j, "archive", "failing")
       \/ Check(j, "archive", "complete")
    /\ Private /\ UNCHANGED locals

Complete(j) ==
    /\ Publish(j, "complete", "finishing", "completed")
    /\ UNCHANGED <<project, onlyStage, approved, locals>>

\* An exception out of the unlocked work (of next_stage, once the run is
\* over): the handler looks at the event.
Raise(j) ==
    /\ \E at \in {"preflight", "setup", "prelude", "driving", "settled", "archive"} :
          /\ at = "settled" => summary[j] = "success"
          /\ Check(j, at, "failing")
    /\ Private /\ UNCHANGED locals

\* Mutant: the failure is recorded but the status is left as it was.
FailJobSilently(j) == Goto(j, "failing", "finishing") /\ Private /\ UNCHANGED locals

FailJob(j) ==
    /\ Publish(j, "failing", "finishing", "failed")
    /\ UNCHANGED <<project, onlyStage, approved, locals>>

CancelJobState(j) ==
    /\ Publish(j, "cancelling", "finishing", "cancelled")
    /\ UNCHANGED <<project, onlyStage, approved, locals>>

\* Mutant: a worker that ends does not start the next job.
FinishIdle(j) ==
    /\ Goto(j, "finishing", "none")
    /\ cancelEvent' = [cancelEvent EXCEPT ![j] = "none"]
    /\ held' = [held EXCEPT ![j] = "none"]
    /\ runOnly' = [runOnly EXCEPT ![j] = FALSE]
    /\ runApproved' = [runApproved EXCEPT ![j] = FALSE]
    /\ summary' = [summary EXCEPT ![j] = "none"]
    /\ UNCHANGED <<records, line, serving, bounds>>

\* The finally block: the thread leaves the table, the event goes with a job
\* that is not queued again, and the head of the queue is started.
Finish(j) ==
    /\ pc[j] = "finishing"
    /\ MaybeStart(status, Sorted(createdAt, dict),
                  [pc EXCEPT ![j] = "none"],
                  [cancelEvent EXCEPT ![j] =
                      IF status[j] \in TerminalStatuses \cup {"awaiting_approval"}
                        THEN "none" ELSE @])
    /\ held' = [held EXCEPT ![j] = "none"]
    /\ runOnly' = [runOnly EXCEPT ![j] = FALSE]
    /\ runApproved' = [runApproved EXCEPT ![j] = FALSE]
    /\ summary' = [summary EXCEPT ![j] = "none"]
    /\ UNCHANGED <<records, line, serving, bounds>>

-----------------------------------------------------------------------------
(* The specification *)

Init ==
    /\ status = [j \in Jobs |-> "absent"]
    /\ project = [j \in Jobs |-> FALSE]
    /\ onlyStage = [j \in Jobs |-> FALSE]
    /\ approved = [j \in Jobs |-> FALSE]
    /\ createdAt = [j \in Jobs |-> 0]
    /\ dict = {}
    /\ cancelEvent = [j \in Jobs |-> "none"]
    /\ pc = [j \in Jobs |-> "none"]
    /\ held = [j \in Jobs |-> "none"]
    /\ runOnly = [j \in Jobs |-> FALSE]
    /\ runApproved = [j \in Jobs |-> FALSE]
    /\ summary = [j \in Jobs |-> "none"]
    /\ serving = TRUE
    /\ requeues = 0
    /\ restarts = 0

Worker(j) ==
    \/ Enter(j) \/ EntryCheck(j) \/ SetJobRunning(j) \/ Preflight(j) \/ Snapshot(j)
    \/ SetupProject(j) \/ StartRun(j) \/ RunCheck(j) \/ Prelude(j) \/ RunnerDone(j)
    \/ NextStage(j) \/ StageStarted(j) \/ Attempt(j) \/ RunStage(j) \/ AwaitingAnnounced(j)
    \/ ClearApproval(j) \/ ContinuePipeline(j) \/ AwaitApproval(j) \/ RunFailed(j)
    \/ PipelineOver(j) \/ PackagingCheck(j) \/ StartPackaging(j) \/ PackArchive(j)
    \/ Complete(j) \/ Raise(j) \/ FailJob(j) \/ CancelJobState(j) \/ Finish(j)

Submit(j, at) ==
    \/ CreateJob(j, at)
    \/ \E p \in Jobs : ReviseJob(p, j, at) \/ RerunJob(p, j, at)

Control(j) == ApproveJob(j) \/ RetryStage(j) \/ CancelJob(j)

Next ==
    \/ \E j \in Jobs : (\E at \in 1..Seconds : Submit(j, at)) \/ Control(j) \/ Worker(j)
    \/ Shutdown
    \/ Restart

Spec == Init /\ [][Next]_vars

\* What remains when nobody approves, retries or cancels: jobs are submitted
\* and served, and the server may stop.
SubmitOnlyNext ==
    \/ \E j \in Jobs : (\E at \in 1..Seconds : Submit(j, at)) \/ Worker(j)
    \/ Shutdown
    \/ Restart

SubmitOnlySpec == Init /\ [][SubmitOnlyNext]_vars

\* The submissions of somebody who waits for the answer to one before the next,
\* by a clock that is not set back.  The code does not see to either.
SubmitNext(j, at) == (\A k \in Jobs : createdAt[k] <= at) /\ Submit(j, at)

OneByOneNext ==
    \/ \E j \in Jobs : (\E at \in 1..Seconds : SubmitNext(j, at)) \/ Worker(j)
    \/ Shutdown
    \/ Restart

OneByOneSpec == Init /\ [][OneByOneNext]_vars

\* Worker threads are never starved; the deadline of every stage and the finite
\* pipeline bring PipelineRunner.run back to _run_job (strong fairness of
\* RunnerDone: the runner's loop is not gone round for ever).  Nothing is
\* assumed of users, of Shutdown or of Restart.
FairSpec ==
    /\ Spec
    /\ \A j \in Jobs : WF_vars(Worker(j)) /\ SF_vars(RunnerDone(j))

-----------------------------------------------------------------------------
(* Properties *)

TypeOK ==
    /\ status \in [Jobs -> Statuses]
    /\ project \in [Jobs -> BOOLEAN]
    /\ onlyStage \in [Jobs -> BOOLEAN]
    /\ approved \in [Jobs -> BOOLEAN]
    /\ createdAt \in [Jobs -> 0..Seconds]
    /\ dict \in SUBSET (Jobs \X Jobs)
    /\ cancelEvent \in [Jobs -> {"none", "clear", "set"}]
    /\ pc \in [Jobs -> Pcs]
    /\ held \in [Jobs -> {"none", "shared", "clear", "set"}]
    /\ runOnly \in [Jobs -> BOOLEAN]
    /\ runApproved \in [Jobs -> BOOLEAN]
    /\ summary \in [Jobs -> {"none", "success", "failure", "awaiting"}]
    /\ serving \in BOOLEAN
    /\ requeues \in 0..MaxRequeues
    /\ restarts \in 0..MaxRestarts

\* A job whose record says it runs has a live worker that will still write
\* another status.  Were one left behind, _running_job_id_locked would name it
\* for ever and no job would be started again.
BusyJobHasWorker == \A j \in Jobs : status[j] \in RunningStatuses => pc[j] \in BusyPcs

\* While a job is queued some worker is registered, and its finally block will
\* look at the queue: cancel_job, which frees the slot without starting
\* anything, and every order of requests and worker steps keep this true.
NoStrandedQueue == Queued(status) # {} => Registered(pc) # {}

\* A queued job never waits under an Event that is already set, whatever
\* cancellations its record went through before it was approved or retried: a
\* fresh run is not killed by an old cancellation.
QueuedEventIsClear == \A j \in Jobs : status[j] = "queued" => cancelEvent[j] # "set"

\* A job whose record says "cancelled" while its worker has yet to finish has
\* its Event set, as long as the worker uses (or will take) the Event in the
\* table.
CancelIsSignalled ==
    \A j \in Jobs :
       /\ status[j] = "cancelled"
       /\ pc[j] \notin {"none", "finishing"}
       /\ held[j] \in {"none", "shared"}
       => cancelEvent[j] = "set"

\* docs/ARCHITECTURE.md: JobManager "permits one running job at a time".  The
\* code keeps this only if submissions do not overlap and nothing is cancelled or
\* queued again (OneByOneSpec); jobs_overlap shows what happens otherwise.
OneRunningJob == \A j, k \in Running(status) : j = k

\* "and maintains a FIFO queue": no job leaves the queue before one that was
\* created in an earlier second, over restarts too.  Jobs of the same second
\* may change places when the server restarts.
NoOvertaking ==
    \A j, k \in Jobs :
       status[j] = "queued" /\ createdAt[j] < createdAt[k] => status[k] \in {"absent", "queued"}

\* "limited to eight queued/running jobs by default".
QueueWithinLimit == Cardinality(Queued(status) \cup Running(status)) <= QueueLimit

\* Every queued job leaves the queue (it is started, or cancelled).
QueuedJobIsServed == \A j \in Jobs : status[j] = "queued" ~> status[j] # "queued"

\* tests/test_web.py: the answer to a cancel request says "cancelled" and
\* "terminal"; only an explicit retry should change such a job.
CancelledIsFinal ==
    [][\A j \in Jobs : status[j] = "cancelled" => status'[j] \in {"cancelled", "queued"}]_vars

\* docs/ARCHITECTURE.md: "Queued jobs and approval waits survive a server
\* restart."  Stopping the server leaves them as they are.
WaitingJobsSurviveStop ==
    [][\A j \in Jobs :
         /\ serving /\ ~serving'
         /\ status[j] \in {"queued", "awaiting_approval"}
         => status'[j] = status[j]]_vars
=============================================================================
