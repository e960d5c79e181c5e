--------------------------- MODULE JobManagerProofs ---------------------------
(***************************************************************************)
(* Proofs about JobManager for every number of jobs, every queue limit,    *)
(* every time of submission and any number of requeues and restarts.       *)
(***************************************************************************)
EXTENDS JobManager, TLAPS

\* How the events in the table and the ones the workers hold are related.
EventsInv ==
    \A j \in Jobs :
       /\ status[j] = "absent" => pc[j] = "none"
       /\ held[j] = "none" <=> pc[j] \in {"none", "spawned"}
       /\ held[j] = "shared" => cancelEvent[j] # "none"
       /\ pc[j] = "cancelling" /\ held[j] = "shared" => cancelEvent[j] = "set"

IInv ==
    /\ TypeOK
    /\ BusyJobHasWorker
    /\ NoStrandedQueue
    /\ QueuedEventIsClear
    /\ EventsInv
    /\ CancelIsSignalled

-----------------------------------------------------------------------------
(* Starting a worker *)

\* What _maybe_start_next_job_locked does to the tables: at most one thread is
\* added, for a queued job, with an event; and if jobs are queued afterwards
\* then one runs or a thread is registered.
LEMMA MaybeStartEffect ==
    ASSUME NEW st \in [Jobs -> Statuses], NEW sorted, NEW w \in [Jobs -> Pcs],
           NEW ev \in [Jobs -> {"none", "clear", "set"}],
           MaybeStart(st, sorted, w, ev)
    PROVE  /\ pc' \in [Jobs -> Pcs]
           /\ cancelEvent' \in [Jobs -> {"none", "clear", "set"}]
           /\ \A j \in Jobs :
                 \/ pc'[j] = w[j] /\ cancelEvent'[j] = ev[j]
                 \/ /\ w[j] = "none" /\ pc'[j] = "spawned" /\ st[j] = "queued"
                    /\ cancelEvent'[j] = IF ev[j] = "none" THEN "clear" ELSE ev[j]
           /\ Queued(st) # {} => Running(st) # {} \/ \E j \in Jobs : pc'[j] # "none"
<1>1. CASE /\ \/ Running(st) # {}
              \/ Queued(st) = {}
              \/ \E j \in Registered(w) : IsHead(j, st, sorted)
           /\ pc' = w
           /\ cancelEvent' = ev
  BY <1>1 DEF Registered
<1>2. CASE /\ Running(st) = {}
           /\ \E j \in Jobs \ Registered(w) :
                 /\ IsHead(j, st, sorted)
                 /\ pc' = [w EXCEPT ![j] = "spawned"]
                 /\ cancelEvent' = [ev EXCEPT ![j] = IF @ = "none" THEN "clear" ELSE @]
  <2>1. PICK j \in Jobs \ Registered(w) :
           /\ IsHead(j, st, sorted)
           /\ pc' = [w EXCEPT ![j] = "spawned"]
           /\ cancelEvent' = [ev EXCEPT ![j] = IF @ = "none" THEN "clear" ELSE @]
    BY <1>2
  <2>2. w[j] = "none" /\ st[j] = "queued"
    BY <2>1 DEF Registered, IsHead, Queued
  <2>3. pc'[j] = "spawned"
    BY <2>1
  <2> QED
    BY <2>1, <2>2, <2>3 DEF Pcs
<1> QED
  BY <1>1, <1>2 DEF MaybeStart

-----------------------------------------------------------------------------
(* Worker steps *)

\* A worker step that neither takes nor drops an event: the thread moves on,
\* with or without a locked update of its own record's status.
Quiet(j) ==
    /\ cancelEvent' = cancelEvent
    /\ held' = held
    /\ pc[j] \in {"entered", "initialize"} \cup BusyPcs
    /\ \E to \in Pcs \ {"none", "spawned"} :
          /\ pc' = [pc EXCEPT ![j] = to]
          /\ \/ /\ status' = status
                /\ to \in BusyPcs \/ (pc[j] = "entered" /\ to = "initialize")
                /\ to = "cancelling" => Cancelled(j)
             \/ \E s \in Statuses \ {"absent", "queued"} :
                   /\ status' = [status EXCEPT ![j] = s]
                   /\ s \in RunningStatuses => to \in BusyPcs
                   /\ s = "cancelled" => to = "finishing"
                   /\ to # "cancelling"

\* A locked update of the status is quiet when a busy status leaves the worker
\* busy and the cancelled status is the worker's last word.
LEMMA PublishIsQuiet ==
    ASSUME NEW j \in Jobs, NEW from \in {"initialize"} \cup BusyPcs,
           NEW to \in Pcs \ {"none", "spawned", "cancelling"},
           NEW s \in Statuses \ {"absent", "queued"},
           s \in RunningStatuses => to \in BusyPcs,
           s = "cancelled" => to = "finishing",
           Publish(j, from, to, s)
    PROVE  Quiet(j)
  BY DEF Publish, Goto, Quiet

LEMMA WorkerShape ==
    ASSUME TypeOK, NEW j \in Jobs, Worker(j)
    PROVE  Enter(j) \/ Finish(j) \/ Quiet(j)
<1> USE DEF Quiet, Goto, Check, Publish, Private, Return, records, bounds, locals, Pcs, BusyPcs,
            Statuses, ActiveStatuses, RunningStatuses, TerminalStatuses
<1>1. EntryCheck(j) => Quiet(j)  BY DEF EntryCheck
<1>2. SetJobRunning(j) => Quiet(j)
  <2> HIDE DEF Quiet, Publish
  <2> QED  BY PublishIsQuiet DEF SetJobRunning
<1>3. Preflight(j) => Quiet(j)  BY DEF Preflight
<1>4. Snapshot(j) => Quiet(j)  BY DEF Snapshot
<1>5. SetupProject(j) => Quiet(j)  BY DEF SetupProject
<1>6. StartRun(j) => Quiet(j)  BY DEF StartRun
<1>7. RunCheck(j) => Quiet(j)  BY DEF RunCheck
<1>8. Prelude(j) => Quiet(j)  BY DEF Prelude
<1>9. RunnerDone(j) => Quiet(j)  BY DEF RunnerDone
<1>10. NextStage(j) => Quiet(j)  BY DEF NextStage
<1>11. StageStarted(j) => Quiet(j)  BY DEF StageStarted
<1>12. Attempt(j) => Quiet(j)  BY DEF Attempt
<1>13. RunStage(j) => Quiet(j)  BY DEF RunStage
<1>14. AwaitingAnnounced(j) => Quiet(j)  BY DEF AwaitingAnnounced
<1>15. ClearApproval(j) => Quiet(j)  BY DEF ClearApproval
<1>16. ContinuePipeline(j) => Quiet(j)  BY DEF ContinuePipeline
<1>17. AwaitApproval(j) => Quiet(j)  BY DEF AwaitApproval
<1>18. RunFailed(j) => Quiet(j)  BY DEF RunFailed
<1>19. PipelineOver(j) => Quiet(j)  BY DEF PipelineOver
<1>20. PackagingCheck(j) => Quiet(j)  BY DEF PackagingCheck
<1>21. StartPackaging(j) => Quiet(j)  BY DEF StartPackaging
<1>22. PackArchive(j) => Quiet(j)  BY DEF PackArchive
<1>23. Complete(j) => Quiet(j)  BY DEF Complete
<1>24. Raise(j) => Quiet(j)  BY DEF Raise
<1>25. FailJob(j) => Quiet(j)  BY DEF FailJob
<1>26. CancelJobState(j) => Quiet(j)
  <2> HIDE DEF Quiet, Publish
  <2> QED  BY PublishIsQuiet DEF CancelJobState
<1> HIDE DEF Quiet
<1> QED
  BY <1>1, <1>2, <1>3, <1>4, <1>5, <1>6, <1>7, <1>8, <1>9, <1>10, <1>11, <1>12, <1>13, <1>14,
     <1>15, <1>16, <1>17, <1>18, <1>19, <1>20, <1>21, <1>22, <1>23, <1>24, <1>25, <1>26
  DEF Worker

-----------------------------------------------------------------------------
(* Type correctness *)

LEMMA InitTypeOK == Init => TypeOK
  BY JobBoundsAssumption DEF Init, TypeOK, Statuses, Pcs

LEMMA AdmitTypeOK ==
    ASSUME TypeOK, NEW j \in Jobs, NEW at \in 1..Seconds, Admit(j, at)
    PROVE  TypeOK'
<1> DEFINE st == [status EXCEPT ![j] = "queued"]
           ev == [cancelEvent EXCEPT ![j] = "clear"]
<1>1. st \in [Jobs -> Statuses] /\ ev \in [Jobs -> {"none", "clear", "set"}]
  BY DEF TypeOK, Statuses, ActiveStatuses
<1>2. MaybeStart(st, Sorted(createdAt', dict'), pc, ev) /\ status' = st
  BY DEF Admit
<1>3. pc' \in [Jobs -> Pcs] /\ cancelEvent' \in [Jobs -> {"none", "clear", "set"}]
  <2> HIDE DEF st, ev
  <2> QED  BY <1>1, <1>2, MaybeStartEffect DEF TypeOK
<1>4. createdAt' \in [Jobs -> 0..Seconds] /\ dict' \in SUBSET (Jobs \X Jobs)
  BY JobBoundsAssumption DEF Admit, TypeOK, Present
<1> QED
  BY <1>1, <1>2, <1>3, <1>4 DEF TypeOK, Admit, locals, bounds

LEMMA RequeueTypeOK ==
    ASSUME TypeOK, NEW j \in Jobs, ApproveJob(j) \/ RetryStage(j),
           held[j] = "shared" => cancelEvent[j] # "none"
    PROVE  TypeOK'
<1> DEFINE st == [status EXCEPT ![j] = "queued"]
           ev == [cancelEvent EXCEPT ![j] = "clear"]
<1>1. st \in [Jobs -> Statuses] /\ ev \in [Jobs -> {"none", "clear", "set"}]
  BY DEF TypeOK, Statuses, ActiveStatuses
<1>2. MaybeStart(st, Sorted(createdAt, dict), pc, ev) /\ status' = st /\ Requeue(j)
  BY DEF ApproveJob, RetryStage, Requeue
<1>3. pc' \in [Jobs -> Pcs] /\ cancelEvent' \in [Jobs -> {"none", "clear", "set"}]
  <2> HIDE DEF st, ev
  <2> QED  BY <1>1, <1>2, MaybeStartEffect DEF TypeOK
<1>4. held' \in [Jobs -> {"none", "shared", "clear", "set"}]
  BY <1>2 DEF Requeue, Detached, TypeOK
<1>5. approved' \in [Jobs -> BOOLEAN] /\ onlyStage' \in [Jobs -> BOOLEAN]
  BY DEF ApproveJob, RetryStage, TypeOK
<1>6. requeues' \in 0..MaxRequeues
  BY <1>2, JobBoundsAssumption DEF Requeue, TypeOK
<1> QED
  BY <1>1, <1>2, <1>3, <1>4, <1>5, <1>6 DEF TypeOK, Requeue, line, locals, bounds

LEMMA RestartTypeOK ==
    ASSUME TypeOK, Restart
    PROVE  TypeOK'
<1>1. PICK lost \in SUBSET {j \in Jobs : status[j] = "completed"} :
         LET st == [j \in Jobs |-> IF status[j] \in RunningStatuses \/ j \in lost
                                     THEN "failed" ELSE status[j]] IN
            /\ status' = st
            /\ MaybeStart(st, Sorted(createdAt, dict'), [j \in Jobs |-> "none"],
                          [j \in Jobs |-> "none"])
  BY DEF Restart
<1> DEFINE st == [j \in Jobs |-> IF status[j] \in RunningStatuses \/ j \in lost
                                   THEN "failed" ELSE status[j]]
           nothing == [j \in Jobs |-> "none"]
<1>2. /\ st \in [Jobs -> Statuses]
      /\ nothing \in [Jobs -> Pcs]
      /\ nothing \in [Jobs -> {"none", "clear", "set"}]
  BY DEF TypeOK, Statuses, TerminalStatuses, Pcs
<1>3. MaybeStart(st, Sorted(createdAt, dict'), nothing, nothing) /\ status' = st
  BY <1>1
<1>4. pc' \in [Jobs -> Pcs] /\ cancelEvent' \in [Jobs -> {"none", "clear", "set"}]
  <2> HIDE DEF st, nothing
  <2> QED  BY <1>2, <1>3, MaybeStartEffect
<1>5. restarts' \in 0..MaxRestarts /\ dict' \in SUBSET (Jobs \X Jobs)
  BY JobBoundsAssumption DEF Restart, TypeOK, Present
<1> QED
  BY <1>2, <1>3, <1>4, <1>5 DEF TypeOK, Restart

LEMMA FinishTypeOK ==
    ASSUME TypeOK, NEW j \in Jobs, Finish(j)
    PROVE  TypeOK'
<1> DEFINE w == [pc EXCEPT ![j] = "none"]
           ev == [cancelEvent EXCEPT ![j] =
                     IF status[j] \in TerminalStatuses \cup {"awaiting_approval"}
                       THEN "none" ELSE @]
<1>1. w \in [Jobs -> Pcs] /\ ev \in [Jobs -> {"none", "clear", "set"}]
  BY DEF TypeOK, Pcs
<1>2. MaybeStart(status, Sorted(createdAt, dict), w, ev) /\ status \in [Jobs -> Statuses]
  BY DEF Finish, TypeOK
<1>3. pc' \in [Jobs -> Pcs] /\ cancelEvent' \in [Jobs -> {"none", "clear", "set"}]
  <2> HIDE DEF w, ev
  <2> QED  BY <1>1, <1>2, MaybeStartEffect
<1> QED
  BY <1>3 DEF Finish, TypeOK, records, line, bounds

\* The fields of the records and the locals of the workers that carry no status.
FieldsOK ==
    /\ project \in [Jobs -> BOOLEAN]
    /\ onlyStage \in [Jobs -> BOOLEAN]
    /\ approved \in [Jobs -> BOOLEAN]
    /\ runOnly \in [Jobs -> BOOLEAN]
    /\ runApproved \in [Jobs -> BOOLEAN]
    /\ summary \in [Jobs -> {"none", "success", "failure", "awaiting"}]
    /\ serving \in BOOLEAN

LEMMA FieldsStep ==
    ASSUME TypeOK, NEW j \in Jobs, Worker(j)
    PROVE  FieldsOK' /\ UNCHANGED <<line, bounds>>
<1> USE DEF TypeOK, FieldsOK, Private, Return, Check, Publish, records, line, locals, bounds
<1>1. CASE \/ Enter(j) \/ EntryCheck(j) \/ SetJobRunning(j) \/ Preflight(j)
           \/ SetupProject(j) \/ RunCheck(j)
  BY <1>1 DEF Enter, EntryCheck, SetJobRunning, Preflight, SetupProject, RunCheck
<1>2. CASE Snapshot(j) \/ StartRun(j) \/ StageStarted(j) \/ AwaitingAnnounced(j)
  <2>1. CASE Snapshot(j)  BY <2>1 DEF Snapshot
  <2>2. CASE StartRun(j) \/ StageStarted(j)  BY <2>2 DEF StartRun, StageStarted
  <2>3. CASE AwaitingAnnounced(j)  BY <2>3 DEF AwaitingAnnounced
  <2> QED  BY <1>2, <2>1, <2>2, <2>3
<1>3. CASE Prelude(j) \/ RunnerDone(j) \/ NextStage(j) \/ Attempt(j) \/ RunStage(j)
  BY <1>3 DEF Prelude, RunnerDone, NextStage, Attempt, RunStage
<1>4. CASE ClearApproval(j) \/ ContinuePipeline(j)
  BY <1>4 DEF ClearApproval, ContinuePipeline
<1>5. CASE \/ AwaitApproval(j) \/ RunFailed(j) \/ PipelineOver(j) \/ PackagingCheck(j)
           \/ StartPackaging(j) \/ PackArchive(j)
  BY <1>5 DEF AwaitApproval, RunFailed, PipelineOver, PackagingCheck, StartPackaging, PackArchive
<1>6. CASE Complete(j) \/ Raise(j) \/ FailJob(j) \/ CancelJobState(j)
  BY <1>6 DEF Complete, Raise, FailJob, CancelJobState
<1>7. CASE Finish(j)
  BY <1>7 DEF Finish
<1> QED
  BY <1>1, <1>2, <1>3, <1>4, <1>5, <1>6, <1>7 DEF Worker

\* A worker keeps every variable in its type.
LEMMA WorkerTypeOK ==
    ASSUME TypeOK, NEW j \in Jobs, Worker(j)
    PROVE  TypeOK'
<1>1. CASE Finish(j)  BY <1>1, FinishTypeOK
<1>2. CASE Enter(j)
  BY <1>2 DEF Enter, Goto, TypeOK, records, line, locals, bounds, Pcs
<1>3. CASE Quiet(j)
  <2>1. status' \in [Jobs -> Statuses] /\ pc' \in [Jobs -> Pcs]
    BY <1>3 DEF Quiet, TypeOK
  <2>2. /\ cancelEvent' \in [Jobs -> {"none", "clear", "set"}]
        /\ held' \in [Jobs -> {"none", "shared", "clear", "set"}]
    BY <1>3 DEF Quiet, TypeOK
  <2>3. FieldsOK' /\ UNCHANGED <<line, bounds>>
    BY FieldsStep
  <2> QED  BY <2>1, <2>2, <2>3 DEF TypeOK, FieldsOK, line, bounds
<1> QED  BY <1>1, <1>2, <1>3, WorkerShape

-----------------------------------------------------------------------------
(* The inductive invariant *)

LEMMA InitInv == Init => IInv
<1> SUFFICES ASSUME Init PROVE IInv  OBVIOUS
<1>1. TypeOK  BY InitTypeOK
<1> QED
  BY <1>1 DEF Init, IInv, BusyJobHasWorker, NoStrandedQueue, QueuedEventIsClear, EventsInv,
              CancelIsSignalled, Queued, RunningStatuses

\* A job is put in the queue, new or again, and the head may be started.
LEMMA EnqueueInv ==
    ASSUME IInv, TypeOK', NEW j \in Jobs, NEW at, NEW order,
           status' = [status EXCEPT ![j] = "queued"],
           held' = Detached(j),
           MaybeStart([status EXCEPT ![j] = "queued"], Sorted(at, order), pc,
                      [cancelEvent EXCEPT ![j] = "clear"])
    PROVE  IInv'
<1> DEFINE st == [status EXCEPT ![j] = "queued"]
           ev == [cancelEvent EXCEPT ![j] = "clear"]
<1>1. st \in [Jobs -> Statuses] /\ ev \in [Jobs -> {"none", "clear", "set"}]
  BY DEF IInv, TypeOK, Statuses, ActiveStatuses
<1>2. /\ \A k \in Jobs :
            \/ pc'[k] = pc[k] /\ cancelEvent'[k] = ev[k]
            \/ /\ pc[k] = "none" /\ pc'[k] = "spawned" /\ st[k] = "queued"
               /\ cancelEvent'[k] = IF ev[k] = "none" THEN "clear" ELSE ev[k]
      /\ Queued(st) # {} => Running(st) # {} \/ \E k \in Jobs : pc'[k] # "none"
  <2>1. MaybeStart(st, Sorted(at, order), pc, ev)  OBVIOUS
  <2>2. pc \in [Jobs -> Pcs]  BY DEF IInv, TypeOK
  <2> HIDE DEF st, ev
  <2>3. \A k \in Jobs :
           \/ pc'[k] = pc[k] /\ cancelEvent'[k] = ev[k]
           \/ /\ pc[k] = "none" /\ pc'[k] = "spawned" /\ st[k] = "queued"
              /\ cancelEvent'[k] = IF ev[k] = "none" THEN "clear" ELSE ev[k]
    BY ONLY <1>1, <2>1, <2>2, MaybeStartEffect
  <2>4. Queued(st) # {} => Running(st) # {} \/ \E k \in Jobs : pc'[k] # "none"
    BY ONLY <1>1, <2>1, <2>2, MaybeStartEffect
  <2> QED  BY <2>3, <2>4
<1>3. BusyJobHasWorker'
  BY <1>2 DEF IInv, TypeOK, BusyJobHasWorker, RunningStatuses, BusyPcs
<1>4. NoStrandedQueue'
  BY <1>2, <1>3 DEF NoStrandedQueue, BusyJobHasWorker, Running, Registered, BusyPcs
<1>5. QueuedEventIsClear'
  BY <1>2 DEF IInv, TypeOK, QueuedEventIsClear
<1>6. EventsInv'
  BY <1>2 DEF IInv, TypeOK, EventsInv, Detached
<1>7. CancelIsSignalled'
  <2> SUFFICES ASSUME NEW k \in Jobs, status'[k] = "cancelled",
                      pc'[k] \notin {"none", "finishing"}, held'[k] \in {"none", "shared"}
               PROVE  cancelEvent'[k] = "set"
    BY DEF CancelIsSignalled
  <2>1. k # j /\ status[k] = "cancelled" /\ held[k] = held'[k]
    BY DEF IInv, TypeOK, Detached
  <2>2. pc'[k] = pc[k] /\ cancelEvent'[k] = cancelEvent[k]
    BY <1>2, <2>1 DEF IInv, TypeOK
  <2> QED
    BY <2>1, <2>2 DEF IInv, CancelIsSignalled
<1> QED
  BY <1>3, <1>4, <1>5, <1>6, <1>7 DEF IInv

LEMMA AdmitInv ==
    ASSUME IInv, NEW j \in Jobs, NEW at \in 1..Seconds, Admit(j, at)
    PROVE  IInv'
<1>1. TypeOK'  BY AdmitTypeOK DEF IInv
<1>2. held' = Detached(j)
  BY DEF Admit, IInv, EventsInv, Detached
<1> QED
  BY <1>1, <1>2, EnqueueInv DEF Admit

LEMMA RequeueInv ==
    ASSUME IInv, NEW j \in Jobs, ApproveJob(j) \/ RetryStage(j)
    PROVE  IInv'
<1>1. TypeOK'  BY RequeueTypeOK DEF IInv, EventsInv
<1> QED
  BY <1>1, EnqueueInv DEF ApproveJob, RetryStage, Requeue

\* Cancelling one job, or all active ones: no thread starts, and every event
\* that belongs to a job cancelled here is set.
LEMMA CancelInv ==
    ASSUME IInv, NEW S \in SUBSET Jobs,
           \A j \in S : status[j] \in ActiveStatuses,
           status' = [j \in Jobs |-> IF j \in S THEN "cancelled" ELSE status[j]],
           cancelEvent' = [j \in Jobs |-> IF j \in S THEN "set" ELSE cancelEvent[j]],
           UNCHANGED <<project, onlyStage, approved, pc, held, locals, line, bounds>>,
           serving' \in BOOLEAN
    PROVE  IInv'
<1>1. TypeOK'
  BY DEF IInv, TypeOK, Statuses, TerminalStatuses, line, locals, bounds
<1>2. BusyJobHasWorker'
  BY DEF IInv, TypeOK, BusyJobHasWorker, RunningStatuses
<1>3. NoStrandedQueue'
  BY DEF IInv, TypeOK, NoStrandedQueue, Queued, Registered
<1>4. QueuedEventIsClear'
  BY DEF IInv, TypeOK, QueuedEventIsClear
<1>5. EventsInv' /\ CancelIsSignalled'
  BY DEF IInv, TypeOK, EventsInv, CancelIsSignalled, ActiveStatuses, RunningStatuses
<1> QED
  BY <1>1, <1>2, <1>3, <1>4, <1>5 DEF IInv

LEMMA CancelJobInv ==
    ASSUME IInv, NEW j \in Jobs, CancelJob(j)
    PROVE  IInv'
<1>1. /\ status' = [k \in Jobs |-> IF k \in {j} THEN "cancelled" ELSE status[k]]
      /\ cancelEvent' = [k \in Jobs |-> IF k \in {j} THEN "set" ELSE cancelEvent[k]]
  BY DEF CancelJob, IInv, TypeOK
<1>2. serving' \in BOOLEAN  BY DEF CancelJob, IInv, TypeOK
<1>3. \A k \in {j} : status[k] \in ActiveStatuses  BY DEF CancelJob
<1>4. UNCHANGED <<project, onlyStage, approved, pc, held, locals, line, bounds>>  BY DEF CancelJob
<1> DEFINE S == {j}
<1>5. S \in SUBSET Jobs  OBVIOUS
<1>6. /\ status' = [k \in Jobs |-> IF k \in S THEN "cancelled" ELSE status[k]]
      /\ cancelEvent' = [k \in Jobs |-> IF k \in S THEN "set" ELSE cancelEvent[k]]
      /\ \A k \in S : status[k] \in ActiveStatuses
  BY <1>1, <1>3
<1> HIDE DEF S
<1> QED
  BY <1>2, <1>4, <1>5, <1>6, CancelInv

LEMMA ShutdownInv ==
    ASSUME IInv, Shutdown
    PROVE  IInv'
<1> DEFINE S == {j \in Jobs : status[j] \in ActiveStatuses}
<1>1. /\ status' = [k \in Jobs |-> IF k \in S THEN "cancelled" ELSE status[k]]
      /\ cancelEvent' = [k \in Jobs |-> IF k \in S THEN "set" ELSE cancelEvent[k]]
  BY DEF Shutdown
<1>2. serving' \in BOOLEAN  BY DEF Shutdown
<1>3. \A k \in S : status[k] \in ActiveStatuses  OBVIOUS
<1>4. UNCHANGED <<project, onlyStage, approved, pc, held, locals, line, bounds>>  BY DEF Shutdown
<1>5. S \in SUBSET Jobs  OBVIOUS
<1> HIDE DEF S
<1> QED
  BY <1>1, <1>2, <1>3, <1>4, <1>5, CancelInv

\* A new process: the tables are empty but for the thread of the head.
LEMMA RestartInv ==
    ASSUME IInv, Restart
    PROVE  IInv'
<1>1. PICK lost \in SUBSET {j \in Jobs : status[j] = "completed"} :
         LET st == [j \in Jobs |-> IF status[j] \in RunningStatuses \/ j \in lost
                                     THEN "failed" ELSE status[j]] IN
            /\ status' = st
            /\ MaybeStart(st, Sorted(createdAt, dict'), [j \in Jobs |-> "none"],
                          [j \in Jobs |-> "none"])
  BY DEF Restart
<1> DEFINE st == [j \in Jobs |-> IF status[j] \in RunningStatuses \/ j \in lost
                                   THEN "failed" ELSE status[j]]
           nothing == [j \in Jobs |-> "none"]
<1>2. /\ st \in [Jobs -> Statuses]
      /\ nothing \in [Jobs -> Pcs]
      /\ nothing \in [Jobs -> {"none", "clear", "set"}]
  BY DEF IInv, TypeOK, Statuses, TerminalStatuses, Pcs
<1>3. /\ \A k \in Jobs :
            \/ pc'[k] = nothing[k] /\ cancelEvent'[k] = nothing[k]
            \/ /\ nothing[k] = "none" /\ pc'[k] = "spawned" /\ st[k] = "queued"
               /\ cancelEvent'[k] = IF nothing[k] = "none" THEN "clear" ELSE nothing[k]
      /\ Queued(st) # {} => Running(st) # {} \/ \E k \in Jobs : pc'[k] # "none"
  <2>1. MaybeStart(st, Sorted(createdAt, dict'), nothing, nothing)  BY <1>1
  <2> HIDE DEF st, nothing
  <2> QED  BY <1>2, <2>1, MaybeStartEffect
<1>4. \A k \in Jobs : status'[k] \notin RunningStatuses
  BY <1>1 DEF RunningStatuses
<1>5. status' = st  BY <1>1
<1>6. TypeOK'  BY RestartTypeOK DEF IInv
<1>7. BusyJobHasWorker'  BY <1>4 DEF BusyJobHasWorker
<1>8. NoStrandedQueue'
  <2>1. Running(st) = {}  BY <1>4, <1>5 DEF Running
  <2> HIDE DEF st
  <2> QED  BY <1>3, <1>5, <2>1 DEF NoStrandedQueue, Registered
<1>9. QueuedEventIsClear'  BY <1>3 DEF QueuedEventIsClear
<1>10. EventsInv' /\ CancelIsSignalled'
  <2>1. \A k \in Jobs : /\ held'[k] = "none"
                        /\ \/ pc'[k] = "none"
                           \/ pc'[k] = "spawned" /\ status'[k] = "queued"
    BY <1>3, <1>5 DEF Restart
  <2> QED  BY <2>1 DEF EventsInv, CancelIsSignalled
<1> QED
  BY <1>6, <1>7, <1>8, <1>9, <1>10 DEF IInv

LEMMA EnterInv ==
    ASSUME IInv, NEW j \in Jobs, Enter(j)
    PROVE  IInv'
<1>1. TypeOK'  BY WorkerTypeOK DEF IInv, Worker
<1>2. BusyJobHasWorker' /\ NoStrandedQueue'
  BY DEF Enter, Goto, IInv, TypeOK, BusyJobHasWorker, NoStrandedQueue, Registered, Queued,
         records, BusyPcs
<1>3. QueuedEventIsClear' /\ EventsInv' /\ CancelIsSignalled'
  BY DEF Enter, Goto, IInv, TypeOK, QueuedEventIsClear, EventsInv, CancelIsSignalled, records
<1> QED
  BY <1>1, <1>2, <1>3 DEF IInv

LEMMA QuietInv ==
    ASSUME IInv, TypeOK', NEW j \in Jobs, Quiet(j)
    PROVE  IInv'
<1>1. PICK to \in Pcs \ {"none", "spawned"} :
          /\ pc' = [pc EXCEPT ![j] = to]
          /\ \/ /\ status' = status
                /\ to \in BusyPcs \/ (pc[j] = "entered" /\ to = "initialize")
                /\ to = "cancelling" => Cancelled(j)
             \/ \E s \in Statuses \ {"absent", "queued"} :
                   /\ status' = [status EXCEPT ![j] = s]
                   /\ s \in RunningStatuses => to \in BusyPcs
                   /\ s = "cancelled" => to = "finishing"
                   /\ to # "cancelling"
  BY DEF Quiet
<1>2. UNCHANGED <<cancelEvent, held>> /\ pc[j] \notin {"none", "spawned"}
  BY DEF Quiet, BusyPcs
<1>3. BusyJobHasWorker'
  BY <1>1 DEF IInv, TypeOK, BusyJobHasWorker, BusyPcs
<1>4. NoStrandedQueue'
  <2>1. j \in Registered(pc)'  BY <1>1 DEF IInv, TypeOK, Registered
  <2> QED  BY <2>1 DEF NoStrandedQueue
<1>5. QueuedEventIsClear'
  BY <1>1, <1>2 DEF IInv, TypeOK, QueuedEventIsClear
<1>6. EventsInv'
  BY <1>1, <1>2 DEF IInv, TypeOK, EventsInv, Cancelled
<1>7. CancelIsSignalled'
  <2> SUFFICES ASSUME NEW k \in Jobs, status'[k] = "cancelled",
                      pc'[k] \notin {"none", "finishing"}, held[k] \in {"none", "shared"}
               PROVE  cancelEvent[k] = "set"
    BY <1>2 DEF CancelIsSignalled
  <2>1. pc'[k] = (IF k = j THEN to ELSE pc[k]) /\ status'[k] = status[k]
    BY <1>1 DEF IInv, TypeOK
  <2>2. pc[k] \notin {"none", "finishing"}
    BY <1>2, <2>1 DEF Quiet, BusyPcs
  <2> QED
    BY <2>1, <2>2 DEF IInv, CancelIsSignalled
<1> QED
  BY <1>3, <1>4, <1>5, <1>6, <1>7 DEF IInv

\* The worker leaves; whoever is busy keeps the queue alive, or the head starts.
LEMMA FinishInv ==
    ASSUME IInv, NEW j \in Jobs, Finish(j)
    PROVE  IInv'
<1> DEFINE w == [pc EXCEPT ![j] = "none"]
           ev == [cancelEvent EXCEPT ![j] =
                     IF status[j] \in TerminalStatuses \cup {"awaiting_approval"}
                       THEN "none" ELSE @]
<1>1. w \in [Jobs -> Pcs] /\ ev \in [Jobs -> {"none", "clear", "set"}]
  BY DEF IInv, TypeOK, Pcs
<1>2. /\ \A k \in Jobs :
            \/ pc'[k] = w[k] /\ cancelEvent'[k] = ev[k]
            \/ /\ w[k] = "none" /\ pc'[k] = "spawned" /\ status[k] = "queued"
               /\ cancelEvent'[k] = IF ev[k] = "none" THEN "clear" ELSE ev[k]
      /\ Queued(status) # {} => Running(status) # {} \/ \E k \in Jobs : pc'[k] # "none"
  <2>1. MaybeStart(status, Sorted(createdAt, dict), w, ev) /\ status \in [Jobs -> Statuses]
    BY DEF Finish, IInv, TypeOK
  <2> HIDE DEF w, ev
  <2> QED  BY <1>1, <2>1, MaybeStartEffect
<1>3. TypeOK'  BY FinishTypeOK DEF IInv
<1>4. pc[j] = "finishing" /\ status' = status /\ held' = [held EXCEPT ![j] = "none"]
  BY DEF Finish, records
<1>5. BusyJobHasWorker'
  BY <1>2, <1>4 DEF IInv, TypeOK, BusyJobHasWorker, BusyPcs
<1>6. NoStrandedQueue'
  BY <1>2, <1>4, <1>5 DEF NoStrandedQueue, BusyJobHasWorker, Running, Registered, BusyPcs, Queued
<1>7. QueuedEventIsClear'
  BY <1>2, <1>4 DEF IInv, TypeOK, QueuedEventIsClear
<1>8. EventsInv'
  BY <1>2, <1>4 DEF IInv, TypeOK, EventsInv
<1>9. CancelIsSignalled'
  BY <1>2, <1>4 DEF IInv, TypeOK, CancelIsSignalled
<1> QED
  BY <1>3, <1>5, <1>6, <1>7, <1>8, <1>9 DEF IInv

LEMMA WorkerInv ==
    ASSUME IInv, NEW j \in Jobs, Worker(j)
    PROVE  IInv'
<1>1. TypeOK /\ TypeOK'  BY WorkerTypeOK DEF IInv
<1> QED
  BY <1>1, WorkerShape, EnterInv, FinishInv, QuietInv

LEMMA StutterInv == IInv /\ UNCHANGED vars => IInv'
  BY DEF IInv, TypeOK, BusyJobHasWorker, NoStrandedQueue, QueuedEventIsClear, EventsInv,
         CancelIsSignalled, Queued, Registered, vars, records, line, locals, bounds

LEMMA NextInv == IInv /\ [Next]_vars => IInv'
<1> SUFFICES ASSUME IInv, [Next]_vars PROVE IInv'  OBVIOUS
<1>1. CASE UNCHANGED vars  BY <1>1, StutterInv
<1>2. CASE \E j \in Jobs : \E at \in 1..Seconds : Submit(j, at)
  BY <1>2, AdmitInv DEF Submit, CreateJob, ReviseJob, RerunJob
<1>3. CASE \E j \in Jobs : Control(j)
  BY <1>3, RequeueInv, CancelJobInv DEF Control
<1>4. CASE \E j \in Jobs : Worker(j)  BY <1>4, WorkerInv
<1>5. CASE Shutdown  BY <1>5, ShutdownInv
<1>6. CASE Restart  BY <1>6, RestartInv
<1> QED  BY <1>1, <1>2, <1>3, <1>4, <1>5, <1>6 DEF Next

THEOREM Invariance == Spec => []IInv
  BY InitInv, NextInv, PTL DEF Spec

\* Every field of a record and every table keeps its type.
THEOREM TypeCorrect == Spec => []TypeOK
<1>1. IInv => TypeOK  BY DEF IInv
<1> QED  BY <1>1, Invariance, PTL

\* A record that says "running" always has a live worker behind it.
THEOREM BusyJobsHaveWorkers == Spec => []BusyJobHasWorker
<1>1. IInv => BusyJobHasWorker  BY DEF IInv
<1> QED  BY <1>1, Invariance, PTL

\* The queue never holds a job while no worker is registered to look at it.
THEOREM QueueIsNeverStranded == Spec => []NoStrandedQueue
<1>1. IInv => NoStrandedQueue  BY DEF IInv
<1> QED  BY <1>1, Invariance, PTL

\* An old cancellation never waits for a job that was queued again.
THEOREM QueuedEventsAreClear == Spec => []QueuedEventIsClear
<1>1. IInv => QueuedEventIsClear  BY DEF IInv
<1> QED  BY <1>1, Invariance, PTL

\* A cancelled job's worker finds its event set, if its event was not replaced.
THEOREM CancelsAreSignalled == Spec => []CancelIsSignalled
<1>1. IInv => CancelIsSignalled  BY DEF IInv
<1> QED  BY <1>1, Invariance, PTL
=============================================================================
