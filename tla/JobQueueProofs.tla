---------------------------- MODULE JobQueueProofs ----------------------------
(***************************************************************************)
(* What the queue promises when jobs are only submitted.  Its limit holds  *)
(* in any case.  One job runs at a time, and jobs leave the queue in the   *)
(* order of their created_at, only under the hypothesis of OneByOneSpec    *)
(* that a submission is made when those before it are in the queue: the    *)
(* run jobs_overlap shows that without it two jobs may run.                *)
(***************************************************************************)
EXTENDS JobManagerProofs, FiniteSetTheorems

\* With the threads w and the results sm, the worker of j may still write a
\* running status: it has the slot.
Has(j, w, sm) ==
    /\ w[j] \in {"spawned", "entered", "initialize"} \cup BusyPcs
    /\ ~(w[j] \in {"returned", "settled"} /\ sm[j] = "awaiting")

Occupies(j) == Has(j, pc, summary)

\* The head of the queue as the manager would sort it now.
HeadNow(j) == IsHead(j, status, Sorted(createdAt, dict))

\* One worker has the slot, every running record is its, and a worker that has
\* not run yet belongs to the head of the queue, unless the server stopped.
Slot(st, sorted, w, sm, up) ==
    /\ \A j, k \in Jobs : Has(j, w, sm) /\ Has(k, w, sm) => j = k
    /\ \A j \in Jobs : st[j] \in RunningStatuses => Has(j, w, sm)
    /\ \A j \in Jobs :
          Has(j, w, sm) =>
             \/ st[j] \in RunningStatuses
             \/ w[j] \in {"spawned", "entered", "initialize"} /\ IsHead(j, st, sorted)
             \/ st[j] = "cancelled" /\ ~up

SlotInv == Slot(status, Sorted(createdAt, dict), pc, summary, serving)

\* A worker past the start has no queued record, nothing is queued or started
\* after a shutdown, and no event is set before one.
CalmInv ==
    /\ \A j \in Jobs : pc[j] \in BusyPcs \cup {"finishing"} => status[j] \notin {"absent", "queued"}
    /\ ~serving => Queued(status) = {}
    /\ serving => \A j \in Jobs : cancelEvent[j] # "set"
    /\ \A j \in Jobs : held[j] \in {"none", "shared"}

\* No two records are each in front of the other.
OrderInv ==
    /\ dict \subseteq Present(status) \X Present(status)
    /\ \A j, k \in Jobs : <<j, k>> \in dict => <<k, j>> \notin dict

QInv == IInv /\ SlotInv /\ CalmInv /\ OrderInv /\ NoOvertaking

LEMMA SubmitOnlyIsNext == SubmitOnlyNext => Next
  BY DEF SubmitOnlyNext, Next

LEMMA OneByOneIsSubmitOnly == OneByOneNext => SubmitOnlyNext
  BY DEF OneByOneNext, SubmitOnlyNext, SubmitNext

\* So at most one job is the head.
LEMMA HeadIsOne ==
    ASSUME TypeOK, OrderInv, NEW st, NEW j \in Jobs, NEW k \in Jobs,
           IsHead(j, st, Sorted(createdAt, dict)), IsHead(k, st, Sorted(createdAt, dict))
    PROVE  j = k
<1> SUFFICES ASSUME j # k PROVE FALSE  OBVIOUS
<1>1. <<j, k>> \in Sorted(createdAt, dict) /\ <<k, j>> \in Sorted(createdAt, dict)
  BY DEF IsHead
<1>2. createdAt[j] \in Nat /\ createdAt[k] \in Nat  BY JobBoundsAssumption DEF TypeOK
<1> QED  BY <1>1, <1>2 DEF Sorted, OrderInv

LEMMA InitQInv == Init => QInv
<1> SUFFICES ASSUME Init PROVE QInv  OBVIOUS
<1>1. IInv  BY InitInv
<1>2. SlotInv /\ OrderInv /\ NoOvertaking
  BY DEF Init, SlotInv, Slot, Has, OrderInv, Present, NoOvertaking, RunningStatuses, BusyPcs
<1>3. CalmInv
  BY DEF Init, CalmInv, Queued, BusyPcs
<1> QED  BY <1>1, <1>2, <1>3 DEF QInv

\* A thread is only added when no worker has the slot.
LEMMA MaybeStartNeedsSlot ==
    ASSUME NEW st \in [Jobs -> Statuses], NEW sorted, NEW w \in [Jobs -> Pcs],
           NEW ev \in [Jobs -> {"none", "clear", "set"}],
           MaybeStart(st, sorted, w, ev)
    PROVE  \A j \in Jobs :
              \/ pc'[j] = w[j] /\ cancelEvent'[j] = ev[j]
              \/ /\ w[j] = "none" /\ pc'[j] = "spawned" /\ IsHead(j, st, sorted)
                 /\ cancelEvent'[j] = IF ev[j] = "none" THEN "clear" ELSE ev[j]
                 /\ Running(st) = {}
                 /\ \A k \in Jobs : k # j => pc'[k] = w[k]
<1>1. CASE pc' = w /\ cancelEvent' = ev  BY <1>1
<1>2. CASE /\ Running(st) = {}
           /\ \E j \in Jobs \ Registered(w) :
                 /\ IsHead(j, st, sorted)
                 /\ pc' = [w EXCEPT ![j] = "spawned"]
                 /\ cancelEvent' = [ev EXCEPT ![j] = IF @ = "none" THEN "clear" ELSE @]
  BY <1>2 DEF Registered
<1> QED  BY <1>1, <1>2 DEF MaybeStart

\* So starting the head keeps the slot single.
LEMMA StartKeepsSlot ==
    ASSUME NEW st \in [Jobs -> Statuses], NEW sorted, NEW w \in [Jobs -> Pcs],
           NEW ev \in [Jobs -> {"none", "clear", "set"}], NEW sm, NEW up \in BOOLEAN,
           Slot(st, sorted, w, sm, up), up \/ Queued(st) = {},
           \A j, k \in Jobs : IsHead(j, st, sorted) /\ IsHead(k, st, sorted) => j = k,
           MaybeStart(st, sorted, w, ev)
    PROVE  Slot(st, sorted, pc', sm, up)
<1>1. \A j \in Jobs :
         \/ pc'[j] = w[j]
         \/ /\ w[j] = "none" /\ pc'[j] = "spawned" /\ IsHead(j, st, sorted)
            /\ Running(st) = {}
            /\ \A k \in Jobs : k # j => pc'[k] = w[k]
  BY MaybeStartNeedsSlot
<1>2. CASE \A j \in Jobs : pc'[j] = w[j]
  BY <1>2 DEF Slot, Has
<1>3. CASE \E j \in Jobs : pc'[j] # w[j]
  <2>1. PICK j \in Jobs : /\ w[j] = "none" /\ pc'[j] = "spawned" /\ IsHead(j, st, sorted)
                          /\ Running(st) = {}
                          /\ \A k \in Jobs : k # j => pc'[k] = w[k]
    BY <1>1, <1>3
  <2>2. \A k \in Jobs : ~Has(k, w, sm)
    <3> SUFFICES ASSUME NEW k \in Jobs, Has(k, w, sm) PROVE FALSE  OBVIOUS
    <3>1. st[k] \notin RunningStatuses  BY <2>1 DEF Running
    <3>2. up  BY <2>1 DEF IsHead
    <3>3. IsHead(k, st, sorted) /\ w[k] # "none"  BY <3>1, <3>2 DEF Slot
    <3>4. k = j  BY <2>1, <3>3
    <3> QED  BY <2>1, <3>3, <3>4
  <2>3. \A k \in Jobs : Has(k, pc', sm) <=> k = j
    BY <2>1, <2>2 DEF Has
  <2>4. \A k \in Jobs : st[k] \notin RunningStatuses  BY <2>1 DEF Running
  <2> QED  BY <2>1, <2>3, <2>4 DEF Slot
<1> QED  BY <1>2, <1>3

-----------------------------------------------------------------------------
(* Worker steps, with what they do to the slot *)

\* Everything about the other workers, and the events, stays.
Alone(j) ==
    /\ UNCHANGED <<line, cancelEvent, held, serving>>
    /\ \A k \in Jobs \ {j} : /\ pc'[k] = pc[k]
                             /\ status'[k] = status[k]
                             /\ summary'[k] = summary[k]

Keeps(j) ==      \* goes on with the slot
    /\ pc[j] \in BusyPcs /\ Occupies(j)
    /\ pc'[j] \in BusyPcs /\ Occupies(j)'
    /\ status'[j] = status[j] \/ status'[j] \in RunningStatuses

Releases(j) ==   \* gives the slot up under a status that does not run
    /\ pc[j] \in BusyPcs /\ Occupies(j)
    /\ pc'[j] \in {"returned", "finishing"} /\ ~Occupies(j)'
    /\ status'[j] \in TerminalStatuses \cup {"awaiting_approval"}

Waits(j) ==      \* on its way out of a stage that waits for a person
    /\ pc[j] \in {"returned", "settled"} /\ ~Occupies(j)
    /\ pc'[j] \in {"settled", "finishing"} /\ ~Occupies(j)'
    /\ status'[j] = status[j] \/ status'[j] = "awaiting_approval"

Begins(j) ==     \* before the first status
    \/ /\ pc[j] = "entered" /\ status'[j] = status[j]
       /\ \/ pc'[j] = "initialize"
          \/ pc'[j] = "cancelling" /\ Cancelled(j)
    \/ pc[j] = "initialize" /\ pc'[j] = "preflight" /\ status'[j] = "initializing"

SlotStep(j) == Alone(j) /\ (Keeps(j) \/ Releases(j) \/ Waits(j) \/ Begins(j))

LEMMA SlotShape ==
    ASSUME TypeOK, NEW j \in Jobs, Worker(j)
    PROVE  Enter(j) \/ Finish(j) \/ SlotStep(j)
<1> USE DEF SlotStep, Alone, Occupies, Has, Goto, Check, Publish, Private, Return, records, line, bounds,
            locals, BusyPcs, RunningStatuses, TerminalStatuses, TypeOK
<1>1. EntryCheck(j) \/ SetJobRunning(j) => SlotStep(j)
  BY DEF EntryCheck, SetJobRunning, Begins
<1>2. \/ Preflight(j) \/ Snapshot(j) \/ SetupProject(j) \/ StartRun(j) \/ RunCheck(j)
      => SlotStep(j)
  BY DEF Preflight, Snapshot, SetupProject, StartRun, RunCheck, Keeps
<1>3. \/ Prelude(j) \/ RunnerDone(j) \/ NextStage(j) \/ StageStarted(j) \/ Attempt(j)
      \/ RunStage(j)
      => SlotStep(j)
  BY DEF Prelude, RunnerDone, NextStage, StageStarted, Attempt, RunStage, Keeps
<1>4. AwaitingAnnounced(j) => SlotStep(j)
  BY DEF AwaitingAnnounced, Releases
<1>5. ClearApproval(j) => SlotStep(j)
  BY DEF ClearApproval, Keeps, Waits
<1>6. AwaitApproval(j) => SlotStep(j)
  BY DEF AwaitApproval, Waits
<1>7. \/ ContinuePipeline(j) \/ RunFailed(j) \/ PipelineOver(j) \/ PackagingCheck(j)
      \/ StartPackaging(j) \/ PackArchive(j) \/ Raise(j)
      => SlotStep(j)
  BY DEF ContinuePipeline, RunFailed, PipelineOver, PackagingCheck, StartPackaging, PackArchive,
         Raise, Keeps
<1>8. Complete(j) \/ FailJob(j) \/ CancelJobState(j) => SlotStep(j)
  BY DEF Complete, FailJob, CancelJobState, Releases
<1> HIDE DEF SlotStep
<1> QED
  BY <1>1, <1>2, <1>3, <1>4, <1>5, <1>6, <1>7, <1>8 DEF Worker

LEMMA SlotStepQInv ==
    ASSUME QInv, IInv', NEW j \in Jobs, SlotStep(j)
    PROVE  QInv'
<1> USE DEF SlotStep, Alone, QInv
<1>1. pc[j] \notin {"none", "spawned"} /\ held[j] = "shared" /\ status[j] # "absent"
  BY DEF Keeps, Releases, Waits, Begins, BusyPcs, IInv, EventsInv, CalmInv
<1>2. pc[j] = "entered" /\ Cancelled(j) => ~serving /\ Queued(status) = {}
  BY <1>1 DEF Cancelled, CalmInv
<1>3. status'[j] \notin {"absent", "queued"} \/ status'[j] = status[j]
  BY DEF Keeps, Releases, Waits, Begins, RunningStatuses, TerminalStatuses
<1>4. CalmInv'
  <2>1. pc'[j] \in BusyPcs \cup {"finishing"} => status'[j] \notin {"absent", "queued"}
    BY <1>1, <1>2 DEF Keeps, Releases, Waits, Begins, RunningStatuses, TerminalStatuses, CalmInv,
                      BusyPcs, Queued
  <2>2. Queued(status)' \subseteq Queued(status)  BY <1>3 DEF Queued
  <2> QED  BY <2>1, <2>2 DEF CalmInv
<1>5. OrderInv'
  BY <1>1, <1>3 DEF OrderInv, Present, line
<1>6. \A k \in Jobs \ {j} : Occupies(k)' <=> Occupies(k)
  BY DEF Occupies, Has
<1>7. SlotInv'
  <2>1. CASE Keeps(j)
    <3>1. \A k \in Jobs : Occupies(k)' <=> k = j
      BY <1>6, <2>1 DEF Keeps, SlotInv, Slot, Occupies
    <3>2. \A k \in Jobs : status'[k] \in RunningStatuses => k = j
      BY <2>1 DEF Keeps, SlotInv, Slot, Occupies
    <3>3. status'[j] \in RunningStatuses \/ (status'[j] = "cancelled" /\ ~serving')
      BY <2>1 DEF Keeps, SlotInv, Slot, Occupies, BusyPcs
    <3> QED  BY <3>1, <3>2, <3>3 DEF SlotInv, Slot, Occupies
  <2>2. CASE Releases(j)
    <3>1. \A k \in Jobs : ~Occupies(k)'
      BY <1>6, <2>2 DEF Releases, SlotInv, Slot, Occupies
    <3>2. \A k \in Jobs : status'[k] \notin RunningStatuses
      BY <2>2 DEF Releases, SlotInv, Slot, Occupies, RunningStatuses, TerminalStatuses
    <3> QED  BY <3>1, <3>2 DEF SlotInv, Slot, Occupies
  <2>3. CASE Waits(j)
    <3>1. \A k \in Jobs : Occupies(k)' <=> Occupies(k)
      BY <1>6, <2>3 DEF Waits
    <3>2. ~Occupies(j) /\ status[j] # "queued" /\ status'[j] # "queued"
      BY <2>3 DEF Waits, CalmInv, BusyPcs
    <3>3. Queued(status)' = Queued(status)  BY <3>2 DEF Queued
    <3>4. \A k \in Jobs : HeadNow(k)' <=> HeadNow(k)
      BY <3>3 DEF HeadNow, IsHead, line
    <3>5. \A k \in Jobs : status'[k] \in RunningStatuses => status[k] \in RunningStatuses
      BY <2>3 DEF Waits, RunningStatuses
    <3>6. \A k \in Jobs : Occupies(k)' => /\ k # j /\ status'[k] = status[k] /\ pc'[k] = pc[k]
                                          /\ Occupies(k)
      BY <3>1, <3>2
    <3>7. \A k \in Jobs : Occupies(k)' =>
             \/ status'[k] \in RunningStatuses
             \/ pc'[k] \in {"spawned", "entered", "initialize"} /\ HeadNow(k)'
             \/ status'[k] = "cancelled" /\ ~serving'
      BY <3>4, <3>6 DEF SlotInv, Slot, Occupies, HeadNow
    <3> QED  BY <3>1, <3>5, <3>7 DEF SlotInv, Slot, Occupies, HeadNow
  <2>4. CASE Begins(j)
    <3>1. Occupies(j) /\ Occupies(j)'
      BY <2>4 DEF Begins, Occupies, Has, BusyPcs
    <3>2. \A k \in Jobs : Occupies(k)' <=> k = j
      BY <1>6, <3>1 DEF SlotInv, Slot, Occupies
    <3>3. \A k \in Jobs : status'[k] \in RunningStatuses => k = j
      BY <3>1 DEF SlotInv, Slot, Occupies
    <3>4. CASE pc[j] = "initialize"
      <4>1. status'[j] \in RunningStatuses
        BY <2>4, <3>4 DEF Begins, RunningStatuses
      <4> QED  BY <3>2, <3>3, <4>1 DEF SlotInv, Slot, Occupies
    <3>5. CASE pc[j] = "entered" /\ pc'[j] = "initialize" /\ status'[j] = status[j]
      <4>1. Queued(status)' = Queued(status)  BY <3>5 DEF Queued
      <4>2. HeadNow(j)' <=> HeadNow(j)  BY <4>1 DEF HeadNow, IsHead, line
      <4> QED  BY <3>1, <3>2, <3>3, <3>5, <4>2 DEF SlotInv, Slot, Occupies, HeadNow
    <3>6. CASE pc[j] = "entered" /\ Cancelled(j) /\ status'[j] = status[j]
      <4>1. status[j] \in RunningStatuses \/ (status[j] = "cancelled" /\ ~serving)
        BY <1>2, <3>1, <3>6 DEF SlotInv, Slot, Occupies, IsHead
      <4> QED  BY <3>2, <3>3, <3>6, <4>1 DEF SlotInv, Slot, Occupies
    <3> QED  BY <2>4, <3>4, <3>5, <3>6 DEF Begins
  <2> QED  BY <2>1, <2>2, <2>3, <2>4
<1>8. NoOvertaking'
  <2> SUFFICES ASSUME NEW i \in Jobs, NEW k \in Jobs, createdAt[i] < createdAt[k],
                      status'[i] = "queued"
               PROVE  status'[k] \in {"absent", "queued"}
    BY DEF NoOvertaking, line
  <2>1. status[i] = "queued"  BY <1>3
  <2>2. status[k] \in {"absent", "queued"}  BY <2>1 DEF NoOvertaking
  <2>3. k = j => pc[j] \in {"entered", "initialize"}
    BY <2>2 DEF Keeps, Releases, Waits, Begins, CalmInv, BusyPcs
  <2>4. ~HeadNow(k)
    <3>1. createdAt[i] \in Nat /\ createdAt[k] \in Nat /\ i # k
      BY JobBoundsAssumption DEF IInv, TypeOK
    <3>2. <<k, i>> \notin Sorted(createdAt, dict)  BY <3>1 DEF Sorted
    <3> QED  BY <2>1, <3>1, <3>2 DEF HeadNow, IsHead, Queued
  <2>5. k # j
    <3> SUFFICES ASSUME k = j PROVE FALSE  OBVIOUS
    <3>1. Occupies(j)  BY <2>3 DEF Occupies, Has
    <3> QED  BY <2>2, <2>4, <3>1 DEF SlotInv, Slot, Occupies, RunningStatuses, HeadNow
  <2> QED  BY <2>2, <2>5
<1> QED  BY <1>4, <1>5, <1>7, <1>8

-----------------------------------------------------------------------------
(* The other steps *)

LEMMA EnterQInv ==
    ASSUME QInv, IInv', NEW j \in Jobs, Enter(j)
    PROVE  QInv'
<1> USE DEF Enter, Goto, QInv, records, locals
<1>1. \A k \in Jobs : pc'[k] = pc[k] \/ (k = j /\ pc[k] = "spawned" /\ pc'[k] = "entered")
  BY DEF IInv, TypeOK
<1>2. \A k \in Jobs : Occupies(k)' <=> Occupies(k)
  BY <1>1 DEF Occupies, Has
<1>3. SlotInv'
  <2>1. \A k \in Jobs : HeadNow(k)' <=> HeadNow(k)  BY DEF HeadNow, IsHead, Queued, line
  <2> QED  BY <1>1, <1>2, <2>1 DEF SlotInv, Slot, Occupies, HeadNow
<1>4. CalmInv'
  BY <1>1 DEF CalmInv, Queued, BusyPcs, IInv, TypeOK
<1>5. OrderInv' /\ NoOvertaking'
  BY DEF OrderInv, NoOvertaking, Present, line
<1> QED  BY <1>3, <1>4, <1>5

\* The worker that leaves has no slot to hand over.
LEMMA FinishQInv ==
    ASSUME QInv, IInv', NEW j \in Jobs, Finish(j)
    PROVE  QInv'
<1> DEFINE w == [pc EXCEPT ![j] = "none"]
           ev == [cancelEvent EXCEPT ![j] =
                     IF status[j] \in TerminalStatuses \cup {"awaiting_approval"}
                       THEN "none" ELSE @]
<1>1. /\ w \in [Jobs -> Pcs] /\ ev \in [Jobs -> {"none", "clear", "set"}]
      /\ status \in [Jobs -> Statuses] /\ serving \in BOOLEAN
      /\ MaybeStart(status, Sorted(createdAt, dict), w, ev)
  BY DEF Finish, QInv, IInv, TypeOK, Pcs
<1>2. /\ pc[j] = "finishing" /\ UNCHANGED <<status, line, serving>>
      /\ held' = [held EXCEPT ![j] = "none"] /\ summary' = [summary EXCEPT ![j] = "none"]
  BY DEF Finish, records
<1>3. \A k \in Jobs : Has(k, w, summary') <=> Has(k, pc, summary)
  BY <1>2 DEF Has, QInv, IInv, TypeOK, BusyPcs
<1>4. Slot(status, Sorted(createdAt, dict), w, summary', serving)
  BY <1>2, <1>3 DEF QInv, SlotInv, Slot, Has, IInv, TypeOK, BusyPcs
<1>5. serving \/ Queued(status) = {}
  BY DEF QInv, CalmInv
<1>6. SlotInv'
  <2>1. \A i, k \in Jobs : /\ IsHead(i, status, Sorted(createdAt, dict))
                            /\ IsHead(k, status, Sorted(createdAt, dict)) => i = k
    BY HeadIsOne DEF QInv, IInv
  <2>2. Slot(status, Sorted(createdAt, dict), pc', summary', serving)
    <3> HIDE DEF w, ev
    <3> QED  BY <1>1, <1>4, <1>5, <2>1, StartKeepsSlot
  <2> QED  BY <1>2, <2>2 DEF SlotInv, line
<1>7. \A k \in Jobs :
         \/ pc'[k] = w[k] /\ cancelEvent'[k] = ev[k]
         \/ /\ pc'[k] = "spawned"
            /\ cancelEvent'[k] = IF ev[k] = "none" THEN "clear" ELSE ev[k]
  <2> HIDE DEF w, ev
  <2> QED  BY <1>1, MaybeStartNeedsSlot
<1>8. CalmInv'
  BY <1>2, <1>7 DEF QInv, CalmInv, Queued, BusyPcs, IInv, TypeOK
<1>9. OrderInv' /\ NoOvertaking'
  BY <1>2 DEF QInv, OrderInv, NoOvertaking, Present, line
<1> QED  BY <1>6, <1>8, <1>9 DEF QInv

\* A record that is not older than the others goes behind all of them, and is
\* started if it is the head of the queue.
LEMMA AdmitQInv ==
    ASSUME QInv, IInv', NEW j \in Jobs, NEW at \in 1..Seconds, Admit(j, at),
           \A k \in Jobs : createdAt[k] <= at
    PROVE  QInv'
<1> DEFINE st == [status EXCEPT ![j] = "queued"]
           ev == [cancelEvent EXCEPT ![j] = "clear"]
           sorted == Sorted(createdAt', dict')
<1>1. /\ st \in [Jobs -> Statuses] /\ ev \in [Jobs -> {"none", "clear", "set"}]
      /\ pc \in [Jobs -> Pcs] /\ serving \in BOOLEAN
      /\ MaybeStart(st, sorted, pc, ev)
  BY DEF Admit, QInv, IInv, TypeOK, Statuses, ActiveStatuses
<1>2. serving /\ status[j] = "absent" /\ status' = st /\ UNCHANGED <<held, summary, serving>>
  BY DEF Admit, locals
<1>3. /\ createdAt' = [createdAt EXCEPT ![j] = at]
      /\ dict' = dict \cup Present(status) \X {j}
  BY DEF Admit
<1>4. OrderInv'
  <2>1. Present(status') = Present(status) \cup {j} /\ j \notin Present(status)
    BY <1>2 DEF Present, QInv, IInv, TypeOK
  <2> QED  BY <1>3, <2>1 DEF QInv, OrderInv
<1>5. \A k \in Jobs : HeadNow(k) => IsHead(k, st, sorted)
  <2> SUFFICES ASSUME NEW k \in Jobs, HeadNow(k),
                      NEW i \in Queued(st) \ {k}
               PROVE  <<k, i>> \in sorted /\ k \in Queued(st)
    BY <1>1, <1>2 DEF IsHead, HeadNow, Queued, QInv, IInv, TypeOK
  <2>1. status[k] = "queued" /\ k # j /\ k \in Queued(st)
    BY <1>2 DEF HeadNow, IsHead, Queued, QInv, IInv, TypeOK
  <2>2. CASE i = j
    <3>1. createdAt[k] <= at /\ createdAt[k] \in Nat /\ at \in Nat /\ <<k, i>> \in dict'
      BY <1>3, <2>1, <2>2, JobBoundsAssumption DEF Present, QInv, IInv, TypeOK
    <3>2. createdAt'[k] = createdAt[k] /\ createdAt'[i] = at
      BY <1>3, <2>1, <2>2 DEF QInv, IInv, TypeOK
    <3> QED  BY <2>1, <2>2, <3>1, <3>2 DEF Sorted
  <2>3. CASE i # j
    <3>1. i \in Queued(status) \ {k} /\ i \in Jobs
      BY <2>3 DEF Queued, QInv, IInv, TypeOK
    <3>2. <<k, i>> \in Sorted(createdAt, dict)
      BY <3>1 DEF HeadNow, IsHead
    <3>3. createdAt'[k] = createdAt[k] /\ createdAt'[i] = createdAt[i] /\ dict \subseteq dict'
      BY <1>3, <2>1, <2>3, <3>1 DEF QInv, IInv, TypeOK
    <3> QED  BY <2>1, <3>1, <3>2, <3>3 DEF Sorted
  <2> QED  BY <2>2, <2>3
<1>6. ~Has(j, pc, summary) /\ pc[j] = "none"
  BY <1>2 DEF QInv, IInv, EventsInv, Has, BusyPcs
<1>7. Slot(st, sorted, pc, summary, serving)
  <2>1. \A k \in Jobs \ {j} : st[k] = status[k]  BY DEF QInv, IInv, TypeOK
  <2>2. st[j] \notin RunningStatuses  BY DEF QInv, IInv, TypeOK, RunningStatuses
  <2> HIDE DEF st, sorted
  <2> QED  BY <1>5, <1>6, <2>1, <2>2 DEF QInv, SlotInv, Slot, HeadNow
<1>8. SlotInv'
  <2>1. \A i, k \in Jobs : IsHead(i, st, sorted) /\ IsHead(k, st, sorted) => i = k
    <3>1. \A i, k \in Jobs : <<i, k>> \in sorted /\ <<k, i>> \in sorted => FALSE
      <4>1. \A k \in Jobs : createdAt'[k] \in Nat
        BY JobBoundsAssumption DEF IInv, TypeOK
      <4> QED  BY <1>4, <4>1 DEF Sorted, OrderInv
    <3> QED  BY <3>1 DEF IsHead
  <2>2. Slot(st, sorted, pc', summary, serving)
    <3> HIDE DEF st, ev, sorted
    <3> QED  BY <1>1, <1>2, <1>7, <2>1, StartKeepsSlot
  <2> QED  BY <1>2, <2>2 DEF SlotInv
<1>9. \A k \in Jobs :
         \/ pc'[k] = pc[k] /\ cancelEvent'[k] = ev[k]
         \/ /\ pc'[k] = "spawned"
            /\ cancelEvent'[k] = IF ev[k] = "none" THEN "clear" ELSE ev[k]
  <2> HIDE DEF st, ev, sorted
  <2> QED  BY <1>1, MaybeStartNeedsSlot
<1>10. CalmInv'
  <2>1. \A k \in Jobs : pc'[k] \in BusyPcs \cup {"finishing"} => k # j /\ pc'[k] = pc[k]
    BY <1>6, <1>9 DEF BusyPcs
  <2>2. \A k \in Jobs \ {j} : status'[k] = status[k]  BY <1>2 DEF QInv, IInv, TypeOK
  <2>3. \A k \in Jobs : cancelEvent'[k] # "set"
    BY <1>2, <1>9 DEF QInv, CalmInv, IInv, TypeOK
  <2> QED  BY <1>2, <2>1, <2>2, <2>3 DEF QInv, CalmInv
<1>11. NoOvertaking'
  <2> SUFFICES ASSUME NEW i \in Jobs, NEW k \in Jobs, createdAt'[i] < createdAt'[k],
                      status'[i] = "queued"
               PROVE  status'[k] \in {"absent", "queued"}
    BY DEF NoOvertaking
  <2>1. CASE k = j  BY <1>2, <2>1 DEF QInv, IInv, TypeOK
  <2>2. CASE k # j
    <3>1. createdAt'[k] = createdAt[k] /\ createdAt[k] <= at /\ createdAt[k] \in Nat /\ at \in Nat
      BY <1>3, <2>2, JobBoundsAssumption DEF QInv, IInv, TypeOK
    <3>2. i # j
      BY <1>3, <3>1 DEF QInv, IInv, TypeOK
    <3>3. createdAt'[i] = createdAt[i] /\ status'[i] = status[i] /\ status'[k] = status[k]
      BY <1>2, <1>3, <2>2, <3>2 DEF QInv, IInv, TypeOK
    <3> QED  BY <3>1, <3>3 DEF QInv, NoOvertaking
  <2> QED  BY <2>1, <2>2
<1> QED  BY <1>4, <1>8, <1>10, <1>11 DEF QInv

\* After a shutdown the worker with the slot belongs to a cancelled record.
LEMMA ShutdownQInv ==
    ASSUME QInv, IInv', Shutdown
    PROVE  QInv'
<1> USE DEF Shutdown, QInv, locals
<1>1. \A k \in Jobs : /\ status'[k] \notin ActiveStatuses
                      /\ status[k] \in ActiveStatuses => status'[k] = "cancelled"
                      /\ status[k] \notin ActiveStatuses => status'[k] = status[k]
  BY DEF ActiveStatuses, RunningStatuses
<1>2. \A k \in Jobs : Occupies(k)' <=> Occupies(k)
  BY DEF Occupies, Has
<1>3. \A k \in Jobs : Occupies(k) => status'[k] = "cancelled"
  BY <1>1 DEF SlotInv, Slot, Occupies, IsHead, Queued, ActiveStatuses
<1>4. SlotInv'
  BY <1>1, <1>2, <1>3 DEF SlotInv, Slot, Occupies, ActiveStatuses
<1>5. CalmInv'
  BY <1>1 DEF CalmInv, Queued, ActiveStatuses
<1>6. OrderInv' /\ NoOvertaking'
  BY <1>1 DEF OrderInv, NoOvertaking, ActiveStatuses, Present, line
<1> QED  BY <1>4, <1>5, <1>6

\* A new process has no worker but the one it starts.
LEMMA RestartQInv ==
    ASSUME QInv, IInv', Restart
    PROVE  QInv'
<1> DEFINE nothing == [j \in Jobs |-> "none"]
           sorted == Sorted(createdAt', dict')
<1>1. PICK lost \in SUBSET {j \in Jobs : status[j] = "completed"} :
         LET st == [j \in Jobs |-> IF status[j] \in RunningStatuses \/ j \in lost
                                     THEN "failed" ELSE status[j]] IN
            /\ status' = st
            /\ MaybeStart(st, Sorted(createdAt, dict'), nothing, nothing)
  BY DEF Restart
<1> DEFINE st == [j \in Jobs |-> IF status[j] \in RunningStatuses \/ j \in lost
                                   THEN "failed" ELSE status[j]]
<1>2. /\ serving' /\ \A k \in Jobs : held'[k] = "none"
      /\ createdAt' = createdAt
      /\ dict' = {p \in Present(status) \X Present(status) : p[1] < p[2]}
  BY DEF Restart
<1>3. /\ st \in [Jobs -> Statuses] /\ nothing \in [Jobs -> Pcs]
      /\ nothing \in [Jobs -> {"none", "clear", "set"}]
      /\ MaybeStart(st, sorted, nothing, nothing) /\ status' = st
  BY <1>1, <1>2 DEF QInv, IInv, TypeOK, Statuses, TerminalStatuses, Pcs
<1>4. \A k \in Jobs : /\ status'[k] \notin RunningStatuses
                      /\ status'[k] = status[k] \/ (status'[k] = "failed" /\ status[k] # "queued")
                      /\ status'[k] = "absent" <=> status[k] = "absent"
  BY <1>1 DEF RunningStatuses
<1>5. OrderInv'
  <2>1. Present(status') = Present(status)  BY <1>4 DEF Present
  <2>2. Jobs \subseteq Nat  BY DEF Jobs
  <2> QED  BY <1>2, <2>1, <2>2 DEF OrderInv, Present
<1>6. Slot(st, sorted, nothing, summary', TRUE)
  BY <1>3, <1>4 DEF Slot, Has, BusyPcs
<1>7. SlotInv'
  <2>1. \A i, k \in Jobs : IsHead(i, st, sorted) /\ IsHead(k, st, sorted) => i = k
    <3>1. \A i, k \in Jobs : <<i, k>> \in sorted /\ <<k, i>> \in sorted => FALSE
      <4>1. \A k \in Jobs : createdAt'[k] \in Nat
        BY JobBoundsAssumption DEF IInv, TypeOK
      <4> QED  BY <1>5, <4>1 DEF Sorted, OrderInv
    <3> QED  BY <3>1 DEF IsHead
  <2>2. Slot(st, sorted, pc', summary', TRUE)
    <3> HIDE DEF st, nothing, sorted
    <3> QED  BY <1>3, <1>6, <2>1, StartKeepsSlot
  <2> QED  BY <1>2, <1>3, <2>2 DEF SlotInv
<1>8. \A k \in Jobs :
         \/ pc'[k] = nothing[k] /\ cancelEvent'[k] = nothing[k]
         \/ /\ pc'[k] = "spawned"
            /\ cancelEvent'[k] = IF nothing[k] = "none" THEN "clear" ELSE nothing[k]
  <2> HIDE DEF st, nothing, sorted
  <2> QED  BY <1>3, MaybeStartNeedsSlot
<1>9. CalmInv'
  BY <1>2, <1>8 DEF CalmInv, BusyPcs
<1>10. NoOvertaking'
  BY <1>2, <1>4 DEF QInv, NoOvertaking
<1> QED  BY <1>5, <1>7, <1>9, <1>10 DEF QInv

LEMMA StutterQInv == QInv /\ IInv' /\ UNCHANGED vars => QInv'
  BY DEF QInv, SlotInv, Slot, Has, CalmInv, OrderInv, NoOvertaking, IsHead, Queued, Present,
         vars, records, line, locals, bounds

LEMMA OneByOneQInv == QInv /\ [OneByOneNext]_vars => QInv'
<1> SUFFICES ASSUME QInv, [OneByOneNext]_vars PROVE QInv'  OBVIOUS
<1>1. IInv'  BY NextInv, SubmitOnlyIsNext, OneByOneIsSubmitOnly DEF QInv
<1>2. CASE UNCHANGED vars  BY <1>1, <1>2, StutterQInv
<1>3. ASSUME NEW j \in Jobs, NEW at \in 1..Seconds, SubmitNext(j, at) PROVE QInv'
  BY <1>1, <1>3, AdmitQInv DEF SubmitNext, Submit, CreateJob, ReviseJob, RerunJob
<1>4. ASSUME NEW j \in Jobs, Worker(j) PROVE QInv'
  <2>1. TypeOK  BY DEF QInv, IInv
  <2>2. Enter(j) \/ Finish(j) \/ SlotStep(j)  BY <1>4, <2>1, SlotShape
  <2> QED  BY <1>1, <2>2, EnterQInv, FinishQInv, SlotStepQInv
<1>5. CASE Shutdown  BY <1>1, <1>5, ShutdownQInv
<1>6. CASE Restart  BY <1>1, <1>6, RestartQInv
<1> QED  BY <1>2, <1>3, <1>4, <1>5, <1>6 DEF OneByOneNext

\* Under the hypothesis of OneByOneSpec (each submission is in the queue before
\* the next is made, the clock is not set back, and nobody approves, retries or
\* cancels), one worker has the slot and an unstarted one is the head's.
THEOREM SlotInvariance == OneByOneSpec => []QInv
  BY InitQInv, OneByOneQInv, PTL DEF OneByOneSpec

\* Under that hypothesis JobManager runs one job at a time.
THEOREM OneJobRuns == OneByOneSpec => []OneRunningJob
<1>1. QInv => OneRunningJob
  BY DEF QInv, SlotInv, Slot, OneRunningJob, Running
<1> QED  BY <1>1, SlotInvariance, PTL

\* Under that hypothesis no job leaves the queue before one of an earlier
\* second; of the order within a second nothing is said.
THEOREM QueueIsFifo == OneByOneSpec => []NoOvertaking
<1>1. QInv => NoOvertaking  BY DEF QInv
<1> QED  BY <1>1, SlotInvariance, PTL

-----------------------------------------------------------------------------
(* The length of the queue *)

Live(st) == Queued(st) \cup Running(st)

LEMMA LiveIsFinite == ASSUME NEW st PROVE IsFiniteSet(Live(st)) /\ Live(st) \subseteq Jobs
<1>1. IsFiniteSet(Jobs)
  BY FS_Interval, JobBoundsAssumption DEF Jobs
<1>2. Live(st) \subseteq Jobs
  BY DEF Live, Queued, Running
<1> QED  BY <1>1, <1>2, FS_Subset

\* The jobs with a slot, and those that are queued or running.
Slots == {j \in Jobs : Occupies(j)}

Load == Slots \cup Live(status)

\* Unless the server stopped, a worker with a slot has a queued or running
\* record.  A worker that outlives a shutdown (web_jobs.py:2259-2271) may bring
\* its cancelled record back, so its slot is counted too.
LimitInv ==
    /\ Cardinality(Load) <= QueueLimit
    /\ serving => Slots \subseteq Live(status)

LEMMA LoadIsFinite == IsFiniteSet(Load) /\ Load \subseteq Jobs
<1>1. IsFiniteSet(Jobs)
  BY FS_Interval, JobBoundsAssumption DEF Jobs
<1>2. Load \subseteq Jobs
  BY LiveIsFinite DEF Load, Slots
<1> QED  BY <1>1, <1>2, FS_Subset

LEMMA FewerAreWithin ==
    ASSUME NEW new, new \subseteq Load, Cardinality(Load) <= QueueLimit
    PROVE  Cardinality(new) <= QueueLimit
<1>1. /\ Cardinality(new) <= Cardinality(Load)
      /\ Cardinality(new) \in Nat /\ Cardinality(Load) \in Nat
  BY LoadIsFinite, FS_Subset, FS_CardinalityType
<1> QED  BY <1>1, JobBoundsAssumption

LEMMA OneMoreIsWithin ==
    ASSUME NEW new, NEW j, new \subseteq Live(status) \cup {j},
           Cardinality(Live(status)) < QueueLimit
    PROVE  Cardinality(new) <= QueueLimit
<1> DEFINE live == Live(status)
<1>0. IsFiniteSet(live)  BY LiveIsFinite
<1>1. IsFiniteSet(live \cup {j}) /\ Cardinality(live \cup {j}) <= Cardinality(live) + 1
  <2> HIDE DEF live
  <2>1. Cardinality(live) \in Nat  BY <1>0, FS_CardinalityType
  <2> QED  BY <1>0, <2>1, FS_AddElement
<1>2. /\ Cardinality(new) <= Cardinality(Live(status) \cup {j})
      /\ Cardinality(new) \in Nat /\ Cardinality(Live(status)) \in Nat
      /\ Cardinality(Live(status) \cup {j}) \in Nat
  BY <1>1, LiveIsFinite, FS_Subset, FS_CardinalityType
<1> QED  BY <1>1, <1>2, JobBoundsAssumption

\* No worker step adds to them, and none takes a record from under a slot.
LEMMA WorkerAddsNone ==
    ASSUME IInv, NEW j \in Jobs, Worker(j), serving => Slots \subseteq Live(status)
    PROVE  /\ Load' \subseteq Load
           /\ serving' => Slots' \subseteq Live(status)'
<1>1. TypeOK  BY DEF IInv
<1>2. CASE Enter(j)
  <2>1. Slots' = Slots
    BY <1>1, <1>2 DEF Enter, Goto, Slots, Occupies, Has, locals, BusyPcs, TypeOK
  <2> QED  BY <1>2, <2>1 DEF Enter, records, Load, Live, Queued, Running
<1>3. CASE Finish(j)
  <2> DEFINE w == [pc EXCEPT ![j] = "none"]
             ev == [cancelEvent EXCEPT ![j] =
                       IF status[j] \in TerminalStatuses \cup {"awaiting_approval"}
                         THEN "none" ELSE @]
  <2>1. /\ w \in [Jobs -> Pcs] /\ ev \in [Jobs -> {"none", "clear", "set"}]
        /\ status \in [Jobs -> Statuses] /\ UNCHANGED <<status, serving>>
        /\ MaybeStart(status, Sorted(createdAt, dict), w, ev)
        /\ summary' = [summary EXCEPT ![j] = "none"]
    BY <1>1, <1>3 DEF Finish, TypeOK, Pcs, records
  <2>2. \A k \in Jobs : pc'[k] = w[k] \/ (pc'[k] = "spawned" /\ k \in Queued(status))
    <3> HIDE DEF w, ev
    <3> QED  BY <2>1, MaybeStartNeedsSlot DEF IsHead
  <2>3. Slots' \subseteq Slots \cup Queued(status)
    BY <1>1, <2>1, <2>2 DEF Slots, Occupies, Has, BusyPcs, TypeOK
  <2> QED  BY <2>1, <2>3 DEF Load, Live, Queued, Running
<1>4. CASE SlotStep(j)
  <2>1. \A k \in Jobs \ {j} : /\ k \in Slots' <=> k \in Slots
                              /\ k \in Live(status)' <=> k \in Live(status)
    BY <1>4 DEF SlotStep, Alone, Slots, Occupies, Has, Live, Queued, Running
  <2>2. j \in Slots' => j \in Slots /\ (j \in Live(status) => j \in Live(status)')
    <3>1. CASE Keeps(j)
      BY <3>1 DEF Keeps, Slots, Live, Queued, Running
    <3>2. CASE Releases(j) \/ Waits(j)
      BY <3>2 DEF Releases, Waits, Slots
    <3>3. CASE Begins(j)
      BY <3>3 DEF Begins, Slots, Occupies, Has, Live, Queued, Running, RunningStatuses
    <3> QED  BY <1>4, <3>1, <3>2, <3>3 DEF SlotStep
  <2>3. j \in Live(status)' => j \in Load
    <3>1. CASE Keeps(j)
      BY <3>1 DEF Keeps, Slots, Load
    <3>2. CASE Releases(j) \/ Waits(j)
      BY <3>2 DEF Releases, Waits, Load, Live, Queued, Running, RunningStatuses, TerminalStatuses
    <3>3. CASE Begins(j)
      BY <3>3 DEF Begins, Slots, Occupies, Has, Load
    <3> QED  BY <1>4, <3>1, <3>2, <3>3 DEF SlotStep
  <2>4. serving' = serving  BY <1>4 DEF SlotStep, Alone
  <2>5. Slots' \subseteq Jobs /\ Live(status)' \subseteq Jobs
    BY DEF Slots, Live, Queued, Running
  <2> QED  BY <2>1, <2>2, <2>3, <2>4, <2>5 DEF Load
<1> QED  BY <1>1, <1>2, <1>3, <1>4, SlotShape

LEMMA AdmitStaysWithin ==
    ASSUME IInv, LimitInv, NEW j \in Jobs, NEW at \in 1..Seconds, Admit(j, at)
    PROVE  LimitInv'
<1> DEFINE st == [status EXCEPT ![j] = "queued"]
           ev == [cancelEvent EXCEPT ![j] = "clear"]
<1>1. /\ st \in [Jobs -> Statuses] /\ ev \in [Jobs -> {"none", "clear", "set"}]
      /\ pc \in [Jobs -> Pcs] /\ status' = st /\ serving /\ UNCHANGED <<serving, summary>>
      /\ MaybeStart(st, Sorted(createdAt', dict'), pc, ev)
      /\ Cardinality(Live(status)) < QueueLimit
  BY DEF Admit, IInv, TypeOK, Statuses, ActiveStatuses, locals, Live
<1>2. \A k \in Jobs : pc'[k] = pc[k] \/ (pc'[k] = "spawned" /\ k \in Queued(st))
  <2> HIDE DEF st, ev
  <2> QED  BY <1>1, MaybeStartNeedsSlot DEF IsHead
<1>3. Slots' \subseteq Slots \cup Queued(st)
  BY <1>1, <1>2 DEF Slots, Occupies, Has
<1>4. status[j] = "absent"  BY DEF Admit
<1>5. /\ Live(status)' = Live(status) \cup {j}
      /\ Queued(st) \subseteq Live(status)'
  BY <1>1, <1>4 DEF Live, Queued, Running, RunningStatuses, IInv, TypeOK
<1>6. Slots' \subseteq Live(status)' /\ Load' \subseteq Live(status) \cup {j}
  BY <1>1, <1>3, <1>5 DEF LimitInv, Load
<1>7. Cardinality(Load') <= QueueLimit
  BY <1>1, <1>6, OneMoreIsWithin
<1> QED  BY <1>6, <1>7 DEF LimitInv

LEMMA ShutdownStaysWithin ==
    ASSUME IInv, LimitInv, Shutdown
    PROVE  LimitInv'
<1>1. Slots' = Slots
  BY DEF Shutdown, Slots, Occupies, Has, locals
<1>2. Live(status)' = {}
  BY DEF Shutdown, Live, Queued, Running, ActiveStatuses, RunningStatuses
<1>3. Cardinality(Load') <= QueueLimit
  BY <1>1, <1>2, FewerAreWithin DEF LimitInv, Load
<1> QED  BY <1>3 DEF LimitInv, Shutdown

LEMMA RestartStaysWithin ==
    ASSUME IInv, LimitInv, Restart
    PROVE  LimitInv'
<1> DEFINE nothing == [j \in Jobs |-> "none"]
<1>1. PICK lost \in SUBSET {j \in Jobs : status[j] = "completed"} :
         LET st == [j \in Jobs |-> IF status[j] \in RunningStatuses \/ j \in lost
                                     THEN "failed" ELSE status[j]] IN
            /\ status' = st
            /\ MaybeStart(st, Sorted(createdAt, dict'), nothing, nothing)
  BY DEF Restart
<1> DEFINE st == [j \in Jobs |-> IF status[j] \in RunningStatuses \/ j \in lost
                                   THEN "failed" ELSE status[j]]
<1>2. /\ st \in [Jobs -> Statuses] /\ nothing \in [Jobs -> Pcs]
      /\ nothing \in [Jobs -> {"none", "clear", "set"}] /\ status' = st
      /\ MaybeStart(st, Sorted(createdAt, dict'), nothing, nothing)
  BY <1>1 DEF IInv, TypeOK, Statuses, TerminalStatuses, Pcs
<1>3. \A k \in Jobs : pc'[k] = "none" \/ k \in Queued(st)
  <2>1. \A k \in Jobs : pc'[k] = nothing[k] \/ k \in Queued(st)
    <3> HIDE DEF st, nothing
    <3> QED  BY <1>2, MaybeStartNeedsSlot DEF IsHead
  <2> QED  BY <2>1
<1>4. Slots' \subseteq Live(status)'
  BY <1>2, <1>3 DEF Slots, Occupies, Has, BusyPcs, Live
<1>5. Live(status)' \subseteq Live(status)
  BY <1>1 DEF Live, Queued, Running, RunningStatuses
<1>6. Cardinality(Load') <= QueueLimit
  BY <1>4, <1>5, FewerAreWithin DEF LimitInv, Load
<1> QED  BY <1>4, <1>6 DEF LimitInv

LEMMA QueueStaysWithin == IInv /\ LimitInv /\ [SubmitOnlyNext]_vars => LimitInv'
<1> SUFFICES ASSUME IInv, LimitInv, [SubmitOnlyNext]_vars PROVE LimitInv'  OBVIOUS
<1>1. CASE UNCHANGED vars
  BY <1>1 DEF LimitInv, Load, Slots, Occupies, Has, Live, Queued, Running, vars, records, locals
<1>2. ASSUME NEW j \in Jobs, NEW at \in 1..Seconds, Submit(j, at) PROVE LimitInv'
  BY <1>2, AdmitStaysWithin DEF Submit, CreateJob, ReviseJob, RerunJob
<1>3. ASSUME NEW j \in Jobs, Worker(j) PROVE LimitInv'
  <2>1. Load' \subseteq Load /\ (serving' => Slots' \subseteq Live(status)')
    BY <1>3, WorkerAddsNone DEF LimitInv
  <2>2. Cardinality(Load') <= QueueLimit
    BY <2>1, FewerAreWithin DEF LimitInv
  <2> QED  BY <2>1, <2>2 DEF LimitInv
<1> QED  BY <1>1, <1>2, <1>3, ShutdownStaysWithin, RestartStaysWithin DEF SubmitOnlyNext

\* While nobody approves, retries or cancels, the queued and running jobs stay
\* within the limit, whatever the order in which overlapping submissions enter,
\* and also when a worker that outlives a shutdown writes its status.
THEOREM QueueKeepsLimit == SubmitOnlySpec => []QueueWithinLimit
<1>1. Init => IInv /\ LimitInv
  <2> SUFFICES ASSUME Init PROVE LimitInv  BY InitInv
  <2>1. Load = {}
    BY DEF Init, Load, Slots, Occupies, Has, Live, Queued, Running, RunningStatuses, BusyPcs
  <2> QED  BY <2>1, FS_EmptySet, JobBoundsAssumption DEF LimitInv, Load
<1>2. IInv /\ LimitInv /\ [SubmitOnlyNext]_vars => (IInv /\ LimitInv)'
  BY NextInv, SubmitOnlyIsNext, QueueStaysWithin
<1>3. LimitInv => QueueWithinLimit
  <2> SUFFICES ASSUME LimitInv PROVE Cardinality(Live(status)) <= QueueLimit
    BY DEF Live, QueueWithinLimit
  <2> QED  BY FewerAreWithin DEF LimitInv, Load
<1> QED  BY <1>1, <1>2, <1>3, PTL DEF SubmitOnlySpec
=============================================================================
