---------------------------- MODULE PipelineRunner ----------------------------
(***************************************************************************)
(* appforge/runner.py, PipelineRunner, with the durable checkpoints of     *)
(* appforge/checkpoints.py: one stage after the other, each in bounded     *)
(* attempts by an agent that edits the workspace, checked by gates, and    *)
(* resumed from whatever the last process left on disk.                    *)
(*                                                                         *)
(* A checkpoint is two files, the workspace's and the host's mirror of it, *)
(* written one after the other; a crash falls between any two writes.      *)
(* Stages are named by their place in the pipeline.                        *)
(***************************************************************************)
EXTENDS Naturals, FiniteSets

CONSTANTS
    NumStages,       \* the length of the pipeline
    Verification,    \* the stage called verification or regression
    ApprovalStages,  \* the stages a person approves in guided mode
    BuildStages,     \* the stages whose gates run project commands in place,
                     \* which may change the source
    Contents,        \* what the source, or a stage's artifacts, can be
    NoContent,
    MaxAttempts      \* max_stage_attempts

ASSUME PipelineAssumption ==
    /\ NumStages \in Nat \ {0}
    /\ Verification \in 1..NumStages
    /\ ApprovalStages \subseteq 1..NumStages
    /\ BuildStages \subseteq 1..(NumStages - 1)
    /\ NoContent \notin Contents
    /\ MaxAttempts \in Nat \ {0}

Stages  == 1..NumStages
NoStage == 0

\* The gates of the last stage (release_readiness, archive_workspace,
\* artifact_inventory) only read the source.
ArchiveStage == NumStages

VARIABLES
    web,        \* the pipeline is web-app or web-app-lite
    cp,         \* checkpoint_<stage>.json in the workspace
    torn,       \* stages whose checkpoint's mirror is another one
    touched,    \* stages whose artifacts, or the pipeline's version or policy,
                \* are not what the digests in their checkpoint say
    source,     \* the source of the project
    record,     \* the stage named by stage-result.json
    receipt,    \* the source that candidate.json verifies
    archive,    \* the source in the verified archive
    jobOnly,    \* only_stage of the job
    approvedStage, \* approved_stage of the job, then of the runner
    pc,
    stage,      \* stage_name; between runs, the stage a waiting job waits for
    only, auto, attempt, rewinds, summary,
    outdated,   \* ghost: stages an agent worked on, or on an earlier one, since
                \* they were last accepted
    submitted,  \* ghost: this attempt's agent submitted a stage result
    shown       \* ghost: the source of the checkpoint that was approved

disk   == <<cp, torn, touched>>
work   == <<source, record, receipt, archive>>
job    == <<jobOnly, approvedStage, shown>>
call   == <<only, auto>>
tries  == <<attempt, rewinds>>
ghosts == <<outdated, submitted>>
vars   == <<web, disk, work, job, pc, stage, call, tries, summary, ghosts>>

-----------------------------------------------------------------------------
(* Checkpoints *)

\* Only completed and awaiting checkpoints are trusted in any way: those in
\* progress, failed, blocked or stale are all "open".  Of the open ones only
\* verification's is asked for its source.
NoCheckpoint == [status |-> "none", src |-> NoContent]

\* checkpoint_is_current
Current(s) == cp[s].status # "none" /\ s \notin torn /\ s \notin touched

\* Mutant: an approval is applied whatever became of the source.
CurrentForAnySource(s) == Current(s)

CurrentWithSource(s) == Current(s) /\ cp[s].src = source

\* completed_stages: the longest prefix of completed and current stages
Trusted == {s \in Stages : \A t \in 1..s : cp[t].status = "completed" /\ Current(t)}

\* The source is not the one the last completed stage left.
SourceMoved == \E s \in Trusted : s + 1 \notin Trusted /\ cp[s].src # source

\* next_stage
NextStage ==
    IF Verification \in Trusted /\ SourceMoved THEN Verification
    ELSE IF Trusted # Stages THEN CHOOSE s \in Stages \ Trusted : \A t \in Stages \ Trusted : s <= t
    ELSE IF web /\ receipt # source THEN Verification
    ELSE IF web /\ archive # source THEN ArchiveStage
    ELSE NoStage

\* The stages whose files write_checkpoint writes, and what it writes.
Targets(s, st) ==
    {s} \cup {t \in Stages : st = "in_progress" /\ t > s /\ cp[t].status # "none"}

Snapshot(t, status, src) ==
    [status |-> status,
     src |-> IF status # "open" \/ t = Verification THEN src ELSE NoContent]

Written(s, st, t) ==
    IF t # s THEN Snapshot(t, "open", cp[t].src)
    ELSE Snapshot(s, IF st \in {"completed", "awaiting_human"} THEN st ELSE "open", source)

\* Mutant: a new attempt leaves the later checkpoints as they are.
WriteOwnCheckpoint(s, st) ==
    /\ cp' = [cp EXCEPT ![s] = Written(s, st, s)]
    /\ torn' = torn \ {s}
    /\ touched' = touched \ {s}

WriteCheckpoint(s, st) ==
    /\ cp' = [t \in Stages |-> IF t \in Targets(s, st) THEN Written(s, st, t) ELSE cp[t]]
    /\ torn' = torn \ Targets(s, st)
    /\ touched' = touched \ {s}

\* Later stages are marked first, in order; each file before its mirror.  The
\* process dies with everything before u written, and perhaps the file of u.
TornCheckpoint(s, st) ==
    \E u \in Targets(s, st), half \in BOOLEAN :
       LET done == {t \in Targets(s, st) : t # u /\ t # s /\ (u = s \/ t < u)}
           file == IF half THEN {u} ELSE {} IN
          /\ cp' = [t \in Stages |-> IF t \in done \cup file THEN Written(s, st, t) ELSE cp[t]]
          /\ torn' = (torn \ done) \cup file
          /\ touched' = touched \ (file \cap {s})

-----------------------------------------------------------------------------
(* PipelineRunner.run *)

Goto(from, to) == pc = from /\ pc' = to

Return(from, result) == Goto(from, "returned") /\ summary' = result

\* The call of run: a job's worker, or the command line.
StartRun ==
    /\ Goto("queued", "prelude")
    /\ only' = jobOnly
    /\ stage' = IF jobOnly # NoStage THEN jobOnly ELSE NextStage
    /\ auto' \in BOOLEAN
    /\ UNCHANGED <<web, disk, work, job, tries, summary, ghosts>>

\* Mutant: only the stage just before is looked at.
RefusedByPredecessor == only > 1 /\ cp[only - 1].status # "completed"

\* PREREQUISITE_STAGE_INCOMPLETE
Refused == only # NoStage /\ \E t \in 1..(only - 1) : t \notin Trusted

Awaiting == stage # NoStage /\ cp[stage].status = "awaiting_human" /\ CurrentWithSource(stage)

Approves == ~Refused /\ Awaiting /\ (auto \/ approvedStage = stage)

AlreadyComplete ==
    /\ stage = NoStage
    /\ Return("prelude", "success")
    /\ UNCHANGED <<web, disk, work, job, stage, call, tries, ghosts>>

RefuseStage ==
    /\ Refused
    /\ Return("prelude", "failure")
    /\ UNCHANGED <<web, disk, work, job, stage, call, tries, ghosts>>

StillAwaits ==
    /\ ~Refused /\ Awaiting /\ ~Approves
    /\ Goto("prelude", "announce")
    /\ UNCHANGED <<web, disk, work, job, stage, call, tries, summary, ghosts>>

ApproveStage ==
    /\ Approves
    /\ WriteCheckpoint(stage, "completed")
    /\ approvedStage' = IF approvedStage = stage THEN NoStage ELSE approvedStage
    /\ \/ only = NoStage /\ Goto("prelude", "select") /\ UNCHANGED summary
       \/ only # NoStage /\ Return("prelude", "success")
    /\ UNCHANGED <<web, work, jobOnly, shown, stage, call, tries, ghosts>>

EnterLoop ==
    /\ stage # NoStage /\ ~Refused /\ ~Awaiting
    /\ Goto("prelude", "loop")
    /\ UNCHANGED <<web, disk, work, job, stage, call, tries, summary, ghosts>>

Select ==
    /\ Goto("select", "loop")
    /\ stage' = NextStage
    /\ UNCHANGED <<web, disk, work, job, call, tries, summary, ghosts>>

PipelineDone ==
    /\ stage = NoStage
    /\ Return("loop", "success")
    /\ UNCHANGED <<web, disk, work, job, stage, call, tries, ghosts>>

LoopCancelled ==
    /\ stage # NoStage
    /\ Return("loop", "failure")
    /\ UNCHANGED <<web, disk, work, job, stage, call, tries, ghosts>>

-----------------------------------------------------------------------------
(* One stage, _run_stage_attempts *)

\* The stage_started event, before the first attempt
StartStage ==
    /\ stage # NoStage
    /\ Goto("loop", "attempt")
    /\ attempt' = 1
    /\ UNCHANGED <<web, disk, work, job, stage, call, rewinds, summary, ghosts>>

\* STAGE_BUDGET_EXHAUSTED, or cancelled: nothing is written
AttemptGivenUp ==
    /\ Return("attempt", "failure")
    /\ UNCHANGED <<web, disk, work, job, stage, call, tries, ghosts>>

\* Mutant: the last attempt's stage-result.json is left where it is.
BeginAttemptKeepingRecord ==
    /\ Goto("attempt", "driving")
    /\ WriteCheckpoint(stage, "in_progress")
    /\ submitted' = FALSE
    /\ UNCHANGED <<web, work, job, stage, call, tries, summary, outdated>>

BeginAttempt ==
    /\ Goto("attempt", "driving")
    /\ record' = NoStage
    /\ WriteCheckpoint(stage, "in_progress")
    /\ submitted' = FALSE
    /\ UNCHANGED <<web, source, receipt, archive, job, stage, call, tries, summary, outdated>>

\* The agent edits the source, submits artifacts of its stage (it writes nothing
\* else under .appforge) and perhaps a stage result, and may have the candidate
\* of a web project validated; or the driver fails.
DriveAgent ==
    /\ pc = "driving"
    /\ pc' \in {"judge", "driver_failed"}
    /\ source' \in Contents
    /\ touched' \in {touched, touched \cup {stage}}
    /\ \/ record' = stage /\ submitted' = TRUE
       \/ UNCHANGED <<record, submitted>>
    /\ receipt' \in {receipt} \cup (IF web THEN {source', NoContent} ELSE {})
    /\ outdated' = outdated \cup stage..NumStages
    /\ UNCHANGED <<web, cp, torn, archive, job, stage, call, tries, summary>>

JudgeCancelled ==
    /\ Return("judge", "failure")
    /\ UNCHANGED <<web, disk, work, job, stage, call, tries, ghosts>>

\* A stage behind verification left a source that was not verified.
Unverified == stage > Verification /\ cp[Verification].src # source

\* Mutant: rewinds are not counted.
ReverifyForEver ==
    /\ Unverified
    /\ WriteCheckpoint(Verification, "in_progress")
    /\ stage' = Verification /\ only' = NoStage
    /\ Goto("judge", "loop")
    /\ UNCHANGED <<web, work, job, auto, tries, summary, ghosts>>

Reverify ==
    /\ Unverified
    /\ rewinds < 2
    /\ rewinds' = rewinds + 1
    /\ WriteCheckpoint(Verification, "in_progress")
    /\ stage' = Verification /\ only' = NoStage
    /\ Goto("judge", "loop")
    /\ UNCHANGED <<web, work, job, auto, attempt, summary, ghosts>>

\* "Post-verification source keeps changing"
KeepsChanging ==
    /\ Unverified
    /\ rewinds >= 2
    /\ Return("judge", "failure")
    /\ rewinds' = 3
    /\ UNCHANGED <<web, disk, work, job, stage, call, attempt, ghosts>>

\* Mutant: the source is not compared with the verified one.
ToGatesUnchecked ==
    /\ Goto("judge", "gates")
    /\ UNCHANGED <<web, disk, work, job, stage, call, tries, summary, ghosts>>

ToGates ==
    /\ ~Unverified
    /\ Goto("judge", "gates")
    /\ UNCHANGED <<web, disk, work, job, stage, call, tries, summary, ghosts>>

\* run_declared_gates and the reviews.  Verification of a web project works on a
\* copy and passes with a receipt for the source; the last stage with an archive
\* of it, for which it validates the source once more.  A failed validation may
\* leave candidate.json without a verified source.
RunGates ==
    /\ pc = "gates"
    /\ source' \in (IF stage \in BuildStages /\ ~(web /\ stage = Verification)
                     THEN Contents ELSE {source})
    /\ \E passed \in BOOLEAN :
          /\ pc' \in {"reject"} \cup (IF passed /\ record = stage THEN {"accept"} ELSE {})
          /\ IF ~web \/ stage \notin {Verification, ArchiveStage}
               THEN UNCHANGED <<receipt, archive>>
               ELSE /\ receipt' \in (IF passed THEN {source} ELSE {receipt, source, NoContent})
                    /\ archive' \in (IF stage # ArchiveStage THEN {archive}
                                     ELSE IF passed THEN {source} ELSE {archive, source})
    /\ UNCHANGED <<web, disk, record, job, stage, call, tries, summary, ghosts>>

NeedsApproval == stage \in ApprovalStages /\ ~auto

AcceptStage ==
    /\ pc = "accept"
    /\ WriteCheckpoint(stage, IF NeedsApproval THEN "awaiting_human" ELSE "completed")
    /\ outdated' = outdated \ {stage}
    /\ \/ NeedsApproval /\ Goto("accept", "announce") /\ UNCHANGED summary
       \/ ~NeedsApproval /\ only # NoStage /\ Return("accept", "success")
       \/ ~NeedsApproval /\ only = NoStage /\ Goto("accept", "select") /\ UNCHANGED summary
    /\ UNCHANGED <<web, work, job, stage, call, tries, submitted>>

\* Mutant: the run ends without the event, as if the stage had failed.
AnnounceNothing ==
    /\ Return("announce", "failure")
    /\ UNCHANGED <<web, disk, work, job, stage, call, tries, ghosts>>

\* The stage_awaiting_approval event, and the return behind it
Announce ==
    /\ Return("announce", "awaiting")
    /\ UNCHANGED <<web, disk, work, job, stage, call, tries, ghosts>>

\* _register_failure_signature: a failure seen before asks for another strategy,
\* and the next repetition of any failure stops the stage, not before the third
\* attempt.  A failure that is not retryable (the environment blocks it) stops
\* the stage at once.
MayStop  == pc = "reject" \/ attempt >= 3 \/ attempt = MaxAttempts
MustStop == attempt = MaxAttempts

RejectAttempt ==
    /\ pc \in {"reject", "driver_failed"}
    /\ WriteCheckpoint(stage, "failed")
    /\ \/ MayStop /\ Return(pc, "failure") /\ UNCHANGED attempt
       \/ ~MustStop /\ Goto(pc, "attempt") /\ attempt' = attempt + 1 /\ UNCHANGED summary
    /\ UNCHANGED <<web, work, job, stage, call, rewinds, ghosts>>

-----------------------------------------------------------------------------
(* The caller, the process and the person *)

\* The runner is gone, and with it all it kept in memory.
Forget ==
    /\ pc' = "idle"
    /\ only' = NoStage /\ auto' = FALSE /\ attempt' = 0 /\ rewinds' = 0
    /\ summary' = "none"
    /\ approvedStage' = NoStage /\ shown' = NoContent
    /\ submitted' = FALSE

\* _run_job: a single-stage run that passed goes on with the rest, in the same
\* runner, which keeps its rewinds and its approved stage.
ContinuePipeline ==
    /\ pc = "returned" /\ summary = "success" /\ jobOnly # NoStage
    /\ pc' = "prelude"
    /\ jobOnly' = NoStage /\ only' = NoStage
    /\ stage' = NextStage
    /\ summary' = "none"
    /\ UNCHANGED <<web, disk, work, approvedStage, shown, auto, tries, ghosts>>

EndRun ==
    /\ pc = "returned" /\ ~(summary = "success" /\ jobOnly # NoStage)
    /\ Forget
    /\ stage' = IF summary = "awaiting" THEN stage ELSE NoStage
    /\ UNCHANGED <<web, disk, work, jobOnly, outdated>>

\* The process dies, or an exception leaves the runner, perhaps in the middle
\* of a checkpoint; the job fails, and only a retry takes it up again.
Crash ==
    /\ pc \notin {"idle", "queued"}
    /\ Forget
    /\ stage' = NoStage
    /\ \/ UNCHANGED disk
       \/ pc = "prelude" /\ Approves /\ TornCheckpoint(stage, "completed")
       \/ pc = "attempt" /\ TornCheckpoint(stage, "in_progress")
       \/ pc = "judge" /\ Unverified /\ TornCheckpoint(Verification, "in_progress")
       \/ pc = "accept" /\ TornCheckpoint(stage, IF NeedsApproval THEN "awaiting_human"
                                                                  ELSE "completed")
       \/ pc \in {"reject", "driver_failed"} /\ TornCheckpoint(stage, "failed")
    /\ UNCHANGED <<web, work, jobOnly, outdated>>

\* Between runs a person edits the source or artifacts (or upgrades AppForge),
\* takes that back, or deletes the archive.  It makes no difference to Approve
\* and Request whether that is before or after them.
Edit ==
    /\ pc = "queued"
    /\ \/ source' \in Contents /\ UNCHANGED <<touched, archive>>
       \/ \E s \in Stages : touched' \in {touched \cup {s}, touched \ {s}}
          /\ UNCHANGED <<source, archive>>
       \/ archive' = NoContent /\ UNCHANGED <<source, touched>>
    /\ UNCHANGED <<web, cp, torn, record, receipt, job, pc, stage, call, tries, summary, ghosts>>

\* approve_job keeps only_stage
Approve ==
    /\ stage # NoStage
    /\ Goto("idle", "queued")
    /\ approvedStage' = stage /\ shown' = cp[stage].src
    /\ stage' = NoStage
    /\ UNCHANGED <<web, disk, work, jobOnly, call, tries, summary, ghosts>>

\* retry_stage, or (NoStage) a new job or a run from the command line
Request(s) ==
    /\ Goto("idle", "queued")
    /\ jobOnly' = s /\ stage' = NoStage
    /\ UNCHANGED <<web, disk, work, approvedStage, shown, call, tries, summary, ghosts>>

-----------------------------------------------------------------------------
(* The specification *)

Init ==
    /\ web \in BOOLEAN
    /\ cp = [s \in Stages |-> NoCheckpoint]
    /\ torn = {} /\ touched = {}
    /\ source \in Contents
    /\ record = NoStage
    /\ receipt = NoContent /\ archive = NoContent
    /\ jobOnly = NoStage /\ approvedStage = NoStage /\ shown = NoContent
    /\ pc = "idle" /\ stage = NoStage /\ only = NoStage /\ auto = FALSE
    /\ attempt = 0 /\ rewinds = 0 /\ summary = "none"
    /\ outdated = {} /\ submitted = FALSE

Runner ==
    \/ AlreadyComplete \/ RefuseStage \/ StillAwaits \/ ApproveStage \/ EnterLoop
    \/ Select \/ PipelineDone \/ LoopCancelled \/ StartStage
    \/ AttemptGivenUp \/ BeginAttempt \/ DriveAgent \/ JudgeCancelled \/ Reverify
    \/ KeepsChanging \/ ToGates \/ RunGates \/ AcceptStage \/ Announce \/ RejectAttempt

Person == Edit \/ Approve \/ \E s \in Stages \cup {NoStage} : Request(s)

Next == Runner \/ StartRun \/ ContinuePipeline \/ EndRun \/ Crash \/ Person

Spec == Init /\ [][Next]_vars

\* The runner's thread is not starved and a driver call returns (it has the
\* stage's deadline as its timeout).
FairSpec == Spec /\ WF_vars(Runner)

-----------------------------------------------------------------------------
(* Properties *)

Checkpoints == [status : {"none", "open", "completed", "awaiting_human"},
                src : Contents \cup {NoContent}]

TypeOK ==
    /\ web \in BOOLEAN
    /\ cp \in [Stages -> Checkpoints]
    /\ torn \subseteq Stages
    /\ source \in Contents
    /\ touched \subseteq Stages
    /\ record \in Stages \cup {NoStage}
    /\ receipt \in Contents \cup {NoContent}
    /\ archive \in Contents \cup {NoContent}
    /\ jobOnly \in Stages \cup {NoStage}
    /\ approvedStage \in Stages \cup {NoStage}
    /\ shown \in Contents \cup {NoContent}
    /\ pc \in {"idle", "queued", "prelude", "select", "loop", "attempt", "driving",
               "judge", "driver_failed", "gates", "accept", "reject", "announce", "returned"}
    /\ stage \in Stages \cup {NoStage}
    /\ only \in Stages \cup {NoStage}
    /\ auto \in BOOLEAN
    /\ attempt \in 0..MaxAttempts
    /\ rewinds \in 0..3
    /\ summary \in {"none", "success", "failure", "awaiting"}
    /\ outdated \subseteq Stages
    /\ submitted \in BOOLEAN

\* A checkpoint is never trusted once an agent has worked on its stage, or on an
\* earlier one, since it was accepted: reruns, crashes between the two files of
\* a checkpoint and edits do not bring an old completion back.
NoOutdatedTrust == Trusted \cap outdated = {}

\* An agent works on a stage only while all stages before it are completed
\* and current: no order of retries, approvals, rewinds and crashes skips one.
PrerequisitesHold ==
    pc = "driving" => \A t \in Stages : t < stage => t \in Trusted

\* A whole run that reports success leaves every stage completed, and the
\* source is the one that verification saw, also when a later stage or its
\* gates changed the source on the way.
SuccessIsVerified ==
    pc = "returned" /\ summary = "success" /\ jobOnly = NoStage
    => /\ Trusted = Stages
       /\ cp[Verification].src = source

\* "a stale success record must never validate a new run": what is accepted was
\* submitted in this very attempt.
AcceptedWasSubmitted == pc = "accept" => submitted

\* A guided stage is completed only by the approval of exactly the source and
\* artifacts the person was shown.
ApprovedAsShown ==
    [][\A s \in Stages :
         cp[s].status = "awaiting_human" /\ cp'[s].status = "completed" /\ ~auto
         => approvedStage = s /\ shown = source /\ s \notin touched]_vars

\* Every call of run comes back: attempts are bounded per stage, and so are the
\* rewinds to verification per run.
RunReturns == pc = "prelude" ~> pc \in {"returned", "idle"}

\* The runner keeps the contract its callers rely on.
phaseOf ==
    CASE pc = "queued" -> "idle"
      [] pc \in {"select", "loop"} -> "next_stage"
      [] pc = "attempt" /\ attempt > 1 -> "driving"
      [] pc \in {"judge", "driver_failed", "gates", "accept", "reject"} -> "driving"
      [] OTHER -> pc

Contract == INSTANCE RunnerContract
              WITH phase <- phaseOf, single <- only # NoStage, result <- summary

ContractKept == Contract!Spec

\* docs/ARCHITECTURE.md: "Guided stages persist `awaiting_human` checkpoints until
\* approval."  The run that an approval starts is not refused while the stage
\* still awaits it with all stages before it complete.
ApprovalIsNotRefused ==
    [][/\ pc = "prelude" /\ approvedStage # NoStage
       /\ cp[approvedStage].status = "awaiting_human" /\ CurrentWithSource(approvedStage)
       /\ 1..(approvedStage - 1) \subseteq Trusted
       => summary' # "failure"]_vars
===============================================================================
