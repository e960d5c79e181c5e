------------------------ MODULE PipelineRunnerProofs ------------------------
(***************************************************************************)
(* Proofs about PipelineRunner for every pipeline, every set of guided     *)
(* stages and of gates that build in place, every set of contents and      *)
(* every bound on the attempts.                                            *)
(***************************************************************************)
EXTENDS PipelineRunner, WellFoundedInduction, TLAPS

-----------------------------------------------------------------------------
(* The prefix of trusted stages, and the stage after it *)

LEMMA StagesAreNumbers ==
    /\ NumStages \in Nat
    /\ Stages \subseteq Nat
    /\ NoStage \notin Stages
    /\ Verification \in Stages
    /\ ArchiveStage \in Stages
  BY PipelineAssumption DEF Stages, NoStage, ArchiveStage

LEMMA NoneBeforeFirst == \A t \in Stages : ~(t < NoStage)
  BY DEF Stages, NoStage

LEMMA LeastNatural ==
    ASSUME NEW T \in SUBSET Nat, T # {}
    PROVE  \E s \in T : \A t \in T : s <= t
<1>1. PICK s \in T : \A t \in T : ~(<<t, s>> \in OpToRel(<, Nat))
  BY NatLessThanWellFounded, WFMin
<1>2. \A t \in T : ~(t < s)
  BY <1>1 DEF OpToRel
<1> QED
  BY <1>2

LEMMA TrustedIsPrefix ==
    ASSUME NEW s \in Trusted, NEW t \in Stages, t <= s
    PROVE  t \in Trusted
  BY StagesAreNumbers DEF Trusted, Stages

\* next_stage skips no stage.
LEMMA NextStageIsNext ==
    /\ NextStage \in Stages \cup {NoStage}
    /\ NextStage # NoStage => \A t \in Stages : t < NextStage => t \in Trusted
<1>1. Trusted \subseteq Stages
  BY DEF Trusted
<1>2. CASE Verification \in Trusted /\ SourceMoved
  <2>1. NextStage = Verification
    BY <1>2 DEF NextStage
  <2> QED
    BY <1>2, <2>1, StagesAreNumbers, TrustedIsPrefix
<1>3. CASE ~(Verification \in Trusted /\ SourceMoved) /\ Trusted # Stages
  <2>1. PICK s \in Stages \ Trusted : \A t \in Stages \ Trusted : s <= t
    BY <1>1, <1>3, StagesAreNumbers, LeastNatural
  <2>2. NextStage = CHOOSE u \in Stages \ Trusted : \A t \in Stages \ Trusted : u <= t
    BY <1>3 DEF NextStage
  <2>3. NextStage \in Stages \ Trusted /\ \A t \in Stages \ Trusted : NextStage <= t
    BY <2>1, <2>2
  <2> QED
    BY <2>3, StagesAreNumbers
<1>4. CASE ~(Verification \in Trusted /\ SourceMoved) /\ Trusted = Stages
  BY <1>4, StagesAreNumbers DEF NextStage
<1> QED
  BY <1>2, <1>3, <1>4

\* A pipeline is done when every stage is completed and the source is the one that
\* the last stage left.
LEMMA NothingNext ==
    ASSUME NextStage = NoStage
    PROVE  Trusted = Stages /\ cp[NumStages].src = source
<1>1. ~(Verification \in Trusted /\ SourceMoved)
  BY StagesAreNumbers DEF NextStage
<1>2. Trusted = Stages
  <2> SUFFICES ASSUME Trusted # Stages PROVE FALSE
    OBVIOUS
  <2>1. PICK s \in Stages \ Trusted : \A t \in Stages \ Trusted : s <= t
    BY StagesAreNumbers, LeastNatural DEF Trusted
  <2>2. NextStage = CHOOSE u \in Stages \ Trusted : \A t \in Stages \ Trusted : u <= t
    BY <1>1 DEF NextStage
  <2>3. NextStage \in Stages
    BY <2>1, <2>2
  <2> QED
    BY <2>3, StagesAreNumbers
<1>3. NumStages \in Trusted /\ NumStages + 1 \notin Trusted
  BY <1>2, PipelineAssumption DEF Stages
<1>4. ~SourceMoved
  BY <1>1, <1>2, StagesAreNumbers
<1> QED
  BY <1>2, <1>3, <1>4 DEF SourceMoved

-----------------------------------------------------------------------------
(* What writing a checkpoint does to the disk *)

Open(s) == cp[s].status \in {"none", "open"}

DiskTypeOK ==
    /\ cp \in [Stages -> Checkpoints]
    /\ torn \subseteq Stages
    /\ touched \subseteq Stages
    /\ source \in Contents

\* The status that write_checkpoint leaves in the file of its stage.
Outcome(st) == IF st \in {"completed", "awaiting_human"} THEN st ELSE "open"

LEMMA Outcomes ==
    /\ Outcome("in_progress") = "open"
    /\ Outcome("failed") = "open"
    /\ Outcome("completed") = "completed"
    /\ Outcome("awaiting_human") = "awaiting_human"
  BY DEF Outcome

LEMMA WriteEffect ==
    ASSUME DiskTypeOK, NEW s \in Stages, NEW st, WriteCheckpoint(s, st)
    PROVE  /\ cp' \in [Stages -> Checkpoints] /\ torn' \subseteq Stages
           /\ touched' = touched \ {s}
           /\ s \notin torn'
           /\ cp'[s].status = Outcome(st)
           /\ Outcome(st) # "open" => cp'[s].src = source
           /\ \A t \in Stages :
                 t < s => cp'[t] = cp[t] /\ (t \in torn' <=> t \in torn)
           /\ \A t \in Stages :
                 t > s => \/ cp'[t] = cp[t] /\ (t \in torn' <=> t \in torn)
                          \/ cp'[t].status = "open"
           /\ st = "in_progress" => \A t \in Stages : t > s => Open(t)'
           /\ st # "in_progress" =>
                 \A t \in Stages : t # s => cp'[t] = cp[t] /\ (t \in torn' <=> t \in torn)
<1>1. \A t \in Stages : t \in Targets(s, st)
         <=> t = s \/ (st = "in_progress" /\ t > s /\ cp[t].status # "none")
  BY DEF Targets
<1>2. Targets(s, st) \subseteq Stages
  BY DEF Targets
<1>3. /\ \A t \in Stages : cp'[t] = IF t \in Targets(s, st) THEN Written(s, st, t) ELSE cp[t]
      /\ torn' = torn \ Targets(s, st)
      /\ touched' = touched \ {s}
  BY DEF WriteCheckpoint
<1>4. \A t \in Stages : cp[t] \in Checkpoints
  BY DEF DiskTypeOK
<1>5. \A t \in Stages : Written(s, st, t) \in Checkpoints
  BY <1>4 DEF Written, Snapshot, Checkpoints, DiskTypeOK
<1>6. cp' \in [Stages -> Checkpoints]
  BY <1>2, <1>4, <1>5 DEF WriteCheckpoint
<1>7. \A t \in Stages : t # s => Written(s, st, t).status = "open"
  BY DEF Written, Snapshot
<1>8. Written(s, st, s).status = Outcome(st)
      /\ (Outcome(st) # "open" => Written(s, st, s).src = source)
  BY DEF Written, Snapshot, Outcome
<1>9. \A t \in Stages : t > s => \/ cp'[t] = cp[t] /\ (t \in torn' <=> t \in torn)
                                 \/ cp'[t].status = "open"
  BY <1>1, <1>3, <1>7, StagesAreNumbers
<1>10. st = "in_progress" => \A t \in Stages : t > s => Open(t)'
  <2> SUFFICES ASSUME st = "in_progress", NEW t \in Stages, t > s
               PROVE  Open(t)'
    OBVIOUS
  <2>1. t # s
    BY StagesAreNumbers
  <2>2. CASE t \in Targets(s, st)
    BY <1>3, <1>7, <2>1, <2>2 DEF Open
  <2>3. CASE t \notin Targets(s, st)
    <3>1. cp'[t] = cp[t] /\ cp[t].status = "none"
      BY <1>1, <1>3, <2>3
    <3> QED
      BY <3>1 DEF Open
  <2> QED
    BY <2>2, <2>3
<1>11. \A t \in Stages : t < s => cp'[t] = cp[t] /\ (t \in torn' <=> t \in torn)
  BY <1>1, <1>3, StagesAreNumbers
<1>12. st # "in_progress" =>
         \A t \in Stages : t # s => cp'[t] = cp[t] /\ (t \in torn' <=> t \in torn)
  BY <1>1, <1>3
<1>13. s \in Targets(s, st)
  BY <1>1
<1>14. s \notin torn' /\ torn' \subseteq Stages
  BY <1>3, <1>13 DEF DiskTypeOK
<1>15. cp'[s].status = Outcome(st) /\ (Outcome(st) # "open" => cp'[s].src = source)
  BY <1>3, <1>8, <1>13
<1> QED
  BY <1>3, <1>6, <1>9, <1>10, <1>11, <1>12, <1>14, <1>15

\* A crash on the way: whatever has been written of the stage itself has no mirror yet,
\* and then all later checkpoints that had to be marked have been.
LEMMA TornEffect ==
    ASSUME DiskTypeOK, NEW s \in Stages, NEW st, TornCheckpoint(s, st)
    PROVE  /\ cp' \in [Stages -> Checkpoints]
           /\ torn' \subseteq Stages
           /\ touched' \subseteq Stages
           /\ \A t \in Stages : t < s => cp'[t] = cp[t] /\ (t \in torn => t \in torn')
           /\ \A t \in Stages :
                 t > s => \/ cp'[t] = cp[t] /\ (t \in torn => t \in torn')
                          \/ cp'[t].status = "open"
           /\ \/ cp'[s] = cp[s] /\ (s \in torn => s \in torn')
              \/ /\ s \in torn'
                 /\ cp'[s].status = Outcome(st)
                 /\ Outcome(st) # "open" => cp'[s].src = source
                 /\ st = "in_progress" => \A t \in Stages : t > s => Open(t)'
           /\ st # "in_progress" => \A t \in Stages : t # s => cp'[t] = cp[t]
           /\ s # Verification => cp'[Verification].src = cp[Verification].src
<1>1. PICK u \in Targets(s, st), half \in BOOLEAN :
         LET done == {t \in Targets(s, st) : t # u /\ t # s /\ (u = s \/ t < u)}
             file == IF half THEN {u} ELSE {} IN
            /\ cp' = [t \in Stages |-> IF t \in done \cup file THEN Written(s, st, t) ELSE cp[t]]
            /\ torn' = (torn \ done) \cup file
            /\ touched' = touched \ (file \cap {s})
  BY DEF TornCheckpoint
<1> DEFINE done == {t \in Targets(s, st) : t # u /\ t # s /\ (u = s \/ t < u)}
           file == IF half THEN {u} ELSE {}
<1>2. /\ \A t \in Stages : cp'[t] = IF t \in done \cup file THEN Written(s, st, t) ELSE cp[t]
      /\ torn' = (torn \ done) \cup file
      /\ touched' = touched \ (file \cap {s})
  BY <1>1
<1>3. \A t \in Stages : t \in Targets(s, st)
         <=> t = s \/ (st = "in_progress" /\ t > s /\ cp[t].status # "none")
  BY DEF Targets
<1>4. Targets(s, st) \subseteq Stages /\ done \subseteq Targets(s, st) \ {s}
      /\ file \subseteq Targets(s, st)
  BY DEF Targets
<1>5. \A t \in Stages : cp[t] \in Checkpoints
  BY DEF DiskTypeOK
<1>6. \A t \in Stages : Written(s, st, t) \in Checkpoints
  BY <1>5 DEF Written, Snapshot, Checkpoints, DiskTypeOK
<1>7. cp' = [t \in Stages |-> IF t \in done \cup file THEN Written(s, st, t) ELSE cp[t]]
  BY <1>1
<1>8. \A t \in Stages : t # s => Written(s, st, t).status = "open"
  BY DEF Written, Snapshot
<1>9. Written(s, st, s).status = Outcome(st)
      /\ (Outcome(st) # "open" => Written(s, st, s).src = source)
  BY DEF Written, Snapshot, Outcome
<1>10. s \in file => \A t \in Targets(s, st) : t # s => t \in done
  BY <1>4
<1> HIDE DEF done, file
<1>11. cp' \in [Stages -> Checkpoints]
  BY <1>5, <1>6, <1>7
<1>12. torn' \subseteq Stages /\ touched' \subseteq Stages
  BY <1>2, <1>4 DEF DiskTypeOK
<1>13. \A t \in Stages : t < s => cp'[t] = cp[t] /\ (t \in torn => t \in torn')
  <2> SUFFICES ASSUME NEW t \in Stages, t < s
               PROVE  cp'[t] = cp[t] /\ (t \in torn => t \in torn')
    OBVIOUS
  <2>1. t \notin Targets(s, st)
    BY <1>3, StagesAreNumbers
  <2> QED
    BY <1>2, <1>4, <2>1
<1>14. \A t \in Stages : t > s => \/ cp'[t] = cp[t] /\ (t \in torn => t \in torn')
                                  \/ cp'[t].status = "open"
  <2> SUFFICES ASSUME NEW t \in Stages, t > s
               PROVE  \/ cp'[t] = cp[t] /\ (t \in torn => t \in torn')
                      \/ cp'[t].status = "open"
    OBVIOUS
  <2>1. t # s
    BY StagesAreNumbers
  <2> QED
    BY <1>2, <1>8, <2>1
<1>15. \/ cp'[s] = cp[s] /\ (s \in torn => s \in torn')
       \/ /\ s \in torn'
          /\ cp'[s].status = Outcome(st)
          /\ Outcome(st) # "open" => cp'[s].src = source
          /\ st = "in_progress" => \A t \in Stages : t > s => Open(t)'
  <2>1. CASE s \notin file
    BY <1>2, <1>4, <2>1
  <2>2. CASE s \in file
    <3>1. s \in torn' /\ cp'[s] = Written(s, st, s)
      BY <1>2, <2>2
    <3>2. ASSUME st = "in_progress", NEW t \in Stages, t > s PROVE Open(t)'
      <4>1. t # s
        BY <3>2, StagesAreNumbers
      <4>2. CASE t \in Targets(s, st)
        BY <1>2, <1>8, <1>10, <2>2, <4>1, <4>2 DEF Open
      <4>3. CASE t \notin Targets(s, st)
        <5>1. cp'[t] = cp[t]
          BY <1>2, <1>4, <4>3
        <5> QED
          BY <1>3, <3>2, <4>1, <4>3, <5>1 DEF Open
      <4> QED
        BY <4>2, <4>3
    <3> QED
      BY <1>9, <3>1, <3>2
  <2> QED
    BY <2>1, <2>2
<1>16. st # "in_progress" => \A t \in Stages : t # s => cp'[t] = cp[t]
  BY <1>2, <1>3, <1>4
<1>17. s # Verification => cp'[Verification].src = cp[Verification].src
  <2>1. s # Verification => Written(s, st, Verification).src = cp[Verification].src
    BY DEF Written, Snapshot
  <2> QED
    BY <1>2, <2>1, StagesAreNumbers
<1> QED
  BY <1>11, <1>12, <1>13, <1>14, <1>15, <1>16, <1>17

-----------------------------------------------------------------------------
(* The inductive invariant *)

\* A stage is being attempted: its checkpoint is in progress.
Attempting == {"driving", "judge", "driver_failed", "gates", "accept", "reject"}

\* What the runner's own variables say of each other.
ControlInv ==
    /\ pc \in Attempting \cup {"attempt", "announce"} => stage # NoStage
    /\ pc \in Attempting \cup {"attempt"} => attempt >= 1
    /\ pc \in {"idle", "queued"} => only = NoStage /\ summary = "none"
    /\ only \in {NoStage, jobOnly}
    /\ pc = "prelude" /\ only # NoStage => stage = only

\* stage-result.json names the stage only if this attempt's agent wrote it.
RecordInv ==
    /\ pc \in Attempting \ {"reject"} /\ record = stage => submitted
    /\ pc = "accept" => record = stage

\* No checkpoint from the stage on is waiting or completed while it is attempted.
LaterOpen == pc \in Attempting => \A t \in Stages : t >= stage => Open(t)

OutdatedInv == \A s \in outdated : Open(s) \/ s \in torn

\* What the runner goes for has all stages before it behind it.
ReadyInv ==
    \/ pc \in Attempting \cup {"loop", "attempt"}
    \/ pc = "prelude" /\ only = NoStage
    => \A t \in Stages : t < stage => t \in Trusted

\* The last stage is written with the source that verification was written with.
LastIsVerified ==
    /\ Open(NumStages) \/ cp[NumStages].src = cp[Verification].src
    /\ pc \in {"gates", "accept"} /\ stage = NumStages /\ Verification < NumStages
         => cp[Verification].src = source
    /\ pc \in {"prelude", "loop"} /\ stage = NoStage => NextStage = NoStage

ShownInv ==
    /\ pc = "idle" => approvedStage = NoStage
    /\ approvedStage # NoStage /\ cp[approvedStage].status = "awaiting_human"
         => \/ shown = cp[approvedStage].src
            \/ pc = "announce"
            \/ pc = "returned" /\ summary = "awaiting"

IInv ==
    /\ TypeOK
    /\ ControlInv
    /\ RecordInv
    /\ LaterOpen
    /\ OutdatedInv
    /\ ReadyInv
    /\ LastIsVerified
    /\ SuccessIsVerified
    /\ ShownInv

-----------------------------------------------------------------------------
(* Steps that write nothing *)

Quiet == UNCHANGED <<web, disk, work>>

LEMMA QuietStep ==
    ASSUME Quiet
    PROVE  /\ Trusted' = Trusted
           /\ NextStage' = NextStage
           /\ UNCHANGED <<web, cp, torn, touched, source, record, receipt, archive>>
<1>1. UNCHANGED <<web, cp, torn, touched, source, record, receipt, archive>>
  BY DEF Quiet, disk, work
<1>2. Trusted' = Trusted
  BY <1>1 DEF Trusted, Current
<1>3. NextStage' = NextStage
  BY <1>1, <1>2 DEF NextStage, SourceMoved
<1> QED
  BY <1>1, <1>2, <1>3

LEMMA LastCompleted ==
    ASSUME TypeOK, LastIsVerified, NextStage = NoStage
    PROVE  Trusted = Stages /\ cp[Verification].src = source
<1>1. Trusted = Stages /\ cp[NumStages].src = source
  BY NothingNext
<1>2. NumStages \in Trusted
  BY <1>1, StagesAreNumbers DEF ArchiveStage
<1>3. ~Open(NumStages)
  BY <1>2, PipelineAssumption DEF Trusted, Open
<1> QED
  BY <1>1, <1>3 DEF LastIsVerified

LEMMA PreludePreserves ==
    ASSUME IInv, AlreadyComplete \/ RefuseStage \/ StillAwaits \/ EnterLoop
    PROVE  IInv'
<1> USE DEF IInv, TypeOK, ControlInv, RecordInv, LaterOpen, OutdatedInv, ReadyInv, LastIsVerified,
            SuccessIsVerified, ShownInv, Attempting, Open, Return, Goto, Quiet, disk, work, job,
            call, tries, ghosts, NoStage
<1>1. CASE AlreadyComplete
  BY <1>1, QuietStep, LastCompleted DEF AlreadyComplete
<1>2. CASE RefuseStage
  BY <1>2, QuietStep DEF RefuseStage
<1>3. CASE StillAwaits
  BY <1>3, QuietStep DEF StillAwaits, Awaiting
<1>4. CASE EnterLoop
  <2>1. \A t \in Stages : t < stage => t \in Trusted
    BY <1>4, StagesAreNumbers DEF EnterLoop, Refused, Stages
  <2> QED
    BY <1>4, <2>1, QuietStep DEF EnterLoop
<1> QED
  BY <1>1, <1>2, <1>3, <1>4

LEMMA CallPreserves ==
    ASSUME IInv, StartRun \/ ContinuePipeline \/ Select
    PROVE  IInv'
<1> USE DEF IInv, TypeOK, ControlInv, RecordInv, LaterOpen, OutdatedInv, ReadyInv, LastIsVerified,
            SuccessIsVerified, ShownInv, Attempting, Open, Return, Goto, Quiet, disk, work, job,
            call, tries, ghosts, NoStage
<1>1. CASE StartRun
  BY <1>1, QuietStep, NextStageIsNext, NoneBeforeFirst DEF StartRun
<1>2. CASE ContinuePipeline
  BY <1>2, QuietStep, NextStageIsNext, NoneBeforeFirst DEF ContinuePipeline
<1>3. CASE Select
  BY <1>3, QuietStep, NextStageIsNext, NoneBeforeFirst DEF Select
<1> QED
  BY <1>1, <1>2, <1>3

LEMMA LoopPreserves ==
    ASSUME IInv, PipelineDone \/ LoopCancelled \/ StartStage \/ AttemptGivenUp \/ JudgeCancelled
    PROVE  IInv'
<1> USE DEF IInv, TypeOK, ControlInv, RecordInv, LaterOpen, OutdatedInv, ReadyInv, LastIsVerified,
            SuccessIsVerified, ShownInv, Attempting, Open, Return, Goto, Quiet, disk, work, job,
            call, tries, ghosts, NoStage
<1>1. CASE PipelineDone
  BY <1>1, QuietStep, LastCompleted DEF PipelineDone
<1>2. CASE LoopCancelled
  BY <1>2, QuietStep DEF LoopCancelled
<1>3. CASE StartStage
  BY <1>3, QuietStep, PipelineAssumption DEF StartStage
<1>4. CASE AttemptGivenUp
  BY <1>4, QuietStep DEF AttemptGivenUp
<1>5. CASE JudgeCancelled
  BY <1>5, QuietStep DEF JudgeCancelled
<1> QED
  BY <1>1, <1>2, <1>3, <1>4, <1>5

LEMMA JudgePreserves ==
    ASSUME IInv, KeepsChanging \/ ToGates \/ Announce
    PROVE  IInv'
<1> USE DEF IInv, TypeOK, ControlInv, RecordInv, LaterOpen, OutdatedInv, ReadyInv, LastIsVerified,
            SuccessIsVerified, ShownInv, Attempting, Open, Return, Goto, Quiet, disk, work, job,
            call, tries, ghosts, NoStage
<1>1. CASE KeepsChanging
  BY <1>1, QuietStep DEF KeepsChanging
<1>2. CASE ToGates
  BY <1>2, QuietStep, StagesAreNumbers DEF ToGates, Unverified
<1>3. CASE Announce
  BY <1>3, QuietStep DEF Announce
<1> QED
  BY <1>1, <1>2, <1>3

\* The runner's memory is back to its initial state.
LEMMA ForgetTyped ==
    ASSUME TypeOK, Forget, stage' \in {stage, NoStage}, DiskTypeOK',
           UNCHANGED <<web, work, jobOnly>>, outdated' = outdated
    PROVE  TypeOK'
<1>1. attempt' \in 0..MaxAttempts /\ rewinds' \in 0..3
  BY PipelineAssumption DEF Forget
<1> QED
  BY <1>1 DEF TypeOK, Forget, DiskTypeOK, work

LEMMA CallerPreserves ==
    ASSUME IInv, EndRun \/ Approve \/ \E s \in Stages \cup {NoStage} : Request(s)
    PROVE  IInv'
<1> USE DEF IInv, TypeOK, ControlInv, RecordInv, LaterOpen, OutdatedInv, ReadyInv, LastIsVerified,
            SuccessIsVerified, ShownInv, Attempting, Open, Return, Goto, Quiet, disk, work, job,
            call, tries, ghosts, NoStage
<1>1. CASE EndRun
  <2>1. TypeOK'
    BY <1>1, ForgetTyped, QuietStep DEF EndRun, DiskTypeOK
  <2> QED
    BY <1>1, <2>1, QuietStep DEF EndRun, Forget
<1>2. CASE Approve
  <2>1. cp[stage].src \in Contents \cup {NoContent}
    BY <1>2 DEF Approve, Checkpoints
  <2> QED
    BY <1>2, <2>1, QuietStep DEF Approve
<1>3. ASSUME NEW s \in Stages \cup {NoStage}, Request(s) PROVE IInv'
  BY <1>3, QuietStep DEF Request
<1> QED
  BY <1>1, <1>2, <1>3

LEMMA StutterPreserves ==
    ASSUME IInv, UNCHANGED vars
    PROVE  IInv'
<1>1. Quiet
  BY DEF Quiet, vars
<1> QED
  BY <1>1, QuietStep
     DEF vars, IInv, TypeOK, ControlInv, RecordInv, LaterOpen, OutdatedInv, ReadyInv,
         LastIsVerified, SuccessIsVerified, ShownInv, Attempting, Open, job, call, tries, ghosts

-----------------------------------------------------------------------------
(* Steps that write a checkpoint *)

LEMMA DiskTyped ==
    ASSUME TypeOK
    PROVE  DiskTypeOK
  BY DEF TypeOK, DiskTypeOK

\* What is trusted before a stage does not depend on the stage or on what is behind it.
LEMMA TrustedBefore ==
    ASSUME NEW s \in Stages,
           \A t \in Stages : t < s => /\ cp'[t] = cp[t]
                                      /\ (t \in torn') = (t \in torn)
                                      /\ (t \in touched') = (t \in touched)
    PROVE  \A t \in Stages : t < s => (t \in Trusted' <=> t \in Trusted)
<1>1. \A t \in Stages : t < s => (Current(t)' <=> Current(t))
  BY DEF Current
<1>2. \A t \in Stages : \A u \in 1..t : t < s => u \in Stages /\ u < s
  BY StagesAreNumbers DEF Stages
<1> QED
  BY <1>1, <1>2 DEF Trusted

LEMMA WriteKeepsTrusted ==
    ASSUME TypeOK, NEW s \in Stages, NEW st, WriteCheckpoint(s, st)
    PROVE  \A t \in Stages : t < s => (t \in Trusted' <=> t \in Trusted)
<1>1. \A t \in Stages : t < s => t # s
  BY StagesAreNumbers
<1> QED
  BY <1>1, DiskTyped, WriteEffect, TrustedBefore

LEMMA BeginAttemptPreserves ==
    ASSUME IInv, BeginAttempt
    PROVE  IInv'
<1> USE DEF Attempting, Goto, disk, work, job, call, tries, NoStage
<1>1. stage \in Stages /\ pc = "attempt" /\ pc' = "driving"
  BY DEF BeginAttempt, IInv, ControlInv, TypeOK
<1>2. WriteCheckpoint(stage, "in_progress")
  BY DEF BeginAttempt
<1>3. DiskTypeOK
  BY DiskTyped DEF IInv
<1>4. TypeOK'
  BY <1>1, <1>2, <1>3, WriteEffect DEF IInv, TypeOK, BeginAttempt
<1>5. ControlInv' /\ RecordInv'
  BY <1>1, StagesAreNumbers DEF IInv, ControlInv, RecordInv, BeginAttempt
<1>6. LaterOpen'
  <2>1. cp'[stage].status = "open"
    BY <1>1, <1>2, <1>3, WriteEffect, Outcomes
  <2>2. \A t \in Stages : t > stage => Open(t)'
    BY <1>1, <1>2, <1>3, WriteEffect
  <2> QED
    BY <1>1, <2>1, <2>2, StagesAreNumbers DEF LaterOpen, Open, BeginAttempt
<1>7. OutdatedInv'
  <2>1. ASSUME NEW t \in Stages, Open(t) \/ t \in torn PROVE Open(t)' \/ t \in torn'
    <3>1. CASE t >= stage
      BY <1>1, <1>6, <3>1 DEF LaterOpen, Open, BeginAttempt
    <3>2. CASE t < stage
      BY <1>1, <1>2, <1>3, <2>1, <3>2, WriteEffect DEF Open
    <3> QED
      BY <1>1, <3>1, <3>2, StagesAreNumbers
  <2> QED
    BY <2>1 DEF IInv, OutdatedInv, TypeOK, BeginAttempt
<1>8. ReadyInv'
  BY <1>1, <1>2, WriteKeepsTrusted DEF IInv, ReadyInv, BeginAttempt
<1>9. LastIsVerified'
  <2>1. CASE stage <= Verification
    BY <1>1, <1>6, <2>1, PipelineAssumption
       DEF LaterOpen, LastIsVerified, Open, Stages, BeginAttempt
  <2>2. CASE Verification < stage
    <3>1. cp'[Verification] = cp[Verification]
      BY <1>1, <1>2, <1>3, <2>2, WriteEffect, StagesAreNumbers
    <3>2. Open(NumStages)'
      BY <1>1, <1>6, PipelineAssumption DEF LaterOpen, Open, Stages, BeginAttempt
    <3> QED
      BY <1>1, <3>1, <3>2 DEF LastIsVerified, Open
  <2> QED
    BY <1>1, <2>1, <2>2, StagesAreNumbers
<1>10. SuccessIsVerified'
  BY <1>1 DEF SuccessIsVerified
<1>11. ShownInv'
  <2>1. \A t \in Stages : cp'[t] = cp[t] \/ cp'[t].status = "open"
    <3>1. \A t \in Stages : t < stage \/ t = stage \/ t > stage
      BY <1>1, StagesAreNumbers
    <3> QED
      BY <1>1, <1>2, <1>3, <3>1, WriteEffect, Outcomes
  <2> QED
    BY <1>1, <2>1 DEF IInv, TypeOK, ShownInv, BeginAttempt
<1> QED
  BY <1>4, <1>5, <1>6, <1>7, <1>8, <1>9, <1>10, <1>11 DEF IInv

LEMMA ApproveStagePreserves ==
    ASSUME IInv, ApproveStage
    PROVE  IInv'
<1> USE DEF Attempting, Goto, Return, work, call, tries, ghosts, NoStage
<1>1. pc = "prelude" /\ pc' \in {"select", "returned"}
  BY DEF ApproveStage
<1>2. /\ stage \in Stages
      /\ cp[stage].status = "awaiting_human"
      /\ stage \notin torn
      /\ cp[stage].src = source
  BY DEF IInv, TypeOK, ApproveStage, Approves, Awaiting, CurrentWithSource, Current
<1>3. /\ WriteCheckpoint(stage, "completed")
      /\ DiskTypeOK
      /\ "completed" # "in_progress"
  BY DiskTyped DEF ApproveStage, IInv
<1>4. /\ cp' \in [Stages -> Checkpoints]
      /\ torn' \subseteq Stages
      /\ touched' = touched \ {stage}
  BY <1>2, <1>3, WriteEffect
<1>5. /\ cp'[stage].status = "completed"
      /\ cp'[stage].src = cp[stage].src
      /\ \A t \in Stages : t # stage => cp'[t] = cp[t] /\ (t \in torn' <=> t \in torn)
  <2>1. Outcome("completed") # "open"
    BY Outcomes
  <2> QED
    BY <1>2, <1>3, <2>1, WriteEffect, Outcomes
<1>6. TypeOK'
  BY <1>1, <1>4 DEF IInv, TypeOK, ApproveStage
<1>7. ControlInv' /\ RecordInv' /\ LaterOpen' /\ ReadyInv'
  BY <1>1 DEF IInv, ControlInv, RecordInv, LaterOpen, ReadyInv, ApproveStage
<1>8. OutdatedInv'
  <2>1. stage \notin outdated
    BY <1>2 DEF IInv, OutdatedInv, Open
  <2> QED
    BY <1>5, <2>1 DEF IInv, OutdatedInv, Open, TypeOK, ApproveStage
<1>9. LastIsVerified'
  <2>1. \A t \in Stages : cp'[t].src = cp[t].src /\ (Open(t) => Open(t)' \/ t = stage)
    BY <1>5 DEF Open
  <2>2. ~Open(stage)
    BY <1>2 DEF Open
  <2>3. NumStages \in Stages
    BY StagesAreNumbers DEF ArchiveStage
  <2> QED
    BY <1>1, <2>1, <2>2, <2>3, StagesAreNumbers DEF IInv, LastIsVerified, Open
<1>10. SuccessIsVerified'
  BY <1>1 DEF IInv, ControlInv, SuccessIsVerified, ApproveStage
<1>11. ShownInv'
  BY <1>1, <1>5 DEF IInv, TypeOK, ShownInv, ApproveStage
<1> QED
  BY <1>6, <1>7, <1>8, <1>9, <1>10, <1>11 DEF IInv

LEMMA ReverifyPreserves ==
    ASSUME IInv, Reverify
    PROVE  IInv'
<1> USE DEF Attempting, Goto, work, job, NoStage
<1>1. pc = "judge" /\ pc' = "loop" /\ stage' = Verification
  BY DEF Reverify
<1>2. stage \in Stages /\ Verification \in Stages /\ Verification < stage
  BY <1>1, StagesAreNumbers DEF IInv, ControlInv, TypeOK, Reverify, Unverified
<1>3. WriteCheckpoint(Verification, "in_progress") /\ DiskTypeOK
  BY DiskTyped DEF Reverify, IInv
<1>4. /\ cp' \in [Stages -> Checkpoints]
      /\ torn' \subseteq Stages
      /\ touched' = touched \ {Verification}
  BY <1>2, <1>3, WriteEffect
<1>5. \A t \in Stages : t >= Verification => Open(t)'
  <2>1. cp'[Verification].status = "open"
    BY <1>2, <1>3, WriteEffect, Outcomes
  <2>2. \A t \in Stages : t > Verification => Open(t)'
    BY <1>2, <1>3, WriteEffect
  <2> QED
    BY <1>2, <2>1, <2>2, StagesAreNumbers DEF Open
<1>6. \A t \in Stages : t < Verification => cp'[t] = cp[t] /\ (t \in torn' <=> t \in torn)
  BY <1>2, <1>3, WriteEffect
<1>7. TypeOK'
  BY <1>1, <1>2, <1>4 DEF IInv, TypeOK, Reverify, ghosts
<1>8. ControlInv' /\ RecordInv' /\ LaterOpen'
  BY <1>1 DEF IInv, ControlInv, RecordInv, LaterOpen, Reverify
<1>9. OutdatedInv'
  BY <1>2, <1>5, <1>6, StagesAreNumbers DEF IInv, OutdatedInv, Open, TypeOK, Reverify, ghosts
<1>10. ReadyInv'
  <2>1. \A t \in Stages : t < Verification => t \in Trusted
    BY <1>1, <1>2, StagesAreNumbers DEF IInv, ReadyInv
  <2>2. \A t \in Stages : t < Verification => t \in Trusted'
    BY <1>2, <1>3, <2>1, WriteKeepsTrusted DEF IInv
  <2> QED
    BY <1>1, <2>2 DEF ReadyInv
<1>11. LastIsVerified'
  BY <1>1, <1>5, PipelineAssumption DEF LastIsVerified, Open, Stages
<1>12. SuccessIsVerified'
  BY <1>1 DEF SuccessIsVerified
<1>13. ShownInv'
  BY <1>1, <1>2, <1>5, <1>6, StagesAreNumbers DEF IInv, TypeOK, ShownInv, Open, Reverify
<1> QED
  BY <1>7, <1>8, <1>9, <1>10, <1>11, <1>12, <1>13 DEF IInv

LEMMA AcceptStagePreserves ==
    ASSUME IInv, AcceptStage
    PROVE  IInv'
<1> USE DEF Attempting, Goto, Return, work, job, call, tries, NoStage
<1> DEFINE st == IF NeedsApproval THEN "awaiting_human" ELSE "completed"
<1>1. pc = "accept" /\ stage \in Stages /\ stage' = stage
  BY DEF AcceptStage, IInv, ControlInv, TypeOK
<1>2. /\ pc' \in {"announce", "select", "returned"}
      /\ pc' = "announce" <=> NeedsApproval
      /\ pc' = "returned" => only # NoStage
  BY DEF AcceptStage
<1>3. /\ WriteCheckpoint(stage, st)
      /\ DiskTypeOK
      /\ st # "in_progress"
      /\ Outcome(st) = st
  BY DiskTyped, Outcomes DEF AcceptStage, IInv
<1>4. /\ cp' \in [Stages -> Checkpoints]
      /\ torn' \subseteq Stages
      /\ touched' = touched \ {stage}
  BY <1>1, <1>3, WriteEffect
<1>5. /\ cp'[stage].src = source
      /\ cp'[stage].status = st
      /\ \A t \in Stages : t # stage => cp'[t] = cp[t] /\ (t \in torn' <=> t \in torn)
  <2>1. Outcome(st) # "open"
    BY <1>3
  <2> HIDE DEF st
  <2> QED
    BY <1>1, <1>3, <2>1, WriteEffect
<1>6. TypeOK'
  BY <1>1, <1>2, <1>4 DEF IInv, TypeOK, AcceptStage
<1>7. ControlInv' /\ RecordInv' /\ LaterOpen' /\ ReadyInv'
  BY <1>1, <1>2 DEF IInv, ControlInv, RecordInv, LaterOpen, ReadyInv, AcceptStage
<1>8. OutdatedInv'
  BY <1>5 DEF IInv, OutdatedInv, Open, TypeOK, AcceptStage
<1>9. LastIsVerified'
  <2>1. Open(NumStages)' \/ cp'[NumStages].src = cp'[Verification].src
    <3>1. CASE stage = NumStages /\ Verification = NumStages
      BY <3>1
    <3>2. CASE stage = NumStages /\ Verification # NumStages
      <4>1. Verification < NumStages /\ Verification \in Stages
        BY <3>2, PipelineAssumption, StagesAreNumbers DEF Stages
      <4>2. cp[Verification].src = source
        BY <1>1, <3>2, <4>1 DEF IInv, LastIsVerified
      <4> QED
        BY <1>5, <3>2, <4>1, <4>2
    <3>3. CASE stage # NumStages
      <4>1. stage < NumStages /\ NumStages \in Stages
        BY <1>1, <3>3, PipelineAssumption DEF Stages
      <4>2. Open(NumStages)
        BY <1>1, <4>1, PipelineAssumption DEF IInv, LaterOpen
      <4> QED
        BY <1>5, <4>1, <4>2, PipelineAssumption DEF Open
    <3> QED
      BY <3>1, <3>2, <3>3
  <2> QED
    BY <1>2, <2>1 DEF LastIsVerified, Open
<1>10. SuccessIsVerified'
  BY <1>2 DEF IInv, ControlInv, SuccessIsVerified, AcceptStage
<1>11. ShownInv'
  <2>1. CASE NeedsApproval
    BY <1>2, <2>1 DEF IInv, ShownInv, AcceptStage
  <2>2. CASE ~NeedsApproval
    <3>1. cp'[stage].status = "completed"
      BY <1>5, <2>2
    <3> QED
      BY <1>1, <1>2, <1>5, <2>2, <3>1 DEF IInv, TypeOK, ShownInv, AcceptStage
  <2> QED
    BY <2>1, <2>2
<1> QED
  BY <1>6, <1>7, <1>8, <1>9, <1>10, <1>11 DEF IInv

LEMMA RejectAttemptPreserves ==
    ASSUME IInv, RejectAttempt
    PROVE  IInv'
<1> USE DEF Attempting, Goto, Return, work, job, call, ghosts, NoStage
<1>1. /\ pc \in {"reject", "driver_failed"} /\ pc' \in {"attempt", "returned"}
      /\ stage \in Stages /\ stage' = stage
  BY DEF RejectAttempt, IInv, ControlInv, TypeOK
<1>2. /\ WriteCheckpoint(stage, "failed")
      /\ DiskTypeOK
      /\ "failed" # "in_progress"
  BY DiskTyped DEF RejectAttempt, IInv
<1>3. /\ cp' \in [Stages -> Checkpoints]
      /\ torn' \subseteq Stages
      /\ touched' = touched \ {stage}
  BY <1>1, <1>2, WriteEffect
<1>4. /\ cp'[stage].status = "open"
      /\ \A t \in Stages : t # stage => cp'[t] = cp[t] /\ (t \in torn' <=> t \in torn)
  BY <1>1, <1>2, WriteEffect, Outcomes
<1>5. TypeOK'
  <2>1. attempt' \in 0..MaxAttempts
    BY PipelineAssumption DEF RejectAttempt, MustStop, IInv, TypeOK
  <2> QED
    BY <1>1, <1>3, <2>1 DEF IInv, TypeOK, RejectAttempt
<1>6. ControlInv' /\ RecordInv' /\ LaterOpen'
  BY <1>1, PipelineAssumption
     DEF IInv, TypeOK, ControlInv, RecordInv, LaterOpen, RejectAttempt
<1>7. OutdatedInv'
  BY <1>4 DEF IInv, OutdatedInv, Open, TypeOK, RejectAttempt
<1>8. ReadyInv'
  BY <1>1, <1>2, WriteKeepsTrusted DEF IInv, ReadyInv
<1>9. LastIsVerified'
  <2>1. Open(NumStages)' \/ cp'[NumStages].src = cp'[Verification].src
    <3>1. CASE stage <= Verification
      <4>1. NumStages \in Stages /\ stage <= NumStages
        BY <1>1, <3>1, PipelineAssumption DEF Stages
      <4>2. Open(NumStages)
        BY <1>1, <4>1, PipelineAssumption DEF IInv, LaterOpen
      <4> QED
        BY <1>4, <4>1, <4>2 DEF Open
    <3>2. CASE Verification < stage
      <4>1. NumStages \in Stages /\ Verification \in Stages /\ Verification # stage
        BY <1>1, <3>2, PipelineAssumption, StagesAreNumbers DEF Stages
      <4> QED
        BY <1>4, <4>1 DEF IInv, LastIsVerified, Open
    <3> QED
      BY <1>1, <3>1, <3>2, StagesAreNumbers
  <2> QED
    BY <1>1, <2>1 DEF LastIsVerified, Open
<1>10. SuccessIsVerified'
  BY <1>1 DEF SuccessIsVerified, RejectAttempt
<1>11. ShownInv'
  BY <1>1, <1>4 DEF IInv, TypeOK, ShownInv, RejectAttempt
<1> QED
  BY <1>5, <1>6, <1>7, <1>8, <1>9, <1>10, <1>11 DEF IInv

-----------------------------------------------------------------------------
(* The agent, the gates, the person and the end of the process *)

LEMMA DriveAgentPreserves ==
    ASSUME IInv, DriveAgent
    PROVE  IInv'
<1> USE DEF Attempting, job, call, tries, NoStage
<1>1. pc = "driving" /\ stage \in Stages /\ UNCHANGED <<web, cp, torn, stage>>
      /\ pc' \in {"judge", "driver_failed"}
  BY DEF DriveAgent, IInv, ControlInv, TypeOK
<1>2. TypeOK'
  <2>1. stage..NumStages \subseteq Stages
    BY <1>1 DEF Stages
  <2>2. receipt' \in Contents \cup {NoContent}
    BY DEF DriveAgent, IInv, TypeOK
  <2>3. touched' \subseteq Stages /\ outdated' \subseteq Stages
    BY <1>1, <2>1 DEF DriveAgent, IInv, TypeOK
  <2>4. record' \in Stages \cup {NoStage} /\ submitted' \in BOOLEAN
    BY <1>1 DEF DriveAgent, IInv, TypeOK
  <2> QED
    BY <1>1, <2>2, <2>3, <2>4 DEF IInv, TypeOK, DriveAgent
<1>3. ControlInv' /\ RecordInv' /\ LaterOpen'
  BY <1>1 DEF IInv, ControlInv, RecordInv, LaterOpen, Open, DriveAgent
<1>4. OutdatedInv'
  <2>1. \A t \in stage..NumStages : t \in Stages /\ t >= stage
    BY <1>1 DEF Stages
  <2>2. \A t \in stage..NumStages : Open(t)
    BY <1>1, <2>1 DEF IInv, LaterOpen
  <2> QED
    BY <1>1, <2>2 DEF IInv, OutdatedInv, Open, DriveAgent
<1>5. ReadyInv'
  <2>1. \A t \in Stages : t < stage => (t \in touched' <=> t \in touched)
    BY <1>1, StagesAreNumbers DEF DriveAgent
  <2>2. \A t \in Stages : t < stage => (t \in Trusted' <=> t \in Trusted)
    BY <1>1, <2>1, TrustedBefore
  <2> QED
    BY <1>1, <2>2 DEF IInv, ReadyInv
<1>6. LastIsVerified' /\ SuccessIsVerified' /\ ShownInv'
  BY <1>1 DEF IInv, LastIsVerified, SuccessIsVerified, ShownInv, Open, DriveAgent
<1> QED
  BY <1>2, <1>3, <1>4, <1>5, <1>6 DEF IInv

LEMMA RunGatesPreserves ==
    ASSUME IInv, RunGates
    PROVE  IInv'
<1> USE DEF Attempting, disk, job, call, tries, ghosts, NoStage
<1>1. /\ pc = "gates" /\ stage \in Stages
      /\ UNCHANGED <<web, cp, torn, touched, record, stage, only, jobOnly, submitted, outdated>>
      /\ (pc' = "accept" /\ record = stage) \/ pc' = "reject"
  BY DEF RunGates, IInv, ControlInv, TypeOK
<1>2. TypeOK'
  <2>1. source' \in Contents
    BY DEF RunGates, IInv, TypeOK
  <2>2. receipt' \in Contents \cup {NoContent} /\ archive' \in Contents \cup {NoContent}
    BY DEF RunGates, IInv, TypeOK
  <2> QED
    BY <1>1, <2>1, <2>2 DEF IInv, TypeOK, RunGates
<1>3. ControlInv' /\ RecordInv' /\ LaterOpen' /\ OutdatedInv'
  BY <1>1 DEF IInv, ControlInv, RecordInv, LaterOpen, OutdatedInv, Open, RunGates
<1>4. ReadyInv'
  <2>1. \A t \in Stages : t < stage => (t \in Trusted' <=> t \in Trusted)
    BY <1>1, TrustedBefore
  <2> QED
    BY <1>1, <2>1 DEF IInv, ReadyInv
<1>5. LastIsVerified'
  <2>1. stage = NumStages => source' = source
    <3>1. NumStages \notin BuildStages
      BY PipelineAssumption
    <3> QED
      BY <3>1 DEF RunGates
  <2> QED
    BY <1>1, <2>1 DEF IInv, LastIsVerified, Open
<1>6. SuccessIsVerified' /\ ShownInv'
  BY <1>1 DEF IInv, SuccessIsVerified, ShownInv, RunGates
<1> QED
  BY <1>2, <1>3, <1>4, <1>5, <1>6 DEF IInv

LEMMA EditPreserves ==
    ASSUME IInv, Edit
    PROVE  IInv'
<1> USE DEF Attempting, job, call, tries, ghosts, NoStage
<1>1. pc = "queued" /\ UNCHANGED <<web, cp, torn, record, receipt, pc, stage>>
  BY DEF Edit
<1>2. TypeOK'
  BY <1>1 DEF IInv, TypeOK, Edit
<1>3. /\ ControlInv' /\ RecordInv' /\ LaterOpen' /\ OutdatedInv' /\ ReadyInv'
      /\ LastIsVerified' /\ SuccessIsVerified' /\ ShownInv'
  BY <1>1 DEF IInv, ControlInv, RecordInv, LaterOpen, OutdatedInv, ReadyInv, LastIsVerified,
              SuccessIsVerified, ShownInv, Open, Edit
<1> QED
  BY <1>2, <1>3 DEF IInv

\* What a crash leaves of a checkpoint does not make an outdated one trusted, and does not
\* part the last stage from verification.
LEMMA TornPreserves ==
    ASSUME IInv, NEW s \in Stages, NEW st, TornCheckpoint(s, st),
           UNCHANGED <<outdated, source>>,
           \/ st = "in_progress"
           \/ st = "failed" /\ (s <= Verification => Open(NumStages))
           \/ st = "completed" /\ cp[s].src = source /\ ~Open(s)
           \/ st \in {"completed", "awaiting_human"} /\ pc = "accept" /\ s = stage
    PROVE  OutdatedInv' /\ (Open(NumStages)' \/ cp'[NumStages].src = cp'[Verification].src)
<1>1. DiskTypeOK
  BY DiskTyped DEF IInv
<1>2. \A t \in Stages : t < s => cp'[t] = cp[t] /\ (t \in torn => t \in torn')
  BY <1>1, TornEffect
<1>3. \A t \in Stages : t > s => \/ cp'[t] = cp[t] /\ (t \in torn => t \in torn')
                                 \/ cp'[t].status = "open"
  BY <1>1, TornEffect
<1>4. \/ cp'[s] = cp[s] /\ (s \in torn => s \in torn')
      \/ /\ s \in torn'
         /\ cp'[s].status = Outcome(st)
         /\ Outcome(st) # "open" => cp'[s].src = source
         /\ st = "in_progress" => \A t \in Stages : t > s => Open(t)'
  BY <1>1, TornEffect
<1>5. st # "in_progress" => \A t \in Stages : t # s => cp'[t] = cp[t]
  BY <1>1, TornEffect
<1>6. \A t \in Stages : t < s \/ t = s \/ t > s
  BY StagesAreNumbers
<1>7. OutdatedInv'
  BY <1>2, <1>3, <1>4, <1>6 DEF IInv, TypeOK, OutdatedInv, Open
<1>8. NumStages \in Stages /\ Verification \in Stages /\ \A t \in Stages : t <= NumStages
  BY PipelineAssumption DEF Stages
<1>9. Open(NumStages) \/ cp[NumStages].src = cp[Verification].src
  BY DEF IInv, LastIsVerified
<1>10. s # Verification => cp'[Verification].src = cp[Verification].src
  BY <1>1, TornEffect
<1>11. CASE cp'[s] = cp[s]
  <2>1. cp'[Verification].src = cp[Verification].src
    BY <1>10, <1>11
  <2>2. cp'[NumStages] = cp[NumStages] \/ Open(NumStages)'
    BY <1>3, <1>6, <1>2, <1>8, <1>11 DEF Open
  <2> QED
    BY <1>7, <1>9, <2>1, <2>2 DEF Open
<1>12. CASE cp'[s] # cp[s] /\ st = "in_progress"
  <2>1. Open(s)' /\ \A t \in Stages : t > s => Open(t)'
    BY <1>4, <1>12, Outcomes DEF Open
  <2>2. s = NumStages \/ NumStages > s
    BY <1>8, StagesAreNumbers
  <2> QED
    BY <1>7, <1>8, <2>1, <2>2 DEF Open
<1>13. CASE cp'[s] # cp[s] /\ st = "failed" /\ (s <= Verification => Open(NumStages))
  <2>1. Open(s)' /\ \A t \in Stages : t # s => cp'[t] = cp[t]
    BY <1>4, <1>5, <1>13, Outcomes DEF Open
  <2>2. s = NumStages \/ s <= Verification \/ s > Verification
    BY <1>8, StagesAreNumbers
  <2>3. s > Verification => s # Verification
    BY <1>8, StagesAreNumbers
  <2> QED
    BY <1>7, <1>8, <1>9, <1>10, <1>13, <2>1, <2>2, <2>3 DEF Open
<1>14. CASE cp'[s] # cp[s] /\ st = "completed" /\ cp[s].src = source /\ ~Open(s)
  <2>1. cp'[s].src = cp[s].src /\ \A t \in Stages : t # s => cp'[t] = cp[t]
    BY <1>4, <1>5, <1>14, Outcomes
  <2>2. cp'[Verification].src = cp[Verification].src
    BY <1>8, <2>1
  <2>3. cp'[NumStages].src = cp[NumStages].src
    BY <1>8, <2>1
  <2>4. s # NumStages => cp'[NumStages] = cp[NumStages]
    BY <1>8, <2>1
  <2> QED
    BY <1>7, <1>9, <1>14, <2>2, <2>3, <2>4 DEF Open
<1>15. CASE cp'[s] # cp[s] /\ st \in {"completed", "awaiting_human"} /\ pc = "accept" /\ s = stage
  <2>1. cp'[s].src = source /\ \A t \in Stages : t # s => cp'[t] = cp[t]
    BY <1>4, <1>5, <1>15, Outcomes
  <2>2. CASE s = NumStages
    <3>1. Verification = NumStages \/ Verification < NumStages
      BY <1>8, StagesAreNumbers
    <3>2. Verification < NumStages => cp[Verification].src = source
      BY <1>15, <2>2 DEF IInv, LastIsVerified
    <3> QED
      BY <1>7, <1>8, <2>1, <2>2, <3>1, <3>2
  <2>3. CASE s # NumStages
    <3>1. Open(NumStages)
      BY <1>8, <1>15 DEF IInv, LaterOpen, Attempting
    <3> QED
      BY <1>7, <1>8, <2>1, <2>3, <3>1 DEF Open
  <2> QED
    BY <2>2, <2>3
<1> QED
  BY <1>11, <1>12, <1>13, <1>14, <1>15

LEMMA CrashPreserves ==
    ASSUME IInv, Crash
    PROVE  IInv'
<1> USE DEF Attempting, work, NoStage
<1>1. Forget /\ pc' = "idle" /\ stage' = NoStage
      /\ UNCHANGED <<web, source, record, receipt, archive, jobOnly, outdated>>
  BY DEF Crash, Forget
<1>2. DiskTypeOK /\ (DiskTypeOK' => TypeOK')
  BY <1>1, ForgetTyped, DiskTyped DEF IInv
<1>3. ControlInv' /\ RecordInv' /\ LaterOpen' /\ ReadyInv' /\ SuccessIsVerified' /\ ShownInv'
  BY <1>1 DEF Forget, IInv, ControlInv, RecordInv, LaterOpen, ReadyInv, SuccessIsVerified, ShownInv
<1>4. CASE UNCHANGED disk
  <2>1. UNCHANGED <<cp, torn, touched>>
    BY <1>4 DEF disk
  <2> QED
    BY <1>1, <1>2, <1>3, <2>1 DEF IInv, OutdatedInv, LastIsVerified, DiskTypeOK, Open
<1>5. ASSUME NEW s \in Stages, NEW st, TornCheckpoint(s, st),
             OutdatedInv' /\ (Open(NumStages)' \/ cp'[NumStages].src = cp'[Verification].src)
      PROVE  IInv'
  <2>1. DiskTypeOK'
    BY <1>1, <1>2, <1>5, TornEffect DEF DiskTypeOK
  <2> QED
    BY <1>1, <1>2, <1>3, <1>5, <2>1 DEF IInv, LastIsVerified, Open
<1>6. CASE pc = "prelude" /\ Approves /\ TornCheckpoint(stage, "completed")
  <2>1. stage \in Stages /\ cp[stage].src = source /\ ~Open(stage)
    BY <1>6 DEF IInv, TypeOK, Approves, Awaiting, CurrentWithSource, Open
  <2> QED
    BY <1>1, <1>5, <1>6, <2>1, TornPreserves
<1>7. CASE pc = "attempt" /\ TornCheckpoint(stage, "in_progress")
  <2>1. stage \in Stages
    BY <1>7 DEF IInv, TypeOK, ControlInv
  <2> QED
    BY <1>1, <1>5, <1>7, <2>1, TornPreserves
<1>8. CASE pc = "judge" /\ Unverified /\ TornCheckpoint(Verification, "in_progress")
  BY <1>1, <1>5, <1>8, TornPreserves, StagesAreNumbers
<1>9. CASE pc = "accept" /\ TornCheckpoint(stage, IF NeedsApproval THEN "awaiting_human"
                                                                    ELSE "completed")
  <2>1. stage \in Stages
    BY <1>9 DEF IInv, TypeOK, ControlInv
  <2>2. CASE NeedsApproval
    BY <1>1, <1>5, <1>9, <2>1, <2>2, TornPreserves
  <2>3. CASE ~NeedsApproval
    BY <1>1, <1>5, <1>9, <2>1, <2>3, TornPreserves
  <2> QED
    BY <2>2, <2>3
<1>10. CASE pc \in {"reject", "driver_failed"} /\ TornCheckpoint(stage, "failed")
  <2>1. stage \in Stages
    BY <1>10 DEF IInv, TypeOK, ControlInv
  <2>2. stage <= NumStages /\ NumStages \in Stages
    BY <2>1, PipelineAssumption DEF Stages
  <2>3. Open(NumStages)
    BY <1>10, <2>2, StagesAreNumbers DEF IInv, LaterOpen
  <2> QED
    BY <1>1, <1>5, <1>10, <2>1, <2>3, TornPreserves
<1> QED
  BY <1>4, <1>6, <1>7, <1>8, <1>9, <1>10 DEF Crash

LEMMA InitIInv == Init => IInv
<1> SUFFICES ASSUME Init PROVE IInv
  OBVIOUS
<1>1. TypeOK
  <2>1. cp \in [Stages -> Checkpoints]
    BY DEF Init, Checkpoints, NoCheckpoint
  <2>2. attempt \in 0..MaxAttempts /\ rewinds \in 0..3
    BY PipelineAssumption DEF Init
  <2>3. torn \subseteq Stages /\ touched \subseteq Stages /\ outdated \subseteq Stages
    BY DEF Init
  <2> QED
    BY <2>1, <2>2, <2>3 DEF Init, TypeOK
<1>2. Open(NumStages)
  BY StagesAreNumbers DEF Init, Open, NoCheckpoint, ArchiveStage
<1> QED
  BY <1>1, <1>2
     DEF Init, IInv, ControlInv, RecordInv, LaterOpen, OutdatedInv, ReadyInv, LastIsVerified,
         SuccessIsVerified, ShownInv, Attempting, NoStage

LEMMA NextIInv ==
    ASSUME IInv, [Next]_vars
    PROVE  IInv'
<1>1. CASE Runner
  BY <1>1, PreludePreserves, CallPreserves, LoopPreserves, JudgePreserves,
     ApproveStagePreserves, BeginAttemptPreserves, DriveAgentPreserves, ReverifyPreserves,
     RunGatesPreserves, AcceptStagePreserves, RejectAttemptPreserves DEF Runner
<1>2. CASE StartRun \/ ContinuePipeline \/ EndRun \/ Crash
  BY <1>2, CallPreserves, CallerPreserves, CrashPreserves
<1>3. CASE Person
  BY <1>3, EditPreserves, CallerPreserves DEF Person
<1>4. CASE UNCHANGED vars
  BY <1>4, StutterPreserves
<1> QED
  BY <1>1, <1>2, <1>3, <1>4 DEF Next

LEMMA AlwaysIInv == Spec => []IInv
<1>1. IInv /\ [Next]_vars => IInv'
  BY NextIInv
<1> QED
  BY <1>1, InitIInv, PTL DEF Spec

-----------------------------------------------------------------------------
(* The properties *)

\* The runner's variables and its checkpoints have their types.
THEOREM TypeCorrect == Spec => []TypeOK
<1>1. IInv => TypeOK
  BY DEF IInv
<1> QED
  BY <1>1, AlwaysIInv, PTL

\* No order of reruns, rewinds, approvals, edits and crashes between the two files of a
\* checkpoint brings the completion of a stage back that an agent has worked on, or
\* before, since (checkpoints.py 126-275).
THEOREM NoOutdatedTrustHolds == Spec => []NoOutdatedTrust
<1>1. IInv => NoOutdatedTrust
  <2>1. ASSUME IInv, NEW s \in Trusted, s \in outdated PROVE FALSE
    <3>1. s \in 1..s /\ cp[s].status = "completed" /\ s \notin torn
      BY <2>1, PipelineAssumption DEF Trusted, Current, Stages
    <3> QED
      BY <2>1, <3>1 DEF IInv, OutdatedInv, Open
  <2> QED
    BY <2>1 DEF NoOutdatedTrust
<1> QED
  BY <1>1, AlwaysIInv, PTL

\* An agent never works on a stage that has an unfinished one before it (runner.py
\* 160-214, checkpoints.py 277-316).
THEOREM PrerequisitesAlwaysHold == Spec => []PrerequisitesHold
<1>1. IInv => PrerequisitesHold
  BY DEF IInv, ReadyInv, Attempting, PrerequisitesHold
<1> QED
  BY <1>1, AlwaysIInv, PTL

\* A whole run that reports success has all stages completed, on the source that
\* verification saw (runner.py 153-286).
THEOREM SuccessMeansVerified == Spec => []SuccessIsVerified
<1>1. IInv => SuccessIsVerified
  BY DEF IInv
<1> QED
  BY <1>1, AlwaysIInv, PTL

\* No stage result of an earlier attempt is accepted (runner.py 358-377).
THEOREM AcceptedWasAlwaysSubmitted == Spec => []AcceptedWasSubmitted
<1>1. IInv => AcceptedWasSubmitted
  BY DEF IInv, RecordInv, Attempting, AcceptedWasSubmitted
<1> QED
  BY <1>1, AlwaysIInv, PTL

-----------------------------------------------------------------------------
(* Approvals *)

\* A step that completes no waiting checkpoint.
CompletesNone == \A s \in Stages : cp'[s] = cp[s] \/ cp'[s].status = "open" \/ Open(s)

LEMMA MarkingCompletesNone ==
    ASSUME DiskTypeOK, NEW s \in Stages, NEW st \in {"in_progress", "failed"},
           WriteCheckpoint(s, st) \/ TornCheckpoint(s, st)
    PROVE  CompletesNone
<1>1. Outcome(st) = "open"
  BY Outcomes
<1>2. \A t \in Stages : t < s \/ t = s \/ t > s
  BY StagesAreNumbers
<1>3. CASE WriteCheckpoint(s, st)
  BY <1>1, <1>2, <1>3, WriteEffect DEF CompletesNone
<1>4. CASE TornCheckpoint(s, st)
  BY <1>1, <1>2, <1>4, TornEffect DEF CompletesNone
<1> QED
  BY <1>3, <1>4

\* The approval of the stage that waits: whole, or cut off by a crash.
Approval == pc = "prelude" /\ Approves /\ \A s \in Stages : s # stage => cp'[s] = cp[s]

LEMMA CrashCompletes ==
    ASSUME IInv, Crash
    PROVE  CompletesNone \/ Approval
<1> USE DEF Attempting, NoStage
<1>1. DiskTypeOK
  BY DiskTyped DEF IInv
<1>2. CASE UNCHANGED disk
  BY <1>2 DEF disk, CompletesNone
<1>3. CASE pc = "prelude" /\ Approves /\ TornCheckpoint(stage, "completed")
  <2>1. stage \in Stages
    BY <1>3 DEF IInv, TypeOK, Approves, Awaiting
  <2>2. "completed" # "in_progress"
    OBVIOUS
  <2> QED
    BY <1>1, <1>3, <2>1, <2>2, TornEffect DEF Approval
<1>4. CASE pc = "attempt" /\ TornCheckpoint(stage, "in_progress")
  BY <1>1, <1>4, MarkingCompletesNone DEF IInv, TypeOK, ControlInv
<1>5. CASE pc = "judge" /\ Unverified /\ TornCheckpoint(Verification, "in_progress")
  BY <1>1, <1>5, MarkingCompletesNone, StagesAreNumbers
<1>6. CASE pc \in {"reject", "driver_failed"} /\ TornCheckpoint(stage, "failed")
  BY <1>1, <1>6, MarkingCompletesNone DEF IInv, TypeOK, ControlInv
<1>7. CASE pc = "accept" /\ TornCheckpoint(stage, IF NeedsApproval THEN "awaiting_human"
                                                                    ELSE "completed")
  <2>1. stage \in Stages /\ Open(stage)
    BY <1>7, StagesAreNumbers DEF IInv, TypeOK, ControlInv, LaterOpen
  <2>2. \A s \in Stages : s # stage => cp'[s] = cp[s]
    <3>1. CASE NeedsApproval
      BY <1>1, <1>7, <2>1, <3>1, TornEffect
    <3>2. CASE ~NeedsApproval
      BY <1>1, <1>7, <2>1, <3>2, TornEffect
    <3> QED
      BY <3>1, <3>2
  <2> QED
    BY <2>1, <2>2 DEF CompletesNone
<1> QED
  BY <1>2, <1>3, <1>4, <1>5, <1>6, <1>7 DEF Crash

LEMMA StepCompletes ==
    ASSUME IInv, Next
    PROVE  CompletesNone \/ Approval
<1> USE DEF Attempting, NoStage
<1>1. DiskTypeOK
  BY DiskTyped DEF IInv
<1>2. CASE cp' = cp
  BY <1>2 DEF CompletesNone
<1>3. CASE ApproveStage
  <2>1. stage \in Stages /\ pc = "prelude" /\ Approves /\ WriteCheckpoint(stage, "completed")
    BY <1>3 DEF IInv, TypeOK, ApproveStage, Approves, Awaiting, Goto, Return
  <2>2. "completed" # "in_progress"
    OBVIOUS
  <2> QED
    BY <1>1, <2>1, <2>2, WriteEffect DEF Approval
<1>4. CASE BeginAttempt
  BY <1>1, <1>4, MarkingCompletesNone DEF IInv, TypeOK, ControlInv, BeginAttempt, Goto
<1>5. CASE Reverify
  BY <1>1, <1>5, MarkingCompletesNone, StagesAreNumbers DEF Reverify
<1>6. CASE RejectAttempt
  BY <1>1, <1>6, MarkingCompletesNone DEF IInv, TypeOK, ControlInv, RejectAttempt
<1>7. CASE AcceptStage
  <2>1. stage \in Stages /\ Open(stage)
    BY <1>7, StagesAreNumbers DEF IInv, TypeOK, ControlInv, LaterOpen, AcceptStage
  <2>2. \A s \in Stages : s # stage => cp'[s] = cp[s]
    <3>1. CASE NeedsApproval
      BY <1>1, <1>7, <2>1, <3>1, WriteEffect DEF AcceptStage
    <3>2. CASE ~NeedsApproval
      BY <1>1, <1>7, <2>1, <3>2, WriteEffect DEF AcceptStage
    <3> QED
      BY <3>1, <3>2
  <2> QED
    BY <2>1, <2>2 DEF CompletesNone
<1>8. CASE Crash
  BY <1>8, CrashCompletes
<1>9. CASE \/ AlreadyComplete \/ RefuseStage \/ StillAwaits \/ EnterLoop \/ Select
           \/ PipelineDone \/ LoopCancelled \/ StartStage \/ AttemptGivenUp
  BY <1>2, <1>9 DEF disk, AlreadyComplete, RefuseStage, StillAwaits, EnterLoop, Select,
                    PipelineDone, LoopCancelled, StartStage, AttemptGivenUp
<1>10. CASE \/ DriveAgent \/ JudgeCancelled \/ KeepsChanging \/ ToGates \/ RunGates \/ Announce
  BY <1>2, <1>10 DEF disk, DriveAgent, JudgeCancelled, KeepsChanging, ToGates, RunGates, Announce
<1>11. CASE StartRun \/ ContinuePipeline \/ EndRun \/ Person
  BY <1>2, <1>11 DEF disk, StartRun, ContinuePipeline, EndRun, Person, Edit, Approve, Request
<1> QED
  BY <1>3, <1>4, <1>5, <1>6, <1>7, <1>8, <1>9, <1>10, <1>11 DEF Next, Runner

Completes ==
    \A s \in Stages :
       cp[s].status = "awaiting_human" /\ cp'[s].status = "completed" /\ ~auto
       => approvedStage = s /\ shown = source /\ s \notin touched

\* A checkpoint that waits for a person is completed only by the approval of the source and
\* the artifacts that the person was shown, whatever is edited, rerun or cut off by a crash
\* in between (runner.py 180-214, web_jobs.py 1128-1152).
THEOREM ApprovalsAreAsShown == Spec => ApprovedAsShown
<1>1. IInv /\ [Next]_vars => [Completes]_vars
  <2> SUFFICES ASSUME IInv, Next,
                      NEW s \in Stages, cp[s].status = "awaiting_human",
                      cp'[s].status = "completed", ~auto
               PROVE  approvedStage = s /\ shown = source /\ s \notin touched
    BY DEF Completes
  <2>1. ~CompletesNone
    BY DEF CompletesNone, Open
  <2>2. Approval /\ s = stage
    BY <2>1, StepCompletes DEF Approval
  <2>3. approvedStage = s /\ cp[s].src = source /\ s \notin touched
    BY <2>2 DEF Approval, Approves, Awaiting, CurrentWithSource, Current
  <2>4. shown = cp[s].src
    BY <2>2, <2>3, StagesAreNumbers DEF IInv, ShownInv, Approval
  <2> QED
    BY <2>3, <2>4
<1> QED
  BY <1>1, AlwaysIInv, PTL DEF Spec, ApprovedAsShown, Completes

-----------------------------------------------------------------------------
(* The runner implements its contract *)

PhaseAt(p, n) ==
    CASE p = "queued" -> "idle"
      [] p \in {"select", "loop"} -> "next_stage"
      [] p = "attempt" /\ n > 1 -> "driving"
      [] p \in {"judge", "driver_failed", "gates", "accept", "reject"} -> "driving"
      [] OTHER -> p

LEMMA Phases ==
    ASSUME NEW n \in Nat
    PROVE  /\ PhaseAt("idle", n) = "idle" /\ PhaseAt("queued", n) = "idle"
           /\ PhaseAt("prelude", n) = "prelude" /\ PhaseAt("announce", n) = "announce"
           /\ PhaseAt("returned", n) = "returned"
           /\ \A p \in {"select", "loop"} : PhaseAt(p, n) = "next_stage"
           /\ PhaseAt("attempt", n) = IF n > 1 THEN "driving" ELSE "attempt"
           /\ \A p \in Attempting : PhaseAt(p, n) = "driving"
  BY DEF PhaseAt, Attempting

LEMMA PhaseIs == phaseOf = PhaseAt(pc, attempt)
  BY DEF phaseOf, PhaseAt

LEMMA PhaseWillBe == phaseOf' = PhaseAt(pc', attempt')
  BY DEF phaseOf, PhaseAt

LEMMA RunnerKeepsContract ==
    ASSUME IInv, Runner
    PROVE  [Contract!Next]_Contract!vars
<1> USE DEF Return, Goto, call, tries, Contract!Return, Contract!Move
<1>1. attempt \in Nat /\ (pc \in Attempting \cup {"attempt"} => attempt >= 1)
  BY PipelineAssumption DEF IInv, TypeOK, ControlInv
<1>2. attempt' \in Nat
  BY <1>1
     DEF Runner, AlreadyComplete, RefuseStage, StillAwaits, ApproveStage, EnterLoop, Select,
         PipelineDone, LoopCancelled, StartStage, AttemptGivenUp, BeginAttempt, DriveAgent,
         JudgeCancelled, Reverify, KeepsChanging, ToGates, RunGates, AcceptStage, Announce,
         RejectAttempt
<1>3. CASE AlreadyComplete \/ RefuseStage \/ StillAwaits \/ EnterLoop \/ ApproveStage
  BY <1>1, <1>2, <1>3, Phases, PhaseIs, PhaseWillBe
     DEF Contract!Next, Contract!Prelude, AlreadyComplete, RefuseStage, StillAwaits, EnterLoop,
         ApproveStage
<1>4. CASE Select
  BY <1>1, <1>2, <1>4, Phases, PhaseIs, PhaseWillBe DEF Contract!vars, Select
<1>5. CASE PipelineDone \/ LoopCancelled \/ StartStage
  BY <1>1, <1>2, <1>5, Phases, PhaseIs, PhaseWillBe
     DEF Contract!Next, Contract!Between, PipelineDone, LoopCancelled, StartStage
<1>6. CASE AttemptGivenUp
  BY <1>1, <1>2, <1>6, Phases, PhaseIs, PhaseWillBe
     DEF Contract!Next, Contract!FirstAttempt, Contract!Attempts, AttemptGivenUp
<1>7. CASE BeginAttempt
  BY <1>1, <1>2, <1>7, Phases, PhaseIs, PhaseWillBe
     DEF Contract!Next, Contract!FirstAttempt, Contract!vars, BeginAttempt, Attempting
<1>8. CASE DriveAgent \/ ToGates \/ RunGates
  BY <1>1, <1>2, <1>8, Phases, PhaseIs, PhaseWillBe
     DEF Contract!vars, DriveAgent, ToGates, RunGates, Attempting
<1>9. CASE JudgeCancelled \/ KeepsChanging
  BY <1>1, <1>2, <1>9, Phases, PhaseIs, PhaseWillBe
     DEF Contract!Next, Contract!Attempts, JudgeCancelled, KeepsChanging, Attempting
<1>10. CASE Reverify
  BY <1>1, <1>2, <1>10, Phases, PhaseIs, PhaseWillBe
     DEF Contract!Next, Contract!Attempts, Reverify, Attempting
<1>11. CASE AcceptStage
  BY <1>1, <1>2, <1>11, Phases, PhaseIs, PhaseWillBe
     DEF Contract!Next, Contract!Attempts, AcceptStage, Attempting
<1>12. CASE RejectAttempt
  BY <1>1, <1>2, <1>12, Phases, PhaseIs, PhaseWillBe
     DEF Contract!Next, Contract!Attempts, Contract!vars, RejectAttempt, Attempting
<1>13. CASE Announce
  BY <1>1, <1>2, <1>13, Phases, PhaseIs, PhaseWillBe
     DEF Contract!Next, Contract!Announced, Announce
<1> QED
  BY <1>3, <1>4, <1>5, <1>6, <1>7, <1>8, <1>9, <1>10, <1>11, <1>12, <1>13 DEF Runner

LEMMA CallerKeepsContract ==
    ASSUME IInv, StartRun \/ ContinuePipeline \/ EndRun \/ Crash \/ Person
    PROVE  [Contract!Next]_Contract!vars
<1> USE DEF Goto, call, tries, NoStage
<1>1. attempt \in Nat /\ pc \in {"idle", "queued", "prelude", "announce", "returned", "select",
                                 "loop", "attempt"} \cup Attempting
  BY PipelineAssumption DEF IInv, TypeOK, Attempting
<1>2. attempt' \in Nat
  BY <1>1 DEF StartRun, ContinuePipeline, EndRun, Crash, Forget, Person, Edit, Approve, Request
<1>3. CASE StartRun \/ ContinuePipeline
  BY <1>1, <1>2, <1>3, Phases, PhaseIs, PhaseWillBe
     DEF Contract!Next, Contract!Call, StartRun, ContinuePipeline, IInv, ControlInv
<1>4. CASE EndRun \/ Crash
  <2>1. phaseOf # "idle"
    BY <1>1, <1>4, Phases, PhaseIs DEF EndRun, Crash
  <2> QED
    BY <1>1, <1>2, <1>4, <2>1, Phases, PhaseWillBe
       DEF Contract!Next, Contract!Leave, EndRun, Crash, Forget
<1>5. CASE Person
  BY <1>1, <1>2, <1>5, Phases, PhaseIs, PhaseWillBe
     DEF Contract!Next, Contract!Prepare, Person, Edit, Approve, Request
<1> QED
  BY <1>3, <1>4, <1>5

\* Every call of run, with its crashes and its continuation by the job manager, is one that
\* RunnerContract allows: the order of events and results that JobManager is built on.
THEOREM ContractIsKept == Spec => ContractKept
<1>1. Init => Contract!Init
  BY Phases, PhaseIs DEF Init, Contract!Init, NoStage
<1>2. IInv /\ [Next]_vars => [Contract!Next]_Contract!vars
  <2>1. ASSUME UNCHANGED vars PROVE UNCHANGED Contract!vars
    BY <2>1, PhaseIs, PhaseWillBe DEF vars, call, tries, Contract!vars
  <2> QED
    BY <2>1, RunnerKeepsContract, CallerKeepsContract DEF Next
<1> QED
  BY <1>1, <1>2, AlwaysIInv, PTL DEF Spec, ContractKept, Contract!Spec
=============================================================================
