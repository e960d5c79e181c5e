---------------------------- MODULE RunnerContract ----------------------------
(***************************************************************************)
(* What a caller of PipelineRunner.run may rely on: the order of the       *)
(* events it is told and of the results it is given.  JobManager writes a  *)
(* job's status from these, and has a step of its own for each of them.    *)
(***************************************************************************)
VARIABLES
    phase,    \* how far the call is, "idle" outside of a call
    single,   \* run(only_stage=...)
    result    \* "none", or what the call returned

vars == <<phase, single, result>>

Init == phase = "idle" /\ single \in BOOLEAN /\ result = "none"

Move(from, to) == phase = from /\ phase' = to /\ UNCHANGED <<single, result>>

Return(from, r) == phase = from /\ phase' = "returned" /\ result' = r /\ UNCHANGED single

\* A new call; the runner keeps nothing of the last result.
Call ==
    /\ phase \in {"idle", "returned"}
    /\ phase' = "prelude"
    /\ result' = "none"
    /\ single' \in BOOLEAN

\* Before the first stage: done, refused, waiting for a person, or to work.
Prelude ==
    \/ \E r \in {"success", "failure"} : Return("prelude", r)
    \/ \E to \in {"announce", "next_stage"} : Move("prelude", to)

\* Between stages: the end of the pipeline, a cancellation, or a stage; its
\* stage_started event is emitted before the first attempt.
Between ==
    \/ \E r \in {"success", "failure"} : Return("next_stage", r)
    \/ Move("next_stage", "attempt")

FirstAttempt == Return("attempt", "failure") \/ Move("attempt", "driving")

\* The attempts at one stage.  A single-stage call ends with its stage, unless
\* verification has to be repeated: then it goes on like a whole run.
Attempts ==
    \/ Return("driving", "failure")
    \/ single /\ Return("driving", "success")
    \/ Move("driving", "announce")
    \/ phase = "driving" /\ phase' = "next_stage" /\ single' \in {single, FALSE}
       /\ UNCHANGED result

\* stage_awaiting_approval is emitted before the call returns.
Announced == Return("announce", "awaiting")

\* The caller is done, or the process died in the middle of the call.
Leave ==
    /\ phase # "idle"
    /\ phase' = "idle"
    /\ result' = "none"
    /\ single' \in BOOLEAN

\* Only between calls is another call prepared.
Prepare == phase = "idle" /\ single' \in BOOLEAN /\ UNCHANGED <<phase, result>>

Next ==
    \/ Call \/ Prelude \/ Between \/ FirstAttempt \/ Attempts \/ Announced
    \/ Leave \/ Prepare

Spec == Init /\ [][Next]_vars
===============================================================================
