------------------------------ MODULE JobView ------------------------------
(***************************************************************************)
(* The page of the web application (App.vue, with TopBar, ComposerCard,    *)
(* JobPanel and JobHistory for what can be clicked) and what it sees of    *)
(* the server: the statuses of the jobs, their bounded event history and   *)
(* the bounded queue of the page's event stream (web_jobs.py, web.py).     *)
(*                                                                         *)
(* The page follows one job, the current one: by its event stream, and by  *)
(* a poll that every answer arms again.  A request is sent in one step,    *)
(* served in another and continued in a third; other handlers, clicks and  *)
(* events run in between, and answers may overtake each other.  Texts,     *)
(* settings and the health banner are left out, and of a refresh of the    *)
(* health only what it does to the current job is kept.                    *)
(***************************************************************************)
EXTENDS Naturals, Sequences, FiniteSets, FiniteSetsExt, Functions

CONSTANTS
    Jobs,            \* the jobs the server may have
    None,            \* no job
    MaxEvents,       \* events before working jobs are silent (a bound)
    HistoryLimit,    \* MAX_EVENTS of the event history
    QueueLimit,      \* size of a subscriber's queue
    MaxLoads,        \* getJob requests of loadCurrentJob under way (a bound)
    MaxRequests,     \* requests under way when something is clicked (a bound)
    MaxIncidents     \* clicks of the user, failed requests and connections (a bound)

ASSUME ConstantsAssumption ==
    /\ None \notin Jobs
    /\ MaxEvents \in Nat /\ HistoryLimit \in Nat \ {0} /\ MaxLoads \in Nat \ {0}
    /\ QueueLimit \in Nat /\ QueueLimit > HistoryLimit
    /\ MaxRequests \in Nat /\ MaxIncidents \in Nat

VARIABLES
    status,      \* server: the status of every job
    log,         \* server: the events of every job; TRUE for one that ends it
    down,        \* server: it has been stopped
    stream,      \* the event stream, with its subscriber's queue at the server
    seen,        \* lastEventIds
    current,     \* currentJobId
    stored,      \* the current job in the local storage
    shown,       \* job: what the page shows
    timer,       \* the poll is armed
    requests,    \* requests sent and answers under way
    ending,      \* endingSession
    incidents

server == <<status, log, down>>
page == <<seen, current, stored, shown, timer, ending>>
vars == <<server, stream, page, requests, incidents>>

Statuses == {"absent", "active", "awaiting", "over"}
Active(s) == s \in {"active", "awaiting"}

\* A job shown; one that was loaded for a job no longer current is outdated.
View(j, s) == [job |-> j, status |-> s, outdated |-> FALSE]
Empty == View(None, "absent")
RequestError == View(None, "over")

Kinds == {"load", "health", "submit", "cancel", "show", "approve", "retry",
          "revise", "rerun", "end"}
Request(kind, j) == [kind |-> kind, job |-> j, slot |-> 0, restore |-> TRUE,
                     mounting |-> FALSE, answer |-> "none", status |-> "absent"]

Closed == [job |-> None, open |-> FALSE, from |-> 0, base |-> 0, queue |-> <<>>]

Mounting == [Request("health", None) EXCEPT !.mounting = TRUE]

Init ==
    /\ status \in [Jobs -> {"absent", "active"}]
    /\ log = [j \in Jobs |-> <<>>]
    /\ down = FALSE
    /\ stored \in Jobs \cup {None} /\ current = stored
    /\ stream = Closed /\ seen = [j \in Jobs |-> 0]
    /\ shown = Empty /\ timer = FALSE
    /\ requests = {Mounting}
    /\ ending = FALSE
    /\ incidents = 0

Click == incidents < MaxIncidents /\ incidents' = incidents + 1
Fault == Click

----------------------------------------------------------------------------
(* The events of the server *)

Event(id, ends) == [id |-> id, kind |-> IF ends THEN "final" ELSE "progress", status |-> "absent"]
Gap(id) == [id |-> id, kind |-> "gap", status |-> "absent"]
Snapshot(s) == [id |-> 0, kind |-> "snapshot", status |-> s]

\* Mutant: a full queue loses its oldest event for the new one.
PutSilently(queue, event) ==
    IF Len(queue) < QueueLimit THEN Append(queue, event) ELSE Append(Tail(queue), event)

\* _put_subscriber_event: a full queue loses its oldest event, and the new one for a gap.
Put(queue, event) ==
    IF Len(queue) < QueueLimit THEN Append(queue, event)
    ELSE Append(Tail(queue), Gap(event.id))

\* _record_event_locked: an event of a job, its status being s from now on.
Record(j, s, ends) ==
    /\ status' = [status EXCEPT ![j] = s]
    /\ log' = [log EXCEPT ![j] = Append(@, ends)]
    /\ stream' = IF stream.open /\ stream.job = j
                 THEN [stream EXCEPT !.queue = Put(@, Event(Len(log[j]) + 1, ends))]
                 ELSE stream

\* The last event that is not replayed: it was seen, or the history has lost it.
Skipped(from, ends) == Max({from, Len(ends) - HistoryLimit, 0})

Replay(from, ends) ==
    IF from = 0 THEN <<>>
    ELSE [k \in 1 .. Len(ends) - Skipped(from, ends) |->
             Event(Skipped(from, ends) + k, ends[Skipped(from, ends) + k])]

\* subscribe_events: what the history still has after the page's last event, or a snapshot.
Subscribe ==
    LET j == stream.job
        replay == Replay(stream.from, log[j])
    IN  /\ j # None /\ ~stream.open /\ ~down /\ status[j] # "absent"
        /\ stream' = [stream EXCEPT
                        !.open = TRUE,
                        !.queue = IF replay = <<>> THEN <<Snapshot(status[j])>> ELSE replay,
                        !.base = IF replay = <<>> THEN Len(log[j])
                                 ELSE Skipped(stream.from, log[j])]
        /\ UNCHANGED <<server, page, requests, incidents>>

\* A job works, waits for an approval or ends (another window may have cancelled it).
JobChanges(j) ==
    /\ ~down
    /\ \/ /\ status[j] = "active" /\ FoldFunction(LAMBDA l, n : Len(l) + n, 0, log) < MaxEvents
          /\ \E s \in {"active", "awaiting"} : Record(j, s, FALSE)
       \/ Active(status[j]) /\ Record(j, "over", TRUE)
    /\ UNCHANGED <<down, page, requests, incidents>>

----------------------------------------------------------------------------
(* What the handlers of the page are made of *)

\* Mutant: the stream of the job before stays open.
SetCurrentJobOnly(j) ==
    /\ current' = j /\ stored' = j
    /\ stream' = IF j = None \/ stream.job # None THEN stream
                 ELSE [Closed EXCEPT !.job = j, !.from = seen[j]]

\* setCurrentJob, with openEventStream and closeEventStream.
SetCurrentJob(j) ==
    /\ current' = j /\ stored' = j
    /\ stream' = IF j = None THEN Closed
                 ELSE IF stream.job = j THEN stream
                 ELSE [Closed EXCEPT !.job = j, !.from = seen[j]]

SameCurrentJob == UNCHANGED <<current, stored, stream>>

\* schedulePoll: nothing is armed without a current job.
SchedulePoll == timer' = (current' # None)
ClearPoll == timer' = FALSE

Of(kind) == {r \in requests : r.kind = kind}
FreeSlots(rs) == (1 .. MaxLoads) \ {r.slot : r \in {q \in rs : q.kind = "load"}}

\* loadCurrentJob up to its request: none while the session ends or without a job.
Load(rs, j, restore, mounting) ==
    IF ending \/ j = None THEN requests' = rs
    ELSE /\ FreeSlots(rs) # {}
         /\ requests' = rs \cup {[Request("load", j) EXCEPT
                                    !.slot = Min(FreeSlots(rs)),
                                    !.restore = restore, !.mounting = mounting]}

----------------------------------------------------------------------------
(* What the user does *)

\* A request a handler sends, at most one of its kind at a time.
Sends(kind, j) ==
    /\ Click /\ Of(kind) = {} /\ Cardinality(requests) < MaxRequests
    /\ requests' = requests \cup {Request(kind, j)}
    /\ UNCHANGED <<server, stream, page>>

\* submitJob, from the composer: once the health is known, not while a job is active.
SubmitJob ==
    /\ \A r \in Of("health") : ~r.mounting
    /\ ~Active(shown.status)
    /\ Sends("submit", None)

\* cancelActiveJob: the button is there for what is shown, the request is for the current job.
CancelActiveJob == current # None /\ Active(shown.status) /\ Sends("cancel", current)

\* onApprove, onRetry and onSubmitRevision of the panel of a job.
Approve == shown.job # None /\ shown.status = "awaiting" /\ Sends("approve", shown.job)
Retry == shown.job # None /\ shown.status = "over" /\ Sends("retry", shown.job)
Revise == shown.job # None /\ shown.status = "over" /\ Sends("revise", shown.job)

\* selectJob and showHistoricalJob; another job is not opened while one is active.
ShowHistoricalJob(j) ==
    /\ status[j] # "absent"
    /\ Active(shown.status) => current = j
    /\ Sends("show", j)

\* runAgain of the history.
RunAgain(j) == status[j] # "absent" /\ ~Active(shown.status) /\ Sends("rerun", j)

\* The refresh button.
RefreshHealth == ~ending /\ Sends("health", None)

\* The page becomes visible again.
BecomesVisible ==
    /\ Active(shown.status) /\ Click
    /\ Load(requests, current, TRUE, FALSE)
    /\ UNCHANGED <<server, stream, page>>

\* startNewRequest: the button is there when no job is active.
StartNewRequest ==
    /\ shown # Empty /\ ~Active(shown.status) /\ Click
    /\ shown' = Empty /\ ClearPoll /\ SetCurrentJob(None)
    /\ UNCHANGED <<server, seen, ending, requests>>

\* endCurrentSession.
EndCurrentSession ==
    /\ ~ending /\ Click
    /\ ending' = TRUE
    /\ ClearPoll /\ SetCurrentJob(None) /\ shown' = Empty
    /\ requests' = requests \cup {Request("end", None)}
    /\ UNCHANGED <<server, seen>>

\* The page is reloaded: what was under way is gone, the local storage is not.
ReloadApp ==
    /\ Click
    /\ current' = stored /\ shown' = Empty /\ timer' = FALSE /\ ending' = FALSE
    /\ stream' = Closed /\ seen' = [j \in Jobs |-> 0]
    /\ requests' = {Mounting}
    /\ UNCHANGED <<server, stored>>

----------------------------------------------------------------------------
(* What the server does with a request *)

Answered(r, answer, j, s) ==
    requests' = (requests \ {r}) \cup {[r EXCEPT !.answer = answer, !.job = j, !.status = s]}

\* An active job is queued or running, which the page does not tell apart: the health
\* names a running job, else one that awaits an approval, else a queued one; and a retry is
\* taken of every job but a running one.
Serve(r) ==
    /\ r.answer = "none" /\ ~down
    /\ \/ /\ r.kind \in {"load", "show"}
          /\ Answered(r, IF status[r.job] = "absent" THEN "missing" ELSE "ok", r.job, status[r.job])
          /\ UNCHANGED <<server, stream>>
       \/ /\ r.kind = "health"
          /\ \/ \E j \in Jobs : Active(status[j]) /\ Answered(r, "ok", j, status[j])
             \/ (\A j \in Jobs : ~Active(status[j])) /\ Answered(r, "ok", None, "absent")
          /\ UNCHANGED <<server, stream>>
       \/ /\ r.kind = "cancel" /\ Answered(r, "ok", r.job, "over")
          /\ IF Active(status[r.job]) THEN Record(r.job, "over", TRUE) /\ UNCHANGED down
             ELSE UNCHANGED <<server, stream>>
       \/ /\ \/ r.kind = "approve" /\ status[r.job] = "awaiting"
             \/ r.kind = "retry" /\ status[r.job] # "absent"
          /\ Answered(r, "ok", r.job, "active")
          /\ Record(r.job, "active", FALSE) /\ UNCHANGED down
       \/ /\ r.kind \in {"submit", "revise", "rerun"}
          /\ \E j \in Jobs : /\ status[j] = "absent"
                             /\ Answered(r, "ok", j, "active") /\ Record(j, "active", FALSE)
          /\ UNCHANGED down
       \/ /\ r.kind = "end" /\ Answered(r, "ok", None, "absent")
          /\ down' = TRUE
          /\ status' = [j \in Jobs |-> IF Active(status[j]) THEN "over" ELSE status[j]]
          /\ UNCHANGED <<log, stream>>
    /\ UNCHANGED <<page, incidents>>

\* The server refuses the request: it is not, or no longer, in place.
Refuse(r) ==
    /\ r.answer = "none" /\ ~down
    /\ \/ r.kind = "approve" /\ status[r.job] # "awaiting"
       \/ r.kind \in {"submit", "retry", "revise", "rerun"}
    /\ Answered(r, "failed", r.job, "absent")
    /\ UNCHANGED <<server, stream, page, incidents>>

\* The request does not reach the server, or the answer gets lost on the way back.
RequestFails(r) ==
    /\ r.answer # "failed"
    /\ \/ down /\ r.answer = "none" /\ UNCHANGED incidents
       \/ Fault
    /\ Answered(r, "failed", r.job, "absent")
    /\ UNCHANGED <<server, stream, page>>

----------------------------------------------------------------------------
(* What the page does with an answer *)

\* onMounted after its refresh of the health: a stored job is loaded, if it still runs.
Mounted(r, rest, j, view) ==
    IF r.mounting /\ view = Empty THEN Load(rest, j, FALSE, FALSE) ELSE requests' = rest

\* Mutant: a job that could not be loaded is not polled again.
LoadFailsOnce(r) ==
    /\ r.answer = "failed" /\ SameCurrentJob /\ UNCHANGED <<timer, shown>>

\* The job could not be loaded: another poll.
LoadFails(r) ==
    /\ r.answer = "failed" /\ SameCurrentJob /\ SchedulePoll /\ UNCHANGED shown

\* Mutant: the terminal job stays the current one.
LoadTellsAndKeeps(r) ==
    /\ r.answer = "ok" /\ (r.restore \/ Active(r.status))
    /\ shown' = [View(r.job, r.status) EXCEPT !.outdated = r.job # current]
    /\ SameCurrentJob
    /\ IF Active(r.status) THEN SchedulePoll ELSE ClearPoll

\* The job loaded is shown, whatever has become of the current job; a terminal one
\* is no longer followed.
LoadTells(r) ==
    /\ r.answer = "ok" /\ (r.restore \/ Active(r.status))
    /\ shown' = [View(r.job, r.status) EXCEPT !.outdated = r.job # current]
    /\ IF Active(r.status) THEN SameCurrentJob /\ SchedulePoll
       ELSE SetCurrentJob(None) /\ ClearPoll

\* The job is gone, or it is over and was only to be restored while running.
LoadForgets(r) ==
    /\ r.answer = "missing" \/ (r.answer = "ok" /\ ~r.restore /\ ~Active(r.status))
    /\ SetCurrentJob(None) /\ shown' = Empty /\ UNCHANGED timer

\* loadCurrentJob from its answer on.
LoadCurrentJob(r) ==
    /\ r.kind = "load" /\ r.answer # "none"
    /\ IF ending THEN SameCurrentJob /\ UNCHANGED <<shown, timer>>
       ELSE LoadFails(r) \/ LoadTells(r) \/ LoadForgets(r)
    /\ Mounted(r, requests \ {r}, current', shown')
    /\ UNCHANGED <<server, seen, ending, incidents>>

\* refreshHealth from its answer on: a job that runs becomes the current one.
HealthTells(r) ==
    LET found == r.answer = "ok" /\ r.job \notin {None, current} /\ ~ending
        rest == requests \ {r} IN
    /\ r.kind = "health" /\ r.answer # "none"
    /\ IF found THEN SetCurrentJob(r.job) /\ Load(rest, r.job, TRUE, r.mounting)
       ELSE SameCurrentJob /\ Mounted(r, rest, current, shown)
    /\ UNCHANGED <<server, seen, shown, timer, ending, incidents>>

\* Mutant: an updated job is shown and not followed.
JobUpdatedQuietly(j, s) == shown' = View(j, s) /\ SameCurrentJob /\ UNCHANGED timer

\* handleJobUpdated, and submitJob with a created job: it is shown and followed.
JobUpdated(j, s) ==
    /\ shown' = View(j, s)
    /\ IF Active(s) THEN SetCurrentJob(j) /\ SchedulePoll
       ELSE SameCurrentJob /\ UNCHANGED timer

\* The answers to what was clicked.  A history closed meanwhile drops the job it started.
AnswerArrives(r) ==
    /\ r.kind \notin {"load", "health"} /\ r.answer # "none"
    /\ \/ /\ r.answer = "ok" /\ r.kind \in {"submit", "approve", "retry", "revise", "rerun"}
          /\ JobUpdated(r.job, r.status) /\ UNCHANGED ending
       \/ /\ r.answer = "failed" /\ r.kind = "submit"
          /\ shown' = RequestError /\ SameCurrentJob /\ UNCHANGED <<timer, ending>>
       \/ /\ r.answer = "ok" /\ r.kind \in {"cancel", "show"}
          /\ shown' = View(r.job, r.status)
          /\ IF Active(r.status) THEN SetCurrentJob(r.job) /\ SchedulePoll
             ELSE SetCurrentJob(None) /\ ClearPoll
          /\ UNCHANGED ending
       \/ /\ r.answer # "ok" /\ r.kind \in {"cancel", "end"}
          /\ ending' = (ending /\ r.kind = "cancel")
          /\ SameCurrentJob /\ SchedulePoll /\ UNCHANGED shown
       \/ /\ \/ r.answer # "ok" /\ r.kind \in {"approve", "retry", "revise", "show"}
             \/ r.kind = "rerun"
             \/ r.answer = "ok" /\ r.kind = "end"
          /\ SameCurrentJob /\ UNCHANGED <<shown, timer, ending>>
    /\ requests' = requests \ {r}
    /\ UNCHANGED <<server, seen, incidents>>

\* The poll.
PollFires ==
    /\ timer /\ timer' = FALSE
    /\ Load(requests, current, TRUE, FALSE)
    /\ UNCHANGED <<server, stream, seen, current, stored, shown, ending, incidents>>

----------------------------------------------------------------------------
(* The event stream of the page *)

\* refreshFromEvent.
EventArrives ==
    LET j == stream.job
        event == Head(stream.queue) IN
    /\ stream.open /\ stream.queue # <<>>
    /\ seen' = IF event.id = 0 THEN seen ELSE [seen EXCEPT ![j] = event.id]
    /\ IF event.kind = "snapshot"
       THEN /\ shown' = View(j, event.status)
            /\ requests' = requests
            /\ IF Active(event.status)
               THEN /\ stream' = [stream EXCEPT !.queue = Tail(@)]
                    /\ UNCHANGED <<current, stored, timer>>
               ELSE ClearPoll /\ SetCurrentJob(None)
       ELSE /\ Load(requests, current, TRUE, FALSE)
            /\ stream' = IF event.kind = "final" THEN Closed
                         ELSE [stream EXCEPT !.queue = Tail(@)]
            /\ UNCHANGED <<shown, current, stored, timer>>
    /\ UNCHANGED <<server, ending, incidents>>

\* The connection fails, or there is nothing to subscribe to: the poll takes over.
StreamFails ==
    /\ stream # Closed
    /\ \/ Fault
       \/ (down \/ status[stream.job] = "absent") /\ UNCHANGED incidents
    /\ stream' = Closed
    /\ IF current = stream.job /\ Active(shown.status) THEN timer' = TRUE ELSE UNCHANGED timer
    /\ UNCHANGED <<server, seen, current, stored, shown, ending, requests>>

----------------------------------------------------------------------------

Clicks ==
    \/ SubmitJob \/ CancelActiveJob \/ Approve \/ Retry \/ Revise
    \/ \E j \in Jobs : ShowHistoricalJob(j) \/ RunAgain(j)
    \/ RefreshHealth \/ BecomesVisible \/ StartNewRequest \/ EndCurrentSession
    \/ ReloadApp

Server ==
    \/ \E j \in Jobs : JobChanges(j)
    \/ Subscribe
    \/ \E r \in requests : Serve(r) \/ Refuse(r) \/ RequestFails(r)

Page ==
    \/ \E r \in requests : LoadCurrentJob(r) \/ HealthTells(r) \/ AnswerArrives(r)
    \/ PollFires \/ EventArrives \/ StreamFails

Next == Clicks \/ Server \/ Page

Spec == Init /\ [][Next]_vars

\* A request for a job or the health gets its answer and the answer its handler, and
\* the timer runs out.  How long a job works and what the user does is open, and the
\* event stream may be silent.
Fairness ==
    /\ \A slot \in 0 .. MaxLoads :  \* 0 is the health
         LET Its == {r \in Of("load") \cup Of("health") : r.slot = slot} IN
         /\ WF_vars(\E r \in Its : Serve(r) \/ (down /\ RequestFails(r)))
         /\ WF_vars(\E r \in Its : LoadCurrentJob(r) \/ HealthTells(r))
    /\ WF_vars(PollFires)

FairSpec == Spec /\ Fairness

----------------------------------------------------------------------------
(* Properties *)

\* The stream belongs to the current job, and a reload finds that job: over all the
\* paths that change it, the three are changed together (App.vue 79-89).
OneJobFollowed == stored = current /\ stream.job \in {None, current}

\* The current job is never abandoned: unless the session ends, a poll is armed or a
\* request is under way that will arm it, whatever failed or came late before
\* (schedulePoll in App.vue 127-309, 325, 387).
CurrentIsFollowed ==
    current # None /\ ~ending =>
        timer \/ \E r \in requests : r.kind = "load" \/ r.mounting

\* An active job on the page is not frozen there: something is followed, and what is
\* loaded for it will replace what is shown.  The one way around this is an answer to
\* loadCurrentJob that comes when its job is no longer current (App.vue 277-289 do not
\* look at that): then the page shows an active job nothing updates.
ShownIsFollowed == Active(shown.status) => current # None \/ shown.outdated

\* The queue of a subscriber stays within its limit, and what it loses is noticed: every
\* event after the subscription is delivered, or in the queue, or a gap behind it is
\* (web_jobs.py 1006, 2375).
LossIsNoticed ==
    /\ Len(stream.queue) <= QueueLimit
    /\ stream.open =>
          \A id \in Max({stream.base, seen[stream.job]}) + 1 .. Len(log[stream.job]) :
              \E k \in DOMAIN stream.queue :
                  LET event == stream.queue[k] IN
                  event.id = id \/ (event.kind = "gap" /\ event.id >= id)

\* A job that is over does not stay the current one: the page shows its end, or moves
\* on, though events, answers and the stream itself got lost (App.vue 194-310).
FollowedToTheEnd ==
    \A j \in Jobs :
        (current = j /\ status[j] = "over") ~> (current # j \/ status[j] # "over" \/ ending \/ down)
=============================================================================
