---------------------------- MODULE AgentSession ----------------------------
(***************************************************************************)
(* A stage worked on over the bridge: the driver in Python                 *)
(* (drivers.py, llm_bridge.py) and the agent session of the bridge server  *)
(* (server.ts), which asks the model for turns and hands its tool calls to *)
(* the driver over an event stream; the results come back as requests of   *)
(* their own.  A stage that is left without its artifacts falls back to a  *)
(* single generation (/generate or /stream, llm.ts).                       *)
(*                                                                         *)
(* The server is one JavaScript thread: a request is a step up to its      *)
(* first await, and what an answered promise continues comes before the    *)
(* next request.  A stage uses several sessions one after the other, and a *)
(* session the driver has left shares nothing with the next: the variables *)
(* hold the latest.  Texts, usage and prompts are left out.                *)
(***************************************************************************)
EXTENDS Naturals, Sequences, FiniteSets

CONSTANTS
    MaxSessions,     \* max_agent_sessions of a stage
    MaxTurns,        \* turns of the model with tool calls, per session (a bound)
    MaxCalls,        \* tool calls in one turn (a bound)
    TurnBudget,      \* AGENT_MAX_TURNS, which counts tool calls
    CompletedLimit,  \* how many results are remembered
    MaxShots,        \* MAX_BRIDGE_TRANSPORT_ATTEMPTS
    MaxFaults,       \* lost connections, slow tools, repeated results (a bound)
    IdsRestart       \* the provider numbers the calls of every turn from zero

ASSUME ConstantsAssumption ==
    /\ MaxSessions \in Nat \ {0} /\ MaxTurns \in Nat \ {0} /\ MaxCalls \in Nat \ {0}
    /\ TurnBudget \in Nat /\ CompletedLimit \in Nat \ {0} /\ MaxShots \in Nat \ {0}
    /\ MaxFaults \in Nat
    /\ IdsRestart \in BOOLEAN

VARIABLES
    status,      \* of the session: "none", "open" or "closed"
    idle,        \* the time to live has passed since its last activity
    loop,        \* where runAgentSession is, the turn and its calls
    messages,    \* the conversation sent to the model: the calls with their results in it
    announced,   \* ids of the calls told to the driver
    queued,      \* results that came before the server waited for them
    completed,   \* results taken, oldest first
    wire,        \* the event stream as the driver sees it
    posts,       \* tool result requests under way
    shots,       \* the generation requests of the fallback
    driver,      \* the driver
    faults,      \* faults so far
    asked,       \* history: the calls announced in this session
    executed,    \* history: how many of them the driver executed
    touched,     \* history: a change came after the last accepted stage result
    lost         \* history: the start or the stop of this session was lost

session == <<status, idle, loop, messages, announced, queued, completed>>
history == <<asked, executed, touched, lost>>
vars == <<session, wire, posts, shots, driver, faults, history>>

Calls == (1 .. MaxTurns) \X (1 .. MaxCalls)
Position(call) == call[2]
NoCall == <<0, 0>>

\* The id the provider gives to a call: unique, or Gemini's "tool_<n>".
IdOf(call) == IF IdsRestart THEN <<0, Position(call)>> ELSE call

Results == [call : Calls, isError : BOOLEAN]
SameResult(left, right) == left.isError = right.isError

NoLoop == [pc |-> "none", turn |-> 0, calls |-> <<>>, at |-> 0, total |-> 0]
NoShot == [pc |-> "none", up |-> FALSE, said |-> "none"]

Init ==
    /\ status = "none" /\ idle = FALSE /\ loop = NoLoop
    /\ messages = <<>> /\ announced = {} /\ queued = {} /\ completed = <<>>
    /\ wire = [up |-> FALSE, events |-> <<>>]
    /\ posts = {}
    /\ shots = [n \in 1 .. MaxShots |-> NoShot]
    /\ driver = [pc |-> "start", session |-> 0, call |-> NoCall, why |-> "none", shot |-> 0,
                 artifacts |-> FALSE, result |-> FALSE, stale |-> FALSE, outcome |-> "none"]
    /\ faults = 0
    /\ asked = <<>> /\ executed = 0 /\ touched = FALSE /\ lost = FALSE

Fault == faults < MaxFaults /\ faults' = faults + 1

----------------------------------------------------------------------------
(* The event stream and the session table *)

StreamOn == loop.pc \in {"turn", "call", "pending"}

\* No continuation of an answered promise is outstanding.
Settled == loop.pc # "call"

\* send: an event goes out unless the client is gone.
Send(type, call) ==
    wire' = IF wire.up THEN [wire EXCEPT !.events = Append(@, [type |-> type, call |-> call])]
            ELSE wire

\* The stream says its last word and is closed; the session is not.
EndStream(word) ==
    /\ loop' = [loop EXCEPT !.pc = "over"]
    /\ Send(word, NoCall)

CloseSession ==
    /\ status' = "closed"
    /\ announced' = {} /\ queued' = {} /\ completed' = <<>>
    /\ IF loop.pc = "pending" THEN EndStream("error") ELSE UNCHANGED <<loop, wire>>

Found == status = "open" /\ ~idle

\* getAgentSession found nothing; a session past its time is closed on the way.
NotFound ==
    IF status = "open" THEN CloseSession
    ELSE UNCHANGED <<status, announced, queued, completed, loop, wire>>

\* The time to live passes; heartbeats keep a session with an open stream alive.
GoesIdle ==
    /\ status = "open" /\ ~idle /\ ~StreamOn
    /\ idle' = TRUE
    /\ UNCHANGED <<status, loop, messages, announced, queued, completed>>
    /\ UNCHANGED <<wire, posts, shots, driver, faults, history>>

----------------------------------------------------------------------------
(* The loop of a session: runAgentSession *)

LoopOnly == UNCHANGED <<status, posts, shots, driver, executed, touched, lost>>

\* Mutant: the call is sent before it is registered, and never registered.
ModelCallsUnannounced ==
    LET call == <<loop.turn, Len(loop.calls) + 1>> IN
    /\ loop.pc = "turn" /\ call \in Calls
    /\ loop' = [loop EXCEPT !.calls = Append(@, call)]
    /\ asked' = Append(asked, call)
    /\ Send("tool_call", call)
    /\ LoopOnly /\ UNCHANGED <<idle, messages, announced, queued, completed, faults>>

\* A tool-call event of the model: announced first, then sent.
ModelCalls ==
    LET call == <<loop.turn, Len(loop.calls) + 1>> IN
    /\ loop.pc = "turn" /\ call \in Calls
    /\ loop' = [loop EXCEPT !.calls = Append(@, call)]
    /\ announced' = announced \cup {IdOf(call)}
    /\ asked' = Append(asked, call)
    /\ Send("tool_call", call)
    /\ LoopOnly /\ UNCHANGED <<idle, messages, queued, completed, faults>>

\* Mutant: only the last call of a turn is waited for.
ModelStopsAtLast ==
    LET calls == loop.calls IN
    /\ loop.pc = "turn"
    /\ \/ calls = <<>> /\ EndStream("done")
       \/ /\ calls # <<>>
          /\ loop' = [loop EXCEPT !.pc = "call", !.at = Len(calls)]
          /\ UNCHANGED wire
    /\ LoopOnly /\ UNCHANGED <<idle, messages, announced, queued, completed, faults, asked>>

\* The end of a turn: done without calls, over the budget, or on to the results.  What
\* the model said goes into the conversation as well: it is the end of `asked`.
ModelStops ==
    LET calls == loop.calls
        total == loop.total + Len(calls) IN
    /\ loop.pc = "turn"
    /\ \/ calls = <<>> /\ EndStream("done")
       \/ calls # <<>> /\ total > TurnBudget /\ EndStream("budget")
       \/ /\ calls # <<>> /\ total <= TurnBudget
          /\ loop' = [loop EXCEPT !.pc = "call", !.at = 1, !.total = total]
          /\ UNCHANGED wire
    /\ LoopOnly /\ UNCHANGED <<idle, messages, announced, queued, completed, faults, asked>>

\* The provider, or the selection of it, fails.
ModelFails ==
    /\ loop.pc = "turn"
    /\ EndStream("error")
    /\ LoopOnly /\ UNCHANGED <<idle, messages, announced, queued, completed, faults, asked>>

\* Mutant: results are remembered without end.
RememberAll(known, result) == Append(known, result)

\* rememberCompletedToolResult: a Map keeps the place of a key it has; the oldest go.
Remember(known, result) ==
    LET same == {i \in DOMAIN known : IdOf(known[i].call) = IdOf(result.call)}
        longer == IF same = {} THEN Append(known, result)
                  ELSE [i \in DOMAIN known |-> IF i \in same THEN result ELSE known[i]]
    IN  IF Len(longer) > CompletedLimit THEN Tail(longer) ELSE longer

\* The result for the call the loop waits for: remembered, told to the model.
TakeResult(result) ==
    /\ announced' = announced \ {IdOf(result.call)}
    /\ completed' = Remember(completed, result)
    /\ messages' = Append(messages, result.call)
    /\ loop' = [loop EXCEPT !.pc = "call", !.at = @ + 1]

\* Mutant: a result that came early is not looked for.
AwaitLater ==
    /\ loop.pc = "call" /\ loop.at <= Len(loop.calls)
    /\ idle' = FALSE
    /\ loop' = [loop EXCEPT !.pc = "pending"]
    /\ UNCHANGED <<queued, announced, completed, messages>>
    /\ LoopOnly /\ UNCHANGED <<wire, faults, asked>>

\* waitForToolResult: a result in the queue is taken, or the call is pending.
AwaitResult ==
    LET found == {r \in queued : IdOf(r.call) = IdOf(loop.calls[loop.at])} IN
    /\ loop.pc = "call" /\ loop.at <= Len(loop.calls)
    /\ idle' = FALSE
    /\ \/ \E result \in found : TakeResult(result) /\ queued' = queued \ {result}
       \/ /\ found = {}
          /\ loop' = [loop EXCEPT !.pc = "pending"]
          /\ UNCHANGED <<queued, announced, completed, messages>>
    /\ LoopOnly /\ UNCHANGED <<wire, faults, asked>>

\* All calls of the turn are answered: the next turn, or the end of a closed session.
NextTurn ==
    /\ loop.pc = "call" /\ loop.at > Len(loop.calls)
    /\ IF status = "closed" THEN EndStream("done")
       ELSE /\ loop' = [loop EXCEPT !.pc = "turn", !.turn = @ + 1, !.calls = <<>>]
            /\ UNCHANGED wire
    /\ LoopOnly /\ UNCHANGED <<idle, messages, announced, queued, completed, faults, asked>>

\* Mutant: an abort does not reach a pending call.
ServerNoticesTurn ==
    /\ loop.pc = "turn" /\ ~wire.up
    /\ EndStream("cancelled")
    /\ LoopOnly /\ UNCHANGED <<idle, messages, announced, queued, completed, faults, asked>>

\* cancel() of the stream: the turn is interrupted, a pending call is given up.
ServerNotices ==
    /\ loop.pc \in {"turn", "pending"} /\ ~wire.up
    /\ EndStream("cancelled")
    /\ LoopOnly /\ UNCHANGED <<idle, messages, announced, queued, completed, faults, asked>>

\* The tool of a pending call runs longer than the time to live.
PendingTimesOut ==
    /\ loop.pc = "pending" /\ driver.pc = "tool" /\ Fault
    /\ EndStream("error")
    /\ LoopOnly /\ UNCHANGED <<idle, messages, announced, queued, completed, asked>>

----------------------------------------------------------------------------
(* Requests of the driver *)

Fail(why) == [driver EXCEPT !.pc = "stop", !.why = why]

\* agent_start; the answer may be lost, and with it the id of the session.
StartSession ==
    /\ driver.pc = "start"
    /\ status' = "open"
    /\ idle' = FALSE /\ loop' = NoLoop /\ messages' = <<>>
    /\ announced' = {} /\ queued' = {} /\ completed' = <<>>
    /\ wire' = [up |-> FALSE, events |-> <<>>]
    /\ posts' = {} /\ asked' = <<>> /\ executed' = 0
    /\ \/ /\ driver' = [driver EXCEPT !.pc = "open", !.session = @ + 1, !.why = "none",
                                       !.call = NoCall]
          /\ lost' = FALSE /\ UNCHANGED faults
       \/ /\ Fault /\ lost' = TRUE
          /\ driver' = [driver EXCEPT !.pc = "decide", !.session = @ + 1, !.why = "transient"]
    /\ UNCHANGED <<shots, touched>>

\* agent_events: the stream and the loop start.
OpenEvents ==
    /\ Settled /\ driver.pc = "open"
    /\ \/ /\ Found
          /\ loop' = [NoLoop EXCEPT !.pc = "turn", !.turn = 1]
          /\ wire' = [wire EXCEPT !.up = TRUE]
          /\ driver' = [driver EXCEPT !.pc = "read"]
          /\ UNCHANGED <<status, announced, queued, completed>>
       \/ /\ ~Found /\ NotFound
          /\ driver' = Fail("fatal")
    /\ UNCHANGED <<idle, messages, posts, shots, faults, history>>

\* The connection of the event stream breaks; some of what was sent arrives.
ConnectionBreaks ==
    /\ Settled /\ wire.up /\ Fault
    /\ \E n \in 0 .. Len(wire.events) :
         wire' = [up |-> FALSE, events |-> SubSeq(wire.events, 1, n)]
    /\ UNCHANGED <<session, posts, shots, driver, history>>

\* The driver reads an event: a call to execute, or the last word of the stream.
\* Its own budgets of turns and tokens may end the session at a call or at "done".
ReadEvent ==
    LET event == Head(wire.events) IN
    /\ driver.pc = "read" /\ wire.events # <<>>
    /\ \/ event.type = "tool_call" /\ driver' = [driver EXCEPT !.pc = "tool", !.call = event.call]
       \/ event.type = "done" /\ driver' = [driver EXCEPT !.pc = "stop"]
       \/ event.type \in {"tool_call", "done", "budget"} /\ driver' = Fail("budget")
       \/ event.type = "error" /\ driver' \in {Fail("transient"), Fail("fatal")}
    /\ wire' = [wire EXCEPT !.events = Tail(@)]
    /\ UNCHANGED <<session, posts, shots, faults, history>>

\* Mutant: only an orderly end of the stream is noticed.
StreamEndsOrderly ==
    /\ driver.pc = "read" /\ wire.events = <<>>
    /\ wire.up /\ loop.pc = "over"
    /\ driver' = Fail("transient")
    /\ UNCHANGED <<session, wire, posts, shots, faults, history>>

\* The stream ends without a last word: BRIDGE_STREAM_INTERRUPTED.
StreamInterrupted ==
    /\ driver.pc = "read" /\ wire.events = <<>>
    /\ ~wire.up \/ loop.pc = "over"
    /\ driver' = Fail("transient")
    /\ UNCHANGED <<session, wire, posts, shots, faults, history>>

Post(isError, own) ==
    [result |-> [call |-> driver.call, isError |-> isError], own |-> own, pc |-> "sent"]

\* A tool is executed and its result is sent.
Executes(state, isError) ==
    /\ driver.pc = "tool"
    /\ driver' = [state EXCEPT !.pc = "post"]
    /\ posts' = posts \cup {Post(isError, TRUE)}
    /\ executed' = executed + 1
    /\ UNCHANGED <<session, wire, shots, faults, asked, lost>>

\* Mutant: a change leaves a submitted stage result as it is.
ToolChangesQuietly ==
    /\ \E submitted \in {driver.artifacts, TRUE} :
         Executes([driver EXCEPT !.artifacts = submitted], FALSE)
    /\ touched' = TRUE

\* A tool that changes files or artifacts makes a submitted stage result stale.
ToolChanges ==
    /\ \E submitted \in {driver.artifacts, TRUE} :
         Executes([driver EXCEPT !.artifacts = submitted,
                                 !.result = FALSE,
                                 !.stale = @ \/ driver.result], FALSE)
    /\ touched' = TRUE

\* A tool fails or is refused, and changes nothing; one that only reads does no more.
ToolFails ==
    /\ Executes(driver, TRUE)
    /\ UNCHANGED touched

\* submit_stage_result is accepted.
ToolSubmits ==
    /\ Executes([driver EXCEPT !.result = TRUE, !.stale = FALSE], FALSE)
    /\ touched' = FALSE

\* A client sends a result again, after the answer to the first.
PostAgain ==
    /\ driver.pc = "read" /\ driver.call # NoCall /\ Fault
    /\ \E isError \in BOOLEAN : posts' = posts \cup {Post(isError, FALSE)}
    /\ UNCHANGED <<session, wire, shots, driver, history>>

\* A request for the stream or for a result fails: it is lost, refused outright, or
\* runs into its timeout.  The bridge may still get a result whose answer is lost.
RequestFails ==
    /\ Fault
    /\ \/ driver.pc = "open" /\ UNCHANGED posts
       \/ /\ driver.pc = "post"
          /\ posts' \in {posts, {post \in posts : ~post.own \/ post.result.call # driver.call}}
    /\ driver' \in {Fail("transient"), Fail("fatal")}
    /\ UNCHANGED <<session, wire, shots, history>>

\* The answer reaches the driver if it still waits for it.
Reply(post, code) ==
    driver' = IF ~post.own \/ driver.pc # "post" \/ driver.call # post.result.call THEN driver
              ELSE CASE code = 200 -> [driver EXCEPT !.pc = "read"]
                     [] code = 409 -> Fail("transient")
                     [] code = 404 -> Fail("fatal")

\* agentToolResult looks its session up before it awaits the body.
PostArrives(post) ==
    /\ Settled /\ post.pc = "sent"
    /\ \/ /\ Found
          /\ posts' = (posts \ {post}) \cup {[post EXCEPT !.pc = "body"]}
          /\ UNCHANGED <<driver, status, announced, queued, completed, loop, wire>>
       \/ /\ ~Found /\ NotFound
          /\ posts' = posts \ {post}
          /\ Reply(post, 404)
    /\ UNCHANGED <<idle, messages, shots, faults, history>>

TakenWithId(id) ==
    {r \in {completed[i] : i \in DOMAIN completed} \cup queued : IdOf(r.call) = id}

IsPending(id) == loop.pc = "pending" /\ IdOf(loop.calls[loop.at]) = id

\* With the body: completed, queued, pending and announced are tried in this order.
PostApplies(post) ==
    LET result == post.result
        id == IdOf(result.call)
        earlier == TakenWithId(id)
    IN
    /\ Settled /\ post.pc = "body"
    /\ posts' = posts \ {post}
    /\ \/ /\ earlier # {}
          /\ Reply(post, IF \A r \in earlier : SameResult(r, result) THEN 200 ELSE 409)
          /\ idle' = FALSE
          /\ UNCHANGED <<queued, announced, completed, messages, loop>>
       \/ /\ earlier = {} /\ IsPending(id)
          /\ TakeResult(result)
          /\ Reply(post, 200)
          /\ idle' = FALSE /\ UNCHANGED queued
       \/ /\ earlier = {} /\ ~IsPending(id) /\ id \in announced
          /\ queued' = queued \cup {result}
          /\ Reply(post, 200)
          /\ idle' = FALSE /\ UNCHANGED <<announced, completed, messages, loop>>
       \/ /\ earlier = {} /\ ~IsPending(id) /\ id \notin announced
          /\ Reply(post, 404)
          /\ UNCHANGED <<idle, queued, announced, completed, messages, loop>>
    /\ UNCHANGED <<status, wire, shots, faults, history>>

----------------------------------------------------------------------------
(* The end of a session *)

\* Mutant: a session that failed is left without a stop.
HangUpOnly ==
    /\ driver.pc = "stop"
    /\ wire' = [up |-> FALSE, events |-> <<>>]
    /\ driver' = [driver EXCEPT !.pc = IF driver.why = "none" THEN "delete" ELSE "decide"]
    /\ UNCHANGED <<session, posts, shots, faults, history>>

\* The generator of events is closed, and with it the connection.
HangUp ==
    /\ driver.pc = "stop"
    /\ wire' = [up |-> FALSE, events |-> <<>>]
    /\ driver' = [driver EXCEPT !.pc = "delete"]
    /\ UNCHANGED <<session, posts, shots, faults, history>>

\* agent_stop: the session is closed, unless the request is lost.
DeleteSession ==
    /\ Settled /\ driver.pc = "delete"
    /\ driver' = [driver EXCEPT !.pc = "decide"]
    /\ \/ /\ IF Found THEN CloseSession ELSE NotFound
          /\ UNCHANGED <<faults, lost>>
       \/ /\ Fault /\ lost' = TRUE
          /\ UNCHANGED <<status, announced, queued, completed, loop, wire>>
    /\ UNCHANGED <<idle, messages, posts, shots, asked, executed, touched>>

Ends(outcome) == [driver EXCEPT !.pc = "done", !.outcome = outcome, !.call = NoCall, !.why = "none"]

DriverOnly == UNCHANGED <<session, wire, posts, shots, faults, history>>

\* After a session: stop, accept what is complete, give up, or open another one.
Decide ==
    LET complete == driver.artifacts /\ driver.result
        another == driver.session < MaxSessions IN
    /\ driver.pc = "decide"
    /\ \/ driver.why = "interrupted" /\ driver' = Ends("interrupted")
       \/ /\ driver.why # "interrupted" /\ complete
          /\ driver' = [driver EXCEPT !.pc = "finish"]
       \/ /\ driver.why \in {"budget", "fatal"} \/ (driver.why = "transient" /\ ~another)
          /\ ~complete /\ driver' = Ends("failed")
       \/ /\ driver.why \in {"none", "transient"} /\ another
          /\ ~complete /\ driver' = [driver EXCEPT !.pc = "start"]
       \/ /\ driver.why = "none" /\ ~another
          /\ ~complete /\ driver' = [driver EXCEPT !.pc = "finish"]
    /\ DriverOnly

\* After the last session: the fallback for missing artifacts, or the verdict.
Finish ==
    /\ driver.pc = "finish"
    /\ \/ ~driver.artifacts /\ driver' = [driver EXCEPT !.pc = "fallback"]
       \/ driver.artifacts /\ ~driver.result /\ driver.stale /\ driver' = Ends("stale")
       \/ driver.artifacts /\ (driver.result \/ ~driver.stale) /\ driver' = Ends("success")
    /\ DriverOnly

\* The stage is cancelled or its deadline passes while the driver waits.
Interrupted ==
    /\ \/ driver.pc \in {"open", "read", "post"} /\ driver' = Fail("interrupted")
       \/ driver.pc \in {"start", "fallback", "shot"} /\ driver' = Ends("interrupted")
    /\ shots' = [n \in 1 .. MaxShots |-> [shots[n] EXCEPT !.up = FALSE]]
    /\ UNCHANGED <<session, wire, posts, faults, history>>

----------------------------------------------------------------------------
(* One-shot generation: generateHandler, streamHandler and llm.ts *)

ShotOnly == UNCHANGED <<session, wire, posts, history>>

\* The request of the fallback, by either of the client's two calls.
RequestShot ==
    LET n == driver.shot + 1 IN
    /\ driver.pc = "fallback"
    /\ driver' = [driver EXCEPT !.pc = "shot", !.shot = n]
    /\ shots' = [shots EXCEPT ![n] = [NoShot EXCEPT !.pc = "resolve", !.up = TRUE]]
    /\ ShotOnly /\ UNCHANGED faults

ShotSays(n, word) == shots' = [shots EXCEPT ![n].pc = "over", ![n].said = word]

\* resolveRequest: the selection is read and checked; then the signal is looked at.
ResolveShot(n) ==
    /\ shots[n].pc = "resolve"
    /\ \/ ShotSays(n, "refused")
       \/ ~shots[n].up /\ ShotSays(n, "cancelled")
       \/ shots[n].up /\ shots' = [shots EXCEPT ![n].pc = "run"]
    /\ ShotOnly /\ UNCHANGED <<driver, faults>>

\* The provider answers or fails; an abort ends the request as cancelled.
RunShot(n) ==
    /\ shots[n].pc = "run"
    /\ \/ shots[n].up /\ \E word \in {"done", "error"} : ShotSays(n, word)
       \/ ~shots[n].up /\ ShotSays(n, "cancelled")
    /\ ShotOnly /\ UNCHANGED <<driver, faults>>

Retried == IF driver.shot < MaxShots THEN [driver EXCEPT !.pc = "fallback"] ELSE Ends("failed")

\* The connection of the request breaks; the driver asks again or gives up.
ShotBreaks ==
    /\ driver.pc = "shot" /\ Fault
    /\ shots' = [shots EXCEPT ![driver.shot].up = FALSE]
    /\ driver' = Retried
    /\ ShotOnly

\* The answer: applied, refused as an envelope, repeated or given up.
ReadShot ==
    LET shot == shots[driver.shot] IN
    /\ driver.pc = "shot" /\ shot.pc = "over"
    /\ \/ shot.said = "done" /\ driver' \in {Ends("recovered"), Ends("failed")}
       \/ shot.said = "error" /\ driver' \in {Retried, Ends("failed")}
       \/ shot.said = "refused" /\ driver' = Ends("failed")
    /\ ShotOnly /\ UNCHANGED <<shots, faults>>

----------------------------------------------------------------------------
Terminated == driver.pc = "done" /\ UNCHANGED vars

Server ==
    \/ ModelCalls \/ ModelStops \/ ModelFails \/ AwaitResult \/ NextTurn \/ ServerNotices
    \/ \E post \in posts : PostArrives(post) \/ PostApplies(post)

ServesShot(n) == ResolveShot(n) \/ RunShot(n)

Driver ==
    \/ StartSession \/ OpenEvents \/ ReadEvent \/ StreamInterrupted
    \/ ToolChanges \/ ToolFails \/ ToolSubmits
    \/ HangUp \/ DeleteSession \/ Decide \/ Finish
    \/ RequestShot \/ ReadShot

Environment ==
    \/ GoesIdle \/ PendingTimesOut \/ ConnectionBreaks \/ PostAgain \/ ShotBreaks
    \/ RequestFails \/ Interrupted

Next ==
    \/ Server
    \/ \E n \in 1 .. MaxShots : ServesShot(n)
    \/ Driver
    \/ Environment
    \/ Terminated

Spec == Init /\ [][Next]_vars

\* Every process goes on: the provider ends its turns, tools return.
FairSpec ==
    /\ Spec
    /\ WF_vars(Server) /\ WF_vars(Driver)
    /\ \A n \in 1 .. MaxShots : WF_vars(ServesShot(n))

----------------------------------------------------------------------------
(* Properties *)

Events == [type : {"tool_call", "done", "budget", "error", "cancelled"}, call : Calls \cup {NoCall}]

\* Every variable has its type: the states a session, a stream, a request and the
\* driver can be in (server.ts:153-170, drivers.py:840-1060).
TypeOK ==
    /\ status \in {"none", "open", "closed"} /\ idle \in BOOLEAN
    /\ loop.pc \in {"none", "turn", "call", "pending", "over"}
    /\ loop.calls \in Seq(Calls) /\ {loop.turn, loop.at, loop.total} \subseteq Nat
    /\ announced \subseteq {IdOf(call) : call \in Calls}
    /\ queued \subseteq Results
    /\ completed \in Seq(Results) /\ Len(completed) <= CompletedLimit
    /\ wire.up \in BOOLEAN /\ wire.events \in Seq(Events)
    /\ posts \subseteq [result : Results, own : BOOLEAN, pc : {"sent", "body"}]
    /\ driver.session \in 0 .. MaxSessions /\ driver.shot \in 0 .. MaxShots
    /\ driver.call \in Calls \cup {NoCall}
    /\ faults \in 0 .. MaxFaults

\* The bridge and the driver never wait for each other: when the driver waits for the
\* next event and none is under way, the bridge does not wait for a result
\* (the race of server.ts:214 with server.ts:769).
NoMutualWait ==
    ~ /\ driver.pc = "read" /\ wire.up /\ wire.events = <<>>
      /\ loop.pc = "pending"

\* The driver's result, if it gets an answer, is refused only when its session is
\* closed: an early one is kept, and none conflicts with the result of another call
\* (server.ts:777-803).
ResultIsTaken ==
    [][/\ driver.pc = "post" /\ driver'.pc = "stop" /\ driver'.why \in {"transient", "fatal"}
       /\ UNCHANGED faults
       => status' = "closed"]_vars

\* A stage is reported as finished by its own submission only if nothing was changed
\* after it, over all sessions of the stage (drivers.py:1016-1021).
SuccessIsCurrent ==
    driver.outcome = "success" /\ driver.result => ~touched

\* A session the driver has left is closed, unless its start or its stop was lost
\* (drivers.py:1080, server.ts:806).
NoOrphan ==
    driver.pc \in {"start", "finish", "fallback", "shot", "done"} /\ driver.session > 0
    => status = "closed" \/ lost

\* Calls are executed and answered once, in order, and a turn ends before the next
\* begins: the session implements AgentExchange.
Exchange == INSTANCE AgentExchange WITH asked <- asked, executed <- executed, answered <- messages
ExchangeKept == [][driver.pc = "start" \/ Exchange!Next \/ UNCHANGED Exchange!vars]_vars

\* The driver returns, whatever is lost, cancelled or refused on the way: the start and
\* the stop of a session, its stream, a result or the answer to it, a generation
\* (drivers.py:1024-1130, llm_bridge.py:233-246).
DriverReturns == <>(driver.pc = "done")

\* No loop of the server outlives its driver (server.ts:662, 236).
LoopsEnd == driver.pc = "done" ~> ~StreamOn
=============================================================================
