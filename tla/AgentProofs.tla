----------------------------- MODULE AgentProofs -----------------------------
(***************************************************************************)
(* Proofs about a stage worked on over the bridge, for any number of       *)
(* sessions, turns, calls, requests and faults.                            *)
(***************************************************************************)
EXTENDS AgentSession, TLAPS

-----------------------------------------------------------------------------
(* Types, and the phases of the driver *)

\* driver, loop and wire have the fields they are updated by.
ShapeInv ==
    /\ driver = [pc |-> driver.pc, session |-> driver.session, call |-> driver.call,
                 why |-> driver.why, shot |-> driver.shot, artifacts |-> driver.artifacts,
                 result |-> driver.result, stale |-> driver.stale, outcome |-> driver.outcome]
    /\ loop = [pc |-> loop.pc, turn |-> loop.turn, calls |-> loop.calls, at |-> loop.at,
               total |-> loop.total]
    /\ wire = [up |-> wire.up, events |-> wire.events]

Left == {"decide", "finish", "fallback", "shot", "done"}

\* A session may be started, and a shot fired, only while there are some left.
PhaseInv ==
    /\ driver.pc \in {"start", "open", "read", "tool", "post", "stop", "delete"} \cup Left
    /\ driver.pc = "start" => driver.session < MaxSessions
    /\ driver.pc = "fallback" => driver.shot < MaxShots
    /\ driver.pc \notin {"fallback", "shot", "done"} => driver.shot = 0
    /\ driver.pc \notin {"start", "done"} => driver.session > 0

\* An accepted stage result is current.
ResultInv == driver.result => ~touched

\* What the driver has left is closed, unless a request was lost.
LeftInv ==
    /\ driver.session > 0 => status # "none"
    /\ driver.pc \in {"start"} \cup Left /\ driver.session > 0 => status = "closed" \/ lost

\* The driver executes, and posts the result of, a call of the model.
Callable(events) == \A i \in DOMAIN events : events[i].type = "tool_call" => events[i].call \in Calls
CallInv == Callable(wire.events) /\ (driver.pc \in {"tool", "post"} => driver.call \in Calls)

LEMMA ShapeInit == Init => ShapeInv /\ PhaseInv /\ ResultInv /\ LeftInv
  BY ConstantsAssumption DEF Init, ShapeInv, PhaseInv, ResultInv, LeftInv, NoLoop, Left

LEMMA EndStreamShape ==
    ASSUME ShapeInv, NEW word, EndStream(word)
    PROVE  /\ loop' = [pc |-> "over", turn |-> loop.turn, calls |-> loop.calls, at |-> loop.at,
                       total |-> loop.total]
           /\ wire' = [up |-> wire.up, events |-> wire'.events]
  BY DEF EndStream, Send, ShapeInv

LEMMA CloseShape ==
    ASSUME ShapeInv, status \in {"none", "open", "closed"}, CloseSession \/ NotFound
    PROVE  /\ loop' = [pc |-> loop'.pc, turn |-> loop.turn, calls |-> loop.calls, at |-> loop.at,
                       total |-> loop.total]
           /\ loop'.pc \in {loop.pc, "over"}
           /\ wire' = [up |-> wire.up, events |-> wire'.events]
           /\ status' \in {status, "closed"}
           /\ status # "none" => status' = "closed"
<1>1. status' \in {status, "closed"} /\ (status # "none" => status' = "closed")
  BY DEF CloseSession, NotFound
<1>2. CASE EndStream("error")
  <2>1. loop' = [pc |-> "over", turn |-> loop.turn, calls |-> loop.calls, at |-> loop.at,
                 total |-> loop.total]
        /\ wire' = [up |-> wire.up, events |-> wire'.events]
    BY <1>2, EndStreamShape
  <2> QED
    BY <1>1, <2>1
<1>3. CASE UNCHANGED <<loop, wire>>
  BY <1>1, <1>3 DEF ShapeInv
<1> QED
  BY <1>2, <1>3 DEF CloseSession, NotFound

LEMMA LoopShape ==
    ASSUME ShapeInv, \/ ModelCalls \/ ModelStops \/ ModelFails \/ AwaitResult \/ NextTurn
                     \/ ServerNotices \/ PendingTimesOut
    PROVE  ShapeInv' /\ UNCHANGED <<status, driver, touched, lost>>
<1> USE DEF LoopOnly
<1>1. UNCHANGED <<status, driver, touched, lost>>
  BY DEF ModelCalls, ModelStops, ModelFails, AwaitResult, NextTurn, ServerNotices, PendingTimesOut
<1>2. CASE \E word \in {"done", "budget", "error", "cancelled"} : EndStream(word)
  <2>1. loop' = [pc |-> "over", turn |-> loop.turn, calls |-> loop.calls, at |-> loop.at,
                 total |-> loop.total]
        /\ wire' = [up |-> wire.up, events |-> wire'.events]
    BY <1>2, EndStreamShape
  <2> QED
    BY <1>1, <2>1 DEF ShapeInv
<1>3. CASE ModelCalls
  BY <1>1, <1>3 DEF ModelCalls, Send, ShapeInv
<1>4. CASE AwaitResult
  BY <1>1, <1>4 DEF AwaitResult, TakeResult, ShapeInv
<1>5. CASE NextTurn /\ status # "closed"
  <2>1. loop' = [pc |-> "turn", turn |-> loop.turn + 1, calls |-> <<>>, at |-> loop.at,
                 total |-> loop.total]
        /\ UNCHANGED wire
    BY <1>5 DEF NextTurn, ShapeInv
  <2> QED
    BY <1>1, <2>1 DEF ShapeInv
<1>6. CASE UNCHANGED wire /\ \E n : loop' = [loop EXCEPT !.pc = "call", !.at = 1, !.total = n]
  BY <1>1, <1>6 DEF ShapeInv
<1> QED
  BY <1>2, <1>3, <1>4, <1>5, <1>6
     DEF ModelStops, ModelFails, NextTurn, ServerNotices, PendingTimesOut, EndStream

LEMMA PostShape ==
    ASSUME ShapeInv, status \in {"none", "open", "closed"},
           NEW post \in posts, PostArrives(post) \/ PostApplies(post)
    PROVE  /\ ShapeInv' /\ UNCHANGED <<touched, lost>>
           /\ status' \in {status, "closed"}
           /\ driver'.session = driver.session /\ driver'.result = driver.result
           /\ driver'.shot = driver.shot
           /\ UNCHANGED driver \/ (driver.pc = "post" /\ driver'.pc \in {"read", "stop"})
<1>1. status' \in {status, "closed"} /\ UNCHANGED <<touched, lost>>
  BY CloseShape DEF PostArrives, PostApplies, history
<1>2. ShapeInv' /\ driver'.session = driver.session /\ driver'.result = driver.result
      /\ driver'.shot = driver.shot
      /\ (UNCHANGED driver \/ (driver.pc = "post" /\ driver'.pc \in {"read", "stop"}))
  <2>1. ASSUME \E code \in {200, 404, 409} : Reply(post, code)
        PROVE  /\ UNCHANGED driver \/ (driver.pc = "post" /\ driver'.pc \in {"read", "stop"})
               /\ driver'.session = driver.session /\ driver'.result = driver.result
               /\ driver'.shot = driver.shot
               /\ driver' = [pc |-> driver'.pc, session |-> driver'.session, call |-> driver'.call,
                             why |-> driver'.why, shot |-> driver'.shot,
                             artifacts |-> driver'.artifacts, result |-> driver'.result,
                             stale |-> driver'.stale, outcome |-> driver'.outcome]
    <3>1. \/ UNCHANGED driver
          \/ driver.pc = "post" /\ driver' \in {[driver EXCEPT !.pc = "read"],
               [driver EXCEPT !.pc = "stop", !.why = "transient"],
               [driver EXCEPT !.pc = "stop", !.why = "fatal"]}
      BY <2>1 DEF Reply, Fail
    <3> QED
      BY <3>1 DEF ShapeInv
  <2>2. UNCHANGED driver \/ \E code \in {200, 404, 409} : Reply(post, code)
    BY DEF PostArrives, PostApplies
  <2>3. /\ loop' = [pc |-> loop'.pc, turn |-> loop'.turn, calls |-> loop'.calls, at |-> loop'.at,
                    total |-> loop'.total]
        /\ wire' = [up |-> wire'.up, events |-> wire'.events]
    <3>1. CASE PostArrives(post)
      BY <3>1, CloseShape DEF PostArrives, ShapeInv
    <3>2. CASE PostApplies(post)
      BY <3>2 DEF PostApplies, TakeResult, ShapeInv
    <3> QED
      BY <3>1, <3>2
  <2> QED
    BY <2>1, <2>2, <2>3 DEF ShapeInv
<1> QED
  BY <1>1, <1>2

\* Steps in which the driver alone moves on.
LEMMA DriverShape ==
    ASSUME ShapeInv, PhaseInv, ResultInv, LeftInv,
           UNCHANGED <<loop, status, lost>>, wire' = [up |-> wire'.up, events |-> wire'.events],
           driver' = [pc |-> driver'.pc, session |-> driver'.session, call |-> driver'.call,
                      why |-> driver'.why, shot |-> driver'.shot,
                      artifacts |-> driver'.artifacts, result |-> driver'.result,
                      stale |-> driver'.stale, outcome |-> driver'.outcome],
           driver'.session = driver.session,
           driver'.result => ~touched',
           driver'.pc \in {"start", "open", "read", "tool", "post", "stop", "delete"} \cup Left,
           driver'.pc = "start" => driver'.session < MaxSessions,
           driver'.pc = "fallback" => driver'.shot < MaxShots,
           driver'.pc \notin {"fallback", "shot", "done"} => driver'.shot = 0,
           driver'.pc \in {"start"} \cup Left => driver.pc \in {"start"} \cup Left,
           driver'.pc \in {"start", "done"} \/ driver.pc \notin {"start", "done"}
    PROVE  ShapeInv' /\ PhaseInv' /\ ResultInv' /\ LeftInv'
  BY DEF ShapeInv, PhaseInv, ResultInv, LeftInv

\* A failed request sends the driver to the end of the session, and touches no more.
LEMMA FailureEffects ==
    ASSUME ShapeInv, RequestFails
    PROVE  /\ UNCHANGED <<session, wire, shots, history>> /\ posts' \subseteq posts /\ Fault
           /\ driver' = [pc |-> "stop", session |-> driver.session, call |-> driver.call,
                         why |-> driver'.why, shot |-> driver.shot,
                         artifacts |-> driver.artifacts, result |-> driver.result,
                         stale |-> driver.stale, outcome |-> driver.outcome]
           /\ driver.pc \in {"open", "post"} /\ driver'.why \in {"transient", "fatal"}
<1>1. UNCHANGED <<session, wire, shots, history>> /\ posts' \subseteq posts /\ Fault
  BY DEF RequestFails
<1>2. driver.pc \in {"open", "post"} /\ driver' \in {Fail("transient"), Fail("fatal")}
  BY DEF RequestFails
<1> QED
  BY <1>1, <1>2 DEF ShapeInv, Fail

LEMMA DriverNext ==
    ASSUME ShapeInv, PhaseInv, ResultInv, LeftInv,
           \/ ReadEvent \/ StreamInterrupted \/ ToolChanges \/ ToolFails \/ ToolSubmits
           \/ HangUp \/ Decide \/ Finish \/ RequestShot \/ ReadShot \/ Interrupted \/ ShotBreaks
           \/ RequestFails
    PROVE  ShapeInv' /\ PhaseInv' /\ ResultInv' /\ LeftInv'
<1> DEFINE Kept == driver' = [pc |-> driver'.pc, session |-> driver'.session, call |-> driver'.call,
                      why |-> driver'.why, shot |-> driver'.shot,
                      artifacts |-> driver'.artifacts, result |-> driver'.result,
                      stale |-> driver'.stale, outcome |-> driver'.outcome]
<1> USE DEF ShapeInv, Left, session, history
<1>1. CASE ReadEvent \/ StreamInterrupted \/ HangUp
  <2>1. /\ Kept /\ UNCHANGED <<loop, status, lost, touched>>
        /\ driver'.session = driver.session /\ driver'.result = driver.result
        /\ driver'.shot = driver.shot
        /\ driver.pc \in {"read", "stop"} /\ driver'.pc \in {"tool", "stop", "delete"}
        /\ wire' = [up |-> wire'.up, events |-> wire'.events]
    BY <1>1 DEF ReadEvent, StreamInterrupted, HangUp, Fail
  <2> HIDE DEF ShapeInv
  <2> QED
    BY <2>1, DriverShape DEF PhaseInv, ResultInv
<1>2. CASE ToolChanges \/ ToolFails \/ ToolSubmits
  <2>1. /\ Kept /\ UNCHANGED <<loop, status, lost, wire>>
        /\ driver'.session = driver.session /\ driver'.shot = driver.shot
        /\ driver.pc = "tool" /\ driver'.pc = "post"
    BY <1>2 DEF ToolChanges, ToolFails, ToolSubmits, Executes
  <2>2. driver'.result => ~touched'
    BY <1>2 DEF ToolChanges, ToolFails, ToolSubmits, Executes, ResultInv
  <2>3. wire' = [up |-> wire'.up, events |-> wire'.events]
    BY <2>1
  <2> HIDE DEF ShapeInv
  <2> QED
    BY <2>1, <2>2, <2>3, DriverShape DEF PhaseInv
<1>3. CASE Decide \/ Finish
  <2>1. /\ Kept /\ UNCHANGED <<loop, status, lost, wire, touched>>
        /\ driver'.session = driver.session /\ driver'.shot = driver.shot
        /\ driver'.result = driver.result
        /\ driver.pc \in {"decide", "finish"}
        /\ \/ driver'.pc \in {"done", "finish"}
           \/ driver.pc = "finish" /\ driver'.pc = "fallback"
           \/ driver'.pc = "start" /\ driver.session < MaxSessions
    BY <1>3 DEF Decide, Finish, Ends, DriverOnly
  <2>2. wire' = [up |-> wire'.up, events |-> wire'.events]
    BY <2>1
  <2> HIDE DEF ShapeInv
  <2> QED
    BY <2>1, <2>2, DriverShape, ConstantsAssumption DEF PhaseInv, ResultInv
<1>4. CASE RequestShot \/ ReadShot \/ ShotBreaks
  <2>1. /\ Kept /\ UNCHANGED <<loop, status, lost, wire, touched>>
        /\ driver'.session = driver.session /\ driver'.result = driver.result
        /\ driver.pc \in {"fallback", "shot"}
        /\ \/ driver'.pc \in {"shot", "done"}
           \/ driver'.pc = "fallback" /\ driver'.shot < MaxShots
    BY <1>4 DEF RequestShot, ReadShot, ShotBreaks, ShotOnly, Retried, Ends
  <2>2. wire' = [up |-> wire'.up, events |-> wire'.events]
    BY <2>1
  <2> HIDE DEF ShapeInv
  <2> QED
    BY <2>1, <2>2, DriverShape DEF PhaseInv, ResultInv
<1>5. CASE Interrupted
  <2>1. /\ Kept /\ UNCHANGED <<loop, status, lost, wire, touched>>
        /\ driver'.session = driver.session /\ driver'.result = driver.result
        /\ driver'.shot = driver.shot
        /\ \/ driver.pc \in {"open", "read", "post"} /\ driver'.pc = "stop"
           \/ driver.pc \in {"start", "fallback", "shot"} /\ driver'.pc = "done"
    BY <1>5 DEF Interrupted, Fail, Ends
  <2>2. wire' = [up |-> wire'.up, events |-> wire'.events]
    BY <2>1
  <2> HIDE DEF ShapeInv
  <2> QED
    BY <2>1, <2>2, DriverShape DEF PhaseInv, ResultInv
<1>6. CASE RequestFails
  <2>1. /\ Kept /\ UNCHANGED <<loop, status, lost, wire, touched>>
        /\ driver'.session = driver.session /\ driver'.result = driver.result
        /\ driver'.shot = driver.shot
        /\ driver.pc \in {"open", "post"} /\ driver'.pc = "stop"
    BY <1>6, FailureEffects
  <2>2. wire' = [up |-> wire'.up, events |-> wire'.events]
    BY <2>1
  <2> HIDE DEF ShapeInv
  <2> QED
    BY <2>1, <2>2, DriverShape DEF PhaseInv, ResultInv
<1> QED
  BY <1>1, <1>2, <1>3, <1>4, <1>5, <1>6

LEMMA SessionNext ==
    ASSUME ShapeInv, PhaseInv, ResultInv, LeftInv, status \in {"none", "open", "closed"},
           driver.session \in Nat, StartSession \/ OpenEvents \/ DeleteSession
    PROVE  ShapeInv' /\ PhaseInv' /\ ResultInv' /\ LeftInv'
<1>1. CASE StartSession
  <2>1. /\ driver' = [driver EXCEPT !.pc = "open", !.session = @ + 1, !.why = "none", !.call = NoCall]
           \/ /\ driver' = [driver EXCEPT !.pc = "decide", !.session = @ + 1, !.why = "transient"]
              /\ lost'
        /\ driver.pc = "start" /\ status' = "open" /\ UNCHANGED touched
        /\ loop' = NoLoop /\ wire' = [up |-> FALSE, events |-> <<>>]
    BY <1>1 DEF StartSession
  <2>2. /\ driver'.session = driver.session + 1 /\ driver'.result = driver.result
        /\ driver'.shot = driver.shot
        /\ driver'.pc = "open" \/ (driver'.pc = "decide" /\ lost')
    BY <2>1 DEF ShapeInv
  <2>3. ShapeInv'
    BY <2>1 DEF ShapeInv, NoLoop
  <2> QED
    BY <2>1, <2>2, <2>3 DEF PhaseInv, ResultInv, LeftInv, Left
<1>2. CASE OpenEvents
  <2>1. /\ driver.pc = "open" /\ driver'.pc \in {"read", "stop"}
        /\ driver'.session = driver.session /\ driver'.result = driver.result
        /\ driver'.shot = driver.shot /\ UNCHANGED <<touched, lost>>
    BY <1>2 DEF OpenEvents, Fail, ShapeInv, history
  <2>2. ShapeInv' /\ status' \in {status, "closed"}
    <3>1. CASE ~Found /\ NotFound
      BY <1>2, <3>1, CloseShape DEF OpenEvents, Fail, ShapeInv
    <3>2. CASE Found
      BY <1>2, <3>2 DEF OpenEvents, ShapeInv, NoLoop
    <3> QED
      BY <1>2, <3>1, <3>2 DEF OpenEvents
  <2> QED
    BY <2>1, <2>2 DEF PhaseInv, ResultInv, LeftInv, Left
<1>3. CASE DeleteSession
  <2>1. /\ driver.pc = "delete" /\ driver'.pc = "decide"
        /\ driver'.session = driver.session /\ driver'.result = driver.result
        /\ driver'.shot = driver.shot /\ UNCHANGED touched
    BY <1>3 DEF DeleteSession, ShapeInv
  <2>2. ShapeInv' /\ status' \in {status, "closed"} /\ (status' = "closed" \/ lost')
    <3>1. CASE CloseSession \/ NotFound
      BY <1>3, <3>1, CloseShape DEF DeleteSession, ShapeInv, PhaseInv, LeftInv
    <3>2. CASE UNCHANGED <<status, loop, wire>> /\ lost'
      BY <1>3, <3>2 DEF DeleteSession, ShapeInv
    <3> QED
      BY <1>3, <3>1, <3>2 DEF DeleteSession
  <2> QED
    BY <2>1, <2>2 DEF PhaseInv, ResultInv, LeftInv, Left
<1> QED
  BY <1>1, <1>2, <1>3

LEMMA PhaseNext ==
    ASSUME ShapeInv, PhaseInv, ResultInv, LeftInv, status \in {"none", "open", "closed"},
           driver.session \in Nat, [Next]_vars
    PROVE  ShapeInv' /\ PhaseInv' /\ ResultInv' /\ LeftInv'
<1>1. CASE UNCHANGED vars
  BY <1>1 DEF vars, session, history, ShapeInv, PhaseInv, ResultInv, LeftInv
<1>2. CASE \/ ModelCalls \/ ModelStops \/ ModelFails \/ AwaitResult \/ NextTurn
           \/ ServerNotices \/ PendingTimesOut
  BY <1>2, LoopShape DEF PhaseInv, ResultInv, LeftInv
<1>3. CASE \E post \in posts : PostArrives(post) \/ PostApplies(post)
  BY <1>3, PostShape DEF PhaseInv, ResultInv, LeftInv, Left
<1>4. CASE GoesIdle \/ PostAgain \/ ConnectionBreaks \/ \E n \in 1 .. MaxShots : ServesShot(n)
  <2>1. UNCHANGED <<driver, loop, status, touched, lost>>
        /\ wire' = [up |-> wire'.up, events |-> wire'.events]
    BY <1>4 DEF GoesIdle, PostAgain, ConnectionBreaks, ServesShot, ResolveShot, RunShot, ShotOnly,
                session, history, ShapeInv
  <2> QED
    BY <2>1 DEF ShapeInv, PhaseInv, ResultInv, LeftInv
<1> QED
  BY <1>1, <1>2, <1>3, <1>4, DriverNext, SessionNext
     DEF Next, Server, Driver, Environment, Terminated

-----------------------------------------------------------------------------
(* Type correctness *)

LEMMA TypeInit == Init => TypeOK
<1> SUFFICES ASSUME Init PROVE TypeOK
  OBVIOUS
<1>1. /\ status = "none" /\ idle = FALSE /\ announced = {} /\ queued = {} /\ completed = <<>>
      /\ posts = {} /\ faults = 0 /\ loop = NoLoop
      /\ wire.up = FALSE /\ wire.events = <<>>
      /\ driver.session = 0 /\ driver.shot = 0 /\ driver.call = NoCall
  BY DEF Init
<1>2. loop.pc = "none" /\ loop.calls = <<>> /\ loop.turn = 0 /\ loop.at = 0 /\ loop.total = 0
  BY <1>1 DEF NoLoop
<1>3. /\ loop.calls \in Seq(Calls) /\ completed \in Seq(Results) /\ wire.events \in Seq(Events)
      /\ Len(completed) = 0
  BY <1>1, <1>2
<1>4. driver.call \in Calls \cup {NoCall}
  BY <1>1
<1>5. /\ loop.pc \in {"none", "turn", "call", "pending", "over"}
      /\ {loop.turn, loop.at, loop.total} \subseteq Nat
  BY <1>2
<1>6. /\ Len(completed) <= CompletedLimit /\ driver.session \in 0 .. MaxSessions
      /\ driver.shot \in 0 .. MaxShots /\ faults \in 0 .. MaxFaults
  BY <1>1, <1>3, ConstantsAssumption
<1>7. /\ announced \subseteq {IdOf(call) : call \in Calls} /\ queued \subseteq Results
      /\ posts \subseteq [result : Results, own : BOOLEAN, pc : {"sent", "body"}]
  BY <1>1
<1>8. status \in {"none", "open", "closed"} /\ idle \in BOOLEAN /\ wire.up \in BOOLEAN
  BY <1>1
<1> QED
  BY <1>3, <1>4, <1>5, <1>6, <1>7, <1>8 DEF TypeOK

LEMMA SentType ==
    ASSUME TypeOK, ShapeInv, NEW type \in {"tool_call", "done", "budget", "error", "cancelled"},
           NEW call \in Calls \cup {NoCall}, Send(type, call)
    PROVE  wire'.up = wire.up /\ wire'.events \in Seq(Events)
<1>1. [type |-> type, call |-> call] \in Events
  BY DEF Events
<1>2. CASE wire.up
  <2>1. wire'.events = Append(wire.events, [type |-> type, call |-> call]) /\ wire'.up = wire.up
    BY <1>2 DEF Send, ShapeInv
  <2> QED
    BY <1>1, <2>1 DEF TypeOK
<1>3. CASE ~wire.up
  BY <1>3 DEF Send, TypeOK
<1> QED
  BY <1>2, <1>3

LEMMA RememberType ==
    ASSUME NEW known \in Seq(Results), Len(known) <= CompletedLimit, NEW result \in Results
    PROVE  /\ Remember(known, result) \in Seq(Results)
           /\ Len(Remember(known, result)) <= CompletedLimit
           /\ \A k \in DOMAIN Remember(known, result) :
                \/ Remember(known, result)[k] = result
                \/ \E l \in DOMAIN known : Remember(known, result)[k] = known[l]
<1> DEFINE same == {i \in DOMAIN known : IdOf(known[i].call) = IdOf(result.call)}
           longer == IF same = {} THEN Append(known, result)
                     ELSE [i \in DOMAIN known |-> IF i \in same THEN result ELSE known[i]]
<1>1. Remember(known, result) = IF Len(longer) > CompletedLimit THEN Tail(longer) ELSE longer
  BY DEF Remember
<1>2. /\ longer \in Seq(Results) /\ Len(longer) <= Len(known) + 1
      /\ \A k \in DOMAIN longer : longer[k] = result \/ \E l \in DOMAIN known : longer[k] = known[l]
  <2>1. CASE same = {}
    <3>1. longer = Append(known, result)
      BY <2>1
    <3> QED
      BY <3>1
  <2>2. CASE same # {}
    <3>1. longer = [i \in 1 .. Len(known) |-> IF i \in same THEN result ELSE known[i]]
      BY <2>2
    <3> HIDE DEF same
    <3>2. \A i \in 1 .. Len(known) : longer[i] \in Results
      BY <3>1
    <3>3. longer \in Seq(Results) /\ Len(longer) = Len(known)
      BY <3>1, <3>2
    <3> QED
      BY <3>1, <3>3
  <2> QED
    BY <2>1, <2>2
<1> HIDE DEF longer
<1>3. CASE Len(longer) > CompletedLimit
  <2>1. Remember(known, result) = Tail(longer) /\ longer # <<>>
    BY <1>1, <1>2, <1>3, ConstantsAssumption
  <2>2. Tail(longer) \in Seq(Results) /\ Len(Tail(longer)) = Len(longer) - 1
        /\ \A k \in DOMAIN Tail(longer) : Tail(longer)[k] = longer[k + 1] /\ k + 1 \in DOMAIN longer
    BY <1>2, <2>1
  <2> QED
    BY <1>2, <2>1, <2>2, ConstantsAssumption
<1>4. CASE ~(Len(longer) > CompletedLimit)
  BY <1>1, <1>2, <1>4, ConstantsAssumption
<1> QED
  BY <1>3, <1>4

\* The parts of TypeOK that a step may change.
LEMMA TypeStep ==
    ASSUME TypeOK,
           status' \in {"none", "open", "closed"}, idle' \in BOOLEAN,
           loop'.pc \in {"none", "turn", "call", "pending", "over"},
           loop'.calls \in Seq(Calls), loop'.turn \in Nat, loop'.at \in Nat, loop'.total \in Nat,
           announced' \subseteq {IdOf(call) : call \in Calls}, queued' \subseteq Results,
           completed' \in Seq(Results), Len(completed') <= CompletedLimit,
           wire'.up \in BOOLEAN, wire'.events \in Seq(Events),
           posts' \subseteq [result : Results, own : BOOLEAN, pc : {"sent", "body"}],
           driver'.session \in 0 .. MaxSessions, driver'.shot \in 0 .. MaxShots,
           driver'.call \in Calls \cup {NoCall}, faults' \in 0 .. MaxFaults
    PROVE  TypeOK'
  BY DEF TypeOK

LEMMA FaultType == ASSUME TypeOK, UNCHANGED faults \/ Fault PROVE faults' \in 0 .. MaxFaults
  BY ConstantsAssumption DEF Fault, TypeOK

LEMMA EndStreamType ==
    ASSUME TypeOK, ShapeInv, NEW word \in {"done", "budget", "error", "cancelled"}, EndStream(word)
    PROVE  /\ loop'.pc = "over" /\ loop'.calls = loop.calls /\ loop'.turn = loop.turn
           /\ loop'.at = loop.at /\ loop'.total = loop.total
           /\ wire'.up = wire.up /\ wire'.events \in Seq(Events)
<1>1. Send(word, NoCall)
  BY DEF EndStream
<1>2. wire'.up = wire.up /\ wire'.events \in Seq(Events)
  BY <1>1, SentType
<1> QED
  BY <1>2, EndStreamShape

LEMMA CloseType ==
    ASSUME TypeOK, ShapeInv, CloseSession \/ NotFound
    PROVE  /\ loop'.pc \in {"none", "turn", "call", "pending", "over"}
           /\ loop'.calls \in Seq(Calls) /\ loop'.turn \in Nat /\ loop'.at \in Nat
           /\ loop'.total \in Nat
           /\ wire'.up \in BOOLEAN /\ wire'.events \in Seq(Events)
           /\ status' \in {"none", "open", "closed"}
           /\ announced' \subseteq {IdOf(call) : call \in Calls} /\ queued' \subseteq Results
           /\ completed' \in Seq(Results) /\ Len(completed') <= CompletedLimit
<1>1. /\ status' \in {status, "closed"}
      /\ announced' \in {announced, {}} /\ queued' \in {queued, {}}
      /\ completed' \in {completed, <<>>}
  BY DEF CloseSession, NotFound
<1>2. /\ status' \in {"none", "open", "closed"}
      /\ announced' \subseteq {IdOf(call) : call \in Calls} /\ queued' \subseteq Results
  BY <1>1 DEF TypeOK
<1>3. completed' \in Seq(Results) /\ Len(completed') <= CompletedLimit
  <2>1. CASE completed' = completed
    BY <2>1 DEF TypeOK
  <2>2. CASE completed' = <<>>
    <3>1. completed' \in Seq(Results) /\ Len(completed') = 0
      BY <2>2
    <3> QED
      BY <3>1, ConstantsAssumption
  <2> QED
    BY <1>1, <2>1, <2>2
<1>4. CASE EndStream("error")
  BY <1>2, <1>3, <1>4, EndStreamType DEF TypeOK
<1>5. CASE UNCHANGED <<loop, wire>>
  BY <1>2, <1>3, <1>5 DEF TypeOK
<1> QED
  BY <1>4, <1>5 DEF CloseSession, NotFound

LEMMA TakeType ==
    ASSUME TypeOK, ShapeInv, NEW result \in Results, TakeResult(result)
    PROVE  /\ announced' \subseteq announced
           /\ completed' \in Seq(Results) /\ Len(completed') <= CompletedLimit
           /\ loop'.pc = "call" /\ loop'.calls = loop.calls /\ loop'.turn = loop.turn
           /\ loop'.at = loop.at + 1 /\ loop'.total = loop.total
           /\ \A k \in DOMAIN completed' :
                completed'[k] = result \/ \E l \in DOMAIN completed : completed'[k] = completed[l]
<1>1. completed \in Seq(Results) /\ Len(completed) <= CompletedLimit
  BY DEF TypeOK
<1>2. completed' = Remember(completed, result)
  BY DEF TakeResult
<1>3. loop'.pc = "call" /\ loop'.calls = loop.calls /\ loop'.turn = loop.turn
      /\ loop'.at = loop.at + 1 /\ loop'.total = loop.total
  BY DEF TakeResult, ShapeInv
<1> QED
  BY <1>1, <1>2, <1>3, RememberType DEF TakeResult

LEMMA LoopType ==
    ASSUME TypeOK, ShapeInv,
           \/ ModelCalls \/ ModelStops \/ ModelFails \/ AwaitResult \/ NextTurn
           \/ ServerNotices \/ PendingTimesOut
    PROVE  TypeOK'
<1>1. /\ status' = status /\ posts' = posts /\ driver' = driver
      /\ UNCHANGED faults \/ Fault
  BY DEF ModelCalls, ModelStops, ModelFails, AwaitResult, NextTurn, ServerNotices,
         PendingTimesOut, LoopOnly
<1>2. faults' \in 0 .. MaxFaults
  BY <1>1, FaultType
<1>3. CASE ModelCalls
  <2> DEFINE call == <<loop.turn, Len(loop.calls) + 1>>
  <2>1. /\ call \in Calls /\ Send("tool_call", call) /\ UNCHANGED <<idle, queued, completed>>
        /\ loop' = [loop EXCEPT !.calls = Append(@, call)]
        /\ announced' = announced \cup {IdOf(call)}
    BY <1>3 DEF ModelCalls
  <2>2. wire'.up = wire.up /\ wire'.events \in Seq(Events)
    BY <2>1, SentType
  <2>3. /\ loop'.pc = loop.pc /\ loop'.turn = loop.turn /\ loop'.at = loop.at
        /\ loop'.total = loop.total /\ loop'.calls = Append(loop.calls, call)
    BY <2>1 DEF ShapeInv
  <2> HIDE DEF call
  <2>4. loop'.calls \in Seq(Calls) /\ announced' \subseteq {IdOf(c) : c \in Calls}
    BY <2>1, <2>3 DEF TypeOK
  <2> QED
    BY <1>1, <1>2, <2>1, <2>2, <2>3, <2>4, TypeStep DEF TypeOK
<1>4. CASE ModelStops
  <2>1. UNCHANGED <<idle, announced, queued, completed>>
    BY <1>4 DEF ModelStops
  <2>2. CASE \E word \in {"done", "budget"} : EndStream(word)
    BY <1>1, <1>2, <2>1, <2>2, EndStreamType, TypeStep DEF TypeOK
  <2>3. CASE UNCHANGED wire /\ loop' = [loop EXCEPT !.pc = "call", !.at = 1,
                                                     !.total = loop.total + Len(loop.calls)]
    <3>1. /\ loop'.pc = "call" /\ loop'.calls = loop.calls /\ loop'.turn = loop.turn
          /\ loop'.at = 1 /\ loop'.total = loop.total + Len(loop.calls)
      BY <2>3 DEF ShapeInv
    <3>2. Len(loop.calls) \in Nat /\ loop.total \in Nat
      BY DEF TypeOK
    <3>3. loop'.at \in Nat /\ loop'.total \in Nat
      BY <3>1, <3>2
    <3> QED
      BY <1>1, <1>2, <2>1, <2>3, <3>1, <3>3, TypeStep DEF TypeOK
  <2> QED
    BY <1>4, <2>2, <2>3 DEF ModelStops
<1>5. CASE ModelFails \/ ServerNotices \/ PendingTimesOut
  <2>1. UNCHANGED <<idle, announced, queued, completed>>
        /\ \E word \in {"error", "cancelled"} : EndStream(word)
    BY <1>5 DEF ModelFails, ServerNotices, PendingTimesOut
  <2> QED
    BY <1>1, <1>2, <2>1, EndStreamType, TypeStep DEF TypeOK
<1>6. CASE AwaitResult
  <2>1. wire' = wire /\ idle' = FALSE
    BY <1>6 DEF AwaitResult
  <2>2. CASE \E result \in queued : TakeResult(result) /\ queued' = queued \ {result}
    <3>1. PICK result \in queued : TakeResult(result) /\ queued' = queued \ {result}
      BY <2>2
    <3>2. result \in Results /\ loop.at + 1 \in Nat
      BY DEF TypeOK
    <3> QED
      BY <1>1, <1>2, <2>1, <3>1, <3>2, TakeType, TypeStep DEF TypeOK
  <2>3. CASE /\ loop' = [loop EXCEPT !.pc = "pending"]
             /\ UNCHANGED <<queued, announced, completed>>
    <3>1. /\ loop'.pc = "pending" /\ loop'.calls = loop.calls /\ loop'.turn = loop.turn
          /\ loop'.at = loop.at /\ loop'.total = loop.total
      BY <2>3 DEF ShapeInv
    <3> QED
      BY <1>1, <1>2, <2>1, <2>3, <3>1, TypeStep DEF TypeOK
  <2> QED
    BY <1>6, <2>2, <2>3 DEF AwaitResult
<1>7. CASE NextTurn
  <2>1. UNCHANGED <<idle, announced, queued, completed>>
    BY <1>7 DEF NextTurn
  <2>2. CASE EndStream("done")
    BY <1>1, <1>2, <2>1, <2>2, EndStreamType, TypeStep DEF TypeOK
  <2>3. CASE UNCHANGED wire /\ loop' = [loop EXCEPT !.pc = "turn", !.turn = @ + 1, !.calls = <<>>]
    <3>1. /\ loop'.pc = "turn" /\ loop'.calls = <<>> /\ loop'.turn = loop.turn + 1
          /\ loop'.at = loop.at /\ loop'.total = loop.total
      BY <2>3 DEF ShapeInv
    <3>2. loop'.turn \in Nat /\ loop'.calls \in Seq(Calls)
      BY <3>1 DEF TypeOK
    <3> QED
      BY <1>1, <1>2, <2>1, <2>3, <3>1, <3>2, TypeStep DEF TypeOK
  <2> QED
    BY <1>7, <2>2, <2>3 DEF NextTurn
<1> QED
  BY <1>3, <1>4, <1>5, <1>6, <1>7

LEMMA PostType ==
    ASSUME TypeOK, ShapeInv, NEW post \in posts, PostArrives(post) \/ PostApplies(post)
    PROVE  TypeOK' /\ driver'.call = driver.call
<1>1. UNCHANGED faults /\ faults' \in 0 .. MaxFaults
  BY DEF PostArrives, PostApplies, TypeOK
<1>2. post.result \in Results
  BY DEF TypeOK
<1>3. posts' \subseteq [result : Results, own : BOOLEAN, pc : {"sent", "body"}]
  <2>1. post \in [result : Results, own : BOOLEAN, pc : {"sent", "body"}]
    BY DEF TypeOK
  <2>2. [post EXCEPT !.pc = "body"] \in [result : Results, own : BOOLEAN, pc : {"sent", "body"}]
    BY <2>1
  <2>3. posts' \subseteq posts \cup {[post EXCEPT !.pc = "body"]}
    BY DEF PostArrives, PostApplies
  <2> QED
    BY <2>2, <2>3 DEF TypeOK
<1>4. UNCHANGED driver \/ \E code \in {200, 404, 409} : Reply(post, code)
  BY DEF PostArrives, PostApplies
<1>5. /\ driver'.session = driver.session /\ driver'.shot = driver.shot
      /\ driver'.call = driver.call
  <2>1. \/ UNCHANGED driver
        \/ driver' \in {[driver EXCEPT !.pc = "read"],
             [driver EXCEPT !.pc = "stop", !.why = "transient"],
             [driver EXCEPT !.pc = "stop", !.why = "fatal"]}
    BY <1>4 DEF Reply, Fail
  <2> QED
    BY <2>1 DEF ShapeInv
<1>6. CASE PostArrives(post)
  <2>1. idle' = idle
    BY <1>6 DEF PostArrives
  <2>2. NotFound \/ UNCHANGED <<status, announced, queued, completed, loop, wire>>
    BY <1>6 DEF PostArrives
  <2>3. CASE NotFound
    <3>1. idle' \in BOOLEAN /\ driver'.session \in 0 .. MaxSessions
          /\ driver'.shot \in 0 .. MaxShots /\ driver'.call \in Calls \cup {NoCall}
      BY <1>5, <2>1 DEF TypeOK
    <3> QED
      BY <1>1, <1>3, <1>5, <2>3, <3>1, CloseType, TypeStep
  <2>4. CASE UNCHANGED <<status, announced, queued, completed, loop, wire>>
    BY <1>1, <1>3, <1>5, <2>1, <2>4, TypeStep DEF TypeOK
  <2> QED
    BY <1>5, <2>2, <2>3, <2>4
<1>7. CASE PostApplies(post)
  <2>1. UNCHANGED <<status, wire>> /\ idle' \in BOOLEAN
        /\ queued' \subseteq queued \cup {post.result}
    BY <1>7 DEF PostApplies, TypeOK
  <2>2. CASE TakeResult(post.result)
    <3>1. loop.at + 1 \in Nat
      BY DEF TypeOK
    <3> QED
      BY <1>1, <1>2, <1>3, <1>5, <2>1, <2>2, <3>1, TakeType, TypeStep DEF TypeOK
  <2>3. CASE UNCHANGED <<announced, completed, loop>>
    BY <1>1, <1>2, <1>3, <1>5, <2>1, <2>3, TypeStep DEF TypeOK
  <2> QED
    BY <1>7, <2>2, <2>3 DEF PostApplies
<1> QED
  BY <1>6, <1>7

\* What a step of the driver alone may change of the types.
LEMMA DriverTypeStep ==
    ASSUME TypeOK,
           UNCHANGED <<status, loop, announced, queued, completed, idle>>,
           wire'.up \in BOOLEAN, wire'.events \in Seq(Events),
           posts' \subseteq [result : Results, own : BOOLEAN, pc : {"sent", "body"}],
           driver'.session \in 0 .. MaxSessions, driver'.shot \in 0 .. MaxShots,
           driver'.call \in Calls \cup {NoCall}, UNCHANGED faults \/ Fault
    PROVE  TypeOK'
<1>1. faults' \in 0 .. MaxFaults
  BY FaultType
<1> QED
  BY <1>1, TypeStep DEF TypeOK

LEMMA DriverType ==
    ASSUME TypeOK, ShapeInv, PhaseInv, CallInv,
           \/ ReadEvent \/ StreamInterrupted \/ ToolChanges \/ ToolFails \/ ToolSubmits
           \/ HangUp \/ Decide \/ Finish \/ RequestShot \/ ReadShot \/ Interrupted \/ ShotBreaks
           \/ RequestFails
    PROVE  TypeOK'
<1> USE DEF ShapeInv, session, history
<1>0. /\ driver.session \in 0 .. MaxSessions /\ driver.shot \in 0 .. MaxShots
      /\ driver.call \in Calls \cup {NoCall} /\ wire.up \in BOOLEAN /\ wire.events \in Seq(Events)
      /\ posts \subseteq [result : Results, own : BOOLEAN, pc : {"sent", "body"}]
  BY DEF TypeOK
<1>1. CASE ReadEvent
  <2>1. Head(wire.events) \in Events /\ Tail(wire.events) \in Seq(Events)
    BY <1>0, <1>1 DEF ReadEvent
  <2>2. /\ UNCHANGED <<status, loop, announced, queued, completed, idle, posts, faults>>
        /\ wire'.up = wire.up /\ wire'.events = Tail(wire.events)
        /\ driver'.session = driver.session /\ driver'.shot = driver.shot
        /\ driver'.call \in {driver.call, Head(wire.events).call}
    BY <1>1 DEF ReadEvent, Fail
  <2>3. Head(wire.events).call \in Calls \cup {NoCall}
    BY <2>1 DEF Events
  <2> HIDE DEF ShapeInv
  <2> QED
    BY <1>0, <2>1, <2>2, <2>3, DriverTypeStep
<1>2. CASE StreamInterrupted \/ HangUp
  <2>1. /\ UNCHANGED <<status, loop, announced, queued, completed, idle, posts, faults>>
        /\ driver'.session = driver.session /\ driver'.shot = driver.shot
        /\ driver'.call = driver.call
        /\ UNCHANGED wire \/ wire' = [up |-> FALSE, events |-> <<>>]
    <3>1. /\ UNCHANGED <<status, loop, announced, queued, completed, idle, posts, faults>>
          /\ UNCHANGED wire \/ wire' = [up |-> FALSE, events |-> <<>>]
      BY <1>2 DEF StreamInterrupted, HangUp
    <3>2. /\ driver'.session = driver.session /\ driver'.shot = driver.shot
          /\ driver'.call = driver.call
      BY <1>2 DEF StreamInterrupted, HangUp, Fail
    <3> QED
      BY <3>1, <3>2
  <2>2. <<>> \in Seq(Events)
    OBVIOUS
  <2>3. wire'.up \in BOOLEAN /\ wire'.events \in Seq(Events)
    <3>1. CASE UNCHANGED wire
      BY <1>0, <3>1
    <3>2. CASE wire' = [up |-> FALSE, events |-> <<>>]
      BY <2>2, <3>2
    <3> QED
      BY <2>1, <3>1, <3>2
  <2>4. /\ driver'.session \in 0 .. MaxSessions /\ driver'.shot \in 0 .. MaxShots
        /\ driver'.call \in Calls \cup {NoCall}
        /\ posts' \subseteq [result : Results, own : BOOLEAN, pc : {"sent", "body"}]
    BY <1>0, <2>1
  <2>5. /\ UNCHANGED <<status, loop, announced, queued, completed, idle>>
        /\ UNCHANGED faults
    BY <2>1
  <2> HIDE DEF ShapeInv
  <2> QED
    BY <2>3, <2>4, <2>5, DriverTypeStep
<1>3. CASE ToolChanges \/ ToolFails \/ ToolSubmits
  <2>1. /\ UNCHANGED <<status, loop, announced, queued, completed, idle, wire, faults>>
        /\ driver'.session = driver.session /\ driver'.shot = driver.shot
        /\ driver'.call = driver.call /\ driver.pc = "tool"
        /\ \E isError \in BOOLEAN : posts' = posts \cup {Post(isError, TRUE)}
    BY <1>3 DEF ToolChanges, ToolFails, ToolSubmits, Executes
  <2>2. driver.call \in Calls
    BY <2>1 DEF CallInv
  <2>3. \A isError \in BOOLEAN :
          Post(isError, TRUE) \in [result : Results, own : BOOLEAN, pc : {"sent", "body"}]
    BY <2>2 DEF Post, Results
  <2> HIDE DEF ShapeInv
  <2> QED
    BY <1>0, <2>1, <2>3, DriverTypeStep
<1>4. CASE Decide \/ Finish \/ Interrupted \/ ReadShot \/ ShotBreaks
  <2>1. /\ UNCHANGED <<status, loop, announced, queued, completed, idle, wire, posts>>
        /\ UNCHANGED faults \/ Fault
        /\ driver'.session = driver.session /\ driver'.shot = driver.shot
        /\ driver'.call \in {driver.call, NoCall}
    BY <1>4 DEF Decide, Finish, Interrupted, ReadShot, ShotBreaks, ShotOnly, DriverOnly, Retried,
                Ends, Fail
  <2> HIDE DEF ShapeInv
  <2> QED
    BY <1>0, <2>1, DriverTypeStep
<1>5. CASE RequestShot
  <2>1. /\ UNCHANGED <<status, loop, announced, queued, completed, idle, wire, posts, faults>>
        /\ driver'.session = driver.session /\ driver'.shot = driver.shot + 1
        /\ driver'.call = driver.call /\ driver.shot < MaxShots
    BY <1>5 DEF RequestShot, ShotOnly, PhaseInv
  <2>2. driver'.shot \in 0 .. MaxShots
    BY <1>0, <2>1, ConstantsAssumption
  <2> HIDE DEF ShapeInv
  <2> QED
    BY <1>0, <2>1, <2>2, DriverTypeStep
<1>6. CASE RequestFails
  <2>1. /\ UNCHANGED <<status, loop, announced, queued, completed, idle, wire>>
        /\ posts' \subseteq posts /\ Fault
        /\ driver'.session = driver.session /\ driver'.shot = driver.shot
        /\ driver'.call = driver.call
    BY <1>6, FailureEffects
  <2> HIDE DEF ShapeInv
  <2> QED
    BY <1>0, <2>1, DriverTypeStep
<1> QED
  BY <1>1, <1>2, <1>3, <1>4, <1>5, <1>6

LEMMA SessionType ==
    ASSUME TypeOK, ShapeInv, PhaseInv, StartSession \/ OpenEvents \/ DeleteSession
    PROVE  TypeOK'
<1>0. UNCHANGED faults \/ Fault
  BY DEF StartSession, OpenEvents, DeleteSession
<1>1. /\ faults' \in 0 .. MaxFaults
      /\ driver.session \in 0 .. MaxSessions /\ driver.shot \in 0 .. MaxShots
      /\ driver.call \in Calls \cup {NoCall}
  BY <1>0, FaultType DEF TypeOK
<1>2. CASE StartSession
  <2>1. /\ status' = "open" /\ idle' = FALSE /\ loop' = NoLoop
        /\ announced' = {} /\ queued' = {} /\ completed' = <<>>
        /\ wire' = [up |-> FALSE, events |-> <<>>] /\ posts' = {}
        /\ driver'.session = driver.session + 1 /\ driver'.shot = driver.shot
        /\ driver'.call \in {driver.call, NoCall} /\ driver.session < MaxSessions
    BY <1>2 DEF StartSession, ShapeInv, PhaseInv
  <2>2. loop'.pc = "none" /\ loop'.calls = <<>> /\ loop'.turn = 0 /\ loop'.at = 0 /\ loop'.total = 0
    BY <2>1 DEF NoLoop
  <2>3. /\ loop'.calls \in Seq(Calls) /\ completed' \in Seq(Results) /\ Len(completed') = 0
        /\ wire'.up = FALSE /\ wire'.events \in Seq(Events)
    BY <2>1, <2>2
  <2>4. driver'.session \in 0 .. MaxSessions
    BY <1>1, <2>1, ConstantsAssumption
  <2>5. loop'.turn \in Nat /\ loop'.at \in Nat /\ loop'.total \in Nat
        /\ Len(completed') <= CompletedLimit
    BY <2>2, <2>3, ConstantsAssumption
  <2>6. /\ announced' \subseteq {IdOf(call) : call \in Calls} /\ queued' \subseteq Results
        /\ posts' \subseteq [result : Results, own : BOOLEAN, pc : {"sent", "body"}]
    BY <2>1
  <2>7. driver'.call \in Calls \cup {NoCall} /\ driver'.shot \in 0 .. MaxShots
    BY <1>1, <2>1
  <2> QED
    BY <1>1, <2>1, <2>2, <2>3, <2>4, <2>5, <2>6, <2>7, TypeStep
<1>3. CASE OpenEvents \/ DeleteSession
  <2>1. /\ driver'.session = driver.session /\ driver'.shot = driver.shot
        /\ driver'.call = driver.call /\ UNCHANGED <<idle, posts>>
    BY <1>3 DEF OpenEvents, DeleteSession, Fail, ShapeInv
  <2>2. CASE CloseSession \/ NotFound
    <3>1. idle' \in BOOLEAN
          /\ posts' \subseteq [result : Results, own : BOOLEAN, pc : {"sent", "body"}]
      BY <2>1 DEF TypeOK
    <3> QED
      BY <1>1, <2>1, <2>2, <3>1, CloseType, TypeStep
  <2>3. CASE UNCHANGED <<status, announced, queued, completed, loop, wire>>
    BY <1>1, <2>1, <2>3, TypeStep DEF TypeOK
  <2>4. CASE /\ OpenEvents /\ Found
    <3>1. /\ loop'.pc = "turn" /\ loop'.turn = 1 /\ loop'.calls = <<>> /\ loop'.at = 0
          /\ loop'.total = 0 /\ wire'.up = TRUE /\ wire'.events = wire.events
          /\ UNCHANGED <<status, announced, queued, completed>>
      BY <2>4 DEF OpenEvents, NoLoop, ShapeInv
    <3>2. loop'.calls \in Seq(Calls) /\ loop'.turn \in Nat /\ loop'.at \in Nat
          /\ loop'.total \in Nat
      BY <3>1
    <3>3. /\ wire'.up \in BOOLEAN /\ wire'.events \in Seq(Events) /\ idle' \in BOOLEAN
          /\ posts' \subseteq [result : Results, own : BOOLEAN, pc : {"sent", "body"}]
      BY <2>1, <3>1 DEF TypeOK
    <3>4. /\ status' \in {"none", "open", "closed"} /\ queued' \subseteq Results
          /\ announced' \subseteq {IdOf(call) : call \in Calls}
          /\ completed' \in Seq(Results) /\ Len(completed') <= CompletedLimit
      BY <3>1 DEF TypeOK
    <3> QED
      BY <1>1, <2>1, <3>1, <3>2, <3>3, <3>4, TypeStep
  <2> QED
    BY <1>3, <2>2, <2>3, <2>4 DEF OpenEvents, DeleteSession
<1> QED
  BY <1>2, <1>3

LEMMA EnvironmentType ==
    ASSUME TypeOK, ShapeInv,
           GoesIdle \/ PostAgain \/ ConnectionBreaks \/ \E n \in 1 .. MaxShots : ServesShot(n)
    PROVE  TypeOK'
<1> USE DEF session, history
<1>1. CASE GoesIdle \/ \E n \in 1 .. MaxShots : ServesShot(n)
  <2>1. /\ UNCHANGED <<status, loop, announced, queued, completed, wire, posts, driver, faults>>
        /\ idle' \in {idle, TRUE}
    BY <1>1 DEF GoesIdle, ServesShot, ResolveShot, RunShot, ShotOnly
  <2> QED
    BY <2>1, TypeStep DEF TypeOK
<1>2. CASE PostAgain
  <2>1. /\ UNCHANGED <<status, idle, loop, announced, queued, completed, wire, driver>> /\ Fault
        /\ \E isError \in BOOLEAN : posts' = posts \cup {Post(isError, FALSE)}
        /\ driver.call # NoCall
    BY <1>2 DEF PostAgain
  <2>2. driver.call \in Calls
    BY <2>1 DEF TypeOK
  <2>3. \A isError \in BOOLEAN :
          Post(isError, FALSE) \in [result : Results, own : BOOLEAN, pc : {"sent", "body"}]
    BY <2>2 DEF Post, Results
  <2>4. faults' \in 0 .. MaxFaults
    BY <2>1, FaultType
  <2> QED
    BY <2>1, <2>3, <2>4, TypeStep DEF TypeOK
<1>3. CASE ConnectionBreaks
  <2>1. /\ UNCHANGED <<status, idle, loop, announced, queued, completed, posts, driver>> /\ Fault
        /\ \E n \in 0 .. Len(wire.events) :
             wire' = [up |-> FALSE, events |-> SubSeq(wire.events, 1, n)]
    BY <1>3 DEF ConnectionBreaks
  <2>2. PICK n \in 0 .. Len(wire.events) :
             wire' = [up |-> FALSE, events |-> SubSeq(wire.events, 1, n)]
    BY <2>1
  <2>3. SubSeq(wire.events, 1, n) \in Seq(Events)
    BY <2>2 DEF TypeOK
  <2>4. faults' \in 0 .. MaxFaults
    BY <2>1, FaultType
  <2> QED
    BY <2>1, <2>2, <2>3, <2>4, TypeStep DEF TypeOK
<1> QED
  BY <1>1, <1>2, <1>3

LEMMA TypeNext ==
    ASSUME TypeOK, ShapeInv, PhaseInv, CallInv, [Next]_vars
    PROVE  TypeOK'
<1>1. CASE UNCHANGED vars
  BY <1>1, TypeStep DEF vars, session, TypeOK
<1>2. CASE \/ ModelCalls \/ ModelStops \/ ModelFails \/ AwaitResult \/ NextTurn
           \/ ServerNotices \/ PendingTimesOut
  BY <1>2, LoopType
<1>3. CASE \E post \in posts : PostArrives(post) \/ PostApplies(post)
  BY <1>3, PostType
<1>4. CASE GoesIdle \/ PostAgain \/ ConnectionBreaks \/ \E n \in 1 .. MaxShots : ServesShot(n)
  BY <1>4, EnvironmentType
<1>5. CASE StartSession \/ OpenEvents \/ DeleteSession
  BY <1>5, SessionType
<1> QED
  BY <1>1, <1>2, <1>3, <1>4, <1>5, DriverType DEF Next, Server, Driver, Environment, Terminated

\* Only a call of the model is announced by an event.
LEMMA SendCallable ==
    ASSUME TypeOK, ShapeInv, CallInv, NEW type, NEW call, type = "tool_call" => call \in Calls,
           Send(type, call)
    PROVE  Callable(wire'.events)
<1>1. CASE wire.up
  <2>1. wire'.events = Append(wire.events, [type |-> type, call |-> call])
    BY <1>1 DEF Send, ShapeInv
  <2>2. wire.events \in Seq(Events) /\ Callable(wire.events)
    BY DEF TypeOK, CallInv
  <2> QED
    BY <2>1, <2>2 DEF Callable
<1>2. CASE ~wire.up
  BY <1>2 DEF Send, CallInv
<1> QED
  BY <1>1, <1>2

LEMMA CallNext ==
    ASSUME TypeOK, ShapeInv, CallInv, [Next]_vars
    PROVE  CallInv'
<1> USE DEF session, history
<1>0. ASSUME NEW word \in {"done", "budget", "error", "cancelled"}, EndStream(word)
      PROVE  Callable(wire'.events)
  BY <1>0, SendCallable DEF EndStream
<1>1. CASE ModelCalls
  BY <1>1, SendCallable DEF ModelCalls, LoopOnly, CallInv
<1>2. CASE ModelStops \/ ModelFails \/ AwaitResult \/ NextTurn \/ ServerNotices \/ PendingTimesOut
  BY <1>0, <1>2 DEF ModelStops, ModelFails, AwaitResult, NextTurn, ServerNotices, PendingTimesOut,
                    LoopOnly, CallInv
<1>3. CASE \E post \in posts : PostArrives(post) \/ PostApplies(post)
  <2>1. PICK post \in posts : PostArrives(post) \/ PostApplies(post)
    BY <1>3
  <2>2. driver'.call = driver.call
    BY <2>1, PostType
  <2>3. Callable(wire'.events)
    BY <1>0, <2>1 DEF PostArrives, PostApplies, NotFound, CloseSession, CallInv
  <2>4. UNCHANGED driver \/ driver'.pc \in {"read", "stop"}
    BY <2>1, PostShape DEF TypeOK
  <2> QED
    BY <2>2, <2>3, <2>4 DEF CallInv
<1>4. CASE StartSession \/ HangUp
  <2>1. wire'.events = <<>> /\ driver'.pc \notin {"tool", "post"}
    <3>1. driver' \in {[driver EXCEPT !.pc = "delete"],
             [driver EXCEPT !.pc = "open", !.session = @ + 1, !.why = "none", !.call = NoCall],
             [driver EXCEPT !.pc = "decide", !.session = @ + 1, !.why = "transient"]}
          /\ wire' = [up |-> FALSE, events |-> <<>>]
      BY <1>4 DEF StartSession, HangUp
    <3>2. driver'.pc \in {"delete", "open", "decide"}
      BY <3>1 DEF ShapeInv
    <3> QED
      BY <3>1, <3>2
  <2> QED
    BY <2>1 DEF CallInv, Callable
<1>5. CASE OpenEvents
  <2>1. driver'.pc \in {"read", "stop"}
    BY <1>5 DEF OpenEvents, Fail, ShapeInv
  <2>2. CASE wire' = [wire EXCEPT !.up = TRUE]
    BY <2>1, <2>2 DEF CallInv, ShapeInv
  <2>3. CASE NotFound
    BY <1>0, <2>1, <2>3 DEF NotFound, CloseSession, CallInv
  <2> QED
    BY <1>5, <2>2, <2>3 DEF OpenEvents
<1>6. CASE DeleteSession
  <2>1. driver'.pc = "decide"
    BY <1>6 DEF DeleteSession, ShapeInv
  <2> QED
    BY <1>0, <1>6, <2>1 DEF DeleteSession, NotFound, CloseSession, CallInv
<1>7. CASE ReadEvent
  <2>1. /\ wire.events # <<>> /\ wire'.events = Tail(wire.events)
        /\ \/ driver'.pc = "stop"
           \/ /\ Head(wire.events).type = "tool_call"
              /\ driver'.call = Head(wire.events).call
    BY <1>7 DEF ReadEvent, Fail, ShapeInv
  <2>2. wire.events \in Seq(Events) /\ Callable(wire.events)
    BY DEF TypeOK, CallInv
  <2>3. Head(wire.events) = wire.events[1] /\ 1 \in DOMAIN wire.events
    BY <2>1, <2>2
  <2>4. Callable(Tail(wire.events))
    BY <2>1, <2>2 DEF Callable
  <2> QED
    BY <2>1, <2>2, <2>3, <2>4 DEF CallInv, Callable
<1>8. CASE ToolChanges \/ ToolFails \/ ToolSubmits
  <2>1. wire' = wire /\ driver'.call = driver.call /\ driver.pc = "tool"
    BY <1>8 DEF ToolChanges, ToolFails, ToolSubmits, Executes, ShapeInv
  <2> QED
    BY <2>1 DEF CallInv
<1>9. CASE \/ StreamInterrupted \/ Decide \/ Finish \/ RequestShot \/ ReadShot \/ ShotBreaks
           \/ Interrupted
  <2>1. wire' = wire /\ driver'.pc \notin {"tool", "post"}
    BY <1>9 DEF StreamInterrupted, Decide, Finish, RequestShot, ReadShot, ShotBreaks, Interrupted,
                ShotOnly, DriverOnly, Retried, Ends, Fail, ShapeInv
  <2> QED
    BY <2>1 DEF CallInv
<1>10. CASE GoesIdle \/ PostAgain \/ \E n \in 1 .. MaxShots : ServesShot(n)
  BY <1>10 DEF GoesIdle, PostAgain, ServesShot, ResolveShot, RunShot, ShotOnly, CallInv
<1>11. CASE ConnectionBreaks
  <2>1. PICK n \in 0 .. Len(wire.events) :
             wire' = [up |-> FALSE, events |-> SubSeq(wire.events, 1, n)]
    BY <1>11 DEF ConnectionBreaks
  <2>2. wire.events \in Seq(Events) /\ Callable(wire.events) /\ UNCHANGED driver
    BY <1>11 DEF TypeOK, CallInv, ConnectionBreaks
  <2>3. Callable(SubSeq(wire.events, 1, n))
    BY <2>1, <2>2 DEF Callable
  <2> QED
    BY <2>1, <2>2, <2>3 DEF CallInv
<1>12. CASE RequestFails
  <2>1. wire' = wire /\ driver'.pc = "stop"
    BY <1>12, FailureEffects
  <2> QED
    BY <2>1 DEF CallInv
<1>13. CASE UNCHANGED vars
  BY <1>13 DEF vars, CallInv
<1> QED
  BY <1>1, <1>2, <1>3, <1>4, <1>5, <1>6, <1>7, <1>8, <1>9, <1>10, <1>11, <1>12, <1>13
     DEF Next, Server, Driver, Environment, Terminated

-----------------------------------------------------------------------------
(* What follows *)

IInv == TypeOK /\ ShapeInv /\ CallInv /\ PhaseInv /\ ResultInv /\ LeftInv

LEMMA NextIInv == ASSUME IInv, [Next]_vars PROVE IInv'
<1>1. TypeOK /\ ShapeInv /\ CallInv /\ PhaseInv /\ ResultInv /\ LeftInv
  BY DEF IInv
<1>2. status \in {"none", "open", "closed"} /\ driver.session \in Nat
  <2>1. status \in {"none", "open", "closed"} /\ driver.session \in 0 .. MaxSessions
    BY <1>1 DEF TypeOK
  <2> QED
    BY <2>1
<1>3. TypeOK'
  BY <1>1, TypeNext
<1>4. CallInv'
  BY <1>1, CallNext
<1>5. ShapeInv' /\ PhaseInv' /\ ResultInv' /\ LeftInv'
  BY <1>1, <1>2, PhaseNext
<1> QED
  BY <1>3, <1>4, <1>5 DEF IInv

\* The inductive invariant holds in every reachable state of a stage worked on over the
\* bridge (drivers.py:840-1090, server.ts:153-840).
THEOREM Invariant == Spec => []IInv
<1>1. Init => IInv
  BY TypeInit, ShapeInit DEF IInv, CallInv, Callable, Init
<1>2. IInv /\ [Next]_vars => IInv'
  BY NextIInv
<1> QED
  BY <1>1, <1>2, PTL DEF Spec

\* Every variable keeps its type, whatever is lost, repeated or refused
\* (server.ts:153-170, drivers.py:840-1060).
THEOREM TypeCorrect == Spec => []TypeOK
  BY Invariant, PTL DEF IInv

\* A success that a submitted result stands for was never followed by a change,
\* over all sessions of the stage (drivers.py:1016-1021).
THEOREM SuccessIsAlwaysCurrent == Spec => []SuccessIsCurrent
<1>1. IInv => SuccessIsCurrent
  BY DEF IInv, ResultInv, SuccessIsCurrent
<1> QED
  BY <1>1, Invariant, PTL

\* The driver leaves a session closed, unless the request that starts or stops it
\* was lost (drivers.py:1080, server.ts:806).
THEOREM NothingIsOrphaned == Spec => []NoOrphan
<1>1. IInv => NoOrphan
  BY DEF IInv, LeftInv, Left, NoOrphan
<1> QED
  BY <1>1, Invariant, PTL
=============================================================================
