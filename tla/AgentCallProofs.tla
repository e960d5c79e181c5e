--------------------------- MODULE AgentCallProofs ---------------------------
(***************************************************************************)
(* The tool calls of a session whose provider gives every call an id of    *)
(* its own: the bridge and the driver never wait for each other, and the   *)
(* result of a call is refused only when its session is closed, for any    *)
(* number of sessions, turns, calls, requests and faults.                  *)
(***************************************************************************)
EXTENDS AgentProofs

-----------------------------------------------------------------------------
(* The invariant *)

Listening == driver.pc \in {"read", "tool", "post"}

\* An event under way carries the call; a result of the call waits to be taken.
Has(events, call) == \E i \in DOMAIN events : events[i].type = "tool_call" /\ events[i].call = call
Waits(results, call) == \E r \in results : r.call = call
Known(results, call) == \E k \in DOMAIN results : results[k].call = call
Sent(requests, call) == \E p \in requests : p.result.call = call

\* The model made the call; its result was taken; it is not taken yet.
Made(l, call) == call[1] < l.turn \/ (call[1] = l.turn /\ call[2] <= Len(l.calls))
Taken(l, call) == call[1] < l.turn \/ (call[1] = l.turn /\ l.pc # "turn" /\ call[2] < l.at)
Untaken(l, i) == i \in DOMAIN l.calls /\ (l.pc = "turn" \/ i >= l.at)

\* The calls of a turn are numbered, and the pending one has no result yet.
LoopInv ==
    /\ \A i \in DOMAIN loop.calls : loop.calls[i] = <<loop.turn, i>>
    /\ loop.pc = "call" => loop.at >= 1
    /\ loop.pc = "pending" => loop.at \in DOMAIN loop.calls /\ ~Waits(queued, loop.calls[loop.at])

\* Results are remembered for calls that were taken.
TakenInv == \A call \in Calls : Known(completed, call) => Taken(loop, call)

\* Before its stream is opened a session is empty.
OpenInv ==
    driver.pc = "open" =>
        /\ loop.pc = "none" /\ loop.calls = <<>> /\ ~wire.up /\ wire.events = <<>>
        /\ announced = {} /\ queued = {} /\ completed = <<>> /\ posts = {}
        /\ driver.call = NoCall

\* A session with a stream to a driver that listens is alive.
AliveInv == Listening /\ StreamOn => status = "open" /\ ~idle

\* A call that is not taken is on its way to the driver, with it, or answered.
DeliveredInv ==
    Listening /\ wire.up /\ StreamOn =>
        \A i \in Nat : Untaken(loop, i) =>
            \/ Has(wire.events, loop.calls[i])
            \/ driver.pc \in {"tool", "post"} /\ driver.call = loop.calls[i]
            \/ Waits(queued, loop.calls[i])

WaitInv == LoopInv /\ TakenInv /\ OpenInv /\ AliveInv /\ DeliveredInv

\* Only calls that were made travel.
MadeInv ==
    \A call \in Calls :
        \/ Has(wire.events, call) \/ Waits(queued, call) \/ Known(completed, call)
        \/ Sent(posts, call) \/ (Listening /\ driver.call = call)
        => Made(loop, call)

\* A call is announced, and unanswered, until the driver has sent its result.
Unanswered(call) ==
    /\ ~Waits(queued, call) /\ ~Known(completed, call)
    /\ status = "open" => call \in announced

Distinct(events) ==
    \A i, j \in DOMAIN events :
        /\ events[i].type = "tool_call" /\ events[j].type = "tool_call"
        /\ events[i].call = events[j].call
        => i = j

FreshInv ==
    Listening =>
        /\ Distinct(wire.events)
        /\ \A call \in Calls : Has(wire.events, call) =>
             Unanswered(call) /\ ~Sent(posts, call) /\ driver.call # call
        /\ driver.pc = "tool" => Unanswered(driver.call) /\ ~Sent(posts, driver.call)
        /\ driver.pc = "post" =>
             /\ Unanswered(driver.call)
             /\ \A p \in posts : p.result.call = driver.call => p.own

-----------------------------------------------------------------------------
(* Events, results and calls *)

LEMMA IdIsCall == ASSUME ~IdsRestart PROVE \A call : IdOf(call) = call
  BY DEF IdOf

LEMMA SameHas ==
    ASSUME NEW events \in Seq(Events), NEW event \in Events, event.type # "tool_call"
    PROVE  /\ \A call : Has(Append(events, event), call) <=> Has(events, call)
           /\ Distinct(events) => Distinct(Append(events, event))
  BY DEF Has, Distinct

LEMMA MoreHas ==
    ASSUME NEW events \in Seq(Events), NEW event \in Events, event.type = "tool_call"
    PROVE  /\ \A call : Has(Append(events, event), call) <=> Has(events, call) \/ call = event.call
           /\ Distinct(events) /\ ~Has(events, event.call) => Distinct(Append(events, event))
<1> DEFINE longer == Append(events, event)
           last == Len(events) + 1
<1>1. /\ longer[last] = event /\ last \in DOMAIN longer /\ last \notin DOMAIN events
      /\ \A i \in DOMAIN events : i \in DOMAIN longer /\ longer[i] = events[i]
      /\ \A i \in DOMAIN longer : i = last \/ i \in DOMAIN events
  OBVIOUS
<1> HIDE DEF longer, last
<1>2. \A call : Has(longer, call) <=> Has(events, call) \/ call = event.call
  BY <1>1 DEF Has
<1>3. Distinct(events) /\ ~Has(events, event.call) => Distinct(longer)
  BY <1>1 DEF Distinct, Has
<1> QED
  BY <1>2, <1>3 DEF longer

LEMMA FewerHas ==
    ASSUME NEW events \in Seq(Events), NEW n \in 0 .. Len(events)
    PROVE  /\ \A call : Has(SubSeq(events, 1, n), call) => Has(events, call)
           /\ Distinct(events) => Distinct(SubSeq(events, 1, n))
  BY DEF Has, Distinct

LEMMA TailHas ==
    ASSUME NEW events \in Seq(Events), events # <<>>
    PROVE  /\ \A call : Has(Tail(events), call) => Has(events, call)
           /\ \A call : Has(events, call) =>
                \/ Has(Tail(events), call)
                \/ Head(events).type = "tool_call" /\ Head(events).call = call
           /\ Head(events).type = "tool_call" => Has(events, Head(events).call)
           /\ Distinct(events) => Distinct(Tail(events))
           /\ Distinct(events) /\ Head(events).type = "tool_call"
                => ~Has(Tail(events), Head(events).call)
<1>1. /\ Len(Tail(events)) = Len(events) - 1 /\ Len(events) \in Nat \ {0}
      /\ Tail(events) \in Seq(Events)
      /\ \A i \in DOMAIN Tail(events) : Tail(events)[i] = events[i + 1] /\ i + 1 \in DOMAIN events
      /\ Head(events) = events[1] /\ 1 \in DOMAIN events
  OBVIOUS
<1>2. \A i \in DOMAIN events : i # 1 => i - 1 \in DOMAIN Tail(events)
  BY <1>1
<1>3. \A i \in DOMAIN events : i # 1 => Tail(events)[i - 1] = events[i]
  BY <1>1, <1>2
<1>4. \A i \in DOMAIN Tail(events) : i + 1 # 1 /\ i \in Nat
  BY <1>1
<1>5. \A call : Has(events, call) =>
                \/ Has(Tail(events), call)
                \/ Head(events).type = "tool_call" /\ Head(events).call = call
  BY <1>1, <1>2, <1>3 DEF Has
<1>6. \A call : Has(Tail(events), call) => Has(events, call)
  BY <1>1 DEF Has
<1>7. Head(events).type = "tool_call" => Has(events, Head(events).call)
  BY <1>1 DEF Has
<1>8. Distinct(events) => Distinct(Tail(events))
  BY <1>1, <1>4 DEF Distinct
<1>9. Distinct(events) /\ Head(events).type = "tool_call" => ~Has(Tail(events), Head(events).call)
  BY <1>1, <1>4 DEF Distinct, Has
<1> QED
  BY <1>5, <1>6, <1>7, <1>8, <1>9

LEMMA NoneHas == Distinct(<<>>) /\ \A call : ~Has(<<>>, call)
  BY DEF Has, Distinct

\* The last word of a stream leaves its calls as they are.
LEMMA EndHas ==
    ASSUME TypeOK, ShapeInv, NEW word \in {"done", "budget", "error", "cancelled"}, EndStream(word)
    PROVE  /\ \A call : Has(wire'.events, call) <=> Has(wire.events, call)
           /\ Distinct(wire.events) => Distinct(wire'.events)
           /\ wire'.up = wire.up
           /\ loop'.pc = "over" /\ loop'.calls = loop.calls /\ loop'.turn = loop.turn
           /\ loop'.at = loop.at
<1>1. wire.events \in Seq(Events) /\ [type |-> word, call |-> NoCall] \in Events
  BY DEF TypeOK, Events
<1>2. wire' = wire \/ wire'.events = Append(wire.events, [type |-> word, call |-> NoCall])
  BY DEF EndStream, Send, ShapeInv
<1>3. /\ \A call : Has(wire'.events, call) <=> Has(wire.events, call)
      /\ Distinct(wire.events) => Distinct(wire'.events)
  <2>1. CASE wire' = wire
    BY <2>1
  <2>2. CASE wire'.events = Append(wire.events, [type |-> word, call |-> NoCall])
    BY <1>1, <2>2, SameHas
  <2> QED
    BY <1>2, <2>1, <2>2
<1> QED
  BY <1>3, EndStreamType

LEMMA TakeKnown ==
    ASSUME TypeOK, ShapeInv, NEW result \in Results, TakeResult(result)
    PROVE  /\ \A call : Known(completed', call) => Known(completed, call) \/ result.call = call
           /\ \A call \in Calls : Taken(loop, call) => Taken(loop', call)
           /\ loop'.pc = "call" /\ loop'.calls = loop.calls /\ loop'.turn = loop.turn
           /\ loop'.at = loop.at + 1
<1>1. /\ loop'.pc = "call" /\ loop'.calls = loop.calls /\ loop'.turn = loop.turn
      /\ loop'.at = loop.at + 1
      /\ \A k \in DOMAIN completed' :
                completed'[k] = result \/ \E l \in DOMAIN completed : completed'[k] = completed[l]
  BY TakeType
<1>2. \A call : Known(completed', call) => Known(completed, call) \/ result.call = call
  BY <1>1 DEF Known
<1>3. \A call \in Calls : Taken(loop, call) => Taken(loop', call)
  <2>1. \A call \in Calls : call[2] \in Nat
    BY DEF Calls
  <2>2. loop.at \in Nat
    BY DEF TypeOK
  <2> QED
    BY <1>1, <2>1, <2>2 DEF Taken
<1> QED
  BY <1>1, <1>2, <1>3

\* What the steps of the loop do.
LEMMA CallEffects ==
    ASSUME ~IdsRestart, TypeOK, ShapeInv, ModelCalls
    PROVE  \E call \in Calls :
             /\ loop.pc = "turn" /\ call = <<loop.turn, Len(loop.calls) + 1>>
             /\ loop'.pc = "turn" /\ loop'.turn = loop.turn /\ loop'.at = loop.at
             /\ loop'.calls = Append(loop.calls, call)
             /\ announced' = announced \cup {call}
             /\ wire'.up = wire.up
             /\ \A other : Has(wire'.events, other) =>
                             Has(wire.events, other) \/ other = call
             /\ \A other : Has(wire.events, other) => Has(wire'.events, other)
             /\ wire.up => Has(wire'.events, call)
             /\ Distinct(wire.events) /\ ~Has(wire.events, call) => Distinct(wire'.events)
             /\ UNCHANGED <<status, idle, queued, completed, posts, driver>>
<1> DEFINE call == <<loop.turn, Len(loop.calls) + 1>>
<1>1. /\ call \in Calls /\ Send("tool_call", call) /\ loop.pc = "turn"
      /\ UNCHANGED <<status, idle, queued, completed, posts, driver>>
      /\ announced' = announced \cup {IdOf(call)}
  BY DEF ModelCalls, LoopOnly
<1>2. /\ loop'.pc = loop.pc /\ loop'.turn = loop.turn /\ loop'.at = loop.at
      /\ loop'.calls = Append(loop.calls, call)
  BY DEF ModelCalls, ShapeInv
<1> DEFINE event == [type |-> "tool_call", call |-> call]
<1>3. event \in Events /\ wire.events \in Seq(Events)
  BY <1>1 DEF Events, TypeOK
<1>4. \/ wire.up /\ wire'.up = wire.up /\ wire'.events = Append(wire.events, event)
      \/ ~wire.up /\ wire' = wire
  BY <1>1 DEF Send, ShapeInv
<1>5. event.type = "tool_call" /\ event.call = call
  OBVIOUS
<1>6. /\ wire'.up = wire.up
      /\ \A other : Has(wire'.events, other) => Has(wire.events, other) \/ other = call
      /\ \A other : Has(wire.events, other) => Has(wire'.events, other)
      /\ wire.up => Has(wire'.events, call)
      /\ Distinct(wire.events) /\ ~Has(wire.events, call) => Distinct(wire'.events)
  <2> HIDE DEF event, call
  <2>1. CASE wire' = wire /\ ~wire.up
    BY <2>1
  <2>2. CASE wire'.up = wire.up /\ wire'.events = Append(wire.events, event)
    BY <1>3, <1>5, <2>2, MoreHas
  <2> QED
    BY <1>4, <2>1, <2>2
<1>7. announced' = announced \cup {call}
  BY <1>1, IdIsCall
<1> QED
  BY <1>1, <1>2, <1>6, <1>7

LEMMA AwaitEffects ==
    ASSUME ~IdsRestart, TypeOK, ShapeInv, AwaitResult
    PROVE  /\ loop.pc = "call" /\ loop.at <= Len(loop.calls)
           /\ UNCHANGED <<status, wire, posts, driver>> /\ idle' = FALSE
           /\ \/ \E result \in queued :
                   /\ result.call = loop.calls[loop.at] /\ TakeResult(result)
                   /\ queued' = queued \ {result}
              \/ /\ ~Waits(queued, loop.calls[loop.at])
                 /\ loop'.pc = "pending" /\ loop'.calls = loop.calls /\ loop'.turn = loop.turn
                 /\ loop'.at = loop.at /\ UNCHANGED <<queued, announced, completed>>
<1>1. /\ loop.pc = "call" /\ loop.at <= Len(loop.calls)
      /\ UNCHANGED <<status, wire, posts, driver>> /\ idle' = FALSE
  BY DEF AwaitResult, LoopOnly
<1>2. \A call : IdOf(call) = call
  BY IdIsCall
<1>3. \/ \E result \in queued :
           /\ result.call = loop.calls[loop.at] /\ TakeResult(result)
           /\ queued' = queued \ {result}
      \/ /\ ~Waits(queued, loop.calls[loop.at])
         /\ loop' = [loop EXCEPT !.pc = "pending"]
         /\ UNCHANGED <<queued, announced, completed>>
  BY <1>2 DEF AwaitResult, Waits
<1> QED
  BY <1>1, <1>3 DEF ShapeInv

LEMMA TurnEffects ==
    ASSUME TypeOK, ShapeInv, ModelStops \/ NextTurn \/ ModelFails \/ ServerNotices \/ PendingTimesOut
    PROVE  /\ UNCHANGED <<status, idle, announced, queued, completed, posts, driver>>
           /\ StreamOn
           /\ \/ \E word \in {"done", "budget", "error", "cancelled"} : EndStream(word)
              \/ /\ UNCHANGED wire /\ loop.pc = "turn" /\ loop'.pc = "call" /\ loop'.at = 1
                 /\ loop'.calls = loop.calls /\ loop'.turn = loop.turn
              \/ /\ UNCHANGED wire /\ loop.pc = "call" /\ loop'.pc = "turn" /\ loop'.calls = <<>>
                 /\ loop'.turn = loop.turn + 1 /\ loop'.at = loop.at
                 /\ loop.at > Len(loop.calls)
<1>1. /\ UNCHANGED <<status, idle, announced, queued, completed, posts, driver>>
      /\ StreamOn
  BY DEF ModelStops, NextTurn, ModelFails, ServerNotices, PendingTimesOut, LoopOnly, StreamOn
<1>2. \/ \E word \in {"done", "budget", "error", "cancelled"} : EndStream(word)
      \/ /\ UNCHANGED wire /\ loop.pc = "turn"
         /\ \E n : loop' = [loop EXCEPT !.pc = "call", !.at = 1, !.total = n]
      \/ /\ UNCHANGED wire /\ loop.pc = "call" /\ loop.at > Len(loop.calls)
         /\ loop' = [loop EXCEPT !.pc = "turn", !.turn = @ + 1, !.calls = <<>>]
  BY DEF ModelStops, NextTurn, ModelFails, ServerNotices, PendingTimesOut
<1> QED
  BY <1>1, <1>2 DEF ShapeInv

\* What closing the session does.
LEMMA CloseEffects ==
    ASSUME TypeOK, ShapeInv, CloseSession \/ NotFound
    PROVE  /\ \A call : Has(wire'.events, call) <=> Has(wire.events, call)
           /\ Distinct(wire.events) => Distinct(wire'.events)
           /\ wire'.up = wire.up /\ loop'.pc \in {loop.pc, "over"}
           /\ loop'.calls = loop.calls /\ loop'.turn = loop.turn /\ loop'.at = loop.at
           /\ \/ status' = "closed" /\ queued' = {} /\ completed' = <<>>
              \/ status # "open" /\ UNCHANGED <<status, announced, queued, completed>>
<1>1. \/ status' = "closed" /\ queued' = {} /\ completed' = <<>>
      \/ status # "open" /\ UNCHANGED <<status, announced, queued, completed>>
  BY DEF CloseSession, NotFound
<1>2. CASE EndStream("error")
  BY <1>1, <1>2, EndHas
<1>3. CASE UNCHANGED <<loop, wire>>
  BY <1>1, <1>3
<1> QED
  BY <1>2, <1>3 DEF CloseSession, NotFound

\* What an answer does to the driver, and what a request for a result does.
LEMMA ReplyEffects ==
    ASSUME ShapeInv, NEW post, NEW code \in {200, 404, 409}, Reply(post, code)
    PROVE  \/ UNCHANGED driver /\ ~(post.own /\ driver.pc = "post" /\ driver.call = post.result.call)
           \/ /\ post.own /\ driver.pc = "post" /\ driver.call = post.result.call
              /\ driver'.call = driver.call
              /\ driver'.pc = IF code = 200 THEN "read" ELSE "stop"
<1>1. CASE ~post.own \/ driver.pc # "post" \/ driver.call # post.result.call
  BY <1>1 DEF Reply
<1>2. CASE post.own /\ driver.pc = "post" /\ driver.call = post.result.call
  <2>1. CASE code = 200
    <3>1. driver' = [driver EXCEPT !.pc = "read"]
      BY <1>2, <2>1 DEF Reply
    <3> QED
      BY <1>2, <2>1, <3>1 DEF ShapeInv
  <2>2. CASE code \in {404, 409}
    <3>1. \E why : driver' = [driver EXCEPT !.pc = "stop", !.why = why]
      <4>1. CASE code = 404
        <5>1. driver' = [driver EXCEPT !.pc = "stop", !.why = "fatal"]
          BY <1>2, <4>1 DEF Reply, Fail
        <5> QED
          BY <5>1
      <4>2. CASE code = 409
        <5>1. driver' = [driver EXCEPT !.pc = "stop", !.why = "transient"]
          BY <1>2, <4>2 DEF Reply, Fail
        <5> QED
          BY <5>1
      <4> QED
        BY <2>2, <4>1, <4>2
    <3>2. driver'.pc = "stop" /\ driver'.call = driver.call
      BY <3>1 DEF ShapeInv
    <3>3. code # 200
      BY <2>2
    <3> QED
      BY <1>2, <3>2, <3>3
  <2> QED
    BY <2>1, <2>2
<1> QED
  BY <1>1, <1>2

LEMMA ArriveEffects ==
    ASSUME TypeOK, ShapeInv, NEW post \in posts, PostArrives(post)
    PROVE  /\ idle' = idle
           /\ \/ /\ Found /\ UNCHANGED <<driver, status, announced, queued, completed, loop, wire>>
                 /\ posts' = (posts \ {post}) \cup {[post EXCEPT !.pc = "body"]}
              \/ /\ ~Found /\ NotFound /\ Reply(post, 404)
                 /\ posts' = posts \ {post}
  BY DEF PostArrives

LEMMA ApplyEffects ==
    ASSUME ~IdsRestart, TypeOK, ShapeInv, NEW post \in posts, PostApplies(post)
    PROVE  /\ UNCHANGED <<status, wire>> /\ posts' = posts \ {post} /\ idle' \in {idle, FALSE}
           /\ \/ /\ Waits(queued, post.result.call) \/ Known(completed, post.result.call)
                 /\ \E code \in {200, 409} : Reply(post, code)
                 /\ UNCHANGED <<queued, announced, completed, loop>>
              \/ /\ loop.pc = "pending" /\ loop.calls[loop.at] = post.result.call
                 /\ TakeResult(post.result) /\ Reply(post, 200) /\ UNCHANGED queued
              \/ /\ ~(loop.pc = "pending" /\ loop.calls[loop.at] = post.result.call)
                 /\ post.result.call \in announced /\ Reply(post, 200)
                 /\ queued' = queued \cup {post.result}
                 /\ UNCHANGED <<announced, completed, loop>>
              \/ /\ post.result.call \notin announced /\ Reply(post, 404)
                 /\ UNCHANGED <<queued, announced, completed, loop>>
<1>1. UNCHANGED <<status, wire>> /\ posts' = posts \ {post} /\ idle' \in {idle, FALSE}
  BY DEF PostApplies
<1>2. \A call : IdOf(call) = call
  BY IdIsCall
<1>3. /\ IdOf(post.result.call) = post.result.call
      /\ IsPending(post.result.call) <=>
           loop.pc = "pending" /\ loop.calls[loop.at] = post.result.call
  BY <1>2 DEF IsPending
<1>4. TakenWithId(post.result.call) # {} <=>
        Waits(queued, post.result.call) \/ Known(completed, post.result.call)
  BY <1>2 DEF TakenWithId, Waits, Known
<1>5. \/ /\ TakenWithId(post.result.call) # {}
         /\ \E code \in {200, 409} : Reply(post, code)
         /\ UNCHANGED <<queued, announced, completed, loop>>
      \/ /\ IsPending(post.result.call)
         /\ TakeResult(post.result) /\ Reply(post, 200) /\ UNCHANGED queued
      \/ /\ ~IsPending(post.result.call)
         /\ post.result.call \in announced /\ Reply(post, 200)
         /\ queued' = queued \cup {post.result}
         /\ UNCHANGED <<announced, completed, loop>>
      \/ /\ post.result.call \notin announced /\ Reply(post, 404)
         /\ UNCHANGED <<queued, announced, completed, loop>>
  BY <1>3 DEF PostApplies
<1> QED
  BY <1>1, <1>3, <1>4, <1>5

-----------------------------------------------------------------------------
(* Nobody waits for the other: WaitInv is kept *)

LEMMA CallWaits ==
    ASSUME ~IdsRestart, IInv, WaitInv, ModelCalls
    PROVE  WaitInv'
<1>0. TypeOK /\ ShapeInv /\ LoopInv /\ TakenInv /\ OpenInv /\ AliveInv /\ DeliveredInv
  BY DEF IInv, WaitInv
<1>1. PICK call \in Calls :
             /\ loop.pc = "turn" /\ call = <<loop.turn, Len(loop.calls) + 1>>
             /\ loop'.pc = "turn" /\ loop'.turn = loop.turn /\ loop'.at = loop.at
             /\ loop'.calls = Append(loop.calls, call)
             /\ announced' = announced \cup {call}
             /\ wire'.up = wire.up
             /\ \A other : Has(wire.events, other) => Has(wire'.events, other)
             /\ wire.up => Has(wire'.events, call)
             /\ UNCHANGED <<status, idle, queued, completed, posts, driver>>
  BY <1>0, CallEffects
<1> DEFINE last == Len(loop.calls) + 1
<1>2. /\ last \in Nat /\ DOMAIN loop'.calls = DOMAIN loop.calls \cup {last}
      /\ loop'.calls[last] = call /\ last \notin DOMAIN loop.calls
      /\ \A i \in DOMAIN loop.calls : loop'.calls[i] = loop.calls[i]
  BY <1>0, <1>1 DEF TypeOK
<1>3. LoopInv'
  <2>1. loop'.pc # "call" /\ loop'.pc # "pending"
    BY <1>1
  <2>2. ASSUME NEW i \in DOMAIN loop'.calls
        PROVE  loop'.calls[i] = <<loop'.turn, i>>
    <3>1. CASE i = last
      BY <1>1, <1>2, <3>1
    <3>2. CASE i # last
      <4>1. i \in DOMAIN loop.calls /\ loop'.calls[i] = loop.calls[i] /\ loop'.turn = loop.turn
        BY <1>1, <1>2, <2>2, <3>2
      <4>2. loop.calls[i] = <<loop.turn, i>>
        BY <1>0, <4>1 DEF LoopInv
      <4> QED
        BY <4>1, <4>2
    <3> QED
      BY <3>1, <3>2
  <2> QED
    BY <2>1, <2>2 DEF LoopInv
<1>4. TakenInv'
  BY <1>0, <1>1 DEF TakenInv, Taken
<1>5. OpenInv' /\ AliveInv'
  BY <1>0, <1>1 DEF OpenInv, AliveInv, Listening, StreamOn
<1>6. DeliveredInv'
  <2> SUFFICES ASSUME Listening', wire'.up, NEW i \in Nat, Untaken(loop', i)
               PROVE  \/ Has(wire'.events, loop'.calls[i])
                      \/ driver'.pc \in {"tool", "post"} /\ driver'.call = loop'.calls[i]
                      \/ Waits(queued', loop'.calls[i])
    BY DEF DeliveredInv
  <2>1. CASE i = last
    BY <1>1, <1>2, <2>1
  <2>2. CASE i \in DOMAIN loop.calls
    <3>1. Untaken(loop, i) /\ loop'.calls[i] = loop.calls[i] /\ Listening /\ StreamOn /\ wire.up
      BY <1>1, <1>2, <2>2 DEF Untaken, Listening, StreamOn
    <3> QED
      BY <1>0, <1>1, <3>1 DEF DeliveredInv
  <2> QED
    BY <1>2, <2>1, <2>2 DEF Untaken
<1> QED
  BY <1>3, <1>4, <1>5, <1>6 DEF WaitInv

LEMMA AwaitWaits ==
    ASSUME ~IdsRestart, IInv, WaitInv, AwaitResult
    PROVE  WaitInv'
<1>0. TypeOK /\ ShapeInv /\ LoopInv /\ TakenInv /\ OpenInv /\ AliveInv /\ DeliveredInv
  BY DEF IInv, WaitInv
<1>1. /\ loop.pc = "call" /\ loop.at <= Len(loop.calls)
      /\ UNCHANGED <<status, wire, posts, driver>> /\ idle' = FALSE
  BY <1>0, AwaitEffects
<1>2. loop.at \in DOMAIN loop.calls /\ loop.calls[loop.at] = <<loop.turn, loop.at>>
  BY <1>0, <1>1 DEF LoopInv, TypeOK
<1>3. OpenInv' /\ AliveInv'
  BY <1>0, <1>1 DEF OpenInv, AliveInv, Listening, StreamOn
<1>4. CASE \E result \in queued :
             /\ result.call = loop.calls[loop.at] /\ TakeResult(result)
             /\ queued' = queued \ {result}
  <2>1. PICK result \in queued : /\ result.call = loop.calls[loop.at] /\ TakeResult(result)
                                 /\ queued' = queued \ {result}
    BY <1>4
  <2>2. result \in Results
    BY <1>0 DEF TypeOK
  <2>3. /\ \A call : Known(completed', call) => Known(completed, call) \/ result.call = call
        /\ \A call \in Calls : Taken(loop, call) => Taken(loop', call)
        /\ loop'.pc = "call" /\ loop'.calls = loop.calls /\ loop'.turn = loop.turn
        /\ loop'.at = loop.at + 1
    BY <1>0, <2>1, <2>2, TakeKnown
  <2>4. loop.at \in Nat
    BY <1>0 DEF TypeOK
  <2>5. LoopInv'
    BY <1>0, <2>3, <2>4 DEF LoopInv
  <2>6. Taken(loop', loop.calls[loop.at])
    BY <1>2, <2>3, <2>4 DEF Taken
  <2>7. TakenInv'
    BY <1>0, <2>1, <2>3, <2>6 DEF TakenInv
  <2>8. DeliveredInv'
    <3> SUFFICES ASSUME Listening', wire'.up, NEW i \in Nat, Untaken(loop', i)
                 PROVE  \/ Has(wire'.events, loop'.calls[i])
                        \/ driver'.pc \in {"tool", "post"} /\ driver'.call = loop'.calls[i]
                        \/ Waits(queued', loop'.calls[i])
      BY DEF DeliveredInv
    <3>1. i # loop.at /\ Untaken(loop, i) /\ Listening /\ StreamOn /\ wire.up
      BY <1>1, <2>3, <2>4 DEF Untaken, Listening, StreamOn
    <3>2. loop.calls[i] = <<loop.turn, i>>
      BY <1>0, <3>1 DEF LoopInv, Untaken
    <3>3. loop.calls[i] # result.call
      BY <1>2, <2>1, <3>1, <3>2
    <3>4. Waits(queued, loop.calls[i]) => Waits(queued', loop.calls[i])
      BY <2>1, <3>3 DEF Waits
    <3> QED
      BY <1>0, <1>1, <2>3, <3>1, <3>4 DEF DeliveredInv
  <2> QED
    BY <1>3, <2>5, <2>7, <2>8 DEF WaitInv
<1>5. CASE /\ ~Waits(queued, loop.calls[loop.at])
           /\ loop'.pc = "pending" /\ loop'.calls = loop.calls /\ loop'.turn = loop.turn
           /\ loop'.at = loop.at /\ UNCHANGED <<queued, announced, completed>>
  <2>1. LoopInv'
    BY <1>0, <1>2, <1>5 DEF LoopInv
  <2>2. TakenInv'
    BY <1>0, <1>1, <1>5 DEF TakenInv, Taken
  <2>3. DeliveredInv'
    BY <1>0, <1>1, <1>5 DEF DeliveredInv, Untaken, Listening, StreamOn
  <2> QED
    BY <1>3, <2>1, <2>2, <2>3 DEF WaitInv
<1> QED
  BY <1>0, <1>4, <1>5, AwaitEffects

LEMMA TurnWaits ==
    ASSUME IInv, WaitInv, ModelStops \/ NextTurn \/ ModelFails \/ ServerNotices \/ PendingTimesOut
    PROVE  WaitInv'
<1>0. TypeOK /\ ShapeInv /\ LoopInv /\ TakenInv /\ OpenInv /\ AliveInv /\ DeliveredInv
  BY DEF IInv, WaitInv
<1>1. /\ UNCHANGED <<status, idle, announced, queued, completed, posts, driver>>
      /\ StreamOn
  BY <1>0, TurnEffects
<1>2. CASE \E word \in {"done", "budget", "error", "cancelled"} : EndStream(word)
  <2>1. /\ \A call : Has(wire'.events, call) <=> Has(wire.events, call)
        /\ wire'.up = wire.up
        /\ loop'.pc = "over" /\ loop'.calls = loop.calls /\ loop'.turn = loop.turn
        /\ loop'.at = loop.at
    BY <1>0, <1>2, EndHas
  <2>2. LoopInv'
    BY <1>0, <2>1 DEF LoopInv
  <2>3. TakenInv'
    BY <1>0, <1>1, <2>1 DEF TakenInv, Taken
  <2>4. OpenInv'
    BY <1>0, <1>1 DEF OpenInv, StreamOn
  <2>5. AliveInv' /\ DeliveredInv'
    BY <2>1 DEF AliveInv, DeliveredInv, StreamOn
  <2> QED
    BY <2>2, <2>3, <2>4, <2>5 DEF WaitInv
<1>3. CASE /\ UNCHANGED wire /\ loop.pc = "turn" /\ loop'.pc = "call" /\ loop'.at = 1
           /\ loop'.calls = loop.calls /\ loop'.turn = loop.turn
  <2>1. LoopInv'
    BY <1>0, <1>3 DEF LoopInv
  <2>2. TakenInv'
    BY <1>0, <1>1, <1>3 DEF TakenInv, Taken
  <2>3. OpenInv' /\ AliveInv'
    BY <1>0, <1>1, <1>3 DEF OpenInv, AliveInv, StreamOn, Listening
  <2>4. DeliveredInv'
    BY <1>0, <1>1, <1>3 DEF DeliveredInv, Untaken, Listening, StreamOn
  <2> QED
    BY <2>1, <2>2, <2>3, <2>4 DEF WaitInv
<1>4. CASE /\ UNCHANGED wire /\ loop.pc = "call" /\ loop'.pc = "turn" /\ loop'.calls = <<>>
           /\ loop'.turn = loop.turn + 1 /\ loop'.at = loop.at
  <2>1. LoopInv'
    BY <1>0, <1>4 DEF LoopInv
  <2>2. TakenInv'
    <3>1. loop.turn \in Nat /\ \A call \in Calls : call[1] \in Nat
      BY <1>0 DEF TypeOK, Calls
    <3> QED
      BY <1>0, <1>1, <1>4, <3>1 DEF TakenInv, Taken
  <2>3. OpenInv' /\ AliveInv'
    BY <1>0, <1>1, <1>4 DEF OpenInv, AliveInv, StreamOn, Listening
  <2>4. DeliveredInv'
    BY <1>4 DEF DeliveredInv, Untaken
  <2> QED
    BY <2>1, <2>2, <2>3, <2>4 DEF WaitInv
<1> QED
  BY <1>0, <1>2, <1>3, <1>4, TurnEffects

LEMMA ArriveWaits ==
    ASSUME IInv, WaitInv, NEW post \in posts, PostArrives(post)
    PROVE  WaitInv'
<1>0. TypeOK /\ ShapeInv /\ LoopInv /\ TakenInv /\ OpenInv /\ AliveInv /\ DeliveredInv
  BY DEF IInv, WaitInv
<1>1. driver.pc # "open"
  BY <1>0 DEF OpenInv
<1>2. CASE Found /\ UNCHANGED <<driver, status, idle, announced, queued, completed, loop, wire>>
  BY <1>0, <1>1, <1>2 DEF LoopInv, TakenInv, Taken, OpenInv, AliveInv, DeliveredInv, Untaken,
                          Listening, StreamOn, WaitInv
<1>3. CASE ~Found /\ NotFound /\ Reply(post, 404) /\ idle' = idle
  <2>1. /\ loop'.pc \in {loop.pc, "over"}
        /\ loop'.calls = loop.calls /\ loop'.turn = loop.turn /\ loop'.at = loop.at
        /\ \/ status' = "closed" /\ queued' = {} /\ completed' = <<>>
           \/ status # "open" /\ UNCHANGED <<status, announced, queued, completed>>
    BY <1>0, <1>3, CloseEffects
  <2>2. driver' = driver \/ (driver.pc = "post" /\ driver'.pc = "stop")
    BY <1>0, <1>3, ReplyEffects
  <2>3. LoopInv'
    BY <1>0, <2>1 DEF LoopInv, Waits
  <2>4. TakenInv'
    BY <1>0, <2>1 DEF TakenInv, Taken, Known
  <2>5. OpenInv'
    BY <1>1, <2>2 DEF OpenInv
  <2>6. ~(Listening' /\ StreamOn')
    BY <1>0, <1>3, <2>1, <2>2 DEF AliveInv, Found, Listening, StreamOn
  <2> QED
    BY <2>3, <2>4, <2>5, <2>6 DEF WaitInv, AliveInv, DeliveredInv
<1> QED
  BY <1>0, <1>2, <1>3, ArriveEffects

LEMMA ApplyWaits ==
    ASSUME ~IdsRestart, IInv, WaitInv, NEW post \in posts, PostApplies(post)
    PROVE  WaitInv'
<1>0. TypeOK /\ ShapeInv /\ LoopInv /\ TakenInv /\ OpenInv /\ AliveInv /\ DeliveredInv
  BY DEF IInv, WaitInv
<1>1. driver.pc # "open" /\ UNCHANGED <<status, wire>> /\ idle' \in {idle, FALSE}
  BY <1>0, ApplyEffects DEF OpenInv
<1> DEFINE sent == post.result.call
           returned == driver'.pc = "read" /\ driver.pc = "post" /\ driver.call = sent
<1>2. driver' = driver \/ returned \/ (driver'.pc = "stop" /\ driver.pc = "post")
  <2>1. PICK code \in {200, 404, 409} : Reply(post, code)
    BY DEF PostApplies
  <2>2. \/ UNCHANGED driver
        \/ /\ driver.pc = "post" /\ driver.call = sent
           /\ driver'.pc = IF code = 200 THEN "read" ELSE "stop"
    BY <1>0, <2>1, ReplyEffects
  <2> QED
    BY <2>2
<1>3. OpenInv'
  BY <1>1, <1>2 DEF OpenInv
<1>4. post.result \in Results /\ sent \in Calls
  BY <1>0 DEF TypeOK, Results
<1>5. ASSUME Listening', StreamOn' PROVE Listening
  BY <1>2, <1>5 DEF Listening
\* The result is kept, or its call is taken: what else is untaken is delivered as before.
<1>6. ASSUME Listening', wire'.up, StreamOn, NEW i \in Nat, Untaken(loop, i),
             loop.calls[i] # sent \/ driver' = driver,
             \A call : Waits(queued, call) => Waits(queued', call)
      PROVE  \/ Has(wire'.events, loop.calls[i])
             \/ driver'.pc \in {"tool", "post"} /\ driver'.call = loop.calls[i]
             \/ Waits(queued', loop.calls[i])
  <2>1. Listening /\ wire.up
    BY <1>1, <1>2, <1>6 DEF Listening
  <2>2. \/ Has(wire.events, loop.calls[i])
        \/ driver.pc \in {"tool", "post"} /\ driver.call = loop.calls[i]
        \/ Waits(queued, loop.calls[i])
    BY <1>0, <1>6, <2>1 DEF DeliveredInv
  <2> QED
    BY <1>1, <1>2, <1>6, <2>1, <2>2 DEF Listening
<1>7. CASE /\ loop.pc = "pending" /\ loop.calls[loop.at] = sent
           /\ TakeResult(post.result) /\ UNCHANGED queued
  <2>1. /\ \A call : Known(completed', call) => Known(completed, call) \/ sent = call
        /\ \A call \in Calls : Taken(loop, call) => Taken(loop', call)
        /\ loop'.pc = "call" /\ loop'.calls = loop.calls /\ loop'.turn = loop.turn
        /\ loop'.at = loop.at + 1
    BY <1>0, <1>4, <1>7, TakeKnown
  <2>2. loop.at \in DOMAIN loop.calls /\ loop.calls[loop.at] = <<loop.turn, loop.at>>
        /\ loop.at \in Nat
    BY <1>0, <1>7 DEF LoopInv, TypeOK
  <2>3. LoopInv'
    BY <1>0, <2>1, <2>2 DEF LoopInv
  <2>4. Taken(loop', sent)
    BY <1>7, <2>1, <2>2 DEF Taken
  <2>5. TakenInv'
    BY <1>0, <2>1, <2>4 DEF TakenInv
  <2>6. AliveInv'
    BY <1>0, <1>1, <1>2, <1>7, <2>1 DEF AliveInv, Listening, StreamOn
  <2>7. DeliveredInv'
    <3> SUFFICES ASSUME Listening', wire'.up, NEW i \in Nat, Untaken(loop', i)
                 PROVE  \/ Has(wire'.events, loop'.calls[i])
                        \/ driver'.pc \in {"tool", "post"} /\ driver'.call = loop'.calls[i]
                        \/ Waits(queued', loop'.calls[i])
      BY DEF DeliveredInv
    <3>1. i # loop.at /\ Untaken(loop, i) /\ StreamOn
      BY <1>7, <2>1, <2>2 DEF Untaken, StreamOn
    <3>2. loop.calls[i] = <<loop.turn, i>>
      BY <1>0, <3>1 DEF LoopInv, Untaken
    <3>3. loop.calls[i] # sent
      BY <1>7, <2>2, <3>1, <3>2
    <3> QED
      BY <1>6, <1>7, <2>1, <3>1, <3>3
  <2> QED
    BY <1>3, <2>3, <2>5, <2>6, <2>7 DEF WaitInv
<1>8. CASE UNCHANGED <<completed, loop>>
  <2>1. TakenInv'
    BY <1>0, <1>8 DEF TakenInv, Taken
  <2>2. AliveInv'
    BY <1>0, <1>1, <1>2, <1>8 DEF AliveInv, Listening, StreamOn
  <2>3. /\ \A call : Waits(queued, call) => Waits(queued', call)
        /\ LoopInv'
        /\ driver' = driver \/ driver'.pc = "stop" \/ Waits(queued', sent) \/ Known(completed, sent)
    <3>1. CASE /\ Waits(queued, sent) \/ Known(completed, sent)
               /\ UNCHANGED <<queued, loop>>
      BY <1>0, <3>1 DEF LoopInv
    <3>2. CASE /\ ~(loop.pc = "pending" /\ loop.calls[loop.at] = sent)
               /\ queued' = queued \cup {post.result}
      <4>1. \A call : Waits(queued', call) <=> Waits(queued, call) \/ call = sent
        BY <3>2 DEF Waits
      <4> QED
        BY <1>0, <1>8, <3>2, <4>1 DEF LoopInv
    <3>3. CASE Reply(post, 404) /\ UNCHANGED <<queued, loop>>
      <4>1. driver' = driver \/ driver'.pc = "stop"
        BY <1>0, <3>3, ReplyEffects
      <4> QED
        BY <1>0, <3>3, <4>1 DEF LoopInv
    <3>4. CASE /\ loop.pc = "pending" /\ loop.calls[loop.at] = sent /\ TakeResult(post.result)
      BY <1>0, <1>4, <1>8, <3>4, TakeKnown
    <3> QED
      BY <1>0, <3>1, <3>2, <3>3, <3>4, ApplyEffects
  <2>4. DeliveredInv'
    <3> SUFFICES ASSUME Listening', wire'.up, StreamOn', NEW i \in Nat, Untaken(loop', i)
                 PROVE  \/ Has(wire'.events, loop'.calls[i])
                        \/ driver'.pc \in {"tool", "post"} /\ driver'.call = loop'.calls[i]
                        \/ Waits(queued', loop'.calls[i])
      BY DEF DeliveredInv
    <3>1. Untaken(loop, i) /\ StreamOn /\ loop' = loop
      BY <1>8 DEF Untaken, StreamOn
    <3>2. loop.calls[i] = <<loop.turn, i>> /\ loop.turn \in Nat
      BY <1>0, <3>1 DEF LoopInv, Untaken, TypeOK
    <3>3. CASE loop.calls[i] = sent /\ driver' # driver
      <4>1. Waits(queued', sent) \/ Known(completed, sent)
        BY <2>3, <3>3 DEF Listening
      <4>2. CASE Known(completed, sent)
        <5>1. Taken(loop, sent)
          BY <1>0, <1>4, <4>2 DEF TakenInv
        <5>2. sent[1] = loop.turn /\ sent[2] = i
          BY <3>2, <3>3
        <5>3. loop.pc # "turn" /\ i < loop.at /\ loop.at \in Nat
          BY <1>0, <3>2, <5>1, <5>2 DEF Taken, TypeOK
        <5> QED
          BY <3>1, <5>3 DEF Untaken
      <4> QED
        BY <3>1, <3>3, <4>1, <4>2
    <3>4. CASE loop.calls[i] # sent \/ driver' = driver
      BY <1>6, <2>3, <3>1, <3>4
    <3> QED
      BY <3>3, <3>4
  <2> QED
    BY <1>3, <2>1, <2>2, <2>3, <2>4 DEF WaitInv
<1> QED
  BY <1>0, <1>7, <1>8, ApplyEffects

\* Steps after which the driver does not listen, and touch nothing of the session.
LEMMA LeavesWaits ==
    ASSUME WaitInv, UNCHANGED <<loop, queued, completed>>, ~Listening', driver'.pc # "open"
    PROVE  WaitInv'
  BY DEF WaitInv, LoopInv, TakenInv, Taken, OpenInv, AliveInv, DeliveredInv

LEMMA LeaveEffects ==
    ASSUME ShapeInv,
           \/ StreamInterrupted \/ HangUp \/ Decide \/ Finish \/ RequestShot \/ ReadShot
           \/ ShotBreaks \/ RequestFails \/ Interrupted
    PROVE  /\ UNCHANGED <<status, idle, loop, announced, queued, completed>>
           /\ posts' \subseteq posts
           /\ driver'.pc \notin {"open", "read", "tool", "post"}
           /\ wire' = wire \/ wire'.events = <<>>
<1> USE DEF session
<1>1. CASE StreamInterrupted
  BY <1>1 DEF StreamInterrupted, Fail, ShapeInv
<1>5. CASE HangUp
  <2>1. driver'.pc = "delete"
    BY <1>5 DEF HangUp, ShapeInv
  <2> QED
    BY <1>5, <2>1 DEF HangUp
<1>2. CASE Decide \/ Finish
  BY <1>2 DEF Decide, Finish, Ends, DriverOnly, ShapeInv
<1>3. CASE RequestShot \/ ReadShot \/ ShotBreaks
  BY <1>3 DEF RequestShot, ReadShot, ShotBreaks, ShotOnly, Retried, Ends, ShapeInv
<1>4. CASE Interrupted
  BY <1>4 DEF Interrupted, Fail, Ends, ShapeInv
<1>6. CASE RequestFails
  BY <1>6, FailureEffects
<1> QED
  BY <1>1, <1>2, <1>3, <1>4, <1>5, <1>6

LEMMA StartEffects ==
    ASSUME ShapeInv, StartSession
    PROVE  /\ status' = "open" /\ idle' = FALSE /\ announced' = {} /\ queued' = {}
           /\ completed' = <<>> /\ posts' = {}
           /\ loop'.pc = "none" /\ loop'.calls = <<>> /\ loop'.turn = 0 /\ loop'.at = 0
           /\ wire'.up = FALSE /\ wire'.events = <<>>
           /\ \/ driver'.pc = "open" /\ driver'.call = NoCall
              \/ driver'.pc = "decide"
<1>1. /\ status' = "open" /\ idle' = FALSE /\ announced' = {} /\ queued' = {}
      /\ completed' = <<>> /\ posts' = {}
      /\ loop' = NoLoop /\ wire' = [up |-> FALSE, events |-> <<>>]
  BY DEF StartSession
<1>2. \/ driver' = [driver EXCEPT !.pc = "open", !.session = @ + 1, !.why = "none", !.call = NoCall]
      \/ driver' = [driver EXCEPT !.pc = "decide", !.session = @ + 1, !.why = "transient"]
  BY DEF StartSession
<1>3. \/ driver'.pc = "open" /\ driver'.call = NoCall
      \/ driver'.pc = "decide"
  BY <1>2 DEF ShapeInv
<1> QED
  BY <1>1, <1>3 DEF NoLoop

LEMMA OpenEffects ==
    ASSUME ShapeInv, OpenEvents
    PROVE  /\ driver.pc = "open" /\ UNCHANGED <<idle, posts>> /\ driver'.call = driver.call
           /\ \/ /\ Found /\ driver'.pc = "read" /\ wire'.events = wire.events
                 /\ loop'.pc = "turn" /\ loop'.calls = <<>> /\ loop'.turn = 1 /\ loop'.at = 0
                 /\ UNCHANGED <<status, announced, queued, completed>>
              \/ ~Found /\ NotFound /\ driver'.pc = "stop"
<1>1. driver.pc = "open" /\ UNCHANGED <<idle, posts>>
  BY DEF OpenEvents
<1>2. CASE /\ Found /\ loop' = [NoLoop EXCEPT !.pc = "turn", !.turn = 1]
           /\ wire' = [wire EXCEPT !.up = TRUE] /\ driver' = [driver EXCEPT !.pc = "read"]
           /\ UNCHANGED <<status, announced, queued, completed>>
  BY <1>1, <1>2 DEF NoLoop, ShapeInv
<1>3. CASE ~Found /\ NotFound /\ driver' = Fail("fatal")
  BY <1>1, <1>3 DEF Fail, ShapeInv
<1> QED
  BY <1>2, <1>3 DEF OpenEvents

LEMMA ReadEffects ==
    ASSUME TypeOK, ShapeInv, ReadEvent
    PROVE  /\ driver.pc = "read" /\ UNCHANGED <<status, idle, loop, announced, queued, completed, posts>>
           /\ wire.events # <<>> /\ wire'.up = wire.up /\ wire'.events = Tail(wire.events)
           /\ \/ driver'.pc = "stop"
              \/ /\ driver'.pc = "tool" /\ driver'.call = Head(wire.events).call
                 /\ Head(wire.events).type = "tool_call"
<1> USE DEF session
<1>1. /\ driver.pc = "read" /\ UNCHANGED <<status, idle, loop, announced, queued, completed, posts>>
      /\ wire.events # <<>> /\ wire' = [wire EXCEPT !.events = Tail(@)]
  BY DEF ReadEvent
<1>2. \/ driver'.pc = "stop"
      \/ /\ driver'.pc = "tool" /\ driver'.call = Head(wire.events).call
         /\ Head(wire.events).type = "tool_call"
  BY DEF ReadEvent, Fail, ShapeInv
<1> QED
  BY <1>1, <1>2 DEF ShapeInv

LEMMA ToolEffects ==
    ASSUME ShapeInv, ToolChanges \/ ToolFails \/ ToolSubmits
    PROVE  /\ driver.pc = "tool" /\ driver'.pc = "post" /\ driver'.call = driver.call
           /\ UNCHANGED <<status, idle, loop, announced, queued, completed, wire>>
           /\ \E post : /\ post.result.call = driver.call /\ post.own
                        /\ posts' = posts \cup {post}
<1>1. /\ driver.pc = "tool" /\ driver'.pc = "post" /\ driver'.call = driver.call
      /\ UNCHANGED <<status, idle, loop, announced, queued, completed, wire>>
      /\ \E isError : posts' = posts \cup {Post(isError, TRUE)}
  BY DEF ToolChanges, ToolFails, ToolSubmits, Executes, ShapeInv, session
<1>2. \A isError : Post(isError, TRUE).result.call = driver.call /\ Post(isError, TRUE).own
  BY DEF Post
<1> QED
  BY <1>1, <1>2

LEMMA DeleteEffects ==
    ASSUME ShapeInv, DeleteSession
    PROVE  /\ driver'.pc = "decide" /\ UNCHANGED <<idle, posts>>
           /\ CloseSession \/ NotFound \/ UNCHANGED <<status, announced, queued, completed, loop, wire>>
  BY DEF DeleteSession, ShapeInv

LEMMA StartWaits == ASSUME IInv, StartSession PROVE WaitInv'
<1>1. /\ announced' = {} /\ queued' = {} /\ completed' = <<>> /\ posts' = {}
      /\ loop'.pc = "none" /\ loop'.calls = <<>>
      /\ wire'.up = FALSE /\ wire'.events = <<>>
      /\ \/ driver'.pc = "open" /\ driver'.call = NoCall
         \/ driver'.pc = "decide"
  BY StartEffects DEF IInv
<1> QED
  BY <1>1 DEF WaitInv, LoopInv, TakenInv, Known, OpenInv, AliveInv, DeliveredInv, StreamOn

LEMMA ClosedWaits ==
    ASSUME IInv, WaitInv, CloseSession \/ NotFound, driver'.pc \notin {"open", "read", "tool", "post"}
    PROVE  WaitInv'
<1>1. /\ loop'.pc \in {loop.pc, "over"}
      /\ loop'.calls = loop.calls /\ loop'.turn = loop.turn /\ loop'.at = loop.at
      /\ \/ queued' = {} /\ completed' = <<>>
         \/ UNCHANGED <<queued, completed>>
  BY CloseEffects DEF IInv
<1>2. LoopInv'
  BY <1>1 DEF WaitInv, LoopInv, Waits
<1>3. TakenInv'
  BY <1>1 DEF WaitInv, TakenInv, Taken, Known
<1> QED
  BY <1>2, <1>3 DEF WaitInv, OpenInv, AliveInv, DeliveredInv, Listening

LEMMA SessionWaits ==
    ASSUME IInv, WaitInv, OpenEvents \/ DeleteSession
    PROVE  WaitInv'
<1>1. CASE DeleteSession
  <2>1. CASE UNCHANGED <<status, announced, queued, completed, loop, wire>>
    BY <1>1, <2>1, LeavesWaits, DeleteEffects DEF IInv, Listening
  <2> QED
    BY <1>1, <2>1, ClosedWaits, DeleteEffects DEF IInv
<1>2. CASE OpenEvents /\ ~Found
  BY <1>2, OpenEffects, ClosedWaits DEF IInv
<1>3. CASE OpenEvents /\ Found
  <2>1. /\ driver.pc = "open" /\ idle' = idle /\ Found /\ driver'.pc = "read"
        /\ loop'.pc = "turn" /\ loop'.calls = <<>>
        /\ UNCHANGED <<status, queued, completed>>
    BY <1>3, OpenEffects DEF IInv
  <2>2. completed = <<>>
    BY <2>1 DEF WaitInv, OpenInv
  <2> QED
    BY <2>1, <2>2 DEF WaitInv, LoopInv, TakenInv, Known, OpenInv, AliveInv, DeliveredInv, Untaken,
                      Found
<1> QED
  BY <1>1, <1>2, <1>3

LEMMA ListenerWaits ==
    ASSUME IInv, WaitInv, ReadEvent \/ ToolChanges \/ ToolFails \/ ToolSubmits
    PROVE  WaitInv'
<1>0. TypeOK /\ ShapeInv /\ LoopInv /\ TakenInv /\ OpenInv /\ AliveInv /\ DeliveredInv
  BY DEF IInv, WaitInv
<1>1. CASE ReadEvent
  <2>1. /\ driver.pc = "read" /\ UNCHANGED <<status, idle, loop, announced, queued, completed, posts>>
        /\ wire.events # <<>> /\ wire'.up = wire.up /\ wire'.events = Tail(wire.events)
        /\ \/ driver'.pc = "stop"
           \/ /\ driver'.pc = "tool" /\ driver'.call = Head(wire.events).call
              /\ Head(wire.events).type = "tool_call"
    BY <1>0, <1>1, ReadEffects
  <2>2. wire.events \in Seq(Events)
    BY <1>0 DEF TypeOK
  <2>3. \A call : Has(wire.events, call) =>
                \/ Has(wire'.events, call)
                \/ Head(wire.events).type = "tool_call" /\ Head(wire.events).call = call
    BY <2>1, <2>2, TailHas
  <2>4. DeliveredInv'
    <3> SUFFICES ASSUME driver'.pc = "tool", Listening, wire.up, StreamOn, NEW i \in Nat,
                        Untaken(loop, i)
                 PROVE  \/ Has(wire'.events, loop.calls[i])
                        \/ driver'.call = loop.calls[i]
                        \/ Waits(queued, loop.calls[i])
      BY <2>1 DEF DeliveredInv, Listening, StreamOn, Untaken, Waits
    <3>1. Has(wire.events, loop.calls[i]) \/ Waits(queued, loop.calls[i])
      BY <1>0, <2>1 DEF DeliveredInv
    <3> QED
      BY <2>1, <2>3, <3>1
  <2>5. LoopInv' /\ TakenInv' /\ OpenInv' /\ AliveInv'
    BY <1>0, <2>1 DEF LoopInv, TakenInv, Taken, OpenInv, AliveInv, Listening, StreamOn
  <2> QED
    BY <2>4, <2>5 DEF WaitInv
<1>2. CASE ToolChanges \/ ToolFails \/ ToolSubmits
  <2>1. /\ driver.pc = "tool" /\ driver'.pc = "post" /\ driver'.call = driver.call
        /\ UNCHANGED <<status, idle, loop, announced, queued, completed, wire>>
    BY <1>0, <1>2, ToolEffects
  <2> QED
    BY <1>0, <2>1 DEF WaitInv, LoopInv, TakenInv, Taken, OpenInv, AliveInv, DeliveredInv, Untaken,
                      Listening, StreamOn
<1> QED
  BY <1>1, <1>2

LEMMA EnvironmentWaits ==
    ASSUME IInv, WaitInv,
           GoesIdle \/ PostAgain \/ ConnectionBreaks \/ \E n \in 1 .. MaxShots : ServesShot(n)
    PROVE  WaitInv'
<1> USE DEF session, LoopInv, TakenInv, Taken, OpenInv, AliveInv, DeliveredInv, Untaken, Listening,
            StreamOn, WaitInv
<1>1. CASE GoesIdle
  BY <1>1 DEF GoesIdle
<1>2. CASE PostAgain
  BY <1>2 DEF PostAgain
<1>3. CASE \E n \in 1 .. MaxShots : ServesShot(n)
  BY <1>3 DEF ServesShot, ResolveShot, RunShot, ShotOnly
<1>4. CASE ConnectionBreaks
  <2>1. wire.up /\ wire'.up = FALSE /\ UNCHANGED <<session, driver>>
    BY <1>4 DEF ConnectionBreaks
  <2> QED
    BY <2>1
<1> QED
  BY <1>1, <1>2, <1>3, <1>4

LEMMA WaitNext == ASSUME ~IdsRestart, IInv, WaitInv, [Next]_vars PROVE WaitInv'
<1>1. CASE UNCHANGED vars
  BY <1>1 DEF vars, session, LoopInv, TakenInv, Taken, OpenInv, AliveInv, DeliveredInv, Untaken,
              Listening, StreamOn, WaitInv
<1>2. CASE \/ StreamInterrupted \/ HangUp \/ Decide \/ Finish \/ RequestShot \/ ReadShot
           \/ ShotBreaks \/ RequestFails \/ Interrupted
  BY <1>2, LeaveEffects, LeavesWaits DEF IInv, Listening
<1>3. CASE \/ ModelCalls \/ ModelStops \/ ModelFails \/ AwaitResult \/ NextTurn
           \/ ServerNotices \/ PendingTimesOut
  BY <1>3, CallWaits, AwaitWaits, TurnWaits
<1>4. CASE \E post \in posts : PostArrives(post) \/ PostApplies(post)
  BY <1>4, ArriveWaits, ApplyWaits
<1>5. CASE StartSession \/ OpenEvents \/ DeleteSession
  BY <1>5, StartWaits, SessionWaits
<1>6. CASE ReadEvent \/ ToolChanges \/ ToolFails \/ ToolSubmits
  BY <1>6, ListenerWaits
<1>7. CASE GoesIdle \/ PostAgain \/ ConnectionBreaks \/ \E n \in 1 .. MaxShots : ServesShot(n)
  BY <1>7, EnvironmentWaits
<1> QED
  BY <1>1, <1>2, <1>3, <1>4, <1>5, <1>6, <1>7 DEF Next, Server, Driver, Environment, Terminated

-----------------------------------------------------------------------------
(* No result is refused: MadeInv and FreshInv are kept *)

AnswerInv == MadeInv /\ FreshInv

\* A call under way stays one that was made.
LEMMA MadeKept ==
    ASSUME MadeInv,
           \A call \in Calls : Has(wire'.events, call) => Has(wire.events, call),
           \A call \in Calls : Waits(queued', call) => Waits(queued, call) \/ Sent(posts, call),
           \A call \in Calls : Known(completed', call) =>
               Known(completed, call) \/ Waits(queued, call) \/ Sent(posts, call),
           \A call \in Calls : Sent(posts', call) =>
               Sent(posts, call) \/ (Listening /\ driver.call = call),
           \A call \in Calls : Listening' /\ driver'.call = call =>
               Has(wire.events, call) \/ (Listening /\ driver.call = call),
           \A call \in Calls : Made(loop, call) => Made(loop', call)
    PROVE  MadeInv'
  BY DEF MadeInv

LEMMA SameMade ==
    ASSUME loop'.calls = loop.calls, loop'.turn = loop.turn
    PROVE  \A call \in Calls : Made(loop, call) => Made(loop', call)
  BY DEF Made

LEMMA CallAnswers ==
    ASSUME ~IdsRestart, IInv, AnswerInv, ModelCalls
    PROVE  AnswerInv'
<1>0. TypeOK /\ ShapeInv /\ MadeInv /\ FreshInv
  BY DEF IInv, AnswerInv
<1>1. PICK call \in Calls :
             /\ call = <<loop.turn, Len(loop.calls) + 1>>
             /\ loop'.turn = loop.turn
             /\ loop'.calls = Append(loop.calls, call)
             /\ announced' = announced \cup {call}
             /\ \A other : Has(wire'.events, other) => Has(wire.events, other) \/ other = call
             /\ Distinct(wire.events) /\ ~Has(wire.events, call) => Distinct(wire'.events)
             /\ UNCHANGED <<status, idle, queued, completed, posts, driver>>
  BY <1>0, CallEffects
<1>2. loop.turn \in Nat /\ Len(loop.calls) \in Nat /\ Len(loop'.calls) = Len(loop.calls) + 1
  BY <1>0, <1>1 DEF TypeOK
<1>3. call[1] = loop.turn /\ call[2] = Len(loop.calls) + 1
  BY <1>1
<1>4. Made(loop', call) /\ ~Made(loop, call)
  BY <1>1, <1>2, <1>3 DEF Made
<1>5. \A other \in Calls : other[1] \in Nat /\ other[2] \in Nat
  BY DEF Calls
<1>6. \A other \in Calls : Made(loop, other) => Made(loop', other)
  BY <1>1, <1>2, <1>5 DEF Made
<1>7. MadeInv'
  BY <1>0, <1>1, <1>4, <1>6 DEF MadeInv, Listening
<1>8. /\ ~Has(wire.events, call) /\ ~Waits(queued, call) /\ ~Known(completed, call)
      /\ ~Sent(posts, call) /\ (Listening => driver.call # call)
  BY <1>0, <1>4 DEF MadeInv
<1>9. FreshInv'
  <2> SUFFICES ASSUME Listening PROVE FreshInv'
    BY <1>1 DEF FreshInv, Listening
  <2>1. Distinct(wire'.events)
    BY <1>0, <1>1, <1>8 DEF FreshInv
  <2>2. \A other : Unanswered(other) => Unanswered(other)'
    BY <1>1 DEF Unanswered
  <2>3. Unanswered(call)'
    BY <1>1, <1>8 DEF Unanswered
  <2> QED
    BY <1>0, <1>1, <1>8, <2>1, <2>2, <2>3 DEF FreshInv, Listening
<1> QED
  BY <1>7, <1>9 DEF AnswerInv

LEMMA TurnAnswers ==
    ASSUME IInv, AnswerInv, ModelStops \/ NextTurn \/ ModelFails \/ ServerNotices \/ PendingTimesOut
    PROVE  AnswerInv'
<1>0. TypeOK /\ ShapeInv /\ MadeInv /\ FreshInv
  BY DEF IInv, AnswerInv
<1>1. UNCHANGED <<status, idle, announced, queued, completed, posts, driver>>
  BY <1>0, TurnEffects
<1>2. /\ \A call : Has(wire'.events, call) => Has(wire.events, call)
      /\ Distinct(wire.events) => Distinct(wire'.events)
      /\ \A call \in Calls : Made(loop, call) => Made(loop', call)
  <2>1. CASE \E word \in {"done", "budget", "error", "cancelled"} : EndStream(word)
    BY <1>0, <2>1, EndHas, SameMade
  <2>2. CASE UNCHANGED wire /\ loop'.calls = loop.calls /\ loop'.turn = loop.turn
    BY <2>2, SameMade
  <2>3. CASE UNCHANGED wire /\ loop'.turn = loop.turn + 1
    <3>1. loop.turn \in Nat /\ \A call \in Calls : call[1] \in Nat
      BY <1>0 DEF TypeOK, Calls
    <3> QED
      BY <2>3, <3>1 DEF Made
  <2> QED
    BY <1>0, <2>1, <2>2, <2>3, TurnEffects
<1>3. MadeInv'
  BY <1>0, <1>1, <1>2, MadeKept DEF Listening
<1>4. FreshInv'
  BY <1>0, <1>1, <1>2 DEF FreshInv, Unanswered, Listening
<1> QED
  BY <1>3, <1>4 DEF AnswerInv

LEMMA AwaitAnswers ==
    ASSUME ~IdsRestart, IInv, AnswerInv, AwaitResult
    PROVE  AnswerInv'
<1>0. TypeOK /\ ShapeInv /\ MadeInv /\ FreshInv
  BY DEF IInv, AnswerInv
<1>1. UNCHANGED <<status, wire, posts, driver>>
  BY <1>0, AwaitEffects
<1>2. CASE \E result \in queued : TakeResult(result) /\ queued' = queued \ {result}
  <2>1. PICK result \in queued : TakeResult(result) /\ queued' = queued \ {result}
    BY <1>2
  <2>2. result \in Results /\ Waits(queued, result.call)
    BY <1>0 DEF TypeOK, Waits
  <2>3. /\ \A call : Known(completed', call) => Known(completed, call) \/ result.call = call
        /\ loop'.calls = loop.calls /\ loop'.turn = loop.turn
    BY <1>0, <2>1, <2>2, TakeKnown
  <2>4. announced' = announced \ {result.call}
    BY <2>1, IdIsCall DEF TakeResult
  <2>5. \A call : Waits(queued', call) => Waits(queued, call)
    BY <2>1 DEF Waits
  <2>6. MadeInv'
    BY <1>0, <1>1, <2>2, <2>3, <2>5, MadeKept, SameMade DEF Listening
  <2>7. \A call : Unanswered(call) => Unanswered(call)'
    BY <1>1, <2>2, <2>3, <2>4, <2>5 DEF Unanswered
  <2>8. FreshInv'
    BY <1>0, <1>1, <2>7 DEF FreshInv, Listening
  <2> QED
    BY <2>6, <2>8 DEF AnswerInv
<1>3. CASE /\ loop'.calls = loop.calls /\ loop'.turn = loop.turn
           /\ UNCHANGED <<queued, announced, completed>>
  <2>1. MadeInv'
    BY <1>0, <1>1, <1>3, MadeKept, SameMade DEF Listening
  <2>2. FreshInv'
    BY <1>0, <1>1, <1>3 DEF FreshInv, Unanswered, Listening
  <2> QED
    BY <2>1, <2>2 DEF AnswerInv
<1> QED
  BY <1>0, <1>2, <1>3, AwaitEffects

LEMMA ArriveAnswers ==
    ASSUME IInv, AnswerInv, NEW post \in posts, PostArrives(post)
    PROVE  AnswerInv'
<1>0. TypeOK /\ ShapeInv /\ MadeInv /\ FreshInv
  BY DEF IInv, AnswerInv
<1>1. CASE /\ UNCHANGED <<driver, status, announced, queued, completed, loop, wire>>
           /\ posts' = (posts \ {post}) \cup {[post EXCEPT !.pc = "body"]}
  <2>1. post \in [result : Results, own : BOOLEAN, pc : {"sent", "body"}]
    BY <1>0 DEF TypeOK
  <2>2. /\ [post EXCEPT !.pc = "body"].result = post.result
        /\ [post EXCEPT !.pc = "body"].own = post.own
    BY <2>1
  <2>3. \A p \in posts' : \E q \in posts : p.result = q.result /\ p.own = q.own
    BY <1>1, <2>2
  <2>4. \A call : Sent(posts', call) => Sent(posts, call)
    BY <2>3 DEF Sent
  <2>5. MadeInv'
    BY <1>0, <1>1, <2>4, MadeKept, SameMade DEF Listening
  <2>6. driver.pc = "post" /\ Listening =>
          \A p \in posts' : p.result.call = driver.call => p.own
    BY <1>0, <2>3 DEF FreshInv
  <2>7. \A call : Unanswered(call) => Unanswered(call)'
    BY <1>1 DEF Unanswered
  <2>8. FreshInv'
    BY <1>0, <1>1, <2>4, <2>6, <2>7 DEF FreshInv, Listening
  <2> QED
    BY <2>5, <2>8 DEF AnswerInv
<1>2. CASE NotFound /\ Reply(post, 404) /\ posts' = posts \ {post}
  <2>1. /\ \A call : Has(wire'.events, call) <=> Has(wire.events, call)
        /\ Distinct(wire.events) => Distinct(wire'.events)
        /\ loop'.calls = loop.calls /\ loop'.turn = loop.turn
        /\ \/ status' = "closed" /\ queued' = {} /\ completed' = <<>>
           \/ UNCHANGED <<status, announced, queued, completed>>
    BY <1>0, <1>2, CloseEffects
  <2>2. driver' = driver \/ driver'.pc = "stop"
    BY <1>0, <1>2, ReplyEffects
  <2>3. /\ \A call : Sent(posts', call) => Sent(posts, call)
        /\ \A call : Waits(queued', call) => Waits(queued, call)
        /\ \A call : Known(completed', call) => Known(completed, call)
    BY <1>2, <2>1 DEF Sent, Waits, Known
  <2>4. MadeInv'
    BY <1>0, <2>1, <2>2, <2>3, MadeKept, SameMade DEF Listening
  <2>5. \A call : Unanswered(call) => Unanswered(call)'
    BY <2>1, <2>3 DEF Unanswered
  <2>6. FreshInv'
    BY <1>0, <1>2, <2>1, <2>2, <2>3, <2>5 DEF FreshInv, Listening
  <2> QED
    BY <2>4, <2>6 DEF AnswerInv
<1> QED
  BY <1>0, <1>1, <1>2, ArriveEffects

LEMMA ApplyAnswers ==
    ASSUME ~IdsRestart, IInv, AnswerInv, NEW post \in posts, PostApplies(post)
    PROVE  AnswerInv'
<1> DEFINE sent == post.result.call
<1>0. TypeOK /\ ShapeInv /\ MadeInv /\ FreshInv
  BY DEF IInv, AnswerInv
<1>1. UNCHANGED <<status, wire>> /\ posts' = posts \ {post}
  BY <1>0, ApplyEffects
<1>2. post.result \in Results /\ Sent(posts, sent)
  BY <1>0 DEF TypeOK, Sent
<1>3. \/ UNCHANGED driver /\ ~(post.own /\ driver.pc = "post" /\ driver.call = sent)
      \/ driver.pc = "post" /\ driver'.call = driver.call /\ driver'.pc \in {"read", "stop"}
  <2>1. PICK code \in {200, 404, 409} : Reply(post, code)
    BY DEF PostApplies
  <2>2. \/ UNCHANGED driver /\ ~(post.own /\ driver.pc = "post" /\ driver.call = sent)
        \/ /\ driver.pc = "post" /\ driver.call = sent
           /\ driver'.call = driver.call
           /\ driver'.pc = IF code = 200 THEN "read" ELSE "stop"
    BY <1>0, <2>1, ReplyEffects
  <2> QED
    BY <2>2
<1>4. /\ \A call : Waits(queued', call) => Waits(queued, call) \/ call = sent
      /\ \A call : Known(completed', call) => Known(completed, call) \/ call = sent
      /\ announced \ {sent} \subseteq announced'
      /\ loop'.calls = loop.calls /\ loop'.turn = loop.turn
  <2>1. CASE UNCHANGED <<queued, announced, completed, loop>>
    BY <2>1
  <2>2. CASE TakeResult(post.result) /\ UNCHANGED queued
    <3>1. announced' = announced \ {sent}
      BY <2>2, IdIsCall DEF TakeResult
    <3> QED
      BY <1>0, <1>2, <2>2, <3>1, TakeKnown
  <2>3. CASE queued' = queued \cup {post.result} /\ UNCHANGED <<announced, completed, loop>>
    BY <2>3 DEF Waits
  <2> QED
    BY <1>0, <2>1, <2>2, <2>3, ApplyEffects
<1>5. \A call : Sent(posts', call) => Sent(posts, call)
  BY <1>1 DEF Sent
<1>6. MadeInv'
  BY <1>0, <1>1, <1>2, <1>3, <1>4, <1>5, MadeKept, SameMade DEF Listening
<1>7. \A call : call # sent /\ Unanswered(call) => Unanswered(call)'
  BY <1>1, <1>4 DEF Unanswered
<1>8. FreshInv'
  <2> SUFFICES ASSUME Listening' PROVE FreshInv'
    BY DEF FreshInv
  <2>1. Listening
    BY <1>3 DEF Listening
  <2>2. \A call \in Calls : Has(wire.events, call) =>
             call # sent /\ Unanswered(call)' /\ ~Sent(posts', call) /\ driver'.call # call
    BY <1>0, <1>2, <1>3, <1>5, <1>7, <2>1 DEF FreshInv
  <2>3. CASE driver'.pc = "read"
    BY <1>0, <1>1, <2>1, <2>2, <2>3 DEF FreshInv
  <2>4. CASE UNCHANGED driver /\ driver.pc = "tool"
    <3>1. driver.call # sent /\ Unanswered(driver.call) /\ ~Sent(posts, driver.call)
      BY <1>0, <1>2, <2>1, <2>4 DEF FreshInv
    <3> QED
      BY <1>0, <1>1, <1>5, <1>7, <2>1, <2>2, <2>4, <3>1 DEF FreshInv
  <2>5. CASE UNCHANGED driver /\ driver.pc = "post"
    <3>1. Unanswered(driver.call) /\ \A p \in posts : p.result.call = driver.call => p.own
      BY <1>0, <2>1, <2>5 DEF FreshInv
    <3>2. driver.call # sent
      BY <1>3, <2>5, <3>1
    <3> QED
      BY <1>0, <1>1, <1>7, <2>1, <2>2, <2>5, <3>1, <3>2 DEF FreshInv
  <2> QED
    BY <1>3, <2>1, <2>3, <2>4, <2>5 DEF Listening
<1> QED
  BY <1>6, <1>8 DEF AnswerInv

LEMMA ListenerAnswers ==
    ASSUME IInv, AnswerInv, ReadEvent \/ ToolChanges \/ ToolFails \/ ToolSubmits
    PROVE  AnswerInv'
<1>0. TypeOK /\ ShapeInv /\ MadeInv /\ FreshInv /\ CallInv
  BY DEF IInv, AnswerInv
<1>1. CASE ReadEvent
  <2>1. /\ driver.pc = "read" /\ UNCHANGED <<status, idle, loop, announced, queued, completed, posts>>
        /\ wire.events # <<>> /\ wire'.up = wire.up /\ wire'.events = Tail(wire.events)
        /\ \/ driver'.pc = "stop"
           \/ /\ driver'.pc = "tool" /\ driver'.call = Head(wire.events).call
              /\ Head(wire.events).type = "tool_call"
    BY <1>0, <1>1, ReadEffects
  <2>2. wire.events \in Seq(Events)
    BY <1>0 DEF TypeOK
  <2>3. /\ \A call : Has(wire'.events, call) => Has(wire.events, call)
        /\ Distinct(wire.events) => Distinct(wire'.events)
    BY <2>1, <2>2, TailHas
  <2>4. CASE driver'.pc = "stop"
    BY <1>0, <2>1, <2>3, <2>4, MadeKept, SameMade DEF AnswerInv, FreshInv, Listening
  <2>5. CASE /\ driver'.pc = "tool" /\ driver'.call = Head(wire.events).call
             /\ Head(wire.events).type = "tool_call"
    <3>1. Has(wire.events, driver'.call) /\ Listening
      BY <2>1, <2>2, <2>5, TailHas DEF Listening
    <3>2. driver'.call \in Calls
      <4>1. Head(wire.events) = wire.events[1] /\ 1 \in DOMAIN wire.events
        BY <2>1, <2>2
      <4> QED
        BY <1>0, <2>5, <4>1 DEF CallInv, Callable
    <3>3. Distinct(wire.events) => ~Has(wire'.events, driver'.call)
      BY <2>1, <2>2, <2>5, TailHas
    <3>4. MadeInv'
      BY <1>0, <2>1, <2>3, <3>1, MadeKept, SameMade
    <3>5. \A call : Unanswered(call) => Unanswered(call)'
      BY <2>1 DEF Unanswered
    <3>6. FreshInv'
      BY <1>0, <2>1, <2>3, <2>5, <3>1, <3>2, <3>3, <3>5 DEF FreshInv
    <3> QED
      BY <3>4, <3>6 DEF AnswerInv
  <2> QED
    BY <2>1, <2>4, <2>5
<1>2. CASE ToolChanges \/ ToolFails \/ ToolSubmits
  <2>1. /\ driver.pc = "tool" /\ driver'.pc = "post" /\ driver'.call = driver.call
        /\ UNCHANGED <<status, idle, loop, announced, queued, completed, wire>>
    BY <1>0, <1>2, ToolEffects
  <2>2. PICK post : post.result.call = driver.call /\ post.own /\ posts' = posts \cup {post}
    BY <1>0, <1>2, ToolEffects
  <2>3. \A call : Sent(posts', call) => Sent(posts, call) \/ call = driver.call
    BY <2>2 DEF Sent
  <2>4. MadeInv'
    BY <1>0, <2>1, <2>3, MadeKept, SameMade DEF Listening
  <2>5. \A call : Unanswered(call) => Unanswered(call)'
    BY <2>1 DEF Unanswered
  <2>6. \A p \in posts' : p.result.call = driver.call => p.own
    BY <1>0, <2>1, <2>2 DEF FreshInv, Listening, Sent
  <2>7. FreshInv'
    BY <1>0, <2>1, <2>3, <2>5, <2>6 DEF FreshInv, Listening
  <2> QED
    BY <2>4, <2>7 DEF AnswerInv
<1> QED
  BY <1>1, <1>2

LEMMA EnvironmentAnswers ==
    ASSUME IInv, AnswerInv,
           GoesIdle \/ PostAgain \/ ConnectionBreaks \/ \E n \in 1 .. MaxShots : ServesShot(n)
    PROVE  AnswerInv'
<1>0. TypeOK /\ MadeInv /\ FreshInv
  BY DEF IInv, AnswerInv
<1>1. CASE GoesIdle \/ \E n \in 1 .. MaxShots : ServesShot(n)
  <2>1. UNCHANGED <<status, loop, announced, queued, completed, wire, posts, driver>>
    BY <1>1 DEF GoesIdle, ServesShot, ResolveShot, RunShot, ShotOnly, session
  <2> QED
    BY <1>0, <2>1 DEF AnswerInv, MadeInv, Made, FreshInv, Unanswered, Listening
<1>2. CASE PostAgain
  <2>1. /\ driver.pc = "read"
        /\ UNCHANGED <<status, loop, announced, queued, completed, wire, driver>>
        /\ \E isError \in BOOLEAN : posts' = posts \cup {Post(isError, FALSE)}
    BY <1>2 DEF PostAgain, session
  <2>2. \A call : Sent(posts', call) => Sent(posts, call) \/ call = driver.call
    BY <2>1 DEF Sent, Post
  <2>3. MadeInv'
    BY <1>0, <2>1, <2>2, MadeKept, SameMade DEF Listening
  <2>4. \A call : Unanswered(call) => Unanswered(call)'
    BY <2>1 DEF Unanswered
  <2>5. FreshInv'
    BY <1>0, <2>1, <2>2, <2>4 DEF FreshInv, Listening
  <2> QED
    BY <2>3, <2>5 DEF AnswerInv
<1>3. CASE ConnectionBreaks
  <2>1. PICK n \in 0 .. Len(wire.events) :
             wire' = [up |-> FALSE, events |-> SubSeq(wire.events, 1, n)]
    BY <1>3 DEF ConnectionBreaks
  <2>2. UNCHANGED <<status, loop, announced, queued, completed, posts, driver>>
    BY <1>3 DEF ConnectionBreaks, session
  <2>3. wire.events \in Seq(Events)
    BY <1>0 DEF TypeOK
  <2>4. /\ \A call : Has(wire'.events, call) => Has(wire.events, call)
        /\ Distinct(wire.events) => Distinct(wire'.events)
    BY <2>1, <2>3, FewerHas
  <2>5. MadeInv'
    BY <1>0, <2>2, <2>4, MadeKept, SameMade DEF Listening
  <2>6. FreshInv'
    BY <1>0, <2>2, <2>4 DEF FreshInv, Unanswered, Listening
  <2> QED
    BY <2>5, <2>6 DEF AnswerInv
<1> QED
  BY <1>1, <1>2, <1>3

LEMMA LeaveAnswers ==
    ASSUME IInv, AnswerInv,
           \/ StreamInterrupted \/ HangUp \/ Decide \/ Finish \/ RequestShot \/ ReadShot
           \/ ShotBreaks \/ RequestFails \/ Interrupted
    PROVE  AnswerInv'
<1>1. /\ UNCHANGED <<loop, queued, completed>> /\ posts' \subseteq posts
      /\ driver'.pc \notin {"read", "tool", "post"}
      /\ wire' = wire \/ wire'.events = <<>>
  BY LeaveEffects DEF IInv
<1>2. /\ \A call : Has(wire'.events, call) => Has(wire.events, call)
      /\ \A call : Sent(posts', call) => Sent(posts, call)
  BY <1>1, NoneHas DEF Sent
<1>3. MadeInv'
  BY <1>1, <1>2, MadeKept, SameMade DEF AnswerInv, Listening
<1> QED
  BY <1>1, <1>3 DEF AnswerInv, FreshInv, Listening

LEMMA SessionAnswers ==
    ASSUME IInv, WaitInv, AnswerInv, StartSession \/ OpenEvents \/ DeleteSession
    PROVE  AnswerInv'
<1>1. CASE StartSession
  <2>1. /\ queued' = {} /\ completed' = <<>> /\ posts' = {} /\ wire'.events = <<>>
        /\ driver'.pc \in {"open", "decide"}
    BY <1>1, StartEffects DEF IInv
  <2> QED
    BY <2>1, NoneHas DEF AnswerInv, MadeInv, FreshInv, Waits, Known, Sent, Listening
<1>2. CASE OpenEvents /\ Found
  <2>1. /\ driver.pc = "open" /\ UNCHANGED <<queued, completed, posts>>
        /\ driver'.call = driver.call /\ driver'.pc = "read" /\ wire'.events = wire.events
    BY <1>2, OpenEffects DEF IInv
  <2>2. /\ wire'.events = <<>> /\ queued' = {} /\ completed' = <<>> /\ posts' = {}
        /\ driver'.call = NoCall
    BY <2>1 DEF WaitInv, OpenInv
  <2>3. NoCall \notin Calls
    BY DEF NoCall, Calls
  <2> QED
    BY <2>1, <2>2, <2>3, NoneHas DEF AnswerInv, MadeInv, FreshInv, Waits, Known, Sent
<1>3. CASE DeleteSession \/ (OpenEvents /\ ~Found)
  <2>1. /\ driver'.pc \in {"decide", "stop"} /\ posts' = posts
        /\ CloseSession \/ NotFound \/ UNCHANGED <<status, announced, queued, completed, loop, wire>>
    BY <1>3, DeleteEffects, OpenEffects DEF IInv
  <2>2. /\ \A call : Has(wire'.events, call) => Has(wire.events, call)
        /\ loop'.calls = loop.calls /\ loop'.turn = loop.turn
        /\ \A call : Waits(queued', call) => Waits(queued, call)
        /\ \A call : Known(completed', call) => Known(completed, call)
    <3>1. CASE CloseSession \/ NotFound
      BY <3>1, CloseEffects DEF IInv, Waits, Known
    <3>2. CASE UNCHANGED <<status, announced, queued, completed, loop, wire>>
      BY <3>2
    <3> QED
      BY <2>1, <3>1, <3>2
  <2>3. MadeInv'
    BY <2>1, <2>2, MadeKept, SameMade DEF AnswerInv, Listening
  <2> QED
    BY <2>1, <2>3 DEF AnswerInv, FreshInv, Listening
<1> QED
  BY <1>1, <1>2, <1>3

LEMMA AnswerNext == ASSUME ~IdsRestart, IInv, WaitInv, AnswerInv, [Next]_vars PROVE AnswerInv'
<1>1. CASE UNCHANGED vars
  BY <1>1 DEF vars, session, AnswerInv, MadeInv, Made, FreshInv, Unanswered, Listening
<1>2. CASE \/ StreamInterrupted \/ HangUp \/ Decide \/ Finish \/ RequestShot \/ ReadShot
           \/ ShotBreaks \/ RequestFails \/ Interrupted
  BY <1>2, LeaveAnswers
<1>3. CASE \/ ModelCalls \/ ModelStops \/ ModelFails \/ AwaitResult \/ NextTurn
           \/ ServerNotices \/ PendingTimesOut
  BY <1>3, CallAnswers, AwaitAnswers, TurnAnswers
<1>4. CASE \E post \in posts : PostArrives(post) \/ PostApplies(post)
  BY <1>4, ArriveAnswers, ApplyAnswers
<1>5. CASE StartSession \/ OpenEvents \/ DeleteSession
  BY <1>5, SessionAnswers
<1>6. CASE ReadEvent \/ ToolChanges \/ ToolFails \/ ToolSubmits
  BY <1>6, ListenerAnswers
<1>7. CASE GoesIdle \/ PostAgain \/ ConnectionBreaks \/ \E n \in 1 .. MaxShots : ServesShot(n)
  BY <1>7, EnvironmentAnswers
<1> QED
  BY <1>1, <1>2, <1>3, <1>4, <1>5, <1>6, <1>7 DEF Next, Server, Driver, Environment, Terminated

-----------------------------------------------------------------------------
(* What follows *)

CInv == IInv /\ WaitInv /\ AnswerInv

LEMMA CInvInit == Init => CInv
<1> SUFFICES ASSUME Init PROVE CInv
  OBVIOUS
<1>1. IInv
  BY TypeInit, ShapeInit DEF IInv, CallInv, Callable, Init
<1>2. /\ loop.pc = "none" /\ loop.calls = <<>> /\ driver.pc = "start"
      /\ queued = {} /\ completed = <<>> /\ posts = {} /\ wire.events = <<>>
  BY DEF Init, NoLoop
<1>3. WaitInv
  BY <1>2 DEF WaitInv, LoopInv, TakenInv, Known, OpenInv, AliveInv, DeliveredInv, Listening
<1>4. AnswerInv
  BY <1>2, NoneHas DEF AnswerInv, MadeInv, FreshInv, Waits, Known, Sent, Listening
<1> QED
  BY <1>1, <1>3, <1>4 DEF CInv

LEMMA CInvNext == ASSUME ~IdsRestart, CInv, [Next]_vars PROVE CInv'
<1>1. IInv /\ WaitInv /\ AnswerInv
  BY DEF CInv
<1>2. IInv'
  BY <1>1, NextIInv
<1>3. WaitInv'
  BY <1>1, WaitNext
<1>4. AnswerInv'
  BY <1>1, AnswerNext
<1> QED
  BY <1>2, <1>3, <1>4 DEF CInv

\* With an id for every call, each call of the model is in one place at a time: under way,
\* with the driver, or answered (server.ts:190-234, 762-804, drivers.py:880-1010).
THEOREM CallInvariant == ASSUME ~IdsRestart PROVE Spec => []CInv
<1>1. CInv /\ [Next]_vars => CInv'
  BY CInvNext
<1> QED
  BY <1>1, CInvInit, PTL DEF Spec

\* With an id for every call, the bridge and the driver never wait for each other,
\* whichever of them is first (server.ts:214, 769).
THEOREM NeverBothWait == ASSUME ~IdsRestart PROVE Spec => []NoMutualWait
<1>1. CInv => NoMutualWait
  <2> SUFFICES ASSUME CInv, driver.pc = "read", wire.up, wire.events = <<>>, loop.pc = "pending"
               PROVE  FALSE
    BY DEF NoMutualWait
  <2>1. loop.at \in DOMAIN loop.calls /\ ~Waits(queued, loop.calls[loop.at]) /\ loop.at \in Nat
    BY DEF CInv, IInv, TypeOK, WaitInv, LoopInv
  <2>2. Untaken(loop, loop.at) /\ Listening /\ StreamOn
    BY <2>1 DEF Untaken, Listening, StreamOn
  <2>3. Has(wire.events, loop.calls[loop.at])
    BY <2>1, <2>2 DEF CInv, WaitInv, DeliveredInv
  <2> QED
    BY <2>3, NoneHas
<1> QED
  BY <1>1, CallInvariant, PTL

\* With an id for every call, a result of the driver that gets an answer is refused only
\* because its session is closed (server.ts:777-803).
THEOREM ResultIsAlwaysTaken == ASSUME ~IdsRestart PROVE Spec => ResultIsTaken
<1>1. ASSUME CInv, [Next]_vars, driver.pc = "post", driver'.pc = "stop",
             driver'.why \in {"transient", "fatal"}, UNCHANGED faults
      PROVE  status' = "closed"
  <2>0. TypeOK /\ ShapeInv /\ PhaseInv /\ LeftInv /\ FreshInv
    BY <1>1 DEF CInv, IInv, AnswerInv
  <2>1. Unanswered(driver.call) /\ status \in {"open", "closed"}
    BY <1>1, <2>0 DEF FreshInv, Listening, PhaseInv, LeftInv, TypeOK
  <2>2. CASE Interrupted
    <3>1. driver' = Fail("interrupted")
      BY <1>1, <2>2 DEF Interrupted
    <3>2. driver'.why = "interrupted"
      BY <2>0, <3>1 DEF Fail, ShapeInv
    <3> QED
      BY <1>1, <3>2
  <2>3. CASE \E post \in posts : PostArrives(post)
    <3>1. PICK post \in posts : PostArrives(post)
      BY <2>3
    <3>2. CASE ~Found /\ NotFound
      BY <2>0, <2>1, <3>2, CloseEffects
    <3>3. CASE UNCHANGED driver
      BY <1>1, <3>3
    <3> QED
      BY <2>0, <3>1, <3>2, <3>3, ArriveEffects
  <2>4. CASE \E post \in posts : PostApplies(post)
    <3>1. PICK post \in posts : PostApplies(post)
      BY <2>4
    <3>2. ASSUME NEW code \in {200, 404, 409}, Reply(post, code)
          PROVE  driver.call = post.result.call /\ code # 200
      BY <1>1, <2>0, <3>2, ReplyEffects
    <3>3. ~(Waits(queued, post.result.call) \/ Known(completed, post.result.call))
      <4>1. driver.call = post.result.call
        BY <3>1, <3>2 DEF PostApplies
      <4> QED
        BY <2>1, <4>1 DEF Unanswered
    <3>4. ~Reply(post, 200)
      BY <3>2
    <3>5. post.result.call \notin announced /\ Reply(post, 404) /\ UNCHANGED status
      <4>1. UNCHANGED status
        BY <3>1 DEF PostApplies
      <4>2. \/ Waits(queued, post.result.call) \/ Known(completed, post.result.call)
            \/ Reply(post, 200)
            \/ post.result.call \notin announced /\ Reply(post, 404)
        <5>1. \/ /\ Waits(queued, post.result.call) \/ Known(completed, post.result.call)
                 /\ \E code \in {200, 409} : Reply(post, code)
                 /\ UNCHANGED <<queued, announced, completed, loop>>
              \/ /\ loop.pc = "pending" /\ loop.calls[loop.at] = post.result.call
                 /\ TakeResult(post.result) /\ Reply(post, 200) /\ UNCHANGED queued
              \/ /\ ~(loop.pc = "pending" /\ loop.calls[loop.at] = post.result.call)
                 /\ post.result.call \in announced /\ Reply(post, 200)
                 /\ queued' = queued \cup {post.result}
                 /\ UNCHANGED <<announced, completed, loop>>
              \/ /\ post.result.call \notin announced /\ Reply(post, 404)
                 /\ UNCHANGED <<queued, announced, completed, loop>>
          BY <2>0, <3>1, ApplyEffects
        <5> QED
          BY <5>1
      <4> QED
        BY <3>3, <3>4, <4>1, <4>2
    <3>6. driver.call = post.result.call
      BY <3>2, <3>5
    <3> QED
      BY <2>1, <3>5, <3>6 DEF Unanswered
  <2>5. CASE UNCHANGED driver \/ driver.pc # "post"
    BY <1>1, <2>5
  <2>6. CASE RequestFails
    <3>1. faults \in Nat /\ faults' = faults + 1
      BY <2>0, <2>6 DEF RequestFails, Fault, TypeOK
    <3> QED
      BY <1>1, <3>1
  <2>7. \/ Interrupted \/ RequestFails \/ UNCHANGED driver \/ driver.pc # "post"
        \/ \E post \in posts : PostArrives(post) \/ PostApplies(post)
    BY <1>1 DEF Next, Server, Driver, Environment, Terminated, vars, session, history,
        ModelCalls, ModelStops, ModelFails, AwaitResult, NextTurn, ServerNotices, LoopOnly,
        ServesShot, ResolveShot, RunShot, ShotOnly, StartSession, OpenEvents, ReadEvent,
        StreamInterrupted, ToolChanges, ToolFails, ToolSubmits, Executes, HangUp, DeleteSession,
        Decide, Finish, RequestShot, ReadShot, GoesIdle, PendingTimesOut, ConnectionBreaks,
        PostAgain, ShotBreaks
  <2> QED
    BY <2>2, <2>3, <2>4, <2>5, <2>6, <2>7
<1>2. CInv /\ [Next]_vars => [driver.pc = "post" /\ driver'.pc = "stop"
          /\ driver'.why \in {"transient", "fatal"} /\ UNCHANGED faults
          => status' = "closed"]_vars
  BY <1>1
<1> QED
  BY <1>2, CallInvariant, PTL DEF Spec, ResultIsTaken

-----------------------------------------------------------------------------
(* The session implements AgentExchange *)

\* The call was asked for and the driver has executed it.
Executed(call) == \E k \in 1 .. executed : k \in DOMAIN asked /\ asked[k] = call

\* How many calls were asked for before those of the turn.
Before == Len(asked) - Len(loop.calls)

\* What was asked for ends with the calls of the turn, and each call is there once.
AskedInv ==
    /\ asked \in Seq(Calls) /\ Len(loop.calls) <= Len(asked)
    /\ \A i \in DOMAIN loop.calls : asked[Before + i] = loop.calls[i]
    /\ \A k \in 1 .. Before : asked[k][1] < loop.turn
    /\ \A j, k \in DOMAIN asked : asked[j] = asked[k] => j = k

\* The loop has told the model the results of everything before the call it is at.
ToldInv ==
    /\ messages \in Seq(Calls)
    /\ loop.pc = "turn" => Len(messages) = Before
    /\ loop.pc \in {"call", "pending"} =>
         loop.at \in 1 .. Len(loop.calls) + 1 /\ Len(messages) = Before + loop.at - 1

\* How many calls the driver has read.
Taking == executed + IF driver.pc = "tool" THEN 1 ELSE 0

\* The stream brings the calls in their order, and all of them while it lasts.
StreamInv ==
    Listening =>
        /\ \A i \in DOMAIN wire.events : wire.events[i].type = "tool_call" =>
             Taking + i \in DOMAIN asked /\ wire.events[i].call = asked[Taking + i]
        /\ wire.up /\ StreamOn => Taking + Len(wire.events) = Len(asked)

\* Results are of calls that were executed, and the next one is with the driver.
ExecutedInv ==
    /\ executed \in Nat
    /\ \A r \in queued : Executed(r.call)
    /\ \A p \in posts : Executed(p.result.call)
    /\ driver.pc = "tool" => executed + 1 \in DOMAIN asked /\ driver.call = asked[executed + 1]
    /\ driver.pc \in {"read", "post"} /\ driver.call # NoCall => Executed(driver.call)

\* A session starts without calls.
EmptyInv == driver.pc = "open" => asked = <<>> /\ executed = 0 /\ messages = <<>>

ExchangeInv == AskedInv /\ ToldInv /\ StreamInv /\ ExecutedInv /\ EmptyInv

\* What was asked for and executed stays so.
LEMMA ExecutedKept ==
    ASSUME NEW call \in Calls, Executed(call), AskedInv, ExecutedInv,
           executed' \in {executed, executed + 1},
           asked' = asked \/ \E other \in Calls : asked' = Append(asked, other)
    PROVE  Executed(call)'
<1>1. asked \in Seq(Calls) /\ executed \in Nat
  BY DEF AskedInv, ExecutedInv
<1>2. PICK k \in 1 .. executed : k \in DOMAIN asked /\ asked[k] = call
  BY DEF Executed
<1>3. k \in 1 .. executed'
  BY <1>1
<1>4. k \in DOMAIN asked' /\ asked'[k] = call
  BY <1>1, <1>2
<1> QED
  BY <1>3, <1>4 DEF Executed

\* Steps that leave the calls of the turn alone.
LEMMA SameAsked ==
    ASSUME AskedInv, asked' = asked, loop'.calls = loop.calls, loop'.turn = loop.turn
    PROVE  AskedInv' /\ Before' = Before
  BY DEF AskedInv, Before

LEMMA SameTold ==
    ASSUME ToldInv, asked' = asked, messages' = messages, loop'.calls = loop.calls,
           loop'.at = loop.at, loop'.pc \in {loop.pc, "over"}
    PROVE  ToldInv'
  BY DEF ToldInv, Before

\* Steps of those who neither ask nor execute.
LEMMA SameExecuted ==
    ASSUME AskedInv, ExecutedInv, asked' = asked, executed' = executed,
           \A r \in queued' : r \in queued \/ \E p \in posts : r = p.result,
           \A p \in posts' : \E q \in posts : p.result = q.result,
           \/ driver' = driver
           \/ driver.pc = "post" /\ driver'.pc = "read" /\ driver'.call = driver.call
           \/ driver'.pc \notin {"read", "tool", "post"}
    PROVE  ExecutedInv'
<1>1. \A call : Executed(call)' <=> Executed(call)
  BY DEF Executed
<1>2. (\A r \in queued' : Executed(r.call)) /\ (\A p \in posts' : Executed(p.result.call))
  BY DEF ExecutedInv
<1>3. driver'.pc = "tool" => executed + 1 \in DOMAIN asked /\ driver'.call = asked[executed + 1]
  BY DEF ExecutedInv
<1>4. driver'.pc \in {"read", "post"} /\ driver'.call # NoCall => Executed(driver'.call)
  BY DEF ExecutedInv
<1> QED
  BY <1>1, <1>2, <1>3, <1>4 DEF ExecutedInv

\* The driver goes on reading, or not at all.
LEMMA SameStream ==
    ASSUME StreamInv, asked' = asked, executed' = executed,
           Listening' => Listening /\ (driver'.pc = "tool" <=> driver.pc = "tool"),
           \A i \in DOMAIN wire'.events : wire'.events[i].type = "tool_call" =>
               i \in DOMAIN wire.events /\ wire'.events[i] = wire.events[i],
           wire'.up /\ StreamOn' => wire.up /\ StreamOn /\ Len(wire'.events) = Len(wire.events)
    PROVE  StreamInv'
<1> SUFFICES ASSUME Listening' PROVE StreamInv'
  BY DEF StreamInv
<1>1. Taking' = Taking /\ Listening
  BY DEF Taking
<1> QED
  BY <1>1 DEF StreamInv

\* The last word of a stream is no call.
LEMMA EndEvents ==
    ASSUME TypeOK, ShapeInv, NEW word \in {"done", "budget", "error", "cancelled"}, EndStream(word)
    PROVE  /\ \A i \in DOMAIN wire'.events : wire'.events[i].type = "tool_call" =>
                 i \in DOMAIN wire.events /\ wire'.events[i] = wire.events[i]
           /\ loop'.pc = "over" /\ loop'.calls = loop.calls /\ loop'.turn = loop.turn
           /\ loop'.at = loop.at
<1> DEFINE event == [type |-> word, call |-> NoCall]
<1>1. event \in Events /\ event.type # "tool_call" /\ wire.events \in Seq(Events)
  BY DEF TypeOK, Events
<1>2. wire' = wire \/ wire'.events = Append(wire.events, event)
  BY DEF EndStream, Send, ShapeInv
<1>3. \A i \in DOMAIN wire'.events : wire'.events[i].type = "tool_call" =>
                 i \in DOMAIN wire.events /\ wire'.events[i] = wire.events[i]
  <2> HIDE DEF event
  <2>1. CASE wire' = wire
    BY <2>1
  <2>2. CASE wire'.events = Append(wire.events, event)
    BY <1>1, <2>2
  <2> QED
    BY <1>2, <2>1, <2>2
<1> QED
  BY <1>3, EndHas

LEMMA CloseEvents ==
    ASSUME TypeOK, ShapeInv, CloseSession \/ NotFound
    PROVE  /\ \A i \in DOMAIN wire'.events : wire'.events[i].type = "tool_call" =>
                 i \in DOMAIN wire.events /\ wire'.events[i] = wire.events[i]
           /\ loop'.calls = loop.calls /\ loop'.turn = loop.turn /\ loop'.at = loop.at
           /\ loop'.pc = "over" \/ UNCHANGED <<loop, wire>>
           /\ queued' \subseteq queued
<1>1. queued' \subseteq queued
  BY DEF CloseSession, NotFound
<1>2. CASE EndStream("error")
  BY <1>1, <1>2, EndEvents
<1>3. CASE UNCHANGED <<loop, wire>>
  BY <1>1, <1>3
<1> QED
  BY <1>2, <1>3 DEF CloseSession, NotFound

\* The model asks for a call.
LEMMA CallAsks ==
    ASSUME TypeOK, ShapeInv, ModelCalls
    PROVE  \E call \in Calls, event \in Events :
             /\ event.type = "tool_call" /\ event.call = call
             /\ loop.pc = "turn" /\ call = <<loop.turn, Len(loop.calls) + 1>>
             /\ loop'.pc = "turn" /\ loop'.turn = loop.turn
             /\ loop'.calls = Append(loop.calls, call)
             /\ asked' = Append(asked, call)
             /\ \/ wire.up /\ wire'.up = wire.up /\ wire'.events = Append(wire.events, event)
                \/ ~wire.up /\ wire' = wire
             /\ UNCHANGED <<executed, messages, queued, posts, driver>>
<1> DEFINE call == <<loop.turn, Len(loop.calls) + 1>>
           event == [type |-> "tool_call", call |-> call]
<1>1. /\ call \in Calls /\ Send("tool_call", call) /\ loop.pc = "turn"
      /\ asked' = Append(asked, call)
      /\ UNCHANGED <<executed, messages, queued, posts, driver>>
  BY DEF ModelCalls, LoopOnly
<1>2. /\ loop'.pc = loop.pc /\ loop'.turn = loop.turn
      /\ loop'.calls = Append(loop.calls, call)
  BY DEF ModelCalls, ShapeInv
<1>3. event \in Events /\ event.type = "tool_call" /\ event.call = call
  BY <1>1 DEF Events
<1>4. \/ wire.up /\ wire'.up = wire.up /\ wire'.events = Append(wire.events, event)
      \/ ~wire.up /\ wire' = wire
  BY <1>1 DEF Send, ShapeInv
<1> HIDE DEF event
<1> QED
  BY <1>1, <1>2, <1>3, <1>4

\* A call that was asked for is of an earlier turn, or one of the calls of this one.
LEMMA AskedTurn ==
    ASSUME TypeOK, LoopInv, AskedInv, NEW k \in DOMAIN asked
    PROVE  /\ asked[k] \in Calls /\ asked[k][1] \in Nat
           /\ k <= Before => asked[k][1] < loop.turn
           /\ ~(k <= Before) => \E i \in DOMAIN loop.calls : asked[k] = <<loop.turn, i>>
<1>1. /\ asked \in Seq(Calls) /\ loop.calls \in Seq(Calls) /\ Before \in Nat
      /\ Len(asked) = Before + Len(loop.calls) /\ Len(loop.calls) \in Nat
  BY DEF TypeOK, AskedInv, Before
<1>2. k \in 1 .. Len(asked) /\ asked[k] \in Calls /\ asked[k][1] \in Nat
  BY <1>1 DEF Calls
<1>3. ASSUME k <= Before PROVE asked[k][1] < loop.turn
  BY <1>1, <1>2, <1>3 DEF AskedInv
<1>4. ASSUME ~(k <= Before) PROVE \E i \in DOMAIN loop.calls : asked[k] = <<loop.turn, i>>
  <2>1. PICK i \in Nat : i = k - Before
    BY <1>1, <1>2, <1>4
  <2>2. i \in DOMAIN loop.calls /\ Before + i = k
    BY <1>1, <1>2, <1>4, <2>1
  <2>3. asked[k] = <<loop.turn, i>>
    BY <2>2 DEF AskedInv, LoopInv
  <2> QED
    BY <2>2, <2>3
<1> QED
  BY <1>2, <1>3, <1>4

LEMMA CallExchanges ==
    ASSUME IInv, WaitInv, ExchangeInv, ModelCalls
    PROVE  /\ ExchangeInv'
           /\ \E call \in Calls :
                /\ asked' = Append(asked, call) /\ UNCHANGED <<executed, messages>>
                /\ asked # <<>> =>
                     \/ call[1] = asked[Len(asked)][1]
                     \/ call[1] > asked[Len(asked)][1] /\ Len(messages) = Len(asked)
<1>0. /\ TypeOK /\ ShapeInv /\ LoopInv
      /\ AskedInv /\ ToldInv /\ StreamInv /\ ExecutedInv /\ EmptyInv
  BY DEF IInv, WaitInv, ExchangeInv
<1>1. PICK call \in Calls, event \in Events :
             /\ event.type = "tool_call" /\ event.call = call
             /\ loop.pc = "turn" /\ call = <<loop.turn, Len(loop.calls) + 1>>
             /\ loop'.pc = "turn" /\ loop'.turn = loop.turn
             /\ loop'.calls = Append(loop.calls, call)
             /\ asked' = Append(asked, call)
             /\ \/ wire.up /\ wire'.up = wire.up /\ wire'.events = Append(wire.events, event)
                \/ ~wire.up /\ wire' = wire
             /\ UNCHANGED <<executed, messages, queued, posts, driver>>
  BY <1>0, CallAsks
<1>2. /\ loop.calls \in Seq(Calls) /\ asked \in Seq(Calls) /\ loop.turn \in Nat
      /\ Before \in Nat /\ Len(asked) = Before + Len(loop.calls)
      /\ Len(loop.calls) \in Nat /\ Len(asked) \in Nat
  BY <1>0 DEF TypeOK, AskedInv, Before
<1> DEFINE last == Len(asked) + 1
<1>3. /\ Len(asked') = last /\ DOMAIN asked' = 1 .. last /\ asked'[last] = call
      /\ \A k \in DOMAIN asked : asked'[k] = asked[k] /\ k \in DOMAIN asked'
      /\ \A k \in DOMAIN asked' : k = last \/ k \in DOMAIN asked
      /\ asked' \in Seq(Calls)
  BY <1>1, <1>2
<1>4. /\ Len(loop'.calls) = Len(loop.calls) + 1
      /\ loop'.calls[Len(loop.calls) + 1] = call
      /\ \A i \in DOMAIN loop.calls : loop'.calls[i] = loop.calls[i]
      /\ DOMAIN loop.calls = 1 .. Len(loop.calls) /\ DOMAIN loop'.calls = 1 .. Len(loop.calls) + 1
  BY <1>1, <1>2
<1>5. Before' = Before
  BY <1>2, <1>3, <1>4 DEF Before
<1>6. call[1] = loop.turn /\ call[2] = Len(loop.calls) + 1
  BY <1>1
\* What was asked for before is of an earlier turn, or earlier in this one.
<1>7. ASSUME NEW k \in DOMAIN asked
      PROVE  /\ asked[k] # call /\ asked[k][1] \in Nat
             /\ k <= Before => asked[k][1] < loop.turn
             /\ k > Before => asked[k][1] = loop.turn
  <2>1. /\ asked[k][1] \in Nat
        /\ k <= Before => asked[k][1] < loop.turn
        /\ ~(k <= Before) => \E i \in DOMAIN loop.calls : asked[k] = <<loop.turn, i>>
    BY <1>0, AskedTurn
  <2>2. k \in Nat /\ ~(Len(loop.calls) + 1 \in DOMAIN loop.calls)
    BY <1>2, <1>4
  <2>3. CASE k <= Before
    BY <1>2, <1>6, <2>1, <2>2, <2>3
  <2>4. CASE ~(k <= Before)
    <3>1. PICK i \in DOMAIN loop.calls : asked[k] = <<loop.turn, i>>
      BY <2>1, <2>4
    <3>2. asked[k][1] = loop.turn /\ asked[k][2] # call[2]
      BY <1>6, <2>2, <3>1
    <3> QED
      BY <2>1, <2>4, <3>2
  <2> QED
    BY <2>3, <2>4
<1>8. AskedInv'
  <2>1. asked' \in Seq(Calls) /\ Len(loop'.calls) <= Len(asked')
    BY <1>0, <1>2, <1>3, <1>4 DEF AskedInv
  <2>2. ASSUME NEW i \in DOMAIN loop'.calls PROVE asked'[Before' + i] = loop'.calls[i]
    <3>1. CASE i = Len(loop.calls) + 1
      BY <1>2, <1>3, <1>4, <1>5, <3>1
    <3>2. CASE i # Len(loop.calls) + 1
      <4>1. i \in DOMAIN loop.calls /\ Before + i \in DOMAIN asked
        BY <1>2, <1>3, <1>4, <3>2
      <4> QED
        BY <1>0, <1>3, <1>4, <1>5, <4>1 DEF AskedInv
    <3> QED
      BY <3>1, <3>2
  <2>3. ASSUME NEW k \in 1 .. Before' PROVE asked'[k][1] < loop'.turn
    <3>1. k \in 1 .. Before /\ k \in DOMAIN asked
      BY <1>2, <1>3, <1>5
    <3> QED
      BY <1>0, <1>1, <1>3, <3>1 DEF AskedInv
  <2>4. ASSUME NEW j \in DOMAIN asked', NEW k \in DOMAIN asked', asked'[j] = asked'[k]
        PROVE  j = k
    <3>1. (j = last \/ j \in DOMAIN asked) /\ (k = last \/ k \in DOMAIN asked)
      BY <1>3
    <3> HIDE DEF last
    <3>2. CASE j \in DOMAIN asked /\ k \in DOMAIN asked
      BY <1>0, <1>3, <2>4, <3>2 DEF AskedInv
    <3>3. CASE j = last /\ k \in DOMAIN asked
      BY <1>3, <1>7, <2>4, <3>3
    <3>4. CASE j \in DOMAIN asked /\ k = last
      BY <1>3, <1>7, <2>4, <3>4
    <3> QED
      BY <3>1, <3>2, <3>3, <3>4
  <2> QED
    BY <2>1, <2>2, <2>3, <2>4 DEF AskedInv
<1>9. ToldInv'
  BY <1>0, <1>1, <1>5 DEF ToldInv
<1>10. StreamInv'
  <2> SUFFICES ASSUME Listening PROVE StreamInv'
    BY <1>1 DEF StreamInv, Listening
  <2>1. Taking' = Taking /\ Taking \in Nat
    BY <1>0, <1>1 DEF Taking, ExecutedInv
  <2>2. wire.events \in Seq(Events) /\ StreamOn /\ StreamOn'
    BY <1>0, <1>1 DEF TypeOK, StreamOn
  <2>3. \A i \in DOMAIN wire.events : wire.events[i].type = "tool_call" =>
             Taking + i \in DOMAIN asked' /\ wire.events[i].call = asked'[Taking + i]
    BY <1>0, <1>3 DEF StreamInv
  <2>4. CASE ~wire.up /\ wire' = wire
    BY <2>1, <2>3, <2>4 DEF StreamInv
  <2>5. CASE wire.up /\ wire'.events = Append(wire.events, event)
    <3>1. Taking + Len(wire.events) = Len(asked)
      BY <1>0, <2>2, <2>5 DEF StreamInv
    <3>2. /\ Len(wire'.events) = Len(wire.events) + 1 /\ Len(wire.events) \in Nat
          /\ wire'.events[Len(wire.events) + 1] = event
          /\ \A i \in DOMAIN wire.events : wire'.events[i] = wire.events[i]
          /\ \A i \in DOMAIN wire'.events : i = Len(wire.events) + 1 \/ i \in DOMAIN wire.events
      BY <2>2, <2>5
    <3>3. Taking + Len(wire.events) + 1 = last
      BY <1>2, <2>1, <3>1, <3>2
    <3>4. Taking + (Len(wire.events) + 1) = last
      BY <2>1, <3>2, <3>3
    <3>5. ASSUME NEW i \in DOMAIN wire'.events, wire'.events[i].type = "tool_call"
          PROVE  Taking + i \in DOMAIN asked' /\ wire'.events[i].call = asked'[Taking + i]
      <4>1. CASE i = Len(wire.events) + 1
        <5>1. Taking + i = last /\ wire'.events[i].call = call
          BY <1>1, <3>2, <3>4, <4>1
        <5>2. last \in DOMAIN asked'
          BY <1>2, <1>3
        <5> QED
          BY <1>3, <5>1, <5>2
      <4>2. CASE i \in DOMAIN wire.events
        BY <2>3, <3>2, <3>5, <4>2
      <4> QED
        BY <3>2, <4>1, <4>2
    <3> QED
      BY <1>3, <2>1, <3>2, <3>4, <3>5 DEF StreamInv
  <2> QED
    BY <1>1, <2>4, <2>5
<1>11. ExecutedInv'
  <2>1. asked' = asked \/ \E other \in Calls : asked' = Append(asked, other)
    BY <1>1
  <2>2. \A c \in Calls : Executed(c) => Executed(c)'
    BY <1>0, <1>1, <2>1, ExecutedKept
  <2>3. /\ \A r \in queued : r.call \in Calls
        /\ \A p \in posts : p.result.call \in Calls
        /\ driver.call # NoCall => driver.call \in Calls
    BY <1>0 DEF TypeOK, Results
  <2>4. driver.pc = "tool" => executed + 1 \in DOMAIN asked' /\ driver.call = asked'[executed + 1]
    BY <1>0, <1>3 DEF ExecutedInv
  <2> QED
    BY <1>0, <1>1, <2>2, <2>3, <2>4 DEF ExecutedInv
<1>12. EmptyInv'
  <2>1. driver.pc # "open"
    BY <1>0, <1>1 DEF WaitInv, OpenInv
  <2> QED
    BY <1>1, <2>1 DEF EmptyInv
<1>13. asked # <<>> =>
                     \/ call[1] = asked[Len(asked)][1]
                     \/ call[1] > asked[Len(asked)][1] /\ Len(messages) = Len(asked)
  <2> SUFFICES ASSUME asked # <<>>
               PROVE  \/ call[1] = asked[Len(asked)][1]
                      \/ call[1] > asked[Len(asked)][1] /\ Len(messages) = Len(asked)
    OBVIOUS
  <2>1. Len(asked) \in DOMAIN asked
    BY <1>2
  <2>2. CASE Len(loop.calls) = 0
    <3>1. Before = Len(asked) /\ Len(messages) = Len(asked)
      BY <1>0, <1>1, <1>2, <2>2 DEF ToldInv
    <3>2. asked[Len(asked)][1] < loop.turn /\ asked[Len(asked)][1] \in Nat
      BY <1>2, <1>7, <2>1, <3>1
    <3> QED
      BY <1>2, <1>6, <3>1, <3>2
  <2>3. CASE Len(loop.calls) # 0
    <3>1. Len(asked) > Before
      BY <1>2, <2>3
    <3> QED
      BY <1>6, <1>7, <2>1, <3>1
  <2> QED
    BY <2>2, <2>3
<1> QED
  BY <1>1, <1>8, <1>9, <1>10, <1>11, <1>12, <1>13 DEF ExchangeInv

\* The result of the call the loop is at is the next answer.
LEMMA TakeExchanges ==
    ASSUME TypeOK, ShapeInv, LoopInv, AskedInv, ToldInv, ExecutedInv,
           NEW result \in Results, TakeResult(result), UNCHANGED <<asked, executed>>,
           loop.pc \in {"call", "pending"}, loop.at \in DOMAIN loop.calls,
           result.call = loop.calls[loop.at], Executed(result.call)
    PROVE  /\ AskedInv' /\ ToldInv'
           /\ Len(messages) < executed
           /\ messages' = Append(messages, asked[Len(messages) + 1])
<1>1. /\ asked \in Seq(Calls) /\ loop.calls \in Seq(Calls) /\ messages \in Seq(Calls)
      /\ Before \in Nat /\ Len(asked) = Before + Len(loop.calls) /\ Len(loop.calls) \in Nat
      /\ loop.at \in 1 .. Len(loop.calls) /\ loop.at \in Nat /\ executed \in Nat
  BY DEF TypeOK, AskedInv, ToldInv, ExecutedInv, Before
<1>2. /\ loop'.pc = "call" /\ loop'.calls = loop.calls /\ loop'.turn = loop.turn
      /\ loop'.at = loop.at + 1 /\ messages' = Append(messages, result.call)
  BY TakeKnown DEF TakeResult
<1>3. Len(messages) = Before + loop.at - 1 /\ Len(messages) \in Nat
  BY <1>1 DEF ToldInv
<1>4. Len(messages) + 1 = Before + loop.at /\ Before + loop.at \in DOMAIN asked
  BY <1>1, <1>3
<1>5. asked[Len(messages) + 1] = result.call
  BY <1>4 DEF AskedInv
<1>6. Len(messages) < executed
  <2>1. PICK k \in 1 .. executed : k \in DOMAIN asked /\ asked[k] = result.call
    BY DEF Executed
  <2>2. k = Len(messages) + 1
    BY <1>4, <1>5, <2>1 DEF AskedInv
  <2> QED
    BY <1>1, <1>3, <2>1, <2>2
<1>7. AskedInv' /\ Before' = Before
  BY <1>2, SameAsked
<1>8. /\ messages' \in Seq(Calls) /\ Len(messages') = Len(messages) + 1
      /\ loop'.at \in 1 .. Len(loop'.calls) + 1
      /\ Len(messages') = Before + loop'.at - 1
  <2>1. result.call \in Calls
    BY DEF Results
  <2>2. messages' \in Seq(Calls) /\ Len(messages') = Len(messages) + 1
    BY <1>1, <1>2, <2>1
  <2>3. loop'.at \in 1 .. Len(loop'.calls) + 1
    BY <1>1, <1>2
  <2> QED
    BY <1>1, <1>2, <1>3, <2>2, <2>3
<1>9. ToldInv'
  BY <1>2, <1>7, <1>8 DEF ToldInv
<1> QED
  BY <1>2, <1>5, <1>6, <1>7, <1>9

LEMMA AwaitExchanges ==
    ASSUME ~IdsRestart, IInv, WaitInv, ExchangeInv, AwaitResult
    PROVE  /\ ExchangeInv' /\ UNCHANGED <<asked, executed>>
           /\ \/ messages' = messages
              \/ /\ Len(messages) < executed
                 /\ messages' = Append(messages, asked[Len(messages) + 1])
<1>0. /\ TypeOK /\ ShapeInv /\ LoopInv /\ OpenInv
      /\ AskedInv /\ ToldInv /\ StreamInv /\ ExecutedInv /\ EmptyInv
  BY DEF IInv, WaitInv, ExchangeInv
<1>1. /\ loop.pc = "call" /\ loop.at <= Len(loop.calls)
      /\ UNCHANGED <<asked, executed, wire, posts, driver>>
  BY DEF AwaitResult, LoopOnly
<1>2. /\ loop'.pc \in {"call", "pending"} /\ queued' \subseteq queued
      /\ \/ UNCHANGED messages /\ AskedInv' /\ ToldInv'
         \/ /\ AskedInv' /\ ToldInv' /\ Len(messages) < executed
            /\ messages' = Append(messages, asked[Len(messages) + 1])
  <2>1. CASE \E result \in queued :
               /\ result.call = loop.calls[loop.at] /\ TakeResult(result)
               /\ queued' = queued \ {result}
    <3>1. PICK result \in queued : /\ result.call = loop.calls[loop.at] /\ TakeResult(result)
                                   /\ queued' = queued \ {result}
      BY <2>1
    <3>2. result \in Results /\ Executed(result.call)
      BY <1>0 DEF TypeOK, ExecutedInv
    <3>3. loop.at \in DOMAIN loop.calls
      <4>1. loop.calls \in Seq(Calls) /\ loop.at \in Nat /\ loop.at >= 1
        BY <1>0, <1>1 DEF TypeOK, LoopInv
      <4> QED
        BY <1>1, <4>1
    <3>4. /\ AskedInv' /\ ToldInv' /\ Len(messages) < executed
          /\ messages' = Append(messages, asked[Len(messages) + 1])
      BY <1>0, <1>1, <3>1, <3>2, <3>3, TakeExchanges
    <3>5. loop'.pc = "call"
      BY <1>0, <3>1, <3>2, TakeKnown
    <3> QED
      BY <3>1, <3>4, <3>5
  <2>2. CASE ~\E result \in queued :
               /\ result.call = loop.calls[loop.at] /\ TakeResult(result)
               /\ queued' = queued \ {result}
    <3>1. /\ loop'.pc = "pending" /\ loop'.calls = loop.calls /\ loop'.turn = loop.turn
          /\ loop'.at = loop.at /\ UNCHANGED queued
      BY <1>0, <2>2, AwaitEffects
    <3>2. UNCHANGED messages
      <4>1. \A call : IdOf(call) = call
        BY IdIsCall
      <4> QED
        BY <2>2, <4>1 DEF AwaitResult
    <3>3. AskedInv' /\ Before' = Before
      BY <1>0, <1>1, <3>1, SameAsked
    <3>4. ToldInv'
      BY <1>0, <1>1, <3>1, <3>2, <3>3 DEF ToldInv
    <3> QED
      BY <3>1, <3>2, <3>3, <3>4
  <2> QED
    BY <2>1, <2>2
<1>3. StreamInv' /\ ExecutedInv' /\ EmptyInv'
  <2>1. StreamInv'
    BY <1>0, <1>1, SameStream DEF Listening, StreamOn
  <2>2. ExecutedInv'
    BY <1>0, <1>1, <1>2, SameExecuted
  <2>3. driver.pc # "open"
    BY <1>0, <1>1 DEF OpenInv
  <2> QED
    BY <1>1, <2>1, <2>2, <2>3 DEF EmptyInv
<1> QED
  BY <1>1, <1>2, <1>3 DEF ExchangeInv

LEMMA TurnExchanges ==
    ASSUME IInv, WaitInv, ExchangeInv,
           ModelStops \/ NextTurn \/ ModelFails \/ ServerNotices \/ PendingTimesOut
    PROVE  ExchangeInv' /\ UNCHANGED <<asked, executed, messages>>
<1>0. /\ TypeOK /\ ShapeInv /\ LoopInv /\ OpenInv
      /\ AskedInv /\ ToldInv /\ StreamInv /\ ExecutedInv /\ EmptyInv
  BY DEF IInv, WaitInv, ExchangeInv
<1>1. UNCHANGED <<asked, executed, messages, queued, posts, driver>> /\ StreamOn
  BY DEF ModelStops, NextTurn, ModelFails, ServerNotices, PendingTimesOut, LoopOnly, StreamOn
<1>2. ExecutedInv' /\ EmptyInv'
  <2>1. ExecutedInv'
    BY <1>0, <1>1, SameExecuted
  <2> QED
    BY <1>0, <1>1, <2>1 DEF EmptyInv
<1>3. AskedInv' /\ ToldInv' /\ StreamInv'
  <2>1. CASE \E word \in {"done", "budget", "error", "cancelled"} : EndStream(word)
    <3>1. PICK word \in {"done", "budget", "error", "cancelled"} : EndStream(word)
      BY <2>1
    <3>2. /\ \A i \in DOMAIN wire'.events : wire'.events[i].type = "tool_call" =>
                 i \in DOMAIN wire.events /\ wire'.events[i] = wire.events[i]
          /\ loop'.pc = "over" /\ loop'.calls = loop.calls /\ loop'.turn = loop.turn
          /\ loop'.at = loop.at
      BY <1>0, <3>1, EndEvents
    <3>3. AskedInv' /\ ToldInv'
      BY <1>0, <1>1, <3>2, SameAsked, SameTold
    <3>4. ~StreamOn'
      BY <3>2 DEF StreamOn
    <3>5. StreamInv'
      BY <1>0, <1>1, <3>2, <3>4, SameStream DEF Listening
    <3> QED
      BY <3>3, <3>5
  <2>2. CASE /\ UNCHANGED wire /\ loop.pc = "turn" /\ loop'.pc = "call" /\ loop'.at = 1
             /\ loop'.calls = loop.calls /\ loop'.turn = loop.turn
    <3>1. AskedInv' /\ Before' = Before
      BY <1>0, <1>1, <2>2, SameAsked
    <3>2. loop.calls \in Seq(Calls) /\ Before \in Nat /\ Len(messages) = Before
      BY <1>0, <2>2 DEF TypeOK, AskedInv, ToldInv, Before
    <3>3. ToldInv'
      BY <1>0, <1>1, <2>2, <3>1, <3>2 DEF ToldInv
    <3>4. StreamInv'
      BY <1>0, <1>1, <2>2, SameStream DEF Listening
    <3> QED
      BY <3>1, <3>3, <3>4
  <2>3. CASE /\ UNCHANGED wire /\ loop.pc = "call" /\ loop'.pc = "turn" /\ loop'.calls = <<>>
             /\ loop'.turn = loop.turn + 1 /\ loop.at > Len(loop.calls)
    <3>1. /\ loop.calls \in Seq(Calls) /\ asked \in Seq(Calls) /\ Before \in Nat
          /\ Len(asked) = Before + Len(loop.calls) /\ loop.turn \in Nat /\ loop.at \in Nat
      BY <1>0 DEF TypeOK, AskedInv, Before
    <3>2. Before' = Len(asked) /\ Len(loop'.calls) = 0 /\ DOMAIN loop'.calls = {}
      BY <1>1, <2>3, <3>1 DEF Before
    <3>3. ASSUME NEW k \in 1 .. Len(asked) PROVE asked[k][1] < loop.turn + 1
      <4>1. k \in DOMAIN asked
        BY <3>1
      <4>2. /\ asked[k][1] \in Nat
            /\ k <= Before => asked[k][1] < loop.turn
            /\ ~(k <= Before) => \E i \in DOMAIN loop.calls : asked[k] = <<loop.turn, i>>
        BY <1>0, <4>1, AskedTurn
      <4>3. CASE k <= Before
        BY <3>1, <4>2, <4>3
      <4>4. CASE ~(k <= Before)
        <5>1. asked[k][1] = loop.turn
          BY <4>2, <4>4
        <5> QED
          BY <3>1, <5>1
      <4> QED
        BY <4>3, <4>4
    <3>4. AskedInv'
      BY <1>0, <1>1, <2>3, <3>1, <3>2, <3>3 DEF AskedInv
    <3>5. Len(messages) = Len(asked)
      <4>1. loop.at \in 1 .. Len(loop.calls) + 1 /\ Len(messages) = Before + loop.at - 1
        BY <1>0, <2>3 DEF ToldInv
      <4>2. loop.at = Len(loop.calls) + 1
        BY <2>3, <3>1, <4>1
      <4> QED
        BY <3>1, <4>1, <4>2
    <3>6. ToldInv'
      BY <1>0, <1>1, <2>3, <3>2, <3>5 DEF ToldInv
    <3>7. StreamInv'
      BY <1>0, <1>1, <2>3, SameStream DEF Listening
    <3> QED
      BY <3>4, <3>6, <3>7
  <2> QED
    BY <1>0, <2>1, <2>2, <2>3, TurnEffects
<1> QED
  BY <1>1, <1>2, <1>3 DEF ExchangeInv

\* Steps that close the session, or do not touch it, and execute nothing.
LEMMA QuietExchanges ==
    ASSUME IInv, ExchangeInv, UNCHANGED <<asked, executed, messages>>,
           \/ CloseSession \/ NotFound \/ UNCHANGED <<queued, loop, wire>>
           \/ UNCHANGED <<queued, loop>> /\ wire'.events = <<>> /\ ~StreamOn'
           \/ UNCHANGED <<queued, loop>> /\ ~Listening',
           \A p \in posts' : \E q \in posts : p.result = q.result,
           driver'.pc = "open" => driver.pc = "open",
           \/ driver' = driver
           \/ driver.pc = "post" /\ driver'.pc = "read" /\ driver'.call = driver.call
           \/ driver'.pc \notin {"read", "tool", "post"}
    PROVE  ExchangeInv'
<1>0. /\ TypeOK /\ ShapeInv
      /\ AskedInv /\ ToldInv /\ StreamInv /\ ExecutedInv /\ EmptyInv
  BY DEF IInv, ExchangeInv
<1>1. /\ loop'.calls = loop.calls /\ loop'.turn = loop.turn /\ loop'.at = loop.at
      /\ loop'.pc \in {loop.pc, "over"} /\ queued' \subseteq queued
  BY <1>0, CloseEvents
<1>2. AskedInv' /\ ToldInv'
  BY <1>0, <1>1, SameAsked, SameTold
<1>3. ExecutedInv'
  BY <1>0, <1>1, SameExecuted
<1>4. Listening' => Listening /\ (driver'.pc = "tool" <=> driver.pc = "tool")
  BY DEF Listening
<1>5. StreamInv'
  <2>1. CASE CloseSession \/ NotFound \/ UNCHANGED <<queued, loop, wire>>
    <3>1. /\ \A i \in DOMAIN wire'.events : wire'.events[i].type = "tool_call" =>
                 i \in DOMAIN wire.events /\ wire'.events[i] = wire.events[i]
          /\ loop'.pc = "over" \/ UNCHANGED <<loop, wire>>
      BY <1>0, <2>1, CloseEvents
    <3> QED
      BY <1>0, <1>4, <3>1, SameStream DEF StreamOn
  <2>2. CASE wire'.events = <<>> /\ ~StreamOn'
    BY <1>0, <1>4, <2>2, SameStream
  <2>3. CASE ~Listening'
    BY <2>3 DEF StreamInv
  <2> QED
    BY <2>1, <2>2, <2>3
<1>6. EmptyInv'
  BY <1>0 DEF EmptyInv
<1> QED
  BY <1>2, <1>3, <1>5, <1>6 DEF ExchangeInv

LEMMA ArriveExchanges ==
    ASSUME IInv, ExchangeInv, NEW post \in posts, PostArrives(post)
    PROVE  ExchangeInv' /\ UNCHANGED <<asked, executed, messages>>
<1>0. TypeOK /\ ShapeInv
  BY DEF IInv
<1>1. UNCHANGED <<asked, executed, messages>>
  BY DEF PostArrives, history
<1>2. CASE /\ UNCHANGED <<driver, queued, loop, wire>>
           /\ posts' = (posts \ {post}) \cup {[post EXCEPT !.pc = "body"]}
  <2>1. post \in [result : Results, own : BOOLEAN, pc : {"sent", "body"}]
    BY <1>0 DEF TypeOK
  <2>2. [post EXCEPT !.pc = "body"].result = post.result
    BY <2>1
  <2>3. \A p \in posts' : \E q \in posts : p.result = q.result
    BY <1>2, <2>2
  <2> QED
    BY <1>1, <1>2, <2>3, QuietExchanges
<1>3. CASE NotFound /\ Reply(post, 404) /\ posts' = posts \ {post}
  <2>1. driver' = driver \/ driver'.pc = "stop"
    BY <1>0, <1>3, ReplyEffects
  <2>2. \A p \in posts' : \E q \in posts : p.result = q.result
    BY <1>3
  <2> QED
    BY <1>1, <1>3, <2>1, <2>2, QuietExchanges
<1> QED
  BY <1>0, <1>2, <1>3, ArriveEffects

LEMMA ApplyExchanges ==
    ASSUME ~IdsRestart, IInv, WaitInv, ExchangeInv, NEW post \in posts, PostApplies(post)
    PROVE  /\ ExchangeInv' /\ UNCHANGED <<asked, executed>>
           /\ \/ messages' = messages
              \/ /\ Len(messages) < executed
                 /\ messages' = Append(messages, asked[Len(messages) + 1])
<1>0. /\ TypeOK /\ ShapeInv /\ LoopInv /\ OpenInv
      /\ AskedInv /\ ToldInv /\ StreamInv /\ ExecutedInv /\ EmptyInv
  BY DEF IInv, WaitInv, ExchangeInv
<1>1. /\ UNCHANGED <<asked, executed, wire>> /\ posts' = posts \ {post}
      /\ UNCHANGED <<messages, queued, loop>>
         \/ (/\ loop.pc = "pending" /\ loop.calls[loop.at] = post.result.call
             /\ TakeResult(post.result) /\ UNCHANGED queued)
         \/ (queued' = queued \cup {post.result} /\ UNCHANGED <<messages, loop>>)
  <2>1. \A call : IdOf(call) = call
    BY IdIsCall
  <2> QED
    BY <2>1 DEF PostApplies, IsPending, history
<1>2. \/ driver' = driver
      \/ driver.pc = "post" /\ driver'.pc = "read" /\ driver'.call = driver.call
      \/ driver.pc = "post" /\ driver'.pc = "stop"
  <2>1. PICK code \in {200, 404, 409} : Reply(post, code)
    BY DEF PostApplies
  <2>2. \/ UNCHANGED driver
        \/ /\ driver.pc = "post" /\ driver'.call = driver.call
           /\ driver'.pc = IF code = 200 THEN "read" ELSE "stop"
    BY <1>0, <2>1, ReplyEffects
  <2> QED
    BY <2>2
<1>3. ExecutedInv'
  <2>1. \A r \in queued' : r \in queued \/ \E p \in posts : r = p.result
    BY <1>1
  <2> QED
    BY <1>0, <1>1, <1>2, <2>1, SameExecuted
<1>4. EmptyInv'
  <2>1. driver'.pc # "open"
    BY <1>0, <1>2 DEF OpenInv
  <2> QED
    BY <2>1 DEF EmptyInv
<1>5. Listening' => Listening /\ (driver'.pc = "tool" <=> driver.pc = "tool")
  BY <1>2 DEF Listening
<1>6. CASE UNCHANGED <<messages, loop>>
  <2>1. AskedInv' /\ ToldInv'
    BY <1>0, <1>1, <1>6, SameAsked, SameTold
  <2>2. StreamInv'
    BY <1>0, <1>1, <1>5, <1>6, SameStream DEF StreamOn
  <2> QED
    BY <1>1, <1>3, <1>4, <1>6, <2>1, <2>2 DEF ExchangeInv
<1>7. CASE /\ loop.pc = "pending" /\ loop.calls[loop.at] = post.result.call
           /\ TakeResult(post.result)
  <2>1. post.result \in Results /\ Executed(post.result.call)
    BY <1>0 DEF TypeOK, ExecutedInv
  <2>2. loop.at \in DOMAIN loop.calls
    BY <1>0, <1>7 DEF LoopInv
  <2>3. /\ AskedInv' /\ ToldInv' /\ Len(messages) < executed
        /\ messages' = Append(messages, asked[Len(messages) + 1])
    BY <1>0, <1>1, <1>7, <2>1, <2>2, TakeExchanges
  <2>4. StreamInv'
    BY <1>0, <1>1, <1>5, <1>7, SameStream DEF StreamOn
  <2> QED
    BY <1>1, <1>3, <1>4, <2>3, <2>4 DEF ExchangeInv
<1> QED
  BY <1>1, <1>6, <1>7

LEMMA ReadExchanges ==
    ASSUME IInv, WaitInv, ExchangeInv, ReadEvent
    PROVE  ExchangeInv' /\ UNCHANGED <<asked, executed, messages>>
<1>0. /\ TypeOK /\ ShapeInv /\ OpenInv
      /\ AskedInv /\ ToldInv /\ StreamInv /\ ExecutedInv /\ EmptyInv
  BY DEF IInv, WaitInv, ExchangeInv
<1>1. /\ UNCHANGED <<asked, executed, messages>>
      /\ driver.pc = "read" /\ UNCHANGED <<loop, queued, posts>>
      /\ wire.events # <<>> /\ wire'.up = wire.up /\ wire'.events = Tail(wire.events)
      /\ \/ driver'.pc = "stop"
         \/ /\ driver'.pc = "tool" /\ driver'.call = Head(wire.events).call
            /\ Head(wire.events).type = "tool_call"
  BY <1>0, ReadEffects DEF ReadEvent, session, history
<1>2. CASE driver'.pc = "stop"
  BY <1>1, <1>2, QuietExchanges DEF Listening
<1>3. CASE /\ driver'.pc = "tool" /\ driver'.call = Head(wire.events).call
           /\ Head(wire.events).type = "tool_call"
  <2>1. /\ wire.events \in Seq(Events) /\ 1 \in DOMAIN wire.events
        /\ Head(wire.events) = wire.events[1]
        /\ Len(wire'.events) = Len(wire.events) - 1 /\ Len(wire.events) \in Nat
        /\ \A i \in DOMAIN wire'.events :
               /\ i + 1 \in DOMAIN wire.events /\ wire'.events[i] = wire.events[i + 1]
               /\ i \in Nat
    BY <1>0, <1>1 DEF TypeOK
  <2>2. Taking = executed /\ Taking' = executed + 1 /\ executed \in Nat /\ Listening
    BY <1>0, <1>1, <1>3 DEF Taking, ExecutedInv, Listening
  <2>3. executed + 1 \in DOMAIN asked /\ driver'.call = asked[executed + 1]
    BY <1>0, <1>3, <2>1, <2>2 DEF StreamInv
  <2>4. ASSUME NEW i \in DOMAIN wire'.events, wire'.events[i].type = "tool_call"
        PROVE  executed + 1 + i \in DOMAIN asked /\ wire'.events[i].call = asked[executed + 1 + i]
    <3>0. i \in Nat /\ executed \in Nat
      BY <2>1, <2>2
    <3>1. executed + (i + 1) = executed + 1 + i
      BY <3>0
    <3>2. /\ executed + (i + 1) \in DOMAIN asked
          /\ wire.events[i + 1].call = asked[executed + (i + 1)]
      BY <1>0, <2>1, <2>2, <2>4 DEF StreamInv
    <3> QED
      BY <2>1, <3>1, <3>2
  <2>5. wire.up /\ StreamOn => executed + 1 + Len(wire'.events) = Len(asked)
    <3>1. wire.up /\ StreamOn => executed + Len(wire.events) = Len(asked)
      BY <1>0, <2>2 DEF StreamInv
    <3>2. PICK n \in Nat, m \in Nat : n = Len(wire.events) /\ m = executed
      BY <2>1, <2>2
    <3>3. m + 1 + (n - 1) = m + n
      OBVIOUS
    <3>4. Len(wire'.events) = Len(wire.events) - 1
      BY <2>1
    <3> QED
      BY <3>1, <3>2, <3>3, <3>4
  <2>6. StreamInv'
    BY <1>1, <2>2, <2>4, <2>5 DEF StreamInv, StreamOn
  <2>7. ExecutedInv'
    <3>1. \A call : Executed(call)' <=> Executed(call)
      BY <1>1 DEF Executed
    <3> QED
      BY <1>0, <1>1, <1>3, <2>3, <3>1 DEF ExecutedInv
  <2>8. AskedInv' /\ ToldInv' /\ EmptyInv'
    BY <1>0, <1>1, <1>3, SameAsked, SameTold DEF EmptyInv
  <2> QED
    BY <1>1, <2>6, <2>7, <2>8 DEF ExchangeInv
<1> QED
  BY <1>1, <1>2, <1>3

LEMMA ToolExchanges ==
    ASSUME IInv, WaitInv, ExchangeInv, ToolChanges \/ ToolFails \/ ToolSubmits
    PROVE  /\ ExchangeInv' /\ UNCHANGED <<asked, messages>>
           /\ executed < Len(asked) /\ executed' = executed + 1
<1>0. /\ TypeOK /\ ShapeInv
      /\ AskedInv /\ ToldInv /\ StreamInv /\ ExecutedInv /\ EmptyInv
  BY DEF IInv, ExchangeInv
<1>1. /\ UNCHANGED <<asked, messages>> /\ executed' = executed + 1
      /\ driver.pc = "tool" /\ driver'.pc = "post" /\ driver'.call = driver.call
      /\ UNCHANGED <<loop, queued, wire>>
  BY <1>0, ToolEffects DEF ToolChanges, ToolFails, ToolSubmits, Executes, session
<1>2. PICK post : post.result.call = driver.call /\ post.own /\ posts' = posts \cup {post}
  BY <1>0, ToolEffects
<1>3. /\ executed \in Nat /\ asked \in Seq(Calls)
      /\ executed + 1 \in DOMAIN asked /\ driver.call = asked[executed + 1]
  BY <1>0, <1>1 DEF ExecutedInv, AskedInv
<1>4. executed < Len(asked)
  BY <1>3
<1>5. Executed(driver.call)'
  BY <1>1, <1>3 DEF Executed
<1>6. \A call : Executed(call) => Executed(call)'
  BY <1>1, <1>3 DEF Executed
<1>7. ExecutedInv'
  <2>1. \A p \in posts' : Executed(p.result.call)'
    BY <1>0, <1>1, <1>2, <1>5, <1>6 DEF ExecutedInv
  <2>2. executed' \in Nat
    BY <1>1, <1>3
  <2> QED
    BY <1>0, <1>1, <1>5, <1>6, <2>1, <2>2 DEF ExecutedInv
<1>8. StreamInv'
  <2>1. Taking' = Taking /\ Listening
    BY <1>1, <1>3 DEF Taking, Listening
  <2> QED
    BY <1>0, <1>1, <2>1 DEF StreamInv, StreamOn
<1>9. AskedInv' /\ ToldInv' /\ EmptyInv'
  BY <1>0, <1>1, SameAsked, SameTold DEF EmptyInv
<1> QED
  BY <1>1, <1>4, <1>7, <1>8, <1>9 DEF ExchangeInv

LEMMA StartExchanges == ASSUME IInv, StartSession PROVE ExchangeInv'
<1>1. /\ queued' = {} /\ posts' = {} /\ loop'.pc = "none" /\ loop'.calls = <<>>
      /\ wire'.events = <<>>
      /\ driver'.pc \in {"open", "decide"}
      /\ asked' = <<>> /\ executed' = 0 /\ messages' = <<>>
  BY StartEffects DEF IInv, StartSession
<1>2. Before' = 0
  BY <1>1 DEF Before
<1>3. AskedInv' /\ ToldInv'
  BY <1>1, <1>2 DEF AskedInv, ToldInv
<1> QED
  BY <1>1, <1>3 DEF ExchangeInv, StreamInv, Listening, ExecutedInv, EmptyInv

LEMMA OpenExchanges ==
    ASSUME IInv, WaitInv, ExchangeInv, OpenEvents
    PROVE  ExchangeInv' /\ UNCHANGED <<asked, executed, messages>>
<1>0. /\ TypeOK /\ ShapeInv /\ OpenInv
      /\ AskedInv /\ ToldInv /\ ExecutedInv /\ EmptyInv
  BY DEF IInv, WaitInv, ExchangeInv
<1>1. UNCHANGED <<asked, executed, messages>>
  BY DEF OpenEvents, history
<1>2. CASE ~Found
  <2>1. NotFound /\ driver'.pc = "stop" /\ posts' = posts
    BY <1>0, <1>2, OpenEffects
  <2> QED
    BY <1>1, <2>1, QuietExchanges
<1>3. CASE Found
  <2>1. /\ driver.pc = "open" /\ driver'.pc = "read" /\ driver'.call = driver.call
        /\ loop'.pc = "turn" /\ loop'.calls = <<>> /\ wire'.events = wire.events
        /\ UNCHANGED <<posts, queued>>
    BY <1>0, <1>3, OpenEffects
  <2>2. /\ asked' = <<>> /\ executed' = 0 /\ messages' = <<>> /\ queued' = {} /\ posts' = {}
        /\ wire'.events = <<>> /\ driver'.call = NoCall
    BY <1>0, <1>1, <2>1 DEF OpenInv, EmptyInv
  <2>3. Before' = 0 /\ Taking' = 0
    BY <2>1, <2>2 DEF Before, Taking
  <2>4. AskedInv' /\ ToldInv'
    BY <2>1, <2>2, <2>3 DEF AskedInv, ToldInv
  <2>5. StreamInv'
    BY <2>2, <2>3 DEF StreamInv
  <2> QED
    BY <1>1, <2>1, <2>2, <2>4, <2>5 DEF ExchangeInv, ExecutedInv, EmptyInv
<1> QED
  BY <1>2, <1>3

LEMMA EnvironmentExchanges ==
    ASSUME IInv, ExchangeInv,
           \/ GoesIdle \/ PostAgain \/ ConnectionBreaks \/ DeleteSession \/ UNCHANGED vars
           \/ \E n \in 1 .. MaxShots : ServesShot(n)
    PROVE  ExchangeInv' /\ UNCHANGED <<asked, executed, messages>>
<1>0. /\ TypeOK /\ ShapeInv
      /\ AskedInv /\ ToldInv /\ StreamInv /\ ExecutedInv /\ EmptyInv
  BY DEF IInv, ExchangeInv
<1>1. UNCHANGED <<asked, executed, messages>>
  BY DEF GoesIdle, PostAgain, ConnectionBreaks, DeleteSession, vars, ServesShot, ResolveShot,
         RunShot, ShotOnly, session, history
<1>2. CASE GoesIdle \/ UNCHANGED vars \/ \E n \in 1 .. MaxShots : ServesShot(n)
  <2>1. UNCHANGED <<loop, queued, wire, posts, driver>>
    BY <1>2 DEF GoesIdle, vars, ServesShot, ResolveShot, RunShot, ShotOnly, session
  <2> QED
    BY <1>1, <2>1, QuietExchanges
<1>3. CASE DeleteSession
  <2>1. /\ driver'.pc = "decide" /\ posts' = posts
        /\ CloseSession \/ NotFound \/ UNCHANGED <<queued, loop, wire>>
    BY <1>0, <1>3, DeleteEffects
  <2> QED
    BY <1>1, <2>1, QuietExchanges
<1>4. CASE PostAgain
  <2>1. /\ driver.pc = "read" /\ driver.call # NoCall
        /\ UNCHANGED <<loop, queued, wire, driver>>
        /\ \E isError \in BOOLEAN : posts' = posts \cup {Post(isError, FALSE)}
    BY <1>4 DEF PostAgain, session
  <2>2. \A p \in posts' : p \in posts \/ p.result.call = driver.call
    BY <2>1 DEF Post
  <2>3. \A call : Executed(call)' <=> Executed(call)
    BY <1>1 DEF Executed
  <2>4. ExecutedInv'
    BY <1>0, <1>1, <2>1, <2>2, <2>3 DEF ExecutedInv
  <2>5. StreamInv'
    BY <1>0, <1>1, <2>1, SameStream DEF Listening, StreamOn
  <2>6. AskedInv' /\ ToldInv' /\ EmptyInv'
    BY <1>0, <1>1, <2>1, SameAsked, SameTold DEF EmptyInv
  <2> QED
    BY <1>1, <2>4, <2>5, <2>6 DEF ExchangeInv
<1>5. CASE ConnectionBreaks
  <2>1. PICK n \in 0 .. Len(wire.events) :
             wire' = [up |-> FALSE, events |-> SubSeq(wire.events, 1, n)]
    BY <1>5 DEF ConnectionBreaks
  <2>2. UNCHANGED <<loop, queued, posts, driver>>
    BY <1>5 DEF ConnectionBreaks, session
  <2>3. wire.events \in Seq(Events)
    BY <1>0 DEF TypeOK
  <2>4. /\ ~wire'.up
        /\ \A i \in DOMAIN wire'.events : i \in DOMAIN wire.events /\ wire'.events[i] = wire.events[i]
    BY <2>1, <2>3
  <2>5. StreamInv'
    BY <1>0, <1>1, <2>2, <2>4, SameStream DEF Listening
  <2>6. ExecutedInv'
    BY <1>0, <1>1, <2>2, SameExecuted
  <2>7. AskedInv' /\ ToldInv' /\ EmptyInv'
    BY <1>0, <1>1, <2>2, SameAsked, SameTold DEF EmptyInv
  <2> QED
    BY <1>1, <2>5, <2>6, <2>7 DEF ExchangeInv
<1> QED
  BY <1>2, <1>3, <1>4, <1>5

LEMMA LeaveExchanges ==
    ASSUME IInv, ExchangeInv,
           \/ StreamInterrupted \/ HangUp \/ Decide \/ Finish \/ RequestShot \/ ReadShot
           \/ ShotBreaks \/ RequestFails \/ Interrupted
    PROVE  ExchangeInv' /\ UNCHANGED <<asked, executed, messages>>
<1>1. /\ UNCHANGED <<loop, queued>> /\ posts' \subseteq posts
      /\ driver'.pc \notin {"open", "read", "tool", "post"}
  BY LeaveEffects DEF IInv
<1>2. UNCHANGED <<asked, executed, messages>>
  BY DEF StreamInterrupted, HangUp, Decide, Finish, DriverOnly, RequestShot, ReadShot, ShotBreaks,
         ShotOnly, RequestFails, Interrupted, session, history
<1> QED
  BY <1>1, <1>2, QuietExchanges DEF Listening

\* Every step of a session keeps the invariant, and is a step of the exchange.
LEMMA ExchangeNext ==
    ASSUME ~IdsRestart, CInv, ExchangeInv, [Next]_vars
    PROVE  ExchangeInv' /\ (driver.pc = "start" \/ Exchange!Next \/ UNCHANGED Exchange!vars)
<1>0. IInv /\ WaitInv
  BY DEF CInv
<1>1. CASE ModelCalls
  <2>1. PICK call \in Calls :
             /\ asked' = Append(asked, call) /\ UNCHANGED <<executed, messages>>
             /\ asked # <<>> =>
                  \/ call[1] = asked[Len(asked)][1]
                  \/ call[1] > asked[Len(asked)][1] /\ Len(messages) = Len(asked)
    BY <1>0, <1>1, CallExchanges
  <2>2. Exchange!Ask
    BY <2>1 DEF Exchange!Ask
  <2> QED
    BY <1>0, <1>1, <2>2, CallExchanges DEF Exchange!Next
<1>2. CASE AwaitResult \/ \E post \in posts : PostApplies(post)
  <2>1. /\ ExchangeInv' /\ UNCHANGED <<asked, executed>>
        /\ \/ messages' = messages
           \/ /\ Len(messages) < executed
              /\ messages' = Append(messages, asked[Len(messages) + 1])
    BY <1>0, <1>2, AwaitExchanges, ApplyExchanges
  <2> QED
    BY <2>1 DEF Exchange!Next, Exchange!Answer, Exchange!vars
<1>3. CASE ToolChanges \/ ToolFails \/ ToolSubmits
  BY <1>0, <1>3, ToolExchanges DEF Exchange!Next, Exchange!Execute
<1>4. CASE \/ ModelStops \/ NextTurn \/ ModelFails \/ ServerNotices \/ PendingTimesOut
           \/ OpenEvents \/ ReadEvent \/ \E post \in posts : PostArrives(post)
  BY <1>0, <1>4, TurnExchanges, OpenExchanges, ReadExchanges, ArriveExchanges DEF Exchange!vars
<1>5. CASE \/ StreamInterrupted \/ HangUp \/ Decide \/ Finish \/ RequestShot \/ ReadShot
           \/ ShotBreaks \/ RequestFails \/ Interrupted
  BY <1>0, <1>5, LeaveExchanges DEF Exchange!vars
<1>6. CASE \/ GoesIdle \/ PostAgain \/ ConnectionBreaks \/ DeleteSession \/ UNCHANGED vars
           \/ \E n \in 1 .. MaxShots : ServesShot(n)
  BY <1>0, <1>6, EnvironmentExchanges DEF Exchange!vars
<1>7. CASE StartSession
  BY <1>0, <1>7, StartExchanges DEF StartSession
<1> QED
  BY <1>1, <1>2, <1>3, <1>4, <1>5, <1>6, <1>7 DEF Next, Server, Driver, Environment, Terminated

LEMMA ExchangeInit == Init => ExchangeInv
<1> SUFFICES ASSUME Init PROVE ExchangeInv
  OBVIOUS
<1>1. /\ loop.pc = "none" /\ loop.calls = <<>> /\ driver.pc = "start" /\ executed = 0
      /\ queued = {} /\ posts = {} /\ asked = <<>> /\ messages = <<>>
  BY DEF Init, NoLoop
<1>2. Before = 0
  BY <1>1 DEF Before
<1>3. AskedInv /\ ToldInv
  BY <1>1, <1>2 DEF AskedInv, ToldInv
<1> QED
  BY <1>1, <1>3 DEF ExchangeInv, StreamInv, Listening, ExecutedInv, EmptyInv

\* With an id for every call, a session implements AgentExchange: calls are executed and
\* answered once and in order, and a turn ends before the next begins, whatever is lost,
\* repeated or late on the way (server.ts:677-751, 769-804, drivers.py:949-1033).
THEOREM ExchangeIsKept == ASSUME ~IdsRestart PROVE Spec => ExchangeKept
<1>1. Init => ExchangeInv
  BY ExchangeInit
<1>2. CInv /\ CInv' /\ ExchangeInv /\ [Next]_vars => ExchangeInv'
  BY ExchangeNext
<1>3. CInv /\ ExchangeInv /\ [Next]_vars
        => [driver.pc = "start" \/ Exchange!Next \/ UNCHANGED Exchange!vars]_vars
  BY ExchangeNext
<1> QED
  BY <1>1, <1>2, <1>3, CallInvariant, PTL DEF Spec, ExchangeKept

=============================================================================
