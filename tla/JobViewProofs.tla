--------------------------- MODULE JobViewProofs ---------------------------
(***************************************************************************)
(* Proofs about the page and the event stream it follows its job by, for   *)
(* any number of jobs, of requests under way and of events, and any size   *)
(* of the history and of a subscriber's queue, the history the smaller.    *)
(***************************************************************************)
EXTENDS JobView, WellFoundedInduction, SequenceTheorems, TLAPS

-----------------------------------------------------------------------------
(* The largest and the smallest of some numbers *)

LEMMA MaxOfTwo ==
    ASSUME NEW a \in Int, NEW b \in Int
    PROVE  Max({a, b}) = IF a >= b THEN a ELSE b
<1>1. \E x \in {a, b} : \A y \in {a, b} : x >= y
  OBVIOUS
<1>2. Max({a, b}) \in {a, b} /\ \A y \in {a, b} : Max({a, b}) >= y
  BY <1>1 DEF Max
<1> QED
  BY <1>2

LEMMA MaxOfThree ==
    ASSUME NEW a \in Int, NEW b \in Int, NEW c \in Int
    PROVE  Max({a, b, c}) \in {a, b, c} /\ \A x \in {a, b, c} : Max({a, b, c}) >= x
<1>1. \E x \in {a, b, c} : \A y \in {a, b, c} : x >= y
  OBVIOUS
<1> QED
  BY <1>1 DEF Max

LEMMA MinOfNaturals ==
    ASSUME NEW S, S \subseteq Nat, S # {}
    PROVE  Min(S) \in S
<1>1. \E x \in S : \A y \in S : ~(<<y, x>> \in OpToRel(<, Nat))
  BY NatLessThanWellFounded, WFMin
<1>2. \E x \in S : \A y \in S : ~(y < x)
  BY <1>1 DEF OpToRel
<1>3. \E x \in S : \A y \in S : x <= y
  BY <1>2
<1> QED
  BY <1>3 DEF Min

-----------------------------------------------------------------------------
(* What the requests, the events and the stream are *)

RequestType ==
    [kind : Kinds, job : Jobs \cup {None}, slot : Nat, restore : BOOLEAN, mounting : BOOLEAN,
     answer : {"none", "ok", "failed", "missing"}, status : Statuses]

EventType == [id : Nat, kind : {"progress", "final", "gap", "snapshot"}, status : Statuses]

StreamType ==
    [job : Jobs \cup {None}, open : BOOLEAN, from : Nat, base : Nat, queue : Seq(EventType)]

TypeInv ==
    /\ status \in [Jobs -> Statuses] /\ log \in [Jobs -> Seq(BOOLEAN)]
    /\ stream \in StreamType
    /\ seen \in [Jobs -> Nat] /\ current \in Jobs \cup {None}
    /\ shown \in [job : Jobs \cup {None}, status : Statuses, outdated : BOOLEAN]
    /\ timer \in BOOLEAN /\ ending \in BOOLEAN

Creating == {"submit", "approve", "retry", "revise", "rerun"}
OfJob == {"load", "show", "cancel", "approve", "retry"}

\* A request says which job it is for, an answer which job was started; nothing is
\* submitted while the page is being mounted.
Sound(r) ==
    /\ r \in RequestType
    /\ r.mounting => r.kind \in {"load", "health"}
    /\ r.kind \in OfJob => r.job \in Jobs
    /\ r.kind \in Creating /\ r.answer = "ok" => r.status = "active" /\ r.job \in Jobs

MountsPage(r) == r.kind = "health" /\ r.mounting

AllSound(rs) ==
    /\ \A r \in rs : Sound(r)
    /\ \A r, q \in rs : ~(r.kind = "submit" /\ MountsPage(q))

RequestInv == AllSound(requests)

\* A job is being loaded; the page is being mounted.
Loads(rs) == \E r \in rs : r.kind = "load"
Mounts(rs) == \E r \in rs : MountsPage(r)

\* A new request knows nothing of its answer.
LEMMA RequestIsNew ==
    ASSUME NEW kind \in Kinds, NEW j \in Jobs \cup {None}, kind \in OfJob => j \in Jobs
    PROVE  /\ Sound(Request(kind, j)) /\ Request(kind, j).kind = kind
           /\ ~Request(kind, j).mounting /\ Request(kind, j).job = j
  BY DEF Request, Sound, RequestType, Statuses, OfJob, Creating, Kinds

LEMMA MountingIsSound == Sound(Mounting) /\ MountsPage(Mounting)
  BY DEF Mounting, Request, Sound, RequestType, Statuses, OfJob, Creating, Kinds, MountsPage

\* loadCurrentJob asks for the job, unless the session ends or there is none.
LEMMA LoadAsks ==
    ASSUME NEW rs, AllSound(rs), NEW j \in Jobs \cup {None},
           NEW restore \in BOOLEAN, NEW mounting \in BOOLEAN,
           Load(rs, j, restore, mounting)
    PROVE  /\ AllSound(requests') /\ rs \subseteq requests'
           /\ ~ending /\ j # None => Loads(requests')
<1>1. CASE ending \/ j = None
  BY <1>1 DEF Load
<1>2. CASE ~ending /\ j # None
  <2> DEFINE q == [Request("load", j) EXCEPT !.slot = Min(FreeSlots(rs)),
                                             !.restore = restore, !.mounting = mounting]
  <2>1. Min(FreeSlots(rs)) \in Nat
    <3>1. FreeSlots(rs) # {}
      BY <1>2 DEF Load
    <3>2. FreeSlots(rs) \subseteq Nat
      BY ConstantsAssumption DEF FreeSlots
    <3> QED
      BY <3>1, <3>2, MinOfNaturals
  <2>2. q.kind = "load" /\ Sound(q)
    BY <1>2, <2>1 DEF Request, Sound, RequestType, Statuses, OfJob, Creating, Kinds
  <2>3. requests' = rs \cup {q}
    BY <1>2 DEF Load
  <2> QED
    BY <2>2, <2>3 DEF AllSound, MountsPage, Loads
<1> QED
  BY <1>1, <1>2

LEMMA FewerSound ==
    ASSUME NEW rs, AllSound(rs), NEW qs, qs \subseteq rs
    PROVE  AllSound(qs)
  BY DEF AllSound

\* An answer leaves a request what it was.
LEMMA AnswerIsSound ==
    ASSUME RequestInv, NEW r \in requests, NEW answer \in {"ok", "failed", "missing"},
           NEW j \in Jobs \cup {None}, NEW s \in Statuses, Answered(r, answer, j, s),
           r.kind \in OfJob => j \in Jobs,
           r.kind \in Creating /\ answer = "ok" => s = "active" /\ j \in Jobs
    PROVE  /\ RequestInv'
           /\ Loads(requests) => Loads(requests')
           /\ Mounts(requests) => Mounts(requests')
<1> DEFINE p == [r EXCEPT !.answer = answer, !.job = j, !.status = s]
<1>1. Sound(r)
  BY DEF RequestInv, AllSound
<1>2. p.kind = r.kind /\ p.mounting = r.mounting /\ Sound(p)
  BY <1>1 DEF Sound, RequestType
<1>3. requests' = (requests \ {r}) \cup {p}
  BY DEF Answered
<1> HIDE DEF p
<1> QED
  BY <1>2, <1>3 DEF RequestInv, AllSound, MountsPage, Loads, Mounts

-----------------------------------------------------------------------------
(* The stream and the events of its job *)

\* What is in the queue comes in the order of its events and is newer than what was
\* seen; a snapshot, of no event, comes before all.
QueueInv ==
    /\ stream.base <= Len(log[stream.job])
    /\ \A k \in DOMAIN stream.queue :
        LET event == stream.queue[k] IN
        /\ event.id <= Len(log[stream.job])
        /\ event.id # 0 => event.id > stream.base /\ event.id > seen[stream.job]
        /\ event.id = 0 <=> event.kind = "snapshot"
    /\ \A k, l \in DOMAIN stream.queue : k < l => stream.queue[k].id < stream.queue[l].id

\* What is in the queue makes up for every event that was not seen.
Covers ==
    \A id \in Nat :
        /\ id > stream.base /\ id > seen[stream.job] /\ id <= Len(log[stream.job])
        => \E k \in DOMAIN stream.queue :
              \/ stream.queue[k].id = id
              \/ stream.queue[k].kind = "gap" /\ stream.queue[k].id >= id

StreamInv ==
    /\ \A j \in Jobs : seen[j] <= Len(log[j])
    /\ stream.open => stream.job # None /\ QueueInv /\ Covers
    /\ stream.job # None /\ ~stream.open => stream.from = seen[stream.job]
    /\ Len(stream.queue) <= QueueLimit

LEMMA CoversIsLossNoticed ==
    ASSUME TypeInv, stream.job # None
    PROVE  Covers <=> \A id \in Max({stream.base, seen[stream.job]}) + 1 .. Len(log[stream.job]) :
              \E k \in DOMAIN stream.queue :
                  LET event == stream.queue[k] IN
                  event.id = id \/ (event.kind = "gap" /\ event.id >= id)
<1>1. /\ stream.base \in Nat /\ seen[stream.job] \in Nat
      /\ Len(log[stream.job]) \in Nat
  BY DEF TypeInv, StreamType
<1>2. PICK m \in Nat : m = Max({stream.base, seen[stream.job]})
  BY <1>1, MaxOfTwo
<1>3. m \in {stream.base, seen[stream.job]} /\ m >= stream.base /\ m >= seen[stream.job]
  BY <1>1, <1>2, MaxOfTwo
<1>4. \A id : id \in m + 1 .. Len(log[stream.job])
               <=> id \in Nat /\ id > stream.base /\ id > seen[stream.job] /\ id <= Len(log[stream.job])
  BY <1>1, <1>3
<1>5. \A id : id \in Max({stream.base, seen[stream.job]}) + 1 .. Len(log[stream.job])
               <=> id \in Nat /\ id > stream.base /\ id > seen[stream.job] /\ id <= Len(log[stream.job])
  BY <1>2, <1>4, Zenon
<1> QED
  BY <1>5, Zenon DEF Covers

LEMMA StreamInvNoticesLoss == TypeInv /\ StreamInv => LossIsNoticed
  BY CoversIsLossNoticed DEF StreamInv, LossIsNoticed

LEMMA LogsAreFinite == TypeInv => \A j \in Jobs : Len(log[j]) \in Nat
  BY DEF TypeInv

LEMMA ClosedIsStream ==
    /\ Closed \in StreamType /\ ~Closed.open /\ Closed.queue = <<>> /\ Closed.job = None
    /\ \A j \in Jobs, n \in Nat :
         LET s == [Closed EXCEPT !.job = j, !.from = n] IN
         s \in StreamType /\ ~s.open /\ s.queue = <<>> /\ s.job = j /\ s.from = n
<1>1. <<>> \in Seq(EventType)
  BY EmptySeq
<1> QED
  BY <1>1 DEF Closed, StreamType

\* Without a queue there is nothing to lose.
LEMMA NoQueue ==
    ASSUME TypeInv, StreamInv, log' = log,
           seen' \in {seen, [i \in Jobs |-> 0]} \/ \A j \in Jobs : seen'[j] <= Len(log[j]),
           ~stream'.open, stream'.queue = <<>>,
           stream'.job # None => stream'.from = seen'[stream'.job]
    PROVE  StreamInv'
<1>1. \A j \in Jobs : seen'[j] <= Len(log'[j])
  BY LogsAreFinite DEF StreamInv, TypeInv
<1>2. Len(stream'.queue) <= QueueLimit
  BY ConstantsAssumption, EmptySeq
<1> QED
  BY <1>1, <1>2 DEF StreamInv

LEMMA SetsCurrentJob ==
    ASSUME TypeInv, StreamInv, NEW j \in Jobs \cup {None}, SetCurrentJob(j),
           UNCHANGED <<seen, log>>
    PROVE  /\ current' = j /\ OneJobFollowed'
           /\ StreamInv' /\ stream' \in StreamType
<1>1. CASE j # None /\ stream.job = j
  <2>1. stream' = stream
    BY <1>1 DEF SetCurrentJob
  <2> QED
    BY <1>1, <2>1 DEF SetCurrentJob, OneJobFollowed, StreamInv, QueueInv, Covers, TypeInv
<1>2. CASE stream.job # j /\ j # None
  <2>1. stream' = [Closed EXCEPT !.job = j, !.from = seen'[j]]
    BY <1>2 DEF SetCurrentJob
  <2>2. seen'[j] \in Nat
    BY <1>2 DEF TypeInv
  <2>3. /\ stream' \in StreamType /\ ~stream'.open /\ stream'.queue = <<>>
        /\ stream'.job = j /\ stream'.from = seen'[j]
    BY <1>2, <2>1, <2>2, ClosedIsStream
  <2>4. StreamInv'
    BY <2>3, NoQueue
  <2> QED
    BY <2>3, <2>4 DEF SetCurrentJob, OneJobFollowed
<1>3. CASE j = None
  <2>1. stream' = Closed
    BY <1>3 DEF SetCurrentJob
  <2>2. StreamInv'
    BY <2>1, ClosedIsStream, NoQueue
  <2> QED
    BY <2>1, <2>2, ClosedIsStream DEF SetCurrentJob, OneJobFollowed
<1> QED
  BY <1>1, <1>2, <1>3

LEMMA EventIsEvent ==
    ASSUME NEW n \in Nat, NEW ends \in BOOLEAN
    PROVE  /\ Event(n, ends) \in EventType /\ Event(n, ends).id = n
           /\ Event(n, ends).kind \in {"final", "progress"}
           /\ Gap(n) \in EventType /\ Gap(n).id = n /\ Gap(n).kind = "gap"
  BY DEF Event, Gap, EventType, Statuses

LEMMA SnapshotIsEvent ==
    ASSUME NEW s \in Statuses
    PROVE  /\ Snapshot(s) \in EventType /\ Snapshot(s).id = 0
           /\ Snapshot(s).kind = "snapshot" /\ Snapshot(s).status = s
  BY DEF Snapshot, EventType

LEMMA EventsOfQueue ==
    ASSUME NEW queue \in Seq(EventType)
    PROVE  /\ DOMAIN queue = 1 .. Len(queue) /\ Len(queue) \in Nat
           /\ \A k \in 1 .. Len(queue) : queue[k] \in EventType /\ queue[k].id \in Nat
<1>1. DOMAIN queue = 1 .. Len(queue) /\ Len(queue) \in Nat
  BY LenProperties
<1>2. \A k \in 1 .. Len(queue) : queue[k] \in EventType
  BY ElementOfSeq
<1>3. \A event \in EventType : event.id \in Nat
  BY DEF EventType
<1> QED
  BY <1>1, <1>2, <1>3

\* An event was added at the end, or a gap for it and for what was lost at the front.
Prolongs(next, queue, event) ==
    /\ next \in Seq(EventType) /\ Len(next) <= QueueLimit
    /\ \E lost \in {0, 1} :
         /\ Len(next) = Len(queue) + 1 - lost /\ Len(next) > 0
         /\ \A k \in 1 .. Len(queue) - lost : next[k] = queue[k + lost]
         /\ next[Len(next)].id = event.id
         /\ IF lost = 0 THEN next[Len(next)].kind = event.kind
            ELSE next[Len(next)].kind = "gap"

\* A full queue makes room for a gap that stands for the new event.
LEMMA PutMakesRoom ==
    ASSUME NEW queue \in Seq(EventType), Len(queue) <= QueueLimit, NEW event \in EventType
    PROVE  Prolongs(Put(queue, event), queue, event)
<1> PICK next : next = Put(queue, event)
  OBVIOUS
<1> SUFFICES Prolongs(next, queue, event)
  OBVIOUS
<1>1. CASE Len(queue) < QueueLimit
  <2>1. next = Append(queue, event)
    BY <1>1 DEF Put
  <2>2. /\ next \in Seq(EventType) /\ Len(next) = Len(queue) + 1
        /\ \A k \in 1 .. Len(queue) : next[k] = queue[k]
        /\ next[Len(next)] = event
    BY <2>1
  <2>3. Len(queue) \in Nat /\ QueueLimit \in Nat
    BY ConstantsAssumption
  <2> QED
    BY <1>1, <2>2, <2>3 DEF Prolongs
<1>2. CASE ~(Len(queue) < QueueLimit)
  <2>1. next = Append(Tail(queue), Gap(event.id))
    BY <1>2 DEF Put
  <2>2. Len(queue) \in Nat /\ QueueLimit \in Nat /\ Len(queue) = QueueLimit /\ Len(queue) > 0
    BY <1>2, ConstantsAssumption
  <2>3. event.id \in Nat
    BY DEF EventType
  <2>4. Gap(event.id) \in EventType /\ Gap(event.id).id = event.id /\ Gap(event.id).kind = "gap"
    BY <2>3, EventIsEvent
  <2>5. /\ Tail(queue) \in Seq(EventType) /\ Len(Tail(queue)) = Len(queue) - 1
        /\ \A k \in 1 .. Len(queue) - 1 : Tail(queue)[k] = queue[k + 1]
    BY <2>2
  <2>6. /\ next \in Seq(EventType) /\ Len(next) = Len(queue)
        /\ \A k \in 1 .. Len(queue) - 1 : next[k] = queue[k + 1]
        /\ next[Len(next)] = Gap(event.id)
    BY <2>1, <2>2, <2>4, <2>5
  <2> QED
    BY <2>2, <2>4, <2>6 DEF Prolongs
<1> QED
  BY <1>1, <1>2

\* A new event is newer than all there are, and the queue has it or a gap for it.
LEMMA RecordsEvent ==
    ASSUME TypeInv, StreamInv, NEW j \in Jobs, NEW s \in Statuses, NEW ends \in BOOLEAN,
           Record(j, s, ends), seen' = seen
    PROVE  /\ StreamInv' /\ stream' \in StreamType /\ stream'.job = stream.job
           /\ status' \in [Jobs -> Statuses] /\ log' \in [Jobs -> Seq(BOOLEAN)]
<1>1. /\ status' \in [Jobs -> Statuses] /\ log' \in [Jobs -> Seq(BOOLEAN)]
      /\ Len(log[j]) \in Nat /\ Len(log'[j]) = Len(log[j]) + 1
      /\ \A i \in Jobs \ {j} : log'[i] = log[i]
  BY DEF Record, TypeInv
<1>2. \A i \in Jobs : seen'[i] <= Len(log'[i])
  <2>1. \A i \in Jobs : seen[i] \in Nat /\ seen[i] <= Len(log[i])
    BY DEF TypeInv, StreamInv
  <2> QED
    BY <1>1, <2>1
<1>3. CASE stream.open /\ stream.job = j
  <2> DEFINE n == Len(log[j]) + 1
             queue == stream.queue
  <2>1. stream' = [stream EXCEPT !.queue = Put(queue, Event(n, ends))]
    BY <1>3 DEF Record
  <2>2. queue \in Seq(EventType) /\ Len(queue) <= QueueLimit /\ stream \in StreamType
    BY DEF TypeInv, StreamType, StreamInv
  <2>3. PICK event \in EventType :
          event = Event(n, ends) /\ event.id = n /\ event.kind \in {"final", "progress"}
    BY <1>1, EventIsEvent
  <2>4. PICK next : next = Put(queue, event)
    OBVIOUS
  <2>5. Prolongs(next, queue, event)
    BY <2>2, <2>4, PutMakesRoom
  <2>6. /\ stream'.queue = next /\ stream' \in StreamType /\ stream'.job = j
        /\ stream'.open /\ stream'.base = stream.base
    <3>1. next \in Seq(EventType)
      BY <2>5 DEF Prolongs
    <3>2. stream' = [stream EXCEPT !.queue = next]
      BY <2>1, <2>3, <2>4
    <3> QED
      BY <1>3, <2>2, <3>1, <3>2 DEF StreamType
  <2>7. stream.base \in Nat /\ seen[j] \in Nat /\ seen[j] <= Len(log[j])
    BY DEF TypeInv, StreamType, StreamInv
  <2>8. PICK lost \in {0, 1} :
             /\ Len(next) = Len(queue) + 1 - lost /\ Len(next) > 0
             /\ \A k \in 1 .. Len(queue) - lost : next[k] = queue[k + lost]
             /\ next[Len(next)].id = n
             /\ IF lost = 0 THEN next[Len(next)].kind \in {"final", "progress"}
                ELSE next[Len(next)].kind = "gap"
    BY <2>3, <2>5 DEF Prolongs
  <2>9. /\ DOMAIN queue = 1 .. Len(queue) /\ Len(queue) \in Nat
        /\ DOMAIN next = 1 .. Len(next) /\ Len(next) \in Nat
        /\ \A k \in 1 .. Len(queue) : queue[k].id \in Nat
    BY <2>2, <2>5, EventsOfQueue DEF Prolongs
  <2>10. \A k \in 1 .. Len(next) : k # Len(next) =>
           /\ k + lost \in 1 .. Len(queue) /\ next[k] = queue[k + lost]
    BY <2>8, <2>9
  <2>11. QueueInv /\ Covers
    BY <1>3 DEF StreamInv
  <2>12. n \in Nat /\ Len(log[j]) < n /\ Len(log'[j]) = n /\ Len(log[j]) \in Nat
    BY <1>1
  <2> HIDE DEF n, queue
  <2>13. \A k \in 1 .. Len(queue) :
           /\ queue[k].id <= Len(log[j])
           /\ queue[k].id # 0 => queue[k].id > stream.base /\ queue[k].id > seen[j]
           /\ queue[k].id = 0 <=> queue[k].kind = "snapshot"
           /\ \A l \in 1 .. Len(queue) : k < l => queue[k].id < queue[l].id
    BY <1>3, <2>9, <2>11 DEF QueueInv, queue
  <2>14. stream.base <= Len(log[j])
    BY <1>3, <2>11 DEF QueueInv
  <2>15. QueueInv'
    <3>1. stream.base <= n
      BY <2>7, <2>12, <2>14
    <3>2. ASSUME NEW k \in 1 .. Len(next)
          PROVE  /\ next[k].id <= n
                 /\ next[k].id # 0 => next[k].id > stream.base /\ next[k].id > seen[j]
                 /\ next[k].id = 0 <=> next[k].kind = "snapshot"
      <4>1. CASE k = Len(next)
        BY <4>1, <2>7, <2>8, <2>12, <2>14
      <4>2. CASE k # Len(next)
        <5>1. PICK i \in 1 .. Len(queue) : next[k] = queue[i]
          BY <4>2, <2>10
        <5>2. queue[i].id \in Nat /\ queue[i].id <= Len(log[j])
          BY <2>9, <2>13
        <5>3. queue[i].id <= n
          BY <5>2, <2>12
        <5> QED
          BY <5>1, <5>3, <2>13
      <4> QED
        BY <4>1, <4>2
    <3>3. ASSUME NEW k \in 1 .. Len(next), NEW l \in 1 .. Len(next), k < l
          PROVE  next[k].id < next[l].id
      <4>1. k # Len(next)
        <5>1. Len(next) \in Nat
          BY <2>9
        <5> QED
          BY <3>3, <5>1
      <4>2. CASE l = Len(next)
        BY <4>1, <4>2, <2>8, <2>9, <2>10, <2>12, <2>13
      <4>3. CASE l # Len(next)
        <5>1. k + lost < l + lost
          BY <3>3, <2>8
        <5> QED
          BY <4>1, <4>3, <5>1, <2>10, <2>13
      <4> QED
        BY <4>2, <4>3
    <3> QED
      BY <3>1, <3>2, <3>3, <2>6, <2>9, <2>12 DEF QueueInv
  <2>16. Covers'
    <3> SUFFICES ASSUME NEW id \in Nat, id > stream.base, id > seen[j], id <= n
                 PROVE  \E k \in 1 .. Len(next) :
                          next[k].id = id \/ (next[k].kind = "gap" /\ next[k].id >= id)
      BY <2>6, <2>9, <2>12 DEF Covers
    <3>1. CASE id = n \/ lost = 1
      BY <3>1, <2>8, <2>9, <2>12
    <3>2. CASE id # n /\ lost = 0
      <4>1. id <= Len(log[j])
        BY <3>2, <2>12, <1>1 DEF n
      <4>2. PICK k \in 1 .. Len(queue) :
              queue[k].id = id \/ (queue[k].kind = "gap" /\ queue[k].id >= id)
        BY <1>3, <4>1, <2>9, <2>11 DEF Covers, queue
      <4>3. k \in 1 .. Len(next) /\ next[k] = queue[k]
        BY <3>2, <2>8, <2>9
      <4> QED
        BY <4>2, <4>3
    <3> QED
      BY <3>1, <3>2, <2>8
  <2> QED
    BY <1>1, <1>2, <1>3, <2>5, <2>6, <2>15, <2>16, ConstantsAssumption DEF StreamInv, Prolongs
<1>4. CASE ~(stream.open /\ stream.job = j)
  <2>1. stream' = stream
    BY <1>4 DEF Record
  <2>2. stream.open => stream.job \in Jobs \ {j}
    BY <1>4 DEF StreamInv, TypeInv, StreamType
  <2> QED
    BY <1>1, <1>2, <2>1, <2>2 DEF StreamInv, QueueInv, Covers, TypeInv
<1> QED
  BY <1>3, <1>4

\* The history goes back to what was seen, or to its limit.
LEMMA HistoryReaches ==
    ASSUME NEW from \in Nat, NEW ends \in Seq(BOOLEAN), from <= Len(ends)
    PROVE  \E length \in Nat :
             /\ Skipped(from, ends) \in Nat /\ from <= Skipped(from, ends)
             /\ Len(ends) = Skipped(from, ends) + length /\ length <= HistoryLimit
             /\ Len(ends) - Skipped(from, ends) = length
<1>1. HistoryLimit \in Nat
  BY ConstantsAssumption
<1>2. PICK older \in Int : older = Len(ends) - HistoryLimit
  BY <1>1
<1>3. from \in Int /\ 0 \in Int
  OBVIOUS
<1>4. PICK last : last = Max({from, older, 0})
  OBVIOUS
<1>5. last \in {from, older, 0} /\ \A x \in {from, older, 0} : last >= x
  BY <1>3, <1>4, MaxOfThree, Zenon
<1>6. Skipped(from, ends) = last
  BY <1>2, <1>4 DEF Skipped
<1>7. /\ last \in Nat /\ from <= last
      /\ last <= Len(ends) /\ Len(ends) - last <= HistoryLimit
  BY <1>1, <1>2, <1>5
<1>8. PICK length \in Nat : length = Len(ends) - last
  BY <1>7
<1> QED
  BY <1>6, <1>7, <1>8

LEMMA FunctionIsQueue ==
    ASSUME NEW length \in Nat, NEW queue \in [1 .. length -> EventType]
    PROVE  queue \in Seq(EventType) /\ Len(queue) = length
  OBVIOUS

\* All that was not skipped is replayed.
LEMMA ReplayIsComplete ==
    ASSUME NEW from \in Nat, NEW ends \in Seq(BOOLEAN), from <= Len(ends),
           NEW skipped, skipped = Skipped(from, ends),
           NEW queue, queue = Replay(from, ends), queue # <<>>
    PROVE  /\ queue \in Seq(EventType) /\ Len(queue) <= HistoryLimit
           /\ skipped \in Nat /\ from <= skipped /\ Len(ends) = skipped + Len(queue)
           /\ \A k \in 1 .. Len(queue) :
                queue[k].id = skipped + k /\ queue[k].kind \in {"final", "progress"}
<1>1. PICK length \in Nat :
        /\ skipped \in Nat /\ from <= skipped
        /\ Len(ends) = skipped + length /\ length <= HistoryLimit
        /\ Len(ends) - skipped = length
  BY HistoryReaches
<1>2. queue = [k \in 1 .. length |-> Event(skipped + k, ends[skipped + k])]
  BY <1>1 DEF Replay
<1>3. \A k \in 1 .. length : skipped + k \in Nat /\ ends[skipped + k] \in BOOLEAN
  BY <1>1, ElementOfSeq
<1>4. \A k \in 1 .. length :
        /\ queue[k] \in EventType /\ queue[k].id = skipped + k
        /\ queue[k].kind \in {"final", "progress"}
  BY <1>2, <1>3, EventIsEvent
<1>5. queue \in [1 .. length -> EventType]
  BY <1>2, <1>4
<1>6. queue \in Seq(EventType) /\ Len(queue) = length
  BY <1>5, FunctionIsQueue
<1> QED
  BY <1>1, <1>4, <1>6

\* A queue at the opening of the stream: what happened after the base, or a snapshot.
Opens(queue, base, j) ==
    /\ queue \in Seq(EventType) /\ Len(queue) <= QueueLimit
    /\ base \in Nat /\ base <= Len(log[j])
    /\ \/ \E event \in EventType :
            queue = <<event>> /\ event.id = 0 /\ event.kind = "snapshot" /\ base = Len(log[j])
       \/ /\ seen[j] <= base /\ Len(log[j]) = base + Len(queue)
          /\ \A k \in 1 .. Len(queue) :
               queue[k].id = base + k /\ queue[k].kind \in {"final", "progress"}

LEMMA SubscribeOpens ==
    ASSUME TypeInv, StreamInv, Subscribe
    PROVE  /\ stream.job \in Jobs /\ UNCHANGED <<log, seen>>
           /\ \E queue, base :
                /\ Opens(queue, base, stream.job)
                /\ stream' = [stream EXCEPT !.open = TRUE, !.queue = queue, !.base = base]
<1>1. stream.job \in Jobs /\ ~stream.open /\ UNCHANGED <<log, seen>>
  BY DEF Subscribe, TypeInv, StreamType, server, page
<1>2. /\ stream.from = seen[stream.job] /\ stream.from \in Nat
      /\ stream.from <= Len(log[stream.job])
      /\ log[stream.job] \in Seq(BOOLEAN) /\ status[stream.job] \in Statuses
  <2>1. /\ stream.from \in Nat /\ log[stream.job] \in Seq(BOOLEAN)
        /\ status[stream.job] \in Statuses /\ stream.job # None
    BY <1>1, ConstantsAssumption DEF TypeInv, StreamType
  <2>2. stream.from = seen[stream.job] /\ seen[stream.job] <= Len(log[stream.job])
    BY <1>1, <2>1 DEF StreamInv
  <2> QED
    BY <2>1, <2>2
<1>3. PICK ends \in Seq(BOOLEAN) : ends = log[stream.job]
  BY <1>2
<1>4. PICK skipped : skipped = Skipped(stream.from, ends)
  OBVIOUS
<1>5. PICK replay : replay = Replay(stream.from, ends)
  OBVIOUS
<1>6. stream' = [stream EXCEPT
                  !.open = TRUE,
                  !.queue = IF replay = <<>> THEN <<Snapshot(status[stream.job])>> ELSE replay,
                  !.base = IF replay = <<>> THEN Len(ends) ELSE skipped]
  BY <1>3, <1>4, <1>5 DEF Subscribe
<1>7. QueueLimit \in Nat /\ HistoryLimit \in Nat \ {0} /\ HistoryLimit < QueueLimit
      /\ Len(ends) \in Nat
  BY ConstantsAssumption
<1>8. CASE replay = <<>>
  <2>1. PICK event \in EventType :
          event = Snapshot(status[stream.job]) /\ event.id = 0 /\ event.kind = "snapshot"
    BY <1>2, SnapshotIsEvent
  <2>2. <<event>> \in Seq(EventType) /\ Len(<<event>>) = 1
    OBVIOUS
  <2>3. Opens(<<event>>, Len(ends), stream.job)
    BY <1>3, <1>7, <2>1, <2>2 DEF Opens
  <2>4. stream' = [stream EXCEPT !.open = TRUE, !.queue = <<event>>, !.base = Len(ends)]
    BY <1>6, <1>8, <2>1
  <2> QED
    BY <1>1, <2>3, <2>4
<1>9. CASE replay # <<>>
  <2>1. /\ replay \in Seq(EventType) /\ Len(replay) <= HistoryLimit
        /\ skipped \in Nat /\ stream.from <= skipped /\ Len(ends) = skipped + Len(replay)
        /\ \A k \in 1 .. Len(replay) :
             replay[k].id = skipped + k /\ replay[k].kind \in {"final", "progress"}
    BY <1>2, <1>3, <1>4, <1>5, <1>9, ReplayIsComplete
  <2>2. Len(replay) \in Nat
    BY <2>1
  <2>3. Len(replay) <= QueueLimit /\ skipped <= Len(ends)
    BY <1>7, <2>1, <2>2
  <2>4. Opens(replay, skipped, stream.job)
    BY <1>2, <1>3, <2>1, <2>3 DEF Opens
  <2>5. stream' = [stream EXCEPT !.open = TRUE, !.queue = replay, !.base = skipped]
    BY <1>6, <1>9
  <2> QED
    BY <1>1, <2>4, <2>5
<1> QED
  BY <1>8, <1>9

\* What the history still has is all that was not seen, without a hole; where there is
\* none, a snapshot stands for the events there were.
LEMMA SubscribesStream ==
    ASSUME TypeInv, StreamInv, Subscribe
    PROVE  StreamInv' /\ stream' \in StreamType /\ stream'.job = stream.job
<1>1. PICK j \in Jobs : j = stream.job
  BY SubscribeOpens
<1>2. PICK queue, base :
        /\ Opens(queue, base, j)
        /\ stream' = [stream EXCEPT !.open = TRUE, !.queue = queue, !.base = base]
  BY <1>1, SubscribeOpens
<1>3. UNCHANGED <<log, seen>>
  BY SubscribeOpens
<1>4. queue \in Seq(EventType) /\ Len(queue) <= QueueLimit /\ base \in Nat /\ base <= Len(log[j])
  BY <1>2 DEF Opens
<1>5. /\ stream' \in StreamType /\ stream'.job = j /\ stream'.open
      /\ stream'.queue = queue /\ stream'.base = base
  BY <1>1, <1>2, <1>4 DEF TypeInv, StreamType
<1>6. seen[j] \in Nat /\ seen[j] <= Len(log[j]) /\ Len(log[j]) \in Nat
  BY LogsAreFinite DEF TypeInv, StreamInv
<1>7. DOMAIN queue = 1 .. Len(queue)
  BY <1>4, EventsOfQueue
<1>8. CASE \E event \in EventType :
             queue = <<event>> /\ event.id = 0 /\ event.kind = "snapshot" /\ base = Len(log[j])
  <2>1. Len(queue) = 1 /\ queue[1].id = 0 /\ queue[1].kind = "snapshot" /\ base = Len(log[j])
    BY <1>8
  <2>2. QueueInv'
    BY <1>3, <1>5, <1>6, <1>7, <2>1 DEF QueueInv
  <2>3. Covers'
    BY <1>3, <1>5, <1>6, <2>1 DEF Covers
  <2> QED
    BY <1>1, <1>3, <1>4, <1>5, <2>2, <2>3, ConstantsAssumption DEF StreamInv
<1>9. CASE /\ seen[j] <= base /\ Len(log[j]) = base + Len(queue)
           /\ \A k \in 1 .. Len(queue) :
                queue[k].id = base + k /\ queue[k].kind \in {"final", "progress"}
  <2>1. QueueInv'
    BY <1>3, <1>4, <1>5, <1>6, <1>7, <1>9 DEF QueueInv
  <2>2. Covers'
    <3> SUFFICES ASSUME NEW id \in Nat, id > base, id <= Len(log[j])
                 PROVE  \E k \in 1 .. Len(queue) : queue[k].id = id
      BY <1>3, <1>5, <1>7 DEF Covers
    <3>1. PICK k \in Nat : k = id - base
      BY <1>4
    <3>2. k \in 1 .. Len(queue) /\ base + k = id
      BY <1>4, <1>6, <1>9, <3>1
    <3> QED
      BY <1>9, <3>2
  <2> QED
    BY <1>1, <1>3, <1>4, <1>5, <2>1, <2>2, ConstantsAssumption DEF StreamInv
<1> QED
  BY <1>2, <1>8, <1>9 DEF Opens

LEMMA TailOfQueue ==
    ASSUME NEW queue \in Seq(EventType), queue # <<>>
    PROVE  /\ Len(queue) \in Nat \ {0} /\ Head(queue) = queue[1] /\ queue[1] \in EventType
           /\ Tail(queue) \in Seq(EventType) /\ Len(Tail(queue)) = Len(queue) - 1
           /\ \A k \in 1 .. Len(queue) - 1 : Tail(queue)[k] = queue[k + 1]
  OBVIOUS

\* The first event of the queue is taken and seen.
Consumes ==
    /\ stream.open /\ stream.queue # <<>> /\ log' = log
    /\ stream' = [stream EXCEPT !.queue = Tail(@)]
    /\ seen' = IF Head(stream.queue).id = 0 THEN seen
               ELSE [seen EXCEPT ![stream.job] = Head(stream.queue).id]

\* What an event makes up for was seen with it, and what comes after it is newer.
LEMMA ConsumesEvent ==
    ASSUME TypeInv, StreamInv, Consumes
    PROVE  StreamInv' /\ stream' \in StreamType /\ stream'.job = stream.job
           /\ seen' \in [Jobs -> Nat]
<1>1. PICK j \in Jobs : j = stream.job
  BY DEF TypeInv, StreamType, StreamInv, Consumes
<1>2. PICK queue \in Seq(EventType) : queue = stream.queue /\ queue # <<>>
  BY DEF TypeInv, StreamType, Consumes
<1>3. PICK id \in Nat : id = Head(queue).id /\ id = queue[1].id
  BY <1>2, TailOfQueue, EventsOfQueue
<1>4. PICK rest \in Seq(EventType) :
        /\ rest = Tail(queue) /\ Len(rest) = Len(queue) - 1
        /\ \A k \in 1 .. Len(rest) : rest[k] = queue[k + 1]
  BY <1>2, TailOfQueue
<1>5. /\ stream' \in StreamType /\ stream'.job = j /\ stream'.open
      /\ stream'.queue = rest /\ stream'.base = stream.base
  BY <1>1, <1>2, <1>4 DEF TypeInv, StreamType, Consumes
<1>6. QueueInv /\ Covers
  BY DEF StreamInv, Consumes
<1>7. /\ DOMAIN queue = 1 .. Len(queue) /\ Len(queue) \in Nat \ {0}
      /\ DOMAIN rest = 1 .. Len(rest) /\ Len(rest) \in Nat
      /\ \A k \in 1 .. Len(queue) : queue[k].id \in Nat
  BY <1>2, EventsOfQueue, TailOfQueue
<1>8. \A k \in 1 .. Len(queue) :
        /\ queue[k].id <= Len(log[j])
        /\ queue[k].id # 0 => queue[k].id > stream.base /\ queue[k].id > seen[j]
        /\ queue[k].id = 0 <=> queue[k].kind = "snapshot"
        /\ \A l \in 1 .. Len(queue) : k < l => queue[k].id < queue[l].id
  BY <1>1, <1>2, <1>6, <1>7 DEF QueueInv
<1>9. PICK last \in Nat :
        last = seen'[j] /\ ((id = 0 /\ last = seen[j]) \/ (id # 0 /\ last = id))
  BY <1>1, <1>2, <1>3 DEF TypeInv, Consumes
<1>10. seen' \in [Jobs -> Nat] /\ \A i \in Jobs : seen'[i] <= Len(log'[i])
  <2>1. \A i \in Jobs : seen[i] \in Nat /\ seen[i] <= Len(log[i])
    BY DEF TypeInv, StreamInv
  <2>2. id <= Len(log[j])
    BY <1>3, <1>7, <1>8
  <2>3. seen' = IF id = 0 THEN seen ELSE [seen EXCEPT ![j] = id]
    BY <1>1, <1>2, <1>3 DEF Consumes
  <2> QED
    BY <2>1, <2>2, <2>3 DEF TypeInv, Consumes
<1>11. \A k \in 1 .. Len(rest) :
         k + 1 \in 1 .. Len(queue) /\ rest[k] = queue[k + 1] /\ queue[k + 1].id > id
  BY <1>3, <1>4, <1>7, <1>8
<1>12. stream.base \in Nat /\ stream.base <= Len(log[j]) /\ seen[j] \in Nat
  BY <1>1, <1>6 DEF TypeInv, StreamType, QueueInv
<1>13. log' = log
  BY DEF Consumes
<1>14. QueueInv'
  <2>1. ASSUME NEW k \in 1 .. Len(rest)
        PROVE  /\ rest[k].id <= Len(log[j])
               /\ rest[k].id # 0 => rest[k].id > stream.base /\ rest[k].id > last
               /\ rest[k].id = 0 <=> rest[k].kind = "snapshot"
    <3>1. PICK m \in 1 .. Len(queue) : rest[k] = queue[m] /\ queue[m].id > id
      BY <1>11
    <3>2. /\ queue[m].id <= Len(log[j])
          /\ queue[m].id # 0 => queue[m].id > stream.base /\ queue[m].id > seen[j]
          /\ queue[m].id = 0 <=> queue[m].kind = "snapshot"
      BY <1>8
    <3> QED
      BY <3>1, <3>2, <1>9
  <2>2. ASSUME NEW k \in 1 .. Len(rest), NEW l \in 1 .. Len(rest), k < l
        PROVE  rest[k].id < rest[l].id
    <3>1. k + 1 < l + 1
      BY <2>2
    <3> QED
      BY <3>1, <1>8, <1>11
  <2>3. stream.base <= Len(log[j])
    BY <1>12
  <2> QED
    BY <1>5, <1>7, <1>9, <1>13, <2>1, <2>2, <2>3 DEF QueueInv
<1>15. Covers'
  <2> SUFFICES ASSUME NEW n \in Nat, n > stream.base, n > last, n <= Len(log[j])
               PROVE  \E k \in 1 .. Len(rest) :
                        rest[k].id = n \/ (rest[k].kind = "gap" /\ rest[k].id >= n)
    BY <1>5, <1>7, <1>9, <1>13 DEF Covers
  <2>1. n > seen[j] /\ n > id
    <3>1. id # 0 => id > seen[j]
      BY <1>3, <1>7, <1>8
    <3>2. CASE id = 0
      BY <3>2, <1>9
    <3>3. CASE id # 0
      BY <3>1, <3>3, <1>9, <1>12
    <3> QED
      BY <3>2, <3>3
  <2>2. PICK k \in 1 .. Len(queue) :
          queue[k].id = n \/ (queue[k].kind = "gap" /\ queue[k].id >= n)
    BY <1>1, <1>2, <1>6, <1>7, <2>1 DEF Covers
  <2>3. k # 1
    BY <1>3, <2>1, <2>2
  <2>4. PICK i \in 1 .. Len(rest) : i + 1 = k
    BY <1>4, <1>7, <2>3
  <2> QED
    BY <1>11, <2>2, <2>4
<1>16. Len(stream'.queue) <= QueueLimit
  BY <1>2, <1>4, <1>5, <1>7, ConstantsAssumption DEF StreamInv
<1> QED
  BY <1>1, <1>5, <1>10, <1>14, <1>15, <1>16, ConstantsAssumption DEF StreamInv

-----------------------------------------------------------------------------
(* What is followed *)

\* A current job is polled, loaded, or still to be taken up by the mounting of the page.
FollowInv ==
    current # None /\ ~ending =>
        \/ timer \/ Loads(requests)
        \/ stream.job = None /\ shown = Empty /\ Mounts(requests)

PageInv ==
    /\ TypeInv /\ RequestInv /\ StreamInv
    /\ FollowInv /\ OneJobFollowed /\ ShownIsFollowed

\* A step that leaves the page alone and loses no request.
LEMMA ServerStep ==
    ASSUME PageInv, UNCHANGED page,
           status' \in [Jobs -> Statuses], log' \in [Jobs -> Seq(BOOLEAN)],
           StreamInv', stream' \in StreamType, stream'.job = stream.job,
           RequestInv', Loads(requests) => Loads(requests'),
           Mounts(requests) => Mounts(requests')
    PROVE  PageInv'
<1>1. TypeInv'
  BY DEF PageInv, TypeInv, page
<1>2. FollowInv' /\ OneJobFollowed' /\ ShownIsFollowed'
  BY DEF PageInv, FollowInv, OneJobFollowed, ShownIsFollowed, page, Active
<1> QED
  BY <1>1, <1>2 DEF PageInv

LEMMA SameStream ==
    ASSUME StreamInv, UNCHANGED <<log, stream, seen>>
    PROVE  StreamInv'
  BY DEF StreamInv, QueueInv, Covers

\* A click that sends a request, or a load.
LEMMA RequestsGrow ==
    ASSUME PageInv, UNCHANGED <<server, stream, page>>, RequestInv', requests \subseteq requests'
    PROVE  PageInv'
<1>1. StreamInv' /\ stream' = stream /\ stream \in StreamType
  BY SameStream DEF PageInv, TypeInv, server, page
<1>2. status' \in [Jobs -> Statuses] /\ log' \in [Jobs -> Seq(BOOLEAN)]
  BY DEF PageInv, TypeInv, server
<1>3. /\ Loads(requests) => Loads(requests')
      /\ Mounts(requests) => Mounts(requests')
  BY DEF Loads, Mounts
<1> QED
  BY <1>1, <1>2, <1>3, ServerStep

LEMMA SendsPreserves ==
    ASSUME PageInv, NEW kind \in Kinds, NEW j \in Jobs \cup {None}, Sends(kind, j),
           kind \in OfJob => j \in Jobs,
           kind = "submit" => ~Mounts(requests)
    PROVE  PageInv'
<1>1. PICK q : /\ q = Request(kind, j) /\ Sound(q) /\ q.kind = kind /\ ~q.mounting
  BY RequestIsNew
<1>2. requests' = requests \cup {q} /\ UNCHANGED <<server, stream, page>>
  BY <1>1 DEF Sends
<1>3. RequestInv'
  BY <1>1, <1>2 DEF PageInv, RequestInv, AllSound, Mounts, MountsPage
<1> QED
  BY <1>2, <1>3, RequestsGrow

LEMMA ClicksPreserve ==
    ASSUME PageInv,
           \/ SubmitJob \/ CancelActiveJob \/ Approve \/ Retry \/ Revise \/ RefreshHealth
           \/ \E j \in Jobs : ShowHistoricalJob(j) \/ RunAgain(j)
    PROVE  PageInv'
<1>1. CASE SubmitJob
  <2>1. Sends("submit", None) /\ ~Mounts(requests)
    BY <1>1 DEF SubmitJob, Of, Mounts, MountsPage
  <2> QED
    BY <2>1, SendsPreserves DEF Kinds, OfJob
<1>2. CASE CancelActiveJob
  <2>1. Sends("cancel", current) /\ current \in Jobs
    BY <1>2 DEF CancelActiveJob, PageInv, TypeInv
  <2> QED
    BY <2>1, SendsPreserves DEF Kinds, OfJob
<1>3. CASE Approve \/ Retry \/ Revise
  <2>1. shown.job \in Jobs
    BY <1>3 DEF Approve, Retry, Revise, PageInv, TypeInv
  <2>2. \E kind \in {"approve", "retry", "revise"} : Sends(kind, shown.job)
    BY <1>3 DEF Approve, Retry, Revise
  <2> QED
    BY <2>1, <2>2, SendsPreserves DEF Kinds, OfJob
<1>4. CASE RefreshHealth
  <2>1. Sends("health", None)
    BY <1>4 DEF RefreshHealth
  <2> QED
    BY <2>1, SendsPreserves DEF Kinds, OfJob
<1>5. ASSUME NEW j \in Jobs, ShowHistoricalJob(j) \/ RunAgain(j)
      PROVE  PageInv'
  <2>1. \E kind \in {"show", "rerun"} : Sends(kind, j)
    BY <1>5 DEF ShowHistoricalJob, RunAgain
  <2> QED
    BY <2>1, SendsPreserves DEF Kinds, OfJob
<1> QED
  BY <1>1, <1>2, <1>3, <1>4, <1>5

LEMMA BecomesVisiblePreserves ==
    ASSUME PageInv, BecomesVisible
    PROVE  PageInv'
<1>1. AllSound(requests) /\ current \in Jobs \cup {None}
  BY DEF PageInv, RequestInv, TypeInv
<1>2. Load(requests, current, TRUE, FALSE) /\ UNCHANGED <<server, stream, page>>
  BY DEF BecomesVisible
<1>3. AllSound(requests') /\ requests \subseteq requests'
  BY <1>1, <1>2, LoadAsks
<1> QED
  BY <1>2, <1>3, RequestsGrow DEF RequestInv

\* A step that leaves no current job, or one with a poll or a load under way.
LEMMA PageStep ==
    ASSUME PageInv, UNCHANGED <<status, log>>, seen' \in [Jobs -> Nat],
           StreamInv', stream' \in StreamType, OneJobFollowed', RequestInv',
           current' \in Jobs \cup {None},
           shown' \in [job : Jobs \cup {None}, status : Statuses, outdated : BOOLEAN],
           timer' \in BOOLEAN, ending' \in BOOLEAN,
           \/ current' = None \/ ending' \/ timer' \/ Loads(requests')
           \/ stream'.job = None /\ shown' = Empty /\ Mounts(requests'),
           ShownIsFollowed'
    PROVE  PageInv'
<1>1. TypeInv'
  BY DEF PageInv, TypeInv
<1>2. FollowInv'
  BY DEF FollowInv
<1> QED
  BY <1>1, <1>2 DEF PageInv

LEMMA ViewIsView ==
    ASSUME NEW j \in Jobs \cup {None}, NEW s \in Statuses
    PROVE  /\ View(j, s) \in [job : Jobs \cup {None}, status : Statuses, outdated : BOOLEAN]
           /\ View(j, s).job = j /\ View(j, s).status = s
  BY DEF View

LEMMA EmptyIsView ==
    /\ Empty \in [job : Jobs \cup {None}, status : Statuses, outdated : BOOLEAN]
    /\ RequestError \in [job : Jobs \cup {None}, status : Statuses, outdated : BOOLEAN]
    /\ ~Active(Empty.status) /\ ~Active(RequestError.status)
  BY DEF Empty, RequestError, View, Active, Statuses

LEMMA LeavesJobPreserves ==
    ASSUME PageInv, StartNewRequest \/ EndCurrentSession
    PROVE  PageInv'
<1>1. /\ shown' = Empty /\ timer' = FALSE /\ SetCurrentJob(None)
      /\ UNCHANGED <<status, log, seen>> /\ ending' \in BOOLEAN
  BY DEF StartNewRequest, EndCurrentSession, ClearPoll, server, PageInv, TypeInv
<1>2. /\ current' = None /\ OneJobFollowed' /\ StreamInv' /\ stream' \in StreamType
  BY <1>1, SetsCurrentJob DEF PageInv
<1>3. RequestInv'
  <2>1. CASE StartNewRequest
    BY <2>1 DEF StartNewRequest, PageInv, RequestInv
  <2>2. CASE EndCurrentSession
    <3>1. Sound(Request("end", None)) /\ Request("end", None).kind = "end"
      BY RequestIsNew DEF Kinds, OfJob
    <3>2. requests' = requests \cup {Request("end", None)}
      BY <2>2 DEF EndCurrentSession
    <3> QED
      BY <3>1, <3>2 DEF PageInv, RequestInv, AllSound, MountsPage
  <2> QED
    BY <2>1, <2>2
<1>4. ShownIsFollowed'
  BY <1>1, EmptyIsView DEF ShownIsFollowed
<1> QED
  BY <1>1, <1>2, <1>3, <1>4, EmptyIsView, PageStep DEF PageInv, TypeInv

LEMMA ReloadAppPreserves ==
    ASSUME PageInv, ReloadApp
    PROVE  PageInv'
<1>1. /\ current' = stored /\ shown' = Empty /\ timer' = FALSE /\ ending' = FALSE
      /\ stream' = Closed /\ seen' = [i \in Jobs |-> 0] /\ requests' = {Mounting}
      /\ UNCHANGED <<status, log, stored>>
  BY DEF ReloadApp, server
<1>2. stored \in Jobs \cup {None} /\ OneJobFollowed'
  BY <1>1, ClosedIsStream DEF PageInv, TypeInv, OneJobFollowed
<1>3. StreamInv' /\ stream' \in StreamType /\ stream'.job = None
  BY <1>1, ClosedIsStream, NoQueue DEF PageInv
<1>4. RequestInv' /\ Mounts(requests')
  BY <1>1, MountingIsSound DEF RequestInv, AllSound, Mounts, MountsPage, Mounting, Request
<1>5. ShownIsFollowed'
  BY <1>1, EmptyIsView DEF ShownIsFollowed
<1> QED
  BY <1>1, <1>2, <1>3, <1>4, <1>5, EmptyIsView, PageStep

-----------------------------------------------------------------------------
(* The server *)

LEMMA JobChangesRecords ==
    ASSUME NEW j \in Jobs, JobChanges(j)
    PROVE  /\ \E s \in Statuses, ends \in BOOLEAN : Record(j, s, ends)
           /\ UNCHANGED <<page, requests>>
  BY DEF JobChanges, Statuses

LEMMA JobChangesPreserves ==
    ASSUME PageInv, NEW j \in Jobs, JobChanges(j)
    PROVE  PageInv'
<1>1. PICK s \in Statuses, ends \in BOOLEAN : Record(j, s, ends)
  BY JobChangesRecords
<1>2. UNCHANGED <<page, requests>> /\ seen' = seen
  BY JobChangesRecords DEF page
<1>3. /\ StreamInv' /\ stream' \in StreamType /\ stream'.job = stream.job
      /\ status' \in [Jobs -> Statuses] /\ log' \in [Jobs -> Seq(BOOLEAN)]
  BY <1>1, <1>2, RecordsEvent DEF PageInv
<1>4. RequestInv'
  BY <1>2 DEF PageInv, RequestInv
<1> QED
  BY <1>2, <1>3, <1>4, ServerStep

LEMMA SubscribePreserves ==
    ASSUME PageInv, Subscribe
    PROVE  PageInv'
<1>1. UNCHANGED <<server, page, requests>>
  BY DEF Subscribe
<1>2. StreamInv' /\ stream' \in StreamType /\ stream'.job = stream.job
  BY SubscribesStream DEF PageInv
<1>3. RequestInv'
  BY <1>1 DEF PageInv, RequestInv
<1> QED
  BY <1>1, <1>2, <1>3, ServerStep DEF PageInv, TypeInv, server

\* A request is answered: what is recorded with it, if anything, is an event of its job.
LEMMA AnsweredPreserves ==
    ASSUME PageInv, NEW r \in requests, NEW answer \in {"ok", "failed", "missing"},
           NEW j \in Jobs \cup {None}, NEW s \in Statuses, Answered(r, answer, j, s),
           r.kind \in OfJob => j \in Jobs,
           r.kind \in Creating /\ answer = "ok" => s = "active" /\ j \in Jobs,
           UNCHANGED page,
           \/ UNCHANGED <<log, stream>> /\ status' \in [Jobs -> Statuses]
           \/ \E i \in Jobs, new \in Statuses, ends \in BOOLEAN : Record(i, new, ends)
    PROVE  PageInv'
<1>1. /\ RequestInv'
      /\ Loads(requests) => Loads(requests')
      /\ Mounts(requests) => Mounts(requests')
  BY AnswerIsSound DEF PageInv
<1>2. /\ StreamInv' /\ stream' \in StreamType /\ stream'.job = stream.job
      /\ status' \in [Jobs -> Statuses] /\ log' \in [Jobs -> Seq(BOOLEAN)]
  <2>1. seen' = seen
    BY DEF page
  <2>2. CASE UNCHANGED <<log, stream>> /\ status' \in [Jobs -> Statuses]
    BY <2>1, <2>2, SameStream DEF PageInv, TypeInv
  <2>3. ASSUME NEW i \in Jobs, NEW new \in Statuses, NEW ends \in BOOLEAN,
               Record(i, new, ends)
        PROVE  <1>2
    BY <2>1, <2>3, RecordsEvent DEF PageInv
  <2> QED
    BY <2>2, <2>3
<1> QED
  BY <1>1, <1>2, ServerStep

LEMMA ServePreserves ==
    ASSUME PageInv, NEW r \in requests, Serve(r)
    PROVE  PageInv'
<1>1. UNCHANGED page
  BY DEF Serve
<1>2. /\ Sound(r) /\ r.job \in Jobs \cup {None} /\ status \in [Jobs -> Statuses]
      /\ r.kind \in OfJob => r.job \in Jobs
  BY DEF PageInv, RequestInv, AllSound, Sound, RequestType, TypeInv
<1>3. CASE r.kind \in {"load", "show"}
  <2>1. /\ Answered(r, IF status[r.job] = "absent" THEN "missing" ELSE "ok", r.job, status[r.job])
        /\ UNCHANGED <<server, stream>>
    BY <1>3 DEF Serve
  <2>2. r.job \in Jobs /\ status[r.job] \in Statuses /\ r.kind \notin Creating
    BY <1>2, <1>3 DEF OfJob, Creating
  <2>3. UNCHANGED <<log, stream>> /\ status' \in [Jobs -> Statuses]
    BY <1>2, <2>1 DEF server
  <2>4. \E answer \in {"ok", "failed", "missing"} : Answered(r, answer, r.job, status[r.job])
    BY <2>1
  <2> QED
    BY <1>1, <2>2, <2>3, <2>4, AnsweredPreserves
<1>4. CASE r.kind = "health"
  <2>1. UNCHANGED <<server, stream>>
    BY <1>4 DEF Serve
  <2>2. \E j \in Jobs \cup {None}, s \in Statuses : Answered(r, "ok", j, s)
    <3>1. CASE \E j \in Jobs : Active(status[j]) /\ Answered(r, "ok", j, status[j])
      <4>1. PICK j \in Jobs : Answered(r, "ok", j, status[j])
        BY <3>1
      <4>2. status[j] \in Statuses
        BY <1>2
      <4> QED
        BY <4>1, <4>2
    <3>2. CASE Answered(r, "ok", None, "absent")
      BY <3>2 DEF Statuses
    <3> QED
      BY <1>4, <3>1, <3>2 DEF Serve
  <2>3. UNCHANGED <<log, stream>> /\ status' \in [Jobs -> Statuses]
    BY <1>2, <2>1 DEF server
  <2>4. r.kind \notin OfJob /\ r.kind \notin Creating
    BY <1>4 DEF OfJob, Creating
  <2> QED
    BY <1>1, <2>2, <2>3, <2>4, AnsweredPreserves
<1>5. CASE r.kind = "cancel"
  <2>1. Answered(r, "ok", r.job, "over") /\ r.job \in Jobs
    BY <1>2, <1>5 DEF Serve, OfJob
  <2>2. Record(r.job, "over", TRUE) \/ UNCHANGED <<server, stream>>
    BY <1>5 DEF Serve
  <2>3. \/ UNCHANGED <<log, stream>> /\ status' \in [Jobs -> Statuses]
        \/ \E i \in Jobs, new \in Statuses, ends \in BOOLEAN : Record(i, new, ends)
    BY <1>2, <2>1, <2>2 DEF server, Statuses
  <2>4. r.kind \notin Creating /\ "over" \in Statuses
    BY <1>5 DEF Creating, Statuses
  <2> QED
    BY <1>1, <2>1, <2>3, <2>4, AnsweredPreserves
<1>6. CASE r.kind \in {"approve", "retry"}
  <2>1. Answered(r, "ok", r.job, "active") /\ Record(r.job, "active", FALSE) /\ r.job \in Jobs
    BY <1>2, <1>6 DEF Serve, OfJob
  <2>2. "active" \in Statuses
    BY DEF Statuses
  <2> QED
    BY <1>1, <2>1, <2>2, AnsweredPreserves
<1>7. CASE r.kind \in {"submit", "revise", "rerun"}
  <2>1. PICK j \in Jobs : Answered(r, "ok", j, "active") /\ Record(j, "active", FALSE)
    BY <1>7 DEF Serve
  <2>2. "active" \in Statuses
    BY DEF Statuses
  <2> QED
    BY <1>1, <2>1, <2>2, AnsweredPreserves
<1>8. CASE r.kind = "end"
  <2>1. /\ Answered(r, "ok", None, "absent") /\ UNCHANGED <<log, stream>>
        /\ status' = [j \in Jobs |-> IF Active(status[j]) THEN "over" ELSE status[j]]
    BY <1>8 DEF Serve
  <2>2. status' \in [Jobs -> Statuses]
    BY <1>2, <2>1 DEF Statuses
  <2>3. r.kind \notin OfJob /\ r.kind \notin Creating /\ "absent" \in Statuses
    BY <1>8 DEF OfJob, Creating, Statuses
  <2> QED
    BY <1>1, <2>1, <2>2, <2>3, AnsweredPreserves
<1> QED
  BY <1>3, <1>4, <1>5, <1>6, <1>7, <1>8 DEF Serve

LEMMA RefusePreserves ==
    ASSUME PageInv, NEW r \in requests, Refuse(r) \/ RequestFails(r)
    PROVE  PageInv'
<1>1. Answered(r, "failed", r.job, "absent") /\ UNCHANGED <<server, stream, page>>
  BY DEF Refuse, RequestFails
<1>2. /\ r.job \in Jobs \cup {None} /\ status \in [Jobs -> Statuses]
      /\ r.kind \in OfJob => r.job \in Jobs
  BY DEF PageInv, RequestInv, AllSound, Sound, RequestType, TypeInv
<1>3. UNCHANGED <<log, stream>> /\ status' \in [Jobs -> Statuses] /\ "absent" \in Statuses
  BY <1>1, <1>2 DEF server, Statuses
<1> QED
  BY <1>1, <1>2, <1>3, AnsweredPreserves

-----------------------------------------------------------------------------
(* The page *)

LEMMA MountedAsks ==
    ASSUME NEW r, NEW rest, AllSound(rest), NEW j \in Jobs \cup {None}, NEW view,
           Mounted(r, rest, j, view)
    PROVE  /\ AllSound(requests') /\ rest \subseteq requests'
           /\ r.mounting /\ view = Empty /\ ~ending /\ j # None => Loads(requests')
<1>1. CASE r.mounting /\ view = Empty
  BY <1>1, LoadAsks DEF Mounted
<1>2. CASE ~(r.mounting /\ view = Empty)
  BY <1>2 DEF Mounted
<1> QED
  BY <1>1, <1>2

\* Handlers that keep the current job keep its stream.
LEMMA KeepsCurrentJob ==
    ASSUME PageInv, SameCurrentJob, UNCHANGED <<log, seen>>
    PROVE  /\ current' = current /\ current' \in Jobs \cup {None} /\ stream' = stream
           /\ OneJobFollowed' /\ StreamInv' /\ stream' \in StreamType
  BY SameStream DEF PageInv, TypeInv, SameCurrentJob, OneJobFollowed

LEMMA ChangesCurrentJob ==
    ASSUME PageInv, NEW j \in Jobs \cup {None}, SetCurrentJob(j), UNCHANGED <<log, seen>>
    PROVE  /\ current' = j /\ current' \in Jobs \cup {None}
           /\ OneJobFollowed' /\ StreamInv' /\ stream' \in StreamType
  BY SetsCurrentJob DEF PageInv

\* What an answer to loadCurrentJob does, whatever job it was for.
LEMMA LoadEffects ==
    ASSUME PageInv, NEW r \in requests, r.kind = "load", ~ending,
           LoadFails(r) \/ LoadTells(r) \/ LoadForgets(r),
           UNCHANGED <<log, seen>>
    PROVE  /\ current' \in Jobs \cup {None}
           /\ OneJobFollowed' /\ StreamInv' /\ stream' \in StreamType
           /\ shown' \in [job : Jobs \cup {None}, status : Statuses, outdated : BOOLEAN]
           /\ timer' \in BOOLEAN /\ (current' = None \/ timer')
           /\ ShownIsFollowed'
<1>1. /\ r.job \in Jobs /\ r.status \in Statuses /\ timer \in BOOLEAN
      /\ shown \in [job : Jobs \cup {None}, status : Statuses, outdated : BOOLEAN]
      /\ None \notin Jobs /\ ShownIsFollowed
  BY ConstantsAssumption
     DEF PageInv, RequestInv, AllSound, Sound, OfJob, RequestType, TypeInv
<1>2. CASE LoadFails(r)
  <2>1. SameCurrentJob /\ timer' = (current' # None) /\ shown' = shown
    BY <1>2 DEF LoadFails, SchedulePoll
  <2>2. ShownIsFollowed'
    BY <1>1, <2>1, KeepsCurrentJob DEF ShownIsFollowed
  <2> QED
    BY <1>1, <2>1, <2>2, KeepsCurrentJob
<1>3. CASE LoadTells(r)
  <2>1. PICK view : view = View(r.job, r.status)
    OBVIOUS
  <2>2. /\ shown' = [view EXCEPT !.outdated = r.job # current]
        /\ view \in [job : Jobs \cup {None}, status : Statuses, outdated : BOOLEAN]
        /\ view.status = r.status
    BY <1>1, <1>3, <2>1, ViewIsView DEF LoadTells
  <2>3. /\ shown' \in [job : Jobs \cup {None}, status : Statuses, outdated : BOOLEAN]
        /\ shown'.status = r.status /\ shown'.outdated = (r.job # current)
    BY <2>2
  <2>4. CASE Active(r.status)
    <3>1. SameCurrentJob /\ timer' = (current' # None)
      BY <1>3, <2>4 DEF LoadTells, SchedulePoll
    <3>2. ShownIsFollowed'
      BY <1>1, <2>3, <3>1, KeepsCurrentJob DEF ShownIsFollowed
    <3> QED
      BY <2>3, <3>1, <3>2, KeepsCurrentJob
  <2>5. CASE ~Active(r.status)
    <3>1. SetCurrentJob(None) /\ timer' = FALSE
      BY <1>3, <2>5 DEF LoadTells, ClearPoll
    <3>2. ShownIsFollowed'
      BY <2>3, <2>5 DEF ShownIsFollowed
    <3> QED
      BY <2>3, <3>1, <3>2, ChangesCurrentJob
  <2> QED
    BY <2>4, <2>5
<1>4. CASE LoadForgets(r)
  <2>1. SetCurrentJob(None) /\ shown' = Empty /\ timer' = timer
    BY <1>4 DEF LoadForgets
  <2>2. ShownIsFollowed'
    BY <2>1, EmptyIsView DEF ShownIsFollowed
  <2> QED
    BY <1>1, <2>1, <2>2, EmptyIsView, ChangesCurrentJob
<1> QED
  BY <1>2, <1>3, <1>4

LEMMA LoadCurrentJobPreserves ==
    ASSUME PageInv, NEW r \in requests, LoadCurrentJob(r)
    PROVE  PageInv'
<1>1. PICK j, view : j = current' /\ view = shown'
  OBVIOUS
<1>2. /\ r.kind = "load" /\ UNCHANGED <<status, log, seen, ending>>
      /\ Mounted(r, requests \ {r}, j, view)
  BY <1>1 DEF LoadCurrentJob, server
<1>3. CASE ending
  <2>1. SameCurrentJob /\ UNCHANGED <<shown, timer>>
    BY <1>3 DEF LoadCurrentJob
  <2>2. AllSound(requests')
    BY <1>1, <1>2, <2>1, KeepsCurrentJob, MountedAsks, FewerSound DEF PageInv, RequestInv
  <2>3. ShownIsFollowed'
    BY <1>2, <2>1, KeepsCurrentJob DEF PageInv, ShownIsFollowed
  <2> QED
    BY <1>2, <1>3, <2>1, <2>2, <2>3, KeepsCurrentJob, PageStep DEF PageInv, TypeInv, RequestInv
<1>4. CASE ~ending
  <2>1. LoadFails(r) \/ LoadTells(r) \/ LoadForgets(r)
    BY <1>4 DEF LoadCurrentJob
  <2>2. /\ current' \in Jobs \cup {None}
        /\ OneJobFollowed' /\ StreamInv' /\ stream' \in StreamType
        /\ shown' \in [job : Jobs \cup {None}, status : Statuses, outdated : BOOLEAN]
        /\ timer' \in BOOLEAN /\ (current' = None \/ timer')
        /\ ShownIsFollowed'
    BY <1>2, <1>4, <2>1, LoadEffects
  <2>3. AllSound(requests')
    BY <1>1, <1>2, <2>2, MountedAsks, FewerSound DEF PageInv, RequestInv
  <2> QED
    BY <1>2, <2>2, <2>3, PageStep DEF PageInv, TypeInv, RequestInv
<1> QED
  BY <1>3, <1>4

LEMMA HealthTellsPreserves ==
    ASSUME PageInv, NEW r \in requests, HealthTells(r)
    PROVE  PageInv'
<1> DEFINE rest == requests \ {r}
<1>1. /\ r.kind = "health" /\ UNCHANGED <<status, log, seen, shown, timer, ending>>
      /\ r.mounting \in BOOLEAN /\ r.job \in Jobs \cup {None}
  BY DEF HealthTells, server, PageInv, RequestInv, AllSound, Sound, RequestType
<1>2. AllSound(rest)
  BY FewerSound DEF PageInv, RequestInv
<1>3. /\ FollowInv /\ ShownIsFollowed /\ seen \in [Jobs -> Nat]
      /\ shown \in [job : Jobs \cup {None}, status : Statuses, outdated : BOOLEAN]
      /\ timer \in BOOLEAN /\ ending \in BOOLEAN /\ current \in Jobs \cup {None}
  BY DEF PageInv, TypeInv
<1>4. CASE r.answer = "ok" /\ r.job \notin {None, current} /\ ~ending
  <2>1. SetCurrentJob(r.job) /\ Load(rest, r.job, TRUE, r.mounting)
    BY <1>4 DEF HealthTells
  <2>2. AllSound(requests') /\ Loads(requests')
    BY <1>1, <1>2, <1>4, <2>1, LoadAsks
  <2>3. ShownIsFollowed'
    BY <1>1, <1>4, <2>1, ChangesCurrentJob DEF ShownIsFollowed
  <2> QED
    BY <1>1, <1>3, <2>1, <2>2, <2>3, ChangesCurrentJob, PageStep DEF RequestInv
<1>5. CASE ~(r.answer = "ok" /\ r.job \notin {None, current} /\ ~ending)
  <2>1. SameCurrentJob /\ Mounted(r, rest, current, shown)
    BY <1>5 DEF HealthTells
  <2>2. /\ AllSound(requests') /\ rest \subseteq requests'
        /\ r.mounting /\ shown = Empty /\ ~ending /\ current # None => Loads(requests')
    BY <1>2, <1>3, <2>1, MountedAsks
  <2>3. Loads(requests) => Loads(requests')
    BY <1>1, <2>2 DEF Loads
  <2>4. Mounts(requests) => Mounts(requests') \/ r.mounting
    BY <1>1, <2>2 DEF Mounts, MountsPage
  <2>5. current' = current /\ stream' = stream
    BY <1>1, <2>1, KeepsCurrentJob
  <2>6. \/ current' = None \/ ending' \/ timer' \/ Loads(requests')
        \/ stream'.job = None /\ shown' = Empty /\ Mounts(requests')
    BY <1>1, <1>3, <2>2, <2>3, <2>4, <2>5 DEF FollowInv
  <2>7. ShownIsFollowed'
    BY <1>1, <1>3, <2>5 DEF ShownIsFollowed
  <2> QED
    BY <1>1, <1>3, <2>1, <2>2, <2>6, <2>7, KeepsCurrentJob, PageStep DEF RequestInv
<1> QED
  BY <1>4, <1>5

LEMMA AnswerArrivesPreserves ==
    ASSUME PageInv, NEW r \in requests, AnswerArrives(r)
    PROVE  PageInv'
<1>1. /\ r.kind \notin {"load", "health"} /\ requests' = requests \ {r}
      /\ UNCHANGED <<status, log, seen>>
  BY DEF AnswerArrives, server
<1>2. RequestInv'
  BY <1>1, FewerSound DEF PageInv, RequestInv
<1>3. /\ Loads(requests) => Loads(requests')
      /\ Mounts(requests) => Mounts(requests')
  BY <1>1 DEF Loads, Mounts, MountsPage
<1>4. /\ FollowInv /\ ShownIsFollowed /\ seen \in [Jobs -> Nat]
      /\ shown \in [job : Jobs \cup {None}, status : Statuses, outdated : BOOLEAN]
      /\ timer \in BOOLEAN /\ ending \in BOOLEAN /\ current \in Jobs \cup {None}
      /\ None \notin Jobs
  BY ConstantsAssumption DEF PageInv, TypeInv
<1>5. /\ r.job \in Jobs \cup {None} /\ r.status \in Statuses
      /\ r.kind \in OfJob => r.job \in Jobs
      /\ r.kind \in Creating /\ r.answer = "ok" => r.status = "active" /\ r.job \in Jobs
  BY DEF PageInv, RequestInv, AllSound, Sound, RequestType
<1>6. ASSUME r.job \in Jobs, shown' = View(r.job, r.status), ending' = ending,
             IF Active(r.status) THEN SetCurrentJob(r.job) /\ SchedulePoll
             ELSE SetCurrentJob(None) /\ ClearPoll
      PROVE  PageInv'
  <2>1. /\ shown' \in [job : Jobs \cup {None}, status : Statuses, outdated : BOOLEAN]
        /\ shown'.status = r.status
    BY <1>5, <1>6, ViewIsView
  <2>2. CASE Active(r.status)
    <3>1. SetCurrentJob(r.job) /\ timer' = (current' # None)
      BY <1>6, <2>2 DEF SchedulePoll
    <3>2. ShownIsFollowed'
      BY <1>1, <1>4, <1>6, <3>1, ChangesCurrentJob DEF ShownIsFollowed
    <3> QED
      BY <1>1, <1>2, <1>4, <1>6, <2>1, <3>1, <3>2, ChangesCurrentJob, PageStep
  <2>3. CASE ~Active(r.status)
    <3>1. SetCurrentJob(None) /\ timer' = FALSE
      BY <1>6, <2>3 DEF ClearPoll
    <3>2. ShownIsFollowed'
      BY <2>1, <2>3 DEF ShownIsFollowed
    <3> QED
      BY <1>1, <1>2, <1>4, <1>6, <2>1, <3>1, <3>2, ChangesCurrentJob, PageStep
  <2> QED
    BY <2>2, <2>3
<1>7. ASSUME SameCurrentJob, timer' \in BOOLEAN, ending' \in BOOLEAN,
             \/ shown' = RequestError /\ ~Mounts(requests) /\ UNCHANGED <<timer, ending>>
             \/ shown' = shown /\ UNCHANGED <<timer, ending>>
             \/ shown' = shown /\ timer' = (current' # None)
      PROVE  PageInv'
  <2>1. current' = current /\ stream' = stream
    BY <1>1, <1>7, KeepsCurrentJob
  <2>2. \/ current' = None \/ ending' \/ timer' \/ Loads(requests')
        \/ stream'.job = None /\ shown' = Empty /\ Mounts(requests')
    BY <1>3, <1>4, <1>7, <2>1 DEF FollowInv
  <2>3. ShownIsFollowed'
    BY <1>4, <1>7, <2>1, EmptyIsView DEF ShownIsFollowed
  <2>4. shown' \in [job : Jobs \cup {None}, status : Statuses, outdated : BOOLEAN]
    BY <1>4, <1>7, EmptyIsView
  <2> QED
    BY <1>1, <1>2, <1>4, <1>7, <2>2, <2>3, <2>4, KeepsCurrentJob, PageStep
<1>8. CASE /\ r.answer = "ok" /\ r.kind \in Creating
           /\ JobUpdated(r.job, r.status) /\ ending' = ending
  <2>1. r.job \in Jobs /\ Active(r.status)
    BY <1>5, <1>8 DEF Active
  <2> QED
    BY <1>6, <1>8, <2>1 DEF JobUpdated
<1>9. CASE r.answer = "ok" /\ r.kind \in {"cancel", "show"}
  <2>1. /\ shown' = View(r.job, r.status) /\ ending' = ending
        /\ IF Active(r.status) THEN SetCurrentJob(r.job) /\ SchedulePoll
           ELSE SetCurrentJob(None) /\ ClearPoll
    BY <1>9 DEF AnswerArrives
  <2>2. r.job \in Jobs
    BY <1>5, <1>9 DEF OfJob
  <2> QED
    BY <1>6, <2>1, <2>2
<1>10. CASE /\ ~(/\ r.answer = "ok" /\ r.kind \in Creating
               /\ JobUpdated(r.job, r.status) /\ ending' = ending)
            /\ ~(r.answer = "ok" /\ r.kind \in {"cancel", "show"})
  <2>1. SameCurrentJob /\ timer' \in BOOLEAN /\ ending' \in BOOLEAN
    BY <1>4, <1>10 DEF AnswerArrives, Creating, SchedulePoll
  <2>2. \/ shown' = RequestError /\ r.kind = "submit" /\ UNCHANGED <<timer, ending>>
        \/ shown' = shown /\ UNCHANGED <<timer, ending>>
        \/ shown' = shown /\ timer' = (current' # None)
    BY <1>10 DEF AnswerArrives, Creating, SchedulePoll
  <2>3. r.kind = "submit" => ~Mounts(requests)
    BY DEF PageInv, RequestInv, AllSound, Mounts
  <2> QED
    BY <1>7, <2>1, <2>2, <2>3
<1> QED
  BY <1>8, <1>9, <1>10

LEMMA PollFiresPreserves ==
    ASSUME PageInv, PollFires
    PROVE  PageInv'
<1>1. /\ timer' = FALSE /\ Load(requests, current, TRUE, FALSE)
      /\ UNCHANGED <<status, log, stream, seen, current, stored, shown, ending>>
  BY DEF PollFires, server
<1>2. AllSound(requests) /\ current \in Jobs \cup {None} /\ SameCurrentJob
  BY <1>1 DEF PageInv, RequestInv, TypeInv, SameCurrentJob
<1>3. /\ AllSound(requests')
      /\ ~ending /\ current # None => Loads(requests')
  BY <1>1, <1>2, LoadAsks
<1>4. ShownIsFollowed'
  BY <1>1 DEF PageInv, ShownIsFollowed
<1>5. /\ ending' \in BOOLEAN /\ seen' \in [Jobs -> Nat]
      /\ shown' \in [job : Jobs \cup {None}, status : Statuses, outdated : BOOLEAN]
  BY <1>1 DEF PageInv, TypeInv
<1> QED
  BY <1>1, <1>2, <1>3, <1>4, <1>5, KeepsCurrentJob, PageStep DEF RequestInv

LEMMA StreamFailsPreserves ==
    ASSUME PageInv, StreamFails
    PROVE  PageInv'
<1>1. /\ stream' = Closed
      /\ UNCHANGED <<status, log, seen, current, stored, shown, ending, requests>>
      /\ timer' = TRUE \/ timer' = timer
  BY DEF StreamFails, server
<1>2. StreamInv' /\ stream' \in StreamType /\ stream'.job = None
  BY <1>1, ClosedIsStream, NoQueue DEF PageInv
<1>3. OneJobFollowed' /\ ShownIsFollowed' /\ RequestInv'
  BY <1>1, <1>2 DEF PageInv, OneJobFollowed, ShownIsFollowed, RequestInv
<1>4. /\ FollowInv /\ timer' \in BOOLEAN /\ ending' \in BOOLEAN /\ seen' \in [Jobs -> Nat]
      /\ shown' \in [job : Jobs \cup {None}, status : Statuses, outdated : BOOLEAN]
      /\ current' \in Jobs \cup {None}
  BY <1>1 DEF PageInv, TypeInv
<1>5. \/ current' = None \/ ending' \/ timer' \/ Loads(requests')
      \/ stream'.job = None /\ shown' = Empty /\ Mounts(requests')
  BY <1>1, <1>2, <1>4 DEF FollowInv
<1> QED
  BY <1>1, <1>2, <1>3, <1>4, <1>5, PageStep

\* A snapshot shows the job and ends the following of a terminal one; every other event
\* loads the current job.
LEMMA EventArrivesPreserves ==
    ASSUME PageInv, EventArrives
    PROVE  PageInv'
<1>1. PICK event \in EventType : event = Head(stream.queue)
  <2>1. stream.queue \in Seq(EventType) /\ stream.queue # <<>>
    BY DEF EventArrives, PageInv, TypeInv, StreamType
  <2> QED
    BY <2>1, TailOfQueue
<1>2. /\ stream.open /\ stream.queue # <<>> /\ UNCHANGED <<status, log, ending>>
      /\ seen' = IF event.id = 0 THEN seen ELSE [seen EXCEPT ![stream.job] = event.id]
  BY <1>1 DEF EventArrives, server
<1>3. /\ stream.job \in Jobs /\ current = stream.job /\ None \notin Jobs
      /\ stream.job # None
  BY <1>2, ConstantsAssumption DEF PageInv, StreamInv, TypeInv, StreamType, OneJobFollowed
<1>4. /\ FollowInv /\ ShownIsFollowed /\ AllSound(requests)
      /\ shown \in [job : Jobs \cup {None}, status : Statuses, outdated : BOOLEAN]
      /\ timer \in BOOLEAN /\ ending \in BOOLEAN /\ current \in Jobs \cup {None}
      /\ event.status \in Statuses
  BY DEF PageInv, TypeInv, RequestInv, EventType
<1>9. /\ event.id <= Len(log[stream.job]) /\ event.id \in Nat
      /\ event.id = 0 <=> event.kind = "snapshot"
  <2>1. stream.queue \in Seq(EventType)
    BY DEF PageInv, TypeInv, StreamType
  <2>2. event = stream.queue[1] /\ 1 \in DOMAIN stream.queue
    BY <1>1, <1>2, <2>1, TailOfQueue, EventsOfQueue
  <2>3. QueueInv
    BY <1>2 DEF PageInv, StreamInv
  <2> QED
    BY <2>2, <2>3 DEF QueueInv, EventType
<1>5. ending \/ timer \/ Loads(requests)
  BY <1>3, <1>4 DEF FollowInv
<1>6. ASSUME event.kind # "snapshot"
      PROVE  /\ AllSound(requests') /\ (ending \/ Loads(requests'))
             /\ UNCHANGED <<shown, current, stored, timer>>
  <2>1. Load(requests, current, TRUE, FALSE) /\ UNCHANGED <<shown, current, stored, timer>>
    BY <1>1, <1>6 DEF EventArrives
  <2> QED
    BY <1>3, <1>4, <2>1, LoadAsks
<1>7. CASE event.kind = "snapshot" /\ ~Active(event.status)
  <2>1. /\ SetCurrentJob(None) /\ timer' = FALSE /\ requests' = requests
        /\ shown' = View(stream.job, event.status)
    BY <1>1, <1>7 DEF EventArrives, ClearPoll
  <2>2. seen' = seen
    BY <1>2, <1>7, <1>9
  <2>3. /\ shown' \in [job : Jobs \cup {None}, status : Statuses, outdated : BOOLEAN]
        /\ shown'.status = event.status
    BY <1>3, <1>4, <2>1, ViewIsView
  <2>4. ShownIsFollowed'
    BY <1>7, <2>3 DEF ShownIsFollowed
  <2>5. seen' \in [Jobs -> Nat] /\ RequestInv'
    BY <2>1, <2>2 DEF PageInv, TypeInv, RequestInv
  <2> QED
    BY <1>2, <1>4, <2>1, <2>2, <2>3, <2>4, <2>5, ChangesCurrentJob, PageStep
<1>8. CASE event.kind = "final"
  <2>1. stream' = Closed
    BY <1>1, <1>8 DEF EventArrives
  <2>2. seen' \in [Jobs -> Nat] /\ \A j \in Jobs : seen'[j] <= Len(log[j])
    <3>1. seen \in [Jobs -> Nat] /\ \A j \in Jobs : seen[j] <= Len(log[j])
      BY DEF PageInv, TypeInv, StreamInv
    <3> QED
      BY <1>2, <1>3, <1>9, <3>1
  <2>3. StreamInv' /\ stream' \in StreamType /\ stream'.job = None
    BY <1>2, <2>1, <2>2, ClosedIsStream, NoQueue DEF PageInv
  <2>4. OneJobFollowed' /\ ShownIsFollowed'
    BY <1>6, <1>8, <2>3 DEF PageInv, OneJobFollowed, ShownIsFollowed
  <2> QED
    BY <1>2, <1>4, <1>6, <1>8, <2>2, <2>3, <2>4, PageStep DEF RequestInv
<1>10. CASE event.kind # "final" /\ (event.kind = "snapshot" => Active(event.status))
  <2>1. Consumes
    BY <1>1, <1>2, <1>10 DEF EventArrives, Consumes
  <2>2. /\ StreamInv' /\ stream' \in StreamType /\ stream'.job = stream.job
        /\ seen' \in [Jobs -> Nat]
    BY <2>1, ConsumesEvent DEF PageInv
  <2>3. UNCHANGED <<current, stored, timer>>
    BY <1>1, <1>10 DEF EventArrives
  <2>4. OneJobFollowed'
    BY <2>2, <2>3 DEF PageInv, OneJobFollowed
  <2>5. CASE event.kind = "snapshot"
    <3>1. shown' = View(stream.job, event.status) /\ requests' = requests
      BY <1>1, <2>5 DEF EventArrives
    <3>2. shown' \in [job : Jobs \cup {None}, status : Statuses, outdated : BOOLEAN]
      BY <1>3, <1>4, <3>1, ViewIsView
    <3>3. ShownIsFollowed'
      BY <1>3, <2>3 DEF ShownIsFollowed
    <3> QED
      BY <1>2, <1>4, <1>5, <2>2, <2>3, <2>4, <3>1, <3>2, <3>3, PageStep DEF RequestInv
  <2>6. CASE event.kind # "snapshot"
    <3>1. ShownIsFollowed'
      BY <1>4, <1>6, <2>6 DEF ShownIsFollowed
    <3> QED
      BY <1>2, <1>4, <1>6, <2>2, <2>3, <2>4, <2>6, <3>1, PageStep DEF RequestInv
  <2> QED
    BY <2>5, <2>6
<1> QED
  BY <1>7, <1>8, <1>10

-----------------------------------------------------------------------------
(* The theorems *)

LEMMA PageInit == Init => PageInv
<1> SUFFICES ASSUME Init
             PROVE  PageInv
  OBVIOUS
<1>1. /\ Statuses = {"absent", "active", "awaiting", "over"}
      /\ status \in [Jobs -> {"absent", "active"}] /\ log = [j \in Jobs |-> <<>>]
      /\ seen = [j \in Jobs |-> 0] /\ stream = Closed /\ current \in Jobs \cup {None}
      /\ stored = current /\ shown = Empty /\ timer = FALSE /\ ending = FALSE
      /\ requests = {Mounting}
  BY DEF Init, Statuses
<1>2. TypeInv
  <2>1. \A j \in Jobs : log[j] \in Seq(BOOLEAN)
    BY <1>1
  <2> QED
    BY <1>1, <2>1, EmptyIsView, ClosedIsStream DEF TypeInv
<1>3. RequestInv /\ Mounts(requests)
  BY <1>1, MountingIsSound DEF RequestInv, AllSound, Mounts, MountsPage, Mounting, Request
<1>4. StreamInv
  <2>1. \A j \in Jobs : Len(log[j]) = 0 /\ seen[j] = 0
    BY <1>1
  <2>2. stream.queue = <<>> /\ ~stream.open /\ stream.job = None
    BY <1>1, ClosedIsStream
  <2>3. Len(<<>>) = 0 /\ 0 <= QueueLimit /\ 0 <= 0
    BY ConstantsAssumption
  <2>4. Len(stream.queue) <= QueueLimit
    BY <2>2, <2>3, Zenon
  <2> QED
    BY <2>1, <2>2, <2>4 DEF StreamInv
<1>5. FollowInv /\ OneJobFollowed /\ ShownIsFollowed
  BY <1>1, <1>3, ClosedIsStream, EmptyIsView DEF FollowInv, OneJobFollowed, ShownIsFollowed
<1> QED
  BY <1>2, <1>3, <1>4, <1>5 DEF PageInv

LEMMA PageUnchanged ==
    ASSUME PageInv, UNCHANGED vars
    PROVE  PageInv'
<1>1. UNCHANGED <<server, stream, page, requests>>
  BY DEF vars
<1>2. RequestInv'
  BY <1>1 DEF PageInv, RequestInv
<1> QED
  BY <1>1, <1>2, RequestsGrow

LEMMA PageIsInductive == PageInv /\ [Next]_vars => PageInv'
<1> SUFFICES ASSUME PageInv, [Next]_vars
             PROVE  PageInv'
  OBVIOUS
<1>1. CASE Clicks
  BY <1>1, ClicksPreserve, BecomesVisiblePreserves, LeavesJobPreserves, ReloadAppPreserves
     DEF Clicks
<1>2. CASE Server
  BY <1>2, JobChangesPreserves, SubscribePreserves, ServePreserves, RefusePreserves DEF Server
<1>3. CASE Page
  BY <1>3, LoadCurrentJobPreserves, HealthTellsPreserves, AnswerArrivesPreserves,
     PollFiresPreserves, EventArrivesPreserves, StreamFailsPreserves DEF Page
<1>4. CASE UNCHANGED vars
  BY <1>4, PageUnchanged
<1> QED
  BY <1>1, <1>2, <1>3, <1>4 DEF Next

LEMMA PageInvHolds == Spec => []PageInv
<1> QED
  BY PageInit, PageIsInductive, PTL DEF Spec

\* Over all the paths that change them, the current job, the stream and what the storage
\* would bring back after a reload stay together (App.vue 79-89).
THEOREM OneJobIsFollowed == Spec => []OneJobFollowed
<1>1. PageInv => OneJobFollowed
  BY DEF PageInv
<1> QED
  BY <1>1, PageInvHolds, PTL

\* Whatever failed or came late, a current job has a poll armed or a request under way
\* that will arm it, until the session ends (App.vue 127-309).
THEOREM CurrentJobIsFollowed == Spec => []CurrentIsFollowed
<1>1. PageInv => CurrentIsFollowed
  BY DEF PageInv, FollowInv, CurrentIsFollowed, Loads, Mounts, MountsPage
<1> QED
  BY <1>1, PageInvHolds, PTL

\* An active job on the page is not frozen there: there is a current job that is followed,
\* except for an answer that was for a job no longer current (App.vue 194-310).
THEOREM ShownJobIsFollowed == Spec => []ShownIsFollowed
<1>1. PageInv => ShownIsFollowed
  BY DEF PageInv
<1> QED
  BY <1>1, PageInvHolds, PTL

\* Whatever the sizes of the history and of a subscriber's queue, the history the smaller:
\* the queue keeps within its size, and every event since the subscription was seen, is in
\* the queue, or has a gap behind it that will be noticed (web_jobs.py 993-1021, 2375-2399).
THEOREM LossIsAlwaysNoticed == Spec => []LossIsNoticed
<1>1. PageInv => LossIsNoticed
  BY StreamInvNoticesLoss DEF PageInv
<1> QED
  BY <1>1, PageInvHolds, PTL

=============================================================================
