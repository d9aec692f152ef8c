----------------------- MODULE ResumableStreamProofs -----------------------
(***************************************************************************)
(* No gap is silent, for any number of events, cuts, crashes and restarts,  *)
(* any capacity of the log and of the bus, and any limit a server can mean: *)
(* with one publisher on the topic.  Two publishers may send in the other   *)
(* order than they appended, and the run stream_gap shows what comes of it. *)
(* Types, which follow, are kept by any number of publishers.  The last     *)
(* part is about the order of what is delivered.                            *)
(***************************************************************************)
EXTENDS ResumableStream, LogStateProofs, TLAPS

\* What the theorems are about: one publisher on the topic, no restart under a
\* handler that has not subscribed yet, and a limit below usize::MAX.
Setting == /\ \E p : Publishers = {p}
           /\ ~RestartRaces
           /\ Limit \in Nat /\ Limit < UsizeMax

CursorSet == [gen : Nat, seq : Nat]
FrameSet  == [kind : {"resync", "snapshot", "event"}, cursor : CursorSet, event : Nat]
Message   == [cursor : CursorSet, event : Nat]
LogType   == [topics : [{} -> Topic] \cup [{T} -> Topic], lastSeq : Nat, gapFloor : Nat]

LogOK(log) ==
  /\ log.gapFloor <= log.lastSeq
  /\ IF T \in DOMAIN log.topics THEN Holds(log.topics[T], 1..log.lastSeq)
                                ELSE log.lastSeq = 0

At(names, g, s) == names[[gen |-> g, seq |-> s]]

\* The cursor names the event, or there is none.
Names(names, cursor, event) ==
  cursor = None \/ (cursor \in DOMAIN names /\ names[cursor] = event)

Pending(who, e) == \E p \in Publishers : who[p] # Idle /\ who[p].event = e

OnBus(sent, pos, e) == \E i \in pos..Len(sent) : sent[i].event = e

Tells(f, e) == \/ f.kind = "event" /\ f.event = e
               \/ f.kind = "snapshot" /\ e <= f.event

\* Once the first k frames on the wire are read, the client knows e.
Told(known, frames, k, e) == e \in known \/ \E i \in 1..k : Tells(frames[i], e)

Covered(known, frames, replay, e) ==
  Told(known, frames, Len(frames), e) \/ \E i \in DOMAIN replay : replay[i].event = e

-----------------------------------------------------------------------------
(* The inductive invariant *)

LogsOK ==
  /\ logs \in Seq(LogType) /\ logs # << >>
  /\ \A g \in 1..Generation : LogOK(logs[g])

PayloadOK ==
  /\ happened \in Nat
  /\ DOMAIN payload = {None} \cup {c \in [gen : 1..Generation, seq : Nat \ {0}] :
                                     c.seq <= logs[c.gen].lastSeq}
  /\ \A c \in DOMAIN payload : payload[c] \in 0..happened
  /\ \A c \in DOMAIN payload : payload[c] = 0 <=> c = None

\* Above its floor a log has every event: cursors there are as far apart as
\* the events they name, and the current log has the newest.
FloorTells ==
  /\ \A g \in 1..Generation : \A s \in logs[g].gapFloor + 1..logs[g].lastSeq :
       At(payload, g, s) = At(payload, g, logs[g].lastSeq) - (logs[g].lastSeq - s)
  /\ LET log == logs[Generation]
     IN  log.gapFloor < log.lastSeq =>
           \A e \in At(payload, Generation, log.lastSeq) + 1..happened :
             \E p \in Publishers : pubs[p].at = "mark" /\ pubs[p].event = e

PubType == {Idle} \cup [at : {"mark"}, cursor : {None}, event : Nat]
                  \cup [at : {"send"}, cursor : CursorSet, event : Nat]

PubsOK ==
  /\ pubs \in [Publishers -> PubType]
  /\ \A p \in Publishers : pubs[p] # Idle =>
       /\ pubs[p].event = happened /\ happened >= 1
       /\ Names(payload, pubs[p].cursor, pubs[p].event)
       /\ \A i \in 1..Len(bus) : bus[i].event < happened

BusOK ==
  /\ bus \in Seq(Message)
  /\ \A i \in 1..Len(bus) : bus[i].event \in 1..happened
                            /\ Names(payload, bus[i].cursor, bus[i].event)
  /\ \A i, j \in 1..Len(bus) : i < j => bus[i].event < bus[j].event

FrameOK(names, last, f) == /\ f \in FrameSet /\ f.event <= last
                           /\ f.kind = "event" => f.event >= 1
                           /\ Names(names, f.cursor, f.event)

WireOK ==
  /\ wire \in Seq(FrameSet)
  /\ \A i \in 1..Len(wire) : FrameOK(payload, happened, wire[i])
  /\ \A i \in 1..Len(wire) : wire[i].kind = "event" /\ wire[i].cursor # None =>
       \A e \in 1..wire[i].event : Told(client.known, wire, i, e)

ClientOK ==
  /\ client \in [up : BOOLEAN, cursor : CursorSet, known : SUBSET Nat, got : SUBSET Nat]
  /\ client.known \subseteq 1..happened
  /\ client.cursor \in DOMAIN payload
  /\ CursorStandsForPrefix
  /\ ~client.up => conn = Closed /\ wire = << >>

Opening ==
  /\ conn.resume = client.cursor /\ wire = << >>
  /\ conn.gen \in 1..Generation

Accepted ==
  /\ conn \in [at : {"accepted"}, gen : Nat, resume : CursorSet]
  /\ Opening /\ conn.gen = Generation

\* What the log read will not tell comes by the bus.
Subscribed ==
  /\ conn \in [at : {"subscribed"}, gen : Nat, resume : CursorSet, pos : Nat \ {0}]
  /\ Opening /\ conn.pos <= Len(bus) + 1
  /\ LET log == logs[conn.gen]
     IN  log.gapFloor < log.lastSeq =>
           \A e \in At(payload, conn.gen, log.lastSeq) + 1..happened :
             OnBus(bus, conn.pos, e) \/ Pending(pubs, e)

Streaming ==
  /\ conn = [at |-> "streaming", pos |-> conn.pos, replay |-> conn.replay, seen |-> conn.seen]
  /\ conn.pos \in Nat \ {0} /\ conn.pos <= Len(bus) + 1
  /\ DOMAIN conn.replay \subseteq Nat
  /\ \A i \in DOMAIN conn.replay :
       LET f == conn.replay[i]
       IN  /\ FrameOK(payload, happened, f) /\ f.kind = "event"
           /\ \A e \in 1..f.event :
                \/ Told(client.known, wire, Len(wire), e)
                \/ \E j \in DOMAIN conn.replay : j <= i /\ conn.replay[j].event = e
  /\ \A c \in conn.seen : c \in DOMAIN payload
                         /\ (c # None => Covered(client.known, wire, conn.replay, payload[c]))
  /\ \A e \in 1..happened : \/ Covered(client.known, wire, conn.replay, e)
                           \/ OnBus(bus, conn.pos, e) \/ Pending(pubs, e)

ConnOK == \/ conn = Closed \/ conn = [at |-> "ended"]
          \/ Accepted \/ Subscribed \/ Streaming

IInv == LogsOK /\ PayloadOK /\ FloorTells /\ PubsOK /\ BusOK /\ WireOK /\ ClientOK /\ ConnOK

-----------------------------------------------------------------------------
(* Logs *)

LEMMA LogTypeFields ==
  ASSUME NEW log \in LogType
  PROVE  /\ log = [topics |-> log.topics, lastSeq |-> log.lastSeq, gapFloor |-> log.gapFloor]
         /\ log.lastSeq \in Nat /\ log.gapFloor \in Nat
         /\ log.topics \in [{} -> Topic] \cup [{T} -> Topic]
         /\ T \in DOMAIN log.topics => log.topics \in [{T} -> Topic] /\ log.topics[T] \in Topic
         /\ T \notin DOMAIN log.topics => DOMAIN log.topics = {}
  BY DEF LogType

LEMMA NewLogOK ==
  NewLog \in LogType /\ LogOK(NewLog) /\ NewLog.lastSeq = 0 /\ NewLog.gapFloor = 0
  BY DEF NewLog, LogType, LogOK

LEMMA AppendOK ==
  ASSUME NEW log \in LogType, LogOK(log)
  PROVE  LET new == AppendTo(log, T, Now)
         IN  /\ new \in LogType /\ LogOK(new)
             /\ new.lastSeq = log.lastSeq + 1 /\ new.gapFloor = log.gapFloor
<1> DEFINE seq  == log.lastSeq + 1
           P    == 1..log.lastSeq
           old  == TopicOf(log, T)
           top  == TrimTo(Push(old, seq, Now), Now)
           tops == [u \in DOMAIN log.topics \cup {T} |-> IF u = T THEN top ELSE log.topics[u]]
           new  == AppendTo(log, T, Now)
<1>1. /\ log.lastSeq \in Nat /\ seq \in Nat /\ seq > 0 /\ Now \in Nat
      /\ P \subseteq Nat /\ P \cup {seq} \subseteq Nat /\ P \cup {seq} = 1..seq
      /\ \A s \in P : s < seq
  BY LogTypeFields DEF Now
<1>2. old \in Topic /\ Holds(old, P)
  <2>1. CASE T \in DOMAIN log.topics
    BY <2>1, LogTypeFields DEF TopicOf, LogOK
  <2>2. CASE T \notin DOMAIN log.topics
    <3>1. P = {}
      BY <2>2 DEF LogOK
    <3>2. QED
      BY <2>2, <3>1, NewTopicHolds DEF TopicOf
  <2>3. QED
    BY <2>1, <2>2
<1>3. Push(old, seq, Now) \in Topic /\ Holds(Push(old, seq, Now), P \cup {seq})
  BY <1>1, <1>2, PushHolds
<1>4. top \in Topic /\ Holds(top, 1..seq)
  BY <1>1, <1>3, TrimHolds
<1>5. new = [log EXCEPT !.lastSeq = seq, !.topics = tops]
  BY DEF AppendTo
<1> HIDE DEF top, seq, new
<1>6. tops \in [{T} -> Topic] /\ tops[T] = top
  BY <1>4, LogTypeFields
<1> HIDE DEF tops
<1>7. new = [topics |-> tops, lastSeq |-> seq, gapFloor |-> log.gapFloor]
  <2>1. log = [topics |-> log.topics, lastSeq |-> log.lastSeq, gapFloor |-> log.gapFloor]
    BY LogTypeFields
  <2>2. QED
    BY <1>5, <2>1
<1>8. new \in LogType
  BY <1>1, <1>6, <1>7, LogTypeFields DEF LogType
<1>9. log.gapFloor <= seq
  BY <1>1, LogTypeFields DEF LogOK, seq
<1>10. LogOK(new)
  BY <1>4, <1>6, <1>7, <1>9 DEF LogOK
<1>11. QED
  BY <1>7, <1>8, <1>10 DEF new, seq

LEMMA SinceOK ==
  ASSUME NEW log \in LogType, LogOK(log), NEW seq \in Nat
  PROVE  LET new == SinceLog(log, T, seq, Now)
         IN  /\ new \in LogType /\ LogOK(new)
             /\ new.lastSeq = log.lastSeq /\ new.gapFloor = log.gapFloor
<1> DEFINE top == TrimTo(log.topics[T], Now)
           new == SinceLog(log, T, seq, Now)
<1>1. CASE Issued(log, seq) /\ T \in DOMAIN log.topics
  <2>1. log.topics[T] \in Topic /\ Holds(log.topics[T], 1..log.lastSeq)
        /\ 1..log.lastSeq \subseteq Nat /\ Now \in Nat
    BY <1>1, LogTypeFields DEF LogOK, Now
  <2>2. top \in Topic /\ Holds(top, 1..log.lastSeq)
    BY <2>1, TrimHolds
  <2>3. new = [log EXCEPT !.topics = [log.topics EXCEPT ![T] = top]]
    BY <1>1 DEF SinceLog
  <2> HIDE DEF top, new
  <2>4. new = [topics |-> [log.topics EXCEPT ![T] = top], lastSeq |-> log.lastSeq,
               gapFloor |-> log.gapFloor]
    BY <2>3, LogTypeFields
  <2>5. [log.topics EXCEPT ![T] = top] \in [{T} -> Topic]
        /\ [log.topics EXCEPT ![T] = top][T] = top
    BY <1>1, <2>2, LogTypeFields
  <2>6. QED
    BY <2>2, <2>4, <2>5, LogTypeFields DEF LogType, LogOK, new
<1>2. CASE ~ (Issued(log, seq) /\ T \in DOMAIN log.topics)
  BY <1>2 DEF SinceLog
<1>3. QED
  BY <1>1, <1>2

LEMMA MarkOK ==
  ASSUME NEW log \in LogType, LogOK(log)
  PROVE  LET new == MarkGapIn(log)
         IN  /\ new \in LogType /\ LogOK(new)
             /\ new.lastSeq = log.lastSeq /\ new.gapFloor = log.lastSeq
<1>1. MarkGapIn(log) = [topics |-> log.topics, lastSeq |-> log.lastSeq,
                        gapFloor |-> log.lastSeq]
  BY LogTypeFields DEF MarkGapIn
<1>2. QED
  BY <1>1, LogTypeFields DEF LogType, LogOK

\* An answer with events lists the sequences after the cursor, all above the floor.
LEMMA ReplyOK ==
  ASSUME NEW log \in LogType, LogOK(log), NEW seq \in Nat, Setting
  PROVE  LET r == SinceReply(log, T, seq, Limit, Now)
         IN  /\ DOMAIN r.replay \subseteq Nat
             /\ r.kind = "events" =>
                  /\ log.gapFloor < seq /\ seq \in 1..log.lastSeq
                  /\ \A i, j \in DOMAIN r.replay : i < j => r.replay[i] < r.replay[j]
                  /\ {r.replay[i] : i \in DOMAIN r.replay} = seq + 1..log.lastSeq
             /\ r.kind # "events" => DOMAIN r.replay = {}
<1> DEFINE r == SinceReply(log, T, seq, Limit, Now)
<1>1. \A e : DOMAIN Expired(e).replay = {} /\ Expired(e).kind # "events"
  BY DEF Expired
<1>2. DOMAIN Unknown.replay = {} /\ Unknown.kind # "events"
  BY DEF Unknown
<1>3. CASE ~Issued(log, seq)
  BY <1>2, <1>3 DEF SinceReply
<1>4. CASE Issued(log, seq) /\ T \in DOMAIN log.topics
  <2> DEFINE top == TrimTo(log.topics[T], Now)
  <2>1. top \in Topic /\ Holds(top, 1..log.lastSeq)
    <3>1. log.topics[T] \in Topic /\ Holds(log.topics[T], 1..log.lastSeq)
          /\ 1..log.lastSeq \subseteq Nat /\ Now \in Nat
      BY <1>4, LogTypeFields DEF LogOK, Now
    <3>2. QED
      BY <3>1, TrimHolds
  <2>2. r = RingReply(top, log.gapFloor, seq, Limit)
    BY <1>4 DEF SinceReply
  <2>3. seq \in 1..log.lastSeq
    BY <1>4, LogTypeFields DEF Issued
  <2> HIDE DEF top
  <2>4. CASE r.kind = "events"
    <3>1. /\ log.gapFloor < seq /\ ListsAfter(r.replay, 1..log.lastSeq, seq, Limit)
      <4>1. 1..log.lastSeq \subseteq Nat /\ log.gapFloor \in Nat /\ Limit \in Nat /\ Limit < UsizeMax
        BY LogTypeFields DEF Setting
      <4>2. QED
        BY <2>1, <2>2, <2>4, <4>1, ReplyIsExact
    <3>2. {s \in 1..log.lastSeq : s > seq} = seq + 1..log.lastSeq
      BY <2>3, LogTypeFields
    <3>3. DOMAIN r.replay \subseteq Nat
      <4> DEFINE out == Taken(After(top.ring, seq), Limit)
      <4>1. r.replay = out
        BY <2>2, <2>4 DEF RingReply, Events, Expired
      <4>2. DOMAIN top.ring = 1..Len(top.ring) /\ Len(top.ring) \in Nat
        BY <2>1, LenProperties DEF Topic
      <4>3. DOMAIN out \subseteq Nat
        BY <4>2 DEF Taken, After
      <4>4. QED
        BY <4>1, <4>3
    <3>4. QED
      BY <2>3, <2>4, <3>1, <3>2, <3>3 DEF ListsAfter
  <2>5. CASE r.kind # "events"
    <3>1. r \in {Expired(First(After(top.ring, log.gapFloor))),
                 Expired(First(Taken(After(top.ring, seq), Limit)))}
      BY <2>2, <2>5 DEF RingReply, Events
    <3>2. QED
      BY <1>1, <2>5, <3>1
  <2>6. QED
    BY <2>4, <2>5
<1>5. CASE Issued(log, seq) /\ T \notin DOMAIN log.topics
  BY <1>5, LogTypeFields DEF Issued, LogOK
<1>6. QED
  BY <1>3, <1>4, <1>5

-----------------------------------------------------------------------------
(* What the parts of the invariant need of a step *)

LEMMA CursorIsTyped ==
  ASSUME PayloadOK, NEW c \in DOMAIN payload
  PROVE  c \in CursorSet /\ payload[c] \in 0..happened /\ (payload[c] = 0 <=> c = None)
<1>1. None \in CursorSet
  BY DEF None, CursorSet
<1>2. QED
  BY <1>1 DEF PayloadOK, CursorSet

\* A cursor of a log that lies within what it issued names an event.
LEMMA IssuedNames ==
  ASSUME LogsOK, PayloadOK, NEW g \in 1..Generation, NEW s \in 1..logs[g].lastSeq
  PROVE  /\ [gen |-> g, seq |-> s] \in DOMAIN payload
         /\ [gen |-> g, seq |-> s] # None
         /\ At(payload, g, s) \in 1..happened
<1> DEFINE c == [gen |-> g, seq |-> s]
<1>1. logs[g].lastSeq \in Nat /\ g \in Nat \ {0} /\ s \in Nat \ {0}
  BY LogTypeFields DEF LogsOK, Generation
<1>2. c \in [gen : 1..Generation, seq : Nat \ {0}] /\ c.seq <= logs[c.gen].lastSeq
  BY <1>1
<1>3. c \in DOMAIN payload
  BY <1>2 DEF PayloadOK
<1>4. c # None
  BY <1>1 DEF None
<1>5. payload[c] \in 0..happened /\ payload[c] # 0 /\ happened \in Nat
  BY <1>3, <1>4 DEF PayloadOK
<1>6. QED
  BY <1>3, <1>4, <1>5 DEF At

\* What names an event goes on naming it.
Grows == /\ happened' \in Nat /\ happened <= happened'
         /\ \A c \in DOMAIN payload : c \in DOMAIN payload' /\ payload'[c] = payload[c]

LEMMA FramesStay ==
  ASSUME PayloadOK, Grows
  PROVE  /\ \A c, e : Names(payload, c, e) => Names(payload', c, e)
         /\ \A f : FrameOK(payload, happened, f) => FrameOK(payload', happened', f)
<1>1. \A c, e : Names(payload, c, e) => Names(payload', c, e)
  BY DEF Names, Grows
<1>2. ASSUME NEW f, FrameOK(payload, happened, f) PROVE FrameOK(payload', happened', f)
  <2>1. f.event \in Nat /\ happened \in Nat
    BY <1>2 DEF FrameOK, FrameSet, PayloadOK
  <2>2. f.event <= happened'
    BY <1>2, <2>1 DEF FrameOK, Grows
  <2>3. QED
    BY <1>1, <1>2, <2>2 DEF FrameOK
<1>3. QED
  BY <1>1, <1>2

LEMMA ClientStays ==
  ASSUME IInv, Grows, UNCHANGED <<wire, client, conn>>
  PROVE  WireOK' /\ ClientOK'
<1>1. WireOK'
  <2>1. \A i \in 1..Len(wire) : FrameOK(payload', happened', wire[i])
    BY FramesStay DEF IInv, WireOK
  <2>2. QED
    BY <2>1 DEF IInv, WireOK
<1>2. ClientOK'
  <2>1. 1..happened \subseteq 1..happened'
    BY DEF Grows, IInv, PayloadOK
  <2>2. payload'[client.cursor] = payload[client.cursor] /\ client.cursor \in DOMAIN payload'
    BY DEF Grows, IInv, ClientOK
  <2>3. QED
    BY <2>1, <2>2 DEF IInv, ClientOK, CursorStandsForPrefix
<1>3. QED
  BY <1>1, <1>2

\* A connection stands a step of the others that keeps its bus and hides no event:
\* one that was pending is so still, or is the newest on the bus.
LEMMA ConnStays ==
  ASSUME IInv, Grows, UNCHANGED <<wire, client, conn>>,
         Len(bus') \in Nat, Len(bus) <= Len(bus'),
         \A i \in 1..Len(bus) : bus'[i] = bus[i],
         \A e \in 1..happened' : \/ e <= happened /\ ~Pending(pubs, e)
                                 \/ Pending(pubs', e)
                                 \/ Len(bus') = Len(bus) + 1 /\ bus'[Len(bus')].event = e,
         Generation' \in Nat, Generation <= Generation',
         conn.at = "accepted" => Generation' = Generation,
         \A g \in 1..Generation :
            LET old == logs[g]
                new == logs'[g]
            IN  \/ new.lastSeq = old.lastSeq /\ new.gapFloor = old.gapFloor
                \/ ~ (new.gapFloor < new.lastSeq)
                \/ At(payload', g, new.lastSeq) = happened'
  PROVE  ConnOK'
<1>0. /\ Len(bus) \in Nat /\ happened \in Nat /\ happened' \in Nat
      /\ Generation \in Nat
  BY DEF IInv, BusOK, PayloadOK, LogsOK, Generation, Grows
<1>1. CASE conn = Closed \/ conn = [at |-> "ended"]
  BY <1>1 DEF ConnOK
<1>2. CASE Accepted
  <2>1. Accepted'
    BY <1>0, <1>2 DEF Accepted, Opening
  <2>2. QED
    BY <2>1 DEF ConnOK
<1>3. ASSUME conn.pos \in Nat \ {0}, conn.pos <= Len(bus) + 1, NEW e \in 1..happened',
             e <= happened => OnBus(bus, conn.pos, e) \/ Pending(pubs, e)
      PROVE  OnBus(bus', conn.pos, e) \/ Pending(pubs', e)
  <2>1. ASSUME OnBus(bus, conn.pos, e) PROVE OnBus(bus', conn.pos, e)
    <3>1. PICK i \in conn.pos..Len(bus) : bus[i].event = e
      BY <2>1 DEF OnBus
    <3>2. i \in 1..Len(bus) /\ i \in conn.pos..Len(bus')
      BY <1>0, <1>3, <3>1
    <3>3. bus'[i] = bus[i]
      BY <3>2
    <3>4. QED
      BY <3>1, <3>2, <3>3 DEF OnBus
  <2>2. Len(bus') = Len(bus) + 1 /\ bus'[Len(bus')].event = e => OnBus(bus', conn.pos, e)
    BY <1>0, <1>3 DEF OnBus
  <2>3. QED
    BY <1>3, <2>1, <2>2
<1>4. CASE Subscribed
  <2> DEFINE g == conn.gen
             old == logs[g]
             new == logs'[g]
  <2>1. /\ conn.pos \in Nat \ {0} /\ conn.pos <= Len(bus) + 1 /\ g \in 1..Generation
        /\ g \in 1..Generation'
        /\ conn.pos <= Len(bus') + 1
    BY <1>0, <1>4 DEF Subscribed, Opening
  <2>2. ASSUME new.gapFloor < new.lastSeq, NEW e \in At(payload', g, new.lastSeq) + 1..happened'
        PROVE  OnBus(bus', conn.pos, e) \/ Pending(pubs', e)
    <3>1. CASE At(payload', g, new.lastSeq) = happened'
      <4>1. e \in happened' + 1..happened'
        BY <2>2, <3>1
      <4>2. \A n \in Nat : n + 1..n = {}
        OBVIOUS
      <4>3. QED
        BY <1>0, <4>1, <4>2
    <3>2. CASE new.lastSeq = old.lastSeq /\ new.gapFloor = old.gapFloor
      <4>1. old.lastSeq \in Nat /\ old.gapFloor \in Nat /\ old.gapFloor < old.lastSeq
        BY <2>1, <2>2, <3>2, LogTypeFields DEF IInv, LogsOK, Generation
      <4>2. [gen |-> g, seq |-> old.lastSeq] \in DOMAIN payload /\ At(payload, g, old.lastSeq) \in 1..happened
        BY SMTT(30), <2>1, <4>1, IssuedNames DEF IInv
      <4>3. At(payload', g, new.lastSeq) = At(payload, g, old.lastSeq)
        BY <3>2, <4>2 DEF At, Grows
      <4>4. e \in 1..happened'
        BY <1>0, <2>2, <4>2, <4>3
      <4>5. e <= happened => OnBus(bus, conn.pos, e) \/ Pending(pubs, e)
        BY <1>0, <1>4, <2>2, <4>1, <4>2, <4>3, <4>4 DEF Subscribed
      <4>6. QED
        BY <1>3, <2>1, <4>4, <4>5
    <3>3. QED
      BY <2>1, <2>2, <3>1, <3>2
  <2>3. Subscribed'
    BY <1>4, <2>1, <2>2 DEF Subscribed, Opening
  <2>4. QED
    BY <2>3 DEF ConnOK
<1>5. CASE Streaming
  <2>1. conn.pos \in Nat \ {0} /\ conn.pos <= Len(bus) + 1 /\ conn.pos <= Len(bus') + 1
    BY <1>0, <1>5 DEF Streaming
  <2>2. ASSUME NEW i \in DOMAIN conn.replay
        PROVE  LET f == conn.replay[i]
               IN  /\ FrameOK(payload', happened', f) /\ f.kind = "event"
                   /\ \A e \in 1..f.event :
                        \/ Told(client.known, wire, Len(wire), e)
                        \/ \E j \in DOMAIN conn.replay : j <= i /\ conn.replay[j].event = e
    <3>1. FrameOK(payload', happened', conn.replay[i])
      BY <1>5, <2>2, FramesStay DEF Streaming, IInv
    <3>2. QED
      BY <1>5, <3>1 DEF Streaming
  <2>3. \A c \in conn.seen : c \in DOMAIN payload' /\ (c # None => Covered(client.known, wire, conn.replay, payload'[c]))
    BY <1>5 DEF Streaming, Grows
  <2>4. ASSUME NEW e \in 1..happened'
        PROVE \/ Covered(client.known, wire, conn.replay, e)
              \/ OnBus(bus', conn.pos, e) \/ Pending(pubs', e)
    <3>1. e <= happened => e \in 1..happened
      BY <1>0
    <3>2. CASE Covered(client.known, wire, conn.replay, e)
      BY <3>2
    <3>3. CASE ~Covered(client.known, wire, conn.replay, e)
      BY <1>3, <1>5, <2>1, <3>1, <3>3 DEF Streaming
    <3>4. QED
      BY <3>2, <3>3
  <2>5. Streaming'
    BY <1>5, <2>1, <2>2, <2>3, <2>4 DEF Streaming
  <2>6. QED
    BY <2>5 DEF ConnOK
<1>6. QED
  BY <1>1, <1>2, <1>4, <1>5 DEF IInv, ConnOK

-----------------------------------------------------------------------------
(* The publisher *)

LEMMA GenerationType ==
  ASSUME LogsOK
  PROVE  /\ Generation \in Nat \ {0} /\ DOMAIN logs = 1..Generation
         /\ \A g \in 1..Generation : logs[g] \in LogType /\ LogOK(logs[g])
  BY DEF LogsOK, Generation

\* One log changes, the others stay.
LEMMA OneLog ==
  ASSUME LogsOK, NEW g \in 1..Generation, NEW log \in LogType, LogOK(log),
         logs' = [logs EXCEPT ![g] = log]
  PROVE  /\ LogsOK' /\ Generation' = Generation /\ logs'[g] = log
         /\ \A h \in 1..Generation : h # g => logs'[h] = logs[h]
<1>1. logs \in Seq(LogType) /\ Len(logs) \in Nat /\ DOMAIN logs = 1..Len(logs)
      /\ g \in 1..Len(logs)
  BY DEF LogsOK, Generation
<1>2. logs' \in Seq(LogType) /\ Len(logs') = Len(logs)
  BY <1>1, ExceptSeq
<1>3. /\ logs'[g] = log /\ \A h \in 1..Len(logs) : h # g => logs'[h] = logs[h]
  BY <1>1
<1>4. logs' # << >>
  BY <1>1, <1>2
<1>5. \A h \in 1..Len(logs') : LogOK(logs'[h])
  BY <1>2, <1>3 DEF LogsOK, Generation
<1>6. QED
  BY <1>2, <1>3, <1>4, <1>5 DEF LogsOK, Generation

\* The cursors issued are the same as long as no log issues one.
LEMMA NamesKept ==
  ASSUME PayloadOK, Generation' = Generation, UNCHANGED <<payload, happened>>,
         \A g \in 1..Generation : logs'[g].lastSeq = logs[g].lastSeq
  PROVE  PayloadOK'
<1>1. {c \in [gen : 1..Generation, seq : Nat \ {0}] : c.seq <= logs'[c.gen].lastSeq}
        = {c \in [gen : 1..Generation, seq : Nat \ {0}] : c.seq <= logs[c.gen].lastSeq}
  OBVIOUS
<1>2. QED
  BY <1>1 DEF PayloadOK

LEMMA BusStays ==
  ASSUME PayloadOK, BusOK, Grows, bus' = bus
  PROVE  BusOK'
<1>1. ASSUME NEW i \in 1..Len(bus)
      PROVE  bus[i].event \in 1..happened' /\ Names(payload', bus[i].cursor, bus[i].event)
  <2>1. bus[i].event \in 1..happened /\ Names(payload, bus[i].cursor, bus[i].event)
    BY <1>1 DEF BusOK
  <2>2. bus[i].event \in 1..happened'
    BY <2>1 DEF Grows, PayloadOK
  <2>3. Names(payload', bus[i].cursor, bus[i].event)
    BY <2>1, FramesStay
  <2>4. QED
    BY <2>2, <2>3
<1>2. QED
  BY <1>1 DEF BusOK

\* The log issues a cursor no log has issued, and it names the event.
LEMMA AppendIssues ==
  ASSUME LogsOK, PayloadOK, NEW q \in Publishers, PublishAppend(q)
  PROVE  /\ LogsOK' /\ PayloadOK' /\ Grows /\ Generation' = Generation
         /\ \E c \in DOMAIN payload' \cap CursorSet :
              pubs' = [pubs EXCEPT ![q] = [at |-> "send", cursor |-> c, event |-> happened']]
<1> DEFINE G   == Generation
           log == logs[G]
           new == AppendTo(log, T, Now)
           n   == log.lastSeq
           c   == [gen |-> G, seq |-> new.lastSeq]
<1>1. /\ G \in Nat \ {0} /\ G \in 1..G /\ log \in LogType /\ LogOK(log)
      /\ n \in Nat /\ log.gapFloor \in Nat /\ happened \in Nat
      /\ log.gapFloor <= n
  BY GenerationType, LogTypeFields DEF PayloadOK, LogOK
<1>2. /\ new \in LogType /\ LogOK(new)
      /\ new.lastSeq = n + 1 /\ new.gapFloor = log.gapFloor
  BY <1>1, AppendOK
<1>3. /\ pubs[q] = Idle
      /\ logs' = [logs EXCEPT ![G] = new]
      /\ happened' = happened + 1
      /\ payload' = [d \in DOMAIN payload \cup {c} |->
                      IF d = c THEN happened' ELSE payload[d]]
      /\ pubs' = [pubs EXCEPT ![q] = [at |-> "send", cursor |-> c, event |-> happened']]
      /\ UNCHANGED <<bus, conn, wire, client>>
  BY DEF PublishAppend
<1> HIDE DEF new, log, G, n
<1>4. /\ LogsOK' /\ Generation' = G /\ logs'[G] = new
      /\ \A h \in 1..G : h # G => logs'[h] = logs[h]
  BY <1>1, <1>2, <1>3, OneLog DEF G
<1>5. c # None /\ c \in CursorSet /\ c \notin DOMAIN payload
  <2>1. c \notin {d \in [gen : 1..Generation, seq : Nat \ {0}] : d.seq <= logs[d.gen].lastSeq}
    BY <1>1, <1>2 DEF log, n
  <2>2. c # None
    BY <1>1 DEF None
  <2>3. QED
    BY <1>1, <1>2, <2>1, <2>2 DEF PayloadOK, CursorSet
<1>6. /\ DOMAIN payload' = DOMAIN payload \cup {c}
      /\ \A d \in DOMAIN payload : payload'[d] = payload[d]
      /\ payload'[c] = happened'
  BY <1>3, <1>5
<1>7. Grows
  BY <1>1, <1>3, <1>6 DEF Grows
<1>8. PayloadOK'
  <2>1. DOMAIN payload' = {None} \cup {d \in [gen : 1..Generation', seq : Nat \ {0}] :
                                          d.seq <= logs'[d.gen].lastSeq}
    <3> DEFINE old == {d \in [gen : 1..G, seq : Nat \ {0}] : d.seq <= logs[d.gen].lastSeq}
               now == {d \in [gen : 1..G, seq : Nat \ {0}] : d.seq <= logs'[d.gen].lastSeq}
    <3>1. DOMAIN payload = {None} \cup old
      BY DEF PayloadOK, G
    <3>2. ASSUME NEW d \in now PROVE d \in old \cup {c}
      <4>1. CASE d.gen = G
        <5>1. d.seq \in Nat \ {0} /\ d.seq <= n + 1
          BY <1>2, <1>4, <4>1
        <5>2. CASE d.seq = n + 1
          BY <1>2, <4>1, <5>2
        <5>3. CASE d.seq # n + 1
          <6>1. d.seq <= n
            BY <1>1, <5>1, <5>3
          <6>2. QED
            BY <4>1, <6>1 DEF log, n
        <5>4. QED
          BY <5>2, <5>3
      <4>2. CASE d.gen # G
        BY <1>4, <4>2
      <4>3. QED
        BY <4>1, <4>2
    <3>3. ASSUME NEW d \in old PROVE d \in now
      <4>1. CASE d.gen = G
        <5>1. d.seq \in Nat /\ d.seq <= n
          BY <4>1 DEF log, n
        <5>2. d.seq <= n + 1
          BY <1>1, <5>1
        <5>3. QED
          BY <1>2, <1>4, <4>1, <5>2
      <4>2. CASE d.gen # G
        BY <1>4, <4>2
      <4>3. QED
        BY <4>1, <4>2
    <3>4. c \in now
      BY <1>1, <1>2, <1>4
    <3>5. now = old \cup {c}
      BY <3>2, <3>3, <3>4
    <3>6. QED
      BY <1>4, <1>6, <3>1, <3>5
  <2>2. ASSUME NEW d \in DOMAIN payload'
        PROVE  payload'[d] \in 0..happened' /\ (payload'[d] = 0 <=> d = None)
    <3>1. CASE d \in DOMAIN payload
      BY SMTT(30), <1>1, <1>3, <1>6, <3>1 DEF PayloadOK
    <3>2. CASE d = c
      BY <1>1, <1>3, <1>5, <1>6, <3>2
    <3>3. QED
      BY <1>6, <3>1, <3>2
  <2>3. QED
    BY SMTT(30), <1>1, <1>3, <2>1, <2>2 DEF PayloadOK
<1> HIDE DEF c
<1>9. c \in DOMAIN payload' \cap CursorSet
  BY <1>5, <1>6
<1>10. QED
  BY <1>3, <1>4, <1>7, <1>8, <1>9 DEF G

LEMMA AppendInv ==
  ASSUME Setting, IInv, NEW q \in Publishers, PublishAppend(q)
  PROVE  IInv'
<1> DEFINE G   == Generation
           log == logs[G]
           new == AppendTo(log, T, Now)
           n   == log.lastSeq
           c   == [gen |-> G, seq |-> new.lastSeq]
<1> USE DEF IInv
<1>0. Publishers = {q}
  BY DEF Setting
<1>1. /\ G \in Nat \ {0} /\ G \in 1..G /\ log \in LogType /\ LogOK(log)
      /\ n \in Nat /\ log.gapFloor \in Nat /\ happened \in Nat
      /\ log.gapFloor <= n
  BY GenerationType, LogTypeFields DEF PayloadOK, LogOK
<1>2. /\ new \in LogType /\ LogOK(new)
      /\ new.lastSeq = n + 1 /\ new.gapFloor = log.gapFloor
  BY <1>1, AppendOK
<1>3. /\ pubs[q] = Idle
      /\ logs' = [logs EXCEPT ![G] = new]
      /\ happened' = happened + 1
      /\ payload' = [d \in DOMAIN payload \cup {c} |->
                      IF d = c THEN happened' ELSE payload[d]]
      /\ pubs' = [pubs EXCEPT ![q] = [at |-> "send", cursor |-> c, event |-> happened']]
      /\ UNCHANGED <<bus, conn, wire, client>>
  BY DEF PublishAppend
<1> HIDE DEF new, log, G, n
<1>4. /\ LogsOK' /\ Generation' = G /\ logs'[G] = new
      /\ \A h \in 1..G : h # G => logs'[h] = logs[h]
  BY <1>1, <1>2, <1>3, OneLog DEF G
<1>5. c # None /\ c \in CursorSet /\ c \notin DOMAIN payload
  <2>1. c \notin {d \in [gen : 1..Generation, seq : Nat \ {0}] : d.seq <= logs[d.gen].lastSeq}
    BY <1>1, <1>2 DEF log, n
  <2>2. c # None
    BY <1>1 DEF None
  <2>3. QED
    BY <1>1, <1>2, <2>1, <2>2 DEF PayloadOK, CursorSet
<1>6. /\ DOMAIN payload' = DOMAIN payload \cup {c}
      /\ \A d \in DOMAIN payload : payload'[d] = payload[d]
      /\ payload'[c] = happened'
  BY <1>3, <1>5
<1>7. Grows
  BY <1>1, <1>3, <1>6 DEF Grows
<1>8. PayloadOK'
  BY AppendIssues
<1>9. FloorTells'
  <2>1. At(payload', G, n + 1) = happened'
    BY <1>2, <1>6 DEF At
  <2>2. ASSUME NEW h \in 1..G, NEW s \in logs[h].gapFloor + 1..logs[h].lastSeq
        PROVE  /\ At(payload', h, s) = At(payload, h, s)
               /\ At(payload', h, logs[h].lastSeq) = At(payload, h, logs[h].lastSeq)
    <3>1. logs[h].lastSeq \in Nat /\ logs[h].gapFloor \in Nat
      BY <2>2, GenerationType, LogTypeFields DEF G
    <3>2. s \in 1..logs[h].lastSeq /\ logs[h].lastSeq \in 1..logs[h].lastSeq
      BY <2>2, <3>1
    <3>3. QED
      BY <1>6, <3>2, IssuedNames DEF At, G
  <2>3. log.gapFloor < n => At(payload, G, n) = happened
    <3>1. SUFFICES ASSUME log.gapFloor < n PROVE At(payload, G, n) = happened
      OBVIOUS
    <3>2. n \in 1..n
      BY <1>1, <3>1
    <3>3. At(payload, G, n) \in 1..happened
      BY <1>1, <3>2, IssuedNames DEF G, n, log
    <3>4. happened \notin At(payload, G, n) + 1..happened
      BY <1>0, <1>3, <3>1 DEF FloorTells, Idle, G, n, log
    <3>5. QED
      BY <1>1, <3>3, <3>4
  <2>4. ASSUME NEW h \in 1..G, NEW s \in logs'[h].gapFloor + 1..logs'[h].lastSeq
        PROVE  At(payload', h, s) = At(payload', h, logs'[h].lastSeq) - (logs'[h].lastSeq - s)
    <3>1. CASE h # G
      <4>1. logs'[h] = logs[h]
        BY <1>4, <3>1
      <4>2. QED
        BY <2>2, <2>4, <4>1 DEF FloorTells, G
    <3>2. CASE h = G
      <4>1. s \in log.gapFloor + 1..n + 1
            /\ logs'[h].lastSeq = n + 1 /\ logs'[h].gapFloor = log.gapFloor
        BY <1>2, <1>4, <2>4, <3>2
      <4>2. CASE s = n + 1
        <5>1. happened' = happened' - (n + 1 - (n + 1))
          BY <1>1, <1>3
        <5>2. At(payload', h, s) = happened' /\ At(payload', h, logs'[h].lastSeq) = happened'
              /\ logs'[h].lastSeq - s = n + 1 - (n + 1)
          BY <1>1, <2>1, <3>2, <4>1, <4>2
        <5>3. QED
          BY <5>1, <5>2
      <4>3. CASE s # n + 1
        <5>1. s \in log.gapFloor + 1..n /\ log.gapFloor < n
          BY <1>1, <4>1, <4>3
        <5>2. At(payload, G, s) = happened - (n - s)
          BY <1>1, <2>3, <5>1 DEF FloorTells, G, n, log
        <5>3. At(payload', G, s) = happened - (n - s)
          BY <1>1, <2>2, <5>1, <5>2 DEF n, log
        <5>4. happened - (n - s) = happened + 1 - (n + 1 - s)
          BY <1>1, <5>1
        <5>5. At(payload', h, logs'[h].lastSeq) = happened + 1
              /\ logs'[h].lastSeq - s = n + 1 - s
          BY <1>1, <1>3, <2>1, <3>2, <4>1
        <5>6. QED
          BY <1>1, <3>2, <5>1, <5>3, <5>4, <5>5
      <4>4. QED
        BY <4>2, <4>3
    <3>3. QED
      BY <3>1, <3>2
  <2>5. At(payload', G, logs'[G].lastSeq) + 1..happened' = {}
    <3>1. At(payload', G, logs'[G].lastSeq) = happened'
      BY <1>2, <1>4, <2>1
    <3>2. happened' + 1..happened' = {}
      BY <1>1, <1>3
    <3>3. QED
      BY <3>1, <3>2
  <2>6. QED
    BY <1>4, <2>4, <2>5 DEF FloorTells
<1>10. PubsOK'
  <2>1. pubs'[q] = [at |-> "send", cursor |-> c, event |-> happened']
        /\ pubs' \in [Publishers -> PubType]
    BY <1>1, <1>3, <1>5 DEF PubsOK, PubType
  <2>2. Names(payload', c, happened')
    BY <1>6 DEF Names
  <2>3. \A i \in 1..Len(bus) : bus[i].event < happened'
    BY <1>1, <1>3 DEF BusOK
  <2>4. QED
    BY <1>0, <1>1, <1>3, <2>1, <2>2, <2>3 DEF PubsOK
<1>11. BusOK'
  BY <1>3, <1>7, BusStays
<1>12. WireOK' /\ ClientOK'
  BY <1>3, <1>7, ClientStays
<1>13. ConnOK'
  <2>1. Pending(pubs', happened')
    BY <1>0, <1>3 DEF Pending, PubsOK, Idle
  <2>2. \A e : ~Pending(pubs, e)
    BY <1>0, <1>3 DEF Pending
  <2>3. \A e \in 1..happened' : (e <= happened /\ ~Pending(pubs, e)) \/ Pending(pubs', e)
    BY <1>1, <1>3, <2>1, <2>2
  <2>4. ASSUME NEW h \in 1..Generation
        PROVE  \/ logs'[h].lastSeq = logs[h].lastSeq /\ logs'[h].gapFloor = logs[h].gapFloor
               \/ At(payload', h, logs'[h].lastSeq) = happened'
    <3>1. CASE h = G
      BY <1>2, <1>4, <1>6, <3>1 DEF At
    <3>2. CASE h # G
      BY <1>4, <3>2 DEF G
    <3>3. QED
      BY <3>1, <3>2
  <2>5. Len(bus') \in Nat /\ Len(bus) <= Len(bus') /\ \A i \in 1..Len(bus) : bus'[i] = bus[i]
    BY <1>3 DEF BusOK
  <2>6. Generation' \in Nat /\ Generation <= Generation' /\ Generation' = Generation
    BY <1>1, <1>4 DEF G
  <2>7. QED
    BY <1>3, <1>7, <2>3, <2>4, <2>5, <2>6, ConnStays
<1>14. QED
  BY <1>4, <1>8, <1>9, <1>10, <1>11, <1>12, <1>13

LEMMA SendInv ==
  ASSUME Setting, IInv, NEW q \in Publishers, PublishSend(q)
  PROVE  IInv'
<1> DEFINE m == Published(pubs[q].cursor, pubs[q].event)
<1> USE DEF IInv
<1>0. Publishers = {q}
  BY DEF Setting
<1>1. /\ pubs[q].at = "send" /\ pubs[q] # Idle
      /\ bus' = Append(bus, m)
      /\ pubs' = [pubs EXCEPT ![q] = Idle]
      /\ UNCHANGED <<logs, payload, happened, conn, wire, client>>
  BY DEF PublishSend, Idle
<1>2. /\ m \in Message /\ m.event = happened /\ happened \in Nat /\ happened >= 1
      /\ Names(payload, m.cursor, m.event)
      /\ \A i \in 1..Len(bus) : bus[i].event < happened
  BY <1>1 DEF PubsOK, PubType, Published, Message, PayloadOK
<1> HIDE DEF m
<1>3. /\ bus \in Seq(Message) /\ Len(bus) \in Nat
      /\ bus' \in Seq(Message) /\ Len(bus') = Len(bus) + 1
      /\ \A i \in 1..Len(bus) : bus'[i] = bus[i]
      /\ bus'[Len(bus')] = m
  BY <1>1, <1>2 DEF BusOK
<1>4. pubs'[q] = Idle /\ pubs' \in [Publishers -> PubType]
  BY <1>1 DEF PubsOK, PubType
<1>5. Grows
  BY <1>1 DEF Grows, PayloadOK
<1>6. LogsOK' /\ PayloadOK'
  BY <1>1 DEF LogsOK, PayloadOK, Generation
<1>7. FloorTells'
  <2>1. \A e : (\E p \in Publishers : pubs[p].at = "mark" /\ pubs[p].event = e) =>
                  FALSE
    BY <1>0, <1>1
  <2>2. QED
    BY <1>1, <2>1 DEF FloorTells, Generation
<1>8. PubsOK'
  BY <1>0, <1>4 DEF PubsOK
<1>9. BusOK'
  <2>1. ASSUME NEW i \in 1..Len(bus')
        PROVE  bus'[i].event \in 1..happened' /\ Names(payload', bus'[i].cursor, bus'[i].event)
    <3>1. CASE i \in 1..Len(bus)
      BY <1>1, <1>3, <3>1 DEF BusOK
    <3>2. CASE i = Len(bus')
      BY <1>1, <1>2, <1>3, <3>2
    <3>3. QED
      BY <1>3, <3>1, <3>2
  <2>2. ASSUME NEW i \in 1..Len(bus'), NEW j \in 1..Len(bus'), i < j
        PROVE  bus'[i].event < bus'[j].event
    <3>1. i \in 1..Len(bus)
      BY <1>3, <2>2
    <3>2. CASE j \in 1..Len(bus)
      BY <1>3, <2>2, <3>1, <3>2 DEF BusOK
    <3>3. CASE j = Len(bus')
      BY <1>2, <1>3, <3>1, <3>3
    <3>4. QED
      BY <1>3, <3>2, <3>3
  <2>3. QED
    BY <1>3, <2>1, <2>2 DEF BusOK
<1>10. WireOK' /\ ClientOK'
  BY <1>1, <1>5, ClientStays
<1>11. ConnOK'
  <2>1. ASSUME NEW e \in 1..happened'
        PROVE  \/ e <= happened /\ ~Pending(pubs, e)
               \/ Len(bus') = Len(bus) + 1 /\ bus'[Len(bus')].event = e
    <3>1. Pending(pubs, e) => e = happened
      BY <1>0, <1>1, <1>2 DEF Pending, m, Published
    <3>2. QED
      BY <1>1, <1>2, <1>3, <3>1
  <2>2. Generation' \in Nat /\ Generation <= Generation' /\ Generation' = Generation
    BY <1>1, GenerationType DEF Generation
  <2>3. \A g \in 1..Generation : /\ logs'[g].lastSeq = logs[g].lastSeq
                                 /\ logs'[g].gapFloor = logs[g].gapFloor
    BY <1>1
  <2>4. QED
    BY <1>1, <1>3, <1>5, <2>1, <2>2, <2>3, ConnStays
<1>12. QED
  BY <1>6, <1>7, <1>8, <1>9, <1>10, <1>11

LEMMA WriteFailsInv ==
  ASSUME Setting, IInv, NEW q \in Publishers, WriteFails(q)
  PROVE  IInv'
<1> USE DEF IInv
<1>0. Publishers = {q}
  BY DEF Setting
<1>1. /\ pubs[q] = Idle /\ happened' = happened + 1 /\ happened \in Nat
      /\ pubs' = [pubs EXCEPT ![q] = [at |-> "mark", cursor |-> None, event |-> happened']]
      /\ UNCHANGED <<logs, payload, bus, conn, wire, client>>
  BY DEF WriteFails, PayloadOK
<1>2. /\ pubs'[q] = [at |-> "mark", cursor |-> None, event |-> happened']
      /\ pubs' \in [Publishers -> PubType]
  BY <1>1 DEF PubsOK, PubType
<1>3. Grows
  BY <1>1 DEF Grows
<1>4. LogsOK'
  BY <1>1 DEF LogsOK, Generation
<1>5. PayloadOK'
  <2>1. \A c \in DOMAIN payload : payload[c] \in 0..happened'
    BY <1>1 DEF PayloadOK
  <2>2. QED
    BY <1>1, <2>1 DEF PayloadOK, Generation
<1>6. FloorTells'
  <2> DEFINE log == logs[Generation]
  <2>1. ASSUME log.gapFloor < log.lastSeq,
               NEW e \in At(payload, Generation, log.lastSeq) + 1..happened'
        PROVE  e = happened'
    <3>1. Generation \in 1..Generation /\ log.lastSeq \in 1..log.lastSeq
      BY <2>1, GenerationType, LogTypeFields
    <3>2. At(payload, Generation, log.lastSeq) \in 1..happened
      BY <3>1, IssuedNames
    <3>3. e \notin At(payload, Generation, log.lastSeq) + 1..happened
      BY <1>0, <1>1, <2>1 DEF FloorTells, Idle
    <3>4. QED
      BY <1>1, <2>1, <3>2, <3>3
  <2>2. pubs'[q].at = "mark" /\ pubs'[q].event = happened'
    BY <1>2
  <2>3. QED
    BY <1>1, <2>1, <2>2 DEF FloorTells, Generation
<1>7. PubsOK'
  <2>1. Names(payload', None, happened')
    BY DEF Names
  <2>2. ASSUME NEW i \in 1..Len(bus) PROVE bus[i].event < happened'
    <3>1. bus[i].event \in 1..happened
      BY <2>2 DEF BusOK
    <3>2. QED
      BY <1>1, <3>1
  <2>3. QED
    BY <1>0, <1>1, <1>2, <2>1, <2>2 DEF PubsOK
<1>8. BusOK'
  BY <1>1, <1>3, BusStays
<1>9. WireOK' /\ ClientOK'
  BY <1>1, <1>3, ClientStays
<1>10. ConnOK'
  <2>1. Pending(pubs', happened')
    BY <1>0, <1>2 DEF Pending, Idle
  <2>2. \A e : ~Pending(pubs, e)
    BY <1>0, <1>1 DEF Pending
  <2>3. \A e \in 1..happened' : (e <= happened /\ ~Pending(pubs, e)) \/ Pending(pubs', e)
    BY <1>1, <2>1, <2>2
  <2>4. /\ Generation' \in Nat /\ Generation <= Generation' /\ Generation' = Generation
        /\ Len(bus') \in Nat /\ Len(bus) <= Len(bus') /\ \A i \in 1..Len(bus) : bus'[i] = bus[i]
    BY <1>1, GenerationType DEF Generation, BusOK
  <2>5. \A g \in 1..Generation : /\ logs'[g].lastSeq = logs[g].lastSeq
                                 /\ logs'[g].gapFloor = logs[g].gapFloor
    BY <1>1
  <2>6. QED
    BY <1>1, <1>3, <2>3, <2>4, <2>5, ConnStays
<1>11. QED
  BY <1>4, <1>5, <1>6, <1>7, <1>8, <1>9, <1>10

LEMMA MarkGapInv ==
  ASSUME Setting, IInv, NEW q \in Publishers, MarkGap(q)
  PROVE  IInv'
<1> DEFINE G   == Generation
           new == MarkGapIn(logs[G])
<1> USE DEF IInv
<1>0. Publishers = {q}
  BY DEF Setting
<1>1. /\ G \in Nat \ {0} /\ G \in 1..G /\ logs[G] \in LogType /\ LogOK(logs[G])
  BY GenerationType
<1>2. /\ new \in LogType /\ LogOK(new) /\ new.lastSeq \in Nat
      /\ new.lastSeq = logs[G].lastSeq /\ new.gapFloor = new.lastSeq
  BY <1>1, MarkOK, LogTypeFields
<1>3. /\ pubs[q].at = "mark" /\ pubs[q] # Idle
      /\ logs' = [logs EXCEPT ![G] = new]
      /\ pubs' = [pubs EXCEPT ![q].at = "send"]
      /\ UNCHANGED <<payload, happened, bus, conn, wire, client>>
  BY DEF MarkGap, Idle
<1> HIDE DEF G, new
<1>4. /\ LogsOK' /\ Generation' = G /\ logs'[G] = new
      /\ \A h \in 1..G : h # G => logs'[h] = logs[h]
  BY <1>1, <1>2, <1>3, OneLog DEF G
<1>5. \A h \in 1..G : logs'[h].lastSeq = logs[h].lastSeq
  BY <1>2, <1>4 DEF G
<1>6. /\ pubs' \in [Publishers -> PubType] /\ pubs'[q] # Idle
      /\ pubs'[q].event = pubs[q].event /\ pubs'[q].cursor = pubs[q].cursor
  BY <1>1, <1>3 DEF PubsOK, PubType, CursorSet, None, Idle
<1>7. Grows
  BY <1>3 DEF Grows, PayloadOK
<1>8. PayloadOK'
  BY <1>3, <1>4, <1>5, NamesKept DEF G
<1>9. FloorTells'
  <2>1. ASSUME NEW h \in 1..G, NEW s \in logs'[h].gapFloor + 1..logs'[h].lastSeq
        PROVE  At(payload, h, s) = At(payload, h, logs'[h].lastSeq) - (logs'[h].lastSeq - s)
    <3>1. CASE h = G
      BY <1>2, <1>4, <2>1, <3>1
    <3>2. CASE h # G
      BY <1>4, <2>1, <3>2 DEF FloorTells, G
    <3>3. QED
      BY <3>1, <3>2
  <2>2. ~ (logs'[G].gapFloor < logs'[G].lastSeq)
    BY <1>2, <1>4
  <2>3. QED
    BY <1>3, <1>4, <2>1, <2>2 DEF FloorTells
<1>10. PubsOK'
  BY <1>0, <1>3, <1>6 DEF PubsOK
<1>11. BusOK'
  BY <1>3, <1>7, BusStays
<1>12. WireOK' /\ ClientOK'
  BY <1>3, <1>7, ClientStays
<1>13. ConnOK'
  <2>1. \A e : Pending(pubs, e) => Pending(pubs', e)
    BY <1>0, <1>6 DEF Pending
  <2>2. \A e \in 1..happened' : (e <= happened /\ ~Pending(pubs, e)) \/ Pending(pubs', e)
    <3>1. happened' = happened /\ happened \in Nat
      BY <1>3 DEF PayloadOK
    <3>2. \A e \in 1..happened' : e <= happened
      BY <3>1
    <3>3. QED
      BY <2>1, <3>2
  <2>3. /\ Generation' \in Nat /\ Generation <= Generation' /\ Generation' = Generation
        /\ Len(bus') \in Nat /\ Len(bus) <= Len(bus') /\ \A i \in 1..Len(bus) : bus'[i] = bus[i]
    BY <1>1, <1>3, <1>4 DEF G, BusOK
  <2>4. ASSUME NEW h \in 1..Generation
        PROVE  \/ logs'[h].lastSeq = logs[h].lastSeq /\ logs'[h].gapFloor = logs[h].gapFloor
               \/ ~ (logs'[h].gapFloor < logs'[h].lastSeq)
    BY <1>2, <1>4 DEF G
  <2>5. QED
    BY <1>3, <1>7, <2>2, <2>3, <2>4, ConnStays
<1>14. QED
  BY <1>4, <1>8, <1>9, <1>10, <1>11, <1>12, <1>13

-----------------------------------------------------------------------------
(* The connection *)

\* A step that leaves the publishers' side alone, but for entries a read drops.
LEMMA ServerStays ==
  ASSUME IInv, LogsOK', Generation' = Generation,
         \A g \in 1..Generation : /\ logs'[g].lastSeq = logs[g].lastSeq
                                  /\ logs'[g].gapFloor = logs[g].gapFloor,
         UNCHANGED <<payload, happened, bus, pubs>>
  PROVE  PayloadOK' /\ FloorTells' /\ PubsOK' /\ BusOK'
<1> USE DEF IInv
<1>1. PayloadOK'
  BY NamesKept
<1>2. FloorTells'
  <2>1. Generation \in 1..Generation
    BY GenerationType
  <2>2. QED
    BY <2>1 DEF FloorTells
<1>3. PubsOK' /\ BusOK'
  BY DEF PubsOK, BusOK
<1>4. QED
  BY <1>1, <1>2, <1>3

LEMMA ServerUnchanged ==
  ASSUME IInv, UNCHANGED <<logs, payload, happened, bus, pubs>>
  PROVE  LogsOK' /\ PayloadOK' /\ FloorTells' /\ PubsOK' /\ BusOK'
<1>1. LogsOK' /\ Generation' = Generation
  BY DEF IInv, LogsOK, Generation
<1>2. QED
  BY <1>1, ServerStays

LEMMA ConnAt ==
  ASSUME ConnOK
  PROVE  /\ conn.at = "accepted" => Accepted
         /\ conn.at = "subscribed" => Subscribed
         /\ conn.at = "streaming" => Streaming
  BY DEF ConnOK, Accepted, Subscribed, Streaming, Closed

LEMMA OpenInv == ASSUME IInv, Open PROVE IInv'
<1> USE DEF IInv
<1>1. LogsOK' /\ PayloadOK' /\ FloorTells' /\ PubsOK' /\ BusOK'
  BY ServerUnchanged DEF Open
<1>2. /\ wire = << >> /\ wire' = << >> /\ client'.up /\ client' \in [up : BOOLEAN, cursor : CursorSet, known : SUBSET Nat, got : SUBSET Nat]
      /\ client'.cursor = client.cursor /\ client'.known = client.known
      /\ UNCHANGED <<payload, happened, wire>>
  BY DEF Open, ClientOK
<1>3. WireOK'
  BY <1>2 DEF WireOK
<1>4. ClientOK'
  BY <1>2 DEF ClientOK, CursorStandsForPrefix
<1>5. Accepted'
  <2>1. conn' = [at |-> "accepted", gen |-> Generation, resume |-> client.cursor]
        /\ Generation' = Generation
    BY DEF Open, Generation
  <2>2. client.cursor \in CursorSet /\ Generation \in Nat /\ Generation \in 1..Generation
    BY GenerationType DEF ClientOK
  <2>3. QED
    BY <1>2, <2>1, <2>2 DEF Accepted, Opening
<1>6. QED
  BY <1>1, <1>3, <1>4, <1>5 DEF ConnOK

LEMMA SubscribeInv == ASSUME IInv, Subscribe PROVE IInv'
<1> USE DEF IInv
<1>1. LogsOK' /\ PayloadOK' /\ FloorTells' /\ PubsOK' /\ BusOK'
  BY ServerUnchanged DEF Subscribe
<1>2. /\ UNCHANGED <<wire, client, payload, happened, logs, bus, pubs>>
      /\ Accepted
      /\ conn' = [at |-> "subscribed", gen |-> conn.gen, resume |-> conn.resume,
                  pos |-> Len(bus) + 1]
  BY ConnAt DEF Subscribe
<1>3. WireOK' /\ ClientOK'
  <2>1. client.up
    BY <1>2 DEF ClientOK, Accepted, Closed
  <2>2. QED
    BY <1>2, <2>1 DEF WireOK, ClientOK, CursorStandsForPrefix
<1>4. Subscribed'
  <2> DEFINE log == logs[Generation]
  <2>1. Len(bus) \in Nat /\ conn.gen = Generation /\ conn.gen \in Nat /\ conn.resume \in CursorSet
        /\ conn.resume = client.cursor /\ wire = << >> /\ conn.gen \in 1..Generation
    BY <1>2 DEF BusOK, Accepted, Opening
  <2>2. ASSUME log.gapFloor < log.lastSeq,
               NEW e \in At(payload, Generation, log.lastSeq) + 1..happened
        PROVE  Pending(pubs, e)
    BY <2>2 DEF FloorTells, Pending, Idle
  <2>3. conn' \in [at : {"subscribed"}, gen : Nat, resume : CursorSet, pos : Nat \ {0}]
        /\ conn'.pos <= Len(bus) + 1 /\ conn'.gen = Generation /\ conn'.resume = client.cursor
    BY <1>2, <2>1
  <2>4. Generation' = Generation
    BY <1>2 DEF Generation
  <2>5. QED
    BY <1>2, <2>1, <2>2, <2>3, <2>4 DEF Subscribed, Opening
<1>5. QED
  BY <1>1, <1>3, <1>4 DEF ConnOK

\* A response that opens with a snapshot tells everything.
LEMMA SnapshotInv ==
  ASSUME IInv, conn.at = "subscribed", UNCHANGED <<client, payload, happened, bus, pubs>>,
         NEW replay, DOMAIN replay = {}, NEW seen, seen \subseteq DOMAIN payload,
         conn' = [at |-> "streaming", pos |-> conn.pos, replay |-> replay, seen |-> seen],
         wire' \in {<<Snapshot>>, <<Resync, Snapshot>>}
  PROVE  WireOK' /\ ClientOK' /\ ConnOK'
<1> USE DEF IInv
<1>1. Subscribed /\ conn.pos \in Nat \ {0} /\ conn.pos <= Len(bus) + 1 /\ client.up
      /\ happened \in Nat
  BY ConnAt DEF Subscribed, ClientOK, Closed, PayloadOK
<1>2. FrameOK(payload, happened, Snapshot) /\ FrameOK(payload, happened, Resync)
      /\ Snapshot.kind = "snapshot" /\ Resync.kind = "resync" /\ Snapshot.event = happened
      /\ Snapshot \in FrameSet /\ Resync \in FrameSet
  BY <1>1 DEF FrameOK, FrameSet, Snapshot, Resync, Frame, CursorSet, None, Names
<1>3. /\ wire' \in Seq(FrameSet) /\ Len(wire') \in Nat /\ Len(wire') \in 1..Len(wire')
      /\ wire'[Len(wire')] = Snapshot
      /\ \A i \in 1..Len(wire') : wire'[i] \in {Snapshot, Resync}
  <2> HIDE DEF Snapshot, Resync
  <2>1. CASE wire' = <<Snapshot>>
    <3>1. wire' \in Seq(FrameSet) /\ Len(wire') = 1 /\ wire'[1] = Snapshot
      BY <1>2, <2>1
    <3>2. QED
      BY <3>1
  <2>2. CASE wire' = <<Resync, Snapshot>>
    <3>1. wire' \in Seq(FrameSet) /\ Len(wire') = 2 /\ wire'[1] = Resync /\ wire'[2] = Snapshot
      BY <1>2, <2>2
    <3>2. QED
      BY <3>1
  <2>3. QED
    BY <2>1, <2>2
<1>4. WireOK'
  BY <1>2, <1>3 DEF WireOK
<1>5. ClientOK'
  BY <1>1 DEF ClientOK, CursorStandsForPrefix
<1>6. \A e \in 0..happened : Covered(client.known, wire', replay, e)
  BY <1>2, <1>3 DEF Covered, Told, Tells
<1>7. Streaming'
  <2>1. conn'.replay = replay /\ conn'.pos = conn.pos /\ conn'.seen = seen
    OBVIOUS
  <2>2. \A c \in seen : c \in DOMAIN payload /\ payload[c] \in 0..happened
    BY DEF PayloadOK
  <2>3. \A e \in 1..happened : e \in 0..happened
    BY <1>1
  <2>4. QED
    BY <1>1, <1>6, <2>1, <2>2, <2>3 DEF Streaming
<1>8. QED
  BY <1>4, <1>5, <1>7 DEF ConnOK

LEMMA ConnectSnapshotInv == ASSUME IInv, ConnectSnapshot PROVE IInv'
<1>1. LogsOK' /\ PayloadOK' /\ FloorTells' /\ PubsOK' /\ BusOK'
  BY ServerUnchanged DEF ConnectSnapshot
<1>2. DOMAIN << >> = {}
  OBVIOUS
<1>3. WireOK' /\ ClientOK' /\ ConnOK'
  BY <1>2, SnapshotInv DEF ConnectSnapshot, Stream
<1>4. QED
  BY <1>1, <1>3 DEF IInv

LEMMA ReadFailsInv == ASSUME IInv, ReadFails PROVE IInv'
<1>1. LogsOK' /\ PayloadOK' /\ FloorTells' /\ PubsOK' /\ BusOK'
  BY ServerUnchanged DEF ReadFails
<1>2. DOMAIN << >> = {}
  OBVIOUS
<1>3. conn.resume \in DOMAIN payload
  BY ConnAt DEF ReadFails, IInv, Subscribed, Opening, ClientOK
<1>4. WireOK' /\ ClientOK' /\ ConnOK'
  BY <1>2, <1>3, SnapshotInv DEF ReadFails, Stream
<1>5. QED
  BY <1>1, <1>4 DEF IInv

LEMMA ReadLogInv == ASSUME Setting, IInv, ReadLog PROVE IInv'
<1> DEFINE g   == conn.gen
           own == conn.resume.gen = g
           log == logs[g]
           seq == conn.resume.seq
           r   == IF own THEN SinceReply(log, T, seq, Limit, Now) ELSE Unknown
           Cursor(i) == [gen |-> g, seq |-> r.replay[i]]
           replay == [i \in DOMAIN r.replay |-> Frame("event", Cursor(i), payload[Cursor(i)])]
           seen   == {Cursor(i) : i \in DOMAIN r.replay} \cup {conn.resume}
<1> USE DEF IInv
<1>1. /\ Subscribed /\ conn.resume # None
      /\ logs' = IF own THEN [logs EXCEPT ![g] = SinceLog(log, T, seq, Now)] ELSE logs
      /\ conn' = [at |-> "streaming", pos |-> conn.pos, replay |-> replay, seen |-> seen]
      /\ wire' = IF r.kind = "events" THEN << >> ELSE <<Resync, Snapshot>>
      /\ UNCHANGED <<payload, happened, bus, pubs, client>>
      /\ conn.at = "subscribed"
  BY ConnAt DEF ReadLog, Stream
<1>2. /\ g \in 1..Generation /\ Generation \in Nat \ {0} /\ log \in LogType /\ LogOK(log)
      /\ seq \in Nat /\ conn.resume = [gen |-> conn.resume.gen, seq |-> seq]
      /\ conn.resume \in DOMAIN payload /\ conn.resume = client.cursor
      /\ conn.pos \in Nat \ {0} /\ conn.pos <= Len(bus) + 1
      /\ log.lastSeq \in Nat /\ log.gapFloor \in Nat /\ happened \in Nat
  BY <1>1, GenerationType, LogTypeFields DEF Subscribed, Opening, CursorSet, ClientOK, PayloadOK
<1>3. /\ LogsOK' /\ Generation' = Generation
      /\ \A h \in 1..Generation : /\ logs'[h].lastSeq = logs[h].lastSeq
                                  /\ logs'[h].gapFloor = logs[h].gapFloor
  <2>1. CASE own
    <3> DEFINE new == SinceLog(log, T, seq, Now)
    <3>1. new \in LogType /\ LogOK(new) /\ new.lastSeq = log.lastSeq /\ new.gapFloor = log.gapFloor
      BY <1>2, SinceOK
    <3>2. logs' = [logs EXCEPT ![g] = new]
      BY <1>1, <2>1
    <3> HIDE DEF new
    <3>3. LogsOK' /\ Generation' = Generation /\ logs'[g] = new
          /\ \A h \in 1..Generation : h # g => logs'[h] = logs[h]
      BY <1>2, <3>1, <3>2, OneLog
    <3>4. QED
      BY <3>1, <3>3
  <2>2. CASE ~own
    BY <1>1, <2>2 DEF LogsOK, Generation
  <2>3. QED
    BY <2>1, <2>2
<1>4. PayloadOK' /\ FloorTells' /\ PubsOK' /\ BusOK'
  BY <1>1, <1>3, ServerStays
<1>5. WireOK' /\ ClientOK' /\ ConnOK'
  <2>1. CASE r.kind # "events"
    <3>1. DOMAIN r.replay = {}
      BY <1>2, <2>1, ReplyOK DEF Unknown
    <3> HIDE DEF r
    <3>2. DOMAIN replay = {} /\ seen = {conn.resume} /\ seen \subseteq DOMAIN payload
      BY <1>2, <3>1
    <3> HIDE DEF replay, seen
    <3>3. QED
      BY <1>1, <2>1, <3>2, SnapshotInv
  <2>2. CASE r.kind = "events"
    <3>1. own
      BY <2>2 DEF Unknown
    <3>2. r = SinceReply(log, T, seq, Limit, Now)
      BY <3>1
    <3> HIDE DEF r, g, log, seq
    <3>3. /\ DOMAIN r.replay \subseteq Nat
          /\ log.gapFloor < seq /\ seq \in 1..log.lastSeq
          /\ \A i, j \in DOMAIN r.replay : i < j => r.replay[i] < r.replay[j]
          /\ {r.replay[i] : i \in DOMAIN r.replay} = seq + 1..log.lastSeq
      <4> DEFINE R == SinceReply(log, T, seq, Limit, Now)
      <4>1. /\ DOMAIN R.replay \subseteq Nat
            /\ R.kind = "events" =>
                  /\ log.gapFloor < seq /\ seq \in 1..log.lastSeq
                  /\ \A i, j \in DOMAIN R.replay : i < j => R.replay[i] < R.replay[j]
                  /\ {R.replay[i] : i \in DOMAIN R.replay} = seq + 1..log.lastSeq
        BY <1>2, ReplyOK
      <4>2. r = R
        BY <3>2
      <4> HIDE DEF R
      <4>3. QED
        BY <2>2, <4>1, <4>2
    <3>4. /\ conn.resume = [gen |-> g, seq |-> seq]
          /\ payload[conn.resume] = At(payload, g, seq)
          /\ 1..At(payload, g, seq) \subseteq client.known
          /\ wire' = << >> /\ client.up
      BY <1>1, <1>2, <2>2, <3>1 DEF At, ClientOK, CursorStandsForPrefix, Subscribed, Closed
    \* Between the cursor and the newest entry, an event is where its distance puts it.
    <3>5. /\ At(payload, g, log.lastSeq) \in 1..happened
          /\ \A s \in seq..log.lastSeq :
               /\ At(payload, g, s) = At(payload, g, log.lastSeq) - (log.lastSeq - s)
               /\ At(payload, g, s) \in 1..happened
               /\ [gen |-> g, seq |-> s] \in DOMAIN payload
      <4>1. ASSUME NEW s \in seq..log.lastSeq
            PROVE  /\ At(payload, g, s) = At(payload, g, log.lastSeq) - (log.lastSeq - s)
                   /\ At(payload, g, s) \in 1..happened
                   /\ [gen |-> g, seq |-> s] \in DOMAIN payload
        <5>1. s \in log.gapFloor + 1..log.lastSeq /\ s \in 1..log.lastSeq
          BY <1>2, <3>3, <4>1
        <5>2. At(payload, g, s) = At(payload, g, log.lastSeq) - (log.lastSeq - s)
          BY <1>2, <5>1 DEF FloorTells, log
        <5>3. At(payload, g, s) \in 1..happened /\ [gen |-> g, seq |-> s] \in DOMAIN payload
          BY <1>2, <5>1, IssuedNames DEF log
        <5>4. QED
          BY <5>2, <5>3
      <4>2. log.lastSeq \in seq..log.lastSeq
        BY <1>2, <3>3
      <4>3. QED
        BY <4>1, <4>2
    <3>nat. /\ seq \in Nat /\ log.lastSeq \in Nat /\ seq \in seq..log.lastSeq
          /\ log.lastSeq \in seq..log.lastSeq
          /\ \A s \in seq..log.lastSeq : s \in Nat /\ At(payload, g, s) \in Nat
      <4>1. seq \in Nat /\ log.lastSeq \in Nat /\ seq <= log.lastSeq
        BY <1>2, <3>3
      <4>2. ASSUME NEW s \in seq..log.lastSeq PROVE s \in Nat /\ At(payload, g, s) \in Nat
        <5>1. At(payload, g, s) \in 1..happened
          BY <3>5, <4>2
        <5>2. QED
          BY <1>2, <4>1, <4>2, <5>1
      <4>3. QED
        BY <4>1, <4>2
    <3>6. ASSUME NEW e \in Nat, NEW s \in seq..log.lastSeq,
                 e > At(payload, g, seq), e <= At(payload, g, s)
          PROVE  \E j \in DOMAIN r.replay : r.replay[j] <= s /\ At(payload, g, r.replay[j]) = e
      <4> DEFINE a == At(payload, g, seq)
                 b == At(payload, g, s)
                 z == At(payload, g, log.lastSeq)
                 u == s - (b - e)
                 w == At(payload, g, u)
      <4>1. seq \in seq..log.lastSeq /\ seq \in Nat /\ s \in Nat /\ log.lastSeq \in Nat
        BY <3>nat, <3>6
      <4>2. a = z - (log.lastSeq - seq) /\ b = z - (log.lastSeq - s)
            /\ a \in Nat /\ b \in Nat /\ z \in Nat
        <5>1. a = z - (log.lastSeq - seq)
          BY <3>5, <4>1
        <5>2. b = z - (log.lastSeq - s)
          BY <3>5, <3>6
        <5>3. a \in Nat /\ b \in Nat /\ z \in Nat
          BY <3>nat, <3>6
        <5>4. QED
          BY <5>1, <5>2, <5>3
      <4> HIDE DEF a, b, z, w
      <4>3. e > a /\ e <= b
        BY <3>6 DEF a, b
      <4>4. u \in seq + 1..log.lastSeq /\ u \in seq..log.lastSeq /\ u <= s
        BY <3>6, <4>1, <4>2, <4>3
      <4>5. w = z - (log.lastSeq - u)
        <5> HIDE DEF u
        <5>1. QED
          BY <3>5, <4>4 DEF w, z
      <4>6. w = e
        BY <3>6, <4>1, <4>2, <4>5
      <4> HIDE DEF u
      <4>7. PICK j \in DOMAIN r.replay : r.replay[j] = u
        BY <3>3, <4>4
      <4>8. QED
        BY <4>4, <4>6, <4>7 DEF w
    <3>7. ASSUME NEW i \in DOMAIN r.replay
          PROVE  /\ r.replay[i] \in seq + 1..log.lastSeq /\ r.replay[i] \in seq..log.lastSeq
                 /\ replay[i].kind = "event" /\ replay[i].cursor = Cursor(i)
                 /\ replay[i].event = At(payload, g, r.replay[i])
                 /\ Cursor(i) \in DOMAIN payload
                 /\ FrameOK(payload, happened, replay[i])
      <4>1. r.replay[i] \in seq + 1..log.lastSeq
        BY <3>3, <3>7
      <4>2. r.replay[i] \in seq..log.lastSeq
        BY <1>2, <3>3, <4>1
      <4>3. Cursor(i) \in DOMAIN payload /\ payload[Cursor(i)] \in 1..happened
            /\ payload[Cursor(i)] = At(payload, g, r.replay[i])
        BY <3>5, <4>2 DEF At
      <4>4. replay[i] = [kind |-> "event", cursor |-> Cursor(i), event |-> payload[Cursor(i)]]
        BY <3>7 DEF Frame
      <4>5. Cursor(i) \in CursorSet
        BY <4>3, CursorIsTyped
      <4>6. Names(payload, Cursor(i), payload[Cursor(i)])
        BY <4>3 DEF Names
      <4> DEFINE cursor == Cursor(i)
      <4> HIDE DEF replay, cursor
      <4>7. FrameOK(payload, happened, replay[i])
        <5>1. /\ replay[i] = [kind |-> "event", cursor |-> cursor, event |-> payload[cursor]]
              /\ cursor \in CursorSet /\ payload[cursor] \in 1..happened
              /\ Names(payload, cursor, payload[cursor])
          BY <4>3, <4>4, <4>5, <4>6 DEF cursor
        <5>2. payload[cursor] \in Nat /\ payload[cursor] <= happened /\ payload[cursor] >= 1
          BY <1>2, <5>1
        <5>3. replay[i] \in FrameSet
          BY <5>1, <5>2 DEF FrameSet
        <5>4. QED
          BY <5>1, <5>2, <5>3 DEF FrameOK
      <4>8. QED
        BY <4>1, <4>2, <4>3, <4>4, <4>7
    <3>8. DOMAIN replay = DOMAIN r.replay
      OBVIOUS
    <3>9. ASSUME NEW e \in Nat, e <= At(payload, g, seq), e >= 1
          PROVE  Told(client.known, << >>, 0, e)
      BY <3>4, <3>5, <3>9, <1>2, <3>3 DEF Told
    <3>10. \A i, j \in DOMAIN r.replay : r.replay[j] <= r.replay[i] => j <= i
      <4>1. SUFFICES ASSUME NEW i \in DOMAIN r.replay, NEW j \in DOMAIN r.replay,
                            r.replay[j] <= r.replay[i]
                     PROVE  j <= i
        OBVIOUS
      <4>2. i \in Nat /\ j \in Nat /\ r.replay[i] \in Nat /\ r.replay[j] \in Nat
        BY <3>nat, <3>3, <3>7
      <4>3. i < j => r.replay[i] < r.replay[j]
        BY <3>3
      <4>4. QED
        BY <4>1, <4>2, <4>3
    <3>11. Len(<< >>) = 0 /\ << >> \in Seq(FrameSet)
      OBVIOUS
    <3> HIDE DEF replay
    <3>12. ASSUME NEW i \in DOMAIN replay, NEW e \in 1..replay[i].event
           PROVE  \/ Told(client.known, << >>, 0, e)
                  \/ \E j \in DOMAIN replay : j <= i /\ replay[j].event = e
      <4>1. CASE e <= At(payload, g, seq)
        BY <3>9, <3>12, <4>1
      <4>2. CASE ~ (e <= At(payload, g, seq))
        <5>1. At(payload, g, seq) \in Nat /\ At(payload, g, r.replay[i]) \in Nat
              /\ replay[i].event = At(payload, g, r.replay[i])
          BY <3>nat, <3>7, <3>8
        <5>2. e \in Nat /\ e <= At(payload, g, r.replay[i])
          BY <3>12, <5>1
        <5>3. e > At(payload, g, seq) /\ e <= At(payload, g, r.replay[i])
          BY <4>2, <5>1, <5>2
        <5>4. PICK j \in DOMAIN r.replay : r.replay[j] <= r.replay[i] /\ At(payload, g, r.replay[j]) = e
          BY <3>6, <3>7, <3>8, <5>2, <5>3
        <5>5. QED
          BY <3>7, <3>8, <3>10, <5>4
      <4>3. QED
        BY <4>1, <4>2
    <3>13. \A c \in seen : c \in DOMAIN payload /\ Covered(client.known, << >>, replay, payload[c])
      <4>1. ASSUME NEW i \in DOMAIN r.replay
            PROVE  Covered(client.known, << >>, replay, payload[Cursor(i)])
        BY <3>7, <3>8 DEF Covered, At
      <4>2. Covered(client.known, << >>, replay, payload[conn.resume])
        <5>1. seq \in seq..log.lastSeq
          BY <1>2, <3>3
        <5>2. payload[conn.resume] \in Nat /\ payload[conn.resume] >= 1
              /\ payload[conn.resume] <= At(payload, g, seq)
          BY <1>2, <3>4, <3>5, <5>1
        <5>3. QED
          BY <3>9, <3>11, <5>2 DEF Covered
      <4>3. QED
        BY <1>2, <3>7, <4>1, <4>2
    <3>14. ASSUME NEW e \in 1..happened
           PROVE  \/ Covered(client.known, << >>, replay, e)
                  \/ OnBus(bus, conn.pos, e) \/ Pending(pubs, e)
      <4>1. CASE e <= At(payload, g, seq)
        BY <3>9, <3>11, <3>14, <4>1 DEF Covered
      <4>2. CASE e > At(payload, g, seq) /\ e <= At(payload, g, log.lastSeq)
        <5>1. log.lastSeq \in seq..log.lastSeq /\ e \in Nat
          BY <1>2, <3>3
        <5>2. PICK j \in DOMAIN r.replay : At(payload, g, r.replay[j]) = e
          BY <3>6, <4>2, <5>1
        <5>3. QED
          BY <3>7, <3>8, <5>2 DEF Covered
      <4>3. CASE e > At(payload, g, log.lastSeq)
        <5>1. log.gapFloor < log.lastSeq
          BY <1>2, <3>3
        <5>2. e \in At(payload, g, log.lastSeq) + 1..happened
          BY <1>2, <3>5, <4>3
        <5>3. QED
          BY <1>1, <5>1, <5>2 DEF Subscribed, g, log
      <4>4. QED
        <5>1. At(payload, g, seq) \in Nat /\ At(payload, g, log.lastSeq) \in Nat
          BY <3>nat
        <5>2. e \in Nat
          BY <1>2, <3>14
        <5>3. QED
          BY <4>1, <4>2, <4>3, <5>1, <5>2
    <3>15. WireOK'
      BY <3>4, <3>11 DEF WireOK
    <3>16. ClientOK'
      BY <1>1, <3>4 DEF ClientOK, CursorStandsForPrefix
    <3>17. Streaming'
      <4> HIDE DEF seen
      <4>1. conn'.replay = replay /\ conn'.pos = conn.pos /\ conn'.seen = seen
            /\ Len(wire') = 0 /\ wire' = << >>
        BY <1>1, <3>4, <3>11
      <4>2. DOMAIN replay \subseteq Nat
        BY <3>3, <3>8
      <4>3. \A i \in DOMAIN replay : FrameOK(payload, happened, replay[i]) /\ replay[i].kind = "event"
        BY <3>7, <3>8
      <4>4. conn' = [at |-> "streaming", pos |-> conn'.pos, replay |-> conn'.replay, seen |-> conn'.seen]
        BY <1>1, <4>1
      <4>5. QED
        BY <1>1, <1>2, <3>12, <3>13, <3>14, <4>1, <4>2, <4>3, <4>4 DEF Streaming
    <3>18. QED
      BY <3>15, <3>16, <3>17 DEF ConnOK
  <2>3. QED
    BY <2>1, <2>2
<1>6. QED
  BY <1>3, <1>4, <1>5

LEMMA ServeReplayInv == ASSUME IInv, ServeReplay PROVE IInv'
<1> DEFINE next   == Min(DOMAIN conn.replay)
           f      == conn.replay[next]
           replay == Restrict(conn.replay, DOMAIN conn.replay \ {next})
           known  == client.known
           longer == Append(wire, f)
<1> USE DEF IInv
<1>1. LogsOK' /\ PayloadOK' /\ FloorTells' /\ PubsOK' /\ BusOK'
  BY ServerUnchanged DEF ServeReplay
<1>2. /\ Streaming /\ DOMAIN conn.replay # {}
      /\ wire' = longer
      /\ conn' = [at |-> "streaming", pos |-> conn.pos, replay |-> replay, seen |-> conn.seen]
      /\ UNCHANGED <<payload, happened, bus, pubs, client, logs>>
      /\ conn.at = "streaming"
  BY ConnAt DEF ServeReplay, Streaming, Unsent
<1>3. next \in DOMAIN conn.replay /\ \A i \in DOMAIN conn.replay : next <= i
  <2>1. DOMAIN conn.replay \subseteq Nat
    BY <1>2 DEF Streaming
  <2>2. QED
    BY <1>2, <2>1, MinOfNaturals
<1>4. \A i \in DOMAIN conn.replay :
        /\ FrameOK(payload, happened, conn.replay[i]) /\ conn.replay[i].kind = "event"
        /\ i \in Nat
        /\ \A e \in 1..conn.replay[i].event :
             \/ Told(known, wire, Len(wire), e)
             \/ \E j \in DOMAIN conn.replay : j <= i /\ conn.replay[j].event = e
  BY <1>2 DEF Streaming
<1> HIDE DEF next
<1>5. /\ DOMAIN replay = DOMAIN conn.replay \ {next}
      /\ \A i \in DOMAIN replay : replay[i] = conn.replay[i]
  BY DEF Restrict
<1>6. FrameOK(payload, happened, f) /\ f \in FrameSet /\ f.kind = "event"
  BY <1>3, <1>4 DEF FrameOK
<1> HIDE DEF f, replay
<1>7. /\ wire \in Seq(FrameSet) /\ Len(wire) \in Nat
      /\ longer \in Seq(FrameSet) /\ Len(longer) = Len(wire) + 1
      /\ longer[Len(wire) + 1] = f
      /\ \A i \in 1..Len(wire) : longer[i] = wire[i]
  BY <1>6 DEF WireOK
<1> HIDE DEF longer
<1>8. \A i \in 0..Len(wire) : \A e : Told(known, wire, i, e) => Told(known, longer, i, e)
  BY <1>7 DEF Told
<1>9. \A e : Told(known, longer, Len(longer), e) <=> Told(known, wire, Len(wire), e) \/ f.event = e
  <2>1. \A e : Tells(f, e) <=> f.event = e
    BY <1>6 DEF Tells
  <2>2. ASSUME NEW e, Told(known, longer, Len(longer), e)
        PROVE  Told(known, wire, Len(wire), e) \/ f.event = e
    <3>1. CASE e \in known
      BY <3>1 DEF Told
    <3>2. CASE \E i \in 1..Len(longer) : Tells(longer[i], e)
      <4>1. PICK i \in 1..Len(longer) : Tells(longer[i], e)
        BY <3>2
      <4>2. CASE i \in 1..Len(wire)
        BY <1>7, <4>1, <4>2 DEF Told
      <4>3. CASE i = Len(wire) + 1
        BY <1>7, <2>1, <4>1, <4>3
      <4>4. QED
        BY <1>7, <4>2, <4>3
    <3>3. QED
      BY <2>2, <3>1, <3>2 DEF Told
  <2>3. ASSUME NEW e, f.event = e PROVE Told(known, longer, Len(longer), e)
    BY <1>7, <2>1, <2>3 DEF Told
  <2>4. ASSUME NEW e, Told(known, wire, Len(wire), e) PROVE Told(known, longer, Len(longer), e)
    BY <1>7, <2>4 DEF Told
  <2>5. QED
    BY <2>2, <2>3, <2>4
<1>10. WireOK'
  <2>1. ASSUME NEW i \in 1..Len(longer)
        PROVE  FrameOK(payload, happened, longer[i])
    BY <1>6, <1>7 DEF WireOK
  <2>2. ASSUME NEW i \in 1..Len(longer), longer[i].kind = "event", longer[i].cursor # None,
               NEW e \in 1..longer[i].event
        PROVE  Told(known, longer, i, e)
    <3>1. CASE i \in 1..Len(wire)
      BY <1>7, <1>8, <2>2, <3>1 DEF WireOK
    <3>2. CASE i = Len(longer)
      <4>1. e \in 1..f.event
        BY <1>7, <2>2, <3>2
      <4>2. CASE Told(known, wire, Len(wire), e)
        BY <1>9, <3>2, <4>2
      <4>3. CASE \E j \in DOMAIN conn.replay : j <= next /\ conn.replay[j].event = e
        <5>1. PICK j \in DOMAIN conn.replay : j <= next /\ conn.replay[j].event = e
          BY <4>3
        <5>2. j = next
          BY <1>3, <1>4, <5>1
        <5>3. QED
          BY <1>9, <3>2, <5>1, <5>2 DEF f
      <4>4. QED
        BY <1>3, <1>4, <4>1, <4>2, <4>3 DEF f
    <3>3. QED
      BY <1>7, <3>1, <3>2
  <2>3. QED
    BY <1>2, <1>7, <2>1, <2>2 DEF WireOK
<1>11. ClientOK'
  <2>1. client.up
    BY <1>2 DEF ClientOK, Closed
  <2>2. QED
    BY <1>2, <2>1 DEF ClientOK, CursorStandsForPrefix
<1>12. \A e : Covered(known, wire, conn.replay, e) => Covered(known, longer, replay, e)
  BY <1>5, <1>9 DEF Covered, f
<1>13. Streaming'
  <2>1. conn'.replay = replay /\ conn'.pos = conn.pos /\ conn'.seen = conn.seen
        /\ conn' = [at |-> "streaming", pos |-> conn'.pos, replay |-> conn'.replay,
                    seen |-> conn'.seen]
    BY <1>2
  <2>2. ASSUME NEW i \in DOMAIN replay, NEW e \in 1..replay[i].event
        PROVE  \/ Told(known, longer, Len(longer), e)
               \/ \E j \in DOMAIN replay : j <= i /\ replay[j].event = e
    <3>1. e \in 1..conn.replay[i].event /\ i \in DOMAIN conn.replay
      BY <1>5, <2>2
    <3>2. CASE Told(known, wire, Len(wire), e)
      BY <1>9, <3>2
    <3>3. CASE \E j \in DOMAIN conn.replay : j <= i /\ conn.replay[j].event = e
      BY <1>5, <1>9, <3>3 DEF f
    <3>4. QED
      BY <1>4, <3>1, <3>2, <3>3
  <2>3. \A i \in DOMAIN replay : FrameOK(payload, happened, replay[i]) /\ replay[i].kind = "event"
    BY <1>4, <1>5
  <2>4. DOMAIN replay \subseteq Nat
    BY <1>4, <1>5
  <2>5. /\ \A c \in conn.seen : c \in DOMAIN payload /\ (c # None => Covered(known, longer, replay, payload[c]))
        /\ \A e \in 1..happened : \/ Covered(known, longer, replay, e)
                                 \/ OnBus(bus, conn.pos, e) \/ Pending(pubs, e)
    BY <1>2, <1>12 DEF Streaming
  <2>6. conn.pos \in Nat \ {0} /\ conn.pos <= Len(bus) + 1
    BY <1>2 DEF Streaming
  <2>7. QED
    BY <1>2, <2>1, <2>2, <2>3, <2>4, <2>5, <2>6 DEF Streaming
<1>14. QED
  BY <1>1, <1>10, <1>11, <1>13 DEF ConnOK

LEMMA ServeLiveInv == ASSUME IInv, ServeLive PROVE IInv'
<1> DEFINE m == bus[conn.pos]
           f == Frame("event", m.cursor, m.event)
           replay == conn.replay
           known  == client.known
           longer == Append(wire, f)
           drops  == m.cursor # None /\ m.cursor \in conn.seen
<1> USE DEF IInv
<1>1. LogsOK' /\ PayloadOK' /\ FloorTells' /\ PubsOK' /\ BusOK'
  BY ServerUnchanged DEF ServeLive
<1>2. /\ Streaming /\ conn.at = "streaming"
      /\ DOMAIN replay = {} /\ conn.pos <= Len(bus)
      /\ wire' = IF drops THEN wire ELSE longer
      /\ conn' = [at |-> "streaming", pos |-> conn.pos + 1, replay |-> replay, seen |-> conn.seen]
      /\ UNCHANGED <<payload, happened, bus, pubs, client, logs>>
  BY ConnAt DEF ServeLive, Live, Unsent, Streaming
<1>3. /\ conn.pos \in 1..Len(bus) /\ Len(bus) \in Nat /\ conn.pos + 1 <= Len(bus) + 1
      /\ conn.pos + 1 \in Nat \ {0} /\ conn.pos \in Nat
  BY <1>2 DEF Streaming, BusOK
<1>4. /\ m \in Message /\ m.event \in 1..happened /\ happened \in Nat
      /\ Names(payload, m.cursor, m.event)
  BY <1>3 DEF BusOK, PayloadOK
<1>5. /\ f \in FrameSet /\ f.kind = "event" /\ f.event = m.event /\ f.cursor = m.cursor
      /\ FrameOK(payload, happened, f)
  BY <1>4 DEF FrameSet, Frame, FrameOK, Message
<1>6. \A e : Covered(known, wire, replay, e) <=> Told(known, wire, Len(wire), e)
  BY <1>2 DEF Covered
\* What comes before the message on the bus is told.
<1>7. ASSUME NEW e \in 1..m.event, e # m.event PROVE Told(known, wire, Len(wire), e)
  <2>1. e \in 1..happened /\ e \in Nat /\ e < m.event
    BY <1>4, <1>7
  <2>2. ~Pending(pubs, e)
    <3>1. SUFFICES ASSUME NEW p \in Publishers, pubs[p] # Idle, pubs[p].event = e PROVE FALSE
      BY DEF Pending
    <3>2. e = happened /\ m.event < happened
      BY <1>3, <3>1 DEF PubsOK
    <3>3. QED
      BY <1>4, <2>1, <3>2
  <2>3. ~OnBus(bus, conn.pos, e)
    <3>1. SUFFICES ASSUME NEW i \in conn.pos..Len(bus), bus[i].event = e PROVE FALSE
      BY DEF OnBus
    <3>2. i \in 1..Len(bus) /\ (i = conn.pos \/ conn.pos < i)
      BY <1>3, <3>1
    <3>3. CASE i = conn.pos
      BY <1>7, <3>1, <3>3
    <3>4. CASE conn.pos < i
      <4>1. m.event < e
        BY <1>3, <3>1, <3>2, <3>4 DEF BusOK
      <4>2. QED
        BY <1>4, <2>1, <4>1
    <3>5. QED
      BY <3>2, <3>3, <3>4
  <2>4. QED
    BY <1>2, <1>6, <2>1, <2>2, <2>3 DEF Streaming
<1>8. drops => Told(known, wire, Len(wire), m.event)
  <2>1. SUFFICES ASSUME drops PROVE Told(known, wire, Len(wire), m.event)
    OBVIOUS
  <2>2. payload[m.cursor] = m.event /\ Covered(known, wire, replay, payload[m.cursor])
    BY <1>2, <1>4, <2>1 DEF Names, Streaming
  <2>3. QED
    BY <1>6, <2>2
<1> HIDE DEF f, m
<1>9. /\ wire \in Seq(FrameSet) /\ Len(wire) \in Nat
      /\ longer \in Seq(FrameSet) /\ Len(longer) = Len(wire) + 1
      /\ longer[Len(wire) + 1] = f
      /\ \A i \in 1..Len(wire) : longer[i] = wire[i]
  BY <1>5 DEF WireOK
<1> HIDE DEF longer, drops
<1>10. \A i \in 0..Len(wire) : \A e : Told(known, wire, i, e) => Told(known, longer, i, e)
  BY <1>9 DEF Told
<1>11. \A e : Told(known, wire, Len(wire), e) \/ e = m.event => Told(known, longer, Len(longer), e)
  <2>1. Tells(f, m.event)
    BY <1>5 DEF Tells
  <2>2. QED
    BY <1>9, <2>1 DEF Told
<1>12. WireOK'
  <2>1. CASE drops
    BY <1>2, <2>1 DEF WireOK
  <2>2. CASE ~drops
    <3>1. ASSUME NEW i \in 1..Len(longer)
          PROVE  FrameOK(payload, happened, longer[i])
      BY <1>5, <1>9 DEF WireOK
    <3>2. ASSUME NEW i \in 1..Len(longer), longer[i].kind = "event", longer[i].cursor # None,
                 NEW e \in 1..longer[i].event
          PROVE  Told(known, longer, i, e)
      <4>1. CASE i \in 1..Len(wire)
        BY <1>9, <1>10, <3>2, <4>1 DEF WireOK
      <4>2. CASE i = Len(longer)
        <5>1. e \in 1..m.event
          BY <1>5, <1>9, <3>2, <4>2
        <5>2. QED
          BY <1>7, <1>11, <4>2, <5>1
      <4>3. QED
        BY <1>9, <4>1, <4>2
    <3>3. QED
      BY <1>2, <1>9, <2>2, <3>1, <3>2 DEF WireOK
  <2>3. QED
    BY <2>1, <2>2
<1>13. ClientOK'
  <2>1. client.up
    BY <1>2 DEF ClientOK, Closed
  <2>2. QED
    BY <1>2, <2>1 DEF ClientOK, CursorStandsForPrefix
<1>14. \A e : Covered(known, wire, replay, e) \/ e = m.event => Covered(known, wire', replay, e)
  <2>1. CASE drops
    BY <1>2, <1>6, <1>8, <2>1
  <2>2. CASE ~drops
    BY <1>2, <1>6, <1>11, <2>2 DEF Covered
  <2>3. QED
    BY <2>1, <2>2
<1>15. Streaming'
  <2>1. conn'.replay = replay /\ conn'.pos = conn.pos + 1 /\ conn'.seen = conn.seen
        /\ conn' = [at |-> "streaming", pos |-> conn'.pos, replay |-> conn'.replay,
                    seen |-> conn'.seen]
    BY <1>2
  <2>2. \A e : OnBus(bus, conn.pos, e) => e = m.event \/ OnBus(bus, conn.pos + 1, e)
    <3>1. SUFFICES ASSUME NEW e, NEW i \in conn.pos..Len(bus), bus[i].event = e
                   PROVE  e = m.event \/ OnBus(bus, conn.pos + 1, e)
      BY DEF OnBus
    <3>2. i = conn.pos \/ i \in conn.pos + 1..Len(bus)
      BY <1>3, <3>1
    <3>3. QED
      BY <3>1, <3>2 DEF OnBus, m
  <2>3. /\ \A c \in conn.seen : c \in DOMAIN payload /\ (c # None => Covered(known, wire', replay, payload[c]))
        /\ \A e \in 1..happened : \/ Covered(known, wire', replay, e)
                                 \/ OnBus(bus, conn.pos + 1, e) \/ Pending(pubs, e)
    BY <1>2, <1>14, <2>2 DEF Streaming
  <2>4. QED
    BY <1>2, <1>3, <2>1, <2>3 DEF Streaming
<1>16. QED
  BY <1>1, <1>12, <1>13, <1>15 DEF ConnOK

LEMMA LagInv == ASSUME IInv, Lag \/ Rotate PROVE IInv'
<1> USE DEF IInv
<1>1. LogsOK' /\ PayloadOK' /\ FloorTells' /\ PubsOK' /\ BusOK'
  BY ServerUnchanged DEF Lag, Rotate
<1>2. /\ conn.at = "streaming" /\ conn' = [at |-> "ended"]
      /\ UNCHANGED <<payload, happened, wire, client>>
  BY DEF Lag, Live, Rotate
<1>3. WireOK'
  BY <1>2 DEF WireOK
<1>4. ClientOK'
  BY <1>2 DEF ClientOK, CursorStandsForPrefix, Closed
<1>5. QED
  BY <1>1, <1>2, <1>3, <1>4 DEF ConnOK

-----------------------------------------------------------------------------
(* The client and the faults *)

\* With nothing on the wire and no connection only the cursor has to be right.
LEMMA GoneInv ==
  ASSUME ClientOK, client' = [client EXCEPT !.up = FALSE], conn' = Closed, wire' = << >>,
         UNCHANGED <<payload, happened>>
  PROVE  WireOK' /\ ClientOK' /\ ConnOK'
<1>1. /\ client' \in [up : BOOLEAN, cursor : CursorSet, known : SUBSET Nat, got : SUBSET Nat]
      /\ client'.cursor = client.cursor /\ client'.known = client.known
  BY DEF ClientOK
<1>2. ClientOK'
  BY <1>1 DEF ClientOK, CursorStandsForPrefix
<1>3. WireOK'
  BY DEF WireOK
<1>4. QED
  BY <1>2, <1>3 DEF ConnOK

LEMMA CutInv == ASSUME IInv, Cut \/ ReadEnd PROVE IInv'
<1>1. LogsOK' /\ PayloadOK' /\ FloorTells' /\ PubsOK' /\ BusOK'
  BY ServerUnchanged DEF Cut, ReadEnd
<1>2. WireOK' /\ ClientOK' /\ ConnOK'
  BY GoneInv DEF Cut, ReadEnd, IInv
<1>3. QED
  BY <1>1, <1>2 DEF IInv

LEMMA ReadInv == ASSUME IInv, Read PROVE IInv'
<1> DEFINE f    == Head(wire)
           rest == Tail(wire)
           n    == Len(rest)
           known == client.known
           now  == client'.known
<1> USE DEF IInv
<1>1. LogsOK' /\ PayloadOK' /\ FloorTells' /\ PubsOK' /\ BusOK'
  BY ServerUnchanged DEF Read
<1>2. /\ wire # << >> /\ wire' = rest /\ client.up
      /\ UNCHANGED <<logs, payload, happened, bus, pubs, conn>>
      /\ happened \in Nat
  BY DEF Read, PayloadOK
<1>3. /\ wire \in Seq(FrameSet) /\ Len(wire) \in Nat /\ n \in Nat /\ Len(wire) = n + 1
      /\ rest \in Seq(FrameSet) /\ 1 \in 1..Len(wire) /\ f = wire[1]
      /\ \A i \in 1..n : rest[i] = wire[i + 1] /\ i + 1 \in 1..Len(wire)
  BY <1>2 DEF WireOK
<1>4. f \in FrameSet /\ FrameOK(payload, happened, f) /\ f.event \in 0..happened
      /\ f.kind \in {"resync", "snapshot", "event"} /\ f.cursor \in CursorSet
  BY <1>2, <1>3 DEF WireOK, FrameOK, FrameSet
<1> HIDE DEF f, rest, n
\* What the frame told is known once it is read.
<1>5. /\ client' \in [up : BOOLEAN, cursor : CursorSet, known : SUBSET Nat, got : SUBSET Nat]
      /\ client'.up
      /\ \A e \in Nat \ {0} : e \in now <=> e \in known \/ Tells(f, e)
      /\ now \subseteq 1..happened
      /\ client'.cursor = IF f.kind = "resync" THEN None
                          ELSE IF f.kind = "event" /\ f.cursor # None THEN f.cursor
                          ELSE client.cursor
  <2>0. client \in [up : BOOLEAN, cursor : CursorSet, known : SUBSET Nat, got : SUBSET Nat]
        /\ known \subseteq 1..happened /\ None \in CursorSet
    BY DEF ClientOK, None, CursorSet
  <2>1. CASE f.kind = "resync"
    <3>1. client' = [client EXCEPT !.cursor = None]
      BY <2>1 DEF Read, f
    <3>2. \A e : ~Tells(f, e)
      BY <2>1 DEF Tells
    <3>3. QED
      BY <1>2, <2>0, <2>1, <3>1, <3>2
  <2>2. CASE f.kind = "snapshot"
    <3>1. client' = [client EXCEPT !.known = @ \cup 1..f.event, !.got = {}]
      BY <2>2 DEF Read, f
    <3>2. \A e : Tells(f, e) <=> e <= f.event
      BY <2>2 DEF Tells
    <3>3. now = known \cup 1..f.event /\ client'.cursor = client.cursor /\ client'.up = client.up
          /\ client'.got = {}
      BY <2>0, <3>1
    <3>4. now \subseteq 1..happened /\ now \in SUBSET Nat
      BY <1>2, <1>4, <2>0, <3>3
    <3>5. \A e \in Nat \ {0} : e \in now <=> e \in known \/ Tells(f, e)
      BY <1>4, <3>2, <3>3
    <3>6. client' \in [up : BOOLEAN, cursor : CursorSet, known : SUBSET Nat, got : SUBSET Nat]
      <4>1. client' = [up |-> client.up, cursor |-> client.cursor, known |-> now, got |-> {}]
        BY <2>0, <3>1
      <4>2. QED
        BY <2>0, <3>4, <4>1
    <3>7. QED
      BY <1>2, <2>2, <3>3, <3>4, <3>5, <3>6
  <2>3. CASE f.kind = "event"
    <3>1. client' = [client EXCEPT !.known = @ \cup {f.event}, !.got = @ \cup {f.event},
                                   !.cursor = IF f.cursor = None THEN @ ELSE f.cursor]
      BY <2>3 DEF Read, f
    <3>2. \A e : Tells(f, e) <=> e = f.event
      BY <2>3 DEF Tells
    <3>3. f.event \in 1..happened
      BY <1>2, <1>4, <2>3 DEF FrameOK
    <3>4. client' = [up |-> client.up, cursor |-> IF f.cursor = None THEN client.cursor ELSE f.cursor,
                     known |-> known \cup {f.event}, got |-> client.got \cup {f.event}]
      BY <2>0, <3>1
    <3>5. QED
      BY <1>2, <1>4, <2>0, <2>3, <3>2, <3>3, <3>4
  <2>4. QED
    BY <1>4, <2>1, <2>2, <2>3
<1>6. \A i \in 0..n : \A e \in Nat \ {0} : Told(known, wire, i + 1, e) => Told(now, rest, i, e)
  <2>1. SUFFICES ASSUME NEW i \in 0..n, NEW e \in Nat \ {0}, Told(known, wire, i + 1, e)
                 PROVE  Told(now, rest, i, e)
    OBVIOUS
  <2>2. CASE e \in known
    BY <1>5, <2>2 DEF Told
  <2>3. CASE \E j \in 1..i + 1 : Tells(wire[j], e)
    <3>1. PICK j \in 1..i + 1 : Tells(wire[j], e)
      BY <2>3
    <3>2. CASE j = 1
      BY <1>3, <1>5, <3>1, <3>2 DEF Told
    <3>3. CASE j # 1
      <4>1. j - 1 \in 1..i /\ j - 1 \in 1..n /\ (j - 1) + 1 = j
        BY <1>3, <2>1, <3>1, <3>3
      <4>2. rest[j - 1] = wire[j]
        BY <1>3, <4>1
      <4>3. QED
        BY <3>1, <4>1, <4>2 DEF Told
    <3>4. QED
      BY <3>2, <3>3
  <2>4. QED
    BY <2>1, <2>2, <2>3 DEF Told
<1> HIDE DEF known, now
<1>7. WireOK'
  <2>1. ASSUME NEW i \in 1..n PROVE FrameOK(payload, happened, rest[i])
    BY <1>3, <2>1 DEF WireOK
  <2>2. ASSUME NEW i \in 1..n, rest[i].kind = "event", rest[i].cursor # None,
               NEW e \in 1..rest[i].event
        PROVE  Told(now, rest, i, e)
    <3>1. i + 1 \in 1..Len(wire) /\ rest[i] = wire[i + 1] /\ i \in 0..n
      BY <1>3, <2>2
    <3>2. Told(known, wire, i + 1, e)
      BY <2>2, <3>1 DEF WireOK, known
    <3>3. rest[i] \in FrameSet /\ rest[i].event \in Nat
      BY <1>3, <2>1, <2>2 DEF FrameOK, FrameSet
    <3>4. e \in Nat \ {0}
      BY <2>2, <3>3
    <3>5. QED
      BY <1>6, <3>1, <3>2, <3>4
  <2>3. QED
    BY <1>2, <1>3, <2>1, <2>2 DEF WireOK, n, now
<1>8. client'.cursor \in DOMAIN payload /\ 1..payload[client'.cursor] \subseteq now
  <2>1. None \in DOMAIN payload /\ payload[None] = 0
    BY DEF PayloadOK
  <2>2. client.cursor \in DOMAIN payload /\ payload[client.cursor] \in 0..happened
        /\ 1..payload[client.cursor] \subseteq known
    BY DEF ClientOK, CursorStandsForPrefix, known, PayloadOK
  <2>3. CASE client'.cursor = None
    <3>1. 1..payload[None] = {}
      BY <2>1
    <3>2. QED
      BY <2>1, <2>3, <3>1
  <2>4. CASE client'.cursor = client.cursor
    <3>1. \A e \in 1..payload[client.cursor] : e \in Nat \ {0}
      BY <1>2, <2>2
    <3>2. QED
      BY <1>5, <2>2, <2>4, <3>1
  <2>5. CASE f.kind = "event" /\ f.cursor # None /\ client'.cursor = f.cursor
    <3>1. f.cursor \in DOMAIN payload /\ payload[f.cursor] = f.event
      BY <1>4, <2>5 DEF FrameOK, Names
    <3>2. ASSUME NEW e \in 1..f.event PROVE e \in now
      <4>1. Told(known, wire, 1, e)
        BY <1>3, <2>5, <3>2 DEF WireOK, known
      <4>2. e \in Nat \ {0} /\ 0 \in 0..n /\ 0 + 1 = 1
        BY <1>2, <1>3, <1>4, <3>2
      <4>3. Told(now, rest, 0, e)
        BY <1>6, <4>1, <4>2
      <4>4. QED
        BY <4>3 DEF Told
    <3>3. QED
      BY <2>5, <3>1, <3>2
  <2>6. QED
    BY <1>5, <2>3, <2>4, <2>5
<1>9. ClientOK'
  BY <1>2, <1>5, <1>8 DEF ClientOK, CursorStandsForPrefix, now
<1>10. \A e \in Nat \ {0} : Told(known, wire, Len(wire), e) => Told(now, rest, Len(rest), e)
  <2>1. n \in 0..n /\ n + 1 = Len(wire) /\ n = Len(rest)
    BY <1>3 DEF n
  <2>2. QED
    BY <1>6, <2>1
<1>11. ConnOK'
  <2>1. ~Accepted /\ ~Subscribed
    BY <1>2 DEF Accepted, Subscribed, Opening
  <2>2. CASE conn = Closed \/ conn = [at |-> "ended"]
    BY <1>2, <2>2 DEF ConnOK
  <2>3. CASE Streaming
    <3>1. ASSUME NEW i \in DOMAIN conn.replay, NEW e \in 1..conn.replay[i].event
          PROVE  \/ Told(now, rest, Len(rest), e)
                 \/ \E j \in DOMAIN conn.replay : j <= i /\ conn.replay[j].event = e
      <4>1. conn.replay[i].event \in Nat
        BY <2>3, <3>1 DEF Streaming, FrameOK, FrameSet
      <4>2. e \in Nat \ {0}
        BY <3>1, <4>1
      <4>3. QED
        BY <1>10, <2>3, <3>1, <4>2 DEF Streaming, known
    <3>2. \A e \in Nat \ {0} :
             Covered(known, wire, conn.replay, e) => Covered(now, rest, conn.replay, e)
      BY <1>10 DEF Covered
    <3>3. ASSUME NEW c \in conn.seen
          PROVE  c \in DOMAIN payload /\ (c # None => Covered(now, rest, conn.replay, payload[c]))
      <4>1. c \in DOMAIN payload /\ (c # None => Covered(known, wire, conn.replay, payload[c]))
        BY <2>3, <3>3 DEF Streaming, known
      <4>2. c # None => payload[c] \in Nat \ {0}
        BY <1>2, <4>1 DEF PayloadOK
      <4>3. QED
        BY <3>2, <4>1, <4>2
    <3>4. ASSUME NEW e \in 1..happened
          PROVE  \/ Covered(now, rest, conn.replay, e)
                 \/ OnBus(bus, conn.pos, e) \/ Pending(pubs, e)
      <4>1. e \in Nat \ {0}
        BY <1>2, <3>4
      <4>2. QED
        BY <2>3, <3>2, <3>4, <4>1 DEF Streaming, known
    <3>5. \A i \in DOMAIN conn.replay : FrameOK(payload, happened, conn.replay[i])
                                        /\ conn.replay[i].kind = "event"
      BY <2>3 DEF Streaming
    <3>6. Streaming'
      BY <1>2, <2>3, <3>1, <3>3, <3>4, <3>5 DEF Streaming, now
    <3>7. QED
      BY <3>6 DEF ConnOK
  <2>4. QED
    BY <2>1, <2>2, <2>3 DEF ConnOK
<1>12. QED
  BY <1>1, <1>7, <1>9, <1>11

\* The log of a new generation has issued nothing.
\* A new log has issued nothing.
LEMMA NewLogIssuesNothing ==
  ASSUME LogsOK, PayloadOK, logs' = Append(logs, NewLog), UNCHANGED <<payload, happened>>
  PROVE  /\ LogsOK' /\ PayloadOK'
         /\ Generation \in Nat /\ Generation' = Generation + 1
         /\ \A g \in 1..Generation : logs'[g] = logs[g]
         /\ logs'[Generation + 1].lastSeq = 0 /\ logs'[Generation + 1].gapFloor = 0
<1>1. /\ logs \in Seq(LogType) /\ Generation \in Nat /\ Generation = Len(logs)
      /\ NewLog \in LogType /\ LogOK(NewLog) /\ NewLog.lastSeq = 0 /\ NewLog.gapFloor = 0
  BY NewLogOK, GenerationType DEF LogsOK, Generation
<1>2. /\ logs' \in Seq(LogType) /\ Generation' = Generation + 1
      /\ \A g \in 1..Generation : logs'[g] = logs[g]
      /\ logs'[Generation + 1] = NewLog
  BY <1>1 DEF Generation
<1> HIDE DEF NewLog
<1>3. \A g \in 1..Generation' : g = Generation + 1 \/ g \in 1..Generation
  BY <1>1, <1>2
<1>4. LogsOK'
  <2>1. \A g \in 1..Generation' : LogOK(logs'[g])
    BY <1>1, <1>2, <1>3 DEF LogsOK
  <2>2. logs' # << >>
    BY <1>1, <1>2 DEF Generation
  <2>3. QED
    BY <1>2, <2>1, <2>2 DEF LogsOK
<1>5. PayloadOK'
  <2> DEFINE old == {c \in [gen : 1..Generation, seq : Nat \ {0}] : c.seq <= logs[c.gen].lastSeq}
             new == {c \in [gen : 1..Generation', seq : Nat \ {0}] : c.seq <= logs'[c.gen].lastSeq}
  <2>1. ASSUME NEW c \in new PROVE c \in old
    <3>1. c.gen # Generation + 1
      BY <1>1, <1>2, <2>1
    <3>2. c.gen \in 1..Generation /\ logs'[c.gen] = logs[c.gen]
      BY <1>2, <1>3, <2>1, <3>1
    <3>3. QED
      BY <2>1, <3>2
  <2>2. ASSUME NEW c \in old PROVE c \in new
    <3>1. c.gen \in 1..Generation' /\ logs'[c.gen] = logs[c.gen]
      BY <1>1, <1>2, <2>2
    <3>2. QED
      BY <2>2, <3>1
  <2>3. old = new
    BY <2>1, <2>2
  <2>4. QED
    BY <2>3 DEF PayloadOK
<1>6. QED
  BY <1>1, <1>2, <1>4, <1>5

LEMMA NewGeneration ==
  ASSUME IInv, logs' = Append(logs, NewLog), UNCHANGED <<payload, happened>>
  PROVE  /\ LogsOK' /\ PayloadOK' /\ FloorTells'
         /\ Generation' \in Nat /\ Generation <= Generation'
         /\ \A g \in 1..Generation : logs'[g] = logs[g]
<1> USE DEF IInv
<1>1. /\ LogsOK' /\ PayloadOK'
      /\ Generation \in Nat /\ Generation' = Generation + 1
      /\ \A g \in 1..Generation : logs'[g] = logs[g]
      /\ logs'[Generation + 1].lastSeq = 0 /\ logs'[Generation + 1].gapFloor = 0
  BY NewLogIssuesNothing
<1>2. \A g \in 1..Generation' : g = Generation + 1 \/ g \in 1..Generation
  BY <1>1
<1>3. FloorTells'
  <2>1. ASSUME NEW g \in 1..Generation', NEW s \in logs'[g].gapFloor + 1..logs'[g].lastSeq
        PROVE  At(payload', g, s) = At(payload', g, logs'[g].lastSeq) - (logs'[g].lastSeq - s)
    <3>1. CASE g = Generation + 1
      <4>1. logs'[g].gapFloor = 0 /\ logs'[g].lastSeq = 0
        BY <1>1, <3>1
      <4>2. QED
        BY <2>1, <4>1
    <3>2. CASE g \in 1..Generation
      BY <1>1, <2>1, <3>2 DEF FloorTells
    <3>3. QED
      BY <1>2, <3>1, <3>2
  <2>2. ~ (logs'[Generation'].gapFloor < logs'[Generation'].lastSeq)
    <3>1. logs'[Generation'].gapFloor = 0 /\ logs'[Generation'].lastSeq = 0
      BY <1>1
    <3>2. QED
      BY <3>1
  <2>3. QED
    BY <2>1, <2>2 DEF FloorTells
<1> HIDE DEF IInv
<1>4. PICK last \in Nat : last = Generation
  BY <1>1
<1>5. last + 1 \in Nat /\ last <= last + 1
  OBVIOUS
<1>6. QED
  BY <1>1, <1>3, <1>4, <1>5

LEMMA CrashInv == ASSUME IInv, Crash PROVE IInv'
<1> USE DEF IInv
<1>1. LogsOK' /\ PayloadOK' /\ FloorTells'
  BY NewGeneration DEF Crash
<1>2. PubsOK'
  BY DEF Crash, PubsOK, PubType
<1>3. BusOK'
  BY DEF Crash, BusOK
<1>4. WireOK' /\ ClientOK' /\ ConnOK'
  BY GoneInv DEF Crash
<1>5. QED
  BY <1>1, <1>2, <1>3, <1>4

LEMMA RestartInv == ASSUME Setting, IInv, Restart PROVE IInv'
<1> USE DEF IInv
<1>1. /\ logs' = Append(logs, NewLog) /\ conn.at # "accepted"
      /\ UNCHANGED <<payload, happened, bus, pubs, conn, wire, client>>
      /\ \A p \in Publishers : pubs[p] = Idle
  BY DEF Restart, Setting
<1>2. /\ LogsOK' /\ PayloadOK' /\ FloorTells'
      /\ Generation' \in Nat /\ Generation <= Generation'
      /\ \A g \in 1..Generation : logs'[g] = logs[g]
  BY <1>1, NewGeneration
<1>3. PubsOK' /\ BusOK'
  BY <1>1 DEF PubsOK, BusOK
<1>4. Grows
  BY <1>1 DEF Grows, PayloadOK
<1>5. WireOK' /\ ClientOK'
  BY <1>1, <1>4, ClientStays
<1>6. ConnOK'
  <2>1. ASSUME NEW e \in 1..happened' PROVE e <= happened /\ ~Pending(pubs, e)
    BY <1>1, <2>1 DEF Pending, PayloadOK
  <2>2. Len(bus') \in Nat /\ Len(bus) <= Len(bus') /\ bus' = bus
    BY <1>1 DEF BusOK
  <2>3. QED
    BY <1>1, <1>2, <1>4, <2>1, <2>2, ConnStays
<1>7. QED
  BY <1>2, <1>3, <1>5, <1>6

-----------------------------------------------------------------------------
(* The theorems *)

LEMMA InitInv == Init => IInv
<1> SUFFICES ASSUME Init PROVE IInv
  OBVIOUS
<1>1. LogsOK /\ Generation = 1 /\ logs[1] = NewLog
  <2>1. logs = <<NewLog>>
    BY DEF Init
  <2> HIDE DEF NewLog
  <2>2. logs \in Seq(LogType) /\ Len(logs) = 1 /\ logs[1] = NewLog /\ logs # << >>
    BY <2>1, NewLogOK
  <2>3. QED
    BY <2>2, NewLogOK DEF LogsOK, Generation
<1>2. NewLog.lastSeq = 0 /\ NewLog.gapFloor = 0
  BY NewLogOK
<1> HIDE DEF NewLog
<1>3. PayloadOK
  <2>1. {c \in [gen : 1..Generation, seq : Nat \ {0}] : c.seq <= logs[c.gen].lastSeq} = {}
    BY <1>1, <1>2
  <2>2. DOMAIN payload = {None} /\ payload[None] = 0 /\ happened = 0
    BY DEF Init
  <2>3. QED
    BY <2>1, <2>2 DEF PayloadOK
<1>4. FloorTells
  BY <1>1, <1>2 DEF FloorTells
<1>5. PubsOK
  BY DEF Init, PubsOK, PubType
<1>6. BusOK /\ WireOK
  BY DEF Init, BusOK, WireOK
<1>7. ClientOK /\ ConnOK
  BY DEF Init, ClientOK, ConnOK, CursorStandsForPrefix, CursorSet, None
<1>8. QED
  BY <1>1, <1>3, <1>4, <1>5, <1>6, <1>7 DEF IInv

LEMMA NextInv ==
  ASSUME Setting, IInv, [Next]_vars
  PROVE  IInv'
<1>1. ASSUME NEW p \in Publishers, Publish(p) \/ Proceed(p) PROVE IInv'
  BY <1>1, AppendInv, SendInv, WriteFailsInv, MarkGapInv DEF Publish, Proceed
<1>2. CASE Open
  BY <1>2, OpenInv
<1>3. CASE Handle
  BY <1>3, SubscribeInv, ReadLogInv, ConnectSnapshotInv, ServeReplayInv, ServeLiveInv, LagInv
     DEF Handle
<1>4. CASE ReadFails
  BY <1>4, ReadFailsInv
<1>5. CASE Read
  BY <1>5, ReadInv
<1>6. CASE ReadEnd
  BY <1>6, CutInv
<1>7. CASE Ending
  BY <1>7, LagInv, CutInv DEF Ending
<1>8. CASE Crash
  BY <1>8, CrashInv
<1>9. CASE Restart
  BY <1>9, RestartInv
<1>10. CASE UNCHANGED vars
  <2>1. UNCHANGED <<logs, payload, happened, bus, pubs, conn, wire, client>>
    BY <1>10 DEF vars
  <2>2. LogsOK' /\ PayloadOK' /\ FloorTells' /\ PubsOK' /\ BusOK'
    BY <2>1, ServerUnchanged DEF IInv
  <2>3. WireOK'
    BY <2>1 DEF IInv, WireOK
  <2>4. ClientOK'
    BY <2>1 DEF IInv, ClientOK, CursorStandsForPrefix
  <2>5. ConnOK'
    BY <2>1 DEF IInv, ConnOK, Accepted, Subscribed, Streaming, Opening, Generation
  <2>6. QED
    BY <2>2, <2>3, <2>4, <2>5 DEF IInv
<1>11. QED
  BY <1>1, <1>2, <1>3, <1>4, <1>5, <1>6, <1>7, <1>8, <1>9, <1>10 DEF Next

\* The invariant holds in every reachable state.
THEOREM StreamInvariant ==
  ASSUME Setting
  PROVE  Spec => []IInv
<1>1. Init => IInv
  BY InitInv
<1>2. IInv /\ [Next]_vars => IInv'
  BY NextInv
<1>3. QED
  BY <1>1, <1>2, PTL DEF Spec

LEMMA CaughtUpKnows ==
  ASSUME IInv
  PROVE  NoSilentGap
<1> USE DEF IInv
<1>1. SUFFICES ASSUME CaughtUp PROVE client.known = 1..happened
  BY DEF NoSilentGap
<1>2. Streaming /\ DOMAIN conn.replay = {} /\ wire = << >> /\ Len(bus) \in Nat
      /\ conn.pos \in Nat /\ conn.pos > Len(bus)
      /\ \A p \in Publishers : pubs[p] = Idle
  BY <1>1, ConnAt DEF CaughtUp, Unsent, Streaming, BusOK
<1>3. ASSUME NEW e \in 1..happened PROVE e \in client.known
  <2>1. ~OnBus(bus, conn.pos, e) /\ ~Pending(pubs, e)
    BY <1>2 DEF OnBus, Pending
  <2>2. Told(client.known, << >>, 0, e)
    BY <1>2, <1>3, <2>1 DEF Streaming, Covered
  <2>3. QED
    BY <2>2 DEF Told
<1>4. client.known \subseteq 1..happened
  BY DEF ClientOK
<1>5. QED
  BY <1>3, <1>4

\* No silent gap (README:13): a client that has read all its stream brings knows
\* everything that happened, whatever was trimmed, lost, cut or restarted
\* (resumable, stream.rs:40-50).
THEOREM NoGapIsSilent ==
  ASSUME Setting
  PROVE  Spec => []NoSilentGap
BY StreamInvariant, CaughtUpKnows, PTL

\* A cursor the client will present stands for every event up to the one it
\* names, however it came by it (profile 1; Last-Event-ID of resumable).
THEOREM CursorsStandForPrefixes ==
  ASSUME Setting
  PROVE  Spec => []CursorStandsForPrefix
<1>1. IInv => CursorStandsForPrefix
  BY DEF IInv, ClientOK
<1>2. QED
  BY <1>1, StreamInvariant, PTL

-----------------------------------------------------------------------------
(* Types, whatever the publishers race for and the restarts overtake *)

Carries(names, last, f) == /\ f \in FrameSet /\ f.cursor \in DOMAIN names /\ f.event \in 0..last
                           /\ f.kind = "event" => f.event >= 1

PubsTyped ==
  /\ pubs \in [Publishers -> PubType]
  /\ \A p \in Publishers : pubs[p] # Idle => /\ pubs[p].cursor \in DOMAIN payload
                                             /\ pubs[p].event \in 1..happened

BusTyped ==
  /\ bus \in Seq(Message)
  /\ \A i \in 1..Len(bus) : bus[i].cursor \in DOMAIN payload /\ bus[i].event \in 1..happened

WireTyped ==
  /\ wire \in Seq(FrameSet) /\ Len(wire) <= MaxWire
  /\ \A i \in 1..Len(wire) : Carries(payload, happened, wire[i])

ClientTyped ==
  /\ client \in [up : BOOLEAN, cursor : CursorSet, known : SUBSET Nat, got : SUBSET Nat]
  /\ client.cursor \in DOMAIN payload
  /\ client.got \subseteq client.known /\ client.known \subseteq 1..happened

StreamTyped ==
  /\ conn = [at |-> "streaming", pos |-> conn.pos, replay |-> conn.replay, seen |-> conn.seen]
  /\ conn.pos \in 1..Len(bus) + 1 /\ conn.seen \subseteq DOMAIN payload
  /\ DOMAIN conn.replay \subseteq Nat
  /\ \A i \in DOMAIN conn.replay : Carries(payload, happened, conn.replay[i])

ConnTyped ==
  \/ conn = Closed \/ conn = [at |-> "ended"]
  \/ conn \in [at : {"accepted"}, gen : 1..Generation, resume : DOMAIN payload]
  \/ conn \in [at : {"subscribed"}, gen : 1..Generation, resume : DOMAIN payload,
               pos : 1..Len(bus) + 1]
  \/ StreamTyped

Typed == /\ LogsOK /\ PayloadOK /\ happened <= MaxEvents
         /\ PubsTyped /\ BusTyped /\ WireTyped /\ ClientTyped /\ ConnTyped

LEMMA CarriesStays ==
  ASSUME PayloadOK, Grows
  PROVE  \A f : Carries(payload, happened, f) => Carries(payload', happened', f)
  BY DEF Carries, Grows, PayloadOK

LEMMA BusTypedStays ==
  ASSUME Typed, Grows, bus' = bus
  PROVE  BusTyped' /\ Len(bus) \in Nat
<1>1. ASSUME NEW i \in 1..Len(bus)
      PROVE  bus[i].cursor \in DOMAIN payload' /\ bus[i].event \in 1..happened'
  BY <1>1 DEF Typed, BusTyped, Grows, PayloadOK
<1>2. QED
  BY <1>1 DEF Typed, BusTyped

LEMMA WireTypedStays ==
  ASSUME Typed, Grows, wire' = wire
  PROVE  WireTyped'
<1>1. \A i \in 1..Len(wire) : Carries(payload', happened', wire[i])
  BY CarriesStays DEF Typed, WireTyped
<1>2. QED
  BY <1>1 DEF Typed, WireTyped

LEMMA ClientTypedStays ==
  ASSUME Typed, Grows, client' = client
  PROVE  ClientTyped'
<1>1. 1..happened \subseteq 1..happened' /\ DOMAIN payload \subseteq DOMAIN payload'
  BY DEF Grows, Typed, PayloadOK
<1>2. QED
  BY <1>1 DEF Typed, ClientTyped

LEMMA ConnTypedStays ==
  ASSUME Typed, Grows, conn' = conn, Len(bus) \in Nat, Len(bus') \in Nat, Len(bus) <= Len(bus'),
         Generation \in Nat, Generation' \in Nat, Generation <= Generation'
  PROVE  ConnTyped'
<1>1. /\ DOMAIN payload \subseteq DOMAIN payload' /\ 1..Generation \subseteq 1..Generation'
      /\ 1..Len(bus) + 1 \subseteq 1..Len(bus') + 1
  BY DEF Grows
<1>2. CASE StreamTyped
  <2>1. \A i \in DOMAIN conn.replay : Carries(payload', happened', conn.replay[i])
    BY <1>2, CarriesStays DEF Typed, StreamTyped
  <2>2. QED
    BY <1>1, <1>2, <2>1 DEF StreamTyped, ConnTyped
<1>3. CASE conn = Closed \/ conn = [at |-> "ended"]
  BY <1>3 DEF ConnTyped, Closed
<1>4. CASE conn \in [at : {"accepted"}, gen : 1..Generation, resume : DOMAIN payload]
  BY <1>1, <1>4 DEF ConnTyped
<1>5. CASE conn \in [at : {"subscribed"}, gen : 1..Generation, resume : DOMAIN payload,
                     pos : 1..Len(bus) + 1]
  BY <1>1, <1>5 DEF ConnTyped
<1>6. QED
  BY <1>2, <1>3, <1>4, <1>5 DEF Typed, ConnTyped

\* What is left alone keeps its types when cursors are issued and logs change.
LEMMA RestTyped ==
  ASSUME Typed, LogsOK', PayloadOK', Grows, Generation' = Generation, happened' <= MaxEvents,
         PubsTyped', bus' = bus, UNCHANGED <<wire, client, conn>>
  PROVE  Typed'
<1>1. Generation \in Nat /\ BusTyped' /\ Len(bus) \in Nat
  BY GenerationType, BusTypedStays DEF Typed
<1>2. QED
  BY <1>1, WireTypedStays, ClientTypedStays, ConnTypedStays DEF Typed

LEMMA AppendTyped ==
  ASSUME Typed, NEW q \in Publishers, PublishAppend(q)
  PROVE  Typed'
<1>1. /\ LogsOK' /\ PayloadOK' /\ Grows /\ Generation' = Generation
  BY AppendIssues DEF Typed
<1>2. PICK c \in DOMAIN payload' \cap CursorSet :
        pubs' = [pubs EXCEPT ![q] = [at |-> "send", cursor |-> c, event |-> happened']]
  BY AppendIssues DEF Typed
<1>3. happened \in Nat /\ happened' = happened + 1 /\ happened' <= MaxEvents
  BY BoundAssumption DEF PublishAppend, Typed, PayloadOK
<1>4. PubsTyped'
  <2>1. [at |-> "send", cursor |-> c, event |-> happened'] \in PubType
    BY <1>1, <1>2 DEF PubType, Grows
  <2>2. pubs' \in [Publishers -> PubType]
    BY <1>2, <2>1 DEF Typed, PubsTyped
  <2>3. ASSUME NEW p \in Publishers, pubs'[p] # Idle
        PROVE  pubs'[p].cursor \in DOMAIN payload' /\ pubs'[p].event \in 1..happened'
    <3>1. CASE p = q
      BY <1>2, <1>3, <3>1 DEF Typed, PubsTyped
    <3>2. CASE p # q
      BY <1>1, <1>2, <1>3, <2>3, <3>2 DEF Typed, PubsTyped, Grows
    <3>3. QED
      BY <3>1, <3>2
  <2>4. QED
    BY <2>2, <2>3 DEF PubsTyped
<1>5. QED
  BY <1>1, <1>3, <1>4, RestTyped DEF PublishAppend

LEMMA WriteFailsTyped ==
  ASSUME Typed, NEW q \in Publishers, WriteFails(q)
  PROVE  Typed'
<1>1. /\ happened \in Nat /\ happened' = happened + 1 /\ happened' <= MaxEvents
      /\ pubs' = [pubs EXCEPT ![q] = [at |-> "mark", cursor |-> None, event |-> happened']]
      /\ UNCHANGED <<logs, payload, bus, conn, wire, client>>
  BY BoundAssumption DEF WriteFails, Typed, PayloadOK
<1>2. Grows /\ LogsOK' /\ Generation' = Generation
  BY <1>1 DEF Grows, Typed, LogsOK, Generation
<1>3. PayloadOK'
  <2>1. \A c \in DOMAIN payload : payload[c] \in 0..happened'
    BY <1>1 DEF Typed, PayloadOK
  <2>2. QED
    BY <1>1, <1>2, <2>1 DEF Typed, PayloadOK
<1>4. PubsTyped'
  <2>1. None \in DOMAIN payload /\ [at |-> "mark", cursor |-> None, event |-> happened'] \in PubType
    BY <1>1 DEF PubType, Typed, PayloadOK
  <2>2. pubs' \in [Publishers -> PubType]
    BY <1>1, <2>1 DEF Typed, PubsTyped
  <2>3. ASSUME NEW p \in Publishers, pubs'[p] # Idle
        PROVE  pubs'[p].cursor \in DOMAIN payload' /\ pubs'[p].event \in 1..happened'
    <3>1. CASE p = q
      BY <1>1, <2>1, <3>1 DEF Typed, PubsTyped
    <3>2. CASE p # q
      BY <1>1, <2>3, <3>2 DEF Typed, PubsTyped
    <3>3. QED
      BY <3>1, <3>2
  <2>4. QED
    BY <2>2, <2>3 DEF PubsTyped
<1>5. QED
  BY <1>1, <1>2, <1>3, <1>4, RestTyped

LEMMA MarkGapTyped ==
  ASSUME Typed, NEW q \in Publishers, MarkGap(q)
  PROVE  Typed'
<1> DEFINE G   == Generation
           new == MarkGapIn(logs[G])
<1>1. /\ G \in 1..G /\ logs[G] \in LogType /\ LogOK(logs[G])
  BY GenerationType DEF Typed
<1>2. new \in LogType /\ LogOK(new) /\ new.lastSeq = logs[G].lastSeq
  BY <1>1, MarkOK
<1>3. /\ pubs[q].at = "mark" /\ pubs[q] # Idle
      /\ logs' = [logs EXCEPT ![G] = new]
      /\ pubs' = [pubs EXCEPT ![q].at = "send"]
      /\ UNCHANGED <<payload, happened, bus, conn, wire, client>>
  BY DEF MarkGap, Idle
<1> HIDE DEF G, new
<1>4. /\ LogsOK' /\ Generation' = G /\ \A h \in 1..G : logs'[h].lastSeq = logs[h].lastSeq
  <2>1. /\ LogsOK' /\ Generation' = G /\ logs'[G] = new
        /\ \A h \in 1..G : h # G => logs'[h] = logs[h]
    BY <1>1, <1>2, <1>3, OneLog DEF G, Typed
  <2>2. QED
    BY <1>2, <2>1
<1>5. Grows /\ PayloadOK'
  BY <1>3, <1>4, NamesKept DEF G, Grows, Typed, PayloadOK
<1>6. PubsTyped'
  <2>1. /\ pubs' \in [Publishers -> PubType]
        /\ pubs'[q].event = pubs[q].event /\ pubs'[q].cursor = pubs[q].cursor
    BY <1>3 DEF Typed, PubsTyped, PubType, CursorSet, None, Idle
  <2>2. \A p \in Publishers : p # q => pubs'[p] = pubs[p]
    BY <1>3 DEF Typed, PubsTyped
  <2>3. QED
    BY <1>3, <2>1, <2>2 DEF Typed, PubsTyped
<1>7. QED
  BY <1>3, <1>4, <1>5, <1>6, RestTyped DEF G, Typed

LEMMA SendTyped ==
  ASSUME Typed, NEW q \in Publishers, PublishSend(q)
  PROVE  Typed'
<1> DEFINE m == Published(pubs[q].cursor, pubs[q].event)
<1>1. /\ bus' = Append(bus, m) /\ pubs' = [pubs EXCEPT ![q] = Idle] /\ pubs[q] # Idle
      /\ UNCHANGED <<logs, payload, happened, conn, wire, client>>
  BY DEF PublishSend, Idle
<1>2. m \in Message /\ m.cursor \in DOMAIN payload /\ m.event \in 1..happened
  <2>1. pubs[q].cursor \in DOMAIN payload /\ pubs[q].event \in 1..happened /\ happened \in Nat
    BY <1>1 DEF Typed, PubsTyped, PayloadOK
  <2>2. pubs[q].cursor \in CursorSet
    BY <2>1, CursorIsTyped DEF Typed
  <2>3. QED
    BY <2>1, <2>2 DEF Published, Message
<1> HIDE DEF m
<1>3. bus \in Seq(Message) /\ Len(bus) \in Nat
  BY DEF Typed, BusTyped
<1>4. /\ bus' \in Seq(Message) /\ Len(bus') = Len(bus) + 1
      /\ \A i \in 1..Len(bus) : bus'[i] = bus[i]
      /\ bus'[Len(bus) + 1] = m
  BY <1>1, <1>2, <1>3
<1>5. BusTyped'
  <2>1. ASSUME NEW i \in 1..Len(bus') PROVE i = Len(bus) + 1 \/ i \in 1..Len(bus)
    BY <1>3, <1>4
  <2>2. QED
    BY <1>1, <1>2, <1>4, <2>1 DEF Typed, BusTyped
<1>6. PubsTyped'
  <2>1. pubs' \in [Publishers -> PubType]
    BY <1>1 DEF Typed, PubsTyped, PubType
  <2>2. \A p \in Publishers : pubs'[p] = Idle \/ pubs'[p] = pubs[p]
    BY <1>1 DEF Typed, PubsTyped
  <2>3. QED
    BY <1>1, <2>1, <2>2 DEF Typed, PubsTyped
<1>7. Grows /\ LogsOK' /\ PayloadOK' /\ Generation' = Generation /\ Generation \in Nat
  BY <1>1, NamesKept, GenerationType DEF Grows, Typed, LogsOK, PayloadOK, Generation
<1>8. WireTyped' /\ ClientTyped' /\ ConnTyped'
  BY <1>1, <1>3, <1>4, <1>7, WireTypedStays, ClientTypedStays, ConnTypedStays
<1>9. QED
  BY <1>1, <1>5, <1>6, <1>7, <1>8 DEF Typed

LEMMA ServerTyped ==
  ASSUME Typed, LogsOK', Generation' = Generation,
         \A g \in 1..Generation : logs'[g].lastSeq = logs[g].lastSeq,
         UNCHANGED <<payload, happened, bus, pubs>>
  PROVE  PayloadOK' /\ happened' <= MaxEvents /\ PubsTyped' /\ BusTyped' /\ Grows
<1>1. PayloadOK'
  BY NamesKept DEF Typed
<1>2. QED
  BY <1>1 DEF Typed, PubsTyped, BusTyped, Grows, PayloadOK

LEMMA ServerLeft ==
  ASSUME Typed, UNCHANGED <<logs, payload, happened, bus, pubs>>
  PROVE  /\ LogsOK' /\ PayloadOK' /\ happened' <= MaxEvents /\ PubsTyped' /\ BusTyped' /\ Grows
         /\ Generation' = Generation /\ Generation \in Nat \ {0}
<1>1. LogsOK' /\ Generation' = Generation /\ Generation \in Nat \ {0}
  BY GenerationType DEF Typed, LogsOK, Generation
<1>2. QED
  BY <1>1, ServerTyped

LEMMA OpenTyped == ASSUME Typed, Open \/ Subscribe PROVE Typed'
<1>1. /\ LogsOK' /\ PayloadOK' /\ happened' <= MaxEvents /\ PubsTyped' /\ BusTyped' /\ Grows
      /\ Generation' = Generation /\ Generation \in Nat \ {0} /\ Len(bus) \in Nat
      /\ payload' = payload /\ bus' = bus
  BY ServerLeft DEF Open, Subscribe, Typed, BusTyped
<1>2. WireTyped'
  BY <1>1, WireTypedStays DEF Open, Subscribe
<1>3. ClientTyped' /\ ConnTyped'
  <2>1. CASE Open
    <3>1. client' = [client EXCEPT !.up = TRUE] /\ client \in [up : BOOLEAN, cursor : CursorSet,
            known : SUBSET Nat, got : SUBSET Nat] /\ client.cursor \in DOMAIN payload
      BY <2>1 DEF Open, Typed, ClientTyped
    <3>2. conn' = [at |-> "accepted", gen |-> Generation, resume |-> client.cursor]
      BY <2>1 DEF Open
    <3>3. ClientTyped'
      BY <1>1, <2>1, <3>1 DEF Open, Typed, ClientTyped
    <3>4. QED
      BY <1>1, <3>1, <3>2, <3>3 DEF ConnTyped
  <2>2. CASE Subscribe
    <3>1. conn.at = "accepted" /\ client' = client
          /\ conn' = [at |-> "subscribed", gen |-> conn.gen, resume |-> conn.resume,
                      pos |-> Len(bus) + 1]
      BY <2>2 DEF Subscribe
    <3>2. conn.gen \in 1..Generation /\ conn.resume \in DOMAIN payload
      BY <3>1 DEF Typed, ConnTyped, StreamTyped, Closed
    <3>3. QED
      BY <1>1, <3>1, <3>2, ClientTypedStays DEF ConnTyped
  <2>3. QED
    BY <2>1, <2>2
<1>4. QED
  BY <1>1, <1>2, <1>3 DEF Typed

\* The head of a response: nothing, or one or two frames without a cursor.
LEMMA HeadTyped ==
  ASSUME Typed, wire' \in {<< >>, <<Snapshot>>, <<Resync, Snapshot>>},
         PayloadOK', UNCHANGED <<payload, happened>>
  PROVE  WireTyped'
<1>1. None \in DOMAIN payload /\ None \in CursorSet /\ happened \in Nat /\ happened \in 0..happened
  BY DEF Typed, PayloadOK, None, CursorSet
<1>2. Resync \in FrameSet /\ Carries(payload, happened, Resync)
  BY <1>1 DEF Resync, Frame, FrameSet, Carries
<1>3. Snapshot \in FrameSet /\ Carries(payload, happened, Snapshot)
  BY <1>1 DEF Snapshot, Frame, FrameSet, Carries
<1>4. MaxWire \in Nat /\ 2 <= MaxWire
  BY BoundAssumption
<1> HIDE DEF Resync, Snapshot
<1>5. CASE wire' = << >>
  BY <1>4, <1>5 DEF WireTyped
<1>6. CASE wire' = <<Snapshot>>
  BY <1>3, <1>4, <1>6 DEF WireTyped
<1>7. CASE wire' = <<Resync, Snapshot>>
  <2>1. wire' \in Seq(FrameSet) /\ Len(wire') = 2 /\ wire'[1] = Resync /\ wire'[2] = Snapshot
    BY <1>2, <1>3, <1>7
  <2>2. \A i \in 1..2 : i = 1 \/ i = 2
    OBVIOUS
  <2>3. QED
    BY <1>2, <1>3, <1>4, <2>1, <2>2 DEF WireTyped
<1>8. QED
  BY <1>5, <1>6, <1>7

LEMMA ConnectTyped == ASSUME Typed, ConnectSnapshot \/ ReadFails PROVE Typed'
<1>1. /\ LogsOK' /\ PayloadOK' /\ happened' <= MaxEvents /\ PubsTyped' /\ BusTyped' /\ Grows
      /\ payload' = payload /\ happened' = happened /\ bus' = bus /\ client' = client
  BY ServerLeft DEF ConnectSnapshot, ReadFails
<1>2. ClientTyped'
  BY <1>1, ClientTypedStays
<1>3. WireTyped'
  BY <1>1, HeadTyped DEF ConnectSnapshot, ReadFails, Stream
<1>4. conn.at = "subscribed"
  BY DEF ConnectSnapshot, ReadFails
<1>5. conn.resume \in DOMAIN payload /\ conn.pos \in 1..Len(bus) + 1
  BY <1>4 DEF Typed, ConnTyped, StreamTyped, Closed
<1>6. PICK seen \in {{}, {conn.resume}} :
        conn' = [at |-> "streaming", pos |-> conn.pos, replay |-> << >>, seen |-> seen]
  BY DEF ConnectSnapshot, ReadFails, Stream
<1>7. StreamTyped'
  BY <1>1, <1>5, <1>6 DEF StreamTyped
<1>8. QED
  BY <1>1, <1>2, <1>3, <1>7 DEF Typed, ConnTyped

\* A replay lists cursors the log issued, whatever the limit is.
LEMMA ReplayIssued ==
  ASSUME NEW log \in LogType, LogOK(log), NEW seq \in Nat
  PROVE  LET r == SinceReply(log, T, seq, Limit, Now)
         IN  DOMAIN r.replay \subseteq Nat
             /\ \A i \in DOMAIN r.replay : r.replay[i] \in 1..log.lastSeq
<1> DEFINE r   == SinceReply(log, T, seq, Limit, Now)
           top == TrimTo(log.topics[T], Now)
           out == After(top.ring, seq)
<1>1. \A e : Expired(e).replay = << >>
  BY DEF Expired
<1>2. Unknown.replay = << >> /\ Events(<< >>).replay = << >>
  BY DEF Unknown, Events
<1>3. CASE Issued(log, seq) /\ T \in DOMAIN log.topics
  <2>1. top \in Topic /\ Holds(top, 1..log.lastSeq)
    <3>1. log.topics[T] \in Topic /\ Holds(log.topics[T], 1..log.lastSeq)
          /\ 1..log.lastSeq \subseteq Nat /\ Now \in Nat
      BY <1>3, LogTypeFields DEF LogOK, Now
    <3>2. QED
      BY <3>1, TrimHolds
  <2>2. r = RingReply(top, log.gapFloor, seq, Limit)
    BY <1>3 DEF SinceReply
  <2> HIDE DEF top
  <2>3. /\ DOMAIN top.ring = 1..Len(top.ring) /\ Len(top.ring) \in Nat
        /\ \A i \in DOMAIN top.ring : top.ring[i].seq \in 1..log.lastSeq
    BY <2>1, LenProperties DEF Topic, Holds, SeqsOf
  <2>4. DOMAIN out \subseteq Nat /\ \A i \in DOMAIN out : out[i] \in 1..log.lastSeq
    BY <2>3 DEF After
  <2>5. r.replay \in {<< >>, out}
    <3>1. r \in {Events(Taken(out, Limit)), Expired(First(After(top.ring, log.gapFloor))),
                 Expired(First(Taken(out, Limit)))}
      BY <2>2 DEF RingReply
    <3>2. Events(Taken(out, Limit)).replay = Taken(out, Limit)
      BY DEF Events
    <3>3. Taken(out, Limit) \in {<< >>, out}
      BY DEF Taken
    <3> HIDE DEF r, out
    <3>4. QED
      BY <1>1, <3>1, <3>2, <3>3
  <2>6. QED
    BY <2>4, <2>5
<1>4. CASE ~ (Issued(log, seq) /\ T \in DOMAIN log.topics)
  <2>1. r \in {Unknown, Expired(0), Events(<< >>)}
    BY <1>4 DEF SinceReply
  <2> HIDE DEF r
  <2>2. r.replay = << >>
    BY <1>1, <1>2, <2>1
  <2>3. QED
    BY <2>2 DEF r
<1>5. QED
  BY <1>3, <1>4

LEMMA ReadLogTyped == ASSUME Typed, ReadLog PROVE Typed'
<1> DEFINE g   == conn.gen
           own == conn.resume.gen = g
           log == logs[g]
           seq == conn.resume.seq
           r   == IF own THEN SinceReply(log, T, seq, Limit, Now) ELSE Unknown
           Cursor(i) == [gen |-> g, seq |-> r.replay[i]]
           replay == [i \in DOMAIN r.replay |-> Frame("event", Cursor(i), payload[Cursor(i)])]
           seen   == {Cursor(i) : i \in DOMAIN r.replay} \cup {conn.resume}
<1>1. /\ conn.at = "subscribed"
      /\ logs' = IF own THEN [logs EXCEPT ![g] = SinceLog(log, T, seq, Now)] ELSE logs
      /\ conn' = [at |-> "streaming", pos |-> conn.pos, replay |-> replay, seen |-> seen]
      /\ wire' = IF r.kind = "events" THEN << >> ELSE <<Resync, Snapshot>>
      /\ UNCHANGED <<payload, happened, bus, pubs, client>>
  BY DEF ReadLog, Stream
<1>2. /\ g \in 1..Generation /\ conn.resume \in DOMAIN payload /\ conn.pos \in 1..Len(bus) + 1
  BY <1>1 DEF Typed, ConnTyped, StreamTyped, Closed
<1>3. log \in LogType /\ LogOK(log) /\ seq \in Nat /\ log.lastSeq \in Nat
  BY <1>2, GenerationType, CursorIsTyped, LogTypeFields DEF Typed, CursorSet
<1>4. /\ LogsOK' /\ Generation' = Generation
      /\ \A h \in 1..Generation : logs'[h].lastSeq = logs[h].lastSeq
  <2>1. CASE own
    <3> DEFINE new == SinceLog(log, T, seq, Now)
    <3>1. new \in LogType /\ LogOK(new) /\ new.lastSeq = log.lastSeq
      BY <1>3, SinceOK
    <3>2. logs' = [logs EXCEPT ![g] = new]
      BY <1>1, <2>1
    <3> HIDE DEF new
    <3>3. LogsOK' /\ Generation' = Generation /\ logs'[g] = new
          /\ \A h \in 1..Generation : h # g => logs'[h] = logs[h]
      BY <1>2, <3>1, <3>2, OneLog DEF Typed
    <3>4. QED
      BY <3>1, <3>3
  <2>2. CASE ~own
    BY <1>1, <2>2 DEF Typed, LogsOK, Generation
  <2>3. QED
    BY <2>1, <2>2
<1>5. /\ PayloadOK' /\ happened' <= MaxEvents /\ PubsTyped' /\ BusTyped' /\ Grows
  BY <1>1, <1>4, ServerTyped
<1>6. WireTyped' /\ ClientTyped'
  BY <1>1, <1>5, HeadTyped, ClientTypedStays
<1>7. DOMAIN r.replay \subseteq Nat /\ \A i \in DOMAIN r.replay : r.replay[i] \in 1..log.lastSeq
  <2>1. CASE own
    BY <1>3, <2>1, ReplayIssued
  <2>2. CASE ~own
    BY <2>2 DEF Unknown
  <2>3. QED
    BY <2>1, <2>2
<1> HIDE DEF r
<1>8. ASSUME NEW i \in DOMAIN r.replay
      PROVE  Cursor(i) \in DOMAIN payload /\ Carries(payload, happened, replay[i])
  <2> DEFINE s == r.replay[i]
  <2>1. s \in 1..logs[g].lastSeq
    BY <1>7
  <2> HIDE DEF s
  <2>2. [gen |-> g, seq |-> s] \in DOMAIN payload /\ At(payload, g, s) \in 1..happened
    BY <1>2, <2>1, IssuedNames DEF Typed
  <2>3. [gen |-> g, seq |-> s] \in CursorSet /\ happened \in Nat
    BY <2>2, CursorIsTyped DEF Typed, PayloadOK
  <2> DEFINE f == Frame("event", [gen |-> g, seq |-> s], At(payload, g, s))
  <2>4. f \in FrameSet /\ f.cursor = [gen |-> g, seq |-> s] /\ f.event = At(payload, g, s)
    BY <2>2, <2>3 DEF Frame, FrameSet
  <2>5. Carries(payload, happened, f)
    BY <2>2, <2>3, <2>4 DEF Carries
  <2>6. replay[i] = f
    BY DEF At, s
  <2>7. QED
    BY <2>2, <2>5, <2>6 DEF s
<1>9. StreamTyped'
  <2>1. seen \subseteq DOMAIN payload
    BY <1>2, <1>8
  <2>2. DOMAIN replay = DOMAIN r.replay
    OBVIOUS
  <2>3. \A i \in DOMAIN replay : Carries(payload, happened, replay[i])
    BY <1>8, <2>2
  <2> HIDE DEF replay, seen
  <2>4. QED
    BY <1>1, <1>2, <1>7, <2>1, <2>2, <2>3 DEF StreamTyped
<1>10. QED
  BY <1>4, <1>5, <1>6, <1>9 DEF Typed, ConnTyped

\* One frame more on the wire, where there is room.
LEMMA SentTyped ==
  ASSUME Typed, PayloadOK', UNCHANGED <<payload, happened>>, NEW f,
         Carries(payload, happened, f), Len(wire) < MaxWire, wire' = Append(wire, f)
  PROVE  WireTyped'
<1>1. wire \in Seq(FrameSet) /\ Len(wire) \in Nat /\ f \in FrameSet
  BY DEF Typed, WireTyped, Carries
<1>2. /\ wire' \in Seq(FrameSet) /\ Len(wire') = Len(wire) + 1
      /\ \A i \in 1..Len(wire) : wire'[i] = wire[i]
      /\ wire'[Len(wire) + 1] = f
  BY <1>1
<1>3. Len(wire') <= MaxWire
  BY <1>1, <1>2, BoundAssumption
<1>4. ASSUME NEW i \in 1..Len(wire') PROVE i = Len(wire) + 1 \/ i \in 1..Len(wire)
  BY <1>1, <1>2
<1>5. QED
  BY <1>2, <1>3, <1>4 DEF Typed, WireTyped

LEMMA ServeReplayTyped == ASSUME Typed, ServeReplay PROVE Typed'
<1> DEFINE next   == Min(DOMAIN conn.replay)
           replay == Restrict(conn.replay, DOMAIN conn.replay \ {next})
<1>1. /\ LogsOK' /\ PayloadOK' /\ happened' <= MaxEvents /\ PubsTyped' /\ BusTyped' /\ Grows
      /\ ClientTyped'
  BY ServerLeft, ClientTypedStays DEF ServeReplay
<1>2. /\ conn.at = "streaming" /\ DOMAIN conn.replay # {} /\ Len(wire) < MaxWire
      /\ wire' = Append(wire, conn.replay[next])
      /\ conn' = [conn EXCEPT !.replay = replay]
      /\ UNCHANGED <<payload, happened, bus>>
  BY DEF ServeReplay, Unsent
<1>3. StreamTyped
  BY <1>2 DEF Typed, ConnTyped, Closed
<1>4. next \in DOMAIN conn.replay
  BY <1>2, <1>3, MinOfNaturals DEF StreamTyped
<1>5. conn' = [at |-> "streaming", pos |-> conn.pos, replay |-> replay, seen |-> conn.seen]
  BY <1>2, <1>3 DEF StreamTyped
<1> HIDE DEF next
<1>6. /\ DOMAIN replay \subseteq DOMAIN conn.replay
      /\ \A i \in DOMAIN replay : replay[i] = conn.replay[i]
  BY DEF Restrict
<1> HIDE DEF replay
<1>7. WireTyped'
  BY <1>1, <1>2, <1>3, <1>4, SentTyped DEF StreamTyped
<1>8. StreamTyped'
  BY <1>2, <1>3, <1>5, <1>6 DEF StreamTyped
<1>9. QED
  BY <1>1, <1>7, <1>8 DEF Typed, ConnTyped

LEMMA ServeLiveTyped == ASSUME Typed, ServeLive PROVE Typed'
<1> DEFINE m == bus[conn.pos]
           f == Frame("event", m.cursor, m.event)
<1>1. /\ LogsOK' /\ PayloadOK' /\ happened' <= MaxEvents /\ PubsTyped' /\ BusTyped' /\ Grows
      /\ ClientTyped'
  BY ServerLeft, ClientTypedStays DEF ServeLive
<1>2. /\ conn.at = "streaming" /\ conn.pos <= Len(bus) /\ Len(wire) < MaxWire
      /\ wire' = wire \/ wire' = Append(wire, f)
      /\ conn' = [conn EXCEPT !.pos = @ + 1]
      /\ UNCHANGED <<payload, happened, bus>>
  BY DEF ServeLive, Live
<1>3. StreamTyped
  BY <1>2 DEF Typed, ConnTyped, Closed
<1>4. conn.pos \in 1..Len(bus) /\ Len(bus) \in Nat /\ conn.pos + 1 \in 1..Len(bus) + 1
  BY <1>2, <1>3 DEF StreamTyped, Typed, BusTyped
<1>5. Carries(payload, happened, f)
  <2>1. m \in Message /\ m.cursor \in DOMAIN payload /\ m.event \in 1..happened /\ happened \in Nat
    BY <1>4 DEF Typed, BusTyped, PayloadOK
  <2> HIDE DEF m
  <2>2. f \in FrameSet /\ f.cursor = m.cursor /\ f.event = m.event
    BY <2>1 DEF Frame, FrameSet, Message
  <2>3. QED
    BY <2>1, <2>2 DEF Carries
<1> HIDE DEF f
<1>6. WireTyped'
  BY <1>1, <1>2, <1>5, SentTyped, WireTypedStays
<1>7. conn' = [at |-> "streaming", pos |-> conn.pos + 1, replay |-> conn.replay,
               seen |-> conn.seen]
  BY <1>2, <1>3 DEF StreamTyped
<1>8. StreamTyped'
  BY <1>2, <1>3, <1>4, <1>7 DEF StreamTyped
<1>9. QED
  BY <1>1, <1>6, <1>8 DEF Typed, ConnTyped

LEMMA EndTyped == ASSUME Typed, Lag \/ Rotate \/ Cut \/ ReadEnd PROVE Typed'
<1>1. /\ LogsOK' /\ PayloadOK' /\ happened' <= MaxEvents /\ PubsTyped' /\ BusTyped' /\ Grows
      /\ UNCHANGED <<payload, happened>>
  BY ServerLeft DEF Lag, Rotate, Cut, ReadEnd
<1>2. ConnTyped'
  BY DEF Lag, Rotate, Cut, ReadEnd, ConnTyped
<1>3. WireTyped'
  BY <1>1, HeadTyped, WireTypedStays DEF Lag, Rotate, Cut, ReadEnd
<1>4. ClientTyped'
  <2>1. CASE client' = client
    BY <1>1, <2>1, ClientTypedStays
  <2>2. CASE client' = [client EXCEPT !.up = FALSE]
    BY <1>1, <2>2 DEF Typed, ClientTyped
  <2>3. QED
    BY <2>1, <2>2 DEF Lag, Rotate, Cut, ReadEnd
<1>5. QED
  BY <1>1, <1>2, <1>3, <1>4 DEF Typed

LEMMA ReadTyped == ASSUME Typed, Read PROVE Typed'
<1> DEFINE f    == Head(wire)
           rest == Tail(wire)
<1>1. /\ LogsOK' /\ PayloadOK' /\ happened' <= MaxEvents /\ PubsTyped' /\ BusTyped' /\ Grows
      /\ Generation' = Generation /\ Generation \in Nat /\ Len(bus) \in Nat
      /\ wire # << >> /\ wire' = rest /\ UNCHANGED <<payload, happened, bus, conn>>
  BY ServerLeft DEF Read, Typed, BusTyped
<1>2. /\ wire \in Seq(FrameSet) /\ Len(wire) \in Nat \ {0} /\ Len(rest) = Len(wire) - 1
      /\ rest \in Seq(FrameSet) /\ f = wire[1]
      /\ \A i \in 1..Len(rest) : rest[i] = wire[i + 1] /\ i + 1 \in 1..Len(wire)
  BY <1>1 DEF Typed, WireTyped
<1>3. Carries(payload, happened, f)
  BY <1>2 DEF Typed, WireTyped
<1> HIDE DEF f, rest
<1>4. WireTyped'
  <2>1. Len(rest) <= MaxWire
    BY <1>2, BoundAssumption DEF Typed, WireTyped
  <2>2. QED
    BY <1>1, <1>2, <2>1 DEF Typed, WireTyped
<1>5. ClientTyped'
  <2>1. /\ f \in FrameSet /\ f.cursor \in DOMAIN payload /\ f.event \in 0..happened
        /\ f.kind \in {"resync", "snapshot", "event"} /\ f.cursor \in CursorSet
    BY <1>3 DEF Carries, FrameSet
  <2>2. /\ client \in [up : BOOLEAN, cursor : CursorSet, known : SUBSET Nat, got : SUBSET Nat]
        /\ client.cursor \in DOMAIN payload /\ happened \in Nat /\ None \in DOMAIN payload
        /\ None \in CursorSet /\ client.got \subseteq client.known
        /\ client.known \subseteq 1..happened
    BY DEF Typed, ClientTyped, PayloadOK, None, CursorSet
  <2>3. CASE f.kind = "resync"
    <3>1. client' = [client EXCEPT !.cursor = None]
      BY <2>3 DEF Read, f
    <3>2. QED
      BY <1>1, <2>2, <3>1 DEF ClientTyped
  <2>4. CASE f.kind = "snapshot"
    <3>1. client' = [client EXCEPT !.known = client.known \cup 1..f.event, !.got = {}]
      BY <2>4 DEF Read, f
    <3>2. PICK known : known = client.known \cup 1..f.event
      OBVIOUS
    <3>3. f.event \in Nat /\ f.event <= happened
      BY <2>1, <2>2
    <3>4. known \subseteq 1..happened /\ known \in SUBSET Nat
      BY <2>2, <3>2, <3>3
    <3>5. client' = [client EXCEPT !.known = known, !.got = {}]
      BY <3>1, <3>2
    <3>6. /\ client' \in [up : BOOLEAN, cursor : CursorSet, known : SUBSET Nat, got : SUBSET Nat]
          /\ client'.cursor = client.cursor /\ client'.got = {} /\ client'.known = known
      BY <2>2, <3>4, <3>5
    <3>7. QED
      BY <1>1, <2>2, <3>4, <3>6 DEF ClientTyped
  <2>5. CASE f.kind = "event"
    <3>1. PICK known, got, cursor :
            /\ known = client.known \cup {f.event} /\ got = client.got \cup {f.event}
            /\ cursor = IF f.cursor = None THEN client.cursor ELSE f.cursor
      OBVIOUS
    <3>2. client' = [client EXCEPT !.known = known, !.got = got, !.cursor = cursor]
      BY <2>5, <3>1 DEF Read, f
    <3>3. f.event \in 1..happened
      BY <1>3, <2>1, <2>2, <2>5 DEF Carries
    <3>4. /\ known \subseteq 1..happened /\ known \in SUBSET Nat /\ got \subseteq known
          /\ got \in SUBSET Nat /\ cursor \in DOMAIN payload /\ cursor \in CursorSet
      BY <2>1, <2>2, <3>1, <3>3
    <3>5. /\ client' \in [up : BOOLEAN, cursor : CursorSet, known : SUBSET Nat, got : SUBSET Nat]
          /\ client'.cursor = cursor /\ client'.got = got /\ client'.known = known
      BY <2>2, <3>2, <3>4
    <3>6. QED
      BY <1>1, <3>4, <3>5 DEF ClientTyped
  <2>6. QED
    BY <2>1, <2>3, <2>4, <2>5
<1>6. ConnTyped'
  BY <1>1, ConnTypedStays
<1>7. QED
  BY <1>1, <1>4, <1>5, <1>6 DEF Typed

LEMMA RestartTyped == ASSUME Typed, Crash \/ Restart PROVE Typed'
<1>1. /\ logs' = Append(logs, NewLog) /\ UNCHANGED <<payload, happened>>
  BY DEF Crash, Restart
<1>2. /\ LogsOK' /\ PayloadOK' /\ Generation \in Nat /\ Generation' = Generation + 1
  BY <1>1, NewLogIssuesNothing DEF Typed
<1>3. Grows /\ happened' <= MaxEvents
  BY <1>1 DEF Grows, Typed, PayloadOK
<1>4. CASE Crash
  <2>1. PubsTyped' /\ BusTyped'
    BY <1>4 DEF Crash, PubsTyped, PubType, BusTyped
  <2>2. WireTyped' /\ ConnTyped'
    BY <1>1, <1>2, <1>4, HeadTyped DEF Crash, ConnTyped
  <2>3. ClientTyped'
    BY <1>1, <1>4 DEF Crash, Typed, ClientTyped
  <2>4. QED
    BY <1>2, <1>3, <2>1, <2>2, <2>3 DEF Typed
<1>5. CASE Restart
  <2>1. UNCHANGED <<bus, pubs, conn, wire, client>>
    BY <1>5 DEF Restart
  <2>2. PubsTyped' /\ BusTyped' /\ Len(bus) \in Nat /\ Len(bus') \in Nat
    BY <1>1, <2>1 DEF Typed, PubsTyped, BusTyped
  <2>3. Generation' \in Nat /\ Generation <= Generation'
    BY <1>2
  <2>4. WireTyped' /\ ClientTyped' /\ ConnTyped'
    BY <1>2, <1>3, <2>1, <2>2, <2>3, WireTypedStays, ClientTypedStays, ConnTypedStays
  <2>5. QED
    BY <1>2, <1>3, <2>2, <2>4 DEF Typed
<1>6. QED
  BY <1>4, <1>5

LEMMA InitTyped == Init => Typed
<1> SUFFICES ASSUME Init PROVE Typed
  OBVIOUS
<1>1. LogsOK /\ PayloadOK /\ happened = 0 /\ 0 <= MaxEvents
  BY InitInv, BoundAssumption DEF IInv, Init
<1>2. None \in DOMAIN payload /\ None \in CursorSet
  BY DEF Init, None, CursorSet
<1>3. PubsTyped /\ BusTyped /\ ConnTyped
  BY DEF Init, PubsTyped, PubType, BusTyped, ConnTyped
<1>4. WireTyped /\ ClientTyped
  BY <1>1, <1>2, BoundAssumption DEF Init, WireTyped, ClientTyped
<1>5. QED
  BY <1>1, <1>3, <1>4 DEF Typed

LEMMA NextTyped == ASSUME Typed, [Next]_vars PROVE Typed'
<1>1. ASSUME NEW p \in Publishers, Publish(p) \/ Proceed(p) PROVE Typed'
  BY <1>1, AppendTyped, WriteFailsTyped, MarkGapTyped, SendTyped DEF Publish, Proceed
<1>2. CASE Open \/ Handle \/ ReadFails
  BY <1>2, OpenTyped, ReadLogTyped, ConnectTyped, ServeReplayTyped, ServeLiveTyped, EndTyped
     DEF Handle
<1>3. CASE Read
  BY <1>3, ReadTyped
<1>4. CASE ReadEnd \/ Ending
  BY <1>4, EndTyped DEF Ending
<1>5. CASE Crash \/ Restart
  BY <1>5, RestartTyped
<1>6. CASE UNCHANGED vars
  <2>1. UNCHANGED <<logs, payload, happened, bus, pubs, conn, wire, client>>
    BY <1>6 DEF vars
  <2>2. LogsOK' /\ Generation' = Generation
    BY <2>1 DEF Typed, LogsOK, Generation
  <2>3. Grows /\ PayloadOK' /\ PubsTyped'
    BY <2>1, <2>2, NamesKept DEF Grows, Typed, PayloadOK, PubsTyped
  <2>4. QED
    BY <2>1, <2>2, <2>3, RestTyped DEF Typed
<1>7. QED
  BY <1>1, <1>2, <1>3, <1>4, <1>5, <1>6 DEF Next

LEMMA TypedIsTyped == Typed => TypeOK
<1> SUFFICES ASSUME Typed PROVE TypeOK
  OBVIOUS
<1>1. \A g \in 1..Generation : logs[g].topics \in [DOMAIN logs[g].topics -> Topic]
  BY GenerationType DEF Typed, LogType
<1>2. DOMAIN payload \subseteq Cursors /\ happened \in 0..MaxEvents
  BY BoundAssumption DEF Typed, PayloadOK, Cursors
<1>3. \A i \in DOMAIN bus : bus[i].cursor \in DOMAIN payload /\ bus[i].event \in 1..happened
  BY DEF Typed, BusTyped
<1>4. \A p \in Publishers : pubs[p].at \in {"idle", "mark", "send"}
  BY DEF Typed, PubsTyped, PubType, Idle
<1>5. \A f : Carries(payload, happened, f) => IsFrame(f)
  BY DEF Carries, FrameSet, IsFrame
<1>6. conn.at \in {"closed", "accepted", "subscribed", "streaming", "ended"}
  BY DEF Typed, ConnTyped, StreamTyped, Closed
<1>7. conn.at = "streaming" => StreamTyped
  BY DEF Typed, ConnTyped, Closed
<1>8. /\ \A i \in DOMAIN wire : IsFrame(wire[i])
      /\ Len(wire) <= MaxWire
  BY <1>5 DEF Typed, WireTyped
<1>9. client.up \in BOOLEAN /\ client.cursor \in DOMAIN payload
      /\ client.got \subseteq client.known /\ client.known \subseteq 1..happened
  BY DEF Typed, ClientTyped
<1>10. QED
  BY <1>1, <1>2, <1>3, <1>4, <1>5, <1>6, <1>7, <1>8, <1>9 DEF TypeOK, StreamTyped

\* Whatever the number of publishers, and with a restart that overtakes a
\* handler that opens, the stream keeps its types: no frame, bus message,
\* replay or client ever holds a cursor that no log issued (resumable,
\* stream.rs:40-50).
THEOREM StreamTypes == Spec => []TypeOK
<1>1. Typed /\ [Next]_vars => Typed'
  BY NextTyped
<1>2. QED
  BY <1>1, InitTyped, TypedIsTyped, PTL DEF Spec

-----------------------------------------------------------------------------
(***************************************************************************)
(* Events are delivered at most once and in order, in the same setting.     *)
(* What the invariant above lacks is that events follow one another: what   *)
(* the client got, what is on the wire, what is left of the replay, and     *)
(* what the bus will bring, but for the messages the stream will drop.      *)
(***************************************************************************)

\* No cursor names the event: its write failed.
Lost(names, e) == \A c \in DOMAIN names : c = None \/ names[c] # e

\* The next snapshot, which lets the client begin anew, is behind it.
Fresh(frames) == \A i \in 1..Len(frames) : frames[i].kind # "snapshot"

\* The event comes after all that the client got, and will get from the wire.
Beyond(frames, got, e) ==
  /\ Fresh(frames) => \A g \in got : g < e
  /\ \A i \in 1..Len(frames) : frames[i].kind = "event" => frames[i].event < e

-----------------------------------------------------------------------------
(* The inductive invariant *)

OneName ==
  \A c, d \in DOMAIN payload : c # None /\ payload[c] = payload[d] => c = d

\* What comes without a cursor has none.
LostOK ==
  /\ \A i \in 1..Len(bus) : bus[i].cursor = None => Lost(payload, bus[i].event)
  /\ \A p \in Publishers : pubs[p] # Idle /\ pubs[p].cursor = None =>
       Lost(payload, pubs[p].event)
  /\ \A i \in 1..Len(wire) : wire[i].kind = "event" /\ wire[i].cursor = None =>
       Lost(payload, wire[i].event)

\* Only the bus brings a lost event.
Unseen ==
  \A p \in Publishers : pubs[p] # Idle /\ pubs[p].cursor = None =>
    /\ pubs[p].event \notin client.got
    /\ \A i \in 1..Len(wire) : wire[i].kind = "event" => wire[i].event # pubs[p].event

WireOrder ==
  \A i \in 1..Len(wire) : wire[i].kind = "event" =>
    /\ Fresh(wire) => \A e \in client.got : e < wire[i].event
    /\ \A j \in 1..Len(wire) : i < j =>
         wire[j].kind = "event" /\ wire[i].event < wire[j].event

\* What the client got after the event of its cursor has no cursor.
GotOrder ==
  /\ client.got \subseteq 1..happened
  /\ client.cursor # None =>
       \A e \in client.got : e <= payload[client.cursor] \/ Lost(payload, e)

SubscribedOrder ==
  conn.at = "subscribed" /\ conn.resume # None =>
    \A i \in conn.pos..Len(bus) :
      /\ payload[conn.resume] <= bus[i].event
      /\ \A e \in client.got : e < bus[i].event \/ bus[i].event = payload[conn.resume]

\* A message that the stream has yet to take is one that it will drop, or
\* comes after all that it has sent or will replay.
Follows(cursor, event) ==
  \/ cursor # None /\ cursor \in conn.seen
  \/ /\ Beyond(wire, client.got, event)
     /\ \A j \in DOMAIN conn.replay : conn.replay[j].event < event

StreamingOrder ==
  conn.at = "streaming" =>
    /\ \A i \in DOMAIN conn.replay :
         /\ conn.replay[i].cursor # None
         /\ Beyond(wire, client.got, conn.replay[i].event)
         /\ \A j \in DOMAIN conn.replay : i < j => conn.replay[i].event < conn.replay[j].event
    /\ \A i \in conn.pos..Len(bus) : Follows(bus[i].cursor, bus[i].event)
    /\ \A p \in Publishers : pubs[p] # Idle => Follows(pubs[p].cursor, pubs[p].event)

OInv == /\ OneName /\ LostOK /\ Unseen
        /\ WireOrder /\ GotOrder /\ SubscribedOrder /\ StreamingOrder

-----------------------------------------------------------------------------
(* The publisher *)

\* Everything that is under way has happened.
LEMMA NothingIsAhead ==
  ASSUME IInv, OInv, NEW e \in Nat, e > happened
  PROVE  /\ Beyond(wire, client.got, e)
         /\ conn.at = "streaming" => \A j \in DOMAIN conn.replay : conn.replay[j].event < e
         /\ \A g \in client.got : g # e
         /\ \A i \in 1..Len(wire) : wire[i].event # e
         /\ Lost(payload, e)
<1> USE DEF IInv, OInv
<1>1. happened \in Nat /\ \A g \in 1..happened : g < e
  BY DEF PayloadOK
<1>2. \A g \in client.got : g < e /\ g # e
  BY <1>1 DEF GotOrder
<1>3. \A i \in 1..Len(wire) : wire[i].event < e /\ wire[i].event # e
  BY <1>1 DEF WireOK, FrameOK, FrameSet
<1>4. ASSUME conn.at = "streaming", NEW j \in DOMAIN conn.replay
      PROVE  conn.replay[j].event < e
  <2>1. FrameOK(payload, happened, conn.replay[j])
    BY <1>4, ConnAt DEF Streaming
  <2>2. QED
    BY <1>1, <2>1 DEF FrameOK, FrameSet
<1>5. Lost(payload, e)
  <2>1. \A c \in DOMAIN payload : payload[c] \in 0..happened
    BY DEF PayloadOK
  <2>2. QED
    BY <1>1, <2>1 DEF Lost
<1>6. QED
  BY <1>2, <1>3, <1>4, <1>5 DEF Beyond

\* An append names its event with a cursor of its own.
LEMMA AppendNames ==
  ASSUME IInv, NEW q \in Publishers, PublishAppend(q)
  PROVE  \E c : /\ c # None /\ c \notin DOMAIN payload
                /\ DOMAIN payload' = DOMAIN payload \cup {c}
                /\ payload'[c] = happened + 1
                /\ \A d \in DOMAIN payload : payload'[d] = payload[d]
                /\ pubs'[q] = [at |-> "send", cursor |-> c, event |-> happened + 1]
<1> DEFINE G   == Generation
           log == logs[G]
           new == AppendTo(log, T, Now)
           c   == [gen |-> G, seq |-> new.lastSeq]
<1> USE DEF IInv
<1>1. G \in Nat \ {0} /\ G \in 1..G /\ log \in LogType /\ LogOK(log) /\ log.lastSeq \in Nat
  BY GenerationType, LogTypeFields
<1>2. new.lastSeq = log.lastSeq + 1
  BY <1>1, AppendOK
<1>3. /\ payload' = [d \in DOMAIN payload \cup {c} |-> IF d = c THEN happened' ELSE payload[d]]
      /\ happened' = happened + 1
      /\ pubs' = [pubs EXCEPT ![q] = [at |-> "send", cursor |-> c, event |-> happened']]
  BY DEF PublishAppend
<1>4. c # None
  BY <1>1 DEF None
<1>5. c \notin DOMAIN payload
  <2> HIDE DEF new
  <2>1. c \notin {d \in [gen : 1..Generation, seq : Nat \ {0}] : d.seq <= logs[d.gen].lastSeq}
    BY <1>1, <1>2
  <2>2. QED
    BY <1>4, <2>1 DEF PayloadOK
<1> HIDE DEF c
<1>6. pubs'[q] = [at |-> "send", cursor |-> c, event |-> happened + 1]
  BY <1>3 DEF PubsOK
<1>7. QED
  BY <1>3, <1>4, <1>5, <1>6

LEMMA AppendOrder ==
  ASSUME Setting, IInv, OInv, NEW q \in Publishers, PublishAppend(q)
  PROVE  OInv'
<1> USE DEF IInv, OInv
<1>0. Publishers = {q} /\ happened \in Nat
  BY DEF Setting, PayloadOK
<1>1. PICK c : /\ c # None /\ c \notin DOMAIN payload
               /\ DOMAIN payload' = DOMAIN payload \cup {c}
               /\ payload'[c] = happened + 1
               /\ \A d \in DOMAIN payload : payload'[d] = payload[d]
               /\ pubs'[q] = [at |-> "send", cursor |-> c, event |-> happened + 1]
  BY AppendNames
<1>2. UNCHANGED <<bus, conn, wire, client>> /\ happened' = happened + 1
  BY DEF PublishAppend
<1>3. \A e \in 0..happened : Lost(payload, e) => Lost(payload', e)
  BY <1>0, <1>1 DEF Lost
<1>4. OneName'
  <2>1. \A d \in DOMAIN payload : payload[d] # happened + 1
    BY <1>0 DEF PayloadOK
  <2>2. QED
    BY <1>1, <2>1 DEF OneName
<1>5. LostOK'
  <2>1. \A i \in 1..Len(bus) : bus[i].event \in 0..happened
    BY <1>0 DEF BusOK
  <2>2. \A i \in 1..Len(wire) : wire[i].event \in 0..happened
    BY <1>0 DEF WireOK, FrameOK, FrameSet
  <2>3. QED
    BY <1>0, <1>1, <1>2, <1>3, <2>1, <2>2 DEF LostOK
<1>6. Unseen' /\ WireOrder'
  BY <1>0, <1>1, <1>2 DEF Unseen, WireOrder
<1>7. GotOrder'
  <2>1. client.cursor \in DOMAIN payload
    BY DEF ClientOK
  <2>2. client.got \subseteq 1..happened'
    BY <1>0, <1>2 DEF GotOrder
  <2>3. \A e \in client.got : e \in 0..happened
    BY <1>0 DEF GotOrder
  <2>4. payload'[client.cursor] = payload[client.cursor]
    BY <1>1, <2>1
  <2>5. QED
    BY <1>2, <1>3, <2>2, <2>3, <2>4 DEF GotOrder
<1>8. SubscribedOrder'
  <2>1. conn.at = "subscribed" => conn.resume \in DOMAIN payload
    BY ConnAt DEF Subscribed, Opening, ClientOK
  <2>2. QED
    BY <1>1, <1>2, <2>1 DEF SubscribedOrder
<1>9. StreamingOrder'
  <2>1. conn.at = "streaming" => Follows(c, happened + 1)
    BY <1>0, NothingIsAhead DEF Follows
  <2>2. QED
    BY <1>0, <1>1, <1>2, <2>1 DEF StreamingOrder, Follows
<1>10. QED
  BY <1>4, <1>5, <1>6, <1>7, <1>8, <1>9

LEMMA WriteFailsOrder ==
  ASSUME Setting, IInv, OInv, NEW q \in Publishers, WriteFails(q)
  PROVE  OInv'
<1> USE DEF IInv, OInv
<1>0. Publishers = {q} /\ happened \in Nat
  BY DEF Setting, PayloadOK
<1>1. /\ pubs'[q] = [at |-> "mark", cursor |-> None, event |-> happened + 1]
      /\ UNCHANGED <<payload, bus, conn, wire, client>> /\ happened' = happened + 1
  BY DEF WriteFails, PubsOK
<1>2. OneName' /\ WireOrder' /\ SubscribedOrder'
  BY <1>1 DEF OneName, WireOrder, SubscribedOrder
<1>3. LostOK' /\ Unseen'
  <2>1. /\ Lost(payload, happened + 1) /\ happened + 1 \notin client.got
        /\ \A i \in 1..Len(wire) : wire[i].event # happened + 1
    BY <1>0, NothingIsAhead
  <2>2. QED
    BY <1>0, <1>1, <2>1 DEF LostOK, Unseen
<1>4. GotOrder'
  <2>1. client.got \subseteq 1..happened'
    BY <1>0, <1>1 DEF GotOrder
  <2>2. QED
    BY <1>1, <2>1 DEF GotOrder
<1>5. StreamingOrder'
  <2>1. conn.at = "streaming" => Follows(None, happened + 1)
    BY <1>0, NothingIsAhead DEF Follows
  <2>2. QED
    BY <1>0, <1>1, <2>1 DEF StreamingOrder, Follows
<1>6. QED
  BY <1>2, <1>3, <1>4, <1>5

LEMMA MarkGapOrder ==
  ASSUME Setting, IInv, OInv, NEW q \in Publishers, MarkGap(q)
  PROVE  OInv'
<1> USE DEF OInv
<1>0. Publishers = {q}
  BY DEF Setting
<1>1. /\ pubs[q] # Idle /\ pubs'[q].cursor = pubs[q].cursor /\ pubs'[q].event = pubs[q].event
      /\ UNCHANGED <<payload, happened, bus, conn, wire, client>>
  <2>1. pubs[q].at = "mark" /\ pubs[q] \in PubType /\ pubs' = [pubs EXCEPT ![q].at = "send"]
        /\ UNCHANGED <<payload, happened, bus, conn, wire, client>>
    BY DEF MarkGap, IInv, PubsOK
  <2>2. pubs[q] \in [at : {"mark"}, cursor : {None}, event : Nat]
    BY <2>1 DEF PubType, Idle
  <2>3. pubs'[q] = [pubs[q] EXCEPT !.at = "send"]
    BY <2>1 DEF IInv, PubsOK
  <2>4. QED
    BY <2>1, <2>2, <2>3 DEF Idle
<1>2. OneName' /\ WireOrder' /\ SubscribedOrder' /\ GotOrder'
  BY <1>1 DEF OneName, WireOrder, SubscribedOrder, GotOrder
<1>3. LostOK' /\ Unseen'
  BY <1>0, <1>1 DEF LostOK, Unseen
<1>4. StreamingOrder'
  BY <1>0, <1>1 DEF StreamingOrder, Follows
<1>5. QED
  BY <1>2, <1>3, <1>4

LEMMA SendOrder ==
  ASSUME Setting, IInv, OInv, NEW q \in Publishers, PublishSend(q)
  PROVE  OInv'
<1> DEFINE m == Published(pubs[q].cursor, pubs[q].event)
<1> USE DEF IInv, OInv
<1>0. Publishers = {q} /\ happened \in Nat
  BY DEF Setting, PayloadOK
<1>1. /\ pubs[q] # Idle /\ pubs'[q] = Idle /\ bus' = Append(bus, m)
      /\ UNCHANGED <<payload, happened, conn, wire, client>>
  BY DEF PublishSend, Idle, PubsOK
<1>2. /\ m.cursor = pubs[q].cursor /\ m.event = pubs[q].event /\ m.event = happened
      /\ Names(payload, m.cursor, m.event)
  BY <1>1 DEF PubsOK, Published
<1> HIDE DEF m
<1>3. /\ bus \in Seq(Message) /\ Len(bus) \in Nat /\ Len(bus') = Len(bus) + 1
      /\ \A i \in 1..Len(bus) : bus'[i] = bus[i]
      /\ bus'[Len(bus) + 1] = m
  BY <1>1 DEF BusOK
<1>4. \A i \in 1..Len(bus') : i \in 1..Len(bus) \/ i = Len(bus) + 1
  BY <1>3
<1>5. OneName' /\ WireOrder' /\ GotOrder' /\ Unseen'
  BY <1>0, <1>1 DEF OneName, WireOrder, GotOrder, Unseen
<1>6. LostOK'
  BY <1>0, <1>1, <1>2, <1>3, <1>4 DEF LostOK
<1>7. SubscribedOrder'
  <2>1. SUFFICES ASSUME conn.at = "subscribed", conn.resume # None, NEW i \in conn.pos..Len(bus')
                 PROVE  /\ payload[conn.resume] <= bus'[i].event
                        /\ \A e \in client.got : e < bus'[i].event
                                                 \/ bus'[i].event = payload[conn.resume]
    BY <1>1 DEF SubscribedOrder
  <2>2. /\ conn.resume = client.cursor /\ conn.pos \in Nat \ {0}
        /\ client.cursor \in DOMAIN payload /\ payload[client.cursor] \in 0..happened
    BY <2>1, ConnAt DEF Subscribed, Opening, ClientOK, PayloadOK
  <2>3. CASE i \in 1..Len(bus)
    <3>1. i \in conn.pos..Len(bus)
      BY <1>3, <2>1, <2>2, <2>3
    <3>2. QED
      BY <1>3, <2>1, <2>3, <3>1 DEF SubscribedOrder
  <2>4. CASE i = Len(bus) + 1
    <3>1. bus'[i].event = happened
      BY <1>2, <1>3, <2>4
    <3>2. ASSUME NEW e \in client.got, ~ (e < happened) PROVE happened = payload[conn.resume]
      <4>1. e = happened
        BY <1>0, <3>2 DEF GotOrder
      <4>2. m.cursor # None
        BY <1>1, <1>2, <3>2, <4>1 DEF Unseen
      <4>3. ~Lost(payload, happened)
        BY <1>2, <4>2 DEF Names, Lost
      <4>4. QED
        BY <1>0, <2>1, <2>2, <3>2, <4>1, <4>3 DEF GotOrder
    <3>3. QED
      BY <1>0, <2>2, <3>1, <3>2
  <2>5. QED
    BY <1>3, <1>4, <2>1, <2>2, <2>3, <2>4
<1>8. StreamingOrder'
  <2>1. SUFFICES ASSUME conn.at = "streaming" PROVE StreamingOrder'
    BY <1>1 DEF StreamingOrder
  <2>2. conn.pos \in Nat \ {0}
    BY <2>1, ConnAt DEF Streaming
  <2>3. \A i \in conn.pos..Len(bus') : Follows(bus'[i].cursor, bus'[i].event)
    <3>1. \A i \in conn.pos..Len(bus') : \/ i \in conn.pos..Len(bus) /\ i \in 1..Len(bus)
                                         \/ i = Len(bus) + 1
      BY <1>3, <2>2
    <3>2. Follows(m.cursor, m.event)
      BY <1>1, <1>2, <2>1 DEF StreamingOrder
    <3>3. QED
      BY <1>3, <2>1, <3>1, <3>2 DEF StreamingOrder
  <2>4. QED
    BY <1>0, <1>1, <2>1, <2>3 DEF StreamingOrder, Follows
<1>9. QED
  BY <1>5, <1>6, <1>7, <1>8

-----------------------------------------------------------------------------
(* The connection *)

\* What the publishers and the log know of names does not change with a
\* connection or its client.
LEMMA NamesStay ==
  ASSUME OInv, UNCHANGED <<payload, happened, bus, pubs>>
  PROVE  /\ OneName'
         /\ \A i \in 1..Len(bus) : bus[i].cursor = None => Lost(payload', bus[i].event)
         /\ \A p \in Publishers : pubs[p] # Idle /\ pubs[p].cursor = None =>
              Lost(payload', pubs[p].event)
  BY DEF OInv, OneName, LostOK

LEMMA OpenOrder == ASSUME IInv, OInv, Open \/ Subscribe PROVE OInv'
<1>1. /\ UNCHANGED <<payload, happened, bus, pubs, wire>>
      /\ client'.got = client.got /\ client'.cursor = client.cursor
  BY DEF Open, Subscribe, IInv, ClientOK
<1>2. OneName' /\ LostOK' /\ Unseen' /\ WireOrder' /\ GotOrder'
  BY <1>1 DEF OInv, OneName, LostOK, Unseen, WireOrder, GotOrder
<1>3. SubscribedOrder'
  <2>1. CASE Open
    BY <2>1 DEF Open, SubscribedOrder
  <2>2. CASE Subscribe
    <3>1. conn'.pos = Len(bus) + 1 /\ Len(bus) \in Nat
      BY <2>2 DEF Subscribe, IInv, BusOK
    <3>2. conn'.pos..Len(bus) = {}
      BY <3>1
    <3>3. QED
      BY <1>1, <3>2 DEF SubscribedOrder
  <2>3. QED
    BY <2>1, <2>2
<1>4. StreamingOrder'
  BY DEF Open, Subscribe, StreamingOrder
<1>5. QED
  BY <1>2, <1>3, <1>4 DEF OInv

\* A response that opens with a snapshot starts anew.
LEMMA AnewOrder ==
  ASSUME IInv, OInv, UNCHANGED <<client, payload, happened, bus, pubs>>,
         NEW replay, DOMAIN replay = {}, NEW seen,
         conn' = [at |-> "streaming", pos |-> conn.pos, replay |-> replay, seen |-> seen],
         wire' \in {<<Snapshot>>, <<Resync, Snapshot>>}
  PROVE  OInv'
<1>1. /\ Snapshot.kind = "snapshot" /\ Resync.kind = "resync"
  BY DEF Snapshot, Resync, Frame
<1>2. ~Fresh(wire') /\ \A i \in 1..Len(wire') : wire'[i].kind # "event"
  <2> HIDE DEF Snapshot, Resync
  <2>1. CASE wire' = <<Snapshot>>
    <3>1. Len(wire') = 1 /\ wire'[1] = Snapshot
      BY <2>1
    <3>2. QED
      BY <1>1, <3>1 DEF Fresh
  <2>2. CASE wire' = <<Resync, Snapshot>>
    <3>1. Len(wire') = 2 /\ wire'[1] = Resync /\ wire'[2] = Snapshot
      BY <2>2
    <3>2. QED
      BY <1>1, <3>1 DEF Fresh
  <2>3. QED
    BY <2>1, <2>2
<1>3. OneName' /\ LostOK' /\ Unseen' /\ WireOrder' /\ GotOrder'
  BY <1>2, NamesStay DEF OInv, LostOK, Unseen, WireOrder, GotOrder
<1>4. SubscribedOrder'
  BY DEF SubscribedOrder
<1>5. StreamingOrder'
  <2>1. \A e : Beyond(wire', client'.got, e)
    BY <1>2 DEF Beyond
  <2>2. conn'.replay = replay
    OBVIOUS
  <2>3. QED
    BY <2>1, <2>2 DEF StreamingOrder, Follows
<1>6. QED
  BY <1>3, <1>4, <1>5 DEF OInv

LEMMA SnapshotOrder == ASSUME IInv, OInv, ConnectSnapshot \/ ReadFails PROVE OInv'
<1>1. DOMAIN << >> = {}
  OBVIOUS
<1>2. QED
  BY <1>1, AnewOrder DEF ConnectSnapshot, ReadFails, Stream

\* Above the floor of a log, cursors are as far apart as their events.
LEMMA Distances ==
  ASSUME LogsOK, PayloadOK, FloorTells, NEW g \in 1..Generation,
         NEW seq \in 1..logs[g].lastSeq, logs[g].gapFloor < seq
  PROVE  \A s \in seq..logs[g].lastSeq :
           /\ [gen |-> g, seq |-> s] \in DOMAIN payload /\ [gen |-> g, seq |-> s] # None
           /\ At(payload, g, s) = At(payload, g, seq) + (s - seq)
           /\ At(payload, g, s) \in 1..happened
<1> DEFINE last == logs[g].lastSeq
<1>1. /\ last \in Nat /\ logs[g].gapFloor \in Nat /\ seq \in Nat /\ seq \in seq..last
      /\ happened \in Nat
  BY GenerationType, LogTypeFields DEF PayloadOK
<1>2. ASSUME NEW s \in seq..last
      PROVE  /\ At(payload, g, s) = At(payload, g, last) - (last - s)
             /\ At(payload, g, s) \in 1..happened
             /\ [gen |-> g, seq |-> s] \in DOMAIN payload /\ [gen |-> g, seq |-> s] # None
  <2>1. s \in logs[g].gapFloor + 1..last /\ s \in 1..last
    BY <1>1, <1>2
  <2>2. QED
    BY <2>1, IssuedNames DEF FloorTells
<1>3. ASSUME NEW s \in seq..last
      PROVE  At(payload, g, s) = At(payload, g, seq) + (s - seq)
  <2> DEFINE a == At(payload, g, seq)
             b == At(payload, g, s)
             z == At(payload, g, last)
  <2>1. a = z - (last - seq) /\ b = z - (last - s)
    BY <1>1, <1>2, <1>3
  <2>2. last \in seq..last
    BY <1>1
  <2>3. a \in 1..happened /\ b \in 1..happened /\ z \in 1..happened
    BY <1>1, <1>2, <1>3, <2>2
  <2>4. s \in Nat
    BY <1>1, <1>3
  <2> HIDE DEF a, b, z, last
  <2>5. b = a + (s - seq)
    BY <1>1, <2>1, <2>3, <2>4
  <2>6. QED
    BY <2>5 DEF a, b
<1>4. QED
  BY <1>2, <1>3

\* The replay of a cursor that is served: the entries after it, in order.
LEMMA ReplayServed ==
  ASSUME Setting, IInv, ReadLog, wire' = << >>
  PROVE  LET g      == conn.resume.gen
             seq    == conn.resume.seq
             last   == logs[g].lastSeq
             replay == conn'.replay
         IN  /\ g = conn.gen /\ g \in 1..Generation
             /\ logs[g].gapFloor < seq /\ seq \in 1..last
             /\ \A i \in DOMAIN replay : \E s \in seq + 1..last :
                  replay[i].cursor = [gen |-> g, seq |-> s] /\ replay[i].event = At(payload, g, s)
             /\ \A s \in seq + 1..last : [gen |-> g, seq |-> s] \in conn'.seen
             /\ conn.resume \in conn'.seen
             /\ \A i, j \in DOMAIN replay :
                  i < j => replay[i].cursor.seq < replay[j].cursor.seq
<1> DEFINE g   == conn.gen
           own == conn.resume.gen = g
           log == logs[g]
           seq == conn.resume.seq
           R   == SinceReply(log, T, seq, Limit, Now)
           r   == IF own THEN R ELSE Unknown
           Cursor(i) == [gen |-> g, seq |-> r.replay[i]]
           replay == [i \in DOMAIN r.replay |-> Frame("event", Cursor(i), payload[Cursor(i)])]
           seen   == {Cursor(i) : i \in DOMAIN r.replay} \cup {conn.resume}
<1>1. /\ Subscribed
      /\ conn' = [at |-> "streaming", pos |-> conn.pos, replay |-> replay, seen |-> seen]
      /\ wire' = IF r.kind = "events" THEN << >> ELSE <<Resync, Snapshot>>
  BY ConnAt DEF ReadLog, Stream, IInv
<1>2. g \in 1..Generation /\ log \in LogType /\ LogOK(log) /\ seq \in Nat
  BY <1>1, GenerationType DEF Subscribed, Opening, CursorSet, IInv
<1>3. own /\ r = R /\ R.kind = "events"
  <2>1. <<Resync, Snapshot>> # << >>
    OBVIOUS
  <2>2. r.kind = "events"
    BY <1>1, <2>1
  <2>3. own
    BY <2>2 DEF Unknown
  <2>4. QED
    BY <2>2, <2>3
<1>4. /\ log.gapFloor < seq /\ seq \in 1..log.lastSeq
      /\ \A i, j \in DOMAIN R.replay : i < j => R.replay[i] < R.replay[j]
      /\ {R.replay[i] : i \in DOMAIN R.replay} = seq + 1..log.lastSeq
  BY <1>2, <1>3, ReplyOK
<1> HIDE DEF R
<1>5. conn'.replay = replay /\ conn'.seen = seen /\ DOMAIN replay = DOMAIN R.replay
  BY <1>1, <1>3
<1>6. ASSUME NEW i \in DOMAIN R.replay
      PROVE  /\ replay[i].cursor = [gen |-> g, seq |-> R.replay[i]]
             /\ replay[i].event = At(payload, g, R.replay[i])
             /\ R.replay[i] \in seq + 1..log.lastSeq
             /\ [gen |-> g, seq |-> R.replay[i]] \in seen
  BY <1>3, <1>4, <1>6 DEF Frame, At
<1> HIDE DEF replay, seen
<1>7. \A s \in seq + 1..log.lastSeq : [gen |-> g, seq |-> s] \in seen
  BY <1>4, <1>6
<1>8. ASSUME NEW i \in DOMAIN replay, NEW j \in DOMAIN replay, i < j
      PROVE  replay[i].cursor.seq < replay[j].cursor.seq
  <2>1. R.replay[i] < R.replay[j]
    BY <1>4, <1>5, <1>8
  <2>2. i \in DOMAIN R.replay /\ j \in DOMAIN R.replay
    BY <1>5
  <2>3. \A k \in DOMAIN R.replay : replay[k].cursor = [gen |-> g, seq |-> R.replay[k]]
    BY <1>6
  <2>4. ASSUME NEW k \in DOMAIN R.replay PROVE replay[k].cursor.seq = R.replay[k]
    <3>1. [gen |-> g, seq |-> R.replay[k]].seq = R.replay[k]
      OBVIOUS
    <3>2. replay[k].cursor = [gen |-> g, seq |-> R.replay[k]]
      BY <2>3
    <3>3. QED
      BY <3>1, <3>2, Zenon
  <2>5. QED
    BY <2>1, <2>2, <2>4
<1>9. \A i \in DOMAIN replay : \E s \in seq + 1..log.lastSeq :
        replay[i].cursor = [gen |-> g, seq |-> s] /\ replay[i].event = At(payload, g, s)
  BY <1>5, <1>6
<1>10. conn.resume \in seen
  BY DEF seen
<1>11. QED
  BY <1>2, <1>3, <1>4, <1>5, <1>7, <1>8, <1>9, <1>10

LEMMA ReadLogOrder == ASSUME Setting, IInv, OInv, ReadLog PROVE OInv'
<1> DEFINE g      == conn.resume.gen
           seq    == conn.resume.seq
           last   == logs[g].lastSeq
           replay == conn'.replay
           seen   == conn'.seen
           cursor(s) == [gen |-> g, seq |-> s]
           at(s)  == At(payload, g, s)
<1> USE DEF IInv
<1>1. /\ Subscribed /\ conn.at = "subscribed" /\ conn.resume # None
      /\ conn' = [at |-> "streaming", pos |-> conn.pos, replay |-> replay, seen |-> seen]
      /\ UNCHANGED <<payload, happened, bus, pubs, client>>
      /\ happened \in Nat /\ conn.resume = client.cursor /\ conn.resume \in DOMAIN payload
      /\ conn.resume = cursor(seq) /\ conn.pos \in Nat \ {0}
  BY ConnAt DEF ReadLog, Stream, Subscribed, Opening, CursorSet, ClientOK, PayloadOK
<1>2. CASE wire' # << >>
  <2> DEFINE r == IF conn.resume.gen = conn.gen
                  THEN SinceReply(logs[conn.gen], T, conn.resume.seq, Limit, Now)
                  ELSE Unknown
             C(i) == [gen |-> conn.gen, seq |-> r.replay[i]]
  <2>1. /\ conn'.replay = [i \in DOMAIN r.replay |-> Frame("event", C(i), payload[C(i)])]
        /\ r.kind # "events" /\ wire' = <<Resync, Snapshot>>
    BY <1>2 DEF ReadLog, Stream
  <2>2. /\ logs[conn.gen] \in LogType /\ LogOK(logs[conn.gen]) /\ conn.resume.seq \in Nat
    BY <1>1, GenerationType DEF Subscribed, Opening, CursorSet
  <2>3. DOMAIN r.replay = {}
    BY SMTT(30), <2>1, <2>2, ReplyOK DEF Unknown
  <2> HIDE DEF r
  <2>4. DOMAIN replay = {}
    BY <2>1, <2>3
  <2> HIDE DEF replay, seen
  <2>5. QED
    BY <1>1, <2>1, <2>4, AnewOrder
<1>3. CASE wire' = << >>
  <2>1. /\ g = conn.gen /\ g \in 1..Generation
        /\ logs[g].gapFloor < seq /\ seq \in 1..last
        /\ \A i \in DOMAIN replay : \E s \in seq + 1..last :
             replay[i].cursor = cursor(s) /\ replay[i].event = at(s)
        /\ \A s \in seq + 1..last : cursor(s) \in seen
        /\ conn.resume \in seen
        /\ \A i, j \in DOMAIN replay : i < j => replay[i].cursor.seq < replay[j].cursor.seq
    BY <1>3, ReplayServed
  <2>2. \A s \in seq..last : /\ cursor(s) \in DOMAIN payload /\ cursor(s) # None
                             /\ at(s) = at(seq) + (s - seq) /\ at(s) \in 1..happened
                             /\ payload[cursor(s)] = at(s)
    BY <2>1, Distances DEF At
  <2>3. /\ seq \in Nat /\ last \in Nat /\ seq \in seq..last /\ last \in seq..last
        /\ logs[g].gapFloor < last /\ at(seq) \in Nat /\ at(last) \in Nat
        /\ at(seq) = payload[conn.resume] /\ at(seq) >= 1
    <3>1. last \in Nat /\ logs[g].gapFloor \in Nat
      BY <2>1, GenerationType, LogTypeFields
    <3>2. seq \in Nat /\ seq \in seq..last /\ last \in seq..last /\ logs[g].gapFloor < last
      BY <2>1, <3>1
    <3>3. at(seq) \in 1..happened /\ at(last) \in 1..happened /\ at(seq) = payload[conn.resume]
      BY <1>1, <2>2, <3>2
    <3>4. QED
      BY <1>1, <3>1, <3>2, <3>3
  <2> HIDE DEF last, seq, at, cursor
  \* The cursor that names an event in the span of the replay is one of it.
  <2>4. ASSUME NEW c \in DOMAIN payload, c # None, payload[c] > at(seq), payload[c] <= at(last)
        PROVE  c \in seen
    <3> DEFINE e == payload[c]
               s == seq + (e - at(seq))
    <3>1. e \in Nat
      BY <1>1, <2>4 DEF PayloadOK
    <3>2. at(last) = at(seq) + (last - seq)
      BY <2>2, <2>3
    <3>3. s \in seq + 1..last /\ s \in seq..last
      BY <2>3, <2>4, <3>1, <3>2
    <3>4. at(s) = at(seq) + (s - seq) /\ payload[cursor(s)] = at(s) /\ cursor(s) \in DOMAIN payload
          /\ s \in Nat
      <4> HIDE DEF s
      <4>1. QED
        BY <2>2, <2>3, <3>3
    <3>5. at(s) = e
      BY <2>3, <3>1, <3>4
    <3> HIDE DEF s
    <3>6. c = cursor(s)
      BY <2>4, <3>4, <3>5 DEF OInv, OneName
    <3>7. QED
      BY <2>1, <3>3, <3>6
  <2>5. ASSUME NEW e \in Nat, e > at(seq), e <= at(last) PROVE ~Lost(payload, e)
    <3> DEFINE s == seq + (e - at(seq))
    <3>1. at(last) = at(seq) + (last - seq)
      BY <2>2, <2>3
    <3>2. s \in seq..last /\ s \in Nat
      BY <2>3, <2>5, <3>1
    <3>3. at(s) = at(seq) + (s - seq) /\ payload[cursor(s)] = at(s)
          /\ cursor(s) \in DOMAIN payload /\ cursor(s) # None
      <4> HIDE DEF s
      <4>1. QED
        BY <2>2, <3>2
    <3>4. at(s) = e
      BY <2>3, <2>5, <3>2, <3>3
    <3>5. QED
      BY <3>3, <3>4 DEF Lost
  \* What the client got lies at its cursor or before.
  <2>6. ASSUME NEW e \in client.got PROVE e <= at(seq) /\ e \in 1..happened
    <3>1. e \in 1..happened /\ e \in Nat
      BY <1>1 DEF OInv, GotOrder
    <3>2. SUFFICES ASSUME e > at(seq) PROVE FALSE
      BY <2>3, <3>1
    <3>3. Lost(payload, e)
      BY <1>1, <2>3, <3>1, <3>2 DEF OInv, GotOrder
    <3>4. e > at(last)
      BY <2>3, <2>5, <3>1, <3>2, <3>3
    <3>5. e \in at(last) + 1..happened
      BY <1>1, <2>3, <3>1, <3>4
    <3>6. OnBus(bus, conn.pos, e) \/ Pending(pubs, e)
      BY <1>1, <2>1, <2>3, <3>5 DEF Subscribed, last, at
    <3>7. CASE OnBus(bus, conn.pos, e)
      <4>1. PICK i \in conn.pos..Len(bus) : bus[i].event = e
        BY <3>7 DEF OnBus
      <4>2. e < e \/ e = payload[conn.resume]
        BY <1>1, <4>1 DEF OInv, SubscribedOrder
      <4>3. QED
        BY <2>3, <3>1, <3>2, <4>2
    <3>8. CASE Pending(pubs, e)
      <4>1. PICK p \in Publishers : pubs[p] # Idle /\ pubs[p].event = e
        BY <3>8 DEF Pending
      <4>2. pubs[p].cursor # None
        BY <4>1 DEF OInv, Unseen
      <4>3. QED
        BY <3>3, <4>1, <4>2 DEF PubsOK, Names, Lost
    <3>9. QED
      BY <3>6, <3>7, <3>8
  <2>7. ASSUME NEW i \in DOMAIN replay
        PROVE  /\ replay[i].cursor # None
               /\ replay[i].event > at(seq) /\ replay[i].event <= at(last)
               /\ replay[i].event \in Nat
    <3>1. PICK s \in seq + 1..last : replay[i].cursor = cursor(s) /\ replay[i].event = at(s)
      BY <2>1
    <3>2. s \in seq..last /\ s \in Nat /\ s > seq /\ s <= last
      BY <2>3, <3>1
    <3>3. at(s) = at(seq) + (s - seq) /\ cursor(s) # None
      BY <2>2, <3>2
    <3>4. at(last) = at(seq) + (last - seq)
      BY <2>2, <2>3
    <3>5. at(s) > at(seq) /\ at(s) <= at(last) /\ at(s) \in Nat
      BY <2>3, <3>2, <3>3, <3>4
    <3>6. QED
      BY <3>1, <3>3, <3>5
  <2>8. ASSUME NEW i \in DOMAIN replay, NEW j \in DOMAIN replay, i < j
        PROVE  replay[i].event < replay[j].event
    <3>1. PICK s \in seq + 1..last : replay[i].cursor = cursor(s) /\ replay[i].event = at(s)
      BY <2>1
    <3>2. PICK u \in seq + 1..last : replay[j].cursor = cursor(u) /\ replay[j].event = at(u)
      BY <2>1
    <3>3. s < u
      BY <2>1, <2>8, <3>1, <3>2 DEF cursor
    <3>4. s \in seq..last /\ u \in seq..last /\ s \in Nat /\ u \in Nat
      BY <2>3, <3>1, <3>2
    <3>5. at(s) = at(seq) + (s - seq) /\ at(u) = at(seq) + (u - seq)
      BY <2>2, <3>4
    <3>6. QED
      BY <2>3, <3>1, <3>2, <3>3, <3>4, <3>5
  <2>9. Len(<< >>) = 0 /\ \A i \in 1..0 : FALSE
    OBVIOUS
  \* A message whose event follows the cursor's, and which is not of the replay.
  <2>10. ASSUME NEW e \in 1..happened, e > at(seq),
                ~ (e <= at(last)) \/ (\E c \in DOMAIN payload : c # None /\ payload[c] = e /\ c \notin seen)
         PROVE  /\ Beyond(<< >>, client.got, e)
                /\ \A j \in DOMAIN replay : replay[j].event < e
    <3>1. e \in Nat /\ e > at(last)
      BY <1>1, <2>3, <2>4, <2>10
    <3>2. \A x \in client.got : x < e
      BY <1>1, <2>3, <2>6, <2>10, <3>1
    <3>3. \A j \in DOMAIN replay : replay[j].event < e
      BY <2>3, <2>7, <3>1
    <3>4. QED
      BY <2>9, <3>2, <3>3 DEF Beyond
  <2>11. OneName' /\ LostOK' /\ Unseen' /\ WireOrder' /\ GotOrder'
    BY <1>1, <1>3, <2>9, NamesStay DEF OInv, LostOK, Unseen, WireOrder, GotOrder
  <2>12. SubscribedOrder'
    BY <1>1 DEF SubscribedOrder
  \* A message of the cursor's event carries the cursor itself.
  <2>13. ASSUME NEW c, NEW e \in 1..happened, Names(payload, c, e), e >= at(seq),
                c = None => Lost(payload, e)
         PROVE  Follows(c, e)'
    <3>1. e \in Nat
      BY <1>1, <2>13
    <3>2. CASE c # None /\ c \in seen
      BY <1>1, <3>2 DEF Follows
    <3>3. CASE c # None /\ c \notin seen
      <4>1. c \in DOMAIN payload /\ payload[c] = e
        BY <2>13, <3>3 DEF Names
      <4>2. e # at(seq)
        BY <1>1, <2>1, <2>3, <3>3, <4>1 DEF OInv, OneName
      <4>3. Beyond(<< >>, client.got, e) /\ \A j \in DOMAIN replay : replay[j].event < e
        BY <2>3, <2>10, <2>13, <3>1, <3>3, <4>1, <4>2
      <4>4. QED
        BY <1>1, <1>3, <4>3 DEF Follows
    <3>4. CASE c = None
      <4>1. Lost(payload, e)
        BY <2>13, <3>4
      <4>2. e # at(seq)
        BY <1>1, <2>3, <4>1 DEF Lost
      <4>3. e > at(seq) /\ ~ (e <= at(last))
        BY <2>3, <2>5, <2>13, <3>1, <4>1, <4>2
      <4>4. Beyond(<< >>, client.got, e) /\ \A j \in DOMAIN replay : replay[j].event < e
        BY <2>10, <4>3
      <4>5. QED
        BY <1>1, <1>3, <4>4 DEF Follows
    <3>5. QED
      BY <3>2, <3>3, <3>4
  <2>14. \A i \in DOMAIN replay : Beyond(<< >>, client.got, replay[i].event)
    <3>1. \A i \in DOMAIN replay : \A x \in client.got : x < replay[i].event
      BY <1>1, <2>3, <2>6, <2>7
    <3>2. QED
      BY <2>9, <3>1 DEF Beyond
  <2>15. \A i \in conn.pos..Len(bus) : Follows(bus[i].cursor, bus[i].event)'
    <3>1. SUFFICES ASSUME NEW i \in conn.pos..Len(bus)
                   PROVE  Follows(bus[i].cursor, bus[i].event)'
      OBVIOUS
    <3>2. i \in 1..Len(bus)
      BY <1>1 DEF BusOK
    <3>3. bus[i].event \in 1..happened /\ Names(payload, bus[i].cursor, bus[i].event)
          /\ (bus[i].cursor = None => Lost(payload, bus[i].event))
      BY <3>2 DEF BusOK, OInv, LostOK
    <3>4. at(seq) <= bus[i].event
      BY <1>1, <2>3, <3>1 DEF OInv, SubscribedOrder
    <3>5. bus[i].event >= at(seq)
      BY <1>1, <2>3, <3>3, <3>4
    <3> DEFINE c == bus[i].cursor
               e == bus[i].event
    <3>6. Follows(c, e)'
      <4>1. c' = c /\ e' = e
        BY <1>1
      <4>2. c \in {c} /\ e \in 1..happened /\ Names(payload, c, e) /\ e >= at(seq)
            /\ (c = None => Lost(payload, e))
        BY <3>3, <3>5
      <4> HIDE DEF c, e
      <4>3. QED
        BY <2>13, <4>1, <4>2 DEF Follows
    <3>7. QED
      BY <3>6
  <2>16. \A p \in Publishers : pubs[p] # Idle => Follows(pubs[p].cursor, pubs[p].event)'
    <3>1. SUFFICES ASSUME NEW p \in Publishers, pubs[p] # Idle
                   PROVE  Follows(pubs[p].cursor, pubs[p].event)'
      OBVIOUS
    <3>2. pubs[p].event = happened /\ Names(payload, pubs[p].cursor, happened) /\ happened >= 1
          /\ (pubs[p].cursor = None => Lost(payload, happened))
      BY <3>1 DEF PubsOK, OInv, LostOK
    <3>3. happened >= at(seq) /\ happened \in 1..happened
      BY <1>1, <2>2, <2>3, <3>2
    <3> DEFINE c == pubs[p].cursor
               e == pubs[p].event
    <3>4. c' = c /\ e' = e
      BY <1>1
    <3>5. e \in 1..happened /\ Names(payload, c, e) /\ e >= at(seq)
          /\ (c = None => Lost(payload, e))
      BY <3>2, <3>3
    <3> HIDE DEF c, e
    <3>6. Follows(c, e)'
      BY <2>13, <3>4, <3>5 DEF Follows
    <3>7. QED
      BY <3>6 DEF c, e
  <2>17. StreamingOrder'
    <3>1. conn'.at = "streaming" /\ conn'.pos = conn.pos
      BY <1>1
    <3> HIDE DEF replay, seen
    <3>2. \A i \in DOMAIN replay :
            /\ replay[i].cursor # None /\ Beyond(wire', client'.got, replay[i].event)
            /\ \A j \in DOMAIN replay : i < j => replay[i].event < replay[j].event
      BY <1>1, <1>3, <2>7, <2>8, <2>14
    <3>3. /\ \A i \in conn'.pos..Len(bus') : Follows(bus[i].cursor, bus[i].event)'
          /\ \A p \in Publishers : pubs'[p] # Idle => Follows(pubs[p].cursor, pubs[p].event)'
      BY <1>1, <2>15, <2>16, <3>1
    <3>4. QED
      BY <3>1, <3>2, <3>3 DEF StreamingOrder, replay
  <2>18. QED
    BY <2>11, <2>12, <2>17 DEF OInv
<1>4. QED
  BY <1>2, <1>3

LEMMA ServeReplayOrder == ASSUME IInv, OInv, ServeReplay PROVE OInv'
<1> DEFINE next   == Min(DOMAIN conn.replay)
           f      == conn.replay[next]
           replay == Restrict(conn.replay, DOMAIN conn.replay \ {next})
           got    == client.got
           longer == Append(wire, f)
<1> USE DEF IInv
<1>1. /\ Streaming /\ conn.at = "streaming" /\ DOMAIN conn.replay # {}
      /\ wire' = longer
      /\ conn' = [at |-> "streaming", pos |-> conn.pos, replay |-> replay, seen |-> conn.seen]
      /\ UNCHANGED <<payload, happened, bus, pubs, client>>
  BY ConnAt DEF ServeReplay, Streaming, Unsent
<1>2. next \in DOMAIN conn.replay /\ \A i \in DOMAIN conn.replay : next <= i
  <2>1. DOMAIN conn.replay \subseteq Nat
    BY <1>1 DEF Streaming
  <2>2. QED
    BY <1>1, <2>1, MinOfNaturals
<1>3. DOMAIN conn.replay \subseteq Nat
  BY <1>1 DEF Streaming
<1> HIDE DEF next
<1>4. /\ DOMAIN replay = DOMAIN conn.replay \ {next}
      /\ \A i \in DOMAIN replay : replay[i] = conn.replay[i] /\ i \in DOMAIN conn.replay /\ next < i
  <2>1. DOMAIN replay = DOMAIN conn.replay \ {next}
        /\ \A i \in DOMAIN replay : replay[i] = conn.replay[i]
    BY DEF Restrict
  <2>2. ASSUME NEW i \in DOMAIN replay PROVE next < i
    <3>1. i # next /\ i \in Nat /\ next \in Nat /\ next <= i
      BY <1>2, <1>3, <2>1, <2>2
    <3>2. QED
      BY <3>1
  <2>3. QED
    BY <2>1, <2>2
<1>5. /\ f.kind = "event" /\ f \in FrameSet /\ f.cursor # None /\ Beyond(wire, got, f.event)
      /\ FrameOK(payload, happened, f)
      /\ \A i \in DOMAIN replay : f.event < conn.replay[i].event
  <2>1. /\ f.kind = "event" /\ FrameOK(payload, happened, f)
    BY <1>1, <1>2 DEF Streaming
  <2>2. f.cursor # None /\ Beyond(wire, got, f.event)
    BY <1>1, <1>2 DEF OInv, StreamingOrder
  <2>3. \A i \in DOMAIN replay : f.event < conn.replay[i].event
    <3> HIDE DEF replay
    <3>1. QED
      BY <1>1, <1>2, <1>4 DEF OInv, StreamingOrder
  <2>4. QED
    BY <2>1, <2>2, <2>3 DEF FrameOK
<1> HIDE DEF f, replay
<1>6. /\ Len(wire) \in Nat /\ Len(longer) = Len(wire) + 1
      /\ longer[Len(wire) + 1] = f
      /\ \A i \in 1..Len(wire) : longer[i] = wire[i]
      /\ \A i \in 1..Len(longer) : i \in 1..Len(wire) \/ i = Len(wire) + 1
  BY <1>5 DEF WireOK
<1> HIDE DEF longer
<1>7. Fresh(longer) => Fresh(wire)
  <2>1. \A i \in 1..Len(wire) : i \in 1..Len(longer) /\ longer[i] = wire[i]
    BY <1>6
  <2>2. QED
    BY <2>1 DEF Fresh
\* The frame takes its place behind the wire.
<1>8. \A e : Beyond(wire, got, e) /\ f.event < e => Beyond(longer, got, e)
  <2>1. SUFFICES ASSUME NEW e, Beyond(wire, got, e), f.event < e PROVE Beyond(longer, got, e)
    OBVIOUS
  <2>2. \A i \in 1..Len(longer) : longer[i].kind = "event" => longer[i].event < e
    BY <1>6, <2>1 DEF Beyond
  <2>3. QED
    BY <1>7, <2>1, <2>2 DEF Beyond
<1>9. LostOK' /\ Unseen'
  <2>1. f.event # 0 => ~Lost(payload, f.event)
    BY <1>5 DEF FrameOK, Names, Lost
  <2>2. \A p \in Publishers : pubs[p] # Idle /\ pubs[p].cursor = None => f.event # pubs[p].event
    <3>1. SUFFICES ASSUME NEW p \in Publishers, pubs[p] # Idle, pubs[p].cursor = None,
                          f.event = pubs[p].event
                   PROVE  FALSE
      OBVIOUS
    <3>2. f.event >= 1
      BY <1>5 DEF FrameOK
    <3>3. Lost(payload, f.event) /\ f.event # 0
      BY <3>1, <3>2 DEF OInv, LostOK
    <3>4. QED
      BY <2>1, <3>3
  <2>3. LostOK'
    BY <1>1, <1>5, <1>6, NamesStay DEF OInv, LostOK
  <2>4. Unseen'
    BY <1>1, <1>6, <2>2 DEF OInv, Unseen
  <2>5. QED
    BY <2>3, <2>4
<1>10. WireOrder'
  <2>1. ASSUME NEW i \in 1..Len(longer), longer[i].kind = "event", Fresh(longer), NEW e \in got
        PROVE  e < longer[i].event
    <3>1. CASE i \in 1..Len(wire)
      BY <1>6, <1>7, <2>1, <3>1 DEF OInv, WireOrder
    <3>2. CASE i = Len(wire) + 1
      BY <1>5, <1>6, <1>7, <2>1, <3>2 DEF Beyond
    <3>3. QED
      BY <1>6, <3>1, <3>2
  <2>2. ASSUME NEW i \in 1..Len(longer), longer[i].kind = "event", NEW j \in 1..Len(longer), i < j
        PROVE  longer[j].kind = "event" /\ longer[i].event < longer[j].event
    <3>1. i \in 1..Len(wire)
      BY <1>6, <2>2
    <3>2. CASE j \in 1..Len(wire)
      BY <1>6, <2>2, <3>1, <3>2 DEF OInv, WireOrder
    <3>3. CASE j = Len(wire) + 1
      BY <1>5, <1>6, <2>2, <3>1, <3>3 DEF Beyond
    <3>4. QED
      BY <1>6, <3>2, <3>3
  <2>3. QED
    BY <1>1, <2>1, <2>2 DEF WireOrder
<1>11. OneName' /\ GotOrder' /\ SubscribedOrder'
  BY <1>1, NamesStay DEF OInv, GotOrder, SubscribedOrder
<1>12. \A c, e : Follows(c, e) => Follows(c, e)'
  <2>1. SUFFICES ASSUME NEW c, NEW e, Follows(c, e) PROVE Follows(c, e)'
    OBVIOUS
  <2>2. conn'.seen = conn.seen /\ conn'.replay = replay
    BY <1>1
  <2>3. CASE c # None /\ c \in conn.seen
    BY <2>2, <2>3 DEF Follows
  <2>4. CASE Beyond(wire, got, e) /\ \A j \in DOMAIN conn.replay : conn.replay[j].event < e
    <3>1. f.event < e
      BY <1>2, <2>4 DEF f
    <3>2. Beyond(longer, got, e)
      BY <1>8, <2>4, <3>1
    <3>3. \A j \in DOMAIN replay : replay[j].event < e
      BY <1>4, <2>4
    <3>4. QED
      BY <1>1, <2>2, <3>2, <3>3 DEF Follows
  <2>5. QED
    BY <2>1, <2>3, <2>4 DEF Follows
<1>13. StreamingOrder'
  <2>1. conn'.replay = replay /\ conn'.pos = conn.pos
    BY <1>1
  <2>2. ASSUME NEW i \in DOMAIN replay
        PROVE  /\ replay[i].cursor # None /\ Beyond(longer, got, replay[i].event)
               /\ \A j \in DOMAIN replay : i < j => replay[i].event < replay[j].event
    <3>1. /\ conn.replay[i].cursor # None /\ Beyond(wire, got, conn.replay[i].event)
          /\ \A j \in DOMAIN conn.replay : i < j => conn.replay[i].event < conn.replay[j].event
      BY <1>1, <1>4, <2>2 DEF OInv, StreamingOrder
    <3>2. Beyond(longer, got, conn.replay[i].event)
      BY <1>5, <1>8, <2>2, <3>1
    <3>3. QED
      BY <1>4, <2>2, <3>1, <3>2
  <2>3. /\ \A i \in conn.pos..Len(bus) : Follows(bus[i].cursor, bus[i].event)
        /\ \A p \in Publishers : pubs[p] # Idle => Follows(pubs[p].cursor, pubs[p].event)
    BY <1>1 DEF OInv, StreamingOrder
  <2>4. /\ \A i \in conn'.pos..Len(bus') : Follows(bus[i].cursor, bus[i].event)'
        /\ \A p \in Publishers : pubs'[p] # Idle => Follows(pubs[p].cursor, pubs[p].event)'
    BY <1>1, <1>12, <2>1, <2>3 DEF Follows
  <2>5. QED
    BY <1>1, <2>1, <2>2, <2>4 DEF StreamingOrder
<1>14. QED
  BY <1>9, <1>10, <1>11, <1>13 DEF OInv

LEMMA ServeLiveOrder == ASSUME IInv, OInv, ServeLive PROVE OInv'
<1> DEFINE m == bus[conn.pos]
           f == Frame("event", m.cursor, m.event)
           got    == client.got
           longer == Append(wire, f)
           drops  == m.cursor # None /\ m.cursor \in conn.seen
<1> USE DEF IInv
<1>1. /\ Streaming /\ conn.at = "streaming"
      /\ DOMAIN conn.replay = {} /\ conn.pos <= Len(bus)
      /\ wire' = IF drops THEN wire ELSE longer
      /\ conn' = [at |-> "streaming", pos |-> conn.pos + 1, replay |-> conn.replay,
                  seen |-> conn.seen]
      /\ UNCHANGED <<payload, happened, bus, pubs, client>>
  BY ConnAt DEF ServeLive, Live, Unsent, Streaming
<1>2. /\ conn.pos \in 1..Len(bus) /\ Len(bus) \in Nat /\ conn.pos \in Nat
      /\ conn.pos \in conn.pos..Len(bus)
      /\ \A i \in conn.pos + 1..Len(bus) : i \in conn.pos..Len(bus) /\ i \in 1..Len(bus) /\ conn.pos < i
  BY <1>1 DEF Streaming, BusOK
<1>3. /\ m \in Message /\ Names(payload, m.cursor, m.event)
      /\ m.cursor = None => Lost(payload, m.event)
      /\ \A i \in conn.pos + 1..Len(bus) : m.event < bus[i].event
      /\ \A p \in Publishers : pubs[p] # Idle => m.event < pubs[p].event
      /\ m.event \in 1..happened /\ happened \in Nat
      /\ drops \/ Beyond(wire, got, m.event)
  <2>1. drops \/ Beyond(wire, got, m.event)
    BY <1>1, <1>2 DEF OInv, StreamingOrder, Follows
  <2>2. m \in Message /\ Names(payload, m.cursor, m.event) /\ m.event \in 1..happened
        /\ happened \in Nat
    BY <1>2 DEF BusOK, PayloadOK
  <2>3. \A i \in conn.pos + 1..Len(bus) : m.event < bus[i].event
    BY <1>2 DEF BusOK
  <2>4. \A p \in Publishers : pubs[p] # Idle => m.event < pubs[p].event
    BY <1>2 DEF PubsOK
  <2>5. QED
    BY <1>2, <2>1, <2>2, <2>3, <2>4 DEF OInv, LostOK
<1>4. f.kind = "event" /\ f.event = m.event /\ f.cursor = m.cursor /\ f \in FrameSet
  BY <1>3 DEF Frame, FrameSet, Message
<1> HIDE DEF f, m
<1>5. /\ Len(wire) \in Nat /\ Len(longer) = Len(wire) + 1
      /\ longer[Len(wire) + 1] = f
      /\ \A i \in 1..Len(wire) : longer[i] = wire[i]
      /\ \A i \in 1..Len(longer) : i \in 1..Len(wire) \/ i = Len(wire) + 1
  BY <1>4 DEF WireOK
<1> HIDE DEF longer, drops
<1>6. OneName' /\ GotOrder' /\ SubscribedOrder'
  BY <1>1, NamesStay DEF OInv, GotOrder, SubscribedOrder
<1>7. Fresh(longer) => Fresh(wire)
  <2>1. \A i \in 1..Len(wire) : i \in 1..Len(longer) /\ longer[i] = wire[i]
    BY <1>5
  <2>2. QED
    BY <2>1 DEF Fresh
\* The message is behind all that was sent, and before all that is to come.
<1>8. \A e : Beyond(wire, got, e) /\ m.event < e => Beyond(wire', got, e)
  <2>1. SUFFICES ASSUME NEW e, Beyond(wire, got, e), m.event < e, ~drops
                 PROVE  Beyond(longer, got, e)
    BY <1>1
  <2>2. \A i \in 1..Len(longer) : longer[i].kind = "event" => longer[i].event < e
    BY <1>4, <1>5, <2>1 DEF Beyond
  <2>3. QED
    BY <1>7, <2>1, <2>2 DEF Beyond
<1>9. LostOK' /\ Unseen' /\ WireOrder'
  <2>1. CASE drops
    BY <1>1, <2>1, NamesStay DEF OInv, LostOK, Unseen, WireOrder
  <2>2. CASE ~drops
    <3>1. LostOK'
      BY <1>1, <1>3, <1>4, <1>5, <2>2, NamesStay DEF OInv, LostOK
    <3>2. Unseen'
      <4>1. \A p \in Publishers : pubs[p] # Idle => m.event # pubs[p].event
        BY <1>3
      <4>2. QED
        BY <1>1, <1>4, <1>5, <2>2, <4>1 DEF OInv, Unseen
    <3>3. ASSUME NEW i \in 1..Len(longer), longer[i].kind = "event", Fresh(longer), NEW e \in got
          PROVE  e < longer[i].event
      <4>1. CASE i \in 1..Len(wire)
        BY <1>5, <1>7, <3>3, <4>1 DEF OInv, WireOrder
      <4>2. CASE i = Len(wire) + 1
        BY <1>3, <1>4, <1>5, <1>7, <2>2, <3>3, <4>2 DEF Beyond
      <4>3. QED
        BY <1>5, <4>1, <4>2
    <3>4. ASSUME NEW i \in 1..Len(longer), longer[i].kind = "event", NEW j \in 1..Len(longer), i < j
          PROVE  longer[j].kind = "event" /\ longer[i].event < longer[j].event
      <4>1. i \in 1..Len(wire)
        BY <1>5, <3>4
      <4>2. CASE j \in 1..Len(wire)
        BY <1>5, <3>4, <4>1, <4>2 DEF OInv, WireOrder
      <4>3. CASE j = Len(wire) + 1
        BY <1>3, <1>4, <1>5, <2>2, <3>4, <4>1, <4>3 DEF Beyond
      <4>4. QED
        BY <1>5, <4>2, <4>3
    <3>5. WireOrder'
      BY <1>1, <2>2, <3>3, <3>4 DEF WireOrder
    <3>6. QED
      BY <3>1, <3>2, <3>5
  <2>3. QED
    BY <2>1, <2>2
<1>10. ASSUME NEW c, NEW e, Follows(c, e), m.event < e PROVE Follows(c, e)'
  <2>1. conn'.seen = conn.seen /\ conn'.replay = conn.replay /\ client' = client
    BY <1>1
  <2>2. QED
    BY <1>8, <1>10, <2>1 DEF Follows
<1>11. StreamingOrder'
  <2>1. conn'.replay = conn.replay /\ conn'.pos = conn.pos + 1
    BY <1>1
  <2>2. /\ \A i \in conn.pos + 1..Len(bus) : Follows(bus[i].cursor, bus[i].event)
        /\ \A p \in Publishers : pubs[p] # Idle => Follows(pubs[p].cursor, pubs[p].event)
    BY <1>1, <1>2 DEF OInv, StreamingOrder
  <2>3. /\ \A i \in conn'.pos..Len(bus') : Follows(bus[i].cursor, bus[i].event)'
        /\ \A p \in Publishers : pubs'[p] # Idle => Follows(pubs[p].cursor, pubs[p].event)'
    BY <1>1, <1>3, <1>10, <2>1, <2>2 DEF Follows
  <2>4. QED
    BY <1>1, <2>1, <2>3 DEF StreamingOrder
<1>12. QED
  BY <1>6, <1>9, <1>11 DEF OInv

LEMMA EndOrder == ASSUME IInv, OInv, Lag \/ Rotate PROVE OInv'
<1>1. UNCHANGED <<payload, happened, bus, pubs, wire, client>> /\ conn' = [at |-> "ended"]
  BY DEF Lag, Rotate
<1>2. OneName' /\ LostOK' /\ Unseen' /\ WireOrder' /\ GotOrder'
  BY <1>1 DEF OInv, OneName, LostOK, Unseen, WireOrder, GotOrder
<1>3. SubscribedOrder' /\ StreamingOrder'
  BY <1>1 DEF SubscribedOrder, StreamingOrder
<1>4. QED
  BY <1>2, <1>3 DEF OInv

\* A connection that goes takes its wire with it.
LEMMA GoneOrder == ASSUME IInv, OInv, Cut \/ ReadEnd PROVE OInv'
<1>1. /\ UNCHANGED <<payload, happened, bus, pubs>> /\ wire' = << >> /\ conn' = Closed
      /\ client'.got = client.got /\ client'.cursor = client.cursor
  BY DEF Cut, ReadEnd, IInv, ClientOK
<1>2. OneName' /\ LostOK'
  BY <1>1, NamesStay DEF LostOK
<1>3. Unseen' /\ WireOrder' /\ GotOrder'
  BY <1>1 DEF OInv, Unseen, WireOrder, GotOrder
<1>4. SubscribedOrder' /\ StreamingOrder'
  BY <1>1 DEF SubscribedOrder, StreamingOrder, Closed
<1>5. QED
  BY <1>2, <1>3, <1>4 DEF OInv

LEMMA CrashOrder == ASSUME IInv, OInv, Crash PROVE OInv'
<1>1. /\ UNCHANGED <<payload, happened>> /\ bus' = << >> /\ wire' = << >> /\ conn' = Closed
      /\ pubs' = [p \in Publishers |-> Idle]
      /\ client'.got = client.got /\ client'.cursor = client.cursor
  BY DEF Crash, IInv, ClientOK
<1>2. OneName' /\ GotOrder'
  BY <1>1 DEF OInv, OneName, GotOrder
<1>3. LostOK' /\ Unseen' /\ WireOrder'
  BY <1>1 DEF LostOK, Unseen, WireOrder
<1>4. SubscribedOrder' /\ StreamingOrder'
  BY <1>1 DEF SubscribedOrder, StreamingOrder, Closed
<1>5. QED
  BY <1>2, <1>3, <1>4 DEF OInv

\* Nothing of the order is about the logs.
LEMMA StillOrder ==
  ASSUME OInv, UNCHANGED <<payload, happened, bus, pubs, conn, wire, client>>
  PROVE  OInv'
  BY DEF OInv, OneName, LostOK, Unseen, WireOrder, GotOrder, SubscribedOrder, StreamingOrder,
         Follows

\* The head of the wire comes after all that the client got.
LEMMA ReadIsInOrder ==
  ASSUME IInv, OInv, wire # << >>, Head(wire).kind = "event"
  PROVE  /\ Fresh(wire)
         /\ \A e \in client.got : e < Head(wire).event
<1>1. 1 \in 1..Len(wire) /\ Head(wire) = wire[1] /\ \A i \in 1..Len(wire) : i = 1 \/ 1 < i
  BY DEF IInv, WireOK
<1>2. Fresh(wire)
  BY <1>1 DEF OInv, WireOrder, Fresh
<1>3. QED
  BY <1>1, <1>2 DEF OInv, WireOrder

LEMMA ReadOrder == ASSUME IInv, OInv, Read PROVE OInv'
<1> DEFINE f    == Head(wire)
           rest == Tail(wire)
           got  == client.got
           now  == client'.got
<1> USE DEF IInv
<1>1. /\ wire # << >> /\ wire' = rest
      /\ UNCHANGED <<payload, happened, bus, pubs, conn>>
  BY DEF Read
<1>2. /\ Len(wire) \in Nat /\ Len(rest) \in Nat /\ Len(wire) = Len(rest) + 1
      /\ 1 \in 1..Len(wire) /\ f = wire[1]
      /\ \A i \in 1..Len(rest) : rest[i] = wire[i + 1] /\ i + 1 \in 1..Len(wire) /\ 1 < i + 1
      /\ \A i \in 1..Len(wire) : i = 1 \/ \E j \in 1..Len(rest) : i = j + 1
  <2>1. /\ Len(wire) \in Nat /\ Len(rest) \in Nat /\ Len(wire) = Len(rest) + 1
        /\ f = wire[1] /\ \A i \in 1..Len(rest) : rest[i] = wire[i + 1]
    BY <1>1 DEF WireOK
  <2>2. \A i \in 1..Len(wire) : i = 1 \/ (i - 1 \in 1..Len(rest) /\ i = (i - 1) + 1)
    BY <2>1
  <2>3. QED
    BY <2>1, <2>2
<1>3. /\ FrameOK(payload, happened, f) /\ f.event \in Nat /\ happened \in Nat
      /\ f.kind \in {"resync", "snapshot", "event"}
  BY <1>2 DEF WireOK, FrameOK, FrameSet, PayloadOK
<1>4. f.kind = "event" => Fresh(wire) /\ \A e \in got : e < f.event
  BY <1>1, ReadIsInOrder
<1> HIDE DEF rest, f
\* What the client has got, and what the next snapshot would let it forget.
<1>5. /\ client'.cursor = (IF f.kind = "resync" THEN None
                           ELSE IF f.kind = "event" /\ f.cursor # None THEN f.cursor
                           ELSE client.cursor)
      /\ now = (CASE f.kind = "resync"   -> got
                  [] f.kind = "snapshot" -> {}
                  [] f.kind = "event"    -> got \cup {f.event})
  <2>0. client \in [up : BOOLEAN, cursor : CursorSet, known : SUBSET Nat, got : SUBSET Nat]
    BY DEF ClientOK
  <2>1. CASE f.kind = "resync"
    <3>1. client' = [client EXCEPT !.cursor = None]
      BY <2>1 DEF Read, f
    <3>2. QED
      BY <2>0, <2>1, <3>1
  <2>2. CASE f.kind = "snapshot"
    <3>1. client' = [client EXCEPT !.known = @ \cup 1..f.event, !.got = {}]
      BY <2>2 DEF Read, f
    <3>2. QED
      BY <2>0, <2>2, <3>1
  <2>3. CASE f.kind = "event"
    <3>1. client' = [client EXCEPT !.known = @ \cup {f.event}, !.got = @ \cup {f.event},
                                   !.cursor = IF f.cursor = None THEN @ ELSE f.cursor]
      BY <2>3 DEF Read, f
    <3>2. QED
      BY <2>0, <2>3, <3>1
  <2>4. QED
    BY <1>3, <2>1, <2>2, <2>3
<1>6. Fresh(rest) => Fresh(wire) \/ f.kind = "snapshot"
  BY <1>2, <1>3 DEF Fresh
<1>7. Fresh(rest) => \A e \in now : \/ e \in got /\ Fresh(wire)
                                    \/ e = f.event /\ f.kind = "event"
  BY <1>3, <1>4, <1>5, <1>6
<1>8. \A e : Beyond(wire, got, e) => Beyond(rest, now, e)
  <2>1. SUFFICES ASSUME NEW e, Beyond(wire, got, e) PROVE Beyond(rest, now, e)
    OBVIOUS
  <2>2. f.kind = "event" => f.event < e
    BY <1>2, <2>1 DEF Beyond
  <2>3. Fresh(rest) => \A g \in now : g < e
    BY <1>7, <2>1, <2>2 DEF Beyond
  <2>4. \A i \in 1..Len(rest) : rest[i].kind = "event" => rest[i].event < e
    BY <1>2, <2>1 DEF Beyond
  <2>5. QED
    BY <2>3, <2>4 DEF Beyond
<1>9. OneName' /\ LostOK'
  <2>1. \A i \in 1..Len(rest) : rest[i].kind = "event" /\ rest[i].cursor = None =>
          Lost(payload, rest[i].event)
    BY ZenonT(60), <1>2 DEF OInv, LostOK
  <2>2. QED
    BY <1>1, <2>1, NamesStay DEF LostOK
<1>10. Unseen'
  <2>1. SUFFICES ASSUME NEW p \in Publishers, pubs[p] # Idle, pubs[p].cursor = None
                 PROVE  /\ pubs[p].event \notin now
                        /\ \A i \in 1..Len(rest) : rest[i].kind = "event" =>
                             rest[i].event # pubs[p].event
    BY <1>1 DEF Unseen
  <2>2. /\ pubs[p].event \notin got
        /\ \A i \in 1..Len(wire) : wire[i].kind = "event" => wire[i].event # pubs[p].event
    BY <2>1 DEF OInv, Unseen
  <2>3. QED
    BY <1>2, <1>3, <1>5, <2>2
<1>11. WireOrder'
  <2>1. SUFFICES ASSUME NEW i \in 1..Len(rest), rest[i].kind = "event"
                 PROVE  /\ Fresh(rest) => \A e \in now : e < rest[i].event
                        /\ \A j \in 1..Len(rest) : i < j =>
                             rest[j].kind = "event" /\ rest[i].event < rest[j].event
    BY <1>1 DEF WireOrder
  <2>2. i + 1 \in 1..Len(wire) /\ rest[i] = wire[i + 1] /\ 1 < i + 1
    BY <1>2
  <2>3. /\ Fresh(wire) => \A e \in got : e < rest[i].event
        /\ f.kind = "event" => f.event < rest[i].event
    BY <1>2, <2>1, <2>2 DEF OInv, WireOrder
  <2>4. \A j \in 1..Len(rest) : i < j =>
          rest[j].kind = "event" /\ rest[i].event < rest[j].event
    <3>1. SUFFICES ASSUME NEW j \in 1..Len(rest), i < j
                   PROVE  rest[j].kind = "event" /\ rest[i].event < rest[j].event
      OBVIOUS
    <3>2. j + 1 \in 1..Len(wire) /\ rest[j] = wire[j + 1] /\ i + 1 < j + 1
      BY <1>2, <3>1
    <3>3. QED
      BY <2>1, <2>2, <3>2 DEF OInv, WireOrder
  <2>5. QED
    BY <1>7, <2>3, <2>4
<1>12. GotOrder'
  <2>1. now \subseteq 1..happened
    BY <1>3, <1>5 DEF OInv, GotOrder, FrameOK
  <2>2. ASSUME f.kind = "event", f.cursor # None, NEW e \in now
        PROVE  e <= payload[f.cursor]
    <3>1. payload[f.cursor] = f.event
      BY <1>3, <2>2 DEF FrameOK, Names
    <3>2. e \in 1..happened /\ (e < f.event \/ e = f.event)
      BY <1>4, <1>5, <2>1, <2>2
    <3>3. QED
      BY <1>3, <3>1, <3>2
  <2>3. ASSUME f.kind = "event", f.cursor = None PROVE Lost(payload, f.event)
    BY <1>2, <2>3 DEF OInv, LostOK
  <2>4. client'.cursor # None =>
          \A e \in now : e <= payload[client'.cursor] \/ Lost(payload, e)
    <3>1. CASE f.kind = "event" /\ f.cursor # None
      BY <1>5, <2>2, <3>1
    <3>2. CASE ~ (f.kind = "event" /\ f.cursor # None)
      <4>1. client'.cursor # None => client'.cursor = client.cursor
        BY <1>5, <3>2
      <4>2. \A e \in now : e \in got \/ (f.kind = "event" /\ e = f.event)
        BY <1>3, <1>5
      <4>3. QED
        BY <2>3, <3>2, <4>1, <4>2 DEF OInv, GotOrder
    <3>3. QED
      BY <3>1, <3>2
  <2>5. QED
    BY <1>1, <2>1, <2>4 DEF GotOrder
\* Nothing is on the wire of a connection that has not read the log.
<1>13. SubscribedOrder'
  <2>1. conn.at # "subscribed"
    BY <1>1, ConnAt DEF Subscribed, Opening
  <2>2. QED
    BY <1>1, <2>1 DEF SubscribedOrder
<1>14. StreamingOrder'
  <2>1. \A c, e : Follows(c, e) => Follows(c, e)'
    BY <1>1, <1>8 DEF Follows
  <2>2. QED
    BY <1>1, <1>8, <2>1 DEF OInv, StreamingOrder
<1>15. QED
  BY <1>9, <1>10, <1>11, <1>12, <1>13, <1>14 DEF OInv

-----------------------------------------------------------------------------
(* The theorem *)

LEMMA InitOrder == Init => OInv
<1> SUFFICES ASSUME Init PROVE OInv
  OBVIOUS
<1>1. OneName /\ GotOrder
  BY DEF Init, OneName, GotOrder
<1>2. LostOK /\ Unseen /\ WireOrder
  BY DEF Init, LostOK, Unseen, WireOrder
<1>3. SubscribedOrder /\ StreamingOrder
  BY DEF Init, SubscribedOrder, StreamingOrder, Closed
<1>4. QED
  BY <1>1, <1>2, <1>3 DEF OInv

LEMMA NextOrder ==
  ASSUME Setting, IInv, OInv, [Next]_vars
  PROVE  OInv'
<1>1. ASSUME NEW p \in Publishers, Publish(p) \/ Proceed(p) PROVE OInv'
  BY <1>1, AppendOrder, SendOrder, WriteFailsOrder, MarkGapOrder DEF Publish, Proceed
<1>2. CASE Open
  BY <1>2, OpenOrder
<1>3. CASE Handle
  BY <1>3, OpenOrder, ReadLogOrder, SnapshotOrder, ServeReplayOrder, ServeLiveOrder, EndOrder
     DEF Handle
<1>4. CASE ReadFails
  BY <1>4, SnapshotOrder
<1>5. CASE Read
  BY <1>5, ReadOrder
<1>6. CASE ReadEnd
  BY <1>6, GoneOrder
<1>7. CASE Ending
  BY <1>7, EndOrder, GoneOrder DEF Ending
<1>8. CASE Crash
  BY <1>8, CrashOrder
<1>9. CASE Restart
  BY <1>9, StillOrder DEF Restart
<1>10. CASE UNCHANGED vars
  BY <1>10, StillOrder DEF vars
<1>11. QED
  BY <1>1, <1>2, <1>3, <1>4, <1>5, <1>6, <1>7, <1>8, <1>9, <1>10 DEF Next

\* Every event is delivered at most once and in order (profile 2,
\* stream.rs:40-50): what the client reads between two snapshots never repeats
\* an event and never goes back, whatever cuts, lags, crashes and restarts do
\* and whatever the replay and the live bus both bring.
THEOREM DeliveriesInOrder ==
  ASSUME Setting
  PROVE  Spec => DeliveredInOrder
<1>1. Init => IInv /\ OInv
  BY InitInv, InitOrder
<1>2. IInv /\ OInv /\ [Next]_vars => IInv' /\ OInv'
  BY NextInv, NextOrder
<1>3. IInv /\ OInv =>
        [Read /\ Head(wire).kind = "event" =>
           \A e \in client.got : e < Head(wire).event]_vars
  BY ReadIsInOrder DEF Read
<1>4. QED
  BY <1>1, <1>2, <1>3, PTL DEF Spec, DeliveredInOrder
=============================================================================
