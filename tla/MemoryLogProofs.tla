-------------------------- MODULE MemoryLogProofs --------------------------
(***************************************************************************)
(* MemoryLog keeps the promise of the EventLog trait, and drops and expires *)
(* for a cause, for any number of topics, callers, events and ticks and any *)
(* capacity and ttl; the trait, for every limit below usize::MAX.           *)
(***************************************************************************)
EXTENDS MemoryLog, LogStateProofs

\* The inductive invariant: the rings hold the tail of what was published
\* because the lock issues sequences in ring order, whatever the stamps say.
IInv == TypeOK /\ RingsHoldTheTail /\ HistoryMatches

\* What IInv says of one topic, in the words of the lemmas about rings.
LEMMA TopicHolds ==
  ASSUME IInv, NEW t \in DOMAIN log.topics
  PROVE  /\ log.topics[t] \in Topic
         /\ t \in Topics
         /\ published[t] \subseteq Nat
         /\ Holds(log.topics[t], published[t])
  BY DEF IInv, TypeOK, RingsHoldTheTail, Holds

LEMMA CursorSeq ==
  ASSUME NEW k \in Cursors
  PROVE  k.seq \in Nat
<1>1. CASE k \in [own : {TRUE}, seq : 0..MaxSeq + 1]
  <2>1. k.seq \in 0..MaxSeq + 1
    BY <1>1
  <2>2. QED
    BY <2>1, BoundAssumption
<1>2. CASE k = [own |-> FALSE, seq |-> 0]
  BY <1>2
<1>3. QED
  BY <1>1, <1>2 DEF Cursors

LEMMA InitInv == Init => IInv
<1>1. SUFFICES ASSUME Init PROVE IInv
  OBVIOUS
<1>2. log = [topics |-> [t \in {} |-> NewTopic], lastSeq |-> 0, gapFloor |-> 0]
  BY <1>1 DEF Init, NewLog
<1>3. DOMAIN log.topics = {}
  BY <1>2
<1>4. TypeOK
  BY <1>1, <1>2, <1>3 DEF Init, TypeOK, CallType, Idle
<1>5. RingsHoldTheTail
  BY <1>1, <1>3 DEF Init, RingsHoldTheTail
<1>6. HistoryMatches
  BY <1>1, <1>2 DEF Init, HistoryMatches
<1>7. QED
  BY <1>4, <1>5, <1>6 DEF IInv

\* append grows one topic by the next sequence and leaves the others alone.
LEMMA AppendGrows ==
  ASSUME IInv, NEW t \in Topics, NEW now \in Nat
  PROVE  LET seq == log.lastSeq + 1
             new == AppendTo(log, t, now)
         IN  /\ new = [topics |-> new.topics, lastSeq |-> seq, gapFloor |-> log.gapFloor]
             /\ DOMAIN new.topics = DOMAIN log.topics \cup {t}
             /\ new.topics \in [DOMAIN new.topics -> Topic]
             /\ \A u \in DOMAIN log.topics \ {t} : new.topics[u] = log.topics[u]
             /\ Holds(new.topics[t], published[t] \cup {seq})
             /\ Len(new.topics[t].ring) <= RingCapacity
<1> DEFINE seq  == log.lastSeq + 1
           old  == TopicOf(log, t)
           top  == TrimTo(Push(old, seq, now), now)
           tops == [u \in DOMAIN log.topics \cup {t} |-> IF u = t THEN top ELSE log.topics[u]]
           new  == AppendTo(log, t, now)
<1>1. /\ log = [topics |-> log.topics, lastSeq |-> log.lastSeq, gapFloor |-> log.gapFloor]
      /\ log.lastSeq \in Nat
      /\ log.topics \in [DOMAIN log.topics -> Topic]
      /\ published[t] \subseteq Nat
      /\ \A s \in published[t] : s < seq
  BY DEF IInv, TypeOK, HistoryMatches
<1>2. old \in Topic /\ Holds(old, published[t])
  <2>1. CASE t \in DOMAIN log.topics
    BY <2>1, TopicHolds DEF TopicOf
  <2>2. CASE t \notin DOMAIN log.topics
    <3>1. published[t] = {}
      BY <2>2 DEF IInv, RingsHoldTheTail
    <3>2. QED
      BY <2>2, <3>1, NewTopicHolds DEF TopicOf
  <2>3. QED
    BY <2>1, <2>2
<1>3. seq \in Nat /\ seq > 0
  BY <1>1
<1>4. /\ Push(old, seq, now) \in Topic
      /\ Holds(Push(old, seq, now), published[t] \cup {seq})
  BY <1>1, <1>2, <1>3, PushHolds
<1>5. /\ top \in Topic
      /\ Holds(top, published[t] \cup {seq})
      /\ Len(top.ring) <= RingCapacity
  <2>1. published[t] \cup {seq} \subseteq Nat
    BY <1>1, <1>3
  <2>2. QED
    BY <1>4, <2>1, TrimHolds
<1>6. new = [log EXCEPT !.lastSeq = seq, !.topics = tops]
  BY DEF AppendTo
<1> HIDE DEF top, seq, new
<1>7. new = [topics |-> tops, lastSeq |-> seq, gapFloor |-> log.gapFloor]
  BY <1>1, <1>6
<1>8. /\ tops[t] = top
      /\ \A u \in DOMAIN log.topics \ {t} : tops[u] = log.topics[u]
      /\ DOMAIN tops = DOMAIN log.topics \cup {t}
      /\ tops \in [DOMAIN tops -> Topic]
  BY <1>1, <1>5
<1> HIDE DEF tops
<1>9. new.topics = tops
  BY <1>7
<1>10. QED
  BY <1>5, <1>7, <1>8, <1>9 DEF seq, new

\* since trims the ring of its topic and changes nothing else.
LEMMA SinceTrims ==
  ASSUME IInv, NEW t \in Topics, NEW seq \in Nat, NEW now \in Nat
  PROVE  LET new == SinceLog(log, t, seq, now)
         IN  /\ new = [topics |-> new.topics, lastSeq |-> log.lastSeq, gapFloor |-> log.gapFloor]
             /\ DOMAIN new.topics = DOMAIN log.topics
             /\ new.topics \in [DOMAIN new.topics -> Topic]
             /\ \A u \in DOMAIN new.topics : /\ Holds(new.topics[u], published[u])
                                             /\ Len(new.topics[u].ring) <= RingCapacity
<1> DEFINE new == SinceLog(log, t, seq, now)
           top == TrimTo(log.topics[t], now)
<1>1. /\ log = [topics |-> log.topics, lastSeq |-> log.lastSeq, gapFloor |-> log.gapFloor]
      /\ log.topics \in [DOMAIN log.topics -> Topic]
  BY DEF IInv, TypeOK
<1>2. \A u \in DOMAIN log.topics : /\ Holds(log.topics[u], published[u])
                                   /\ Len(log.topics[u].ring) <= RingCapacity
  BY TopicHolds DEF IInv, RingsHoldTheTail
<1>3. CASE Issued(log, seq) /\ t \in DOMAIN log.topics
  <2>1. new = [log EXCEPT !.topics = [log.topics EXCEPT ![t] = top]]
    BY <1>3 DEF SinceLog
  <2>2. top \in Topic /\ Holds(top, published[t]) /\ Len(top.ring) <= RingCapacity
    BY <1>3, TopicHolds, TrimHolds
  <2> HIDE DEF top, new
  <2>3. new = [topics |-> [log.topics EXCEPT ![t] = top], lastSeq |-> log.lastSeq,
               gapFloor |-> log.gapFloor]
    BY <1>1, <2>1
  <2>4. new.topics = [log.topics EXCEPT ![t] = top]
    BY <2>3
  <2>5. QED
    BY <1>1, <1>2, <1>3, <2>2, <2>3, <2>4 DEF new
<1>4. CASE ~ (Issued(log, seq) /\ t \in DOMAIN log.topics)
  BY <1>1, <1>2, <1>4 DEF SinceLog
<1>5. QED
  BY <1>3, <1>4

LEMMA EmptyReplay == IsReplay(<< >>)
<1>1. << >> \in Seq(Nat) /\ << >> = [i \in 1..0 |-> 0]
  BY EmptySeq
<1>2. QED
  BY <1>1 DEF IsReplay

\* Every answer is of one of the three kinds, with a list of cursors.
LEMMA ReplyType ==
  ASSUME IInv, NEW t \in Topics, NEW seq \in Nat, NEW limit \in Nat, NEW now \in Nat
  PROVE  LET r == SinceReply(log, t, seq, limit, now)
         IN  /\ r.kind \in {"events", "expired", "unknown"}
             /\ IsReplay(r.replay)
<1>1. ASSUME NEW e PROVE Expired(e).kind = "expired" /\ IsReplay(Expired(e).replay)
  BY EmptyReplay DEF Expired
<1>2. Unknown.kind = "unknown" /\ IsReplay(Unknown.replay)
  BY EmptyReplay DEF Unknown
<1>3. ASSUME NEW out, IsReplay(out) PROVE Events(out).kind = "events" /\ IsReplay(Events(out).replay)
  BY <1>3 DEF Events
<1>4. ASSUME NEW topic \in Topic
      PROVE  LET r == RingReply(topic, log.gapFloor, seq, limit)
             IN  r.kind \in {"events", "expired"} /\ IsReplay(r.replay)
  <2> DEFINE out == After(topic.ring, seq)
  <2>1. IsReplay(out)
    <3>1. DOMAIN topic.ring = 1..Len(topic.ring) /\ Len(topic.ring) \in Nat
      BY LenProperties DEF Topic
    <3>2. DOMAIN out \subseteq Nat \ {0} /\ out = [i \in DOMAIN out |-> out[i]]
      BY <3>1 DEF After
    <3>3. QED
      BY <3>2 DEF IsReplay
  <2>2. IsReplay(Taken(out, limit))
    BY <2>1, EmptyReplay DEF Taken
  <2> HIDE DEF out
  <2>3. RingReply(topic, log.gapFloor, seq, limit) \in
          {Expired(First(After(topic.ring, log.gapFloor))), Expired(First(Taken(out, limit))),
           Events(Taken(out, limit))}
    BY DEF RingReply, out
  <2>4. QED
    BY <1>1, <1>3, <2>2, <2>3
<1>5. CASE t \in DOMAIN log.topics
  <2>1. TrimTo(log.topics[t], now) \in Topic
    <3>1. published[t] \subseteq Nat /\ log.topics[t] \in Topic /\ Holds(log.topics[t], published[t])
      BY <1>5, TopicHolds
    <3>2. QED
      BY <3>1, TrimHolds
  <2>2. QED
    BY <1>2, <1>4, <1>5, <2>1 DEF SinceReply
<1>6. CASE t \notin DOMAIN log.topics
  BY <1>1, <1>2, <1>3, <1>6, EmptyReplay DEF SinceReply
<1>7. QED
  BY <1>5, <1>6

\* Every step keeps the invariant.
LEMMA NextInv == IInv /\ [Next]_vars => IInv'
<1> SUFFICES ASSUME IInv, [Next]_vars PROVE IInv'
  OBVIOUS
<1> USE DEF IInv
<1>1. ASSUME NEW c \in Callers, AppendLocked(c) PROVE IInv'
  <2> DEFINE t   == calls[c].topic
             seq == log.lastSeq + 1
  <2>1. t \in Topics /\ calls[c].now \in Nat
    BY <1>1 DEF AppendLocked, TypeOK, CallType, Idle
  <2>2. /\ log' = AppendTo(log, t, calls[c].now)
        /\ published' = [published EXCEPT ![t] = @ \cup {seq}]
        /\ calls' = [calls EXCEPT ![c] = Idle]
        /\ clock' = clock /\ gaps' = gaps
    BY <1>1 DEF AppendLocked
  <2>3. /\ log' = [topics |-> log'.topics, lastSeq |-> seq, gapFloor |-> log.gapFloor]
        /\ DOMAIN log'.topics = DOMAIN log.topics \cup {t}
        /\ log'.topics \in [DOMAIN log'.topics -> Topic]
        /\ \A u \in DOMAIN log.topics \ {t} : log'.topics[u] = log.topics[u]
        /\ Holds(log'.topics[t], published[t] \cup {seq})
        /\ Len(log'.topics[t].ring) <= RingCapacity
    BY <2>1, <2>2, AppendGrows
  <2>4. log'.lastSeq = seq /\ log'.gapFloor = log.gapFloor /\ seq \in Nat /\ log.gapFloor \in Nat
    BY <2>3 DEF TypeOK
  <2>5. /\ published \in [Topics -> SUBSET Nat]
        /\ published'[t] = published[t] \cup {seq}
        /\ \A u \in Topics \ {t} : published'[u] = published[u]
    BY <2>1, <2>2 DEF TypeOK
  <2> HIDE DEF t, seq
  <2>6. TypeOK'
    <3>1. DOMAIN calls' = Callers /\ \A d \in Callers : CallType(calls'[d])
      BY <2>2 DEF TypeOK, CallType
    <3>2. DOMAIN log'.topics \subseteq Topics
      BY <2>1, <2>3 DEF TypeOK
    <3>3. published' \in [Topics -> SUBSET Nat]
      BY <2>2, <2>4, <2>5
    <3>4. log' = [topics |-> log'.topics, lastSeq |-> log'.lastSeq, gapFloor |-> log'.gapFloor]
      BY <2>3
    <3>5. QED
      BY <2>2, <2>3, <2>4, <3>1, <3>2, <3>3, <3>4 DEF TypeOK, CallType
  <2>7. RingsHoldTheTail'
    <3>1. ASSUME NEW u \in DOMAIN log'.topics
          PROVE  /\ Holds(log'.topics[u], published'[u])
                 /\ Len(log'.topics[u].ring) <= RingCapacity
      <4>1. CASE u = t
        BY <2>3, <2>5, <4>1
      <4>2. CASE u # t
        <5>1. u \in DOMAIN log.topics /\ log'.topics[u] = log.topics[u] /\ published'[u] = published[u]
          BY <2>3, <2>5, <4>2, TopicHolds
        <5>2. QED
          BY <5>1, TopicHolds DEF RingsHoldTheTail
      <4>3. QED
        BY <4>1, <4>2
    <3>2. ASSUME NEW u \in Topics \ DOMAIN log'.topics PROVE published'[u] = {}
      BY <2>3, <2>5 DEF RingsHoldTheTail
    <3>3. QED
      BY <3>1, <3>2 DEF RingsHoldTheTail, Holds
  <2>8. HistoryMatches'
    <3>1. \A u \in Topics : published[u] \subseteq 1..log.lastSeq
      BY DEF HistoryMatches
    <3>2. log.lastSeq \in Nat /\ seq = log.lastSeq + 1
      BY DEF TypeOK, seq
    <3>3. \A u \in Topics : published'[u] \subseteq 1..seq
      <4>1. SUFFICES ASSUME NEW u \in Topics, NEW s \in published'[u] PROVE s \in 1..seq
        OBVIOUS
      <4>2. s \in published[u] \/ s = seq
        BY <2>5
      <4>3. QED
        BY <3>1, <3>2, <4>2
    <3>4. ASSUME NEW u \in Topics, NEW v \in Topics, u # v
          PROVE  published'[u] \cap published'[v] = {}
      <4>1. \A w \in Topics : seq \notin published[w]
        BY <3>1, <3>2
      <4>2. published[u] \cap published[v] = {}
        BY <3>4 DEF HistoryMatches
      <4>3. QED
        BY <2>5, <3>4, <4>1, <4>2
    <3>5. /\ \A g \in gaps : g <= log.gapFloor
          /\ log.gapFloor <= log.lastSeq
          /\ log.gapFloor \in gaps \cup {0}
      BY DEF HistoryMatches
    <3>6. QED
      BY <2>2, <2>4, <3>2, <3>3, <3>4, <3>5 DEF HistoryMatches
  <2>9. QED
    BY <2>6, <2>7, <2>8
<1>2. ASSUME NEW c \in Callers, SinceLocked(c) PROVE IInv'
  <2> DEFINE q == calls[c]
  <2>1. /\ q.topic \in Topics /\ q.cursor \in Cursors /\ q.cursor.seq \in Nat
        /\ q.limit \in Limits /\ q.limit \in Nat /\ q.now \in Nat
    <3>1. q \in [op : {"since"}, topic : Topics, cursor : Cursors, limit : Limits, now : Nat]
      BY <1>2 DEF SinceLocked, TypeOK, CallType, Idle
    <3>2. \A k \in Cursors : k.seq \in Nat
      BY CursorSeq
    <3>3. Limits \subseteq Nat
      BY LimitAssumption, LogAssumption
    <3>4. QED
      BY <3>1, <3>2, <3>3
  <2> DEFINE r == SinceReply(log, q.topic, q.cursor.seq, q.limit, q.now)
  <2>2. /\ log' = SinceLog(log, q.topic, q.cursor.seq, q.now)
        /\ calls' = [calls EXCEPT ![c] = Answered(q, r)]
        /\ clock' = clock /\ gaps' = gaps /\ published' = published
    BY <1>2 DEF SinceLocked
  <2>3. /\ log' = [topics |-> log'.topics, lastSeq |-> log.lastSeq, gapFloor |-> log.gapFloor]
        /\ DOMAIN log'.topics = DOMAIN log.topics
        /\ log'.topics \in [DOMAIN log'.topics -> Topic]
        /\ \A u \in DOMAIN log'.topics : /\ Holds(log'.topics[u], published[u])
                                         /\ Len(log'.topics[u].ring) <= RingCapacity
    BY <2>1, <2>2, SinceTrims
  <2>4. r.kind \in {"events", "expired", "unknown"} /\ IsReplay(r.replay)
    BY <2>1, ReplyType
  <2>5. log'.lastSeq = log.lastSeq /\ log'.gapFloor = log.gapFloor
    BY <2>3
  <2> HIDE DEF r
  <2>6. CallType(Answered(q, r))
    BY <2>1, <2>4 DEF CallType, Answered
  <2> HIDE DEF q
  <2>7. TypeOK'
    <3>1. DOMAIN calls' = Callers /\ \A d \in Callers : CallType(calls'[d])
      BY <2>2, <2>6 DEF TypeOK
    <3>2. QED
      BY <2>2, <2>3, <2>5, <3>1 DEF TypeOK, CallType
  <2>8. RingsHoldTheTail'
    BY <2>2, <2>3 DEF RingsHoldTheTail, Holds
  <2>9. HistoryMatches'
    BY <2>2, <2>5 DEF HistoryMatches
  <2>10. QED
    BY <2>7, <2>8, <2>9
<1>3. ASSUME NEW c \in Callers, MarkGap(c) PROVE IInv'
  <2>1. /\ log' = [topics |-> log.topics, lastSeq |-> log.lastSeq, gapFloor |-> log.lastSeq]
        /\ gaps' = gaps \cup {log.lastSeq}
        /\ clock' = clock /\ calls' = calls /\ published' = published
    BY <1>3 DEF MarkGap, MarkGapIn, TypeOK
  <2>2. /\ log'.topics = log.topics /\ log'.lastSeq = log.lastSeq
        /\ log'.gapFloor = log.lastSeq /\ log.lastSeq \in Nat
    BY <2>1 DEF TypeOK
  <2>3. TypeOK'
    BY <2>1, <2>2 DEF TypeOK
  <2>4. RingsHoldTheTail'
    BY <2>1, <2>2 DEF RingsHoldTheTail
  <2>5. HistoryMatches'
    <3>1. \A g \in gaps' : g <= log.lastSeq
      BY <2>1, <2>2 DEF HistoryMatches, TypeOK
    <3>2. QED
      BY <2>1, <2>2, <3>1 DEF HistoryMatches
  <2>6. QED
    BY <2>3, <2>4, <2>5
<1>4. ASSUME UNCHANGED <<log, published, gaps>>, clock' \in Nat,
             DOMAIN calls' = Callers, \A c \in Callers : CallType(calls'[c])
      PROVE  IInv'
  BY <1>4 DEF TypeOK, CallType, RingsHoldTheTail, HistoryMatches
<1>5. ASSUME NEW c \in Callers, NEW call, CallType(call),
             calls' = [calls EXCEPT ![c] = call], UNCHANGED <<log, clock, published, gaps>>
      PROVE  IInv'
  <2>1. DOMAIN calls' = Callers /\ \A d \in Callers : CallType(calls'[d])
    BY <1>5 DEF TypeOK
  <2>2. clock' \in Nat
    BY <1>5 DEF TypeOK
  <2>3. QED
    BY <1>4, <1>5, <2>1, <2>2
<1>6. ASSUME NEW c \in Callers, NEW t \in Topics, AppendCall(c, t) PROVE IInv'
  <2>1. CallType([op |-> "append", topic |-> t, now |-> clock])
    BY DEF TypeOK, CallType
  <2>2. QED
    BY <1>5, <1>6, <2>1 DEF AppendCall
<1>7. ASSUME NEW c \in Callers, NEW t \in Topics, NEW k \in Cursors, NEW l \in Limits,
             SinceForeign(c, t, k, l)
      PROVE  IInv'
  <2>1. CallType(Answered([topic |-> t, cursor |-> k, limit |-> l], Unknown))
    BY EmptyReplay DEF CallType, Answered, Unknown
  <2>2. QED
    BY <1>5, <1>7, <2>1 DEF SinceForeign
<1>8. ASSUME NEW c \in Callers, NEW t \in Topics, NEW k \in Cursors, NEW l \in Limits,
             SinceCall(c, t, k, l)
      PROVE  IInv'
  <2>1. CallType([op |-> "since", topic |-> t, cursor |-> k, limit |-> l, now |-> clock])
    BY <1>8 DEF TypeOK, CallType, SinceCall
  <2>2. QED
    BY <1>5, <1>8, <2>1 DEF SinceCall
<1>9. ASSUME NEW c \in Callers, Return(c) PROVE IInv'
  <2>1. CallType(Idle)
    BY DEF CallType
  <2>2. QED
    BY <1>5, <1>9, <2>1 DEF Return
<1>10. ASSUME Tick PROVE IInv'
  <2>1. clock' \in Nat /\ UNCHANGED <<log, calls, published, gaps>>
    BY <1>10 DEF Tick, TypeOK
  <2>2. QED
    BY <1>4, <2>1 DEF TypeOK
<1>11. ASSUME UNCHANGED vars PROVE IInv'
  <2>1. UNCHANGED <<log, clock, calls, published, gaps>>
    BY <1>11 DEF vars
  <2>2. QED
    BY <1>4, <2>1 DEF TypeOK
<1>12. QED
  BY <1>1, <1>2, <1>3, <1>6, <1>7, <1>8, <1>9, <1>10, <1>11 DEF Next

\* Types, rings and history hold in every state of every instance of MemoryLog.
THEOREM InvariantHolds == Spec => []IInv
<1>1. QED
  BY InitInv, NextInv, PTL DEF Spec

\* Every variable keeps its type (TypeOK of MemoryLog, struct Inner).
THEOREM TypeCorrect == Spec => []TypeOK
<1>1. IInv => TypeOK
  BY DEF IInv
<1>2. QED
  BY <1>1, InvariantHolds, PTL

\* At any capacity and ttl, under any race of callers, a ring is in sequence
\* order and comparing a cursor with trimmed_to tells whether it lost events.
THEOREM RingsAreExact == Spec => []RingsHoldTheTail
<1>1. IInv => RingsHoldTheTail
  BY DEF IInv
<1>2. QED
  BY <1>1, InvariantHolds, PTL

\* Sequences are issued once, from 1, on one topic each (log.rs:196), and the
\* gap floor is the latest gap that was marked (log.rs:274).
THEOREM HistoriesMatch == Spec => []HistoryMatches
<1>1. IInv => HistoryMatches
  BY DEF IInv
<1>2. QED
  BY <1>1, InvariantHolds, PTL

-----------------------------------------------------------------------------
(* MemoryLog implements EventLog. *)

Replies == [c \in Callers |-> ReplyOf(calls[c])]

\* The instance brings its own copy of Cardinality.
LEMMA SameCardinality == ASSUME NEW S PROVE Trait!Cardinality(S) = Cardinality(S)
  BY DEF Trait!Cardinality, Cardinality

\* The answer computed under the lock is one the trait allows.
LEMMA AnswerIsAllowed ==
  ASSUME IInv, NEW t \in Topics, NEW k \in Cursors, k.own,
         NEW limit \in Nat, limit < UsizeMax, NEW now \in Nat,
         NEW r, r = ReplyOf(Answered([topic |-> t, cursor |-> k, limit |-> limit],
                                     SinceReply(log, t, k.seq, limit, now)))
  PROVE  Trait!Allowed(r)
<1> DEFINE seq    == k.seq
           answer == SinceReply(log, t, seq, limit, now)
<1>1. /\ r.kind = answer.kind /\ r.topic = t /\ r.cursor = k
      /\ r.limit = limit /\ r.replay = answer.replay
  BY DEF ReplyOf, Answered
<1>2. seq \in Nat /\ log.lastSeq \in Nat /\ log.gapFloor \in Nat
      /\ \A g \in gaps : g \in Nat /\ g <= log.gapFloor
  BY CursorSeq DEF IInv, TypeOK, HistoryMatches
<1>3. Issued(log, seq) <=> Trait!WasIssued(k)
  BY <1>2 DEF Issued, Trait!WasIssued
<1>4. CASE ~ Issued(log, seq)
  <2>1. answer.kind = "unknown"
    BY <1>4 DEF SinceReply, Unknown
  <2>2. QED
    BY <1>1, <1>3, <1>4, <2>1 DEF Trait!Allowed
<1>5. CASE Issued(log, seq) /\ t \in DOMAIN log.topics
  <2> DEFINE topic == TrimTo(log.topics[t], now)
             P     == published[t]
  <2>1. topic \in Topic /\ P \subseteq Nat /\ Holds(topic, P)
    BY <1>5, TopicHolds, TrimHolds
  <2> HIDE DEF topic
  <2>2. answer = RingReply(topic, log.gapFloor, seq, limit)
    BY <1>5 DEF SinceReply, topic
  <2>3. CASE answer.kind = "events"
    <3>1. /\ log.gapFloor < seq
          /\ \A i, j \in DOMAIN answer.replay : i < j => answer.replay[i] < answer.replay[j]
          /\ {answer.replay[i] : i \in DOMAIN answer.replay} = {s \in P : s > seq}
          /\ Cardinality(DOMAIN answer.replay) <= limit
      <4>1. RingReply(topic, log.gapFloor, seq, limit).kind = "events"
        BY <2>2, <2>3
      <4>2. /\ log.gapFloor < seq
            /\ ListsAfter(RingReply(topic, log.gapFloor, seq, limit).replay, P, seq, limit)
        BY <1>2, <2>1, <4>1, ReplyIsExact
      <4>3. QED
        BY <2>2, <4>2 DEF ListsAfter
    <3>2. \A g \in gaps : g < seq
      BY <1>2, <3>1
    <3> HIDE DEF answer
    <3>3. Trait!Lists(r.replay, {s \in P : s > seq})
      BY <1>1, <3>1 DEF Trait!Lists
    <3>4. {s \in published[r.topic] : s > r.cursor.seq} = {s \in P : s > seq}
      BY <1>1
    <3>5. Trait!WasIssued(r.cursor) /\ \A g \in gaps : g < r.cursor.seq
      BY <1>1, <1>3, <1>5, <3>2
    <3>6. Cardinality(DOMAIN r.replay) <= r.limit
      BY <1>1, <3>1
    <3>7. Trait!Exact(r)
      BY <3>3, <3>4, <3>5, <3>6, SameCardinality DEF Trait!Exact
    <3>8. QED
      BY <1>1, <2>3, <3>7 DEF Trait!Allowed
  <2>4. CASE answer.kind # "events"
    <3>1. answer.kind = "expired"
      BY <2>2, <2>4 DEF RingReply, Expired, Events
    <3>2. QED
      BY <1>1, <1>3, <1>5, <3>1 DEF Trait!Allowed
  <2>5. QED
    BY <2>3, <2>4
<1>6. CASE Issued(log, seq) /\ t \notin DOMAIN log.topics
  <2>1. CASE seq <= log.gapFloor
    <3>1. answer.kind = "expired"
      BY <1>6, <2>1 DEF SinceReply, Expired
    <3>2. QED
      BY <1>1, <1>3, <1>6, <3>1 DEF Trait!Allowed
  <2>2. CASE ~ (seq <= log.gapFloor)
    <3>1. answer.kind = "events" /\ answer.replay = << >>
      BY <1>6, <2>2 DEF SinceReply, Events
    <3>2. published[t] = {}
      BY <1>6 DEF IInv, RingsHoldTheTail
    <3>3. DOMAIN << >> = {}
      BY EmptySeq
    <3>4. Trait!Lists(r.replay, {s \in published[r.topic] : s > r.cursor.seq})
      BY <1>1, <3>1, <3>2, <3>3 DEF Trait!Lists
    <3>5. Cardinality(DOMAIN r.replay) <= r.limit
      BY <1>1, <3>1, <3>3, FS_EmptySet
    <3>6. Trait!WasIssued(r.cursor) /\ \A g \in gaps : g < r.cursor.seq
      BY <1>1, <1>2, <1>3, <1>6, <2>2
    <3>7. Trait!Exact(r)
      BY <3>4, <3>5, <3>6, SameCardinality DEF Trait!Exact
    <3>8. QED
      BY <1>1, <3>1, <3>7 DEF Trait!Allowed
  <2>3. QED
    BY <2>1, <2>2
<1>7. QED
  BY <1>4, <1>5, <1>6

\* A caller that takes up another call changes no reply but its own.
LEMMA RepliesOf ==
  ASSUME NEW c \in Callers, NEW call, DOMAIN calls = Callers,
         calls' = [calls EXCEPT ![c] = call]
  PROVE  Replies' = [Replies EXCEPT ![c] = ReplyOf(call)]
<1>1. calls'[c] = call /\ \A d \in Callers \ {c} : calls'[d] = calls[d]
  OBVIOUS
<1>2. \A d \in Callers : ReplyOf(calls'[d]) = IF d = c THEN ReplyOf(call) ELSE ReplyOf(calls[d])
  BY <1>1
<1>3. Replies' = [d \in Callers |-> IF d = c THEN ReplyOf(call) ELSE ReplyOf(calls[d])]
  BY <1>2 DEF Replies, ReplyOf
<1>4. QED
  BY <1>3 DEF Replies

LEMMA InitRefines == Init => Trait!EventLogInit
<1>1. ReplyOf(Idle) = Trait!NoReply
  BY DEF ReplyOf, Idle, Trait!NoReply
<1>2. QED
  BY <1>1 DEF Init, NewLog, Trait!EventLogInit, ReplyOf, Idle

\* Every step is a step of the trait's specification or changes none of what
\* it describes.
LEMMA StepRefines ==
  ASSUME \A l \in Limits : l < UsizeMax, IInv, [Next]_vars
  PROVE  [Trait!EventLogNext]_Trait!elVars
<1> USE DEF IInv
<1>1. Replies = [c \in Callers |-> ReplyOf(calls[c])]
      /\ Replies' = [c \in Callers |-> ReplyOf(calls'[c])]
  BY DEF Replies, ReplyOf
<1>2. ASSUME UNCHANGED <<published, gaps, log>>, Replies' = Replies
      PROVE  UNCHANGED Trait!elVars
  BY <1>1, <1>2 DEF Trait!elVars
<1>3. ASSUME NEW c \in Callers, NEW call, ReplyOf(call) = Trait!NoReply,
             ReplyOf(calls[c]) = Trait!NoReply, calls' = [calls EXCEPT ![c] = call]
      PROVE  Replies' = Replies
  <2>1. Replies' = [Replies EXCEPT ![c] = ReplyOf(call)]
    BY <1>3, RepliesOf DEF TypeOK
  <2>2. Replies[c] = Trait!NoReply
    BY <1>3 DEF Replies
  <2>3. QED
    BY <1>3, <2>1, <2>2 DEF Replies
<1>4. ASSUME NEW c \in Callers, AppendLocked(c) PROVE Trait!EventLogNext
  <2> DEFINE t == calls[c].topic
  <2>1. t \in Topics /\ calls[c].now \in Nat
    BY <1>4 DEF AppendLocked, TypeOK, CallType, Idle
  <2>2. log'.lastSeq = log.lastSeq + 1
    <3>1. log' = AppendTo(log, t, calls[c].now)
      BY <1>4 DEF AppendLocked
    <3>2. log' = [topics |-> log'.topics, lastSeq |-> log.lastSeq + 1, gapFloor |-> log.gapFloor]
      BY <2>1, <3>1, AppendGrows
    <3>3. QED
      BY <3>2
  <2>3. published' = [published EXCEPT ![t] = @ \cup {log.lastSeq + 1}] /\ gaps' = gaps
    BY <1>4 DEF AppendLocked
  <2>4. Replies' = Replies
    <3>1. ReplyOf(Idle) = Trait!NoReply /\ ReplyOf(calls[c]) = Trait!NoReply
      BY <1>4 DEF AppendLocked, ReplyOf, Idle, Trait!NoReply
    <3>2. QED
      BY <1>3, <1>4, <3>1 DEF AppendLocked
  <2>5. Trait!Append(t)
    BY <1>1, <2>2, <2>3, <2>4 DEF Trait!Append
  <2>6. QED
    BY <2>1, <2>5 DEF Trait!EventLogNext
<1>5. ASSUME NEW c \in Callers, MarkGap(c) PROVE Trait!EventLogNext
  <2>1. gaps' = gaps \cup {log.lastSeq} /\ published' = published /\ calls' = calls
        /\ log'.lastSeq = log.lastSeq
    <3>1. log' = [topics |-> log.topics, lastSeq |-> log.lastSeq, gapFloor |-> log.lastSeq]
      BY <1>5 DEF MarkGap, MarkGapIn, TypeOK
    <3>2. QED
      BY <1>5, <3>1 DEF MarkGap
  <2>2. Replies' = Replies
    BY <2>1 DEF Replies, ReplyOf
  <2>3. Trait!MarkGap
    BY <1>1, <2>1, <2>2 DEF Trait!MarkGap
  <2>4. QED
    BY <2>3 DEF Trait!EventLogNext
<1>6. ASSUME NEW c \in Callers, NEW call, calls' = [calls EXCEPT ![c] = call],
             Trait!Allowed(ReplyOf(call)), published' = published, gaps' = gaps,
             log'.lastSeq = log.lastSeq
      PROVE  Trait!EventLogNext
  <2>1. Replies' = [Replies EXCEPT ![c] = ReplyOf(call)]
    BY <1>6, RepliesOf DEF TypeOK
  <2>2. Replies'[c] = ReplyOf(call)
    BY <2>1 DEF Replies
  <2>3. Trait!Allowed(Replies'[c]) /\ Replies' = [Replies EXCEPT ![c] = Replies'[c]]
    BY <1>6, <2>1, <2>2
  <2>4. Trait!Answer(c)
    BY <1>1, <1>6, <2>3 DEF Trait!Answer
  <2>5. QED
    BY <2>4 DEF Trait!EventLogNext
<1>7. ASSUME NEW c \in Callers, SinceLocked(c) PROVE Trait!EventLogNext
  <2> DEFINE q == calls[c]
             r == SinceReply(log, q.topic, q.cursor.seq, q.limit, q.now)
  <2>1. /\ q.topic \in Topics /\ q.cursor \in Cursors /\ q.cursor.own
        /\ q.limit \in Nat /\ q.limit < UsizeMax /\ q.now \in Nat
    <3>1. /\ q \in [op : {"since"}, topic : Topics, cursor : Cursors, limit : Limits, now : Nat]
          /\ q.cursor.own
      BY <1>7 DEF SinceLocked, TypeOK, CallType, Idle
    <3>2. \A l \in Limits : l \in Nat
      BY LimitAssumption, LogAssumption
    <3>3. QED
      BY <3>1, <3>2
  <2>2. /\ log' = SinceLog(log, q.topic, q.cursor.seq, q.now)
        /\ calls' = [calls EXCEPT ![c] = Answered(q, r)]
        /\ gaps' = gaps /\ published' = published
    BY <1>7 DEF SinceLocked
  <2>3. log'.lastSeq = log.lastSeq
    <3>1. q.cursor.seq \in Nat
      BY <2>1, CursorSeq
    <3>2. SinceLog(log, q.topic, q.cursor.seq, q.now).lastSeq = log.lastSeq
      BY <2>1, <3>1, SinceTrims
    <3>3. QED
      BY <2>2, <3>2
  <2>4. Answered(q, r) = Answered([topic |-> q.topic, cursor |-> q.cursor, limit |-> q.limit], r)
    BY DEF Answered
  <2>5. Trait!Allowed(ReplyOf(Answered(q, r)))
    BY <2>1, <2>4, AnswerIsAllowed
  <2>6. QED
    BY <1>6, <2>2, <2>3, <2>5
<1>8. ASSUME NEW c \in Callers, NEW t \in Topics, NEW k \in Cursors, NEW l \in Limits,
             SinceForeign(c, t, k, l)
      PROVE  Trait!EventLogNext
  <2> DEFINE call == Answered([topic |-> t, cursor |-> k, limit |-> l], Unknown)
  <2>1. Trait!Allowed(ReplyOf(call))
    BY <1>8 DEF SinceForeign, Answered, Unknown, ReplyOf, Trait!Allowed, Trait!WasIssued
  <2>2. QED
    BY <1>6, <1>8, <2>1 DEF SinceForeign
<1>9. ASSUME NEW c \in Callers, Return(c) PROVE Trait!EventLogNext
  <2>1. ReplyOf(Idle) = Trait!NoReply
    BY DEF ReplyOf, Idle, Trait!NoReply
  <2>2. Replies' = [Replies EXCEPT ![c] = Trait!NoReply]
    BY <1>9, <2>1, RepliesOf DEF Return, TypeOK
  <2>3. Trait!Forget(c)
    BY <1>1, <1>9, <2>2 DEF Return, Trait!Forget
  <2>4. QED
    BY <2>3 DEF Trait!EventLogNext
<1>10. ASSUME NEW c \in Callers, NEW t \in Topics, AppendCall(c, t)
       PROVE  UNCHANGED Trait!elVars
  <2> DEFINE call == [op |-> "append", topic |-> t, now |-> clock]
  <2>1. ReplyOf(call) = Trait!NoReply /\ ReplyOf(calls[c]) = Trait!NoReply
    BY <1>10 DEF AppendCall, ReplyOf, Idle, Trait!NoReply
  <2>2. QED
    BY <1>2, <1>3, <1>10, <2>1 DEF AppendCall
<1>11. ASSUME NEW c \in Callers, NEW t \in Topics, NEW k \in Cursors, NEW l \in Limits,
              SinceCall(c, t, k, l)
       PROVE  UNCHANGED Trait!elVars
  <2> DEFINE call == [op |-> "since", topic |-> t, cursor |-> k, limit |-> l, now |-> clock]
  <2>1. ReplyOf(call) = Trait!NoReply /\ ReplyOf(calls[c]) = Trait!NoReply
    BY <1>11 DEF SinceCall, ReplyOf, Idle, Trait!NoReply
  <2>2. QED
    BY <1>2, <1>3, <1>11, <2>1 DEF SinceCall
<1>12. ASSUME Tick \/ UNCHANGED vars PROVE UNCHANGED Trait!elVars
  <2>1. UNCHANGED <<log, calls, published, gaps>>
    BY <1>12 DEF Tick, vars
  <2>2. Replies' = Replies
    BY <2>1 DEF Replies, ReplyOf
  <2>3. QED
    BY <1>2, <2>1, <2>2
<1>13. QED
  BY <1>4, <1>5, <1>7, <1>8, <1>9, <1>10, <1>11, <1>12 DEF Next

\* MemoryLog keeps the trait's promise when no caller asks for usize::MAX
\* events: every replay is exact, whatever was appended, trimmed or marked.
THEOREM LogKeepsTheTrait ==
  ASSUME \A l \in Limits : l < UsizeMax
  PROVE  Spec => KeepsTheTrait
<1>1. IInv /\ [Next]_vars => [Trait!EventLogNext]_Trait!elVars
  BY StepRefines
<1>2. QED
  BY <1>1, InitRefines, InvariantHolds, PTL DEF Spec, KeepsTheTrait, Trait!EventLogSpec

-----------------------------------------------------------------------------
(* What a step may do *)

\* The time a caller read before it took the lock has come.
StampsAreReal ==
  \A c \in Callers : calls[c].op \in {"append", "since"} => calls[c].now <= clock

LEMMA StampsNext ==
  ASSUME IInv, StampsAreReal, [Next]_vars
  PROVE  StampsAreReal'
<1>1. DOMAIN calls = Callers /\ clock \in Nat
      /\ \A c \in Callers : calls[c].op \in {"append", "since"} => calls[c].now \in Nat
  BY DEF IInv, TypeOK, CallType, Idle
<1>2. ASSUME NEW c \in Callers, NEW call, calls' = [calls EXCEPT ![c] = call], clock' = clock,
             call.op \in {"append", "since"} => call.now <= clock
      PROVE  StampsAreReal'
  BY <1>1, <1>2 DEF StampsAreReal
<1>3. CASE Tick
  <2>1. calls' = calls /\ clock' = clock + 1
    BY <1>3 DEF Tick
  <2>2. QED
    BY <1>1, <2>1 DEF StampsAreReal
<1>4. ASSUME NEW c \in Callers, AppendLocked(c) \/ Return(c) PROVE StampsAreReal'
  <2>1. Idle.op \notin {"append", "since"}
    BY DEF Idle
  <2>2. QED
    BY <1>2, <1>4, <2>1 DEF AppendLocked, Return
<1>5. ASSUME NEW c \in Callers, SinceLocked(c) PROVE StampsAreReal'
  <2>1. \A q, r : Answered(q, r).op = "answered"
    BY DEF Answered
  <2>2. QED
    BY <1>2, <1>5, <2>1 DEF SinceLocked
<1>6. ASSUME NEW c \in Callers, MarkGap(c) PROVE StampsAreReal'
  BY <1>6 DEF MarkGap, StampsAreReal
<1>7. ASSUME NEW c \in Callers, NEW t \in Topics, AppendCall(c, t) PROVE StampsAreReal'
  <2>1. [op |-> "append", topic |-> t, now |-> clock].now <= clock
    BY <1>1
  <2>2. QED
    BY <1>2, <1>7, <2>1 DEF AppendCall
<1>8. ASSUME NEW c \in Callers, NEW t \in Topics, NEW k \in Cursors, NEW l \in Limits,
             SinceForeign(c, t, k, l) \/ SinceCall(c, t, k, l)
      PROVE  StampsAreReal'
  <2>1. \A q, r : Answered(q, r).op = "answered"
    BY DEF Answered
  <2>2. [op |-> "since", topic |-> t, cursor |-> k, limit |-> l, now |-> clock].now <= clock
    BY <1>1
  <2>3. QED
    BY <1>2, <1>8, <2>1, <2>2 DEF SinceForeign, SinceCall
<1>9. CASE UNCHANGED vars
  BY <1>9 DEF vars, StampsAreReal
<1>10. QED
  BY <1>3, <1>4, <1>5, <1>6, <1>7, <1>8, <1>9 DEF Next

LEMMA StampsInit == Init => StampsAreReal
  BY DEF Init, Idle, StampsAreReal

LEMMA PublishedFinite ==
  ASSUME IInv, NEW t \in Topics
  PROVE  published[t] \subseteq Nat /\ IsFiniteSet(published[t])
<1>1. published[t] \subseteq 1..log.lastSeq /\ log.lastSeq \in Nat
  BY DEF IInv, TypeOK, HistoryMatches
<1>2. IsFiniteSet(1..log.lastSeq)
  BY <1>1, FS_Interval
<1>3. QED
  BY <1>1, <1>2, FS_Subset

\* A caller is answered under the lock only by its own since().
LEMMA AnswersLocked ==
  ASSUME IInv, [Next]_vars, NEW c \in Callers, Answers(c)
  PROVE  SinceLocked(c)
<1>1. DOMAIN calls = Callers /\ calls[c].op = "since" /\ calls'[c] # calls[c]
  BY DEF IInv, TypeOK, Answers
<1>2. ASSUME NEW d \in Callers, NEW call, calls' = [calls EXCEPT ![d] = call] PROVE d = c
  BY <1>1, <1>2
<1>3. ~ Tick /\ ~ UNCHANGED vars
  BY <1>1 DEF Tick, vars
<1>4. ASSUME NEW d \in Callers, AppendLocked(d) \/ Return(d) PROVE FALSE
  BY <1>1, <1>2, <1>4 DEF AppendLocked, Return
<1>5. ASSUME NEW d \in Callers, MarkGap(d) PROVE FALSE
  BY <1>1, <1>5 DEF MarkGap
<1>6. ASSUME NEW d \in Callers, NEW t \in Topics, AppendCall(d, t) PROVE FALSE
  BY <1>1, <1>2, <1>6 DEF AppendCall, Idle
<1>7. ASSUME NEW d \in Callers, NEW t \in Topics, NEW k \in Cursors, NEW l \in Limits,
             SinceForeign(d, t, k, l) \/ SinceCall(d, t, k, l)
      PROVE  FALSE
  BY <1>1, <1>2, <1>7 DEF SinceForeign, SinceCall, Idle
<1>8. ASSUME NEW d \in Callers, SinceLocked(d) PROVE SinceLocked(c)
  BY <1>2, <1>8 DEF SinceLocked
<1>9. QED
  BY <1>3, <1>4, <1>5, <1>6, <1>7, <1>8 DEF Next

\* What a since() that holds the lock answers and leaves.
LEMMA SinceAnswers ==
  ASSUME IInv, NEW c \in Callers, SinceLocked(c)
  PROVE  LET q == calls[c]
             r == SinceReply(log, q.topic, q.cursor.seq, q.limit, q.now)
         IN  /\ q.topic \in Topics /\ q.cursor.seq \in Nat /\ q.limit \in Nat /\ q.now \in Nat
             /\ calls'[c].topic = q.topic /\ calls'[c].cursor = q.cursor
             /\ calls'[c].limit = q.limit
             /\ calls'[c].kind = r.kind /\ calls'[c].earliest = r.earliest
             /\ log' = SinceLog(log, q.topic, q.cursor.seq, q.now)
             /\ published' = published /\ gaps' = gaps /\ clock' = clock
<1> DEFINE q == calls[c]
           r == SinceReply(log, q.topic, q.cursor.seq, q.limit, q.now)
<1>1. /\ q.topic \in Topics /\ q.cursor \in Cursors /\ q.limit \in Limits /\ q.now \in Nat
  BY DEF SinceLocked, IInv, TypeOK, CallType, Idle
<1>2. q.cursor.seq \in Nat /\ q.limit \in Nat
  <2>1. \A k \in Cursors : k.seq \in Nat
    BY CursorSeq
  <2>2. Limits \subseteq Nat
    BY LimitAssumption, LogAssumption
  <2>3. QED
    BY <1>1, <2>1, <2>2
<1>3. calls'[c] = Answered(q, r)
  BY DEF SinceLocked, IInv, TypeOK
<1>4. /\ log' = SinceLog(log, q.topic, q.cursor.seq, q.now)
      /\ published' = published /\ gaps' = gaps /\ clock' = clock
  BY DEF SinceLocked
<1> HIDE DEF q, r
<1>5. QED
  BY <1>1, <1>2, <1>3, <1>4 DEF Answered, q, r

\* The ring a since() of an issued cursor answers from.
LEMMA SinceRing ==
  ASSUME IInv, NEW t \in DOMAIN log.topics, NEW seq \in Nat, NEW now \in Nat, Issued(log, seq)
  PROVE  LET top == TrimTo(log.topics[t], now)
         IN  /\ top \in Topic /\ Holds(top, published[t])
             /\ SinceLog(log, t, seq, now).topics[t] = top
             /\ \A u \in DOMAIN log.topics \ {t} :
                  SinceLog(log, t, seq, now).topics[u] = log.topics[u]
<1> DEFINE top == TrimTo(log.topics[t], now)
           new == SinceLog(log, t, seq, now)
<1>1. top \in Topic /\ Holds(top, published[t])
  BY TopicHolds, TrimHolds
<1>2. /\ log = [topics |-> log.topics, lastSeq |-> log.lastSeq, gapFloor |-> log.gapFloor]
  BY DEF IInv, TypeOK
<1>3. new = [log EXCEPT !.topics = [log.topics EXCEPT ![t] = top]]
  BY DEF SinceLog
<1> HIDE DEF top, new
<1>4. new.topics = [log.topics EXCEPT ![t] = top]
  BY <1>2, <1>3
<1>5. QED
  BY <1>1, <1>4 DEF top, new

\* An answer with no ring behind it is Unknown, or there is none to name.
LEMMA ReplyAway ==
  ASSUME NEW t, NEW seq, NEW limit, NEW now, ~ (Issued(log, seq) /\ t \in DOMAIN log.topics)
  PROVE  LET r == SinceReply(log, t, seq, limit, now)
         IN  /\ r.earliest = 0
             /\ r.kind = "expired" => Issued(log, seq) /\ seq <= log.gapFloor
<1>1. Unknown.earliest = 0 /\ Unknown.kind = "unknown" /\ Expired(0).earliest = 0
      /\ Events(<< >>).earliest = 0 /\ Events(<< >>).kind = "events"
  BY DEF Unknown, Expired, Events
<1>2. QED
  BY <1>1 DEF SinceReply

LEMMA FloorIsAGap ==
  ASSUME IInv, NEW seq \in Nat, Issued(log, seq), seq <= log.gapFloor
  PROVE  \E g \in gaps : g >= seq
<1>1. log.gapFloor \in gaps \cup {0} /\ log.gapFloor \in Nat /\ seq # 0
  BY DEF IInv, TypeOK, HistoryMatches, Issued
<1>2. log.gapFloor # 0 /\ log.gapFloor >= seq
  BY <1>1
<1>3. QED
  BY <1>1, <1>2

LEMMA ExpiredCause ==
  ASSUME IInv, NEW t \in Topics, NEW seq \in Nat, NEW limit \in Nat, NEW now \in Nat,
         SinceReply(log, t, seq, limit, now).kind = "expired",
         NEW new, new = SinceLog(log, t, seq, now)
  PROVE  LET after == {s \in published[t] : s > seq}
         IN  \/ \E g \in gaps : g >= seq
             \/ Cardinality(after) > limit
             \/ Known(t) /\ ~ (after \subseteq SeqsOf(new.topics[t].ring))
<1> DEFINE after == {s \in published[t] : s > seq}
           top   == TrimTo(log.topics[t], now)
           out   == After(top.ring, seq)
<1>1. CASE ~ (Issued(log, seq) /\ t \in DOMAIN log.topics)
  BY <1>1, ReplyAway, FloorIsAGap
<1>2. CASE Issued(log, seq) /\ t \in DOMAIN log.topics
  <2>1. top \in Topic /\ Holds(top, published[t]) /\ new.topics[t] = top
    BY <1>2, SinceRing
  <2>2. RingReply(top, log.gapFloor, seq, limit).kind = "expired"
    BY <1>2 DEF SinceReply
  <2> HIDE DEF top
  <2>3. \/ seq <= log.gapFloor \/ seq < top.trimmedTo
        \/ Cardinality(DOMAIN Taken(out, limit)) > limit
    BY <2>2 DEF RingReply, Events
  <2>4. CASE seq <= log.gapFloor
    BY <1>2, <2>4, FloorIsAGap
  <2>5. CASE seq < top.trimmedTo
    <3>1. top.trimmedTo \in published[t] \cup {0} /\ top.trimmedTo \in Nat
          /\ SeqsOf(top.ring) = {s \in published[t] : s > top.trimmedTo}
      BY <2>1 DEF Holds, Topic
    <3>2. top.trimmedTo \in after /\ top.trimmedTo \notin SeqsOf(top.ring)
      BY <2>5, <3>1
    <3>3. QED
      BY <1>2, <2>1, <3>2 DEF Known
  <2>6. CASE Cardinality(DOMAIN Taken(out, limit)) > limit
    <3>1. published[t] \subseteq Nat /\ IsFiniteSet(published[t])
      BY PublishedFinite
    <3>2. /\ Cardinality(DOMAIN out) \in Nat /\ Cardinality(after) \in Nat
          /\ Cardinality(DOMAIN out) <= Cardinality(after)
      BY <2>1, <3>1, NoMoreThanFollowed
    <3> HIDE DEF out, after
    <3>3. CASE Taken(out, limit) = out
      <4>1. Cardinality(after) > limit
        BY <2>6, <3>2, <3>3
      <4>2. QED
        BY <4>1 DEF after
    <3>4. CASE Taken(out, limit) = << >>
      <4>1. DOMAIN Taken(out, limit) = {}
        BY <3>4, EmptySeq
      <4>2. Cardinality(DOMAIN Taken(out, limit)) = 0
        BY <4>1, FS_EmptySet
      <4>3. QED
        BY <2>6, <4>2
    <3>5. QED
      BY <3>3, <3>4 DEF Taken
  <2>7. QED
    BY <2>3, <2>4, <2>5, <2>6
<1>3. QED
  BY <1>1, <1>2

\* No client is told to reload for nothing (log.rs:36-38): an expired answer
\* has a gap, too many events, or a dropped one behind it.
THEOREM ExpiryHasACause == Spec => ExpiredHasACause
<1> DEFINE Caused(c) ==
      Answers(c) /\ calls'[c].kind = "expired" =>
       LET q == calls'[c]
           after == {s \in published[q.topic] : s > q.cursor.seq}
       IN  \/ \E g \in gaps : g >= q.cursor.seq
           \/ Cardinality(after) > q.limit
           \/ Known(q.topic) /\ ~ (after \subseteq SeqsOf(log'.topics[q.topic].ring))
<1>1. ASSUME IInv, [Next]_vars, NEW c \in Callers PROVE Caused(c)
  <2> SUFFICES ASSUME Answers(c), calls'[c].kind = "expired" PROVE Caused(c)
    OBVIOUS
  <2> DEFINE q == calls[c]
  <2>1. /\ q.topic \in Topics /\ q.cursor.seq \in Nat /\ q.limit \in Nat /\ q.now \in Nat
        /\ calls'[c].topic = q.topic /\ calls'[c].cursor = q.cursor /\ calls'[c].limit = q.limit
        /\ SinceReply(log, q.topic, q.cursor.seq, q.limit, q.now).kind = "expired"
        /\ log' = SinceLog(log, q.topic, q.cursor.seq, q.now)
    BY <1>1, AnswersLocked, SinceAnswers
  <2> HIDE DEF q
  <2>2. LET after == {s \in published[q.topic] : s > q.cursor.seq}
        IN  \/ \E g \in gaps : g >= q.cursor.seq
            \/ Cardinality(after) > q.limit
            \/ Known(q.topic) /\ ~ (after \subseteq SeqsOf(log'.topics[q.topic].ring))
    BY <1>1, <2>1, ExpiredCause
  <2>3. QED
    BY <2>1, <2>2
<1>2. IInv /\ [Next]_vars => [\A c \in Callers : Caused(c)]_vars
  BY <1>1
<1>3. QED
  BY <1>2, InvariantHolds, PTL DEF Spec, ExpiredHasACause

LEMMA EarliestHeld ==
  ASSUME IInv, NEW t \in Topics, NEW seq \in Nat, NEW limit \in Nat, NEW now \in Nat,
         NEW e, e = SinceReply(log, t, seq, limit, now).earliest, e # 0,
         NEW new, new = SinceLog(log, t, seq, now)
  PROVE  /\ e \in published[t]
         /\ \A g \in gaps : g < e
         /\ {s \in published[t] : s >= e} \subseteq SeqsOf(new.topics[t].ring)
<1> DEFINE top == TrimTo(log.topics[t], now)
           floor == log.gapFloor
<1>1. Issued(log, seq) /\ t \in DOMAIN log.topics
  BY ReplyAway
<1>2. top \in Topic /\ Holds(top, published[t]) /\ new.topics[t] = top
  BY <1>1, SinceRing
<1>3. e = RingReply(top, floor, seq, limit).earliest
  BY <1>1 DEF SinceReply
<1> HIDE DEF top
<1>4. published[t] \subseteq Nat /\ floor \in Nat /\ \A g \in gaps : g \in Nat /\ g <= floor
  BY DEF IInv, TypeOK, HistoryMatches
<1>5. PICK bound \in Nat : bound >= floor /\ e = First(After(top.ring, bound))
  <2>1. \A x : Expired(x).earliest = x /\ Events(x).earliest = 0
    BY DEF Expired, Events
  <2>2. CASE seq <= floor \/ seq < top.trimmedTo
    <3>1. e = First(After(top.ring, floor))
      BY <1>3, <2>1, <2>2 DEF RingReply
    <3>2. QED
      BY <1>4, <3>1
  <2>3. CASE ~ (seq <= floor \/ seq < top.trimmedTo)
    <3>1. e = First(Taken(After(top.ring, seq), limit))
      BY <1>3, <2>1, <2>3 DEF RingReply
    <3>2. First(<< >>) = 0
      BY EmptySeq DEF First
    <3>3. e = First(After(top.ring, seq))
      BY <3>1, <3>2 DEF Taken
    <3>4. seq >= floor
      BY <1>4, <2>3
    <3>5. QED
      BY <3>3, <3>4
  <2>4. QED
    BY <2>2, <2>3
<1>6. /\ e \in published[t] /\ e > bound
      /\ {s \in published[t] : s >= e} \subseteq SeqsOf(top.ring)
  BY <1>2, <1>4, <1>5, FirstIsHeld
<1>7. \A g \in gaps : g < e
  BY <1>4, <1>5, <1>6
<1>8. QED
  BY <1>2, <1>6, <1>7

\* The cursor an expired answer names (log.rs:250-254, 268) was issued on the
\* topic, is past every gap, and nothing after it has been dropped.
THEOREM EarliestIsHeld == Spec => EarliestIsRetained
<1> DEFINE Held(c) ==
      Answers(c) /\ calls'[c].earliest # 0 =>
       LET q == calls'[c]
       IN  /\ q.earliest \in published[q.topic]
           /\ \A g \in gaps : g < q.earliest
           /\ {s \in published[q.topic] : s >= q.earliest}
                \subseteq SeqsOf(log'.topics[q.topic].ring)
<1>1. ASSUME IInv, [Next]_vars, NEW c \in Callers PROVE Held(c)
  <2> SUFFICES ASSUME Answers(c), calls'[c].earliest # 0 PROVE Held(c)
    OBVIOUS
  <2> DEFINE q == calls[c]
  <2>1. /\ q.topic \in Topics /\ q.cursor.seq \in Nat /\ q.limit \in Nat /\ q.now \in Nat
        /\ calls'[c].topic = q.topic
        /\ calls'[c].earliest = SinceReply(log, q.topic, q.cursor.seq, q.limit, q.now).earliest
        /\ log' = SinceLog(log, q.topic, q.cursor.seq, q.now)
    BY <1>1, AnswersLocked, SinceAnswers
  <2> HIDE DEF q
  <2>2. PICK e : e = calls'[c].earliest
    OBVIOUS
  <2>3. /\ e \in published[q.topic]
        /\ \A g \in gaps : g < e
        /\ {s \in published[q.topic] : s >= e} \subseteq SeqsOf(log'.topics[q.topic].ring)
    BY <1>1, <2>1, <2>2, EarliestHeld
  <2>4. QED
    BY <2>1, <2>2, <2>3
<1>2. IInv /\ [Next]_vars => [\A c \in Callers : Held(c)]_vars
  BY <1>1
<1>3. QED
  BY <1>2, InvariantHolds, PTL DEF Spec, EarliestIsRetained

\* append and since drop an entry for a cause: the clock, not only the stamp,
\* says it is too old.
LEMMA AppendDrops ==
  ASSUME IInv, StampsAreReal, NEW c \in Callers, AppendLocked(c),
         NEW t \in DOMAIN log.topics, NEW i \in DOMAIN log.topics[t].ring
  PROVE  LET e == log.topics[t].ring[i]
         IN  \/ e \in {log'.topics[t].ring[j] : j \in DOMAIN log'.topics[t].ring}
             \/ Cardinality({s \in published'[t] : s > e.seq}) >= RingCapacity
             \/ clock - e.at > Ttl
<1> DEFINE e   == log.topics[t].ring[i]
           q   == calls[c]
           seq == log.lastSeq + 1
           top == TrimTo(Push(TopicOf(log, q.topic), seq, q.now), q.now)
           tops == [u \in DOMAIN log.topics \cup {q.topic} |->
                      IF u = q.topic THEN top ELSE log.topics[u]]
<1>1. /\ q.topic \in Topics /\ q.now \in Nat /\ q.now <= clock /\ clock \in Nat
      /\ published \in [Topics -> SUBSET Nat] /\ log.lastSeq \in Nat /\ Ttl \in Nat
  <2>1. q \in [op : {"append"}, topic : Topics, now : Nat]
    BY DEF AppendLocked, IInv, TypeOK, CallType, Idle
  <2>2. QED
    BY <2>1, LogAssumption DEF AppendLocked, StampsAreReal, IInv, TypeOK
<1>2. log'.topics = tops
  <2>1. log = [topics |-> log.topics, lastSeq |-> log.lastSeq, gapFloor |-> log.gapFloor]
    BY DEF IInv, TypeOK
  <2>2. log' = [log EXCEPT !.lastSeq = seq, !.topics = tops]
    BY DEF AppendLocked, AppendTo
  <2> HIDE DEF tops, seq
  <2>3. QED
    BY <2>1, <2>2
<1>3. published' = [published EXCEPT ![q.topic] = @ \cup {seq}]
  BY DEF AppendLocked
<1>4. CASE t # q.topic
  <2>1. log'.topics[t] = log.topics[t]
    BY <1>2, <1>4
  <2>2. QED
    BY <2>1
<1>5. CASE t = q.topic
  <2> DEFINE P == published[t] \cup {seq}
             grown == Push(log.topics[t], seq, q.now)
  <2>1. /\ log.topics[t] \in Topic /\ t \in Topics /\ published[t] \subseteq Nat
        /\ Holds(log.topics[t], published[t])
    BY TopicHolds
  <2>2. TopicOf(log, q.topic) = log.topics[t]
    BY <1>5 DEF TopicOf
  <2>3. (\A s \in published[t] : s < seq) /\ seq \in Nat /\ seq > 0
    BY <1>1, <2>1 DEF IInv, HistoryMatches
  <2>4. grown \in Topic /\ Holds(grown, P)
    <3> HIDE DEF seq, q
    <3>1. QED
      BY <1>1, <2>1, <2>3, PushHolds
  <2>5. P \subseteq Nat /\ IsFiniteSet(P)
    <3>1. IsFiniteSet(published[t])
      BY <2>1, PublishedFinite
    <3> HIDE DEF seq
    <3>2. IsFiniteSet(P)
      BY <3>1, FS_AddElement
    <3>3. QED
      BY <2>1, <2>3, <3>2
  <2>6. /\ log.topics[t].ring \in Seq(Entry) /\ e \in Entry
        /\ i \in DOMAIN grown.ring /\ grown.ring[i] = e
    <3> DEFINE ring == log.topics[t].ring
               new  == [seq |-> seq, at |-> q.now]
    <3>1. ring \in Seq(Entry) /\ DOMAIN ring = 1..Len(ring) /\ Len(ring) \in Nat
      BY <2>1, LenProperties DEF Topic
    <3>2. e \in Entry
      BY <3>1, ElementOfSeq
    <3>3. new \in Entry
      BY <1>1 DEF Entry
    <3>4. grown.ring = Append(ring, new)
      BY <2>1 DEF Push, Topic
    <3> HIDE DEF ring, new, e
    <3>5. /\ Append(ring, new) \in Seq(Entry) /\ Len(Append(ring, new)) = Len(ring) + 1
          /\ \A j \in 1..Len(ring) : Append(ring, new)[j] = ring[j]
      BY <3>1, <3>3, AppendProperties
    <3>6. DOMAIN Append(ring, new) = 1..Len(ring) + 1
      BY <3>5, LenProperties
    <3>7. i \in 1..Len(ring) /\ i \in 1..Len(ring) + 1
      BY <3>1 DEF ring
    <3>8. QED
      BY <3>1, <3>2, <3>4, <3>5, <3>6, <3>7 DEF ring, e
  <2>7. published'[t] = P /\ log'.topics[t] = TrimTo(grown, q.now)
    BY <1>1, <1>2, <1>3, <1>5, <2>1, <2>2
  <2> HIDE DEF e, q, P, grown
  <2>8. \/ e \in {log'.topics[t].ring[j] : j \in DOMAIN log'.topics[t].ring}
        \/ Cardinality({s \in published'[t] : s > e.seq}) >= RingCapacity
        \/ q.now - e.at > Ttl
    BY <1>1, <2>4, <2>5, <2>6, <2>7, TrimDropsForCause
  <2>9. e.at \in Nat
    BY <2>6 DEF Entry
  <2>10. q.now - e.at > Ttl => clock - e.at > Ttl
    BY <1>1, <2>9
  <2>11. QED
    BY <2>8, <2>10 DEF e
<1>6. QED
  BY <1>4, <1>5

LEMMA SinceDrops ==
  ASSUME IInv, StampsAreReal, NEW c \in Callers, SinceLocked(c),
         NEW t \in DOMAIN log.topics, NEW i \in DOMAIN log.topics[t].ring
  PROVE  LET e == log.topics[t].ring[i]
         IN  \/ e \in {log'.topics[t].ring[j] : j \in DOMAIN log'.topics[t].ring}
             \/ Cardinality({s \in published'[t] : s > e.seq}) >= RingCapacity
             \/ clock - e.at > Ttl
<1> DEFINE e == log.topics[t].ring[i]
           q == calls[c]
<1>1. /\ q.cursor.seq \in Nat /\ q.now \in Nat
      /\ log' = SinceLog(log, q.topic, q.cursor.seq, q.now)
      /\ published' = published
  BY SinceAnswers
<1>2. q.now <= clock /\ clock \in Nat /\ Ttl \in Nat
  BY LogAssumption DEF SinceLocked, StampsAreReal, IInv, TypeOK
<1>3. CASE ~ (Issued(log, q.cursor.seq) /\ q.topic \in DOMAIN log.topics)
  BY <1>1, <1>3 DEF SinceLog
<1>4. CASE Issued(log, q.cursor.seq) /\ q.topic \in DOMAIN log.topics /\ t # q.topic
  <2>1. log'.topics[t] = log.topics[t]
    BY <1>1, <1>4, SinceRing
  <2>2. QED
    BY <2>1
<1>5. CASE Issued(log, q.cursor.seq) /\ t = q.topic
  <2>1. log'.topics[t] = TrimTo(log.topics[t], q.now)
    BY <1>1, <1>5, SinceRing
  <2>2. /\ log.topics[t] \in Topic /\ t \in Topics
        /\ Holds(log.topics[t], published[t])
    BY TopicHolds
  <2>3. published[t] \subseteq Nat /\ IsFiniteSet(published[t])
    BY <2>2, PublishedFinite
  <2>4. e.at \in Nat
    <3>1. log.topics[t].ring \in Seq(Entry)
      BY <2>2 DEF Topic
    <3>2. e \in Entry
      BY <3>1, ElementOfSeq, LenProperties
    <3>3. QED
      BY <3>2 DEF Entry
  <2> HIDE DEF q
  <2>5. \/ e \in {log'.topics[t].ring[j] : j \in DOMAIN log'.topics[t].ring}
        \/ Cardinality({s \in published'[t] : s > e.seq}) >= RingCapacity
        \/ q.now - e.at > Ttl
    BY <1>1, <2>1, <2>2, <2>3, TrimDropsForCause
  <2> HIDE DEF e
  <2>6. q.now - e.at > Ttl => clock - e.at > Ttl
    BY <1>1, <1>2, <2>4
  <2>7. QED
    BY <2>5, <2>6 DEF e
<1>6. QED
  BY <1>3, <1>4, <1>5

\* trim_to (log.rs:130-141) drops an event only when a ring's worth of newer
\* ones followed it on its topic, or when it really is older than the ttl.
THEOREM DropsHaveACause == Spec => DropsOnlyForCause
<1> DEFINE Caused(t, i) ==
       LET e == log.topics[t].ring[i]
       IN  \/ e \in {log'.topics[t].ring[j] : j \in DOMAIN log'.topics[t].ring}
           \/ Cardinality({s \in published'[t] : s > e.seq}) >= RingCapacity
           \/ clock - e.at > Ttl
<1>1. ASSUME IInv, StampsAreReal, [Next]_vars,
             NEW t \in DOMAIN log.topics, NEW i \in DOMAIN log.topics[t].ring
      PROVE  Caused(t, i)
  <2>1. CASE log'.topics = log.topics
    BY <2>1
  <2>2. ASSUME NEW c \in Callers, AppendLocked(c) PROVE Caused(t, i)
    BY <1>1, <2>2, AppendDrops
  <2>3. ASSUME NEW c \in Callers, SinceLocked(c) PROVE Caused(t, i)
    BY <1>1, <2>3, SinceDrops
  <2>4. ASSUME NEW c \in Callers, MarkGap(c) PROVE log'.topics = log.topics
    <3>1. log = [topics |-> log.topics, lastSeq |-> log.lastSeq, gapFloor |-> log.gapFloor]
      BY <1>1 DEF IInv, TypeOK
    <3>2. QED
      BY <2>4, <3>1 DEF MarkGap, MarkGapIn
  <2>5. ASSUME Tick \/ (\E c \in Callers : Return(c) \/ \E u \in Topics : AppendCall(c, u))
        PROVE  log'.topics = log.topics
    BY <2>5 DEF Tick, Return, AppendCall
  <2>6. ASSUME NEW c \in Callers, NEW u \in Topics, NEW k \in Cursors, NEW l \in Limits,
               SinceForeign(c, u, k, l) \/ SinceCall(c, u, k, l)
        PROVE  log'.topics = log.topics
    BY <2>6 DEF SinceForeign, SinceCall
  <2>7. CASE UNCHANGED vars
    BY <2>1, <2>7 DEF vars
  <2> HIDE DEF Caused
  <2>8. QED
    BY <1>1, <2>1, <2>2, <2>3, <2>4, <2>5, <2>6, <2>7 DEF Next
<1>2. IInv /\ StampsAreReal /\ [Next]_vars =>
        [\A t \in DOMAIN log.topics : \A i \in DOMAIN log.topics[t].ring : Caused(t, i)]_vars
  BY <1>1
<1>3. IInv /\ StampsAreReal /\ [Next]_vars => StampsAreReal'
  BY StampsNext
<1>4. QED
  BY <1>2, <1>3, StampsInit, InvariantHolds, PTL DEF Spec, DropsOnlyForCause
=============================================================================
