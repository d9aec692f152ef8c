------------------------------ MODULE LogState ------------------------------
(***************************************************************************)
(* What a MemoryLog keeps under its lock (log.rs, struct Inner), and what   *)
(* each of its operations makes of it once the lock is held.  A log is the  *)
(* record [topics, lastSeq, gapFloor]; "topics" maps the topics something   *)
(* was published on to their rings.  The payload and the printed cursor of  *)
(* an entry travel with its sequence number and are left out; the printed   *)
(* generation is the business of the modules that hold several logs.        *)
(***************************************************************************)
EXTENDS Integers, Sequences, FiniteSets, FiniteSetsExt, Functions

CONSTANTS Capacity,   \* events kept per topic, as given to MemoryLog::new
          Ttl,        \* the age past which an event is dropped
          UsizeMax    \* the greatest usize: limit + 1 wraps above it

ASSUME LogAssumption == /\ Capacity \in Nat
                        /\ Ttl \in Nat
                        /\ UsizeMax \in Nat

\* A log that keeps nothing would expire every cursor: new() keeps at least 1.
RingCapacity == IF Capacity = 0 THEN 1 ELSE Capacity

Entry == [seq : Nat, at : Nat]
Topic == [ring : Seq(Entry), trimmedTo : Nat]

Ascending(ring) == \A i, j \in DOMAIN ring : i < j => ring[i].seq < ring[j].seq

SeqsOf(ring) == {ring[i].seq : i \in DOMAIN ring}

NewTopic == [ring |-> << >>, trimmedTo |-> 0]

NewLog == [topics |-> [t \in {} |-> NewTopic], lastSeq |-> 0, gapFloor |-> 0]

(***************************************************************************)
(* trim_to pops from the front while the ring is too long or its front is   *)
(* too old.  Only the front is looked at: an old entry behind a young one   *)
(* stays.  duration_since saturates, so a stamp ahead of "now" is age 0.    *)
(***************************************************************************)
Stale(entry, now) == now - entry.at > Ttl

\* Mutant: the loop condition is len >= capacity.
RestsOneShort(ring, n, now) == /\ Len(ring) - n < RingCapacity
                               /\ n < Len(ring) => ~Stale(ring[n + 1], now)

\* Popping n entries of the ring is where the loop of trim_to can rest.
Rests(ring, n, now) == /\ Len(ring) - n <= RingCapacity
                       /\ n < Len(ring) => ~Stale(ring[n + 1], now)

Popped(ring, now) == Min({n \in 0..Len(ring) : Rests(ring, n, now)})

\* Mutant: what was dropped is not recorded.
TrimToUnrecorded(topic, now) ==
  [topic EXCEPT !.ring = SubSeq(@, Popped(@, now) + 1, Len(@))]

TrimTo(topic, now) ==
  LET n == Popped(topic.ring, now)
  IN  [ring      |-> SubSeq(topic.ring, n + 1, Len(topic.ring)),
       trimmedTo |-> Max({topic.trimmedTo} \cup {topic.ring[i].seq : i \in 1..n})]

(***************************************************************************)
(* append: the next sequence is issued and pushed at the back of its        *)
(* topic's ring under one lock, with the time the caller read before it     *)
(* took the lock.                                                           *)
(***************************************************************************)
Push(topic, seq, now) ==
  [topic EXCEPT !.ring = Append(@, [seq |-> seq, at |-> now])]

TopicOf(log, t) == IF t \in DOMAIN log.topics THEN log.topics[t] ELSE NewTopic

AppendTo(log, t, now) ==
  LET seq == log.lastSeq + 1
  IN  [log EXCEPT
        !.lastSeq = seq,
        !.topics  = [u \in DOMAIN log.topics \cup {t} |->
                       IF u = t THEN TrimTo(Push(TopicOf(log, t), seq, now), now)
                                ELSE log.topics[u]]]

(***************************************************************************)
(* since: the topic is trimmed first, then the ring answers.  What a filter *)
(* keeps is the ring restricted to the positions it keeps: order is the     *)
(* order of positions.                                                      *)
(***************************************************************************)
Issued(log, seq) == seq # 0 /\ seq <= log.lastSeq

SinceLog(log, t, seq, now) ==
  IF Issued(log, seq) /\ t \in DOMAIN log.topics
  THEN [log EXCEPT !.topics[t] = TrimTo(@, now)]
  ELSE log

After(ring, seq) == [i \in {j \in DOMAIN ring : ring[j].seq > seq} |-> ring[i].seq]

\* The cursor of the first entry of a filtered ring; 0 when there is none.
First(out) == IF DOMAIN out = {} THEN 0 ELSE out[Min(DOMAIN out)]

\* take(limit + 1) reads one entry more than it will send, to see whether
\* there are more; in a release build the sum wraps and takes nothing.
Taken(out, limit) == IF (limit + 1) % (UsizeMax + 1) = 0 THEN << >> ELSE out

Events(out)       == [kind |-> "events", replay |-> out, earliest |-> 0]
Expired(earliest) == [kind |-> "expired", replay |-> << >>, earliest |-> earliest]
Unknown           == [kind |-> "unknown", replay |-> << >>, earliest |-> 0]

\* Mutant: a cursor at the gap floor is served.
RingReplyAtFloor(topic, gapFloor, seq, limit) ==
  LET out == Taken(After(topic.ring, seq), limit)
  IN  IF seq < gapFloor \/ seq < topic.trimmedTo
      THEN Expired(First(After(topic.ring, gapFloor)))
      ELSE IF Cardinality(DOMAIN out) > limit THEN Expired(First(out))
      ELSE Events(out)

\* Mutant: the cursor of the last dropped event is expired, too.
RingReplyAtTrim(topic, gapFloor, seq, limit) ==
  LET out == Taken(After(topic.ring, seq), limit)
  IN  IF seq <= gapFloor \/ seq <= topic.trimmedTo
      THEN Expired(First(After(topic.ring, gapFloor)))
      ELSE IF Cardinality(DOMAIN out) > limit THEN Expired(First(out))
      ELSE Events(out)

\* Mutant: the oldest event of the ring is named, gap or no gap.
RingReplyOldest(topic, gapFloor, seq, limit) ==
  LET out == Taken(After(topic.ring, seq), limit)
  IN  IF seq <= gapFloor \/ seq < topic.trimmedTo
      THEN Expired(First(After(topic.ring, 0)))
      ELSE IF Cardinality(DOMAIN out) > limit THEN Expired(First(out))
      ELSE Events(out)

\* The answer of the topic's ring, already trimmed.
RingReply(topic, gapFloor, seq, limit) ==
  LET out == Taken(After(topic.ring, seq), limit)
  IN  IF seq <= gapFloor \/ seq < topic.trimmedTo
      THEN Expired(First(After(topic.ring, gapFloor)))
      ELSE IF Cardinality(DOMAIN out) > limit THEN Expired(First(out))
      ELSE Events(out)

SinceReply(log, t, seq, limit, now) ==
  IF ~Issued(log, seq) THEN Unknown
  ELSE IF t \in DOMAIN log.topics
       THEN RingReply(TrimTo(log.topics[t], now), log.gapFloor, seq, limit)
  ELSE IF seq <= log.gapFloor THEN Expired(0)
  ELSE Events(<< >>)

\* Mutant: the floor also swallows the next event.
MarkGapPast(log) == [log EXCEPT !.gapFloor = log.lastSeq + 1]

\* Mutant: the floor leaves the newest cursor out.
MarkGapShort(log) == [log EXCEPT !.gapFloor = IF log.lastSeq = 0 THEN 0 ELSE log.lastSeq - 1]

MarkGapIn(log) == [log EXCEPT !.gapFloor = log.lastSeq]
=============================================================================
