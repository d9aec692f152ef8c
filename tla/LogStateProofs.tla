--------------------------- MODULE LogStateProofs ---------------------------
(***************************************************************************)
(* What the operators of LogState do to a ring, what they drop of it and    *)
(* what they answer, for every capacity, ttl, limit and ring.               *)
(***************************************************************************)
EXTENDS LogState, FiniteSetTheorems, SequenceTheorems, WellFoundedInduction, TLAPS

\* A ring in order that holds exactly the members of P above trimmedTo.
Holds(topic, P) == /\ Ascending(topic.ring)
                   /\ SeqsOf(topic.ring) = {s \in P : s > topic.trimmedTo}
                   /\ topic.trimmedTo \in P \cup {0}

\* "out" lists the members of P above seq in order, and no more than limit.
ListsAfter(out, P, seq, limit) ==
  /\ \A i, j \in DOMAIN out : i < j => out[i] < out[j]
  /\ {out[i] : i \in DOMAIN out} = {s \in P : s > seq}
  /\ Cardinality(DOMAIN out) <= limit

\* A set of naturals that is not empty has a least member: Min is one.
LEMMA MinOfNaturals ==
  ASSUME NEW S, S \subseteq Nat, S # {}
  PROVE  Min(S) \in S /\ \A y \in S : Min(S) <= y
<1>1. IsWellFoundedOn({ss \in Nat \X Nat : ss[1] < ss[2]}, Nat)
  BY NatLessThanWellFounded DEF OpToRel
<1>2. PICK x \in S : \A y \in S : ~ (<<y, x>> \in {ss \in Nat \X Nat : ss[1] < ss[2]})
  BY <1>1, WFMin
<1>3. ASSUME NEW y \in S PROVE x <= y
  <2>1. <<y, x>> \in Nat \X Nat
    OBVIOUS
  <2>2. ~ (y < x)
    BY <1>2, <2>1
  <2>3. QED
    BY <2>2
<1>4. QED
  BY <1>3 DEF Min

LEMMA RingCapacityType == RingCapacity \in Nat \ {0}
  BY LogAssumption DEF RingCapacity

LEMMA RingEntries ==
  ASSUME NEW ring \in Seq(Entry)
  PROVE  \A i \in 1..Len(ring) : ring[i].seq \in Nat /\ ring[i].at \in Nat
<1>1. SUFFICES ASSUME NEW i \in 1..Len(ring)
               PROVE  ring[i].seq \in Nat /\ ring[i].at \in Nat
  OBVIOUS
<1>2. ring[i] \in Entry
  BY ElementOfSeq
<1>3. QED
  BY <1>2 DEF Entry

\* The loop of trim_to ends: popping everything is a place to rest.  It pops
\* no more than it must: it could rest at no smaller count.
LEMMA PoppedRests ==
  ASSUME NEW ring \in Seq(Entry), NEW now \in Nat
  PROVE  /\ Popped(ring, now) \in 0..Len(ring)
         /\ Rests(ring, Popped(ring, now), now)
         /\ \A m \in 0..Len(ring) : Rests(ring, m, now) => Popped(ring, now) <= m
<1> DEFINE R == {n \in 0..Len(ring) : Rests(ring, n, now)}
<1>1. Len(ring) \in Nat
  BY LenProperties
<1>2. Rests(ring, Len(ring), now)
  BY <1>1, RingCapacityType DEF Rests
<1>3. R \subseteq Nat /\ R # {}
  BY <1>1, <1>2
<1> HIDE DEF R
<1>4. Min(R) \in R /\ \A y \in R : Min(R) <= y
  BY <1>3, MinOfNaturals
<1>5. QED
  BY <1>4 DEF R, Popped

\* The ring that is left is the tail of the ring.
LEMMA TrimmedRing ==
  ASSUME NEW topic \in Topic, NEW now \in Nat
  PROVE  LET n == Popped(topic.ring, now)
             left == TrimTo(topic, now).ring
         IN  /\ left \in Seq(Entry)
             /\ Len(left) = Len(topic.ring) - n
             /\ Len(left) <= RingCapacity
             /\ \A i \in 1..Len(left) : left[i] = topic.ring[n + i]
<1> DEFINE ring == topic.ring
           n    == Popped(ring, now)
           left == SubSeq(ring, n + 1, Len(ring))
<1>1. ring \in Seq(Entry) /\ Len(ring) \in Nat
  BY LenProperties DEF Topic
<1>2. n \in 0..Len(ring) /\ Rests(ring, n, now)
  BY <1>1, PoppedRests
<1>3. \A i \in n + 1..Len(ring) : ring[i] \in Entry
  BY <1>1, <1>2, ElementOfSeq
<1>4. n + 1 \in Int /\ Len(ring) \in Int
  BY <1>1, <1>2
<1> HIDE DEF n, ring
<1>5. /\ left \in Seq(Entry)
      /\ Len(left) = IF n + 1 <= Len(ring) THEN Len(ring) - (n + 1) + 1 ELSE 0
      /\ \A i \in 1..Len(ring) - (n + 1) + 1 : left[i] = ring[n + 1 + i - 1]
  BY <1>3, <1>4, SubSeqProperties
<1>6. Len(left) = Len(ring) - n
  BY <1>1, <1>2, <1>5
<1>7. Len(ring) - n <= RingCapacity
  BY <1>2 DEF Rests
<1>8. ASSUME NEW i \in 1..Len(left) PROVE left[i] = ring[n + i]
  <2>1. i \in 1..Len(ring) - (n + 1) + 1
    BY <1>1, <1>2, <1>6
  <2>2. n + 1 + i - 1 = n + i
    BY <1>2, <2>1
  <2>3. QED
    BY <1>5, <2>1, <2>2
<1>9. TrimTo(topic, now).ring = left
  BY DEF TrimTo, n, ring
<1>10. QED
  BY <1>5, <1>6, <1>7, <1>8, <1>9 DEF n, ring

\* In a ring in order, trimmed_to ends at the last entry that was popped.
LEMMA TrimmedMark ==
  ASSUME NEW topic \in Topic, NEW now \in Nat,
         NEW P, P \subseteq Nat, Holds(topic, P)
  PROVE  LET n == Popped(topic.ring, now)
         IN  TrimTo(topic, now).trimmedTo =
               IF n = 0 THEN topic.trimmedTo ELSE topic.ring[n].seq
<1> DEFINE ring == topic.ring
           n    == Popped(ring, now)
           S    == {topic.trimmedTo} \cup {ring[i].seq : i \in 1..n}
           top  == IF n = 0 THEN topic.trimmedTo ELSE ring[n].seq
<1>1. /\ ring \in Seq(Entry) /\ Len(ring) \in Nat /\ DOMAIN ring = 1..Len(ring)
      /\ topic.trimmedTo \in Nat
  BY LenProperties DEF Topic
<1>2. n \in 0..Len(ring)
  BY <1>1, PoppedRests
<1>3. \A i \in 1..Len(ring) : ring[i].seq \in Nat
  BY <1>1, RingEntries
<1>4. \A i \in 1..Len(ring) : ring[i].seq > topic.trimmedTo
  BY <1>1 DEF Holds, SeqsOf
<1>5. \A i, j \in 1..Len(ring) : i < j => ring[i].seq < ring[j].seq
  BY <1>1 DEF Holds, Ascending
<1>6. TrimTo(topic, now).trimmedTo = Max(S)
  BY DEF TrimTo
<1> HIDE DEF n, ring
<1>7. top \in S /\ top \in Nat
  BY <1>1, <1>2, <1>3
<1>8. ASSUME NEW y \in S PROVE top >= y
  <2>1. CASE y = topic.trimmedTo
    BY <2>1, <1>1, <1>2, <1>3, <1>4
  <2>2. CASE y \in {ring[i].seq : i \in 1..n}
    <3>1. PICK i \in 1..n : y = ring[i].seq
      BY <2>2
    <3>2. i \in 1..Len(ring) /\ n \in 1..Len(ring) /\ n # 0
      BY <1>1, <1>2, <3>1
    <3>3. QED
      BY <1>3, <1>5, <3>1, <3>2
  <2>3. QED
    BY <2>1, <2>2
<1>9. S \subseteq Nat
  BY <1>1, <1>2, <1>3
<1> HIDE DEF top, S
<1>10. Max(S) = top
  <2>1. Max(S) \in S /\ \A y \in S : Max(S) >= y
    BY <1>7, <1>8 DEF Max
  <2>2. Max(S) \in Nat /\ top >= Max(S)
    BY <2>1, <1>8, <1>9
  <2>3. Max(S) >= top
    BY <2>1, <1>7
  <2>4. QED
    BY <2>2, <2>3, <1>7
<1>11. QED
  BY <1>6, <1>10 DEF top, n, ring

\* Trimming keeps a ring in order, within capacity, and exact above its mark.
LEMMA TrimHolds ==
  ASSUME NEW topic \in Topic, NEW now \in Nat,
         NEW P, P \subseteq Nat, Holds(topic, P)
  PROVE  /\ TrimTo(topic, now) \in Topic
         /\ Holds(TrimTo(topic, now), P)
         /\ Len(TrimTo(topic, now).ring) <= RingCapacity
<1> DEFINE ring == topic.ring
           n    == Popped(ring, now)
           left == TrimTo(topic, now).ring
           mark == TrimTo(topic, now).trimmedTo
<1>1. /\ ring \in Seq(Entry) /\ Len(ring) \in Nat /\ DOMAIN ring = 1..Len(ring)
      /\ topic.trimmedTo \in Nat
  BY LenProperties DEF Topic
<1>2. n \in 0..Len(ring)
  BY <1>1, PoppedRests
<1>3. \A i \in 1..Len(ring) : ring[i].seq \in Nat
  BY <1>1, RingEntries
<1>4. \A i, j \in 1..Len(ring) : i < j => ring[i].seq < ring[j].seq
  BY <1>1 DEF Holds, Ascending
<1>5. mark = IF n = 0 THEN topic.trimmedTo ELSE ring[n].seq
  BY TrimmedMark
<1>6. /\ left \in Seq(Entry)
      /\ Len(left) = Len(ring) - n
      /\ Len(left) <= RingCapacity
      /\ \A i \in 1..Len(left) : left[i] = ring[n + i]
  BY TrimmedRing
<1>7. DOMAIN left = 1..Len(left) /\ Len(left) \in Nat
  BY <1>6, LenProperties
<1>8. TrimTo(topic, now) = [ring |-> left, trimmedTo |-> mark]
  BY DEF TrimTo
<1>9. SeqsOf(ring) = {s \in P : s > topic.trimmedTo} /\ topic.trimmedTo \in P \cup {0}
  BY DEF Holds
<1> HIDE DEF n, ring, left, mark
<1>10. mark \in Nat
  BY <1>1, <1>2, <1>3, <1>5
<1>11. ASSUME NEW i \in 1..Len(left)
       PROVE  n + i \in 1..Len(ring) /\ left[i] = ring[n + i]
  BY <1>1, <1>2, <1>6, <1>7
<1>12. Ascending(left)
  <2>1. SUFFICES ASSUME NEW i \in 1..Len(left), NEW j \in 1..Len(left), i < j
                 PROVE  left[i].seq < left[j].seq
    BY <1>7 DEF Ascending
  <2>2. n + i < n + j
    BY <1>2, <1>7, <2>1
  <2>3. QED
    BY <1>4, <1>11, <2>2
<1>13. SeqsOf(left) = {s \in P : s > mark}
  <2>1. ASSUME NEW s \in SeqsOf(left) PROVE s \in P /\ s > mark
    <3>1. PICK i \in 1..Len(left) : s = left[i].seq
      BY <1>7 DEF SeqsOf
    <3>2. n + i \in 1..Len(ring) /\ s = ring[n + i].seq
      BY <1>11, <3>1
    <3>3. s \in P /\ s > topic.trimmedTo
      BY <1>1, <1>9, <3>2 DEF SeqsOf
    <3>4. CASE n = 0
      BY <1>5, <3>3, <3>4
    <3>5. CASE n # 0
      <4>1. n \in 1..Len(ring) /\ n < n + i
        BY <1>1, <1>2, <1>7, <3>5
      <4>2. ring[n].seq < ring[n + i].seq
        BY <1>4, <3>2, <4>1
      <4>3. QED
        BY <1>3, <1>5, <3>2, <3>3, <3>5, <4>1, <4>2
    <3>6. QED
      BY <3>4, <3>5
  <2>2. ASSUME NEW s \in P, s > mark PROVE s \in SeqsOf(left)
    <3>1. s \in Nat
      OBVIOUS
    <3>2. s > topic.trimmedTo
      <4>1. CASE n = 0
        BY <1>5, <2>2, <4>1
      <4>2. CASE n # 0
        <5>1. ring[n].seq \in SeqsOf(ring)
          BY <1>1, <1>2, <4>2 DEF SeqsOf
        <5>2. ring[n].seq > topic.trimmedTo /\ ring[n].seq \in Nat
          BY <1>9, <5>1
        <5>3. QED
          BY <1>1, <1>5, <2>2, <3>1, <4>2, <5>2
      <4>3. QED
        BY <4>1, <4>2
    <3>3. PICK k \in 1..Len(ring) : s = ring[k].seq
      BY <1>1, <1>9, <2>2, <3>2 DEF SeqsOf
    <3>4. k > n
      <4>1. SUFFICES ASSUME ~ (k > n) PROVE FALSE
        OBVIOUS
      <4>2. n # 0 /\ n \in 1..Len(ring) /\ (k = n \/ k < n)
        BY <1>1, <1>2, <3>3, <4>1
      <4>3. ring[k].seq <= ring[n].seq
        BY <1>3, <1>4, <3>3, <4>2
      <4>4. QED
        BY <1>3, <1>5, <2>2, <3>3, <4>2, <4>3
    <3>5. k - n \in 1..Len(left) /\ n + (k - n) = k
      BY <1>1, <1>2, <1>6, <3>3, <3>4
    <3>6. QED
      BY <1>7, <1>11, <3>3, <3>5 DEF SeqsOf
  <2>3. QED
    BY <2>1, <2>2
<1>14. mark \in P \cup {0}
  <2>1. CASE n = 0
    BY <1>5, <1>9, <2>1
  <2>2. CASE n # 0
    BY <1>1, <1>2, <1>5, <1>9, <2>2 DEF SeqsOf
  <2>3. QED
    BY <2>1, <2>2
<1>15. QED
  BY <1>6, <1>8, <1>10, <1>12, <1>13, <1>14 DEF Topic, Holds

LEMMA NewTopicHolds == NewTopic \in Topic /\ Holds(NewTopic, {})
<1>1. << >> \in Seq(Entry) /\ DOMAIN << >> = {}
  BY EmptySeq
<1>2. QED
  BY <1>1 DEF NewTopic, Topic, Holds, Ascending, SeqsOf

\* A sequence above everything published keeps its ring in order and exact.
LEMMA PushHolds ==
  ASSUME NEW topic \in Topic, NEW now \in Nat, NEW seq \in Nat, seq > 0,
         NEW P, P \subseteq Nat, Holds(topic, P), \A s \in P : s < seq
  PROVE  /\ Push(topic, seq, now) \in Topic
         /\ Holds(Push(topic, seq, now), P \cup {seq})
<1> DEFINE ring  == topic.ring
           entry == [seq |-> seq, at |-> now]
           grown == Append(ring, entry)
<1>1. /\ ring \in Seq(Entry) /\ Len(ring) \in Nat /\ DOMAIN ring = 1..Len(ring)
      /\ topic.trimmedTo \in Nat /\ entry \in Entry
  BY LenProperties DEF Topic, Entry
<1>2. Push(topic, seq, now) = [ring |-> grown, trimmedTo |-> topic.trimmedTo]
  BY SMTT(30) DEF Push, Topic
<1>3. SeqsOf(ring) = {s \in P : s > topic.trimmedTo} /\ topic.trimmedTo \in P \cup {0}
  BY DEF Holds
<1>4. \A i, j \in 1..Len(ring) : i < j => ring[i].seq < ring[j].seq
  BY <1>1 DEF Holds, Ascending
<1> HIDE DEF ring, entry
<1>5. /\ grown \in Seq(Entry) /\ Len(grown) = Len(ring) + 1
      /\ \A i \in 1..Len(ring) : grown[i] = ring[i]
      /\ grown[Len(ring) + 1] = entry
  BY <1>1, AppendProperties
<1>6. DOMAIN grown = 1..Len(ring) + 1
  BY <1>5, LenProperties
<1>7. entry.seq = seq
  BY DEF entry
<1> HIDE DEF grown
<1>8. \A i \in 1..Len(ring) : ring[i].seq \in P /\ ring[i].seq < seq
  BY <1>1, <1>3 DEF SeqsOf
<1>9. Ascending(grown)
  <2>1. SUFFICES ASSUME NEW i \in 1..Len(ring) + 1, NEW j \in 1..Len(ring) + 1, i < j
                 PROVE  grown[i].seq < grown[j].seq
    BY <1>6 DEF Ascending
  <2>2. i \in 1..Len(ring)
    BY <1>1, <2>1
  <2>3. CASE j = Len(ring) + 1
    BY <1>5, <1>7, <1>8, <2>2, <2>3
  <2>4. CASE j \in 1..Len(ring)
    BY <1>4, <1>5, <2>1, <2>2, <2>4
  <2>5. QED
    BY <1>1, <2>3, <2>4
<1>10. SeqsOf(grown) = SeqsOf(ring) \cup {seq}
  <2>1. SeqsOf(grown) \subseteq SeqsOf(ring) \cup {seq}
    <3>1. SUFFICES ASSUME NEW i \in 1..Len(ring) + 1
                   PROVE  grown[i].seq \in SeqsOf(ring) \cup {seq}
      BY <1>6 DEF SeqsOf
    <3>2. i = Len(ring) + 1 \/ i \in 1..Len(ring)
      BY <1>1
    <3>3. QED
      BY <1>1, <1>5, <1>7, <3>2 DEF SeqsOf
  <2>2. seq \in SeqsOf(grown)
    <3>1. Len(ring) + 1 \in DOMAIN grown
      BY <1>1, <1>6
    <3>2. QED
      BY <1>5, <1>7, <3>1 DEF SeqsOf
  <2>3. SeqsOf(ring) \subseteq SeqsOf(grown)
    <3>1. SUFFICES ASSUME NEW i \in 1..Len(ring) PROVE ring[i].seq \in SeqsOf(grown)
      BY <1>1 DEF SeqsOf
    <3>2. i \in DOMAIN grown /\ grown[i].seq = ring[i].seq
      BY <1>1, <1>5, <1>6
    <3>3. QED
      BY <3>2 DEF SeqsOf
  <2>4. QED
    BY <2>1, <2>2, <2>3
<1>11. seq > topic.trimmedTo
  BY <1>3
<1>12. SeqsOf(grown) = {s \in P \cup {seq} : s > topic.trimmedTo}
  BY <1>3, <1>10, <1>11
<1>13. QED
  BY <1>1, <1>2, <1>3, <1>5, <1>9, <1>12 DEF Topic, Holds, grown

\* An answer with events lists, in order, all that the topic published after
\* the cursor, and no gap floor reaches the cursor.
LEMMA ReplyIsExact ==
  ASSUME NEW topic \in Topic, NEW P, P \subseteq Nat, Holds(topic, P),
         NEW floor \in Nat, NEW seq \in Nat, NEW limit \in Nat, limit < UsizeMax,
         RingReply(topic, floor, seq, limit).kind = "events"
  PROVE  /\ floor < seq
         /\ ListsAfter(RingReply(topic, floor, seq, limit).replay, P, seq, limit)
<1> DEFINE ring == topic.ring
           out  == After(ring, seq)
<1>1. /\ ring \in Seq(Entry) /\ Len(ring) \in Nat /\ DOMAIN ring = 1..Len(ring)
      /\ topic.trimmedTo \in Nat
  BY LenProperties DEF Topic
<1>2. \A i \in 1..Len(ring) : ring[i].seq \in Nat
  BY <1>1, RingEntries
<1>3. Taken(out, limit) = out
  <2>1. limit + 1 \in 1..UsizeMax /\ UsizeMax + 1 \in Nat \ {0}
    BY LogAssumption
  <2>2. (limit + 1) % (UsizeMax + 1) = limit + 1
    BY <2>1, LogAssumption
  <2>3. QED
    BY <2>1, <2>2 DEF Taken
<1>4. /\ ~ (seq <= floor) /\ ~ (seq < topic.trimmedTo)
      /\ ~ (Cardinality(DOMAIN out) > limit)
      /\ RingReply(topic, floor, seq, limit).replay = out
  BY <1>3 DEF RingReply, Expired, Events
<1>5. DOMAIN out = {j \in 1..Len(ring) : ring[j].seq > seq}
  BY <1>1 DEF After
<1>6. \A i \in DOMAIN out : out[i] = ring[i].seq
  BY DEF After
<1>8. SeqsOf(ring) = {s \in P : s > topic.trimmedTo}
  BY DEF Holds
<1>9. \A i, j \in 1..Len(ring) : i < j => ring[i].seq < ring[j].seq
  BY <1>1 DEF Holds, Ascending
<1> HIDE DEF out, ring
<1>10. \A i, j \in DOMAIN out : i < j => out[i] < out[j]
  BY <1>5, <1>6, <1>9
<1>11. {out[i] : i \in DOMAIN out} \subseteq {s \in P : s > seq}
  BY <1>1, <1>5, <1>6, <1>8 DEF SeqsOf
<1>12. ASSUME NEW s \in P, s > seq PROVE s \in {out[i] : i \in DOMAIN out}
  <2>1. s > topic.trimmedTo
    BY <1>1, <1>4, <1>12
  <2>2. PICK i \in 1..Len(ring) : s = ring[i].seq
    BY <1>1, <1>8, <2>1 DEF SeqsOf
  <2>3. QED
    BY <1>5, <1>6, <1>12, <2>2
<1>13. Cardinality(DOMAIN out) <= limit
  <2>1. IsFiniteSet(DOMAIN out)
    <3>1. IsFiniteSet(1..Len(ring))
      BY <1>1, FS_Interval
    <3>2. QED
      BY <1>5, <3>1, FS_Subset
  <2>2. Cardinality(DOMAIN out) \in Nat
    BY <2>1, FS_CardinalityType
  <2>3. QED
    BY <1>4, <2>2
<1>14. ListsAfter(out, P, seq, limit)
  BY <1>10, <1>11, <1>12, <1>13 DEF ListsAfter
<1>15. QED
  BY <1>4, <1>14

\* The cursor an expired answer names: the first of the ring past a bound was
\* published past it, and the ring holds all that was published from there on.
LEMMA FirstIsHeld ==
  ASSUME NEW topic \in Topic, NEW P, P \subseteq Nat, Holds(topic, P), NEW bound \in Nat,
         First(After(topic.ring, bound)) # 0
  PROVE  LET e == First(After(topic.ring, bound))
         IN  /\ e \in P /\ e > bound
             /\ {s \in P : s >= e} \subseteq SeqsOf(topic.ring)
<1> DEFINE ring == topic.ring
           out  == After(ring, bound)
           k    == Min(DOMAIN out)
<1>1. /\ ring \in Seq(Entry) /\ Len(ring) \in Nat /\ DOMAIN ring = 1..Len(ring)
      /\ topic.trimmedTo \in Nat
  BY LenProperties DEF Topic
<1>2. DOMAIN out = {j \in 1..Len(ring) : ring[j].seq > bound} /\ DOMAIN out # {}
  BY <1>1 DEF After, First
<1>3. k \in DOMAIN out
  <2>1. DOMAIN out \subseteq Nat
    BY <1>2
  <2> HIDE DEF out
  <2>2. QED
    BY <1>2, <2>1, MinOfNaturals
<1>4. First(out) = ring[k].seq /\ ring[k].seq > bound /\ k \in DOMAIN ring
  BY <1>1, <1>2, <1>3 DEF First, After
<1> HIDE DEF k
<1>5. ring[k].seq \in P /\ ring[k].seq > topic.trimmedTo /\ ring[k].seq \in Nat
  BY <1>4 DEF Holds, SeqsOf
<1>6. ASSUME NEW s \in P, s >= ring[k].seq PROVE s \in SeqsOf(ring)
  <2>1. s > topic.trimmedTo
    BY <1>1, <1>5, <1>6
  <2>2. QED
    BY <2>1 DEF Holds
<1>7. QED
  BY <1>4, <1>5, <1>6

\* A list of what follows a cursor in a ring is no longer than what followed it.
LEMMA NoMoreThanFollowed ==
  ASSUME NEW topic \in Topic, NEW P, P \subseteq Nat, IsFiniteSet(P), Holds(topic, P),
         NEW seq \in Nat
  PROVE  LET out == After(topic.ring, seq)
         IN  /\ Cardinality(DOMAIN out) \in Nat /\ Cardinality({s \in P : s > seq}) \in Nat
             /\ Cardinality(DOMAIN out) <= Cardinality({s \in P : s > seq})
<1> DEFINE ring  == topic.ring
           out   == After(ring, seq)
           after == {s \in P : s > seq}
<1>1. /\ ring \in Seq(Entry) /\ Len(ring) \in Nat /\ DOMAIN ring = 1..Len(ring)
  BY LenProperties DEF Topic
<1>2. DOMAIN out = {j \in 1..Len(ring) : ring[j].seq > seq}
      /\ out = [i \in DOMAIN out |-> ring[i].seq]
  BY <1>1 DEF After
<1>3. \A i \in 1..Len(ring) : ring[i].seq \in P
  BY <1>1 DEF Holds, SeqsOf
<1>4. \A i, j \in 1..Len(ring) : i < j => ring[i].seq < ring[j].seq
  BY <1>1 DEF Holds, Ascending
<1> HIDE DEF out, ring
<1>5. out \in [DOMAIN out -> after]
  BY <1>2, <1>3
<1>6. \A i, j \in DOMAIN out : out[i] = out[j] => i = j
  <2>1. SUFFICES ASSUME NEW i \in DOMAIN out, NEW j \in DOMAIN out, out[i] = out[j], i # j
                 PROVE  FALSE
    OBVIOUS
  <2>2. i \in 1..Len(ring) /\ j \in 1..Len(ring) /\ ring[i].seq = ring[j].seq
    BY <1>2, <2>1
  <2>3. i < j \/ j < i
    BY <2>1, <2>2
  <2>4. ring[i].seq \in Nat /\ ring[j].seq \in Nat
    BY <1>3, <2>2
  <2>5. QED
    BY <1>4, <2>2, <2>3, <2>4
<1>7. IsFiniteSet(after)
  BY FS_Subset
<1>8. out \in Injection(DOMAIN out, after)
  BY <1>5, <1>6 DEF Injection, IsInjective
<1>9. IsFiniteSet(DOMAIN out) /\ Cardinality(DOMAIN out) <= Cardinality(after)
  BY <1>7, <1>8, FS_Injection
<1>10. Cardinality(DOMAIN out) \in Nat /\ Cardinality(after) \in Nat
  BY <1>7, <1>9, FS_CardinalityType
<1>11. QED
  BY <1>9, <1>10 DEF out, ring

\* trim_to drops an entry only for the ring's worth that follows it, or for age.
LEMMA TrimDropsForCause ==
  ASSUME NEW topic \in Topic, NEW P, P \subseteq Nat, IsFiniteSet(P), Holds(topic, P),
         NEW now \in Nat, NEW i \in DOMAIN topic.ring
  PROVE  LET e    == topic.ring[i]
             left == TrimTo(topic, now).ring
         IN  \/ e \in {left[j] : j \in DOMAIN left}
             \/ Cardinality({s \in P : s > e.seq}) >= RingCapacity
             \/ now - e.at > Ttl
<1> DEFINE ring == topic.ring
           left == TrimTo(topic, now).ring
           n    == Popped(ring, now)
           newer == {s \in P : s > ring[i].seq}
<1>1. /\ ring \in Seq(Entry) /\ Len(ring) \in Nat /\ DOMAIN ring = 1..Len(ring)
  BY LenProperties DEF Topic
<1>2. /\ n \in 0..Len(ring)
      /\ \A m \in 0..Len(ring) : Rests(ring, m, now) => n <= m
  BY <1>1, PoppedRests
<1>3. /\ left \in Seq(Entry) /\ Len(left) = Len(ring) - n
      /\ \A j \in 1..Len(left) : left[j] = ring[n + j]
  BY TrimmedRing
<1>4. DOMAIN left = 1..Len(left)
  BY <1>3, LenProperties
<1> HIDE DEF left, n
<1>5. CASE i > n
  <2>1. i - n \in 1..Len(left) /\ n + (i - n) = i
    BY <1>1, <1>2, <1>3, <1>5
  <2>2. left[i - n] = ring[i]
    BY <1>3, <2>1
  <2>3. QED
    BY <1>4, <2>1, <2>2 DEF left
<1>6. CASE i <= n
  <2>1. i \in 1..Len(ring) /\ i - 1 \in 0..Len(ring) /\ ~ (n <= i - 1)
    BY <1>1, <1>2, <1>6
  <2>2. ~Rests(ring, i - 1, now)
    BY <1>2, <2>1
  <2>3. (i - 1) + 1 = i /\ i - 1 < Len(ring)
    BY <1>1, <2>1
  <2>4. ~ (Len(ring) - (i - 1) <= RingCapacity) \/ Stale(ring[i], now)
    BY <2>2, <2>3 DEF Rests
  <2>5. CASE Stale(ring[i], now)
    BY <2>5 DEF Stale
  <2>6. CASE ~ (Len(ring) - (i - 1) <= RingCapacity)
    <3> DEFINE I == i + 1..Len(ring)
               f == [j \in I |-> ring[j].seq]
    <3>1. IsFiniteSet(I) /\ Cardinality(I) = Len(ring) - i /\ Len(ring) - i >= RingCapacity
      <4>1. IsFiniteSet(I) /\ Cardinality(I) = IF i + 1 > Len(ring) THEN 0
                                               ELSE Len(ring) - (i + 1) + 1
        <5>1. PICK last : last = Len(ring)
          OBVIOUS
        <5>2. i + 1 \in Int /\ last \in Int
          BY <1>1, <2>1, <5>1
        <5>3. IsFiniteSet(i + 1..last)
              /\ Cardinality(i + 1..last) = IF i + 1 > last THEN 0 ELSE last - (i + 1) + 1
          BY <5>2, FS_Interval
        <5>4. QED
          BY <5>1, <5>3
      <4>2. Len(ring) - i >= RingCapacity
        BY <1>1, <2>1, <2>6, RingCapacityType
      <4>3. QED
        BY <1>1, <2>1, <4>1, <4>2
    <3>2. \A j \in 1..Len(ring) : ring[j].seq \in P
      BY <1>1 DEF Holds, SeqsOf
    <3>3. \A j, k \in 1..Len(ring) : j < k => ring[j].seq < ring[k].seq
      BY <1>1 DEF Holds, Ascending
    <3>4. I \subseteq 1..Len(ring) /\ \A j \in I : i < j
      BY <1>1, <2>1
    <3>5. f \in [I -> newer]
      BY <2>1, <3>2, <3>3, <3>4
    <3>6. ASSUME NEW j \in I, NEW k \in I, f[j] = f[k] PROVE j = k
      <4>1. j \in 1..Len(ring) /\ k \in 1..Len(ring) /\ ring[j].seq = ring[k].seq
        BY <3>4, <3>6
      <4>2. ring[j].seq \in Nat
        BY <3>2, <4>1
      <4>3. ~ (j < k) /\ ~ (k < j)
        BY <3>3, <4>1, <4>2
      <4>4. QED
        BY <4>1, <4>3
    <3>7. f \in Injection(I, newer)
      <4> HIDE DEF f, newer, I
      <4>1. DOMAIN f = I
        BY <3>5
      <4>2. QED
        BY <3>5, <3>6, <4>1 DEF Injection, IsInjective
    <3>8. IsFiniteSet(newer)
      BY FS_Subset
    <3>9. Cardinality(I) <= Cardinality(newer) /\ Cardinality(newer) \in Nat
      BY <3>7, <3>8, FS_Injection, FS_CardinalityType
    <3>10. Cardinality(newer) >= RingCapacity
      BY <1>1, <2>1, <3>1, <3>9, RingCapacityType
    <3>11. QED
      BY <3>10
  <2>7. QED
    BY <2>4, <2>5, <2>6
<1>7. QED
  BY <1>1, <1>2, <1>5, <1>6
=============================================================================
