------------------------------ MODULE MemoryLog ------------------------------
(***************************************************************************)
(* The in-memory replay log of a server process (log.rs, MemoryLog): the    *)
(* state of LogState behind a mutex, called by any number of tasks.  Every  *)
(* call that needs the time reads it BEFORE it takes the lock (log.rs:196   *)
(* and 229), so a call is two steps and other callers run between them.     *)
(***************************************************************************)
EXTENDS LogState

CONSTANTS Topics,    \* topics the server publishes on
          Callers,   \* tasks that hold the log
          Limits,    \* replay limits they ask for
          MaxSeq,    \* bound: events appended
          MaxClock   \* bound: ticks of the clock

ASSUME BoundAssumption == MaxSeq \in Nat /\ MaxClock \in Nat

ASSUME LimitAssumption == Limits \subseteq 0..UsizeMax

VARIABLES log,        \* what the mutex protects
          clock,      \* tokio's Instant::now()
          calls,      \* where each caller is
          published,  \* history: the sequences appended on each topic
          gaps        \* history: last_seq whenever a gap was marked

vars == <<log, clock, calls, published, gaps>>

Idle == [op |-> "idle"]

\* A cursor as presented: one that parses as a cursor of this log's generation
\* names a sequence (0, and sequences never issued, included); anything else
\* is a token of another log.
Cursors == [own : {TRUE}, seq : 0..MaxSeq + 1] \cup {[own |-> FALSE, seq |-> 0]}

\* The state of a caller that holds the reply r to its request q.
Answered(q, r) ==
  [op |-> "answered", topic |-> q.topic, cursor |-> q.cursor, limit |-> q.limit,
   kind |-> r.kind, replay |-> r.replay, earliest |-> r.earliest]

Init == /\ log = NewLog
        /\ clock = 0
        /\ calls = [c \in Callers |-> Idle]
        /\ published = [t \in Topics |-> {}]
        /\ gaps = {}

Tick == /\ clock < MaxClock
        /\ clock' = clock + 1
        /\ UNCHANGED <<log, calls, published, gaps>>

Appending == {c \in Callers : calls[c].op = "append"}

\* append() has read the clock and not taken the lock yet.
AppendCall(c, t) ==
  /\ calls[c] = Idle
  /\ log.lastSeq + Cardinality(Appending) < MaxSeq
  /\ calls' = [calls EXCEPT ![c] = [op |-> "append", topic |-> t, now |-> clock]]
  /\ UNCHANGED <<log, clock, published, gaps>>

AppendLocked(c) ==
  /\ calls[c].op = "append"
  /\ LET t == calls[c].topic
     IN  /\ log' = AppendTo(log, t, calls[c].now)
         /\ published' = [published EXCEPT ![t] = @ \cup {log.lastSeq + 1}]
  /\ calls' = [calls EXCEPT ![c] = Idle]
  /\ UNCHANGED <<clock, gaps>>

\* since() of a token that is no cursor of this log answers without the clock
\* or the lock.
SinceForeign(c, t, cursor, limit) ==
  /\ calls[c] = Idle
  /\ ~cursor.own
  /\ calls' = [calls EXCEPT ![c] =
                 Answered([topic |-> t, cursor |-> cursor, limit |-> limit], Unknown)]
  /\ UNCHANGED <<log, clock, published, gaps>>

\* Mutant: a token of another log is looked up like one of this log's.
SinceCallUnparsed(c, t, cursor, limit) ==
  /\ calls[c] = Idle
  /\ calls' = [calls EXCEPT ![c] = [op |-> "since", topic |-> t, cursor |-> cursor,
                                    limit |-> limit, now |-> clock]]
  /\ UNCHANGED <<log, clock, published, gaps>>

SinceCall(c, t, cursor, limit) ==
  /\ calls[c] = Idle
  /\ cursor.own
  /\ calls' = [calls EXCEPT ![c] = [op |-> "since", topic |-> t, cursor |-> cursor,
                                    limit |-> limit, now |-> clock]]
  /\ UNCHANGED <<log, clock, published, gaps>>

SinceLocked(c) ==
  /\ calls[c].op = "since"
  /\ LET q == calls[c]
     IN  /\ calls' = [calls EXCEPT ![c] = Answered(q,
                        SinceReply(log, q.topic, q.cursor.seq, q.limit, q.now))]
         /\ log' = SinceLog(log, q.topic, q.cursor.seq, q.now)
  /\ UNCHANGED <<clock, published, gaps>>

\* mark_gap reads no clock: it is one step.
MarkGap(c) ==
  /\ calls[c] = Idle
  /\ log' = MarkGapIn(log)
  /\ gaps' = gaps \cup {log.lastSeq}
  /\ UNCHANGED <<clock, calls, published>>

Return(c) == /\ calls[c].op = "answered"
             /\ calls' = [calls EXCEPT ![c] = Idle]
             /\ UNCHANGED <<log, clock, published, gaps>>

Next == \/ Tick
        \/ \E c \in Callers :
             \/ AppendLocked(c)
             \/ SinceLocked(c)
             \/ MarkGap(c)
             \/ Return(c)
             \/ \E t \in Topics :
                  \/ AppendCall(c, t)
                  \/ \E cursor \in Cursors, limit \in Limits :
                       SinceForeign(c, t, cursor, limit) \/ SinceCall(c, t, cursor, limit)

Spec == Init /\ [][Next]_vars

-----------------------------------------------------------------------------
(* Types *)

\* The replay of an answer is a function on the positions the filter kept.
IsReplay(f) == f = [i \in DOMAIN f |-> f[i]] /\ DOMAIN f \subseteq Nat \ {0}

CallType(call) ==
  \/ call = Idle
  \/ call \in [op : {"append"}, topic : Topics, now : Nat]
  \/ /\ call.op = "since"
     /\ call \in [op : {"since"}, topic : Topics, cursor : Cursors, limit : Limits, now : Nat]
     /\ call.cursor.own
  \/ /\ call.op = "answered"
     /\ call.topic \in Topics /\ call.cursor \in Cursors /\ call.limit \in Limits
     /\ call.kind \in {"events", "expired", "unknown"}
     /\ IsReplay(call.replay)

\* Type invariant: every variable holds a value of the shape Inner, Topic and
\* Entry give it, and every caller is idle, inside a call or holds a reply.
TypeOK ==
  /\ log = [topics |-> log.topics, lastSeq |-> log.lastSeq, gapFloor |-> log.gapFloor]
  /\ DOMAIN log.topics \subseteq Topics
  /\ log.topics \in [DOMAIN log.topics -> Topic]
  /\ log.lastSeq \in Nat /\ log.gapFloor \in Nat
  /\ clock \in Nat
  /\ DOMAIN calls = Callers /\ \A c \in Callers : CallType(calls[c])
  /\ published \in [Topics -> SUBSET Nat]
  /\ gaps \subseteq Nat

-----------------------------------------------------------------------------
(* Safety *)

Known(t) == t \in DOMAIN log.topics

\* A ring is in sequence order although its callers race (log.rs:105), is never
\* left over capacity, and holds exactly what was published on its topic above
\* "trimmed_to", which itself names an event that was dropped: comparing a
\* cursor with trimmed_to alone tells whether something is missing after it.
RingsHoldTheTail ==
  /\ \A t \in DOMAIN log.topics :
       LET topic == log.topics[t]
       IN  /\ Ascending(topic.ring)
           /\ Len(topic.ring) <= RingCapacity
           /\ SeqsOf(topic.ring) = {s \in published[t] : s > topic.trimmedTo}
           /\ topic.trimmedTo \in published[t] \cup {0}
  /\ \A t \in Topics \ DOMAIN log.topics : published[t] = {}

\* The history against the log: sequences are issued once, from 1, on one
\* topic each, and the floor is the latest gap that was marked.
HistoryMatches ==
  /\ \A t \in Topics : published[t] \subseteq 1..log.lastSeq
  /\ \A t, u \in Topics : t # u => published[t] \cap published[u] = {}
  /\ \A g \in gaps : g <= log.gapFloor
  /\ log.gapFloor <= log.lastSeq
  /\ log.gapFloor \in gaps \cup {0}

-----------------------------------------------------------------------------
(* What a step may do *)

\* c's since() answers in this step, from the locked log.
Answers(c) == calls[c].op = "since" /\ calls'[c].op = "answered"

\* An expired answer (log.rs:36-38) has a cause: a gap marked at or after the
\* cursor, more events than the limit, or an event after the cursor that the
\* ring no longer holds.  No client is told to reload for nothing.
ExpiredHasACause ==
  [][\A c \in Callers : Answers(c) /\ calls'[c].kind = "expired" =>
       LET q == calls'[c]
           after == {s \in published[q.topic] : s > q.cursor.seq}
       IN  \/ \E g \in gaps : g >= q.cursor.seq
           \/ Cardinality(after) > q.limit
           \/ Known(q.topic) /\ ~ (after \subseteq SeqsOf(log'.topics[q.topic].ring))]_vars

\* The cursor an expired answer names (log.rs:250-254, 268) was issued on the
\* topic, is past every gap, and nothing after it has been dropped.
EarliestIsRetained ==
  [][\A c \in Callers : Answers(c) /\ calls'[c].earliest # 0 =>
       LET q == calls'[c]
       IN  /\ q.earliest \in published[q.topic]
           /\ \A g \in gaps : g < q.earliest
           /\ {s \in published[q.topic] : s >= q.earliest}
                \subseteq SeqsOf(log'.topics[q.topic].ring)]_vars

\* trim_to (log.rs:130-141) drops an event only when a ring's worth of newer
\* ones followed it on its topic, or when it really is older than the ttl:
\* racing calls with old stamps never drop one early.
DropsOnlyForCause ==
  [][\A t \in DOMAIN log.topics : \A i \in DOMAIN log.topics[t].ring :
       LET e == log.topics[t].ring[i]
       IN  \/ e \in {log'.topics[t].ring[j] : j \in DOMAIN log'.topics[t].ring}
           \/ Cardinality({s \in published'[t] : s > e.seq}) >= RingCapacity
           \/ clock - e.at > Ttl]_vars

-----------------------------------------------------------------------------
(* The promise of the trait *)

\* A caller's reply as the trait's user sees it.
ReplyOf(call) ==
  IF call.op = "answered"
  THEN [kind |-> call.kind, topic |-> call.topic, cursor |-> call.cursor,
        limit |-> call.limit, replay |-> call.replay]
  ELSE [kind |-> "none"]

Trait == INSTANCE EventLog WITH issued  <- log.lastSeq,
                                replies <- [c \in Callers |-> ReplyOf(calls[c])]

\* MemoryLog keeps the trait's promise (log.rs:56-87): every replay it answers
\* is exact, whatever was appended, trimmed or marked around the call.
KeepsTheTrait == Trait!EventLogSpec
=============================================================================
