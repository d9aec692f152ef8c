------------------------------ MODULE EventLog ------------------------------
(***************************************************************************)
(* What the EventLog trait promises to a server (log.rs, trait EventLog and *)
(* enum Replay), whatever the store behind it: a log issues cursors, and a  *)
(* cursor is answered with exactly what followed it on the topic, or the    *)
(* answer says that it cannot be.                                           *)
(***************************************************************************)
EXTENDS Integers, FiniteSets

CONSTANTS Topics, Callers

VARIABLES published,  \* the cursors issued on each topic
          issued,     \* how many cursors the log has issued: 1..issued
          gaps,       \* "issued" at each moment a gap was declared
          replies     \* the reply each caller holds

elVars == <<published, issued, gaps, replies>>

NoReply == [kind |-> "none"]

EventLogInit == /\ published = [t \in Topics |-> {}]
                /\ issued = 0
                /\ gaps = {}
                /\ replies = [c \in Callers |-> NoReply]

Append(t) == /\ issued' = issued + 1
             /\ published' = [published EXCEPT ![t] = @ \cup {issued + 1}]
             /\ UNCHANGED <<gaps, replies>>

MarkGap == /\ gaps' = gaps \cup {issued}
           /\ UNCHANGED <<published, issued, replies>>

WasIssued(cursor) == cursor.own /\ cursor.seq \in 1..issued

\* "replay" lists the members of S in increasing order, by position.
Lists(replay, S) ==
  /\ \A i, j \in DOMAIN replay : i < j => replay[i] < replay[j]
  /\ {replay[i] : i \in DOMAIN replay} = S

\* An exact replay: everything after the cursor on the topic, in order, at
\* most "limit" events, and no gap was declared at or after the cursor.
Exact(r) ==
  /\ WasIssued(r.cursor)
  /\ \A g \in gaps : g < r.cursor.seq
  /\ Lists(r.replay, {s \in published[r.topic] : s > r.cursor.seq})
  /\ Cardinality(DOMAIN r.replay) <= r.limit

Allowed(r) == \/ r.kind = "events"  /\ Exact(r)
              \/ r.kind = "expired" /\ WasIssued(r.cursor)
              \/ r.kind = "unknown" /\ ~WasIssued(r.cursor)

Answer(c) == /\ Allowed(replies'[c])
             /\ replies' = [replies EXCEPT ![c] = replies'[c]]
             /\ UNCHANGED <<published, issued, gaps>>

Forget(c) == /\ replies' = [replies EXCEPT ![c] = NoReply]
             /\ UNCHANGED <<published, issued, gaps>>

EventLogNext == \/ \E t \in Topics : Append(t)
                \/ MarkGap
                \/ \E c \in Callers : Answer(c) \/ Forget(c)

EventLogSpec == EventLogInit /\ [][EventLogNext]_elVars
=============================================================================
