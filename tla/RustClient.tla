----------------------------- MODULE RustClient -----------------------------
(***************************************************************************)
(* The Rust client (solder-sse-client): a task that requests, reads and     *)
(* retries, and the consumer at the other end of a bounded channel.  The    *)
(* task gives way at an await only, so a step takes it from one await to    *)
(* the next: "pc" names what it waits for.                                  *)
(*                                                                          *)
(* A wait may end at any moment here: how long waits are (backoff,          *)
(* Retry-After, retry hints, the eager reopen) is in Session.               *)
(***************************************************************************)
EXTENDS Integers, SequencesExt

CONSTANTS AutoDeadman,    \* whether the dead-man follows what pings announce
          DefaultWindow,  \* its window until they do; Off is no dead-man
          Slack,          \* of a window over two intervals (5 s in the code)
          Width,          \* of the arithmetic (2^64 in the code)
          Frames,         \* frames the server may send
          MaxChunk,       \* bound: frames in one read
          Capacity        \* of the channel (256 in the code)

Off      == 0
NoCursor == "none"
Keep     == "keep"  \* the id of a frame that carries none

\* A frame has a kind (event, ping or resync), the id it carries, and a ping
\* the interval it announces; Off, or a payload that cannot be read, is none.
ASSUME FrameAssumption ==
  /\ DefaultWindow \in Nat /\ Capacity \in Nat \ {0}
  /\ Slack \in Nat /\ Width \in Nat \ {0}
  /\ \A f \in Frames : /\ f.kind \in {"event", "ping", "resync"} /\ f.every \in Nat
                       /\ f.kind = "resync" <=> f.id = NoCursor

\* ServerHints: a zero on the wire announces nothing.
Announces(f) == f.kind = "ping" /\ f.every # Off

\* The dead-man window for an interval: it wraps in a release build.
DeadmanFor(every) == (2 * every + Slack) % Width

Windows == {DeadmanFor(f.every) : f \in {g \in Frames : Announces(g)}} \cup {DefaultWindow}

VARIABLES pc,       \* what the task waits for
          cursor,   \* Shared.last_event_id
          reader,   \* read()'s own: ping seen, window in force, time in this wait
          todo,     \* what of the last chunk is still to be sent to the channel
          why,      \* the cause of the retry
          chan,     \* the channel
          dropped,  \* whether the consumer has dropped the subscription
          link,     \* the response body: whether more can come
          inbox,    \* the bytes that arrived and were not read
          given,    \* history: the id in force at the last frame sent to the channel
          quiet,    \* history: how long nothing arrived
          promised  \* history: the interval this connection's pings announced

vars == <<pc, cursor, reader, todo, why, chan, dropped, link, inbox,
          given, quiet, promised>>

MaxWindow == CHOOSE w \in Windows : \A v \in Windows : v <= w

NewReader == [seen |-> FALSE, window |-> DefaultWindow, idle |-> 0]

Init == /\ pc = "announce" /\ cursor = NoCursor /\ reader = NewReader /\ todo = << >>
        /\ why = "none" /\ chan = << >> /\ dropped = FALSE
        /\ link = "none" /\ inbox = << >>
        /\ given = NoCursor /\ quiet = 0 /\ promised = Off

Room == Len(chan) < Capacity

Says(message) == Room /\ chan' = Append(chan, message)

Body    == <<link, inbox, quiet>>
History == <<given, promised>>

-----------------------------------------------------------------------------
(* The task *)

Announce ==
  /\ pc = "announce" /\ Says("connecting") /\ pc' = "request"
  /\ UNCHANGED <<cursor, reader, todo, why, dropped, Body, History>>

\* No head in time, an error, or a status that is not 200.
RequestFails(cause) ==
  /\ pc = "request" /\ pc' = "retry" /\ why' = cause
  /\ UNCHANGED <<cursor, reader, todo, chan, dropped, Body, History>>

HeadArrives ==
  /\ pc = "request" /\ pc' = "greet" /\ link' = "open" /\ inbox' = << >> /\ quiet' = 0
  /\ promised' = Off
  /\ UNCHANGED <<cursor, reader, todo, why, chan, dropped, given>>

\* The stream is live, and read() starts with a dead-man of its own.
GoLive ==
  /\ pc = "greet" /\ Says("live") /\ pc' = "read" /\ reader' = NewReader
  /\ UNCHANGED <<cursor, todo, why, dropped, Body, History>>

\* The parser on one frame: the id in force after it is the one it carries.
InForce(id, f) == IF f.id = Keep THEN id ELSE f.id

Parsed(chunk) ==
  [k \in DOMAIN chunk |->
     [kind |-> chunk[k].kind, id |-> FoldLeft(InForce, cursor, SubSeq(chunk, 1, k))]]

\* The interval of the last ping of a chunk that announces one.
Announced(chunk) ==
  LET said == {k \in DOMAIN chunk : Announces(chunk[k])}
  IN  IF said = {} THEN Off ELSE chunk[Max(said)].every

Pings(chunk) == \E k \in DOMAIN chunk : chunk[k].kind = "ping"

\* The window after a chunk: its pings are heard one by one.
WindowAfter(window, chunk) ==
  IF AutoDeadman /\ Announced(chunk) # Off THEN DeadmanFor(Announced(chunk)) ELSE window

\* Mutant: the wait goes on from the last chunk's.
WatchedImpatient(r, chunk) ==
  [seen |-> r.seen \/ Pings(chunk), window |-> WindowAfter(r.window, chunk), idle |-> r.idle]

\* Mutant: the dead-man is armed by the last chunk's pings only.
WatchedForgetting(r, chunk) ==
  [seen |-> Pings(chunk), window |-> WindowAfter(r.window, chunk), idle |-> 0]

\* The reader when it waits again.
Watched(r, chunk) ==
  [seen |-> r.seen \/ Pings(chunk), window |-> WindowAfter(r.window, chunk), idle |-> 0]

\* Mutant: a resync does not clear the cursor.
StoredEvents(id, chunk) ==
  LET last == FoldLeft(InForce, id, chunk) IN IF last = NoCursor THEN id ELSE last

\* Each frame stores the cursor as it is after the whole chunk; a chunk that
\* completes none stores nothing.
Stored(id, chunk) == IF chunk = << >> THEN id ELSE FoldLeft(InForce, id, chunk)

\* A chunk is read: the cursor and the dead-man are set, and then the messages
\* go to the channel one by one.
Read ==
  /\ pc = "read" /\ inbox # << >>
  /\ cursor' = Stored(cursor, Head(inbox))
  /\ reader' = Watched(reader, Head(inbox))
  /\ todo' = Parsed(Head(inbox))
  /\ inbox' = Tail(inbox)
  /\ pc' = IF todo' = << >> THEN "read" ELSE "deliver"
  /\ UNCHANGED <<why, chan, link, quiet, dropped, History>>

\* One message; the next wait starts with the last one sent.
Deliver ==
  /\ pc = "deliver" /\ Says(Head(todo).kind)
  /\ given' = Head(todo).id /\ todo' = Tail(todo)
  /\ pc' = IF Len(todo) = 1 THEN "read" ELSE "deliver"
  /\ UNCHANGED <<cursor, reader, why, dropped, Body, promised>>

\* Mutant: a response that ends is the end of the subscription.
ReadEndsForGood ==
  /\ pc = "read" /\ inbox = << >> /\ link \in {"ended", "failed"}
  /\ pc' = (IF link = "ended" THEN "stopped" ELSE "retry") /\ why' = link /\ link' = "none"
  /\ UNCHANGED <<cursor, reader, todo, chan, inbox, quiet, dropped, History>>

ReadEnds ==
  /\ pc = "read" /\ inbox = << >> /\ link \in {"ended", "failed"}
  /\ pc' = "retry" /\ why' = link /\ link' = "none"
  /\ UNCHANGED <<cursor, reader, todo, chan, inbox, quiet, dropped, History>>

\* The window passes in a wait for bytes.  (A body that has some is read first.)
DeadmanFires ==
  /\ pc = "read" /\ inbox = << >> /\ link \notin {"ended", "failed"}
  /\ reader.seen /\ reader.window # Off /\ reader.idle >= reader.window
  /\ pc' = "retry" /\ why' = "deadman" /\ link' = "none"
  /\ UNCHANGED <<cursor, reader, todo, chan, inbox, quiet, dropped, History>>

Retry ==
  /\ pc = "retry" /\ Says("retrying") /\ pc' = "sleep"
  /\ UNCHANGED <<cursor, reader, todo, why, dropped, Body, History>>

\* The next round starts with locals of its own.
Wake ==
  /\ pc = "sleep" /\ pc' = "announce" /\ why' = "none"
  /\ reader' = NewReader /\ quiet' = 0 /\ promised' = Off
  /\ UNCHANGED <<cursor, todo, chan, dropped, link, inbox, given>>

-----------------------------------------------------------------------------
(* The consumer: what the subscription yields, and its end *)

Recv ==
  /\ chan # << >> /\ ~dropped
  /\ chan' = Tail(chan)
  /\ UNCHANGED <<pc, cursor, reader, todo, why, dropped, Body, History>>

\* Dropping the subscription aborts the task at the await it is in.
Drop ==
  /\ ~dropped /\ dropped' = TRUE
  /\ pc' = "stopped" /\ chan' = << >> /\ todo' = << >> /\ link' = "none" /\ inbox' = << >>
  /\ UNCHANGED <<cursor, reader, why, quiet, History>>

-----------------------------------------------------------------------------
(* The server and time *)

\* A chunk arrives; while one is unread the transport holds the next back.
Arrives(chunk) ==
  /\ link = "open" /\ inbox = << >>
  /\ inbox' = <<chunk>> /\ quiet' = 0
  /\ promised' = IF Announced(chunk) = Off THEN promised ELSE Announced(chunk)
  /\ UNCHANGED <<pc, cursor, reader, todo, why, chan, dropped, link, given>>

\* The response ends or breaks, or its path dies and nobody is told.
Finishes(how) ==
  /\ link = "open" /\ link' = how
  /\ UNCHANGED <<pc, cursor, reader, todo, why, chan, dropped, inbox, quiet, History>>

Older(age) == IF age = MaxWindow THEN age ELSE age + 1

Tick ==
  /\ link \in {"open", "silent"}
  /\ quiet' = Older(quiet)
  /\ reader' = IF pc = "read" /\ inbox = << >> THEN [reader EXCEPT !.idle = Older(@)]
               ELSE reader
  /\ UNCHANGED <<pc, cursor, todo, why, chan, dropped, link, inbox, History>>

\* A chunk may complete no frame at all (a comment, a part of one).
Chunks == UNION {[1..n -> Frames] : n \in 0..MaxChunk}

Task == \/ Announce \/ GoLive \/ Read \/ Deliver \/ ReadEnds \/ DeadmanFires \/ Retry \/ Wake
        \/ \E cause \in {"transport", "http"} : RequestFails(cause)

Next == \/ Task \/ HeadArrives \/ Recv \/ Drop \/ Tick
        \/ \E chunk \in Chunks : Arrives(chunk)
        \/ \E how \in {"ended", "failed", "silent"} : Finishes(how)

Spec == Init /\ [][Next]_vars

\* The task runs, its timers fire, the consumer takes what there is, and a
\* server that is asked again and again answers.
FairSpec == Spec /\ WF_vars(Task) /\ WF_vars(Recv) /\ WF_vars(Tick) /\ SF_vars(HeadArrives)

-----------------------------------------------------------------------------
(* Properties *)

\* The cursor a request carries (lib.rs:256-258) is the one in force at the
\* last frame that was handed over: whatever a chunk held and however it was
\* cut, nothing handed over is asked for again and nothing else is skipped.
RequestNamesTheLast == pc \in {"announce", "request"} => cursor = given

\* The dead-man cuts only a stream that really said nothing for the window its
\* own pings make, two of their intervals and a slack (lib.rs:66-70): time the
\* task spends blocked on a slow consumer, or that an earlier wait took, is no
\* silence.
NoFalseAlarm ==
  pc = "retry" /\ why = "deadman" =>
    quiet >= (IF AutoDeadman /\ promised # Off THEN 2 * promised + Slack ELSE DefaultWindow)

\* The client always comes back to a live stream, until it is dropped.
Heals == []<>(dropped \/ pc = "read")

\* A stream that has pinged and then goes silent is given up, as long as the
\* consumer takes its messages.
HalfOpenIsCaught ==
  pc = "read" /\ link = "silent" /\ reader.seen ~> link # "silent"
=============================================================================
