-------------------------- MODULE ResumableStream --------------------------
(***************************************************************************)
(* One topic of a server, from its publishers to one client, across cuts:   *)
(* publishers append to the log and then send on the broadcast bus, a       *)
(* connection handler subscribes, reads the log and serves replay and then  *)
(* live (stream.rs, resumable), and the client keeps the cursor of the last *)
(* frame it read and presents it when it opens the next connection.         *)
(*                                                                          *)
(* Events are numbered as they happen.  The clock stands still: age is the  *)
(* business of MemoryLog, and only capacity trims here.                     *)
(***************************************************************************)
EXTENDS LogState

CONSTANTS Publishers,    \* tasks that publish on the topic
          Limit,         \* the replay limit of the handler
          BusCapacity,   \* messages the broadcast channel retains
          RestartRaces,  \* whether a restart may overtake a handler that opens
          StoreFails,    \* whether a read of the store may fail
          MaxEvents,     \* bound: events
          MaxLost,       \* bound: events whose write fails
          MaxCuts,       \* bound: connections cut or rotated
          MaxCrashes,    \* bound: crashes of the server process
          MaxRestarts,   \* bound: swaps of the log under a running server
          MaxWire        \* bound: frames between handler and client

\* The head of a response that cannot resume is two frames.
ASSUME BoundAssumption == MaxEvents \in Nat /\ MaxWire \in Nat \ {0, 1}

VARIABLES logs,      \* the logs of all generations; the last is the current
          payload,   \* history: the event behind each cursor
          happened,  \* how many events have happened: 1..happened
          bus,       \* what was sent since the process started
          pubs,      \* where each publisher is
          conn,      \* the handler of the client's connection
          wire,      \* frames written and not read yet
          client,    \* the client
          used       \* how much of each bound is used

vars == <<logs, payload, happened, bus, pubs, conn, wire, client, used>>

T == "t"

None == [gen |-> 0, seq |-> 0]

Now == 0

Generation == Len(logs)

Idle   == [at |-> "idle"]
Closed == [at |-> "closed"]

Init == /\ logs = <<NewLog>>
        /\ payload = [c \in {None} |-> 0]
        /\ happened = 0
        /\ bus = << >>
        /\ pubs = [p \in Publishers |-> Idle]
        /\ conn = Closed
        /\ wire = << >>
        /\ client = [up |-> FALSE, cursor |-> None, known |-> {}, got |-> {}]
        /\ used = [lost |-> 0, cuts |-> 0, crashes |-> 0, restarts |-> 0]

Spend(what, max) == /\ used[what] < max
                    /\ used' = [used EXCEPT ![what] = @ + 1]

-----------------------------------------------------------------------------
(* Publishers *)

\* The state changes and the event is appended.
PublishAppend(p) ==
  /\ pubs[p] = Idle
  /\ happened < MaxEvents
  /\ LET log    == AppendTo(logs[Generation], T, Now)
         cursor == [gen |-> Generation, seq |-> log.lastSeq]
     IN  /\ logs' = [logs EXCEPT ![Generation] = log]
         /\ happened' = happened + 1
         /\ payload' = [c \in DOMAIN payload \cup {cursor} |->
                         IF c = cursor THEN happened' ELSE payload[c]]
         /\ pubs' = [pubs EXCEPT ![p] =
                       [at |-> "send", cursor |-> cursor, event |-> happened']]
  /\ UNCHANGED <<bus, conn, wire, client, used>>

\* An event with the cursor the log issued for it, None if it could not take it.
Published(cursor, event) == [cursor |-> cursor, event |-> event]

\* Nothing orders the sends of two publishers by their appends.
PublishSend(p) ==
  /\ pubs[p].at = "send"
  /\ bus' = Append(bus, Published(pubs[p].cursor, pubs[p].event))
  /\ pubs' = [pubs EXCEPT ![p] = Idle]
  /\ UNCHANGED <<logs, payload, happened, conn, wire, client, used>>

\* The state changes and the write fails: the publisher marks the gap first
\* and sends the event without a cursor second.
WriteFails(p) ==
  /\ pubs[p] = Idle
  /\ happened < MaxEvents
  /\ Spend("lost", MaxLost)
  /\ happened' = happened + 1
  /\ pubs' = [pubs EXCEPT ![p] = [at |-> "mark", cursor |-> None, event |-> happened']]
  /\ UNCHANGED <<logs, payload, bus, conn, wire, client>>

MarkGap(p) ==
  /\ pubs[p].at = "mark"
  /\ logs' = [logs EXCEPT ![Generation] = MarkGapIn(@)]
  /\ pubs' = [pubs EXCEPT ![p].at = "send"]
  /\ UNCHANGED <<payload, happened, bus, conn, wire, client, used>>

-----------------------------------------------------------------------------
(* The connection *)

\* A request reaches the handler, which takes the current log.
Open ==
  /\ ~client.up
  /\ client' = [client EXCEPT !.up = TRUE]
  /\ conn' = [at |-> "accepted", gen |-> Generation, resume |-> client.cursor]
  /\ UNCHANGED <<logs, payload, happened, bus, pubs, wire, used>>

\* resumable() joins the fan-out first: it will read from here on.
Subscribe ==
  /\ conn.at = "accepted"
  /\ conn' = [at |-> "subscribed", gen |-> conn.gen, resume |-> conn.resume,
              pos |-> Len(bus) + 1]
  /\ UNCHANGED <<logs, payload, happened, bus, pubs, wire, client, used>>

Frame(kind, cursor, event) == [kind |-> kind, cursor |-> cursor, event |-> event]

Resync   == Frame("resync", None, 0)
Snapshot == Frame("snapshot", None, happened)

\* Mutant: the stream does not remember what the client already has.
StreamUnfiltered(replay, seen, head) ==
  /\ conn' = [at |-> "streaming", pos |-> conn.pos, replay |-> replay, seen |-> {}]
  /\ wire' = head

\* The stream after the read of the log: "replay" is sent in the order of its
\* positions, then what the bus brings that "seen" does not hold; "head" opens
\* the response.
Stream(replay, seen, head) ==
  /\ conn' = [at |-> "streaming", pos |-> conn.pos, replay |-> replay, seen |-> seen]
  /\ wire' = head

\* The log is read second.  A cursor of another generation is unknown to it.
ReadLog ==
  /\ conn.at = "subscribed"
  /\ conn.resume # None
  /\ LET log == logs[conn.gen]
         own == conn.resume.gen = conn.gen
         r   == IF own THEN SinceReply(log, T, conn.resume.seq, Limit, Now) ELSE Unknown
         Cursor(i) == [gen |-> conn.gen, seq |-> r.replay[i]]
     IN  /\ logs' = IF own
                    THEN [logs EXCEPT ![conn.gen] = SinceLog(log, T, conn.resume.seq, Now)]
                    ELSE logs
         /\ Stream([i \in DOMAIN r.replay |-> Frame("event", Cursor(i), payload[Cursor(i)])],
                   {Cursor(i) : i \in DOMAIN r.replay} \cup {conn.resume},
                   IF r.kind = "events" THEN << >> ELSE <<Resync, Snapshot>>)
  /\ UNCHANGED <<payload, happened, bus, pubs, client, used>>

\* Mutant: a store that fails is answered like an empty replay.
ReadFailsQuietly ==
  /\ conn.at = "subscribed"
  /\ conn.resume # None
  /\ StoreFails
  /\ Stream(<< >>, {conn.resume}, << >>)
  /\ UNCHANGED <<logs, payload, happened, bus, pubs, client, used>>

\* A store that fails is answered like an unknown cursor: the live path stays.
ReadFails ==
  /\ conn.at = "subscribed"
  /\ conn.resume # None
  /\ StoreFails
  /\ Stream(<< >>, {conn.resume}, <<Resync, Snapshot>>)
  /\ UNCHANGED <<logs, payload, happened, bus, pubs, client, used>>

\* A first connection reads no log.
ConnectSnapshot ==
  /\ conn.at = "subscribed"
  /\ conn.resume = None
  /\ Stream(<< >>, {}, <<Snapshot>>)
  /\ UNCHANGED <<logs, payload, happened, bus, pubs, client, used>>

\* The positions of the replay that are still to be sent.
Unsent == DOMAIN conn.replay

ServeReplay ==
  /\ conn.at = "streaming" /\ Unsent # {} /\ Len(wire) < MaxWire
  /\ LET next == Min(Unsent)
     IN  /\ wire' = Append(wire, conn.replay[next])
         /\ conn' = [conn EXCEPT !.replay = Restrict(@, Unsent \ {next})]
  /\ UNCHANGED <<logs, payload, happened, bus, pubs, client, used>>

Live == conn.at = "streaming" /\ Unsent = {} /\ conn.pos <= Len(bus)

\* The oldest message the channel still retains.
Oldest == Len(bus) - BusCapacity + 1

\* Mutant: everything the bus brings is sent, replayed or not.
ServeEverything ==
  /\ Live /\ conn.pos >= Oldest /\ Len(wire) < MaxWire
  /\ LET m == bus[conn.pos] IN wire' = Append(wire, Frame("event", m.cursor, m.event))
  /\ conn' = [conn EXCEPT !.pos = @ + 1]
  /\ UNCHANGED <<logs, payload, happened, bus, pubs, client, used>>

\* A message whose cursor the client already has is dropped; one without a
\* cursor always passes.
ServeLive ==
  /\ Live /\ conn.pos >= Oldest /\ Len(wire) < MaxWire
  /\ LET m == bus[conn.pos]
     IN  wire' = IF m.cursor # None /\ m.cursor \in conn.seen
                 THEN wire
                 ELSE Append(wire, Frame("event", m.cursor, m.event))
  /\ conn' = [conn EXCEPT !.pos = @ + 1]
  /\ UNCHANGED <<logs, payload, happened, bus, pubs, client, used>>

\* Mutant: the lag is dropped on the floor.
LagIgnored ==
  /\ Live /\ conn.pos < Oldest
  /\ conn' = [conn EXCEPT !.pos = Oldest]
  /\ UNCHANGED <<logs, payload, happened, bus, pubs, wire, client, used>>

\* The receiver fell behind the channel: it has lost what lies before the
\* oldest message retained.  The item is an error, and the handler ends the
\* response there, as stream.rs:16 asks (the testkit's own goes on).
Lag ==
  /\ Live /\ conn.pos < Oldest
  /\ conn' = [at |-> "ended"]
  /\ UNCHANGED <<logs, payload, happened, bus, pubs, wire, client, used>>

-----------------------------------------------------------------------------
(* The client, and what happens to its connection *)

\* The client reads a frame: its id moves the cursor, an empty one (resync)
\* drops it, none (a snapshot, an event the log could not take) leaves it.
Read ==
  /\ client.up /\ wire # << >>
  /\ wire' = Tail(wire)
  /\ LET f == Head(wire)
     IN  client' =
           CASE f.kind = "resync"   -> [client EXCEPT !.cursor = None]
             [] f.kind = "snapshot" -> [client EXCEPT !.known = @ \cup 1..f.event,
                                                      !.got = {}]
             [] f.kind = "event"    -> [client EXCEPT !.known = @ \cup {f.event},
                                                      !.got = @ \cup {f.event},
                                                      !.cursor = IF f.cursor = None
                                                                 THEN @ ELSE f.cursor]
  /\ UNCHANGED <<logs, payload, happened, bus, pubs, conn, used>>

\* The end of a response is read after everything that was written.
ReadEnd ==
  /\ client.up /\ conn.at = "ended" /\ wire = << >>
  /\ client' = [client EXCEPT !.up = FALSE]
  /\ conn' = Closed
  /\ UNCHANGED <<logs, payload, happened, bus, pubs, wire, used>>

\* Rotation ends a response between two frames, after its head.
Rotate ==
  /\ conn.at = "streaming"
  /\ Spend("cuts", MaxCuts)
  /\ conn' = [at |-> "ended"]
  /\ UNCHANGED <<logs, payload, happened, bus, pubs, wire, client>>

\* A proxy or the network cuts the connection: what it carried is gone.
Cut ==
  /\ client.up
  /\ Spend("cuts", MaxCuts)
  /\ client' = [client EXCEPT !.up = FALSE]
  /\ conn' = Closed
  /\ wire' = << >>
  /\ UNCHANGED <<logs, payload, happened, bus, pubs>>

\* How a connection ends that its client does not leave.
Ending == Rotate \/ Cut

\* The process dies and comes back with a log of a new generation.  State is
\* kept, so what a publisher was about to append or send has happened.
Crash ==
  /\ Spend("crashes", MaxCrashes)
  /\ logs' = Append(logs, NewLog)
  /\ bus' = << >>
  /\ pubs' = [p \in Publishers |-> Idle]
  /\ conn' = Closed
  /\ wire' = << >>
  /\ client' = [client EXCEPT !.up = FALSE]
  /\ UNCHANGED <<payload, happened>>

\* Mutant: the restart empties the bus under the handlers that read it.
RestartEmptying ==
  /\ Spend("restarts", MaxRestarts)
  /\ \A p \in Publishers : pubs[p] = Idle
  /\ logs' = Append(logs, NewLog)
  /\ bus' = << >>
  /\ UNCHANGED <<payload, happened, pubs, conn, wire, client>>

\* The testkit's restart: a new log under a running server, once no publisher
\* is inside publish() (the write lock).  Nothing keeps it from falling between
\* a handler's read of the current log and its subscription (RestartRaces).
Restart ==
  /\ Spend("restarts", MaxRestarts)
  /\ \A p \in Publishers : pubs[p] = Idle
  /\ RestartRaces \/ conn.at # "accepted"
  /\ logs' = Append(logs, NewLog)
  /\ UNCHANGED <<payload, happened, bus, pubs, conn, wire, client>>

Publish(p) == PublishAppend(p) \/ WriteFails(p)
Proceed(p) == MarkGap(p) \/ PublishSend(p)

Handle == \/ Subscribe \/ ReadLog \/ ConnectSnapshot
          \/ ServeReplay \/ ServeLive \/ Lag

Next == \/ \E p \in Publishers : Publish(p) \/ Proceed(p)
        \/ Open \/ Handle \/ ReadFails \/ Read \/ ReadEnd
        \/ Ending \/ Crash \/ Restart

Spec == Init /\ [][Next]_vars

\* Tasks that can run do run: a publisher finishes its publish, the runtime
\* polls the handler, the client reads and reopens (its backoff is bounded).
\* Nothing makes an event happen or cuts a connection.
FairSpec == /\ Spec
            /\ \A p \in Publishers : WF_vars(Proceed(p))
            /\ WF_vars(Handle)
            /\ WF_vars(Open)
            /\ WF_vars(Read \/ ReadEnd)

-----------------------------------------------------------------------------
(* Safety *)

Cursors == [gen : 1..Generation, seq : Nat \ {0}] \cup {None}

IsFrame(f) == /\ f.kind \in {"resync", "snapshot", "event"}
              /\ f.cursor \in DOMAIN payload
              /\ f.event \in 0..happened

\* Type invariant: every variable has its shape, and every cursor anybody holds
\* was issued by one of the logs.
TypeOK ==
  /\ \A g \in 1..Generation : logs[g].topics \in [DOMAIN logs[g].topics -> Topic]
  /\ DOMAIN payload \subseteq Cursors
  /\ happened \in 0..MaxEvents
  /\ \A i \in DOMAIN bus : bus[i].cursor \in DOMAIN payload /\ bus[i].event \in 1..happened
  /\ \A p \in Publishers : pubs[p].at \in {"idle", "mark", "send"}
  /\ conn.at \in {"closed", "accepted", "subscribed", "streaming", "ended"}
  /\ conn.at = "streaming" => /\ conn.pos \in 1..Len(bus) + 1
                              /\ conn.seen \subseteq DOMAIN payload
                              /\ \A i \in DOMAIN conn.replay : IsFrame(conn.replay[i])
  /\ \A i \in DOMAIN wire : IsFrame(wire[i])
  /\ Len(wire) <= MaxWire
  /\ client.up \in BOOLEAN /\ client.cursor \in DOMAIN payload
  /\ client.got \subseteq client.known /\ client.known \subseteq 1..happened

\* A cursor stands for everything before it (profile 1 and 7): a client that
\* will present a cursor knows every event that happened up to the event the
\* cursor names, by whatever way it came to it.
CursorStandsForPrefix == 1..payload[client.cursor] \subseteq client.known

\* Nothing is under way between the publishers and the client.
CaughtUp == /\ conn.at = "streaming" /\ Unsent = {} /\ conn.pos > Len(bus)
            /\ wire = << >>
            /\ \A p \in Publishers : pubs[p] = Idle

\* No silent gap (README:13, client README:36): a client that has read all its
\* stream brings knows everything that happened.
NoSilentGap == CaughtUp => client.known = 1..happened

\* Every event is delivered at most once, in order (profile 2, stream.rs:43):
\* between two snapshots, whatever the cuts, no event frame repeats an event
\* or comes after a later one.
DeliveredInOrder ==
  [][Read /\ Head(wire).kind = "event" => \A e \in client.got : e < Head(wire).event]_vars

-----------------------------------------------------------------------------
(* Liveness *)

\* Every event comes to the client's knowledge, through cuts, lags, lost
\* writes and crashes, once these have stopped.
EventuallyKnown == \A e \in 1..MaxEvents : [](happened >= e => <>(e \in client.known))
=============================================================================
