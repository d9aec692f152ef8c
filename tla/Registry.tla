------------------------------ MODULE Registry ------------------------------
(***************************************************************************)
(* The registry of the browser client (registry.ts): one shared connection  *)
(* for each URL, the subscribers it fans out to, and the link verdict.  The *)
(* connection is known by what it reports and whether a nudge would open it *)
(* (BrowserConnection has the rest).                                        *)
(*                                                                          *)
(* JavaScript runs one thing at a time, but a subscriber's handler may call *)
(* the registry back, in the middle of a fan-out or of its own replay.  So  *)
(* what is under way is a stack of turns: the connection's events and the   *)
(* timers wait until it is empty, and calls of the API come between turns   *)
(* or from inside a handler.                                                *)
(*                                                                          *)
(* Time is measured from the present: "now" is 0, tracks began in the past, *)
(* timers have a time left.                                                 *)
(***************************************************************************)
EXTENDS Link, Sequences, FiniteSets

CONSTANTS Urls,           \* keys of the registry
          Names,          \* event names that are not the profile's own
          Wanted,         \* the sets of names a subscriber may want
          Regs,           \* subscribe calls
          CanThrow,       \* whether the EventSource constructor may throw
          MaxEntries,     \* bound: entries created
          MaxStrays       \* bound: timers an entry has left behind when one of its
                          \* handlers calls

ASSUME NamesAssumption == \A names \in Wanted : names \subseteq Names

NoEntry == 0
Now     == 0
Off     == -1

VARIABLES entry,      \* the entries created so far
          entries,    \* the registry: the entry of each URL
          listening,  \* whether the environment listeners are installed
          reg,        \* the subscriptions
          stack       \* fan-outs and replays under way, the innermost first

vars == <<entry, entries, listening, reg, stack>>

Ids == DOMAIN entry

Mapped(i) == entries[entry[i].url] = i

\* A fresh entry: what create() leaves, with its first verdict's deadline.  An
\* EventSource that throws has reported 'retrying' by then.
DeadlineIn(track) == IF NextDeadline(track, Now) = {} THEN Off
                     ELSE CHOOSE at \in NextDeadline(track, Now) : TRUE

Created(url, names, ok) ==
  LET status == IF ok THEN "connecting" ELSE "retrying"
      track  == FirstTrack(status, Now)
  IN  [url |-> url, closed |-> FALSE, status |-> status, revive |-> ~ok,
       subs |-> {}, count |-> [n \in Names |-> 0], wired |-> names,
       linger |-> FALSE, loose |-> FALSE, track |-> track, link |-> LinkAt(track, Now),
       deadline |-> DeadlineIn(track), strays |-> {}, down |-> ~ok]

\* "stale" is history: the verdict it was told last is one that its replay had
\* read before another was reached.
NewReg == [at |-> "new", entry |-> NoEntry, names |-> {},
           status |-> "none", link |-> "none", owed |-> FALSE, stale |-> FALSE]

Init == /\ entry = << >>
        /\ entries = [u \in Urls |-> NoEntry]
        /\ listening = FALSE
        /\ reg = [r \in Regs |-> NewReg]
        /\ stack = << >>

-----------------------------------------------------------------------------
(* Fan-outs *)

\* A turn is in a phase of a report or of a subscribe call, has "what" to tell to
\* the subscribers in "todo", and goes on with "after" when it is done.
Turn(i, phase, what, todo, after) ==
  [entry |-> i, phase |-> phase, what |-> what, todo |-> todo, inside |-> FALSE,
   after |-> after]

\* The connection of entry i reports a status, and goes on with "after" when
\* the sink returns.
Reported(e, i, status) ==
  [e EXCEPT ![i].status = status, ![i].track = TrackStatus(@, status, Now)]

StatusTurn(e, i, after) == Turn(i, "status", e[i].status, e[i].subs, after)

Report(i, status, after) ==
  /\ entry' = Reported(entry, i, status)
  /\ stack' = <<StatusTurn(entry', i, after)>> \o stack
  /\ UNCHANGED <<entries, listening, reg>>

Top == Head(stack)

Tells(phase) == phase \in {"status", "reconnect", "link"}

\* Mutant: a fan-out goes over a copy of the subscribers.
WaitingAll == IF Tells(Top.phase) THEN Top.todo ELSE {}

\* Who is still to be told: a Set is iterated live, so who left is skipped.
Waiting == IF Tells(Top.phase) THEN Top.todo \cap entry[Top.entry].subs ELSE {}

Told(r) ==
  CASE Top.phase = "status"    -> [r EXCEPT !.status = Top.what,
                                            !.owed = Top.what = "retrying" \/ @]
    [] Top.phase = "reconnect" -> [r EXCEPT !.owed = FALSE]
    [] Top.phase = "link"      -> [r EXCEPT !.link = Top.what, !.stale = FALSE]

\* A handler is called; it may call the registry back until the next step.
Call(r) ==
  /\ stack # << >> /\ r \in Waiting
  /\ reg' = [reg EXCEPT ![r] = Told(@)]
  /\ stack' = <<[Top EXCEPT !.todo = @ \ {r}, !.inside = TRUE]>> \o Tail(stack)
  /\ UNCHANGED <<entry, entries, listening>>

ToldAll(phase) == stack # << >> /\ Waiting = {} /\ Top.phase = phase

Phase(phase, what) ==
  LET todo == IF Tells(phase) THEN entry'[Top.entry].subs ELSE {}
  IN  stack' = <<Turn(Top.entry, phase, what, todo, Top.after)>> \o Tail(stack)

\* Mutant: the edge is forgotten when the transport starts to connect.
EdgeForgotten ==
  /\ ToldAll("status")
  /\ LET i == Top.entry
     IN  /\ entry' = [entry EXCEPT ![i].down = Top.what = "retrying"]
         /\ IF Top.what = "live" /\ entry[i].down
            THEN Phase("reconnect", "live") ELSE Phase("judge", "none")
  /\ UNCHANGED <<entries, listening, reg>>

\* After onStatus: the retrying -> live edge.
Edge ==
  /\ ToldAll("status")
  /\ LET i == Top.entry
     IN  /\ entry' = [entry EXCEPT ![i].down = IF Top.what = "live" THEN FALSE
                                               ELSE Top.what = "retrying" \/ @]
         /\ IF Top.what = "live" /\ entry[i].down
            THEN Phase("reconnect", "live") ELSE Phase("judge", "none")
  /\ UNCHANGED <<entries, listening, reg>>

Reconnected ==
  /\ ToldAll("reconnect")
  /\ UNCHANGED <<entry, entries, listening, reg>>
  /\ Phase("judge", "none")

\* judge: the pending deadline is dropped, and a changed verdict fans out.
Judge ==
  /\ ToldAll("judge")
  /\ LET i    == Top.entry
         link == LinkAt(entry[i].track, Now)
     IN  /\ entry' = [entry EXCEPT ![i].deadline = Off, ![i].link = link]
         /\ IF link # entry[i].link /\ link # "none"
            THEN Phase("link", link) ELSE Phase("arm", "none")
  /\ UNCHANGED <<entries, listening, reg>>

Judged ==
  /\ ToldAll("link")
  /\ UNCHANGED <<entry, entries, listening, reg>>
  /\ Phase("arm", "none")

\* Mutant: a judgement does not arm the next deadline.
ArmUnarmed ==
  /\ ToldAll("arm")
  /\ LET i == Top.entry
     IN  IF Top.after = "open"
         THEN /\ entry' = Reported(entry, i, "connecting")
              /\ stack' = <<StatusTurn(entry', i, "none")>> \o Tail(stack)
         ELSE /\ entry' = [entry EXCEPT ![i].revive = Top.after = "revive" \/ @]
              /\ stack' = Tail(stack)
  /\ UNCHANGED <<entries, listening, reg>>

\* The next deadline is armed and the sink returns to the connection, which
\* schedules its revival or opens at once.  A deadline that a judgement from
\* inside a handler armed is not dropped, and nothing names it any more.  A
\* connection that a handler has closed opens all the same, and its source is
\* loose.
Arm ==
  /\ ToldAll("arm")
  /\ LET i     == Top.entry
         e     == entry[i]
         armed == [entry EXCEPT ![i].deadline = DeadlineIn(e.track),
                                ![i].strays = IF e.deadline = Off THEN @
                                              ELSE @ \cup {e.deadline}]
     IN  IF Top.after = "open"
         THEN /\ entry' = Reported([armed EXCEPT ![i].loose = e.closed], i, "connecting")
              /\ stack' = <<StatusTurn(entry', i, "none")>> \o Tail(stack)
         ELSE /\ entry' = [armed EXCEPT ![i].revive =
                             (Top.after = "revive" /\ ~e.closed) \/ @]
              /\ stack' = Tail(stack)
  /\ UNCHANGED <<entries, listening, reg>>

-----------------------------------------------------------------------------
(* The API, called between turns or from inside a handler *)

MayCall == IF stack = << >> THEN TRUE
           ELSE Top.inside /\ Cardinality(entry[Top.entry].strays) < MaxStrays

\* The turns with one more subscriber to tell, or a nudge's report on top.
Joined(i, r) ==
  [k \in DOMAIN stack |-> IF stack[k].entry = i /\ Tells(stack[k].phase)
                          THEN [stack[k] EXCEPT !.todo = @ \cup {r}] ELSE stack[k]]

\* nudge() of a connection in backoff opens it; any other ignores it.
Nudged(e, i, turns, ok) ==
  LET opened == [e EXCEPT ![i].revive = FALSE]
  IN  IF e[i].revive /\ ~e[i].closed /\ ok
      THEN /\ entry' = Reported(opened, i, "connecting")
           /\ stack' = <<StatusTurn(entry', i, "none")>> \o turns
      ELSE /\ entry' = e
           /\ stack' = turns

\* The entry with one more subscriber.
Retained(e, r, names) ==
  [e EXCEPT !.linger = FALSE, !.subs = @ \cup {r},
            !.count = [n \in Names |-> IF n \in names THEN @[n] + 1 ELSE @[n]],
            !.wired = @ \cup names]

\* A subscriber joins: it is told the status, and the verdict when that handler
\* has returned.
Joiner(i, e, names) ==
  [NewReg EXCEPT !.at = "in", !.entry = i, !.names = names, !.status = e.status]

\* subscribe: an entry is created for a new URL, the status and the verdict are
\* read, and onStatus is called.
Subscribe(r, url, names, ok) ==
  /\ MayCall /\ reg[r].at = "new"
  /\ entries[url] # NoEntry \/ Len(entry) < MaxEntries
  /\ LET known == entries[url] # NoEntry
         all   == IF known THEN entry ELSE Append(entry, Created(url, names, ok))
         i     == IF known THEN entries[url] ELSE Len(all)
         e     == all[i]
         after == IF e.status = "retrying" THEN "nudge" ELSE "none"
         turn  == [Turn(i, "replay", e.link, {r}, after) EXCEPT !.inside = TRUE]
     IN  /\ entries' = [entries EXCEPT ![url] = i]
         /\ listening' = TRUE
         /\ reg' = [reg EXCEPT ![r] = Joiner(i, e, names)]
         /\ entry' = [all EXCEPT ![i] = Retained(e, r, names)]
         /\ stack' = <<turn>> \o Joined(i, r)

Replaying(phase) == stack # << >> /\ Top.phase = phase

\* Mutant: the verdict is not replayed.
ReplayNothing ==
  /\ Replaying("replay")
  /\ stack' = <<[Top EXCEPT !.phase = "wake"]>> \o Tail(stack)
  /\ UNCHANGED <<entry, entries, listening, reg>>

\* onStatus has returned, and onLink is called with the verdict read before it,
\* if there was one.
ReplayLink ==
  /\ Replaying("replay")
  /\ reg' = [r \in Regs |->
               IF r \in Top.todo /\ Top.what # "none"
               THEN [reg[r] EXCEPT !.link = Top.what,
                                   !.stale = Top.what # entry[Top.entry].link]
               ELSE reg[r]]
  /\ stack' = <<[Top EXCEPT !.phase = "wake"]>> \o Tail(stack)
  /\ UNCHANGED <<entry, entries, listening>>

\* A joiner in mid-backoff reconnects, and subscribe returns when that has been
\* reported.
Wake(ok) ==
  /\ Replaying("wake")
  /\ LET turns == <<[Top EXCEPT !.phase = "return", !.inside = FALSE]>> \o Tail(stack)
     IN  IF Top.after = "nudge" THEN Nudged(entry, Top.entry, turns, ok)
                                ELSE entry' = entry /\ stack' = Tail(stack)
  /\ UNCHANGED <<entries, listening, reg>>

Return ==
  /\ Replaying("return")
  /\ stack' = Tail(stack)
  /\ UNCHANGED <<entry, entries, listening, reg>>

\* Whose subscribe call has not returned has no function to unsubscribe with.
Joining(r) ==
  \E k \in DOMAIN stack : stack[k].phase \in {"replay", "wake", "return"} /\ r \in stack[k].todo

\* The entry with its subscriber gone: a name is unwired with its last owner,
\* and the last subscriber's leaving starts the linger.
Released(e, r) ==
  LET count == [n \in Names |-> IF n \in reg[r].names THEN e.count[n] - 1 ELSE e.count[n]]
  IN  [e EXCEPT !.subs = @ \ {r}, !.count = count,
                !.wired = {n \in @ : count[n] > 0},
                !.linger = @ \/ e.subs = {r}]

\* What a subscriber that has left was told no longer matters.
Gone(s) == [s EXCEPT !.at = "out", !.status = "none", !.link = "none", !.owed = FALSE,
                     !.stale = FALSE]

\* Mutant: a second call releases once more.
UnsubscribeTwice(r) ==
  /\ MayCall /\ reg[r].at # "new" /\ ~Joining(r)
  /\ entry' = [entry EXCEPT ![reg[r].entry] = Released(@, r)]
  /\ reg' = [reg EXCEPT ![r] = Gone(@)]
  /\ UNCHANGED <<entries, listening, stack>>

\* The function subscribe returned: it may be called any number of times.
Unsubscribe(r) ==
  /\ MayCall /\ reg[r].at # "new" /\ ~Joining(r)
  /\ entry' = [entry EXCEPT ![reg[r].entry] = IF r \in @.subs THEN Released(@, r) ELSE @]
  /\ reg' = [reg EXCEPT ![r] = Gone(@)]
  /\ UNCHANGED <<entries, listening, stack>>

\* nudge(url), or one connection's share of wakeAll.
Nudge(url, ok) ==
  /\ MayCall /\ entries[url] # NoEntry
  /\ Nudged(entry, entries[url], stack, ok)
  /\ UNCHANGED <<entries, listening, reg>>

\* A connection is closed, and its entry's deadline with it.
Shut(e) == [e EXCEPT !.closed = TRUE, !.revive = FALSE, !.deadline = Off]

\* dispose(), wherever it is called from: a turn under way goes on.
Dispose ==
  /\ MayCall
  /\ entry' = [i \in Ids |-> IF Mapped(i) THEN [Shut(entry[i]) EXCEPT !.linger = FALSE]
                             ELSE entry[i]]
  /\ entries' = [u \in Urls |-> NoEntry]
  /\ listening' = FALSE
  /\ UNCHANGED <<reg, stack>>

-----------------------------------------------------------------------------
(* Timers, between turns *)

\* Mutant: a linger that fires evicts whatever entry its URL has.
LingerEvicts(i) ==
  /\ stack = << >> /\ entry[i].linger
  /\ LET e == [entry[i] EXCEPT !.linger = FALSE]
     IN  IF e.subs = {}
         THEN /\ entry' = [entry EXCEPT ![i] = Shut(e)]
              /\ entries' = [entries EXCEPT ![e.url] = NoEntry]
              /\ listening' = (\E u \in Urls : entries'[u] # NoEntry)
         ELSE entry' = [entry EXCEPT ![i] = e] /\ UNCHANGED <<entries, listening>>
  /\ UNCHANGED <<reg, stack>>

\* The linger of an entry without subscribers ends, if it is still its URL's.
LingerFires(i) ==
  /\ stack = << >> /\ entry[i].linger
  /\ LET e == [entry[i] EXCEPT !.linger = FALSE]
     IN  IF e.subs = {} /\ Mapped(i)
         THEN /\ entry' = [entry EXCEPT ![i] = Shut(e)]
              /\ entries' = [entries EXCEPT ![e.url] = NoEntry]
              /\ listening' = (\E u \in Urls : entries'[u] # NoEntry)
         ELSE entry' = [entry EXCEPT ![i] = e] /\ UNCHANGED <<entries, listening>>
  /\ UNCHANGED <<reg, stack>>

\* A deadline, or one that was left behind.
DeadlineFires(i) ==
  /\ stack = << >>
  /\ \/ entry[i].deadline = 0 /\ entry' = [entry EXCEPT ![i].deadline = Off]
     \/ 0 \in entry[i].strays /\ entry' = [entry EXCEPT ![i].strays = @ \ {0}]
  /\ stack' = <<Turn(i, "judge", "none", {}, "none")>>
  /\ UNCHANGED <<entries, listening, reg>>

Less(time) == IF time \in {Off, 0} THEN time ELSE time - 1

Tick ==
  /\ stack = << >>
  /\ entry' = [i \in Ids |->
       [entry[i] EXCEPT !.track.since = IF @ = -OfflineMs THEN @ ELSE @ - 1,
                        !.deadline = Less(@),
                        !.strays = {Less(t) : t \in @}]]
  /\ UNCHANGED <<entries, listening, reg, stack>>

-----------------------------------------------------------------------------
(* The connection of entry i, between turns *)

Runs(i) == stack = << >> /\ ~entry[i].closed

\* A loose source reports like any other; the machine does no more about it.
Reports(i) == Runs(i) \/ (stack = << >> /\ entry[i].loose)

\* Its source opens, the first time or on the browser's own reconnect.
Opens(i) == /\ Reports(i) /\ entry[i].status # "live" /\ ~entry[i].revive
            /\ Report(i, "live", "none")

\* reopen() at once, of a stream that has been live: by the eager policy, for a
\* stale query, for the dead-man, or for a nudge that found it due.
Reopens(i) == entry[i].track.everLive /\ ~entry[i].loose

\* Its source drops or fails: the browser reconnects, the machine has a
\* revival pending, or opens at once.
Fails(i, after) ==
  /\ Reports(i) /\ ~entry[i].revive
  /\ after = "revive" => ~entry[i].loose
  /\ after = "open" => Reopens(i)
  /\ IF entry[i].status # "retrying" THEN Report(i, "retrying", after)
     ELSE /\ after = "revive"
          /\ entry' = [entry EXCEPT ![i].revive = TRUE]
          /\ UNCHANGED <<entries, listening, reg, stack>>

Revives(i) ==
  /\ Runs(i) /\ entry[i].revive
  /\ entry' = Reported([entry EXCEPT ![i].revive = FALSE], i, "connecting")
  /\ stack' = <<StatusTurn(entry', i, "none")>>
  /\ UNCHANGED <<entries, listening, reg>>

Constructs == IF CanThrow THEN BOOLEAN ELSE {TRUE}

Proceeds == Edge \/ Reconnected \/ Judge \/ Judged \/ Arm \/ ReplayLink \/ Return

Next ==
  \/ \E r \in Regs : Call(r) \/ Unsubscribe(r)
  \/ \E r \in Regs, u \in Urls, names \in Wanted, ok \in Constructs :
       Subscribe(r, u, names, ok)
  \/ \E u \in Urls, ok \in Constructs : Nudge(u, ok)
  \/ \E ok \in Constructs : Wake(ok)
  \/ Dispose \/ Proceeds \/ Tick
  \/ \E i \in Ids : \/ LingerFires(i) \/ DeadlineFires(i) \/ Opens(i) \/ Revives(i)
                    \/ \E after \in {"none", "revive", "open"} : Fails(i, after)

Spec == Init /\ [][Next]_vars

-----------------------------------------------------------------------------
(* Safety *)

\* "Names are refcounted across subscribers" (registry.ts:52): a name is wired
\* on the shared connection exactly while a subscriber wants it.
NamesAreCounted ==
  \A i \in Ids : entry[i].wired = UNION {reg[r].names : r \in entry[i].subs}

\* One shared connection per URL: an entry is in the registry exactly until its
\* connection is closed, so the registry neither holds a closed connection nor
\* loses an open one, and an entry that nobody subscribes to is on its way out.
\* (A source that is loose belongs to a closed connection: see DisposedIsClosed.)
OpenIsMapped ==
  \A i \in Ids : /\ Mapped(i) <=> ~entry[i].closed
                 /\ Mapped(i) => entry[i].subs # {} \/ entry[i].linger

\* Between turns every subscriber has been told where its stream is, by a
\* report or by the replay, and the same verdict as all the others, unless its
\* replay told it a verdict that had changed since subscribe read it.
SubscribersKnow ==
  stack = << >> =>
    \A i \in Ids : Mapped(i) =>
      \A r \in entry[i].subs :
        /\ reg[r].status = entry[i].status
        /\ entry[i].link # "none" /\ ~reg[r].stale => reg[r].link = entry[i].link

\* onReconnect comes with the retrying -> live edge (registry.ts:38): a
\* subscriber that was told of a drop and is live again has been called.
EdgeIsTold ==
  stack = << >> =>
    \A r \in Regs : reg[r].at = "in" /\ Mapped(reg[r].entry) /\ reg[r].status = "live"
                      => ~reg[r].owed

\* Between turns the verdict in force is the one the track gives now, unless
\* the timer that will say so is due.
VerdictIsCurrent ==
  stack = << >> =>
    \A i \in Ids : Mapped(i) =>
      entry[i].link = LinkAt(entry[i].track, Now) \/ entry[i].deadline = 0

\* A subscriber that has left is called no more, whatever is under way.
LeftIsSilent ==
  [][\A r \in Regs : reg[r].at = "out" => reg'[r] = reg[r]]_vars

-----------------------------------------------------------------------------
(* What the documentation says and the code does not do *)

\* "Close every stream now" (registry.ts:98): what dispose has closed opens no
\* source and reports nothing more, wherever dispose was called from.
DisposedIsClosed ==
  [][\A i \in Ids : entry[i].closed => entry'[i].status = entry[i].status]_vars

\* registry.ts:267-269, a joiner is replayed "the current status (and the link
\* verdict, when there is one)": the verdict it has been told is the one in force.
\* The runs do not list it; with it Registry.cfg ends in a violation (README, 6).
ReplayIsCurrent ==
  stack = << >> =>
    \A i \in Ids : Mapped(i) =>
      \A r \in entry[i].subs : entry[i].link # "none" => reg[r].link = entry[i].link

=============================================================================
