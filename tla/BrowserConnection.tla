------------------------- MODULE BrowserConnection -------------------------
(***************************************************************************)
(* One self-healing connection of the browser client to one URL             *)
(* (connection.ts, openConnection): an EventSource that reconnects on its   *)
(* own until it gives up, the machine that replaces it, and the page's      *)
(* environment.  A handler runs to its end before the next one, so each is  *)
(* one action; the operators below are the machine's functions, from a      *)
(* record of its state to a record of its state.                            *)
(*                                                                          *)
(* Time is kept as ages that saturate, so no run ends.  The delay of a      *)
(* timer is drawn at random between bounds: a pending timer may fire at any *)
(* moment, and the backoff exponent, which only moves the bounds, is left   *)
(* out.                                                                     *)
(***************************************************************************)
EXTENDS Integers

CONSTANTS Resume,         \* whether an owned open carries the resume query
          Eager,          \* whether a healthy stream that drops is reopened
          Healthy,        \* the age at which a live stream is healthy
          AutoDeadman,    \* whether the dead-man follows what pings announce
          DefaultWindow,  \* the dead-man window until they do
          Windows,        \* windows a ping may announce; Off announces none
          CanThrow,       \* whether the EventSource constructor may throw
          Ids             \* ids of event frames

Off      == 0
NoCursor == 0
Never    == -1

\* Windows are milliseconds, and one of them is the longest.
ASSUME WindowAssumption ==
  /\ Windows \subseteq Nat /\ DefaultWindow \in Nat /\ Healthy \in Nat
  /\ \E w \in Windows \cup {DefaultWindow, Healthy} :
       \A v \in Windows \cup {DefaultWindow, Healthy} : v <= w

VARIABLES conn,      \* the machine and its source
          hidden,    \* whether the page is hidden
          announced  \* history: the window the current connection's pings announced

vars == <<conn, hidden, announced>>

MaxAge == CHOOSE w \in Windows \cup {DefaultWindow, Healthy} :
            \A v \in Windows \cup {DefaultWindow, Healthy} : v <= w

Older(age) == IF age = Never \/ age = MaxAge THEN age ELSE age + 1

\* "skipped" is history: the id the source read last came with a frame that
\* nobody listens to.
NoSource == [rs |-> "closed", query |-> NoCursor, id |-> NoCursor,
             fresh |-> FALSE, silent |-> FALSE, skipped |-> FALSE]

Fresh == [status |-> "connecting", source |-> NoSource, leaked |-> FALSE,
          lastId |-> NoCursor, withQuery |-> FALSE, stale |-> FALSE, opened |-> FALSE,
          resumed |-> FALSE, pingSeen |-> FALSE, window |-> DefaultWindow, ticker |-> Off,
          due |-> FALSE, idle |-> 0, live |-> Never,
          revive |-> FALSE, connect |-> FALSE, closed |-> FALSE]

\* The cursor a request of the source carries: the browser sends the last id it
\* read as a header, and the header wins over the query of the URL.
Requested(source) == IF source.id # NoCursor THEN source.id ELSE source.query

-----------------------------------------------------------------------------
(* The functions of the machine *)

Closed(c) ==
  [c EXCEPT !.closed = TRUE, !.revive = FALSE, !.connect = FALSE, !.ticker = Off,
            !.source.rs = "closed"]

ScheduleRevive(c) == IF c.closed \/ c.revive THEN c ELSE [c EXCEPT !.revive = TRUE]

\* open: a new source, with the query when there is a cursor to resume from.
\* A constructor that throws leaves the old source and schedules the next open.
Open(c, ok) ==
  LET query == IF Resume THEN c.lastId ELSE NoCursor
      next  == [c EXCEPT
                 !.source = [rs |-> "connecting", query |-> query, id |-> NoCursor,
                             fresh |-> FALSE, silent |-> FALSE, skipped |-> FALSE],
                 !.leaked = @ \/ c.source.rs # "closed",
                 !.withQuery = query # NoCursor, !.stale = FALSE, !.opened = FALSE,
                 !.live = Never, !.ticker = Off, !.idle = 0,
                 !.status = "connecting", !.connect = TRUE]
  IN  IF ok THEN next ELSE ScheduleRevive([c EXCEPT !.status = "retrying"])

\* Mutant: the old source is left to itself.
ReopenLeaving(c, wait, ok) ==
  LET d == [c EXCEPT !.connect = FALSE, !.status = "retrying"]
  IN  IF c.closed \/ c.revive THEN c
      ELSE IF wait THEN [d EXCEPT !.revive = TRUE]
      ELSE Open(d, ok)

Reopen(c, wait, ok) ==
  LET d == [c EXCEPT !.connect = FALSE, !.source.rs = "closed", !.status = "retrying"]
  IN  IF c.closed \/ c.revive THEN c
      ELSE IF wait THEN [d EXCEPT !.revive = TRUE]
      ELSE Open(d, ok)

StartDeadman(c) ==
  IF c.closed \/ c.ticker # Off \/ c.window = Off \/ ~c.pingSeen THEN c
  ELSE [c EXCEPT !.ticker = c.window]

-----------------------------------------------------------------------------
(* The handlers of the source's events *)

\* Mutant: only an owned open's query counts.
OpenedByQuery(c) ==
  [c EXCEPT !.status = "live", !.opened = TRUE, !.resumed = c.withQuery,
            !.pingSeen = FALSE, !.window = IF AutoDeadman THEN DefaultWindow ELSE @,
            !.ticker = Off, !.connect = FALSE, !.live = 0, !.idle = 0]

\* "open": the first of a source is the machine's own, the others are the
\* browser's reconnects.
Opened(c) ==
  [c EXCEPT !.status = "live", !.opened = TRUE,
            !.resumed = IF c.opened THEN c.lastId # NoCursor ELSE c.withQuery,
            !.pingSeen = FALSE, !.window = IF AutoDeadman THEN DefaultWindow ELSE @,
            !.ticker = Off, !.connect = FALSE, !.live = 0, !.idle = 0]

\* Mutant: a native reconnect is not capped.
ErroredUncapped(c, wait, ok) ==
  LET d == [c EXCEPT !.status = "retrying"]
  IN  IF d.closed \/ d.revive THEN d
      ELSE IF d.source.rs = "closed"
           THEN ScheduleRevive([d EXCEPT !.connect = FALSE, !.ticker = Off])
      ELSE IF d.stale THEN Reopen(d, FALSE, ok)
      ELSE IF Eager /\ d.live >= Healthy THEN Reopen(d, wait, ok)
      ELSE d

\* Mutant: a source that gave up is left to the browser.
ErroredWaiting(c, wait, ok) ==
  LET d == [c EXCEPT !.status = "retrying"]
  IN  IF d.closed \/ d.revive \/ d.source.rs = "closed" THEN d
      ELSE IF d.stale THEN Reopen(d, FALSE, ok)
      ELSE IF Eager /\ d.live >= Healthy THEN Reopen(d, wait, ok)
      ELSE [d EXCEPT !.connect = TRUE]

\* "error", the transport's: the source gave up, or reconnects on its own.
Errored(c, wait, ok) ==
  LET d == [c EXCEPT !.status = "retrying"]
  IN  IF d.closed \/ d.revive THEN d
      ELSE IF d.source.rs = "closed"
           THEN ScheduleRevive([d EXCEPT !.connect = FALSE, !.ticker = Off])
      ELSE IF d.stale THEN Reopen(d, FALSE, ok)
      ELSE IF Eager /\ d.live >= Healthy THEN Reopen(d, wait, ok)
      ELSE [d EXCEPT !.connect = TRUE]

\* A frame that is listened to carries the last id of its source, its own or
\* an earlier frame's.
Delivered(c) ==
  [c EXCEPT !.idle = 0, !.lastId = IF c.source.id = NoCursor THEN @ ELSE c.source.id]

\* Mutant: a ping that announces nothing sets the window all the same.
PingedUnread(c, w) ==
  LET d == [c EXCEPT !.idle = 0, !.pingSeen = TRUE]
  IN  StartDeadman(IF AutoDeadman /\ w # d.window
                   THEN [d EXCEPT !.window = w, !.ticker = Off] ELSE d)

\* Mutant: the running ticker keeps its window.
PingedKeepingTicker(c, w) ==
  LET d == [c EXCEPT !.idle = 0, !.pingSeen = TRUE]
  IN  StartDeadman(IF AutoDeadman /\ w # Off /\ w # d.window THEN [d EXCEPT !.window = w] ELSE d)

\* Mutant: the ticker stops for a new window and does not start again.
PingedStopping(c, w) ==
  LET d == [c EXCEPT !.idle = 0, !.pingSeen = TRUE]
  IN  IF AutoDeadman /\ w # Off /\ w # d.window
      THEN [d EXCEPT !.window = w, !.ticker = Off] ELSE StartDeadman(d)

Pinged(c, w) ==
  LET d == [c EXCEPT !.idle = 0, !.pingSeen = TRUE]
  IN  StartDeadman(IF AutoDeadman /\ w # Off /\ w # d.window
                   THEN [d EXCEPT !.window = w, !.ticker = Off] ELSE d)

\* Mutant: the URL of the source is not known to be stale.
ResyncedInPlace(c) == [c EXCEPT !.idle = 0, !.lastId = NoCursor]

\* The rejected cursor must not be sent again.
Resynced(c) == [c EXCEPT !.idle = 0, !.lastId = NoCursor, !.stale = @ \/ c.withQuery]

Nudged(c, visible, ok) ==
  IF c.closed THEN c
  ELSE IF c.due /\ visible
       THEN Reopen([c EXCEPT !.due = FALSE, !.ticker = Off], FALSE, ok)
  ELSE IF c.revive
       THEN Open([c EXCEPT !.revive = FALSE, !.source.rs = "closed"], ok)
  ELSE c

-----------------------------------------------------------------------------
(* The source, as the browser drives it *)

Constructs == IF CanThrow THEN BOOLEAN ELSE {TRUE}

Init == /\ hidden \in BOOLEAN
        /\ announced = Off
        /\ \E ok \in Constructs : conn = Open(Fresh, ok)

Is(rs) == conn.source.rs = rs

\* The response head arrives.
SourceOpens ==
  /\ Is("connecting")
  /\ conn' = Opened([conn EXCEPT !.source.rs = "open", !.source.fresh = TRUE])
  /\ announced' = Off
  /\ UNCHANGED hidden

Hears == Is("open") /\ ~conn.source.silent

\* The stream ends or breaks: the browser reconnects on its own.
SourceDrops(wait, ok) ==
  /\ Hears
  /\ conn' = Errored([conn EXCEPT !.source.rs = "connecting"], wait, ok)
  /\ UNCHANGED <<hidden, announced>>

\* A connection attempt fails and the browser tries again.
ConnectFails(wait, ok) ==
  /\ Is("connecting")
  /\ conn' = Errored(conn, wait, ok)
  /\ UNCHANGED <<hidden, announced>>

\* An HTTP error: the browser gives up.
SourceGivesUp ==
  /\ Is("connecting")
  /\ conn' = Errored([conn EXCEPT !.source.rs = "closed"], FALSE, TRUE)
  /\ UNCHANGED <<hidden, announced>>

\* The path dies and nobody is told.
HalfOpens == /\ Hears
             /\ conn' = [conn EXCEPT !.source.silent = TRUE]
             /\ UNCHANGED <<hidden, announced>>

\* An event frame, the server's "error" event included, with or without an id.
\* Listeners exist for "message", "error" and the names that subscribers want
\* now: under any other name the browser reads the id and calls nobody.
Event(id, heard) ==
  /\ Hears
  /\ LET source == [conn.source EXCEPT
                      !.fresh = FALSE,
                      !.id = IF id = NoCursor THEN @ ELSE id,
                      !.skipped = ~heard /\ (@ \/ id # NoCursor)]
         read   == [conn EXCEPT !.source = source]
     IN  conn' = IF heard THEN Delivered(read) ELSE read
  /\ UNCHANGED <<hidden, announced>>

Ping(w) ==
  /\ Hears
  /\ conn' = Pinged(conn, w)
  /\ announced' = IF w = Off THEN announced ELSE w
  /\ UNCHANGED hidden

\* The answer to a request whose cursor the server cannot serve, before any
\* event; its empty id resets the browser's.
Resync ==
  /\ Hears
  /\ conn.source.fresh /\ Requested(conn.source) # NoCursor
  /\ conn' = Resynced([conn EXCEPT !.source.fresh = FALSE, !.source.id = NoCursor,
                                   !.source.skipped = FALSE])
  /\ UNCHANGED <<hidden, announced>>

-----------------------------------------------------------------------------
(* Timers *)

ReviveTimer(ok) ==
  /\ conn.revive
  /\ conn' = Open([conn EXCEPT !.revive = FALSE], ok)
  /\ UNCHANGED <<hidden, announced>>

\* Mutant: the kill is not reported.
ConnectTimerQuiet ==
  /\ conn.connect
  /\ LET d == [conn EXCEPT !.connect = FALSE]
     IN  conn' = IF ~conn.closed /\ Is("connecting")
                 THEN ScheduleRevive([d EXCEPT !.source.rs = "closed"])
                 ELSE d
  /\ UNCHANGED <<hidden, announced>>

ConnectTimer ==
  /\ conn.connect
  /\ LET d == [conn EXCEPT !.connect = FALSE]
     IN  conn' = IF ~conn.closed /\ Is("connecting")
                 THEN ScheduleRevive([d EXCEPT !.source.rs = "closed", !.status = "retrying"])
                 ELSE d
  /\ UNCHANGED <<hidden, announced>>

DeadmanTick(ok) ==
  /\ conn.ticker # Off
  /\ ~conn.closed /\ conn.idle >= conn.ticker
  /\ conn' = IF hidden THEN [conn EXCEPT !.due = TRUE]
             ELSE Reopen([conn EXCEPT !.ticker = Off], FALSE, ok)
  /\ UNCHANGED <<hidden, announced>>

Tick == /\ conn' = [conn EXCEPT !.idle = Older(@), !.live = Older(@)]
        /\ UNCHANGED <<hidden, announced>>

-----------------------------------------------------------------------------
(* The page *)

\* "online", a new subscriber in mid-backoff, or the application.
Nudge(ok) ==
  /\ conn' = Nudged(conn, ~hidden, ok)
  /\ UNCHANGED <<hidden, announced>>

Hide == ~hidden /\ hidden' = TRUE /\ UNCHANGED <<conn, announced>>

\* visibilitychange: every connection is nudged.
Show(ok) ==
  /\ hidden
  /\ hidden' = FALSE
  /\ conn' = Nudged(conn, TRUE, ok)
  /\ UNCHANGED announced

Close == /\ ~conn.closed
         /\ conn' = Closed(conn)
         /\ UNCHANGED <<hidden, announced>>

Next ==
  \/ Hide \/ Close \/ Tick \/ HalfOpens \/ Resync
  \/ SourceOpens \/ SourceGivesUp \/ ConnectTimer
  \/ \E id \in Ids \cup {NoCursor}, heard \in BOOLEAN : Event(id, heard)
  \/ \E w \in Windows : Ping(w)
  \/ \E ok \in Constructs :
       \/ ReviveTimer(ok) \/ DeadmanTick(ok) \/ Nudge(ok) \/ Show(ok)
       \/ \E wait \in BOOLEAN : SourceDrops(wait, ok) \/ ConnectFails(wait, ok)

Spec == Init /\ [][Next]_vars

\* Timers fire, time passes, a hidden page is looked at again, and a server
\* that is asked again and again answers.
FairSpec == /\ Spec
            /\ WF_vars(\E ok \in Constructs : ReviveTimer(ok))
            /\ WF_vars(\E ok \in Constructs : DeadmanTick(ok))
            /\ WF_vars(\E ok \in Constructs : Show(ok))
            /\ WF_vars(ConnectTimer)
            /\ WF_vars(Tick)
            /\ SF_vars(SourceOpens)

-----------------------------------------------------------------------------
(* Safety *)

Cursor == Ids \cup {NoCursor}

\* The dead-man window the current connection should be watched with.
InForce == IF AutoDeadman /\ announced # Off THEN announced ELSE DefaultWindow

\* Type invariant: the machine and its source have their shapes; with 'auto'
\* the window is the default or one that was announced.
TypeOK ==
  /\ conn.status \in {"connecting", "live", "retrying"}
  /\ conn.source \in [rs : {"connecting", "open", "closed"}, query : Cursor, id : Cursor,
                      fresh : BOOLEAN, silent : BOOLEAN, skipped : BOOLEAN]
  /\ conn.lastId \in Cursor
  /\ conn.window \in (Windows \ {Off}) \cup {DefaultWindow}
  /\ conn.ticker \in Windows \cup {Off, DefaultWindow}
  /\ conn.idle \in 0..MaxAge /\ conn.live \in 0..MaxAge \cup {Never}
  /\ \A f \in {"leaked", "withQuery", "stale", "opened", "resumed", "pingSeen", "due",
               "revive", "connect", "closed"} : conn[f] \in BOOLEAN
  /\ hidden \in BOOLEAN
  /\ announced \in Windows \cup {Off}

\* Something always moves an open connection on (connection.ts:5-13): a source
\* that gave up has a revival pending, a connecting one has its cap armed, and
\* neither timer runs over a stream that is open.
NeverStuck ==
  ~conn.closed => /\ Is("closed") <=> conn.revive
                  /\ Is("connecting") <=> conn.connect

\* The status is the transport's (connection.ts:29): live exactly while the
\* source is open, connecting only while it connects.
StatusTells ==
  ~conn.closed => /\ conn.status = "live" <=> Is("open")
                  /\ conn.status = "connecting" => Is("connecting")

\* "The dead-man belongs to a connection" (connection.ts:348): it runs only
\* after a ping on this one, at the window this one announces, and an open
\* stream that has shown it pings is watched.
DeadmanBelongs ==
  ~conn.closed => /\ conn.ticker # Off => conn.pingSeen /\ conn.ticker = InForce
                  /\ Is("open") /\ conn.pingSeen => conn.ticker = InForce

\* Whoever reconnects, the browser or the machine, the request names the last
\* event the subscribers were given and no cursor the server has rejected; only
\* when the browser has read the id of a later frame that nobody listens to
\* does the request name that one.
RequestNamesTheLast ==
  Is("connecting") =>
    Requested(conn.source) = IF conn.source.skipped THEN conn.source.id ELSE conn.lastId

\* A connection has one source: none is replaced while it still runs.
OneSource == ~conn.leaked

Reopens == Is("connecting") /\ conn'.source.rs = "open"

Carried == Requested(conn.source) # NoCursor

\* onReconnect's "resumed" (connection.ts:85-89) is true exactly when the request
\* that opened carried a cursor and the subscribers had been given an event
\* with one: it is never told of a request without a cursor, and held back only
\* when all that the request can name is a frame nobody listens to.
ResumedTells ==
  [][Reopens => (conn'.resumed <=> Carried /\ conn.lastId # NoCursor)]_vars

-----------------------------------------------------------------------------
(* Liveness *)

\* The stream heals: until it is closed it always comes back to live.
Heals == []<>(conn.closed \/ conn.status = "live")

\* A stream that has pinged and then went silent is replaced.
HalfOpenIsCaught ==
  Is("open") /\ conn.source.silent /\ conn.pingSeen ~> conn.closed \/ ~conn.source.silent

-----------------------------------------------------------------------------
(* What the documentation says and the code does not do *)

IsNudged == \E ok \in Constructs : Nudge(ok) \/ Show(ok)

\* connection.ts:85-89, "resumed" says that the request carried a cursor, "whatever
\* the resume policy": it is not told of a request that carried none.
ResumedIsCarried == [][Reopens /\ conn'.resumed => Carried]_vars

\* connection.ts:344-346, the browser sends Last-Event-ID whenever a cursor is in
\* force "and this machine mirrors that": a request that carried one is told.  The
\* runs do not list it; with it Browser.cfg ends in a violation (README, 6).
CarriedIsResumed == [][Reopens /\ Carried => conn'.resumed]_vars

\* connection.ts:95, "A live stream ignores it": a nudge does not replace a
\* stream that was heard from within its dead-man window.
LiveIgnoresNudge ==
  [][IsNudged /\ conn.status = "live" /\ conn.idle < conn.window
       => conn'.source = conn.source]_vars
=============================================================================
