---------------------------- MODULE BrowserProofs ----------------------------
(***************************************************************************)
(* What BrowserConnection promises of its safety, for any windows, ids and  *)
(* options, proved on one invariant of the machine's record.  It is stated  *)
(* of a record and not of the state, as the machine's functions are.        *)
(***************************************************************************)
EXTENDS BrowserConnection, TLAPS

SourceType == [rs : {"connecting", "open", "closed"}, query : Cursor, id : Cursor,
               fresh : BOOLEAN, silent : BOOLEAN, skipped : BOOLEAN]

ConnType ==
  [status : {"connecting", "live", "retrying"}, source : SourceType, leaked : BOOLEAN,
   lastId : Cursor, withQuery : BOOLEAN, stale : BOOLEAN, opened : BOOLEAN,
   resumed : BOOLEAN, pingSeen : BOOLEAN, window : (Windows \ {Off}) \cup {DefaultWindow},
   ticker : Windows \cup {Off, DefaultWindow}, due : BOOLEAN, idle : 0..MaxAge,
   live : 0..MaxAge \cup {Never}, revive : BOOLEAN, connect : BOOLEAN, closed : BOOLEAN]

\* InForce, of the window that the pings announced.
WindowFor(window) == IF AutoDeadman /\ window # Off THEN window ELSE DefaultWindow

\* What holds in the middle of a handler as well: no source was left behind,
\* the query of the source is known, and the dead-man is this connection's.
Kept(c, window) ==
  /\ c \in ConnType
  /\ ~c.leaked
  /\ c.withQuery <=> c.source.query # NoCursor
  /\ c.opened \/ c.source.id = NoCursor
  /\ c.source.skipped => c.source.id # NoCursor
  /\ c.window = WindowFor(window)
  /\ c.ticker # Off => c.pingSeen /\ c.ticker = WindowFor(window)

Moves(c) ==
  /\ c.source.rs = "closed" <=> c.revive
  /\ c.source.rs = "connecting" <=> c.connect
  /\ c.status = "live" <=> c.source.rs = "open"
  /\ c.status = "connecting" => c.source.rs = "connecting"
  /\ c.source.rs = "open" => c.opened

Gone(c) == c.source.rs = "closed" /\ ~c.revive /\ ~c.connect /\ c.ticker = Off

\* What the browser has been told last, by a frame given to the subscribers or by
\* one nobody listens to.
Last(c) == IF c.source.skipped THEN c.source.id ELSE c.lastId

\* The cursor that the source carries is the last one, unless it is stale: and
\* then the browser does not get to present it.
Carries(c) ==
  /\ c.source.rs = "connecting" => ~c.stale
  /\ Resume /\ c.source.rs # "closed" /\ ~c.stale => Requested(c.source) = Last(c)

Sound(c, window) ==
  /\ Kept(c, window)
  /\ IF c.closed THEN Gone(c) ELSE Moves(c)
  /\ Carries(c)
  /\ ~c.closed /\ c.source.rs = "open" /\ c.pingSeen => c.ticker = WindowFor(window)

IInv == /\ Sound(conn, announced)
        /\ hidden \in BOOLEAN /\ announced \in Windows \cup {Off}

-----------------------------------------------------------------------------
(* The functions of the machine *)

LEMMA Ages == MaxAge \in Nat
  BY WindowAssumption DEF MaxAge

LEMMA OpenSound ==
  ASSUME NEW c, NEW window, Kept(c, window), c.source.rs = "closed", ~c.closed,
         ~c.revive, ~c.connect, NEW ok \in BOOLEAN
  PROVE  Sound(Open(c, ok), window)
<1>1. CASE ok
  <2> DEFINE q == IF Resume THEN c.lastId ELSE NoCursor
             s == [rs |-> "connecting", query |-> q, id |-> NoCursor,
                   fresh |-> FALSE, silent |-> FALSE, skipped |-> FALSE]
             n == Open(c, ok)
  <2>1. s \in SourceType
    BY DEF Kept, ConnType, SourceType, Cursor
  <2>2. n = [status |-> "connecting", source |-> s, leaked |-> FALSE, lastId |-> c.lastId,
             withQuery |-> q # NoCursor, stale |-> FALSE, opened |-> FALSE,
             resumed |-> c.resumed, pingSeen |-> c.pingSeen, window |-> c.window,
             ticker |-> Off, due |-> c.due, idle |-> 0, live |-> Never, revive |-> c.revive,
             connect |-> TRUE, closed |-> c.closed]
    BY <1>1 DEF Open, Kept, ConnType
  <2> HIDE DEF n
  <2>3. q \in Cursor
    BY DEF Kept, ConnType, Cursor
  <2>4. n \in ConnType
    BY <2>1, <2>2, <2>3, Ages DEF Kept, ConnType
  <2>5. Kept(n, window)
    BY <2>1, <2>2, <2>3, <2>4 DEF Kept
  <2>6. Moves(n) /\ ~n.closed
    BY <2>1, <2>2, <2>3 DEF Moves
  <2>7. Carries(n)
    BY <2>1, <2>2, <2>3 DEF Carries, Last, Requested
  <2>8. QED
    BY <2>2, <2>5, <2>6, <2>7 DEF Sound, n
<1>2. CASE ~ok
  <2> DEFINE n == [c EXCEPT !.status = "retrying", !.revive = TRUE]
  <2>1. c \in ConnType
    BY DEF Kept
  <2>2. Open(c, ok) = n
    BY <1>2, <2>1 DEF Open, ScheduleRevive, ConnType
  <2>3. /\ n \in ConnType /\ n.status = "retrying" /\ n.revive
        /\ \A f \in {"source", "leaked", "withQuery", "opened", "pingSeen", "window", "ticker",
                     "connect", "closed"} : n[f] = c[f]
    BY <2>1 DEF ConnType
  <2> HIDE DEF n
  <2>4. Kept(n, window) /\ Moves(n) /\ Carries(n)
    BY <2>3 DEF Kept, Moves, Carries
  <2>5. QED
    BY <2>2, <2>3, <2>4 DEF Sound
<1>3. QED
  BY <1>1, <1>2

LEMMA ReopenSound ==
  ASSUME NEW c, NEW window, Kept(c, window), ~c.closed, ~c.revive,
         NEW wait \in BOOLEAN, NEW ok \in BOOLEAN
  PROVE  Sound(Reopen(c, wait, ok), window)
<1> DEFINE d == [c EXCEPT !.connect = FALSE, !.source.rs = "closed", !.status = "retrying"]
<1>1. /\ Kept(d, window) /\ d.source.rs = "closed" /\ ~d.closed /\ ~d.revive /\ ~d.connect
      /\ d.status = "retrying"
  BY DEF Kept, ConnType, SourceType
<1> HIDE DEF d
<1>2. CASE wait
  <2> DEFINE n == [d EXCEPT !.revive = TRUE]
  <2>1. Reopen(c, wait, ok) = n
    BY <1>2 DEF Reopen, d
  <2>2. /\ Kept(n, window) /\ n.source.rs = "closed" /\ ~n.closed /\ n.revive /\ ~n.connect
        /\ n.status = "retrying"
    <3>1. d \in ConnType
      BY <1>1 DEF Kept
    <3>2. /\ n \in ConnType /\ n.revive
          /\ \A f \in {"status", "source", "leaked", "withQuery", "opened", "pingSeen",
                       "window", "ticker", "connect", "closed"} : n[f] = d[f]
      BY <3>1 DEF ConnType
    <3> HIDE DEF n
    <3>3. QED
      BY <1>1, <3>2 DEF Kept
  <2> HIDE DEF n
  <2>3. QED
    BY <2>1, <2>2 DEF Sound, Moves, Carries
<1>3. CASE ~wait
  <2>1. Reopen(c, wait, ok) = Open(d, ok)
    BY <1>3 DEF Reopen, d
  <2>2. QED
    BY <1>1, <2>1, OpenSound
<1>4. QED
  BY <1>2, <1>3

LEMMA ErroredSound ==
  ASSUME NEW c, NEW window, Kept(c, window), ~c.closed, ~c.revive,
         c.source.rs \in {"connecting", "closed"},
         Resume /\ c.source.rs # "closed" /\ ~c.stale => Requested(c.source) = Last(c),
         NEW wait \in BOOLEAN, NEW ok \in BOOLEAN
  PROVE  Sound(Errored(c, wait, ok), window)
<1> DEFINE d == [c EXCEPT !.status = "retrying"]
<1>1. /\ Kept(d, window) /\ d.source = c.source /\ ~d.closed /\ ~d.revive
      /\ d.stale = c.stale /\ d.lastId = c.lastId /\ d.status = "retrying"
  BY DEF Kept, ConnType
<1> HIDE DEF d
<1>2. CASE d.source.rs = "closed"
  <2> DEFINE n == [d EXCEPT !.connect = FALSE, !.ticker = Off, !.revive = TRUE]
  <2>1. Errored(c, wait, ok) = n
    BY <1>1, <1>2 DEF Errored, ScheduleRevive, Kept, ConnType, d
  <2>2. /\ Kept(n, window) /\ n.source.rs = "closed" /\ ~n.closed /\ n.revive /\ ~n.connect
        /\ n.status = "retrying"
    <3>1. d \in ConnType
      BY <1>1 DEF Kept
    <3>2. n \in ConnType
      BY <3>1 DEF ConnType
    <3>3. /\ n.revive /\ ~n.connect /\ n.ticker = Off
          /\ \A f \in {"status", "source", "leaked", "withQuery", "opened", "pingSeen",
                       "window", "closed"} : n[f] = d[f]
      BY <3>1 DEF ConnType
    <3> HIDE DEF n
    <3>4. QED
      BY <1>1, <1>2, <3>2, <3>3 DEF Kept
  <2> HIDE DEF n
  <2>3. QED
    BY <2>1, <2>2 DEF Sound, Moves, Carries
<1>3. CASE d.source.rs # "closed" /\ (d.stale \/ (Eager /\ d.live >= Healthy))
  <2>1. \E w \in BOOLEAN : Errored(c, wait, ok) = Reopen(d, w, ok)
    <3>1. CASE d.stale
      BY <1>1, <1>3, <3>1 DEF Errored, d
    <3>2. CASE ~d.stale
      BY <1>1, <1>3, <3>2 DEF Errored, d
    <3>3. QED
      BY <3>1, <3>2
  <2>2. QED
    BY <1>1, <2>1, ReopenSound
<1>4. CASE d.source.rs # "closed" /\ ~d.stale /\ ~ (Eager /\ d.live >= Healthy)
  <2> DEFINE n == [d EXCEPT !.connect = TRUE]
  <2>1. Errored(c, wait, ok) = n
    BY <1>1, <1>4 DEF Errored, d
  <2>2. /\ n \in ConnType /\ n.connect
        /\ \A f \in {"status", "source", "leaked", "lastId", "withQuery", "stale", "opened",
                     "pingSeen", "window", "ticker", "revive", "closed"} : n[f] = d[f]
    BY <1>1 DEF Kept, ConnType
  <2> HIDE DEF n
  <2>3. Kept(n, window)
    BY <1>1, <2>2 DEF Kept
  <2>4. n.source.rs = "connecting" /\ ~n.stale /\ n.source = c.source /\ n.lastId = c.lastId
    BY <1>1, <1>4, <2>2
  <2>5. Moves(n) /\ Carries(n) /\ ~n.closed
    BY <1>1, <1>4, <2>2, <2>4 DEF Moves, Carries, Last
  <2>6. QED
    BY <2>1, <2>3, <2>4, <2>5 DEF Sound
<1>5. QED
  BY <1>2, <1>3, <1>4

LEMMA NudgedSound ==
  ASSUME NEW c, NEW window, Sound(c, window), NEW visible \in BOOLEAN, NEW ok \in BOOLEAN
  PROVE  Sound(Nudged(c, visible, ok), window)
<1>1. CASE c.closed
  BY <1>1 DEF Nudged
<1>2. CASE ~c.closed /\ c.due /\ visible
  <2> DEFINE d == [c EXCEPT !.due = FALSE, !.ticker = Off]
  <2>1. Nudged(c, visible, ok) = Reopen(d, FALSE, ok)
    BY <1>2 DEF Nudged
  <2>2. Kept(d, window) /\ d.source = c.source /\ ~d.closed /\ d.revive = c.revive
        /\ d.connect = c.connect /\ d.status = c.status /\ d.stale = c.stale
        /\ d.lastId = c.lastId
    BY <1>2 DEF Sound, Kept, ConnType
  <2> HIDE DEF d
  <2>3. CASE c.revive
    <3>1. Reopen(d, FALSE, ok) = d
      BY <2>2, <2>3 DEF Reopen
    <3>2. Sound(d, window)
      BY <1>2, <2>2, <2>3 DEF Sound, Moves, Carries
    <3>3. QED
      BY <2>1, <3>1, <3>2
  <2>4. CASE ~c.revive
    BY <2>1, <2>2, <2>4, ReopenSound
  <2>5. QED
    BY <2>3, <2>4
<1>3. CASE ~c.closed /\ ~ (c.due /\ visible) /\ c.revive
  <2> DEFINE d == [c EXCEPT !.revive = FALSE, !.source.rs = "closed"]
  <2>1. Nudged(c, visible, ok) = Open(d, ok)
    BY <1>3 DEF Nudged
  <2>2. Kept(d, window) /\ d.source.rs = "closed" /\ ~d.closed /\ ~d.revive /\ ~d.connect
    <3>1. /\ Kept(c, window) /\ c \in ConnType /\ c.source \in SourceType
          /\ c.source.rs = "closed" /\ ~c.closed /\ ~c.connect
      BY <1>3 DEF Sound, Kept, ConnType, SourceType, Moves
    <3> DEFINE e == [c EXCEPT !.revive = FALSE]
    <3>2. [c.source EXCEPT !.rs = "closed"] = c.source
      BY <3>1 DEF SourceType
    <3>3. e \in ConnType /\ e.source = c.source
      BY <3>1 DEF ConnType
    <3>4. d = e
      BY <3>1, <3>2, <3>3 DEF ConnType
    <3>5. /\ ~e.revive
          /\ \A f \in {"leaked", "withQuery", "opened", "pingSeen", "window", "ticker",
                       "connect", "closed"} : e[f] = c[f]
      BY <3>1 DEF ConnType
    <3> HIDE DEF d, e
    <3>6. QED
      BY <3>1, <3>3, <3>4, <3>5 DEF Kept
  <2> HIDE DEF d
  <2>3. QED
    BY <2>1, <2>2, OpenSound
<1>4. CASE ~c.closed /\ ~ (c.due /\ visible) /\ ~c.revive
  BY <1>4 DEF Nudged
<1>5. QED
  BY <1>1, <1>2, <1>3, <1>4

LEMMA PingedSound ==
  ASSUME NEW c, NEW window \in Windows \cup {Off}, Sound(c, window), ~c.closed,
         c.source.rs = "open", NEW w \in Windows
  PROVE  Sound(Pinged(c, w), IF w = Off THEN window ELSE w)
<1> DEFINE next == IF w = Off THEN window ELSE w
           heard == [c EXCEPT !.idle = 0, !.pingSeen = TRUE]
           d == IF AutoDeadman /\ w # Off /\ w # heard.window
                THEN [heard EXCEPT !.window = w, !.ticker = Off] ELSE heard
           n == Pinged(c, w)
<1>1. /\ heard \in ConnType /\ heard.pingSeen
      /\ \A f \in {"status", "source", "leaked", "lastId", "withQuery", "stale", "opened",
                   "window", "ticker", "revive", "connect", "closed"} : heard[f] = c[f]
  <2>1. c \in ConnType /\ 0 \in 0..MaxAge
    BY Ages DEF Sound, Kept
  <2>2. \A f \in {"status", "source", "leaked", "lastId", "withQuery", "stale", "opened",
                  "resumed", "window", "ticker", "due", "live", "revive", "connect",
                  "closed"} : heard[f] = c[f]
    BY <2>1 DEF ConnType
  <2>3. heard.idle = 0 /\ heard.pingSeen
    BY <2>1 DEF ConnType
  <2>4. heard \in ConnType
    BY <2>1 DEF ConnType
  <2>5. QED
    BY <2>2, <2>3, <2>4
<1> HIDE DEF heard
<1>2. /\ d \in ConnType /\ d.pingSeen
      /\ \A f \in {"status", "source", "leaked", "lastId", "withQuery", "stale", "opened",
                   "revive", "connect", "closed"} : d[f] = c[f]
      /\ d.window = WindowFor(next)
      /\ d.ticker \in {Off, WindowFor(next)}
  <2>1. c.window = WindowFor(window) /\ c.ticker \in {Off, WindowFor(window)}
    BY DEF Sound, Kept
  <2>2. CASE AutoDeadman /\ w # Off /\ w # heard.window
    BY <1>1, <2>2 DEF ConnType, WindowFor
  <2>3. CASE ~ (AutoDeadman /\ w # Off /\ w # heard.window)
    BY <1>1, <2>1, <2>3 DEF WindowFor
  <2>4. QED
    BY <2>2, <2>3
<1>3. n = StartDeadman(d)
  BY DEF Pinged, heard
<1> HIDE DEF d, next
<1>4. /\ n \in ConnType /\ n.window = WindowFor(next) /\ n.ticker = WindowFor(next) /\ n.pingSeen
      /\ \A f \in {"status", "source", "leaked", "lastId", "withQuery", "stale", "opened",
                   "revive", "connect", "closed"} : n[f] = c[f]
  <2>1. CASE d.ticker # Off \/ d.window = Off
    BY <1>2, <1>3, <2>1 DEF StartDeadman
  <2>2. CASE d.ticker = Off /\ d.window # Off
    <3>1. n = [d EXCEPT !.ticker = d.window]
      BY <1>2, <1>3, <2>2 DEF StartDeadman
    <3>2. QED
      BY <1>2, <3>1 DEF ConnType
  <2>3. QED
    BY <2>1, <2>2
<1> HIDE DEF n
<1>5. Kept(n, next) /\ Moves(n) /\ Carries(n)
  BY <1>4 DEF Sound, Kept, Moves, Carries, Last
<1>6. QED
  BY <1>4, <1>5 DEF Sound, n, next

-----------------------------------------------------------------------------
(* The steps *)

\* A source that is not closed is that of an open connection without a revival.
LEMMA Running ==
  ASSUME NEW c, NEW window, Sound(c, window), c.source.rs # "closed"
  PROVE  ~c.closed /\ ~c.revive
  BY DEF Sound, Kept, ConnType, SourceType, Gone, Moves

LEMMA InitSound == Init => IInv
<1> SUFFICES ASSUME Init PROVE IInv
  OBVIOUS
<1>1. PICK ok \in Constructs : conn = Open(Fresh, ok)
  BY DEF Init
<1>2. Kept(Fresh, Off)
  BY Ages DEF Kept, Fresh, NoSource, ConnType, SourceType, Cursor, WindowFor
<1>3. Fresh.source.rs = "closed" /\ ~Fresh.closed /\ ~Fresh.revive /\ ~Fresh.connect
  BY DEF Fresh, NoSource
<1>4. ok \in BOOLEAN
  BY DEF Constructs
<1>5. Sound(conn, Off)
  BY <1>1, <1>2, <1>3, <1>4, OpenSound
<1>6. QED
  BY <1>5 DEF Init, IInv

LEMMA SourceOpensSound == ASSUME IInv, SourceOpens PROVE Sound(conn', announced')
<1> DEFINE s == [conn.source EXCEPT !.rs = "open", !.fresh = TRUE]
           n == conn'
<1>1. /\ Kept(conn, announced) /\ Moves(conn) /\ Carries(conn)
      /\ ~conn.closed /\ ~conn.revive /\ conn.source.rs = "connecting"
  BY Running DEF SourceOpens, Is, IInv, Sound
<1>2. /\ s \in SourceType /\ s.rs = "open" /\ s.query = conn.source.query
      /\ s.id = conn.source.id /\ s.skipped = conn.source.skipped
  BY <1>1 DEF Kept, ConnType, SourceType
<1>3. n = Opened([conn EXCEPT !.source = s]) /\ announced' = Off
  BY <1>1 DEF SourceOpens, Kept, ConnType, SourceType
<1> HIDE DEF s, n
<1>4. /\ n \in ConnType /\ n.source = s /\ n.status = "live" /\ n.opened /\ ~n.pingSeen
      /\ n.ticker = Off /\ ~n.connect
      /\ n.window = (IF AutoDeadman THEN DefaultWindow ELSE conn.window)
      /\ \A f \in {"leaked", "lastId", "withQuery", "stale", "revive", "closed"} : n[f] = conn[f]
  <2> DEFINE known == IF conn.opened THEN conn.lastId # NoCursor ELSE conn.withQuery
             window == IF AutoDeadman THEN DefaultWindow ELSE conn.window
  <2>1. /\ conn \in ConnType /\ 0 \in 0..MaxAge /\ known \in BOOLEAN
        /\ window \in (Windows \ {Off}) \cup {DefaultWindow}
    BY <1>1, Ages DEF Kept, ConnType
  <2>2. n = [status |-> "live", source |-> s, leaked |-> conn.leaked,
             lastId |-> conn.lastId, withQuery |-> conn.withQuery,
             stale |-> conn.stale, opened |-> TRUE, resumed |-> known,
             pingSeen |-> FALSE, window |-> window, ticker |-> Off, due |-> conn.due,
             idle |-> 0, live |-> 0, revive |-> conn.revive, connect |-> FALSE,
             closed |-> conn.closed]
    BY <1>3, <2>1 DEF Opened, ConnType
  <2> HIDE DEF known, window
  <2>3. QED
    BY <1>2, <2>1, <2>2 DEF ConnType, window
<1>5. n.window = WindowFor(Off)
  BY <1>1, <1>4 DEF Kept, WindowFor
<1>6. Kept(n, Off) /\ Moves(n) /\ Carries(n)
  BY <1>1, <1>2, <1>4, <1>5 DEF Kept, Moves, Carries, Last, Requested
<1>7. QED
  BY <1>1, <1>3, <1>4, <1>6 DEF Sound, n

\* A frame of any kind changes what the source read and the last cursor, and
\* leaves the rest of what the invariant is about.
LEMMA ReadsSound ==
  ASSUME NEW c, NEW window, Sound(c, window), ~c.closed, c.source.rs = "open",
         NEW n \in ConnType, n.source.rs = "open", n.source.query = c.source.query,
         n.source.skipped => n.source.id # NoCursor,
         \A f \in {"status", "leaked", "withQuery", "opened", "pingSeen", "window",
                   "ticker", "revive", "connect", "closed"} : n[f] = c[f],
         Resume /\ ~n.stale => Requested(n.source) = Last(n)
  PROVE  Sound(n, window)
<1>1. Kept(c, window) /\ Moves(c)
  BY DEF Sound
<1>2. c.opened
  BY <1>1 DEF Moves
<1>3. Kept(n, window) /\ Moves(n) /\ Carries(n)
  BY <1>1, <1>2 DEF Kept, Moves, Carries
<1>4. QED
  BY <1>3 DEF Sound

LEMMA EventSound ==
  ASSUME IInv, NEW id \in Ids \cup {NoCursor}, NEW heard \in BOOLEAN, Event(id, heard)
  PROVE  Sound(conn', announced')
<1> DEFINE new == IF id = NoCursor THEN conn.source.id ELSE id
           skips == ~heard /\ (conn.source.skipped \/ id # NoCursor)
           last == IF heard /\ new # NoCursor THEN new ELSE conn.lastId
           s == [conn.source EXCEPT !.fresh = FALSE, !.id = new, !.skipped = skips]
           d == [conn EXCEPT !.source = s]
           n == conn'
<1>1. /\ Sound(conn, announced) /\ conn \in ConnType /\ Carries(conn)
      /\ conn.source.rs = "open" /\ ~conn.closed /\ announced' = announced
      /\ conn.source.skipped => conn.source.id # NoCursor
  BY Running DEF Event, Hears, Is, IInv, Sound, Kept
<1>2. /\ s \in SourceType /\ s.rs = "open" /\ s.query = conn.source.query /\ s.id = new
      /\ s.skipped = skips /\ last \in Cursor
  <2>1. conn.source \in SourceType /\ conn.lastId \in Cursor
    BY <1>1 DEF ConnType
  <2>2. new \in Cursor /\ skips \in BOOLEAN
    BY <2>1 DEF SourceType, Cursor
  <2>3. last \in Cursor
    BY <2>1, <2>2
  <2> HIDE DEF new, skips, last
  <2>4. QED
    BY <1>1, <2>1, <2>2, <2>3 DEF SourceType
<1>3. n = IF heard THEN Delivered(d) ELSE d
  BY <1>1 DEF Event, ConnType, SourceType
<1> HIDE DEF s, n
<1>4. /\ d \in ConnType /\ d.source = s
      /\ \A f \in {"status", "leaked", "lastId", "withQuery", "opened", "stale", "pingSeen",
                   "window", "ticker", "revive", "connect", "closed"} : d[f] = conn[f]
  BY <1>1, <1>2 DEF ConnType
<1> HIDE DEF d
<1>5. /\ n \in ConnType /\ n.source = s /\ n.lastId = last
      /\ \A f \in {"status", "leaked", "withQuery", "opened", "stale", "pingSeen", "window",
                   "ticker", "revive", "connect", "closed"} : n[f] = conn[f]
  <2>1. CASE heard
    <3> DEFINE e == [d EXCEPT !.idle = 0, !.lastId = last]
    <3>1. last = IF d.source.id = NoCursor THEN d.lastId ELSE d.source.id
      BY <1>2, <1>4, <2>1
    <3>2. d \in ConnType /\ 0 \in 0..MaxAge /\ last \in Cursor
      BY <1>2, <1>4, Ages
    <3> HIDE DEF last
    <3>3. n = e
      BY <1>3, <2>1, <3>1 DEF Delivered
    <3>4. e \in ConnType
      BY <3>2 DEF ConnType
    <3>5. /\ e.source = d.source /\ e.lastId = last
          /\ \A f \in {"status", "leaked", "withQuery", "opened", "stale", "pingSeen",
                       "window", "ticker", "revive", "connect", "closed"} : e[f] = d[f]
      BY <3>2 DEF ConnType
    <3> HIDE DEF e
    <3>6. QED
      BY <1>4, <3>3, <3>4, <3>5
  <2>2. CASE ~heard
    BY <1>3, <1>4, <2>2
  <2>3. QED
    BY <2>1, <2>2
<1>6. Requested(conn.source) = Last(conn) => Requested(s) = IF skips THEN new ELSE last
  BY <1>1, <1>2 DEF Last, Requested
<1>7. skips => new # NoCursor
  BY <1>1
<1> HIDE DEF new, last, skips
<1>8. /\ Resume /\ ~n.stale => Requested(n.source) = Last(n)
      /\ n.source.skipped => n.source.id # NoCursor
  BY <1>1, <1>2, <1>5, <1>6, <1>7 DEF Carries, Last
<1>9. QED
  BY <1>1, <1>2, <1>5, <1>8, ReadsSound DEF n

LEMMA ResyncSound == ASSUME IInv, Resync PROVE Sound(conn', announced')
<1> DEFINE s == [conn.source EXCEPT !.fresh = FALSE, !.id = NoCursor, !.skipped = FALSE]
           d == [conn EXCEPT !.source = s]
           n == [d EXCEPT !.idle = 0, !.lastId = NoCursor, !.stale = @ \/ d.withQuery]
<1>1. /\ Sound(conn, announced) /\ conn \in ConnType /\ Kept(conn, announced)
      /\ conn.source.rs = "open" /\ ~conn.closed /\ announced' = announced
  BY Running DEF Resync, Hears, Is, IInv, Sound, Kept
<1>2. s \in SourceType /\ s.rs = "open" /\ s.query = conn.source.query /\ s.id = NoCursor
      /\ ~s.skipped
  BY <1>1 DEF ConnType, SourceType, Cursor
<1> HIDE DEF s
<1>3. /\ d \in ConnType /\ d.source = s
      /\ \A f \in {"status", "leaked", "lastId", "withQuery", "opened", "stale", "pingSeen",
                   "window", "ticker", "revive", "connect", "closed"} : d[f] = conn[f]
  BY <1>1, <1>2 DEF ConnType
<1>4. conn' = n
  BY <1>1 DEF Resync, Resynced, ConnType, SourceType, s
<1> HIDE DEF d
<1>5. /\ n \in ConnType /\ n.source = s /\ n.lastId = NoCursor
      /\ n.stale <=> d.stale \/ d.withQuery
      /\ \A f \in {"status", "leaked", "withQuery", "opened", "pingSeen", "window",
                   "ticker", "revive", "connect", "closed"} : n[f] = conn[f]
  <2> DEFINE stale == d.stale \/ d.withQuery
             m == [d EXCEPT !.idle = 0, !.lastId = NoCursor, !.stale = stale]
  <2>1. /\ d \in ConnType /\ 0 \in 0..MaxAge /\ NoCursor \in Cursor
        /\ stale \in BOOLEAN /\ n = m
    BY <1>2, <1>3, Ages DEF ConnType, Cursor
  <2> HIDE DEF n, stale
  <2>2. m \in ConnType
    BY <2>1 DEF ConnType
  <2>3. /\ m.source = d.source /\ m.lastId = NoCursor /\ m.stale = stale
        /\ \A f \in {"status", "leaked", "withQuery", "opened", "pingSeen", "window",
                     "ticker", "revive", "connect", "closed"} : m[f] = d[f]
    BY <2>1 DEF ConnType
  <2>4. QED
    BY <1>3, <2>1, <2>2, <2>3 DEF stale
<1> HIDE DEF n
<1>6. ~n.stale => Requested(n.source) = Last(n)
  BY <1>1, <1>2, <1>3, <1>5 DEF Kept, Last, Requested
<1>7. QED
  BY <1>1, <1>2, <1>4, <1>5, <1>6, ReadsSound

LEMMA HalfOpensSound == ASSUME IInv, HalfOpens PROVE Sound(conn', announced')
<1> DEFINE s == [conn.source EXCEPT !.silent = TRUE]
           n == [conn EXCEPT !.source = s]
<1>1. /\ Sound(conn, announced) /\ conn \in ConnType /\ Carries(conn)
      /\ conn.source.rs = "open" /\ ~conn.closed /\ announced' = announced
      /\ conn.source.skipped => conn.source.id # NoCursor
  BY Running DEF HalfOpens, Hears, Is, IInv, Sound, Kept
<1>2. /\ s \in SourceType /\ s.rs = "open" /\ s.query = conn.source.query
      /\ s.id = conn.source.id /\ s.skipped = conn.source.skipped
  BY <1>1 DEF ConnType, SourceType
<1>3. conn' = n
  BY <1>1 DEF HalfOpens, ConnType, SourceType
<1> HIDE DEF s
<1>4. /\ n \in ConnType /\ n.source = s
      /\ \A f \in {"status", "leaked", "lastId", "withQuery", "opened", "stale", "pingSeen",
                   "window", "ticker", "revive", "connect", "closed"} : n[f] = conn[f]
  BY <1>1, <1>2 DEF ConnType
<1> HIDE DEF n
<1>5. Resume /\ ~n.stale => Requested(n.source) = Last(n)
  BY <1>1, <1>2, <1>4 DEF Carries, Last, Requested
<1>6. QED
  BY <1>1, <1>2, <1>3, <1>4, <1>5, ReadsSound

LEMMA PingSound ==
  ASSUME IInv, NEW w \in Windows, Ping(w)
  PROVE  Sound(conn', announced')
<1>1. /\ Sound(conn, announced) /\ ~conn.closed /\ conn.source.rs = "open"
      /\ announced \in Windows \cup {Off}
  BY Running DEF Ping, Hears, Is, IInv
<1>2. conn' = Pinged(conn, w) /\ announced' = IF w = Off THEN announced ELSE w
  BY DEF Ping
<1>3. QED
  BY <1>1, <1>2, PingedSound

\* A native reconnect, an attempt of it that fails, and the browser's giving up.
LEMMA ErrorsSound ==
  ASSUME IInv, NEW wait \in BOOLEAN, NEW ok \in BOOLEAN,
         SourceDrops(wait, ok) \/ ConnectFails(wait, ok) \/ SourceGivesUp
  PROVE  Sound(conn', announced')
<1>1. /\ Kept(conn, announced) /\ Carries(conn) /\ conn.source.rs \in {"open", "connecting"}
      /\ ~conn.closed /\ ~conn.revive /\ announced' = announced
  BY Running DEF SourceDrops, ConnectFails, SourceGivesUp, Hears, Is, IInv, Sound
<1>2. CASE ConnectFails(wait, ok)
  <2>1. conn' = Errored(conn, wait, ok) /\ conn.source.rs = "connecting"
    BY <1>2 DEF ConnectFails, Is
  <2>2. QED
    BY <1>1, <2>1, ErroredSound DEF Carries
<1>3. ASSUME NEW rs \in {"connecting", "closed"}, NEW w \in BOOLEAN, NEW k \in BOOLEAN,
             conn' = Errored([conn EXCEPT !.source.rs = rs], w, k)
      PROVE  Sound(conn', announced')
  <2> DEFINE d == [conn EXCEPT !.source.rs = rs]
  <2>1. /\ d \in ConnType /\ d.source.rs = rs /\ d.source.id = conn.source.id
        /\ d.source.query = conn.source.query /\ d.source.skipped = conn.source.skipped
        /\ \A f \in {"leaked", "lastId", "withQuery", "opened", "stale", "pingSeen",
                     "window", "ticker", "revive", "closed"} : d[f] = conn[f]
    BY <1>1 DEF Kept, ConnType, SourceType
  <2> HIDE DEF d
  <2>2. Kept(d, announced)
    BY <1>1, <2>1 DEF Kept
  <2>3. Resume /\ ~d.stale => Requested(d.source) = Last(d)
    BY <1>1, <2>1 DEF Carries, Last, Requested
  <2>4. Sound(Errored(d, w, k), announced)
    BY <1>1, <2>1, <2>2, <2>3, ErroredSound
  <2>5. QED
    BY <1>1, <1>3, <2>4 DEF d
<1>4. CASE SourceDrops(wait, ok)
  BY <1>3, <1>4 DEF SourceDrops
<1>5. CASE SourceGivesUp
  BY <1>3, <1>5 DEF SourceGivesUp
<1>6. QED
  BY <1>2, <1>4, <1>5

LEMMA ConnectTimerSound == ASSUME IInv, ConnectTimer PROVE Sound(conn', announced')
<1> DEFINE n == [conn EXCEPT !.connect = FALSE, !.source.rs = "closed",
                             !.status = "retrying", !.revive = TRUE]
<1>1. /\ Kept(conn, announced) /\ Moves(conn) /\ ~conn.closed /\ conn.connect
      /\ conn \in ConnType /\ conn.source.rs = "connecting" /\ announced' = announced
  BY DEF ConnectTimer, IInv, Sound, Gone, Moves, Kept
<1>2. ~conn.revive
  BY <1>1 DEF Moves
<1>3. conn' = n
  BY <1>1, <1>2 DEF ConnectTimer, Is, ScheduleRevive, ConnType
<1>4. /\ n \in ConnType /\ n.source.rs = "closed" /\ n.source.id = conn.source.id
      /\ n.source.query = conn.source.query /\ n.source.skipped = conn.source.skipped
      /\ n.status = "retrying" /\ n.revive /\ ~n.connect
      /\ \A f \in {"leaked", "withQuery", "opened", "pingSeen", "window", "ticker",
                   "closed"} : n[f] = conn[f]
  BY <1>1 DEF ConnType, SourceType
<1> HIDE DEF n
<1>5. Kept(n, announced) /\ Moves(n) /\ Carries(n)
  BY <1>1, <1>4 DEF Kept, Moves, Carries
<1>6. QED
  BY <1>1, <1>3, <1>4, <1>5 DEF Sound

LEMMA ReviveSound ==
  ASSUME IInv, NEW ok \in BOOLEAN, ReviveTimer(ok)
  PROVE  Sound(conn', announced')
<1> DEFINE d == [conn EXCEPT !.revive = FALSE]
<1>1. /\ Kept(conn, announced) /\ Moves(conn) /\ ~conn.closed /\ conn.revive
      /\ conn \in ConnType /\ announced' = announced
  BY DEF ReviveTimer, IInv, Sound, Gone, Kept
<1>2. /\ d \in ConnType /\ ~d.revive
      /\ \A f \in {"source", "leaked", "withQuery", "opened", "pingSeen", "window", "ticker",
                   "connect", "closed"} : d[f] = conn[f]
  <2>1. d \in ConnType
    BY <1>1 DEF ConnType
  <2>2. QED
    BY <1>1, <2>1 DEF ConnType
<1>3. conn' = Open(d, ok)
  BY DEF ReviveTimer
<1> HIDE DEF d
<1>4. Kept(d, announced) /\ d.source.rs = "closed" /\ ~d.connect
  BY <1>1, <1>2 DEF Kept, Moves
<1>5. QED
  BY <1>1, <1>2, <1>3, <1>4, OpenSound

LEMMA DeadmanSound ==
  ASSUME IInv, NEW ok \in BOOLEAN, DeadmanTick(ok)
  PROVE  Sound(conn', announced')
<1>1. /\ Sound(conn, announced) /\ Kept(conn, announced) /\ Moves(conn) /\ Carries(conn)
      /\ ~conn.closed /\ conn \in ConnType /\ announced' = announced
  BY DEF DeadmanTick, IInv, Sound, Kept
<1>2. CASE hidden
  <2> DEFINE n == [conn EXCEPT !.due = TRUE]
  <2>1. conn' = n
    BY <1>2 DEF DeadmanTick
  <2>2. /\ n \in ConnType
        /\ \A f \in {"status", "source", "leaked", "lastId", "withQuery", "opened", "stale",
                     "pingSeen", "window", "ticker", "revive", "connect", "closed"} :
             n[f] = conn[f]
    BY <1>1 DEF ConnType
  <2> HIDE DEF n
  <2>3. QED
    BY <1>1, <2>1, <2>2 DEF Sound, Kept, Moves, Carries, Last
<1>3. CASE ~hidden
  <2> DEFINE d == [conn EXCEPT !.ticker = Off]
  <2>1. conn' = Reopen(d, FALSE, ok)
    BY <1>3 DEF DeadmanTick
  <2>2. /\ d \in ConnType /\ d.ticker = Off
        /\ \A f \in {"status", "source", "leaked", "lastId", "withQuery", "opened", "stale",
                     "pingSeen", "window", "revive", "connect", "closed"} :
             d[f] = conn[f]
    BY <1>1 DEF ConnType
  <2> HIDE DEF d
  <2>3. Kept(d, announced)
    BY <1>1, <2>2 DEF Kept
  <2>4. CASE conn.revive
    <3>1. Reopen(d, FALSE, ok) = d
      BY <2>2, <2>4 DEF Reopen
    <3>2. Sound(d, announced)
      BY <1>1, <2>2, <2>3, <2>4 DEF Sound, Moves, Carries
    <3>3. QED
      BY <1>1, <2>1, <3>1, <3>2
  <2>5. CASE ~conn.revive
    BY <1>1, <2>1, <2>2, <2>3, <2>5, ReopenSound
  <2>6. QED
    BY <2>4, <2>5
<1>4. QED
  BY <1>2, <1>3

LEMMA TickSound == ASSUME IInv, Tick PROVE Sound(conn', announced')
<1> DEFINE n == [conn EXCEPT !.idle = Older(conn.idle), !.live = Older(conn.live)]
<1>1. /\ Sound(conn, announced) /\ conn \in ConnType /\ conn' = n /\ announced' = announced
  BY DEF Tick, IInv, Sound, Kept
<1>2. Older(conn.idle) \in 0..MaxAge /\ Older(conn.live) \in 0..MaxAge \cup {Never}
  BY <1>1, Ages DEF Older, ConnType, Never
<1>3. /\ n \in ConnType
      /\ \A f \in {"status", "source", "leaked", "lastId", "withQuery", "opened", "stale",
                   "pingSeen", "window", "ticker", "revive", "connect", "closed"} :
           n[f] = conn[f]
  BY <1>1, <1>2 DEF ConnType
<1> HIDE DEF n
<1>4. QED
  BY <1>1, <1>3 DEF Sound, Kept, Moves, Gone, Carries, Last

LEMMA CloseSound == ASSUME IInv, Close PROVE Sound(conn', announced')
<1> DEFINE n == Closed(conn)
<1>1. /\ Kept(conn, announced) /\ conn \in ConnType /\ conn' = n /\ announced' = announced
  BY DEF Close, IInv, Sound, Kept
<1>2. /\ n \in ConnType /\ n.closed /\ n.source.rs = "closed" /\ ~n.revive /\ ~n.connect
      /\ n.ticker = Off /\ n.source.id = conn.source.id /\ n.source.query = conn.source.query
      /\ n.source.skipped = conn.source.skipped
      /\ \A f \in {"leaked", "withQuery", "opened", "window"} : n[f] = conn[f]
  BY <1>1 DEF Closed, ConnType, SourceType
<1> HIDE DEF n
<1>3. QED
  BY <1>1, <1>2 DEF Sound, Kept, Gone, Carries

LEMMA NextSound == IInv /\ [Next]_vars => IInv'
<1> SUFFICES ASSUME IInv, [Next]_vars PROVE IInv'
  OBVIOUS
<1>1. Constructs \subseteq BOOLEAN
  BY DEF Constructs
<1>2. CASE UNCHANGED vars
  BY <1>2 DEF vars, IInv
<1>3. CASE Hide
  BY <1>3 DEF Hide, IInv
<1>4. ASSUME NEW ok \in Constructs, Show(ok) PROVE IInv'
  <2>1. conn' = Nudged(conn, TRUE, ok) /\ announced' = announced /\ hidden' = FALSE
    BY <1>4 DEF Show
  <2>2. Sound(Nudged(conn, TRUE, ok), announced)
    BY <1>1, NudgedSound DEF IInv
  <2>3. QED
    BY <2>1, <2>2 DEF IInv
<1>5. ASSUME Sound(conn', announced'), hidden' = hidden,
             announced' \in Windows \cup {Off}
      PROVE  IInv'
  BY <1>5 DEF IInv
<1>6. CASE Close
  BY <1>5, <1>6, CloseSound DEF Close, IInv
<1>7. CASE Tick
  BY <1>5, <1>7, TickSound DEF Tick, IInv
<1>8. CASE HalfOpens
  BY <1>5, <1>8, HalfOpensSound DEF HalfOpens, IInv
<1>9. CASE Resync
  BY <1>5, <1>9, ResyncSound DEF Resync, IInv
<1>10. CASE SourceOpens
  BY <1>5, <1>10, SourceOpensSound DEF SourceOpens, IInv
<1>11. CASE SourceGivesUp
  BY <1>5, <1>11, ErrorsSound DEF SourceGivesUp, IInv
<1>12. CASE ConnectTimer
  BY <1>5, <1>12, ConnectTimerSound DEF ConnectTimer, IInv
<1>13. ASSUME NEW id \in Ids \cup {NoCursor}, NEW heard \in BOOLEAN, Event(id, heard)
       PROVE  IInv'
  BY <1>5, <1>13, EventSound DEF Event, IInv
<1>14. ASSUME NEW w \in Windows, Ping(w) PROVE IInv'
  BY <1>5, <1>14, PingSound DEF Ping, IInv
<1>15. ASSUME NEW ok \in Constructs, ReviveTimer(ok) PROVE IInv'
  BY <1>1, <1>5, <1>15, ReviveSound DEF ReviveTimer, IInv
<1>16. ASSUME NEW ok \in Constructs, DeadmanTick(ok) PROVE IInv'
  BY <1>1, <1>5, <1>16, DeadmanSound DEF DeadmanTick, IInv
<1>17. ASSUME NEW ok \in Constructs, Nudge(ok) PROVE IInv'
  <2>1. conn' = Nudged(conn, ~hidden, ok) /\ UNCHANGED <<hidden, announced>>
    BY <1>17 DEF Nudge
  <2>2. (~hidden) \in BOOLEAN
    BY DEF IInv
  <2>3. Sound(Nudged(conn, ~hidden, ok), announced)
    BY <1>1, <2>2, NudgedSound DEF IInv
  <2>4. QED
    BY <2>1, <2>3 DEF IInv
<1>18. ASSUME NEW ok \in Constructs, NEW wait \in BOOLEAN,
              SourceDrops(wait, ok) \/ ConnectFails(wait, ok)
       PROVE  IInv'
  BY <1>1, <1>5, <1>18, ErrorsSound DEF SourceDrops, ConnectFails, IInv
<1>19. QED
  BY <1>2, <1>3, <1>4, <1>6, <1>7, <1>8, <1>9, <1>10, <1>11, <1>12, <1>13, <1>14, <1>15,
     <1>16, <1>17, <1>18 DEF Next

\* The machine's functions never open a source: the browser does.
LEMMA OpensNothing ==
  ASSUME NEW c \in ConnType, c.source.rs # "open", NEW ok \in BOOLEAN
  PROVE  Open(c, ok).source.rs # "open"
<1>1. CASE ok
  BY <1>1 DEF Open, ConnType, SourceType
<1>2. CASE ~ok
  BY <1>2 DEF Open, ScheduleRevive, ConnType, SourceType
<1>3. QED
  BY <1>1, <1>2

LEMMA ReopensNothing ==
  ASSUME NEW c \in ConnType, c.source.rs # "open", NEW wait \in BOOLEAN, NEW ok \in BOOLEAN
  PROVE  Reopen(c, wait, ok).source.rs # "open"
<1> DEFINE d == [c EXCEPT !.connect = FALSE, !.source.rs = "closed", !.status = "retrying"]
<1>1. d \in ConnType /\ d.source.rs = "closed"
  BY DEF ConnType, SourceType
<1>2. Reopen(c, wait, ok) \in {c, [d EXCEPT !.revive = TRUE], Open(d, ok)}
  BY DEF Reopen
<1> HIDE DEF d
<1>3. [d EXCEPT !.revive = TRUE].source = d.source
  BY <1>1 DEF ConnType
<1>4. QED
  BY <1>1, <1>2, <1>3, OpensNothing

LEMMA ErrorOpensNothing ==
  ASSUME NEW c \in ConnType, c.source.rs # "open", NEW wait \in BOOLEAN, NEW ok \in BOOLEAN
  PROVE  Errored(c, wait, ok).source.rs # "open"
<1> DEFINE d == [c EXCEPT !.status = "retrying"]
           e == [d EXCEPT !.connect = FALSE, !.ticker = Off]
<1>1. d \in ConnType /\ d.source = c.source
  BY DEF ConnType
<1>2. Errored(c, wait, ok) \in {d, ScheduleRevive(e), Reopen(d, FALSE, ok),
                               Reopen(d, wait, ok), [d EXCEPT !.connect = TRUE]}
  BY DEF Errored
<1> HIDE DEF d
<1>3. ScheduleRevive(e).source = d.source /\ [d EXCEPT !.connect = TRUE].source = d.source
  BY <1>1 DEF ScheduleRevive, ConnType
<1> HIDE DEF e
<1>4. QED
  BY <1>1, <1>2, <1>3, ReopensNothing

LEMMA NudgeOpensNothing ==
  ASSUME NEW c \in ConnType, c.source.rs # "open", NEW visible \in BOOLEAN, NEW ok \in BOOLEAN
  PROVE  Nudged(c, visible, ok).source.rs # "open"
<1> DEFINE d == [c EXCEPT !.due = FALSE, !.ticker = Off]
           e == [c EXCEPT !.revive = FALSE, !.source.rs = "closed"]
<1>1. d \in ConnType /\ d.source = c.source
  BY DEF ConnType
<1>2. e \in ConnType /\ e.source.rs = "closed"
  <2>1. /\ c.source \in SourceType /\ [c.source EXCEPT !.rs = "closed"] \in SourceType
        /\ [c.source EXCEPT !.rs = "closed"].rs = "closed"
    BY DEF ConnType, SourceType
  <2>2. QED
    BY <2>1 DEF ConnType
<1>3. Nudged(c, visible, ok) \in {c, Reopen(d, FALSE, ok), Open(e, ok)}
  BY DEF Nudged
<1> HIDE DEF d, e
<1>4. QED
  BY <1>1, <1>2, <1>3, OpensNothing, ReopensNothing

LEMMA OnlyTheSourceOpens ==
  ASSUME IInv, [Next]_vars, Is("connecting"), conn'.source.rs = "open"
  PROVE  SourceOpens
<1>1. /\ Constructs \subseteq BOOLEAN /\ conn \in ConnType
      /\ conn.source.rs = "connecting" /\ hidden \in BOOLEAN
  BY DEF Constructs, IInv, Sound, Kept, Is
<1>2. ~ UNCHANGED vars /\ ~ Hide
  BY <1>1 DEF vars, Hide
<1>3. ~ Close /\ ~ Tick
  <2>1. Closed(conn).source.rs = "closed"
    BY <1>1 DEF Closed, ConnType, SourceType
  <2>2. [conn EXCEPT !.idle = Older(@), !.live = Older(@)].source = conn.source
    BY <1>1 DEF ConnType
  <2>3. QED
    BY <1>1, <2>1, <2>2 DEF Close, Tick
<1>4. ~ HalfOpens /\ ~ Resync /\ (\A id, heard : ~ Event(id, heard)) /\ (\A w : ~ Ping(w))
  BY <1>1 DEF HalfOpens, Resync, Event, Ping, Hears, Is
<1>5. ~ ConnectTimer
  <2> DEFINE d == [conn EXCEPT !.connect = FALSE]
             e == [d EXCEPT !.source.rs = "closed", !.status = "retrying"]
  <2>1. ConnectTimer => conn' \in {d, ScheduleRevive(e)}
    BY DEF ConnectTimer
  <2>2. d \in ConnType /\ d.source = conn.source
    BY <1>1 DEF ConnType
  <2> HIDE DEF d
  <2>3. e \in ConnType /\ e.source.rs = "closed"
    BY <2>2 DEF ConnType, SourceType
  <2> HIDE DEF e
  <2>4. ScheduleRevive(e).source = e.source
    BY <2>3 DEF ScheduleRevive, ConnType
  <2>5. QED
    BY <1>1, <2>1, <2>2, <2>3, <2>4
<1>6. \A ok \in BOOLEAN : ~ ReviveTimer(ok)
  <2>1. [conn EXCEPT !.revive = FALSE] \in ConnType
        /\ [conn EXCEPT !.revive = FALSE].source = conn.source
    BY <1>1 DEF ConnType
  <2>2. QED
    BY <1>1, <2>1, OpensNothing DEF ReviveTimer
<1>7. \A ok \in BOOLEAN : ~ DeadmanTick(ok)
  <2> DEFINE d == [conn EXCEPT !.ticker = Off]
             e == [conn EXCEPT !.due = TRUE]
  <2>1. d \in ConnType /\ d.source = conn.source /\ e.source = conn.source
    BY <1>1 DEF ConnType
  <2>2. \A ok : DeadmanTick(ok) => conn' \in {e, Reopen(d, FALSE, ok)}
    BY DEF DeadmanTick
  <2> HIDE DEF d, e
  <2>3. QED
    BY <1>1, <2>1, <2>2, ReopensNothing
<1>8. \A ok \in BOOLEAN : ~ Nudge(ok) /\ ~ Show(ok)
  <2>1. (~hidden) \in BOOLEAN
    BY <1>1
  <2>2. QED
    BY <1>1, <2>1, NudgeOpensNothing DEF Nudge, Show
<1>9. ~ SourceGivesUp
  <2>1. [conn EXCEPT !.source.rs = "closed"] \in ConnType
        /\ [conn EXCEPT !.source.rs = "closed"].source.rs = "closed"
    BY <1>1 DEF ConnType, SourceType
  <2>2. QED
    BY <1>1, <2>1, ErrorOpensNothing DEF SourceGivesUp
<1>10. \A ok, wait \in BOOLEAN : ~ SourceDrops(wait, ok) /\ ~ ConnectFails(wait, ok)
  BY <1>1, ErrorOpensNothing DEF SourceDrops, ConnectFails, Hears, Is
<1>11. QED
  BY <1>1, <1>2, <1>3, <1>4, <1>5, <1>6, <1>7, <1>8, <1>9, <1>10 DEF Next

-----------------------------------------------------------------------------
(* What the invariant gives *)

\* The machine's record satisfies the invariant in every state of every run
\* (connection.ts, openConnection).
THEOREM BrowserInvariant == Spec => []IInv
<1>1. QED
  BY InitSound, NextSound, PTL DEF Spec

\* The machine and its source keep their shapes, and the dead-man's window is
\* the default or one that a ping announced (connection.ts:336-346).
THEOREM BrowserTypes == Spec => []TypeOK
<1>1. IInv => TypeOK
  <2> SUFFICES ASSUME IInv PROVE TypeOK
    OBVIOUS
  <2>1. conn \in ConnType /\ hidden \in BOOLEAN /\ announced \in Windows \cup {Off}
    BY DEF IInv, Sound, Kept
  <2>2. QED
    BY <2>1 DEF TypeOK, ConnType, SourceType
<1>2. QED
  BY <1>1, BrowserInvariant, PTL

\* Something always moves an open connection on: the revival timer exactly when
\* its source gave up, the connect cap exactly while it connects
\* (connection.ts:5-13).
THEOREM ConnectionNeverStuck == Spec => []NeverStuck
<1>1. IInv => NeverStuck
  BY DEF IInv, Sound, Kept, ConnType, SourceType, Moves, NeverStuck, Is
<1>2. QED
  BY <1>1, BrowserInvariant, PTL

\* The status that subscribers read is the transport's (connection.ts:29).
THEOREM ConnectionStatusTells == Spec => []StatusTells
<1>1. IInv => StatusTells
  BY DEF IInv, Sound, Moves, StatusTells, Is
<1>2. QED
  BY <1>1, BrowserInvariant, PTL

\* The dead-man runs only on what this connection's pings showed, at the window
\* they announced last (connection.ts:348).
THEOREM DeadmanIsTheConnections == Spec => []DeadmanBelongs
<1>1. InForce = WindowFor(announced)
  BY DEF InForce, WindowFor
<1>2. IInv => DeadmanBelongs
  BY <1>1 DEF IInv, Sound, Kept, DeadmanBelongs, Is
<1>3. QED
  BY <1>2, BrowserInvariant, PTL

\* No source is replaced while it still runs, so a page never holds two streams
\* to one URL (connection.ts, open and reopen).
THEOREM OneSourceAtATime == Spec => []OneSource
<1>1. IInv => OneSource
  BY DEF IInv, Sound, Kept, OneSource
<1>2. QED
  BY <1>1, BrowserInvariant, PTL

\* With the resume query every request, the browser's own included, names the
\* last event that the subscribers were given or, when the browser has read one
\* since, a later frame that nobody listens to, and never a cursor the server
\* rejected (connection.ts:231-248 and 310-314).
THEOREM RequestsResume == ASSUME Resume PROVE Spec => []RequestNamesTheLast
<1>1. IInv => RequestNamesTheLast
  BY DEF IInv, Sound, Carries, Last, RequestNamesTheLast, Is
<1>2. QED
  BY <1>1, BrowserInvariant, PTL

\* With the resume query, onReconnect's "resumed" tells whether the request that
\* opened carried a cursor, a native reconnect's header as well as the machine's
\* query, and the subscribers had been given an event with one
\* (connection.ts:85-89 and 347).
THEOREM ResumedIsTold == ASSUME Resume PROVE Spec => ResumedTells
<1> DEFINE tells == conn'.resumed <=> Carried /\ conn.lastId # NoCursor
<1>1. ASSUME IInv, SourceOpens PROVE tells
  <2>1. conn'.resumed = IF conn.opened THEN conn.lastId # NoCursor ELSE conn.withQuery
    BY <1>1 DEF SourceOpens, Opened, IInv, Sound, Kept, ConnType, SourceType
  <2>2. Requested(conn.source) = Last(conn)
    BY <1>1 DEF SourceOpens, Is, IInv, Sound, Carries
  <2>3. conn.source.skipped => Carried
    BY <1>1 DEF IInv, Sound, Kept, Carried, Requested
  <2>4. ~conn.opened => ~conn.source.skipped /\ (conn.withQuery <=> Carried)
    BY <1>1 DEF IInv, Sound, Kept, Carried, Requested
  <2>5. QED
    BY <2>1, <2>2, <2>3, <2>4 DEF Last, Carried
<1>2. ASSUME IInv, [Next]_vars, Reopens PROVE SourceOpens
  BY <1>2, OnlyTheSourceOpens DEF Reopens
<1>3. QED
  BY <1>1, <1>2, BrowserInvariant, PTL DEF Spec, ResumedTells
=============================================================================
