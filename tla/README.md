# solder-sse in TLA+

solder-sse is a profile of Server-Sent Events with resume: a server that keeps
a replay log, clients in the browser and in Rust that reconnect by themselves,
and the promise that a reconnect continues exactly where the last connection
stopped, or says (`resync`) that it cannot. The modules here model the code
that has to keep this promise, TLC checks them on small instances, and TLAPS
proves their safety for every value of the constants.

Paths are relative to the repository; `log.rs`, `stream.rs`, `response.rs` and
`resume.rs` are under `rust/server/solder-sse-server/src`, the testkit is
`rust/server/solder-sse-testkit/src/lib.rs`, the Rust client
`rust/client/solder-sse-client/src/lib.rs`, the wire core
`rust/core/solder-sse/src`, and `connection.ts`, `registry.ts`, `link.ts` are
under `js/client/solder-sse/src`.

## 1. Inventory

| Component | State it keeps | Operations | Where it is hard |
|---|---|---|---|
| `EventLog` trait, `MemoryLog` (log.rs) | rings per topic, `last_seq`, `gap_floor`, `trimmed_to`, behind a mutex | `append`, `since`, `mark_gap` | the clock is read before the lock is taken, so stamps run backwards; gap, trim and limit are compared with a cursor at their boundaries |
| `resumable()` and the bridge (stream.rs) | a broadcast receiver, the set of cursors served | subscribe, read the log, replay, go live | what is published between the subscription, the read and the first live event; lag of the receiver; a failing store |
| testkit server | the current log, behind an `RwLock`; the bus | `publish`, `restart`, the handler, chaos endings | publishers under a shared lock, a restart racing a handler |
| `SseBody` and its builder (response.rs) | the head, the deadline, the keep-alive, the stream | `poll_frame` | order of the three sources in a poll, lost wake-ups, rotation of a busy stream |
| resume request (resume.rs, Axum's extractor) | none | which cursor a request names, if it is one | header against query, blanks, what no header may carry, an id that is no cursor |
| connection (connection.ts) | status, source, cursor, three timers, dead-man | source events, timers, nudge, close | two parties reconnect, the browser and the machine; throttled hidden pages; stale queries |
| registry (registry.ts) | entries per URL, subscriptions, counted names, linger, listeners | `subscribe`, unsubscribe, `nudge`, `dispose`, the sink | handlers call back in the middle of a fan-out; a linger of an entry that has a successor |
| link verdict (link.ts) | none (a track is folded by the registry) | `trackStatus`, `linkAt`, `nextDeadline` | one timer must be enough for two windows |
| Rust client | cursor, retry hint, attempts, the reader's dead-man, a channel of 256 | `run`, `read`, `recv`, drop | a chunk of several frames, back-pressure, half-open streams; which failures, hints and floors decide a wait |
| wire core | parser state | parse, encode, jitter, cursors | chunks that end between CR and LF or between an id and its data; payloads and ids that look like fields; ids that outlive their frame |
| JS protocol and env, Solid adapter, profile | none, or one subscription | forwarding, formatting | |

How they interact: a publisher appends to the log and then sends on the bus; a
handler subscribes to the bus, reads the log and returns a stream; the body
polls the stream and writes frames; the client keeps the id of the last frame
and names it in the next request (header or query), which the handler takes to
the log. In the browser, a connection reports to its registry entry through a
sink, and the registry fans out to subscribers, who may call it back.

What makes each correct: the log answers exactly or says that it cannot, and
never says so for nothing; the stream has no silent gap, repeats nothing and
keeps the order; the body swallows nothing, sleeps through nothing and ends in
time, and the keep-alive it announces keeps a client's dead-man quiet; what a
client hears is what was said, however it was written and cut; a connection
always has something that moves it on, one source, and a
request that names the last event given; the registry counts names, keeps an
entry as long as its connection, and tells every subscriber where its stream
is; a verdict changes at its deadline only; the Rust client names the last
frame it handed over, judges silence on the stream and not on its consumer, and
waits as the policy says.
`PROJECT.json` lists every hazard at its line with the properties about it.

## 2. Modules

| Module | Models | State | Actions |
|---|---|---|---|
| `EventLog` | the trait of log.rs, whatever the store: the abstract specification | what was published, gaps, the reply each caller holds | Append, MarkGap, Answer, Forget |
| `LogState` | `struct Inner` and its operations, as operators from a log to a log or a reply | | |
| `MemoryLog` | `LogState` behind the mutex, with any number of callers | log, clock, where each caller is, history | a call is two steps: the clock is read, then the lock is taken |
| `ResumableStream` | publisher to client across cuts: `resumable()`, the testkit's publish, restart and handler, the client's cursor | logs by generation, bus, publishers, handler, wire, client | one per await of the handler and publisher, cuts, rotation, crash, restart |
| `BrowserConnection` | `openConnection` with the browser's EventSource and the page | the machine's record, page visibility | one per handler and timer; the machine's functions are operators from record to record |
| `Link` | link.ts | | |
| `Registry` (extends `Link`) | registry.ts over connections known by what they report | entries, subscriptions, listeners, a stack of turns | API calls, timers, reports, the steps of a fan-out |
| `SseBody` | the builder of response.rs, `poll_frame`, and the task that polls | configuration, body, stream slot, task | one per setter, building, one per return of `poll_frame`, time, readiness |
| `RustClient` | `run` and `read` of the Rust client, its channel and consumer | where the task waits, cursor, reader, channel, transport | from await to await |
| `Wire` | the encoder (protocol.rs) and the parser (parse.rs), as operators on lexemes | | |
| `Resume` (extends `Wire`) | what a cursor is (cursor.rs), which one a request names (resume.rs), what header a client sends | | |
| `Session` (extends `Resume`) | the Rust client over any number of connections: requests, the text it reads in chunks of any size, hints and waits | cursor, policy, parser, text under way | request fails, opens, says, receives, ends, severed, falls silent |
| `LogStateProofs`, `MemoryLogProofs`, `ResumableStreamProofs`, `BrowserProofs`, `RegistryProofs`, `SseBodyProofs`, `RustClientProofs`, `SessionProofs` | theorems about these and their proofs (section 5) | | |

They overlap on purpose: the client of `ResumableStream` is the least one, a
cursor that is kept and presented, so that the whole path from a publisher to
the next request fits one model; `RustClient` has the real task on whole
frames, and `Session` its text and its waits.

`MC...` modules give constants their values for TLC. Operators marked "Mutant"
stand beside the definition they differ from: each is a plausible mistake in
that code, and each property is known to fail under one of them
(`PROJECT.json`, "mutants").

Abstractions worth knowing:

- Payloads, printed cursors and topic names are left out; a cursor is a
  generation and a sequence (`ResumableStream`) or a sequence and whether it
  parses as this log's (`MemoryLog`).
- `limit + 1` wraps above `UsizeMax`, as in a release build.
- `ResumableStream` stops the clock (age belongs to `MemoryLog`); a `Lag` ends
  the response, as stream.rs:16 asks of a handler (the testkit's handler makes
  the error an event and goes on, lib.rs:198). Its clients present cursors only,
  so `Resume::Invalid` (stream.rs:68) does not arise; `Resume` has it.
- `BrowserConnection` keeps ages that saturate rather than a clock, and lets a
  pending timer fire at any moment: a delay is drawn at random between bounds,
  and the backoff exponent only moves the bounds. Of each event frame it chooses
  whether anybody listens to its name, as `listen` and `unlisten` may have come
  at any moment: if nobody does, the browser keeps the id and the machine sees
  nothing (connection.ts:231-248).
- `Registry` measures time from the present: tracks began in the past, timers
  have a time left, and no time passes while a handler runs. A fan-out is a turn
  on a stack, so that a handler can call the registry back, `dispose` included;
  so is the replay inside `subscribe`, whose handlers may do the same
  (`ReplayLink`, `Wake` and `Return` are its steps, and its caller cannot
  unsubscribe before it has returned).
- The connection under an entry of `Registry` is coarse. `Fails(i, "open")` is a
  `reopen()` at once, of a stream that has been live: by the eager policy, for a
  stale query, by the dead-man, or for a nudge that finds the dead-man due, which
  is modelled between turns only. From `retrying` such a reopen reports nothing
  before it opens, and is `Fails(i, "revive")` followed by `Revives`. That a
  closed connection goes no further after its report (connection.ts:284) is in
  `Arm`: it schedules no revival. It opens all the same, as it does when the
  report is that of `reopen()` itself (line 193, the dead-man); after the report
  of line 282 the code would stop, which the model does not tell apart.
- `RustClient` lets a wait end at any moment, and `Session` has how long waits
  are: drawn from a range, for the jitter is uniform. Windows are computed
  modulo `Width`, as in a release build; frames have data.
- `Wire` writes a text as a sequence of lexemes: the breaks, what opens a field,
  a NUL, the byte-order mark, and words. Bytes between two breaks are only
  collected by the parser, so where a word is cut does not matter; a break can
  be cut, and the parser, like the one in parse.rs, has to remember the CR.
- `Session` puts beside each text what an EventSource is to make of it, by hand,
  as the golden vectors of the profile do: events of this server are run through
  its encoder, and texts of other servers are written out. That a text means
  what stands beside it (`SayingsAreMeant`) says how a parser reads it alone,
  whole, and from the two states a parser can be in between two messages; the
  rest, one after another, in chunks, cut, over connections, is what the
  properties are about.

## 3. What TLC checks

Every passing run explores its whole state space.

| Run | Bounds | Shows |
|---|---|---|
| `memory_log` | 2 topics, 2 callers, capacity 2, ttl 0, 3 events, 2 instants, limit 1 | the rings hold exactly the tail above `trimmed_to` (`RingsHoldTheTail`), expiries and trims have causes (`ExpiredHasACause`, `DropsOnlyForCause`), the cursor named with an expiry is usable (`EarliestIsRetained`), and the log implements `EventLog` (`KeepsTheTrait`) |
| `stream` | 1 publisher, log 3, bus 2, replay limit 2, 4 events, 1 lost write, failing reads, 2 cuts, 1 crash, 1 restart, 2 frames in flight | no silent gap, a cursor stands for everything before it, nothing repeated or reordered between snapshots |
| `stream_liveness` | log 2, bus 1, 3 events, 1 lost, 2 cuts, 1 crash | every event comes to the client's knowledge |
| `browser` | 2 ids, windows 1 and 3 around a default of 2 and a ping that announces none, healthy at 1, a constructor that may throw | never stuck, truthful status, the dead-man of this connection, requests that name the last event given or a later frame nobody listens to, one source, `resumed` is told of no request without a cursor; it heals, and half-open streams are caught |
| `registry` | 2 subscriptions, 2 URLs, 1 name, 2 entries, no calls from a fan-out of an entry with a timer left behind, grace 1, offline 2, calls from inside handlers, those of a replay too | names counted, an entry mapped exactly until it is closed, subscribers told the status and, but for a replay overtaken by a verdict (section 6), the verdict, verdicts up to date, the reconnect edge told, who left is silent |
| `sse_body` | setters in any order, a head of up to 2 frames; intervals none, 1, 3 with a second of 2; ages none, 0, 2, 10, lifetimes 1 to 4 and an empty range | the head goes whole, events are not swallowed, no wake-up is lost, pings come in silence only and before a client's dead-man; a response rotates and stays audible |
| `rust_client` | channel of 2, chunks of up to 2 frames, window 1 or an announced 2 | the next request names the last frame handed over, no false alarm of the dead-man; it comes back, and half-open streams are caught |
| `session` | 8 sayings, 2 of them a connection, every cut into chunks, 3 ways to write breaks, with and without a byte-order mark; 3 failures in a row, 2 configurations; cursors of up to 2 lexemes | what is heard is what was said, the request names the id in force, the waits are the policy's |

Four runs end in a violation, each a disagreement between the code and what
the repository says of it ("findings" in `PROJECT.json`):

- `stream_gap`: two publishers hold the lock shared, append in one order and
  send in the other; a client that is cut after the later cursor resumes past
  an event it never read. This is why `stream`, and the theorems about it, have
  one publisher.
- `browser_nudge_live`: a dead-man verdict deferred while the page was hidden
  survives the frames that refute it, and the next nudge replaces a live stream.
- `browser_resume_off`: with `resume: false` a browser's reconnect without a
  cursor is reported as resumed. This is why `browser`, and two of the theorems
  about it, have `Resume = TRUE`.
- `registry_dispose`: `dispose` from inside `onStatus` during a reopen; the
  source that is opened afterwards belongs to nobody. Entries with such a source
  (`loose`) are among the states of `registry` too: `OpenIsMapped` ties the map to
  the connections that are not closed, and promises nothing of these sources.

Why the bounds are enough to be interesting: capacity 2 with 3 events trims,
ttl 0 with 2 instants expires, two callers are what it takes to invert stamps;
a bus of 1 or 2 with 3 or 4 events lags, a log of 3 with a replay limit of 2 is
cut by the limit and by capacity, and two cuts allow a cut of a connection that
itself resumed. Windows on both sides of the default make the dead-man change
in both directions. Two subscriptions on one URL share an entry and its names,
on two URLs they share the listeners, and a second entry is the successor that
a stale linger must not evict; the names are counted one by one, so one that
both want will do. A nested judgement leaves a timer behind (`strays`, section
6); until it fires the handlers of that entry call nothing, which keeps the run
small: one such timer already overwrites and outlives a deadline. A channel of
2 fills while a chunk of 2 is handed over. An interval of one and a half
seconds is announced as one, one below a second as the default, and an age of
10 has a tenth that can be drawn. Two sayings on a connection put every kind of
saying before and after every other, so an id, a retry or a resync of the first
decides what the second means, and the connections after it carry what was kept
of both.

`MaxSeq`, `MaxClock`, `MaxEvents`, `MaxLost`, `MaxCuts`, `MaxCrashes`,
`MaxRestarts`, `MaxWire`, `MaxEntries`, `MaxStrays`, `MaxChunk`, `MaxHead`,
`MaxSaid` and `MaxAttempts` are the bounds on what the code leaves open;
`MaxLen` is the code's own 128.

Deadlock is checked in `memory_log`, the browser runs, the registry runs,
`sse_body` and `session`. `stream` and its variants stop when all events have
been read, and a dropped `RustClient` stops: they say `CHECK_DEADLOCK FALSE`.

## 4. Fairness

- `ResumableStream`: tasks that can run do run. A publisher finishes its
  publish, the runtime polls a handler that is woken, the client reads and
  reopens (its backoff is bounded). Nothing makes an event happen, and cuts and
  crashes are bounded, not fair.
- `BrowserConnection`: timers that are pending fire, time passes, a hidden page
  is looked at again, and a server that is asked again and again opens the
  stream at last (strong fairness: attempts may fail any number of times).
- `SseBody`: time passes, and the executor polls a task that was woken; a parked
  task is polled by nobody, so that a lost wake-up would show.
- `RustClient`: the task runs, its timers fire, the consumer takes what there is
  (a consumer that stops blocks the reader, and nothing is promised), and the
  server answers at last.

No fairness is asked of servers that send, of subscribers or of faults.

## 5. What is proved

Each proof module states its inductive invariant as `IInv` (or says otherwise),
shows that the initial states have it and that every action keeps it, one lemma
or step for each action, and concludes.

**The log** (`LogStateProofs`, `MemoryLogProofs`), for any topics, callers and
bounds, from `LogAssumption` (capacity, ttl and the greatest usize are
naturals):

- `InvariantHolds`: `IInv == TypeOK /\ RingsHoldTheTail /\ HistoryMatches` is
  inductive. No part is inductive alone: that trimming keeps a ring exact needs
  sequences issued once and on one topic, which the history gives, and that
  history is about the log needs the shapes. What `trim_to` pops is a prefix and
  `trimmed_to` its last sequence (`TrimHolds`), a push extends the tail
  (`PushHolds`). `TypeCorrect`, `RingsAreExact` and `HistoriesMatch` follow.
- `LogKeepsTheTrait`: the initial states of `MemoryLog` are initial states of
  `EventLog`, and each step maps to a step or a stutter. Its core is
  `ReplyIsExact`: whatever the instant a caller read before the lock, a reply of
  events is everything after the cursor on the topic. Its only extra assumption
  is that no caller asks for a limit of `UsizeMax` (section 6).
- `ExpiryHasACause`, `EarliestIsHeld`, `DropsHaveACause`: what a step may do, for
  any limit. A reply is given in one step, from the log that the lock protects
  (`AnswersLocked`), so the first two are facts about one trimmed ring: it holds
  no more than was published after the cursor (`NoMoreThanFollowed`), and the
  first entry past a bound is the least event past it (`FirstIsHeld`). The third
  needs one thing more of the state, `StampsAreReal`: a stamp a caller brings to
  the lock is not ahead of the clock. Then what is too old for the stamp is too
  old for the clock, however long ago the stamp was read (`TrimDropsForCause`).

**The stream** (`ResumableStreamProofs`), for any capacity
of log and bus, any number of events, lost writes, lags, cuts, crashes and
restarts, in a *setting*: one publisher, no restart between a handler's read of
the log handle and its subscription, and a limit below `usize::MAX`. The first
two are what `stream_gap` and section 6 show to be needed. Types need no setting.

- `NoGapIsSilent`, `CursorsStandForPrefixes`: the invariant follows an event
  from the moment it happens. Above its floor a log has every event, as far
  apart as their cursors (`FloorTells`); what the client does not know is on the
  wire, in the replay, on the bus past the handler's position or with the
  publisher that is about to mark or send it; a cursor the client holds stands
  for everything before it. The lemmas of `LogStateProofs` are used for what a
  handler reads.
- `DeliveriesInOrder`: events are delivered at most once and in order between
  snapshots. On top of the first invariant, what is got, on the wire, replayed
  and on the bus is one increasing sequence, but for the messages that the
  filter will drop because their cursor was served; an event without a cursor
  (its write failed) comes by the bus alone.

- `StreamTypes`: for any number of publishers and restarts at any point, from
  `BoundAssumption` (the wire holds at least the two frames a handler begins
  with). `TypeOK` alone is not inductive: what a bus or a replay holds must name
  a cursor that some log issued for the wire and the client to go on naming one,
  and a log must hold the events it says it issued (`Typed`).

**The browser connection** (`BrowserProofs`), for any windows, ids and options,
from `WindowAssumption`: the invariant `Sound` is one of the machine's record,
in two parts: what holds in the middle of a handler as well (`Kept`), which is
what one function needs of another, and what holds between events (`Moves`,
`Carries`). `BrowserTypes`, `ConnectionNeverStuck`, `ConnectionStatusTells`,
`DeadmanIsTheConnections`, `OneSourceAtATime`; and with `Resume`, `RequestsResume`
and `ResumedIsTold`, whose heart is `Carries`: the cursor that a source presents,
by its own header or by its URL, is the last one given out (or, `Last`, that of a
later frame that nobody listens to), unless it is stale, and a stale source does
not get to connect again.

**The registry and the link verdict** (`RegistryProofs`), for any urls, names and
subscribers, and calls from inside handlers to any depth, from `LinkAssumption`
(the windows are naturals) and `NamesAssumption` (a subscription wants names that
`Names` lists). The invariant `IInv` is `Sound` of the entries created, the map of
them, the subscriptions and the stack of fan-outs; it is stated of values, so
that one action can be taken apart into the functions of the code it is made of
(retain, report, nudge). Its parts:

- `Subscribed`, `Counted`, `Mapping`: an entry's subscribers are the subscriptions
  that name it, its counts are their numbers, and an entry is mapped until it is
  closed. `NamesAreWired` and `OpenEntriesAreMapped`.
- `Turning`: a fan-out under way tells what is still the case, whatever the
  handlers it has called did. Without it nothing can be said of who is told last.
  It rests on `BackingOff`: a nudge moves on only an entry in backoff, and none
  of these has a status fan-out under way.
- `Knowing`, `Owing`: who has not been told is on the list of a fan-out under way
  or of its own replay, which still has the verdict to tell (`KnowsLink`), or was
  told by its replay a verdict that had changed (`stale`); a reconnect that is owed
  is told by the one that reports the stream live. `EverybodyKnows`,
  `NoEdgeIsLost`. `LeavingIsFinal` is the action property: no fan-out changes what
  one that has left was told.
- `Verdicts`, a second invariant on top of the first: the verdict in force is the
  track's until the deadline that is armed or about to be, or a report under way
  will judge it (a replay judges nothing), or the timer is due. `NoVerdictIsStale`, with
  `GraceMs <= OfflineMs`, which the defaults satisfy and nothing enforces
  (section 6). Of link.ts it needs `DeadlineIsAhead` and
  `VerdictHoldsUntilDeadline`; `RetriesDoNotPutOfflineOff` is the other promise of
  link.ts: retries do not restart the offline window.

**The response body** (`SseBodyProofs`), for every configuration and timing:
`NoWakeUpIsLost` (a parked task has nothing to do and has left word with
everything that can change that), `HeadsAreWhole`, `EventsAreSent`, and
`PingsMeanSilence`, by an invariant of its own (`QuietInv`): while a response goes
on, what the keep-alive has left and the silence so far make up its interval.

**The Rust client** (`RustClientProofs`), for any frames, length of chunks and
channel:

- `RequestsNameTheLast`: while messages of a chunk wait for the channel, the last
  of them carries the cursor that was stored with the first.
- `SilenceIsReal`, for a server whose announced intervals do not wrap the window
  (`NothingWraps`: lib.rs:418 wraps near 2^63 s, section 6). Its invariant
  `Watching` says that the dead-man's clock is not ahead of the silence when the
  task reads from an empty transport, stands at zero while a slow consumer
  blocks it, and is held against the window of the pings that were read.

**The wire's text** (`SessionProofs`), for any texts, words, line breaks, options,
number of connections, and chunks of any size:

- `CutAnywhere`: a parser reads a chunk as it reads its two parts one after the
  other, wherever it is cut. It needs no hypothesis; it is an induction over the
  second part, as what a parser completes is no part of what it goes on from
  (`FeedOneAfter`).
- `ClientHearsWhatIsSaid`, `RequestsNameTheLast`, `WaitsFollowThePolicy`, from
  `SayingsAreMeant`, which is about one saying at a time (section 2) and which TLC
  evaluates for the sayings of the run (`MCAssumption`). The request needs in
  addition that ids have no spaces at their ends (`IdsAreBare`, section 6) and
  that what the URL asks for is a cursor (`UrlsAreCursors`).
- `EventsMeanWhatTheySay`: `SayingsAreMeant` holds of every text that the encoder
  writes, whatever the event, so `EventsAreHeard` needs no hypothesis on what
  texts mean, only that the server sends events (`Encoded`). What an event means
  (`SayingOf`) is the event itself, but for what the format cannot carry
  (`PlainEventsAreKept`): the breaks of a payload arrive as LF, and in an id or
  a name breaks and NUL arrive as spaces. What a parser goes on from is its view
  (`View`: a byte-order mark at the start is no part of it); a text leads from one
  view to another and completes no frame on the way (`Leads`); an open data line
  holds the payload so far, its last line still open (`DataTo`), by induction over
  the payload with the CR before an LF remembered; and the blank line makes of
  the view the frame, at the first lexeme of the break (`BlankRead`). For the
  texts of other servers `SayingsAreMeant` stays a hypothesis, which TLC evaluates
  for those of the run.
- The invariant, `SessionInv`: while a response is read, what was heard and what
  the parser would make of the text under way are together what was said, and
  for every prefix of that text, an id that would be the last then was in force
  at the last frame completed by then (`Reads`); the cursor stored was in force
  at the last frame that was heard (`ReadingInv`). Neither property is inductive:
  `HeardIsSaid` says nothing of a parser in the middle of a frame, and the id a
  request names is decided by a prefix that is not read yet. `PolicyInv` ties the
  attempts to the failures in a row, and the hint in force to one that was said.
- The provers cannot instantiate the library's induction theorems, so induction
  is `Induction`, on sets: a set of naturals that has zero and every successor
  has them all (the least number outside it would have a predecessor). By it
  functions given by a recursion exist (`Recursion`), and so what `Feed`, the
  library's `FlattenSeq` and the powers of two are can be taken one step at a
  time (`FeedPasses`, `FlattenSteps`, `ShiftedSteps`).

Only model-checked:

- Every liveness property: fairness and ENABLED are out of the prover's reach.
- The properties of the runs that expect a violation.

## 6. Disagreements without a run

Met while modelling, and shown by no run of their own:

- A limit of `usize::MAX` wraps to zero in a release build and answers an empty
  replay as if it were exact (log.rs:261): with `UsizeMax` among the `Limits`,
  `KeepsTheTrait` fails.
- A restart between a handler's read of the log handle and its subscription
  (testkit, lib.rs:210) leaves the client on a bus that moved on without the log
  it was replayed from: `NoSilentGap` fails with `RestartRaces = TRUE`.
- `2 * every + 5` wraps for an interval a ping may announce (lib.rs:418 of the
  Rust client): with `Width = 2` and `Slack = 1`, `NoFalseAlarm` fails.
- The oldest cursor an `Expired` names may itself not replay: with more events
  after it than the limit it expires again (log.rs:41, 268).
- An entry stamped by a call that was overtaken stays past its ttl behind a
  younger front (log.rs:153, 196).
- With two publishers, an event may be delivered twice, and a client may pass a
  lost write without a resync (log.rs:276): both come from the unordered sends
  of `stream_gap`.
- A nudge with a deferred dead-man verdict and a pending revival spends itself
  on the verdict and leaves the backoff pending (connection.ts:372; :94 says it
  collapses it). The age of a live stream is not reset when it drops
  (connection.ts:297; :43), so that a native retry that fails late enough makes
  a stream that lived briefly look healthy.
- `subscribe` reads the verdict before it calls `onStatus` and replays it after
  (registry.ts:271-273). If that handler nudges a connection in backoff whose
  deadline is due but has not fired, the nudge's report is judged, all are told
  the new verdict, and then the joiner is told the old one again and keeps it until
  the next: not "the current" one of registry.ts:267-269. `SubscribersKnow`
  excepts these subscribers; without the exception it is `ReplayIsCurrent`, which
  `Registry.cfg` finds violated when it is listed.
- The browser keeps the id of every frame, the machine only of those that somebody
  listens to (connection.ts:231-248). After an id under another name a native
  reconnect names an event that no subscriber was given, and if none was given
  before, it carries a cursor and is told as not resumed, whereas
  connection.ts:344-346 has the machine mirror the browser's cursor:
  `CarriedIsResumed`, which `Browser.cfg` finds violated when it is listed.
  `RequestNamesTheLast` and `ResumedTells` say what is left.
- A judgement nested in a handler of `onLink` arms a deadline which the outer
  one overwrites without clearing (registry.ts:199). `Registry` keeps such
  timers (`strays`): they judge once more and do no other harm; after a
  `dispose` from a handler one of them is armed on the disposed entry.
- With `offlineMs` below `graceMs` the deadline named is not the one at which
  the verdict changes (link.ts:70).
- A frame with an id and no data moves the Rust client's cursor if a frame with
  data follows or precedes it in the same chunk, and is forgotten at a reconnect
  otherwise (lib.rs:383; parse.rs says that it counts). No frame of this server
  is like that; `Session` allows both.
- An id with a space at an end, of another server, is trimmed on its way
  (resume.rs:33), and can become the cursor of another event. No id of this
  server is like that.
- A header that is not ASCII counts as absent, and the query is read instead,
  while resume.rs:20-22 has what is not a cursor answered with a resync.
- A keep-alive of zero pings without end, and an age below the resolution of the
  draw ends a response at once (response.rs).

## 7. Not modelled

- The JSON of ping and resync payloads and their parsing on both sides, UTF-8 and
  other bytes below a lexeme, HTTP headers: formatting, on which no property
  depends beyond what is read from it (an interval, an id).
- The distribution of the jitter: a delay may be any of its range.
- `listen` and `unlisten` of a live source as actions: that a frame is listened to
  or not is chosen at each frame instead. The fan-outs of events, pings and
  resyncs in `Registry`: they change no state of it and nothing is done after
  them, so a call from one of their handlers is a call between turns.
- The testkit's routes, counters and binary; `server_hints` of the Rust client,
  which nothing in it reads; axum's wrapping of the response.
- The Solid adapter (signals over one subscription) and the JS protocol and
  environment seams: they forward. The profile's promises are the properties.

## 8. Plan

1. Done: log, its contract and their proofs; stream, its safety proved;
   connection, its safety proved; body and builder; registry and link; Rust
   client on frames and on the wire's text; resume requests.
2. Next modules: the composition of `Registry` with the functions of
   `BrowserConnection`, so that re-entrant calls meet the real machine.
3. Next theorems: what the parser makes of texts that no encoder of this
   repository writes (a field without a colon, an id without data), one statement
   for each, so that `SayingsAreMeant` follows for those servers too.
