------------------------------- MODULE Session -------------------------------
(***************************************************************************)
(* The Rust client's connections one after another, on the text of the      *)
(* wire: what a request carries and how the server reads it, how bytes      *)
(* become frames, cursor and retry hint however they are cut, and how long  *)
(* the client waits before it asks again.  (RustClient has the same task    *)
(* with its channel and its dead-man, on whole frames.)                     *)
(*                                                                          *)
(* The far end says "sayings": a text, and beside it what an EventSource    *)
(* is to make of it, the way the golden vectors of the profile are written. *)
(***************************************************************************)
EXTENDS Resume

CONSTANTS Sayings,     \* [text, name, data, own, hint]: what can be sent, and means
          Resynced,    \* the one a server sends to a request that is Invalid
          Styles,      \* [ending, bom]: how a server writes
          Setups,      \* [url, options]: what the URL itself asks for
                       \* (?last_event_id=), and the client's options
          Floors,      \* for how long a handler says that it is unavailable
          Second,      \* the least that it can say
          MaxSaid,     \* bound: sayings on a connection
          MaxAttempts  \* bound: failures in a row

Off == -1  \* of eager: no such reopen;  of a hint: none

\* What a client is configured with, in milliseconds.
Backoff == [base : Nat, max : Nat, floor : Nat]
Eager   == Nat \cup {Off}
Options == [backoff : Backoff, eager : Eager, retry : Nat]

Style == [ending : {<<"lf">>, <<"cr">>, <<"cr", "lf">>}, bom : BOOLEAN]

ASSUME SetupAssumption  == \A s \in Setups :
                             s.options \in Options /\ s.url \in Texts \cup {Absent}
ASSUME SayingAssumption == Styles \subseteq Style
                           /\ \A s \in Sayings \cup {Resynced} :
                                s.text \in Texts /\ s.own \in Texts \cup {Absent}
ASSUME FloorAssumption  == Floors \subseteq Nat /\ Second \in Nat

VARIABLES setup,   \* the URL and the options, fixed
          cursor,  \* Shared.last_event_id
          policy,  \* run()'s own: [attempt, hint, wait]
          open,    \* whether a response is being read
          parser,  \* read()'s own
          wire,    \* text sent and not received
          style,   \* of the server of this connection
          said,    \* history: what the sayings of this connection mean
          heard,   \* history: what was made of them
          named,   \* history: the ids the next request may name
          hints,   \* history: the retry hints that may be in force
          past     \* history: how the last attempt ended, failures in a row

vars == <<setup, cursor, policy, open, parser, wire, style, said, heard, named,
          hints, past>>

Settled == <<setup, cursor>>
Body    == <<open, parser, wire, style, said, heard>>
Ledger  == <<named, hints, past>>

Plain == CHOOSE s \in Styles : TRUE

Nowhere == [cause |-> "start", after |-> 0, healthy |-> FALSE, failures |-> 0]

(***************************************************************************)
(* History, for the properties: the items that are to be made of what was   *)
(* said, and the ids that were in force, each with the place of the frame   *)
(* that came last before it.  (An id may come without data; it makes no     *)
(* frame then, and may be known to the client or not.)                      *)
(***************************************************************************)
LastOf(items, is) == Max({0} \cup {i \in DOMAIN items : items[i].is = is})

ForceAfter(saying, id) ==
  CASE saying.own = Absent -> id
    [] saying.own = << >>  -> Absent
    [] OTHER               -> saying.own

Meant(saying, id) ==
  (IF saying.hint = Off THEN << >> ELSE <<Hint(saying.hint)>>)
    \o (IF saying.data = Absent THEN << >>
       ELSE <<Frame(saying.name, saying.data, ForceAfter(saying, id), saying.own)>>)

MarkedAt(items, id) == [after |-> LastOf(items, "event"), id |-> id]

NothingSaid(id) == [count |-> 0, items |-> << >>, id |-> id, marks |-> {MarkedAt(<< >>, id)}]

Told(history, saying) ==
  LET id    == ForceAfter(saying, history.id)
      items == history.items \o Meant(saying, history.id)
  IN  [count |-> history.count + 1, items |-> items, id |-> id,
       marks |-> history.marks \cup {MarkedAt(items, id)}]

Init ==
  /\ setup \in Setups
  /\ cursor = Absent /\ policy = [attempt |-> 0, hint |-> Off, wait |-> 0]
  /\ open = FALSE /\ parser = NewParser(Absent) /\ wire = << >>
  /\ style = Plain /\ said = NothingSaid(Absent) /\ heard = << >>
  /\ named = {Absent} /\ hints = {Off} /\ past = Nowhere

-----------------------------------------------------------------------------
(* Waits: a wait is drawn from a range, in milliseconds *)

\* jitter::uniform, an empty range gives its start.
Uniform(from, to) == IF to - from <= 1 THEN {from} ELSE from..(to - 1)

\* 1 << n.
Shifted[n \in Nat] == IF n = 0 THEN 1 ELSE 2 * Shifted[n - 1]

\* Mutant: the attempt is counted before the draw.
BackoffsLate(attempt) ==
  LET b   == setup.options.backoff
      cap == Min({b.base * Shifted[Min({attempt + 1, 30})], b.max})
  IN  {Max({w, b.floor}) : w \in Uniform(0, Max({cap, 1}))}

\* jitter::backoff_ms: full jitter below an exponential cap, never below the floor.
Backoffs(attempt) ==
  LET b   == setup.options.backoff
      cap == Min({b.base * Shifted[Min({attempt, 30})], b.max})
  IN  {Max({w, b.floor}) : w \in Uniform(0, Max({cap, 1}))}

\* After a clean end: at once if the stream was healthy, else as the server hinted.
EndWaits(healthy) ==
  IF setup.options.eager # Off /\ healthy THEN Uniform(0, setup.options.eager)
  ELSE {IF policy.hint # Off THEN policy.hint ELSE setup.options.retry}

\* The next attempt comes after one of these waits.
WaitsFor(waits, attempt) ==
  \E w \in waits : policy' = [policy EXCEPT !.attempt = attempt, !.wait = w]

-----------------------------------------------------------------------------
(* Requests *)

Asked == FromParts([header |-> HeaderFor(cursor), query |-> setup.url])

Written(text, ending) ==
  FlattenSeq([i \in DOMAIN text |-> IF text[i] = "lf" THEN ending ELSE <<text[i]>>])

Greeting(manner) == IF manner.bom THEN <<"bom">> ELSE << >>

\* What the Retry-After of a 503 of this server says (unavailable), in the unit
\* of the waits; another server may send none.
RetryAfters == {Max({after, Second}) : after \in Floors} \cup {0}

\* No head in time or an error, or a status that is not 200.
RequestFails(cause, after) ==
  /\ ~open /\ policy.attempt < MaxAttempts
  /\ WaitsFor({Max({w, after}) : w \in Backoffs(policy.attempt)}, policy.attempt + 1)
  /\ past' = [cause |-> cause, after |-> after, healthy |-> FALSE,
              failures |-> past.failures + 1]
  /\ UNCHANGED <<Settled, Body, named, hints>>

\* A parser of its own for the new stream, and the server's answer to a request
\* it cannot read.
Opens ==
  /\ ~open /\ open' = TRUE
  /\ policy' = [policy EXCEPT !.attempt = 0, !.wait = 0]
  /\ parser' = NewParser(cursor)
  /\ style' \in Styles
  /\ said' = IF Asked = Invalid THEN Told(NothingSaid(cursor), Resynced)
             ELSE NothingSaid(cursor)
  /\ wire' = Greeting(style') \o (IF Asked = Invalid THEN Written(Resynced.text, style'.ending)
                                 ELSE << >>)
  /\ heard' = << >>
  /\ named' = {} /\ past' = Nowhere
  /\ UNCHANGED <<Settled, hints>>

-----------------------------------------------------------------------------
(* Reading *)

\* All of it is under way before any is received: to the client it is one text,
\* and when the server wrote which part cannot be told.
Says(saying) ==
  /\ open /\ said.count < MaxSaid /\ parser = NewParser(cursor)
  /\ said' = Told(said, saying)
  /\ wire' = wire \o Written(saying.text, style.ending)
  /\ UNCHANGED <<Settled, policy, open, parser, style, heard, Ledger>>

\* Mutant: a resync does not clear the cursor.
StoredUnlessReset(p) == IF LastOf(p.out, "event") = 0 \/ p.last = Absent THEN cursor ELSE p.last

\* The cursor is stored with a frame, as it is after the whole chunk.
Stored(p) == IF LastOf(p.out, "event") = 0 THEN cursor ELSE p.last

\* The last hint of the items counts.
Hinted(items, default) ==
  LET k == LastOf(items, "retry") IN IF k = 0 THEN default ELSE items[k].ms

\* A chunk of any size.
Receives(n) ==
  \E p \in {Feed(parser, SubSeq(wire, 1, n))} :
    /\ open
    /\ parser' = [p EXCEPT !.out = << >>]
    /\ wire' = SubSeq(wire, n + 1, Len(wire))
    /\ heard' = heard \o p.out
    /\ cursor' = Stored(p)
    /\ policy' = [policy EXCEPT !.hint = Hinted(p.out, @)]
    /\ UNCHANGED <<setup, open, style, said, Ledger>>

\* The ids in force since the last frame that was heard.
Nameable == {mark.id : mark \in {x \in said.marks : x.after = LastOf(heard, "event")}}

HintsOf(items) == {items[i].ms : i \in {k \in DOMAIN items : items[k].is = "retry"}}

\* The connection is left, and with it its parser and what was in flight.
Leaves(cause, healthy, failures) ==
  /\ open /\ open' = FALSE
  /\ named' = Nameable
  /\ past' = [cause |-> cause, after |-> 0, healthy |-> healthy, failures |-> failures]
  /\ parser' = NewParser(Absent) /\ wire' = << >>
  /\ said' = NothingSaid(Absent) /\ heard' = << >>
  /\ style' = Plain
  /\ UNCHANGED Settled

\* The response ends when all it sent has come.
Ends(healthy) ==
  /\ wire = << >>
  /\ Leaves("ended", healthy, 0)
  /\ WaitsFor(EndWaits(healthy), policy.attempt)
  /\ hints' = IF HintsOf(said.items) = {} THEN hints ELSE {Hinted(said.items, Off)}

\* It breaks, and what was under way is lost.
Severed ==
  /\ Leaves("failed", FALSE, 1)
  /\ WaitsFor(Backoffs(policy.attempt), policy.attempt + 1)
  /\ hints' = hints \cup HintsOf(said.items)

\* Silence past the dead-man window, on a stream that has pinged.
FallsSilent ==
  /\ \E i \in DOMAIN heard : heard[i].is = "event" /\ heard[i].name = <<"ping">>
  /\ Leaves("deadman", FALSE, 0)
  /\ WaitsFor({0}, policy.attempt)
  /\ hints' = hints \cup HintsOf(said.items)

Next ==
  \/ \E after \in RetryAfters : RequestFails("http", after)
  \/ RequestFails("transport", 0)
  \/ Opens \/ Severed \/ FallsSilent
  \/ \E saying \in Sayings : Says(saying)
  \/ \E n \in 1..Len(wire) : Receives(n)
  \/ \E healthy \in BOOLEAN : Ends(healthy)

Spec == Init /\ [][Next]_vars

-----------------------------------------------------------------------------
(***************************************************************************)
(* What it is for the sayings to mean what stands beside them, one at a     *)
(* time and whole: a parser between two messages makes of the text what is  *)
(* meant, at once with the last id, and is between two messages again.      *)
(***************************************************************************)
Utterances == Sayings \cup {Resynced}

\* The ids that can be in force.
Ids == ({Absent} \cup {saying.own : saying \in Utterances}) \ {<< >>}

Between(manner, id) ==
  [NewParser(id) EXCEPT !.sawCr = Last(manner.ending) = "cr", !.atStart = FALSE]

Greeted(manner, id) == Feed(NewParser(id), Greeting(manner))

IsMeant(saying, manner, id) ==
  LET text  == Written(saying.text, manner.ending)
      after == ForceAfter(saying, id)
  IN  \A p \in {Greeted(manner, id), Between(manner, id)} :
        /\ Feed(p, text) = [Between(manner, after) EXCEPT !.out = Meant(saying, id)]
        /\ \A k \in 0..Len(text) :
             LET q == Feed(p, SubSeq(text, 1, k))
             IN  \/ q.last = id /\ LastOf(q.out, "event") = 0
                 \/ q.last = after /\ q.out = Meant(saying, id)

\* What an EventSource is to make of an event: the breaks of the data are one
\* kind, and those of the other fields are no breaks.
Unbroken(data) ==
  FlattenSeq([i \in DOMAIN data |->
    IF data[i] = "lf" /\ i > 1 /\ data[i - 1] = "cr" THEN << >>
    ELSE IF data[i] \in Breaks THEN <<"lf">> ELSE <<data[i]>>])

SayingOf(e) ==
  [text |-> Encode(e), name |-> Folded(e.name),
   data |-> IF e.data = Absent THEN Absent ELSE Unbroken(e.data), own |-> Folded(e.id),
   hint |-> IF e.retry = Absent THEN Off ELSE Millis[e.retry[1]]]

SayingsAreMeant ==
  \A saying \in Utterances, manner \in Styles, id \in Ids : IsMeant(saying, manner, id)

\* Spaces at the ends are lost on the way to the server.
Bare(text) == text # << >> => Head(text) # "sp" /\ Last(text) # "sp"

IdsAreBare == \A id \in Ids : id = Absent \/ Bare(id)

UrlsAreCursors == \A s \in Setups : s.url = Absent \/ (IsToken(s.url) /\ Bare(s.url))

-----------------------------------------------------------------------------
(* Properties *)

\* However the text is written and cut, the client hears what was said, the
\* frames and the hints, in order and as they were meant, and all of it once the
\* text has come (parse.rs:3): no payload poses as a field, no break is lost or
\* doubled, and an id is in force until another frame changes it.
HeardIsSaid == IsPrefix(heard, said.items) /\ (wire = << >> => heard = said.items)

\* A request names the id in force at the last frame that was heard, or one
\* that came since without data; never one of a frame that was cut, and after
\* a resync none (profile section 1).  One that is no cursor is not taken for
\* one.
Answer(id) ==
  IF id = Absent \/ ~IsHeader(id) THEN setup.url ELSE IF IsToken(id) THEN id ELSE Invalid

RequestNamesTheLast == ~open => Asked \in {Answer(id) : id \in named}

\* The waits are those of the profile's reconnect policy (section 9): backoff
\* that grows with failures in a row, with Retry-After as its floor; at once
\* after a healthy stream or a silence; else as the server last hinted, on
\* whatever connection it did.
WaitsAreThePolicys ==
  LET w     == policy.wait
      o     == setup.options
      floor == o.backoff.floor
      grown == Min({o.backoff.base * Shifted[past.failures - 1], o.backoff.max})
  IN  ~open =>
        /\ past.cause \in {"http", "transport", "failed"} =>
             w >= floor /\ w >= past.after /\ w <= Max({floor, past.after, grown})
        /\ past.cause \in {"start", "deadman"} => w = 0
        /\ past.cause = "ended" =>
             IF past.healthy /\ o.eager # Off THEN w <= o.eager
             ELSE w \in {IF h = Off THEN o.retry ELSE h : h \in hints}
=============================================================================
