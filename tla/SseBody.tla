------------------------------ MODULE SseBody ------------------------------
(***************************************************************************)
(* The body of one response (response.rs, SseBody) and the task that polls  *)
(* it.  The builder's frames go first; then, on every poll, the rotation    *)
(* deadline, the event stream and the keep-alive are asked in this order.   *)
(* A poll that finds nothing registers the task with whatever it asked and  *)
(* parks it: only one of these wakes it again.                              *)
(*                                                                          *)
(* Sleeps are kept as the time they have left.                              *)
(***************************************************************************)
EXTENDS Integers, Sequences, SequencesExt

CONSTANTS Everys,         \* keep-alive intervals a handler may ask for
          Ages,           \* nominal rotation ages; below the clock's resolution is 0
          Windows,        \* lifetimes given outright, as <<from, to>>
          Second,         \* in ticks
          PingEverySecs,  \* the recommended interval, in seconds (15 in the code)
          Slack,          \* of the client's dead-man, in seconds (5 in the code)
          MaxHead         \* bound: frames a handler adds to the head

Off == -1

ASSUME TimeAssumption ==
  /\ Everys \subseteq Nat /\ Ages \subseteq Nat /\ Windows \subseteq Nat \X Nat
  /\ Second \in Nat \ {0} /\ PingEverySecs \in Nat \ {0} /\ Slack \in Nat \ {0}
  /\ MaxHead \in Nat

VARIABLES config,   \* what the builder was told
          serving,  \* whether it has built the response
          body,     \* the response body
          slot,     \* what the event stream has ready
          task,     \* the task that polls the body
          wire      \* history: what the polls returned

vars == <<config, serving, body, slot, task, wire>>

-----------------------------------------------------------------------------
(* The builder: its setters, and what it builds *)

\* Lifetimes to draw from, and the age a ping announces; a range that is empty
\* gives its start.
MaxAgeWindow(from, to, secs) ==
  [lifetimes |-> IF to - from <= 1 THEN {from} ELSE from..(to - 1), secs |-> secs]

NoAge == [lifetimes |-> {Off}, secs |-> 0]

\* Ten per cent either way.
MaxAge(age) ==
  LET spread == age \div 10
  IN  MaxAgeWindow(age - spread, age + spread + 1, age \div Second)

MaxAgeJitter(from, to) ==
  LET width == IF to > from THEN to - from ELSE 0
  IN  MaxAgeWindow(from, to, (from + width \div 2) \div Second)

Default == [retry |-> TRUE, every |-> PingEverySecs * Second, age |-> NoAge, head |-> << >>]

\* A ping says the interval in whole seconds (the recommended one for less than
\* a second) and the age, 0 for none.  Of other frames the kind is enough.
Plain(kind) == [kind |-> kind, every |-> 0, age |-> 0]

PingFrame(c) ==
  LET secs == c.every \div Second
  IN  [kind |-> "ping", every |-> IF secs > 0 THEN secs ELSE PingEverySecs, age |-> c.age.secs]

\* The frames that open the response: the retry hint, the first ping, and
\* what the handler added, in its order.
Build(c) == (IF c.retry THEN <<Plain("retry")>> ELSE << >>)
              \o (IF c.every = Off THEN << >> ELSE <<PingFrame(c)>>)
              \o c.head

Init ==
  /\ config = Default /\ serving = FALSE
  /\ body = [head |-> << >>, done |-> FALSE, left |-> Off, quiet |-> Off]
  /\ slot = "none"
  /\ task = [parked |-> FALSE, wakers |-> {}]
  /\ wire = [opening |-> << >>, last |-> Plain("none"), silence |-> 0]

\* A handler calls the setters in any order, each any number of times.
Set(c) == /\ ~serving /\ config' = c
          /\ UNCHANGED <<serving, body, slot, task, wire>>

SetRetry     == \E on \in BOOLEAN : Set([config EXCEPT !.retry = on])
SetKeepAlive == \E every \in Everys \cup {Off} : Set([config EXCEPT !.every = every])
SetMaxAge    == \/ \E age \in Ages : Set([config EXCEPT !.age = MaxAge(age)])
                \/ Set([config EXCEPT !.age = NoAge])
SetWindow    == \E w \in Windows : Set([config EXCEPT !.age = MaxAgeJitter(w[1], w[2])])
AddHead      == /\ Len(config.head) < MaxHead
                /\ \E kind \in {"resync", "snapshot"} :
                     Set([config EXCEPT !.head = Append(@, Plain(kind))])

Builds ==
  /\ ~serving /\ serving' = TRUE
  /\ \E left \in config.age.lifetimes :
       body' = [head |-> Build(config), done |-> FALSE, left |-> left,
                quiet |-> config.every]
  /\ UNCHANGED <<config, slot, task, wire>>

-----------------------------------------------------------------------------
(* poll_frame, one action for each way it returns *)

\* A poll that returns something: the task goes on polling.  Time stands still
\* for what is returned, and a frame of the stream proper ends a silence.
Returns(what) ==
  /\ serving
  /\ task' = [parked |-> FALSE, wakers |-> {}]
  /\ wire' = [opening |-> IF Len(wire.opening) <= Len(Build(config))
                          THEN Append(wire.opening, what) ELSE wire.opening,
              last |-> what,
              silence |-> IF body.head = << >> THEN 0 ELSE wire.silence]
  /\ UNCHANGED <<config, serving>>

PollHead ==
  /\ body.head # << >>
  /\ Returns(Head(body.head))
  /\ body' = [body EXCEPT !.head = Tail(@)]
  /\ UNCHANGED slot

IsEndStream == body.done /\ body.head = << >>

PollDone ==
  /\ IsEndStream
  /\ Returns(Plain("end"))
  /\ UNCHANGED <<body, slot>>

\* What is asked after the head, while the response goes on.
Streams == body.head = << >> /\ ~body.done

\* Mutant: an event that is ready goes before the deadline.
PollDeadlineLate ==
  /\ Streams /\ body.left = 0 /\ slot # "event"
  /\ Returns(Plain("end"))
  /\ body' = [body EXCEPT !.done = TRUE]
  /\ UNCHANGED slot

\* Mutant: the deadline is asked once the event has been taken.
PollDeadlineSwallows ==
  /\ Streams /\ body.left = 0
  /\ Returns(Plain("end"))
  /\ body' = [body EXCEPT !.done = TRUE]
  /\ slot' = "none"

\* Mutant: the deadline ends the response whatever the head still holds.
PollDeadlineInHead ==
  /\ ~body.done /\ body.left = 0
  /\ Returns(Plain("end"))
  /\ body' = [body EXCEPT !.done = TRUE, !.head = << >>]
  /\ UNCHANGED slot

\* Rotation: past the deadline the response ends here.
PollDeadline ==
  /\ Streams /\ body.left = 0
  /\ Returns(Plain("end"))
  /\ body' = [body EXCEPT !.done = TRUE]
  /\ UNCHANGED slot

Lasts == Streams /\ body.left # 0

\* Mutant: an event does not put the next ping off.
PollEventUnreset ==
  /\ Lasts /\ slot = "event"
  /\ Returns(Plain("event"))
  /\ slot' = "none"
  /\ UNCHANGED body

\* An event puts the next ping off.
PollEvent ==
  /\ Lasts /\ slot = "event"
  /\ Returns(Plain("event"))
  /\ slot' = "none"
  /\ body' = [body EXCEPT !.quiet = config.every]

PollFails ==
  /\ Lasts /\ slot = "error"
  /\ Returns(Plain("error"))
  /\ slot' = "over"
  /\ body' = [body EXCEPT !.done = TRUE]

PollEnds ==
  /\ Lasts /\ slot = "end"
  /\ Returns(Plain("end"))
  /\ slot' = "over"
  /\ body' = [body EXCEPT !.done = TRUE]

Waits == Lasts /\ slot \in {"none", "over"}

PollPing ==
  /\ Waits /\ body.quiet = 0
  /\ Returns(PingFrame(config))
  /\ body' = [body EXCEPT !.quiet = config.every]
  /\ UNCHANGED slot

\* Mutant: the keep-alive is not asked while the stream is pending.
PollPendingUnasked ==
  /\ serving /\ Waits
  /\ task' = [parked |-> TRUE,
              wakers |-> {"events"} \cup (IF body.left = Off THEN {} ELSE {"deadline"})]
  /\ wire' = [wire EXCEPT !.last = Plain("pending")]
  /\ UNCHANGED <<config, serving, body, slot>>

\* Nothing is ready: the deadline, the stream and the keep-alive were each
\* asked, and each will wake the task.
PollPending ==
  /\ serving /\ Waits /\ body.quiet # 0
  /\ task' = [parked |-> TRUE,
              wakers |-> {"events"} \cup (IF body.left = Off THEN {} ELSE {"deadline"})
                                    \cup (IF body.quiet = Off THEN {} ELSE {"keep_alive"})]
  /\ wire' = [wire EXCEPT !.last = Plain("pending")]
  /\ UNCHANGED <<config, serving, body, slot>>

\* The transport may poll at any time it has room, woken or not.
Poll == \/ PollHead \/ PollDone \/ PollDeadline \/ PollEvent
        \/ PollFails \/ PollEnds \/ PollPing \/ PollPending

-----------------------------------------------------------------------------
(* What the body waits for *)

\* The event stream has something: an event, a failure, its end.
Ready(what) ==
  /\ serving /\ slot = "none"
  /\ slot' = what
  /\ task' = IF "events" \in task.wakers THEN [parked |-> FALSE, wakers |-> {}] ELSE task
  /\ UNCHANGED <<config, serving, body, wire>>

Less(time) == IF time \in {Off, 0} THEN time ELSE time - 1

Tick ==
  /\ serving
  /\ body' = [body EXCEPT !.left = Less(@), !.quiet = Less(@)]
  /\ wire' = [wire EXCEPT !.silence = IF config.every = Off \/ @ = config.every
                                      THEN @ ELSE @ + 1]
  /\ task' = IF \/ "deadline" \in task.wakers /\ body'.left = 0
                \/ "keep_alive" \in task.wakers /\ body'.quiet = 0
             THEN [parked |-> FALSE, wakers |-> {}] ELSE task
  /\ UNCHANGED <<config, serving, slot>>

Builder == SetRetry \/ SetKeepAlive \/ SetMaxAge \/ SetWindow \/ AddHead \/ Builds

Next == Builder \/ Poll \/ Tick \/ \E what \in {"event", "error", "end"} : Ready(what)

Spec == Init /\ [][Next]_vars

\* Time passes, and the executor polls a task that was woken.  A parked task
\* is polled by nobody.
FairSpec == Spec /\ WF_vars(Tick) /\ WF_vars(~task.parked /\ Poll)

-----------------------------------------------------------------------------
(* Safety *)

\* The head goes first, whole and in its order, even when the deadline passes
\* while it is sent (response.rs:68-71): a client that resumed is always told
\* of a resync before the response ends.
HeadIsWhole ==
  /\ IsPrefix(wire.opening, Build(config)) \/ IsPrefix(Build(config), wire.opening)
  /\ body.done => IsPrefix(Build(config), wire.opening)

\* The end by rotation falls between frames: what is taken from the event
\* stream is sent, and never lost to the deadline.
NothingIsSwallowed == [][slot = "event" /\ slot' # slot => wire'.last.kind = "event"]_vars

\* No wake-up is lost: a parked task has nothing to do, whichever of the
\* deadline, the stream and the keep-alive came last.
NothingToDoWhileParked ==
  task.parked => body.head = << >> /\ body.left # 0 /\ body.quiet # 0
                   /\ slot \in {"none", "over"}

\* A ping after the head means that the stream was quiet for the whole interval
\* (response.rs:233), and the interval it announces keeps a client's dead-man
\* (2 * every + 5 s) from taking that quiet for a dead connection.
PingsOnlyInSilence ==
  [][PollPing => /\ wire.silence = config.every
                 /\ config.every < (2 * wire'.last.every + Slack) * Second]_vars

-----------------------------------------------------------------------------
(* Liveness *)

\* A response with an age ends, however busy its event stream is.
Rotates == serving /\ config.age # NoAge ~> body.done

\* A silence of the interval is broken by a ping, or the response ends.
StaysAudible ==
  serving /\ config.every # Off /\ wire.silence = config.every ~> wire.silence = 0 \/ body.done
=============================================================================
