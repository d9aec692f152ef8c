--------------------------- MODULE SseBodyProofs ---------------------------
(***************************************************************************)
(* A response body loses no wake-up and no event, sends its head whole and  *)
(* pings only in silence, for every configuration a builder can be given    *)
(* and every timing.                                                        *)
(***************************************************************************)
EXTENDS SseBody, SequenceTheorems, TLAPS

\* The variables that are records keep their fields.
Shapes ==
  /\ config = [retry |-> config.retry, every |-> config.every, age |-> config.age,
               head |-> config.head]
  /\ body = [head |-> body.head, done |-> body.done, left |-> body.left,
             quiet |-> body.quiet]
  /\ task = [parked |-> task.parked, wakers |-> task.wakers]
  /\ wire = [opening |-> wire.opening, last |-> wire.last, silence |-> wire.silence]

-----------------------------------------------------------------------------
(* Wake-ups *)

\* A parked task has nothing to do and has left word with everything that can
\* change that.
Woken ==
  task.parked =>
    /\ serving /\ body.head = << >>
    /\ body.left # 0 /\ body.quiet # 0 /\ slot \in {"none", "over"}
    /\ "events" \in task.wakers
    /\ body.left # Off => "deadline" \in task.wakers
    /\ body.quiet # Off => "keep_alive" \in task.wakers

WakeInv == Shapes /\ Woken

LEMMA WakeInit == Init => WakeInv
  BY DEF Init, WakeInv, Shapes, Woken, Default

\* The builder works before anything is polled.
LEMMA BuilderShapes ==
  ASSUME Shapes, Builder
  PROVE  /\ ~serving /\ Shapes' /\ UNCHANGED <<task, wire, slot>>
<1>1. ASSUME NEW c, Set(c), c = [retry |-> c.retry, every |-> c.every, age |-> c.age,
                                 head |-> c.head]
      PROVE  ~serving /\ Shapes' /\ UNCHANGED <<task, wire, slot>>
  BY <1>1 DEF Set, Shapes
<1>2. CASE SetRetry
  <2>1. PICK on \in BOOLEAN : Set([config EXCEPT !.retry = on])
    BY <1>2 DEF SetRetry
  <2>2. QED
    BY <2>1, <1>1 DEF Shapes
<1>3. CASE SetKeepAlive
  <2>1. PICK every \in Everys \cup {Off} : Set([config EXCEPT !.every = every])
    BY <1>3 DEF SetKeepAlive
  <2>2. QED
    BY <2>1, <1>1 DEF Shapes
<1>4. CASE SetMaxAge
  <2>1. PICK age : Set([config EXCEPT !.age = age])
    BY <1>4 DEF SetMaxAge
  <2>2. QED
    BY <2>1, <1>1 DEF Shapes
<1>5. CASE SetWindow
  <2>1. PICK age : Set([config EXCEPT !.age = age])
    BY <1>5 DEF SetWindow
  <2>2. QED
    BY <2>1, <1>1 DEF Shapes
<1>6. CASE AddHead
  <2>1. PICK head : Set([config EXCEPT !.head = head])
    BY <1>6 DEF AddHead
  <2>2. QED
    BY <2>1, <1>1 DEF Shapes
<1>7. CASE Builds
  BY <1>7 DEF Builds, Shapes
<1>8. QED
  BY <1>2, <1>3, <1>4, <1>5, <1>6, <1>7 DEF Builder

\* A poll either returns something, and the task goes on, or parks it.
LEMMA PollShapes ==
  ASSUME Shapes, Poll
  PROVE  Shapes' /\ serving /\ serving' /\ config' = config
<1> USE DEF Shapes, Returns
<1>1. CASE PollHead
  BY <1>1 DEF PollHead
<1>2. CASE PollDone
  BY <1>2 DEF PollDone
<1>3. CASE PollDeadline
  BY <1>3 DEF PollDeadline
<1>4. CASE PollEvent
  BY <1>4 DEF PollEvent
<1>5. CASE PollFails
  BY <1>5 DEF PollFails
<1>6. CASE PollEnds
  BY <1>6 DEF PollEnds
<1>7. CASE PollPing
  BY <1>7 DEF PollPing
<1>8. CASE PollPending
  BY <1>8 DEF PollPending
<1>9. QED
  BY <1>1, <1>2, <1>3, <1>4, <1>5, <1>6, <1>7, <1>8 DEF Poll

LEMMA WakeNext == WakeInv /\ [Next]_vars => WakeInv'
<1> SUFFICES ASSUME WakeInv, [Next]_vars PROVE WakeInv'
  OBVIOUS
<1> USE DEF WakeInv
<1>1. CASE Builder
  BY <1>1, BuilderShapes DEF Woken
<1>2. CASE Poll
  <2>1. CASE PollPending
    <3>1. Woken'
      BY <2>1 DEF PollPending, Waits, Lasts, Streams, Woken
    <3>2. QED
      BY <1>2, <3>1, PollShapes
  <2>2. CASE ~PollPending
    <3>1. task' = [parked |-> FALSE, wakers |-> {}]
      BY <1>2, <2>2 DEF Poll, Returns, PollHead, PollDone, PollDeadline, PollEvent,
                        PollFails, PollEnds, PollPing
    <3>2. QED
      BY <1>2, <3>1, PollShapes DEF Woken
  <2>3. QED
    BY <2>1, <2>2
<1>3. CASE Tick
  <2>1. Shapes'
    BY <1>3 DEF Tick, Shapes
  <2>2. CASE task' = [parked |-> FALSE, wakers |-> {}]
    BY <2>1, <2>2 DEF Woken
  <2>3. CASE task' # [parked |-> FALSE, wakers |-> {}]
    <3>1. /\ task' = task
          /\ "deadline" \in task.wakers => body'.left # 0
          /\ "keep_alive" \in task.wakers => body'.quiet # 0
      BY <1>3, <2>3 DEF Tick
    <3>2. /\ body'.left = Less(body.left) /\ body'.quiet = Less(body.quiet)
          /\ body'.head = body.head /\ slot' = slot /\ serving' = serving
      BY <1>3 DEF Tick, Shapes
    <3>3. /\ Less(Off) = Off /\ Less(0) = 0
          /\ \A t : t \notin {Off, 0} => Less(t) = t - 1
      BY DEF Less
    <3>4. Woken'
      BY <3>1, <3>2, <3>3 DEF Woken, Off
    <3>5. QED
      BY <2>1, <3>4
  <2>4. QED
    BY <2>2, <2>3
<1>4. ASSUME NEW what \in {"event", "error", "end"}, Ready(what) PROVE WakeInv'
  BY <1>4 DEF Ready, Shapes, Woken
<1>5. CASE UNCHANGED vars
  BY <1>5 DEF vars, Shapes, Woken
<1>6. QED
  BY <1>1, <1>2, <1>3, <1>4, <1>5 DEF Next

\* No wake-up is lost (response.rs:57-106): a parked task has nothing to do,
\* whichever of the deadline, the stream and the keep-alive came last.
THEOREM NoWakeUpIsLost == Spec => []NothingToDoWhileParked
<1>1. WakeInv => NothingToDoWhileParked
  BY DEF WakeInv, Woken, NothingToDoWhileParked
<1>2. QED
  BY <1>1, WakeInit, WakeNext, PTL DEF Spec

-----------------------------------------------------------------------------
(* The head *)

IsSeq(s) == \E S : s \in Seq(S)

LEMMA SeqFacts ==
  /\ IsSeq(<< >>)
  /\ \A s, x : IsSeq(s) => /\ IsSeq(Append(s, x)) /\ Len(Append(s, x)) = Len(s) + 1
                           /\ \A i \in 1..Len(s) : Append(s, x)[i] = s[i]
                           /\ Append(s, x)[Len(s) + 1] = x
  /\ \A s : IsSeq(s) /\ s # << >> =>
       /\ IsSeq(Tail(s)) /\ Len(s) \in Nat \ {0} /\ Len(Tail(s)) = Len(s) - 1
       /\ Head(s) = s[1]
       /\ \A i \in 1..Len(Tail(s)) : Tail(s)[i] = s[i + 1]
  /\ \A s : IsSeq(s) => Len(s) \in Nat /\ (s = << >> <=> Len(s) = 0)
<1>1. IsSeq(<< >>)
  <2>1. << >> \in Seq({})
    OBVIOUS
  <2>2. QED
    BY <2>1 DEF IsSeq
<1>2. ASSUME NEW s, NEW x, IsSeq(s)
      PROVE  /\ IsSeq(Append(s, x)) /\ Len(Append(s, x)) = Len(s) + 1
             /\ \A i \in 1..Len(s) : Append(s, x)[i] = s[i]
             /\ Append(s, x)[Len(s) + 1] = x
  <2>1. PICK S : s \in Seq(S)
    BY <1>2 DEF IsSeq
  <2>2. s \in Seq(S \cup {x})
    BY <2>1
  <2>3. Append(s, x) \in Seq(S \cup {x})
    BY <2>2
  <2>4. QED
    BY <2>2, <2>3 DEF IsSeq
<1>3. ASSUME NEW s, IsSeq(s), s # << >>
      PROVE  /\ IsSeq(Tail(s)) /\ Len(s) \in Nat \ {0} /\ Len(Tail(s)) = Len(s) - 1
             /\ Head(s) = s[1]
             /\ \A i \in 1..Len(Tail(s)) : Tail(s)[i] = s[i + 1]
  <2>1. PICK S : s \in Seq(S)
    BY <1>3 DEF IsSeq
  <2>2. Tail(s) \in Seq(S)
    BY <1>3, <2>1
  <2>3. QED
    BY <1>3, <2>1, <2>2 DEF IsSeq
<1>4. ASSUME NEW s, IsSeq(s) PROVE Len(s) \in Nat /\ (s = << >> <=> Len(s) = 0)
  <2>1. PICK S : s \in Seq(S)
    BY <1>4 DEF IsSeq
  <2>2. QED
    BY <2>1
<1>5. QED
  BY <1>1, <1>2, <1>3, <1>4

LEMMA SeqGrows == ASSUME NEW s, NEW S, NEW U, s \in Seq(S), S \subseteq U PROVE s \in Seq(U)
  OBVIOUS

LEMMA BuildIsSeq ==
  ASSUME NEW c, IsSeq(c.head)
  PROVE  IsSeq(Build(c))
<1>1. PICK S : c.head \in Seq(S)
  BY DEF IsSeq
<1> DEFINE x == Plain("retry")
           y == PingFrame(c)
           h == c.head
           U == S \cup {x, y}
           quiet == c.every
           retry == IF c.retry THEN <<x>> ELSE << >>
           ping  == IF quiet = Off THEN << >> ELSE <<y>>
<1>2. h \in Seq(U)
  BY <1>1, SeqGrows
<1> HIDE DEF x, y, h, quiet
<1>3. retry \in Seq(U)
  OBVIOUS
<1>4. ping \in Seq(U)
  <2>1. <<y>> \in Seq(U) /\ << >> \in Seq(U)
    OBVIOUS
  <2> HIDE DEF U
  <2>2. CASE quiet = Off
    BY <2>1, <2>2
  <2>3. CASE quiet # Off
    BY <2>1, <2>3
  <2>4. QED
    BY <2>2, <2>3
<1> HIDE DEF U, retry, ping
<1>5. retry \o ping \o h \in Seq(U)
  BY <1>2, <1>3, <1>4
<1>6. QED
  BY <1>5 DEF Build, IsSeq, retry, ping, quiet, h, x, y

\* What has been sent (o) agrees with what was built (B), what is left of the
\* head (h) is the rest of it, and the end comes after the head.
Opens(o, h, done, B) ==
  /\ \A i \in 1..Len(o) : i <= Len(B) => o[i] = B[i]
  /\ h # << >> =>
       /\ Len(o) + Len(h) = Len(B)
       /\ \A i \in 1..Len(h) : h[i] = B[Len(o) + i]
  /\ h = << >> => Len(B) <= Len(o)
  /\ done => h = << >>

LEMMA OpensAtFirst == ASSUME NEW B, IsSeq(B) PROVE Opens(<< >>, B, FALSE, B)
<1>1. Len(B) \in Nat /\ (B = << >> <=> Len(B) = 0)
  BY SeqFacts
<1>2. Len(<< >>) = 0
  OBVIOUS
<1>3. QED
  BY <1>1, <1>2 DEF Opens

LEMMA OpensHead ==
  ASSUME NEW o, NEW h, NEW done, NEW B, IsSeq(o), IsSeq(h), IsSeq(B),
         Opens(o, h, done, B), h # << >>
  PROVE  /\ Len(o) <= Len(B) /\ ~done
         /\ IsSeq(Append(o, Head(h))) /\ IsSeq(Tail(h))
         /\ Opens(Append(o, Head(h)), Tail(h), done, B)
<1> DEFINE x == Head(h)
           p == Append(o, x)
           q == Tail(h)
<1>1. /\ Len(o) \in Nat /\ Len(B) \in Nat
      /\ IsSeq(p) /\ Len(p) = Len(o) + 1 /\ p[Len(o) + 1] = x
      /\ \A i \in 1..Len(o) : p[i] = o[i]
  BY SeqFacts
<1>2. /\ IsSeq(q) /\ Len(h) \in Nat \ {0} /\ Len(q) = Len(h) - 1 /\ x = h[1]
      /\ \A i \in 1..Len(q) : q[i] = h[i + 1]
  BY SeqFacts
<1>3. q = << >> <=> Len(q) = 0
  BY <1>2, SeqFacts
<1>4. /\ Len(o) + Len(h) = Len(B) /\ \A i \in 1..Len(h) : h[i] = B[Len(o) + i]
      /\ \A i \in 1..Len(o) : i <= Len(B) => o[i] = B[i]
      /\ ~done
  BY DEF Opens
<1> HIDE DEF p, q, x
<1>5. \A i \in 1..Len(p) : i <= Len(B) => p[i] = B[i]
  BY <1>1, <1>2, <1>4
<1>6. \A i \in 1..Len(q) : q[i] = B[Len(p) + i]
  <2>1. SUFFICES ASSUME NEW i \in 1..Len(q) PROVE q[i] = B[Len(p) + i]
    OBVIOUS
  <2>2. i + 1 \in 1..Len(h) /\ Len(p) + i = Len(o) + (i + 1)
    BY <1>1, <1>2
  <2>3. QED
    BY <1>2, <1>4, <2>2
<1>7. Len(p) + Len(q) = Len(B) /\ Len(o) <= Len(B)
  <2>1. /\ Len(o) \in Nat /\ Len(B) \in Nat /\ Len(h) \in Nat /\ Len(p) = Len(o) + 1
        /\ Len(q) = Len(h) - 1 /\ Len(o) + Len(h) = Len(B)
    BY <1>1, <1>2, <1>4
  <2>2. QED
    BY <2>1
<1>8. q = << >> => Len(B) <= Len(p)
  <2>1. Len(p) \in Nat /\ Len(B) \in Nat
    BY <1>1
  <2>2. q = << >> => Len(p) + 0 = Len(B)
    BY <1>3, <1>7
  <2>3. QED
    BY <2>1, <2>2
<1>9. Opens(p, q, done, B)
  BY <1>4, <1>5, <1>6, <1>7, <1>8 DEF Opens
<1>10. QED
  BY <1>1, <1>2, <1>4, <1>7, <1>9 DEF p, q, x

LEMMA OpensAfterHead ==
  ASSUME NEW o, NEW done, NEW B, NEW later, NEW x, IsSeq(o), IsSeq(B),
         Opens(o, << >>, done, B)
  PROVE  /\ Opens(o, << >>, later, B)
         /\ Opens(Append(o, x), << >>, later, B) /\ IsSeq(Append(o, x))
<1>1. /\ Len(o) \in Nat /\ Len(B) \in Nat
      /\ IsSeq(Append(o, x)) /\ Len(Append(o, x)) = Len(o) + 1
      /\ \A i \in 1..Len(o) : Append(o, x)[i] = o[i]
  BY SeqFacts
<1>2. Len(B) <= Len(o) /\ \A i \in 1..Len(o) : i <= Len(B) => o[i] = B[i]
  BY DEF Opens
<1>3. Len(B) <= Len(Append(o, x))
  BY <1>1, <1>2
<1>4. \A i \in 1..Len(Append(o, x)) : i <= Len(B) => Append(o, x)[i] = B[i]
  BY <1>1, <1>2
<1>5. QED
  BY <1>1, <1>2, <1>3, <1>4 DEF Opens

Opening == Opens(wire.opening, body.head, body.done, Build(config))

HeadInv ==
  /\ Shapes
  /\ IsSeq(wire.opening) /\ IsSeq(body.head) /\ IsSeq(config.head)
  /\ ~serving => wire.opening = << >> /\ body.head = << >> /\ ~body.done
  /\ serving => Opening

LEMMA HeadInit == Init => HeadInv
  BY SeqFacts DEF Init, HeadInv, Shapes, Default

LEMMA HeadNext == HeadInv /\ [Next]_vars => HeadInv'
<1> SUFFICES ASSUME HeadInv, [Next]_vars PROVE HeadInv'
  OBVIOUS
<1>b. IsSeq(Build(config))
  BY BuildIsSeq DEF HeadInv
<1>1. CASE Builder
  <2>1. ~serving /\ Shapes' /\ wire' = wire
    BY <1>1, BuilderShapes DEF HeadInv
  <2>2. CASE Builds
    <3>1. /\ serving' /\ body'.head = Build(config) /\ body'.done = FALSE
          /\ config' = config
      BY <2>2 DEF Builds
    <3>2. wire'.opening = << >>
      BY <2>1 DEF HeadInv
    <3>3. Opens(<< >>, Build(config), FALSE, Build(config))
      BY <1>b, OpensAtFirst
    <3>4. Opening'
      BY <3>1, <3>2, <3>3 DEF Opening
    <3>5. QED
      BY <2>1, <3>1, <3>4, <1>b DEF HeadInv
  <2>3. CASE ~Builds
    <3>1. ASSUME NEW c, Set(c), IsSeq(c.head) PROVE HeadInv'
      <4>1. config' = c /\ UNCHANGED <<serving, body>>
        BY <3>1 DEF Set
      <4>2. QED
        BY <2>1, <3>1, <4>1 DEF HeadInv
    <3>2. CASE AddHead
      <4>1. PICK kind : Set([config EXCEPT !.head = Append(@, Plain(kind))])
        BY <3>2 DEF AddHead
      <4> DEFINE c == [config EXCEPT !.head = Append(@, Plain(kind))]
      <4>2. c.head = Append(config.head, Plain(kind))
        BY DEF HeadInv, Shapes
      <4>3. IsSeq(Append(config.head, Plain(kind)))
        BY SeqFacts DEF HeadInv
      <4>4. Set(c) /\ IsSeq(c.head)
        BY <4>1, <4>2, <4>3
      <4> HIDE DEF c
      <4>5. QED
        BY <4>4, <3>1
    <3>3. CASE SetRetry
      <4>1. PICK on \in BOOLEAN : Set([config EXCEPT !.retry = on])
        BY <3>3 DEF SetRetry
      <4>2. QED
        BY <4>1, <3>1 DEF HeadInv, Shapes
    <3>4. CASE SetKeepAlive
      <4>1. PICK every \in Everys \cup {Off} : Set([config EXCEPT !.every = every])
        BY <3>4 DEF SetKeepAlive
      <4>2. QED
        BY <4>1, <3>1 DEF HeadInv, Shapes
    <3>5. CASE SetMaxAge \/ SetWindow
      <4>1. PICK age : Set([config EXCEPT !.age = age])
        BY <3>5 DEF SetMaxAge, SetWindow
      <4>2. QED
        BY <4>1, <3>1 DEF HeadInv, Shapes
    <3>6. QED
      BY <1>1, <2>3, <3>2, <3>3, <3>4, <3>5 DEF Builder
  <2>4. QED
    BY <2>2, <2>3
<1>2. CASE Poll
  <2>1. /\ serving /\ serving' /\ Shapes' /\ config' = config
        /\ IsSeq(config'.head) /\ Build(config') = Build(config)
    BY <1>2, PollShapes DEF HeadInv
  <2>2. Opening /\ IsSeq(wire.opening) /\ IsSeq(body.head)
    BY <2>1 DEF HeadInv
  <2>3. ASSUME NEW what, Returns(what)
        PROVE  wire'.opening = IF Len(wire.opening) <= Len(Build(config))
                               THEN Append(wire.opening, what) ELSE wire.opening
    BY <2>3 DEF Returns
  <2>4. CASE PollPending
    <3>1. wire'.opening = wire.opening /\ body' = body
      BY <2>4 DEF PollPending, HeadInv, Shapes
    <3>2. QED
      BY <2>1, <2>2, <3>1 DEF HeadInv, Opening
  <2>5. CASE PollHead
    <3>1. /\ body.head # << >> /\ body'.head = Tail(body.head) /\ body'.done = body.done
          /\ Returns(Head(body.head))
      BY <2>5 DEF PollHead, HeadInv, Shapes
    <3>2. /\ Len(wire.opening) <= Len(Build(config))
          /\ IsSeq(Append(wire.opening, Head(body.head))) /\ IsSeq(Tail(body.head))
          /\ Opens(Append(wire.opening, Head(body.head)), Tail(body.head), body.done,
                   Build(config))
      BY <3>1, <2>2, <1>b, OpensHead DEF Opening
    <3>3. wire'.opening = Append(wire.opening, Head(body.head))
      BY <3>1, <3>2, <2>3
    <3>4. QED
      BY <2>1, <3>1, <3>2, <3>3 DEF HeadInv, Opening
  <2>6. CASE ~PollPending /\ ~PollHead
    <3>1. PICK what : Returns(what)
      BY <1>2, <2>6 DEF Poll, PollDone, PollDeadline, PollEvent, PollFails, PollEnds, PollPing
    <3>2. body.head = << >> /\ body'.head = << >>
      BY <1>2, <2>6 DEF Poll, PollDone, IsEndStream, PollDeadline, PollEvent, PollFails,
                        PollEnds, PollPing, Waits, Lasts, Streams, HeadInv, Shapes
    <3>3. \/ wire'.opening = wire.opening
          \/ wire'.opening = Append(wire.opening, what)
      BY <3>1, <2>3
    <3>4. /\ Opens(wire.opening, << >>, body'.done, Build(config))
          /\ Opens(Append(wire.opening, what), << >>, body'.done, Build(config))
          /\ IsSeq(Append(wire.opening, what))
      BY <3>2, <2>2, <1>b, OpensAfterHead DEF Opening
    <3>5. Opens(wire'.opening, << >>, body'.done, Build(config)) /\ IsSeq(wire'.opening)
      BY <2>2, <3>3, <3>4
    <3>6. QED
      BY <2>1, <2>2, <3>2, <3>5 DEF HeadInv, Opening
  <2>7. QED
    BY <2>4, <2>5, <2>6
<1>3. CASE Tick
  <2>1. /\ wire'.opening = wire.opening /\ body'.head = body.head /\ body'.done = body.done
        /\ UNCHANGED <<config, serving>> /\ Shapes'
    BY <1>3 DEF Tick, HeadInv, Shapes
  <2>2. QED
    BY <2>1 DEF HeadInv, Opening
<1>4. ASSUME NEW what \in {"event", "error", "end"}, Ready(what) PROVE HeadInv'
  <2>1. UNCHANGED <<config, serving, body, wire>> /\ Shapes'
    BY <1>4 DEF Ready, HeadInv, Shapes
  <2>2. QED
    BY <2>1 DEF HeadInv, Opening
<1>5. CASE UNCHANGED vars
  BY <1>5 DEF vars, HeadInv, Shapes, Opening
<1>6. QED
  BY <1>1, <1>2, <1>3, <1>4, <1>5 DEF Next

LEMMA OpeningIsPrefix == HeadInv => HeadIsWhole
<1> SUFFICES ASSUME HeadInv PROVE HeadIsWhole
  OBVIOUS
<1> DEFINE B == Build(config)
           s == wire.opening
<1>1. PICK S, U : s \in Seq(S) /\ B \in Seq(U)
  BY BuildIsSeq DEF HeadInv, IsSeq
<1>2. CASE ~serving
  <2>1. s = << >> /\ ~body.done
    BY <1>2 DEF HeadInv
  <2>2. IsPrefix(s, B)
    BY <1>1, <2>1 DEF IsPrefix
  <2>3. QED
    BY <2>1, <2>2 DEF HeadIsWhole
<1>3. CASE serving
  <2>1. \A i \in 1..Len(s) : i <= Len(B) => s[i] = B[i]
    BY <1>3 DEF HeadInv, Opening, Opens
  <2>2. body.done => Len(B) <= Len(s)
    BY <1>3 DEF HeadInv, Opening, Opens
  <2>3. Len(s) \in Nat /\ Len(B) \in Nat
    BY <1>1
  <2> HIDE DEF B, s
  <2>4. CASE Len(s) <= Len(B)
    <3>1. SubSeq(s, 1, Len(s)) = SubSeq(B, 1, Len(s))
      BY <1>1, <2>1, <2>3, <2>4
    <3>2. Len(s) = Len(B) => SubSeq(B, 1, Len(B)) = SubSeq(s, 1, Len(B))
      BY <3>1
    <3>3. QED
      BY <3>1, <3>2, <2>2, <2>3, <2>4 DEF IsPrefix, HeadIsWhole, B, s
  <2>5. CASE Len(B) <= Len(s)
    <3>1. SubSeq(B, 1, Len(B)) = SubSeq(s, 1, Len(B))
      BY <1>1, <2>1, <2>3, <2>5
    <3>2. QED
      BY <3>1, <2>5 DEF IsPrefix, HeadIsWhole, B, s
  <2>6. QED
    BY <2>3, <2>4, <2>5
<1>4. QED
  BY <1>2, <1>3

\* The head goes first, whole and in its order, and before the response ends
\* (response.rs:62-71): a client that resumed is always told of a resync.
THEOREM HeadsAreWhole == Spec => []HeadIsWhole
  BY HeadInit, HeadNext, OpeningIsPrefix, PTL DEF Spec

-----------------------------------------------------------------------------
(* What a step may do *)

\* Only a poll that returns the event empties the slot it was in.
LEMMA OnlySentIsTaken ==
  ASSUME [Next]_vars, slot = "event", slot' # slot
  PROVE  wire'.last.kind = "event"
<1>1. ~ UNCHANGED vars
  BY DEF vars
<1>2. CASE Poll
  <2>1. PollEvent
    BY <1>2 DEF Poll, PollHead, PollDone, PollDeadline, PollFails, PollEnds, PollPing, PollPending
  <2>2. wire'.last = Plain("event")
    BY <2>1 DEF PollEvent, Returns
  <2>3. QED
    BY <2>2 DEF Plain
<1>3. ~Builder /\ ~Tick
  BY DEF Builder, SetRetry, SetKeepAlive, SetMaxAge, SetWindow, AddHead, Builds, Set, Tick
<1>4. ~ \E what \in {"event", "error", "end"} : Ready(what)
  BY DEF Ready
<1>5. QED
  BY <1>1, <1>2, <1>3, <1>4 DEF Next

\* The end by rotation falls between frames (response.rs:72-77): what is taken
\* from the event stream is sent.
THEOREM EventsAreSent == Spec => NothingIsSwallowed
<1>1. [Next]_vars => (slot = "event" /\ slot' # slot => wire'.last.kind = "event")
  BY OnlySentIsTaken
<1>2. [Next]_vars => [slot = "event" /\ slot' # slot => wire'.last.kind = "event"]_vars
  BY <1>1
<1>3. QED
  BY <1>2, PTL DEF Spec, NothingIsSwallowed

\* While a response goes on, the keep-alive has left what the silence lacks.
Measured(every, quiet, silence) ==
  \/ every = Off /\ quiet = Off
  \/ every \in Nat /\ quiet \in Nat /\ silence \in Nat /\ quiet + silence = every

QuietInv ==
  /\ Shapes
  /\ config.every \in Nat \cup {Off}
  /\ ~serving => wire.silence = 0
  /\ serving /\ ~body.done => Measured(config.every, body.quiet, wire.silence)

LEMMA QuietInit == Init => QuietInv
<1> SUFFICES ASSUME Init PROVE QuietInv
  OBVIOUS
<1>1. Shapes
  BY WakeInit DEF WakeInv
<1>2. PingEverySecs * Second \in Nat
  BY TimeAssumption
<1>3. QED
  BY <1>1, <1>2 DEF Init, Default, QuietInv

LEMMA BuilderEvery ==
  ASSUME QuietInv, Builder
  PROVE  /\ config'.every \in Nat \cup {Off} /\ ~serving /\ wire' = wire
         /\ serving' => Measured(config'.every, body'.quiet, wire'.silence)
<1>1. ~serving /\ wire' = wire /\ wire.silence = 0
  BY BuilderShapes DEF QuietInv
<1>2. CASE Builds
  <2>1. config' = config /\ body'.quiet = config.every
    BY <1>2 DEF Builds
  <2>2. QED
    BY <1>1, <2>1 DEF QuietInv, Measured
<1>3. CASE SetKeepAlive
  <2>1. PICK every \in Everys \cup {Off} : Set([config EXCEPT !.every = every])
    BY <1>3 DEF SetKeepAlive
  <2>2. config'.every = every /\ serving' = serving
    BY <2>1 DEF Set, QuietInv, Shapes
  <2>3. QED
    BY <1>1, <2>1, <2>2, TimeAssumption
<1>4. CASE SetRetry \/ SetMaxAge \/ SetWindow \/ AddHead
  <2>1. config'.every = config.every /\ serving' = serving
    <3>1. ASSUME NEW c, Set(c), c.every = config.every
          PROVE  config'.every = config.every /\ serving' = serving
      BY <3>1 DEF Set
    <3>2. ASSUME NEW x PROVE /\ [config EXCEPT !.retry = x].every = config.every
                             /\ [config EXCEPT !.age = x].every = config.every
                             /\ [config EXCEPT !.head = x].every = config.every
      BY DEF QuietInv, Shapes
    <3>3. CASE SetRetry
      BY <3>1, <3>2, <3>3 DEF SetRetry
    <3>4. CASE SetMaxAge
      BY <3>1, <3>2, <3>4 DEF SetMaxAge
    <3>5. CASE SetWindow
      BY <3>1, <3>2, <3>5 DEF SetWindow
    <3>6. CASE AddHead
      <4>1. PICK head : Set([config EXCEPT !.head = head])
        BY <3>6 DEF AddHead
      <4>2. QED
        BY <3>1, <3>2, <4>1
    <3>7. QED
      BY <1>4, <3>3, <3>4, <3>5, <3>6
  <2>2. QED
    BY <1>1, <2>1 DEF QuietInv
<1>5. QED
  BY <1>2, <1>3, <1>4 DEF Builder

\* An event and a ping start the keep-alive again, and with it the silence.
LEMMA PollMeasured ==
  ASSUME QuietInv, Poll, ~body'.done
  PROVE  Measured(config'.every, body'.quiet, wire'.silence)
<1>1. Shapes' /\ serving /\ config' = config
  BY PollShapes DEF QuietInv
<1>2. ~body.done /\ Measured(config.every, body.quiet, wire.silence)
  BY <1>1 DEF QuietInv, Poll, PollHead, PollDone, IsEndStream, PollDeadline, PollEvent, PollFails,
              PollEnds, PollPing, PollPending, Waits, Lasts, Streams, Shapes
<1>3. CASE PollHead
  <2>1. body'.quiet = body.quiet /\ wire'.silence = wire.silence
    BY <1>3 DEF PollHead, Returns, QuietInv, Shapes
  <2>2. QED
    BY <1>1, <1>2, <2>1
<1>4. CASE PollEvent \/ PollPing
  <2>1. body'.quiet = config.every /\ wire'.silence = 0
    BY <1>4 DEF PollEvent, PollPing, Waits, Lasts, Streams, Returns, QuietInv, Shapes
  <2>2. QED
    BY <1>1, <2>1 DEF QuietInv, Measured
<1>5. CASE PollPending
  <2>1. body' = body /\ wire'.silence = wire.silence
    BY <1>5 DEF PollPending, QuietInv, Shapes
  <2>2. QED
    BY <1>1, <1>2, <2>1
<1>6. CASE PollDone \/ PollDeadline \/ PollFails \/ PollEnds
  BY <1>2, <1>6 DEF PollDone, IsEndStream, PollDeadline, PollFails, PollEnds, QuietInv, Shapes
<1>7. QED
  BY <1>3, <1>4, <1>5, <1>6 DEF Poll

LEMMA QuietNext == QuietInv /\ [Next]_vars => QuietInv'
<1> SUFFICES ASSUME QuietInv, [Next]_vars PROVE QuietInv'
  OBVIOUS
<1>1. CASE Builder
  BY <1>1, BuilderShapes, BuilderEvery DEF QuietInv
<1>2. CASE Poll
  BY <1>2, PollShapes, PollMeasured DEF QuietInv
<1>3. CASE Tick
  <2>1. /\ serving /\ serving' = serving /\ config' = config /\ Shapes'
        /\ body'.done = body.done /\ body'.quiet = Less(body.quiet)
        /\ wire'.silence = IF config.every = Off \/ wire.silence = config.every
                           THEN wire.silence ELSE wire.silence + 1
    BY <1>3 DEF Tick, QuietInv, Shapes
  <2>2. ASSUME Measured(config.every, body.quiet, wire.silence)
        PROVE  Measured(config'.every, body'.quiet, wire'.silence)
    BY <2>1, <2>2 DEF Measured, Less, Off
  <2>3. QED
    BY <2>1, <2>2 DEF QuietInv
<1>4. ASSUME NEW what \in {"event", "error", "end"}, Ready(what) PROVE QuietInv'
  BY <1>4 DEF Ready, QuietInv, Shapes
<1>5. CASE UNCHANGED vars
  BY <1>5 DEF vars, QuietInv, Shapes
<1>6. QED
  BY <1>1, <1>2, <1>3, <1>4, <1>5 DEF Next

\* The whole seconds a ping announces, twice over and with the slack, are
\* longer than the interval they were cut from.
LEMMA AnnouncedIsLonger ==
  ASSUME NEW c, c.every \in Nat
  PROVE  c.every < (2 * PingFrame(c).every + Slack) * Second
<1> DEFINE secs == c.every \div Second
           said == IF secs > 0 THEN secs ELSE PingEverySecs
<1>1. /\ Second \in Nat \ {0} /\ PingEverySecs \in Nat \ {0} /\ Slack \in Nat \ {0}
  BY TimeAssumption
<1>2. secs \in Nat /\ c.every < (secs + 1) * Second
  BY <1>1
<1>3. PingFrame(c).every = said
  BY DEF PingFrame
<1> HIDE DEF secs
<1>4. said \in Nat /\ secs + 1 <= 2 * said + Slack
  BY <1>1, <1>2
<1> HIDE DEF said
<1>5. ASSUME NEW a \in Nat, NEW b \in Nat, a <= b PROVE a * Second <= b * Second
  BY <1>1, <1>5
<1>6. (secs + 1) * Second <= (2 * said + Slack) * Second
  BY <1>1, <1>2, <1>4, <1>5
<1>7. (secs + 1) * Second \in Nat /\ (2 * said + Slack) * Second \in Nat
  BY <1>1, <1>2, <1>4
<1>8. PICK a \in Nat, b \in Nat : a = (secs + 1) * Second /\ b = (2 * said + Slack) * Second
  BY <1>7
<1>9. c.every < a /\ a <= b
  BY <1>2, <1>6, <1>8
<1>10. c.every < b
  BY <1>9
<1>11. QED
  BY <1>3, <1>8, <1>10

\* A ping after the head comes when the stream was quiet for the whole interval
\* (response.rs:96-104, 233), and no client that follows what it announces
\* takes that quiet for a dead connection.
THEOREM PingsMeanSilence == Spec => PingsOnlyInSilence
<1>1. ASSUME QuietInv, PollPing
      PROVE  /\ wire.silence = config.every
             /\ config.every < (2 * wire'.last.every + Slack) * Second
  <2>1. serving /\ ~body.done /\ body.quiet = 0 /\ wire'.last = PingFrame(config)
    BY <1>1 DEF PollPing, Waits, Lasts, Streams, Returns
  <2>2. Measured(config.every, 0, wire.silence)
    BY <1>1, <2>1 DEF QuietInv
  <2>3. config.every \in Nat /\ wire.silence = config.every
    BY <2>2 DEF Measured, Off
  <2>4. QED
    BY <2>1, <2>3, AnnouncedIsLonger
<1>2. QuietInv => (PollPing => /\ wire.silence = config.every
                               /\ config.every < (2 * wire'.last.every + Slack) * Second)
  BY <1>1
<1>3. QED
  BY <1>2, QuietInit, QuietNext, PTL DEF Spec, PingsOnlyInSilence
=============================================================================
