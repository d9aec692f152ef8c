-------------------------- MODULE RustClientProofs --------------------------
(***************************************************************************)
(* The request of the Rust client names the last frame it handed over, and  *)
(* its dead-man raises no false alarm, for any frames, any length of chunks *)
(* and any channel.  What a fold over a chunk computes is not needed: the   *)
(* cursor stored and the id of the last message of a chunk are the same     *)
(* fold.                                                                    *)
(***************************************************************************)
EXTENDS RustClient, SequenceTheorems, WellFoundedInduction, TLAPS

IsSeq(s) == \E S : s \in Seq(S)

\* While messages of a chunk are still to be sent, the last of them carries the
\* cursor; then the cursor is the one given.
CursorIsTheLasts ==
  IF todo = << >> THEN given = cursor ELSE todo[Len(todo)].id = cursor

\* The inductive invariant: the messages of a chunk are pending exactly while
\* the task delivers, and what has arrived are chunks.
IInv ==
  /\ IsSeq(todo)
  /\ pc # "stopped" => /\ pc = "deliver" <=> todo # << >>
                       /\ CursorIsTheLasts
  /\ inbox = << >> \/ \E chunk \in Chunks : inbox = <<chunk>>

LEMMA InitInv == Init => IInv
<1>1. << >> \in Seq({})
  OBVIOUS
<1>2. QED
  BY <1>1 DEF Init, IInv, IsSeq, CursorIsTheLasts

LEMMA ParsedLast ==
  ASSUME NEW chunk \in Chunks
  PROVE  /\ IsSeq(Parsed(chunk))
         /\ chunk = << >> <=> Parsed(chunk) = << >>
         /\ chunk # << >> =>
              Parsed(chunk)[Len(Parsed(chunk))].id = FoldLeft(InForce, cursor, chunk)
<1> DEFINE message(k) == [kind |-> chunk[k].kind,
                          id |-> FoldLeft(InForce, cursor, SubSeq(chunk, 1, k))]
           S == {message(k) : k \in DOMAIN chunk}
<1>1. PICK n \in 0..MaxChunk : chunk \in [1..n -> Frames]
  BY DEF Chunks
<1>2. chunk \in Seq(Frames) /\ Len(chunk) = n /\ DOMAIN chunk = 1..n /\ n \in Nat
  BY <1>1
<1>3. Parsed(chunk) = [k \in 1..n |-> message(k)]
  BY <1>2 DEF Parsed
<1> HIDE DEF message
<1>4. Parsed(chunk) \in [1..n -> S]
  BY <1>2, <1>3
<1>5. Parsed(chunk) \in Seq(S) /\ Len(Parsed(chunk)) = n
  BY <1>2, <1>4
<1>6. n # 0 => Parsed(chunk)[n] = message(n)
  BY <1>2, <1>3
<1>7. SubSeq(chunk, 1, n) = chunk
  BY <1>2
<1>8. message(n).id = FoldLeft(InForce, cursor, chunk)
  BY <1>7 DEF message
<1>9. QED
  BY <1>2, <1>5, <1>6, <1>8 DEF IsSeq

LEMMA TailLast ==
  ASSUME NEW s, IsSeq(s), s # << >>
  PROVE  /\ IsSeq(Tail(s))
         /\ Len(s) = 1 <=> Tail(s) = << >>
         /\ Tail(s) = << >> => Head(s) = s[Len(s)]
         /\ Tail(s) # << >> => Tail(s)[Len(Tail(s))] = s[Len(s)]
<1>1. PICK S : s \in Seq(S)
  BY DEF IsSeq
<1>2. Tail(s) \in Seq(S) /\ Len(Tail(s)) = Len(s) - 1 /\ Len(s) \in Nat \ {0}
  BY <1>1
<1>3. Head(s) = s[1]
  BY <1>1
<1>4. \A i \in 1..Len(Tail(s)) : Tail(s)[i] = s[i + 1]
  BY <1>1
<1>5. QED
  BY <1>1, <1>2, <1>3, <1>4 DEF IsSeq

LEMMA NextInv == IInv /\ [Next]_vars => IInv'
<1> SUFFICES ASSUME IInv, [Next]_vars PROVE IInv'
  OBVIOUS
<1> USE DEF IInv, CursorIsTheLasts, Body, History
<1>1. CASE Announce
  BY <1>1 DEF Announce, Says
<1>2. ASSUME NEW cause \in {"transport", "http"}, RequestFails(cause) PROVE IInv'
  BY <1>2 DEF RequestFails
<1>3. CASE HeadArrives
  BY <1>3 DEF HeadArrives
<1>4. CASE GoLive
  BY <1>4 DEF GoLive, Says
<1>5. CASE Read
  <2>1. PICK chunk \in Chunks : inbox = <<chunk>>
    BY <1>5 DEF Read
  <2>2. Head(inbox) = chunk /\ Tail(inbox) = << >>
    BY <2>1
  <2>3. todo = << >> /\ given = cursor
    BY <1>5 DEF Read
  <2>4. /\ todo' = Parsed(chunk) /\ cursor' = Stored(cursor, chunk) /\ given' = given
        /\ inbox' = << >>
        /\ pc' = IF todo' = << >> THEN "read" ELSE "deliver"
    BY <1>5, <2>2 DEF Read
  <2>5. CASE chunk = << >>
    BY <2>3, <2>4, <2>5, ParsedLast DEF Stored
  <2>6. CASE chunk # << >>
    BY <2>4, <2>6, ParsedLast DEF Stored
  <2>7. QED
    BY <2>5, <2>6
<1>6. CASE Deliver
  <2>1. todo # << >>
    BY <1>6 DEF Deliver
  <2>2. /\ todo' = Tail(todo) /\ given' = Head(todo).id /\ cursor' = cursor
        /\ inbox' = inbox
        /\ pc' = IF Len(todo) = 1 THEN "read" ELSE "deliver"
        /\ pc = "deliver"
    BY <1>6 DEF Deliver
  <2>3. QED
    BY <2>1, <2>2, TailLast
<1>7. CASE ReadEnds
  BY <1>7 DEF ReadEnds
<1>8. CASE DeadmanFires
  BY <1>8 DEF DeadmanFires
<1>9. CASE Retry
  BY <1>9 DEF Retry, Says
<1>10. CASE Wake
  BY <1>10 DEF Wake
<1>11. CASE Recv
  BY <1>11 DEF Recv
<1>12. CASE Drop
  <2>1. IsSeq(<< >>)
    <3>1. << >> \in Seq({})
      OBVIOUS
    <3>2. QED
      BY <3>1 DEF IsSeq
  <2>2. QED
    BY <1>12, <2>1 DEF Drop
<1>13. CASE Tick
  BY <1>13 DEF Tick
<1>14. ASSUME NEW chunk \in Chunks, Arrives(chunk) PROVE IInv'
  BY <1>14 DEF Arrives
<1>15. ASSUME NEW how \in {"ended", "failed", "silent"}, Finishes(how) PROVE IInv'
  BY <1>15 DEF Finishes
<1>16. CASE UNCHANGED vars
  BY <1>16 DEF vars
<1>17. QED
  BY <1>1, <1>2, <1>3, <1>4, <1>5, <1>6, <1>7, <1>8, <1>9, <1>10, <1>11, <1>12,
     <1>13, <1>14, <1>15, <1>16 DEF Next, Task

LEMMA InvariantHolds == Spec => []IInv
  BY InitInv, NextInv, PTL DEF Spec

\* The cursor a request carries (lib.rs:256-258) is the one in force at the
\* last frame handed over, whatever a chunk held and however slow the consumer.
THEOREM RequestsNameTheLast == Spec => []RequestNamesTheLast
<1>1. IInv => RequestNamesTheLast
  BY DEF IInv, CursorIsTheLasts, RequestNamesTheLast
<1>2. QED
  BY <1>1, InvariantHolds, PTL

-----------------------------------------------------------------------------
(* The dead-man *)

\* A non-empty set of naturals with an upper bound has a greatest member.
LEMMA MaxOfNaturals ==
  ASSUME NEW n \in Nat, NEW S, S \subseteq 0..n, S # {}
  PROVE  Max(S) \in S
<1> DEFINE below == {n - k : k \in S}
           less  == {p \in Nat \X Nat : p[1] < p[2]}
<1>1. IsWellFoundedOn(less, Nat)
  BY NatLessThanWellFounded DEF OpToRel
<1>2. below \subseteq Nat /\ below # {}
  <2>1. ASSUME NEW k \in S PROVE k \in Int /\ n - k \in Nat
    <3>1. k \in 0..n
      OBVIOUS
    <3>2. QED
      BY <3>1
  <2>2. QED
    BY <2>1
<1> HIDE DEF below
<1>3. PICK x \in below : \A y \in below : ~ (<<y, x>> \in less)
  BY <1>1, <1>2, WFMin
<1>4. PICK k \in S : x = n - k
  BY <1>3 DEF below
<1>5. ASSUME NEW j \in S PROVE k >= j
  <2>1. n - j \in below /\ <<n - j, x>> \in Nat \X Nat
    BY <1>2, <1>3 DEF below
  <2>2. ~ (n - j < x)
    BY <1>3, <2>1
  <2>3. QED
    BY <1>4, <2>2
<1>6. \E m \in S : \A j \in S : m >= j
  BY <1>5
<1>7. QED
  BY <1>6 DEF Max

\* What a ping may announce.
Every == {f.every : f \in {g \in Frames : Announces(g)}} \cup {Off}

LEMMA AnnouncedType ==
  ASSUME NEW chunk \in Chunks
  PROVE  Announced(chunk) \in Every
<1> DEFINE said == {k \in DOMAIN chunk : Announces(chunk[k])}
<1>1. PICK n \in 0..MaxChunk : chunk \in [1..n -> Frames]
  BY DEF Chunks
<1>2. CASE said = {}
  BY <1>2 DEF Announced, Every
<1>3. CASE said # {}
  <2>1. n \in Nat /\ said \subseteq 0..n
    BY <1>1
  <2>2. Max(said) \in said
    <3> HIDE DEF said
    <3>1. QED
      BY <1>3, <2>1, MaxOfNaturals
  <2>3. chunk[Max(said)] \in Frames /\ Announces(chunk[Max(said)])
    BY <1>1, <2>2
  <2>4. Announced(chunk) = chunk[Max(said)].every
    BY <1>3 DEF Announced
  <2>5. QED
    BY <2>3, <2>4 DEF Every
<1>4. QED
  BY <1>2, <1>3

\* The window that a connection which announced "every" is to have.
WindowFor(every) == IF AutoDeadman /\ every # Off THEN DeadmanFor(every) ELSE DefaultWindow

\* What has arrived and is not read is known to "promised" already.
Unread == IF inbox = << >> THEN Off ELSE Announced(inbox[1])

WindowFits(window) ==
  IF Unread = Off THEN window = WindowFor(promised)
  ELSE promised = Unread /\ (~AutoDeadman => window = DefaultWindow)

\* The dead-man's clock is no older than the silence, and its window is the one
\* of the pings that were read.
Watching ==
  /\ quiet \in Nat /\ promised \in Every /\ DOMAIN reader = {"seen", "window", "idle"}
  /\ pc \notin {"greet", "read", "deliver"} => link \notin {"open", "silent"}
  /\ pc = "greet" => WindowFits(DefaultWindow)
  /\ pc \in {"read", "deliver"} => reader.idle \in Nat /\ WindowFits(reader.window)
  /\ pc = "read" /\ inbox = << >> => reader.idle <= quiet
  /\ pc = "deliver" => reader.idle = 0
  /\ pc = "retry" /\ why = "deadman" => quiet >= WindowFor(promised)

LEMMA TickWatches ==
  ASSUME Watching, Tick
  PROVE  Watching'
<1>1. quiet' = Older(quiet) /\ quiet \in Nat
  BY DEF Tick, Watching
<1>2. quiet' \in Nat /\ quiet <= quiet'
  BY <1>1 DEF Older
<1>3. /\ pc' = pc /\ why' = why /\ link' = link /\ inbox' = inbox /\ promised' = promised
      /\ pc \in {"greet", "read", "deliver"}
  BY DEF Tick, History, Watching
<1>4. Unread' = Unread
  BY <1>3 DEF Unread
<1>5. CASE pc = "read" /\ inbox = << >>
  <2>1. reader' = [reader EXCEPT !.idle = Older(@)] /\ reader.idle \in Nat /\ reader.idle <= quiet
    BY <1>5 DEF Tick, Watching
  <2>2. PICK idle : idle = Older(reader.idle)
    OBVIOUS
  <2>3. /\ reader'.idle = idle /\ reader'.window = reader.window
        /\ DOMAIN reader' = DOMAIN reader
    BY <2>1, <2>2 DEF Watching
  <2>4. idle \in Nat /\ idle <= quiet'
    BY <1>1, <2>1, <2>2 DEF Older
  <2>5. QED
    BY <1>2, <1>3, <1>4, <1>5, <2>3, <2>4 DEF Watching, WindowFits
<1>6. CASE ~(pc = "read" /\ inbox = << >>)
  <2>1. reader' = reader
    BY <1>6 DEF Tick
  <2>2. QED
    BY <1>2, <1>3, <1>4, <1>6, <2>1 DEF Watching, WindowFits
<1>7. QED
  BY <1>5, <1>6

LEMMA HeadWatches ==
  ASSUME Watching, HeadArrives
  PROVE  Watching'
<1>1. /\ pc' = "greet" /\ inbox' = << >> /\ quiet' = 0 /\ promised' = Off /\ reader' = reader
  BY DEF HeadArrives
<1>2. Unread' = Off /\ Off \in Every
  BY <1>1 DEF Unread, Every
<1>3. QED
  BY <1>1, <1>2 DEF Watching, WindowFits, WindowFor

LEMMA GoLiveWatches ==
  ASSUME Watching, GoLive
  PROVE  Watching'
<1>1. /\ pc = "greet" /\ pc' = "read" /\ reader' = NewReader /\ inbox' = inbox /\ quiet' = quiet
      /\ promised' = promised /\ link' = link
  BY DEF GoLive, Body, History
<1>2. Unread' = Unread
  BY <1>1 DEF Unread
<1>3. reader'.idle = 0 /\ reader'.window = DefaultWindow /\ DOMAIN reader' = {"seen", "window", "idle"}
  BY <1>1 DEF NewReader
<1>4. QED
  BY <1>1, <1>2, <1>3 DEF Watching, WindowFits

LEMMA ReadWatches ==
  ASSUME IInv, Watching, Read
  PROVE  Watching'
<1>1. PICK chunk \in Chunks : inbox = <<chunk>>
  BY DEF IInv, Read
<1>2. Head(inbox) = chunk /\ Tail(inbox) = << >> /\ inbox[1] = chunk /\ inbox # << >>
  BY <1>1
<1>3. /\ pc = "read" /\ pc' \in {"read", "deliver"} /\ inbox' = << >> /\ quiet' = quiet
      /\ promised' = promised /\ link' = link /\ why' = why /\ reader' = Watched(reader, chunk)
  BY <1>2 DEF Read, History
<1>4. Unread' = Off /\ Unread = Announced(chunk)
  BY <1>2, <1>3 DEF Unread
<1>5. /\ reader'.idle = 0 /\ reader'.window = WindowAfter(reader.window, chunk)
      /\ DOMAIN reader' = {"seen", "window", "idle"}
  BY <1>3 DEF Watched
<1>6. WindowAfter(reader.window, chunk) = WindowFor(promised)
  BY <1>3, <1>4 DEF Watching, WindowFits, WindowAfter, WindowFor
<1>7. QED
  BY <1>3, <1>4, <1>5, <1>6 DEF Watching, WindowFits

LEMMA ArrivesWatches ==
  ASSUME IInv, Watching, NEW chunk \in Chunks, Arrives(chunk)
  PROVE  Watching'
<1>1. /\ link = "open" /\ inbox = << >> /\ inbox' = <<chunk>> /\ quiet' = 0 /\ pc' = pc
      /\ reader' = reader /\ link' = link /\ why' = why
      /\ promised' = IF Announced(chunk) = Off THEN promised ELSE Announced(chunk)
  BY DEF Arrives
<1>2. Unread = Off /\ Unread' = Announced(chunk) /\ Announced(chunk) \in Every
  BY <1>1, AnnouncedType DEF Unread
<1>3. pc \in {"greet", "read", "deliver"}
  BY <1>1 DEF Watching
<1>4. inbox' # << >>
  BY <1>1
<1>5. QED
  BY <1>1, <1>2, <1>3, <1>4 DEF Watching, WindowFits, WindowFor

LEMMA WindowIsNatural == promised \in Every => WindowFor(promised) \in Nat
<1>1. ASSUME NEW every \in Every PROVE DeadmanFor(every) \in Nat
  <2>1. every \in Nat /\ Slack \in Nat /\ Width \in Nat \ {0}
    BY FrameAssumption DEF Every, Off
  <2>2. (2 * every + Slack) \in Nat
    BY <2>1
  <2>3. QED
    BY <2>1, <2>2 DEF DeadmanFor
<1>2. QED
  BY <1>1, FrameAssumption DEF WindowFor

LEMMA DeadmanWatches ==
  ASSUME Watching, DeadmanFires
  PROVE  Watching'
<1>1. /\ pc = "read" /\ inbox = << >> /\ reader.idle >= reader.window
      /\ pc' = "retry" /\ link' = "none" /\ inbox' = inbox /\ quiet' = quiet
      /\ promised' = promised /\ reader' = reader
  BY DEF DeadmanFires, History
<1>2. /\ reader.idle \in Nat /\ reader.idle <= quiet /\ quiet \in Nat /\ promised \in Every
      /\ reader.window = WindowFor(promised)
  BY <1>1 DEF Watching, WindowFits, Unread
<1>3. PICK window : window = WindowFor(promised)
  OBVIOUS
<1>4. window \in Nat
  BY <1>2, <1>3, WindowIsNatural
<1>5. quiet >= window
  BY <1>1, <1>2, <1>3, <1>4
<1>6. WindowFor(promised)' = WindowFor(promised)
  BY <1>1 DEF WindowFor
<1>7. quiet' >= WindowFor(promised)'
  BY <1>1, <1>3, <1>5, <1>6
<1>8. QED
  BY <1>1, <1>7 DEF Watching

LEMMA NextWatches ==
  ASSUME IInv, Watching, [Next]_vars
  PROVE  Watching'
<1> USE DEF Watching, Body, History
<1>1. CASE Announce
  BY <1>1 DEF Announce, Says
<1>2. ASSUME NEW cause \in {"transport", "http"}, RequestFails(cause) PROVE Watching'
  BY <1>2 DEF RequestFails
<1>3. CASE HeadArrives
  BY <1>3, HeadWatches
<1>4. CASE GoLive
  BY <1>4, GoLiveWatches
<1>5. CASE Read
  BY <1>5, ReadWatches
<1>6. CASE Deliver
  BY <1>6 DEF Deliver, WindowFits, Unread
<1>7. CASE ReadEnds
  BY <1>7 DEF ReadEnds
<1>8. CASE DeadmanFires
  BY <1>8, DeadmanWatches
<1>9. CASE Retry
  BY <1>9 DEF Retry, Says
<1>10. CASE Wake
  BY <1>10 DEF Wake, NewReader, Every
<1>11. CASE Recv
  BY <1>11 DEF Recv, WindowFits, Unread
<1>12. CASE Drop
  BY <1>12 DEF Drop
<1>13. CASE Tick
  BY <1>13, TickWatches
<1>14. ASSUME NEW chunk \in Chunks, Arrives(chunk) PROVE Watching'
  BY <1>14, ArrivesWatches
<1>15. ASSUME NEW how \in {"ended", "failed", "silent"}, Finishes(how) PROVE Watching'
  BY <1>15 DEF Finishes, WindowFits, Unread
<1>16. CASE UNCHANGED vars
  BY <1>16 DEF vars, WindowFits, Unread
<1>17. QED
  BY <1>1, <1>2, <1>3, <1>4, <1>5, <1>6, <1>7, <1>8, <1>9, <1>10, <1>11, <1>12,
     <1>13, <1>14, <1>15, <1>16 DEF Next, Task

\* No window that a ping can announce wraps (lib.rs:418 wraps near 2^63 s).
NothingWraps == \A f \in Frames : Announces(f) => 2 * f.every + Slack < Width

\* The dead-man cuts only a stream that said nothing for the window its own
\* pings make (lib.rs:66-70): a wait before, a chunk under way to a slow
\* consumer and an earlier connection's pings count for nothing.
THEOREM SilenceIsReal == NothingWraps => (Spec => []NoFalseAlarm)
<1> SUFFICES ASSUME NothingWraps PROVE Spec => []NoFalseAlarm
  OBVIOUS
<1>1. Init => Watching
  BY DEF Init, Watching, NewReader, Every
<1>2. IInv /\ Watching /\ [Next]_vars => Watching'
  BY NextWatches
<1>3. ASSUME NEW every \in Every, every # Off PROVE DeadmanFor(every) = 2 * every + Slack
  <2>1. PICK f \in Frames : Announces(f) /\ every = f.every
    BY <1>3 DEF Every
  <2>2. every \in Nat /\ Slack \in Nat /\ Width \in Nat \ {0} /\ 2 * every + Slack < Width
    BY <2>1, FrameAssumption DEF NothingWraps
  <2>3. QED
    BY <2>2 DEF DeadmanFor
<1>4. Watching => NoFalseAlarm
  BY <1>3 DEF Watching, NoFalseAlarm, WindowFor
<1>5. QED
  BY <1>1, <1>2, <1>4, InvariantHolds, PTL DEF Spec
=============================================================================
