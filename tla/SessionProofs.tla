--------------------------- MODULE SessionProofs ---------------------------
(***************************************************************************)
(* What the Rust client hears, asks for and waits for, over any number of   *)
(* connections, for any texts that mean what stands beside them             *)
(* (SayingsAreMeant), written in any style, cut into any chunks and broken  *)
(* anywhere.                                                                *)
(*                                                                          *)
(* The argument: a parser reads a chunk as it reads its parts one after     *)
(* another (CutAnywhere), so that at any moment what was heard and what the *)
(* parser would make of the text under way are together what was said       *)
(* (Reads), and the cursor stored with a frame is an id that was in force   *)
(* there.  Induction is over sets of naturals: the least number that is not *)
(* in such a set is not zero and has a predecessor.                         *)
(*                                                                          *)
(* That texts mean what stands beside them is itself proved for those that  *)
(* the encoder writes (EventsMeanWhatTheySay): what a parser goes on from   *)
(* is its view, a field's line leads from a view to another, and the blank  *)
(* line turns what the fields left into the frame.                          *)
(***************************************************************************)
EXTENDS Session, SequenceTheorems, WellFoundedInduction, TLAPS

-----------------------------------------------------------------------------
(* Induction and recursion on sets, which first-order provers can use *)

\* A set of naturals that zero and every successor are in has them all.
LEMMA Induction ==
  ASSUME NEW T, 0 \in T, \A n \in Nat : n \in T => n + 1 \in T
  PROVE  Nat \subseteq T
<1> DEFINE less == {ss \in Nat \X Nat : ss[1] < ss[2]}
<1> SUFFICES ASSUME Nat \ T # {} PROVE FALSE
  OBVIOUS
<1>1. IsWellFoundedOn(less, Nat)
  BY NatLessThanWellFounded DEF OpToRel
<1>2. PICK x \in Nat \ T : \A y \in Nat \ T : ~ (<<y, x>> \in less)
  BY <1>1, WFMin
<1>3. x \in Nat /\ x \notin T
  OBVIOUS
<1>4. x # 0
  BY <1>3
<1>5. x - 1 \in Nat /\ x - 1 < x /\ (x - 1) + 1 = x
  BY <1>3, <1>4
<1>6. x - 1 \in T
  <2>1. <<x - 1, x>> \in less
    BY <1>3, <1>5
  <2>2. QED
    BY <1>2, <1>5, <2>1
<1>7. QED
  BY <1>3, <1>5, <1>6

\* A function on the naturals that is given by its first value and each next one.
Recurs(f, S, a, g) ==
  f \in [Nat -> S] /\ f[0] = a /\ \A n \in Nat : f[n + 1] = g[f[n]][n + 1]

\* It exists, and what it gives is a property of each step.
LEMMA Recursion ==
  ASSUME NEW S, NEW a \in S, NEW g \in [S -> [Nat -> S]]
  PROVE  \E f : Recurs(f, S, a, g)
<1> DEFINE Approx(k) == {h \in [0..k -> S] :
                           h[0] = a /\ \A n \in 0..k - 1 : h[n + 1] = g[h[n]][n + 1]}
           T == {k \in Nat : Approx(k) # {}}
<1>1. Nat \subseteq T
  <2>1. 0 \in T
    <3>1. [i \in 0..0 |-> a] \in Approx(0)
      OBVIOUS
    <3>2. QED
      BY <3>1
  <2>2. ASSUME NEW k \in Nat, k \in T PROVE k + 1 \in T
    <3>1. PICK h \in Approx(k) : TRUE
      BY <2>2
    <3> DEFINE l == [i \in 0..k + 1 |-> IF i = k + 1 THEN g[h[k]][k + 1] ELSE h[i]]
    <3>2. h \in [0..k -> S] /\ h[0] = a /\ \A n \in 0..k - 1 : h[n + 1] = g[h[n]][n + 1]
      BY <3>1
    <3>3. l \in [0..k + 1 -> S]
      BY <3>2
    <3>4. l[0] = a
      BY <3>2
    <3>5. ASSUME NEW n \in 0..(k + 1) - 1 PROVE l[n + 1] = g[l[n]][n + 1]
      <4>1. CASE n = k
        <5>1. n + 1 \in 0..k + 1 /\ n \in 0..k + 1 /\ n + 1 = k + 1 /\ n # k + 1
          BY <4>1
        <5>2. l[n + 1] = g[h[k]][k + 1] /\ l[n] = h[k]
          BY <4>1, <5>1
        <5> HIDE DEF l
        <5>3. QED
          BY <4>1, <5>2
      <4>2. CASE n # k
        <5>1. n \in 0..k - 1 /\ n + 1 \in 0..k /\ n + 1 # k + 1
          BY <4>2
        <5>2. l[n + 1] = h[n + 1] /\ l[n] = h[n]
          BY <5>1
        <5>3. QED
          BY <3>2, <5>1, <5>2
      <4>3. QED
        BY <4>1, <4>2
    <3>6. l \in Approx(k + 1)
      <4> HIDE DEF l
      <4>1. QED
        BY <3>3, <3>4, <3>5
    <3> HIDE DEF l, Approx
    <3>7. QED
      BY <3>6
  <2> HIDE DEF T
  <2>3. QED
    BY <2>1, <2>2, Induction
<1>2. ASSUME NEW j \in Nat, NEW k \in Nat, NEW h \in Approx(j), NEW l \in Approx(k)
      PROVE  \A n \in Nat : n <= j /\ n <= k => h[n] = l[n]
  <2> DEFINE U == {n \in Nat : n <= j /\ n <= k => h[n] = l[n]}
  <2>1. 0 \in U
    OBVIOUS
  <2>2. ASSUME NEW n \in Nat, n \in U PROVE n + 1 \in U
    <3> SUFFICES ASSUME n + 1 <= j, n + 1 <= k PROVE h[n + 1] = l[n + 1]
      OBVIOUS
    <3>1. n \in 0..j - 1 /\ n \in 0..k - 1
      OBVIOUS
    <3>2. h[n] = l[n]
      BY <2>2
    <3>3. QED
      BY <3>1, <3>2
  <2>3. Nat \subseteq U
    <3> HIDE DEF U
    <3>1. QED
      BY <2>1, <2>2, Induction
  <2>4. QED
    BY <2>3
<1> DEFINE f == [n \in Nat |-> (CHOOSE h \in Approx(n) : TRUE)[n]]
<1>3. ASSUME NEW k \in Nat PROVE \E h \in Approx(k) : h = (CHOOSE l \in Approx(k) : TRUE)
  BY <1>1
<1>4. f \in [Nat -> S] /\ f[0] = a
  <2>1. ASSUME NEW n \in Nat PROVE f[n] \in S
    <3>1. PICK h \in Approx(n) : f[n] = h[n]
      BY <1>3
    <3>2. h \in [0..n -> S] /\ n \in 0..n
      BY <3>1
    <3> HIDE DEF f, Approx
    <3>3. QED
      BY <3>1, <3>2
  <2>2. f[0] = a
    BY <1>3
  <2>3. QED
    BY <2>1, <2>2
<1>5. ASSUME NEW n \in Nat PROVE f[n + 1] = g[f[n]][n + 1]
  <2>1. PICK h \in Approx(n) : f[n] = h[n]
    BY <1>3
  <2>2. PICK l \in Approx(n + 1) : f[n + 1] = l[n + 1]
    <3>1. n + 1 \in Nat
      OBVIOUS
    <3>2. QED
      BY <1>3, <3>1
  <2> HIDE DEF f
  <2>3. l[n] = h[n]
    <3> HIDE DEF Approx
    <3>1. n + 1 \in Nat /\ n <= n /\ n <= n + 1
      OBVIOUS
    <3>2. QED
      BY <1>2, <3>1
  <2>4. l[n + 1] = g[l[n]][n + 1]
    <3>1. n \in 0..(n + 1) - 1
      OBVIOUS
    <3>2. QED
      BY <3>1
  <2>5. QED
    BY <2>1, <2>2, <2>3, <2>4
<1>6. QED
  BY <1>4, <1>5 DEF Recurs
-----------------------------------------------------------------------------
(* The parser, a lexeme after another *)

Fields == Texts \cup {Absent}

Items == [is : {"event"}, name : Fields, data : Texts, id : Fields, own : Fields]
           \cup [is : {"retry"}, ms : {Millis[word] : word \in DOMAIN Millis}]

Parsers == [line : Texts, sawCr : BOOLEAN, atStart : BOOLEAN, data : Texts,
            event : Fields, pending : Fields, last : Fields, out : Seq(Items)]

\* A parser begins with an empty line and no field.
LEMMA EmptyIsText == << >> \in Texts /\ << >> \in Fields /\ Absent \in Fields
  BY DEF Texts, Fields

\* The breaks are lexemes.
LEMMA LexemeNames == "lf" \in Lexemes /\ "cr" \in Lexemes
  BY DEF Lexemes, Breaks

\* A blank line: what comes of it is a parser.
LEMMA DispatchType ==
  ASSUME NEW p \in Parsers
  PROVE  Dispatch(p) \in Parsers
<1> DEFINE last == CASE p.pending = Absent -> p.last
                     [] p.pending = << >>  -> Absent
                     [] OTHER              -> p.pending
           q    == [p EXCEPT !.pending = Absent, !.last = last, !.event = Absent,
                             !.data = << >>]
<1>1. last \in Fields
  BY EmptyIsText DEF Parsers
<1>2. q \in Parsers
  <2> HIDE DEF last
  <2>1. << >> \in Texts
    BY DEF Texts
  <2>2. QED
    BY <1>1, <2>1, EmptyIsText DEF Parsers
<1>3. CASE p.data = << >>
  BY <1>2, <1>3 DEF Dispatch
<1>4. CASE p.data # << >>
  <2>1. Front(p.data) \in Texts
    BY <1>4 DEF Parsers, Texts, Front
  <2>2. Frame(p.event, Front(p.data), last, p.pending) \in Items
    <3> HIDE DEF last
    <3>1. QED
      BY <1>1, <2>1 DEF Frame, Items, Parsers
  <2>3. Append(q.out, Frame(p.event, Front(p.data), last, p.pending)) \in Seq(Items)
    <3> HIDE DEF q
    <3>1. QED
      BY <1>2, <2>2, AppendProperties DEF Parsers
  <2>4. Dispatch(p) = [q EXCEPT !.out = Append(@, Frame(p.event, Front(p.data), last, p.pending))]
    BY <1>4 DEF Dispatch
  <2>5. QED
    <3> HIDE DEF q
    <3>1. QED
      BY <1>2, <2>3, <2>4 DEF Parsers
<1>5. QED
  BY <1>3, <1>4

\* A line with text in it, too.
LEMMA ValuedType ==
  ASSUME NEW p \in Parsers, NEW line \in Texts, line # << >>
  PROVE  Valued(p, line) \in Parsers
<1> DEFINE value == Tail(line)
<1>1. value \in Texts
  BY DEF Texts
<1> HIDE DEF value
<1>2. [p EXCEPT !.event = value] \in Parsers /\ [p EXCEPT !.pending = value] \in Parsers
  BY <1>1 DEF Parsers, Fields
<1>3. [p EXCEPT !.data = @ \o Append(value, "lf")] \in Parsers
  <2>1. Append(value, "lf") \in Texts
    BY <1>1, LexemeNames DEF Texts
  <2>2. p.data \o Append(value, "lf") \in Texts
    BY <2>1 DEF Texts, Parsers
  <2>3. QED
    BY <2>2 DEF Parsers
<1>4. ASSUME value[1] \in DOMAIN Millis
      PROVE  [p EXCEPT !.out = Append(@, Hint(Millis[value[1]]))] \in Parsers
  <2>1. Hint(Millis[value[1]]) \in Items
    BY <1>4 DEF Hint, Items
  <2>2. Append(p.out, Hint(Millis[value[1]])) \in Seq(Items)
    BY <2>1, AppendProperties DEF Parsers
  <2>3. QED
    BY <2>2 DEF Parsers
<1>5. Valued(p, line) =
        CASE Names(line, "event", "event:") -> [p EXCEPT !.event = value]
          [] Names(line, "data", "data:") -> [p EXCEPT !.data = @ \o Append(value, "lf")]
          [] Names(line, "id", "id:") ->
               IF Contains(value, "nul") THEN p ELSE [p EXCEPT !.pending = value]
          [] Head(line) = "retry:" /\ Len(value) = 1 /\ value[1] \in DOMAIN Millis ->
               [p EXCEPT !.out = Append(@, Hint(Millis[value[1]]))]
          [] OTHER -> p
  BY DEF Valued, value
<1>6. QED
  BY <1>2, <1>3, <1>4, <1>5

\* The end of a line, whichever.
LEMMA EndLineType ==
  ASSUME NEW p \in Parsers
  PROVE  EndLine(p) \in Parsers
<1> DEFINE marked == p.atStart /\ p.line # << >> /\ Head(p.line) = "bom"
           line   == IF marked THEN Tail(p.line) ELSE p.line
           q      == [p EXCEPT !.line = << >>, !.atStart = FALSE]
<1>1. line \in Texts
  <2>1. p.line \in Texts /\ (p.line # << >> => Tail(p.line) \in Texts)
    BY DEF Texts, Parsers
  <2>2. QED
    BY <2>1
<1>2. q \in Parsers
  <2>1. << >> \in Texts
    BY DEF Texts
  <2>2. QED
    BY <2>1 DEF Parsers
<1>3. EndLine(p) = IF line = << >> THEN Dispatch(q) ELSE Valued(q, line)
  BY DEF EndLine
<1> HIDE DEF line, q
<1>4. QED
  BY <1>1, <1>2, <1>3, DispatchType, ValuedType

\* One lexeme.
LEMMA FeedOneType ==
  ASSUME NEW p \in Parsers, NEW b \in Lexemes
  PROVE  FeedOne(p, b) \in Parsers
<1> DEFINE q == [p EXCEPT !.sawCr = b = "cr"]
<1>1. q \in Parsers
  BY DEF Parsers
<1>2. [q EXCEPT !.line = Append(@, b)] \in Parsers
  <2>1. Append(q.line, b) \in Texts
    BY <1>1 DEF Parsers, Texts
  <2> HIDE DEF q
  <2>2. QED
    BY <1>1, <2>1 DEF Parsers
<1>3. FeedOne(p, b) = IF p.sawCr /\ b = "lf" THEN q
                      ELSE IF b \in Breaks THEN EndLine(q)
                      ELSE [q EXCEPT !.line = Append(@, b)]
  BY DEF FeedOne
<1> HIDE DEF q
<1>4. QED
  BY <1>1, <1>2, <1>3, EndLineType

\* What a chunk does: the states the parser passes through.
Passed(p, bytes, f) ==
  /\ f \in [0..Len(bytes) -> Parsers]
  /\ f[0] = [p EXCEPT !.out = << >>]
  /\ \A n \in 0..Len(bytes) - 1 : f[n + 1] = FeedOne(f[n], bytes[n + 1])

\* A chunk is read by passing from lexeme to lexeme.
LEMMA FeedPasses ==
  ASSUME NEW p \in Parsers, NEW bytes \in Texts
  PROVE  \E f : Passed(p, bytes, f) /\ Feed(p, bytes) = f[Len(bytes)]
<1> DEFINE start == [p EXCEPT !.out = << >>]
           g     == [x \in Parsers |-> [n \in Nat |->
                       IF n \in 1..Len(bytes) THEN FeedOne(x, bytes[n]) ELSE x]]
           step(f) == [n \in 0..Len(bytes) |->
                         IF n = 0 THEN start ELSE FeedOne(f[n - 1], bytes[n])]
<1>1. start \in Parsers
  <2>1. << >> \in Seq(Items)
    OBVIOUS
  <2>2. QED
    BY <2>1 DEF Parsers
<1>2. \A n \in 1..Len(bytes) : bytes[n] \in Lexemes
  BY DEF Texts
<1>3. g \in [Parsers -> [Nat -> Parsers]]
  BY <1>2, FeedOneType
<1>4. PICK h : Recurs(h, Parsers, start, g)
  <2> HIDE DEF g, start
  <2>1. QED
    BY <1>1, <1>3, Recursion
<1>5. Len(bytes) \in Nat
  BY DEF Texts
<1>6. ASSUME NEW n \in 0..Len(bytes) - 1 PROVE h[n + 1] = FeedOne(h[n], bytes[n + 1])
  <2>1. n \in Nat /\ n + 1 \in Nat /\ n + 1 \in 1..Len(bytes)
    BY <1>5
  <2>2. h[n] \in Parsers
    BY <1>4, <2>1 DEF Recurs
  <2>3. h[n + 1] = g[h[n]][n + 1]
    BY <1>4, <2>1 DEF Recurs
  <2>4. QED
    BY <2>1, <2>2, <2>3
<1> DEFINE k == [n \in 0..Len(bytes) |-> h[n]]
<1>7. k = step(k)
  <2>1. ASSUME NEW n \in 0..Len(bytes) PROVE k[n] = step(k)[n]
    <3>1. CASE n = 0
      BY <1>4, <3>1 DEF Recurs
    <3>2. CASE n # 0
      <4>1. n - 1 \in 0..Len(bytes) - 1 /\ n - 1 \in 0..Len(bytes) /\ (n - 1) + 1 = n
        BY <1>5, <3>2
      <4>2. k[n] = FeedOne(k[n - 1], bytes[n])
        <5>1. k[n] = h[n] /\ k[n - 1] = h[n - 1]
          BY <4>1
        <5> HIDE DEF k
        <5>2. QED
          BY <1>6, <4>1, <5>1
      <4> HIDE DEF k
      <4>3. QED
        BY <3>2, <4>2
    <3>3. QED
      BY <3>1, <3>2
  <2>2. k = [n \in 0..Len(bytes) |-> k[n]]
    OBVIOUS
  <2>3. step(k) = [n \in 0..Len(bytes) |-> step(k)[n]]
    OBVIOUS
  <2> HIDE DEF k, step
  <2>4. QED
    BY <2>1, <2>2, <2>3
<1> DEFINE fed == CHOOSE f : f = step(f)
<1>8. fed = step(fed)
  <2> HIDE DEF step, k
  <2>1. QED
    BY <1>7
<1>9. Feed(p, bytes) = fed[Len(bytes)]
  BY DEF Feed
<1>10. fed = [n \in 0..Len(bytes) |-> fed[n]]
  <2> HIDE DEF fed
  <2>1. QED
    BY <1>8
<1>11. ASSUME NEW n \in Nat PROVE n \in 0..Len(bytes) => fed[n] \in Parsers
  <2> DEFINE T == {m \in Nat : m \in 0..Len(bytes) => fed[m] \in Parsers}
  <2>1. 0 \in T
    <3> HIDE DEF fed
    <3>1. fed[0] = start
      BY <1>5, <1>8
    <3>2. QED
      BY <1>1, <3>1
  <2>2. ASSUME NEW m \in Nat, m \in T PROVE m + 1 \in T
    <3> SUFFICES ASSUME m + 1 \in 0..Len(bytes) PROVE fed[m + 1] \in Parsers
      OBVIOUS
    <3>1. m \in 0..Len(bytes) /\ m + 1 \in 1..Len(bytes) /\ m + 1 # 0 /\ (m + 1) - 1 = m
      BY <1>5
    <3>2. fed[m] \in Parsers
      BY <2>2, <3>1
    <3> HIDE DEF fed
    <3>3. fed[m + 1] = FeedOne(fed[m], bytes[m + 1])
      BY <1>8, <3>1
    <3>4. QED
      BY <1>2, <3>1, <3>2, <3>3, FeedOneType
  <2>3. Nat \subseteq T
    <3> HIDE DEF T
    <3>1. QED
      BY <2>1, <2>2, Induction
  <2>4. QED
    BY <2>3
<1>12. Passed(p, bytes, fed)
  <2> HIDE DEF fed
  <2>1. fed \in [0..Len(bytes) -> Parsers]
    BY <1>5, <1>10, <1>11
  <2>2. fed[0] = start
    BY <1>5, <1>8
  <2>3. ASSUME NEW n \in 0..Len(bytes) - 1 PROVE fed[n + 1] = FeedOne(fed[n], bytes[n + 1])
    <3>1. n + 1 \in 0..Len(bytes) /\ n + 1 # 0 /\ (n + 1) - 1 = n
      BY <1>5
    <3>2. QED
      BY <1>8, <3>1
  <2>4. QED
    BY <2>1, <2>2, <2>3 DEF Passed
<1>13. QED
  BY <1>9, <1>12

\* There is one way to pass.
LEMMA PassesOnce ==
  ASSUME NEW p \in Parsers, NEW bytes \in Texts, NEW f, Passed(p, bytes, f)
  PROVE  Feed(p, bytes) = f[Len(bytes)]
<1>1. PICK h : Passed(p, bytes, h) /\ Feed(p, bytes) = h[Len(bytes)]
  BY FeedPasses
<1> DEFINE T == {n \in Nat : n \in 0..Len(bytes) => f[n] = h[n]}
<1>2. Len(bytes) \in Nat
  BY DEF Texts
<1>3. 0 \in T
  BY <1>1 DEF Passed
<1>4. ASSUME NEW n \in Nat, n \in T PROVE n + 1 \in T
  <2> SUFFICES ASSUME n + 1 \in 0..Len(bytes) PROVE f[n + 1] = h[n + 1]
    OBVIOUS
  <2>1. n \in 0..Len(bytes) - 1 /\ n \in 0..Len(bytes)
    BY <1>2
  <2>2. f[n] = h[n]
    BY <1>4, <2>1
  <2>3. QED
    BY <1>1, <2>1, <2>2 DEF Passed
<1>5. Nat \subseteq T
  <2> HIDE DEF T
  <2>1. QED
    BY <1>3, <1>4, Induction
<1>6. Len(bytes) \in T
  BY <1>2, <1>5
<1>7. f[Len(bytes)] = h[Len(bytes)]
  BY <1>2, <1>6
<1>8. QED
  BY <1>1, <1>7

\* What has read a chunk is a parser again.
LEMMA FeedType ==
  ASSUME NEW p \in Parsers, NEW bytes \in Texts
  PROVE  Feed(p, bytes) \in Parsers
<1>1. PICK f : Passed(p, bytes, f) /\ Feed(p, bytes) = f[Len(bytes)]
  BY FeedPasses
<1>2. Len(bytes) \in 0..Len(bytes)
  BY DEF Texts
<1>3. QED
  BY <1>1, <1>2 DEF Passed

\* An empty chunk completes nothing, and one more lexeme is read after the rest.
LEMMA FeedEmpty ==
  ASSUME NEW p \in Parsers
  PROVE  Feed(p, << >>) = [p EXCEPT !.out = << >>]
<1>1. PICK f : Passed(p, << >>, f) /\ Feed(p, << >>) = f[Len(<< >>)]
  BY FeedPasses, EmptyIsText
<1>2. Len(<< >>) = 0
  OBVIOUS
<1>3. QED
  BY <1>1, <1>2 DEF Passed

\* A chunk that is longer by a lexeme.
LEMMA FeedAppend ==
  ASSUME NEW p \in Parsers, NEW bytes \in Texts, NEW b \in Lexemes
  PROVE  Feed(p, Append(bytes, b)) = FeedOne(Feed(p, bytes), b)
<1> DEFINE longer == Append(bytes, b)
<1>1. /\ longer \in Texts /\ Len(bytes) \in Nat /\ Len(longer) = Len(bytes) + 1
      /\ longer[Len(bytes) + 1] = b
      /\ \A n \in 1..Len(bytes) : longer[n] = bytes[n]
  BY AppendProperties DEF Texts
<1> HIDE DEF longer
<1>2. PICK f : Passed(p, longer, f) /\ Feed(p, longer) = f[Len(longer)]
  BY <1>1, FeedPasses
<1>3. /\ f \in [0..Len(bytes) + 1 -> Parsers]
      /\ f[0] = [p EXCEPT !.out = << >>]
      /\ \A n \in 0..Len(bytes) : f[n + 1] = FeedOne(f[n], longer[n + 1])
  <2>1. (Len(bytes) + 1) - 1 = Len(bytes)
    BY <1>1
  <2>2. QED
    BY <1>1, <1>2, <2>1 DEF Passed
<1> DEFINE h == [n \in 0..Len(bytes) |-> f[n]]
<1>4. Passed(p, bytes, h)
  <2>1. h \in [0..Len(bytes) -> Parsers]
    BY <1>1, <1>3
  <2>2. h[0] = [p EXCEPT !.out = << >>]
    BY <1>1, <1>3
  <2>3. ASSUME NEW n \in 0..Len(bytes) - 1 PROVE h[n + 1] = FeedOne(h[n], bytes[n + 1])
    <3>1. n \in 0..Len(bytes) /\ n + 1 \in 0..Len(bytes) /\ n + 1 \in 1..Len(bytes)
      BY <1>1
    <3>2. h[n + 1] = f[n + 1] /\ h[n] = f[n]
      BY <3>1
    <3> HIDE DEF h
    <3>3. QED
      BY <1>1, <1>3, <3>1, <3>2
  <2> HIDE DEF h
  <2>4. QED
    BY <2>1, <2>2, <2>3 DEF Passed
<1>5. Feed(p, bytes) = f[Len(bytes)]
  <2>1. Feed(p, bytes) = h[Len(bytes)]
    <3> HIDE DEF h
    <3>1. QED
      BY <1>4, PassesOnce
  <2>2. QED
    BY <1>1, <2>1
<1>6. f[Len(bytes) + 1] = FeedOne(f[Len(bytes)], b)
  <2>1. Len(bytes) \in 0..Len(bytes)
    BY <1>1
  <2>2. QED
    BY <1>1, <1>3, <2>1
<1>7. QED
  BY <1>1, <1>2, <1>5, <1>6 DEF longer

-----------------------------------------------------------------------------
(* Wherever a text is cut *)

\* What was completed before stays before.
After(out, p) == [p EXCEPT !.out = out \o @]

\* What was completed before is no part of the parser's type.
LEMMA AfterType ==
  ASSUME NEW p \in Parsers, NEW out \in Seq(Items)
  PROVE  After(out, p) \in Parsers
<1>1. out \o p.out \in Seq(Items)
  BY ConcatProperties DEF Parsers
<1>2. QED
  BY <1>1 DEF Parsers, After

\* One more item, after those before.
LEMMA AppendAfter ==
  ASSUME NEW S, NEW s \in Seq(S), NEW t \in Seq(S), NEW e \in S
  PROVE  Append(s \o t, e) = s \o Append(t, e)
  OBVIOUS

\* No step of the parser looks at what was completed before: a blank line,
LEMMA DispatchAfter ==
  ASSUME NEW p \in Parsers, NEW out \in Seq(Items)
  PROVE  Dispatch(After(out, p)) = After(out, Dispatch(p))
<1> DEFINE last == CASE p.pending = Absent -> p.last
                     [] p.pending = << >>  -> Absent
                     [] OTHER              -> p.pending
           rest(q) == [q EXCEPT !.pending = Absent, !.last = last, !.event = Absent,
                                !.data = << >>]
           frame   == Frame(p.event, Front(p.data), last, p.pending)
           a       == After(out, p)
<1>1. /\ a.pending = p.pending /\ a.last = p.last /\ a.event = p.event /\ a.data = p.data
      /\ a.out = out \o p.out
  BY DEF After, Parsers
<1>2. rest(a) = After(out, rest(p))
  <2> HIDE DEF last
  <2>1. QED
    BY DEF After, Parsers
<1>3. Dispatch(p) = IF p.data = << >> THEN rest(p)
                    ELSE [rest(p) EXCEPT !.out = Append(@, frame)]
  BY DEF Dispatch
<1>4. Dispatch(a) = IF a.data = << >> THEN rest(a)
                    ELSE [rest(a) EXCEPT !.out = Append(@, frame)]
  <2> HIDE DEF a
  <2>1. QED
    BY <1>1 DEF Dispatch
<1>5. ASSUME p.data # << >>
      PROVE  [rest(a) EXCEPT !.out = Append(@, frame)]
               = After(out, [rest(p) EXCEPT !.out = Append(@, frame)])
  <2>1. frame \in Items
    <3>1. Front(p.data) \in Texts
      BY <1>5 DEF Parsers, Texts, Front
    <3>2. last \in Fields
      BY EmptyIsText DEF Parsers
    <3> HIDE DEF last
    <3>3. QED
      BY <3>1, <3>2 DEF Frame, Items, Parsers
  <2>2. Append(out \o p.out, frame) = out \o Append(p.out, frame)
    <3> HIDE DEF frame
    <3>1. p.out \in Seq(Items)
      BY DEF Parsers
    <3>2. QED
      BY <2>1, <3>1, SMTT(20)
  <2> HIDE DEF frame, last
  <2>3. QED
    BY <2>2 DEF After, Parsers
<1> HIDE DEF frame, last, rest, a
<1>6. QED
  BY <1>1, <1>2, <1>3, <1>4, <1>5 DEF a

\* a line with text,
LEMMA ValuedAfter ==
  ASSUME NEW p \in Parsers, NEW out \in Seq(Items), NEW line \in Texts, line # << >>
  PROVE  Valued(After(out, p), line) = After(out, Valued(p, line))
<1> DEFINE value == Tail(line)
           a     == After(out, p)
           hint  == Hint(Millis[value[1]])
           of(q) ==
             CASE Names(line, "event", "event:") -> [q EXCEPT !.event = value]
               [] Names(line, "data", "data:") -> [q EXCEPT !.data = @ \o Append(value, "lf")]
               [] Names(line, "id", "id:") ->
                    IF Contains(value, "nul") THEN q ELSE [q EXCEPT !.pending = value]
               [] Head(line) = "retry:" /\ Len(value) = 1 /\ value[1] \in DOMAIN Millis ->
                    [q EXCEPT !.out = Append(@, hint)]
               [] OTHER -> q
<1>1. Valued(p, line) = of(p) /\ Valued(a, line) = of(a)
  BY DEF Valued
<1> HIDE DEF value
<1>2. [a EXCEPT !.event = value] = After(out, [p EXCEPT !.event = value])
  BY DEF After, Parsers
<1>3. [a EXCEPT !.pending = value] = After(out, [p EXCEPT !.pending = value])
  BY DEF After, Parsers
<1>4. [a EXCEPT !.data = @ \o Append(value, "lf")]
        = After(out, [p EXCEPT !.data = @ \o Append(value, "lf")])
  BY DEF After, Parsers
<1>5. ASSUME value[1] \in DOMAIN Millis
      PROVE  [a EXCEPT !.out = Append(@, hint)] = After(out, [p EXCEPT !.out = Append(@, hint)])
  <2>1. hint \in Items /\ p.out \in Seq(Items)
    BY <1>5 DEF Hint, Items, Parsers
  <2> HIDE DEF hint
  <2>2. Append(out \o p.out, hint) = out \o Append(p.out, hint)
    BY <2>1, SMTT(20)
  <2>3. QED
    BY <2>2 DEF After, Parsers
<1> HIDE DEF hint, a
<1>6. of(a) = After(out, of(p))
  BY <1>2, <1>3, <1>4, <1>5 DEF a
<1>7. QED
  BY <1>1, <1>6 DEF a

\* the end of a line,
LEMMA EndLineAfter ==
  ASSUME NEW p \in Parsers, NEW out \in Seq(Items)
  PROVE  EndLine(After(out, p)) = After(out, EndLine(p))
<1> DEFINE marked == p.atStart /\ p.line # << >> /\ Head(p.line) = "bom"
           line   == IF marked THEN Tail(p.line) ELSE p.line
           rest(q) == [q EXCEPT !.line = << >>, !.atStart = FALSE]
           a      == After(out, p)
<1>1. line \in Texts
  <2>1. p.line \in Texts /\ (p.line # << >> => Tail(p.line) \in Texts)
    BY DEF Texts, Parsers
  <2>2. QED
    BY <2>1
<1>2. rest(p) \in Parsers
  BY EmptyIsText DEF Parsers
<1>3. a.line = p.line /\ a.atStart = p.atStart /\ rest(a) = After(out, rest(p))
  BY DEF After, Parsers
<1>4. EndLine(p) = IF line = << >> THEN Dispatch(rest(p)) ELSE Valued(rest(p), line)
  BY DEF EndLine
<1>5. EndLine(a) = IF line = << >> THEN Dispatch(rest(a)) ELSE Valued(rest(a), line)
  <2> HIDE DEF a
  <2>1. QED
    BY <1>3 DEF EndLine
<1> HIDE DEF line, rest, a
<1>6. QED
  BY <1>1, <1>2, <1>3, <1>4, <1>5, DispatchAfter, ValuedAfter DEF a

\* a lexeme.
LEMMA FeedOneAfter ==
  ASSUME NEW p \in Parsers, NEW out \in Seq(Items), NEW b \in Lexemes
  PROVE  FeedOne(After(out, p), b) = After(out, FeedOne(p, b))
<1> DEFINE rest(q) == [q EXCEPT !.sawCr = b = "cr"]
           a       == After(out, p)
<1>1. rest(p) \in Parsers
  BY DEF Parsers
<1>2. a.sawCr = p.sawCr /\ rest(a) = After(out, rest(p))
  BY DEF After, Parsers
<1>3. FeedOne(p, b) = IF p.sawCr /\ b = "lf" THEN rest(p)
                      ELSE IF b \in Breaks THEN EndLine(rest(p))
                      ELSE [rest(p) EXCEPT !.line = Append(@, b)]
  BY DEF FeedOne
<1>4. FeedOne(a, b) = IF a.sawCr /\ b = "lf" THEN rest(a)
                      ELSE IF b \in Breaks THEN EndLine(rest(a))
                      ELSE [rest(a) EXCEPT !.line = Append(@, b)]
  <2> HIDE DEF a
  <2>1. QED
    BY DEF FeedOne
<1>5. [After(out, rest(p)) EXCEPT !.line = Append(@, b)]
        = After(out, [rest(p) EXCEPT !.line = Append(@, b)])
  <2> HIDE DEF rest
  <2>1. QED
    BY <1>1 DEF After, Parsers
<1>6. EndLine(After(out, rest(p))) = After(out, EndLine(rest(p)))
  <2> HIDE DEF rest
  <2>1. QED
    BY <1>1, EndLineAfter
<1> HIDE DEF rest, a
<1>7. QED
  BY <1>2, <1>3, <1>4, <1>5, <1>6 DEF a

\* A prefix that is longer by one.
LEMMA PrefixGrows ==
  ASSUME NEW S, NEW s \in Seq(S), NEW n \in Nat, n + 1 <= Len(s)
  PROVE  /\ SubSeq(s, 1, n) \in Seq(S) /\ s[n + 1] \in S
         /\ SubSeq(s, 1, n + 1) = Append(SubSeq(s, 1, n), s[n + 1])
<1>1. n \in 0..Len(s) /\ n + 1 \in 1..Len(s) /\ (n + 1) - 1 = n
  OBVIOUS
<1>2. SubSeq(s, 1, n) \in Seq(S) /\ s[n + 1] \in S
  BY <1>1
<1>3. SubSeq(s, 1, n + 1) = SubSeq(s, 1, n) \o <<s[n + 1]>>
  BY <1>1, SubSeqRecursiveSecond
<1>4. QED
  BY <1>2, <1>3, AppendIsConcat

\* A text cut in two feeds the parser like the whole: where the chunks end does
\* not matter, between CR and LF or anywhere (Parser::feed).
THEOREM CutAnywhere ==
  ASSUME NEW p \in Parsers, NEW first \in Texts, NEW second \in Texts
  PROVE  Feed(p, first \o second) = After(Feed(p, first).out, Feed(Feed(p, first), second))
<1> DEFINE q       == Feed(p, first)
           Part(n) == SubSeq(second, 1, n)
           T       == {n \in Nat : n <= Len(second) =>
                         Feed(p, first \o Part(n)) = After(q.out, Feed(q, Part(n)))}
<1>1. q \in Parsers /\ q.out \in Seq(Items)
  BY FeedType DEF Parsers
<1>2. Len(second) \in Nat /\ Part(0) = << >> /\ first \o << >> = first
  BY SubSeqEmpty, ConcatEmptySeq DEF Texts
<1>3. 0 \in T
  <2>1. Feed(q, << >>) = [q EXCEPT !.out = << >>]
    BY <1>1, FeedEmpty
  <2>2. q.out \o << >> = q.out
    BY <1>1, ConcatEmptySeq
  <2> HIDE DEF q
  <2>3. After(q.out, Feed(q, << >>)) = q
    BY <1>1, <2>1, <2>2 DEF After, Parsers
  <2>4. QED
    BY <1>2, <2>3 DEF q
<1>4. ASSUME NEW n \in Nat, n \in T PROVE n + 1 \in T
  <2> SUFFICES ASSUME n + 1 <= Len(second)
               PROVE  Feed(p, first \o Part(n + 1)) = After(q.out, Feed(q, Part(n + 1)))
    OBVIOUS
  <2> DEFINE b == second[n + 1]
  <2>1. Part(n) \in Texts /\ b \in Lexemes /\ Part(n + 1) = Append(Part(n), b)
    BY PrefixGrows DEF Texts
  <2>2. Feed(p, first \o Part(n)) = After(q.out, Feed(q, Part(n)))
    <3>1. n <= Len(second)
      BY <1>2
    <3>2. QED
      BY <1>4, <3>1
  <2> HIDE DEF Part, b, q
  <2>3. first \o Part(n) \in Texts /\ first \o Append(Part(n), b) = Append(first \o Part(n), b)
    <3>1. Append(first \o Part(n), b) = first \o Append(Part(n), b)
      <4> DEFINE part == Part(n)
      <4>1. part \in Seq(Lexemes) /\ first \in Seq(Lexemes)
        BY <2>1 DEF Texts
      <4> HIDE DEF part
      <4>2. Append(first \o part, b) = first \o Append(part, b)
        BY <2>1, <4>1, SMTT(20)
      <4>3. QED
        BY <4>2 DEF part
    <3>2. first \o Part(n) \in Texts
      BY <2>1, ConcatProperties DEF Texts
    <3>3. QED
      BY <3>1, <3>2
  <2>4. Feed(p, first \o Part(n + 1)) = FeedOne(After(q.out, Feed(q, Part(n))), b)
    <3>1. Feed(p, Append(first \o Part(n), b)) = FeedOne(Feed(p, first \o Part(n)), b)
      BY <2>1, <2>3, FeedAppend
    <3>2. QED
      BY <2>1, <2>2, <2>3, <3>1
  <2>5. @ = After(q.out, FeedOne(Feed(q, Part(n)), b))
    BY <1>1, <2>1, FeedType, FeedOneAfter
  <2>6. @ = After(q.out, Feed(q, Part(n + 1)))
    <3>1. Feed(q, Append(Part(n), b)) = FeedOne(Feed(q, Part(n)), b)
      BY <1>1, <2>1, FeedAppend
    <3>2. QED
      BY <2>1, <3>1
  <2>7. QED
    BY <2>4, <2>5, <2>6
<1>5. Nat \subseteq T
  <2> HIDE DEF T
  <2>1. QED
    BY <1>3, <1>4, Induction
<1>6. Feed(p, first \o Part(Len(second))) = After(q.out, Feed(q, Part(Len(second))))
  <2>1. Len(second) \in T
    BY <1>2, <1>5
  <2>2. QED
    BY <1>2, <2>1
<1>7. Part(Len(second)) = second
  BY SubSeqFull DEF Texts
<1>8. QED
  BY <1>6, <1>7
-----------------------------------------------------------------------------
(* FlattenSeq *)

Flattens(S, seqs, f) ==
  /\ f \in [1..Len(seqs) -> Seq(S)]
  /\ f[1] = seqs[1]
  /\ \A n \in 1..Len(seqs) - 1 : f[n + 1] = f[n] \o seqs[n + 1]

\* The library's recursion, from the first sequence on, one at a time.
LEMMA FlattenSteps ==
  ASSUME NEW S, NEW seqs \in Seq(Seq(S)), seqs # << >>
  PROVE  \E f : Flattens(S, seqs, f) /\ FlattenSeq(seqs) = f[Len(seqs)]
<1> DEFINE N       == Len(seqs)
           g       == [x \in Seq(S) |-> [n \in Nat |-> IF n \in 1..N THEN x \o seqs[n] ELSE x]]
           step(f) == [i \in 1..N |-> IF i = 1 THEN seqs[i] ELSE f[i - 1] \o seqs[i]]
<1>1. N \in Nat \ {0} /\ \A n \in 1..N : seqs[n] \in Seq(S)
  OBVIOUS
<1>2. g \in [Seq(S) -> [Nat -> Seq(S)]]
  BY <1>1
<1>3. PICK h : Recurs(h, Seq(S), << >>, g)
  <2> HIDE DEF g
  <2>1. << >> \in Seq(S)
    OBVIOUS
  <2>2. QED
    BY <1>2, <2>1, Recursion
<1>4. ASSUME NEW n \in Nat, n + 1 \in 1..N
      PROVE  h[n] \in Seq(S) /\ h[n + 1] = h[n] \o seqs[n + 1]
  <2>1. h \in [Nat -> Seq(S)]
    BY <1>3 DEF Recurs
  <2>2. h[n + 1] = g[h[n]][n + 1]
    <3> HIDE DEF g
    <3>1. QED
      BY <1>3, Zenon DEF Recurs
  <2>3. h[n] \in Seq(S) /\ n + 1 \in Nat
    BY <2>1
  <2>4. g[h[n]][n + 1] = h[n] \o seqs[n + 1]
    BY <1>4, <2>3
  <2>5. QED
    BY <2>2, <2>3, <2>4
<1> DEFINE k == [n \in 1..N |-> h[n]]
<1> HIDE DEF N
<1>5. k = step(k)
  <2>1. ASSUME NEW n \in 1..N PROVE k[n] = step(k)[n]
    <3>1. CASE n = 1
      <4>1. h[0] = << >> /\ h[0 + 1] = h[0] \o seqs[0 + 1]
        <5>1. 0 \in Nat /\ 0 + 1 \in 1..N
          BY <1>1
        <5>2. QED
          BY <1>3, <1>4, <5>1 DEF Recurs
      <4>2. << >> \o seqs[1] = seqs[1]
        BY <1>1, ConcatEmptySeq
      <4>3. h[1] = seqs[1]
        BY <4>1, <4>2
      <4>4. QED
        BY <3>1, <4>3
    <3>2. CASE n # 1
      <4>1. n - 1 \in Nat /\ n - 1 \in 1..N /\ (n - 1) + 1 = n
        BY <1>1, <3>2
      <4>2. h[n] = h[n - 1] \o seqs[n]
        BY <1>4, <4>1
      <4>3. k[n] = h[n] /\ k[n - 1] = h[n - 1]
        BY <4>1
      <4> HIDE DEF k
      <4>4. QED
        BY <3>2, <4>2, <4>3
    <3>3. QED
      BY <3>1, <3>2
  <2>2. k = [n \in 1..N |-> k[n]]
    OBVIOUS
  <2>3. step(k) = [n \in 1..N |-> step(k)[n]]
    OBVIOUS
  <2> HIDE DEF k, step
  <2>4. QED
    BY <2>1, <2>2, <2>3
<1> DEFINE flatten == CHOOSE f : f = step(f)
<1>6. flatten = step(flatten)
  <2> HIDE DEF step, k
  <2>1. QED
    BY <1>5
<1>7. FlattenSeq(seqs) = flatten[N]
  BY <1>1 DEF FlattenSeq, N
<1>8. flatten = [n \in 1..N |-> flatten[n]]
  <2> HIDE DEF flatten
  <2>1. QED
    BY <1>6
<1>9. ASSUME NEW n \in Nat PROVE n \in 1..N => flatten[n] \in Seq(S)
  <2> DEFINE T == {m \in Nat : m \in 1..N => flatten[m] \in Seq(S)}
  <2>1. 0 \in T
    OBVIOUS
  <2>2. ASSUME NEW m \in Nat, m \in T PROVE m + 1 \in T
    <3> SUFFICES ASSUME m + 1 \in 1..N PROVE flatten[m + 1] \in Seq(S)
      OBVIOUS
    <3> HIDE DEF flatten
    <3>1. CASE m = 0
      BY <1>1, <1>6, <3>1
    <3>2. CASE m # 0
      <4>1. m \in 1..N /\ m + 1 # 1 /\ (m + 1) - 1 = m
        BY <1>1, <3>2
      <4>2. flatten[m] \in Seq(S)
        BY <2>2, <4>1
      <4>3. flatten[m + 1] = flatten[m] \o seqs[m + 1]
        BY <1>6, <4>1
      <4>4. QED
        BY <1>1, <4>2, <4>3, ConcatProperties
    <3>3. QED
      BY <3>1, <3>2
  <2>3. Nat \subseteq T
    <3> HIDE DEF T
    <3>1. QED
      BY <2>1, <2>2, Induction
  <2>4. QED
    BY <2>3
<1>10. Flattens(S, seqs, flatten)
  <2> HIDE DEF flatten
  <2>1. flatten \in [1..N -> Seq(S)]
    BY <1>1, <1>8, <1>9
  <2>2. flatten[1] = seqs[1]
    BY <1>1, <1>6
  <2>3. ASSUME NEW n \in 1..N - 1 PROVE flatten[n + 1] = flatten[n] \o seqs[n + 1]
    <3>1. n + 1 \in 1..N /\ n + 1 # 1 /\ (n + 1) - 1 = n
      BY <1>1
    <3>2. QED
      BY <1>6, <3>1
  <2>4. QED
    BY <2>1, <2>2, <2>3 DEF Flattens, N
<1>11. QED
  BY <1>7, <1>10 DEF N

\* The flattening of one sequence, and of one more.
LEMMA FlattenOnce ==
  ASSUME NEW S, NEW seqs \in Seq(Seq(S)), seqs # << >>, NEW f, Flattens(S, seqs, f)
  PROVE  FlattenSeq(seqs) = f[Len(seqs)]
<1>1. PICK h : Flattens(S, seqs, h) /\ FlattenSeq(seqs) = h[Len(seqs)]
  BY FlattenSteps
<1> DEFINE T == {n \in Nat : n \in 1..Len(seqs) => f[n] = h[n]}
<1>2. Len(seqs) \in Nat \ {0}
  OBVIOUS
<1>3. 0 \in T
  OBVIOUS
<1>4. ASSUME NEW n \in Nat, n \in T PROVE n + 1 \in T
  <2> SUFFICES ASSUME n + 1 \in 1..Len(seqs) PROVE f[n + 1] = h[n + 1]
    OBVIOUS
  <2>1. CASE n = 0
    BY <1>1, <2>1 DEF Flattens
  <2>2. CASE n # 0
    <3>1. n \in 1..Len(seqs) - 1 /\ n \in 1..Len(seqs)
      BY <1>2, <2>2
    <3>2. f[n] = h[n]
      BY <1>4, <3>1
    <3>3. QED
      BY <1>1, <3>1, <3>2 DEF Flattens
  <2>3. QED
    BY <2>1, <2>2
<1>5. Nat \subseteq T
  <2> HIDE DEF T
  <2>1. QED
    BY <1>3, <1>4, Induction
<1>6. f[Len(seqs)] = h[Len(seqs)]
  <2>1. Len(seqs) \in T
    BY <1>2, <1>5
  <2>2. QED
    BY <1>2, <2>1
<1>7. QED
  BY <1>1, <1>6

\* Sequences over a set flatten to a sequence over it.
LEMMA FlattenType ==
  ASSUME NEW S, NEW seqs \in Seq(Seq(S))
  PROVE  FlattenSeq(seqs) \in Seq(S)
<1>1. CASE seqs = << >>
  BY <1>1 DEF FlattenSeq
<1>2. CASE seqs # << >>
  <2>1. PICK f : Flattens(S, seqs, f) /\ FlattenSeq(seqs) = f[Len(seqs)]
    BY <1>2, FlattenSteps
  <2>2. Len(seqs) \in 1..Len(seqs)
    BY <1>2
  <2>3. QED
    BY <2>1, <2>2 DEF Flattens
<1>3. QED
  BY <1>1, <1>2

\* One more is joined to the rest.
LEMMA FlattenAppend ==
  ASSUME NEW S, NEW seqs \in Seq(Seq(S)), NEW s \in Seq(S)
  PROVE  FlattenSeq(Append(seqs, s)) = FlattenSeq(seqs) \o s
<1> DEFINE longer == Append(seqs, s)
<1>1. /\ longer \in Seq(Seq(S)) /\ longer # << >>
      /\ Len(seqs) \in Nat /\ Len(longer) = Len(seqs) + 1 /\ longer[Len(seqs) + 1] = s
      /\ \A n \in 1..Len(seqs) : longer[n] = seqs[n]
  BY AppendProperties
<1> HIDE DEF longer
<1>2. PICK f : Flattens(S, longer, f) /\ FlattenSeq(longer) = f[Len(longer)]
  BY <1>1, FlattenSteps
<1>3. /\ f \in [1..Len(seqs) + 1 -> Seq(S)] /\ f[1] = longer[1]
      /\ \A n \in 1..Len(seqs) : f[n + 1] = f[n] \o longer[n + 1]
  <2>1. (Len(seqs) + 1) - 1 = Len(seqs)
    BY <1>1
  <2>2. QED
    BY <1>1, <1>2, <2>1 DEF Flattens
<1>4. CASE seqs = << >>
  <2>1. Len(seqs) = 0
    BY <1>4
  <2>2. f[1] = s
    BY <1>1, <1>3, <2>1
  <2>3. FlattenSeq(longer) = s
    BY <1>1, <1>2, <2>1, <2>2
  <2>4. FlattenSeq(seqs) = << >>
    BY <1>4 DEF FlattenSeq
  <2>5. QED
    BY <2>3, <2>4, ConcatEmptySeq DEF longer
<1>5. CASE seqs # << >>
  <2> DEFINE h == [n \in 1..Len(seqs) |-> f[n]]
  <2>1. Len(seqs) \in 1..Len(seqs)
    BY <1>1, <1>5
  <2>2. Flattens(S, seqs, h)
    <3>1. h \in [1..Len(seqs) -> Seq(S)]
      BY <1>1, <1>3
    <3>2. h[1] = seqs[1]
      BY <1>1, <1>3, <2>1
    <3>3. ASSUME NEW n \in 1..Len(seqs) - 1 PROVE h[n + 1] = h[n] \o seqs[n + 1]
      <4>1. n \in 1..Len(seqs) /\ n + 1 \in 1..Len(seqs)
        BY <1>1
      <4>2. h[n + 1] = f[n + 1] /\ h[n] = f[n]
        BY <4>1
      <4> HIDE DEF h
      <4>3. QED
        BY <1>1, <1>3, <4>1, <4>2
    <3> HIDE DEF h
    <3>4. QED
      BY <3>1, <3>2, <3>3 DEF Flattens
  <2>3. FlattenSeq(seqs) = f[Len(seqs)]
    <3>1. FlattenSeq(seqs) = h[Len(seqs)]
      <4> HIDE DEF h
      <4>1. QED
        BY <1>5, <2>2, FlattenOnce
    <3>2. QED
      BY <2>1, <3>1
  <2>4. f[Len(seqs) + 1] = f[Len(seqs)] \o s
    BY <1>1, <1>3, <2>1
  <2>5. QED
    BY <1>1, <1>2, <2>3, <2>4 DEF longer
<1>6. QED
  BY <1>4, <1>5
-----------------------------------------------------------------------------
(* The items that were heard *)

\* A non-empty set of naturals with an upper bound has a greatest member.
LEMMA MaxOfNaturals ==
  ASSUME NEW n \in Nat, NEW S, S \subseteq 0..n, S # {}
  PROVE  Max(S) \in S /\ \A j \in S : Max(S) >= j
<1>1. PICK x \in S : TRUE
  OBVIOUS
<1>2. x \in 0..n /\ n - x \in Nat
  BY <1>1
<1>3. ASSUME NEW k \in S, \A j \in S : k >= j
      PROVE  Max(S) \in S /\ \A j \in S : Max(S) >= j
  BY <1>3 DEF Max
<1>4. \E k \in S : \A j \in S : k >= j
  <2> SUFFICES ASSUME \A k \in S : \E j \in S : ~ (k >= j) PROVE FALSE
    OBVIOUS
  <2> DEFINE V == {m \in Nat : \E j \in S : j >= m}
  <2>1. 0 \in V
    BY <1>1, <1>2
  <2>2. ASSUME NEW m \in Nat, m \in V PROVE m + 1 \in V
    <3>1. PICK k \in S : k >= m
      BY <2>2
    <3>2. PICK j \in S : ~ (k >= j)
      OBVIOUS
    <3>3. k \in Nat /\ j \in Nat
      OBVIOUS
    <3>4. j >= m + 1
      BY <3>1, <3>2, <3>3
    <3>5. QED
      BY <3>4
  <2>3. Nat \subseteq V
    <3> HIDE DEF V
    <3>1. QED
      BY <2>1, <2>2, Induction
  <2>4. n + 1 \in V
    <3>1. n + 1 \in Nat
      OBVIOUS
    <3> HIDE DEF V
    <3>2. QED
      BY <2>3, <3>1
  <2>5. PICK j \in S : j >= n + 1
    BY <2>4
  <2>6. j \in 0..n
    OBVIOUS
  <2>7. QED
    BY <2>5, <2>6
<1>5. QED
  BY <1>3, <1>4

\* The last item of a kind is one of the items, or there is none.
LEMMA LastOfMax ==
  ASSUME NEW S, NEW items \in Seq(S), NEW is
  PROVE  LET k == LastOf(items, is)
         IN  /\ k \in 0..Len(items)
             /\ k # 0 => items[k].is = is
             /\ \A i \in 1..Len(items) : items[i].is = is => i <= k
<1> DEFINE places == {0} \cup {i \in DOMAIN items : items[i].is = is}
<1>1. DOMAIN items = 1..Len(items) /\ Len(items) \in Nat
  OBVIOUS
<1>2. places \subseteq 0..Len(items) /\ places # {}
  BY <1>1
<1>3. Max(places) \in places /\ \A j \in places : Max(places) >= j
  <2> HIDE DEF places
  <2>1. QED
    BY <1>1, <1>2, MaxOfNaturals
<1>4. LastOf(items, is) = Max(places)
  BY DEF LastOf
<1> DEFINE k == Max(places)
<1>5. k \in 0..Len(items)
  BY <1>2, <1>3
<1>6. k # 0 => items[k].is = is
  BY <1>3
<1>7. ASSUME NEW i \in 1..Len(items), items[i].is = is PROVE i <= k
  <2>1. i \in places
    BY <1>1, <1>7
  <2>2. k >= i
    BY <1>3, <2>1
  <2> HIDE DEF k
  <2>3. QED
    BY <1>5, <2>2
<1>8. QED
  BY <1>4, <1>5, <1>6, <1>7

\* Zero, or the place of an item of that kind with none after it.
LEMMA LastOfIs ==
  ASSUME NEW S, NEW items \in Seq(S), NEW is, NEW k \in 0..Len(items),
         k # 0 => items[k].is = is,
         \A i \in 1..Len(items) : items[i].is = is => i <= k
  PROVE  LastOf(items, is) = k
<1> DEFINE l == LastOf(items, is)
<1>1. l \in 0..Len(items) /\ (l # 0 => items[l].is = is)
      /\ \A i \in 1..Len(items) : items[i].is = is => i <= l
  BY LastOfMax
<1>2. Len(items) \in Nat
  OBVIOUS
<1> HIDE DEF l
<1>3. l <= k
  BY <1>1, <1>2
<1>4. k <= l
  BY <1>1, <1>2
<1>5. l = k
  BY <1>1, <1>2, <1>3, <1>4
<1>6. QED
  BY <1>5 DEF l

\* The last of two parts is that of the second, if it has one.
LEMMA LastOfConcat ==
  ASSUME NEW S, NEW s \in Seq(S), NEW t \in Seq(S), NEW is
  PROVE  LastOf(s \o t, is) = IF LastOf(t, is) = 0 THEN LastOf(s, is)
                              ELSE Len(s) + LastOf(t, is)
<1> DEFINE k == LastOf(s, is)
           l == LastOf(t, is)
           u == s \o t
<1>1. /\ u \in Seq(S) /\ Len(u) = Len(s) + Len(t) /\ Len(s) \in Nat /\ Len(t) \in Nat
      /\ \A i \in 1..Len(s) : u[i] = s[i]
      /\ \A i \in 1..Len(t) : u[Len(s) + i] = t[i]
      /\ \A i \in 1..Len(u) : i \in 1..Len(s) \/ \E j \in 1..Len(t) : i = Len(s) + j
  <2>1. ASSUME NEW i \in 1..Len(s) + Len(t), i \notin 1..Len(s)
        PROVE  \E j \in 1..Len(t) : i = Len(s) + j
    <3>1. i - Len(s) \in 1..Len(t) /\ i = Len(s) + (i - Len(s))
      BY <2>1
    <3>2. QED
      BY <3>1
  <2>2. Len(u) = Len(s) + Len(t)
    OBVIOUS
  <2>3. \A i \in 1..Len(u) : i \in 1..Len(s) \/ \E j \in 1..Len(t) : i = Len(s) + j
    <3> HIDE DEF u
    <3>1. QED
      BY <2>1, <2>2
  <2>4. u \in Seq(S) /\ Len(s) \in Nat /\ Len(t) \in Nat
    OBVIOUS
  <2>5. \A i \in 1..Len(s) : u[i] = s[i]
    OBVIOUS
  <2>6. \A i \in 1..Len(t) : u[Len(s) + i] = t[i]
    OBVIOUS
  <2> HIDE DEF u
  <2>7. QED
    BY <2>2, <2>3, <2>4, <2>5, <2>6
<1>2. k \in 0..Len(s) /\ (k # 0 => s[k].is = is) /\ \A i \in 1..Len(s) : s[i].is = is => i <= k
  BY LastOfMax
<1>3. l \in 0..Len(t) /\ (l # 0 => t[l].is = is) /\ \A i \in 1..Len(t) : t[i].is = is => i <= l
  BY LastOfMax
<1> DEFINE m == IF l = 0 THEN k ELSE Len(s) + l
<1> HIDE DEF k, l, u
<1>4. m \in 0..Len(u)
  BY <1>1, <1>2, <1>3
<1>5. m # 0 => u[m].is = is
  BY <1>1, <1>2, <1>3
<1>6. ASSUME NEW i \in 1..Len(u), u[i].is = is PROVE i <= m
  <2>1. CASE i \in 1..Len(s)
    BY <1>1, <1>2, <1>3, <1>6, <2>1
  <2>2. ASSUME NEW j \in 1..Len(t), i = Len(s) + j PROVE i <= m
    <3>1. j <= l
      BY <1>1, <1>3, <1>6, <2>2
    <3>2. QED
      BY <1>1, <1>3, <2>2, <3>1
  <2>3. QED
    BY <1>1, <2>1, <2>2
<1> HIDE DEF m
<1>7. LastOf(u, is) = m
  BY <1>1, <1>4, <1>5, <1>6, LastOfIs
<1>8. QED
  BY <1>7 DEF k, l, m, u

\* The hint in force after more items.
LEMMA HintedConcat ==
  ASSUME NEW S, NEW s \in Seq(S), NEW t \in Seq(S), NEW default
  PROVE  Hinted(s \o t, default) = Hinted(t, Hinted(s, default))
<1> DEFINE k == LastOf(s, "retry")
           l == LastOf(t, "retry")
<1>1. LastOf(s \o t, "retry") = IF l = 0 THEN k ELSE Len(s) + l
  BY LastOfConcat
<1>2. k \in 0..Len(s) /\ l \in 0..Len(t)
  BY LastOfMax
<1> HIDE DEF k, l
<1>3. CASE l = 0
  <2>1. k # 0 => (s \o t)[k] = s[k]
    BY <1>2
  <2>2. QED
    BY <1>1, <1>3, <2>1 DEF Hinted, k, l
<1>4. CASE l # 0
  <2>1. (s \o t)[Len(s) + l] = t[l] /\ Len(s) + l # 0
    BY <1>2, <1>4
  <2>2. QED
    BY <1>1, <1>4, <2>1 DEF Hinted, l
<1>5. QED
  BY <1>3, <1>4

\* The hint that counts is one of those given, or the one before.
LEMMA HintedAmong ==
  ASSUME NEW S, NEW items \in Seq(S), NEW default
  PROVE  /\ Hinted(items, default) \in HintsOf(items) \cup {default}
         /\ HintsOf(items) # {} => \A other : Hinted(items, default) = Hinted(items, other)
<1> DEFINE k == LastOf(items, "retry")
<1>1. /\ k \in 0..Len(items) /\ (k # 0 => items[k].is = "retry")
      /\ \A i \in 1..Len(items) : items[i].is = "retry" => i <= k
  BY LastOfMax
<1>2. DOMAIN items = 1..Len(items) /\ Len(items) \in Nat
  OBVIOUS
<1> HIDE DEF k
<1>3. k # 0 => items[k].ms \in HintsOf(items)
  BY <1>1, <1>2 DEF HintsOf
<1>4. HintsOf(items) # {} => k # 0
  BY <1>1, <1>2 DEF HintsOf
<1>5. QED
  BY <1>3, <1>4 DEF Hinted, k

\* The hints of two parts are those of each.
LEMMA HintsOfConcat ==
  ASSUME NEW S, NEW s \in Seq(S), NEW t \in Seq(S)
  PROVE  HintsOf(s) \subseteq HintsOf(s \o t)
<1>1. \A i \in DOMAIN s : i \in DOMAIN (s \o t) /\ (s \o t)[i] = s[i]
  OBVIOUS
<1>2. QED
  BY <1>1 DEF HintsOf
-----------------------------------------------------------------------------
(* A text on its way, and what was said *)

Rested(p) == [p EXCEPT !.out = << >>]

\* A parser is what it has completed and what it is without that.
LEMMA RestedType ==
  ASSUME NEW p \in Parsers
  PROVE  /\ Rested(p) \in Parsers /\ Rested(p).out = << >> /\ Rested(p).last = p.last
         /\ p = After(p.out, Rested(p))
<1>1. << >> \in Seq(Items) /\ p.out \o << >> = p.out
  BY ConcatEmptySeq DEF Parsers
<1>2. QED
  BY <1>1 DEF Parsers, Rested, After

\* A chunk is read as by the parser that has completed nothing.
LEMMA FeedRested ==
  ASSUME NEW p \in Parsers, NEW bytes \in Texts
  PROVE  Feed(Rested(p), bytes) = Feed(p, bytes)
<1>1. PICK f : Passed(p, bytes, f) /\ Feed(p, bytes) = f[Len(bytes)]
  BY FeedPasses
<1>2. Rested(p) \in Parsers /\ [Rested(p) EXCEPT !.out = << >>] = [p EXCEPT !.out = << >>]
  <2>1. Rested(p) \in Parsers
    BY RestedType
  <2>2. [Rested(p) EXCEPT !.out = << >>] = [p EXCEPT !.out = << >>]
    BY DEF Rested, Parsers
  <2>3. QED
    BY <2>1, <2>2
<1>3. Passed(Rested(p), bytes, f)
  BY <1>1, <1>2 DEF Passed
<1>4. QED
  BY <1>1, <1>2, <1>3, PassesOnce

\* A parser of a new stream.
LEMMA NewParserType ==
  ASSUME NEW id \in Fields, id # << >>
  PROVE  /\ NewParser(id) \in Parsers /\ NewParser(id).last = id
         /\ NewParser(id).out = << >>
<1>1. << >> \in Texts /\ << >> \in Seq(Items) /\ Absent \in Fields
  BY EmptyIsText
<1>2. QED
  BY <1>1 DEF NewParser, Parsers

\* An id that can be in force is a text, or none.
LEMMA IdsAreFields ==
  ASSUME NEW id \in Ids
  PROVE  id \in Fields /\ id # << >>
BY SayingAssumption DEF Ids, Utterances, Fields

\* There may be none.
LEMMA AbsentIsId == Absent \in Ids
BY DEF Ids, Absent

\* What is said leaves an id in force, and means items.
LEMMA ForceAfterType ==
  ASSUME NEW saying \in Utterances, NEW id \in Ids
  PROVE  ForceAfter(saying, id) \in Ids
BY AbsentIsId DEF ForceAfter, Ids

\* A parser between two messages.
LEMMA BetweenType ==
  ASSUME NEW manner \in Styles, NEW id \in Ids
  PROVE  /\ Between(manner, id) \in Parsers /\ Between(manner, id).last = id
         /\ Between(manner, id).out = << >>
<1>1. /\ NewParser(id) \in Parsers /\ NewParser(id).last = id
      /\ NewParser(id).out = << >>
  BY IdsAreFields, NewParserType
<1>2. (Last(manner.ending) = "cr") \in BOOLEAN
  OBVIOUS
<1> DEFINE ends == Last(manner.ending) = "cr"
<1>3. Between(manner, id) = [NewParser(id) EXCEPT !.sawCr = ends, !.atStart = FALSE]
  BY DEF Between
<1> HIDE DEF ends
<1>4. QED
  BY <1>1, <1>2, <1>3 DEF Parsers, ends

\* The mark that a stream may begin with says nothing.
LEMMA GreetingIsText ==
  ASSUME NEW manner \in Styles
  PROVE  Greeting(manner) \in Texts /\ (Greeting(manner) = << >> \/ Greeting(manner) = <<"bom">>)
<1>1. "bom" \in Lexemes
  BY DEF Lexemes
<1>2. <<"bom">> \in Texts
  BY <1>1 DEF Texts
<1>3. QED
  BY <1>2, EmptyIsText DEF Greeting

\* A parser past the byte-order mark.
LEMMA GreetedType ==
  ASSUME NEW manner \in Styles, NEW id \in Ids
  PROVE  /\ Greeted(manner, id) \in Parsers /\ Greeted(manner, id).last = id
         /\ Greeted(manner, id).out = << >>
         /\ \A k \in 0..Len(Greeting(manner)) :
              LET p == Feed(NewParser(id), SubSeq(Greeting(manner), 1, k))
              IN  p.last = id /\ p.out = << >>
<1> DEFINE p == NewParser(id)
           q == Feed(p, <<"bom">>)
<1>1. p \in Parsers /\ p.last = id /\ p.out = << >>
  BY IdsAreFields, NewParserType
<1>2. "bom" \in Lexemes /\ "bom" \notin Breaks /\ "bom" # "lf"
  BY DEF Lexemes, Breaks
<1>3. Feed(p, << >>) = p
  <2>1. Feed(p, << >>) = [p EXCEPT !.out = << >>]
    BY <1>1, FeedEmpty
  <2> HIDE DEF p
  <2>2. QED
    BY <1>1, <2>1 DEF Parsers
<1>4. q \in Parsers /\ q.last = id /\ q.out = << >>
  <2>1. Append(<< >>, "bom") = <<"bom">>
    OBVIOUS
  <2>2. q = FeedOne(Feed(p, << >>), "bom")
    <3> HIDE DEF p
    <3>1. Feed(p, Append(<< >>, "bom")) = FeedOne(Feed(p, << >>), "bom")
      BY <1>1, <1>2, EmptyIsText, FeedAppend
    <3>2. QED
      BY <2>1, <3>1
  <2>3. q \in Parsers
    <3> HIDE DEF p
    <3>1. QED
      BY <1>1, <1>2, <1>3, <2>2, FeedOneType
  <2>4. FeedOne(p, "bom") = [[p EXCEPT !.sawCr = "bom" = "cr"] EXCEPT !.line = Append(@, "bom")]
    <3> HIDE DEF p
    <3>1. QED
      BY <1>2 DEF FeedOne
  <2> HIDE DEF p
  <2>5. FeedOne(p, "bom").last = p.last /\ FeedOne(p, "bom").out = p.out
    BY <1>1, <2>4 DEF Parsers
  <2> HIDE DEF q
  <2>6. QED
    BY <1>1, <1>3, <2>2, <2>3, <2>5
<1> HIDE DEF p, q
<1>5. CASE Greeting(manner) = << >>
  <2>1. \A k \in 0..Len(Greeting(manner)) : SubSeq(Greeting(manner), 1, k) = << >>
    BY <1>5
  <2>2. Greeted(manner, id) = p
    BY <1>3, <1>5 DEF Greeted, p
  <2>3. QED
    BY <1>1, <1>3, <2>1, <2>2 DEF p
<1>6. CASE Greeting(manner) = <<"bom">>
  <2>1. ASSUME NEW k \in 0..Len(Greeting(manner))
        PROVE  SubSeq(Greeting(manner), 1, k) = << >> \/ SubSeq(Greeting(manner), 1, k) = <<"bom">>
    <3>1. k = 0 \/ k = 1
      BY <1>6
    <3>2. SubSeq(<<"bom">>, 1, 0) = << >>
      BY SubSeqEmpty
    <3>3. SubSeq(Greeting(manner), 1, Len(Greeting(manner))) = Greeting(manner)
      BY GreetingIsText, SubSeqFull DEF Texts
    <3>4. Len(Greeting(manner)) = 1
      BY <1>6
    <3>5. QED
      BY <1>6, <3>1, <3>2, <3>3, <3>4
  <2>2. Greeted(manner, id) = q
    BY <1>6 DEF Greeted, q, p
  <2>3. QED
    BY <1>1, <1>3, <1>4, <2>1, <2>2 DEF p, q
<1>7. QED
  BY <1>5, <1>6, GreetingIsText

\* A text is written as a text.
LEMMA WrittenIsText ==
  ASSUME NEW text \in Texts, NEW manner \in Styles
  PROVE  Written(text, manner.ending) \in Texts
<1>1. manner.ending \in Texts
  <2>1. manner.ending \in {<<"lf">>, <<"cr">>, <<"cr", "lf">>}
    BY SayingAssumption DEF Style
  <2>2. <<"lf">> \in Texts /\ <<"cr">> \in Texts /\ <<"cr", "lf">> \in Texts
    BY LexemeNames DEF Texts
  <2>3. QED
    BY <2>1, <2>2
<1> DEFINE parts == [i \in DOMAIN text |-> IF text[i] = "lf" THEN manner.ending ELSE <<text[i]>>]
<1>2. parts \in Seq(Texts)
  <2>1. ASSUME NEW i \in DOMAIN text PROVE parts[i] \in Texts
    <3>1. text[i] \in Lexemes
      BY DEF Texts
    <3>2. <<text[i]>> \in Texts
      BY <3>1 DEF Texts
    <3>3. QED
      BY <1>1, <3>2
  <2>2. DOMAIN text = 1..Len(text) /\ Len(text) \in Nat
    BY DEF Texts
  <2>3. parts \in [1..Len(text) -> Texts]
    BY <2>1, <2>2
  <2> HIDE DEF parts
  <2>4. QED
    BY <2>2, <2>3
<1>3. FlattenSeq(parts) \in Texts
  <2> HIDE DEF parts
  <2>1. QED
    BY <1>2, FlattenType DEF Texts
<1>4. QED
  BY <1>3 DEF Written

Marks == [after : Nat, id : Ids]

Histories == [count : Nat, items : Seq(Items), id : Ids, marks : SUBSET Marks]

\* What the parser will make of the text that is still to come is what is left of
\* what was said, and whatever part of it comes, the last id is one that was in
\* force there.
Reads(p, text, manner, items, history) ==
  /\ history.items = items \o Feed(p, text).out
  /\ Rested(Feed(p, text)) \in {Greeted(manner, history.id), Between(manner, history.id)}
  /\ \A k \in 0..Len(text) :
       LET q == Feed(p, SubSeq(text, 1, k))
       IN  MarkedAt(items \o q.out, q.last) \in history.marks

\* A place among the items, and an id.
LEMMA MarkedAtType ==
  ASSUME NEW items \in Seq(Items), NEW id \in Ids
  PROVE  MarkedAt(items, id) \in Marks
<1>1. LastOf(items, "event") \in 0..Len(items) /\ Len(items) \in Nat
  BY LastOfMax
<1>2. QED
  BY <1>1 DEF MarkedAt, Marks

\* A part of two texts from the start is part of the first, or the first and
\* part of the second.
PrefixOfTwo(s, t, k) ==
  \/ k \in 0..Len(s) /\ SubSeq(s \o t, 1, k) = SubSeq(s, 1, k)
  \/ \E j \in 0..Len(t) : SubSeq(s \o t, 1, k) = s \o SubSeq(t, 1, j)

\* A chunk that is cut: the first part of it,
LEMMA CutPrefix ==
  ASSUME NEW S, NEW s \in Seq(S), NEW t \in Seq(S), NEW k \in 0..Len(s \o t)
  PROVE  PrefixOfTwo(s, t, k)
<1>1. Len(s) \in Nat /\ Len(t) \in Nat /\ Len(s \o t) = Len(s) + Len(t)
  OBVIOUS
<1>2. CASE k <= Len(s)
  <2>1. k \in 0..Len(s)
    BY <1>1, <1>2
  <2>2. SubSeq(s \o t, 1, k) = SubSeq(s, 1, k)
    <3>1. \A i \in 1..k : (s \o t)[i] = s[i] /\ s[i] \in S
      BY <1>1, <1>2
    <3>2. SubSeq(s \o t, 1, k) \in Seq(S) /\ SubSeq(s, 1, k) \in Seq(S)
      BY <1>1, <2>1
    <3>3. Len(SubSeq(s \o t, 1, k)) = k /\ Len(SubSeq(s, 1, k)) = k
      BY <1>1, <2>1
    <3>4. \A i \in 1..k : SubSeq(s \o t, 1, k)[i] = SubSeq(s, 1, k)[i]
      BY <1>1, <2>1, <3>1
    <3>5. QED
      BY <3>2, <3>3, <3>4, SeqEqual
  <2>3. QED
    BY <2>1, <2>2 DEF PrefixOfTwo
<1>3. CASE ~ (k <= Len(s))
  <2> DEFINE j == k - Len(s)
  <2>1. j \in 0..Len(t) /\ k = Len(s) + j
    BY <1>1, <1>3
  <2>2. SubSeq(s \o t, 1, k) = s \o SubSeq(t, 1, j)
    <3>1. SubSeq(t, 1, j) \in Seq(S) /\ Len(SubSeq(t, 1, j)) = j
          /\ \A i \in 1..j : SubSeq(t, 1, j)[i] = t[i]
      BY <1>1, <2>1
    <3>2. SubSeq(s \o t, 1, k) \in Seq(S) /\ Len(SubSeq(s \o t, 1, k)) = k
      BY <1>1, <2>1
    <3>3. s \o SubSeq(t, 1, j) \in Seq(S) /\ Len(s \o SubSeq(t, 1, j)) = k
      <4> HIDE DEF j
      <4>1. QED
        BY <1>1, <2>1, <3>1
    <3>4. ASSUME NEW i \in 1..k PROVE SubSeq(s \o t, 1, k)[i] = (s \o SubSeq(t, 1, j))[i]
      <4>1. SubSeq(s \o t, 1, k)[i] = (s \o t)[i]
        BY <1>1, <2>1
      <4> HIDE DEF j
      <4>2. (s \o t)[i] = IF i <= Len(s) THEN s[i] ELSE t[i - Len(s)]
        BY <1>1, <2>1
      <4>3. (s \o SubSeq(t, 1, j))[i]
              = IF i <= Len(s) THEN s[i] ELSE SubSeq(t, 1, j)[i - Len(s)]
        BY <1>1, <2>1, <3>1
      <4>4. i <= Len(s) \/ i - Len(s) \in 1..j
        BY <1>1, <2>1
      <4>5. QED
        BY <3>1, <4>1, <4>2, <4>3, <4>4
    <3> HIDE DEF j
    <3>5. QED
      BY <2>1, <3>2, <3>3, <3>4, SeqEqual
  <2>3. QED
    BY <2>1, <2>2 DEF PrefixOfTwo
<1>4. QED
  BY <1>2, <1>3

\* What the beginning of a sequence is.
LEMMA PrefixIs ==
  ASSUME NEW S, NEW s \in Seq(S), NEW n \in 0..Len(s)
  PROVE  /\ SubSeq(s, 1, n) \in Seq(S) /\ Len(SubSeq(s, 1, n)) = n
         /\ \A i \in 1..n : SubSeq(s, 1, n)[i] = s[i]
  OBVIOUS

\* and the rest.
LEMMA CutSuffix ==
  ASSUME NEW S, NEW s \in Seq(S), NEW n \in 0..Len(s), NEW k \in 0..Len(s) - n
  PROVE  /\ SubSeq(s, 1, n) \in Seq(S) /\ SubSeq(s, n + 1, Len(s)) \in Seq(S)
         /\ Len(SubSeq(s, n + 1, Len(s))) = Len(s) - n
         /\ SubSeq(SubSeq(s, n + 1, Len(s)), 1, k) \in Seq(S)
         /\ SubSeq(s, 1, n) \o SubSeq(SubSeq(s, n + 1, Len(s)), 1, k) = SubSeq(s, 1, n + k)
<1> DEFINE a == SubSeq(s, 1, n)
           b == SubSeq(s, n + 1, Len(s))
           c == SubSeq(b, 1, k)
           d == SubSeq(s, 1, n + k)
<1>1. Len(s) \in Nat /\ n \in Nat /\ k \in Nat /\ n + k \in 0..Len(s)
  OBVIOUS
<1>2. a \in Seq(S) /\ Len(a) = n /\ \A i \in 1..n : a[i] = s[i]
  BY <1>1
<1>3. b \in Seq(S) /\ Len(b) = Len(s) - n /\ \A i \in 1..Len(s) - n : b[i] = s[n + i]
  <2>1. b \in Seq(S) /\ Len(b) = Len(s) - n
    BY <1>1
  <2>2. ASSUME NEW i \in 1..Len(s) - n PROVE b[i] = s[n + i]
    BY <1>1
  <2>3. QED
    BY <2>1, <2>2
<1>4. d \in Seq(S) /\ Len(d) = n + k /\ \A i \in 1..n + k : d[i] = s[i]
  BY <1>1, PrefixIs
<1> HIDE DEF a, b, d
<1>5. c \in Seq(S) /\ Len(c) = k /\ \A i \in 1..k : c[i] = b[i]
  <2>1. k \in 0..Len(b)
    BY <1>1, <1>3
  <2>2. QED
    BY <1>3, <2>1, PrefixIs
<1> HIDE DEF c
<1>6. a \o c \in Seq(S) /\ Len(a \o c) = n + k
  BY <1>1, <1>2, <1>5, SMTT(20)
<1>7. ASSUME NEW i \in 1..n + k PROVE (a \o c)[i] = d[i]
  <2>1. (a \o c)[i] = IF i <= n THEN a[i] ELSE c[i - n]
    BY <1>1, <1>2, <1>5
  <2>2. CASE i <= n
    BY <1>1, <1>2, <1>4, <2>1, <2>2
  <2>3. CASE ~ (i <= n)
    <3>1. i - n \in 1..k /\ i - n \in 1..Len(s) - n /\ n + (i - n) = i
      BY <1>1, <2>3
    <3>2. c[i - n] = s[i]
      BY <1>3, <1>5, <3>1
    <3>3. QED
      BY <1>4, <2>1, <2>3, <3>2
  <2>4. QED
    BY <2>2, <2>3
<1>8. a \o c = d
  BY <1>4, <1>6, <1>7, SeqEqual
<1>9. QED
  BY <1>2, <1>3, <1>5, <1>8 DEF a, b, c, d

\* A chunk is received.
LEMMA ReadsOn ==
  ASSUME NEW p \in Parsers, NEW text \in Texts, NEW manner \in Styles,
         NEW items \in Seq(Items), NEW history, NEW n \in 0..Len(text),
         Reads(p, text, manner, items, history)
  PROVE  LET q == Feed(p, SubSeq(text, 1, n))
         IN  Reads(Rested(q), SubSeq(text, n + 1, Len(text)), manner, items \o q.out, history)
<1> DEFINE first == SubSeq(text, 1, n)
           rest  == SubSeq(text, n + 1, Len(text))
           q     == Feed(p, first)
           Part(k) == SubSeq(rest, 1, k)
<1>1. Len(text) \in Nat /\ n \in Nat
  BY DEF Texts
<1>2. ASSUME NEW k \in 0..Len(text) - n
      PROVE  /\ first \in Texts /\ rest \in Texts /\ Len(rest) = Len(text) - n
             /\ Part(k) \in Texts /\ first \o Part(k) = SubSeq(text, 1, n + k)
  BY CutSuffix DEF Texts
<1>3. first \in Texts /\ rest \in Texts /\ Len(rest) = Len(text) - n
  <2>1. 0 \in 0..Len(text) - n
    BY <1>1
  <2>2. QED
    BY <1>2, <2>1
<1> HIDE DEF first, rest
<1>4. q \in Parsers /\ Rested(q) \in Parsers /\ q.out \in Seq(Items)
  BY <1>3, FeedType, RestedType DEF Parsers
<1> HIDE DEF q
<1>5. ASSUME NEW k \in 0..Len(text) - n
      PROVE  /\ Feed(Rested(q), Part(k)) \in Parsers
             /\ Feed(p, SubSeq(text, 1, n + k)) = After(q.out, Feed(Rested(q), Part(k)))
  <2>1. Part(k) \in Texts /\ first \o Part(k) = SubSeq(text, 1, n + k)
    BY <1>2
  <2> HIDE DEF Part
  <2>2. Feed(p, first \o Part(k)) = After(q.out, Feed(q, Part(k)))
    BY <1>3, <2>1, CutAnywhere DEF q
  <2>3. Feed(Rested(q), Part(k)) = Feed(q, Part(k))
    BY <1>4, <2>1, FeedRested
  <2>4. QED
    BY <1>4, <2>1, <2>2, <2>3, FeedType
<1>6. ASSUME NEW r \in Parsers
      PROVE  /\ items \o After(q.out, r).out = (items \o q.out) \o r.out
             /\ After(q.out, r).last = r.last /\ Rested(After(q.out, r)) = Rested(r)
  <2>1. r.out \in Seq(Items)
    BY DEF Parsers
  <2>2. After(q.out, r).out = q.out \o r.out /\ After(q.out, r).last = r.last
        /\ Rested(After(q.out, r)) = Rested(r)
    <3> DEFINE o == q.out
    <3>1. After(o, r).out = o \o r.out /\ After(o, r).last = r.last
      BY DEF After, Parsers
    <3>2. Rested(After(o, r)) = Rested(r)
      BY DEF After, Parsers, Rested
    <3>3. QED
      BY <3>1, <3>2
  <2>3. items \o (q.out \o r.out) = (items \o q.out) \o r.out
    <3> DEFINE o == q.out
               t == r.out
    <3>1. o \in Seq(Items) /\ t \in Seq(Items)
      BY <1>4, <2>1
    <3> HIDE DEF o, t
    <3>2. items \o (o \o t) = (items \o o) \o t
      BY <3>1, ConcatAssociative, SMTT(20)
    <3>3. QED
      BY <3>2 DEF o, t
  <2>4. QED
    BY <2>2, <2>3
<1>7. LET r == Feed(Rested(q), rest)
      IN  r \in Parsers /\ Feed(p, text) = After(q.out, r)
  <2>1. Len(text) - n \in 0..Len(text) - n /\ n + (Len(text) - n) = Len(text)
    BY <1>1
  <2>2. Part(Len(text) - n) = rest
    BY <1>3, SubSeqFull DEF Texts
  <2>3. SubSeq(text, 1, Len(text)) = text
    BY SubSeqFull DEF Texts
  <2> HIDE DEF Part
  <2>4. QED
    BY <1>5, <2>1, <2>2, <2>3
<1>8. /\ history.items = (items \o q.out) \o Feed(Rested(q), rest).out
      /\ Rested(Feed(Rested(q), rest))
           \in {Greeted(manner, history.id), Between(manner, history.id)}
  BY <1>6, <1>7 DEF Reads
<1>9. ASSUME NEW k \in 0..Len(rest)
      PROVE  LET r == Feed(Rested(q), Part(k))
             IN  MarkedAt((items \o q.out) \o r.out, r.last) \in history.marks
  <2>1. k \in 0..Len(text) - n /\ n + k \in 0..Len(text)
    BY <1>1, <1>3
  <2>2. LET s == Feed(p, SubSeq(text, 1, n + k))
        IN  MarkedAt(items \o s.out, s.last) \in history.marks
    BY <2>1 DEF Reads
  <2> HIDE DEF Part
  <2>3. QED
    BY <1>5, <1>6, <2>1, <2>2
<1>10. Reads(Rested(q), rest, manner, items \o q.out, history)
  BY <1>8, <1>9 DEF Reads
<1>11. QED
  BY <1>10 DEF q, first, rest

\* What one saying does to a parser between two messages.
LEMMA SayingRead ==
  ASSUME SayingsAreMeant, NEW saying \in Utterances, NEW manner \in Styles, NEW id \in Ids,
         NEW p \in {Greeted(manner, id), Between(manner, id)}
  PROVE  LET text  == Written(saying.text, manner.ending)
             after == ForceAfter(saying, id)
         IN  /\ text \in Texts /\ after \in Ids
             /\ Meant(saying, id) \in Seq(Items)
             /\ Feed(p, text).out = Meant(saying, id)
             /\ Rested(Feed(p, text)) = Between(manner, after)
             /\ \A k \in 0..Len(text) :
                  LET q == Feed(p, SubSeq(text, 1, k))
                  IN  /\ q \in Parsers
                      /\ \/ q.last = id /\ LastOf(q.out, "event") = 0
                         \/ q.last = after /\ q.out = Meant(saying, id)
<1> DEFINE text  == Written(saying.text, manner.ending)
           after == ForceAfter(saying, id)
           items == Meant(saying, id)
<1>1. text \in Texts
  BY SayingAssumption, WrittenIsText DEF Utterances
<1>2. after \in Ids
  BY ForceAfterType
<1>3. p \in Parsers
  BY GreetedType, BetweenType
<1>4. IsMeant(saying, manner, id)
  BY DEF SayingsAreMeant
<1>5. /\ Feed(p, text) = [Between(manner, after) EXCEPT !.out = items]
      /\ \A k \in 0..Len(text) :
           LET q == Feed(p, SubSeq(text, 1, k))
           IN  \/ q.last = id /\ LastOf(q.out, "event") = 0
               \/ q.last = after /\ q.out = items
  BY <1>4 DEF IsMeant
<1> HIDE DEF text, after, items
<1>6. Feed(p, text) \in Parsers
  BY <1>1, <1>3, FeedType
<1>7. Between(manner, after) \in Parsers /\ Between(manner, after).out = << >>
  BY <1>2, BetweenType
<1>8. Feed(p, text).out = items /\ Rested(Feed(p, text)) = Between(manner, after)
  <2> DEFINE b == Between(manner, after)
  <2> HIDE DEF b
  <2>1. Feed(p, text) = [b EXCEPT !.out = items] /\ b \in Parsers /\ b.out = << >>
    BY <1>5, <1>7 DEF b
  <2>2. [b EXCEPT !.out = items].out = items /\ [[b EXCEPT !.out = items] EXCEPT !.out = << >>] = b
    BY <2>1 DEF Parsers
  <2>3. QED
    BY <2>1, <2>2 DEF Rested, b
<1>9. items \in Seq(Items)
  BY <1>6, <1>8 DEF Parsers
<1>10. ASSUME NEW k \in 0..Len(text) PROVE Feed(p, SubSeq(text, 1, k)) \in Parsers
  <2>1. SubSeq(text, 1, k) \in Texts
    BY <1>1 DEF Texts
  <2>2. QED
    BY <1>3, <2>1, FeedType
<1>11. QED
  BY <1>1, <1>2, <1>5, <1>8, <1>9, <1>10 DEF text, after, items

\* One more is said.
LEMMA ReadsMore ==
  ASSUME SayingsAreMeant, NEW p \in Parsers, NEW text \in Texts, NEW manner \in Styles,
         NEW items \in Seq(Items), NEW history \in Histories, NEW saying \in Utterances,
         Reads(p, text, manner, items, history)
  PROVE  /\ Told(history, saying) \in Histories
         /\ Reads(p, text \o Written(saying.text, manner.ending), manner, items,
                  Told(history, saying))
<1> DEFINE id    == history.id
           more  == Written(saying.text, manner.ending)
           after == ForceAfter(saying, id)
           said2 == Told(history, saying)
           meant == Meant(saying, id)
           q     == Feed(p, text)
           b     == Rested(q)
           all   == history.items \o meant
           Part(k) == SubSeq(more, 1, k)
<1>1. /\ id \in Ids /\ history.items \in Seq(Items) /\ history.marks \subseteq Marks
      /\ history.count \in Nat
  BY DEF Histories
<1>2. q \in Parsers /\ q.out \in Seq(Items) /\ b \in Parsers
  BY FeedType, RestedType DEF Parsers
<1>3. b \in {Greeted(manner, id), Between(manner, id)}
  BY DEF Reads
<1>4. b.last = id /\ q.last = id
  <2>1. b.last = id
    BY <1>1, <1>3, GreetedType, BetweenType
  <2>2. b.last = q.last
    BY <1>2, RestedType
  <2>3. QED
    BY <2>1, <2>2
<1>5. /\ more \in Texts /\ after \in Ids /\ meant \in Seq(Items)
      /\ Feed(b, more).out = meant /\ Rested(Feed(b, more)) = Between(manner, after)
      /\ \A k \in 0..Len(more) :
           LET r == Feed(b, Part(k))
           IN  /\ r \in Parsers
               /\ \/ r.last = id /\ LastOf(r.out, "event") = 0
                  \/ r.last = after /\ r.out = meant
  <2> HIDE DEF b
  <2>1. QED
    BY <1>1, <1>3, SayingRead
<1>6. /\ said2.id = after /\ said2.items = all /\ said2.count = history.count + 1
      /\ said2.marks = history.marks \cup {MarkedAt(all, after)}
      /\ said2 = [count |-> said2.count, items |-> said2.items, id |-> said2.id,
                  marks |-> said2.marks]
  BY DEF Told
<1> HIDE DEF said2, meant, after, more, b, q
<1>7. all \in Seq(Items)
  BY <1>1, <1>5, ConcatProperties
<1>8. said2 \in Histories
  <2>1. MarkedAt(all, after) \in Marks
    BY <1>5, <1>7, MarkedAtType
  <2> HIDE DEF all
  <2>2. QED
    BY <1>1, <1>5, <1>6, <1>7, <2>1 DEF Histories
<1>9. ASSUME NEW k \in 0..Len(more)
      PROVE  /\ Part(k) \in Texts
             /\ Feed(p, text \o Part(k)) = After(q.out, Feed(b, Part(k)))
  <2>1. Part(k) \in Texts
    BY <1>5 DEF Texts
  <2> HIDE DEF Part
  <2>2. Feed(p, text \o Part(k)) = After(q.out, Feed(q, Part(k)))
    BY <2>1, CutAnywhere DEF q
  <2>3. Feed(b, Part(k)) = Feed(q, Part(k))
    BY <1>2, <2>1, FeedRested DEF b
  <2>4. QED
    BY <2>1, <2>2, <2>3
<1>10. history.items = items \o q.out
  BY DEF Reads, q
<1>11. ASSUME NEW r \in Parsers
       PROVE  /\ items \o After(q.out, r).out = history.items \o r.out
              /\ After(q.out, r).last = r.last /\ Rested(After(q.out, r)) = Rested(r)
  <2> DEFINE o == q.out
             t == r.out
  <2>1. o \in Seq(Items) /\ t \in Seq(Items)
    BY <1>2 DEF Parsers
  <2>2. After(q.out, r).out = o \o t /\ After(q.out, r).last = r.last
        /\ Rested(After(q.out, r)) = Rested(r)
    BY DEF After, Parsers, Rested
  <2> HIDE DEF o, t
  <2>3. items \o (o \o t) = (items \o o) \o t
    BY <2>1, ConcatAssociative
  <2>4. QED
    BY <1>10, <2>2, <2>3 DEF o, t
<1>12. Len(more) \in Nat /\ Part(Len(more)) = more
  BY <1>5, SubSeqFull DEF Texts
<1>13. /\ said2.items = items \o Feed(p, text \o more).out
       /\ Rested(Feed(p, text \o more)) = Between(manner, said2.id)
  <2>1. Feed(b, more) \in Parsers /\ Feed(p, text \o more) = After(q.out, Feed(b, more))
    <3>1. Len(more) \in 0..Len(more)
      BY <1>12
    <3> HIDE DEF Part
    <3>2. QED
      BY <1>5, <1>9, <1>12, <3>1
  <2>2. QED
    BY <1>5, <1>6, <1>11, <2>1
<1>14. \A k \in 0..Len(text) :
         LET r == Feed(p, SubSeq(text, 1, k))
         IN  MarkedAt(items \o r.out, r.last) \in history.marks
  BY DEF Reads
<1>15. MarkedAt(history.items, id) \in history.marks
  <2>1. Len(text) \in 0..Len(text) /\ SubSeq(text, 1, Len(text)) = text
    BY SubSeqFull DEF Texts
  <2>2. MarkedAt(items \o q.out, q.last) \in history.marks
    BY <1>14, <2>1 DEF q
  <2>3. QED
    BY <1>4, <1>10, <2>2
<1>16. ASSUME NEW k \in 0..Len(text \o more)
       PROVE  LET r == Feed(p, SubSeq(text \o more, 1, k))
              IN  MarkedAt(items \o r.out, r.last) \in said2.marks
  <2>1. CASE k \in 0..Len(text) /\ SubSeq(text \o more, 1, k) = SubSeq(text, 1, k)
    BY <1>6, <1>14, <2>1
  <2>2. ASSUME NEW j \in 0..Len(more), SubSeq(text \o more, 1, k) = text \o Part(j)
        PROVE  LET r == Feed(p, SubSeq(text \o more, 1, k))
               IN  MarkedAt(items \o r.out, r.last) \in said2.marks
    <3> DEFINE r == Feed(b, Part(j))
    <3>1. /\ r \in Parsers
          /\ \/ r.last = id /\ LastOf(r.out, "event") = 0
             \/ r.last = after /\ r.out = meant
      BY <1>5
    <3>2. Feed(p, SubSeq(text \o more, 1, k)) = After(q.out, r)
      BY <1>9, <2>2
    <3> HIDE DEF r
    <3>3. MarkedAt(items \o After(q.out, r).out, After(q.out, r).last)
            = MarkedAt(history.items \o r.out, r.last)
      BY <1>11, <3>1
    <3>4. CASE r.last = id /\ LastOf(r.out, "event") = 0
      <4>1. LastOf(history.items \o r.out, "event") = LastOf(history.items, "event")
        <5> DEFINE s == history.items
                   t == r.out
        <5>1. s \in Seq(Items) /\ t \in Seq(Items) /\ LastOf(t, "event") = 0
          BY <1>1, <3>1, <3>4 DEF Parsers
        <5> HIDE DEF s, t
        <5>2. LastOf(s \o t, "event") = LastOf(s, "event")
          BY <5>1, LastOfConcat
        <5>3. QED
          BY <5>2 DEF s, t
      <4>2. MarkedAt(history.items \o r.out, r.last) = MarkedAt(history.items, id)
        BY <3>4, <4>1 DEF MarkedAt
      <4>3. QED
        BY <1>6, <1>15, <3>2, <3>3, <4>2
    <3>5. CASE r.last = after /\ r.out = meant
      BY <1>6, <3>2, <3>3, <3>5
    <3>6. QED
      BY <3>1, <3>4, <3>5
  <2>3. \/ k \in 0..Len(text) /\ SubSeq(text \o more, 1, k) = SubSeq(text, 1, k)
        \/ \E j \in 0..Len(more) : SubSeq(text \o more, 1, k) = text \o Part(j)
    <3>1. text \in Seq(Lexemes) /\ more \in Seq(Lexemes)
      BY <1>5 DEF Texts
    <3>2. PrefixOfTwo(text, more, k)
      BY <3>1, CutPrefix
    <3>3. QED
      BY <3>2 DEF PrefixOfTwo
  <2> HIDE DEF Part
  <2>4. QED
    BY <2>1, <2>2, <2>3
<1>17. Reads(p, text \o more, manner, items, said2)
  <2> HIDE DEF Part, all
  <2>1. QED
    BY <1>13, <1>16 DEF Reads
<1>18. QED
  BY <1>8, <1>17 DEF said2, more
-----------------------------------------------------------------------------
(* Waits *)

\* The greatest of two naturals,
LEMMA MaxOfTwo ==
  ASSUME NEW a \in Nat, NEW b \in Nat
  PROVE  Max({a, b}) = IF a >= b THEN a ELSE b
<1>1. a + b \in Nat /\ {a, b} \subseteq 0..a + b /\ {a, b} # {}
  OBVIOUS
<1>2. Max({a, b}) \in {a, b} /\ \A j \in {a, b} : Max({a, b}) >= j
  BY <1>1, MaxOfNaturals
<1>3. QED
  BY <1>2

\* of three,
LEMMA MaxOfThree ==
  ASSUME NEW a \in Nat, NEW b \in Nat, NEW c \in Nat
  PROVE  /\ Max({a, b, c}) \in Nat
         /\ Max({a, b, c}) >= a /\ Max({a, b, c}) >= b /\ Max({a, b, c}) >= c
<1>1. a + b + c \in Nat /\ {a, b, c} \subseteq 0..a + b + c /\ {a, b, c} # {}
  OBVIOUS
<1>2. Max({a, b, c}) \in {a, b, c} /\ \A j \in {a, b, c} : Max({a, b, c}) >= j
  BY <1>1, MaxOfNaturals
<1>3. QED
  BY <1>2

\* and the least of two.
LEMMA MinOfTwo ==
  ASSUME NEW a \in Nat, NEW b \in Nat
  PROVE  Min({a, b}) = IF a <= b THEN a ELSE b
<1>1. Min({a, b}) \in {a, b} /\ \A j \in {a, b} : Min({a, b}) =< j
  <2>1. \E x \in {a, b} : \A y \in {a, b} : x =< y
    BY a <= b \/ b <= a
  <2>2. QED
    BY <2>1 DEF Min
<1>2. QED
  BY <1>1

\* Powers of two: one, and twice the one before.
LEMMA ShiftedSteps ==
  /\ Shifted[0] = 1
  /\ \A n \in Nat : Shifted[n] \in Nat /\ Shifted[n + 1] = 2 * Shifted[n]
<1> DEFINE g       == [x \in Nat |-> [n \in Nat |-> 2 * x]]
           step(f) == [n \in Nat |-> IF n = 0 THEN 1 ELSE 2 * f[n - 1]]
<1>1. g \in [Nat -> [Nat -> Nat]]
  OBVIOUS
<1>2. PICK h : Recurs(h, Nat, 1, g)
  <2> HIDE DEF g
  <2>1. 1 \in Nat
    OBVIOUS
  <2>2. QED
    BY <1>1, <2>1, Recursion
<1>3. h \in [Nat -> Nat] /\ h[0] = 1
  BY <1>2 DEF Recurs
<1>4. ASSUME NEW n \in Nat PROVE h[n + 1] = 2 * h[n]
  <2>1. h[n + 1] = g[h[n]][n + 1]
    <3> HIDE DEF g
    <3>1. QED
      BY <1>2, Zenon DEF Recurs
  <2>2. h[n] \in Nat /\ n + 1 \in Nat
    BY <1>3
  <2>3. QED
    BY <2>1, <2>2
<1>5. h = step(h)
  <2>1. ASSUME NEW n \in Nat PROVE h[n] = IF n = 0 THEN 1 ELSE 2 * h[n - 1]
    <3>1. CASE n = 0
      BY <1>3, <3>1
    <3>2. CASE n # 0
      <4>1. n - 1 \in Nat /\ (n - 1) + 1 = n
        BY <3>2
      <4>2. h[(n - 1) + 1] = 2 * h[n - 1]
        BY <1>4, <4>1
      <4>3. QED
        BY <3>2, <4>1, <4>2
    <3>3. QED
      BY <3>1, <3>2
  <2>2. QED
    BY <1>3, <2>1
<1> HIDE DEF g
<1>6. Shifted = CHOOSE f : f = step(f)
  BY DEF Shifted
<1>7. Shifted = step(Shifted)
  <2> DEFINE s == CHOOSE f : f = step(f)
  <2>1. s = step(s)
    <3> HIDE DEF step
    <3>1. QED
      BY <1>5
  <2> HIDE DEF s
  <2>2. QED
    BY <1>6, <2>1 DEF s
<1>8. Shifted[0] = 1 /\ \A n \in Nat : Shifted[n + 1] = 2 * Shifted[n]
  <2> DEFINE s == Shifted
  <2> HIDE DEF s
  <2>1. s = step(s)
    BY <1>7 DEF s
  <2>2. s[0] = 1
    BY <2>1
  <2>3. ASSUME NEW n \in Nat PROVE s[n + 1] = 2 * s[n]
    <3>1. n + 1 \in Nat /\ n + 1 # 0 /\ (n + 1) - 1 = n
      OBVIOUS
    <3>2. s[n + 1] = IF n + 1 = 0 THEN 1 ELSE 2 * s[(n + 1) - 1]
      BY <2>1, <3>1
    <3>3. QED
      BY <3>1, <3>2
  <2>4. QED
    BY <2>2, <2>3 DEF s
<1> DEFINE T == {n \in Nat : Shifted[n] \in Nat}
<1>9. 0 \in T
  BY <1>8
<1>10. ASSUME NEW n \in Nat, n \in T PROVE n + 1 \in T
  BY <1>8, <1>10
<1>11. Nat \subseteq T
  <2> HIDE DEF T
  <2>1. QED
    BY <1>9, <1>10, Induction
<1>12. QED
  BY <1>8, <1>11

\* They grow.
LEMMA ShiftedGrows ==
  ASSUME NEW m \in Nat, NEW n \in Nat, m <= n
  PROVE  Shifted[m] <= Shifted[n]
<1> DEFINE T == {k \in Nat : Shifted[m] <= Shifted[m + k]}
<1>1. \A k \in Nat : Shifted[k] \in Nat /\ Shifted[k + 1] = 2 * Shifted[k]
  BY ShiftedSteps
<1>2. 0 \in T
  <2>1. m + 0 = m /\ Shifted[m] \in Nat
    BY <1>1
  <2>2. QED
    BY <2>1
<1>3. ASSUME NEW k \in Nat, k \in T PROVE k + 1 \in T
  <2>1. m + k \in Nat /\ m + (k + 1) = (m + k) + 1 /\ k + 1 \in Nat
    OBVIOUS
  <2>2. Shifted[m] \in Nat /\ Shifted[m + k] \in Nat /\ Shifted[m + (k + 1)] = 2 * Shifted[m + k]
    BY <1>1, <2>1
  <2>3. Shifted[m] <= Shifted[m + k]
    BY <1>3
  <2>4. Shifted[m] <= Shifted[m + (k + 1)]
    BY <2>2, <2>3
  <2>5. QED
    BY <2>1, <2>4
<1>4. Nat \subseteq T
  <2> HIDE DEF T
  <2>1. QED
    BY <1>2, <1>3, Induction
<1>5. n - m \in Nat /\ m + (n - m) = n
  OBVIOUS
<1>6. n - m \in T
  <2> HIDE DEF T
  <2>1. QED
    BY <1>4, <1>5
<1>7. QED
  BY <1>5, <1>6

\* A product grows with its factor.
LEMMA TimesGrows ==
  ASSUME NEW a \in Nat, NEW b \in Nat, NEW c \in Nat, b <= c
  PROVE  a * b \in Nat /\ a * b <= a * c
<1>1. PICK d \in Nat : c = b + d
  <2>1. c - b \in Nat /\ c = b + (c - b)
    OBVIOUS
  <2>2. QED
    BY <2>1
<1>2. a * (b + d) = a * b + a * d
  OBVIOUS
<1>3. a * b \in Nat /\ a * d \in Nat
  OBVIOUS
<1>4. QED
  BY <1>1, <1>2, <1>3

Grown(n) == Min({setup.options.backoff.base * Shifted[n], setup.options.backoff.max})

\* A backoff is not below its floor, and not above what its attempt allows.
LEMMA BackoffsBounded ==
  ASSUME setup \in Setups, NEW attempt \in Nat, NEW w \in Backoffs(attempt)
  PROVE  /\ w \in Nat /\ setup.options.backoff.floor \in Nat /\ Grown(attempt) \in Nat
         /\ w >= setup.options.backoff.floor
         /\ w <= setup.options.backoff.floor \/ w <= Grown(attempt)
<1> DEFINE b == setup.options.backoff
           n == Min({attempt, 30})
           cap == Min({b.base * Shifted[n], b.max})
<1>1. b.base \in Nat /\ b.max \in Nat /\ b.floor \in Nat
  BY SetupAssumption DEF Options, Backoff
<1>2. n \in Nat /\ n <= attempt
  BY MinOfTwo
<1>3. PICK u \in Uniform(0, Max({cap, 1})) : w = Max({u, b.floor})
  BY DEF Backoffs
<1> HIDE DEF b, n
<1>4. Shifted[n] \in Nat /\ Shifted[attempt] \in Nat /\ Shifted[n] <= Shifted[attempt]
  BY <1>2, ShiftedSteps, ShiftedGrows
<1>5. /\ b.base * Shifted[n] \in Nat /\ b.base * Shifted[attempt] \in Nat
      /\ b.base * Shifted[n] <= b.base * Shifted[attempt]
  BY <1>1, <1>4, TimesGrows
<1>6. cap \in Nat /\ Grown(attempt) \in Nat /\ cap <= Grown(attempt)
  <2> DEFINE x == b.base * Shifted[n]
             y == b.base * Shifted[attempt]
             z == b.max
  <2>1. x \in Nat /\ y \in Nat /\ z \in Nat /\ x <= y
    BY <1>1, <1>5
  <2>2. cap = Min({x, z}) /\ Grown(attempt) = Min({y, z})
    BY DEF Grown, b
  <2> HIDE DEF x, y, z, cap
  <2>3. QED
    BY <2>1, <2>2, MinOfTwo
<1> HIDE DEF cap
<1>7. u \in Nat /\ u <= cap
  <2>1. Max({cap, 1}) = IF cap >= 1 THEN cap ELSE 1
    BY <1>6, MaxOfTwo
  <2>2. u \in Uniform(0, IF cap >= 1 THEN cap ELSE 1)
    BY <2>1
  <2>3. QED
    BY <1>6, <2>2 DEF Uniform
<1>8. w = IF u >= b.floor THEN u ELSE b.floor
  BY <1>1, <1>3, <1>7, MaxOfTwo
<1>9. QED
  BY <1>1, <1>6, <1>7, <1>8 DEF b
-----------------------------------------------------------------------------
(* The inductive invariant *)

Hints == Nat \cup {Off}

Causes == {"start", "http", "transport", "failed", "deadman", "ended"}

TypeInv ==
  /\ setup \in Setups
  /\ cursor \in Ids
  /\ policy \in [attempt : Nat, hint : Hints, wait : Nat]
  /\ open \in BOOLEAN
  /\ parser \in Parsers
  /\ wire \in Texts
  /\ open => style \in Styles
  /\ said \in Histories
  /\ heard \in Seq(Items)
  /\ hints \subseteq Hints
  /\ past \in [cause : Causes, after : Nat, healthy : BOOLEAN, failures : Nat]

\* While a response is read: what is to come of it, and the cursor that was stored
\* was in force at the last frame that was heard.
ReadingInv ==
  open => /\ Reads(parser, wire, style, heard, said)
          /\ MarkedAt(heard, cursor) \in said.marks

\* Between two: the next request may name the cursor.
IdleInv == ~open => heard = << >> /\ said.items = << >> /\ cursor \in named

\* The count of failures, and the hint that was given last.
PolicyInv ==
  /\ policy.attempt = past.failures
  /\ open => past.failures = 0
  /\ \E h \in hints : policy.hint = Hinted(heard, h)

SessionInv == TypeInv /\ ReadingInv /\ IdleInv /\ PolicyInv /\ WaitsAreThePolicys

\* No items at all.
LEMMA EmptyItems ==
  /\ << >> \in Seq(Items)
  /\ \A is : LastOf(<< >>, is) = 0
  /\ \A h : Hinted(<< >>, h) = h
  /\ HintsOf(<< >>) = {}
<1>1. << >> \in Seq(Items) /\ Len(<< >>) = 0
  OBVIOUS
<1>2. \A is : LastOf(<< >>, is) = 0
  <2>1. ASSUME NEW is PROVE LastOf(<< >>, is) \in 0..Len(<< >>)
    BY <1>1, LastOfMax
  <2>2. QED
    BY <1>1, <2>1
<1>3. QED
  BY <1>1, <1>2 DEF Hinted, HintsOf

\* The history of a connection on which nothing was said.
LEMMA NothingSaidType ==
  ASSUME NEW id \in Ids
  PROVE  /\ NothingSaid(id) \in Histories /\ NothingSaid(id).items = << >>
         /\ NothingSaid(id).id = id
         /\ NothingSaid(id).marks = {MarkedAt(<< >>, id)}
<1>1. << >> \in Seq(Items) /\ MarkedAt(<< >>, id) \in Marks
  BY EmptyItems, MarkedAtType
<1>2. QED
  BY <1>1 DEF NothingSaid, Histories

\* Hints are naturals.
LEMMA HintsOfType ==
  ASSUME NEW items \in Seq(Items)
  PROVE  HintsOf(items) \subseteq Hints
<1> SUFFICES ASSUME NEW i \in DOMAIN items, items[i].is = "retry"
             PROVE  items[i].ms \in Hints
  BY DEF HintsOf
<1>1. items[i] \in Items
  OBVIOUS
<1>2. items[i] \in [is : {"retry"}, ms : {Millis[word] : word \in DOMAIN Millis}]
  BY <1>1 DEF Items
<1>3. QED
  BY <1>2, WordsAssumption DEF Hints

\* The initial states.
LEMMA InitInv == Init => SessionInv
<1> SUFFICES ASSUME Init PROVE SessionInv
  OBVIOUS
<1>1. Absent \in Ids /\ NewParser(Absent) \in Parsers
  BY AbsentIsId, IdsAreFields, NewParserType
<1>2. NothingSaid(Absent) \in Histories /\ NothingSaid(Absent).items = << >>
  BY <1>1, NothingSaidType
<1>3. Nowhere \in [cause : Causes, after : Nat, healthy : BOOLEAN, failures : Nat]
      /\ Nowhere.failures = 0 /\ Nowhere.cause = "start"
  BY DEF Nowhere, Causes
<1>4. TypeInv
  BY <1>1, <1>2, <1>3, EmptyIsText, EmptyItems DEF Init, TypeInv, Hints
<1>5. ReadingInv /\ IdleInv
  BY <1>2 DEF Init, ReadingInv, IdleInv
<1>6. PolicyInv
  BY <1>3, EmptyItems DEF Init, PolicyInv
<1>7. WaitsAreThePolicys
  BY <1>3 DEF Init, WaitsAreThePolicys
<1>8. QED
  BY <1>4, <1>5, <1>6, <1>7 DEF SessionInv

\* A wait is drawn, and nothing else of the policy changes.
LEMMA WaitDrawn ==
  ASSUME TypeInv, NEW waits, waits \subseteq Nat, NEW attempt \in Nat,
         WaitsFor(waits, attempt)
  PROVE  /\ policy' \in [attempt : Nat, hint : Hints, wait : Nat]
         /\ policy'.attempt = attempt /\ policy'.hint = policy.hint
         /\ policy'.wait \in waits
BY DEF WaitsFor, TypeInv

\* A request that fails: the failures in a row are the attempts.
LEMMA RequestFailsInv ==
  ASSUME SessionInv, NEW cause \in {"http", "transport"}, NEW after \in Nat,
         RequestFails(cause, after)
  PROVE  SessionInv'
<1> DEFINE waits == {Max({w, after}) : w \in Backoffs(policy.attempt)}
           floor == setup.options.backoff.floor
<1>1. /\ setup \in Setups /\ policy.attempt \in Nat /\ past.failures \in Nat
      /\ policy.attempt = past.failures
      /\ past' = [cause |-> cause, after |-> after, healthy |-> FALSE,
                  failures |-> past.failures + 1]
      /\ UNCHANGED <<Settled, Body, named, hints>>
      /\ ~open /\ heard = << >>
  BY DEF SessionInv, TypeInv, PolicyInv, IdleInv, RequestFails
<1>2. ASSUME NEW w \in waits
      PROVE  /\ w \in Nat /\ w >= floor /\ w >= after /\ floor \in Nat
             /\ Grown(past.failures) \in Nat
             /\ w <= floor \/ w <= after \/ w <= Grown(past.failures)
  <2>1. PICK v \in Backoffs(policy.attempt) : w = Max({v, after})
    OBVIOUS
  <2>2. /\ v \in Nat /\ floor \in Nat /\ Grown(past.failures) \in Nat
        /\ v >= floor
        /\ v <= floor \/ v <= Grown(past.failures)
    BY <1>1, <2>1, BackoffsBounded
  <2>3. w = IF v >= after THEN v ELSE after
    BY <2>1, <2>2, MaxOfTwo
  <2> HIDE DEF waits, floor
  <2>4. QED
    BY <2>2, <2>3
<1>3. /\ policy' \in [attempt : Nat, hint : Hints, wait : Nat]
      /\ policy'.attempt = policy.attempt + 1 /\ policy'.hint = policy.hint
      /\ policy'.wait \in waits
  <2>1. WaitsFor(waits, policy.attempt + 1)
    BY DEF RequestFails
  <2>2. policy.attempt + 1 \in Nat /\ TypeInv
    BY <1>1 DEF SessionInv
  <2>3. waits \subseteq Nat
    BY <1>2
  <2> HIDE DEF waits
  <2>4. QED
    BY <2>1, <2>2, <2>3, WaitDrawn
<1>4. past' \in [cause : Causes, after : Nat, healthy : BOOLEAN, failures : Nat]
  BY <1>1 DEF Causes
<1>5. TypeInv'
  BY <1>1, <1>3, <1>4 DEF SessionInv, TypeInv, Settled, Body
<1>6. ReadingInv' /\ IdleInv'
  BY <1>1 DEF SessionInv, ReadingInv, IdleInv, Settled, Body
<1>7. PolicyInv'
  <2>1. policy'.attempt = past'.failures
    BY <1>1, <1>3
  <2>2. \E h \in hints' : policy'.hint = Hinted(heard', h)
    BY <1>1, <1>3 DEF SessionInv, PolicyInv, Body
  <2>3. ~open'
    BY <1>1 DEF Body
  <2>4. QED
    BY <2>1, <2>2, <2>3 DEF PolicyInv
<1>8. WaitsAreThePolicys'
  <2> DEFINE w == policy'.wait
             top == Max({floor, after, Grown(past.failures)})
  <2>1. /\ w \in Nat /\ w >= floor /\ w >= after /\ floor \in Nat
        /\ Grown(past.failures) \in Nat
        /\ w <= floor \/ w <= after \/ w <= Grown(past.failures)
    BY <1>2, <1>3
  <2>2. top \in Nat /\ top >= floor /\ top >= after /\ top >= Grown(past.failures)
    BY <2>1, MaxOfThree
  <2>3. past'.cause \in {"http", "transport"} /\ past'.after = after /\ setup' = setup
        /\ past'.failures - 1 = past.failures
    BY <1>1 DEF Settled
  <2> HIDE DEF w, top, waits, floor
  <2>4. w <= top
    BY <2>1, <2>2
  <2>5. QED
    BY <2>1, <2>3, <2>4 DEF WaitsAreThePolicys, Grown, w, top, floor
<1>9. QED
  BY <1>5, <1>6, <1>7, <1>8 DEF SessionInv

\* A new stream, before anything is said.
LEMMA ReadsGreeting ==
  ASSUME NEW manner \in Styles, NEW id \in Ids
  PROVE  Reads(NewParser(id), Greeting(manner), manner, << >>, NothingSaid(id))
<1> DEFINE p == NewParser(id)
           g == Greeting(manner)
<1>1. Greeted(manner, id).out = << >> /\ Greeted(manner, id) \in Parsers
  BY GreetedType
<1>2. Feed(p, g) = Greeted(manner, id)
  BY DEF Greeted
<1>3. NothingSaid(id).items = << >> /\ NothingSaid(id).id = id
      /\ NothingSaid(id).marks = {MarkedAt(<< >>, id)}
  BY NothingSaidType
<1>4. << >> \o << >> = << >>
  BY EmptyItems, ConcatEmptySeq
<1>5. Rested(Greeted(manner, id)) = Greeted(manner, id)
  <2> DEFINE q == Greeted(manner, id)
  <2>1. q.out = << >> /\ q \in Parsers
    BY <1>1
  <2> HIDE DEF q
  <2>2. Rested(q) = q
    BY <2>1 DEF Rested, Parsers
  <2>3. QED
    BY <2>2 DEF q
<1>6. ASSUME NEW k \in 0..Len(g)
      PROVE  LET q == Feed(p, SubSeq(g, 1, k))
             IN  MarkedAt(<< >> \o q.out, q.last) \in NothingSaid(id).marks
  <2>1. LET q == Feed(p, SubSeq(g, 1, k)) IN q.last = id /\ q.out = << >>
    BY GreetedType
  <2> HIDE DEF p, g
  <2>2. QED
    BY <1>3, <1>4, <2>1
<1> HIDE DEF p, g
<1>7. Reads(p, g, manner, << >>, NothingSaid(id))
  BY <1>1, <1>2, <1>3, <1>4, <1>5, <1>6 DEF Reads
<1>8. QED
  BY <1>7 DEF p, g

\* A response: nothing was said yet, or a resync.
LEMMA OpensInv ==
  ASSUME SayingsAreMeant, SessionInv, Opens
  PROVE  SessionInv'
<1>1. /\ setup \in Setups /\ cursor \in Ids /\ hints \subseteq Hints
      /\ policy \in [attempt : Nat, hint : Hints, wait : Nat]
      /\ ~open /\ heard = << >>
      /\ \E h \in hints : policy.hint = Hinted(heard, h)
  BY DEF SessionInv, TypeInv, IdleInv, PolicyInv, Opens
<1>2. /\ open' = TRUE /\ parser' = NewParser(cursor) /\ style' \in Styles /\ heard' = << >>
      /\ policy' = [policy EXCEPT !.attempt = 0, !.wait = 0]
      /\ past' = Nowhere /\ UNCHANGED <<setup, cursor, hints>>
  BY DEF Opens, Settled
<1>3. /\ Reads(NewParser(cursor), Greeting(style'), style', << >>, NothingSaid(cursor))
      /\ NothingSaid(cursor) \in Histories
      /\ NothingSaid(cursor).marks = {MarkedAt(<< >>, cursor)}
      /\ Greeting(style') \in Texts
  BY <1>1, <1>2, ReadsGreeting, NothingSaidType, GreetingIsText
<1>4. NewParser(cursor) \in Parsers
  BY <1>1, IdsAreFields, NewParserType
<1>5. /\ wire' \in Texts /\ said' \in Histories
      /\ Reads(NewParser(cursor), wire', style', << >>, said')
      /\ MarkedAt(<< >>, cursor) \in said'.marks
  <2>1. CASE Asked # Invalid
    <3>1. said' = NothingSaid(cursor) /\ wire' = Greeting(style') \o << >>
      BY <2>1 DEF Opens
    <3>2. wire' = Greeting(style')
      BY <1>3, <3>1, ConcatEmptySeq DEF Texts
    <3>3. QED
      BY <1>3, <3>1, <3>2
  <2>2. CASE Asked = Invalid
    <3>1. /\ said' = Told(NothingSaid(cursor), Resynced)
          /\ wire' = Greeting(style') \o Written(Resynced.text, style'.ending)
      BY <2>2 DEF Opens
    <3>2. Resynced \in Utterances /\ Resynced.text \in Texts
      BY SayingAssumption DEF Utterances
    <3>3. Written(Resynced.text, style'.ending) \in Texts
      BY <1>2, <3>2, WrittenIsText
    <3>4. wire' \in Texts
      BY <1>3, <3>1, <3>3, ConcatProperties DEF Texts
    <3>5. said' \in Histories /\ Reads(NewParser(cursor), wire', style', << >>, said')
      BY <1>2, <1>3, <1>4, <3>1, <3>2, EmptyItems, ReadsMore
    <3>6. MarkedAt(<< >>, cursor) \in said'.marks
      BY <1>3, <3>1 DEF Told
    <3>7. QED
      BY <3>4, <3>5, <3>6
  <2>3. QED
    BY <2>1, <2>2
<1>6. past' \in [cause : Causes, after : Nat, healthy : BOOLEAN, failures : Nat]
      /\ past'.failures = 0
  BY <1>2 DEF Nowhere, Causes
<1>7. policy' \in [attempt : Nat, hint : Hints, wait : Nat]
      /\ policy'.attempt = 0 /\ policy'.hint = policy.hint
  BY <1>1, <1>2
<1>8. TypeInv'
  BY <1>1, <1>2, <1>4, <1>5, <1>6, <1>7, EmptyItems DEF TypeInv
<1>9. ReadingInv' /\ IdleInv' /\ WaitsAreThePolicys'
  BY <1>2, <1>5 DEF ReadingInv, IdleInv, WaitsAreThePolicys
<1>10. PolicyInv'
  BY <1>1, <1>2, <1>6, <1>7 DEF PolicyInv
<1>11. QED
  BY <1>8, <1>9, <1>10 DEF SessionInv

\* A saying: the text that is under way means it as well.
LEMMA SaysInv ==
  ASSUME SayingsAreMeant, SessionInv, NEW saying \in Sayings, Says(saying)
  PROVE  SessionInv'
<1>1. /\ open /\ said' = Told(said, saying)
      /\ wire' = wire \o Written(saying.text, style.ending)
      /\ UNCHANGED <<Settled, policy, open, parser, style, heard, Ledger>>
  BY DEF Says
<1>2. /\ parser \in Parsers /\ wire \in Texts /\ style \in Styles /\ heard \in Seq(Items)
      /\ said \in Histories /\ Reads(parser, wire, style, heard, said)
      /\ MarkedAt(heard, cursor) \in said.marks
  BY <1>1 DEF SessionInv, TypeInv, ReadingInv
<1>3. saying \in Utterances /\ saying.text \in Texts
  BY SayingAssumption DEF Utterances
<1>4. wire' \in Texts
  BY <1>1, <1>2, <1>3, WrittenIsText, ConcatProperties DEF Texts
<1>5. said' \in Histories /\ Reads(parser, wire', style, heard, said')
  BY <1>1, <1>2, <1>3, ReadsMore
<1>6. MarkedAt(heard, cursor) \in said'.marks
  BY <1>1, <1>2 DEF Told
<1>7. TypeInv'
  BY <1>1, <1>4, <1>5 DEF SessionInv, TypeInv, Settled, Ledger
<1>8. ReadingInv' /\ IdleInv'
  BY <1>1, <1>5, <1>6 DEF ReadingInv, IdleInv, Settled
<1>9. PolicyInv' /\ WaitsAreThePolicys'
  BY <1>1 DEF SessionInv, PolicyInv, WaitsAreThePolicys, Settled, Ledger
<1>10. QED
  BY <1>7, <1>8, <1>9 DEF SessionInv

\* A chunk: what it completes is heard, the rest is still to come.
LEMMA ReceivesInv ==
  ASSUME SessionInv, NEW n \in 1..Len(wire), Receives(n)
  PROVE  SessionInv'
<1> DEFINE p == Feed(parser, SubSeq(wire, 1, n))
<1>1. /\ open /\ parser' = Rested(p) /\ wire' = SubSeq(wire, n + 1, Len(wire))
      /\ heard' = heard \o p.out /\ cursor' = Stored(p)
      /\ policy' = [policy EXCEPT !.hint = Hinted(p.out, @)]
      /\ UNCHANGED <<setup, open, style, said, Ledger>>
  BY DEF Receives, Rested
<1>2. /\ parser \in Parsers /\ wire \in Texts /\ style \in Styles /\ heard \in Seq(Items)
      /\ said \in Histories /\ Reads(parser, wire, style, heard, said)
      /\ MarkedAt(heard, cursor) \in said.marks /\ cursor \in Ids
      /\ policy \in [attempt : Nat, hint : Hints, wait : Nat] /\ hints \subseteq Hints
  BY <1>1 DEF SessionInv, TypeInv, ReadingInv
<1>3. Len(wire) \in Nat /\ n \in 0..Len(wire)
  BY <1>2 DEF Texts
<1>4. SubSeq(wire, 1, n) \in Texts /\ wire' \in Texts
  <2>1. 0 \in 0..Len(wire) - n
    BY <1>3
  <2>2. QED
    BY <1>1, <1>2, <1>3, <2>1, CutSuffix DEF Texts
<1>5. p \in Parsers /\ Rested(p) \in Parsers /\ p.out \in Seq(Items)
  BY <1>2, <1>4, FeedType, RestedType DEF Parsers
<1>6. Reads(Rested(p), wire', style, heard \o p.out, said)
  BY <1>1, <1>2, <1>3, ReadsOn
<1>7. MarkedAt(heard \o p.out, p.last) \in said.marks
  BY <1>2, <1>3 DEF Reads
<1> HIDE DEF p
<1>8. heard' \in Seq(Items)
  BY <1>1, <1>2, <1>5, ConcatProperties
<1>9. MarkedAt(heard', cursor') \in said.marks /\ cursor' \in Ids
  <2>1. CASE LastOf(p.out, "event") = 0
    <3>1. cursor' = cursor
      BY <1>1, <2>1 DEF Stored
    <3>2. LastOf(heard \o p.out, "event") = LastOf(heard, "event")
      <4> DEFINE t == p.out
      <4>1. t \in Seq(Items) /\ LastOf(t, "event") = 0
        BY <1>5, <2>1
      <4> HIDE DEF t
      <4>2. LastOf(heard \o t, "event") = LastOf(heard, "event")
        BY <1>2, <4>1, LastOfConcat
      <4>3. QED
        BY <4>2 DEF t
    <3>3. MarkedAt(heard', cursor') = MarkedAt(heard, cursor)
      BY <1>1, <3>1, <3>2 DEF MarkedAt
    <3>4. QED
      BY <1>2, <3>1, <3>3
  <2>2. CASE LastOf(p.out, "event") # 0
    <3>1. cursor' = p.last
      BY <1>1, <2>2 DEF Stored
    <3>2. MarkedAt(heard', cursor') \in said.marks
      BY <1>1, <1>7, <3>1
    <3>3. MarkedAt(heard', cursor').id = cursor'
      BY DEF MarkedAt
    <3>4. QED
      BY <1>2, <3>2, <3>3 DEF Histories, Marks
  <2>3. QED
    BY <2>1, <2>2
<1>10. policy'.attempt = policy.attempt /\ policy'.hint = Hinted(p.out, policy.hint)
       /\ policy' \in [attempt : Nat, hint : Hints, wait : Nat]
  <2>1. Hinted(p.out, policy.hint) \in Hints
    <3>1. Hinted(p.out, policy.hint) \in HintsOf(p.out) \cup {policy.hint}
      BY <1>5, HintedAmong
    <3>2. HintsOf(p.out) \subseteq Hints
      BY <1>5, HintsOfType
    <3>3. QED
      BY <1>2, <3>1, <3>2
  <2>2. QED
    BY <1>1, <1>2, <2>1
<1>11. TypeInv'
  BY <1>1, <1>4, <1>5, <1>8, <1>9, <1>10 DEF SessionInv, TypeInv, Ledger
<1>12. ReadingInv' /\ IdleInv' /\ WaitsAreThePolicys'
  BY <1>1, <1>6, <1>9 DEF ReadingInv, IdleInv, WaitsAreThePolicys
<1>13. PolicyInv'
  <2>1. PICK h \in hints : policy.hint = Hinted(heard, h)
    BY DEF SessionInv, PolicyInv
  <2>2. Hinted(heard \o p.out, h) = Hinted(p.out, Hinted(heard, h))
    <3> DEFINE t == p.out
    <3>1. t \in Seq(Items)
      BY <1>5
    <3> HIDE DEF t
    <3>2. Hinted(heard \o t, h) = Hinted(t, Hinted(heard, h))
      BY <1>2, <3>1, HintedConcat
    <3>3. QED
      BY <3>2 DEF t
  <2>3. policy'.hint = Hinted(heard', h)
    BY <1>1, <1>10, <2>1, <2>2
  <2>4. QED
    BY <1>1, <1>10, <2>1, <2>3 DEF SessionInv, PolicyInv, Ledger
<1>14. QED
  BY <1>11, <1>12, <1>13 DEF SessionInv

\* What is so after the connection is left, whatever the cause.
LEMMA LeavesInv ==
  ASSUME SessionInv, NEW cause \in Causes, NEW healthy \in BOOLEAN, NEW failures \in Nat,
         Leaves(cause, healthy, failures),
         policy' \in [attempt : Nat, hint : Hints, wait : Nat],
         policy'.attempt = failures, policy'.hint = policy.hint,
         hints' \subseteq Hints, policy.hint \in hints'
  PROVE  TypeInv' /\ ReadingInv' /\ IdleInv' /\ PolicyInv'
<1>1. /\ open /\ open' = FALSE /\ named' = Nameable
      /\ past' = [cause |-> cause, after |-> 0, healthy |-> healthy, failures |-> failures]
      /\ parser' = NewParser(Absent) /\ wire' = << >>
      /\ said' = NothingSaid(Absent) /\ heard' = << >> /\ UNCHANGED <<setup, cursor>>
  BY DEF Leaves, Settled
<1>2. NewParser(Absent) \in Parsers
  BY AbsentIsId, IdsAreFields, NewParserType
<1>3. NothingSaid(Absent) \in Histories /\ NothingSaid(Absent).items = << >>
  BY AbsentIsId, NothingSaidType
<1>4. TypeInv'
  BY <1>1, <1>2, <1>3, EmptyIsText, EmptyItems DEF SessionInv, TypeInv
<1>5. cursor \in Nameable
  <2>1. MarkedAt(heard, cursor) \in said.marks
    BY <1>1 DEF SessionInv, ReadingInv
  <2>2. MarkedAt(heard, cursor).after = LastOf(heard, "event") /\ MarkedAt(heard, cursor).id = cursor
    BY DEF MarkedAt
  <2>3. QED
    BY <2>1, <2>2 DEF Nameable
<1>6. ReadingInv' /\ IdleInv'
  BY <1>1, <1>3, <1>5 DEF ReadingInv, IdleInv
<1>7. PolicyInv'
  BY <1>1, EmptyItems DEF PolicyInv
<1>8. QED
  BY <1>4, <1>6, <1>7

\* The hint in force is one that was heard on this connection, or before it.
LEMMA HintInForce ==
  ASSUME SessionInv, open
  PROVE  /\ policy.hint \in hints \cup HintsOf(said.items)
         /\ HintsOf(said.items) \subseteq Hints /\ hints \subseteq Hints
         /\ policy \in [attempt : Nat, hint : Hints, wait : Nat] /\ policy.attempt = 0
         /\ said.items \in Seq(Items)
<1>1. /\ parser \in Parsers /\ wire \in Texts /\ heard \in Seq(Items)
      /\ said \in Histories /\ Reads(parser, wire, style, heard, said)
      /\ hints \subseteq Hints /\ policy \in [attempt : Nat, hint : Hints, wait : Nat]
      /\ policy.attempt = 0
  BY DEF SessionInv, TypeInv, ReadingInv, PolicyInv
<1>2. PICK h \in hints : policy.hint = Hinted(heard, h)
  BY DEF SessionInv, PolicyInv
<1>3. policy.hint \in HintsOf(heard) \cup {h}
  BY <1>1, <1>2, HintedAmong
<1> DEFINE rest == Feed(parser, wire).out
<1>4. rest \in Seq(Items) /\ said.items = heard \o rest
  BY <1>1, FeedType DEF Reads, Parsers
<1> HIDE DEF rest
<1>5. HintsOf(heard) \subseteq HintsOf(said.items)
  BY <1>1, <1>4, HintsOfConcat
<1>6. said.items \in Seq(Items)
  BY <1>1 DEF Histories
<1>7. HintsOf(said.items) \subseteq Hints
  BY <1>6, HintsOfType
<1>8. QED
  BY <1>1, <1>2, <1>3, <1>5, <1>6, <1>7

\* The end of a response: all was heard, and the hint in force is the last one said.
LEMMA EndsInv ==
  ASSUME SessionInv, NEW healthy \in BOOLEAN, Ends(healthy)
  PROVE  SessionInv'
<1> DEFINE waits == EndWaits(healthy)
           eager == setup.options.eager
           retry == setup.options.retry
<1>1. /\ wire = << >> /\ Leaves("ended", healthy, 0)
      /\ WaitsFor(waits, policy.attempt)
      /\ hints' = IF HintsOf(said.items) = {} THEN hints ELSE {Hinted(said.items, Off)}
      /\ open /\ setup' = setup
      /\ past' = [cause |-> "ended", after |-> 0, healthy |-> healthy, failures |-> 0]
      /\ open' = FALSE
  BY DEF Ends, Leaves, Settled
<1>2. /\ HintsOf(said.items) \subseteq Hints /\ hints \subseteq Hints
      /\ policy \in [attempt : Nat, hint : Hints, wait : Nat] /\ policy.attempt = 0
      /\ said.items \in Seq(Items) /\ TypeInv
  BY <1>1, HintInForce DEF SessionInv
<1>3. eager \in Nat \cup {Off} /\ retry \in Nat
  BY <1>2, SetupAssumption DEF TypeInv, Options, Eager
<1>4. policy.hint \in Nat \/ policy.hint = Off
  BY <1>2 DEF Hints
<1>5. waits \subseteq Nat
  BY <1>3, <1>4 DEF EndWaits, Uniform
<1>6. /\ policy' \in [attempt : Nat, hint : Hints, wait : Nat]
      /\ policy'.attempt = 0 /\ policy'.hint = policy.hint /\ policy'.wait \in waits
  <2> HIDE DEF waits
  <2>1. QED
    BY <1>1, <1>2, <1>5, WaitDrawn
<1>7. heard = said.items
  <2>1. parser \in Parsers /\ heard \in Seq(Items) /\ Reads(parser, << >>, style, heard, said)
    BY <1>1 DEF SessionInv, TypeInv, ReadingInv
  <2>2. Feed(parser, << >>) = [parser EXCEPT !.out = << >>]
    BY <2>1, FeedEmpty
  <2>3. Feed(parser, << >>).out = << >>
    BY <2>1, <2>2 DEF Parsers
  <2>4. QED
    BY <2>1, <2>3, ConcatEmptySeq DEF Reads
<1>8. policy.hint \in hints' /\ hints' \subseteq Hints
  <2>1. PICK h \in hints : policy.hint = Hinted(said.items, h)
    BY <1>7 DEF SessionInv, PolicyInv
  <2>2. /\ \A other : Hinted(said.items, other) \in HintsOf(said.items) \cup {other}
        /\ HintsOf(said.items) # {} => Hinted(said.items, h) = Hinted(said.items, Off)
    BY <1>2, HintedAmong
  <2>3. CASE HintsOf(said.items) = {}
    BY <1>1, <1>2, <2>1, <2>2, <2>3
  <2>4. CASE HintsOf(said.items) # {}
    BY <1>1, <1>2, <2>1, <2>2, <2>4 DEF Hints
  <2>5. QED
    BY <2>3, <2>4
<1>9. TypeInv' /\ ReadingInv' /\ IdleInv' /\ PolicyInv'
  BY <1>1, <1>6, <1>8, LeavesInv DEF Causes
<1>10. WaitsAreThePolicys'
  <2>1. CASE healthy /\ eager # Off
    <3>1. policy'.wait \in Nat /\ policy'.wait <= eager
      BY <1>3, <1>6, <2>1 DEF EndWaits, Uniform, Off
    <3>2. QED
      BY <1>1, <2>1, <3>1 DEF WaitsAreThePolicys
  <2>2. CASE ~ (healthy /\ eager # Off)
    <3>1. policy'.wait = IF policy.hint # Off THEN policy.hint ELSE retry
      BY <1>6, <2>2 DEF EndWaits
    <3>2. policy'.wait \in {IF h = Off THEN retry ELSE h : h \in hints'}
      BY <1>8, <3>1
    <3>3. QED
      BY <1>1, <2>2, <3>2 DEF WaitsAreThePolicys
  <2>3. QED
    BY <2>1, <2>2
<1>11. QED
  BY <1>9, <1>10 DEF SessionInv

\* A break: the hint in force is one of those said, or an earlier one.
LEMMA SeveredInv ==
  ASSUME SessionInv, Severed
  PROVE  SessionInv'
<1> DEFINE waits == Backoffs(policy.attempt)
           floor == setup.options.backoff.floor
<1>1. /\ Leaves("failed", FALSE, 1) /\ WaitsFor(waits, policy.attempt + 1)
      /\ hints' = hints \cup HintsOf(said.items) /\ open /\ setup' = setup
      /\ past' = [cause |-> "failed", after |-> 0, healthy |-> FALSE, failures |-> 1]
      /\ open' = FALSE
  BY DEF Severed, Leaves, Settled
<1>2. /\ policy.hint \in hints' /\ hints' \subseteq Hints /\ policy.attempt = 0
      /\ setup \in Setups /\ TypeInv
  BY <1>1, HintInForce DEF SessionInv, TypeInv
<1>3. ASSUME NEW w \in waits
      PROVE  /\ w \in Nat /\ floor \in Nat /\ Grown(0) \in Nat /\ w >= floor
             /\ w <= floor \/ w <= Grown(0)
  BY <1>2, BackoffsBounded
<1>4. /\ policy' \in [attempt : Nat, hint : Hints, wait : Nat]
      /\ policy'.attempt = 1 /\ policy'.hint = policy.hint /\ policy'.wait \in waits
  <2>1. waits \subseteq Nat
    BY <1>3
  <2>2. WaitsFor(waits, 1)
    BY <1>1, <1>2
  <2> HIDE DEF waits
  <2>3. QED
    BY <1>2, <2>1, <2>2, WaitDrawn
<1>5. TypeInv' /\ ReadingInv' /\ IdleInv' /\ PolicyInv'
  BY <1>1, <1>2, <1>4, LeavesInv DEF Causes
<1>6. WaitsAreThePolicys'
  <2> DEFINE w == policy'.wait
             top == Max({floor, 0, Grown(0)})
  <2>1. /\ w \in Nat /\ floor \in Nat /\ Grown(0) \in Nat /\ w >= floor
        /\ w <= floor \/ w <= Grown(0)
    BY <1>3, <1>4
  <2>2. top \in Nat /\ top >= floor /\ top >= 0 /\ top >= Grown(0)
    BY <2>1, MaxOfThree
  <2> HIDE DEF w, top, waits, floor
  <2>3. w <= top
    BY <2>1, <2>2
  <2>4. past'.failures - 1 = 0 /\ past'.cause = "failed" /\ past'.after = 0
    BY <1>1
  <2>5. QED
    BY <1>1, <2>1, <2>3, <2>4 DEF WaitsAreThePolicys, Grown, w, top, floor
<1>7. QED
  BY <1>5, <1>6 DEF SessionInv

\* A silence.
LEMMA FallsSilentInv ==
  ASSUME SessionInv, FallsSilent
  PROVE  SessionInv'
<1>1. /\ Leaves("deadman", FALSE, 0) /\ WaitsFor({0}, policy.attempt)
      /\ hints' = hints \cup HintsOf(said.items) /\ open
      /\ past' = [cause |-> "deadman", after |-> 0, healthy |-> FALSE, failures |-> 0]
  BY DEF FallsSilent, Leaves
<1>2. policy.hint \in hints' /\ hints' \subseteq Hints /\ policy.attempt = 0 /\ TypeInv
  BY <1>1, HintInForce DEF SessionInv
<1>3. /\ policy' \in [attempt : Nat, hint : Hints, wait : Nat]
      /\ policy'.attempt = 0 /\ policy'.hint = policy.hint /\ policy'.wait = 0
  BY <1>1, <1>2, WaitDrawn
<1>4. TypeInv' /\ ReadingInv' /\ IdleInv' /\ PolicyInv'
  BY <1>1, <1>2, <1>3, LeavesInv DEF Causes
<1>5. WaitsAreThePolicys'
  BY <1>1, <1>3 DEF WaitsAreThePolicys
<1>6. QED
  BY <1>4, <1>5 DEF SessionInv

\* Every step.
LEMMA NextInv ==
  ASSUME SayingsAreMeant, SessionInv, [Next]_vars
  PROVE  SessionInv'
<1>1. ASSUME NEW after \in RetryAfters, RequestFails("http", after) PROVE SessionInv'
  <2>1. after \in Nat
    <3>1. ASSUME NEW f \in Floors, after = Max({f, Second}) PROVE after \in Nat
      <4>1. f \in Nat /\ Second \in Nat
        BY FloorAssumption
      <4>2. Max({f, Second}) = IF f >= Second THEN f ELSE Second
        BY <4>1, MaxOfTwo
      <4>3. QED
        BY <3>1, <4>1, <4>2
    <3>2. after = 0 \/ \E f \in Floors : after = Max({f, Second})
      BY DEF RetryAfters
    <3>3. after = 0 => after \in Nat
      OBVIOUS
    <3>4. QED
      BY <3>1, <3>2, <3>3, Zenon
  <2>2. QED
    BY <1>1, <2>1, RequestFailsInv
<1>2. CASE RequestFails("transport", 0)
  BY <1>2, RequestFailsInv
<1>3. CASE Opens
  BY <1>3, OpensInv
<1>4. CASE Severed
  BY <1>4, SeveredInv
<1>5. CASE FallsSilent
  BY <1>5, FallsSilentInv
<1>6. ASSUME NEW saying \in Sayings, Says(saying) PROVE SessionInv'
  BY <1>6, SaysInv
<1>7. ASSUME NEW n \in 1..Len(wire), Receives(n) PROVE SessionInv'
  BY <1>7, ReceivesInv
<1>8. ASSUME NEW healthy \in BOOLEAN, Ends(healthy) PROVE SessionInv'
  BY <1>8, EndsInv
<1>9. CASE UNCHANGED vars
  BY <1>9 DEF vars, SessionInv, TypeInv, ReadingInv, IdleInv, PolicyInv, WaitsAreThePolicys
<1>10. QED
  BY <1>1, <1>2, <1>3, <1>4, <1>5, <1>6, <1>7, <1>8, <1>9 DEF Next

\* Every state.
LEMMA InvariantHolds ==
  ASSUME SayingsAreMeant
  PROVE  Spec => []SessionInv
<1>1. SessionInv /\ [Next]_vars => SessionInv'
  BY NextInv
<1>2. QED
  BY <1>1, InitInv, PTL DEF Spec

\* The client hears what was said: whatever the texts, however they are written
\* and cut into chunks, and wherever the connection breaks.
THEOREM ClientHearsWhatIsSaid ==
  ASSUME SayingsAreMeant
  PROVE  Spec => []HeardIsSaid
<1>1. SessionInv => HeardIsSaid
  <2> SUFFICES ASSUME SessionInv PROVE HeardIsSaid
    OBVIOUS
  <2>1. CASE open
    <3> DEFINE rest == Feed(parser, wire).out
    <3>1. heard \in Seq(Items) /\ parser \in Parsers /\ wire \in Texts
          /\ Reads(parser, wire, style, heard, said)
      BY <2>1 DEF SessionInv, TypeInv, ReadingInv
    <3>2. rest \in Seq(Items) /\ said.items = heard \o rest
      BY <3>1, FeedType DEF Reads, Parsers
    <3>3. wire = << >> => heard = said.items
      <4> SUFFICES ASSUME wire = << >> PROVE heard = said.items
        OBVIOUS
      <4>1. Feed(parser, << >>) = [parser EXCEPT !.out = << >>]
        BY <3>1, FeedEmpty
      <4>2. rest = << >>
        BY <3>1, <4>1 DEF Parsers
      <4>3. QED
        BY <3>1, <3>2, <4>2, ConcatEmptySeq
    <3> HIDE DEF rest
    <3>4. IsPrefix(heard, heard \o rest)
      <4>1. Len(heard) \in Nat /\ Len(rest) \in Nat /\ Len(heard \o rest) = Len(heard) + Len(rest)
        BY <3>1, <3>2
      <4>2. SubSeq(heard \o rest, 1, Len(heard)) = SubSeq(heard, 1, Len(heard))
        <5>1. SubSeq(heard, 1, Len(heard)) = heard
          BY <3>1, SubSeqFull
        <5>2. Len(SubSeq(heard \o rest, 1, Len(heard))) = Len(heard)
              /\ SubSeq(heard \o rest, 1, Len(heard)) \in Seq(Items)
          BY <3>1, <3>2, <4>1
        <5>3. \A i \in 1..Len(heard) : SubSeq(heard \o rest, 1, Len(heard))[i] = heard[i]
          BY <3>1, <3>2, <4>1
        <5>4. QED
          BY <3>1, <5>1, <5>2, <5>3, SeqEqual
      <4>3. QED
        BY <4>1, <4>2 DEF IsPrefix
    <3>5. QED
      BY <3>2, <3>3, <3>4 DEF HeardIsSaid
  <2>2. CASE ~open
    <3>1. heard = << >> /\ said.items = << >>
      BY <2>2 DEF SessionInv, IdleInv
    <3>2. QED
      BY <3>1 DEF HeardIsSaid, IsPrefix
  <2>3. QED
    BY <2>1, <2>2 DEF SessionInv, TypeInv
<1>2. QED
  BY <1>1, InvariantHolds, PTL

\* Nothing is trimmed off a text without spaces at its ends.
LEMMA BareIsWhole ==
  ASSUME NEW text \in Texts, text # << >>, text # Absent, Bare(text)
  PROVE  Value(text) = text
<1> DEFINE solid == {i \in DOMAIN text : text[i] # "sp"}
<1>1. DOMAIN text = 1..Len(text) /\ Len(text) \in Nat \ {0}
  BY DEF Texts
<1>2. Head(text) = text[1] /\ Head(text) # "sp" /\ text[Len(text)] # "sp"
  BY DEF Bare, Last, Texts
<1>3. 1 \in solid /\ Len(text) \in solid /\ solid \subseteq 1..Len(text)
  BY <1>1, <1>2
<1> HIDE DEF solid
<1>4. Min(solid) = 1
  <2>1. \A y \in solid : 1 =< y
    BY <1>1, <1>3
  <2>2. \E x \in solid : \A y \in solid : x =< y
    BY <1>3, <2>1
  <2>3. Min(solid) \in solid /\ \A y \in solid : Min(solid) =< y
    BY <2>2 DEF Min
  <2>4. Min(solid) \in 1..Len(text) /\ Min(solid) =< 1
    BY <1>3, <2>3
  <2>5. QED
    BY <1>1, <2>4
<1>5. Max(solid) = Len(text)
  <2>1. \A y \in solid : Len(text) >= y
    BY <1>1, <1>3
  <2>2. \E x \in solid : \A y \in solid : x >= y
    BY <1>3, <2>1
  <2>3. Max(solid) \in solid /\ \A y \in solid : Max(solid) >= y
    BY <2>2 DEF Max
  <2>4. Max(solid) \in 1..Len(text) /\ Max(solid) >= Len(text)
    BY <1>3, <2>3
  <2>5. QED
    BY <1>1, <2>4
<1>6. SubSeq(text, 1, Len(text)) = text
  BY SubSeqFull DEF Texts
<1>7. Trimmed(text) = text
  BY <1>3, <1>4, <1>5, <1>6 DEF Trimmed, solid
<1>8. QED
  BY <1>7 DEF Value

\* A request says the id the client has, if it is a cursor, and if it can say it.
LEMMA AskedIsAnswer ==
  ASSUME IdsAreBare, UrlsAreCursors, TypeInv
  PROVE  Asked = Answer(cursor)
<1>1. setup.url = Absent \/ (IsToken(setup.url) /\ Bare(setup.url) /\ setup.url \in Texts)
  BY SetupAssumption DEF UrlsAreCursors, TypeInv
<1>2. cursor = Absent \/ (cursor \in Texts /\ cursor # << >> /\ Bare(cursor))
  BY IdsAreFields DEF IdsAreBare, TypeInv, Fields
<1>3. Value(setup.url) = setup.url
  <2>1. CASE setup.url = Absent
    BY <2>1 DEF Value
  <2>2. CASE setup.url # Absent
    <3>1. setup.url # << >>
      <4>1. Len(setup.url) \in 1..MaxLen
        BY <1>1, <2>2 DEF IsToken
      <4>2. QED
        BY <4>1
    <3>2. QED
      BY <1>1, <2>2, <3>1, BareIsWhole
  <2>3. QED
    BY <2>1, <2>2
<1>4. CASE cursor = Absent \/ ~IsHeader(cursor)
  <2>1. HeaderFor(cursor) = Absent
    BY <1>4 DEF HeaderFor
  <2>2. Asked = Resume(Absent, setup.url)
    BY <2>1 DEF Asked, FromParts
  <2>3. Asked = IF setup.url = Absent THEN Absent
                ELSE IF IsToken(setup.url) THEN setup.url ELSE Invalid
    BY <1>3, <2>2 DEF Resume
  <2>4. Asked = setup.url
    BY <1>1, <2>3
  <2>5. QED
    BY <1>4, <2>4 DEF Answer
<1>5. CASE ~ (cursor = Absent \/ ~IsHeader(cursor))
  <2>1. HeaderFor(cursor) = cursor /\ cursor # Absent /\ IsHeader(cursor)
    BY <1>5 DEF HeaderFor
  <2>2. Value(cursor) = cursor
    BY <1>2, <2>1, BareIsWhole
  <2>3. Asked = Resume(cursor, setup.url)
    BY <2>1 DEF Asked, FromParts
  <2>4. Asked = IF IsToken(cursor) THEN cursor ELSE Invalid
    BY <2>1, <2>2, <2>3 DEF Resume
  <2>5. QED
    BY <1>5, <2>4 DEF Answer
<1>6. QED
  BY <1>4, <1>5

\* A request names the id in force at the last frame that was heard, or one that
\* came after it without data, for any texts and any cut.  (An id with spaces at
\* its ends would arrive without them, and is left out.)
THEOREM RequestsNameTheLast ==
  ASSUME SayingsAreMeant, IdsAreBare, UrlsAreCursors
  PROVE  Spec => []RequestNamesTheLast
<1>1. SessionInv => RequestNamesTheLast
  BY AskedIsAnswer DEF SessionInv, IdleInv, RequestNamesTheLast
<1>2. QED
  BY <1>1, InvariantHolds, PTL

\* Every wait is one that the profile's policy allows, for any options, any
\* hints and any number of failures in a row.
THEOREM WaitsFollowThePolicy ==
  ASSUME SayingsAreMeant
  PROVE  Spec => []WaitsAreThePolicys
<1>1. SessionInv => WaitsAreThePolicys
  BY DEF SessionInv
<1>2. QED
  BY <1>1, InvariantHolds, PTL
-----------------------------------------------------------------------------
(* What this server encodes, read again *)

\* A chunk, after what was completed before.
Ran(p, text) == After(p.out, Feed(p, text))

\* It is read from one text to the next as from one lexeme to the next.
LEMMA RanSteps ==
  ASSUME NEW p \in Parsers, NEW text \in Texts
  PROVE  /\ Ran(p, text) \in Parsers
         /\ \A b \in Lexemes : Ran(p, Append(text, b)) = FeedOne(Ran(p, text), b)
         /\ \A more \in Texts : Ran(p, text \o more) = Ran(Ran(p, text), more)
<1> DEFINE o == p.out
           q == Feed(p, text)
           m == q.out
<1>1. o \in Seq(Items) /\ q \in Parsers /\ m \in Seq(Items)
  BY FeedType DEF Parsers
<1> HIDE DEF o, q, m
<1>2. Ran(p, text) = After(o, q) /\ After(o, q) \in Parsers
  BY <1>1, AfterType DEF Ran, o, q
<1>3. ASSUME NEW b \in Lexemes
      PROVE  Ran(p, Append(text, b)) = FeedOne(Ran(p, text), b)
  <2>1. Feed(p, Append(text, b)) = FeedOne(q, b)
    BY FeedAppend DEF q
  <2>2. FeedOne(After(o, q), b) = After(o, FeedOne(q, b))
    BY <1>1, FeedOneAfter
  <2>3. QED
    BY <1>2, <2>1, <2>2 DEF Ran, o
<1>4. ASSUME NEW more \in Texts
      PROVE  Ran(p, text \o more) = Ran(Ran(p, text), more)
  <2> DEFINE r == Feed(q, more)
             n == r.out
  <2>1. r \in Parsers /\ n \in Seq(Items)
    BY <1>1, FeedType DEF Parsers
  <2>2. Feed(p, text \o more) = After(m, r)
    BY CutAnywhere DEF q, m
  <2>3. Feed(After(o, q), more) = r
    <3>1. Rested(After(o, q)) = Rested(q)
      BY <1>1 DEF After, Rested, Parsers
    <3>2. Feed(Rested(After(o, q)), more) = Feed(After(o, q), more)
      BY <1>2, FeedRested
    <3>3. Feed(Rested(q), more) = Feed(q, more)
      BY <1>1, FeedRested
    <3>4. QED
      BY <3>1, <3>2, <3>3
  <2>4. After(o, q).out = o \o m
    BY <1>1 DEF After, Parsers, m
  <2> HIDE DEF r
  <2>5. After(o, After(m, r)) = After(o \o m, r)
    <3>1. After(m, r).out = m \o n
      BY <2>1 DEF After, Parsers
    <3>2. o \o (m \o n) = (o \o m) \o n
      <4> HIDE DEF n
      <4>1. QED
        BY <1>1, <2>1, ConcatAssociative, SMTT(20)
    <3>3. QED
      BY <2>1, <3>1, <3>2 DEF After, Parsers
  <2>6. QED
    BY <1>2, <2>2, <2>3, <2>4, <2>5 DEF Ran, o
<1>5. QED
  BY <1>2, <1>3, <1>4

\* Nothing, and one lexeme.
LEMMA RanOne ==
  ASSUME NEW p \in Parsers
  PROVE  /\ Ran(p, << >>) = p
         /\ \A b \in Lexemes : Ran(p, <<b>>) = FeedOne(p, b)
<1>1. Ran(p, << >>) = p
  <2>1. Feed(p, << >>) = Rested(p)
    BY FeedEmpty DEF Rested
  <2>2. QED
    BY <2>1, RestedType DEF Ran
<1>2. ASSUME NEW b \in Lexemes PROVE Ran(p, <<b>>) = FeedOne(p, b)
  <2>1. Append(<< >>, b) = <<b>>
    OBVIOUS
  <2>2. Ran(p, Append(<< >>, b)) = FeedOne(Ran(p, << >>), b)
    BY EmptyIsText, RanSteps
  <2>3. QED
    BY <1>1, <2>1, <2>2
<1>3. QED
  BY <1>1, <1>2

\* The line so far, without the mark that a text may open with.
Whole(p) ==
  IF p.atStart /\ p.line # << >> /\ Head(p.line) = "bom" THEN Tail(p.line) ELSE p.line

\* What a parser goes on from, whether or not it is at the start.
View(p) == [line |-> Whole(p), data |-> p.data, event |-> p.event, pending |-> p.pending,
            last |-> p.last, out |-> p.out]

Views == [line : Texts, data : Texts, event : Fields, pending : Fields, last : Fields,
          out : Seq(Items)]

Endings == {<<"lf">>, <<"cr">>, <<"cr", "lf">>}

\* A CR was the last it saw only between two lines that end in one.
Steady(p, ending) == p.sawCr => Whole(p) = << >> /\ ending = <<"cr">>

\* No frame is completed, and the id is the one that was.
Awaits(p, id) == p.last = id /\ LastOf(p.out, "event") = 0

\* From a view a text leads to another, and completes no frame on the way.
Leads(v, text, u, ending) ==
  \A p \in Parsers : View(p) = v /\ Steady(p, ending) =>
    /\ View(Ran(p, text)) = u /\ Steady(Ran(p, text), ending)
    /\ \A k \in 0..Len(text) : Awaits(Ran(p, SubSeq(text, 1, k)), v.last)

\* One text after another.
LEMMA LeadsOn ==
  ASSUME NEW v, NEW u, NEW w, NEW ending, NEW first \in Texts, NEW second \in Texts,
         Leads(v, first, u, ending), Leads(u, second, w, ending), u.last = v.last
  PROVE  Leads(v, first \o second, w, ending)
<1> SUFFICES ASSUME NEW p \in Parsers, View(p) = v, Steady(p, ending)
             PROVE  /\ View(Ran(p, first \o second)) = w
                    /\ Steady(Ran(p, first \o second), ending)
                    /\ \A k \in 0..Len(first \o second) :
                         Awaits(Ran(p, SubSeq(first \o second, 1, k)), v.last)
  BY Zenon DEF Leads
<1> DEFINE q == Ran(p, first)
<1>1. View(q) = u /\ Steady(q, ending)
      /\ \A k \in 0..Len(first) : Awaits(Ran(p, SubSeq(first, 1, k)), v.last)
  BY DEF Leads
<1>2. q \in Parsers /\ \A more \in Texts : Ran(p, first \o more) = Ran(q, more)
  BY RanSteps
<1> HIDE DEF q
<1>3. View(Ran(q, second)) = w /\ Steady(Ran(q, second), ending)
      /\ \A k \in 0..Len(second) : Awaits(Ran(q, SubSeq(second, 1, k)), u.last)
  BY <1>1, <1>2 DEF Leads
<1>4. ASSUME NEW k \in 0..Len(first \o second)
      PROVE  Awaits(Ran(p, SubSeq(first \o second, 1, k)), v.last)
  <2>1. PrefixOfTwo(first, second, k)
    BY CutPrefix DEF Texts
  <2>2. CASE k \in 0..Len(first) /\ SubSeq(first \o second, 1, k) = SubSeq(first, 1, k)
    BY <1>1, <2>2
  <2>3. ASSUME NEW j \in 0..Len(second),
               SubSeq(first \o second, 1, k) = first \o SubSeq(second, 1, j)
        PROVE  Awaits(Ran(p, SubSeq(first \o second, 1, k)), v.last)
    <3>1. SubSeq(second, 1, j) \in Texts
      BY PrefixIs DEF Texts
    <3>2. Ran(p, first \o SubSeq(second, 1, j)) = Ran(q, SubSeq(second, 1, j))
      BY <1>2, <3>1
    <3>3. QED
      BY <1>3, <2>3, <3>2
  <2>4. QED
    BY <2>1, <2>2, <2>3 DEF PrefixOfTwo
<1>5. QED
  BY <1>2, <1>3, <1>4

\* What a view is, of a parser.
LEMMA ViewType ==
  ASSUME NEW p \in Parsers
  PROVE  /\ View(p) \in Views /\ Whole(p) \in Texts /\ View(p).line = Whole(p)
         /\ View(p).last = p.last /\ View(p).out = p.out
<1>1. p.line \in Texts /\ (p.line # << >> => Tail(p.line) \in Texts)
  BY DEF Parsers, Texts
<1>2. Whole(p) \in Texts
  BY <1>1 DEF Whole
<1>3. QED
  BY <1>2 DEF View, Views, Parsers

\* What is no break is collected.
LEMMA LexemeCollected ==
  ASSUME NEW p \in Parsers, NEW b \in Lexemes \ Breaks, Whole(p) # << >> \/ b # "bom"
  PROVE  /\ View(FeedOne(p, b)) = [View(p) EXCEPT !.line = Append(@, b)]
         /\ ~FeedOne(p, b).sawCr
<1> DEFINE q == [[p EXCEPT !.sawCr = FALSE] EXCEPT !.line = Append(@, b)]
           l == p.line
<1>1. b # "lf" /\ b # "cr"
  BY DEF Breaks
<1>2. FeedOne(p, b) = q
  BY <1>1 DEF FeedOne, Breaks
<1>3. l \in Seq(Lexemes)
  BY DEF Parsers, Texts
<1>4. /\ q.sawCr = FALSE /\ q.line = Append(l, b) /\ q.atStart = p.atStart
      /\ q.data = p.data /\ q.event = p.event /\ q.pending = p.pending
      /\ q.last = p.last /\ q.out = p.out
  BY DEF Parsers
<1> HIDE DEF q
<1>5. Whole(q) = Append(Whole(p), b)
  <2>1. CASE l = << >>
    <3>1. Whole(p) = << >> /\ b # "bom"
      BY <2>1 DEF Whole
    <3>2. Append(l, b) = <<b>> /\ Head(<<b>>) = b /\ Append(<< >>, b) = <<b>>
      BY <2>1
    <3>3. QED
      BY <1>4, <3>1, <3>2 DEF Whole
  <2>2. CASE l # << >>
    <3> HIDE DEF l
    <3>1. Append(l, b) # << >> /\ Head(Append(l, b)) = Head(l)
          /\ Tail(Append(l, b)) = Append(Tail(l), b)
      BY <1>3, <2>2
    <3>2. Whole(q) = IF p.atStart /\ Head(l) = "bom" THEN Append(Tail(l), b) ELSE Append(l, b)
      BY <1>4, <3>1 DEF Whole
    <3>3. Whole(p) = IF p.atStart /\ Head(l) = "bom" THEN Tail(l) ELSE l
      BY <2>2 DEF Whole, l
    <3>4. QED
      BY <3>2, <3>3
  <2>3. QED
    BY <2>1, <2>2
<1>6. View(q) = [View(p) EXCEPT !.line = Append(@, b)]
  <2> DEFINE w == Append(Whole(p), b)
  <2>1. Append(View(p).line, b) = w
    BY ViewType
  <2>2. Whole(q) = w
    BY <1>5
  <2> HIDE DEF w
  <2>3. View(q) = [View(p) EXCEPT !.line = w]
    BY <1>4, <2>2 DEF View
  <2>4. QED
    BY <2>1, <2>3
<1>7. ~q.sawCr
  BY <1>4
<1>8. QED
  BY <1>2, <1>6, <1>7

\* A line that ends leaves one that is empty, and no longer at the start.
Cleared(p, sawCr) == [p EXCEPT !.sawCr = sawCr, !.line = << >>, !.atStart = FALSE]

\* A break ends the line: a blank one dispatches, another is valued.
LEMMA BreakEnds ==
  ASSUME NEW p \in Parsers, NEW b \in Breaks, p.sawCr => b = "cr"
  PROVE  LET c == Cleared(p, b = "cr")
         IN  /\ c \in Parsers /\ ~c.atStart /\ c.line = << >> /\ c.sawCr = (b = "cr")
             /\ View(c) = [View(p) EXCEPT !.line = << >>]
             /\ FeedOne(p, b) = IF Whole(p) = << >> THEN Dispatch(c) ELSE Valued(c, Whole(p))
<1> DEFINE c == Cleared(p, b = "cr")
           q == [p EXCEPT !.sawCr = b = "cr"]
<1>1. /\ c \in Parsers /\ ~c.atStart /\ c.line = << >> /\ c.sawCr = (b = "cr")
      /\ c.data = p.data /\ c.event = p.event /\ c.pending = p.pending
      /\ c.last = p.last /\ c.out = p.out
  BY EmptyIsText DEF Parsers, Cleared
<1>2. FeedOne(p, b) = EndLine(q)
  <2>1. ~ (p.sawCr /\ b = "lf")
    OBVIOUS
  <2>2. QED
    BY <2>1 DEF FeedOne
<1>3. q.line = p.line /\ q.atStart = p.atStart /\ [q EXCEPT !.line = << >>, !.atStart = FALSE] = c
  BY DEF Parsers, Cleared
<1> HIDE DEF q
<1>4. EndLine(q) = IF Whole(p) = << >> THEN Dispatch(c) ELSE Valued(c, Whole(p))
  BY <1>3 DEF EndLine, Whole
<1>5. View(c) = [View(p) EXCEPT !.line = << >>]
  BY <1>1 DEF View, Whole
<1>6. QED
  BY <1>1, <1>2, <1>4, <1>5

\* A hint is no frame.
LEMMA HintIsNoEvent ==
  ASSUME NEW out \in Seq(Items), LastOf(out, "event") = 0, NEW word \in DOMAIN Millis
  PROVE  LastOf(Append(out, Hint(Millis[word])), "event") = 0
<1> DEFINE hint == Hint(Millis[word])
<1>1. hint \in Items /\ hint.is # "event"
  BY DEF Hint, Items
<1> HIDE DEF hint
<1>2. <<hint>> \in Seq(Items) /\ Len(<<hint>>) = 1 /\ <<hint>>[1] = hint
  BY <1>1
<1>3. LastOf(<<hint>>, "event") = 0
  <2> DEFINE s == <<hint>>
  <2>1. 0 \in 0..Len(s) /\ \A i \in 1..Len(s) : s[i].is = "event" => i <= 0
    BY <1>1, <1>2
  <2>2. s \in Seq(Items)
    BY <1>2
  <2> HIDE DEF s
  <2>3. LastOf(s, "event") = 0
    BY <2>1, <2>2, LastOfIs
  <2>4. QED
    BY <2>3 DEF s
<1>4. LastOf(out \o <<hint>>, "event") = 0
  BY <1>2, <1>3, LastOfConcat
<1>5. Append(out, hint) = out \o <<hint>>
  BY <1>1, AppendIsConcat
<1>6. QED
  BY <1>4, <1>5 DEF hint

\* What a line says does not depend on where the parser is.
LEMMA ValuedSeen ==
  ASSUME NEW c \in Parsers, ~c.atStart, c.line = << >>, NEW line \in Texts, line # << >>
  PROVE  LET q == Valued(c, line)
         IN  /\ View(q) = Valued(View(c), line)
             /\ q \in Parsers /\ q.sawCr = c.sawCr /\ Whole(q) = << >> /\ q.last = c.last
             /\ LastOf(c.out, "event") = 0 => LastOf(q.out, "event") = 0
<1> DEFINE value == Tail(line)
           hint  == Hint(Millis[value[1]])
           same(q) == /\ q.sawCr = c.sawCr /\ ~q.atStart /\ q.line = << >> /\ q.last = c.last
           of(q) ==
             CASE Names(line, "event", "event:") -> [q EXCEPT !.event = value]
               [] Names(line, "data", "data:") -> [q EXCEPT !.data = @ \o Append(value, "lf")]
               [] Names(line, "id", "id:") ->
                    IF Contains(value, "nul") THEN q ELSE [q EXCEPT !.pending = value]
               [] Head(line) = "retry:" /\ Len(value) = 1 /\ value[1] \in DOMAIN Millis ->
                    [q EXCEPT !.out = Append(@, hint)]
               [] OTHER -> q
           v == View(c)
           fine(q, u) == View(q) = u /\ same(q)
                         /\ (LastOf(c.out, "event") = 0 => LastOf(q.out, "event") = 0)
<1>1. Valued(c, line) = of(c) /\ Valued(v, line) = of(v)
  BY DEF Valued
<1>2. v = [line |-> << >>, data |-> c.data, event |-> c.event, pending |-> c.pending,
           last |-> c.last, out |-> c.out]
  BY DEF View, Whole
<1> HIDE DEF value, v
<1>3. fine(c, v)
  BY DEF v
<1>4. fine([c EXCEPT !.event = value], [v EXCEPT !.event = value])
  BY <1>2 DEF View, Whole, Parsers
<1>5. fine([c EXCEPT !.pending = value], [v EXCEPT !.pending = value])
  BY <1>2 DEF View, Whole, Parsers
<1>6. fine([c EXCEPT !.data = @ \o Append(value, "lf")], [v EXCEPT !.data = @ \o Append(value, "lf")])
  <2> DEFINE more == c.data \o Append(value, "lf")
  <2>1. v.data \o Append(value, "lf") = more
    BY <1>2
  <2> HIDE DEF more
  <2>2. fine([c EXCEPT !.data = more], [v EXCEPT !.data = more])
    BY <1>2 DEF View, Whole, Parsers
  <2>3. QED
    BY <2>1, <2>2 DEF more
<1>7. ASSUME value[1] \in DOMAIN Millis
      PROVE  fine([c EXCEPT !.out = Append(@, hint)], [v EXCEPT !.out = Append(@, hint)])
  <2> DEFINE more == Append(c.out, hint)
  <2>1. LastOf(c.out, "event") = 0 => LastOf(more, "event") = 0
    <3>1. c.out \in Seq(Items)
      BY DEF Parsers
    <3>2. QED
      BY <1>7, <3>1, HintIsNoEvent
  <2>2. Append(v.out, hint) = more
    BY <1>2
  <2> HIDE DEF more
  <2>3. fine([c EXCEPT !.out = more], [v EXCEPT !.out = more])
    BY <1>2, <2>1 DEF View, Whole, Parsers
  <2>4. QED
    BY <2>2, <2>3 DEF more
<1> HIDE DEF hint, fine
<1>8. fine(of(c), of(v))
  BY <1>3, <1>4, <1>5, <1>6, <1>7
<1>9. of(c) \in Parsers
  BY <1>1, ValuedType
<1>10. QED
  BY <1>1, <1>8, <1>9 DEF fine, Whole, v

\* No text leads nowhere else.
LEMMA NothingLeads ==
  ASSUME NEW v, NEW ending, LastOf(v.out, "event") = 0
  PROVE  Leads(v, << >>, v, ending)
<1> SUFFICES ASSUME NEW p \in Parsers, View(p) = v, Steady(p, ending)
             PROVE  /\ View(Ran(p, << >>)) = v /\ Steady(Ran(p, << >>), ending)
                    /\ \A k \in 0..Len(<< >>) : Awaits(Ran(p, SubSeq(<< >>, 1, k)), v.last)
  BY Zenon DEF Leads
<1>1. Ran(p, << >>) = p /\ p.last = v.last /\ p.out = v.out
  BY RanOne, ViewType
<1>2. Awaits(p, v.last)
  BY <1>1 DEF Awaits
<1>3. ASSUME NEW k \in 0..Len(<< >>) PROVE SubSeq(<< >>, 1, k) = << >>
  OBVIOUS
<1>4. QED
  BY <1>1, <1>2, <1>3

\* A text of one lexeme can be cut in few ways,
LEMMA PrefixesOfOne ==
  ASSUME NEW b, NEW k \in 0..Len(<<b>>)
  PROVE  SubSeq(<<b>>, 1, k) = << >> \/ SubSeq(<<b>>, 1, k) = <<b>>
<1> DEFINE s == <<b>>
<1>1. s \in Seq({b}) /\ Len(s) = 1
  OBVIOUS
<1>2. k = 0 \/ k = 1
  BY <1>1
<1> HIDE DEF s
<1>3. SubSeq(s, 1, 0) = << >>
  BY <1>1
<1>4. SubSeq(s, 1, 1) = s
  BY <1>1, SubSeqFull
<1>5. QED
  BY <1>2, <1>3, <1>4 DEF s

\* and of two.
LEMMA PrefixesOfTwo ==
  ASSUME NEW a, NEW b, NEW k \in 0..Len(<<a, b>>)
  PROVE  SubSeq(<<a, b>>, 1, k) \in {<< >>, <<a>>, <<a, b>>}
<1> DEFINE s == <<a, b>>
<1>1. s \in Seq({a, b}) /\ Len(s) = 2 /\ s[1] = a
  OBVIOUS
<1>2. k = 0 \/ k = 1 \/ k = 2
  BY <1>1
<1> HIDE DEF s
<1>3. SubSeq(s, 1, 0) = << >>
  BY <1>1
<1>4. SubSeq(s, 1, 1) = <<a>>
  <2> DEFINE t == SubSeq(s, 1, 1)
  <2>1. t \in Seq({a, b}) /\ Len(t) = 1 /\ t[1] = a
    BY <1>1
  <2> HIDE DEF t
  <2>2. t = <<a>>
    BY <2>1
  <2>3. QED
    BY <2>2 DEF t
<1>5. SubSeq(s, 1, 2) = s
  BY <1>1, SubSeqFull
<1>6. QED
  BY <1>2, <1>3, <1>4, <1>5 DEF s

\* A lexeme that is no break is collected.
LEMMA LexemeLeads ==
  ASSUME NEW v, NEW b \in Lexemes \ Breaks, v.line # << >> \/ b # "bom",
         LastOf(v.out, "event") = 0, NEW ending
  PROVE  Leads(v, <<b>>, [v EXCEPT !.line = Append(@, b)], ending)
<1> DEFINE u == [v EXCEPT !.line = Append(@, b)]
<1> SUFFICES ASSUME NEW p \in Parsers, View(p) = v, Steady(p, ending)
             PROVE  /\ View(Ran(p, <<b>>)) = u /\ Steady(Ran(p, <<b>>), ending)
                    /\ \A k \in 0..Len(<<b>>) : Awaits(Ran(p, SubSeq(<<b>>, 1, k)), v.last)
  BY Zenon DEF Leads
<1> DEFINE q == FeedOne(p, b)
<1>1. p.last = v.last /\ p.out = v.out /\ Whole(p) = v.line /\ v \in Views
  BY ViewType
<1>2. View(q) = u /\ ~q.sawCr
  BY <1>1, LexemeCollected
<1>3. Ran(p, << >>) = p /\ Ran(p, <<b>>) = q
  BY RanOne
<1>4. q \in Parsers
  BY FeedOneType
<1>5. u.last = v.last /\ u.out = v.out
  BY <1>1 DEF Views
<1> HIDE DEF q, u
<1>6. q.last = v.last /\ q.out = v.out
  BY <1>2, <1>4, <1>5, ViewType
<1>7. Awaits(p, v.last) /\ Awaits(q, v.last)
  BY <1>1, <1>6 DEF Awaits
<1>8. ASSUME NEW k \in 0..Len(<<b>>) PROVE SubSeq(<<b>>, 1, k) = << >> \/ SubSeq(<<b>>, 1, k) = <<b>>
  BY PrefixesOfOne
<1>9. QED
  BY <1>2, <1>3, <1>7, <1>8 DEF Steady

\* The view after a line.
Ended(v) == Valued([v EXCEPT !.line = << >>], v.line)

\* One lexeme of a break ends the line, and the line is what the view had.
LEMMA BreakLeads ==
  ASSUME NEW p \in Parsers, NEW b \in Breaks, ~p.sawCr, Whole(p) # << >>,
         LastOf(p.out, "event") = 0
  PROVE  LET q == FeedOne(p, b)
         IN  /\ q \in Parsers /\ View(q) = Ended(View(p)) /\ q.sawCr = (b = "cr")
             /\ Whole(q) = << >> /\ Awaits(q, p.last)
<1> DEFINE q == FeedOne(p, b)
           c == Cleared(p, b = "cr")
           line == Whole(p)
<1>1. /\ c \in Parsers /\ ~c.atStart /\ c.line = << >> /\ c.sawCr = (b = "cr")
      /\ View(c) = [View(p) EXCEPT !.line = << >>]
      /\ q = Valued(c, line)
  BY BreakEnds
<1>2. c.last = p.last /\ c.out = p.out
  BY DEF Cleared, Parsers
<1>3. line \in Texts /\ line # << >> /\ View(p).line = line
  BY ViewType
<1> HIDE DEF q, c, line
<1>4. /\ View(q) = Valued(View(c), line)
      /\ q \in Parsers /\ q.sawCr = c.sawCr /\ Whole(q) = << >> /\ q.last = c.last
      /\ LastOf(q.out, "event") = 0
  BY <1>1, <1>2, <1>3, ValuedSeen
<1>5. View(q) = Ended(View(p))
  BY <1>1, <1>3, <1>4 DEF Ended
<1>6. QED
  BY <1>1, <1>2, <1>4, <1>5 DEF Awaits, q

\* So does a break, however it is written.
LEMMA LineEnds ==
  ASSUME NEW v, NEW ending \in Endings, v.line # << >>, LastOf(v.out, "event") = 0
  PROVE  Leads(v, ending, Ended(v), ending)
<1> SUFFICES ASSUME NEW p \in Parsers, View(p) = v, Steady(p, ending)
             PROVE  /\ View(Ran(p, ending)) = Ended(v) /\ Steady(Ran(p, ending), ending)
                    /\ \A k \in 0..Len(ending) : Awaits(Ran(p, SubSeq(ending, 1, k)), v.last)
  BY Zenon DEF Leads
<1>1. p.last = v.last /\ p.out = v.out /\ Whole(p) = v.line /\ ~p.sawCr /\ Awaits(p, v.last)
  BY ViewType DEF Steady, Awaits
<1>2. ASSUME NEW b \in Breaks
      PROVE  LET q == FeedOne(p, b)
             IN  /\ q \in Parsers /\ View(q) = Ended(v) /\ q.sawCr = (b = "cr")
                 /\ Whole(q) = << >> /\ Awaits(q, v.last)
  BY <1>1, BreakLeads
<1>3. CASE ending \in {<<"lf">>, <<"cr">>}
  <2>1. PICK b \in Breaks : ending = <<b>>
    BY <1>3 DEF Breaks
  <2> DEFINE q == FeedOne(p, b)
  <2>2. Ran(p, << >>) = p /\ Ran(p, <<b>>) = q
    BY LexemeNames, RanOne DEF Breaks
  <2>3. /\ View(q) = Ended(v) /\ q.sawCr = (b = "cr") /\ Awaits(q, v.last)
        /\ Whole(q) = << >>
    BY <1>2
  <2> HIDE DEF q
  <2>4. ASSUME NEW k \in 0..Len(<<b>>)
        PROVE  SubSeq(<<b>>, 1, k) = << >> \/ SubSeq(<<b>>, 1, k) = <<b>>
    BY PrefixesOfOne
  <2>5. Steady(q, ending)
    BY <2>1, <2>3 DEF Steady
  <2>6. QED
    BY <1>1, <2>1, <2>2, <2>3, <2>4, <2>5
<1>4. CASE ending = <<"cr", "lf">>
  <2> DEFINE q == FeedOne(p, "cr")
             r == FeedOne(q, "lf")
  <2>1. Ran(p, << >>) = p /\ Ran(p, <<"cr">>) = q
    BY LexemeNames, RanOne
  <2>2. q \in Parsers /\ View(q) = Ended(v) /\ q.sawCr /\ Awaits(q, v.last)
    <3>1. "cr" \in Breaks
      BY DEF Breaks
    <3>2. QED
      BY <1>2, <3>1
  <2>3. Ran(p, <<"cr", "lf">>) = r
    <3>1. <<"cr", "lf">> = Append(<<"cr">>, "lf") /\ <<"cr">> \in Texts
      BY LexemeNames DEF Texts
    <3>2. Ran(p, Append(<<"cr">>, "lf")) = FeedOne(Ran(p, <<"cr">>), "lf")
      BY <3>1, LexemeNames, RanSteps
    <3>3. QED
      BY <2>1, <3>1, <3>2
  <2> HIDE DEF q
  <2>4. r = [q EXCEPT !.sawCr = FALSE]
    BY <2>2 DEF FeedOne
  <2>5. View(r) = View(q) /\ ~r.sawCr /\ r.last = q.last /\ r.out = q.out
    BY <2>2, <2>4 DEF View, Whole, Parsers
  <2>6. Awaits(r, v.last) /\ Steady(r, ending)
    BY <2>2, <2>5 DEF Awaits, Steady
  <2>7. ASSUME NEW k \in 0..Len(<<"cr", "lf">>)
        PROVE  \/ SubSeq(<<"cr", "lf">>, 1, k) = << >>
               \/ SubSeq(<<"cr", "lf">>, 1, k) = <<"cr">>
               \/ SubSeq(<<"cr", "lf">>, 1, k) = <<"cr", "lf">>
    BY PrefixesOfTwo
  <2> HIDE DEF r
  <2>8. QED
    BY <1>1, <1>4, <2>1, <2>2, <2>3, <2>5, <2>6, <2>7
<1>5. QED
  BY <1>3, <1>4 DEF Endings

\* A text of one line.
Unbroke(text) == \A i \in 1..Len(text) : text[i] \notin Breaks

\* A lexeme after two parts of a text goes on the second,
LEMMA AppendToSecond ==
  ASSUME NEW first \in Texts, NEW second \in Texts, NEW b \in Lexemes
  PROVE  Append(first \o second, b) = first \o Append(second, b)
<1>1. first \in Seq(Lexemes) /\ second \in Seq(Lexemes)
  BY DEF Texts
<1>2. QED
  BY <1>1, SMT

\* and parts can be taken together either way.
LEMMA ThreeParts ==
  ASSUME NEW first \in Texts, NEW second \in Texts, NEW third \in Texts
  PROVE  (first \o second) \o third = first \o (second \o third)
<1>1. first \in Seq(Lexemes) /\ second \in Seq(Lexemes) /\ third \in Seq(Lexemes)
  BY DEF Texts
<1>2. QED
  BY <1>1, SMT

\* A text without breaks is collected.
LEMMA TextLeads ==
  ASSUME NEW v \in Views, v.line # << >>, LastOf(v.out, "event") = 0,
         NEW text \in Texts, Unbroke(text), NEW ending
  PROVE  Leads(v, text, [v EXCEPT !.line = @ \o text], ending)
<1> DEFINE part(n) == SubSeq(text, 1, n)
           to(s)   == [v EXCEPT !.line = @ \o s]
           T == {n \in Nat : n <= Len(text) => Leads(v, part(n), to(part(n)), ending)}
<1>1. Len(text) \in Nat /\ v.line \in Texts
  BY DEF Texts, Views
<1>2. 0 \in T
  <2>1. part(0) = << >> /\ v.line \o << >> = v.line
    BY <1>1, ConcatEmptySeq DEF Texts
  <2>2. to(<< >>) = v
    BY <2>1 DEF Views
  <2>3. QED
    BY <2>1, <2>2, NothingLeads
<1>3. ASSUME NEW n \in Nat, n \in T PROVE n + 1 \in T
  <2> SUFFICES ASSUME n + 1 <= Len(text) PROVE Leads(v, part(n + 1), to(part(n + 1)), ending)
    OBVIOUS
  <2> DEFINE b == text[n + 1]
             s == part(n)
             u == to(s)
  <2>1. s \in Texts /\ b \in Lexemes /\ part(n + 1) = Append(s, b)
    BY PrefixGrows DEF Texts
  <2>2. b \notin Breaks
    <3>1. n + 1 \in 1..Len(text)
      BY <1>1
    <3>2. QED
      BY <3>1 DEF Unbroke
  <2>3. Leads(v, s, u, ending)
    <3>1. n <= Len(text)
      BY <1>1
    <3>2. QED
      BY <1>3, <3>1
  <2> HIDE DEF part, T, b, s
  <2>4. v.line \o s \in Texts /\ v.line \o s # << >>
        /\ Append(v.line \o s, b) = v.line \o Append(s, b)
    <3> DEFINE l == v.line
    <3>1. l \in Texts /\ l # << >>
      BY <1>1
    <3> HIDE DEF l
    <3>2. l \o s \in Seq(Lexemes) /\ l \o s # << >>
      BY <2>1, <3>1 DEF Texts
    <3>3. Append(l \o s, b) = l \o Append(s, b)
      BY <2>1, <3>1, AppendToSecond, Zenon
    <3>4. QED
      BY <3>2, <3>3 DEF l, Texts
  <2>5. u.line = v.line \o s /\ u.last = v.last /\ u.out = v.out
    BY DEF Views
  <2>6. Leads(u, <<b>>, [u EXCEPT !.line = Append(@, b)], ending)
    <3> HIDE DEF u
    <3>1. u.line # << >> /\ LastOf(u.out, "event") = 0 /\ b \in Lexemes \ Breaks
      BY <2>1, <2>2, <2>4, <2>5
    <3>2. QED
      BY <3>1, LexemeLeads
  <2>7. [u EXCEPT !.line = Append(@, b)] = to(Append(s, b))
    <3> DEFINE w == Append(v.line \o s, b)
    <3>1. Append(u.line, b) = w /\ v.line \o Append(s, b) = w
      BY <2>4, <2>5
    <3> HIDE DEF w
    <3>2. [u EXCEPT !.line = w] = [v EXCEPT !.line = w]
      BY DEF Views
    <3>3. QED
      BY <3>1, <3>2
  <2>8. <<b>> \in Texts /\ s \o <<b>> = Append(s, b)
    <3>1. <<b>> \in Seq(Lexemes)
      BY <2>1
    <3>2. QED
      BY <2>1, <3>1, AppendIsConcat DEF Texts
  <2> HIDE DEF to, u
  <2>9. Leads(v, s \o <<b>>, to(Append(s, b)), ending)
    BY <2>1, <2>3, <2>5, <2>6, <2>7, <2>8, LeadsOn
  <2>10. QED
    BY <2>1, <2>8, <2>9
<1>4. Nat \subseteq T
  <2> HIDE DEF T
  <2>1. QED
    BY <1>2, <1>3, Induction
<1>5. Leads(v, part(Len(text)), to(part(Len(text))), ending)
  <2> HIDE DEF part, to
  <2>1. QED
    BY <1>1, <1>4
<1>6. part(Len(text)) = text
  BY SubSeqFull DEF Texts
<1>7. QED
  BY <1>5, <1>6

\* A line that begins with an opening, as its parts.
LEMMA OpenedLine ==
  ASSUME NEW opening \in Openings, NEW value \in Texts
  PROVE  LET line == <<opening>> \o value
         IN  /\ line \in Texts /\ line # << >> /\ Head(line) = opening /\ Tail(line) = value
             /\ opening \in Lexemes \ Breaks /\ opening # "bom" /\ <<opening>> \in Texts
             /\ Names(line, "event", "event:") = (opening = "event:")
             /\ Names(line, "data", "data:") = (opening = "data:")
             /\ Names(line, "id", "id:") = (opening = "id:")
<1> DEFINE line == <<opening>> \o value
<1>1. opening \in Lexemes \ Breaks /\ opening # "bom"
      /\ opening # "event" /\ opening # "data" /\ opening # "id"
  BY DEF Openings, Lexemes, Breaks
<1>2. <<opening>> \in Texts
  <2>1. <<opening>> \in Seq(Lexemes)
    BY <1>1
  <2>2. QED
    BY <2>1 DEF Texts
<1>3. line \in Texts /\ line # << >> /\ Head(line) = opening /\ Tail(line) = value
  BY <1>1 DEF Texts
<1> HIDE DEF line
<1>4. \A name : line = <<name>> => opening = name
  BY <1>3
<1>5. QED
  BY <1>1, <1>2, <1>3, <1>4 DEF Names, line

\* So is a field's line, after its opening.
LEMMA FieldLeads ==
  ASSUME NEW v \in Views, v.line = << >>, LastOf(v.out, "event") = 0,
         NEW opening \in Openings, NEW value \in Texts, Unbroke(value)
  PROVE  \A ending : Leads(v, <<opening>> \o value, [v EXCEPT !.line = <<opening>> \o value], ending)
<1> SUFFICES ASSUME NEW ending
             PROVE  Leads(v, <<opening>> \o value, [v EXCEPT !.line = <<opening>> \o value], ending)
  OBVIOUS
<1> DEFINE u == [v EXCEPT !.line = Append(@, opening)]
<1>1. opening \in Lexemes \ Breaks /\ opening # "bom" /\ <<opening>> \in Texts
  BY OpenedLine
<1>2. Leads(v, <<opening>>, u, ending)
  BY <1>1, LexemeLeads
<1>3. Append(v.line, opening) = <<opening>>
  OBVIOUS
<1>4. u \in Views /\ u.line = <<opening>> /\ u.last = v.last /\ u.out = v.out
      /\ [u EXCEPT !.line = <<opening>> \o value] = [v EXCEPT !.line = <<opening>> \o value]
  BY <1>1, <1>3 DEF Views
<1> HIDE DEF u
<1>5. <<opening>> # << >>
  OBVIOUS
<1>6. Leads(u, value, [u EXCEPT !.line = @ \o value], ending)
  BY <1>4, <1>5, TextLeads
<1>7. [u EXCEPT !.line = @ \o value] = [v EXCEPT !.line = <<opening>> \o value]
  BY <1>4
<1>8. QED
  BY <1>1, <1>2, <1>4, <1>6, <1>7, LeadsOn

\* Flattening what has one more sequence.
LEMMA FlattenGrows ==
  ASSUME NEW S, NEW n \in Nat, NEW f \in [1..n + 1 -> Seq(S)]
  PROVE  FlattenSeq(f) = FlattenSeq([i \in 1..n |-> f[i]]) \o f[n + 1]
<1> DEFINE seqs == [i \in 1..n |-> f[i]]
           s    == f[n + 1]
<1>1. n + 1 \in 1..n + 1 /\ \A i \in 1..n : i \in 1..n + 1
  OBVIOUS
<1>2. seqs \in Seq(Seq(S)) /\ Len(seqs) = n /\ s \in Seq(S)
  BY <1>1
<1>3. Append(seqs, s) = f
  <2>1. f \in Seq(Seq(S)) /\ Len(f) = n + 1
    BY <1>1
  <2>2. \A i \in 1..n : seqs[i] = f[i]
    OBVIOUS
  <2> HIDE DEF seqs
  <2>3. Append(seqs, s) \in Seq(Seq(S)) /\ Len(Append(seqs, s)) = n + 1
        /\ Append(seqs, s)[n + 1] = s /\ \A i \in 1..n : Append(seqs, s)[i] = seqs[i]
    BY <1>2
  <2>4. \A i \in 1..n + 1 : Append(seqs, s)[i] = f[i]
    <3> TAKE i \in 1..n + 1
    <3>1. i \in 1..n \/ i = n + 1
      OBVIOUS
    <3>2. QED
      BY <2>2, <2>3, <3>1
  <2> HIDE DEF s
  <2>5. QED
    BY <2>1, <2>3, <2>4, SeqEqual
<1> HIDE DEF seqs, s
<1>4. FlattenSeq(Append(seqs, s)) = FlattenSeq(seqs) \o s
  BY <1>2, FlattenAppend
<1>5. QED
  BY <1>3, <1>4 DEF seqs, s

\* Of no sequences there is nothing.
LEMMA FlattenNothing == \A f : FlattenSeq([i \in 1..0 |-> f[i]]) = << >>
<1> SUFFICES ASSUME NEW f PROVE FlattenSeq([i \in 1..0 |-> f[i]]) = << >>
  OBVIOUS
<1>1. [i \in 1..0 |-> f[i]] = << >>
  OBVIOUS
<1>2. QED
  BY <1>1 DEF FlattenSeq

\* How a lexeme is written.
Break(b, ending) == IF b = "lf" THEN ending ELSE <<b>>

\* What a break is written as is a text.
LEMMA EndingIsText ==
  ASSUME NEW ending \in Endings
  PROVE  /\ ending \in Texts
         /\ \A b \in Lexemes : <<b>> \in Texts /\ Break(b, ending) \in Texts
<1>1. <<"lf">> \in Seq(Lexemes) /\ <<"cr">> \in Seq(Lexemes) /\ <<"cr", "lf">> \in Seq(Lexemes)
  BY LexemeNames
<1>2. \A b \in Lexemes : <<b>> \in Seq(Lexemes)
  OBVIOUS
<1>3. QED
  BY <1>1, <1>2 DEF Texts, Endings, Break

\* A text is written lexeme after lexeme.
LEMMA WrittenSteps ==
  ASSUME NEW text \in Texts, NEW ending \in Endings
  PROVE  /\ Written(text, ending) \in Texts
         /\ Written(<< >>, ending) = << >>
         /\ \A b \in Lexemes :
              Written(Append(text, b), ending) = Written(text, ending) \o Break(b, ending)
<1> DEFINE parts == [i \in DOMAIN text |-> Break(text[i], ending)]
           n == Len(text)
<1>1. n \in Nat /\ DOMAIN text = 1..n /\ \A i \in 1..n : text[i] \in Lexemes
  BY DEF Texts
<1>2. parts \in Seq(Seq(Lexemes))
  BY <1>1, EndingIsText DEF Texts
<1>3. Written(text, ending) = FlattenSeq(parts)
  BY DEF Written, Break
<1>4. Written(text, ending) \in Texts
  <2> HIDE DEF parts
  <2>1. QED
    BY <1>2, <1>3, FlattenType DEF Texts
<1>5. Written(<< >>, ending) = << >>
  <2>1. Written(<< >>, ending) = FlattenSeq(<< >>)
    <3>1. [i \in DOMAIN << >> |-> IF << >>[i] = "lf" THEN ending ELSE << << >>[i] >>] = << >>
      OBVIOUS
    <3>2. QED
      BY <3>1 DEF Written
  <2>2. QED
    BY <2>1 DEF FlattenSeq
<1>6. ASSUME NEW b \in Lexemes
      PROVE  Written(Append(text, b), ending) = Written(text, ending) \o Break(b, ending)
  <2> DEFINE longer == Append(text, b)
             more   == [i \in 1..n + 1 |-> Break(longer[i], ending)]
  <2>1. DOMAIN longer = 1..n + 1 /\ longer[n + 1] = b /\ \A i \in 1..n : longer[i] = text[i]
    BY <1>1 DEF Texts
  <2>2. \A i \in 1..n + 1 : longer[i] \in Lexemes
    <3> TAKE i \in 1..n + 1
    <3>1. i \in 1..n \/ i = n + 1
      BY <1>1
    <3>2. QED
      BY <1>1, <2>1, <3>1
  <2> HIDE DEF longer
  <2>3. more \in [1..n + 1 -> Seq(Lexemes)]
    BY <2>2, EndingIsText DEF Texts
  <2>4. Written(longer, ending) = FlattenSeq(more)
    BY <2>1 DEF Written, Break
  <2>5. n + 1 \in 1..n + 1 /\ \A i \in 1..n : i \in 1..n + 1
    BY <1>1
  <2>6. more[n + 1] = Break(b, ending) /\ [i \in 1..n |-> more[i]] = parts
    BY <1>1, <2>1, <2>5
  <2> HIDE DEF more, parts
  <2>7. FlattenSeq(more) = FlattenSeq([i \in 1..n |-> more[i]]) \o more[n + 1]
    BY <1>1, <2>3, FlattenGrows
  <2>8. QED
    BY <1>3, <2>4, <2>6, <2>7 DEF longer
<1>7. QED
  BY <1>4, <1>5, <1>6

\* Two texts are written one after another.
LEMMA WrittenConcat ==
  ASSUME NEW first \in Texts, NEW second \in Texts, NEW ending \in Endings
  PROVE  Written(first \o second, ending) = Written(first, ending) \o Written(second, ending)
<1> DEFINE part(n) == SubSeq(second, 1, n)
           W(text) == Written(text, ending)
           T == {n \in Nat : n <= Len(second) => W(first \o part(n)) = W(first) \o W(part(n))}
<1>1. Len(second) \in Nat
  BY DEF Texts
<1>2. 0 \in T
  <2>1. part(0) = << >> /\ first \o << >> = first
    BY <1>1, ConcatEmptySeq DEF Texts
  <2>2. W(<< >>) = << >> /\ W(first) \o << >> = W(first)
    BY EmptyIsText, WrittenSteps, ConcatEmptySeq DEF Texts
  <2> HIDE DEF W
  <2>3. QED
    BY <2>1, <2>2
<1>3. ASSUME NEW n \in Nat, n \in T PROVE n + 1 \in T
  <2> SUFFICES ASSUME n + 1 <= Len(second)
               PROVE  W(first \o part(n + 1)) = W(first) \o W(part(n + 1))
    OBVIOUS
  <2> DEFINE b == second[n + 1]
             s == part(n)
             e == Break(b, ending)
  <2>1. s \in Texts /\ b \in Lexemes /\ part(n + 1) = Append(s, b)
    BY PrefixGrows DEF Texts
  <2>2. W(first \o s) = W(first) \o W(s)
    <3>1. n <= Len(second)
      BY <1>1
    <3>2. QED
      BY <1>3, <3>1
  <2> HIDE DEF part, T, b, s
  <2>3. first \o s \in Texts /\ first \o Append(s, b) = Append(first \o s, b)
    <3>1. first \in Seq(Lexemes) /\ s \in Seq(Lexemes)
      BY <2>1 DEF Texts
    <3>2. first \o s \in Seq(Lexemes)
      BY <3>1
    <3>3. Append(first \o s, b) = first \o Append(s, b)
      BY <2>1, AppendToSecond, Zenon
    <3>4. QED
      BY <3>2, <3>3 DEF Texts
  <2>4. e \in Texts /\ W(first) \in Texts /\ W(s) \in Texts
    BY <2>1, EndingIsText, WrittenSteps
  <2>5. W(Append(first \o s, b)) = W(first \o s) \o e
    BY <2>1, <2>3, WrittenSteps
  <2>6. W(Append(s, b)) = W(s) \o e
    BY <2>1, WrittenSteps
  <2> HIDE DEF W, e
  <2>7. (W(first) \o W(s)) \o e = W(first) \o (W(s) \o e)
    <3> DEFINE x == W(first)
               y == W(s)
    <3>1. x \in Texts /\ y \in Texts /\ e \in Texts
      BY <2>4
    <3> HIDE DEF x, y
    <3>2. (x \o y) \o e = x \o (y \o e)
      BY <3>1, ThreeParts, SMTT(60)
    <3>3. QED
      BY <3>2 DEF x, y
  <2>8. QED
    BY <2>1, <2>2, <2>3, <2>5, <2>6, <2>7
<1>4. Nat \subseteq T
  <2> HIDE DEF T
  <2>1. QED
    BY <1>2, <1>3, Induction
<1>5. W(first \o part(Len(second))) = W(first) \o W(part(Len(second)))
  <2> HIDE DEF part, W
  <2>1. QED
    BY <1>1, <1>4
<1>6. part(Len(second)) = second
  BY SubSeqFull DEF Texts
<1>7. QED
  BY <1>5, <1>6

\* A text of one line is written as it is.
LEMMA WrittenUnbroke ==
  ASSUME NEW text \in Texts, Unbroke(text), NEW ending \in Endings
  PROVE  Written(text, ending) = text
<1> DEFINE part(n) == SubSeq(text, 1, n)
           W(t) == Written(t, ending)
           T == {n \in Nat : n <= Len(text) => W(part(n)) = part(n)}
<1>1. Len(text) \in Nat
  BY DEF Texts
<1>2. 0 \in T
  <2>1. part(0) = << >>
    BY <1>1 DEF Texts
  <2>2. W(<< >>) = << >>
    BY EmptyIsText, WrittenSteps
  <2>3. QED
    BY <2>1, <2>2
<1>3. ASSUME NEW n \in Nat, n \in T PROVE n + 1 \in T
  <2> SUFFICES ASSUME n + 1 <= Len(text) PROVE W(part(n + 1)) = part(n + 1)
    OBVIOUS
  <2> DEFINE b == text[n + 1]
             s == part(n)
  <2>1. s \in Texts /\ b \in Lexemes /\ part(n + 1) = Append(s, b)
    BY PrefixGrows DEF Texts
  <2>2. Break(b, ending) = <<b>>
    <3>1. n + 1 \in 1..Len(text)
      BY <1>1
    <3>2. QED
      BY <3>1 DEF Unbroke, Break, Breaks
  <2>3. W(s) = s
    <3>1. n <= Len(text)
      BY <1>1
    <3>2. QED
      BY <1>3, <3>1
  <2> HIDE DEF part, T, b, s
  <2>4. W(Append(s, b)) = W(s) \o <<b>>
    BY <2>1, <2>2, WrittenSteps
  <2>5. s \o <<b>> = Append(s, b)
    BY <2>1, AppendIsConcat DEF Texts
  <2> HIDE DEF W
  <2>6. QED
    BY <2>1, <2>3, <2>4, <2>5
<1>4. Nat \subseteq T
  <2> HIDE DEF T
  <2>1. QED
    BY <1>2, <1>3, Induction
<1>5. W(part(Len(text))) = part(Len(text))
  <2> HIDE DEF part, W
  <2>1. QED
    BY <1>1, <1>4
<1>6. part(Len(text)) = text
  BY SubSeqFull DEF Texts
<1>7. QED
  BY <1>5, <1>6

\* A break is written as the server writes it.
LEMMA WrittenBreak ==
  ASSUME NEW ending \in Endings
  PROVE  <<"lf">> \in Texts /\ Written(<<"lf">>, ending) = ending
<1>1. <<"lf">> \in Texts /\ <<"lf">> = Append(<< >>, "lf")
  BY LexemeNames, EndingIsText
<1>2. Written(Append(<< >>, "lf"), ending) = Written(<< >>, ending) \o ending
  BY LexemeNames, EmptyIsText, WrittenSteps DEF Break
<1>3. Written(<< >>, ending) = << >> /\ << >> \o ending = ending
  BY EmptyIsText, WrittenSteps, EndingIsText, ConcatEmptySeq DEF Texts
<1>4. QED
  BY <1>1, <1>2, <1>3

\* No text is taken for none.
LEMMA AbsentIsNoText == Absent \notin Texts
<1> SUFFICES ASSUME Absent \in Texts PROVE FALSE
  OBVIOUS
<1>1. Len(Absent) = 1 /\ Absent[1] = "absent"
  BY DEF Absent
<1>2. "absent" \in Lexemes
  BY <1>1 DEF Texts
<1>3. "absent" \notin Words
  BY WordsAssumption
<1>4. QED
  BY <1>2, <1>3 DEF Lexemes, Breaks, Openings

\* A field of one line, and that it is none if it was.
LEMMA FoldedIs ==
  ASSUME NEW text \in Fields
  PROVE  /\ Folded(text) \in Fields /\ (Folded(text) = Absent) = (text = Absent)
         /\ Folded(text) # Absent => /\ Folded(text) \in Texts /\ Unbroke(Folded(text))
                                     /\ ~Contains(Folded(text), "nul")
<1>1. CASE text = Absent
  <2>1. Folded(Absent) = Absent
    <3>1. DOMAIN Absent = 1..1 /\ Absent[1] = "absent" /\ Absent = [i \in 1..1 |-> "absent"]
      BY DEF Absent
    <3>2. "absent" \notin Breaks \cup {"nul"}
      BY DEF Breaks
    <3> HIDE DEF Absent
    <3>3. \A i \in DOMAIN Absent : Absent[i] = "absent"
      BY <3>1
    <3>4. Folded(Absent) = [i \in 1..1 |-> "absent"]
      BY <3>1, <3>2, <3>3 DEF Folded
    <3>5. QED
      BY <3>1, <3>4
  <2>2. QED
    BY <1>1, <2>1 DEF Fields
<1>2. CASE text # Absent
  <2> DEFINE f == Folded(text)
             n == Len(text)
  <2>1. text \in Texts /\ n \in Nat /\ DOMAIN text = 1..n /\ \A i \in 1..n : text[i] \in Lexemes
    BY <1>2 DEF Fields, Texts
  <2>2. f \in [1..n -> Lexemes]
    BY <2>1 DEF Folded, Lexemes
  <2>3. f \in Texts /\ Len(f) = n
    BY <2>1, <2>2 DEF Texts
  <2>4. \A i \in 1..n : f[i] \notin Breaks /\ f[i] # "nul"
    BY <2>1 DEF Folded, Breaks
  <2>5. f # Absent
    BY <2>3, AbsentIsNoText
  <2> HIDE DEF f
  <2>6. Unbroke(f) /\ ~Contains(f, "nul")
    BY <2>3, <2>4 DEF Unbroke, Contains
  <2>7. QED
    BY <1>2, <2>3, <2>5, <2>6 DEF f, Fields
<1>3. QED
  BY <1>1, <1>2

\* What a line says, by its opening.
Said(v, opening, value) ==
  CASE opening = "event:" -> [v EXCEPT !.event = value]
    [] opening = "data:" -> [v EXCEPT !.data = @ \o Append(value, "lf")]
    [] opening = "id:" -> IF Contains(value, "nul") THEN v ELSE [v EXCEPT !.pending = value]
    [] opening = "retry:" /\ Len(value) = 1 /\ value[1] \in DOMAIN Millis ->
         [v EXCEPT !.out = Append(@, Hint(Millis[value[1]]))]
    [] OTHER -> v

\* The end of the line says it.
LEMMA EndedField ==
  ASSUME NEW v \in Views, v.line = << >>, NEW opening \in Openings, NEW value \in Texts
  PROVE  Ended([v EXCEPT !.line = <<opening>> \o value]) = Said(v, opening, value)
<1> DEFINE line == <<opening>> \o value
           w    == [v EXCEPT !.line = line]
<1>1. /\ Head(line) = opening /\ Tail(line) = value
      /\ Names(line, "event", "event:") = (opening = "event:")
      /\ Names(line, "data", "data:") = (opening = "data:")
      /\ Names(line, "id", "id:") = (opening = "id:")
  BY OpenedLine
<1> HIDE DEF line
<1>2. w.line = line /\ [w EXCEPT !.line = << >>] = v
  BY DEF Views
<1> HIDE DEF w
<1>3. Ended(w) = Valued(v, line)
  BY <1>2 DEF Ended
<1>4. Valued(v, line) = Said(v, opening, value)
  BY <1>1 DEF Valued, Said
<1>5. QED
  BY <1>3, <1>4 DEF w, line

\* A line, as it is written.
LEMMA FieldRead ==
  ASSUME NEW v \in Views, v.line = << >>, LastOf(v.out, "event") = 0,
         NEW opening \in Openings, NEW value \in Texts, Unbroke(value),
         NEW ending \in Endings
  PROVE  /\ Field(opening, value) \in Texts
         /\ Leads(v, Written(Field(opening, value), ending),
                  Said(v, opening, value), ending)
<1> DEFINE line == <<opening>> \o value
           u    == [v EXCEPT !.line = line]
<1>1. line \in Texts /\ line # << >> /\ <<"lf">> \in Texts /\ opening \notin Breaks
  BY OpenedLine, WrittenBreak
<1>2. Leads(v, line, u, ending)
  BY FieldLeads
<1>3. Unbroke(line)
  <2>1. DOMAIN line = 1..Len(value) + 1 /\ Len(line) = Len(value) + 1 /\ Len(value) \in Nat
        /\ line[1] = opening
    BY DEF Texts
  <2>2. \A i \in 1..Len(value) : line[i + 1] = value[i]
    BY DEF Texts
  <2> HIDE DEF line
  <2>3. ASSUME NEW i \in 1..Len(line) PROVE line[i] \notin Breaks
    <3>1. i = 1 \/ (i - 1 \in 1..Len(value) /\ (i - 1) + 1 = i)
      BY <2>1
    <3>2. QED
      BY <1>1, <2>1, <2>2, <3>1 DEF Unbroke
  <2>4. QED
    BY <2>3 DEF Unbroke
<1> HIDE DEF line
<1>4. Written(line, ending) = line /\ Written(<<"lf">>, ending) = ending
  BY <1>1, <1>3, WrittenUnbroke, WrittenBreak
<1>5. Written(line \o <<"lf">>, ending) = line \o ending
  <2> DEFINE lf == <<"lf">>
  <2>1. line \in Texts /\ lf \in Texts
    BY <1>1
  <2> HIDE DEF lf
  <2>2. Written(line \o lf, ending) = Written(line, ending) \o Written(lf, ending)
    BY <2>1, WrittenConcat
  <2>3. QED
    BY <1>4, <2>2 DEF lf
<1>6. u.line = line /\ u.last = v.last /\ u.out = v.out
  BY DEF Views
<1> HIDE DEF u
<1>7. Leads(u, ending, Ended(u), ending)
  BY <1>1, <1>6, LineEnds
<1>8. Leads(v, line \o ending, Ended(u), ending)
  BY <1>1, <1>2, <1>6, <1>7, LeadsOn, EndingIsText
<1>9. line \o <<"lf">> \in Texts
  BY <1>1, ConcatProperties DEF Texts
<1>10. Field(opening, value) = line \o <<"lf">>
  BY AbsentIsNoText DEF Field, line
<1>11. Ended(u) = Said(v, opening, value)
  BY EndedField DEF u, line
<1>12. QED
  BY <1>5, <1>8, <1>9, <1>10, <1>11

\* In a line of data: s is what the lines before it said, w what is in it so far.
DataView(v, s, w) == [v EXCEPT !.line = <<"data:">> \o w, !.data = s]

\* It is a view, on a line that is open.
LEMMA DataViewIs ==
  ASSUME NEW v \in Views, NEW s \in Texts, NEW w \in Texts
  PROVE  LET u == DataView(v, s, w)
         IN  /\ u \in Views /\ u.line = <<"data:">> \o w /\ u.line # << >> /\ u.data = s
             /\ u.last = v.last /\ u.out = v.out
<1> DEFINE line == <<"data:">> \o w
<1>1. line \in Texts /\ line # << >>
  BY OpenedLine DEF Openings
<1> HIDE DEF line
<1>2. QED
  BY <1>1 DEF DataView, Views, line

\* A break in a payload ends one data line and opens the next.
LEMMA DataBreak ==
  ASSUME NEW v \in Views, v.line = << >>, LastOf(v.out, "event") = 0,
         NEW s \in Texts, NEW w \in Texts, NEW ending \in Endings
  PROVE  /\ s \o Append(w, "lf") \in Texts
         /\ Leads(DataView(v, s, w), Written(<<"lf", "data:">>, ending),
                  DataView(v, s \o Append(w, "lf"), << >>), ending)
<1> DEFINE u    == DataView(v, s, w)
           more == s \o Append(w, "lf")
           v0   == [v EXCEPT !.data = s]
           v1   == [v EXCEPT !.data = more]
           lf   == <<"lf">>
           mark == <<"data:">>
<1>1. "data:" \in Openings /\ "lf" \in Lexemes
  BY LexemeNames DEF Openings
<1>2. more \in Texts
  <2>1. Append(w, "lf") \in Seq(Lexemes) /\ s \in Seq(Lexemes)
    BY <1>1 DEF Texts
  <2>2. QED
    BY <2>1, ConcatProperties DEF Texts
<1>3. u \in Views /\ u.line # << >> /\ u.last = v.last /\ u.out = v.out
  BY DataViewIs
<1>4. Ended(u) = v1
  <2>1. v0 \in Views /\ v0.line = << >> /\ v0.data = s
    BY DEF Views
  <2>2. u = [v0 EXCEPT !.line = mark \o w]
    BY DEF DataView, Views
  <2> HIDE DEF u, v0, more
  <2>3. Ended([v0 EXCEPT !.line = <<"data:">> \o w]) = [v0 EXCEPT !.data = @ \o Append(w, "lf")]
    <3>1. Ended([v0 EXCEPT !.line = <<"data:">> \o w]) = Said(v0, "data:", w)
      BY <1>1, <2>1, EndedField
    <3>2. QED
      BY <3>1 DEF Said
  <2>4. [v0 EXCEPT !.data = @ \o Append(w, "lf")] = [v0 EXCEPT !.data = more]
    BY <2>1 DEF more
  <2>5. [v0 EXCEPT !.data = more] = v1
    BY DEF v0, Views
  <2>6. QED
    BY <2>2, <2>3, <2>4, <2>5
<1> HIDE DEF more
<1>5. v1 \in Views /\ v1.line = << >> /\ v1.last = v.last /\ v1.out = v.out
  BY <1>2 DEF Views
<1>6. [v1 EXCEPT !.line = mark \o << >>] = DataView(v, more, << >>)
  BY DEF DataView, Views
<1> HIDE DEF u, v1
<1>7. Leads(u, ending, v1, ending)
  BY <1>3, <1>4, LineEnds
<1>8. << >> \in Texts /\ Unbroke(<< >>)
  BY EmptyIsText DEF Unbroke
<1>9. Leads(v1, mark \o << >>, [v1 EXCEPT !.line = mark \o << >>], ending)
  BY <1>1, <1>5, <1>8, FieldLeads
<1>10. mark \o << >> = mark /\ mark \in Texts /\ lf \in Texts
  <2>1. mark \in Seq(Lexemes)
    BY <1>1 DEF Lexemes
  <2>2. QED
    BY <2>1, ConcatEmptySeq, WrittenBreak DEF Texts
<1>11. Written(<<"lf", "data:">>, ending) = ending \o mark
  <2>1. Written(mark, ending) = mark
    <3>1. Unbroke(mark)
      BY DEF Unbroke, Breaks
    <3>2. QED
      BY <1>10, <3>1, WrittenUnbroke
  <2>2. Written(lf, ending) = ending
    BY WrittenBreak
  <2>3. <<"lf", "data:">> = lf \o mark
    OBVIOUS
  <2> HIDE DEF lf, mark
  <2>4. Written(lf \o mark, ending) = Written(lf, ending) \o Written(mark, ending)
    BY <1>10, WrittenConcat
  <2>5. QED
    BY <2>1, <2>2, <2>3, <2>4
<1> HIDE DEF mark
<1>12. Leads(u, ending \o mark, DataView(v, more, << >>), ending)
  <2> DEFINE last == DataView(v, more, << >>)
  <2>1. Leads(v1, mark, last, ending) /\ ending \in Texts
    BY <1>6, <1>9, <1>10, EndingIsText
  <2> HIDE DEF last
  <2>2. Leads(u, ending \o mark, last, ending)
    BY <1>3, <1>5, <1>7, <1>10, <2>1, LeadsOn
  <2>3. QED
    BY <2>2 DEF last
<1>13. QED
  BY <1>2, <1>11, <1>12 DEF u, more

\* Other text goes on the line.
LEMMA DataText ==
  ASSUME NEW v \in Views, LastOf(v.out, "event") = 0, NEW s \in Texts, NEW w \in Texts,
         NEW b \in Lexemes \ Breaks, NEW ending \in Endings
  PROVE  /\ Append(w, b) \in Texts
         /\ Leads(DataView(v, s, w), Written(<<b>>, ending), DataView(v, s, Append(w, b)), ending)
<1> DEFINE u    == DataView(v, s, w)
           mark == <<"data:">>
<1>1. u \in Views /\ u.line = mark \o w /\ u.line # << >> /\ u.last = v.last /\ u.out = v.out
  BY DataViewIs
<1>2. Append(w, b) \in Texts
  BY DEF Texts
<1>3. Append(mark \o w, b) = mark \o Append(w, b)
  <2>1. mark \in Seq(Lexemes) /\ w \in Seq(Lexemes)
    BY OpenedLine DEF Texts, Lexemes, Openings
  <2> HIDE DEF mark
  <2>2. QED
    BY <2>1, SMTT(20)
<1>4. [u EXCEPT !.line = Append(@, b)] = DataView(v, s, Append(w, b))
  <2> DEFINE line == mark \o Append(w, b)
  <2>1. Append(u.line, b) = line
    BY <1>1, <1>3
  <2> HIDE DEF line
  <2>2. [u EXCEPT !.line = line] = [v EXCEPT !.line = line, !.data = s]
    BY DEF DataView, Views
  <2>3. QED
    BY <2>1, <2>2 DEF line, DataView
<1>5. Written(<<b>>, ending) = <<b>>
  <2>1. <<b>> \in Texts /\ Unbroke(<<b>>)
    BY EndingIsText DEF Unbroke
  <2>2. QED
    BY <2>1, WrittenUnbroke
<1> HIDE DEF u
<1>6. Leads(u, <<b>>, [u EXCEPT !.line = Append(@, b)], ending)
  BY <1>1, LexemeLeads
<1>7. QED
  BY <1>2, <1>4, <1>5, <1>6 DEF u

\* What the lexeme at a place of a payload is encoded as, and is to mean.
LineAt(data, i) ==
  IF data[i] = "lf" /\ i > 1 /\ data[i - 1] = "cr" THEN << >>
  ELSE IF data[i] \in Breaks THEN <<"lf", "data:">> ELSE <<data[i]>>

UnbrokenAt(data, i) ==
  IF data[i] = "lf" /\ i > 1 /\ data[i - 1] = "cr" THEN << >>
  ELSE IF data[i] \in Breaks THEN <<"lf">> ELSE <<data[i]>>

LinesTo(data, n)    == FlattenSeq([i \in 1..n |-> LineAt(data, i)])
UnbrokenTo(data, n) == FlattenSeq([i \in 1..n |-> UnbrokenAt(data, i)])

\* A function of places, flattened place after place.
LEMMA FlattenTo ==
  ASSUME NEW S, NEW n \in Nat, NEW f \in [1..n -> Seq(S)]
  PROVE  /\ FlattenSeq([i \in 1..0 |-> f[i]]) = << >>
         /\ \A m \in 0..n : FlattenSeq([i \in 1..m |-> f[i]]) \in Seq(S)
         /\ \A m \in 0..n - 1 : FlattenSeq([i \in 1..m + 1 |-> f[i]])
                                  = FlattenSeq([i \in 1..m |-> f[i]]) \o f[m + 1]
<1>1. ASSUME NEW m \in 0..n PROVE FlattenSeq([i \in 1..m |-> f[i]]) \in Seq(S)
  <2> DEFINE seqs == [i \in 1..m |-> f[i]]
  <2>1. seqs \in Seq(Seq(S))
    <3>1. \A i \in 1..m : i \in 1..n
      OBVIOUS
    <3>2. QED
      BY <3>1
  <2> HIDE DEF seqs
  <2>2. FlattenSeq(seqs) \in Seq(S)
    BY <2>1, FlattenType
  <2>3. QED
    BY <2>2 DEF seqs
<1>2. ASSUME NEW m \in 0..n - 1
      PROVE  FlattenSeq([i \in 1..m + 1 |-> f[i]]) = FlattenSeq([i \in 1..m |-> f[i]]) \o f[m + 1]
  <2> DEFINE g == [i \in 1..m + 1 |-> f[i]]
  <2>1. m \in Nat /\ m + 1 \in 1..m + 1 /\ \A i \in 1..m + 1 : i \in 1..n
    OBVIOUS
  <2>2. g \in [1..m + 1 -> Seq(S)] /\ g[m + 1] = f[m + 1]
    BY <2>1
  <2>3. [i \in 1..m |-> g[i]] = [i \in 1..m |-> f[i]]
    BY <2>1
  <2> HIDE DEF g
  <2>4. FlattenSeq(g) = FlattenSeq([i \in 1..m |-> g[i]]) \o g[m + 1]
    BY <2>1, <2>2, FlattenGrows
  <2>5. QED
    BY <2>2, <2>3, <2>4 DEF g
<1>3. QED
  BY <1>1, <1>2, FlattenNothing

\* The lines of a payload, from one of its lexemes to the next,
LEMMA LinesSteps ==
  ASSUME NEW data \in Texts
  PROVE  /\ Lines(data) = LinesTo(data, Len(data)) /\ LinesTo(data, 0) = << >>
         /\ \A n \in 0..Len(data) : LinesTo(data, n) \in Texts
         /\ \A n \in 0..Len(data) - 1 : LineAt(data, n + 1) \in Texts
              /\ LinesTo(data, n + 1) = LinesTo(data, n) \o LineAt(data, n + 1)
<1> DEFINE f == [i \in 1..Len(data) |-> LineAt(data, i)]
<1>1. Len(data) \in Nat /\ DOMAIN data = 1..Len(data) /\ \A i \in 1..Len(data) : data[i] \in Lexemes
  BY DEF Texts
<1>2. ASSUME NEW i \in 1..Len(data) PROVE LineAt(data, i) \in Texts
  <2>1. <<"lf", "data:">> \in Seq(Lexemes) /\ <<data[i]>> \in Seq(Lexemes) /\ << >> \in Seq(Lexemes)
    BY <1>1 DEF Lexemes, Breaks, Openings
  <2>2. QED
    BY <2>1 DEF LineAt, Texts
<1>3. f \in [1..Len(data) -> Seq(Lexemes)]
  BY <1>2 DEF Texts
<1>4. ASSUME NEW n \in 0..Len(data)
      PROVE  LinesTo(data, n) = FlattenSeq([i \in 1..n |-> f[i]])
  <2>1. \A i \in 1..n : i \in 1..Len(data)
    BY <1>1
  <2>2. [i \in 1..n |-> f[i]] = [i \in 1..n |-> LineAt(data, i)]
    BY <2>1
  <2>3. QED
    BY <2>2 DEF LinesTo
<1>5. Lines(data) = LinesTo(data, Len(data))
  BY <1>1 DEF Lines, LinesTo, LineAt
<1>6. \A n \in 0..Len(data) - 1 : n \in 0..Len(data) /\ n + 1 \in 0..Len(data)
                                  /\ n + 1 \in 1..Len(data) /\ f[n + 1] = LineAt(data, n + 1)
  BY <1>1
<1> HIDE DEF f
<1>7. 0 \in 0..Len(data)
  BY <1>1
<1>8. /\ FlattenSeq([i \in 1..0 |-> f[i]]) = << >>
      /\ \A m \in 0..Len(data) : FlattenSeq([i \in 1..m |-> f[i]]) \in Seq(Lexemes)
      /\ \A m \in 0..Len(data) - 1 : FlattenSeq([i \in 1..m + 1 |-> f[i]])
                                       = FlattenSeq([i \in 1..m |-> f[i]]) \o f[m + 1]
  BY <1>1, <1>3, FlattenTo, ZenonT(40)
<1>9. LinesTo(data, 0) = << >> /\ \A n \in 0..Len(data) : LinesTo(data, n) \in Texts
  BY <1>4, <1>7, <1>8 DEF Texts
<1>10. ASSUME NEW n \in 0..Len(data) - 1
       PROVE  LinesTo(data, n + 1) = LinesTo(data, n) \o LineAt(data, n + 1)
  BY <1>4, <1>6, <1>8
<1>11. QED
  BY <1>2, <1>5, <1>6, <1>9, <1>10

\* and what it says.
LEMMA UnbrokenSteps ==
  ASSUME NEW data \in Texts
  PROVE  /\ Unbroken(data) = UnbrokenTo(data, Len(data)) /\ UnbrokenTo(data, 0) = << >>
         /\ \A n \in 0..Len(data) : UnbrokenTo(data, n) \in Texts
         /\ \A n \in 0..Len(data) - 1 : UnbrokenAt(data, n + 1) \in Texts
              /\ UnbrokenTo(data, n + 1) = UnbrokenTo(data, n) \o UnbrokenAt(data, n + 1)
<1> DEFINE f == [i \in 1..Len(data) |-> UnbrokenAt(data, i)]
<1>1. Len(data) \in Nat /\ DOMAIN data = 1..Len(data) /\ \A i \in 1..Len(data) : data[i] \in Lexemes
  BY DEF Texts
<1>2. ASSUME NEW i \in 1..Len(data) PROVE UnbrokenAt(data, i) \in Texts
  <2>1. <<"lf">> \in Seq(Lexemes) /\ <<data[i]>> \in Seq(Lexemes) /\ << >> \in Seq(Lexemes)
    BY <1>1 DEF Lexemes, Breaks
  <2>2. QED
    BY <2>1 DEF UnbrokenAt, Texts
<1>3. f \in [1..Len(data) -> Seq(Lexemes)]
  BY <1>2 DEF Texts
<1>4. ASSUME NEW n \in 0..Len(data)
      PROVE  UnbrokenTo(data, n) = FlattenSeq([i \in 1..n |-> f[i]])
  <2>1. \A i \in 1..n : i \in 1..Len(data)
    BY <1>1
  <2>2. [i \in 1..n |-> f[i]] = [i \in 1..n |-> UnbrokenAt(data, i)]
    BY <2>1
  <2>3. QED
    BY <2>2 DEF UnbrokenTo
<1>5. Unbroken(data) = UnbrokenTo(data, Len(data))
  BY <1>1 DEF Unbroken, UnbrokenTo, UnbrokenAt
<1>6. \A n \in 0..Len(data) - 1 : n \in 0..Len(data) /\ n + 1 \in 0..Len(data)
                                  /\ n + 1 \in 1..Len(data) /\ f[n + 1] = UnbrokenAt(data, n + 1)
  BY <1>1
<1> HIDE DEF f
<1>7. 0 \in 0..Len(data)
  BY <1>1
<1>8. /\ FlattenSeq([i \in 1..0 |-> f[i]]) = << >>
      /\ \A m \in 0..Len(data) : FlattenSeq([i \in 1..m |-> f[i]]) \in Seq(Lexemes)
      /\ \A m \in 0..Len(data) - 1 : FlattenSeq([i \in 1..m + 1 |-> f[i]])
                                       = FlattenSeq([i \in 1..m |-> f[i]]) \o f[m + 1]
  BY <1>1, <1>3, FlattenTo, ZenonT(40)
<1>9. UnbrokenTo(data, 0) = << >> /\ \A n \in 0..Len(data) : UnbrokenTo(data, n) \in Texts
  BY <1>4, <1>7, <1>8 DEF Texts
<1>10. ASSUME NEW n \in 0..Len(data) - 1
       PROVE  UnbrokenTo(data, n + 1) = UnbrokenTo(data, n) \o UnbrokenAt(data, n + 1)
  BY <1>4, <1>6, <1>8
<1>11. QED
  BY <1>2, <1>5, <1>6, <1>9, <1>10

\* A payload up to one of its lexemes, as it is written and as it is read.
DataTo(v, data, n, s, w, ending) ==
  /\ s \in Texts /\ w \in Texts /\ s \o w = UnbrokenTo(data, n)
  /\ Leads(v, Written(<<"data:">> \o LinesTo(data, n), ending), DataView(v, s, w), ending)

\* One more lexeme of the payload, whichever it is and whatever came before it.
LEMMA DataStep ==
  ASSUME NEW v \in Views, v.line = << >>, LastOf(v.out, "event") = 0, NEW ending \in Endings,
         NEW data \in Texts, NEW n \in 0..Len(data) - 1, NEW s, NEW w,
         DataTo(v, data, n, s, w, ending)
  PROVE  \E t, x : DataTo(v, data, n + 1, t, x, ending)
<1> DEFINE text == <<"data:">> \o LinesTo(data, n)
           at   == LineAt(data, n + 1)
           b    == data[n + 1]
           u    == DataView(v, s, w)
           so   == UnbrokenTo(data, n)
           un   == UnbrokenAt(data, n + 1)
<1>1. s \in Texts /\ w \in Texts /\ s \o w = so /\ Leads(v, Written(text, ending), u, ending)
  BY DEF DataTo
<1>2. n \in 0..Len(data) /\ n + 1 \in 1..Len(data) /\ Len(data) \in Nat /\ b \in Lexemes
  BY DEF Texts
<1>3. /\ LinesTo(data, n) \in Texts /\ at \in Texts
      /\ LinesTo(data, n + 1) = LinesTo(data, n) \o at
  BY <1>2, LinesSteps
<1>4. so \in Texts /\ UnbrokenTo(data, n + 1) = so \o un
  BY <1>2, UnbrokenSteps
<1>5. text \in Texts
  BY <1>3, OpenedLine DEF Openings
<1>6. <<"data:">> \o LinesTo(data, n + 1) = text \o at
  <2> DEFINE lines == LinesTo(data, n)
             mark  == <<"data:">>
  <2>1. mark \in Seq(Lexemes) /\ lines \in Seq(Lexemes) /\ at \in Seq(Lexemes)
    BY <1>3 DEF Texts, Lexemes, Openings
  <2> HIDE DEF lines, mark, at
  <2>2. mark \o (lines \o at) = (mark \o lines) \o at
    BY <2>1, ConcatAssociative, SMTT(20)
  <2>3. QED
    BY <1>3, <2>2 DEF lines, mark
<1>7. Written(text \o at, ending) = Written(text, ending) \o Written(at, ending)
      /\ Written(text, ending) \in Texts /\ Written(at, ending) \in Texts
  <2> HIDE DEF text, at
  <2>1. QED
    BY <1>3, <1>5, WrittenConcat, WrittenSteps
<1>8. u.last = v.last
  BY <1>1, DataViewIs
<1>9. ASSUME NEW t \in Texts, NEW x \in Texts, t \o x = so \o un,
             Leads(u, Written(at, ending), DataView(v, t, x), ending)
      PROVE  DataTo(v, data, n + 1, t, x, ending)
  <2> HIDE DEF text, at, u, so, un
  <2>1. Leads(v, Written(text, ending) \o Written(at, ending), DataView(v, t, x), ending)
    BY <1>1, <1>7, <1>8, <1>9, LeadsOn
  <2>2. QED
    BY <1>4, <1>6, <1>7, <1>9, <2>1 DEF DataTo
<1>10. CASE b = "lf" /\ n + 1 > 1 /\ data[(n + 1) - 1] = "cr"
  <2>1. at = << >> /\ un = << >>
    BY <1>10 DEF LineAt, UnbrokenAt
  <2>2. Written(at, ending) = << >> /\ so \o << >> = so
    BY <1>4, <2>1, EmptyIsText, WrittenSteps, ConcatEmptySeq DEF Texts
  <2>3. Leads(u, << >>, u, ending)
    <3>1. LastOf(u.out, "event") = 0
      BY <1>1, DataViewIs
    <3>2. QED
      BY <3>1, NothingLeads
  <2>4. DataTo(v, data, n + 1, s, w, ending)
    <3> HIDE DEF at, so, un
    <3>1. s \o w = so \o un
      BY <1>1, <2>1, <2>2
    <3>2. Leads(u, Written(at, ending), DataView(v, s, w), ending)
      BY <2>2, <2>3
    <3>3. QED
      BY <1>1, <1>9, <3>1, <3>2
  <2>5. QED
    BY <2>4
<1>11. CASE ~ (b = "lf" /\ n + 1 > 1 /\ data[(n + 1) - 1] = "cr") /\ b \in Breaks
  <2> DEFINE t == s \o Append(w, "lf")
  <2>1. at = <<"lf", "data:">> /\ un = <<"lf">>
    BY <1>11 DEF LineAt, UnbrokenAt
  <2>2. t \in Texts /\ Leads(u, Written(at, ending), DataView(v, t, << >>), ending)
    BY <1>1, <2>1, DataBreak
  <2>3. t \o << >> = so \o un
    <3>1. s \in Seq(Lexemes) /\ w \in Seq(Lexemes) /\ "lf" \in Lexemes /\ t \in Seq(Lexemes)
          /\ <<"lf">> \in Seq(Lexemes)
      BY <1>1, <2>2, LexemeNames DEF Texts
    <3>2. Append(w, "lf") = w \o <<"lf">>
      BY <3>1, AppendIsConcat
    <3>3. s \o (w \o <<"lf">>) = (s \o w) \o <<"lf">>
      <4> DEFINE lf == <<"lf">>
      <4>1. lf \in Seq(Lexemes)
        BY <3>1
      <4> HIDE DEF lf
      <4>2. s \o (w \o lf) = (s \o w) \o lf
        BY <3>1, <4>1, ConcatAssociative, SMTT(60)
      <4>3. QED
        BY <4>2 DEF lf
    <3>4. t \o << >> = t
      BY <3>1, ConcatEmptySeq
    <3>5. QED
      BY <1>1, <2>1, <3>2, <3>3, <3>4
  <2> HIDE DEF t, at, so, un
  <2>4. DataTo(v, data, n + 1, t, << >>, ending)
    BY <1>9, <2>2, <2>3, EmptyIsText
  <2>5. QED
    BY <2>4
<1>12. CASE b \notin Breaks
  <2> DEFINE x == Append(w, b)
  <2>1. at = <<b>> /\ un = <<b>>
    BY <1>12 DEF LineAt, UnbrokenAt, Breaks
  <2>2. x \in Texts /\ Leads(u, Written(at, ending), DataView(v, s, x), ending)
    BY <1>1, <1>2, <1>12, <2>1, DataText
  <2>3. s \o x = so \o un
    <3> HIDE DEF b
    <3>1. s \in Seq(Lexemes) /\ w \in Seq(Lexemes)
      BY <1>1 DEF Texts
    <3>2. Append(s \o w, b) = s \o Append(w, b)
      BY <1>2, <3>1, SMTT(20)
    <3>3. Append(s \o w, b) = (s \o w) \o <<b>>
      <4>1. s \o w \in Seq(Lexemes)
        BY <3>1
      <4>2. QED
        BY <1>2, <4>1, AppendIsConcat
    <3>4. QED
      BY <1>1, <2>1, <3>2, <3>3
  <2> HIDE DEF x, at, so, un
  <2>4. DataTo(v, data, n + 1, s, x, ending)
    BY <1>1, <1>9, <2>2, <2>3
  <2>5. QED
    BY <2>4
<1>13. QED
  BY <1>10, <1>11, <1>12

\* A payload is read as it is meant, whichever breaks are in it.
LEMMA DataRead ==
  ASSUME NEW v \in Views, v.line = << >>, v.data = << >>, LastOf(v.out, "event") = 0,
         NEW ending \in Endings, NEW data \in Texts
  PROVE  /\ Field("data:", Lines(data)) \in Texts /\ Unbroken(data) \in Texts
         /\ Leads(v, Written(Field("data:", Lines(data)), ending),
                  [v EXCEPT !.data = Append(Unbroken(data), "lf")], ending)
<1> DEFINE T == {n \in Nat : n <= Len(data) => \E s, w : DataTo(v, data, n, s, w, ending)}
           mark == <<"data:">>
           lf   == <<"lf">>
<1>1. Len(data) \in Nat /\ 0 \in 0..Len(data) /\ Len(data) \in 0..Len(data)
  BY DEF Texts
<1>2. "data:" \in Openings /\ mark \in Texts /\ mark \o << >> = mark
      /\ Written(mark, ending) = mark
  <2>1. mark \in Seq(Lexemes)
    BY DEF Lexemes, Openings
  <2>2. Unbroke(mark)
    BY DEF Unbroke, Breaks
  <2>3. QED
    BY <2>1, <2>2, WrittenUnbroke, ConcatEmptySeq DEF Openings, Texts
<1>3. 0 \in T
  <2>1. LinesTo(data, 0) = << >> /\ UnbrokenTo(data, 0) = << >>
    BY LinesSteps, UnbrokenSteps
  <2>2. [v EXCEPT !.line = mark \o << >>] = DataView(v, << >>, << >>)
    BY DEF DataView, Views
  <2>3. Leads(v, mark \o << >>, [v EXCEPT !.line = mark \o << >>], ending)
    <3>1. << >> \in Texts /\ Unbroke(<< >>)
      BY EmptyIsText DEF Unbroke
    <3>2. QED
      BY <1>2, <3>1, FieldLeads
  <2> HIDE DEF mark
  <2>4. << >> \o << >> = << >>
    OBVIOUS
  <2>5. DataTo(v, data, 0, << >>, << >>, ending)
    BY <1>2, <2>1, <2>2, <2>3, <2>4, EmptyIsText DEF DataTo, mark
  <2>6. QED
    BY <2>5
<1>4. ASSUME NEW n \in Nat, n \in T PROVE n + 1 \in T
  <2> SUFFICES ASSUME n + 1 <= Len(data) PROVE \E s, w : DataTo(v, data, n + 1, s, w, ending)
    OBVIOUS
  <2>1. n \in 0..Len(data) - 1 /\ n <= Len(data)
    BY <1>1
  <2>2. PICK s, w : DataTo(v, data, n, s, w, ending)
    BY <1>4, <2>1
  <2>3. QED
    BY <2>1, <2>2, DataStep
<1>5. Nat \subseteq T
  <2> HIDE DEF T
  <2>1. QED
    BY <1>3, <1>4, Induction
<1>6. PICK s, w : DataTo(v, data, Len(data), s, w, ending)
  BY <1>1, <1>5
<1> DEFINE text == mark \o Lines(data)
           u    == DataView(v, s, w)
           all  == Append(Unbroken(data), "lf")
<1>7. /\ s \in Texts /\ w \in Texts /\ s \o w = Unbroken(data)
      /\ Leads(v, Written(text, ending), u, ending)
  BY <1>6, LinesSteps, UnbrokenSteps DEF DataTo
<1>8. Lines(data) \in Texts /\ text \in Texts /\ Unbroken(data) \in Texts /\ lf \in Texts
  <2>1. Lines(data) \in Texts /\ Unbroken(data) \in Texts
    BY <1>1, LinesSteps, UnbrokenSteps
  <2>2. QED
    BY <1>2, <2>1, OpenedLine, WrittenBreak
<1>9. u.line # << >> /\ u.last = v.last /\ u.out = v.out
  BY <1>7, DataViewIs
<1>10. Ended(u) = [v EXCEPT !.data = all]
  <2> DEFINE v0 == [v EXCEPT !.data = s]
  <2>1. v0 \in Views /\ v0.line = << >> /\ v0.data = s
        /\ u = [v0 EXCEPT !.line = mark \o w]
    BY <1>7 DEF DataView, Views
  <2>2. s \o Append(w, "lf") = all
    <3>1. s \in Texts /\ w \in Texts /\ "lf" \in Lexemes
      BY <1>7, LexemeNames
    <3>2. Append(s \o w, "lf") = s \o Append(w, "lf")
      BY <3>1, AppendToSecond, Zenon
    <3>3. QED
      BY <1>7, <3>2
  <2> HIDE DEF v0, u, all
  <2>3. Ended([v0 EXCEPT !.line = <<"data:">> \o w]) = Said(v0, "data:", w)
    BY <1>2, <1>7, <2>1, EndedField
  <2>4. Said(v0, "data:", w) = [v0 EXCEPT !.data = all]
    BY <2>1, <2>2 DEF Said
  <2>5. [v0 EXCEPT !.data = all] = [v EXCEPT !.data = all]
    BY DEF v0, Views
  <2>6. QED
    BY <2>1, <2>3, <2>4, <2>5
<1> HIDE DEF u, all, text, lf
<1>11. Leads(u, ending, Ended(u), ending)
  BY <1>9, LineEnds
<1>12. Written(text \o lf, ending) = Written(text, ending) \o ending
       /\ Written(text, ending) \in Texts /\ ending \in Texts
  <2>1. Written(text \o lf, ending) = Written(text, ending) \o Written(lf, ending)
    BY <1>8, WrittenConcat
  <2>2. QED
    BY <1>8, <2>1, WrittenBreak, WrittenSteps, EndingIsText DEF lf
<1>13. Leads(v, Written(text, ending) \o ending, Ended(u), ending)
  BY <1>7, <1>9, <1>11, <1>12, LeadsOn
<1>14. Field("data:", Lines(data)) = text \o lf /\ text \o lf \in Texts
  <2>1. Lines(data) # Absent
    BY <1>8, AbsentIsNoText
  <2>2. text \o lf \in Texts
    BY <1>8, ConcatProperties DEF Texts
  <2>3. QED
    BY <2>1, <2>2 DEF Field, text, lf
<1>15. QED
  BY <1>8, <1>10, <1>12, <1>13, <1>14 DEF all

-----------------------------------------------------------------------------
(* An event, as it is encoded *)

\* The view of a parser that is between two lines.
Filled(id, out, own, name, data) ==
  [line |-> << >>, data |-> data, event |-> name, pending |-> own, last |-> id, out |-> out]

\* One text after another, as they are written.
LEMMA WrittenOn ==
  ASSUME NEW v, NEW u, NEW w, NEW ending \in Endings, NEW first \in Texts, NEW second \in Texts,
         Leads(v, Written(first, ending), u, ending),
         Leads(u, Written(second, ending), w, ending), u.last = v.last
  PROVE  first \o second \in Texts /\ Leads(v, Written(first \o second, ending), w, ending)
<1>1. Written(first, ending) \in Texts /\ Written(second, ending) \in Texts
  BY WrittenSteps
<1>2. Written(first \o second, ending) = Written(first, ending) \o Written(second, ending)
  BY WrittenConcat
<1>3. first \o second \in Texts
  BY ConcatProperties DEF Texts
<1>4. Leads(v, Written(first, ending) \o Written(second, ending), w, ending)
  BY <1>1, LeadsOn
<1>5. QED
  BY <1>2, <1>3, <1>4

\* A field that is absent is not written, and one that is, is read.
LEMMA FieldOrNone ==
  ASSUME NEW v \in Views, v.line = << >>, LastOf(v.out, "event") = 0,
         NEW opening \in Openings, NEW value \in Fields, value # Absent => Unbroke(value),
         NEW ending \in Endings
  PROVE  /\ Field(opening, value) \in Texts
         /\ Leads(v, Written(Field(opening, value), ending),
                  IF value = Absent THEN v ELSE Said(v, opening, value), ending)
<1>1. CASE value = Absent
  <2>1. Field(opening, value) = << >> /\ Written(<< >>, ending) = << >>
    BY <1>1, EmptyIsText, WrittenSteps DEF Field
  <2>2. Leads(v, << >>, v, ending)
    BY NothingLeads
  <2>3. QED
    BY <1>1, <2>1, <2>2, EmptyIsText
<1>2. CASE value # Absent
  <2>1. value \in Texts
    BY <1>2 DEF Fields
  <2>2. QED
    BY <1>2, <2>1, FieldRead
<1>3. QED
  BY <1>1, <1>2

\* What is filled in is a view.
LEMMA FilledType ==
  ASSUME NEW id \in Fields, NEW out \in Seq(Items), NEW own \in Fields, NEW name \in Fields,
         NEW data \in Texts
  PROVE  /\ Filled(id, out, own, name, data) \in Views
         /\ Filled(id, out, own, name, data).line = << >>
         /\ Filled(id, out, own, name, data).data = data
         /\ Filled(id, out, own, name, data).last = id
         /\ Filled(id, out, own, name, data).out = out
BY EmptyIsText DEF Filled, Views

\* The hint, of one number.
HintOf(e) == IF e.retry = Absent THEN << >> ELSE <<Hint(Millis[e.retry[1]])>>

\* It is read from its line.
LEMMA RetryRead ==
  ASSUME NEW e \in Event, NEW id \in Fields, NEW ending \in Endings
  PROVE  /\ Field("retry:", e.retry) \in Texts
         /\ HintOf(e) \in Seq(Items) /\ LastOf(HintOf(e), "event") = 0
         /\ Leads(Filled(id, << >>, Absent, Absent, << >>),
                  Written(Field("retry:", e.retry), ending),
                  Filled(id, HintOf(e), Absent, Absent, << >>), ending)
<1> DEFINE v == Filled(id, << >>, Absent, Absent, << >>)
           u == Filled(id, HintOf(e), Absent, Absent, << >>)
<1>1. LastOf(<< >>, "event") = 0 /\ << >> \in Seq(Items)
  BY EmptyItems
<1>2. v \in Views /\ v.line = << >> /\ v.out = << >>
  <2> DEFINE nothing == << >>
  <2>1. nothing \in Seq(Items) /\ nothing \in Texts /\ Absent \in Fields
    BY <1>1, EmptyIsText
  <2> HIDE DEF nothing
  <2>2. Filled(id, nothing, Absent, Absent, nothing) \in Views
        /\ Filled(id, nothing, Absent, Absent, nothing).line = << >>
        /\ Filled(id, nothing, Absent, Absent, nothing).out = nothing
    BY <2>1, FilledType
  <2>3. QED
    BY <2>2 DEF nothing
<1>3. "retry:" \in Openings
  BY DEF Openings
<1>4. CASE e.retry = Absent
  <2>1. HintOf(e) = << >>
    BY <1>4 DEF HintOf
  <2>2. e.retry \in Fields
    BY <1>4, EmptyIsText
  <2> HIDE DEF v
  <2>3. /\ Field("retry:", e.retry) \in Texts
        /\ Leads(v, Written(Field("retry:", e.retry), ending), v, ending)
    BY <1>1, <1>2, <1>3, <1>4, <2>2, FieldOrNone
  <2>4. QED
    BY <1>1, <2>1, <2>3 DEF v
<1>5. CASE e.retry # Absent
  <2>1. PICK word \in DOMAIN Millis : e.retry = <<word>>
    BY <1>5 DEF Event
  <2>2. word \in Words /\ word \in Lexemes /\ word \notin Breaks
    BY WordsAssumption DEF Lexemes
  <2> DEFINE value == <<word>>
  <2>3. value \in Texts /\ Unbroke(value) /\ Len(value) = 1 /\ value[1] = word
    BY <2>2 DEF Texts, Unbroke
  <2>4. value # Absent
    BY <2>3, AbsentIsNoText
  <2>5. HintOf(e) = <<Hint(Millis[word])>>
    BY <2>1, <2>4 DEF HintOf
  <2> HIDE DEF value
  <2>6. Append(<< >>, Hint(Millis[word])) = HintOf(e)
    BY <2>5
  <2>7. HintOf(e) \in Seq(Items) /\ LastOf(HintOf(e), "event") = 0
    <3>1. Hint(Millis[word]) \in Items
      BY DEF Hint, Items
    <3>2. LastOf(Append(<< >>, Hint(Millis[word])), "event") = 0
      BY <1>1, HintIsNoEvent
    <3>3. Append(<< >>, Hint(Millis[word])) \in Seq(Items)
      BY <1>1, <3>1
    <3>4. QED
      BY <2>6, <3>2, <3>3
  <2>8. Said(v, "retry:", value) = u
    <3>1. Said(v, "retry:", value) = [v EXCEPT !.out = Append(@, Hint(Millis[value[1]]))]
      BY <2>3 DEF Said
    <3>2. [v EXCEPT !.out = Append(@, Hint(Millis[word]))] = u
      BY <2>6 DEF Filled
    <3>3. QED
      BY <2>3, <3>1, <3>2
  <2> HIDE DEF v, u
  <2>9. /\ Field("retry:", value) \in Texts
        /\ Leads(v, Written(Field("retry:", value), ending), Said(v, "retry:", value), ending)
    BY <1>1, <1>2, <1>3, <2>3, FieldRead
  <2>10. QED
    BY <2>1, <2>7, <2>8, <2>9 DEF v, u, value
<1>6. QED
  BY <1>4, <1>5

\* The id, the name and the comment, a line each.
LEMMA LinesRead ==
  ASSUME NEW e \in Event, NEW id \in Fields, NEW ending \in Endings, NEW out \in Seq(Items),
         LastOf(out, "event") = 0
  PROVE  /\ Field("id:", Folded(e.id)) \in Texts /\ Field("event:", Folded(e.name)) \in Texts
         /\ Field(":", Folded(e.comment)) \in Texts
         /\ Leads(Filled(id, out, Absent, Absent, << >>),
                  Written(Field("id:", Folded(e.id)), ending),
                  Filled(id, out, Folded(e.id), Absent, << >>), ending)
         /\ Leads(Filled(id, out, Folded(e.id), Absent, << >>),
                  Written(Field("event:", Folded(e.name)), ending),
                  Filled(id, out, Folded(e.id), Folded(e.name), << >>), ending)
         /\ \A data \in Texts :
              Leads(Filled(id, out, Folded(e.id), Folded(e.name), data),
                    Written(Field(":", Folded(e.comment)), ending),
                    Filled(id, out, Folded(e.id), Folded(e.name), data), ending)
<1> DEFINE own  == Folded(e.id)
           name == Folded(e.name)
           note == Folded(e.comment)
<1>1. e.id \in Fields /\ e.name \in Fields /\ e.comment \in Fields
  BY DEF Event, Fields
<1>2. /\ own \in Fields /\ (own # Absent => Unbroke(own) /\ ~Contains(own, "nul"))
      /\ name \in Fields /\ (name # Absent => Unbroke(name))
      /\ note \in Fields /\ (note # Absent => Unbroke(note))
  BY <1>1, FoldedIs
<1>3. "id:" \in Openings /\ "event:" \in Openings /\ ":" \in Openings
  BY DEF Openings
<1> HIDE DEF own, name, note
<1>4. /\ Field("id:", own) \in Texts
      /\ Leads(Filled(id, out, Absent, Absent, << >>), Written(Field("id:", own), ending),
               Filled(id, out, own, Absent, << >>), ending)
  <2> DEFINE v == Filled(id, out, Absent, Absent, << >>)
  <2>1. v \in Views /\ v.line = << >> /\ v.out = out
    BY EmptyIsText, FilledType
  <2>2. (IF own = Absent THEN v ELSE Said(v, "id:", own)) = Filled(id, out, own, Absent, << >>)
    BY <1>2 DEF Said, Filled
  <2> HIDE DEF v
  <2>3. /\ Field("id:", own) \in Texts
        /\ Leads(v, Written(Field("id:", own), ending),
                 IF own = Absent THEN v ELSE Said(v, "id:", own), ending)
    BY <1>2, <1>3, <2>1, FieldOrNone
  <2>4. QED
    BY <2>2, <2>3 DEF v
<1>5. /\ Field("event:", name) \in Texts
      /\ Leads(Filled(id, out, own, Absent, << >>), Written(Field("event:", name), ending),
               Filled(id, out, own, name, << >>), ending)
  <2> DEFINE v == Filled(id, out, own, Absent, << >>)
  <2>1. v \in Views /\ v.line = << >> /\ v.out = out
    BY <1>2, EmptyIsText, FilledType
  <2>2. (IF name = Absent THEN v ELSE Said(v, "event:", name)) = Filled(id, out, own, name, << >>)
    BY DEF Said, Filled
  <2> HIDE DEF v
  <2>3. /\ Field("event:", name) \in Texts
        /\ Leads(v, Written(Field("event:", name), ending),
                 IF name = Absent THEN v ELSE Said(v, "event:", name), ending)
    BY <1>2, <1>3, <2>1, FieldOrNone
  <2>4. QED
    BY <2>2, <2>3 DEF v
<1>6. /\ Field(":", note) \in Texts
      /\ \A data \in Texts :
           Leads(Filled(id, out, own, name, data), Written(Field(":", note), ending),
                 Filled(id, out, own, name, data), ending)
  <2> SUFFICES ASSUME NEW data \in Texts
               PROVE  /\ Field(":", note) \in Texts
                      /\ Leads(Filled(id, out, own, name, data), Written(Field(":", note), ending),
                               Filled(id, out, own, name, data), ending)
    BY EmptyIsText
  <2> DEFINE v == Filled(id, out, own, name, data)
  <2>1. v \in Views /\ v.line = << >> /\ v.out = out
    BY <1>2, FilledType
  <2>2. (IF note = Absent THEN v ELSE Said(v, ":", note)) = v
    BY DEF Said
  <2> HIDE DEF v
  <2>3. /\ Field(":", note) \in Texts
        /\ Leads(v, Written(Field(":", note), ending),
                 IF note = Absent THEN v ELSE Said(v, ":", note), ending)
    BY <1>2, <1>3, <2>1, FieldOrNone
  <2>4. QED
    BY <2>2, <2>3 DEF v
<1>7. QED
  BY <1>4, <1>5, <1>6 DEF own, name, note

\* The fields of an event, before the blank line.
DataFields(e) == IF e.data = Absent THEN << >> ELSE Field("data:", Lines(e.data))

FieldsOf(e) ==
  Field("retry:", e.retry) \o Field("id:", Folded(e.id)) \o Field("event:", Folded(e.name))
    \o DataFields(e) \o Field(":", Folded(e.comment))

\* The data they leave, of which the last break is no part.
DataOf(e) == IF e.data = Absent THEN << >> ELSE Append(Unbroken(e.data), "lf")

\* They are read, or there are none.
LEMMA DataFieldsRead ==
  ASSUME NEW e \in Event, NEW id \in Fields, NEW ending \in Endings, NEW out \in Seq(Items),
         LastOf(out, "event") = 0, NEW own \in Fields, NEW name \in Fields
  PROVE  /\ DataFields(e) \in Texts /\ DataOf(e) \in Texts
         /\ Leads(Filled(id, out, own, name, << >>), Written(DataFields(e), ending),
                  Filled(id, out, own, name, DataOf(e)), ending)
<1> DEFINE v == Filled(id, out, own, name, << >>)
<1>1. v \in Views /\ v.line = << >> /\ v.out = out /\ v.data = << >>
  BY EmptyIsText, FilledType
<1>2. CASE e.data = Absent
  <2>1. DataFields(e) = << >> /\ DataOf(e) = << >> /\ Written(<< >>, ending) = << >>
    BY <1>2, EmptyIsText, WrittenSteps DEF DataFields, DataOf
  <2> HIDE DEF v
  <2>2. Leads(v, << >>, v, ending)
    BY <1>1, NothingLeads
  <2>3. QED
    BY <2>1, <2>2, EmptyIsText DEF v
<1>3. CASE e.data # Absent
  <2>1. e.data \in Texts
    BY <1>3 DEF Event
  <2>2. DataFields(e) = Field("data:", Lines(e.data)) /\ DataOf(e) = Append(Unbroken(e.data), "lf")
    BY <1>3 DEF DataFields, DataOf
  <2>3. [v EXCEPT !.data = DataOf(e)] = Filled(id, out, own, name, DataOf(e))
    BY DEF Filled
  <2> HIDE DEF v
  <2>4. /\ DataFields(e) \in Texts /\ Unbroken(e.data) \in Texts
        /\ Leads(v, Written(DataFields(e), ending), [v EXCEPT !.data = DataOf(e)], ending)
    BY <1>1, <2>1, <2>2, DataRead
  <2>5. DataOf(e) \in Texts
    BY <2>2, <2>4, LexemeNames, AppendProperties DEF Texts
  <2>6. QED
    BY <2>3, <2>4, <2>5 DEF v
<1>4. QED
  BY <1>2, <1>3

\* They leave what they say, and until the blank line no frame.
LEMMA FieldsRead ==
  ASSUME NEW e \in Event, NEW id \in Fields, NEW ending \in Endings
  PROVE  /\ FieldsOf(e) \in Texts /\ Encode(e) = FieldsOf(e) \o <<"lf">>
         /\ Leads(Filled(id, << >>, Absent, Absent, << >>), Written(FieldsOf(e), ending),
                  Filled(id, HintOf(e), Folded(e.id), Folded(e.name), DataOf(e)), ending)
<1> DEFINE own  == Folded(e.id)
           name == Folded(e.name)
           out  == HintOf(e)
           v0 == Filled(id, << >>, Absent, Absent, << >>)
           v1 == Filled(id, out, Absent, Absent, << >>)
           v2 == Filled(id, out, own, Absent, << >>)
           v3 == Filled(id, out, own, name, << >>)
           v4 == Filled(id, out, own, name, DataOf(e))
           t1 == Field("retry:", e.retry)
           t2 == Field("id:", own)
           t3 == Field("event:", name)
           t4 == DataFields(e)
           t5 == Field(":", Folded(e.comment))
<1>1. out \in Seq(Items) /\ LastOf(out, "event") = 0
      /\ t1 \in Texts /\ Leads(v0, Written(t1, ending), v1, ending)
  BY RetryRead
<1>2. own \in Fields /\ name \in Fields
  BY FoldedIs DEF Event, Fields
<1>3. t4 \in Texts /\ DataOf(e) \in Texts /\ Leads(v3, Written(t4, ending), v4, ending)
  <2> HIDE DEF own, name, out
  <2>1. QED
    BY <1>1, <1>2, DataFieldsRead
<1>4. /\ t2 \in Texts /\ t3 \in Texts /\ t5 \in Texts
      /\ Leads(v1, Written(t2, ending), v2, ending)
      /\ Leads(v2, Written(t3, ending), v3, ending)
      /\ Leads(v4, Written(t5, ending), v4, ending)
  <2>1. out \in Seq(Items) /\ LastOf(out, "event") = 0 /\ DataOf(e) \in Texts
    BY <1>1, <1>3
  <2> HIDE DEF out
  <2>2. QED
    BY <2>1, <1>3, LinesRead
<1>5. v0.last = id /\ v1.last = id /\ v2.last = id /\ v3.last = id /\ v4.last = id
  BY DEF Filled
<1>6. FieldsOf(e) = t1 \o t2 \o t3 \o t4 \o t5
  BY DEF FieldsOf
<1>7. Encode(e) = t1 \o t2 \o t3 \o t4 \o t5 \o <<"lf">>
  BY DEF Encode, DataFields
<1> HIDE DEF own, name, out, v0, v1, v2, v3, v4, t1, t2, t3, t4, t5
<1>8. t1 \o t2 \in Texts /\ Leads(v0, Written(t1 \o t2, ending), v2, ending)
  BY <1>1, <1>4, <1>5, WrittenOn
<1>9. t1 \o t2 \o t3 \in Texts /\ Leads(v0, Written(t1 \o t2 \o t3, ending), v3, ending)
  BY <1>4, <1>5, <1>8, WrittenOn
<1>10. t1 \o t2 \o t3 \o t4 \in Texts
       /\ Leads(v0, Written(t1 \o t2 \o t3 \o t4, ending), v4, ending)
  BY <1>3, <1>5, <1>9, WrittenOn
<1>11. t1 \o t2 \o t3 \o t4 \o t5 \in Texts
       /\ Leads(v0, Written(t1 \o t2 \o t3 \o t4 \o t5, ending), v4, ending)
  BY <1>4, <1>5, <1>10, WrittenOn
<1>12. QED
  BY <1>6, <1>7, <1>11 DEF own, name, out, v0, v4

\* Without the last element, a sequence is what that was appended to.
LEMMA FrontOfAppended ==
  ASSUME NEW S, NEW s \in Seq(S), NEW b \in S
  PROVE  Append(s, b) # << >> /\ Front(Append(s, b)) = s
<1> DEFINE t == Append(s, b)
<1>1. t \in Seq(S) /\ Len(t) = Len(s) + 1 /\ Len(s) \in Nat /\ Len(s) \in 0..Len(t)
      /\ \A i \in 1..Len(s) : t[i] = s[i]
  OBVIOUS
<1> HIDE DEF t
<1>2. Front(t) = SubSeq(t, 1, Len(s))
  <2>1. Len(t) - 1 = Len(s)
    BY <1>1
  <2>2. QED
    BY <2>1 DEF Front
<1>3. /\ SubSeq(t, 1, Len(s)) \in Seq(S) /\ Len(SubSeq(t, 1, Len(s))) = Len(s)
      /\ \A i \in 1..Len(s) : SubSeq(t, 1, Len(s))[i] = t[i]
  BY <1>1, PrefixIs
<1>4. SubSeq(t, 1, Len(s)) = s
  BY <1>1, <1>3, SeqEqual
<1>5. t # << >>
  BY <1>1
<1>6. QED
  BY <1>2, <1>4, <1>5 DEF t

\* A parser that is past a blank line.
Done(sawCr, id, out) ==
  [line |-> << >>, sawCr |-> sawCr, atStart |-> FALSE, data |-> << >>, event |-> Absent,
   pending |-> Absent, last |-> id, out |-> out]

\* What an event means is what its fields have left, and a frame if it has data.
LEMMA MeantOf ==
  ASSUME NEW e \in Event, NEW id
  PROVE  /\ ForceAfter(SayingOf(e), id) = CASE Folded(e.id) = Absent -> id
                                            [] Folded(e.id) = << >>  -> Absent
                                            [] OTHER                 -> Folded(e.id)
         /\ HintOf(e) \in Seq(Items)
         /\ e.data = Absent => Meant(SayingOf(e), id) = HintOf(e) /\ DataOf(e) = << >>
         /\ e.data # Absent =>
              /\ DataOf(e) # << >> /\ Front(DataOf(e)) = Unbroken(e.data)
              /\ Meant(SayingOf(e), id)
                   = Append(HintOf(e), Frame(Folded(e.name), Unbroken(e.data),
                                             ForceAfter(SayingOf(e), id), Folded(e.id)))
<1> DEFINE saying == SayingOf(e)
           after  == ForceAfter(saying, id)
<1>1. saying.own = Folded(e.id) /\ saying.name = Folded(e.name)
      /\ saying.data = (IF e.data = Absent THEN Absent ELSE Unbroken(e.data))
      /\ saying.hint = (IF e.retry = Absent THEN Off ELSE Millis[e.retry[1]])
  BY DEF SayingOf
<1> HIDE DEF saying
<1>2. after = CASE Folded(e.id) = Absent -> id
                [] Folded(e.id) = << >>  -> Absent
                [] OTHER                 -> Folded(e.id)
  BY <1>1 DEF ForceAfter
<1> HIDE DEF after
<1>3. HintOf(e) \in Seq(Items)
  BY EmptyIsText, RetryRead, EndingIsText DEF Endings
<1>4. (IF saying.hint = Off THEN << >> ELSE <<Hint(saying.hint)>>) = HintOf(e)
  <2>1. CASE e.retry = Absent
    BY <1>1, <2>1 DEF HintOf
  <2>2. CASE e.retry # Absent
    <3>1. PICK word \in DOMAIN Millis : e.retry = <<word>>
      BY <2>2 DEF Event
    <3>2. Millis[word] \in Nat /\ e.retry[1] = word
      BY <3>1, WordsAssumption
    <3>3. saying.hint = Millis[word]
      BY <1>1, <2>2, <3>2
    <3>4. saying.hint # Off
      BY <3>2, <3>3 DEF Off
    <3>5. QED
      BY <2>2, <3>2, <3>3, <3>4 DEF HintOf
  <2>3. QED
    BY <2>1, <2>2
<1>5. CASE e.data = Absent
  <2>1. Meant(saying, id) = HintOf(e) \o << >>
    BY <1>1, <1>4, <1>5 DEF Meant
  <2>2. HintOf(e) \o << >> = HintOf(e)
    BY <1>3, ConcatEmptySeq
  <2>3. QED
    BY <1>2, <1>3, <1>5, <2>1, <2>2 DEF DataOf, saying, after
<1>6. CASE e.data # Absent
  <2>1. e.data \in Texts
    BY <1>6 DEF Event
  <2>2. Unbroken(e.data) \in Texts
    BY <2>1, UnbrokenSteps DEF Texts
  <2>3. DataOf(e) = Append(Unbroken(e.data), "lf")
    BY <1>6 DEF DataOf
  <2> DEFINE un == Unbroken(e.data)
             frame == Frame(Folded(e.name), un, after, Folded(e.id))
  <2>4. un \in Seq(Lexemes) /\ "lf" \in Lexemes
    BY <2>2, LexemeNames DEF Texts
  <2> HIDE DEF un
  <2>5. Append(un, "lf") # << >> /\ Front(Append(un, "lf")) = un
    BY <2>4, FrontOfAppended
  <2>6. un # Absent
    BY <2>2, AbsentIsNoText DEF un
  <2>7. saying.data = un
    BY <1>1, <1>6 DEF un
  <2>8. Meant(saying, id) = HintOf(e) \o <<frame>>
    BY <1>1, <1>4, <2>6, <2>7 DEF Meant, after
  <2>9. HintOf(e) \o <<frame>> = Append(HintOf(e), frame)
    <3> HIDE DEF frame
    <3>1. QED
      BY <1>3
  <2>10. QED
    BY <1>2, <1>3, <1>6, <2>3, <2>5, <2>8, <2>9 DEF un, frame, saying, after
<1>7. QED
  BY <1>5, <1>6

\* Two parsers with the same fields are one.
LEMMA ParserIs ==
  ASSUME NEW p \in Parsers, NEW q \in Parsers, p.line = q.line, p.sawCr = q.sawCr,
         p.atStart = q.atStart, p.data = q.data, p.event = q.event, p.pending = q.pending,
         p.last = q.last, p.out = q.out
  PROVE  p = q
BY DEF Parsers

\* It is a parser.
LEMMA DoneType ==
  ASSUME NEW sawCr \in BOOLEAN, NEW id \in Fields, NEW out \in Seq(Items)
  PROVE  Done(sawCr, id, out) \in Parsers
BY EmptyIsText DEF Done, Parsers

\* The blank line, for a parser that has read the fields.
LEMMA Dispatched ==
  ASSUME NEW e \in Event, NEW id \in Fields, NEW c \in Parsers, ~c.atStart, c.line = << >>,
         View(c) = Filled(id, HintOf(e), Folded(e.id), Folded(e.name), DataOf(e))
  PROVE  Dispatch(c) = Done(c.sawCr, ForceAfter(SayingOf(e), id), Meant(SayingOf(e), id))
<1> DEFINE after == ForceAfter(SayingOf(e), id)
           frame == Frame(c.event, Front(c.data), after, c.pending)
           q     == [c EXCEPT !.pending = Absent, !.last = after, !.event = Absent, !.data = << >>]
           d     == Dispatch(c)
<1>1. /\ c.data = DataOf(e) /\ c.event = Folded(e.name) /\ c.pending = Folded(e.id)
      /\ c.last = id /\ c.out = HintOf(e)
  BY DEF View, Filled
<1>2. after = CASE c.pending = Absent -> c.last
                [] c.pending = << >>  -> Absent
                [] OTHER              -> c.pending
  BY <1>1, MeantOf
<1>3. after \in Fields
  <2> HIDE DEF after
  <2>1. QED
    BY <1>2, EmptyIsText DEF Parsers
<1> HIDE DEF after
<1>4. d = IF c.data = << >> THEN q ELSE [q EXCEPT !.out = Append(@, frame)]
  BY <1>2 DEF Dispatch
<1>5. /\ q \in Parsers /\ q.line = << >> /\ q.sawCr = c.sawCr /\ q.atStart = FALSE
      /\ q.data = << >> /\ q.event = Absent /\ q.pending = Absent /\ q.last = after
      /\ q.out = c.out
  BY <1>3, EmptyIsText DEF Parsers
<1>6. d \in Parsers
  BY DispatchType
<1> HIDE DEF q, frame, d
<1>7. /\ d.line = << >> /\ d.sawCr = c.sawCr /\ d.atStart = FALSE
      /\ d.data = << >> /\ d.event = Absent /\ d.pending = Absent /\ d.last = after
      /\ d.out = IF c.data = << >> THEN c.out ELSE Append(c.out, frame)
  BY <1>4, <1>5 DEF Parsers
<1>8. d.out = Meant(SayingOf(e), id)
  <2>1. CASE e.data = Absent
    BY <1>1, <1>7, <2>1, MeantOf
  <2>2. CASE e.data # Absent
    <3>1. c.data # << >> /\ Meant(SayingOf(e), id) = Append(c.out, frame)
      BY <1>1, <2>2, MeantOf DEF after, frame
    <3>2. QED
      BY <1>7, <3>1
  <2>3. QED
    BY <2>1, <2>2
<1> DEFINE done == Done(c.sawCr, after, d.out)
<1>9. /\ done.line = << >> /\ done.sawCr = c.sawCr /\ done.atStart = FALSE
      /\ done.data = << >> /\ done.event = Absent /\ done.pending = Absent
      /\ done.last = after /\ done.out = d.out
  BY DEF Done
<1>10. done \in Parsers
  <2>1. c.sawCr \in BOOLEAN /\ d.out \in Seq(Items)
    BY <1>6 DEF Parsers
  <2>2. QED
    BY <1>3, <2>1, DoneType
<1> HIDE DEF done
<1>11. d = done
  BY <1>6, <1>7, <1>9, <1>10, ParserIs
<1>12. QED
  BY <1>8, <1>11 DEF d, done, after

\* What a break ends in.
LEMMA EndingEnds ==
  /\ Last(<<"lf">>) = "lf" /\ Last(<<"cr">>) = "cr" /\ Last(<<"cr", "lf">>) = "lf"
  /\ <<"cr">> \in Texts /\ Append(<<"cr">>, "lf") = <<"cr", "lf">>
<1>1. Len(<<"lf">>) = 1 /\ Len(<<"cr">>) = 1 /\ Len(<<"cr", "lf">>) = 2
  OBVIOUS
<1>2. <<"lf">>[1] = "lf" /\ <<"cr">>[1] = "cr" /\ <<"cr", "lf">>[2] = "lf"
  OBVIOUS
<1>3. <<"cr", "lf">> = Append(<<"cr">>, "lf") /\ <<"cr">> \in Texts
  BY LexemeNames DEF Texts
<1>4. QED
  BY <1>1, <1>2, <1>3 DEF Last

\* The blank line as it is written: the frame comes with the last id, at the
\* first lexeme of the break.
LEMMA BlankRead ==
  ASSUME NEW e \in Event, NEW id \in Fields, NEW ending \in Endings, NEW p \in Parsers,
         View(p) = Filled(id, HintOf(e), Folded(e.id), Folded(e.name), DataOf(e)),
         Steady(p, ending)
  PROVE  LET after == ForceAfter(SayingOf(e), id)
             all   == Meant(SayingOf(e), id)
         IN  /\ Ran(p, ending) = Done(Last(ending) = "cr", after, all)
             /\ \A k \in 0..Len(ending) :
                  LET q == Ran(p, SubSeq(ending, 1, k))
                  IN  Awaits(q, id) \/ (q.last = after /\ q.out = all)
<1> DEFINE after == ForceAfter(SayingOf(e), id)
           all   == Meant(SayingOf(e), id)
           fine(q) == Awaits(q, id) \/ (q.last = after /\ q.out = all)
<1>1. Whole(p) = << >> /\ p.last = id /\ p.out = HintOf(e)
  BY ViewType DEF Filled
<1>2. Awaits(p, id)
  BY <1>1, RetryRead DEF Awaits
<1>3. ASSUME NEW b \in Breaks, p.sawCr => b = "cr"
      PROVE  FeedOne(p, b) = Done(b = "cr", after, all)
  <2> DEFINE c == Cleared(p, b = "cr")
  <2>1. /\ c \in Parsers /\ ~c.atStart /\ c.line = << >> /\ c.sawCr = (b = "cr")
        /\ View(c) = [View(p) EXCEPT !.line = << >>]
        /\ FeedOne(p, b) = Dispatch(c)
    BY <1>1, <1>3, BreakEnds
  <2> HIDE DEF c
  <2>2. [View(p) EXCEPT !.line = << >>] = View(p)
    BY DEF Filled
  <2>3. Dispatch(c) = Done(c.sawCr, after, all)
    BY <2>1, <2>2, Dispatched
  <2>4. QED
    BY <2>1, <2>3
<1>4. ASSUME NEW q PROVE (q = Done(TRUE, after, all) \/ q = Done(FALSE, after, all)) => fine(q)
  BY DEF Done
<1> HIDE DEF after, all
<1>5. Ran(p, << >>) = p /\ \A b \in Lexemes : Ran(p, <<b>>) = FeedOne(p, b)
  BY RanOne
<1>6. ASSUME NEW b \in Breaks, ending = <<b>>
      PROVE  /\ Ran(p, ending) = Done(Last(ending) = "cr", after, all)
             /\ \A k \in 0..Len(ending) : fine(Ran(p, SubSeq(ending, 1, k)))
  <2>1. p.sawCr => b = "cr"
    BY <1>6 DEF Steady
  <2>2. b \in Lexemes /\ Last(ending) = b
    BY <1>6 DEF Lexemes, Last
  <2>3. Ran(p, <<b>>) = Done(b = "cr", after, all)
    BY <1>3, <1>5, <2>1, <2>2
  <2>4. fine(Ran(p, << >>)) /\ fine(Ran(p, <<b>>))
    <3> HIDE DEF fine
    <3>1. fine(p)
      BY <1>2 DEF fine
    <3>2. (b = "cr") = TRUE \/ (b = "cr") = FALSE
      OBVIOUS
    <3>3. fine(Ran(p, <<b>>))
      BY <1>4, <2>3, <3>2
    <3>4. QED
      BY <1>5, <3>1, <3>3
  <2>5. QED
    <3> HIDE DEF fine
    <3>1. ASSUME NEW k \in 0..Len(ending) PROVE fine(Ran(p, SubSeq(ending, 1, k)))
      BY <1>6, <2>4, PrefixesOfOne
    <3>2. QED
      BY <1>6, <2>2, <2>3, <3>1
<1>7. ASSUME ending = <<"cr", "lf">>
      PROVE  /\ Ran(p, ending) = Done(Last(ending) = "cr", after, all)
             /\ \A k \in 0..Len(ending) : fine(Ran(p, SubSeq(ending, 1, k)))
  <2>1. ~p.sawCr
    BY <1>7 DEF Steady
  <2>2. "cr" \in Lexemes /\ "lf" \in Lexemes /\ "cr" \in Breaks
    BY LexemeNames DEF Breaks
  <2> DEFINE cr == <<"cr">>
             q  == Done(TRUE, after, all)
  <2>3. Ran(p, cr) = q
    BY <1>3, <1>5, <2>1, <2>2
  <2>4. Append(cr, "lf") = ending /\ cr \in Texts /\ Last(ending) = "lf"
    <3>1. Append(cr, "lf") = ending
      BY <1>7, EndingEnds
    <3>2. cr \in Texts
      BY <2>2 DEF Texts
    <3>3. Last(ending) = "lf"
      BY <1>7, EndingEnds
    <3>4. QED
      BY <3>1, <3>2, <3>3
  <2>5. Ran(p, ending) = FeedOne(q, "lf")
    <3> HIDE DEF cr, q
    <3>1. Ran(p, Append(cr, "lf")) = FeedOne(Ran(p, cr), "lf")
      BY <2>2, <2>4, RanSteps
    <3>2. QED
      BY <2>3, <2>4, <3>1
  <2>6. FeedOne(q, "lf") = Done(FALSE, after, all)
    BY DEF FeedOne, Done
  <2>7. fine(Ran(p, << >>)) /\ fine(Ran(p, cr)) /\ fine(Ran(p, ending))
    <3> HIDE DEF fine
    <3>1. fine(p)
      BY <1>2 DEF fine
    <3>2. QED
      BY <1>4, <1>5, <2>3, <2>5, <2>6, <3>1
  <2>8. QED
    <3> HIDE DEF fine, q
    <3>1. ASSUME NEW k \in 0..Len(ending) PROVE fine(Ran(p, SubSeq(ending, 1, k)))
      <4>1. SubSeq(ending, 1, k) \in {<< >>, <<"cr">>, ending}
        BY <1>7, PrefixesOfTwo
      <4>2. QED
        BY <2>7, <4>1
    <3>2. Ran(p, ending) = Done(Last(ending) = "cr", after, all)
      BY <2>4, <2>5, <2>6
    <3>3. QED
      BY <3>1, <3>2
<1>8. "lf" \in Breaks /\ "cr" \in Breaks
  BY DEF Breaks
<1>9. QED
  <2>1. /\ Ran(p, ending) = Done(Last(ending) = "cr", after, all)
        /\ \A k \in 0..Len(ending) : fine(Ran(p, SubSeq(ending, 1, k)))
    <3> HIDE DEF fine
    <3>1. QED
      BY <1>6, <1>7, <1>8 DEF Endings
  <2>2. QED
    BY <2>1 DEF after, all

\* Where a parser is between two messages, or before the first.
LEMMA StartsFilled ==
  ASSUME NEW manner \in Styles, NEW id \in Ids,
         NEW p \in {Greeted(manner, id), Between(manner, id)}
  PROVE  /\ p \in Parsers /\ p.out = << >> /\ Steady(p, manner.ending)
         /\ View(p) = Filled(id, << >>, Absent, Absent, << >>)
<1>1. p \in Parsers /\ p.out = << >>
  BY GreetedType, BetweenType
<1>2. id \in Fields /\ id # << >>
  BY IdsAreFields
<1> DEFINE n == NewParser(id)
<1>3. n = [line |-> << >>, sawCr |-> FALSE, atStart |-> TRUE, data |-> << >>, event |-> Absent,
           pending |-> Absent, last |-> id, out |-> << >>]
  BY <1>2 DEF NewParser
<1>4. CASE p = Between(manner, id)
  <2> DEFINE ends == Last(manner.ending) = "cr"
  <2>1. p = [n EXCEPT !.sawCr = ends, !.atStart = FALSE]
    BY <1>4 DEF Between
  <2> HIDE DEF ends, n
  <2>2. /\ p.line = << >> /\ p.sawCr = ends /\ p.atStart = FALSE /\ p.data = << >>
        /\ p.event = Absent /\ p.pending = Absent /\ p.last = id
    BY <1>3, <2>1
  <2>3. Whole(p) = << >>
    BY <2>2 DEF Whole
  <2>4. ends => manner.ending = <<"cr">>
    <3>1. manner.ending \in Endings
      BY SayingAssumption DEF Style, Endings
    <3>2. QED
      BY <3>1, EndingEnds DEF ends, Endings
  <2>5. QED
    BY <1>1, <2>2, <2>3, <2>4 DEF View, Filled, Steady
<1>5. CASE p = Greeted(manner, id)
  <2>1. n \in Parsers /\ n.out = << >>
    BY <1>2, NewParserType
  <2>2. \A text \in Texts : Feed(n, text) = Ran(n, text)
    <3> HIDE DEF n
    <3>1. ASSUME NEW text \in Texts PROVE Feed(n, text) = Ran(n, text)
      <4>1. Feed(n, text) \in Parsers
        BY <2>1, FeedType
      <4>2. << >> \o Feed(n, text).out = Feed(n, text).out
        BY <4>1, ConcatEmptySeq DEF Parsers
      <4>3. QED
        BY <2>1, <4>1, <4>2 DEF Ran, After, Parsers
    <3>2. QED
      BY <3>1
  <2>3. p = Ran(n, Greeting(manner))
    BY <1>5, <2>2, GreetingIsText DEF Greeted
  <2>4. View(n) = Filled(id, << >>, Absent, Absent, << >>) /\ ~n.sawCr
    BY <1>3 DEF View, Whole, Filled
  <2> HIDE DEF n
  <2>5. CASE Greeting(manner) = << >>
    BY <1>1, <2>1, <2>3, <2>4, <2>5, RanOne DEF Steady
  <2>6. CASE Greeting(manner) = <<"bom">>
    <3>1. "bom" \in Lexemes /\ "bom" \notin Breaks
      BY DEF Lexemes, Breaks
    <3>2. p = FeedOne(n, "bom")
      BY <2>1, <2>3, <2>6, <3>1, RanOne
    <3>3. FeedOne(n, "bom") = [[n EXCEPT !.sawCr = FALSE] EXCEPT !.line = Append(@, "bom")]
      BY <3>1 DEF FeedOne, Breaks
    <3>4. Append(<< >>, "bom") = <<"bom">> /\ Head(<<"bom">>) = "bom" /\ Tail(<<"bom">>) = << >>
      OBVIOUS
    <3>5. /\ p.line = <<"bom">> /\ p.sawCr = FALSE /\ p.atStart = TRUE /\ p.data = << >>
          /\ p.event = Absent /\ p.pending = Absent /\ p.last = id
      BY <1>3, <3>2, <3>3, <3>4
    <3>6. Whole(p) = << >>
      BY <3>4, <3>5 DEF Whole
    <3>7. QED
      BY <1>1, <3>5, <3>6 DEF View, Filled, Steady
  <2>7. QED
    BY <2>5, <2>6, GreetingIsText
<1>6. QED
  BY <1>4, <1>5

\* A parser past the blank line is one between two messages.
LEMMA DoneIsBetween ==
  ASSUME NEW manner \in Styles, NEW id \in Fields, id # << >>, NEW out \in Seq(Items)
  PROVE  Done(Last(manner.ending) = "cr", id, out) = [Between(manner, id) EXCEPT !.out = out]
<1> DEFINE ends == Last(manner.ending) = "cr"
           n == NewParser(id)
           d == Done(ends, id, out)
           b == Between(manner, id)
           q == [b EXCEPT !.out = out]
<1>1. n \in Parsers /\ n.last = id
  BY NewParserType
<1>2. n.line = << >> /\ n.data = << >> /\ n.event = Absent /\ n.pending = Absent
  BY DEF NewParser
<1>3. b = [n EXCEPT !.sawCr = ends, !.atStart = FALSE]
  BY DEF Between
<1>4. ends \in BOOLEAN
  OBVIOUS
<1>5. d \in Parsers
  <2> HIDE DEF ends
  <2>1. QED
    BY <1>4, DoneType
<1> HIDE DEF ends, n, b
<1>6. /\ b \in Parsers /\ b.line = << >> /\ b.sawCr = ends /\ b.atStart = FALSE
      /\ b.data = << >> /\ b.event = Absent /\ b.pending = Absent /\ b.last = id
  BY <1>1, <1>2, <1>3, <1>4 DEF Parsers
<1>7. /\ q \in Parsers /\ q.line = << >> /\ q.sawCr = ends /\ q.atStart = FALSE
      /\ q.data = << >> /\ q.event = Absent /\ q.pending = Absent /\ q.last = id
      /\ q.out = out
  BY <1>6 DEF Parsers
<1>8. /\ d.line = << >> /\ d.sawCr = ends /\ d.atStart = FALSE
      /\ d.data = << >> /\ d.event = Absent /\ d.pending = Absent /\ d.last = id
      /\ d.out = out
  BY DEF Done
<1> HIDE DEF d, q
<1>9. d = q
  BY <1>5, <1>7, <1>8, ParserIs
<1>10. QED
  BY <1>9 DEF d, q, b, ends

\* What a parser that has completed nothing makes of a chunk.
LEMMA FeedIsRan ==
  ASSUME NEW p \in Parsers, p.out = << >>, NEW text \in Texts
  PROVE  Feed(p, text) = Ran(p, text)
<1>1. Feed(p, text) \in Parsers
  BY FeedType
<1>2. << >> \o Feed(p, text).out = Feed(p, text).out
  BY <1>1, ConcatEmptySeq DEF Parsers
<1>3. QED
  BY <1>1, <1>2 DEF Ran, After, Parsers

\* What an event means, whatever it is: the round trip of the encoder
\* (protocol.rs, Event::encode) and the parser (parse.rs).  A payload with any
\* breaks in it, an id or a name with one, a comment, a hint, in any writing of
\* the breaks, after any id and after a byte-order mark or not: the parser makes of
\* the text the frame that was meant, at once with the id, and nothing before.
THEOREM EventsMeanWhatTheySay ==
  ASSUME NEW e \in Event, NEW manner \in Styles, NEW id \in Ids
  PROVE  IsMeant(SayingOf(e), manner, id)
<1> DEFINE saying == SayingOf(e)
           ending == manner.ending
           first  == Written(FieldsOf(e), ending)
           text   == Written(saying.text, ending)
           after  == ForceAfter(saying, id)
           all    == Meant(saying, id)
           v      == Filled(id, << >>, Absent, Absent, << >>)
           u      == Filled(id, HintOf(e), Folded(e.id), Folded(e.name), DataOf(e))
           fine(q) == Awaits(q, id) \/ (q.last = after /\ q.out = all)
<1>1. ending \in Endings /\ ending \in Texts
  <2>1. ending \in Endings
    BY SayingAssumption DEF Style, Endings
  <2>2. QED
    BY <2>1, EndingIsText
<1>2. id \in Fields /\ id # << >>
  BY IdsAreFields
<1>3. FieldsOf(e) \in Texts /\ Encode(e) = FieldsOf(e) \o <<"lf">> /\ Leads(v, first, u, ending)
  <2> HIDE DEF ending
  <2>1. QED
    BY <1>1, <1>2, FieldsRead
<1>4. first \in Texts /\ text = first \o ending /\ text \in Texts
  <2> DEFINE lf == <<"lf">>
  <2>1. lf \in Texts /\ Written(lf, ending) = ending
    BY <1>1, WrittenBreak
  <2>2. saying.text = FieldsOf(e) \o lf
    BY <1>3 DEF SayingOf
  <2> HIDE DEF ending, saying, lf
  <2>3. Written(FieldsOf(e) \o lf, ending) = first \o Written(lf, ending)
    BY <1>1, <1>3, <2>1, WrittenConcat
  <2>4. first \in Texts
    BY <1>1, <1>3, WrittenSteps
  <2> HIDE DEF first
  <2>5. first \o ending \in Texts
    BY <1>1, <2>4, ConcatProperties DEF Texts
  <2>6. QED
    BY <2>1, <2>2, <2>3, <2>4, <2>5
<1>5. after \in Fields /\ after # << >> /\ all \in Seq(Items)
  <2>1. Folded(e.id) \in Fields /\ Folded(e.name) \in Fields
    BY FoldedIs DEF Event, Fields
  <2>2. after = CASE Folded(e.id) = Absent -> id
                  [] Folded(e.id) = << >>  -> Absent
                  [] OTHER                 -> Folded(e.id)
    BY MeantOf
  <2>3. Absent # << >>
    BY EmptyIsText, AbsentIsNoText
  <2> HIDE DEF after
  <2>4. after \in Fields /\ after # << >>
    BY <1>2, <2>1, <2>2, <2>3, EmptyIsText
  <2>5. all \in Seq(Items)
    <3>1. CASE e.data = Absent
      BY <3>1, MeantOf
    <3>2. CASE e.data # Absent
      <4> DEFINE frame == Frame(Folded(e.name), Unbroken(e.data), after, Folded(e.id))
      <4>1. Unbroken(e.data) \in Texts
        BY <1>1, <3>2, UnbrokenSteps DEF Event, Texts
      <4>2. frame \in Items
        BY <2>1, <2>4, <4>1 DEF Frame, Items
      <4>3. all = Append(HintOf(e), frame) /\ HintOf(e) \in Seq(Items)
        BY <3>2, MeantOf DEF after
      <4> HIDE DEF frame
      <4>4. QED
        BY <4>2, <4>3, AppendProperties
    <3>3. QED
      BY <3>1, <3>2
  <2>6. QED
    BY <2>4, <2>5
<1>6. ASSUME NEW p \in {Greeted(manner, id), Between(manner, id)}
      PROVE  /\ Feed(p, text) = [Between(manner, after) EXCEPT !.out = all]
             /\ \A k \in 0..Len(text) : fine(Feed(p, SubSeq(text, 1, k)))
  <2>1. p \in Parsers /\ p.out = << >> /\ Steady(p, ending) /\ View(p) = v
    BY StartsFilled
  <2> DEFINE q == Ran(p, first)
  <2> HIDE DEF ending, saying, first, text, v, u
  <2>2. /\ View(q) = u /\ Steady(q, ending)
        /\ \A k \in 0..Len(first) : Awaits(Ran(p, SubSeq(first, 1, k)), v.last)
    BY <1>3, <2>1 DEF Leads
  <2>3. q \in Parsers /\ \A more \in Texts : Ran(p, first \o more) = Ran(q, more)
    BY <1>4, <2>1, RanSteps
  <2>4. v.last = id
    BY DEF v, Filled
  <2> HIDE DEF q
  <2>5. /\ Ran(q, ending) = Done(Last(ending) = "cr", after, all)
        /\ \A k \in 0..Len(ending) : fine(Ran(q, SubSeq(ending, 1, k)))
    <3>1. View(q) = Filled(id, HintOf(e), Folded(e.id), Folded(e.name), DataOf(e))
      BY <2>2 DEF u
    <3>2. QED
      BY <1>1, <1>2, <2>2, <2>3, <3>1, BlankRead DEF saying
  <2> HIDE DEF after, all
  <2>6. Done(Last(ending) = "cr", after, all) = [Between(manner, after) EXCEPT !.out = all]
    BY <1>5, DoneIsBetween DEF ending
  <2>7. Feed(p, text) = [Between(manner, after) EXCEPT !.out = all]
    BY <1>1, <1>4, <2>1, <2>3, <2>5, <2>6, FeedIsRan
  <2>8. ASSUME NEW k \in 0..Len(text) PROVE fine(Feed(p, SubSeq(text, 1, k)))
    <3> HIDE DEF fine
    <3>1. SubSeq(text, 1, k) \in Texts
      BY <1>4, PrefixIs DEF Texts
    <3>2. Feed(p, SubSeq(text, 1, k)) = Ran(p, SubSeq(text, 1, k))
      BY <2>1, <3>1, FeedIsRan
    <3>3. PrefixOfTwo(first, ending, k)
      BY <1>1, <1>4, CutPrefix DEF Texts
    <3>4. CASE k \in 0..Len(first) /\ SubSeq(first \o ending, 1, k) = SubSeq(first, 1, k)
      BY <1>4, <2>2, <2>4, <3>2, <3>4 DEF fine
    <3>5. ASSUME NEW j \in 0..Len(ending),
                 SubSeq(first \o ending, 1, k) = first \o SubSeq(ending, 1, j)
          PROVE  fine(Feed(p, SubSeq(text, 1, k)))
      <4>1. SubSeq(ending, 1, j) \in Texts
        BY <1>1, PrefixIs DEF Texts
      <4>2. Ran(p, first \o SubSeq(ending, 1, j)) = Ran(q, SubSeq(ending, 1, j))
        BY <2>3, <4>1
      <4>3. QED
        BY <1>4, <2>5, <3>2, <3>5, <4>2
    <3>6. QED
      BY <3>3, <3>4, <3>5 DEF PrefixOfTwo
  <2>9. QED
    BY <2>7, <2>8
<1>7. QED
  BY <1>6 DEF IsMeant, Awaits

-----------------------------------------------------------------------------
(* A server that sends events through the encoder *)

Encoded == \A saying \in Utterances : \E e \in Event : saying = SayingOf(e)

\* What such a server says means what stands beside it.
LEMMA EncodedAreMeant ==
  ASSUME Encoded
  PROVE  SayingsAreMeant
<1> SUFFICES ASSUME NEW saying \in Utterances, NEW manner \in Styles, NEW id \in Ids
             PROVE  IsMeant(saying, manner, id)
  BY DEF SayingsAreMeant
<1>1. PICK e \in Event : saying = SayingOf(e)
  BY DEF Encoded
<1>2. QED
  BY <1>1, EventsMeanWhatTheySay

\* From the server's encoder to the client's handler: whatever events are sent, and
\* however their text is written, cut and broken off, what the client hears of a
\* connection is what they say, in order, and what it waits is what the policy and
\* their hints say.
THEOREM EventsAreHeard ==
  ASSUME Encoded
  PROVE  Spec => [](HeardIsSaid /\ WaitsAreThePolicys)
<1>1. SayingsAreMeant
  BY EncodedAreMeant
<1>2. Spec => []HeardIsSaid
  BY <1>1, ClientHearsWhatIsSaid
<1>3. Spec => []WaitsAreThePolicys
  BY <1>1, WaitsFollowThePolicy
<1>4. QED
  BY <1>2, <1>3, PTL

\* A payload whose only breaks are LF is kept as it is.
LEMMA DataIsKept ==
  ASSUME NEW data \in Texts, \A i \in 1..Len(data) : data[i] # "cr"
  PROVE  Unbroken(data) = data
<1> DEFINE part(n) == SubSeq(data, 1, n)
           T == {n \in Nat : n <= Len(data) => UnbrokenTo(data, n) = part(n)}
<1>1. Len(data) \in Nat
  BY DEF Texts
<1>2. 0 \in T
  <2>1. part(0) = << >>
    BY <1>1 DEF Texts
  <2>2. QED
    BY <2>1, UnbrokenSteps
<1>3. ASSUME NEW n \in Nat, n \in T PROVE n + 1 \in T
  <2> SUFFICES ASSUME n + 1 <= Len(data) PROVE UnbrokenTo(data, n + 1) = part(n + 1)
    OBVIOUS
  <2> DEFINE b == data[n + 1]
             s == part(n)
  <2>1. s \in Texts /\ b \in Lexemes /\ part(n + 1) = Append(s, b)
    BY PrefixGrows DEF Texts
  <2>2. n + 1 \in 1..Len(data) /\ n \in 0..Len(data) - 1 /\ n <= Len(data)
    BY <1>1
  <2>3. UnbrokenAt(data, n + 1) = <<b>>
    <3>1. b # "cr"
      BY <2>2
    <3>2. n + 1 > 1 => n \in 1..Len(data) /\ (n + 1) - 1 = n
      BY <1>1, <2>2
    <3>3. ~ (n + 1 > 1 /\ data[(n + 1) - 1] = "cr")
      BY <3>2
    <3>4. b \in Breaks => b = "lf"
      BY <3>1 DEF Breaks
    <3>5. QED
      BY <3>3, <3>4 DEF UnbrokenAt
  <2>4. UnbrokenTo(data, n) = s
    BY <1>3, <2>2
  <2> HIDE DEF part, T, b, s
  <2>5. UnbrokenTo(data, n + 1) = s \o <<b>>
    BY <2>2, <2>3, <2>4, UnbrokenSteps
  <2>6. s \o <<b>> = Append(s, b)
    BY <2>1, AppendIsConcat DEF Texts
  <2>7. QED
    BY <2>1, <2>5, <2>6
<1>4. Nat \subseteq T
  <2> HIDE DEF T
  <2>1. QED
    BY <1>2, <1>3, Induction
<1>5. UnbrokenTo(data, Len(data)) = part(Len(data))
  <2> HIDE DEF part
  <2>1. QED
    BY <1>1, <1>4
<1>6. part(Len(data)) = data
  BY SubSeqFull DEF Texts
<1>7. QED
  BY <1>5, <1>6, UnbrokenSteps

\* So is a field of one line.
LEMMA LineIsKept ==
  ASSUME NEW text \in Texts, \A i \in 1..Len(text) : text[i] \notin Breaks \cup {"nul"}
  PROVE  Folded(text) = text
<1>1. DOMAIN text = 1..Len(text) /\ text = [i \in 1..Len(text) |-> text[i]]
  BY DEF Texts
<1>2. QED
  BY <1>1 DEF Folded

\* An event that the wire can carry as it is - no CR in its payload, no break and
\* no NUL in its id and name - is heard as it is: what its frame says is its own
\* name, payload and id, and what SayingOf makes of an event is only what the
\* format cannot say.
THEOREM PlainEventsAreKept ==
  ASSUME NEW e \in Event,
         \A text \in {e.id, e.name} :
           text = Absent \/ \A i \in 1..Len(text) : text[i] \notin Breaks \cup {"nul"},
         e.data = Absent \/ \A i \in 1..Len(e.data) : e.data[i] # "cr"
  PROVE  SayingOf(e) = [text |-> Encode(e), name |-> e.name, data |-> e.data, own |-> e.id,
                        hint |-> IF e.retry = Absent THEN Off ELSE Millis[e.retry[1]]]
<1>1. e.id \in Fields /\ e.name \in Fields /\ e.data \in Fields
  BY DEF Event, Fields
<1>2. ASSUME NEW text \in {e.id, e.name} PROVE Folded(text) = text
  <2>1. CASE text = Absent
    BY <1>1, <2>1, FoldedIs
  <2>2. CASE text # Absent
    <3>1. text \in Texts
      BY <1>1, <2>2 DEF Fields
    <3>2. QED
      BY <2>2, <3>1, LineIsKept
  <2>3. QED
    BY <2>1, <2>2
<1>3. e.data # Absent => Unbroken(e.data) = e.data
  BY <1>1, DataIsKept DEF Fields
<1>4. (IF e.data = Absent THEN Absent ELSE Unbroken(e.data)) = e.data
  BY <1>3
<1>5. Folded(e.id) = e.id /\ Folded(e.name) = e.name
  BY <1>2
<1>6. QED
  BY <1>4, <1>5 DEF SayingOf

=============================================================================
