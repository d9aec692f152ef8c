-------------------------------- MODULE Wire --------------------------------
(***************************************************************************)
(* The wire format: the text of an event (protocol.rs, Event::encode) and   *)
(* the parser that reads it back (parse.rs, Parser::feed).                  *)
(*                                                                          *)
(* A text is a sequence of lexemes: the breaks "lf" and "cr", what opens a  *)
(* field ("data:", with the space after the colon if there is one), a NUL,  *)
(* the byte-order mark, and words, which stand for text with none of these. *)
(* Bytes between two breaks are only collected, so where a word is cut does *)
(* not matter, and where a break is cut (CR from LF) does.                  *)
(***************************************************************************)
EXTENDS Integers, SequencesExt

CONSTANTS Words,   \* text without a lexeme of another kind
          Millis   \* what the words that are numbers say: milliseconds, a u64

Absent == <<"absent">>  \* None

Breaks   == {"lf", "cr"}
Openings == {"retry:", "id:", "event:", "data:", ":"}
Lexemes  == Words \cup Breaks \cup Openings \cup {"sp", "nul", "bom"}
Texts    == Seq(Lexemes)

ASSUME WordsAssumption ==
  /\ Words \cap (Breaks \cup Openings \cup {"sp", "nul", "bom", "absent"}) = {}
  /\ DOMAIN Millis \subseteq Words /\ \A word \in DOMAIN Millis : Millis[word] \in Nat

-----------------------------------------------------------------------------
(* Event: one frame, every field of which is optional *)

Event ==
  [retry : {<<word>> : word \in DOMAIN Millis} \cup {Absent}, id : Texts \cup {Absent},
   name : Texts \cup {Absent}, data : Texts \cup {Absent}, comment : Texts \cup {Absent}]

NewEvent == [retry |-> Absent, id |-> Absent, name |-> Absent,
             data |-> Absent, comment |-> Absent]

Named(name) == [NewEvent EXCEPT !.name = name]

\* The frames of the profile.  An empty id resets the client's cursor.
Resync(payload) == [Named(<<"resync">>) EXCEPT !.id = << >>, !.data = payload]

Ping(payload) == [Named(<<"ping">>) EXCEPT !.data = payload]

\* strip_line_breaks: a field of one line has none inside.
Folded(text) ==
  [i \in DOMAIN text |-> IF text[i] \in Breaks \cup {"nul"} THEN "sp" ELSE text[i]]

\* The lines of a payload, a data field each, whichever break ends them.
Lines(data) ==
  FlattenSeq([i \in DOMAIN data |->
    IF data[i] = "lf" /\ i > 1 /\ data[i - 1] = "cr" THEN << >>
    ELSE IF data[i] \in Breaks THEN <<"lf", "data:">> ELSE <<data[i]>>])

Field(opening, value) == IF value = Absent THEN << >> ELSE <<opening>> \o value \o <<"lf">>

Encode(e) ==
  Field("retry:", e.retry) \o Field("id:", Folded(e.id)) \o Field("event:", Folded(e.name))
    \o (IF e.data = Absent THEN << >> ELSE Field("data:", Lines(e.data)))
    \o Field(":", Folded(e.comment)) \o <<"lf">>

-----------------------------------------------------------------------------
(* Parser: "out" is what a chunk completed *)

NewParser(last) ==
  [line |-> << >>, sawCr |-> FALSE, atStart |-> TRUE, data |-> << >>, event |-> Absent,
   pending |-> Absent, last |-> IF last = << >> THEN Absent ELSE last, out |-> << >>]

Frame(name, data, id, own) ==
  [is |-> "event", name |-> name, data |-> data, id |-> id, own |-> own]

Hint(ms) == [is |-> "retry", ms |-> ms]

\* A blank line: the id counts even without data, which is what makes a frame.
Dispatch(p) ==
  LET last == CASE p.pending = Absent -> p.last
                [] p.pending = << >>  -> Absent
                [] OTHER              -> p.pending
      q    == [p EXCEPT !.pending = Absent, !.last = last, !.event = Absent, !.data = << >>]
  IN  IF p.data = << >> THEN q
      ELSE [q EXCEPT !.out = Append(@, Frame(p.event, Front(p.data), last, p.pending))]

\* A line names a field by its opening, or is the name of one without a value.
Names(line, field, opening) == Head(line) = opening \/ line = <<field>>

Valued(p, line) ==
  LET value == Tail(line)
  IN  CASE Names(line, "event", "event:") -> [p EXCEPT !.event = value]
        [] Names(line, "data", "data:") -> [p EXCEPT !.data = @ \o Append(value, "lf")]
        [] Names(line, "id", "id:") ->
             IF Contains(value, "nul") THEN p ELSE [p EXCEPT !.pending = value]
        [] Head(line) = "retry:" /\ Len(value) = 1 /\ value[1] \in DOMAIN Millis ->
             [p EXCEPT !.out = Append(@, Hint(Millis[value[1]]))]
        [] OTHER -> p

EndLine(p) ==
  LET marked == p.atStart /\ p.line # << >> /\ Head(p.line) = "bom"
      line   == IF marked THEN Tail(p.line) ELSE p.line
      q      == [p EXCEPT !.line = << >>, !.atStart = FALSE]
  IN  IF line = << >> THEN Dispatch(q) ELSE Valued(q, line)

FeedOne(p, b) ==
  LET q == [p EXCEPT !.sawCr = b = "cr"]
  IN  IF p.sawCr /\ b = "lf" THEN q
      ELSE IF b \in Breaks THEN EndLine(q)
      ELSE [q EXCEPT !.line = Append(@, b)]

\* Mutant: a chunk is read as if no CR came before it.
FeedAfresh(p, bytes) ==
  LET fed[n \in 0..Len(bytes)] ==
        IF n = 0 THEN [p EXCEPT !.out = << >>, !.sawCr = FALSE]
        ELSE FeedOne(fed[n - 1], bytes[n])
  IN  fed[Len(bytes)]

\* A chunk.
Feed(p, bytes) ==
  LET fed[n \in 0..Len(bytes)] ==
        IF n = 0 THEN [p EXCEPT !.out = << >>] ELSE FeedOne(fed[n - 1], bytes[n])
  IN  fed[Len(bytes)]

=============================================================================
