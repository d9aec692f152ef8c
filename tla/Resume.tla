------------------------------- MODULE Resume -------------------------------
(***************************************************************************)
(* What a request says of where to resume (cursor.rs, resume.rs, and the    *)
(* header the Rust client adds), on the texts of Wire.                      *)
(***************************************************************************)
EXTENDS Wire

CONSTANTS Reserved,  \* lexemes with a character outside the alphabet of cursors
          Opaque,    \* those of them that no header value may have
          MaxLen     \* of a cursor (128 bytes in the code)

ASSUME AlphabetAssumption == Opaque \subseteq Reserved /\ MaxLen \in Nat

Invalid == <<"invalid">>

IsToken(text) ==
  /\ Len(text) \in 1..MaxLen
  /\ \A i \in DOMAIN text : text[i] \notin Reserved

\* HeaderValue::from_str on the client, to_str on the server.
IsHeader(text) == \A i \in DOMAIN text : text[i] \notin Opaque

\* The header of a request for the last id the client has, if it can be one.
HeaderFor(id) == IF id # Absent /\ IsHeader(id) THEN id ELSE Absent

Trimmed(text) ==
  LET solid == {i \in DOMAIN text : text[i] # "sp"}
  IN  IF solid = {} THEN << >> ELSE SubSeq(text, Min(solid), Max(solid))

\* An empty value counts as absent.
Value(text) == IF text = Absent \/ Trimmed(text) = << >> THEN Absent ELSE Trimmed(text)

\* A cursor, Invalid, or Absent: the header wins over the query, and one that
\* is not ASCII is no header at all.
Resume(header, query) ==
  LET sent == IF header # Absent /\ IsHeader(header) THEN Value(header) ELSE Absent
      raw  == IF sent # Absent THEN sent ELSE Value(query)
  IN  IF raw = Absent THEN Absent ELSE IF IsToken(raw) THEN raw ELSE Invalid

\* Of a request.
FromParts(request) == Resume(request.header, request.query)

=============================================================================
