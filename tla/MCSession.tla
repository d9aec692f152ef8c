----------------------------- MODULE MCSession -----------------------------
(***************************************************************************)
(* Bounds for Session: the events of this server through its encoder, with  *)
(* what an EventSource makes of them, and texts that other servers send.    *)
(***************************************************************************)
EXTENDS Session

Means(text, name, data, own, hint) ==
  [text |-> text, name |-> name, data |-> data, own |-> own, hint |-> hint]

\* A payload with every break, which tries to pose as a field.
MCFull == [NewEvent EXCEPT !.id = <<"a">>, !.name = <<"n">>, !.retry = <<"4">>,
                           !.data = <<"p", "cr", "id:", "b", "cr", "lf", "q">>]
MCEvent ==
  Means(Encode(MCFull), <<"n">>, <<"p", "lf", "id:", "b", "lf", "q">>, <<"a">>, 4)

\* A snapshot: no id, and a comment that tries the same.
MCPlain    == [NewEvent EXCEPT !.data = << >>, !.comment = <<"c", "lf", "id:", "b">>]
MCSnapshot == Means(Encode(MCPlain), Absent, << >>, Absent, Off)

MCPing == Means(Encode(Ping(<<"p">>)), <<"ping">>, <<"p">>, Absent, Off)

MCResync == Means(Encode(Resync(<<"p">>)), <<"resync">>, <<"p">>, << >>, Off)

\* An id that is no cursor, once folded.
MCFolded == [NewEvent EXCEPT !.id = <<"a", "cr", "lf", "nul", "b">>, !.data = <<"p">>]
MCBroken == Means(Encode(MCFolded), Absent, <<"p">>, <<"a", "sp", "sp", "sp", "b">>, Off)

\* Other servers: an id that no header carries, an id without data, a NUL, a
\* retry that is no number, fields without a value, fields nobody knows.
MCOpaque  == Means(<<"id:", "uni", "lf", "data:", "p", "lf", "lf">>, Absent, <<"p">>, <<"uni">>, Off)
MCIdOnly  == Means(<<"id:", "b", "lf", "lf">>, Absent, Absent, <<"b">>, Off)
MCForeign ==
  Means(<<"retry:", "soon", "lf", "event:", "x", "lf", "event", "lf", "id:", "nul", "b", "lf",
          "x", "data:", "lf", "data", "lf", "lf">>, << >>, << >>, Absent, Off)

MCSayings == {MCEvent, MCSnapshot, MCPing, MCResync, MCBroken, MCOpaque, MCIdOnly, MCForeign}

MCWords == {"a", "b", "c", "n", "p", "q", "u", "x", "4", "soon", "uni", "event", "data",
            "ping", "resync"}

MCMillis == [n \in {"4"} |-> 4]

MCStyles == {[ending |-> <<"lf">>, bom |-> FALSE], [ending |-> <<"cr">>, bom |-> TRUE],
             [ending |-> <<"cr", "lf">>, bom |-> TRUE]}

\* Backoff that grows and is capped, and one without base, floor or eager reopen.
MCSetups ==
  {[url |-> Absent, options |-> [backoff |-> [base |-> 2, max |-> 5, floor |-> 1],
                                 eager |-> 2, retry |-> 3]],
   [url |-> <<"u">>, options |-> [backoff |-> [base |-> 0, max |-> 5, floor |-> 0],
                                  eager |-> Off, retry |-> 3]]}

MCReserved == {"uni", "sp", "nul", "id:", "data:"}

\* Each of them means what stands beside it, and what SayingOf says of an event:
\* the proofs start from the one, and show it for the other.
ASSUME MCAssumption ==
  /\ SayingsAreMeant /\ IdsAreBare /\ UrlsAreCursors
  /\ {SayingOf(e) : e \in {MCFull, MCPlain, Ping(<<"p">>), Resync(<<"p">>), MCFolded}}
       = {MCEvent, MCSnapshot, MCPing, MCResync, MCBroken}

=============================================================================
