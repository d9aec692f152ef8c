---------------------------- MODULE MCRustClient ----------------------------
(***************************************************************************)
(* Bounds for RustClient: events with an id and without, the resync that     *)
(* resets, and pings that announce nothing or more than the default.        *)
(***************************************************************************)
EXTENDS RustClient

Frame(kind, id, every) == [kind |-> kind, id |-> id, every |-> every]

MCFrames == {Frame("event", "a", Off), Frame("event", Keep, Off),
             Frame("resync", NoCursor, Off)} \cup
            {Frame("ping", Keep, every) : every \in {Off, 1}}
=============================================================================
