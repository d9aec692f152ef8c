------------------------- MODULE MCResumableStream -------------------------
(* Instances of ResumableStream for TLC. *)
EXTENDS ResumableStream

CONSTANTS p1, p2

OnePublisher  == {p1}
TwoPublishers == {p1, p2}
=============================================================================
