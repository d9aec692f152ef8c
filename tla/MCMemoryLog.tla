---------------------------- MODULE MCMemoryLog ----------------------------
(* Instances of MemoryLog for TLC. *)
EXTENDS MemoryLog, TLC

CONSTANTS a, b, c1, c2

OneTopic   == {a}
TwoTopics  == {a, b}
TwoCallers == {c1, c2}

\* The tasks that hold a log are interchangeable, and so are its topics.
Symmetric == Permutations(TwoCallers) \cup Permutations(TwoTopics)
=============================================================================
