----------------------------- MODULE MCRegistry -----------------------------
(***************************************************************************)
(* Bounds for Registry.                                                     *)
(***************************************************************************)
EXTENDS Registry, TLC

CONSTANTS r1, r2, u1, u2, n1

\* Names are counted one by one: one that everybody wants will do.
MCWanted == {{n1}}

\* Subscriptions are interchangeable, and so are URLs.
Symm == Permutations(Regs) \cup Permutations(Urls)
=============================================================================
