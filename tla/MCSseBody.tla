----------------------------- MODULE MCSseBody -----------------------------
(***************************************************************************)
(* Bounds for SseBody: intervals below a second, of one and a half and of   *)
(* the recommended two; an age below the clock's resolution, one that is    *)
(* announced and one whose ten per cent is a tick; a window and an empty    *)
(* one.                                                                     *)
(***************************************************************************)
EXTENDS SseBody

MCEverys  == {1, 3}
MCAges    == {0, 2, 10}
MCWindows == {<<1, 4>>, <<3, 2>>}
=============================================================================
