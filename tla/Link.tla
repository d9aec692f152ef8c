-------------------------------- MODULE Link --------------------------------
(***************************************************************************)
(* The link state (link.ts): what a surface should say about a stream, a    *)
(* pure function of the transport status, of when it began and of the time. *)
(***************************************************************************)
EXTENDS Integers

CONSTANTS GraceMs,   \* a drop shorter than this is not reported
          OfflineMs  \* one that lasts this long is offline

ASSUME LinkAssumption == GraceMs \in Nat /\ OfflineMs \in Nat

Statuses == {"connecting", "live", "retrying"}

\* "none" stands for no verdict yet.
Links == {"none", "connecting", "live", "reconnecting", "offline"}

LinkTrack == [status : Statuses, since : Int, everLive : BOOLEAN]

\* The track of a stream that has reported nothing.
FirstTrack(status, now) ==
  [status |-> status, since |-> now, everLive |-> status = "live"]

\* A repeated non-live status keeps its "since".
TrackStatus(prev, status, now) ==
  [status   |-> status,
   since    |-> IF prev.status # "live" /\ status # "live" THEN prev.since ELSE now,
   everLive |-> prev.everLive \/ status = "live"]

LinkAt(track, now) ==
  LET down == now - track.since
  IN  IF track.status = "live" THEN "live"
      ELSE IF down >= OfflineMs THEN "offline"
      ELSE IF down < GraceMs THEN IF track.everLive THEN "live" ELSE "none"
      ELSE IF track.everLive THEN "reconnecting" ELSE "connecting"

\* When the verdict may change on its own: the set of that instant, or the
\* empty set when only a status report can change it.
NextDeadline(track, now) ==
  LET grace   == track.since + GraceMs
      offline == track.since + OfflineMs
  IN  IF track.status = "live" THEN {}
      ELSE IF grace > now THEN {grace}
      ELSE IF offline > now THEN {offline}
      ELSE {}
=============================================================================
